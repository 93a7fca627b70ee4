-------------------------------- MODULE Wal --------------------------------
(***************************************************************************)
(* The write-ahead log of procmond (procmond/src/wal.rs).                  *)
(*                                                                         *)
(* A WAL file is abstracted to the set of its readable entries and to its  *)
(* length in entries.  An entry is the sequence number the WAL gave it and *)
(* the event it carries; events are numbered in the order in which they    *)
(* are published.  A file that holds a partial entry is "torn": whatever   *)
(* is appended behind the partial bytes is misframed, fails the checksum   *)
(* and is skipped by every later scan and replay.                          *)
(***************************************************************************)
EXTENDS Integers, FiniteSets

CONSTANTS
    RotateAt,   \* rotation_threshold, counted in entries
    MaxEvent,   \* bound: how many events are ever published
    FaultSets   \* the combinations of I/O faults a disk may show

FaultKinds == {"torn", "write", "rotate", "read", "delete"}

ASSUME RotateAtAssumption == RotateAt \in Nat \ {0}
ASSUME MaxEventAssumption == MaxEvent \in Nat
ASSUME FaultsAssumption == FaultSets \subseteq SUBSET FaultKinds

VARIABLES
    len,        \* disk: the WAL files by file sequence number, with their lengths
    entries,    \* disk: the readable entries of all files
    torn,       \* disk: the files that hold a partial entry
    active,     \* the file the open handle appends to
    cur,        \* current_file_sequence
    nextSeq,    \* current_event_sequence
    size,       \* file_state.size
    unflushed,  \* the last entry appended: tokio may still be writing it
    faults      \* the I/O faults of this disk; it never changes

diskVars == <<len, entries, torn>>
walVars == <<len, entries, torn, active, cur, nextSeq, size, unflushed>>

Events == 1 .. MaxEvent
Entry == [file : Nat, seq : Nat, ev : Events]
Files == DOMAIN len
InFile(f) == {e \in entries : e.file = f}

WalTypeOK ==
    /\ Files \subseteq Nat \ {0}
    /\ \A f \in Files : len[f] \in Nat
    /\ entries \subseteq Entry /\ \A e \in entries : e.file \in Files
    /\ torn \subseteq Files
    /\ active \in Nat
    /\ cur \in Nat
    /\ nextSeq \in Nat
    /\ size \in Nat
    /\ unflushed \subseteq Entry

(* An empty WAL directory, before the first start. *)
WalInit ==
    /\ faults \in FaultSets
    /\ len = [f \in {} |-> 0]
    /\ entries = {} /\ torn = {} /\ unflushed = {}
    /\ active = 0 /\ cur = 0 /\ nextSeq = 0 /\ size = 0

(* initial_event_sequence *)
InitialSequence(hi) == hi + 1

(* What a pass over the files can find: every readable entry; a file that  *)
(* cannot be read now is skipped with a warning.                           *)
Replayable ==
    IF "read" \in faults
    THEN {{e \in entries : e.file \notin skipped} : skipped \in SUBSET Files}
    ELSE {entries}

(* with_rotation_threshold after a scan that listed these files and could  *)
(* read these entries: open the highest file (or create file 1) for        *)
(* appending and continue after the highest sequence found.                *)
OpenAfterScan(listed, found) ==
    \E f \in {1} \cup listed, hi \in {0} \cup {e.seq : e \in found} :
        /\ \A g \in listed : g <= f
        /\ \A e \in found : e.seq <= hi
        /\ active' = f
        /\ cur' = f
        /\ len' = [g \in Files \cup {f} |-> IF g \in Files THEN len[g] ELSE 0]
        /\ size' = IF f \in Files THEN len[f] ELSE 0
        /\ nextSeq' = InitialSequence(hi)
        /\ unflushed' = {}
        /\ UNCHANGED <<entries, torn>>

(* scan_wal_state: a directory that cannot be listed counts as empty. *)
WalOpen ==
    \/ \E found \in Replayable : OpenAfterScan(Files, found)
    \/ "read" \in faults /\ OpenAfterScan({}, {})

(***************************************************************************)
(* write_entry: an append to the open handle.  It is readable later only   *)
(* when the file still has its name and no partial entry in front of it.   *)
(***************************************************************************)
Append1(e) ==
    /\ entries' = IF e.file \in Files \ torn THEN entries \cup {e} ELSE entries
    /\ unflushed' = {e}
    /\ nextSeq' = nextSeq + 1

Grown(f) == [g \in Files |-> IF g = f THEN len[g] + 1 ELSE len[g]]

(* write_with_type, without rotation. *)
WriteInPlace(ev) ==
    /\ size + 1 < RotateAt
    /\ Append1([file |-> active, seq |-> nextSeq, ev |-> ev])
    /\ len' = Grown(active)
    /\ size' = size + 1
    /\ UNCHANGED <<torn, active, cur>>

(* write_with_type with rotate_file_internal: the next file is opened, and *)
(* the handle replaced, under the lock that covered the append.            *)
WriteAndRotate(ev) ==
    /\ size + 1 >= RotateAt
    /\ Append1([file |-> active, seq |-> nextSeq, ev |-> ev])
    /\ cur' = cur + 1
    /\ active' = cur + 1
    /\ len' = [g \in Files \cup {cur + 1} |-> IF g \in Files THEN Grown(active)[g] ELSE 0]
    /\ size' = 0
    /\ UNCHANGED torn

WalWrite(ev) == WriteInPlace(ev) \/ WriteAndRotate(ev)

(* write_all fails between the length prefix and the end of the body: the  *)
(* sequence number is spent and partial bytes stay in the file.            *)
WalWriteFails ==
    /\ "write" \in faults
    /\ nextSeq' = nextSeq + 1
    /\ torn' = torn \cup ({active} \cap Files)
    /\ UNCHANGED <<len, entries, active, cur, size, unflushed>>

(* The append succeeds and opening the next file fails: write_with_type    *)
(* returns the rotation error with current_file_sequence already advanced  *)
(* and the handle still on the old file.                                   *)
WalRotateFails(ev) ==
    /\ "rotate" \in faults
    /\ size + 1 >= RotateAt
    /\ Append1([file |-> active, seq |-> nextSeq, ev |-> ev])
    /\ cur' = cur + 1
    /\ len' = Grown(active)
    /\ size' = size + 1
    /\ UNCHANGED <<torn, active>>

(* The next entry of a replay: files in order, entries in file order. *)
IsFirst(e, S) ==
    \A o \in S : e.file < o.file \/ (e.file = o.file /\ e.seq <= o.seq)

(* Mutant: a file goes once its first entry is published. *)
DeletableByFirst(upTo) ==
    {f \in Files \ {cur} : InFile(f) = {} \/ \E e \in InFile(f) : e.seq <= upTo}

(* Mutant: the sequence after the published one counts as published. *)
DeletableOffByOne(upTo) ==
    {f \in Files \ {cur} : \A e \in InFile(f) : e.seq <= upTo + 1}

(* Mutant: the active file is not spared. *)
DeletableActiveToo(upTo) ==
    {f \in Files : \A e \in InFile(f) : e.seq <= upTo}

(***************************************************************************)
(* mark_published(upTo): every file but current_file_sequence whose last   *)
(* readable entry is at or below upTo, or that has none, is deleted.  A    *)
(* scan that fails skips its file, a removal that fails ends the loop.     *)
(***************************************************************************)
Deletable(upTo) ==
    {f \in Files \ {cur} : \A e \in InFile(f) : e.seq <= upTo}

WalMarkPublished(upTo) ==
    \E D \in SUBSET Deletable(upTo) :
        /\ D = Deletable(upTo) \/ faults \cap {"delete", "read"} # {}
        /\ len' = [g \in Files \ D |-> len[g]]
        /\ entries' = {e \in entries : e.file \notin D}
        /\ torn' = torn \ D
        /\ UNCHANGED <<active, cur, nextSeq, size, unflushed>>

(***************************************************************************)
(* The process dies.  The write of the last entry, handed to tokio and     *)
(* never flushed, may have reached the disk only in part.                  *)
(***************************************************************************)
WalCrash ==
    \/ UNCHANGED walVars
    \/ /\ "torn" \in faults
       /\ \E e \in unflushed \cap entries :
             /\ entries' = entries \ {e}
             /\ torn' = torn \cup {e.file}
       /\ UNCHANGED <<len, active, cur, nextSeq, size, unflushed>>
=============================================================================
