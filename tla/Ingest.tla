------------------------------- MODULE Ingest -------------------------------
(***************************************************************************)
(* The single-writer group-commit pipeline of the event store              *)
(* (daemoneye-lib/src/storage/ingest/mod.rs, EventStore::put_batch).       *)
(*                                                                         *)
(* A row is identified by its collector and its source_seq; the process    *)
(* record it carries is abstracted away.  The writer's batch window is a   *)
(* timeout, so a batch may be committed at any moment it is not empty.     *)
(***************************************************************************)
EXTENDS Integers, Sequences, FiniteSets

CONSTANTS
    Collectors,
    MaxSeq,        \* bound: the highest source_seq a collector reaches
    EpochSize,     \* source_seq values per epoch (2^32 in the code)
    Capacity,      \* channel_capacity
    BatchRecords,  \* batch_records
    MaxGaps,       \* MAX_PENDING_GAPS
    MaxCrash,      \* bound: how often the process dies
    FaultSets       \* what may go wrong in one run, subsets of FaultKinds

FaultKinds == {"commit", "unreadable", "redeliver", "skip"}

ASSUME EpochAssumption == EpochSize \in Nat \ {0}
ASSUME CapacityAssumption == Capacity \in Nat \ {0} /\ BatchRecords \in Nat \ {0}
ASSUME BoundsAssumption == MaxSeq \in Nat /\ MaxGaps \in Nat /\ MaxCrash \in Nat
ASSUME FaultsAssumption == FaultSets \subseteq SUBSET FaultKinds

VARIABLES
    stored,      \* disk: how often each row has been written
    diskMarks,   \* disk: ingest_watermarks, None for a collector without rows
    chan,        \* the channel from the handle to the writer
    open,        \* the handle has not been dropped by flush_and_stop
    batch,       \* writer: the batch being filled
    asked,       \* writer: the batch was closed by a flush
    marks,       \* writer: watermarks
    gaps,        \* writer: pending_gaps
    failed,      \* writer: commit_failed
    next,        \* producer: the next source_seq of each collector
    waiting,     \* producer: flush() awaits its answer
    crashes,
    faults,      \* what may go wrong in this run
    sent,        \* history: rows that may be delivered again
    unsettled,   \* history: rows submitted since the last flush was answered
    reply,       \* producer: the answer to the last flush
    reported,    \* history: gaps successful flushes have reported
    unlisted     \* history: gaps counted in sequence_gaps_detected and not listed

diskVars == <<stored, diskMarks>>
writerVars == <<batch, asked, marks, gaps, failed>>
envVars == <<crashes, faults>>
historyVars == <<reply, sent, unsettled, reported, unlisted>>
vars == <<diskVars, chan, open, writerVars, next, waiting, envVars, historyVars>>

None == -1
Seqs == 0 .. MaxSeq
Row == [col : Collectors, seq : Seqs]
Flush == [flush |-> TRUE]
Gap == [col : Collectors, expected : Nat, observed : Seqs]

(* Every variable keeps its type; the channel, the batch and the list of   *)
(* pending gaps keep their limits.                                         *)
TypeOK ==
    /\ stored \in [Row -> Nat]
    /\ diskMarks \in [Collectors -> Seqs \cup {None}]
    /\ chan \in Seq(Row \cup {Flush}) /\ Len(chan) <= Capacity
    /\ open \in BOOLEAN
    /\ batch \in Seq(Row) /\ Len(batch) <= BatchRecords
    /\ asked \in BOOLEAN
    /\ marks \in [Collectors -> Seqs \cup {None}]
    /\ gaps \in Seq(Gap) /\ Len(gaps) <= MaxGaps
    /\ failed \in BOOLEAN
    /\ next \in [Collectors -> Nat]
    /\ waiting \in BOOLEAN
    /\ crashes \in Nat /\ faults \in FaultSets
    /\ sent \subseteq Row
    /\ unsettled \subseteq Row
    /\ reply \in {"none", "ok", "failed"}
    /\ reported \subseteq Gap /\ unlisted \subseteq Gap

Init ==
    /\ stored = [r \in Row |-> 0]
    /\ diskMarks = [c \in Collectors |-> None]
    /\ chan = <<>> /\ open = TRUE
    /\ batch = <<>> /\ asked = FALSE
    /\ marks = [c \in Collectors |-> None]
    /\ gaps = <<>> /\ failed = FALSE
    /\ next = [c \in Collectors |-> 0]
    /\ waiting = FALSE /\ crashes = 0 /\ faults \in FaultSets
    /\ sent = {} /\ unsettled = {} /\ reply = "none" /\ reported = {}
    /\ unlisted = {}

----------------------------------------------------------------------------
(* The producer's side: IngestHandle.                                      *)

(* submit: a full channel blocks the producer. *)
Enqueue(row) ==
    /\ open /\ ~waiting /\ row \in Row
    /\ Len(chan) < Capacity
    /\ chan' = Append(chan, row)
    /\ sent' = sent \cup {row}
    /\ unsettled' = unsettled \cup {row}
    /\ UNCHANGED <<diskVars, open, writerVars, waiting, envVars, reply, reported, unlisted>>

Submit(c, s) ==
    /\ Enqueue([col |-> c, seq |-> s])
    /\ next' = [next EXCEPT ![c] = s + 1]

SubmitNext(c) == Submit(c, next[c])

(* The first index of the epoch after the one of s. *)
NextEpoch(s) == (s \div EpochSize + 1) * EpochSize

(* The producer starts its next epoch, as the agent does with every cycle. *)
SubmitNextEpoch(c) ==
    /\ next[c] % EpochSize # 0
    /\ Submit(c, NextEpoch(next[c]))

(* A row was lost on its way to submit. *)
SubmitAfterSkip(c) ==
    /\ "skip" \in faults
    /\ Submit(c, next[c] + 1)

(* A row is delivered again. *)
Redeliver ==
    /\ "redeliver" \in faults
    /\ \E row \in sent : Enqueue(row)
    /\ UNCHANGED next

(* flush, up to the await of its answer. *)
RequestFlush ==
    /\ open /\ ~waiting
    /\ Len(chan) < Capacity
    /\ chan' = Append(chan, Flush)
    /\ waiting' = TRUE /\ reply' = "none"
    /\ UNCHANGED <<diskVars, open, writerVars, next, envVars, sent, unsettled, reported, unlisted>>

(* flush_and_stop: the handle is dropped, the writer drains the channel. *)
Stop ==
    /\ open /\ ~waiting
    /\ open' = FALSE
    /\ UNCHANGED <<diskVars, chan, writerVars, next, waiting, envVars, historyVars>>

----------------------------------------------------------------------------
(* The writer's side: run_writer.                                          *)

(* Mutant: a flush that finds no open batch is dropped. *)
TakeDropsFlush ==
    /\ chan # <<>> /\ ~asked /\ Len(batch) < BatchRecords
    /\ chan' = Tail(chan)
    /\ IF Head(chan) = Flush
       THEN asked' = (batch # <<>>) /\ UNCHANGED batch
       ELSE batch' = Append(batch, Head(chan)) /\ UNCHANGED asked
    /\ UNCHANGED <<diskVars, open, marks, gaps, failed, next, waiting, envVars, historyVars>>

(* The batch is filled up to batch_records, or up to a flush. *)
Take ==
    /\ chan # <<>> /\ ~asked /\ Len(batch) < BatchRecords
    /\ chan' = Tail(chan)
    /\ IF Head(chan) = Flush
       THEN asked' = TRUE /\ UNCHANGED batch
       ELSE batch' = Append(batch, Head(chan)) /\ UNCHANGED asked
    /\ UNCHANGED <<diskVars, open, marks, gaps, failed, next, waiting, envVars, historyVars>>

(* Mutant: a row repeated within one batch is written twice. *)
SurvivorsWithRepeats ==
    {i \in DOMAIN batch : batch[i].seq > marks[batch[i].col]}

(* commit_batch: rows above the watermark, without repeats in the batch. *)
Survivors ==
    {i \in DOMAIN batch : /\ batch[i].seq > marks[batch[i].col]
                          /\ \A j \in 1 .. i - 1 : batch[j] # batch[i]}

ToWrite == {batch[i] : i \in Survivors}

(* is_contiguous *)
Contiguous(last, observed) == observed = last + 1 \/ observed = NextEpoch(last)

(* Mutant: a batch is not compared with what was committed before it. *)
PreviousInBatch(i) ==
    LET earlier == {batch[j].seq : j \in {k \in Survivors : k < i /\ batch[k].col = batch[i].col}}
    IN  IF earlier = {} THEN None
        ELSE CHOOSE s \in earlier : \A t \in earlier : t <= s

(* observe_sequence: the highest sequence seen when survivor i arrives. *)
Previous(i) ==
    LET earlier == {batch[j].seq : j \in {k \in Survivors : k < i /\ batch[k].col = batch[i].col}}
    IN  IF earlier = {} THEN marks[batch[i].col]
        ELSE CHOOSE s \in earlier : \A t \in earlier : t <= s

GapBefore(i) ==
    [col |-> batch[i].col, expected |-> Previous(i) + 1, observed |-> batch[i].seq]

(* The survivors with a gap before them. *)
Skips ==
    {i \in Survivors : Previous(i) # None /\ ~Contiguous(Previous(i), batch[i].seq)}

(* The gaps a batch shows, in arrival order. *)
BatchGaps ==
    LET nth(n) == CHOOSE i \in Skips : Cardinality({j \in Skips : j <= i}) = n
    IN  [n \in 1 .. Cardinality(Skips) |-> GapBefore(nth(n))]

(* pending_gaps, and the gaps that are counted and do not fit. *)
GapsAfter(found) ==
    LET all == gaps \o found
    IN  IF Len(all) <= MaxGaps THEN all ELSE SubSeq(all, 1, MaxGaps)

Unlisted(found) ==
    {found[n] : n \in {k \in DOMAIN found : Len(gaps) + k > MaxGaps}}

(* Mutant: the mark of any row of the batch will do. *)
RaisedToAny(m, rows, raised) ==
    \A c \in Collectors :
        raised[c] \in {m[c]} \cup {r.seq : r \in {w \in rows : w.col = c}}

(* The watermarks m raised to what the rows reach. *)
RaisedTo(m, rows, raised) ==
    \A c \in Collectors :
        LET reached == {m[c]} \cup {r.seq : r \in {w \in rows : w.col = c}}
        IN  raised[c] \in reached /\ \A s \in reached : s <= raised[c]

MarkValues == [Collectors -> Seqs \cup {None}]

(* Mutant: a failed commit is forgotten when the next one succeeds. *)
AnswerLastCommit(pending, failure) ==
    IF asked
    THEN /\ asked' = FALSE /\ waiting' = FALSE /\ gaps' = <<>> /\ failed' = FALSE
         /\ unsettled' = {}
         /\ reply' = "ok"
         /\ reported' = reported \cup {pending[n] : n \in DOMAIN pending}
    ELSE /\ gaps' = pending /\ failed' = failure
         /\ UNCHANGED <<asked, waiting, unsettled, reply, reported>>

(***************************************************************************)
(* answer_flush after a batch that a flush closed: pending gaps and the    *)
(* failure flag are taken; a failure is answered without the gaps.         *)
(***************************************************************************)
Answer(pending, failure) ==
    IF asked
    THEN /\ asked' = FALSE /\ waiting' = FALSE /\ gaps' = <<>> /\ failed' = FALSE
         /\ unsettled' = {}
         /\ reply' = IF failure THEN "failed" ELSE "ok"
         /\ reported' = IF failure THEN reported
                        ELSE reported \cup {pending[n] : n \in DOMAIN pending}
    ELSE /\ gaps' = pending /\ failed' = failure
         /\ UNCHANGED <<asked, waiting, unsettled, reply, reported>>

(* The batch window has elapsed, the batch is full, a flush or the end of  *)
(* the channel was read.                                                   *)
BatchReady == batch # <<>> \/ asked

(* commit_batch with nothing left to write. *)
CommitNothing ==
    /\ BatchReady /\ ToWrite = {}
    /\ batch' = <<>>
    /\ Answer(gaps, failed)
    /\ UNCHANGED <<diskVars, chan, open, marks, next, envVars, sent, unlisted>>

(* commit_batch, put_batch and persist_watermarks: rows and watermarks are *)
(* committed in one transaction, then the writer's own marks follow.       *)
CommitRows ==
    /\ BatchReady /\ ToWrite # {}
    /\ stored' = [r \in Row |-> stored[r] + Cardinality({i \in Survivors : batch[i] = r})]
    /\ \E m \in MarkValues : RaisedTo(diskMarks, ToWrite, m) /\ diskMarks' = m
    /\ \E m \in MarkValues : RaisedTo(marks, ToWrite, m) /\ marks' = m
    /\ batch' = <<>>
    /\ Answer(GapsAfter(BatchGaps), failed)
    /\ unlisted' = unlisted \cup Unlisted(BatchGaps)
    /\ UNCHANGED <<chan, open, next, envVars, sent>>

(* put_batch fails: nothing is written, the marks stay. *)
CommitFails ==
    /\ "commit" \in faults
    /\ BatchReady /\ ToWrite # {}
    /\ batch' = <<>>
    /\ Answer(GapsAfter(BatchGaps), TRUE)
    /\ unlisted' = unlisted \cup Unlisted(BatchGaps)
    /\ UNCHANGED <<diskVars, chan, open, marks, next, envVars, sent>>

Commit == CommitNothing \/ CommitRows \/ CommitFails

(***************************************************************************)
(* The process dies and starts again: spawn seeds the writer from the      *)
(* store, and the producer continues in the epoch after the last one       *)
(* committed (next_cycle_ordinal).  A row lost with the process comes as a *)
(* new row, only a stored one can be delivered again.                      *)
(***************************************************************************)
CrashAndRestart ==
    /\ crashes < MaxCrash
    /\ crashes' = crashes + 1
    /\ chan' = <<>> /\ open' = TRUE /\ waiting' = FALSE
    /\ batch' = <<>> /\ asked' = FALSE /\ gaps' = <<>> /\ failed' = FALSE
    /\ \/ marks' = diskMarks
       \/ "unreadable" \in faults /\ marks' = [c \in Collectors |-> None]
    /\ next' = [c \in Collectors |->
                   IF diskMarks[c] = None THEN 0 ELSE NextEpoch(diskMarks[c])]
    /\ sent' = {r \in Row : stored[r] > 0}
    /\ unsettled' = {} /\ reply' = "none"
    /\ UNCHANGED <<diskVars, faults, reported, unlisted>>

Next ==
    \/ \E c \in Collectors : SubmitNext(c) \/ SubmitNextEpoch(c) \/ SubmitAfterSkip(c)
    \/ Redeliver \/ RequestFlush \/ Stop
    \/ Take \/ Commit \/ CrashAndRestart

(* The writer is a task of its own: it reads the channel while there is    *)
(* something to read, and its batch window always elapses.                 *)
Spec == Init /\ [][Next]_vars /\ WF_vars(Take) /\ WF_vars(Commit)

----------------------------------------------------------------------------
(* What the pipeline promises.                                             *)

(* The idempotency gate: no row is written twice, however often and in     *)
(* whatever order it is delivered again, across batches and restarts.      *)
(* When the watermarks cannot be read at start the gate starts empty and   *)
(* "the safe direction is to accept a re-delivery" (spawn): no promise.    *)
StoredOnce ==
    "unreadable" \notin faults => \A r \in Row : stored[r] <= 1

(* The watermark a restart reads is exactly the highest row in the store:  *)
(* a higher one would have fresh rows discarded, a lower one would let     *)
(* duplicates in.                                                          *)
MarkIsHighestRow ==
    \A c \in Collectors :
        LET seqs == {r.seq : r \in {w \in Row : w.col = c /\ stored[w] > 0}}
        IN  IF seqs = {} THEN diskMarks[c] = None
            ELSE diskMarks[c] \in seqs /\ \A s \in seqs : s <= diskMarks[c]

(* "the barrier never reports success over rows that did not land": when a *)
(* flush answers Ok, every row submitted since the flush before it is in   *)
(* the store.  Commits that fail and rows that are delivered again do not  *)
(* go together: once a later batch has raised the watermark, the gate      *)
(* discards the rows of the failed batch when they come again, and the     *)
(* flush after that answers Ok.                                            *)
FlushHonest ==
    [][/\ ~({"commit", "redeliver"} \subseteq faults)
       /\ reply = "none" /\ reply' = "ok"
       => \A r \in unsettled : stored'[r] > 0]_vars

(* A hole in what is stored of one collector was seen, unless a crash or a *)
(* failed commit has taken its gap with it: a gap that covers it has been  *)
(* reported by a flush, is pending for the next one, or found the list     *)
(* full and was counted (observe_sequence, answer_flush).                  *)
HolesReported ==
    \A c \in Collectors : \A s, t \in Seqs :
        LET row(q) == [col |-> c, seq |-> q]
        IN  /\ crashes = 0 /\ "commit" \notin faults
            /\ stored[row(s)] > 0 /\ stored[row(t)] > 0 /\ s < t
            /\ \A q \in s + 1 .. t - 1 : stored[row(q)] = 0
            /\ ~Contiguous(s, t)
            => \E g \in reported \cup {gaps[n] : n \in DOMAIN gaps} \cup unlisted :
                  g.col = c /\ g.expected <= s + 1 /\ t <= g.observed

(* A flush is always answered, by the writer or by its end. *)
FlushAnswered == waiting ~> ~waiting

(* After flush_and_stop the writer drains what was submitted before it. *)
Drained == ~open ~> (open \/ (chan = <<>> /\ batch = <<>>))
=============================================================================
