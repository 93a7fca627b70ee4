--------------------------- MODULE DetectionCycle ---------------------------
(***************************************************************************)
(* The agent's scan loop (daemoneye-agent/src/main.rs) with the folds of   *)
(* detection_cycle.rs: collect, ingest, evaluate the window, store the     *)
(* alerts, record the evaluated mark.                                      *)
(*                                                                         *)
(* The ingest writer is reduced to what the loop sees of it (Ingest.tla    *)
(* has the rest): rows are committed or lost one by one, and a flush       *)
(* reports a loss.  A row is its source_seq and its collection_time.       *)
(***************************************************************************)
EXTENDS Integers, Sequences, FiniteSets

CONSTANTS
    MaxClock,      \* bound: the last millisecond of the run
    MaxOrdinal,    \* the last cycle ordinal (2^32 - 1 in the code)
    RowsPerCycle,  \* bound: rows per collection; the size of an epoch
    MaxMishaps,    \* bound: how often the process dies or the clock is set back
    FaultSets       \* what may go wrong in one run, subsets of FaultKinds

FaultKinds == {"commit", "persist", "cursor", "stepback", "badrow", "crash"}

ASSUME ClockAssumption == MaxClock \in Nat /\ MaxMishaps \in Nat
ASSUME OrdinalAssumption == MaxOrdinal \in Nat /\ RowsPerCycle \in Nat \ {0}
ASSUME FaultsAssumption == FaultSets \subseteq SUBSET FaultKinds

VARIABLES
    rows,         \* disk: committed rows
    mark,         \* disk and writer: watermark of the collector, or None
    cursor,       \* disk: evaluated_through_ms, 0 when absent
    queue,        \* writer: submitted, not yet committed
    commitFailed, \* writer: a commit failed since the last flush
    pc,           \* agent: "down", "idle", "flush", "evaluate", "persist", "record"
    highWater,    \* agent: previous_high_water_ms
    ordinal,      \* agent: next_ordinal, MaxOrdinal + 1 for None
    carried,      \* agent: rows_through_ms of the CarriedFailure, or None
    bounds,       \* agent: low_water_ms and high_water_ms of the attempt
    window,       \* agent: the CycleWindow
    degraded,     \* agent: ingest_failure is set for this window
    seen,         \* agent: rows the evaluation has read
    clock,
    mishaps,      \* crashes and clock changes so far
    faults,       \* what may go wrong in this run
    settled,      \* history: rows evaluated in a cycle whose alerts are stored
    evaluated,    \* history: rows evaluated at least once
    repeated,     \* history: rows evaluated more than once
    discarded,    \* history: rows the watermark turned away
    incomplete    \* history: furthest rows of failed attempts not reached yet

diskVars == <<rows, mark, cursor>>
writerVars == <<queue, commitFailed>>
foldVars == <<ordinal, carried, window, degraded>>
envVars == <<mishaps, faults>>
historyVars == <<settled, evaluated, repeated, discarded, incomplete>>
vars == <<diskVars, writerVars, pc, highWater, foldVars, bounds, seen, clock, envVars,
          historyVars>>

None == -1
Times == 0 .. MaxClock
Row == [seq : Nat, ts : Times]
Never == MaxClock + 1          \* u64::MAX, the low water of no row at all
Window == [after : Times, through : Times]
Bounds == [low : 0 .. Never, high : Times]

MaxOf(a, b) == IF a < b THEN b ELSE a
MinOf(a, b) == IF a < b THEN a ELSE b

(* Every variable keeps its type; a window never ends before it starts. *)
TypeOK ==
    /\ rows \subseteq Row
    /\ mark \in Nat \cup {None}
    /\ cursor \in Times
    /\ queue \in Seq(Row)
    /\ commitFailed \in BOOLEAN
    /\ pc \in {"down", "idle", "flush", "evaluate", "persist", "record"}
    /\ highWater \in Times
    /\ ordinal \in 0 .. MaxOrdinal + 1
    /\ carried \in Times \cup {None}
    /\ bounds \in Bounds
    /\ window \in Window /\ window.after <= window.through
    /\ degraded \in BOOLEAN
    /\ seen \subseteq rows
    /\ clock \in Times /\ mishaps \in Nat /\ faults \in FaultSets
    /\ settled \subseteq evaluated /\ repeated \subseteq evaluated
    /\ evaluated \subseteq rows /\ discarded \subseteq Row
    /\ incomplete \subseteq Times

Init ==
    /\ rows = {} /\ mark = None /\ cursor = 0
    /\ queue = <<>> /\ commitFailed = FALSE
    /\ pc = "idle" /\ highWater = 0
    /\ ordinal = 0 /\ carried = None
    /\ bounds = [low |-> Never, high |-> 0]
    /\ window = [after |-> 0, through |-> 0]
    /\ degraded = FALSE /\ seen = {}
    /\ clock = 0 /\ mishaps = 0 /\ faults \in FaultSets
    /\ settled = {} /\ evaluated = {} /\ repeated = {} /\ discarded = {} /\ incomplete = {}

----------------------------------------------------------------------------
(* The environment.                                                        *)

Tick ==
    /\ pc = "idle" /\ clock < MaxClock
    /\ clock' = clock + 1
    /\ UNCHANGED <<diskVars, writerVars, pc, highWater, foldVars, bounds, seen, envVars,
                   historyVars>>

(* The wall clock is set back between two collections. *)
StepBack ==
    /\ "stepback" \in faults /\ pc = "idle" /\ mishaps < MaxMishaps
    /\ clock' \in 0 .. clock - 1 /\ mishaps' = mishaps + 1
    /\ UNCHANGED <<diskVars, writerVars, pc, highWater, foldVars, bounds, seen, faults,
                   historyVars>>

(* The writer commits the oldest row, unless the watermark is past it. *)
WriterCommit ==
    /\ queue # <<>>
    /\ queue' = Tail(queue)
    /\ IF Head(queue).seq <= mark
       THEN discarded' = discarded \cup {Head(queue)} /\ UNCHANGED <<rows, mark>>
       ELSE rows' = rows \cup {Head(queue)} /\ mark' = Head(queue).seq /\ UNCHANGED discarded
    /\ UNCHANGED <<cursor, commitFailed, pc, highWater, foldVars, bounds, seen, clock, envVars,
                   settled, evaluated, repeated, incomplete>>

(* Its transaction fails: the row is lost, and the next flush will say so. *)
WriterFails ==
    /\ "commit" \in faults
    /\ queue # <<>>
    /\ queue' = Tail(queue)
    /\ commitFailed' = TRUE
    /\ UNCHANGED <<diskVars, pc, highWater, foldVars, bounds, seen, clock, envVars, historyVars>>

----------------------------------------------------------------------------
(* The scan branch of the loop.                                            *)

(* Mutant: a carried failure is dropped by the next window, whatever it covers. *)
CarryOneCycle(failure, w) == None

(* CarriedFailure::is_settled_by: what is left to carry behind window w. *)
Carry(failure, w) == IF w.through >= failure THEN None ELSE failure

(* CarriedFailure::degrades *)
Degrades(failure, w) == failure # None /\ w.after < failure

(* From a window and a failure to carry to the signals of the evaluation. *)
OpenWindow(w, failure, failed) ==
    /\ window' = w
    /\ degraded' = (failed \/ Degrades(failure, w))
    /\ carried' = Carry(failure, w)
    /\ pc' = "evaluate"

(* Mutant: a cycle without rows evaluates nothing. *)
UpToMark == [after |-> highWater, through |-> highWater]

(* The window of a cycle without rows: everything stored up to now. *)
UpToNow == [after |-> highWater, through |-> MaxOf(highWater, clock)]

(* Nothing was collected, or the enumeration failed. *)
CollectNothing ==
    /\ pc = "idle"
    /\ OpenWindow(UpToNow, carried, FALSE)
    /\ UNCHANGED <<diskVars, writerVars, highWater, ordinal, bounds, seen, clock, envVars,
                   historyVars>>

(* Rows were collected and there is no ordinal left to store them under. *)
CollectExhausted ==
    /\ pc = "idle" /\ ordinal > MaxOrdinal
    /\ OpenWindow(UpToNow, carried, TRUE)
    /\ UNCHANGED <<diskVars, writerVars, highWater, ordinal, bounds, seen, clock, envVars,
                   historyVars>>

(* Mutant: a failed cycle does not use up its ordinal. *)
NextOrdinalOnSuccess(failed) == IF failed THEN ordinal ELSE ordinal + 1

(* IngestStep::next_ordinal *)
NextOrdinal(failed) == ordinal + 1

(* Mutant: the window reaches back to the lowest row and excludes it. *)
StepWindowOffByOne(b, failed) ==
    [after |-> MinOf(highWater, b.low),
     through |-> IF failed THEN highWater ELSE MaxOf(highWater, b.high)]

(* IngestStep::window *)
StepWindow(b, failed) ==
    [after |-> MinOf(highWater, IF b.low = 0 THEN 0 ELSE b.low - 1),
     through |-> IF failed THEN highWater ELSE MaxOf(highWater, b.high)]

(* ingest_step and CarriedFailure::after *)
Fold(b, failed) ==
    LET furthest == MaxOf(highWater, b.high)
    IN  /\ ordinal' = NextOrdinal(failed)
        /\ OpenWindow(StepWindow(b, failed), IF failed THEN furthest ELSE carried, failed)
        /\ incomplete' = IF failed THEN incomplete \cup {b.high} ELSE incomplete

(* The records of one enumeration, stamped while the clock runs. *)
Stamps == UNION {[1 .. n -> Times] : n \in 0 .. RowsPerCycle}

(* Their least and their greatest stamp; Never and 0 when there are none. *)
BoundsOf(b, stamps) ==
    LET all == {stamps[i] : i \in DOMAIN stamps}
    IN  /\ b.low \in all \cup {Never} /\ b.high \in all \cup {0}
        /\ \A t \in all : b.low <= t /\ t <= b.high

(***************************************************************************)
(* ingest_cycle submits the rows.  A record stamped before the epoch has   *)
(* no key: the rows before it have been submitted, and the function        *)
(* returns without the flush.                                              *)
(***************************************************************************)
CollectRows ==
    /\ pc = "idle" /\ ordinal <= MaxOrdinal
    /\ \E end \in clock + 1 .. MaxClock, stamps \in Stamps :
          /\ \A i \in DOMAIN stamps : stamps[i] \in clock + 1 .. end
          /\ clock' = end
          /\ bounds' \in Bounds /\ BoundsOf(bounds', stamps)
          /\ queue' = queue \o [i \in DOMAIN stamps |->
                         [seq |-> ordinal * RowsPerCycle + i - 1, ts |-> stamps[i]]]
          /\ \/ /\ stamps # <<>>
                /\ pc' = "flush"
                /\ UNCHANGED <<foldVars, incomplete>>
             \/ /\ "badrow" \in faults
                /\ Len(stamps) < RowsPerCycle
                /\ Fold(bounds', TRUE)
    /\ UNCHANGED <<diskVars, commitFailed, highWater, seen, envVars, settled, evaluated, repeated,
                   discarded>>

(* The flush is answered once the writer has handled what was submitted. *)
Flushed ==
    /\ pc = "flush" /\ queue = <<>>
    /\ commitFailed' = FALSE
    /\ Fold(bounds, commitFailed)
    /\ UNCHANGED <<diskVars, queue, highWater, bounds, seen, clock, envVars, settled, evaluated,
                   repeated, discarded>>

(* Mutant: the window includes its start. *)
InClosedWindow(r, w) == w.after <= r.ts /\ r.ts <= w.through

InWindow(r, w) == w.after < r.ts /\ r.ts <= w.through

(* run_detection_cycle reads the rows of the window. *)
Evaluate ==
    /\ pc = "evaluate" /\ pc' = "persist"
    /\ seen' = {r \in rows : InWindow(r, window)}
    /\ evaluated' = evaluated \cup seen'
    /\ repeated' = repeated \cup (evaluated \cap seen')
    /\ incomplete' = {t \in incomplete : window.through < t}
    /\ UNCHANGED <<diskVars, writerVars, highWater, foldVars, bounds, clock, envVars, settled,
                   discarded>>

(* Where the next window starts after alerts that were not all stored. *)
UnpersistedMark == window.after

(* The alerts are sent and stored, and the mark moves over the window. *)
PersistAlerts ==
    /\ pc = "persist"
    /\ settled' = settled \cup seen
    /\ highWater' = window.through
    /\ pc' = IF window.after # window.through THEN "record" ELSE "idle"
    /\ seen' = {}
    /\ UNCHANGED <<diskVars, writerVars, foldVars, bounds, clock, envVars, evaluated, repeated,
                   discarded, incomplete>>

PersistFails ==
    /\ "persist" \in faults /\ pc = "persist"
    /\ highWater' = UnpersistedMark
    /\ pc' = "idle" /\ seen' = {}
    /\ UNCHANGED <<diskVars, writerVars, foldVars, bounds, clock, envVars, historyVars>>

(* set_evaluated_through_ms never moves backwards. *)
RecordCursor ==
    /\ pc = "record" /\ pc' = "idle"
    /\ cursor' = MaxOf(cursor, window.through)
    /\ UNCHANGED <<rows, mark, writerVars, highWater, foldVars, bounds, seen, clock, envVars,
                   historyVars>>

RecordFails ==
    /\ "cursor" \in faults
    /\ pc = "record" /\ pc' = "idle"
    /\ UNCHANGED <<diskVars, writerVars, highWater, foldVars, bounds, seen, clock, envVars,
                   historyVars>>

----------------------------------------------------------------------------
(* The process dies; it starts again from the store.                       *)

Crash ==
    /\ "crash" \in faults /\ pc # "down" /\ mishaps < MaxMishaps
    /\ pc' = "down" /\ mishaps' = mishaps + 1
    /\ queue' = <<>> /\ commitFailed' = FALSE /\ seen' = {}
    /\ UNCHANGED <<diskVars, highWater, foldVars, bounds, clock, faults, historyVars>>


(* The mark a restart begins with. *)
ResumeFrom == cursor

(* next_cycle_ordinal refuses to start behind the last ordinal. *)
Restart ==
    /\ pc = "down" /\ mark \div RowsPerCycle < MaxOrdinal
    /\ pc' = "idle"
    /\ ordinal' = IF mark = None THEN 0 ELSE mark \div RowsPerCycle + 1
    /\ highWater' = ResumeFrom
    /\ carried' = None /\ degraded' = FALSE
    /\ incomplete' = {}
    /\ UNCHANGED <<diskVars, writerVars, bounds, window, seen, clock, envVars, settled, evaluated,
                   repeated, discarded>>

Cycle == CollectNothing \/ CollectExhausted \/ CollectRows

Next ==
    \/ Tick \/ StepBack
    \/ WriterCommit \/ WriterFails
    \/ Cycle \/ Flushed \/ Evaluate
    \/ PersistAlerts \/ PersistFails \/ RecordCursor \/ RecordFails
    \/ Crash \/ Restart

(* The loop is one task that always goes on, the writer another; the store *)
(* does not refuse alerts for ever.  The wall clock advances whatever the  *)
(* loop does: that Tick waits for an idle loop is the model's economy.     *)
Fairness ==
    /\ SF_vars(Tick) /\ WF_vars(WriterCommit \/ WriterFails)
    /\ WF_vars(Cycle) /\ WF_vars(Flushed) /\ WF_vars(Evaluate)
    /\ SF_vars(PersistAlerts) /\ WF_vars(RecordCursor \/ RecordFails)
    /\ WF_vars(Restart)

Spec == Init /\ [][Next]_vars /\ Fairness

----------------------------------------------------------------------------
(* What the loop promises.                                                 *)

(* "Evaluation is at least once, never zero times": between two cycles no  *)
(* stored row lies behind the mark unless a cycle that stored its alerts   *)
(* has evaluated it; the next window begins at the mark.                   *)
EveryRowEvaluated ==
    pc = "idle" => \A r \in rows : r.ts <= highWater => r \in settled

(* What does hold of it: no row is skipped when commits, alert storage or  *)
(* the cursor fail, when the agent dies, or when the clock steps back.  A  *)
(* death and a step back together skip rows, and so does a record that     *)
(* cannot be keyed, which ends ingest_cycle without its flush.             *)
NoRowSkipped ==
    "badrow" \notin faults /\ ~({"stepback", "crash"} \subseteq faults) => EveryRowEvaluated

(* "exactly once while the clock is monotonic and the agent stays up", and *)
(* the store takes the alerts.                                             *)
EvaluatedOnce ==
    faults \cap {"stepback", "crash", "persist"} = {} => repeated = {}

(* The rows of a cycle are new, whatever happened to the cycles before it: *)
(* the watermark never turns one away as a duplicate.                      *)
FreshRowsStored == discarded = {}

(* "every window that starts before the attempt's furthest row is degraded *)
(* by it, until one reaches that row": no window that may hold rows of an  *)
(* incomplete attempt is evaluated as complete (while the clock advances   *)
(* and every record can be keyed).                                         *)
DegradedUntilReached ==
    pc = "evaluate" /\ faults \cap {"stepback", "badrow"} = {}
        => \A t \in incomplete : window.after < t => degraded

(* Catching up needs no new collection: under the same conditions the loop *)
(* comes to a state in which every stored row has been evaluated and its   *)
(* alerts stored, unless the agent has no ordinal to start with.  (The     *)
(* collections of a run are bounded, so reaching each row and reaching all *)
(* of them at once come to the same.)                                      *)
RowsReached ==
    (/\ "badrow" \notin faults /\ ~({"stepback", "crash"} \subseteq faults)
     /\ rows # {})
        ~> \/ rows \subseteq settled
           \/ pc = "down" /\ ~(mark \div RowsPerCycle < MaxOrdinal)
=============================================================================
