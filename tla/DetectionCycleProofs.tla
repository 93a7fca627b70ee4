------------------------ MODULE DetectionCycleProofs ------------------------
(* Proofs about the agent's scan loop: its safety properties hold for every *)
(* clock, every number of cycles and of rows, and every set of faults.      *)
EXTENDS DetectionCycle, TLAPS

----------------------------------------------------------------------------
(* The inductive invariant.                                                *)

(* The source_seqs below which everything submitted so far lies. *)
Issued == IF pc = "flush" THEN (ordinal + 1) * RowsPerCycle ELSE ordinal * RowsPerCycle

(* What is queued is numbered upwards, above what is stored and below what *)
(* the next cycle will number.                                             *)
NumberedUpwards ==
    /\ \A i, j \in DOMAIN queue : i < j => queue[i].seq < queue[j].seq
    /\ \A i \in DOMAIN queue : mark < queue[i].seq
    /\ IF pc = "down" THEN queue = <<>>
       ELSE mark < Issued /\ \A i \in DOMAIN queue : queue[i].seq < Issued

(* While the wall clock only advances, no mark and no window is ahead of   *)
(* it, and rows being flushed lie behind the mark of the loop.             *)
ClockLeads ==
    "stepback" \notin faults =>
        /\ highWater <= clock /\ cursor <= clock
        /\ pc = "flush" => highWater < bounds.low /\ bounds.high <= clock
        /\ pc \in {"evaluate", "persist", "record"} => window.through <= clock

(* Rows up to the mark t have been evaluated and their alerts stored. *)
SettledThrough(t) == \A r \in rows : r.ts <= t => r \in settled

(* Where the loop stands in its cycle, the rows that may still be missing  *)
(* among the settled ones are those the window at hand will read.          *)
WindowCovers ==
    "badrow" \notin faults /\ ~({"stepback", "crash"} \subseteq faults) =>
        /\ pc = "down" => "crash" \in faults
        /\ pc # "flush" => queue = <<>>
        /\ pc \in {"idle", "record"} => SettledThrough(highWater)
        /\ pc = "flush" =>
              /\ 0 < bounds.low
              /\ \A i \in DOMAIN queue : bounds.low <= queue[i].ts
              /\ \A r \in rows : r.ts <= highWater /\ r.ts < bounds.low => r \in settled
        /\ pc \in {"evaluate", "persist"} => SettledThrough(window.after)
        /\ pc = "persist" => \A r \in rows : InWindow(r, window) => r \in seen
        /\ pc = "record" => window.through = highWater
        /\ "stepback" \notin faults =>
              /\ SettledThrough(cursor)
              /\ \A i \in DOMAIN queue : cursor < queue[i].ts

(* While nothing makes the loop go back, what it has evaluated is behind   *)
(* the window to come.                                                     *)
EvaluatedBehind ==
    faults \cap {"stepback", "crash", "persist"} = {} =>
        /\ repeated = {}
        /\ pc # "down"
        /\ pc # "persist" => \A r \in evaluated : r.ts <= highWater
        /\ pc = "evaluate" => window.after = highWater
        /\ pc = "persist" => \A r \in evaluated : r.ts <= window.through

(* The carried failure reaches as far as every incomplete attempt, or the  *)
(* window at hand does.                                                    *)
CarriedFurthest ==
    faults \cap {"stepback", "badrow"} = {} =>
        /\ \A t \in incomplete : t <= clock
        /\ pc = "flush" => \A t \in incomplete : t <= bounds.high
        /\ pc \notin {"evaluate", "down"} => \A t \in incomplete : t <= carried
        /\ pc = "evaluate" => \A t \in incomplete :
              /\ t <= carried \/ t <= window.through
              /\ window.after < t => degraded

(* The types, and two bounds they need. *)
Typed == TypeOK /\ seen \subseteq evaluated /\ (pc = "flush" => ordinal <= MaxOrdinal)

CycleInv ==
    /\ Typed /\ NumberedUpwards /\ FreshRowsStored
    /\ ClockLeads /\ WindowCovers /\ EvaluatedBehind /\ CarriedFurthest
----------------------------------------------------------------------------
(* Facts about the operators of the model.                                 *)

(* The bounds of a collection enclose its stamps and are taken from them. *)
LEMMA BoundsFacts ==
    ASSUME NEW n \in Nat, NEW stamps \in [1 .. n -> Times], NEW b \in Bounds,
           BoundsOf(b, stamps)
    PROVE  /\ b.low = Never \/ \E i \in 1 .. n : b.low = stamps[i]
           /\ b.high = 0 \/ \E i \in 1 .. n : b.high = stamps[i]
           /\ \A i \in 1 .. n : b.low <= stamps[i] /\ stamps[i] <= b.high
BY Zenon DEF BoundsOf

(* The ordinals of the next cycle lie above a row's source_seq. *)
LEMMA NextEpoch ==
    ASSUME NEW m \in Nat, NEW n \in Nat \ {0}
    PROVE  m \div n \in Nat /\ m < (m \div n + 1) * n
OBVIOUS

LEMMA EpochSize ==
    ASSUME NEW m \in Nat, NEW n \in Nat
    PROVE  m * n \in Nat /\ (m + 1) * n = m * n + n
OBVIOUS

(* What is left of the queue when its head is taken. *)
LEMMA QueueTail ==
    ASSUME queue \in Seq(Row), queue # <<>>
    PROVE  /\ Tail(queue) \in Seq(Row) /\ Head(queue) \in Row
           /\ Head(queue) = queue[1] /\ 1 \in DOMAIN queue
           /\ \A i \in DOMAIN queue : i \in Nat \ {0}
           /\ \A i \in DOMAIN Tail(queue) :
                 i \in Nat \ {0} /\ i + 1 \in DOMAIN queue /\ Tail(queue)[i] = queue[i + 1]
<1>1. /\ Head(queue) \in Row /\ Tail(queue) \in Seq(Row)
      /\ Len(Tail(queue)) = Len(queue) - 1
      /\ \A i \in 1 .. Len(Tail(queue)) : Tail(queue)[i] = queue[i + 1]
    OBVIOUS
<1>2. Len(queue) \in Nat \ {0} /\ DOMAIN queue = 1 .. Len(queue)
    OBVIOUS
<1>3. DOMAIN Tail(queue) = 1 .. Len(Tail(queue))
    BY <1>1
<1>4. Head(queue) = queue[1]
    OBVIOUS
<1> QED
    BY <1>1, <1>2, <1>3, <1>4

(* The queue q has grown by n rows, numbered from o and stamped in turn. *)
Grown(q, n, o, stamps) ==
    /\ q \in Seq(Row)
    /\ \A i \in DOMAIN q : i \in Nat
    /\ \A i \in DOMAIN queue : i \in DOMAIN q /\ q[i] = queue[i]
    /\ \A i \in DOMAIN q \ DOMAIN queue :
          \E k \in 1 .. n : q[i] = [seq |-> o + k - 1, ts |-> stamps[k]]
    /\ \A i, j \in DOMAIN q \ DOMAIN queue : i < j => q[i].seq < q[j].seq
    /\ \A i \in DOMAIN q \ DOMAIN queue, j \in DOMAIN queue : j < i

LEMMA QueueGrows ==
    ASSUME queue \in Seq(Row), NEW n \in Nat, NEW o \in Nat, NEW stamps \in [1 .. n -> Times],
           NEW new \in Seq(Row), Len(new) = n,
           \A k \in 1 .. n : new[k] = [seq |-> o + k - 1, ts |-> stamps[k]],
           NEW q, q = queue \o new
    PROVE  Grown(q, n, o, stamps)
<1>3. new \in Seq(Row) /\ Len(new) = n
    BY Zenon
<1>4. q = queue \o new
    BY Zenon
<1>5. \A i \in 1 .. n : new[i] = [seq |-> o + i - 1, ts |-> stamps[i]]
    BY Zenon
<1>6. /\ q \in Seq(Row) /\ Len(q) = Len(queue) + n
      /\ \A i \in 1 .. Len(queue) + n : q[i] = IF i <= Len(queue) THEN queue[i]
                                               ELSE new[i - Len(queue)]
    <2>1. q \in Seq(Row)
        BY ONLY <1>3, <1>4, queue \in Seq(Row)
    <2>2. Len(q) = Len(queue) + n
        <3>1. Len(queue \o new) = Len(queue) + Len(new)
            BY ONLY queue \in Seq(Row), new \in Seq(Row)
        <3> QED
            BY ONLY <1>3, <1>4, <3>1, Zenon
    <2>3. \A i \in 1 .. Len(queue) + n : q[i] = IF i <= Len(queue) THEN queue[i]
                                                ELSE new[i - Len(queue)]
        BY ONLY <1>3, <1>4, queue \in Seq(Row), n \in Nat
    <2> QED
        BY ONLY <2>1, <2>2, <2>3, Zenon
<1>7. Len(queue) \in Nat /\ DOMAIN queue = 1 .. Len(queue) /\ DOMAIN q = 1 .. Len(queue) + n
    BY ONLY <1>6, queue \in Seq(Row), n \in Nat
<1>8. \A i \in DOMAIN q \ DOMAIN queue :
          /\ i - Len(queue) \in 1 .. n
          /\ q[i] = [seq |-> o + (i - Len(queue)) - 1, ts |-> stamps[i - Len(queue)]]
    <2> SUFFICES ASSUME NEW i \in DOMAIN q \ DOMAIN queue
                 PROVE  /\ i - Len(queue) \in 1 .. n
                        /\ q[i] = [seq |-> o + (i - Len(queue)) - 1,
                                   ts |-> stamps[i - Len(queue)]]
        BY Zenon
    <2>1. i \in 1 .. Len(queue) + n /\ ~(i <= Len(queue)) /\ i - Len(queue) \in 1 .. n
        BY ONLY <1>7, i \in DOMAIN q \ DOMAIN queue, n \in Nat
    <2>2. q[i] = new[i - Len(queue)]
        BY ONLY <2>1, <1>6, Zenon
    <2> QED
        BY ONLY <2>1, <2>2, <1>5, Zenon
<1>9. \A i, j \in DOMAIN q \ DOMAIN queue : i < j => q[i].seq < q[j].seq
    BY ONLY <1>7, <1>8, n \in Nat, o \in Nat
<1>10. \A i \in DOMAIN queue : i \in DOMAIN q /\ q[i] = queue[i]
    BY ONLY <1>6, <1>7, n \in Nat
<1>11. /\ \A i \in DOMAIN q : i \in Nat
       /\ \A i \in DOMAIN q \ DOMAIN queue, j \in DOMAIN queue : j < i
    BY ONLY <1>7, n \in Nat
<1> QED
    BY ONLY <1>6, <1>8, <1>9, <1>10, <1>11, Zenon DEF Grown

----------------------------------------------------------------------------
(* Windows and collections.                                                *)

(* What the type invariant says of the numbers the windows are made of. *)
LEMMA Marks ==
    ASSUME TypeOK
    PROVE  /\ MaxClock \in Nat /\ Times = 0 .. MaxClock /\ Never = MaxClock + 1
           /\ highWater \in Times /\ clock \in Times /\ cursor \in Times
           /\ carried \in Times \cup {None} /\ bounds \in Bounds
           /\ window \in Window /\ window.after \in Times /\ window.through \in Times
           /\ window.after <= window.through
           /\ ordinal \in Nat /\ RowsPerCycle \in Nat \ {0}
BY ClockAssumption, OrdinalAssumption DEF TypeOK, Times, Never, Window

LEMMA UpToNowFacts ==
    ASSUME TypeOK
    PROVE  /\ UpToNow \in Window /\ UpToNow.after = highWater
           /\ highWater <= UpToNow.through
           /\ UpToNow.through \in {highWater, clock}
BY Marks DEF UpToNow, Window, MaxOf

(* The window of an attempt starts at or before the mark, and before its   *)
(* rows; it ends at the mark, or, when nothing failed, with its rows.      *)
LEMMA StepWindowFacts ==
    ASSUME TypeOK, NEW b \in Bounds, NEW failed \in BOOLEAN
    PROVE  /\ StepWindow(b, failed) \in Window
           /\ StepWindow(b, failed).after <= highWater
           /\ 0 < b.low => StepWindow(b, failed).after < b.low
           /\ highWater < b.low => StepWindow(b, failed).after = highWater
           /\ highWater <= StepWindow(b, failed).through
           /\ StepWindow(b, failed).through \in {highWater, b.high}
           /\ ~failed => b.high <= StepWindow(b, failed).through
           /\ MaxOf(highWater, b.high) \in Times
           /\ highWater <= MaxOf(highWater, b.high) /\ b.high <= MaxOf(highWater, b.high)
<1> DEFINE w == StepWindow(b, failed)
           top == MaxOf(highWater, b.high)
<1>1. /\ MaxClock \in Nat /\ Times = 0 .. MaxClock /\ Never = MaxClock + 1
      /\ highWater \in Times /\ b.low \in 0 .. Never /\ b.high \in Times
    BY Marks DEF Bounds
<1>2. /\ w.after = MinOf(highWater, IF b.low = 0 THEN 0 ELSE b.low - 1)
      /\ w.through = IF failed THEN highWater ELSE top
      /\ w = [after |-> w.after, through |-> w.through]
    BY Zenon DEF StepWindow
<1> HIDE DEF w
<1>3. top \in {highWater, b.high} /\ highWater <= top /\ b.high <= top
    BY ONLY <1>1 DEF MaxOf
<1> HIDE DEF top
<1>4. /\ w.after \in Times /\ w.after <= highWater
      /\ 0 < b.low => w.after < b.low
      /\ highWater < b.low => w.after = highWater
    BY ONLY <1>1, <1>2 DEF MinOf
<1>5. top \in Times
    BY ONLY <1>1, <1>3
<1>6. /\ w.through \in Times /\ highWater <= w.through
      /\ w.through \in {highWater, b.high}
      /\ ~failed => b.high <= w.through
    BY ONLY <1>1, <1>2, <1>3, <1>5
<1>7. w \in Window
    BY ONLY <1>2, <1>4, <1>6 DEF Window
<1> QED
    BY ONLY <1>3, <1>4, <1>5, <1>6, <1>7, Zenon DEF w, top

(* Opening a window sets it and what is carried behind it. *)
LEMMA Opened ==
    ASSUME NEW w \in Window, NEW failure \in Times \cup {None}, NEW failed \in BOOLEAN,
           OpenWindow(w, failure, failed)
    PROVE  /\ window' = w /\ pc' = "evaluate" /\ degraded' \in BOOLEAN
           /\ degraded' = (failed \/ (failure # None /\ w.after < failure))
           /\ carried' = IF w.through >= failure THEN None ELSE failure
           /\ carried' \in Times \cup {None}
BY ClockAssumption, Zenon DEF OpenWindow, Carry, Degrades, Window, Times, None

(* A row that the collection under way has just submitted. *)
New(i) == i \in DOMAIN queue' \ DOMAIN queue

(* A collection: its rows are stamped after the clock it began at, within  *)
(* the bounds it keeps, and numbered in the epoch of its ordinal.          *)
LEMMA Collected ==
    ASSUME TypeOK, CollectRows
    PROVE  /\ clock' \in Times /\ clock < clock'
           /\ bounds' \in Bounds
           /\ clock < bounds'.low /\ bounds'.high <= clock'
           /\ queue' \in Seq(Row)
           /\ \A i \in DOMAIN queue' : i \in Nat
           /\ \A i \in DOMAIN queue : i \in DOMAIN queue' /\ queue'[i] = queue[i]
           /\ \A i, j \in DOMAIN queue' : New(i) /\ New(j) /\ i < j => queue'[i].seq < queue'[j].seq
           /\ \A i \in DOMAIN queue', j \in DOMAIN queue : New(i) => j < i
           /\ \A i \in DOMAIN queue' : New(i) =>
                 /\ clock < queue'[i].ts /\ bounds'.low <= queue'[i].ts
                 /\ ordinal * RowsPerCycle <= queue'[i].seq
                 /\ queue'[i].seq < (ordinal + 1) * RowsPerCycle
           /\ \/ pc' = "flush" /\ clock < bounds'.high /\ UNCHANGED <<foldVars, incomplete>>
              \/ "badrow" \in faults /\ Fold(bounds', TRUE)
<1>1. PICK end \in clock + 1 .. MaxClock, stamps \in Stamps :
          /\ \A i \in DOMAIN stamps : stamps[i] \in clock + 1 .. end
          /\ clock' = end
          /\ bounds' \in Bounds /\ BoundsOf(bounds', stamps)
          /\ queue' = queue \o [i \in DOMAIN stamps |->
                         [seq |-> ordinal * RowsPerCycle + i - 1, ts |-> stamps[i]]]
          /\ \/ /\ stamps # <<>>
                /\ pc' = "flush"
                /\ UNCHANGED <<foldVars, incomplete>>
             \/ /\ "badrow" \in faults
                /\ Fold(bounds', TRUE)
    BY Zenon DEF CollectRows
<1>2. PICK n \in 0 .. RowsPerCycle : stamps \in [1 .. n -> Times]
    BY Zenon DEF Stamps
<1>3. /\ n \in Nat /\ DOMAIN stamps = 1 .. n
      /\ n <= RowsPerCycle /\ RowsPerCycle \in Nat /\ ordinal \in Nat
      /\ clock \in Times /\ Times = 0 .. MaxClock /\ MaxClock \in Nat /\ Never = MaxClock + 1
      /\ queue \in Seq(Row)
    BY <1>2, Marks DEF TypeOK
<1>4. /\ bounds' \in Bounds
      /\ bounds'.low = Never \/ \E i \in 1 .. n : bounds'.low = stamps[i]
      /\ bounds'.high = 0 \/ \E i \in 1 .. n : bounds'.high = stamps[i]
      /\ \A i \in 1 .. n : bounds'.low <= stamps[i] /\ stamps[i] <= bounds'.high
    <2>1. /\ bounds' \in Bounds /\ BoundsOf(bounds', stamps)
          /\ n \in Nat /\ stamps \in [1 .. n -> Times]
        BY <1>1, <1>2, <1>3, Zenon
    <2> QED
        BY ONLY <2>1, BoundsFacts, Zenon
<1>a. clock' \in clock + 1 .. MaxClock /\ \A i \in 1 .. n : stamps[i] \in clock + 1 .. clock'
    BY <1>1, <1>3, Zenon
<1>5. clock' \in Times /\ clock < clock' /\ clock < bounds'.low /\ bounds'.high <= clock'
    BY ONLY <1>a, <1>3, <1>4
<1>6. ordinal * RowsPerCycle \in Nat
      /\ (ordinal + 1) * RowsPerCycle = ordinal * RowsPerCycle + RowsPerCycle
    BY ONLY <1>3, EpochSize, Zenon
<1>7. /\ queue' \in Seq(Row)
      /\ \A i \in DOMAIN queue' : i \in Nat
      /\ \A i \in DOMAIN queue : i \in DOMAIN queue' /\ queue'[i] = queue[i]
      /\ \A i \in DOMAIN queue' \ DOMAIN queue :
            \E k \in 1 .. n : queue'[i] = [seq |-> ordinal * RowsPerCycle + k - 1, ts |-> stamps[k]]
      /\ \A i, j \in DOMAIN queue' \ DOMAIN queue : i < j => queue'[i].seq < queue'[j].seq
      /\ \A i \in DOMAIN queue' \ DOMAIN queue, j \in DOMAIN queue : j < i
    <2> DEFINE o == ordinal * RowsPerCycle
           new == [i \in DOMAIN stamps |-> [seq |-> o + i - 1, ts |-> stamps[i]]]
    <2>1. queue' = queue \o new
        BY <1>1, Zenon
    <2>2. stamps \in [1 .. n -> Times] /\ n \in Nat /\ o \in Nat /\ queue \in Seq(Row)
        BY <1>2, <1>3, <1>6, Zenon
    <2>4. DOMAIN stamps = 1 .. n
        BY <1>3, Zenon
    <2> HIDE DEF o
    <2>5. \A k \in 1 .. n : new[k] = [seq |-> o + k - 1, ts |-> stamps[k]]
        BY ONLY <2>4, Zenon
    <2>6. \A k \in 1 .. n : o + k - 1 \in Nat /\ stamps[k] \in Times
        BY ONLY <2>2
    <2>7. new = [k \in 1 .. n |-> new[k]]
        BY ONLY <2>4, Zenon
    <2> HIDE DEF new
    <2>8. \A k \in 1 .. n : new[k] \in Row
        <3>1. \A a \in Nat, t \in Times : [seq |-> a, ts |-> t] \in Row
            BY Zenon DEF Row
        <3> QED
            BY ONLY <2>5, <2>6, <3>1, Zenon
    <2>9. new \in Seq(Row) /\ Len(new) = n
        <3>1. new \in [1 .. n -> Row]
            BY ONLY <2>7, <2>8, Zenon
        <3>2. n \in Nat
            BY <2>2, Zenon
        <3> QED
            BY ONLY <3>1, <3>2
    <2>10. Grown(queue', n, o, stamps)
        BY ONLY <2>1, <2>2, <2>5, <2>9, QueueGrows, Zenon
    <2> QED
        BY <2>10, Zenon DEF o, Grown
<1>8. \A i \in DOMAIN queue' : New(i) =>
          /\ clock < queue'[i].ts /\ bounds'.low <= queue'[i].ts
          /\ ordinal * RowsPerCycle <= queue'[i].seq
          /\ queue'[i].seq < (ordinal + 1) * RowsPerCycle
    <2> SUFFICES ASSUME NEW i \in DOMAIN queue', New(i)
                 PROVE  /\ clock < queue'[i].ts /\ bounds'.low <= queue'[i].ts
                        /\ ordinal * RowsPerCycle <= queue'[i].seq
                        /\ queue'[i].seq < (ordinal + 1) * RowsPerCycle
        BY Zenon
    <2>1. PICK k \in 1 .. n :
              queue'[i] = [seq |-> ordinal * RowsPerCycle + k - 1, ts |-> stamps[k]]
        BY <1>7, Zenon DEF New
    <2>2. queue'[i].seq = ordinal * RowsPerCycle + k - 1 /\ queue'[i].ts = stamps[k]
        BY <2>1
    <2>3. clock < stamps[k] /\ bounds'.low <= stamps[k]
        BY ONLY <1>a, <1>3, <1>4, k \in 1 .. n
    <2> DEFINE o == ordinal * RowsPerCycle
    <2>4. o \in Nat /\ (ordinal + 1) * RowsPerCycle = o + RowsPerCycle /\ queue'[i].seq = o + k - 1
        BY <1>6, <2>2, Zenon
    <2> HIDE DEF o
    <2>5. o <= queue'[i].seq /\ queue'[i].seq < o + RowsPerCycle
        BY ONLY <1>3, <2>4, k \in 1 .. n
    <2> QED
        BY <2>2, <2>3, <2>4, <2>5, Zenon DEF o
<1>9. \/ pc' = "flush" /\ clock < bounds'.high /\ UNCHANGED <<foldVars, incomplete>>
      \/ "badrow" \in faults /\ Fold(bounds', TRUE)
    <2>1. CASE stamps # <<>> /\ pc' = "flush" /\ UNCHANGED <<foldVars, incomplete>>
        <3>1. n # 0
            BY <1>2, <2>1
        <3>2. 1 \in 1 .. n
            BY ONLY <3>1, <1>3
        <3>3. clock < bounds'.high
            BY ONLY <3>2, <1>a, <1>3, <1>4
        <3> QED
            BY ONLY <2>1, <3>3, Zenon
    <2>2. CASE "badrow" \in faults /\ Fold(bounds', TRUE)
        BY ONLY <2>2, Zenon
    <2> QED
        BY ONLY <2>1, <2>2, <1>1, Zenon
<1>10. /\ \A i, j \in DOMAIN queue' :
             New(i) /\ New(j) /\ i < j => queue'[i].seq < queue'[j].seq
       /\ \A i \in DOMAIN queue', j \in DOMAIN queue : New(i) => j < i
    BY ONLY <1>7, Zenon DEF New
<1> QED
    BY ONLY <1>4, <1>5, <1>7, <1>8, <1>9, <1>10, Zenon

(* What ingest_step leaves behind: the ordinal is used up, the window open. *)
AfterFold(b, failed) ==
    /\ ordinal' = ordinal + 1 /\ pc' = "evaluate"
    /\ window' = StepWindow(b, failed) /\ window' \in Window
    /\ window'.after <= window'.through
    /\ degraded' \in BOOLEAN
    /\ failed => degraded'
    /\ carried' \in Times \cup {None}
    /\ incomplete' = IF failed THEN incomplete \cup {b.high} ELSE incomplete
    /\ ~failed => /\ carried' = IF window'.through >= carried THEN None ELSE carried
                  /\ carried # None /\ window'.after < carried => degraded'
    /\ failed => b.high <= carried' \/ b.high <= window'.through

LEMMA Folded ==
    ASSUME TypeOK, NEW b \in Bounds, NEW failed \in BOOLEAN,
           Fold(b, failed)
    PROVE  AfterFold(b, failed)
<1> DEFINE w == StepWindow(b, failed)
           failure == IF failed THEN MaxOf(highWater, b.high) ELSE carried
<1>1. /\ ordinal' = ordinal + 1 /\ OpenWindow(w, failure, failed)
      /\ incomplete' = IF failed THEN incomplete \cup {b.high} ELSE incomplete
    BY Zenon DEF Fold, NextOrdinal
<1>2. /\ w \in Window /\ w.after <= highWater /\ highWater <= w.through
      /\ MaxOf(highWater, b.high) \in Times /\ b.high <= MaxOf(highWater, b.high)
    BY StepWindowFacts, Zenon
<1>3. failure \in Times \cup {None}
    BY <1>2, Marks, Zenon
<1>4. w.after \in Times /\ w.through \in Times /\ highWater \in Times /\ b.high \in Times
      /\ Times = 0 .. MaxClock /\ MaxClock \in Nat /\ carried \in Times \cup {None}
    BY <1>2, Marks, Zenon DEF Window, Bounds
<1> HIDE DEF w, failure
<1>5. /\ window' = w /\ pc' = "evaluate" /\ degraded' \in BOOLEAN
      /\ degraded' = (failed \/ (failure # None /\ w.after < failure))
      /\ carried' = IF w.through >= failure THEN None ELSE failure
      /\ carried' \in Times \cup {None}
    BY <1>1, <1>2, <1>3, Opened, Zenon
<1>6. window'.after <= window'.through
    BY ONLY <1>2, <1>4, <1>5
<1>7. ~failed => /\ carried' = IF window'.through >= carried THEN None ELSE carried
                 /\ carried # None /\ window'.after < carried => degraded'
    BY ONLY <1>5, Zenon DEF failure
<1>8. failed => b.high <= carried' \/ b.high <= window'.through
    BY ONLY <1>2, <1>4, <1>5 DEF failure
<1>9. failed => degraded'
    BY ONLY <1>5, Zenon
<1> QED
    BY <1>1, <1>2, <1>5, <1>6, <1>7, <1>8, <1>9, Zenon DEF w, AfterFold

----------------------------------------------------------------------------
(* The types.                                                              *)

LEMMA TypedInit == Init => Typed
<1> SUFFICES ASSUME Init PROVE Typed
    BY Zenon
<1>1. MaxClock \in Nat /\ MaxOrdinal \in Nat
    BY ClockAssumption, OrdinalAssumption, Zenon
<1>2. /\ 0 \in Times /\ Never \in 0 .. Never
    BY <1>1 DEF Times, Never
<1>3. /\ rows \subseteq Row /\ mark \in Nat \cup {None} /\ queue \in Seq(Row)
      /\ ordinal \in 0 .. MaxOrdinal + 1 /\ carried \in Times \cup {None}
      /\ mishaps \in Nat
    BY <1>1 DEF Init
<1>4. bounds \in Bounds /\ window \in Window
    BY <1>2, Zenon DEF Init, Window, Bounds
<1>5. window.after <= window.through
    BY DEF Init
<1> QED
    BY <1>2, <1>3, <1>4, <1>5, Zenon DEF Init, Typed, TypeOK

LEMMA TypedStep ==
    ASSUME Typed, [Next]_vars
    PROVE  Typed'
<1>0. /\ TypeOK /\ seen \subseteq evaluated /\ (pc = "flush" => ordinal <= MaxOrdinal)
      /\ MaxClock \in Nat /\ MaxOrdinal \in Nat /\ RowsPerCycle \in Nat \ {0}
    BY ClockAssumption, OrdinalAssumption, Zenon DEF Typed
<1> USE <1>0 DEF Typed
<1>1. CASE Tick
    BY <1>1 DEF Tick, TypeOK, Times, diskVars, writerVars, foldVars, envVars, historyVars
<1>2. CASE StepBack
    BY <1>2 DEF StepBack, TypeOK, Times, diskVars, writerVars, foldVars, envVars, historyVars
<1>3. CASE WriterCommit
    <2>1. /\ queue # <<>> /\ queue' = Tail(queue)
          /\ \/ UNCHANGED <<rows, mark>> /\ discarded' = discarded \cup {Head(queue)}
             \/ rows' = rows \cup {Head(queue)} /\ mark' = Head(queue).seq /\ discarded' = discarded
          /\ UNCHANGED <<cursor, commitFailed, pc, highWater, ordinal, carried, window, degraded,
                 bounds, seen, clock, mishaps, faults, settled, evaluated, repeated, incomplete>>
        BY <1>3, Zenon DEF WriterCommit, foldVars, envVars
    <2>2. Tail(queue) \in Seq(Row) /\ Head(queue) \in Row /\ Head(queue).seq \in Nat
        <3>1. queue \in Seq(Row)
            BY Zenon DEF TypeOK
        <3> QED
            BY <2>1, <3>1, QueueTail, Zenon DEF Row
    <2> QED
        BY <2>1, <2>2, Zenon DEF TypeOK
<1>4. CASE WriterFails
    <2>1. Tail(queue) \in Seq(Row)
        BY <1>4, QueueTail, Zenon DEF TypeOK, WriterFails
    <2> QED
        BY <1>4, <2>1, Zenon DEF WriterFails, TypeOK, diskVars, foldVars, envVars, historyVars
<1>5. CASE CollectNothing \/ CollectExhausted
    <2>1. \E failed \in BOOLEAN : OpenWindow(UpToNow, carried, failed)
        BY <1>5, Zenon DEF CollectNothing, CollectExhausted
    <2>2. /\ window' = UpToNow /\ pc' = "evaluate" /\ degraded' \in BOOLEAN
          /\ carried' \in Times \cup {None}
          /\ UpToNow \in Window /\ UpToNow.after <= UpToNow.through
        BY <2>1, Marks, Opened, UpToNowFacts, Zenon
    <2>3. UNCHANGED <<rows, mark, cursor, queue, commitFailed, highWater, ordinal, bounds, seen,
              clock, mishaps, faults, settled, evaluated, repeated, discarded, incomplete>>
        BY <1>5, Zenon DEF CollectNothing, CollectExhausted, diskVars, writerVars, envVars, historyVars
    <2> QED
        BY <2>2, <2>3, Zenon DEF TypeOK
<1>6. CASE CollectRows
    <2>1. UNCHANGED <<rows, mark, cursor, commitFailed, highWater, seen, mishaps, faults,
              settled, evaluated, repeated, discarded>> /\ ordinal <= MaxOrdinal
        BY <1>6, Zenon DEF CollectRows, diskVars, envVars
    <2>2. /\ clock' \in Times /\ bounds' \in Bounds
          /\ queue' \in Seq(Row)
        BY <1>6, Collected, Zenon
    <2>3. CASE pc' = "flush" /\ UNCHANGED <<foldVars, incomplete>>
        BY <2>1, <2>2, <2>3, Zenon DEF TypeOK, foldVars
    <2>4. CASE Fold(bounds', TRUE)
        <3>1. /\ ordinal' = ordinal + 1 /\ pc' = "evaluate"
              /\ window' \in Window /\ window'.after <= window'.through /\ degraded' \in BOOLEAN
              /\ carried' \in Times \cup {None} /\ incomplete' = incomplete \cup {bounds'.high}
            <4>1. AfterFold(bounds', TRUE)
                BY ONLY <1>0, <2>2, <2>4, Folded, Zenon
            <4> QED
                BY ONLY <4>1, Zenon DEF AfterFold
        <3> QED
            BY <2>1, <2>2, <3>1 DEF TypeOK, Bounds
    <2> QED
        BY <1>6, <2>3, <2>4, Collected, Zenon
<1>7. CASE Flushed
    <2>1. /\ pc = "flush" /\ commitFailed' = FALSE /\ Fold(bounds, commitFailed)
          /\ UNCHANGED <<rows, mark, cursor, queue, highWater, bounds, seen, clock, mishaps,
                 faults, settled, evaluated, repeated, discarded>>
        BY <1>7, Zenon DEF Flushed, diskVars, envVars
    <2>2. commitFailed \in BOOLEAN /\ bounds \in Bounds
        BY Zenon DEF TypeOK
    <2>3. /\ ordinal' = ordinal + 1 /\ pc' = "evaluate"
          /\ window' \in Window /\ window'.after <= window'.through /\ degraded' \in BOOLEAN
          /\ carried' \in Times \cup {None}
          /\ incomplete' \in {incomplete, incomplete \cup {bounds.high}}
        <3>1. AfterFold(bounds, commitFailed)
            BY ONLY <1>0, <2>1, <2>2, Folded, Zenon
        <3> QED
            BY ONLY <3>1, Zenon DEF AfterFold
    <2> QED
        <3>1. /\ ordinal' \in 0 .. MaxOrdinal + 1 /\ incomplete' \subseteq Times
              /\ pc' # "flush" /\ pc' \in {"down", "idle", "flush", "evaluate", "persist", "record"}
            BY <2>1, <2>2, <2>3 DEF TypeOK, Bounds
        <3> QED
            BY ONLY <1>0, <2>1, <2>3, <3>1, Zenon DEF Typed, TypeOK
<1>8. CASE Evaluate
    BY <1>8, Zenon DEF Evaluate, TypeOK, diskVars, writerVars, foldVars, envVars
<1>9. CASE PersistAlerts
    BY <1>9, Zenon DEF PersistAlerts, TypeOK, Window, diskVars, writerVars, foldVars, envVars
<1>10. CASE PersistFails
    BY <1>10, Zenon DEF PersistFails, UnpersistedMark, TypeOK, Window, diskVars, writerVars, foldVars,
                 envVars, historyVars
<1>11. CASE RecordCursor \/ RecordFails
    BY <1>11, Zenon DEF RecordCursor, RecordFails, MaxOf, TypeOK, Window, diskVars, writerVars, foldVars,
                 envVars, historyVars
<1>12. CASE Crash
    <2>1. /\ pc' = "down" /\ mishaps' = mishaps + 1 /\ queue' = <<>> /\ commitFailed' = FALSE
          /\ seen' = {}
          /\ UNCHANGED <<rows, mark, cursor, highWater, ordinal, carried, window, degraded, bounds,
                 clock, faults, settled, evaluated, repeated, discarded, incomplete>>
        BY <1>12, Zenon DEF Crash, diskVars, foldVars, historyVars
    <2>2. /\ queue' \in Seq(Row) /\ pc' # "flush"
          /\ pc' \in {"down", "idle", "flush", "evaluate", "persist", "record"}
        BY ONLY <2>1
    <2>3. mishaps' \in Nat /\ seen' \subseteq rows' /\ seen' \subseteq evaluated'
        BY <2>1 DEF TypeOK
    <2> QED
        BY ONLY <1>0, <2>1, <2>2, <2>3, Zenon DEF Typed, TypeOK
<1>13. CASE Restart
    <2>1. ordinal' \in 0 .. MaxOrdinal + 1
        <3>1. CASE mark = None
            BY <1>13, <3>1 DEF Restart
        <3>2. CASE mark # None
            <4>1. mark \in Nat /\ mark \div RowsPerCycle \in Nat
                BY <3>2, NextEpoch, Zenon DEF TypeOK
            <4> QED
                BY <1>13, <3>2, <4>1 DEF Restart
        <3> QED
            BY <3>1, <3>2, Zenon
    <2> QED
        BY <1>13, <2>1, Zenon DEF Restart, ResumeFrom, TypeOK, diskVars, writerVars, envVars
<1>14. CASE UNCHANGED vars
    BY <1>14, Zenon DEF vars, TypeOK, diskVars, writerVars, foldVars, envVars, historyVars
<1> QED
    BY <1>1, <1>2, <1>3, <1>4, <1>5, <1>6, <1>7, <1>8, <1>9, <1>10, <1>11, <1>12, <1>13, <1>14, Zenon
       DEF Next, Cycle

----------------------------------------------------------------------------
(* Rows are numbered upwards, so that none is taken for a duplicate.       *)

LEMMA RowsOfSeq ==
    ASSUME NEW q \in Seq(Row)
    PROVE  \A i \in DOMAIN q : q[i] \in Row /\ q[i].seq \in Nat /\ q[i].ts \in Times /\ i \in Nat
<1>1. DOMAIN q = 1 .. Len(q) /\ Len(q) \in Nat
    OBVIOUS
<1>2. \A i \in 1 .. Len(q) : q[i] \in Row
    OBVIOUS
<1> QED
    BY <1>1, <1>2 DEF Row

LEMMA IssuedNumbers ==
    ASSUME Typed
    PROVE  /\ ordinal \in Nat /\ RowsPerCycle \in Nat \ {0} /\ Issued \in Nat
           /\ ordinal * RowsPerCycle \in Nat
           /\ (ordinal + 1) * RowsPerCycle = ordinal * RowsPerCycle + RowsPerCycle
           /\ mark \in Nat \cup {None} /\ None = -1 /\ queue \in Seq(Row)
           /\ \A i \in DOMAIN queue : queue[i].seq \in Nat /\ i \in Nat
<1>1. /\ ordinal \in Nat /\ RowsPerCycle \in Nat \ {0} /\ mark \in Nat \cup {None}
      /\ None = -1 /\ queue \in Seq(Row)
    BY Marks, Zenon DEF Typed, TypeOK, None
<1>2. /\ ordinal * RowsPerCycle \in Nat
      /\ (ordinal + 1) * RowsPerCycle = ordinal * RowsPerCycle + RowsPerCycle
    BY ONLY <1>1, EpochSize, Zenon
<1>3. \A i \in DOMAIN queue : queue[i].seq \in Nat /\ i \in Nat
    BY ONLY <1>1, RowsOfSeq, Zenon
<1> QED
    BY <1>1, <1>2, <1>3 DEF Issued

LEMMA NumberedStep ==
    ASSUME Typed, NumberedUpwards, discarded = {}, [Next]_vars
    PROVE  NumberedUpwards' /\ discarded' = {}
<1>0. /\ \A i, j \in DOMAIN queue : i < j => queue[i].seq < queue[j].seq
      /\ \A i \in DOMAIN queue : mark < queue[i].seq
      /\ pc = "down" => queue = <<>>
      /\ pc # "down" => mark < Issued /\ \A i \in DOMAIN queue : queue[i].seq < Issued
    BY Zenon DEF NumberedUpwards
<1>a. /\ ordinal \in Nat /\ RowsPerCycle \in Nat \ {0} /\ Issued \in Nat
      /\ ordinal * RowsPerCycle \in Nat
      /\ (ordinal + 1) * RowsPerCycle = ordinal * RowsPerCycle + RowsPerCycle
      /\ mark \in Nat \cup {None} /\ None = -1 /\ queue \in Seq(Row)
      /\ \A i \in DOMAIN queue : queue[i].seq \in Nat /\ i \in Nat
    BY IssuedNumbers, Zenon
<1>b. Typed' /\ TypeOK
    BY TypedStep, Zenon DEF Typed
<1>1. CASE /\ UNCHANGED <<queue, mark, ordinal, discarded>>
           /\ pc' = "flush" <=> pc = "flush"
           /\ pc' = "down" <=> pc = "down"
    BY <1>1, Zenon DEF NumberedUpwards, Issued
<1>2. CASE WriterCommit
    <2>1. /\ queue # <<>> /\ queue' = Tail(queue) /\ UNCHANGED <<pc, ordinal>>
          /\ IF Head(queue).seq <= mark
             THEN discarded' = discarded \cup {Head(queue)} /\ UNCHANGED <<rows, mark>>
             ELSE mark' = Head(queue).seq /\ UNCHANGED discarded
        BY <1>2, Zenon DEF WriterCommit, foldVars
    <2>2. /\ Head(queue) = queue[1] /\ 1 \in DOMAIN queue
          /\ \A i \in DOMAIN queue' :
                i \in Nat \ {0} /\ i + 1 \in DOMAIN queue /\ queue'[i] = queue[i + 1]
        BY ONLY <1>a, <2>1, QueueTail, Zenon
    <2>3. /\ mark' = queue[1].seq /\ discarded' = discarded
        BY ONLY <1>0, <1>a, <2>1, <2>2
    <2>4. /\ \A i, j \in DOMAIN queue' : i < j => queue'[i].seq < queue'[j].seq
          /\ \A i \in DOMAIN queue' : mark' < queue'[i].seq /\ queue'[i].seq < Issued
          /\ mark' < Issued /\ pc # "down" /\ Issued' = Issued
        BY ONLY <1>0, <1>a, <2>1, <2>2, <2>3 DEF Issued
    <2> QED
        BY <2>1, <2>3, <2>4, Zenon DEF NumberedUpwards
<1>3. CASE WriterFails
    <2>1. /\ queue # <<>> /\ queue' = Tail(queue) /\ UNCHANGED <<pc, ordinal, mark, discarded>>
        BY <1>3, Zenon DEF WriterFails, foldVars, diskVars, historyVars
    <2>2. /\ \A i \in DOMAIN queue' :
                i \in Nat \ {0} /\ i + 1 \in DOMAIN queue /\ queue'[i] = queue[i + 1]
        BY ONLY <1>a, <2>1, QueueTail, Zenon
    <2>4. /\ \A i, j \in DOMAIN queue' : i < j => queue'[i].seq < queue'[j].seq
          /\ \A i \in DOMAIN queue' : mark < queue'[i].seq /\ queue'[i].seq < Issued
          /\ mark < Issued /\ pc # "down" /\ Issued' = Issued
        BY ONLY <1>0, <1>a, <2>1, <2>2 DEF Issued
    <2> QED
        BY <2>1, <2>4, Zenon DEF NumberedUpwards
<1>4. CASE CollectRows
    <2>1. pc = "idle" /\ mark' = mark /\ discarded' = discarded
        BY <1>4, Zenon DEF CollectRows, diskVars
    <2>2. Issued = ordinal * RowsPerCycle
        BY ONLY <2>1, Zenon DEF Issued
    <2>3. /\ pc' \in {"flush", "evaluate"}
          /\ Issued' = (ordinal + 1) * RowsPerCycle
        <3>1. CASE pc' = "flush" /\ UNCHANGED <<foldVars, incomplete>>
            BY ONLY <3>1, Zenon DEF Issued, foldVars
        <3>2. CASE Fold(bounds', TRUE)
            <4>1. ordinal' = ordinal + 1 /\ pc' = "evaluate"
                BY ONLY <3>2, Zenon DEF Fold, NextOrdinal, OpenWindow
            <4> QED
                BY ONLY <4>1, Zenon DEF Issued
        <3> QED
            BY <1>4, <1>b, <3>1, <3>2, Collected, Zenon
    <2>4. /\ \A i \in DOMAIN queue' : i \in Nat
          /\ \A i \in DOMAIN queue : i \in DOMAIN queue' /\ queue'[i] = queue[i]
          /\ \A i, j \in DOMAIN queue' : New(i) /\ New(j) /\ i < j => queue'[i].seq < queue'[j].seq
          /\ \A i \in DOMAIN queue', j \in DOMAIN queue : New(i) => j < i
          /\ \A i \in DOMAIN queue' : New(i) =>
                /\ ordinal * RowsPerCycle <= queue'[i].seq
                /\ queue'[i].seq < (ordinal + 1) * RowsPerCycle
        BY <1>4, <1>b, Collected, Zenon
    <2>5. \A i \in DOMAIN queue' : New(i) \/ i \in DOMAIN queue
        BY Zenon DEF New
    <2>6. \A i \in DOMAIN queue' : queue'[i].seq \in Nat
        <3>1. queue' \in Seq(Row)
            BY <1>b, Zenon DEF Typed, TypeOK
        <3> QED
            BY ONLY <3>1, RowsOfSeq, Zenon
    <2>7. /\ \A i \in DOMAIN queue' : mark' < queue'[i].seq /\ queue'[i].seq < Issued'
          /\ mark' < Issued'
        <3> DEFINE o == ordinal * RowsPerCycle
        <3>1. /\ o \in Nat /\ Issued = o /\ Issued' = o + RowsPerCycle /\ mark' = mark
              /\ RowsPerCycle \in Nat \ {0} /\ mark \in Int
            BY <1>a, <2>1, <2>2, <2>3
        <3>2. /\ mark < o
              /\ \A i \in DOMAIN queue : mark < queue'[i].seq /\ queue'[i].seq < o
            BY <1>0, <2>1, <2>2, <2>4
        <3>3. \A i \in DOMAIN queue' : New(i) => o <= queue'[i].seq /\ queue'[i].seq < o + RowsPerCycle
            BY <1>a, <2>4, Zenon
        <3> HIDE DEF o
        <3> QED
            BY ONLY <2>5, <2>6, <3>1, <3>2, <3>3
    <2>8. \A i, j \in DOMAIN queue' : i < j => queue'[i].seq < queue'[j].seq
        <3> SUFFICES ASSUME NEW i \in DOMAIN queue', NEW j \in DOMAIN queue', i < j
                     PROVE  queue'[i].seq < queue'[j].seq
            BY Zenon
        <3>1. i \in Nat /\ j \in Nat /\ queue'[i].seq \in Nat /\ queue'[j].seq \in Nat
            BY <2>4, <2>6, Zenon
        <3>2. CASE New(i) /\ New(j)
            BY <2>4, <3>2, Zenon
        <3>3. CASE i \in DOMAIN queue /\ j \in DOMAIN queue
            BY ONLY <1>0, <2>4, <3>3, i < j, Zenon
        <3>4. CASE New(i) /\ j \in DOMAIN queue
            BY ONLY <2>4, <3>1, <3>4, i < j, i \in DOMAIN queue'
        <3>5. CASE i \in DOMAIN queue /\ New(j)
            <4>1. queue'[i].seq < ordinal * RowsPerCycle
                BY ONLY <1>0, <2>1, <2>2, <2>4, <3>5, Zenon
            <4>2. ordinal * RowsPerCycle <= queue'[j].seq
                BY <2>4, <3>5, Zenon
            <4> QED
                BY ONLY <1>a, <3>1, <4>1, <4>2
        <3> QED
            BY <2>5, <3>2, <3>3, <3>4, <3>5, Zenon
    <2> QED
        BY <2>1, <2>3, <2>7, <2>8, Zenon DEF NumberedUpwards
<1>5. CASE Flushed
    <2>1. /\ pc = "flush" /\ pc' = "evaluate" /\ ordinal' = ordinal + 1
          /\ UNCHANGED <<queue, mark, discarded>>
        BY <1>5, Zenon DEF Flushed, Fold, NextOrdinal, OpenWindow, diskVars
    <2>2. Issued' = Issued
        BY ONLY <2>1, Zenon DEF Issued
    <2> QED
        BY ONLY <1>0, <2>1, <2>2, discarded = {}, Zenon DEF NumberedUpwards
<1>6. CASE Crash
    BY <1>6 DEF Crash, NumberedUpwards, diskVars, historyVars
<1>7. CASE Restart
    <2>1. /\ queue = <<>> /\ queue' = queue /\ mark' = mark /\ discarded' = discarded
          /\ pc' = "idle"
          /\ ordinal' = IF mark = None THEN 0 ELSE mark \div RowsPerCycle + 1
        BY <1>0, <1>7, Zenon DEF Restart, diskVars, writerVars
    <2>2. mark < ordinal' * RowsPerCycle
        <3>1. CASE mark = None
            BY ONLY <1>a, <2>1, <3>1
        <3>2. CASE mark # None
            BY ONLY <1>a, <2>1, <3>2, NextEpoch, Zenon
        <3> QED
            BY <3>1, <3>2, Zenon
    <2>3. Issued' = ordinal' * RowsPerCycle
        BY ONLY <2>1, Zenon DEF Issued
    <2> QED
        BY <2>1, <2>2, <2>3 DEF NumberedUpwards
<1>8. CASE \/ Tick \/ StepBack \/ CollectNothing \/ CollectExhausted \/ Evaluate
           \/ PersistAlerts \/ PersistFails \/ RecordCursor \/ RecordFails \/ UNCHANGED vars
    <2>1. /\ UNCHANGED <<queue, mark, ordinal, discarded>>
          /\ pc' = "flush" <=> pc = "flush"
          /\ pc' = "down" <=> pc = "down"
        BY <1>8, Zenon DEF Tick, StepBack, CollectNothing, CollectExhausted, OpenWindow, Evaluate,
                    PersistAlerts, PersistFails, RecordCursor, RecordFails, vars, diskVars,
                    writerVars, foldVars, historyVars
    <2> QED
        BY <1>1, <2>1, Zenon
<1> QED
    BY <1>2, <1>3, <1>4, <1>5, <1>6, <1>7, <1>8, Zenon DEF Next, Cycle

----------------------------------------------------------------------------
(* The clock leads.                                                        *)

(* What goes wrong in a run is settled at its beginning. *)
LEMMA FaultsStand ==
    ASSUME [Next]_vars
    PROVE  faults' = faults
BY Zenon DEF Next, Cycle, Tick, StepBack, WriterCommit, WriterFails, CollectNothing, CollectExhausted,
       CollectRows, Flushed, Evaluate, PersistAlerts, PersistFails, RecordCursor, RecordFails,
       Crash, Restart, vars, envVars

(* What a flushed cycle leaves behind. *)
LEMMA FlushedFacts ==
    ASSUME Typed, Flushed
    PROVE  /\ pc = "flush" /\ queue = <<>> /\ AfterFold(bounds, commitFailed)
           /\ commitFailed \in BOOLEAN /\ bounds \in Bounds
           /\ UNCHANGED <<rows, mark, cursor, queue, highWater, bounds, seen, clock, faults,
                  settled, evaluated, repeated, discarded>>
<1>1. /\ pc = "flush" /\ queue = <<>> /\ Fold(bounds, commitFailed)
      /\ UNCHANGED <<rows, mark, cursor, queue, highWater, bounds, seen, clock, faults,
             settled, evaluated, repeated, discarded>>
    BY Zenon DEF Flushed, diskVars, envVars
<1>2. TypeOK /\ commitFailed \in BOOLEAN /\ bounds \in Bounds
    BY Zenon DEF Typed, TypeOK
<1> QED
    BY ONLY <1>1, <1>2, Folded, Zenon

LEMMA ClockStep ==
    ASSUME Typed, ClockLeads, [Next]_vars
    PROVE  ClockLeads'
<1>0. faults' = faults
    BY FaultsStand, Zenon
<1> SUFFICES ASSUME "stepback" \notin faults
             PROVE  /\ highWater' <= clock' /\ cursor' <= clock'
                    /\ pc' = "flush" => highWater' < bounds'.low /\ bounds'.high <= clock'
                    /\ pc' \in {"evaluate", "persist", "record"} => window'.through <= clock'
    BY <1>0, Zenon DEF ClockLeads
<1>a. /\ highWater <= clock /\ cursor <= clock
      /\ pc = "flush" => highWater < bounds.low /\ bounds.high <= clock
      /\ pc \in {"evaluate", "persist", "record"} => window.through <= clock
    BY Zenon DEF ClockLeads
<1>b. TypeOK /\ MaxClock \in Nat /\ Times = 0 .. MaxClock /\ Never = MaxClock + 1
      /\ highWater \in Times /\ clock \in Times /\ cursor \in Times
      /\ bounds \in Bounds
      /\ window.after \in Times /\ window.through \in Times /\ window.after <= window.through
    BY Marks, Zenon DEF Typed
<1>1. CASE CollectNothing \/ CollectExhausted
    <2>1. /\ window' = UpToNow /\ pc' = "evaluate" /\ UNCHANGED <<highWater, cursor, clock>>
        BY <1>1, Zenon DEF CollectNothing, CollectExhausted, OpenWindow, diskVars
    <2>2. UpToNow.through \in {highWater, clock}
        BY <1>b, UpToNowFacts, Zenon
    <2> QED
        BY ONLY <1>a, <1>b, <2>1, <2>2
<1>2. CASE CollectRows
    <2>1. UNCHANGED <<highWater, cursor>>
        BY <1>2, Zenon DEF CollectRows, diskVars
    <2>2. /\ clock' \in Times /\ clock < clock'
          /\ bounds' \in Bounds
          /\ clock < bounds'.low /\ bounds'.high <= clock'
          /\ pc' = "flush" \/ Fold(bounds', TRUE)
        BY <1>2, <1>b, Collected, Zenon
    <2>3. CASE pc' = "flush"
        BY ONLY <1>a, <1>b, <2>1, <2>2, <2>3 DEF Bounds
    <2>4. CASE Fold(bounds', TRUE)
        <3>1. AfterFold(bounds', TRUE)
            BY ONLY <1>b, <2>2, <2>4, Folded, Zenon
        <3>2. pc' = "evaluate" /\ window' = StepWindow(bounds', TRUE)
            BY ONLY <3>1, Zenon DEF AfterFold
        <3>3. StepWindow(bounds', TRUE).through \in {highWater, bounds'.high}
            BY ONLY <1>b, <2>2, StepWindowFacts, Zenon
        <3> QED
            <4>1. window'.through \in {highWater, bounds'.high} /\ pc' # "flush"
                BY ONLY <3>2, <3>3, Zenon
            <4>2. clock' \in Times /\ clock < clock' /\ bounds'.high <= clock'
                BY ONLY <2>2, Zenon
            <4> QED
                BY ONLY <1>a, <1>b, <2>1, <4>1, <4>2
    <2> QED
        BY <2>2, <2>3, <2>4, Zenon
<1>3. CASE Flushed
    <2>1. /\ pc = "flush" /\ AfterFold(bounds, commitFailed) /\ commitFailed \in BOOLEAN
          /\ UNCHANGED <<highWater, cursor, clock>>
        BY <1>3, FlushedFacts, Zenon
    <2>2. pc' = "evaluate" /\ window' = StepWindow(bounds, commitFailed)
        BY ONLY <2>1, Zenon DEF AfterFold
    <2>3. StepWindow(bounds, commitFailed).through \in {highWater, bounds.high}
        BY ONLY <1>b, <2>1, StepWindowFacts, Zenon
    <2> QED
        BY ONLY <1>a, <1>b, <2>1, <2>2, <2>3, Zenon
<1>4. CASE PersistAlerts \/ PersistFails
    <2>1. /\ pc = "persist" /\ highWater' \in {window.through, window.after}
          /\ pc' \in {"record", "idle"} /\ UNCHANGED <<window, cursor, clock>>
        BY <1>4, Zenon DEF PersistAlerts, PersistFails, UnpersistedMark, diskVars, foldVars
    <2> QED
        BY ONLY <1>a, <1>b, <2>1
<1>5. CASE RecordCursor
    <2>1. /\ pc = "record" /\ pc' = "idle" /\ cursor' = MaxOf(cursor, window.through)
          /\ UNCHANGED <<highWater, clock>>
        BY <1>5, Zenon DEF RecordCursor
    <2> QED
        BY ONLY <1>a, <1>b, <2>1, Zenon DEF MaxOf
<1>6. CASE Restart
    <2>1. pc' = "idle" /\ highWater' = cursor /\ UNCHANGED <<cursor, clock>>
        BY <1>6, Zenon DEF Restart, ResumeFrom, diskVars
    <2> QED
        BY ONLY <1>a, <2>1, Zenon
<1>7. CASE Tick
    <2>1. pc' = "idle" /\ clock' = clock + 1 /\ UNCHANGED <<highWater, cursor>>
        BY <1>7, Zenon DEF Tick, diskVars
    <2> QED
        BY ONLY <1>a, <1>b, <2>1
<1>8. CASE \/ StepBack \/ WriterCommit \/ WriterFails \/ Evaluate \/ RecordFails \/ Crash
           \/ UNCHANGED vars
    <2>1. /\ UNCHANGED <<highWater, cursor, clock, bounds, window>>
          /\ pc' = "flush" => pc = "flush"
          /\ pc' \in {"evaluate", "persist", "record"} => pc \in {"evaluate", "persist", "record"}
        BY <1>8, Zenon DEF StepBack, WriterCommit, WriterFails, Evaluate, RecordFails, Crash, vars,
                    diskVars, foldVars
    <2> QED
        BY ONLY <1>a, <2>1, Zenon
<1> QED
    BY <1>1, <1>2, <1>3, <1>4, <1>5, <1>6, <1>7, <1>8, Zenon DEF Next, Cycle

----------------------------------------------------------------------------
(* No row is skipped.                                                      *)

(* What can happen to the loop in the runs NoRowSkipped is about. *)
NothingHidden == "badrow" \notin faults /\ ~({"stepback", "crash"} \subseteq faults)

LEMMA CoversStep ==
    ASSUME Typed, ClockLeads, WindowCovers, [Next]_vars
    PROVE  WindowCovers'
<1>0. faults' = faults
    BY FaultsStand, Zenon
<1> SUFFICES ASSUME NothingHidden
             PROVE  /\ pc' = "down" => "crash" \in faults
                    /\ pc' # "flush" => queue' = <<>>
                    /\ pc' \in {"idle", "record"} => SettledThrough(highWater)'
                    /\ pc' = "flush" =>
                          /\ 0 < bounds'.low
                          /\ \A i \in DOMAIN queue' : bounds'.low <= queue'[i].ts
                          /\ \A r \in rows' : r.ts <= highWater' /\ r.ts < bounds'.low => r \in settled'
                    /\ pc' \in {"evaluate", "persist"} => SettledThrough(window.after)'
                    /\ pc' = "persist" => \A r \in rows' : InWindow(r, window') => r \in seen'
                    /\ pc' = "record" => window'.through = highWater'
                    /\ "stepback" \notin faults =>
                          /\ SettledThrough(cursor)'
                          /\ \A i \in DOMAIN queue' : cursor' < queue'[i].ts
    BY <1>0, Zenon DEF WindowCovers, NothingHidden
<1>a. /\ pc = "down" => "crash" \in faults
      /\ pc # "flush" => queue = <<>>
      /\ pc \in {"idle", "record"} => SettledThrough(highWater)
      /\ pc = "flush" =>
            /\ 0 < bounds.low
            /\ \A i \in DOMAIN queue : bounds.low <= queue[i].ts
            /\ \A r \in rows : r.ts <= highWater /\ r.ts < bounds.low => r \in settled
      /\ pc \in {"evaluate", "persist"} => SettledThrough(window.after)
      /\ pc = "persist" => \A r \in rows : InWindow(r, window) => r \in seen
      /\ pc = "record" => window.through = highWater
      /\ "stepback" \notin faults =>
            /\ SettledThrough(cursor)
            /\ \A i \in DOMAIN queue : cursor < queue[i].ts
    BY Zenon DEF WindowCovers, NothingHidden
<1>b. TypeOK /\ MaxClock \in Nat /\ Times = 0 .. MaxClock /\ Never = MaxClock + 1
      /\ highWater \in Times /\ clock \in Times /\ cursor \in Times
      /\ bounds \in Bounds
      /\ window.after \in Times /\ window.through \in Times /\ window.after <= window.through
    BY Marks, Zenon DEF Typed
<1>c. queue \in Seq(Row) /\ \A r \in rows : r.ts \in Times
    BY Zenon DEF Typed, TypeOK, Row
<1>d. "stepback" \notin faults => cursor <= clock
    BY Zenon DEF ClockLeads
<1>1. CASE WriterCommit \/ WriterFails
    <2>1. /\ queue # <<>> /\ queue' = Tail(queue)
          /\ rows' \in {rows, rows \cup {Head(queue)}}
          /\ UNCHANGED <<pc, highWater, bounds, cursor, settled>>
        BY <1>1, Zenon DEF WriterCommit, WriterFails, diskVars, historyVars
    <2>2. /\ Head(queue) = queue[1] /\ 1 \in DOMAIN queue
          /\ \A i \in DOMAIN queue' : i + 1 \in DOMAIN queue /\ queue'[i] = queue[i + 1]
          /\ queue[1].ts \in Times
        BY ONLY <1>c, <2>1, QueueTail, RowsOfSeq, Zenon
    <2>3. pc = "flush"
        BY ONLY <1>a, <2>1, Zenon
    <2>4. \A i \in DOMAIN queue' : bounds.low <= queue'[i].ts
        BY ONLY <1>a, <2>2, <2>3, Zenon
    <2>5. \A r \in rows' : r \in rows \/ r = queue[1]
        BY ONLY <2>1, <2>2, Zenon
    <2>6. bounds.low \in 0 .. Never /\ bounds.low <= queue[1].ts
        BY ONLY <1>a, <1>b, <2>2, <2>3, Zenon DEF Bounds
    <2>7. \A r \in rows' : r.ts <= highWater /\ r.ts < bounds.low => r \in settled
        BY ONLY <1>a, <1>b, <1>c, <2>2, <2>3, <2>5, <2>6
    <2>8. "stepback" \notin faults =>
              /\ SettledThrough(cursor)'
              /\ \A i \in DOMAIN queue' : cursor < queue'[i].ts
        BY ONLY <1>a, <1>b, <1>c, <2>1, <2>2, <2>5 DEF SettledThrough
    <2> QED
        BY ONLY <1>a, <2>1, <2>3, <2>4, <2>7, <2>8, Zenon
<1>2. CASE CollectNothing \/ CollectExhausted
    <2>1. /\ pc = "idle" /\ window' = UpToNow /\ pc' = "evaluate"
          /\ UNCHANGED <<rows, settled, cursor, queue>>
        BY <1>2, Zenon DEF CollectNothing, CollectExhausted, OpenWindow, diskVars, writerVars, historyVars
    <2>2. UpToNow.after = highWater
        BY <1>b, UpToNowFacts, Zenon
    <2> QED
        BY ONLY <1>a, <2>1, <2>2, Zenon DEF SettledThrough
<1>3. CASE CollectRows
    <2>1. pc = "idle" /\ UNCHANGED <<rows, settled, cursor, highWater>>
        BY <1>3, Zenon DEF CollectRows, diskVars
    <2>2. /\ clock < bounds'.low /\ pc' = "flush"
          /\ bounds' \in Bounds
          /\ \A i \in DOMAIN queue' :
                New(i) => clock < queue'[i].ts /\ bounds'.low <= queue'[i].ts
          /\ queue' \in Seq(Row)
        BY <1>3, <1>b, Collected, Zenon DEF NothingHidden
    <2>3. \A i \in DOMAIN queue' : New(i) /\ queue'[i].ts \in Times
        <3>1. DOMAIN queue = {}
            BY <1>a, <2>1
        <3> QED
            BY <2>2, <3>1, RowsOfSeq, Zenon DEF New
    <2>4. bounds'.low \in 0 .. Never /\ 0 < bounds'.low
        BY ONLY <1>b, <2>2 DEF Bounds
    <2>5. \A r \in rows' : r.ts <= highWater' /\ r.ts < bounds'.low => r \in settled'
        BY ONLY <1>a, <2>1, Zenon DEF SettledThrough
    <2>6. "stepback" \notin faults =>
              SettledThrough(cursor)' /\ \A i \in DOMAIN queue' : cursor' < queue'[i].ts
        BY ONLY <1>a, <1>b, <1>d, <2>1, <2>2, <2>3 DEF SettledThrough
    <2> QED
        BY ONLY <2>2, <2>3, <2>4, <2>5, <2>6, Zenon
<1>4. CASE Flushed
    <2>1. /\ pc = "flush" /\ queue = <<>> /\ AfterFold(bounds, commitFailed)
          /\ commitFailed \in BOOLEAN
          /\ UNCHANGED <<rows, cursor, queue, highWater, settled>>
        BY <1>4, FlushedFacts, Zenon
    <2>2. pc' = "evaluate" /\ window' = StepWindow(bounds, commitFailed)
        BY ONLY <2>1, Zenon DEF AfterFold
    <2>3. /\ window' \in Window /\ window'.after <= highWater /\ window'.after < bounds.low
        BY ONLY <1>a, <1>b, <2>1, <2>2, StepWindowFacts, Zenon
    <2>4. window'.after \in Times /\ bounds.low \in 0 .. Never
        BY ONLY <1>b, <2>3, Zenon DEF Window, Bounds
    <2>5. SettledThrough(window.after)'
        BY ONLY <1>a, <1>b, <1>c, <2>1, <2>3, <2>4 DEF SettledThrough
    <2>6. "stepback" \notin faults =>
              SettledThrough(cursor)' /\ \A i \in DOMAIN queue' : cursor' < queue'[i].ts
        BY ONLY <1>a, <2>1, Zenon DEF SettledThrough
    <2> QED
        BY ONLY <2>1, <2>2, <2>5, <2>6, Zenon
<1>5. CASE Evaluate
    <2>1. /\ pc = "evaluate" /\ pc' = "persist"
          /\ seen' = {r \in rows : InWindow(r, window)}
          /\ UNCHANGED <<rows, cursor, queue, highWater, settled, window>>
        BY <1>5, Zenon DEF Evaluate, diskVars, writerVars, foldVars
    <2> QED
        BY ONLY <1>a, <2>1, Zenon DEF SettledThrough
<1>6. CASE PersistAlerts
    <2>1. /\ pc = "persist" /\ pc' \in {"record", "idle"}
          /\ settled' = settled \cup seen /\ highWater' = window.through
          /\ UNCHANGED <<rows, cursor, queue, window>>
        BY <1>6, Zenon DEF PersistAlerts, diskVars, writerVars, foldVars
    <2>2. SettledThrough(highWater)'
        BY ONLY <1>a, <1>b, <1>c, <2>1 DEF SettledThrough, InWindow
    <2> QED
        BY ONLY <1>a, <2>1, <2>2, Zenon DEF SettledThrough
<1>7. CASE PersistFails
    <2>1. /\ pc = "persist" /\ pc' = "idle" /\ highWater' = window.after
          /\ UNCHANGED <<rows, cursor, queue, settled>>
        BY <1>7, Zenon DEF PersistFails, UnpersistedMark, diskVars, writerVars, historyVars
    <2> QED
        BY ONLY <1>a, <2>1, Zenon DEF SettledThrough
<1>8. CASE RecordCursor \/ RecordFails
    <2>1. /\ pc = "record" /\ pc' = "idle"
          /\ cursor' \in {cursor, MaxOf(cursor, window.through)}
          /\ UNCHANGED <<rows, queue, settled, highWater>>
        BY <1>8, Zenon DEF RecordCursor, RecordFails, diskVars, writerVars, historyVars
    <2> QED
        BY ONLY <1>a, <2>1 DEF SettledThrough, MaxOf
<1>9. CASE Crash
    <2>1. pc' = "down" /\ "crash" \in faults /\ queue' = <<>> /\ UNCHANGED <<rows, cursor, settled>>
        BY <1>9, Zenon DEF Crash, diskVars, historyVars
    <2> QED
        BY ONLY <1>a, <2>1 DEF SettledThrough
<1>10. CASE Restart
    <2>1. /\ pc = "down" /\ pc' = "idle" /\ highWater' = cursor
          /\ UNCHANGED <<rows, cursor, queue, settled>>
        BY <1>10, Zenon DEF Restart, ResumeFrom, diskVars, writerVars
    <2>2. "stepback" \notin faults
        BY <1>a, <2>1, Zenon DEF NothingHidden
    <2> QED
        BY ONLY <1>a, <2>1, <2>2, Zenon DEF SettledThrough
<1>11. CASE Tick \/ StepBack \/ UNCHANGED vars
    <2>1. /\ UNCHANGED <<pc, rows, cursor, queue, highWater, settled, window, bounds, seen>>
        BY <1>11, Zenon DEF Tick, StepBack, vars, diskVars, writerVars, foldVars, historyVars
    <2> QED
        BY ONLY <1>a, <2>1, Zenon DEF SettledThrough
<1> QED
    BY <1>1, <1>2, <1>3, <1>4, <1>5, <1>6, <1>7, <1>8, <1>9, <1>10, <1>11, Zenon DEF Next, Cycle

----------------------------------------------------------------------------
(* No row is evaluated twice.                                              *)

(* What can happen to the loop in the runs EvaluatedOnce is about. *)
NothingRepeats == faults \cap {"stepback", "crash", "persist"} = {}

LEMMA BehindStep ==
    ASSUME Typed, ClockLeads, EvaluatedBehind, [Next]_vars
    PROVE  EvaluatedBehind'
<1>0. faults' = faults
    BY FaultsStand, Zenon
<1> SUFFICES ASSUME NothingRepeats
             PROVE  /\ repeated' = {} /\ pc' # "down"
                    /\ pc' # "persist" => \A r \in evaluated' : r.ts <= highWater'
                    /\ pc' = "evaluate" => window'.after = highWater'
                    /\ pc' = "persist" => \A r \in evaluated' : r.ts <= window'.through
    BY <1>0, Zenon DEF EvaluatedBehind, NothingRepeats
<1>a. /\ repeated = {} /\ pc # "down"
      /\ pc # "persist" => \A r \in evaluated : r.ts <= highWater
      /\ pc = "evaluate" => window.after = highWater
      /\ pc = "persist" => \A r \in evaluated : r.ts <= window.through
    BY Zenon DEF EvaluatedBehind, NothingRepeats
<1>b. TypeOK /\ MaxClock \in Nat /\ Times = 0 .. MaxClock /\ Never = MaxClock + 1
      /\ highWater \in Times /\ clock \in Times
      /\ bounds \in Bounds
      /\ window.after \in Times /\ window.through \in Times /\ window.after <= window.through
    BY Marks, Zenon DEF Typed
<1>c. /\ "stepback" \notin faults /\ "crash" \notin faults /\ "persist" \notin faults
      /\ highWater <= clock
      /\ pc = "flush" => highWater < bounds.low
    BY Zenon DEF NothingRepeats, ClockLeads
<1>d. evaluated \subseteq rows /\ \A r \in rows : r.ts \in Times
    BY Zenon DEF Typed, TypeOK, Row
<1>1. CASE CollectNothing \/ CollectExhausted
    <2>1. /\ pc = "idle" /\ pc' = "evaluate" /\ window' = UpToNow
          /\ UNCHANGED <<highWater, evaluated, repeated>>
        BY <1>1, Zenon DEF CollectNothing, CollectExhausted, OpenWindow, historyVars
    <2>2. UpToNow.after = highWater
        BY <1>b, UpToNowFacts, Zenon
    <2> QED
        BY ONLY <1>a, <2>1, <2>2, Zenon
<1>2. CASE CollectRows
    <2>1. pc = "idle" /\ UNCHANGED <<highWater, evaluated, repeated>>
        BY <1>2, Zenon DEF CollectRows
    <2>2. /\ clock < bounds'.low /\ bounds' \in Bounds
          /\ pc' = "flush" \/ Fold(bounds', TRUE)
        BY <1>2, <1>b, Collected, Zenon
    <2>3. CASE pc' = "flush"
        BY ONLY <1>a, <2>1, <2>3, Zenon
    <2>4. CASE Fold(bounds', TRUE)
        <3>1. AfterFold(bounds', TRUE)
            BY ONLY <1>b, <2>2, <2>4, Folded, Zenon
        <3>2. pc' = "evaluate" /\ window' = StepWindow(bounds', TRUE)
            BY ONLY <3>1, Zenon DEF AfterFold
        <3>3. highWater < bounds'.low
            <4>1. bounds'.low \in 0 .. Never /\ clock < bounds'.low
                BY ONLY <2>2, Zenon DEF Bounds
            <4> QED
                BY ONLY <1>b, <1>c, <4>1
        <3>4. StepWindow(bounds', TRUE).after = highWater
            BY ONLY <1>b, <2>2, <3>3, StepWindowFacts, Zenon
        <3> QED
            BY ONLY <1>a, <2>1, <3>2, <3>4, Zenon
    <2> QED
        BY <2>2, <2>3, <2>4, Zenon
<1>3. CASE Flushed
    <2>1. /\ pc = "flush" /\ AfterFold(bounds, commitFailed) /\ commitFailed \in BOOLEAN
          /\ UNCHANGED <<highWater, evaluated, repeated>>
        BY <1>3, FlushedFacts, Zenon
    <2>2. pc' = "evaluate" /\ window' = StepWindow(bounds, commitFailed)
        BY ONLY <2>1, Zenon DEF AfterFold
    <2>3. StepWindow(bounds, commitFailed).after = highWater
        <3>1. highWater < bounds.low
            BY ONLY <1>c, <2>1, Zenon
        <3> QED
            BY ONLY <1>b, <2>1, <3>1, StepWindowFacts, Zenon
    <2> QED
        BY ONLY <1>a, <2>1, <2>2, <2>3, Zenon
<1>4. CASE Evaluate
    <2>1. /\ pc = "evaluate" /\ pc' = "persist" /\ seen' = {r \in rows : InWindow(r, window)}
          /\ evaluated' = evaluated \cup seen'
          /\ repeated' = repeated \cup (evaluated \cap seen')
          /\ UNCHANGED window
        BY <1>4, Zenon DEF Evaluate, foldVars
    <2>2. \A r \in seen' : r \in rows /\ window.after < r.ts /\ r.ts <= window.through
        BY ONLY <2>1, Zenon DEF InWindow
    <2>3. \A r \in evaluated : r \notin seen' /\ r.ts <= window.through
        BY ONLY <1>a, <1>b, <1>d, <2>1, <2>2
    <2> QED
        BY ONLY <1>a, <2>1, <2>2, <2>3, Zenon
<1>5. CASE PersistAlerts
    <2>1. /\ pc = "persist" /\ pc' \in {"record", "idle"} /\ highWater' = window.through
          /\ UNCHANGED <<evaluated, repeated>>
        BY <1>5, Zenon DEF PersistAlerts
    <2> QED
        BY ONLY <1>a, <2>1, Zenon
<1>6. CASE PersistFails \/ Crash \/ Restart
    BY <1>6, <1>a, <1>c, Zenon DEF PersistFails, Crash, Restart
<1>7. CASE Tick \/ StepBack \/ WriterCommit \/ WriterFails \/ RecordCursor \/ RecordFails
           \/ UNCHANGED vars
    <2>1. /\ UNCHANGED <<highWater, evaluated, repeated, window>>
          /\ pc' = pc \/ (pc = "record" /\ pc' = "idle")
        BY <1>7, Zenon DEF Tick, StepBack, WriterCommit, WriterFails, RecordCursor, RecordFails, vars,
                    foldVars, historyVars
    <2> QED
        BY ONLY <1>a, <2>1, Zenon
<1> QED
    BY <1>1, <1>2, <1>3, <1>4, <1>5, <1>6, <1>7, Zenon DEF Next, Cycle

----------------------------------------------------------------------------
(* A failure degrades every window until one reaches its rows.             *)

(* What can happen to the loop in the runs DegradedUntilReached is about. *)
NothingBehind == faults \cap {"stepback", "badrow"} = {}

LEMMA CarriedStep ==
    ASSUME Typed, ClockLeads, CarriedFurthest, [Next]_vars
    PROVE  CarriedFurthest'
<1>0. faults' = faults
    BY FaultsStand, Zenon
<1> SUFFICES ASSUME NothingBehind
             PROVE  /\ \A t \in incomplete' : t <= clock'
                    /\ pc' = "flush" => \A t \in incomplete' : t <= bounds'.high
                    /\ pc' \notin {"evaluate", "down"} => \A t \in incomplete' : t <= carried'
                    /\ pc' = "evaluate" => \A t \in incomplete' :
                          /\ t <= carried' \/ t <= window'.through
                          /\ window'.after < t => degraded'
    BY <1>0, Zenon DEF CarriedFurthest, NothingBehind
<1>a. /\ \A t \in incomplete : t <= clock
      /\ pc = "flush" => \A t \in incomplete : t <= bounds.high
      /\ pc \notin {"evaluate", "down"} => \A t \in incomplete : t <= carried
      /\ pc = "evaluate" => \A t \in incomplete :
            /\ t <= carried \/ t <= window.through
            /\ window.after < t => degraded
    BY Zenon DEF CarriedFurthest, NothingBehind
<1>b. TypeOK /\ MaxClock \in Nat /\ Times = 0 .. MaxClock /\ Never = MaxClock + 1
      /\ highWater \in Times /\ clock \in Times /\ carried \in Times \cup {None} /\ None = -1
      /\ bounds \in Bounds
      /\ window.after \in Times /\ window.through \in Times /\ window.after <= window.through
    BY Marks, Zenon DEF Typed, None
<1>c. /\ "stepback" \notin faults /\ "badrow" \notin faults
      /\ pc = "flush" => bounds.high <= clock
    BY Zenon DEF NothingBehind, ClockLeads
<1>d. incomplete \subseteq Times
    BY Zenon DEF Typed, TypeOK
<1>1. CASE CollectNothing \/ CollectExhausted
    <2>1. /\ pc = "idle" /\ UNCHANGED <<clock, incomplete>>
          /\ \E failed \in BOOLEAN : OpenWindow(UpToNow, carried, failed)
        BY <1>1, Zenon DEF CollectNothing, CollectExhausted, historyVars
    <2>2. UpToNow \in Window
        BY <1>b, UpToNowFacts, Zenon
    <2>3. PICK failed \in BOOLEAN :
              /\ window' = UpToNow /\ pc' = "evaluate"
              /\ degraded' = (failed \/ (carried # None /\ UpToNow.after < carried))
              /\ carried' = IF UpToNow.through >= carried THEN None ELSE carried
        BY ONLY <1>b, <2>1, <2>2, Opened, Zenon
    <2>4. UpToNow.after \in Times /\ UpToNow.through \in Times
        BY ONLY <2>2, Zenon DEF Window
    <2>5. carried # None /\ UpToNow.after < carried => degraded'
        BY ONLY <2>3, Zenon
    <2>6. \A t \in incomplete : t \in Times /\ t <= clock /\ t <= carried
        BY ONLY <1>a, <1>d, <2>1, Zenon
    <2>7. /\ window' = UpToNow /\ pc' = "evaluate" /\ clock' = clock /\ incomplete' = incomplete
          /\ carried' = IF UpToNow.through >= carried THEN None ELSE carried
        BY ONLY <2>1, <2>3, Zenon
    <2> QED
        BY ONLY <1>b, <2>4, <2>5, <2>6, <2>7
<1>2. CASE CollectRows
    <2>1. pc = "idle"
        BY <1>2, Zenon DEF CollectRows
    <2>2. /\ clock' \in Times /\ clock < clock' /\ pc' = "flush" /\ clock < bounds'.high
          /\ bounds' \in Bounds
          /\ UNCHANGED <<foldVars, incomplete>>
        BY <1>2, <1>b, <1>c, Collected, Zenon
    <2>3. bounds'.high \in Times /\ carried' = carried /\ incomplete' = incomplete
        BY ONLY <2>2, Zenon DEF foldVars, Bounds
    <2>4. clock' \in Times /\ clock < clock' /\ pc' = "flush" /\ clock < bounds'.high
        BY ONLY <2>2, Zenon
    <2>5. clock \in Int /\ clock' \in Int /\ bounds'.high \in Int /\ \A t \in incomplete : t \in Int
        BY ONLY <1>b, <1>d, <2>3, <2>4
    <2>6. \A t \in incomplete : t <= clock /\ t <= carried
        BY ONLY <1>a, <2>1, Zenon
    <2> QED
        BY ONLY <2>3, <2>4, <2>5, <2>6
<1>3. CASE Flushed
    <2>1. /\ pc = "flush" /\ AfterFold(bounds, commitFailed) /\ commitFailed \in BOOLEAN
          /\ clock' = clock /\ bounds.high \in Times
        BY <1>3, <1>b, FlushedFacts, Zenon DEF Bounds
    <2>2. /\ pc' = "evaluate" /\ window' \in Window
          /\ carried' \in Times \cup {None}
          /\ commitFailed => degraded'
          /\ incomplete' = IF commitFailed THEN incomplete \cup {bounds.high} ELSE incomplete
          /\ ~commitFailed => /\ carried' = IF window'.through >= carried THEN None ELSE carried
                              /\ carried # None /\ window'.after < carried => degraded'
          /\ commitFailed => bounds.high <= carried' \/ bounds.high <= window'.through
        BY ONLY <2>1, Zenon DEF AfterFold
    <2>3. window'.after \in Times /\ window'.through \in Times
        BY ONLY <2>2, Zenon DEF Window
    <2>4. CASE commitFailed
        BY ONLY <1>a, <1>b, <1>c, <1>d, <2>1, <2>2, <2>3, <2>4
    <2>5. CASE ~commitFailed
        BY ONLY <1>a, <1>b, <1>d, <2>1, <2>2, <2>3, <2>5
    <2> QED
        BY ONLY <2>4, <2>5, Zenon
<1>4. CASE Evaluate
    <2>1. /\ pc = "evaluate" /\ pc' = "persist" /\ UNCHANGED <<carried, clock>>
          /\ incomplete' = {t \in incomplete : window.through < t}
        BY <1>4, Zenon DEF Evaluate, foldVars
    <2> QED
        BY ONLY <1>a, <1>b, <1>d, <2>1
<1>5. CASE Restart
    BY <1>5, Zenon DEF Restart
<1>6. CASE Tick
    <2>1. pc = "idle" /\ pc' = "idle" /\ clock' = clock + 1 /\ UNCHANGED <<carried, incomplete>>
        BY <1>6, Zenon DEF Tick, foldVars, historyVars
    <2> QED
        BY ONLY <1>a, <1>b, <1>d, <2>1
<1>7. CASE \/ WriterCommit \/ WriterFails \/ PersistAlerts \/ PersistFails \/ RecordCursor
           \/ RecordFails \/ Crash \/ StepBack \/ UNCHANGED vars
    <2>1. /\ UNCHANGED <<carried, incomplete, clock, bounds, window, degraded>>
          /\ \/ pc' = pc \/ pc' = "down"
             \/ pc \in {"persist", "record"} /\ pc' \in {"record", "idle"}
        BY <1>7, <1>c, Zenon DEF WriterCommit, WriterFails, PersistAlerts, PersistFails, RecordCursor,
                 RecordFails, Crash, StepBack, vars, foldVars, historyVars
    <2> QED
        BY ONLY <1>a, <2>1, Zenon
<1> QED
    BY <1>1, <1>2, <1>3, <1>4, <1>5, <1>6, <1>7, Zenon DEF Next, Cycle

----------------------------------------------------------------------------
(* The theorems.                                                           *)

(* The inductive invariant holds when the agent starts on an empty store,  *)
(* every step of the loop, the writer and the clock keeps it, and so does  *)
(* a crash with the restart after it.                                      *)
THEOREM CycleInvariant == Spec => []CycleInv
<1>1. Init => CycleInv
    <2> SUFFICES ASSUME Init PROVE CycleInv
        BY Zenon
    <2>1. Typed
        BY TypedInit, Zenon
    <2>2. RowsPerCycle \in Nat /\ ordinal = 0 /\ pc = "idle" /\ mark = -1 /\ queue = <<>>
        BY OrdinalAssumption, Zenon DEF Init, None
    <2>3. NumberedUpwards
        BY ONLY <2>2 DEF NumberedUpwards, Issued
    <2>4. FreshRowsStored /\ ClockLeads
        BY DEF Init, FreshRowsStored, ClockLeads
    <2>5. WindowCovers /\ EvaluatedBehind /\ CarriedFurthest
        BY DEF Init, WindowCovers, SettledThrough, EvaluatedBehind, CarriedFurthest
    <2> QED
        BY <2>1, <2>3, <2>4, <2>5, Zenon DEF CycleInv
<1>2. CycleInv /\ [Next]_vars => CycleInv'
    <2> SUFFICES ASSUME CycleInv, [Next]_vars PROVE CycleInv'
        BY Zenon
    <2>1. /\ Typed /\ NumberedUpwards /\ discarded = {} /\ ClockLeads /\ WindowCovers
          /\ EvaluatedBehind /\ CarriedFurthest
        BY Zenon DEF CycleInv, FreshRowsStored
    <2>2. /\ Typed' /\ NumberedUpwards' /\ discarded' = {} /\ ClockLeads' /\ WindowCovers'
          /\ EvaluatedBehind' /\ CarriedFurthest'
        BY <2>1, TypedStep, NumberedStep, ClockStep, CoversStep, BehindStep, CarriedStep, Zenon
    <2> QED
        BY <2>2, Zenon DEF CycleInv, FreshRowsStored
<1> QED
    BY <1>1, <1>2, PTL DEF Spec

(* FreshRowsStored: however cycles fail and the agent restarts, the        *)
(* ordinals of next_cycle_ordinal keep the source_seqs of new rows above   *)
(* the watermark, so that the writer never takes one for a duplicate.      *)
THEOREM NoFreshRowDiscarded == Spec => []FreshRowsStored
<1>1. CycleInv => FreshRowsStored
    BY Zenon DEF CycleInv
<1> QED
    BY <1>1, CycleInvariant, PTL

(* NoRowSkipped: the windows of ingest_step and of the cycles without rows *)
(* leave no stored row behind the mark that was not evaluated and its      *)
(* alerts stored, with any rows, clock and number of cycles.               *)
THEOREM NoRowIsSkipped == Spec => []NoRowSkipped
<1>1. CycleInv => NoRowSkipped
    BY Zenon DEF CycleInv, WindowCovers, NoRowSkipped, EveryRowEvaluated, SettledThrough
<1> QED
    BY <1>1, CycleInvariant, PTL

(* EvaluatedOnce: with a clock that advances, an agent that stays up and a *)
(* store that takes the alerts, no row is in two windows.                  *)
THEOREM RowsEvaluatedOnce == Spec => []EvaluatedOnce
<1>1. CycleInv => EvaluatedOnce
    BY Zenon DEF CycleInv, EvaluatedBehind, EvaluatedOnce
<1> QED
    BY <1>1, CycleInvariant, PTL

(* DegradedUntilReached: CarriedFailure reaches as far as the furthest row *)
(* of every failed attempt, so that each window before it is degraded.     *)
THEOREM FailuresDegrade == Spec => []DegradedUntilReached
<1>1. CycleInv => DegradedUntilReached
    BY Zenon DEF CycleInv, CarriedFurthest, DegradedUntilReached
<1> QED
    BY <1>1, CycleInvariant, PTL
=============================================================================
