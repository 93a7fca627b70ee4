-------------------------- MODULE ConnectorProofs --------------------------
(***************************************************************************)
(* Proofs about the publishing path, for every number of events and        *)
(* crashes, every rotation threshold, buffer size and channel capacity.    *)
(***************************************************************************)
EXTENDS Connector, TLAPS

USE RotateAtAssumption, MaxEventAssumption, MaxBufferAssumption,
    SignalCapacityAssumption, MaxCrashAssumption, FaultsAssumption

----------------------------------------------------------------------------
(* The type invariant is inductive, whatever faults happen.                *)

(* What the operators on sequences return, for the buffer and the channel. *)
LEMMA EmptySequence ==
  ASSUME NEW S
  PROVE  << >> \in Seq(S) /\ Len(<< >>) = 0 /\ \A s \in Seq(S) : s # << >> => Len(s) \in Nat \ {0}
  OBVIOUS

LEMMA SequenceIndices ==
  ASSUME NEW S, NEW s \in Seq(S)
  PROVE  Len(s) \in Nat /\ s \in [1 .. Len(s) -> S] /\ DOMAIN s = 1 .. Len(s)
  OBVIOUS

LEMMA SequenceTail ==
  ASSUME NEW S, NEW s \in Seq(S), s # << >>
  PROVE  /\ Head(s) \in S /\ Tail(s) \in Seq(S) /\ Len(Tail(s)) = Len(s) - 1
         /\ \A i \in 1 .. Len(Tail(s)) : Tail(s)[i] = s[i + 1]
  OBVIOUS

LEMMA SequenceAppended ==
  ASSUME NEW S, NEW s \in Seq(S), NEW e \in S
  PROVE  /\ Append(s, e) \in Seq(S) /\ Len(Append(s, e)) = Len(s) + 1
         /\ \A i \in 1 .. Len(s) : Append(s, e)[i] = s[i]
         /\ Append(s, e)[Len(s) + 1] = e
  OBVIOUS

(* Opening the WAL yields a well-typed WAL. *)
LEMMA WalOpenType == ASSUME WalTypeOK, WalOpen PROVE WalTypeOK'
  <1>1. PICK listed \in SUBSET Files, found \in SUBSET entries : OpenAfterScan(listed, found)
    BY Zenon DEF WalOpen, Replayable
  <1> QED BY <1>1 DEF WalTypeOK, OpenAfterScan, Files, Entry, InitialSequence

(* So does an append that succeeds, fails or fails to rotate. *)
LEMMA WalWriteType ==
  ASSUME WalTypeOK, NEW ev \in Events, WalWrite(ev) \/ WalWriteFails \/ WalRotateFails(ev)
  PROVE  WalTypeOK'
  <1>1. CASE WriteInPlace(ev)
    BY <1>1 DEF WalTypeOK, WriteInPlace, Append1, Grown, Files, Entry
  <1>2. CASE WriteAndRotate(ev)
    BY <1>2 DEF WalTypeOK, WriteAndRotate, Append1, Grown, Files, Entry
  <1>3. CASE WalWriteFails
    BY <1>3 DEF WalTypeOK, WalWriteFails, Files, Entry
  <1>4. CASE WalRotateFails(ev)
    BY <1>4 DEF WalTypeOK, WalRotateFails, Append1, Grown, Files, Entry
  <1> QED BY <1>1, <1>2, <1>3, <1>4, Zenon DEF WalWrite

(* So do clean-up and a crash. *)
LEMMA WalMarkType == ASSUME WalTypeOK, NEW upTo, WalMarkPublished(upTo) PROVE WalTypeOK'
  BY Zenon DEF WalTypeOK, WalMarkPublished, Deletable, Files, Entry

LEMMA WalCrashType == ASSUME WalTypeOK, WalCrash PROVE WalTypeOK'
  BY Zenon DEF WalTypeOK, WalCrash, walVars, Files, Entry

(* The buffer and the channel stay within their limits. *)
LEMMA BackpressureType ==
  ASSUME TypeOK, NEW p \in Nat, NEW c \in Nat, CheckBackpressure(p, c)
  PROVE  /\ signals' \in Seq({"Activated", "Released"}) /\ Len(signals') <= SignalCapacity
         /\ lastSignal' \in {"none", "Activated", "Released"}
  <1> DEFINE signal == Crossing(p, c)
  <1> DEFINE Kind == {"Activated", "Released"}
  <1>1. signal \in {"none", "Activated", "Released"}
    BY Zenon DEF Crossing
  <1>2. signals \in Seq(Kind) /\ Len(signals) <= SignalCapacity
    BY Zenon DEF TypeOK
  <1>3. CASE signal = "none"
    BY <1>2, <1>3, Zenon DEF CheckBackpressure, TypeOK
  <1>4. CASE signal # "none" /\ Len(signals) < SignalCapacity
    <2>1. signals' = Append(signals, signal) /\ lastSignal' = signal
      BY <1>4, Zenon DEF CheckBackpressure
    <2>2. signal \in Kind
      BY <1>1, <1>4, Zenon
    <2> HIDE DEF signal, Kind
    <2>3. signals' \in Seq(Kind) /\ Len(signals') = Len(signals) + 1
      BY <1>2, <2>1, <2>2, SequenceAppended, Zenon
    <2>4. Len(signals) \in Nat
      BY <1>2, SequenceIndices, Zenon
    <2> QED BY <1>1, <1>4, <2>1, <2>3, <2>4 DEF Kind
  <1>5. CASE signal # "none" /\ ~(Len(signals) < SignalCapacity)
    BY <1>2, <1>5, Zenon DEF CheckBackpressure, TypeOK
  <1> QED BY <1>3, <1>4, <1>5, Zenon

LEMMA UsageType == ASSUME NEW b \in Seq(Item) PROVE Usage(b) \in Nat
  BY DEF Usage

LEMMA AddToBufferType ==
  ASSUME TypeOK, NEW item \in Item, AddToBuffer(item)
  PROVE  /\ buffer' \in Seq(Item) /\ Len(buffer') <= MaxBuffer
         /\ signals' \in Seq({"Activated", "Released"}) /\ Len(signals') <= SignalCapacity
         /\ lastSignal' \in {"none", "Activated", "Released"}
  <1>1. CASE Len(buffer) < MaxBuffer
    <2>1. /\ buffer' = Append(buffer, item)
          /\ CheckBackpressure(Usage(buffer), Usage(Append(buffer, item)))
      BY <1>1 DEF AddToBuffer, TypeOK
    <2>2. Usage(buffer) \in Nat /\ Usage(Append(buffer, item)) \in Nat
      BY UsageType, SequenceAppended, Zenon DEF TypeOK
    <2>3. buffer' \in Seq(Item) /\ Len(buffer') <= MaxBuffer
      BY <1>1, <2>1, SequenceAppended, SequenceIndices DEF TypeOK
    <2> QED BY <2>1, <2>2, <2>3, BackpressureType, Zenon
  <1>2. CASE ~(Len(buffer) < MaxBuffer)
    BY <1>2, Zenon DEF AddToBuffer, bufferVars, TypeOK
  <1> QED BY <1>1, <1>2, Zenon

LEMMA WalUnchangedType == ASSUME WalTypeOK, UNCHANGED walVars PROVE WalTypeOK'
  BY Zenon DEF WalTypeOK, walVars, Files, Entry

LEMMA BeginReplayType ==
  ASSUME TypeOK, NEW return \in {"idle", "send"}, BeginReplay(return)
  PROVE  /\ pc' \in PCs /\ then' \in {"idle", "send", "down"}
         /\ todo' \subseteq Entry /\ lastOk' \in Nat
  BY DEF TypeOK, BeginReplay, Replayable, WalTypeOK, PCs

LEMMA EmptyFits ==
  /\ <<>> \in Seq(Item) /\ <<>> \in Seq({"Activated", "Released"})
  /\ Len(<<>>) <= MaxBuffer /\ Len(<<>>) <= SignalCapacity
  BY EmptySequence

LEMMA TypeStep == ASSUME TypeOK, [Next]_vars PROVE TypeOK'
  <1> USE DEF localVars, handlerVars, bufferVars, worldVars
  <1>0. WalTypeOK BY Zenon DEF TypeOK
  <1>1. CASE Start
    BY <1>0, <1>1, WalOpenType, EmptyFits, Zenon DEF Start, TypeOK, PCs
  <1>2. CASE Connect
    BY <1>0, <1>2, WalUnchangedType, BeginReplayType, Zenon DEF Connect, TypeOK
  <1>3. CASE ConnectFails
    BY <1>0, <1>3, WalUnchangedType, Zenon DEF ConnectFails, TypeOK, PCs
  <1>4. CASE Publish
    <2>1. nextEvent \in Events
      BY <1>4 DEF Publish, TypeOK, Events
    <2>2. WalTypeOK' /\ nextSeq \in Nat
      BY <1>0, <1>4, <2>1, WalWriteType, Zenon DEF Publish, WalTypeOK
    <2>3. pend' \in Item
      BY <1>4, <2>2, Zenon DEF Publish, TypeOK, Item
    <2> QED BY <1>4, <2>2, <2>3 DEF Publish, TypeOK, PCs
  <1>5. CASE PublishWalError
    <2>1. nextEvent \in Events
      BY <1>5 DEF PublishWalError, TypeOK, Events
    <2>2. WalTypeOK'
      BY <1>0, <1>5, <2>1, WalWriteType, Zenon DEF PublishWalError
    <2> QED BY <1>5, <2>2 DEF PublishWalError, TypeOK
  <1>6. CASE Reconnect
    BY <1>0, <1>6, WalUnchangedType, BeginReplayType, Zenon DEF Reconnect, TypeOK
  <1>7. CASE ReconnectFails
    BY <1>0, <1>7, WalUnchangedType, Zenon DEF ReconnectFails, TypeOK, PCs
  <1>8. CASE ReplayOne
    <2>1. PICK e \in todo : /\ delivered' = delivered \cup {e.ev}
                            /\ lastOk' = e.seq
                            /\ todo' = todo \ {e}
      BY <1>8, Zenon DEF ReplayOne
    <2>2. e.ev \in Nat /\ e.seq \in Nat
      BY DEF TypeOK, Entry, Events
    <2> QED BY <1>0, <1>8, <2>1, <2>2, WalUnchangedType, Zenon DEF ReplayOne, TypeOK
  <1>9. CASE ReplayFails
    <2>1. WalTypeOK'
      BY <1>0, <1>9, WalUnchangedType, WalMarkType, Zenon DEF ReplayFails
    <2>2. PICK e \in todo : AddToBuffer([seq |-> e.seq, ev |-> e.ev])
      BY <1>9, Zenon DEF ReplayFails
    <2>3. [seq |-> e.seq, ev |-> e.ev] \in Item
      BY DEF TypeOK, Entry, Events, Item
    <2> QED BY <1>9, <2>1, <2>2, <2>3, AddToBufferType, Zenon DEF ReplayFails, TypeOK, PCs
  <1>10. CASE ReplayDone
    BY <1>0, <1>10, WalUnchangedType, WalMarkType, UsageType, Zenon DEF ReplayDone, TypeOK, PCs
  <1>11. CASE FlushOne
    <2>1. WalTypeOK'
      BY <1>0, <1>11, WalMarkType, Zenon DEF FlushOne
    <2>2. Head(buffer) \in Item /\ buffer' \in Seq(Item) /\ Len(buffer') = Len(buffer) - 1
      BY <1>11, SequenceTail, Zenon DEF FlushOne, TypeOK
    <2>3. Len(buffer) \in Nat
      BY SequenceIndices, Zenon DEF TypeOK
    <2>4. delivered' \subseteq Nat
      BY <1>11, <2>2, Zenon DEF FlushOne, TypeOK, Item
    <2>5. Len(buffer') <= MaxBuffer
      BY <2>2, <2>3 DEF TypeOK
    <2> QED BY <1>11, <2>1, <2>2, <2>4, <2>5, Zenon DEF FlushOne, TypeOK
  <1>12. CASE FlushFails
    BY <1>0, <1>12, WalUnchangedType, BackpressureType, UsageType, Zenon DEF FlushFails, TypeOK, PCs
  <1>13. CASE FlushDone
    BY <1>0, <1>13, WalUnchangedType, BackpressureType, UsageType, Zenon DEF FlushDone, TypeOK, PCs
  <1>14. CASE Send
    BY <1>0, <1>14, WalUnchangedType, Zenon DEF Send, TypeOK, PCs, Item
  <1>15. CASE SendFails
    BY <1>0, <1>15, WalUnchangedType, Zenon DEF SendFails, TypeOK, PCs
  <1>16. CASE Park
    BY <1>0, <1>16, WalUnchangedType, AddToBufferType, Zenon DEF Park, TypeOK, PCs
  <1>17. CASE Mark
    BY <1>0, <1>17, WalMarkType, Zenon DEF Mark, TypeOK, PCs
  <1>18. CASE Shutdown
    BY <1>0, <1>18, WalUnchangedType, UsageType DEF Shutdown, TypeOK, PCs
  <1>19. CASE Crash
    <2>1. \A e \in entries : e.ev \in Nat
      BY <1>0 DEF WalTypeOK, Entry, Events
    <2>2. tornEvents' \subseteq Nat
      BY <1>19, <2>1, Zenon DEF Crash, TypeOK
    <2>3. WalTypeOK'
      BY <1>0, <1>19, WalCrashType, Zenon DEF Crash
    <2>4. /\ pc' = "down" /\ connected' = FALSE /\ ends' = ends + 1
          /\ UNCHANGED <<localVars, bufferVars, nextEvent, accepted, delivered>>
      BY <1>19, Zenon DEF Crash
    <2>5. connected' \in BOOLEAN
      BY <2>4, Zenon
    <2>6. pc' \in PCs /\ ends' \in Nat
      BY <2>4 DEF TypeOK, PCs
    <2> QED BY <2>2, <2>3, <2>4, <2>5, <2>6, Zenon DEF TypeOK
  <1>20. CASE TakeSignal
    <2>1. signals' \in Seq({"Activated", "Released"}) /\ Len(signals') = Len(signals) - 1
      BY <1>20, SequenceTail, Zenon DEF TakeSignal, TypeOK
    <2>2. Len(signals) \in Nat
      BY SequenceIndices, Zenon DEF TypeOK
    <2>3. Len(signals') <= SignalCapacity
      BY <2>1, <2>2 DEF TypeOK
    <2> QED BY <1>0, <1>20, <2>1, <2>3, WalUnchangedType, Zenon DEF TakeSignal, TypeOK
  <1>21. CASE UNCHANGED vars
    BY <1>0, <1>21, WalUnchangedType, Zenon DEF vars, TypeOK
  <1> QED BY <1>1, <1>2, <1>3, <1>4, <1>5, <1>6, <1>7, <1>8, <1>9, <1>10, <1>11, <1>12,
             <1>13, <1>14, <1>15, <1>16, <1>17, <1>18, <1>19, <1>20, <1>21, Zenon DEF Next

LEMMA InitType == ASSUME Init PROVE TypeOK
  <1>1. WalTypeOK
    BY Zenon DEF Init, WalInit, WalTypeOK, Files
  <1>2. buffer \in Seq(Item) /\ Len(buffer) <= MaxBuffer
    BY EmptyFits, Zenon DEF Init
  <1>3. signals \in Seq({"Activated", "Released"}) /\ Len(signals) <= SignalCapacity
    BY EmptyFits, Zenon DEF Init
  <1>4. connected \in BOOLEAN /\ tornEvents \subseteq Nat /\ accepted \subseteq Item
    BY Zenon DEF Init
  <1>5. pend \in Item
    BY Zenon DEF Init, NoEvent, Item
  <1>6. nextEvent \in Nat \ {0} /\ delivered \subseteq Nat /\ todo \subseteq Entry
    BY DEF Init
  <1>7. pc \in PCs /\ then \in {"idle", "send", "down"}
    BY Zenon DEF Init, PCs
  <1>8. lastSignal \in {"none", "Activated", "Released"} /\ lastOk \in Nat
        /\ usage0 \in Nat /\ ends \in Nat
    BY Zenon DEF Init
  <1> QED BY <1>1, <1>2, <1>3, <1>4, <1>5, <1>6, <1>7, <1>8, Zenon DEF TypeOK

(* Every reachable state is well typed: the buffer of EventBusConnector    *)
(* stays within max_buffer_size and its backpressure channel within its    *)
(* capacity, under every fault of the disk.                                *)
THEOREM TypeCorrect == Spec => []TypeOK
  BY InitType, TypeStep, PTL DEF Spec

----------------------------------------------------------------------------
(* Without disk faults the inductive invariant is preserved.               *)

(* What a clean-up leaves and takes. *)
LEMMA MarkEffect ==
  ASSUME WalTypeOK, NEW upTo, WalMarkPublished(upTo)
  PROVE  /\ entries' \subseteq entries
         /\ \A e \in entries \ entries' : e.seq <= upTo
         /\ DOMAIN len' \subseteq DOMAIN len
         /\ cur \in DOMAIN len => cur \in DOMAIN len'
         /\ torn' \subseteq torn
         /\ UNCHANGED <<active, cur, nextSeq>>
  <1>1. PICK D \in SUBSET Deletable(upTo) :
           /\ len' = [g \in Files \ D |-> len[g]]
           /\ entries' = {e \in entries : e.file \notin D}
           /\ torn' = torn \ D
           /\ UNCHANGED <<active, cur, nextSeq>>
    BY Zenon DEF WalMarkPublished
  <1>2. \A e \in entries \ entries' : e.seq <= upTo
    BY <1>1, Zenon DEF Deletable, InFile
  <1>3. cur \notin D
    BY <1>1, Zenon DEF Deletable
  <1> QED BY <1>1, <1>2, <1>3, Zenon DEF Files

(* The two conjuncts that a clean-up or nothing else on disk may disturb   *)
(* survive when entries only leave.                                        *)
LEMMA FewerEntries ==
  ASSUME DiskInOrder, entries' \subseteq entries PROVE DiskInOrder'
  BY Zenon DEF DiskInOrder

LEMMA RecoverableKept ==
  ASSUME Recoverable, UNCHANGED accepted, delivered \subseteq delivered',
         \A e \in entries \ entries' : e.ev \in delivered'
  PROVE  Recoverable'
  BY Zenon DEF Recoverable

(* Delivering one more event keeps the order of first deliveries when      *)
(* every older event on disk is delivered.                                 *)
LEMMA DeliverInOrder ==
  ASSUME Recoverable, InOrder, UNCHANGED accepted, NEW ev,
         delivered' = delivered \cup {ev},
         \A e \in entries : e.ev < ev => e.ev \in delivered
  PROVE  InOrder'
  BY DEF Recoverable, InOrder

(* What the buffer holds was published before. *)
LEMMA BufferBounded ==
  ASSUME TypeOK, NEW item \in Item, AddToBuffer(item), item.ev < nextEvent,
         \A i \in 1 .. Len(buffer) : buffer[i].ev < nextEvent
  PROVE  \A i \in 1 .. Len(buffer') : buffer'[i].ev < nextEvent
  <1>1. CASE UNCHANGED buffer
    BY <1>1, Zenon
  <1>2. CASE buffer' = Append(buffer, item)
    <2>1. buffer \in Seq(Item) BY Zenon DEF TypeOK
    <2>2. /\ Len(buffer') = Len(buffer) + 1
          /\ \A i \in 1 .. Len(buffer) : buffer'[i] = buffer[i]
          /\ buffer'[Len(buffer) + 1] = item
      BY <1>2, <2>1, SequenceAppended
    <2>3. Len(buffer) \in Nat BY <2>1, SequenceIndices, Zenon
    <2>4. \A i \in 1 .. Len(buffer') : i \in 1 .. Len(buffer) \/ i = Len(buffer) + 1
      BY <2>2, <2>3
    <2> QED BY <2>2, <2>4, Zenon
  <1> QED BY <1>1, <1>2, Zenon DEF AddToBuffer, bufferVars

(* The first entry of a replay is the oldest one left. *)
LEMMA FirstIsOldest ==
  ASSUME TypeOK, Bounded, DiskInOrder, todo \subseteq entries,
         NEW e \in todo, IsFirst(e, todo), NEW o \in todo
  PROVE  /\ e.ev <= o.ev
         /\ o.seq <= e.seq => o = e
  <1>1. /\ e \in entries /\ o \in entries
        /\ e.ev \in Nat /\ o.ev \in Nat /\ e.seq \in Nat /\ o.seq \in Nat
        /\ e.file \in Nat /\ o.file \in Nat
    BY DEF TypeOK, WalTypeOK, Entry, Events
  <1>2. e.file < o.file \/ (e.file = o.file /\ e.seq <= o.seq)
    BY Zenon DEF IsFirst
  <1>3. ~(o.ev < e.ev)
    BY <1>1, <1>2 DEF DiskInOrder
  <1>4. e.ev < o.ev => e.seq < o.seq
    BY <1>1, Zenon DEF DiskInOrder
  <1>5. e.ev = o.ev => e = o
    BY <1>1, Zenon DEF Bounded
  <1> QED BY <1>1, <1>3, <1>4, <1>5

(* A new entry in the file the handle has open keeps the disk in order. *)
LEMMA WriteEffect ==
  ASSUME TypeOK, Bounded, DiskInOrder, pc = "idle", WalWrite(nextEvent)
  PROVE  /\ entries' = entries \cup {[file |-> cur, seq |-> nextSeq, ev |-> nextEvent]}
         /\ nextSeq' = nextSeq + 1
         /\ torn' = {} /\ active' = cur' /\ cur' \in DOMAIN len'
         /\ \A f \in DOMAIN len' : f <= cur'
  <1> DEFINE new == [file |-> cur, seq |-> nextSeq, ev |-> nextEvent]
  <1>1. active = cur /\ cur \in Files \ torn /\ torn = {} /\ \A f \in Files : f <= cur
    BY Zenon DEF Bounded
  <1>2. Append1(new)
    BY <1>1, Zenon DEF WalWrite, WriteInPlace, WriteAndRotate
  <1>3. entries' = entries \cup {new} /\ nextSeq' = nextSeq + 1
    BY <1>1, <1>2, Zenon DEF Append1
  <1>4. cur \in Nat /\ Files \subseteq Nat
    BY Zenon DEF TypeOK, WalTypeOK
  <1>5. CASE WriteInPlace(nextEvent)
    BY <1>1, <1>3, <1>5, Zenon DEF WriteInPlace, Grown, Files
  <1>6. CASE WriteAndRotate(nextEvent)
    BY <1>1, <1>3, <1>4, <1>6 DEF WriteAndRotate, Files
  <1> QED BY <1>5, <1>6, Zenon DEF WalWrite

(* Opening the WAL again finds the same entries and continues above them. *)
LEMMA OpenEffect ==
  ASSUME faults = {}, TypeOK, WalOpen
  PROVE  /\ UNCHANGED <<entries, torn>>
         /\ active' = cur' /\ cur' \in DOMAIN len'
         /\ \A f \in DOMAIN len' : f <= cur'
         /\ nextSeq' >= 1 /\ \A e \in entries : e.seq < nextSeq'
  <1>0. OpenAfterScan(Files, entries)
    BY Zenon DEF WalOpen, Replayable
  <1>1. PICK f \in {1} \cup Files, hi \in {0} \cup {e.seq : e \in entries} :
           /\ \A g \in Files : g <= f
           /\ \A e \in entries : e.seq <= hi
           /\ active' = f /\ cur' = f
           /\ len' = [g \in Files \cup {f} |-> IF g \in Files THEN len[g] ELSE 0]
           /\ nextSeq' = hi + 1
           /\ UNCHANGED <<entries, torn>>
    BY <1>0, Zenon DEF OpenAfterScan, InitialSequence
  <1>2. hi \in Nat /\ f \in Nat /\ \A e \in entries : e.seq \in Nat
    <2>1. \A e \in entries : e.seq \in Nat
      BY Zenon DEF TypeOK, WalTypeOK, Entry
    <2>2. Files \subseteq Nat
      BY DEF TypeOK, WalTypeOK, Files
    <2> QED BY ONLY <2>1, <2>2, f \in {1} \cup Files, hi \in {0} \cup {e.seq : e \in entries}
  <1>3. nextSeq' >= 1 /\ \A e \in entries : e.seq < nextSeq'
    BY <1>1, <1>2
  <1>4. \A g \in DOMAIN len' : g <= cur'
    BY <1>1, <1>2
  <1> QED BY <1>1, <1>3, <1>4, Zenon

(* A step that leaves the disk and the histories alone. *)
LEMMA SameDisk ==
  ASSUME DiskInOrder, Recoverable, InOrder,
         UNCHANGED <<entries, accepted, delivered>>
  PROVE  DiskInOrder' /\ Recoverable' /\ InOrder'
  BY Zenon DEF DiskInOrder, Recoverable, InOrder

(* The bounds survive when the disk only shrinks. *)
LEMMA BoundedKept ==
  ASSUME Bounded, pc = "down" => pc' = "down",
         entries' \subseteq entries, DOMAIN len' \subseteq DOMAIN len, torn' = {},
         cur \in DOMAIN len => cur \in DOMAIN len',
         UNCHANGED <<active, cur, nextSeq, nextEvent, accepted, pend>>,
         \A d \in delivered' : d < nextEvent,
         \A i \in 1 .. Len(buffer') : buffer'[i].ev < nextEvent
  PROVE  Bounded'
  BY Zenon DEF Bounded, Files

LEMMA BoundedSame ==
  ASSUME Bounded, pc = "down" => pc' = "down",
         UNCHANGED <<walVars, nextEvent, accepted, pend, delivered, buffer>>
  PROVE  Bounded'
  BY BoundedKept, Zenon DEF Bounded, walVars

LEMMA IInvStep == ASSUME faults = {}, IInv, [Next]_vars PROVE IInv'
  <1> USE DEF localVars, handlerVars, bufferVars, worldVars
  <1> TypeOK /\ Bounded /\ DiskInOrder /\ DeliveredSoFar /\ Recoverable /\ InOrder
    BY Zenon DEF IInv
  <1> WalTypeOK
    BY Zenon DEF TypeOK
  <1>0. TypeOK'
    BY TypeStep, Zenon
  <1> SUFFICES Bounded' /\ DiskInOrder' /\ DeliveredSoFar' /\ Recoverable'
               /\ InOrder'
    BY <1>0, Zenon DEF IInv
  <1>1. CASE Start
    <2>1. /\ pc' = "connect" /\ connected' = FALSE /\ buffer' = <<>> /\ WalOpen
          /\ UNCHANGED <<nextEvent, accepted, delivered, pend>>
      BY <1>1, Zenon DEF Start
    <2>2. torn = {} BY Zenon DEF Bounded
    <2>3. Len(buffer') = 0 BY <2>1, EmptySequence, Zenon
    <2>4. Bounded'
      BY <2>1, <2>2, <2>3, OpenEffect DEF Bounded, Files
    <2>5. DeliveredSoFar' BY <2>1, Zenon DEF DeliveredSoFar
    <2> QED BY <2>1, <2>2, <2>4, <2>5, OpenEffect, SameDisk, Zenon
  <1>2. CASE Connect \/ Reconnect
    <2>1. Bounded'
      BY <1>2, BoundedSame, Zenon DEF Connect, Reconnect
    <2>2. UNCHANGED <<entries, accepted, delivered, pend>> /\ pc \in {"connect", "reconnect"}
      BY <1>2, Zenon DEF Connect, Reconnect, walVars
    <2>3. PICK return \in {"idle", "send"} : BeginReplay(return)
      BY <1>2, Zenon DEF Connect, Reconnect
    <2>4. /\ todo' = entries /\ lastOk' = 0
          /\ pc' = IF entries = {} THEN return ELSE "replay"
      BY <2>3, Zenon DEF BeginReplay, Replayable
    <2>5. \A e \in entries : e.seq \in Nat /\ e.seq >= 1
      BY Zenon DEF Bounded, TypeOK, WalTypeOK, Entry
    <2>6. DeliveredSoFar'
      BY <2>2, <2>3, <2>4, <2>5 DEF DeliveredSoFar
    <2> QED BY <2>1, <2>2, <2>6, SameDisk, Zenon
  <1>3. CASE ConnectFails \/ ReconnectFails \/ SendFails
    <2>1. Bounded'
      BY <1>3, BoundedSame, Zenon DEF ConnectFails, ReconnectFails, SendFails
    <2>2. UNCHANGED <<entries, accepted, delivered, pend>>
      BY <1>3, Zenon DEF ConnectFails, ReconnectFails, SendFails, walVars
    <2>3. pc' \in {"idle", "park"} /\ connected' = FALSE
      BY <1>3, Zenon DEF ConnectFails, ReconnectFails, SendFails, DeliveredSoFar, TypeOK
    <2>4. DeliveredSoFar' BY <2>2, <2>3, Zenon DEF DeliveredSoFar
    <2> QED BY <2>1, <2>2, <2>4, SameDisk, Zenon
  <1>4. CASE Publish
    <2> DEFINE new == [file |-> cur, seq |-> nextSeq, ev |-> nextEvent]
    <2>1. /\ pc = "idle" /\ pend' = [seq |-> nextSeq, ev |-> nextEvent]
          /\ accepted' = accepted \cup {pend'} /\ nextEvent' = nextEvent + 1
          /\ pc' = IF connected THEN "send" ELSE "reconnect"
          /\ UNCHANGED <<connected, delivered, buffer>>
      BY <1>4, Zenon DEF Publish
    <2>2. /\ entries' = entries \cup {new} /\ nextSeq' = nextSeq + 1
          /\ torn' = {} /\ active' = cur' /\ cur' \in DOMAIN len'
          /\ \A f \in DOMAIN len' : f <= cur'
      BY <1>4, <2>1, WriteEffect, Zenon DEF Publish
    <2>3. /\ nextEvent \in Nat /\ nextSeq \in Nat /\ cur \in Nat
          /\ \A e \in entries : e.ev \in Nat /\ e.seq \in Nat /\ e.file \in Nat
      BY DEF TypeOK, WalTypeOK, Entry, Events
    <2>4. \A e \in entries : e.ev < nextEvent /\ e.seq < nextSeq /\ e.file <= cur /\ e.seq >= 1
      BY <2>1, Zenon DEF Bounded, TypeOK, WalTypeOK
    <2>5. Bounded'
      <3>1. \A e \in entries' : e.seq >= 1 /\ e.ev < nextEvent' /\ e.seq < nextSeq'
        BY <2>1, <2>2, <2>3, <2>4 DEF Bounded
      <3>2. \A a, b \in entries' : a.ev = b.ev => a = b
        BY <2>2, <2>3, <2>4 DEF Bounded
      <3>3. /\ \A a \in accepted' : a.ev < nextEvent'
            /\ \A d \in delivered' : d < nextEvent'
        <4>1. \A a \in accepted : a.ev \in Nat /\ a.ev < nextEvent
          BY Zenon DEF Bounded, TypeOK, Item
        <4>2. \A d \in delivered : d \in Nat /\ d < nextEvent
          BY Zenon DEF Bounded, TypeOK
        <4>3. pend'.ev = nextEvent
          BY <2>1, Zenon
        <4> QED BY <2>1, <2>3, <4>1, <4>2, <4>3
      <3>4. \A i \in 1 .. Len(buffer') : buffer'[i].ev < nextEvent'
        <4>1. \A i \in 1 .. Len(buffer) : buffer[i].ev \in Nat
          <5>1. \A i \in 1 .. Len(buffer) : buffer[i] \in Item
            BY SequenceIndices, Zenon DEF TypeOK
          <5> QED BY <5>1, Zenon DEF Item
        <4> QED BY <2>1, <2>3, <4>1 DEF Bounded
      <3>5. pend'.ev < nextEvent' /\ nextSeq' >= 1
        BY <2>1, <2>2, <2>3
      <3> QED BY <2>2, <3>1, <3>2, <3>3, <3>4, <3>5, Zenon DEF Bounded, Files
    <2>6. DiskInOrder'
      BY <2>2, <2>3, <2>4 DEF DiskInOrder
    <2>7. DeliveredSoFar'
      BY <2>1, <2>2 DEF DeliveredSoFar, TypeOK
    <2>8. Recoverable'
      <3>1. new \in entries' /\ new.ev = pend'.ev
        BY <2>1, <2>2, Zenon
      <3>2. \A a \in accepted : a.ev \in delivered' \/ \E e \in entries' : e.ev = a.ev
        BY <2>1, <2>2, Zenon DEF Recoverable
      <3> HIDE DEF new
      <3> QED BY <2>1, <3>1, <3>2, Zenon DEF Recoverable
    <2>9. InOrder'
      BY <2>1, <2>3 DEF InOrder, Bounded, TypeOK, Item
    <2> QED BY <2>5, <2>6, <2>7, <2>8, <2>9, Zenon
  <1>5. CASE PublishWalError
    BY <1>5, Zenon DEF PublishWalError, WalWriteFails, WalRotateFails
  <1>6. CASE ReplayOne
    <2>1. /\ pc = "replay" /\ pc' = "replay"
          /\ UNCHANGED <<walVars, nextEvent, accepted, pend, buffer, connected>>
      BY <1>6, Zenon DEF ReplayOne
    <2>2. PICK e \in todo : /\ IsFirst(e, todo)
                            /\ delivered' = delivered \cup {e.ev}
                            /\ lastOk' = e.seq
                            /\ todo' = todo \ {e}
      BY <1>6, Zenon DEF ReplayOne
    <2>3. todo \subseteq entries /\ UNCHANGED entries
      BY <2>1, Zenon DEF DeliveredSoFar, walVars
    <2>4. \A o \in todo : e.ev <= o.ev /\ (o.seq <= e.seq => o = e)
      BY <2>2, <2>3, FirstIsOldest, Zenon
    <2>5. Bounded'
      BY <2>1, <2>2, <2>3, BoundedKept, Zenon DEF Bounded, walVars
    <2>6. DeliveredSoFar'
      BY <2>1, <2>2, <2>3, <2>4, Zenon DEF DeliveredSoFar
    <2>7. DiskInOrder' /\ Recoverable'
      BY <2>1, <2>2, <2>3, FewerEntries, RecoverableKept, Zenon
    <2>8. \A o \in entries : o.ev < e.ev => o.ev \in delivered
      <3>1. \A o \in entries : o.ev \in Nat
        BY DEF WalTypeOK, Entry, Events
      <3> QED BY <2>1, <2>3, <2>4, <3>1 DEF DeliveredSoFar
    <2>9. InOrder'
      BY <2>1, <2>2, <2>8, DeliverInOrder, Zenon
    <2> QED BY <2>5, <2>6, <2>7, <2>9, Zenon
  <1>7. CASE ReplayFails
    <2>1. /\ pc = "replay" /\ connected' = FALSE
          /\ pc' = IF then = "send" THEN "park" ELSE then
          /\ UNCHANGED <<nextEvent, accepted, delivered, pend>>
      BY <1>7, Zenon DEF ReplayFails
    <2>2. PICK e \in todo : AddToBuffer([seq |-> e.seq, ev |-> e.ev])
      BY <1>7, Zenon DEF ReplayFails
    <2>3. \A i \in 1 .. Len(buffer') : buffer'[i].ev < nextEvent
      <3>1. e \in entries /\ e.ev \in Nat /\ e.seq \in Nat
        BY <2>1 DEF DeliveredSoFar, WalTypeOK, Entry, Events
      <3>2. [seq |-> e.seq, ev |-> e.ev] \in Item
        BY <3>1, Zenon DEF Item
      <3> QED BY <2>2, <3>1, <3>2, BufferBounded, Zenon DEF Bounded
    <2>4. /\ entries' \subseteq entries
          /\ \A o \in entries \ entries' : o.ev \in delivered
          /\ DOMAIN len' \subseteq DOMAIN len /\ (cur \in DOMAIN len => cur \in DOMAIN len')
          /\ torn' = {} /\ UNCHANGED <<active, cur, nextSeq>>
      BY <1>7, <2>1, MarkEffect, Zenon DEF ReplayFails, DeliveredSoFar, Bounded, walVars
    <2>5. Bounded'
      BY <2>1, <2>3, <2>4, BoundedKept, Zenon DEF Bounded
    <2>6. pc' \in {"idle", "park", "down"}
      BY <2>1, Zenon DEF TypeOK
    <2>7. DeliveredSoFar'
      BY <2>1, <2>6, Zenon DEF DeliveredSoFar
    <2> QED BY <2>1, <2>4, <2>5, <2>7, FewerEntries, RecoverableKept, Zenon DEF InOrder
  <1>8. CASE ReplayDone
    <2>1. /\ pc = "replay" /\ todo = {} /\ pc' = "flush"
          /\ UNCHANGED <<nextEvent, accepted, delivered, pend, buffer>>
      BY <1>8, Zenon DEF ReplayDone
    <2>2. \A e \in entries : e.ev \in delivered
      BY <2>1, Zenon DEF DeliveredSoFar
    <2>3. /\ entries' \subseteq entries
          /\ DOMAIN len' \subseteq DOMAIN len /\ (cur \in DOMAIN len => cur \in DOMAIN len')
          /\ torn' = {} /\ UNCHANGED <<active, cur, nextSeq>>
      BY <1>8, MarkEffect, Zenon DEF ReplayDone, Bounded, walVars
    <2>4. Bounded'
      BY <2>1, <2>3, BoundedKept, Zenon DEF Bounded
    <2>5. DeliveredSoFar'
      BY <2>1, <2>2, <2>3, Zenon DEF DeliveredSoFar
    <2> QED BY <2>1, <2>2, <2>3, <2>4, <2>5, FewerEntries, RecoverableKept, Zenon
            DEF InOrder
  <1>9. CASE FlushOne
    <2> DEFINE head == Head(buffer)
    <2>1. /\ pc = "flush" /\ pc' = "flush" /\ buffer # <<>> /\ buffer' = Tail(buffer)
          /\ delivered' = delivered \cup {head.ev} /\ WalMarkPublished(head.seq)
          /\ UNCHANGED <<nextEvent, accepted, pend>>
      BY <1>9, Zenon DEF FlushOne
    <2>2. \A e \in entries : e.ev \in delivered
      BY <2>1, Zenon DEF DeliveredSoFar
    <2>3. /\ entries' \subseteq entries
          /\ DOMAIN len' \subseteq DOMAIN len /\ (cur \in DOMAIN len => cur \in DOMAIN len')
          /\ torn' = {} /\ UNCHANGED <<active, cur, nextSeq>>
      BY <2>1, MarkEffect, Zenon DEF Bounded
    <2>4. /\ head.ev < nextEvent
          /\ \A i \in 1 .. Len(buffer') : buffer'[i].ev < nextEvent
      <3>1. buffer \in Seq(Item) BY Zenon DEF TypeOK
      <3>2. Len(buffer) \in Nat \ {0} /\ head = buffer[1]
        BY <2>1, <3>1, EmptySequence
      <3>3. /\ Len(buffer') = Len(buffer) - 1
            /\ \A i \in 1 .. Len(buffer') : buffer'[i] = buffer[i + 1]
        BY <2>1, <3>1, SequenceTail, Zenon
      <3>4. \A i \in 1 .. Len(buffer') : i + 1 \in 1 .. Len(buffer)
        BY <3>2, <3>3
      <3> QED BY <3>2, <3>3, <3>4 DEF Bounded
    <2>5. Bounded'
      BY <2>1, <2>3, <2>4, BoundedKept, Zenon DEF Bounded
    <2>6. DeliveredSoFar'
      BY <2>1, <2>2, <2>3, Zenon DEF DeliveredSoFar
    <2>7. InOrder'
      BY <2>1, <2>2, DeliverInOrder, Zenon
    <2> QED BY <2>1, <2>2, <2>3, <2>5, <2>6, <2>7, FewerEntries, RecoverableKept, Zenon
  <1>10. CASE FlushFails \/ FlushDone
    <2>1. /\ pc = "flush"
          /\ UNCHANGED <<walVars, nextEvent, accepted, pend, delivered, buffer>>
      BY <1>10, Zenon DEF FlushFails, FlushDone
    <2>2. UNCHANGED entries BY <2>1, Zenon DEF walVars
    <2>3. Bounded' BY <2>1, BoundedSame, Zenon
    <2>4. pc' \in {"idle", "send", "down"} \/ (pc' = "park" /\ connected' = FALSE)
      BY <1>10, Zenon DEF FlushFails, FlushDone, TypeOK
    <2>5. DeliveredSoFar'
      BY <2>1, <2>2, <2>4, Zenon DEF DeliveredSoFar
    <2> QED BY <2>1, <2>2, <2>3, <2>5, SameDisk, Zenon
  <1>11. CASE Send
    <2>1. /\ pc = "send" /\ pc' = "mark" /\ delivered' = delivered \cup {pend.ev}
          /\ UNCHANGED <<walVars, nextEvent, accepted, pend, buffer>>
      BY <1>11, Zenon DEF Send
    <2>2. UNCHANGED entries /\ \A e \in entries : e.ev \in delivered \/ e.ev = pend.ev
      BY <2>1, Zenon DEF DeliveredSoFar, walVars
    <2>3. Bounded'
      BY <2>1, <2>2, BoundedKept, Zenon DEF Bounded, walVars
    <2>4. DeliveredSoFar'
      BY <2>1, <2>2, Zenon DEF DeliveredSoFar
    <2>5. \A e \in entries : e.ev < pend.ev => e.ev \in delivered
      BY <2>2 DEF TypeOK, Item
    <2>6. InOrder'
      BY <2>1, <2>5, DeliverInOrder, Zenon
    <2> QED BY <2>1, <2>2, <2>3, <2>4, <2>6, FewerEntries, RecoverableKept, Zenon
  <1>12. CASE Park
    <2>1. /\ pc = "park" /\ pc' = "idle" /\ AddToBuffer(pend)
          /\ UNCHANGED <<walVars, connected, nextEvent, accepted, delivered, pend>>
      BY <1>12, Zenon DEF Park
    <2>2. UNCHANGED entries BY <2>1, Zenon DEF walVars
    <2>3. \A i \in 1 .. Len(buffer') : buffer'[i].ev < nextEvent
      BY <2>1, BufferBounded, Zenon DEF Bounded, TypeOK
    <2>4. Bounded'
      BY <2>1, <2>3, BoundedKept, Zenon DEF Bounded, walVars
    <2>5. DeliveredSoFar'
      BY <2>1, <2>2, Zenon DEF DeliveredSoFar
    <2> QED BY <2>1, <2>2, <2>4, <2>5, SameDisk, Zenon
  <1>13. CASE Mark
    <2>1. /\ pc = "mark" /\ pc' = "idle" /\ WalMarkPublished(pend.seq)
          /\ UNCHANGED <<nextEvent, accepted, delivered, pend, buffer>>
      BY <1>13, Zenon DEF Mark
    <2>2. \A e \in entries : e.ev \in delivered
      BY <2>1, Zenon DEF DeliveredSoFar
    <2>3. /\ entries' \subseteq entries
          /\ DOMAIN len' \subseteq DOMAIN len /\ (cur \in DOMAIN len => cur \in DOMAIN len')
          /\ torn' = {} /\ UNCHANGED <<active, cur, nextSeq>>
      BY <2>1, MarkEffect, Zenon DEF Bounded
    <2>4. Bounded'
      BY <2>1, <2>3, BoundedKept, Zenon DEF Bounded
    <2>5. DeliveredSoFar'
      BY <2>1, <2>2, <2>3, Zenon DEF DeliveredSoFar
    <2> QED BY <2>1, <2>2, <2>3, <2>4, <2>5, FewerEntries, RecoverableKept, Zenon
            DEF InOrder
  <1>14. CASE Shutdown
    <2>1. /\ pc = "idle" /\ pc' = IF connected THEN "flush" ELSE "down"
          /\ UNCHANGED <<walVars, nextEvent, accepted, delivered, pend, buffer>>
      BY <1>14, Zenon DEF Shutdown
    <2>2. UNCHANGED entries BY <2>1, Zenon DEF walVars
    <2>3. Bounded' BY <2>1, BoundedSame, Zenon
    <2>4. DeliveredSoFar' BY <2>1, <2>2, Zenon DEF DeliveredSoFar
    <2> QED BY <2>1, <2>2, <2>3, <2>4, SameDisk, Zenon
  <1>15. CASE Crash
    <2>1. /\ pc' = "down" /\ WalCrash
          /\ UNCHANGED <<nextEvent, accepted, delivered, pend, buffer>>
      BY <1>15, Zenon DEF Crash
    <2>2. UNCHANGED walVars BY <2>1, Zenon DEF WalCrash
    <2>3. UNCHANGED entries BY <2>2, Zenon DEF walVars
    <2>4. Bounded' BY <2>1, <2>2, BoundedSame, Zenon
    <2>5. DeliveredSoFar' BY <2>1, Zenon DEF DeliveredSoFar
    <2> QED BY <2>1, <2>3, <2>4, <2>5, SameDisk, Zenon
  <1>16. CASE TakeSignal \/ UNCHANGED vars
    <2>1. UNCHANGED <<walVars, pc, connected, todo, lastOk, pend, nextEvent, accepted,
                      delivered, buffer>>
      BY <1>16, Zenon DEF TakeSignal, vars
    <2>2. UNCHANGED entries BY <2>1, Zenon DEF walVars
    <2>3. Bounded' BY <2>1, BoundedSame, Zenon
    <2>4. DeliveredSoFar' BY <2>1, <2>2, Zenon DEF DeliveredSoFar
    <2> QED BY <2>1, <2>2, <2>3, <2>4, SameDisk, Zenon
  <1> QED BY <1>1, <1>2, <1>3, <1>4, <1>5, <1>6, <1>7, <1>8, <1>9, <1>10, <1>11, <1>12,
             <1>13, <1>14, <1>15, <1>16, Zenon DEF Next

(* What is invariant: IInv, on a disk that does not fail.                  *)
SoundDisk == faults = {} => IInv

LEMMA InitIInv == ASSUME Init PROVE IInv
  <1>1. TypeOK BY InitType, Zenon
  <1>2. Len(buffer) = 0
    BY EmptySequence, Zenon DEF Init
  <1>3. Bounded
    BY <1>2 DEF Init, WalInit, Bounded, NoEvent
  <1> QED BY <1>1, <1>3, Zenon DEF Init, WalInit, IInv, DiskInOrder, DeliveredSoFar, Recoverable,
                           InOrder

LEMMA Invariant == Spec => []SoundDisk
  <1>1. Init => SoundDisk
    BY InitIInv, Zenon DEF SoundDisk
  <1>2. SoundDisk /\ [Next]_vars => SoundDisk'
    <2>1. [Next]_vars => faults' = faults
      BY Zenon DEF Next, vars
    <2> QED BY <2>1, IInvStep, Zenon DEF SoundDisk
  <1> QED BY <1>1, <1>2, PTL DEF Spec

(* The publishing path's guarantee, when the disk itself does not fail: in *)
(* every reachable state each event that publish() accepted is with the    *)
(* broker or readable in the WAL, over any number of crashes, restarts,    *)
(* broker outages, replays, rotations and clean-ups.                       *)
THEOREM DeliveryGuaranteed == Spec => []AtLeastOnce
  <1>1. SoundDisk => AtLeastOnce
    BY Zenon DEF SoundDisk, IInv, AtLeastOnce
  <1> QED BY <1>1, Invariant, PTL

(* Under the same assumption the broker first sees the events in the order *)
(* of publish(), although replay_wal and flush_buffer deliver some twice.  *)
THEOREM OrderGuaranteed == Spec => []FirstDeliveryInOrder
  <1>1. SoundDisk => FirstDeliveryInOrder
    BY Zenon DEF SoundDisk, IInv, FirstDeliveryInOrder
  <1> QED BY <1>1, Invariant, PTL

(* Under the same assumption mark_published deletes a file only after the  *)
(* broker has every event in it, although it is told one sequence number.  *)
THEOREM OnlyPublishedDeleted == Spec => DeletedOnlyPublished
  <1>1. SoundDisk /\ [Next]_vars
        => [faults = {} => \A e \in entries \ entries' : e.ev \in delivered']_vars
    <2> SUFFICES ASSUME faults = {}, IInv, Next, NEW e \in entries \ entries' PROVE e.ev \in delivered'
      BY Zenon DEF SoundDisk
    <2> USE DEF localVars, handlerVars, bufferVars, worldVars
    <2> WalTypeOK /\ DeliveredSoFar /\ Bounded /\ TypeOK /\ DiskInOrder
      BY Zenon DEF IInv, TypeOK
    <2>1. CASE ReplayFails
      BY <2>1, MarkEffect, Zenon DEF ReplayFails, DeliveredSoFar, walVars
    <2>2. CASE ReplayDone
      BY <2>2, MarkEffect, Zenon DEF ReplayDone, DeliveredSoFar, walVars
    <2>3. CASE FlushOne
      BY <2>3, MarkEffect, Zenon DEF FlushOne, DeliveredSoFar
    <2>4. CASE Mark
      BY <2>4, MarkEffect, Zenon DEF Mark, DeliveredSoFar
    <2>5. CASE Start
      BY <2>5, OpenEffect, Zenon DEF Start, Bounded
    <2>6. CASE Publish
      BY <2>6, WriteEffect, Zenon DEF Publish
    <2>7. CASE PublishWalError
      BY <2>7, Zenon DEF PublishWalError, WalWriteFails, WalRotateFails
    <2>8. CASE Crash
      BY <2>8, Zenon DEF Crash, WalCrash, walVars
    <2>9. CASE UNCHANGED walVars
      BY <2>9, Zenon DEF walVars
    <2> QED BY <2>1, <2>2, <2>3, <2>4, <2>5, <2>6, <2>7, <2>8, <2>9, Zenon
            DEF Next, Connect, ConnectFails, Reconnect, ReconnectFails, ReplayOne,
                FlushFails, FlushDone, Send, SendFails, Park, Shutdown, TakeSignal
  <1> QED BY <1>1, Invariant, PTL DEF Spec, DeletedOnlyPublished

(* Under the same assumption sequence numbers on disk follow publishing    *)
(* and file order, over every restart: InitialSequence never restarts      *)
(* below an entry that is still there.                                     *)
THEOREM NumbersFollowOrder == Spec => []DiskNumbered
  <1>1. SoundDisk => DiskNumbered
    BY Zenon DEF SoundDisk, IInv, DiskNumbered
  <1> QED BY <1>1, Invariant, PTL

----------------------------------------------------------------------------
(* The connector implements the durable queue.                             *)

(* Nothing is buffered that publish() did not accept. *)
LEMMA BufferKnown ==
  ASSUME TypeOK, Known, NEW item \in Item, AddToBuffer(item),
         \E a \in accepted : a.ev = item.ev
  PROVE  \A i \in 1 .. Len(buffer') : \E a \in accepted : a.ev = buffer'[i].ev
  <1>1. CASE UNCHANGED buffer
    BY <1>1, Zenon DEF Known
  <1>2. CASE buffer' = Append(buffer, item)
    <2>1. buffer \in Seq(Item) BY Zenon DEF TypeOK
    <2>2. /\ Len(buffer') = Len(buffer) + 1
          /\ \A i \in 1 .. Len(buffer) : buffer'[i] = buffer[i]
          /\ buffer'[Len(buffer) + 1] = item
      BY <1>2, <2>1, SequenceAppended
    <2>3. Len(buffer) \in Nat BY <2>1, SequenceIndices, Zenon
    <2>4. \A i \in 1 .. Len(buffer') : i \in 1 .. Len(buffer) \/ i = Len(buffer) + 1
      BY <2>2, <2>3
    <2> QED BY <2>2, <2>4, Zenon DEF Known
  <1> QED BY <1>1, <1>2, Zenon DEF AddToBuffer, bufferVars

LEMMA KnownStep == ASSUME faults = {}, IInv, Known, [Next]_vars PROVE Known'
  <1> USE DEF localVars, handlerVars, bufferVars, worldVars
  <1> TypeOK /\ Bounded /\ DiskInOrder /\ DeliveredSoFar /\ WalTypeOK
    BY Zenon DEF IInv, TypeOK
  <1>1. CASE Start
    <2>1. UNCHANGED <<entries, accepted>> /\ pc' = "connect" /\ buffer' = <<>>
      BY <1>1, OpenEffect, Zenon DEF Start
    <2>2. Len(buffer') = 0 BY <2>1, EmptySequence, Zenon
    <2> QED BY <2>1, <2>2 DEF Known
  <1>2. CASE Connect \/ Reconnect
    <2>1. UNCHANGED <<entries, accepted, pend, buffer>>
      BY <1>2, Zenon DEF Connect, Reconnect, walVars
    <2>2. \/ pc' \in {"idle", "replay"} /\ then' = "idle"
          \/ pc = "reconnect" /\ pc' \in {"send", "replay"}
      BY <1>2, Zenon DEF Connect, Reconnect, BeginReplay
    <2> QED BY <2>1, <2>2, Zenon DEF Known
  <1>3. CASE Publish
    <2>1. /\ entries' = entries \cup {[file |-> cur, seq |-> nextSeq, ev |-> nextEvent]}
          /\ pend' = [seq |-> nextSeq, ev |-> nextEvent]
          /\ accepted' = accepted \cup {pend'}
          /\ UNCHANGED buffer
      BY <1>3, WriteEffect, Zenon DEF Publish
    <2>2. pend' \in accepted' /\ pend'.ev = nextEvent /\ accepted \subseteq accepted'
      BY <2>1, Zenon
    <2>3. \A e \in entries' : \E a \in accepted' : a.ev = e.ev
      <3> SUFFICES ASSUME NEW e \in entries' PROVE \E a \in accepted' : a.ev = e.ev
        BY Zenon
      <3>1. CASE e \in entries BY <2>2, <3>1, Zenon DEF Known
      <3>2. CASE e.ev = nextEvent BY <2>2, <3>2, Zenon
      <3> QED BY <2>1, <3>1, <3>2
    <2> QED BY <2>1, <2>2, <2>3, Zenon DEF Known
  <1>4. CASE PublishWalError
    BY <1>4, Zenon DEF PublishWalError, WalWriteFails, WalRotateFails
  <1>5. CASE ReplayFails
    <2>1. /\ pc = "replay" /\ UNCHANGED <<accepted, pend>>
          /\ pc' = "park" => then = "send"
          /\ pc' \notin {"reconnect", "send", "replay", "flush"}
      BY <1>5, Zenon DEF ReplayFails, TypeOK
    <2>2. entries' \subseteq entries
      BY <1>5, MarkEffect, Zenon DEF ReplayFails, walVars
    <2>3. PICK e \in todo : AddToBuffer([seq |-> e.seq, ev |-> e.ev])
      BY <1>5, Zenon DEF ReplayFails
    <2>4. e \in entries BY <2>1, Zenon DEF DeliveredSoFar
    <2>5. [seq |-> e.seq, ev |-> e.ev] \in Item
      BY DEF TypeOK, Entry, Events, Item
    <2>6. \E a \in accepted : a.ev = e.ev BY <2>4, Zenon DEF Known
    <2>7. \A i \in 1 .. Len(buffer') : \E a \in accepted : a.ev = buffer'[i].ev
      BY <2>3, <2>5, <2>6, BufferKnown, Zenon
    <2> QED BY <2>1, <2>2, <2>7, Zenon DEF Known
  <1>6. CASE FlushOne
    <2>1. /\ UNCHANGED <<pc, then, pend, accepted>> /\ entries' \subseteq entries
          /\ buffer # <<>> /\ buffer' = Tail(buffer)
      BY <1>6, MarkEffect, Zenon DEF FlushOne
    <2>2. buffer \in Seq(Item) BY Zenon DEF TypeOK
    <2>3. Len(buffer) \in Nat \ {0}
      BY <2>1, <2>2, EmptySequence, Zenon
    <2>4. /\ Len(buffer') = Len(buffer) - 1
          /\ \A i \in 1 .. Len(buffer') : buffer'[i] = buffer[i + 1]
      BY <2>1, <2>2, SequenceTail, Zenon
    <2>5. \A i \in 1 .. Len(buffer') : i + 1 \in 1 .. Len(buffer)
      BY <2>3, <2>4
    <2> QED BY <2>1, <2>4, <2>5 DEF Known
  <1>7. CASE Park
    <2>1. /\ pc = "park" /\ pc' = "idle" /\ AddToBuffer(pend)
          /\ UNCHANGED <<entries, accepted, pend>>
      BY <1>7, Zenon DEF Park, walVars
    <2>2. \A i \in 1 .. Len(buffer') : \E a \in accepted : a.ev = buffer'[i].ev
      BY <2>1, BufferKnown, Zenon DEF Known, TypeOK
    <2> QED BY <2>1, <2>2, Zenon DEF Known
  <1>8. CASE ReplayDone \/ Mark
    <2>1. /\ entries' \subseteq entries /\ UNCHANGED <<accepted, pend, buffer, then>>
          /\ (pc = "replay" /\ pc' = "flush") \/ pc' = "idle"
      BY <1>8, MarkEffect, Zenon DEF ReplayDone, Mark, walVars
    <2> QED BY <2>1, Zenon DEF Known
  <1>9. CASE FlushFails \/ FlushDone
    <2>1. /\ UNCHANGED <<entries, accepted, pend, buffer, then>> /\ pc = "flush"
          /\ pc' \in {"send", "park"} => then = "send"
          /\ pc' \in {"idle", "send", "park", "down"}
      BY <1>9, Zenon DEF FlushFails, FlushDone, walVars, TypeOK
    <2> QED BY <2>1, Zenon DEF Known
  <1>10. CASE \/ ConnectFails \/ ReconnectFails \/ ReplayOne \/ Send \/ SendFails
              \/ TakeSignal \/ UNCHANGED vars
    <2>1. UNCHANGED <<entries, accepted, pend, buffer, then>>
      BY <1>10, Zenon DEF ConnectFails, ReconnectFails, ReplayOne, Send, SendFails,
                   TakeSignal, vars, walVars
    <2>2. \/ pc' \in {"idle", "mark", "down"} \/ UNCHANGED pc
          \/ pc \in {"reconnect", "send"} /\ pc' = "park"
      BY <1>10, Zenon DEF ConnectFails, ReconnectFails, ReplayOne, Send, SendFails,
                   TakeSignal, vars
    <2> QED BY <2>1, <2>2, Zenon DEF Known
  <1>11. CASE Shutdown
    <2>1. UNCHANGED <<entries, accepted, pend, buffer>>
      BY <1>11, Zenon DEF Shutdown, walVars
    <2>2. pc' \in {"down", "flush"} /\ then' = "down"
      BY <1>11, Zenon DEF Shutdown
    <2> QED BY <2>1, <2>2, Zenon DEF Known
  <1>12. CASE Crash
    <2>1. UNCHANGED walVars
      BY <1>12, Zenon DEF Crash, WalCrash
    <2>2. UNCHANGED <<entries, accepted, pend, buffer>> /\ pc' = "down"
      BY <1>12, <2>1, Zenon DEF Crash, walVars
    <2> QED BY <2>2, Zenon DEF Known
  <1> QED BY <1>1, <1>2, <1>3, <1>4, <1>5, <1>6, <1>7, <1>8, <1>9, <1>10, <1>11, <1>12, Zenon DEF Next

(* What is invariant on a sound disk, with Known. *)
SoundQueue == faults = {} => IInv /\ Known

LEMMA QueueInvariant == Spec => [](TypeOK /\ SoundQueue)
  <1>1. Init => Known
    <2> SUFFICES ASSUME Init PROVE Known
      BY Zenon
    <2>1. Len(buffer) = 0
      BY EmptySequence, Zenon DEF Init
    <2> QED BY <2>1 DEF Init, WalInit, Known
  <1>2. Init => SoundQueue
    <2>1. Init => TypeOK
      BY InitType, Zenon
    <2>2. Init => IInv
      BY InitIInv, Zenon
    <2> QED BY <1>1, <2>2, Zenon DEF SoundQueue
  <1>3. SoundQueue /\ [Next]_vars => SoundQueue'
    <2>1. [Next]_vars => faults' = faults
      BY Zenon DEF Next, vars
    <2> QED BY <2>1, IInvStep, KnownStep, Zenon DEF SoundQueue
  <1> QED BY <1>2, <1>3, TypeCorrect, PTL DEF Spec

(* The events of a set of records, when one record is added. *)
LEMMA EventsOfUnion ==
  ASSUME NEW S, NEW new
  PROVE  {r.ev : r \in S \cup {new}} = {r.ev : r \in S} \cup {new.ev}
  BY Zenon

(* On a sound disk every step of the handlers is a step of the queue. *)
LEMMA SoundStep ==
  ASSUME faults = {}, IInv, Known, [Next]_vars
  PROVE  [Queue!Next]_(Queue!queueVars)
  <1> USE DEF localVars, handlerVars, bufferVars, worldVars
  <1> TypeOK /\ Bounded /\ DeliveredSoFar /\ WalTypeOK /\ Recoverable /\ DiskInOrder
    BY Zenon DEF IInv, TypeOK
  <1> InOrder'
    BY IInvStep, Zenon DEF IInv
  <1>0. UNCHANGED faults
    BY Zenon DEF Next, vars
  <1> DEFINE sent == {a.ev : a \in accepted}
  <1> DEFINE held == {e.ev : e \in entries}
  <1>1. CASE Publish
    <2>1. /\ entries' = entries \cup {[file |-> cur, seq |-> nextSeq, ev |-> nextEvent]}
          /\ accepted' = accepted \cup {[seq |-> nextSeq, ev |-> nextEvent]}
          /\ UNCHANGED delivered
      BY <1>1, WriteEffect, Zenon DEF Publish
    <2>2. nextEvent \in Events /\ \A s \in sent : s < nextEvent
      BY <1>1 DEF Publish, Events, TypeOK, Bounded
    <2>3. sent' = sent \cup {nextEvent}
      BY <2>1, EventsOfUnion, Zenon
    <2>4. held' = held \cup {nextEvent}
      BY <2>1, EventsOfUnion, Zenon
    <2> QED BY <1>0, <2>1, <2>2, <2>3, <2>4, Zenon DEF Queue!Next, Queue!Accept
  <1>2. ASSUME NEW ev \in Nat, delivered' = delivered \cup {ev},
               UNCHANGED <<entries, accepted>>,
               \E a \in accepted : a.ev = ev
        PROVE  [Queue!Next]_(Queue!queueVars)
    <2>1. CASE ev \in delivered
      BY <1>0, <1>2, <2>1, Zenon DEF Queue!queueVars
    <2>2. CASE ev \notin delivered
      <3>1. ev \in held
        BY <1>2, <2>2, Zenon DEF Recoverable
      <3>2. \A s \in sent : s < ev => s \in delivered
        BY <1>2 DEF InOrder, TypeOK, Item
      <3> QED BY <1>0, <1>2, <3>1, <3>2, Zenon DEF Queue!Next, Queue!HandOver
    <2> QED BY <2>1, <2>2, Zenon
  <1>3. CASE ReplayOne
    <2>1. PICK e \in todo : delivered' = delivered \cup {e.ev}
      BY <1>3, Zenon DEF ReplayOne
    <2>2. e \in entries /\ e.ev \in Nat
      BY <1>3 DEF ReplayOne, DeliveredSoFar, WalTypeOK, Entry, Events
    <2>3. \E a \in accepted : a.ev = e.ev
      BY <2>2, Zenon DEF Known
    <2>4. UNCHANGED <<entries, accepted>>
      BY <1>3, Zenon DEF ReplayOne, walVars
    <2> QED BY <1>2, <2>1, <2>2, <2>3, <2>4, Zenon
  <1>4. CASE Send
    <2>1. delivered' = delivered \cup {pend.ev} /\ UNCHANGED <<entries, accepted>>
      BY <1>4, Zenon DEF Send, walVars
    <2>2. \E a \in accepted : a.ev = pend.ev
      BY <1>4, Zenon DEF Send, Known
    <2>3. pend.ev \in Nat
      BY Zenon DEF TypeOK, Item
    <2> QED BY <1>2, <2>1, <2>2, <2>3, Zenon
  <1>5. ASSUME entries' \subseteq entries, UNCHANGED <<accepted, delivered>>,
               \A e \in entries \ entries' : e.ev \in delivered
        PROVE  [Queue!Next]_(Queue!queueVars)
    <2>1. held' \subseteq held /\ held \ held' \subseteq delivered
      BY <1>5, Zenon
    <2> QED BY <1>0, <1>5, <2>1, Zenon DEF Queue!Next, Queue!LetGo
  <1>6. CASE ReplayFails \/ ReplayDone
    BY <1>5, <1>6, MarkEffect, Zenon DEF ReplayFails, ReplayDone, DeliveredSoFar, walVars
  <1>7. CASE Mark
    BY <1>5, <1>7, MarkEffect, Zenon DEF Mark, DeliveredSoFar
  <1>8. CASE FlushOne
    <2>1. Head(buffer).ev \in delivered
      <3>1. buffer \in Seq(Item) BY Zenon DEF TypeOK
      <3>2. Len(buffer) \in Nat \ {0} /\ Head(buffer) = buffer[1]
        BY <1>8, <3>1, EmptySequence DEF FlushOne
      <3>3. PICK a \in accepted : a.ev = Head(buffer).ev
        BY <3>2 DEF Known
      <3> QED BY <1>8, <3>3, Zenon DEF FlushOne, Recoverable, DeliveredSoFar
    <2> QED BY <1>5, <1>8, <2>1, MarkEffect, Zenon DEF FlushOne, DeliveredSoFar
  <1>9. CASE Start
    BY <1>5, <1>9, OpenEffect, Zenon DEF Start
  <1>10. CASE PublishWalError
    BY <1>10, Zenon DEF PublishWalError, WalWriteFails, WalRotateFails
  <1>11. CASE Crash
    BY <1>5, <1>11, Zenon DEF Crash, WalCrash, walVars
  <1>12. CASE UNCHANGED <<walVars, accepted, delivered>>
    BY <1>5, <1>12, Zenon DEF walVars
  <1> QED BY <1>1, <1>3, <1>4, <1>6, <1>7, <1>8, <1>9, <1>10, <1>11, <1>12, Zenon
          DEF Next, vars, Connect, ConnectFails, Reconnect, ReconnectFails,
              FlushFails, FlushDone, SendFails, Park, Shutdown, TakeSignal

(* On a disk that fails, acceptances and hand-overs still only grow. *)
LEMMA FaultyStep ==
  ASSUME faults # {}, TypeOK, [Next]_vars
  PROVE  [Queue!Next]_(Queue!queueVars)
  <1> USE DEF localVars, handlerVars, bufferVars, worldVars
  <1>1. UNCHANGED faults
    BY Zenon DEF Next, vars
  <1>2. accepted \subseteq accepted'
    BY Zenon DEF Next, vars, Start, Connect, ConnectFails, Publish, PublishWalError, Reconnect,
           ReconnectFails, ReplayOne, ReplayFails, ReplayDone, FlushOne, FlushFails,
           FlushDone, Send, SendFails, Park, Mark, Shutdown, Crash, TakeSignal
  <1>3. delivered \subseteq delivered'
    BY Zenon DEF Next, vars, Start, Connect, ConnectFails, Publish, PublishWalError, Reconnect,
           ReconnectFails, ReplayOne, ReplayFails, ReplayDone, FlushOne, FlushFails,
           FlushDone, Send, SendFails, Park, Mark, Shutdown, Crash, TakeSignal
  <1>4. {e.ev : e \in entries'} \in SUBSET Events
    <2>1. TypeOK' BY TypeStep, Zenon
    <2> QED BY <2>1, Zenon DEF TypeOK, WalTypeOK, Entry
  <1> QED BY <1>1, <1>2, <1>3, <1>4, Zenon DEF Queue!Next, Queue!Fail

(* EventBusConnector with its WAL implements the durable queue: for every  *)
(* number of events and crashes, what callers and broker can observe of    *)
(* publish(), replay_wal(), flush_buffer() and mark_published() is what    *)
(* DurableQueue allows.                                                    *)
THEOREM ImplementsQueue == Spec => Implements
  <1>1. Init => Queue!Init
    BY Zenon DEF Init, WalInit, Queue!Init
  <1>2. TypeOK /\ SoundQueue /\ [Next]_vars => [Queue!Next]_(Queue!queueVars)
    BY SoundStep, FaultyStep, Zenon DEF SoundQueue
  <1> QED BY <1>1, <1>2, QueueInvariant, PTL DEF Spec, Implements, Queue!Spec

-----------------------------------------------------------------------------
(* The backpressure signals and the active file, whatever faults happen.   *)

(* What the last signal says of a buffer usage. *)
Agrees(usage) ==
    /\ lastSignal = "Activated" => usage >= LowWaterMark
    /\ lastSignal = "Released" => usage < HighWaterMark

(* Within flush_buffer the last signal agrees with the usage it started    *)
(* from, which is the one the crossing at its end is measured against.     *)
SignalInv ==
    /\ pc \notin {"flush", "down"} => Agrees(Usage(buffer))
    /\ pc = "flush" => Agrees(usage0)

(* publish() has an event in hand. *)
InHand ==
    \/ pc \in {"reconnect", "send", "mark", "park"}
    \/ pc \in {"replay", "flush"} /\ then = "send"

(* On a disk that reads and writes, what the process holds is numbered     *)
(* below the next sequence.                                                *)
NumbersBelow ==
    faults \cap {"read", "torn", "write"} = {} =>
        /\ torn = {}
        /\ pc # "down" =>
              /\ \A e \in entries : e.seq < nextSeq
              /\ \A i \in 1 .. Len(buffer) : buffer[i].seq < nextSeq
              /\ InHand => pend.seq < nextSeq
              /\ pc = "replay" => \A e \in todo : e.seq < nextSeq

(* A rotation has failed and the handle is still on the old file: only     *)
(* publish(), which rotates again, or a shutdown can follow, and the entry *)
(* behind which the rotation failed is above whatever is buffered.         *)
Stranded ==
    /\ "rotate" \in faults
    /\ pc = "idle" \/ (pc = "flush" /\ then = "down")
    /\ size + 1 >= RotateAt
    /\ \E e \in InFile(active) : \A i \in 1 .. Len(buffer) : buffer[i].seq < e.seq

(* A disk on which the active file is safe. *)
SafeDisk == ~("rotate" \in faults /\ faults \cap {"read", "torn", "write"} # {})

(* The active file is there, and mark_published spares it by its number,   *)
(* or because of what it holds.                                            *)
ActiveSpared == active \in Files /\ (active = cur \/ Stranded)

ActiveInv == NumbersBelow /\ (SafeDisk /\ pc # "down" => ActiveSpared)

(* A crossing keeps the signal in agreement with the buffer. *)
LEMMA CrossingAgrees ==
  ASSUME NEW p, NEW c \in Nat, Agrees(p), CheckBackpressure(p, c)
  PROVE  /\ lastSignal' = "Activated" => c >= LowWaterMark
         /\ lastSignal' = "Released" => c < HighWaterMark
  <1>1. CASE Crossing(p, c) = "none"
    <2>1. /\ lastSignal' = lastSignal
          /\ ~(p < HighWaterMark /\ c >= HighWaterMark) /\ ~(p >= LowWaterMark /\ c < LowWaterMark)
      BY <1>1, Zenon DEF CheckBackpressure, Crossing
    <2>2. (c < HighWaterMark \/ c >= HighWaterMark) /\ (c < LowWaterMark \/ c >= LowWaterMark)
      BY DEF HighWaterMark, LowWaterMark
    <2> QED BY <2>1, <2>2, Zenon DEF Agrees
  <1>2. CASE Crossing(p, c) # "none"
    <2>1. lastSignal' \in {"none", Crossing(p, c)}
      BY <1>2, Zenon DEF CheckBackpressure
    <2>2. Crossing(p, c) = "Activated" => c >= LowWaterMark
      BY DEF Crossing, HighWaterMark, LowWaterMark
    <2>3. Crossing(p, c) = "Released" => c < HighWaterMark
      BY DEF Crossing, HighWaterMark, LowWaterMark
    <2> QED BY <2>1, <2>2, <2>3, Zenon DEF Agrees
  <1> QED BY <1>1, <1>2, Zenon

LEMMA AddAgrees ==
  ASSUME TypeOK, NEW item \in Item, AddToBuffer(item), Agrees(Usage(buffer))
  PROVE  Agrees(Usage(buffer))'
  <1>1. CASE Len(buffer) < MaxBuffer
    <2>1. /\ buffer' = Append(buffer, item)
          /\ CheckBackpressure(Usage(buffer), Usage(Append(buffer, item)))
      BY <1>1 DEF AddToBuffer, TypeOK
    <2>2. Usage(Append(buffer, item)) \in Nat
      BY UsageType, SequenceAppended, Zenon DEF TypeOK
    <2>3. Usage(buffer)' = Usage(Append(buffer, item))
      BY <2>1, Zenon DEF Usage
    <2>4. /\ lastSignal' = "Activated" => Usage(buffer)' >= LowWaterMark
          /\ lastSignal' = "Released" => Usage(buffer)' < HighWaterMark
      BY <2>1, <2>2, <2>3, CrossingAgrees, Zenon
    <2> QED BY <2>4, Zenon DEF Agrees
  <1>2. CASE ~(Len(buffer) < MaxBuffer)
    BY <1>2, Zenon DEF AddToBuffer, bufferVars, Agrees, Usage
  <1> QED BY <1>1, <1>2, Zenon

LEMMA SignalStep == ASSUME TypeOK, SignalInv, [Next]_vars PROVE SignalInv'
  <1> USE DEF localVars, handlerVars, bufferVars, worldVars
  (* The end of flush_buffer. *)
  <1>1. CASE FlushFails \/ FlushDone
    <2>1. pc = "flush" /\ buffer' = buffer /\ CheckBackpressure(usage0, Usage(buffer)) /\ usage0' = usage0
      BY <1>1, Zenon DEF FlushFails, FlushDone
    <2>2. pc' # "flush"
      BY <1>1, Zenon DEF FlushFails, FlushDone, TypeOK
    <2>3. Usage(buffer) \in Nat /\ Usage(buffer)' = Usage(buffer)
      BY <2>1, UsageType, Zenon DEF TypeOK, Usage
    <2>4. /\ lastSignal' = "Activated" => Usage(buffer)' >= LowWaterMark
          /\ lastSignal' = "Released" => Usage(buffer)' < HighWaterMark
      BY <2>1, <2>3, CrossingAgrees, Zenon DEF SignalInv
    <2> QED BY <2>2, <2>4, Zenon DEF SignalInv, Agrees
  (* An event is parked. *)
  <1>2. CASE ReplayFails \/ Park
    <2>1. PICK item \in Item : AddToBuffer(item)
      <3>1. CASE Park
        BY <3>1, Zenon DEF Park, TypeOK
      <3>2. CASE ReplayFails
        <4>1. PICK e \in todo : AddToBuffer([seq |-> e.seq, ev |-> e.ev])
          BY <3>2, Zenon DEF ReplayFails
        <4>2. [seq |-> e.seq, ev |-> e.ev] \in Item
          BY DEF TypeOK, Entry, Events, Item
        <4> QED BY <4>1, <4>2, Zenon
      <3> QED BY <1>2, <3>1, <3>2, Zenon
    <2>2. pc \notin {"flush", "down"} /\ pc' # "flush"
      BY <1>2, Zenon DEF ReplayFails, Park, TypeOK
    <2>3. Agrees(Usage(buffer))'
      BY <2>1, <2>2, AddAgrees, Zenon DEF SignalInv
    <2> QED BY <2>2, <2>3, Zenon DEF SignalInv
  (* flush_buffer begins, and takes events from the buffer. *)
  <1>3. CASE ReplayDone \/ Shutdown
    BY <1>3, Zenon DEF ReplayDone, Shutdown, SignalInv, Agrees
  <1>4. CASE FlushOne
    BY <1>4, Zenon DEF FlushOne, SignalInv, Agrees
  <1>5. CASE Start
    BY <1>5, Zenon DEF Start, SignalInv, Agrees
  <1>6. CASE Crash
    BY <1>6, Zenon DEF Crash, SignalInv
  (* No other step changes the buffer or the last signal. *)
  <1>7. CASE /\ buffer' = buffer /\ lastSignal' = lastSignal /\ usage0' = usage0
             /\ pc' = pc \/ {pc, pc'} \cap {"flush", "down"} = {}
    BY <1>7, Zenon DEF SignalInv, Agrees, Usage
  <1>8. CASE Connect \/ Reconnect
    <2>1. pc' \in {"replay", "idle", "send"} /\ buffer' = buffer /\ lastSignal' = lastSignal /\ usage0' = usage0
      BY <1>8, Zenon DEF Connect, Reconnect, BeginReplay
    <2>2. pc \notin {"flush", "down"}
      BY <1>8, Zenon DEF Connect, Reconnect
    <2> QED BY <1>7, <2>1, <2>2, Zenon
  <1>9. CASE Publish
    BY <1>7, <1>9, Zenon DEF Publish
  <1>10. CASE ConnectFails \/ ReconnectFails \/ Send \/ SendFails \/ Mark
    BY <1>7, <1>10, Zenon DEF ConnectFails, ReconnectFails, Send, SendFails, Mark
  <1>11. CASE PublishWalError \/ ReplayOne \/ TakeSignal \/ UNCHANGED vars
    BY <1>7, <1>11, Zenon DEF PublishWalError, ReplayOne, TakeSignal, vars
  <1> QED BY <1>1, <1>2, <1>3, <1>4, <1>5, <1>6, <1>8, <1>9, <1>10, <1>11, Zenon DEF Next

(* The monitor is never left slowed down over an empty buffer, whatever    *)
(* order publishing, replay and flushing take (check_backpressure).        *)
THEOREM SignalsAgree == Spec => []SignalsFollowBuffer
  <1>1. Init => SignalInv
    BY Zenon DEF Init, SignalInv
  <1>2. SignalInv => SignalsFollowBuffer
    BY Zenon DEF SignalInv, Agrees, SignalsFollowBuffer
  <1>3. TypeOK /\ SignalInv /\ [Next]_vars => SignalInv'
    BY SignalStep, Zenon
  <1> QED BY <1>1, <1>2, <1>3, TypeCorrect, PTL DEF Spec

(* The numbers in the buffer after an event is parked. *)
LEMMA BufferNumbers ==
  ASSUME TypeOK, NEW item \in Item, AddToBuffer(item), item.seq < nextSeq,
         \A i \in 1 .. Len(buffer) : buffer[i].seq < nextSeq
  PROVE  \A i \in 1 .. Len(buffer') : buffer'[i].seq < nextSeq
  <1>1. CASE UNCHANGED buffer
    BY <1>1, Zenon
  <1>2. CASE buffer' = Append(buffer, item)
    <2>1. buffer \in Seq(Item) BY Zenon DEF TypeOK
    <2>2. /\ Len(buffer') = Len(buffer) + 1
          /\ \A i \in 1 .. Len(buffer) : buffer'[i] = buffer[i]
          /\ buffer'[Len(buffer) + 1] = item
      BY <1>2, <2>1, SequenceAppended
    <2>3. Len(buffer) \in Nat BY <2>1, SequenceIndices, Zenon
    <2>4. \A i \in 1 .. Len(buffer') : i \in 1 .. Len(buffer) \/ i = Len(buffer) + 1
      BY <2>2, <2>3
    <2> QED BY <2>2, <2>4, Zenon
  <1> QED BY <1>1, <1>2, Zenon DEF AddToBuffer, bufferVars

(* The buffer without its oldest event. *)
LEMMA TailNumbers ==
  ASSUME TypeOK, buffer # <<>>, buffer' = Tail(buffer)
  PROVE  /\ 1 \in 1 .. Len(buffer) /\ Head(buffer) = buffer[1]
         /\ \A i \in 1 .. Len(buffer') : i + 1 \in 1 .. Len(buffer) /\ buffer'[i] = buffer[i + 1]
  <1>1. buffer \in Seq(Item)
    BY Zenon DEF TypeOK
  <1>2. /\ Len(buffer') = Len(buffer) - 1
        /\ \A i \in 1 .. Len(buffer') : buffer'[i] = buffer[i + 1]
    BY <1>1, SequenceTail, Zenon
  <1>3. Len(buffer) \in Nat \ {0} /\ Head(buffer) = buffer[1]
    BY <1>1
  <1> QED BY <1>2, <1>3

(* A step that writes no entry. *)
LEMMA NumbersKept ==
  ASSUME NumbersBelow, faults' = faults, pc # "down" \/ pc' = "down",
         entries' \subseteq entries, torn' \subseteq torn, nextSeq' = nextSeq,
         \/ buffer' = buffer
         \/ faults \cap {"read", "torn", "write"} = {} =>
               \A i \in 1 .. Len(buffer') : buffer'[i].seq < nextSeq,
         pc' # "down" /\ InHand' => InHand /\ pend' = pend,
         pc' = "replay" => todo' \subseteq entries \/ (pc = "replay" /\ todo' \subseteq todo)
  PROVE  NumbersBelow'
  <1> SUFFICES ASSUME faults \cap {"read", "torn", "write"} = {} PROVE NumbersBelow'
    BY Zenon DEF NumbersBelow
  <1>1. torn' = {}
    BY Zenon DEF NumbersBelow
  <1>2. ASSUME pc' # "down"
         PROVE  /\ \A e \in entries' : e.seq < nextSeq'
                /\ \A i \in 1 .. Len(buffer') : buffer'[i].seq < nextSeq'
                /\ InHand' => pend'.seq < nextSeq'
                /\ pc' = "replay" => \A e \in todo' : e.seq < nextSeq'
    BY <1>2, Zenon DEF NumbersBelow
  <1> QED BY <1>1, <1>2, Zenon DEF NumbersBelow

LEMMA NumbersStep == ASSUME TypeOK, NumbersBelow, [Next]_vars PROVE NumbersBelow'
  <1> USE DEF localVars, handlerVars, bufferVars, worldVars
  <1> DEFINE Sound == faults \cap {"read", "torn", "write"} = {}
  <1>0. WalTypeOK /\ faults' = faults
    BY Zenon DEF TypeOK, Next, vars
  <1>1. CASE Start
    <2> SUFFICES ASSUME Sound PROVE NumbersBelow'
      BY <1>0, Zenon DEF NumbersBelow
    <2>1. OpenAfterScan(Files, entries)
      BY <1>1, Zenon DEF Start, WalOpen, Replayable
    <2>2. PICK hi \in {0} \cup {e.seq : e \in entries} :
             /\ \A e \in entries : e.seq <= hi
             /\ nextSeq' = hi + 1 /\ UNCHANGED <<entries, torn>>
      BY <2>1, Zenon DEF OpenAfterScan, InitialSequence
    <2>3. hi \in Nat /\ \A e \in entries : e.seq \in Nat
      <3>1. \A e \in entries : e.seq \in Nat
        BY <1>0, Zenon DEF WalTypeOK, Entry
      <3> QED BY <3>1
    <2>4. \A e \in entries : e.seq < nextSeq'
      BY <2>2, <2>3
    <2>5. \A i \in 1 .. Len(buffer') : FALSE
      <3>1. buffer' = <<>>
        BY <1>1, Zenon DEF Start
      <3> QED BY <3>1
    <2>6. pc' = "connect" /\ ~InHand'
      BY <1>1, Zenon DEF Start, InHand
    <2>7. torn' = {}
      BY <2>2, Zenon DEF NumbersBelow
    <2> QED BY <2>2, <2>4, <2>5, <2>6, <2>7, Zenon DEF NumbersBelow
  <1>2. CASE Publish \/ PublishWalError
    <2> SUFFICES ASSUME Sound PROVE NumbersBelow'
      BY <1>0, Zenon DEF NumbersBelow
    <2>1. pc = "idle" /\ nextSeq \in Nat /\ buffer' = buffer /\ buffer \in Seq(Item)
      BY <1>0, <1>2, Zenon DEF Publish, PublishWalError, WalTypeOK, TypeOK
    <2>2. PICK x : /\ entries' \subseteq entries \cup {x} /\ x.seq = nextSeq
                   /\ nextSeq' = nextSeq + 1 /\ torn' = torn
      <3> DEFINE x == [file |-> active, seq |-> nextSeq, ev |-> nextEvent]
      <3>1. Append1(x) /\ torn' = torn
        BY <1>2, Zenon DEF Publish, PublishWalError, WalWrite, WriteInPlace, WriteAndRotate, WalWriteFails, WalRotateFails
      <3>2. entries' \subseteq entries \cup {x} /\ nextSeq' = nextSeq + 1
        BY <3>1, Zenon DEF Append1
      <3>3. x.seq = nextSeq
        OBVIOUS
      <3> QED BY <3>1, <3>2, <3>3, Zenon
    <2>3. /\ \A e \in entries : e.seq < nextSeq
          /\ \A i \in 1 .. Len(buffer) : buffer[i].seq < nextSeq
          /\ torn = {}
      BY <2>1, Zenon DEF NumbersBelow
    <2>4. /\ \A e \in entries : e.seq \in Nat
          /\ \A i \in 1 .. Len(buffer) : buffer[i].seq \in Nat
      <3>1. \A i \in 1 .. Len(buffer) : buffer[i] \in Item
        BY <2>1
      <3> QED BY <1>0, <3>1, Zenon DEF WalTypeOK, Entry, Item
    <2>5. /\ \A e \in entries' : e.seq < nextSeq'
          /\ \A i \in 1 .. Len(buffer') : buffer'[i].seq < nextSeq'
      <3>1. \A n \in Nat : n < nextSeq => n < nextSeq'
        BY <2>1, <2>2
      <3>2. nextSeq < nextSeq'
        BY <2>1, <2>2
      <3> QED BY <2>1, <2>2, <2>3, <2>4, <3>1, <3>2, Zenon
    <2>6. pc' # "replay"
      BY <1>2, Zenon DEF Publish, PublishWalError
    <2>7. InHand' => pend'.seq < nextSeq'
      <3>1. CASE Publish
        <4>1. pend'.seq = nextSeq
          BY <3>1 DEF Publish
        <4> QED BY <2>1, <2>2, <4>1
      <3>2. CASE PublishWalError
        <4>1. ~InHand'
          BY <2>1, <3>2, Zenon DEF PublishWalError, InHand
        <4> QED BY <4>1, Zenon
      <3> QED BY <1>2, <3>1, <3>2, Zenon
    <2> QED BY <2>2, <2>3, <2>5, <2>6, <2>7, Zenon DEF NumbersBelow
  <1>3. CASE ReplayFails
    <2>1. entries' \subseteq entries /\ torn' \subseteq torn /\ nextSeq' = nextSeq
      BY <1>0, <1>3, MarkEffect, Zenon DEF ReplayFails, walVars
    <2>2. PICK e \in todo : AddToBuffer([seq |-> e.seq, ev |-> e.ev])
      BY <1>3, Zenon DEF ReplayFails
    <2>3. [seq |-> e.seq, ev |-> e.ev] \in Item /\ [seq |-> e.seq, ev |-> e.ev].seq = e.seq
      BY DEF TypeOK, Entry, Events, Item
    <2>4. Sound => \A i \in 1 .. Len(buffer') : buffer'[i].seq < nextSeq
      <3>1. Sound => e.seq < nextSeq /\ \A i \in 1 .. Len(buffer) : buffer[i].seq < nextSeq
        BY <1>3, Zenon DEF ReplayFails, NumbersBelow
      <3> QED BY <2>2, <2>3, <3>1, BufferNumbers, Zenon
    <2>5. pc = "replay" /\ pend' = pend /\ then' = then /\ pc' = IF then = "send" THEN "park" ELSE then
      BY <1>3, Zenon DEF ReplayFails
    <2>6. pc' # "replay" /\ (pc' # "down" /\ InHand' => InHand)
      BY <2>5, Zenon DEF InHand, TypeOK
    <2> QED BY <1>0, <2>1, <2>4, <2>5, <2>6, NumbersKept, Zenon
  <1>4. CASE Park
    <2>1. entries' = entries /\ torn' = torn /\ nextSeq' = nextSeq /\ pc = "park" /\ pc' = "idle" /\ AddToBuffer(pend)
      BY <1>4, Zenon DEF Park, walVars
    <2>2. Sound => \A i \in 1 .. Len(buffer') : buffer'[i].seq < nextSeq
      <3>1. Sound => pend.seq < nextSeq /\ \A i \in 1 .. Len(buffer) : buffer[i].seq < nextSeq
        BY <2>1, Zenon DEF NumbersBelow, InHand
      <3> QED BY <2>1, <3>1, BufferNumbers, Zenon DEF TypeOK
    <2>3. ~InHand'
      BY <2>1, Zenon DEF InHand
    <2> QED BY <1>0, <2>1, <2>2, <2>3, NumbersKept, Zenon
  <1>5. CASE FlushOne
    <2>1. entries' \subseteq entries /\ torn' \subseteq torn /\ nextSeq' = nextSeq
      BY <1>0, <1>5, MarkEffect, Zenon DEF FlushOne
    <2>2. pc = "flush" /\ pc' = pc /\ then' = then /\ pend' = pend /\ buffer # <<>> /\ buffer' = Tail(buffer)
      BY <1>5, Zenon DEF FlushOne
    <2>3. Sound => \A i \in 1 .. Len(buffer') : buffer'[i].seq < nextSeq
      BY <2>2, TailNumbers, Zenon DEF NumbersBelow
    <2>4. InHand' => InHand
      BY <2>2, Zenon DEF InHand
    <2> QED BY <1>0, <2>1, <2>2, <2>3, <2>4, NumbersKept, Zenon
  <1>6. CASE Mark \/ ReplayDone
    <2>1. entries' \subseteq entries /\ torn' \subseteq torn /\ nextSeq' = nextSeq
      BY <1>0, <1>6, MarkEffect, Zenon DEF Mark, ReplayDone, walVars
    <2>2. pc \in {"mark", "replay"} /\ pc' \in {"idle", "flush"} /\ then' = then /\ pend' = pend /\ buffer' = buffer
      BY <1>6, Zenon DEF Mark, ReplayDone
    <2>3. InHand' => InHand
      BY <2>2, Zenon DEF InHand
    <2> QED BY <1>0, <2>1, <2>2, <2>3, NumbersKept, Zenon
  <1>7. CASE Connect \/ Reconnect
    <2>1. UNCHANGED <<walVars, pend, buffer>>
      BY <1>7, Zenon DEF Connect, Reconnect
    <2>2. todo' \subseteq entries
      BY <1>7, Zenon DEF Connect, Reconnect, BeginReplay, Replayable
    <2>3. pc # "down" /\ (InHand' => InHand)
      BY <1>7, Zenon DEF Connect, Reconnect, BeginReplay, InHand
    <2> QED BY <1>0, <2>1, <2>2, <2>3, NumbersKept, Zenon DEF walVars
  <1>8. CASE Crash
    <2>1. entries' \subseteq entries /\ nextSeq' = nextSeq /\ pc' = "down"
      BY <1>8, Zenon DEF Crash, WalCrash, walVars
    <2>2. Sound => torn' = torn
      BY <1>8, Zenon DEF Crash, WalCrash, walVars
    <2> QED BY <1>0, <2>1, <2>2, Zenon DEF NumbersBelow
  <1>9. CASE ReplayOne
    BY <1>0, <1>9, NumbersKept, Zenon DEF ReplayOne, walVars, InHand
  <1>10. CASE ConnectFails \/ ReconnectFails \/ Send \/ SendFails
    BY <1>0, <1>10, NumbersKept, Zenon DEF ConnectFails, ReconnectFails, Send, SendFails, walVars, InHand
  <1>11. CASE FlushFails \/ FlushDone
    <2>1. UNCHANGED <<walVars, pend, then, buffer>> /\ pc = "flush" /\ pc' \in {"idle", "send", "down", "park"}
          /\ (then # "send" => pc' \in {"idle", "down"})
      BY <1>11, Zenon DEF FlushFails, FlushDone, TypeOK
    <2>2. pc' # "down" /\ InHand' => InHand
      BY <2>1, Zenon DEF InHand
    <2> QED BY <1>0, <2>1, <2>2, NumbersKept, Zenon DEF walVars
  <1>12. CASE Shutdown
    <2>1. UNCHANGED <<walVars, pend, buffer>> /\ pc = "idle" /\ then' = "down" /\ pc' \in {"flush", "down"}
      BY <1>12, Zenon DEF Shutdown
    <2>2. ~InHand'
      BY <2>1, Zenon DEF InHand
    <2> QED BY <1>0, <2>1, <2>2, NumbersKept, Zenon DEF walVars
  <1>13. CASE TakeSignal \/ UNCHANGED vars
    <2>1. UNCHANGED <<walVars, pend, then, buffer, pc, todo>>
      BY <1>13, Zenon DEF TakeSignal, vars
    <2>2. InHand' <=> InHand
      BY <2>1, Zenon DEF InHand
    <2> QED BY <1>0, <2>1, <2>2, Zenon DEF NumbersBelow, walVars
  <1> QED BY <1>1, <1>2, <1>3, <1>4, <1>5, <1>6, <1>7, <1>8, <1>9, <1>10, <1>11, <1>12, <1>13, Zenon DEF Next

LEMMA ActiveStep ==
  ASSUME TypeOK, NumbersBelow, SafeDisk, pc # "down" => ActiveSpared, [Next]_vars, pc' # "down"
  PROVE  ActiveSpared'
  <1> USE DEF localVars, handlerVars, bufferVars, worldVars
  <1>0. WalTypeOK /\ faults' = faults
    BY Zenon DEF TypeOK, Next, vars
  <1>1. CASE Start
    <2>1. PICK listed, found : OpenAfterScan(listed, found)
      BY <1>1, Zenon DEF Start, WalOpen
    <2>2. PICK f : active' = f /\ cur' = f /\ len' = [g \in Files \cup {f} |-> IF g \in Files THEN len[g] ELSE 0]
      BY <2>1, Zenon DEF OpenAfterScan
    <2> QED BY <2>2, Zenon DEF ActiveSpared, Files
  <1>2. CASE Publish
    <2>1. active \in Files /\ (active = cur \/ size + 1 >= RotateAt)
      BY <1>2, Zenon DEF Publish, ActiveSpared, Stranded
    <2>2. CASE WriteInPlace(nextEvent)
      <3>1. size + 1 < RotateAt /\ UNCHANGED <<active, cur>> /\ DOMAIN len' = Files
        BY <2>2, Zenon DEF WriteInPlace, Grown
      <3>2. active = cur
        <4>1. size \in Nat
          BY <1>0, Zenon DEF WalTypeOK
        <4> QED BY <2>1, <3>1, <4>1
      <3> QED BY <2>1, <3>1, <3>2, Zenon DEF ActiveSpared, Files
    <2>3. CASE WriteAndRotate(nextEvent)
      BY <2>3, Zenon DEF WriteAndRotate, ActiveSpared, Files
    <2> QED BY <1>2, <2>2, <2>3, Zenon DEF Publish, WalWrite
  <1>3. CASE PublishWalError
    <2>1. /\ pc = "idle" /\ pc' = "idle" /\ buffer' = buffer /\ ActiveSpared
          /\ WalWriteFails \/ WalRotateFails(nextEvent)
      BY <1>3, Zenon DEF PublishWalError
    <2>2. CASE WalWriteFails
      <3>1. "write" \in faults /\ UNCHANGED <<len, active, cur>>
        BY <2>2, Zenon DEF WalWriteFails
      <3>2. active = cur
        BY <2>1, <3>1, Zenon DEF ActiveSpared, Stranded, SafeDisk
      <3> QED BY <2>1, <3>1, <3>2, Zenon DEF ActiveSpared, Files
    <2>3. CASE WalRotateFails(nextEvent)
      <3> DEFINE x == [file |-> active, seq |-> nextSeq, ev |-> nextEvent]
      <3>1. /\ "rotate" \in faults /\ size + 1 >= RotateAt /\ Append1(x)
            /\ len' = Grown(active) /\ size' = size + 1 /\ active' = active
        BY <2>3, Zenon DEF WalRotateFails
      <3>2. torn = {} /\ \A i \in 1 .. Len(buffer) : buffer[i].seq < nextSeq
        BY <2>1, <3>1, Zenon DEF SafeDisk, NumbersBelow
      <3>3. x.file = active /\ x.seq = nextSeq
        OBVIOUS
      <3>4. x \in entries'
        <4>1. x.file \in Files \ torn
          BY <2>1, <3>2, <3>3, Zenon DEF ActiveSpared
        <4> HIDE DEF x
        <4> QED BY <3>1, <4>1, Zenon DEF Append1
      <3>5. x \in InFile(active)' /\ \A i \in 1 .. Len(buffer') : buffer'[i].seq < x.seq
        <4> HIDE DEF x
        <4> QED BY <2>1, <3>1, <3>2, <3>3, <3>4, Zenon DEF InFile
      <3>6. size' + 1 >= RotateAt
        <4>1. size \in Nat
          BY <1>0, Zenon DEF WalTypeOK
        <4> QED BY <3>1, <4>1
      <3>7. Stranded'
        <4> HIDE DEF x
        <4> QED BY <1>0, <2>1, <3>1, <3>5, <3>6, Zenon DEF Stranded
      <3>8. active' \in DOMAIN len'
        BY <2>1, <3>1, Zenon DEF Grown, ActiveSpared
      <3> QED BY <3>7, <3>8, Zenon DEF ActiveSpared, Files
    <2> QED BY <2>1, <2>2, <2>3, Zenon
  (* Clean-up with the handle on the current file, which it spares. *)
  <1>4. ASSUME active = cur, active \in Files, NEW upTo, WalMarkPublished(upTo) PROVE ActiveSpared'
    BY <1>0, <1>4, MarkEffect, Zenon DEF ActiveSpared, Files
  <1>5. CASE Mark \/ ReplayFails \/ ReplayDone
    <2>1. pc \in {"mark", "replay"} /\ ((\E upTo : WalMarkPublished(upTo)) \/ UNCHANGED walVars)
      BY <1>5, Zenon DEF Mark, ReplayFails, ReplayDone
    <2>2. active = cur /\ active \in Files
      BY <2>1, Zenon DEF ActiveSpared, Stranded
    <2> QED BY <1>4, <2>1, <2>2, Zenon DEF ActiveSpared, Files, walVars
  (* Clean-up behind a failed rotation. *)
  <1>6. CASE FlushOne
    <2>1. /\ pc = "flush" /\ pc' = pc /\ then' = then /\ ActiveSpared
          /\ buffer # <<>> /\ buffer' = Tail(buffer) /\ WalMarkPublished(Head(buffer).seq)
      BY <1>6, Zenon DEF FlushOne
    <2>2. CASE active = cur
      BY <1>4, <2>1, <2>2, Zenon DEF ActiveSpared
    <2>3. CASE Stranded
      <3>1. PICK e \in InFile(active) : \A i \in 1 .. Len(buffer) : buffer[i].seq < e.seq
        BY <2>3, Zenon DEF Stranded
      <3>2. PICK D \in SUBSET Deletable(Head(buffer).seq) :
               /\ len' = [g \in Files \ D |-> len[g]]
               /\ entries' = {o \in entries : o.file \notin D}
               /\ UNCHANGED <<active, size>>
        BY <2>1, Zenon DEF WalMarkPublished
      <3>3. Head(buffer).seq < e.seq /\ \A i \in 1 .. Len(buffer') : buffer'[i].seq < e.seq
        BY <2>1, <3>1, TailNumbers, Zenon
      <3>4. ~(e.seq <= Head(buffer).seq)
        <4>1. e \in entries
          BY <3>1, Zenon DEF InFile
        <4>2. e.seq \in Nat
          BY <1>0, <4>1, Zenon DEF WalTypeOK, Entry
        <4>3. Head(buffer) \in Item
          BY <2>1, SequenceTail, Zenon DEF TypeOK
        <4>4. Head(buffer).seq \in Nat
          BY <4>3, Zenon DEF Item
        <4> QED BY <3>3, <4>2, <4>4
      <3>5. active \notin D
        BY <3>1, <3>2, <3>4, Zenon DEF Deletable
      <3>6. e \in InFile(active)' /\ active' \in DOMAIN len'
        BY <2>1, <3>1, <3>2, <3>5, Zenon DEF InFile, ActiveSpared
      <3>7. Stranded'
        BY <1>0, <2>1, <2>3, <3>2, <3>3, <3>6, Zenon DEF Stranded
      <3> QED BY <3>6, <3>7, Zenon DEF ActiveSpared, Files
    <2> QED BY <2>1, <2>2, <2>3, Zenon DEF ActiveSpared
  (* No other step touches the WAL, and after a failed rotation none but a   *)
  (* shutdown moves the handler.                                            *)
  <1>7. CASE Connect \/ ConnectFails \/ Reconnect \/ ReconnectFails \/ ReplayOne \/ Send \/ SendFails \/ Park
    <2>1. pc \in {"connect", "reconnect", "replay", "send", "park"} /\ UNCHANGED walVars
      BY <1>7, Zenon DEF Connect, ConnectFails, Reconnect, ReconnectFails, ReplayOne, Send, SendFails, Park
    <2> QED BY <2>1, Zenon DEF ActiveSpared, Stranded, Files, walVars
  <1>8. CASE FlushFails \/ FlushDone
    <2>1. pc = "flush" /\ then # "down" /\ UNCHANGED walVars
      BY <1>8, Zenon DEF FlushFails, FlushDone
    <2> QED BY <2>1, Zenon DEF ActiveSpared, Stranded, Files, walVars
  <1>9. CASE Shutdown \/ TakeSignal \/ UNCHANGED vars
    <2>1. /\ UNCHANGED <<walVars, buffer>> /\ pc # "down"
          /\ (pc = "idle" /\ pc' = "flush" /\ then' = "down") \/ UNCHANGED <<pc, then>>
      BY <1>9, Zenon DEF Shutdown, TakeSignal, vars
    <2>2. Stranded => Stranded'
      BY <1>0, <2>1, Zenon DEF Stranded, InFile, walVars
    <2> QED BY <2>1, <2>2, Zenon DEF ActiveSpared, Files, walVars
  <1>10. CASE Crash
    BY <1>10, Zenon DEF Crash
  <1> QED BY <1>1, <1>2, <1>3, <1>5, <1>6, <1>7, <1>8, <1>9, <1>10, Zenon DEF Next

(* The file procmond appends to keeps its name while mark_published cleans *)
(* up behind any mix of sends, replays and flushes, unless a failed        *)
(* rotation meets entries that cannot be read back.                        *)
THEOREM ActiveFileStays == Spec => []ActiveFileKept
  <1>1. Init => ActiveInv
    BY Zenon DEF Init, WalInit, ActiveInv, NumbersBelow
  <1>2. ActiveInv => ActiveFileKept
    BY Zenon DEF ActiveInv, SafeDisk, ActiveSpared, ActiveFileKept, ActiveFileNeverDeleted
  <1>3. TypeOK /\ ActiveInv /\ [Next]_vars => ActiveInv'
    <2> SUFFICES ASSUME TypeOK, ActiveInv, [Next]_vars PROVE ActiveInv'
      BY Zenon
    <2>1. NumbersBelow /\ NumbersBelow'
      BY NumbersStep, Zenon DEF ActiveInv
    <2>2. faults' = faults
      BY Zenon DEF Next, vars
    <2>3. SafeDisk' /\ pc' # "down" => ActiveSpared'
      BY <2>1, <2>2, ActiveStep, Zenon DEF ActiveInv, SafeDisk
    <2> QED BY <2>1, <2>3, Zenon DEF ActiveInv
  <1> QED BY <1>1, <1>2, <1>3, TypeCorrect, PTL DEF Spec
=============================================================================
