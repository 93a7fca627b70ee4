----------------------------- MODULE Connector -----------------------------
(***************************************************************************)
(* EventBusConnector (procmond/src/event_bus_connector/mod.rs) over its    *)
(* WAL: the durable publishing path of procmond.  publish() is split at    *)
(* the awaits where the process can die or the broker can fail, so that a  *)
(* crash may fall between the WAL write, the hand-over to the broker and   *)
(* the clean-up of the WAL.                                                *)
(***************************************************************************)
EXTENDS Wal, Sequences

CONSTANTS
    MaxBuffer,      \* max_buffer_size, counted in events
    SignalCapacity, \* capacity of the backpressure channel
    MaxCrash        \* bound: how often the process dies or is shut down

ASSUME MaxBufferAssumption == MaxBuffer \in Nat \ {0}
ASSUME SignalCapacityAssumption == SignalCapacity \in Nat
ASSUME MaxCrashAssumption == MaxCrash \in Nat

VARIABLES
    pc,         \* where the handler that runs now stands
    then,       \* what replay_wal and flush_buffer return to
    pend,       \* the event publish() is working on
    todo,       \* replay_wal: the entries still to publish
    lastOk,     \* replay_wal: last_successful_sequence
    usage0,     \* flush_buffer: previous_usage
    connected,
    buffer,     \* the in-memory buffer of events not handed over
    signals,    \* the backpressure channel
    nextEvent,  \* the next event the collector will publish
    ends,       \* how many times the process has died or shut down
    accepted,   \* history: what publish() wrote to the WAL, with its sequence
    delivered,  \* history: the events the broker has taken
    tornEvents, \* history: the events whose own WAL entry was torn by a crash
    lastSignal  \* history: the last signal, "none" when a send failed since

localVars == <<then, pend, todo, lastOk, usage0>>
handlerVars == <<pc, localVars>>
bufferVars == <<buffer, signals, lastSignal>>
worldVars == <<nextEvent, ends, accepted, delivered, tornEvents>>
vars == <<walVars, handlerVars, connected, bufferVars, worldVars, faults>>

Item == [seq : Nat, ev : Nat]
NoEvent == [seq |-> 0, ev |-> 0]
PCs == {"down", "connect", "idle", "reconnect", "replay", "flush", "send", "mark", "park"}

(* Every variable keeps its type; in particular the buffer never exceeds   *)
(* max_buffer_size and the signal channel never exceeds its capacity.      *)
TypeOK ==
    /\ WalTypeOK
    /\ pc \in PCs
    /\ then \in {"idle", "send", "down"}
    /\ pend \in Item
    /\ todo \subseteq Entry
    /\ lastOk \in Nat
    /\ usage0 \in Nat
    /\ connected \in BOOLEAN
    /\ buffer \in Seq(Item) /\ Len(buffer) <= MaxBuffer
    /\ signals \in Seq({"Activated", "Released"}) /\ Len(signals) <= SignalCapacity
    /\ nextEvent \in Nat \ {0}
    /\ ends \in Nat
    /\ accepted \subseteq Item
    /\ delivered \subseteq Nat
    /\ tornEvents \subseteq Nat
    /\ lastSignal \in {"none", "Activated", "Released"}

Init ==
    /\ WalInit
    /\ pc = "down" /\ then = "idle" /\ pend = NoEvent
    /\ todo = {} /\ lastOk = 0 /\ usage0 = 0
    /\ connected = FALSE
    /\ buffer = <<>> /\ signals = <<>> /\ lastSignal = "none"
    /\ nextEvent = 1 /\ ends = 0
    /\ accepted = {} /\ delivered = {} /\ tornEvents = {}

----------------------------------------------------------------------------
(* The buffer and its backpressure signals.                                *)

HighWaterMark == 70
LowWaterMark == 50

(* buffer_usage_percent *)
Usage(b) == (Len(b) * 100) \div MaxBuffer

(* Mutant: no release is ever signalled. *)
CrossingWithoutRelease(previous, current) ==
    IF previous < HighWaterMark /\ current >= HighWaterMark THEN "Activated" ELSE "none"

(* check_backpressure: a signal on each crossing, lost on a full channel. *)
Crossing(previous, current) ==
    IF previous < HighWaterMark /\ current >= HighWaterMark THEN "Activated"
    ELSE IF previous >= LowWaterMark /\ current < LowWaterMark THEN "Released"
    ELSE "none"

CheckBackpressure(previous, current) ==
    LET signal == Crossing(previous, current)
    IN  CASE signal = "none" -> UNCHANGED <<signals, lastSignal>>
          [] signal # "none" /\ Len(signals) < SignalCapacity ->
                signals' = Append(signals, signal) /\ lastSignal' = signal
          [] OTHER -> signals' = signals /\ lastSignal' = "none"

(* Mutant: the size is compared before the event is added. *)
AddToBufferOffByOne(item) ==
    \/ /\ Len(buffer) <= MaxBuffer
       /\ buffer' = Append(buffer, item)
       /\ CheckBackpressure(Usage(buffer), Usage(Append(buffer, item)))
    \/ /\ Len(buffer) > MaxBuffer
       /\ UNCHANGED bufferVars

(* add_to_buffer: an event that does not fit is refused. *)
AddToBuffer(item) ==
    \/ /\ Len(buffer) < MaxBuffer
       /\ buffer' = Append(buffer, item)
       /\ CheckBackpressure(Usage(buffer), Usage(Append(buffer, item)))
    \/ /\ Len(buffer) >= MaxBuffer
       /\ UNCHANGED bufferVars

----------------------------------------------------------------------------
(* Process start, and the actions of the handlers.                         *)

(* EventBusConnector::new: the WAL is opened, everything else starts empty. *)
Start ==
    /\ pc = "down"
    /\ WalOpen
    /\ pc' = "connect"
    /\ buffer' = <<>> /\ signals' = <<>> /\ lastSignal' = "none"
    /\ connected' = FALSE
    /\ UNCHANGED <<localVars, worldVars>>

(* replay_wal up to its loop.  With nothing to replay it returns at once,  *)
(* without flushing the buffer.                                            *)
BeginReplay(return) ==
    \E S \in Replayable :
        /\ todo' = S
        /\ lastOk' = 0
        /\ then' = return
        /\ pc' = IF S = {} THEN return ELSE "replay"

(* main: connect(), and replay_wal() when it succeeds. *)
Connect ==
    /\ pc = "connect"
    /\ connected' = TRUE
    /\ BeginReplay("idle")
    /\ UNCHANGED <<walVars, pend, usage0, bufferVars, worldVars>>

ConnectFails ==
    /\ pc = "connect"
    /\ pc' = "idle"
    /\ UNCHANGED <<walVars, localVars, connected, bufferVars, worldVars>>

(* publish, step 1: the event goes to the WAL. *)
Publish ==
    /\ pc = "idle" /\ nextEvent <= MaxEvent
    /\ WalWrite(nextEvent)
    /\ pend' = [seq |-> nextSeq, ev |-> nextEvent]
    /\ accepted' = accepted \cup {pend'}
    /\ nextEvent' = nextEvent + 1
    /\ pc' = IF connected THEN "send" ELSE "reconnect"
    /\ UNCHANGED <<then, todo, lastOk, usage0, connected, bufferVars, ends,
                   delivered, tornEvents>>

(* publish returns the WAL's error to the collector. *)
PublishWalError ==
    /\ pc = "idle" /\ nextEvent <= MaxEvent
    /\ WalWriteFails \/ WalRotateFails(nextEvent)
    /\ nextEvent' = nextEvent + 1
    /\ UNCHANGED <<handlerVars, connected, bufferVars, ends, accepted, delivered,
                   tornEvents>>

(* publish, step 2: try_reconnect succeeds and replays the WAL. *)
Reconnect ==
    /\ pc = "reconnect"
    /\ connected' = TRUE
    /\ BeginReplay("send")
    /\ UNCHANGED <<walVars, pend, usage0, bufferVars, worldVars>>

(* try_reconnect is skipped by its backoff, or fails. *)
ReconnectFails ==
    /\ pc = "reconnect"
    /\ pc' = "park"
    /\ UNCHANGED <<walVars, localVars, connected, bufferVars, worldVars>>

(* replay_wal publishes the next entry. *)
ReplayOne ==
    /\ pc = "replay"
    /\ \E e \in todo :
          /\ IsFirst(e, todo)
          /\ delivered' = delivered \cup {e.ev}
          /\ lastOk' = e.seq
          /\ todo' = todo \ {e}
    /\ UNCHANGED <<walVars, pc, then, pend, usage0, connected, bufferVars, nextEvent,
                   ends, accepted, tornEvents>>

(* The broker refuses an entry: it alone is buffered, the loop ends, and   *)
(* what was replayed before is marked.                                     *)
ReplayFails ==
    /\ pc = "replay"
    /\ \E e \in todo : IsFirst(e, todo) /\ AddToBuffer([seq |-> e.seq, ev |-> e.ev])
    /\ IF lastOk > 0 THEN WalMarkPublished(lastOk) ELSE UNCHANGED walVars
    /\ connected' = FALSE
    /\ todo' = {}
    /\ pc' = IF then = "send" THEN "park" ELSE then
    /\ UNCHANGED <<then, pend, lastOk, usage0, worldVars>>

(* The loop is done: mark_published, then flush_buffer. *)
ReplayDone ==
    /\ pc = "replay" /\ todo = {}
    /\ IF lastOk > 0 THEN WalMarkPublished(lastOk) ELSE UNCHANGED walVars
    /\ usage0' = Usage(buffer)
    /\ pc' = "flush"
    /\ UNCHANGED <<then, pend, todo, lastOk, connected, bufferVars, worldVars>>

(* flush_buffer hands over the oldest buffered event and marks it. *)
FlushOne ==
    /\ pc = "flush" /\ buffer # <<>>
    /\ delivered' = delivered \cup {Head(buffer).ev}
    /\ WalMarkPublished(Head(buffer).seq)
    /\ buffer' = Tail(buffer)
    /\ UNCHANGED <<handlerVars, connected, signals, lastSignal, nextEvent, ends,
                   accepted, tornEvents>>

(* The broker refuses: the event stays at the front, the loop ends. *)
FlushFails ==
    /\ pc = "flush" /\ buffer # <<>>
    /\ connected' = FALSE
    /\ CheckBackpressure(usage0, Usage(buffer))
    /\ pc' = IF then = "send" THEN "park" ELSE then
    /\ UNCHANGED <<walVars, localVars, buffer, worldVars>>

FlushDone ==
    /\ pc = "flush" /\ buffer = <<>>
    /\ CheckBackpressure(usage0, Usage(buffer))
    /\ pc' = then
    /\ connected' = (connected /\ then # "down")
    /\ UNCHANGED <<walVars, localVars, buffer, worldVars>>

(* try_publish_or_buffer *)
Send ==
    /\ pc = "send"
    /\ delivered' = delivered \cup {pend.ev}
    /\ pc' = "mark"
    /\ UNCHANGED <<walVars, localVars, connected, bufferVars, nextEvent, ends,
                   accepted, tornEvents>>

SendFails ==
    /\ pc = "send"
    /\ connected' = FALSE
    /\ pc' = "park"
    /\ UNCHANGED <<walVars, localVars, bufferVars, worldVars>>

(* buffer_event: publish() ends with the event in the buffer or, when the  *)
(* buffer is full, with BufferOverflow and the event in the WAL only.      *)
Park ==
    /\ pc = "park"
    /\ AddToBuffer(pend)
    /\ pc' = "idle"
    /\ UNCHANGED <<walVars, localVars, connected, worldVars>>

(* mark_published_with_warning *)
Mark ==
    /\ pc = "mark"
    /\ WalMarkPublished(pend.seq)
    /\ pc' = "idle"
    /\ UNCHANGED <<localVars, connected, bufferVars, worldVars>>

(* shutdown: flush when connected, then drop the client. *)
Shutdown ==
    /\ pc = "idle" /\ ends < MaxCrash
    /\ then' = "down"
    /\ usage0' = Usage(buffer)
    /\ pc' = IF connected THEN "flush" ELSE "down"
    /\ ends' = ends + 1
    /\ UNCHANGED <<walVars, pend, todo, lastOk, connected, bufferVars, nextEvent, accepted,
                   delivered, tornEvents>>

(* The process dies at any point of any handler. *)
Crash ==
    /\ pc # "down" /\ ends < MaxCrash
    /\ WalCrash
    /\ tornEvents' = tornEvents \cup {e.ev : e \in entries \ entries'}
    /\ pc' = "down"
    /\ connected' = FALSE
    /\ ends' = ends + 1
    /\ UNCHANGED <<localVars, bufferVars, nextEvent, accepted, delivered>>

(* The backpressure monitor receives a signal. *)
TakeSignal ==
    /\ signals # <<>> /\ pc # "down"
    /\ signals' = Tail(signals)
    /\ UNCHANGED <<walVars, handlerVars, connected, buffer, lastSignal, worldVars>>

Next ==
    /\ \/ Start \/ Connect \/ ConnectFails
       \/ Publish \/ PublishWalError \/ Reconnect \/ ReconnectFails
       \/ ReplayOne \/ ReplayFails \/ ReplayDone
       \/ FlushOne \/ FlushFails \/ FlushDone
       \/ Send \/ SendFails \/ Park \/ Mark
       \/ Shutdown \/ Crash \/ TakeSignal
    /\ UNCHANGED faults

Spec == Init /\ [][Next]_vars

----------------------------------------------------------------------------
(* The promises of the publishing path.                                    *)

(* An accepted event is with the broker or can be read back.               *)
Recoverable ==
    \A a \in accepted : a.ev \in delivered \/ \E e \in entries : e.ev = a.ev

(* No event reaches the broker before an event published earlier has.      *)
InOrder ==
    \A a, b \in accepted : a.ev < b.ev /\ b.ev \in delivered => a.ev \in delivered

(* What is on disk is numbered in file order.                              *)
DiskInOrder ==
    \A a, b \in entries : a.ev < b.ev => a.seq < b.seq /\ a.file <= b.file

(* The connector's guarantee of at-least-once delivery across restarts:    *)
(* an event that publish() has written to the WAL is with the broker or    *)
(* can still be replayed from a WAL file, in every state, so that no       *)
(* clean-up by mark_published and no crash ever takes the last copy, as    *)
(* long as the disk itself does not fail.                                  *)
AtLeastOnce == faults = {} => Recoverable

(* The broker sees the events for the first time in the order in which     *)
(* they were published, whatever mix of direct publishing, replay and      *)
(* buffer flushing delivers them, on a disk that does not fail.            *)
FirstDeliveryInOrder == faults = {} => InOrder

(* Outside flush_buffer the last signal sent agrees with the buffer: the   *)
(* monitor that slowed collection down on Activated is never left there    *)
(* with a buffer below the low-water mark, unless a send failed.           *)
SignalsFollowBuffer ==
    pc \notin {"flush", "down"} =>
        /\ lastSignal = "Activated" => Usage(buffer) >= LowWaterMark
        /\ lastSignal = "Released" => Usage(buffer) < HighWaterMark

(* "The currently active file is never deleted, even if all its events are *)
(* published" (wal.rs, mark_published): while the process runs, the file   *)
(* its handle appends to still has its name in the WAL directory.          *)
ActiveFileNeverDeleted == pc # "down" => active \in Files

(* What does hold of it: a failed rotation alone, or entries that cannot   *)
(* be read back (torn, cut short, or in an unreadable file) alone, leave   *)
(* the active file in place.  With both, mark_published spares a file that *)
(* was never opened, and finds nothing in the active one that is above its *)
(* mark: its entries are unreadable, or numbered anew below those buffered.*)
ActiveFileKept ==
    ~("rotate" \in faults /\ faults \cap {"read", "torn", "write"} # {}) => ActiveFileNeverDeleted

(* "Only delete if ALL events in this file are published" (wal.rs): an     *)
(* entry leaves the disk only after the broker has taken its event, on a   *)
(* disk that does not fail.                                                *)
DeletedOnlyPublished ==
    [][faults = {} => \A e \in entries \ entries' : e.ev \in delivered']_vars

(* A torn write costs only the entry that was torn: what is published      *)
(* after the restart is again with the broker or in the WAL.               *)
TornCostsOneEntry ==
    \A a \in accepted :
        \/ a.ev \in delivered
        \/ \E e \in entries : e.ev = a.ev
        \/ a.ev \in tornEvents

(* On a disk that does not fail the entries are numbered in file order, so *)
(* that mark_published may compare a file's last sequence with the last    *)
(* one published.                                                          *)
DiskNumbered == faults = {} => DiskInOrder

(* The publishing path as a whole is a durable queue: publish() accepts,   *)
(* the WAL holds, the broker takes; direct sending, replay, flushing and   *)
(* clean-up only ever do what DurableQueue allows.                         *)
Queue == INSTANCE DurableQueue WITH
    sent <- {a.ev : a \in accepted},
    held <- {e.ev : e \in entries},
    taken <- delivered,
    lossy <- faults # {}

(* EventBusConnector implements the durable queue over every crash,        *)
(* restart and broker outage.                                              *)
Implements == Queue!Spec

(* Where the handler stands tells what the broker has: connected and idle  *)
(* means that nothing on disk is undelivered, a replay has delivered       *)
(* whatever is behind it, and clean-up runs only when all it may delete is *)
(* delivered.  publish(), replay_wal() and flush_buffer() rely on this     *)
(* when they pass one sequence number to mark_published as a watermark.    *)
DeliveredSoFar ==
    /\ pc \in {"flush", "mark"} \/ (pc = "idle" /\ connected) =>
          \A e \in entries : e.ev \in delivered
    /\ pc = "send" => \A e \in entries : e.ev \in delivered \/ e.ev = pend.ev
    /\ pc = "replay" =>
          /\ todo \subseteq entries
          /\ \A e \in entries : e \in todo \/ e.ev \in delivered
          /\ \A e \in entries : e.seq <= lastOk => e.ev \in delivered
    /\ pc \in {"connect", "reconnect", "park"} => ~connected

(* The WAL's counters bound what is on disk and in the histories. *)
Bounded ==
    /\ torn = {}
    /\ pc # "down" => active = cur /\ cur \in Files /\ nextSeq >= 1
    /\ \A e \in entries :
          /\ e.seq >= 1 /\ e.ev < nextEvent
          /\ pc # "down" => e.seq < nextSeq
    /\ pc # "down" => \A f \in Files : f <= cur
    /\ \A a \in accepted : a.ev < nextEvent
    /\ \A d \in delivered : d < nextEvent
    /\ \A i \in 1 .. Len(buffer) : buffer[i].ev < nextEvent
    /\ pend.ev < nextEvent
    /\ \A a, b \in entries : a.ev = b.ev => a = b

(* What is on disk, in the buffer or in hand was accepted by publish(). *)
Known ==
    /\ \A e \in entries : \E a \in accepted : a.ev = e.ev
    /\ \A i \in 1 .. Len(buffer) : \E a \in accepted : a.ev = buffer[i].ev
    /\ pc \in {"reconnect", "send", "park"} \/ (pc \in {"replay", "flush"} /\ then = "send") =>
          \E a \in accepted : a.ev = pend.ev

(* The inductive invariant behind AtLeastOnce and FirstDeliveryInOrder. *)
IInv ==
    /\ TypeOK
    /\ Bounded
    /\ DiskInOrder
    /\ DeliveredSoFar
    /\ Recoverable
    /\ InOrder
=============================================================================
