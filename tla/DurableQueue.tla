---------------------------- MODULE DurableQueue ----------------------------
(***************************************************************************)
(* What the publishing path of procmond promises its callers: a durable    *)
(* queue.  An event is accepted once, handed to the consumer at least once *)
(* and for the first time in the order of acceptance, and let go only      *)
(* after it was handed over.  On a disk that fails the queue may lose      *)
(* what it holds, but it never takes back an acceptance or a hand-over.    *)
(* EventBusConnector with its WAL, crashes, replays and buffer is shown to *)
(* implement it (Connector!Implements).                                    *)
(***************************************************************************)
EXTENDS Integers

CONSTANT Events   \* numbered in the order in which they are offered

VARIABLES
    sent,   \* accepted from the caller
    held,   \* kept for a later hand-over
    taken,  \* handed to the consumer
    lossy   \* whether the disk may fail; it never changes

queueVars == <<sent, held, taken, lossy>>

Init ==
    /\ sent = {} /\ held = {} /\ taken = {}
    /\ lossy \in BOOLEAN

Accept ==
    \E e \in Events :
        /\ \A s \in sent : s < e
        /\ sent' = sent \cup {e}
        /\ held' = held \cup {e}
        /\ UNCHANGED taken

(* A first hand-over; later ones of the same event do not show. *)
HandOver ==
    \E e \in held :
        /\ \A s \in sent : s < e => s \in taken
        /\ taken' = taken \cup {e}
        /\ UNCHANGED <<sent, held>>

LetGo ==
    /\ held' \subseteq held
    /\ held \ held' \subseteq taken
    /\ UNCHANGED <<sent, taken>>

Fail ==
    /\ lossy
    /\ sent \subseteq sent' /\ taken \subseteq taken'
    /\ held' \in SUBSET Events

Next ==
    /\ Accept \/ HandOver \/ LetGo \/ Fail
    /\ UNCHANGED lossy

Spec == Init /\ [][Next]_queueVars
=============================================================================
