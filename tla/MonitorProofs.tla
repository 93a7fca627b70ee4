---------------------------- MODULE MonitorProofs ----------------------------
(***************************************************************************)
(* Proofs about Monitor, for any host, any channel capacities, intervals   *)
(* and bounds:                                                             *)
(*   - the bus knows of every process what the tracker knows, but for the  *)
(*     named exceptions;                                                   *)
(*   - the interval follows backpressure as long as no signal is lost;     *)
(*   - a shutdown answered with success has closed the connector;          *)
(*   - procmond exits with an error only if it never collected.            *)
(***************************************************************************)
EXTENDS Monitor, TLAPS

-----------------------------------------------------------------------------
(* The inductive invariant.                                                *)

\* run() has left its loop.
Ended == pc \in {"final", "reply", "done"}

\* The actor and the wait task are spawned when main() goes on to its select!.
Birth == main \in {"register", "subscribe"} => pc = "unborn" /\ waitTask = "none"

\* Events are pending during publication only; after the loop the connector is
\* closed before anybody is answered.
Flushing ==
  /\ pc # "publish" => outbox = {}
  /\ \A e \in outbox : e.pid \in DOMAIN tracked
  /\ pc \in {"reply", "done"} => ~connectorOpen /\ state = "Stopped"
  /\ ctrlC = "ok" => pc = "done"
  /\ ~Ended => failures < MaxFailures

\* No message of q asks for an interval; the last one that does asks for v.
NoneAsked(q) == \A i \in 1..Len(q) : q[i].kind # "AdjustInterval"
LastAsked(q, v) ==
  \E i \in 1..Len(q) :
    /\ q[i].kind = "AdjustInterval" /\ q[i].val = v
    /\ \A j \in i + 1..Len(q) : q[j].kind # "AdjustInterval"

\* The interval in force, or about to be, is that of the level of pressure.
Settled ==
  IF pendingInterval # 0 THEN pendingInterval = Adjusted(level)
  ELSE IF level = "Released" THEN config = CliInterval => current = CliInterval
  ELSE current \in {Adjusted("Activated"), original}

\* Where the latest signal is: at the end of the channel, in the last request of
\* the mailbox, or in the actor.
Pressure ==
  /\ original = config
  /\ pc # "boundary" => pendingConfig = 0 /\ pendingInterval = 0
  /\ pendingConfig = 0 \/ pendingInterval = 0
  /\ ~lostSignal /\ signals # <<>> => signals[Len(signals)] = level
  /\ ~lostSignal /\ signals = <<>> /\ ~Ended =>
       LastAsked(mailbox, Adjusted(level)) \/ (NoneAsked(mailbox) /\ Settled)

\* Before anybody has sent the message to begin, nothing has been collected.
NotBegun ==
  main \in {"register", "subscribe", "fatal"} \/ waitTask = "waiting" =>
    /\ cycles = 0 /\ state # "Running"
    /\ \A i \in 1..Len(mailbox) : mailbox[i].kind # "BeginMonitoring"

-----------------------------------------------------------------------------
(* Channels.                                                               *)

LEMMA EmptyChannel ==
  ASSUME NEW S
  PROVE  << >> \in Seq(S) /\ Len(<< >>) = 0 /\ \A q \in Seq(S) : q # << >> => Len(q) \in Nat \ {0}
OBVIOUS

LEMMA ChannelIndices ==
  ASSUME NEW S, NEW q \in Seq(S)
  PROVE  Len(q) \in Nat /\ \A i \in 1..Len(q) : q[i] \in S
OBVIOUS

LEMMA Received ==
  ASSUME NEW S, NEW q \in Seq(S), q # << >>
  PROVE  /\ Head(q) \in S /\ Tail(q) \in Seq(S) /\ Len(Tail(q)) = Len(q) - 1
         /\ Head(q) = q[1] /\ \A i \in 1..Len(Tail(q)) : Tail(q)[i] = q[i + 1]
OBVIOUS

LEMMA Sent ==
  ASSUME NEW S, NEW q \in Seq(S), NEW m \in S
  PROVE  /\ Append(q, m) \in Seq(S) /\ Len(Append(q, m)) = Len(q) + 1
         /\ \A i \in 1..Len(q) : Append(q, m)[i] = q[i]
         /\ Append(q, m)[Len(q) + 1] = m
OBVIOUS

\* A message that asks for no interval leaves the last request where it is.
LEMMA AskedAfterOther ==
  ASSUME NEW q \in Seq(Message), NEW m \in Message, m.kind # "AdjustInterval"
  PROVE  /\ NoneAsked(q) => NoneAsked(Append(q, m))
         /\ \A v : LastAsked(q, v) => LastAsked(Append(q, m), v)
<1> DEFINE t == Append(q, m)
<1>1. /\ Len(q) \in Nat /\ Len(t) = Len(q) + 1 /\ t[Len(q) + 1] = m
      /\ \A i \in 1..Len(q) : t[i] = q[i]
  BY Sent, ChannelIndices
<1> HIDE DEF t
<1>2. \A i \in 1..Len(t) : i \in 1..Len(q) \/ i = Len(q) + 1
  BY <1>1
<1>3. NoneAsked(q) => NoneAsked(t)
  BY <1>1, <1>2 DEF NoneAsked
<1>4. ASSUME NEW v, LastAsked(q, v) PROVE LastAsked(t, v)
  <2>1. PICK i \in 1..Len(q) : /\ q[i].kind = "AdjustInterval" /\ q[i].val = v
                               /\ \A j \in i + 1..Len(q) : q[j].kind # "AdjustInterval"
    BY <1>4 DEF LastAsked
  <2>2. i \in 1..Len(t) /\ t[i] = q[i]
    BY <1>1
  <2>3. ASSUME NEW j \in i + 1..Len(t) PROVE t[j].kind # "AdjustInterval"
    <3>1. (j \in i + 1..Len(q) /\ j \in 1..Len(q)) \/ j = Len(q) + 1
      BY <1>1
    <3> QED
      BY <1>1, <2>1, <3>1
  <2> QED
    BY <2>1, <2>2, <2>3 DEF LastAsked
<1> QED
  BY <1>3, <1>4 DEF t

\* A request is the last one when it is sent.
LEMMA AskedAfterAsking ==
  ASSUME NEW q \in Seq(Message), NEW m \in Message, m.kind = "AdjustInterval"
  PROVE  LastAsked(Append(q, m), m.val)
<1> DEFINE t == Append(q, m)
<1>1. Len(q) \in Nat /\ Len(t) = Len(q) + 1 /\ t[Len(q) + 1] = m
  BY Sent, ChannelIndices
<1> HIDE DEF t
<1>2. LastAsked(t, m.val)
  BY <1>1 DEF LastAsked
<1> QED
  BY <1>2 DEF t

\* The first message is taken.
LEMMA AskedAfterReceive ==
  ASSUME NEW q \in Seq(Message), q # << >>
  PROVE  /\ NoneAsked(q) => NoneAsked(Tail(q)) /\ Head(q).kind # "AdjustInterval"
         /\ \A v : LastAsked(q, v) =>
              \/ LastAsked(Tail(q), v)
              \/ NoneAsked(Tail(q)) /\ Head(q).kind = "AdjustInterval" /\ Head(q).val = v
<1> DEFINE t == Tail(q)
           h == Head(q)
<1>1. /\ Len(q) \in Nat \ {0} /\ Len(t) = Len(q) - 1 /\ h = q[1]
      /\ \A i \in 1..Len(t) : t[i] = q[i + 1]
  BY Received, EmptyChannel
<1> HIDE DEF t, h
<1>2. NoneAsked(q) => NoneAsked(t) /\ h.kind # "AdjustInterval"
  BY <1>1 DEF NoneAsked
<1>3. ASSUME NEW v, LastAsked(q, v)
      PROVE  \/ LastAsked(t, v)
             \/ NoneAsked(t) /\ h.kind = "AdjustInterval" /\ h.val = v
  <2>1. PICK i \in 1..Len(q) : /\ q[i].kind = "AdjustInterval" /\ q[i].val = v
                               /\ \A j \in i + 1..Len(q) : q[j].kind # "AdjustInterval"
    BY <1>3 DEF LastAsked
  <2>2. CASE i = 1
    BY <1>1, <2>1, <2>2 DEF NoneAsked
  <2>3. CASE i # 1
    <3>1. i - 1 \in 1..Len(t) /\ t[i - 1] = q[i]
      BY <1>1, <2>3
    <3>2. ASSUME NEW j \in (i - 1) + 1..Len(t) PROVE t[j].kind # "AdjustInterval"
      <4>1. j + 1 \in i + 1..Len(q) /\ j \in 1..Len(t)
        BY <1>1
      <4> QED
        BY <1>1, <2>1, <4>1
    <3> QED
      BY <2>1, <3>1, <3>2 DEF LastAsked
  <2> QED
    BY <2>2, <2>3
<1> QED
  BY <1>2, <1>3 DEF t, h

-----------------------------------------------------------------------------
(* Types.                                                                  *)

\* What the senders post.
Posts ==
  {Msg("BeginMonitoring", None, 0), Msg("GracefulShutdown", "ctrlC", 0)}
    \cup RpcHealthCheck \cup RpcConfigUpdate \cup RpcShutdown

LEMMA PostsTyped ==
  /\ \A m \in Posts : m \in Message /\ m.kind # "AdjustInterval"
  /\ \A s \in {"Activated", "Released"} :
       /\ Adjusted(s) \in Nat \ {0}
       /\ Msg("AdjustInterval", None, Adjusted(s)) \in Message
<1>1. \A i \in Intervals \cup {0} : i \in Nat
  BY MonitorAssumption
<1>2. \A m \in Posts : m \in Message /\ m.kind # "AdjustInterval"
  BY <1>1 DEF Posts, Msg, Message, Kinds, None, RpcHealthCheck, RpcConfigUpdate, RpcShutdown
<1>3. \A s \in {"Activated", "Released"} : Adjusted(s) \in Nat \ {0}
  BY MonitorAssumption DEF Adjusted
<1>4. \A v \in Nat : Msg("AdjustInterval", None, v) \in Message
  BY DEF Msg, Message, Kinds, None
<1> QED
  BY <1>2, <1>3, <1>4, Zenon

\* try_send: the message goes to the end of the mailbox, or nothing happens.
LEMMA Posted ==
  ASSUME TypeOK, NEW m \in Message, Post(m)
  PROVE  /\ mailbox' \in Seq(Message) /\ Len(mailbox') <= Capacity
         /\ mailbox' = IF Accepts THEN Append(mailbox, m) ELSE mailbox
<1>1. mailbox \in Seq(Message) /\ Len(mailbox) <= Capacity /\ Len(mailbox) \in Nat /\ Capacity \in Nat
  BY MonitorAssumption, ChannelIndices DEF TypeOK
<1>2. mailbox' = IF Accepts THEN Append(mailbox, m) ELSE mailbox
  BY Zenon DEF Post
<1>3. CASE Accepts
  BY <1>1, <1>2, <1>3, Sent DEF Accepts
<1>4. CASE ~Accepts
  BY <1>1, <1>2, <1>4
<1> QED
  BY <1>2, <1>3, <1>4, Zenon

\* Taking the first message.
LEMMA Taken ==
  ASSUME TypeOK, NEW k, Receive(k)
  PROVE  /\ mailbox' = Tail(mailbox) /\ mailbox # << >> /\ pc = "select"
         /\ mailbox' \in Seq(Message) /\ Len(mailbox') <= Capacity
         /\ Head(mailbox) \in Message /\ Head(mailbox).kind = k /\ Head(mailbox) = mailbox[1]
         /\ Head(mailbox).val \in Nat /\ Head(mailbox).from \in {None, "rpc", "ctrlC"}
<1>1. mailbox \in Seq(Message) /\ Len(mailbox) <= Capacity /\ Len(mailbox) \in Nat /\ Capacity \in Nat
  BY MonitorAssumption, ChannelIndices DEF TypeOK
<1>2. /\ mailbox' = Tail(mailbox) /\ mailbox # << >> /\ pc = "select" /\ Head(mailbox).kind = k
  BY Zenon DEF Receive
<1>3. /\ Head(mailbox) \in Message /\ Tail(mailbox) \in Seq(Message)
      /\ Len(Tail(mailbox)) = Len(mailbox) - 1 /\ Head(mailbox) = mailbox[1]
  BY <1>1, <1>2, Received, Zenon
<1>4. Head(mailbox).val \in Nat /\ Head(mailbox).from \in {None, "rpc", "ctrlC"}
  BY <1>3, Zenon DEF Message
<1> QED
  BY <1>1, <1>2, <1>3, <1>4

ActorInv == TypeOK /\ Birth /\ Flushing

LEMMA ActorInit == Init => ActorInv
<1> SUFFICES ASSUME Init PROVE ActorInv
  BY Zenon
<1>1. CliInterval \in Nat \ {0} /\ 0 \in 0..MaxFailures /\ 0 < MaxFailures
  BY MonitorAssumption
<1>2. 0 <= Capacity /\ 0 <= SignalCapacity /\ Len(<< >>) = 0
  BY MonitorAssumption
<1>3. << >> \in Seq(Message) /\ << >> \in Seq({"Activated", "Released"})
  BY EmptyChannel, Zenon
<1>4. TypeOK
  BY <1>1, <1>2, <1>3 DEF Init, TypeOK, States
<1> QED
  BY <1>1, <1>4, Zenon DEF Init, ActorInv, Birth, Flushing, Ended

\* Steps of main() and of the tasks that only post.
LEMMA ActorTasks ==
  ASSUME ActorInv,
         \/ Register \/ BeginAtOnce \/ SubscribeThenWait \/ EndMain \/ ExitMain
         \/ EndWait \/ PressCtrlC \/ RequestShutdown \/ Heartbeat \/ RpcRequest
         \/ BackpressureMonitor
  PROVE  ActorInv'
<1>0. TypeOK /\ Birth /\ Flushing
  BY Zenon DEF ActorInv
<1>1. mailbox' \in Seq(Message) /\ Len(mailbox') <= Capacity
  <2>1. CASE UNCHANGED mailbox
    BY <1>0, <2>1, Zenon DEF TypeOK
  <2>2. ASSUME NEW m \in Posts, Post(m) PROVE mailbox' \in Seq(Message) /\ Len(mailbox') <= Capacity
    BY <1>0, <2>2, PostsTyped, Posted, Zenon
  <2>3. CASE BackpressureMonitor
    <3>1. Head(signals) \in {"Activated", "Released"}
      BY <1>0, <2>3, Received, Zenon DEF BackpressureMonitor, TypeOK
    <3> QED
      BY <1>0, <2>3, <3>1, PostsTyped, Posted, Zenon DEF BackpressureMonitor
  <2> QED
    BY <2>1, <2>2, <2>3, Zenon DEF Register, BeginAtOnce, SubscribeThenWait, EndMain, ExitMain,
       EndWait, PressCtrlC, RequestShutdown, Heartbeat, RpcRequest, BeginOrExit, Posts, RpcHealthCheck
<1>2. /\ UNCHANGED <<state, config, pendingConfig, pendingInterval, original, current,
                     failures, reply, connectorOpen, level, trackVars, cycles>>
      /\ pc' = pc \/ (pc' = "boundary" /\ main = "subscribe")
      /\ ctrlC' = "ok" => ctrlC = "ok"
      /\ main' \in {"register", "subscribe"} =>
           pc' = pc /\ waitTask' = waitTask /\ main \in {"register", "subscribe"}
  BY Zenon DEF Register, BeginAtOnce, SubscribeThenWait, EndMain, ExitMain, EndWait, PressCtrlC,
     RequestShutdown, Heartbeat, RpcRequest, BackpressureMonitor, BeginOrExit, actorVars, taskVars,
     bpVars, countVars
<1>3. /\ registration' \in {"Unregistered", "Registered", "Failed"}
      /\ main' \in {"register", "subscribe", "select", "ending", "clean", "fatal"}
      /\ waitTask' \in {"none", "waiting", "done"}
      /\ ctrlC' \in {"armed", "hit", "waiting", "ok", "failed"}
      /\ lostSignal' \in BOOLEAN
  <2>1. registration' \in {"Unregistered", "Registered", "Failed"}
    BY <1>0, Zenon DEF TypeOK, Register, BeginAtOnce, SubscribeThenWait, EndMain, ExitMain, EndWait,
       PressCtrlC, RequestShutdown, Heartbeat, RpcRequest, BackpressureMonitor, BeginOrExit, taskVars, bpVars
  <2>2. main' \in {"register", "subscribe", "select", "ending", "clean", "fatal"}
    BY <1>0, Zenon DEF TypeOK, Register, BeginAtOnce, SubscribeThenWait, EndMain, ExitMain, EndWait,
       PressCtrlC, RequestShutdown, Heartbeat, RpcRequest, BackpressureMonitor, BeginOrExit, taskVars, bpVars
  <2>3. waitTask' \in {"none", "waiting", "done"}
    BY <1>0, Zenon DEF TypeOK, Register, BeginAtOnce, SubscribeThenWait, EndMain, ExitMain, EndWait,
       PressCtrlC, RequestShutdown, Heartbeat, RpcRequest, BackpressureMonitor, BeginOrExit, taskVars, bpVars
  <2>4. ctrlC' \in {"armed", "hit", "waiting", "ok", "failed"}
    BY <1>0, Zenon DEF TypeOK, Register, BeginAtOnce, SubscribeThenWait, EndMain, ExitMain, EndWait,
       PressCtrlC, RequestShutdown, Heartbeat, RpcRequest, BackpressureMonitor, BeginOrExit, taskVars, bpVars
  <2>5. lostSignal' \in BOOLEAN
    BY <1>0, Zenon DEF TypeOK, Register, BeginAtOnce, SubscribeThenWait, EndMain, ExitMain, EndWait,
       PressCtrlC, RequestShutdown, Heartbeat, RpcRequest, BackpressureMonitor, BeginOrExit, taskVars, bpVars
  <2> QED
    BY <2>1, <2>2, <2>3, <2>4, <2>5, Zenon
<1>4. requests' \in Nat
  BY <1>0 DEF TypeOK, Register, BeginAtOnce, SubscribeThenWait, EndMain, ExitMain, EndWait,
     PressCtrlC, RequestShutdown, Heartbeat, RpcRequest, BackpressureMonitor, countVars
<1>5. signals' \in Seq({"Activated", "Released"}) /\ Len(signals') <= SignalCapacity
  <2>1. CASE UNCHANGED signals
    BY <1>0, <2>1, Zenon DEF TypeOK
  <2>2. CASE signals # << >> /\ signals' = Tail(signals)
    <3>1. /\ signals \in Seq({"Activated", "Released"}) /\ Len(signals) <= SignalCapacity
          /\ SignalCapacity \in Nat /\ Len(signals) \in Nat
      BY <1>0, MonitorAssumption, ChannelIndices DEF TypeOK
    <3> QED
      BY <2>2, <3>1, Received
  <2> QED
    BY <2>1, <2>2, Zenon DEF Register, BeginAtOnce, SubscribeThenWait, EndMain, ExitMain, EndWait,
       PressCtrlC, RequestShutdown, Heartbeat, RpcRequest, BackpressureMonitor, bpVars
<1>6. pc' \in {"unborn", "boundary", "select", "collect", "publish", "final", "reply", "done"}
  BY <1>0, <1>2, Zenon DEF TypeOK
<1>7. TypeOK'
  BY <1>0, <1>1, <1>2, <1>3, <1>4, <1>5, <1>6, Zenon DEF TypeOK, trackVars
<1>8. Birth'
  BY <1>0, <1>2, Zenon DEF Birth
<1>9. Flushing'
  <2>1. pc = "unborn" \/ pc' = pc
    BY <1>0, <1>2, Zenon DEF Birth
  <2>2. UNCHANGED <<outbox, tracked>>
    BY <1>2, Zenon DEF trackVars
  <2> QED
    BY <1>0, <1>2, <2>1, <2>2, Zenon DEF Flushing, Ended
<1> QED
  BY <1>7, <1>8, <1>9, Zenon DEF ActorInv

\* The top of the loop and the messages.
LEMMA ActorMessages ==
  ASSUME ActorInv,
         \/ Boundary \/ HandleHealthCheck \/ HandleUpdateConfig \/ HandleGracefulShutdown
         \/ HandleBeginMonitoring \/ HandleAdjustInterval \/ ShutDownConnector \/ DropReceiver
  PROVE  ActorInv'
<1>0. TypeOK /\ Birth /\ Flushing
  BY Zenon DEF ActorInv
<1>1. /\ UNCHANGED <<failures, registration, main, waitTask, bpVars, trackVars, countVars>>
      /\ pc' \in {"boundary", "select", "final", "reply", "done"}
      /\ pc \in {"boundary", "select", "final", "reply"}
      /\ Ended => Ended'
      /\ pc = "reply" <=> pc' = "done"
  BY Zenon DEF Boundary, HandleHealthCheck, HandleUpdateConfig, HandleGracefulShutdown,
     HandleBeginMonitoring, HandleAdjustInterval, ShutDownConnector, DropReceiver, Receive, taskVars, Ended
<1>2. mailbox' \in Seq(Message) /\ Len(mailbox') <= Capacity
  <2>1. CASE UNCHANGED mailbox
    BY <1>0, <2>1, Zenon DEF TypeOK
  <2>2. CASE mailbox' = << >>
    BY <2>2, MonitorAssumption, EmptyChannel
  <2>3. ASSUME NEW k, Receive(k) PROVE mailbox' \in Seq(Message) /\ Len(mailbox') <= Capacity
    BY <1>0, <2>3, Taken, Zenon
  <2> QED
    BY <2>1, <2>2, <2>3, Zenon DEF Boundary, HandleHealthCheck, HandleUpdateConfig,
       HandleGracefulShutdown, HandleBeginMonitoring, HandleAdjustInterval, ShutDownConnector, DropReceiver
<1>3. /\ config' \in Nat \ {0} /\ original' \in Nat \ {0} /\ current' \in Nat \ {0}
      /\ pendingConfig' \in Nat /\ pendingInterval' \in Nat
      /\ reply' \in {None, "rpc", "ctrlC"} /\ state' \in States
  <2>1. CASE Boundary
    BY <1>0, <2>1 DEF TypeOK, Boundary
  <2>2. CASE HandleUpdateConfig
    <3>1. Head(mailbox).val \in Nat
      BY <1>0, <2>2, Taken, Zenon DEF HandleUpdateConfig
    <3> QED
      BY <1>0, <2>2, <3>1, Zenon DEF TypeOK, HandleUpdateConfig
  <2>3. CASE HandleAdjustInterval
    <3>1. Head(mailbox).val \in Nat
      BY <1>0, <2>3, Taken, Zenon DEF HandleAdjustInterval
    <3> QED
      BY <1>0, <2>3, <3>1, Zenon DEF TypeOK, HandleAdjustInterval
  <2>4. CASE HandleGracefulShutdown
    <3>1. Head(mailbox).from \in {None, "rpc", "ctrlC"}
      BY <1>0, <2>4, Taken, Zenon DEF HandleGracefulShutdown
    <3> QED
      BY <1>0, <2>4, <3>1, Zenon DEF TypeOK, HandleGracefulShutdown, States
  <2>5. CASE HandleHealthCheck \/ HandleBeginMonitoring \/ ShutDownConnector \/ DropReceiver
    BY <1>0, <2>5, Zenon DEF TypeOK, HandleHealthCheck, HandleBeginMonitoring, ShutDownConnector,
       DropReceiver, States
  <2> QED
    BY <2>1, <2>2, <2>3, <2>4, <2>5, Zenon
<1>4. /\ connectorOpen' \in BOOLEAN /\ ctrlC' \in {"armed", "hit", "waiting", "ok", "failed"}
      /\ pc' = "reply" => ~connectorOpen' /\ state' = "Stopped"
      /\ pc' = "done" => UNCHANGED <<connectorOpen, state>>
      /\ ctrlC' = "ok" => ctrlC = "ok" \/ pc' = "done"
  BY <1>0, Zenon DEF TypeOK, Boundary, HandleHealthCheck, HandleUpdateConfig, HandleGracefulShutdown,
     HandleBeginMonitoring, HandleAdjustInterval, ShutDownConnector, DropReceiver, Receive, taskVars
<1>5. TypeOK'
  <2>1. pc' \in {"unborn", "boundary", "select", "collect", "publish", "final", "reply", "done"}
    BY <1>1, Zenon
  <2>2. UNCHANGED <<failures, registration, main, waitTask, signals, level, lostSignal, tracked, stale,
                    excused, first, cycles, requests>>
    BY <1>1, Zenon DEF trackVars, countVars, bpVars
  <2> QED
    BY <1>0, <1>2, <1>3, <1>4, <2>1, <2>2, Zenon DEF TypeOK
<1>6. Birth'
  BY <1>0, <1>1, Zenon DEF Birth
<1>7. Flushing'
  BY <1>0, <1>1, <1>4, Zenon DEF Flushing, trackVars
<1> QED
  BY <1>5, <1>6, <1>7, Zenon DEF ActorInv

\* A collection cycle.
LEMMA ActorCycle ==
  ASSUME ActorInv,
         \/ Tick \/ CollectFails \/ CollectProcesses
         \/ (\E ok \in BOOLEAN : Publish(ok)) \/ FinishCycle \/ SendFails
  PROVE  ActorInv'
<1>0. TypeOK /\ Birth /\ Flushing
  BY Zenon DEF ActorInv
<1>1. /\ UNCHANGED <<mailbox, config, pendingConfig, pendingInterval, original, current, reply,
                     connectorOpen, registration, main, waitTask, ctrlC, requests>>
      /\ pc' \in {"boundary", "collect", "publish", "final"}
      /\ pc \in {"select", "collect", "publish"}
      /\ cycles' = IF pc = "select" THEN cycles + 1 ELSE cycles
  BY Zenon DEF Tick, CollectFails, CollectProcesses, Publish, FinishCycle, SendFails, FailCycle,
     taskVars, countVars, actorVars
<1>2. state' \in States
  BY <1>0, Zenon DEF TypeOK, States, Tick, CollectFails, CollectProcesses, Publish, FinishCycle,
     SendFails, FailCycle, actorVars
<1>3. cycles' \in Nat
  BY <1>0, <1>1 DEF TypeOK
<1>4. failures' \in 0..MaxFailures /\ (pc' # "final" => failures' < MaxFailures)
  <2>1. failures \in Nat /\ failures < MaxFailures /\ MaxFailures \in Nat \ {0}
    BY <1>0, <1>1, MonitorAssumption DEF TypeOK, Flushing, Ended
  <2>2. CASE UNCHANGED failures \/ failures' = 0
    BY <2>1, <2>2
  <2>3. CASE FailCycle
    BY <2>1, <2>3 DEF FailCycle
  <2> QED
    BY <2>2, <2>3, Zenon DEF Tick, CollectFails, CollectProcesses, Publish, FinishCycle, SendFails, actorVars
<1>5. /\ signals' \in Seq({"Activated", "Released"}) /\ Len(signals') <= SignalCapacity
      /\ level' \in {"Activated", "Released"} /\ lostSignal' \in BOOLEAN
  <2>1. CASE UNCHANGED bpVars
    BY <1>0, <2>1, Zenon DEF TypeOK, bpVars
  <2>2. CASE Signal /\ ~UNCHANGED bpVars
    <3>1. /\ level' \in {"Activated", "Released"} /\ lostSignal' \in BOOLEAN
          /\ signals' = IF Len(signals) < SignalCapacity THEN Append(signals, level') ELSE signals
      BY <1>0, <2>2, Zenon DEF TypeOK, Signal
    <3>2. /\ signals \in Seq({"Activated", "Released"}) /\ Len(signals) <= SignalCapacity
          /\ SignalCapacity \in Nat /\ Len(signals) \in Nat
      BY <1>0, MonitorAssumption, ChannelIndices DEF TypeOK
    <3>3. CASE Len(signals) < SignalCapacity
      BY <3>1, <3>2, <3>3, Sent
    <3>4. CASE ~(Len(signals) < SignalCapacity)
      BY <3>1, <3>2, <3>4, Zenon
    <3> QED
      BY <3>3, <3>4, Zenon
  <2> QED
    BY <2>1, <2>2, Zenon DEF Tick, CollectFails, CollectProcesses, Publish, FinishCycle, SendFails
<1>6. /\ DOMAIN tracked' \subseteq Pids /\ stale' \cup excused' \subseteq DOMAIN tracked'
      /\ first' \in BOOLEAN
      /\ pc' # "publish" => outbox' = {}
      /\ \A e \in outbox' : e.pid \in DOMAIN tracked'
  <2>1. CASE UNCHANGED trackVars /\ outbox = {}
    BY <1>0, <2>1, Zenon DEF TypeOK, trackVars
  <2>2. CASE CollectProcesses
    <3>1. PICK snap \in Tables : Track(snap, Now)
      BY <2>2, Zenon DEF CollectProcesses
    <3>2. DOMAIN snap \subseteq Pids
      <4>1. PICK ps \in SUBSET Pids :
              snap \in [ps -> {Snapshot(i, n, Now) : i \in Images, n \in 0..Now}]
        BY DEF Tables
      <4>2. DOMAIN snap = ps
        BY <4>1
      <4> QED
        BY <4>2, Zenon
    <3>3. /\ tracked' = snap /\ first' = FALSE /\ stale' \subseteq DOMAIN snap
          /\ excused' \subseteq DOMAIN snap
      BY <3>1, Zenon DEF Track
    <3>4. \A e \in outbox' : e.pid \in DOMAIN snap
      <4>1. \A e \in ToPublish(tracked, snap, Now) : e.pid \in DOMAIN snap
        BY DEF ToPublish
      <4> QED
        BY <3>1, <4>1, Zenon DEF Track
    <3> QED
      BY <2>2, <3>2, <3>3, <3>4, Zenon DEF CollectProcesses
  <2>3. ASSUME NEW ok \in BOOLEAN, Publish(ok)
        PROVE  /\ DOMAIN tracked' \subseteq Pids /\ stale' \cup excused' \subseteq DOMAIN tracked'
               /\ first' \in BOOLEAN
               /\ pc' # "publish" => outbox' = {}
               /\ \A e \in outbox' : e.pid \in DOMAIN tracked'
    <3>1. PICK e \in outbox : /\ outbox' = outbox \ {e} /\ stale' \subseteq stale
                              /\ excused' \subseteq excused \cup {e.pid}
      BY <2>3, Zenon DEF Publish
    <3>2. UNCHANGED <<tracked, first, pc>> /\ pc = "publish"
      BY <2>3, Zenon DEF Publish, actorVars
    <3>3. e.pid \in DOMAIN tracked
      BY <1>0, Zenon DEF Flushing
    <3> QED
      BY <1>0, <3>1, <3>2, <3>3, Zenon DEF TypeOK, Flushing
  <2>4. pc # "publish" => outbox = {}
    BY <1>0, Zenon DEF Flushing
  <2> QED
    BY <2>1, <2>2, <2>3, <2>4, Zenon DEF Tick, CollectFails, FinishCycle, SendFails
<1>7. TypeOK'
  <2>1. pc' \in {"unborn", "boundary", "select", "collect", "publish", "final", "reply", "done"}
    BY <1>1, Zenon
  <2>2. UNCHANGED <<mailbox, config, pendingConfig, pendingInterval, original, current, reply,
                    connectorOpen, registration, main, waitTask, ctrlC, requests>>
    BY <1>1, Zenon
  <2> QED
    BY <1>0, <1>2, <1>3, <1>4, <1>5, <1>6, <2>1, <2>2 DEF TypeOK
<1>8. Birth'
  BY <1>0, <1>1, Zenon DEF Birth
<1>9. Flushing'
  BY <1>0, <1>1, <1>4, <1>6, Zenon DEF Flushing, Ended
<1> QED
  BY <1>7, <1>8, <1>9, Zenon DEF ActorInv

LEMMA ActorNext == ActorInv /\ [Next]_vars => ActorInv'
<1> SUFFICES ASSUME ActorInv, [Next]_vars PROVE ActorInv'
  BY Zenon
<1>1. CASE UNCHANGED vars
  <2>1. /\ UNCHANGED <<mailbox, pc, state, config, pendingConfig, pendingInterval, original, current>>
        /\ UNCHANGED <<failures, reply, connectorOpen, registration, main, waitTask, ctrlC, signals>>
        /\ UNCHANGED <<level, lostSignal, tracked, first, outbox, stale, excused, cycles, requests>>
    BY <1>1, Zenon DEF vars, actorVars, taskVars, bpVars, trackVars, countVars
  <2>2. TypeOK'
    BY <2>1 DEF ActorInv, TypeOK
  <2> QED
    BY <2>1, <2>2, Zenon DEF ActorInv, Birth, Flushing, Ended
<1> QED
  BY <1>1, ActorTasks, ActorMessages, ActorCycle, Zenon DEF Next, ActorStep, MainStep

-----------------------------------------------------------------------------
(* The view of the bus.                                                    *)

\* A process whose identity has changed, or that is new and old enough, is among
\* the ones to publish.
LEMMA ChangeIsPublished ==
  ASSUME Tracking.reuse, Tracking.args, NEW prev, NEW cur, NEW now, NEW p \in DOMAIN cur,
         \/ p \notin DOMAIN prev /\ ValidStart(cur[p])
         \/ p \in DOMAIN prev /\ Identity(cur[p]) # Identity(prev[p])
  PROVE  \E e \in ToPublish(prev, cur, now) : e.pid = p
<1>1. p \in Changed(prev, cur, now)
  <2>1. CASE p \notin DOMAIN prev /\ ValidStart(cur[p])
    BY <2>1, Zenon DEF Changed, Started
  <2>2. CASE p \in DOMAIN prev /\ Identity(cur[p]) # Identity(prev[p])
    <3>1. CASE PidReuse(prev[p], cur[p])
      BY <2>2, <3>1, Zenon DEF Changed, Suspicious
    <3>2. CASE prev[p].args # cur[p].args
      BY <2>2, <3>2, Zenon DEF Changed, Modified, ModifiedFields
    <3>3. CASE prev[p].user # cur[p].user
      BY <2>2, <3>3, Zenon DEF Changed, Modified, ModifiedFields
    <3> QED
      BY <2>2, <3>1, <3>2, <3>3, Zenon DEF Identity, PidReuse
  <2> QED
    BY <2>1, <2>2, Zenon
<1> DEFINE e == [pid |-> p, type |-> EventType(prev, cur, now, p)]
<1>2. e \in ToPublish(prev, cur, now) /\ e.pid = p
  BY <1>1 DEF ToPublish
<1> QED
  BY <1>2, Zenon

LEMMA ViewNext == ActorInv /\ ViewCurrent /\ [Next]_vars => ViewCurrent'
<1> SUFFICES ASSUME ActorInv, ViewCurrent, [Next]_vars, Tracking.reuse, Tracking.args
             PROVE  stale' \subseteq excused' \cup {e.pid : e \in outbox'}
  BY Zenon DEF ViewCurrent
<1>0. stale \subseteq excused \cup {e.pid : e \in outbox}
  BY Zenon DEF ViewCurrent
<1>1. CASE UNCHANGED <<stale, excused, outbox>>
  BY <1>0, <1>1, Zenon
<1>2. CASE CollectProcesses
  <2>1. PICK snap \in Tables : Track(snap, Now)
    BY <1>2, Zenon DEF CollectProcesses
  <2>2. outbox = {}
    BY <1>2, Zenon DEF CollectProcesses, ActorInv, Flushing
  <2> SUFFICES ASSUME NEW p \in stale', p \notin excused'
               PROVE  \E e \in outbox' : e.pid = p
    BY Zenon
  <2>3. /\ p \in DOMAIN snap /\ ~first
        /\ \/ p \notin DOMAIN tracked /\ ValidStart(snap[p])
           \/ /\ p \in DOMAIN tracked /\ Identity(snap[p]) = Identity(tracked[p])
              /\ p \in stale /\ p \notin excused
           \/ p \in DOMAIN tracked /\ Identity(snap[p]) # Identity(tracked[p])
    BY <2>1, Zenon DEF Track
  <2>4. ~(p \in stale /\ p \notin excused)
    BY <1>0, <2>2, Zenon
  <2>5. outbox' = ToPublish(tracked, snap, Now)
    BY <2>1, <2>3, Zenon DEF Track
  <2>6. \E e \in ToPublish(tracked, snap, Now) : e.pid = p
    <3>1. CASE p \notin DOMAIN tracked /\ ValidStart(snap[p])
      BY <2>3, <3>1, ChangeIsPublished
    <3>2. CASE p \in DOMAIN tracked /\ Identity(snap[p]) # Identity(tracked[p])
      BY <2>3, <3>2, ChangeIsPublished
    <3> QED
      BY <2>3, <2>4, <3>1, <3>2, Zenon
  <2> QED
    BY <2>5, <2>6, Zenon
<1>3. ASSUME NEW ok \in BOOLEAN, Publish(ok)
      PROVE  stale' \subseteq excused' \cup {e.pid : e \in outbox'}
  <2>1. PICK e \in outbox :
          /\ outbox' = outbox \ {e}
          /\ stale' = IF ok THEN stale \ {e.pid} ELSE stale
          /\ excused' = IF ok THEN excused \ {e.pid} ELSE excused \cup {e.pid}
    BY <1>3, Zenon DEF Publish
  <2> QED
    BY <1>0, <2>1, Zenon
<1> QED
  BY <1>1, <1>2, <1>3, Zenon DEF Next, vars, trackVars, ActorStep, MainStep, Boundary, HandleHealthCheck,
     HandleUpdateConfig, HandleGracefulShutdown, HandleBeginMonitoring, HandleAdjustInterval, Tick,
     CollectFails, FinishCycle, SendFails, ShutDownConnector, DropReceiver, Register, BeginAtOnce,
     SubscribeThenWait, EndMain, ExitMain, EndWait, PressCtrlC, RequestShutdown, Heartbeat, RpcRequest,
     BackpressureMonitor

\* No start, change of image or reuse of a pid goes unpublished, for any host and
\* any failures, but for the baseline, processes met too young and events the
\* connector refused (update_and_detect_changes, collect_and_analyze_internal).
THEOREM BusKnows == Spec => []ViewCurrent
<1>1. Init => ViewCurrent
  BY Zenon DEF Init, ViewCurrent
<1> QED
  BY <1>1, ActorInit, ActorNext, ViewNext, PTL DEF Spec

\* A shutdown answered with success has closed the connector and left no event of
\* a cycle behind (run, graceful_shutdown).
THEOREM SuccessMeansFlushed == Spec => []OkMeansFlushed
<1>1. ActorInv => OkMeansFlushed
  BY Zenon DEF ActorInv, Flushing, OkMeansFlushed
<1> QED
  BY <1>1, ActorInit, ActorNext, PTL DEF Spec

-----------------------------------------------------------------------------
(* The message to begin.                                                   *)

LEMMA BegunNext == ActorInv /\ NotBegun /\ [Next]_vars => NotBegun'
<1> SUFFICES ASSUME ActorInv, NotBegun, [Next]_vars,
                    main' \in {"register", "subscribe", "fatal"} \/ waitTask' = "waiting"
             PROVE  /\ cycles' = 0 /\ state' # "Running"
                    /\ \A i \in 1..Len(mailbox') : mailbox'[i].kind # "BeginMonitoring"
  BY Zenon DEF NotBegun
<1>0. TypeOK /\ Birth /\ mailbox \in Seq(Message)
  BY Zenon DEF ActorInv, TypeOK
<1>1. main \in {"register", "subscribe", "fatal"} \/ waitTask = "waiting"
  BY Zenon DEF Next, vars, taskVars, ActorStep, MainStep, Boundary, HandleHealthCheck,
     HandleUpdateConfig, HandleGracefulShutdown, HandleBeginMonitoring, HandleAdjustInterval, Tick,
     CollectProcesses, Publish,
     CollectFails, FinishCycle, SendFails, FailCycle, ShutDownConnector, DropReceiver, Register, BeginAtOnce,
     SubscribeThenWait, EndMain, ExitMain, EndWait, PressCtrlC, RequestShutdown, Heartbeat, RpcRequest,
     BackpressureMonitor, BeginOrExit
<1>2. /\ cycles = 0 /\ state # "Running"
      /\ \A i \in 1..Len(mailbox) : mailbox[i].kind # "BeginMonitoring"
  BY <1>1, Zenon DEF NotBegun
<1>3. ~HandleBeginMonitoring /\ ~Tick
  <2>1. ASSUME HandleBeginMonitoring PROVE FALSE
    <3>1. mailbox # << >> /\ Head(mailbox) = mailbox[1] /\ Head(mailbox).kind = "BeginMonitoring"
      BY <1>0, <2>1, Taken, Zenon DEF HandleBeginMonitoring
    <3>2. 1 \in 1..Len(mailbox)
      BY <1>0, <3>1, EmptyChannel
    <3> QED
      BY <1>2, <3>1, <3>2, Zenon
  <2> QED
    BY <1>2, <2>1, Zenon DEF Tick
<1>4. cycles' = cycles /\ (state' = "Running" => state = "Running")
  BY <1>3, Zenon DEF Next, vars, actorVars, countVars, ActorStep, MainStep, Boundary, HandleHealthCheck,
     HandleUpdateConfig, HandleGracefulShutdown, HandleAdjustInterval, CollectProcesses, Publish,
     CollectFails, FinishCycle, SendFails, FailCycle, ShutDownConnector, DropReceiver, Register, BeginAtOnce,
     SubscribeThenWait, EndMain, ExitMain, EndWait, PressCtrlC, RequestShutdown, Heartbeat, RpcRequest,
     BackpressureMonitor
<1>5. \A i \in 1..Len(mailbox') : mailbox'[i].kind # "BeginMonitoring"
  <2>1. CASE UNCHANGED mailbox
    BY <1>2, <2>1, Zenon
  <2>2. CASE mailbox' = << >>
    BY <2>2
  <2>3. ASSUME NEW k, Receive(k)
        PROVE  \A i \in 1..Len(mailbox') : mailbox'[i].kind # "BeginMonitoring"
    <3>1. mailbox' = Tail(mailbox) /\ mailbox # << >>
      BY <2>3, Zenon DEF Receive
    <3>2. /\ Len(Tail(mailbox)) = Len(mailbox) - 1 /\ Len(mailbox) \in Nat
          /\ \A i \in 1..Len(Tail(mailbox)) : Tail(mailbox)[i] = mailbox[i + 1]
      BY <1>0, <3>1, Received, ChannelIndices, Zenon
    <3> QED
      BY <1>2, <3>1, <3>2
  <2>4. ASSUME NEW m \in Message, m.kind # "BeginMonitoring", Post(m)
        PROVE  \A i \in 1..Len(mailbox') : mailbox'[i].kind # "BeginMonitoring"
    <3>1. /\ Len(Append(mailbox, m)) = Len(mailbox) + 1 /\ Len(mailbox) \in Nat
          /\ \A i \in 1..Len(mailbox) : Append(mailbox, m)[i] = mailbox[i]
          /\ Append(mailbox, m)[Len(mailbox) + 1] = m
      BY <1>0, Sent, ChannelIndices
    <3>2. CASE mailbox' = Append(mailbox, m)
      BY <1>2, <2>4, <3>1, <3>2
    <3> QED
      BY <2>1, <2>4, <3>2, Zenon DEF Post
  <2>5. CASE BeginAtOnce \/ EndWait
    <3>1. ~Accepts
      BY <2>5, <1>0, Zenon DEF BeginAtOnce, EndWait, BeginOrExit, Birth
    <3> QED
      BY <2>1, <2>5, <3>1, Zenon DEF BeginAtOnce, EndWait, BeginOrExit, Post
  <2>6. CASE RequestShutdown \/ Heartbeat \/ RpcRequest
    <3>1. \E m \in Posts : m.kind # "BeginMonitoring" /\ Post(m)
      BY <2>6 DEF RequestShutdown, Heartbeat, RpcRequest, Posts, Msg, RpcHealthCheck, RpcConfigUpdate,
         RpcShutdown
    <3> QED
      BY <2>4, <3>1, PostsTyped, Zenon
  <2>7. CASE BackpressureMonitor
    <3>1. Head(signals) \in {"Activated", "Released"}
      BY <1>0, <2>7, Received, Zenon DEF BackpressureMonitor, TypeOK
    <3>2. Msg("AdjustInterval", None, Adjusted(Head(signals))).kind # "BeginMonitoring"
      BY Zenon DEF Msg
    <3> QED
      BY <2>4, <2>7, <3>1, <3>2, PostsTyped, Zenon DEF BackpressureMonitor
  <2> QED
    BY <1>3, <2>1, <2>2, <2>3, <2>5, <2>6, <2>7, Zenon DEF Next, vars, actorVars, ActorStep, MainStep,
       Boundary, HandleHealthCheck, HandleUpdateConfig, HandleGracefulShutdown, HandleAdjustInterval,
       CollectProcesses, Publish, CollectFails, FinishCycle, SendFails, FailCycle, ShutDownConnector,
       DropReceiver, Register, SubscribeThenWait, EndMain, ExitMain, PressCtrlC
<1> QED
  BY <1>2, <1>4, <1>5, Zenon

\* procmond exits with an error only if it has never collected: the message to
\* begin, which it exits for when it cannot be sent, cannot kill a collector that
\* runs (begin_monitoring_or_exit).
THEOREM ErrorOnlyUnstarted == Spec => []FatalOnlyUnstarted
<1>1. Init => NotBegun
  BY EmptyChannel DEF Init, NotBegun
<1>2. NotBegun => FatalOnlyUnstarted
  BY Zenon DEF NotBegun, FatalOnlyUnstarted
<1> QED
  BY <1>1, <1>2, ActorInit, ActorNext, BegunNext, PTL DEF Spec

-----------------------------------------------------------------------------
(* Backpressure.                                                           *)

\* The latest signal is in the mailbox or has reached the actor.
Heeded == LastAsked(mailbox, Adjusted(level)) \/ (NoneAsked(mailbox) /\ Settled)

\* The top of the loop puts what is pending into force.
LEMMA PressureBoundary ==
  ASSUME ActorInv, Pressure, Boundary
  PROVE  Pressure'
<1>0. /\ TypeOK /\ level \in {"Activated", "Released"} /\ original = config
      /\ pendingConfig = 0 \/ pendingInterval = 0
      /\ Adjusted("Released") = CliInterval
  BY Zenon DEF ActorInv, TypeOK, Pressure, Adjusted
<1>1. /\ UNCHANGED <<mailbox, signals, level, lostSignal>> /\ pc = "boundary" /\ pc' = "select"
      /\ pendingConfig' = 0 /\ pendingInterval' = 0
      /\ config' = IF pendingConfig = 0 THEN config ELSE pendingConfig
      /\ original' = config'
      /\ current' = IF pendingInterval # 0 THEN pendingInterval
                    ELSE IF pendingConfig # 0 /\ pendingConfig # original THEN pendingConfig ELSE current
  BY <1>0, Zenon DEF Boundary, bpVars
<1>2. Settled => Settled'
  BY <1>0, <1>1 DEF Settled, Adjusted
<1>3. Heeded => Heeded'
  BY <1>1, <1>2, Zenon DEF Heeded, Adjusted
<1> QED
  BY <1>1, <1>3, Zenon DEF Pressure, Heeded, Ended

\* A step that changes neither the interval nor the channels.
LEMMA PressureSame ==
  ASSUME Pressure, UNCHANGED <<mailbox, signals, level, lostSignal, config, original, current>>,
         UNCHANGED <<pendingConfig, pendingInterval>>,
         Ended => Ended', pc = "boundary" => pc' = "boundary" \/ (pendingConfig = 0 /\ pendingInterval = 0)
  PROVE  Pressure'
<1>1. Heeded => Heeded'
  BY Zenon DEF Heeded, Settled, Adjusted
<1> QED
  BY <1>1, Zenon DEF Pressure, Heeded

\* Other messages pass the requests by.
LEMMA PressurePost ==
  ASSUME TypeOK, Pressure, NEW m \in Message, m.kind # "AdjustInterval", Post(m),
         UNCHANGED <<signals, level, lostSignal, config, original, current>>,
         UNCHANGED <<pendingConfig, pendingInterval>>,
         Ended => Ended', pc' = pc \/ (pc' = "boundary" /\ pendingConfig = 0 /\ pendingInterval = 0)
  PROVE  Pressure'
<1>1. mailbox \in Seq(Message)
  BY Zenon DEF TypeOK
<1>2. mailbox' = mailbox \/ mailbox' = Append(mailbox, m)
  BY Zenon DEF Post
<1>3. /\ NoneAsked(mailbox) => NoneAsked(mailbox')
      /\ \A v : LastAsked(mailbox, v) => LastAsked(mailbox', v)
  BY <1>1, <1>2, AskedAfterOther, Zenon
<1>4. Settled => Settled'
  BY Zenon DEF Settled, Adjusted
<1>5. Heeded => Heeded'
  BY <1>3, <1>4, Zenon DEF Heeded, Adjusted
<1> QED
  BY <1>5, Zenon DEF Pressure, Heeded

\* A message is taken by the actor.
LEMMA PressureReceive ==
  ASSUME ActorInv, Pressure,
         \/ HandleHealthCheck \/ HandleUpdateConfig \/ HandleBeginMonitoring \/ HandleAdjustInterval
  PROVE  Pressure'
<1>0. TypeOK /\ level \in {"Activated", "Released"} /\ mailbox \in Seq(Message)
  BY Zenon DEF ActorInv, TypeOK
<1>1. PICK k : Receive(k) /\ (k = "AdjustInterval" <=> HandleAdjustInterval)
  <2>1. CASE HandleAdjustInterval
    BY <2>1, Zenon DEF HandleAdjustInterval
  <2>2. CASE ~HandleAdjustInterval
    <3>1. Receive("HealthCheck") \/ Receive("UpdateConfig") \/ Receive("BeginMonitoring")
      BY <2>2, Zenon DEF HandleHealthCheck, HandleUpdateConfig, HandleBeginMonitoring
    <3>2. PICK k \in {"HealthCheck", "UpdateConfig", "BeginMonitoring"} : Receive(k)
      BY <3>1, Zenon
    <3>3. k # "AdjustInterval"
      BY <3>2, Zenon
    <3> QED
      BY <2>2, <3>2, <3>3, Zenon
  <2> QED
    BY <2>1, <2>2, Zenon
<1>2. /\ mailbox' = Tail(mailbox) /\ mailbox # << >> /\ pc = "select" /\ Head(mailbox).kind = k
  BY <1>1, Zenon DEF Receive
<1>3. /\ UNCHANGED <<signals, level, lostSignal, config, original, current>> /\ pc' = "boundary"
      /\ pendingConfig = 0 /\ pendingInterval = 0
      /\ pendingInterval' = IF HandleAdjustInterval THEN Head(mailbox).val ELSE 0
      /\ pendingConfig' = 0 \/ pendingInterval' = 0
  BY <1>2, Zenon DEF HandleHealthCheck, HandleUpdateConfig, HandleBeginMonitoring,
     HandleAdjustInterval, bpVars, Pressure
<1>4. /\ NoneAsked(mailbox) => NoneAsked(mailbox') /\ Head(mailbox).kind # "AdjustInterval"
      /\ \A v : LastAsked(mailbox, v) =>
           \/ LastAsked(mailbox', v)
           \/ NoneAsked(mailbox') /\ Head(mailbox).kind = "AdjustInterval" /\ Head(mailbox).val = v
  BY <1>0, <1>2, AskedAfterReceive, Zenon
<1>5. Adjusted(level) # 0 /\ Adjusted(level)' = Adjusted(level)
  <2>1. Adjusted(level) # 0
    BY <1>0, PostsTyped, Zenon
  <2> QED
    BY <1>3, <2>1, Zenon DEF Adjusted
<1>6. ASSUME LastAsked(mailbox, Adjusted(level)) PROVE Heeded'
  <2>1. CASE LastAsked(mailbox', Adjusted(level))
    BY <1>5, <2>1, Zenon DEF Heeded
  <2>2. CASE /\ NoneAsked(mailbox') /\ Head(mailbox).kind = "AdjustInterval"
             /\ Head(mailbox).val = Adjusted(level)
    <3>1. pendingInterval' = Adjusted(level)
      BY <1>1, <1>2, <1>3, <2>2, Zenon
    <3> QED
      BY <1>5, <2>2, <3>1, Zenon DEF Heeded, Settled
  <2> QED
    BY <1>4, <1>6, <2>1, <2>2, Zenon
<1>7. ASSUME NoneAsked(mailbox), Settled PROVE Heeded'
  <2>1. NoneAsked(mailbox') /\ ~HandleAdjustInterval
    BY <1>1, <1>2, <1>4, <1>7, Zenon
  <2>2. Settled'
    BY <1>3, <1>7, <2>1, Zenon DEF Settled, Adjusted
  <2> QED
    BY <2>1, <2>2, Zenon DEF Heeded
<1>8. ~Ended
  BY <1>2, Zenon DEF Ended
<1>9. ~lostSignal' /\ signals' = << >> => Heeded'
  <2> SUFFICES ASSUME ~lostSignal', signals' = << >> PROVE Heeded'
    BY Zenon
  <2>1. LastAsked(mailbox, Adjusted(level)) \/ (NoneAsked(mailbox) /\ Settled)
    BY <1>3, <1>8, Zenon DEF Pressure
  <2> QED
    BY <1>6, <1>7, <2>1, Zenon
<1> QED
  BY <1>3, <1>9, Zenon DEF Pressure, Heeded

\* A signal is passed on to the mailbox.
LEMMA PressurePassed ==
  ASSUME ActorInv, Pressure, BackpressureMonitor
  PROVE  Pressure'
<1>0. TypeOK /\ mailbox \in Seq(Message) /\ signals \in Seq({"Activated", "Released"})
  BY Zenon DEF ActorInv, TypeOK
<1>1. /\ UNCHANGED <<level, config, original, current, pendingConfig, pendingInterval, pc>>
      /\ signals # << >> /\ signals' = Tail(signals)
      /\ lostSignal' = (lostSignal \/ ~Accepts)
      /\ Post(Msg("AdjustInterval", None, Adjusted(Head(signals))))
  BY Zenon DEF BackpressureMonitor, actorVars
<1>2. /\ Len(signals) \in Nat \ {0} /\ Len(signals') = Len(signals) - 1 /\ Head(signals) = signals[1]
      /\ Head(signals) \in {"Activated", "Released"}
      /\ signals' \in Seq({"Activated", "Released"})
      /\ \A i \in 1..Len(signals') : signals'[i] = signals[i + 1]
  BY <1>0, <1>1, Received, EmptyChannel
<1>3. ASSUME ~lostSignal', signals' # << >> PROVE signals'[Len(signals')] = level'
  <2>1. Len(signals') \in Nat \ {0}
    BY <1>2, <1>3, EmptyChannel
  <2>2. signals'[Len(signals')] = signals[Len(signals)]
    BY <1>2, <2>1
  <2> QED
    BY <1>1, <1>3, <2>2, Zenon DEF Pressure
<1>4. ASSUME ~lostSignal', signals' = << >> PROVE Heeded'
  <2>1. Len(signals) = 1
    BY <1>2, <1>4
  <2>2. Head(signals) = level
    BY <1>1, <1>2, <1>4, <2>1, Zenon DEF Pressure
  <2> DEFINE m == Msg("AdjustInterval", None, Adjusted(level))
  <2>3. m \in Message /\ m.kind = "AdjustInterval" /\ m.val = Adjusted(level)
    <3>1. m \in Message
      BY <1>2, <2>2, PostsTyped, Zenon
    <3> QED
      BY <3>1, Zenon DEF Msg
  <2>4. mailbox' = Append(mailbox, m)
    BY <1>1, <1>4, <2>2, Zenon DEF Post
  <2> HIDE DEF m
  <2>5. LastAsked(mailbox', Adjusted(level))
    BY <1>0, <2>3, <2>4, AskedAfterAsking
  <2> QED
    BY <1>1, <2>5, Zenon DEF Heeded, Adjusted
<1> QED
  BY <1>1, <1>3, <1>4, Zenon DEF Pressure, Heeded

\* The connector signals while an event is published.
LEMMA PressureSignal ==
  ASSUME ActorInv, Pressure, NEW ok \in BOOLEAN, Publish(ok)
  PROVE  Pressure'
<1>0. TypeOK /\ signals \in Seq({"Activated", "Released"}) /\ level \in {"Activated", "Released"}
  BY Zenon DEF ActorInv, TypeOK
<1>1. /\ UNCHANGED <<mailbox, config, original, current, pendingConfig, pendingInterval, pc>>
      /\ Signal
  BY Zenon DEF Publish, actorVars
<1>2. CASE UNCHANGED bpVars
  BY <1>1, <1>2, PressureSame, Zenon DEF bpVars, Ended
<1>3. CASE ~UNCHANGED bpVars
  <2>1. /\ level' \in {"Activated", "Released"}
        /\ signals' = IF Len(signals) < SignalCapacity THEN Append(signals, level') ELSE signals
        /\ lostSignal' = (lostSignal \/ Len(signals) >= SignalCapacity)
    BY <1>0, <1>1, <1>3, Zenon DEF Signal
  <2>2. CASE lostSignal'
    BY <1>1, <2>2, Zenon DEF Pressure
  <2>3. CASE ~lostSignal'
    <3>1. Len(signals) \in Nat /\ SignalCapacity \in Nat
      BY <1>0, MonitorAssumption, ChannelIndices
    <3>2. signals' = Append(signals, level')
      <4>1. ~(Len(signals) >= SignalCapacity)
        BY <2>1, <2>3, Zenon
      <4>2. Len(signals) < SignalCapacity
        BY <3>1, <4>1
      <4> QED
        BY <2>1, <4>2, Zenon
    <3>3. /\ Len(signals') = Len(signals) + 1 /\ signals'[Len(signals) + 1] = level'
          /\ signals' \in Seq({"Activated", "Released"})
      BY <1>0, <2>1, <3>2, Sent
    <3>4. signals' # << >> /\ signals'[Len(signals')] = level'
      BY <3>1, <3>3
    <3> QED
      BY <1>1, <3>4, Zenon DEF Pressure
  <2> QED
    BY <2>2, <2>3, Zenon
<1> QED
  BY <1>2, <1>3, Zenon

LEMMA PressureNext == ActorInv /\ Pressure /\ [Next]_vars => Pressure'
<1> SUFFICES ASSUME ActorInv, Pressure, [Next]_vars PROVE Pressure'
  BY Zenon
<1>0. TypeOK /\ Birth
  BY Zenon DEF ActorInv
<1>1. CASE UNCHANGED vars
  BY <1>1, PressureSame, Zenon DEF vars, actorVars, bpVars, Ended
<1>2. CASE Register \/ SubscribeThenWait \/ EndMain \/ ExitMain \/ PressCtrlC
  <2>1. /\ UNCHANGED <<mailbox, signals, level, lostSignal, config, original, current>>
        /\ UNCHANGED <<pendingConfig, pendingInterval>>
        /\ pc' = pc \/ (pc' = "boundary" /\ main = "subscribe")
    BY <1>2, Zenon DEF Register, SubscribeThenWait, EndMain, ExitMain, PressCtrlC, actorVars, bpVars
  <2>2. Ended => Ended'
    BY <1>0, <2>1, Zenon DEF Birth, Ended
  <2> QED
    BY <2>1, <2>2, PressureSame, Zenon
<1>3. CASE BeginAtOnce \/ EndWait \/ RequestShutdown \/ Heartbeat \/ RpcRequest
  <2>1. PICK m \in Posts : Post(m)
    BY <1>3, Zenon DEF BeginAtOnce, EndWait, RequestShutdown, Heartbeat, RpcRequest, BeginOrExit, Posts,
       RpcHealthCheck
  <2>2. /\ UNCHANGED <<signals, level, lostSignal, config, original, current>>
        /\ UNCHANGED <<pendingConfig, pendingInterval>>
        /\ pc' = pc \/ (pc' = "boundary" /\ main = "subscribe")
    BY <1>3, Zenon DEF BeginAtOnce, EndWait, RequestShutdown, Heartbeat, RpcRequest, actorVars, bpVars
  <2>3. /\ Ended => Ended'
        /\ pc' = pc \/ (pc' = "boundary" /\ pendingConfig = 0 /\ pendingInterval = 0)
    BY <1>0, <2>2, Zenon DEF Birth, Ended, Pressure
  <2> QED
    BY <1>0, <2>1, <2>2, <2>3, PostsTyped, PressurePost, Zenon
<1>4. CASE Tick \/ CollectFails \/ CollectProcesses \/ FinishCycle \/ SendFails \/ ShutDownConnector
  <2>1. /\ UNCHANGED <<mailbox, signals, level, lostSignal, config, original, current>>
        /\ UNCHANGED <<pendingConfig, pendingInterval>> /\ pc # "boundary"
        /\ Ended => pc' = "reply"
    BY <1>4, Zenon DEF Tick, CollectFails, CollectProcesses, FinishCycle, SendFails, FailCycle,
       ShutDownConnector, bpVars, Ended
  <2> QED
    BY <2>1, PressureSame, Zenon DEF Ended
<1>5. CASE HandleGracefulShutdown \/ DropReceiver
  <2>1. /\ UNCHANGED <<signals, level, lostSignal, config, original, pendingConfig, pendingInterval>>
        /\ pc # "boundary" /\ Ended'
    BY <1>5, Zenon DEF HandleGracefulShutdown, DropReceiver, Receive, bpVars, Ended
  <2> QED
    BY <2>1, Zenon DEF Pressure
<1> QED
  BY <1>1, <1>2, <1>3, <1>4, <1>5, PressureBoundary, PressureReceive, PressurePassed, PressureSignal, Zenon
  DEF Next, ActorStep, MainStep

\* Once every signal has been worked off and none was lost, the interval is the
\* one for the level of pressure, for any capacities, intervals and order of
\* signals, messages and configuration updates (run, spawn_backpressure_monitor).
THEOREM IntervalHeedsPressure == Spec => []IntervalFollowsPressure
<1>1. Init => Pressure
  <2> SUFFICES ASSUME Init PROVE Pressure
    BY Zenon
  <2>1. NoneAsked(mailbox)
    BY EmptyChannel DEF Init, NoneAsked
  <2> QED
    BY <2>1, Zenon DEF Init, Pressure, Settled
<1>2. ActorInv /\ Pressure => IntervalFollowsPressure
  <2> SUFFICES ASSUME ActorInv, Pressure, pc = "select", mailbox = << >>, signals = << >>, ~lostSignal
               PROVE  IF level = "Released" THEN config = CliInterval => current = CliInterval
                      ELSE current \in {Adjusted("Activated"), original}
    BY Zenon DEF IntervalFollowsPressure
  <2>1. ~LastAsked(mailbox, Adjusted(level))
    BY EmptyChannel DEF LastAsked
  <2> QED
    BY <2>1, Zenon DEF Pressure, Settled, Ended
<1> QED
  BY <1>1, <1>2, ActorInit, ActorNext, PressureNext, PTL DEF Spec
=============================================================================
