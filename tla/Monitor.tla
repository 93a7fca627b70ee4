------------------------------ MODULE Monitor ------------------------------
(***************************************************************************)
(* procmond in actor mode: the collector actor and its mailbox             *)
(* (procmond/src/monitor_collector.rs), the tasks that post to it (the     *)
(* wait for BeginMonitoring, the backpressure monitor, heartbeats, RPC,    *)
(* Ctrl+C), and the start-up and the end of the process                    *)
(* (procmond/src/main.rs).                                                 *)
(***************************************************************************)
EXTENDS Lifecycle, Sequences, FiniteSets

CONSTANTS
    Pids,
    Images,         \* what a process can look like, the start time aside
    Capacity,       \* ACTOR_CHANNEL_CAPACITY
    SignalCapacity, \* capacity of the backpressure channel
    MaxFailures,    \* MAX_CONSECUTIVE_FAILURES
    CliInterval,    \* --interval, in seconds
    Intervals,      \* the intervals a configuration update may ask for
    MaxInterval,    \* one hour
    MaxCycles,      \* bound: collection cycles
    MaxRequests     \* bound: RPC requests and heartbeats

(* parse_interval admits no interval above the hour, and validate() none   *)
(* below a second.                                                         *)
ASSUME MonitorAssumption ==
    /\ Capacity \in Nat /\ SignalCapacity \in Nat
    /\ MaxFailures \in Nat \ {0}
    /\ MaxInterval \in Nat /\ CliInterval \in 1..MaxInterval
    /\ Intervals \subseteq Nat \ {0}
    /\ MaxCycles \in Nat /\ MaxRequests \in Nat

VARIABLES
    mailbox, pc, state,
    config,          \* config.base_config.collection_interval
    pendingConfig,   \* 0 when None
    pendingInterval, \* 0 when None
    original, current, failures,
    reply,           \* who waits in pending_shutdown_response
    connectorOpen,   \* the actor's connector has not been shut down
    registration,    \* RegistrationState
    main,            \* where main() stands
    waitTask,        \* the lifecycle wait task
    ctrlC,           \* the shutdown task
    signals,         \* the backpressure channel
    level,           \* the signal the connector sent last
    cycles, requests,
    tracked,         \* current_snapshots
    first,           \* last_update is still None
    outbox,          \* events of this cycle still to be published
    stale,           \* history: tracked pids the bus knows otherwise, or not at all
    excused,         \* history: those of them that need not be published
    lostSignal       \* history: a signal or an AdjustInterval found its channel full

actorVars == <<pc, state, config, pendingConfig, pendingInterval, original, current,
               failures, reply, connectorOpen>>
taskVars == <<registration, main, waitTask, ctrlC>>
bpVars == <<signals, level, lostSignal>>
trackVars == <<tracked, first, outbox, stale, excused>>
countVars == <<cycles, requests>>
vars == <<mailbox, actorVars, taskVars, bpVars, trackVars, countVars>>

None == "none"
States == {"WaitingForAgent", "Running", "ShuttingDown", "Stopped"}
Kinds == {"HealthCheck", "UpdateConfig", "GracefulShutdown", "BeginMonitoring", "AdjustInterval"}
Message == [kind : Kinds, from : {None, "rpc", "ctrlC"}, val : Nat]
Msg(k, f, v) == [kind |-> k, from |-> f, val |-> v]

(* The identity of a process, which every published event carries.         *)
Identity(s) == [name |-> s.name, exe |-> s.exe, args |-> s.args, user |-> s.user, start |-> s.start]

(* Every variable keeps its type; the mailbox and the signal channel stay  *)
(* within their capacities, the interval is never zero, and the count of   *)
(* consecutive failures never passes the point where the actor gives up.   *)
TypeOK ==
    /\ mailbox \in Seq(Message) /\ Len(mailbox) <= Capacity
    /\ pc \in {"unborn", "boundary", "select", "collect", "publish", "final", "reply", "done"}
    /\ state \in States
    /\ config \in Nat \ {0} /\ pendingConfig \in Nat /\ pendingInterval \in Nat
    /\ original \in Nat \ {0} /\ current \in Nat \ {0}
    /\ failures \in 0..MaxFailures
    /\ reply \in {None, "rpc", "ctrlC"}
    /\ connectorOpen \in BOOLEAN
    /\ registration \in {"Unregistered", "Registered", "Failed"}
    /\ main \in {"register", "subscribe", "select", "ending", "clean", "fatal"}
    /\ waitTask \in {"none", "waiting", "done"}
    /\ ctrlC \in {"armed", "hit", "waiting", "ok", "failed"}
    /\ signals \in Seq({"Activated", "Released"}) /\ Len(signals) <= SignalCapacity
    /\ level \in {"Activated", "Released"}
    /\ cycles \in Nat /\ requests \in Nat
    /\ DOMAIN tracked \subseteq Pids /\ stale \cup excused \subseteq DOMAIN tracked
    /\ first \in BOOLEAN /\ lostSignal \in BOOLEAN

Init ==
    /\ mailbox = <<>> /\ pc = "unborn" /\ state = "WaitingForAgent"
    /\ config = CliInterval /\ original = CliInterval /\ current = CliInterval
    /\ pendingConfig = 0 /\ pendingInterval = 0 /\ failures = 0
    /\ reply = None /\ connectorOpen = TRUE
    /\ registration = "Unregistered" /\ main = "register" /\ waitTask = "none" /\ ctrlC = "armed"
    /\ signals = <<>> /\ level = "Released" /\ lostSignal = FALSE
    /\ cycles = 0 /\ requests = 0
    /\ tracked = [p \in {} |-> 0] /\ first = TRUE /\ outbox = {}
    /\ stale = {} /\ excused = {}

----------------------------------------------------------------------------
(* ActorHandle: every method is a try_send.                                *)

Alive == main \notin {"clean", "fatal"}
Closed == pc = "done"

Accepts == ~Closed /\ Len(mailbox) < Capacity
Post(m) == mailbox' = IF Accepts THEN Append(mailbox, m) ELSE mailbox

(* Mutant: a failed send is only logged.                                   *)
BeginOrLog ==
    /\ Post(Msg("BeginMonitoring", None, 0))
    /\ main' = IF main = "subscribe" THEN "select" ELSE main

(* begin_monitoring_or_exit; main is the place main() goes on from.        *)
BeginOrExit ==
    /\ Post(Msg("BeginMonitoring", None, 0))
    /\ main' = IF ~Accepts THEN "fatal" ELSE IF main = "subscribe" THEN "select" ELSE main

----------------------------------------------------------------------------
(* main(): registration, subscription, and the tasks it spawns.            *)

(* register(): accepted, or every retry failed.                            *)
Register ==
    /\ main = "register"
    /\ registration' \in {"Registered", "Failed"}
    /\ main' = "subscribe"
    /\ UNCHANGED <<mailbox, actorVars, waitTask, ctrlC, bpVars, trackVars, countVars>>

(* Standalone mode (chosen, or forced by a failed registration) and a      *)
(* failed subscription begin at once; the actor is spawned after that.     *)
BeginAtOnce ==
    /\ main = "subscribe"
    /\ BeginOrExit
    /\ pc' = "boundary"
    /\ UNCHANGED <<state, config, pendingConfig, pendingInterval, original, current, failures,
                   reply, connectorOpen, registration, waitTask, ctrlC, bpVars, trackVars, countVars>>

SubscribeThenWait ==
    /\ main = "subscribe" /\ registration = "Registered"
    /\ main' = "select" /\ waitTask' = "waiting" /\ pc' = "boundary"
    /\ UNCHANGED <<mailbox, state, config, pendingConfig, pendingInterval, original, current,
                   failures, reply, connectorOpen, registration, ctrlC, bpVars, trackVars, countVars>>

(* The lifecycle wait task: the agent's message, a closed channel and the  *)
(* deadline all end the wait in the same call.                             *)
EndWait ==
    /\ main = "select" /\ waitTask = "waiting"
    /\ BeginOrExit
    /\ waitTask' = "done"
    /\ UNCHANGED <<actorVars, registration, ctrlC, bpVars, trackVars, countVars>>

(* The shutdown task.                                                      *)
PressCtrlC ==
    /\ main \in {"subscribe", "select"} /\ ctrlC = "armed"
    /\ ctrlC' = "hit"
    /\ UNCHANGED <<mailbox, actorVars, registration, main, waitTask, bpVars, trackVars, countVars>>

(* deregister() only when registered, then graceful_shutdown(); the task   *)
(* ends at once when the mailbox is full or closed.                        *)
RequestShutdown ==
    /\ main \in {"subscribe", "select"} /\ ctrlC = "hit"
    /\ registration' = IF registration = "Registered" THEN "Unregistered" ELSE registration
    /\ Post(Msg("GracefulShutdown", "ctrlC", 0))
    /\ ctrlC' = IF Accepts THEN "waiting" ELSE "failed"
    /\ UNCHANGED <<actorVars, main, waitTask, bpVars, trackVars, countVars>>

(* Mutant: main() joins the two tasks instead of racing them.              *)
EndMainJoins ==
    /\ main = "select"
    /\ pc = "done" /\ ctrlC \in {"ok", "failed"}
    /\ main' = "ending"
    /\ UNCHANGED <<mailbox, actorVars, registration, waitTask, ctrlC, bpVars, trackVars, countVars>>

(* The select! of main(), and the abort of the other tasks.                *)
EndMain ==
    /\ main = "select"
    /\ pc = "done" \/ ctrlC \in {"ok", "failed"}
    /\ main' = "ending"
    /\ UNCHANGED <<mailbox, actorVars, registration, waitTask, ctrlC, bpVars, trackVars, countVars>>

(* The consumer of the events ends with the actor, or after five seconds.  *)
ExitMain ==
    /\ main = "ending"
    /\ main' = "clean"
    /\ UNCHANGED <<mailbox, actorVars, registration, waitTask, ctrlC, bpVars, trackVars, countVars>>

----------------------------------------------------------------------------
(* The other senders.                                                      *)

(* A heartbeat, once spawned, asks for the health while registered.        *)
Heartbeat ==
    /\ main = "select" /\ registration = "Registered" /\ requests < MaxRequests
    /\ Post(Msg("HealthCheck", None, 0))
    /\ requests' = requests + 1
    /\ UNCHANGED <<actorVars, taskVars, bpVars, trackVars, cycles>>

(* What the RPC handlers forward.  build_config_from_changes starts from   *)
(* the defaults, so a request that names no interval asks for the default  *)
(* one; a zero interval stands for one validate() will refuse.             *)
RpcHealthCheck == {Msg("HealthCheck", None, 0)}
RpcConfigUpdate == {Msg("UpdateConfig", "rpc", i) : i \in Intervals \cup {0}}
RpcShutdown == {Msg("GracefulShutdown", "rpc", 0)}

(* RpcServiceHandler::handle_request.  An expired deadline, validate_only  *)
(* and a malformed or unsupported request never reach the actor; a timeout *)
(* of the handler leaves its message in the mailbox.                       *)
RpcRequest ==
    /\ main \in {"subscribe", "select", "ending"} /\ requests < MaxRequests
    /\ \E m \in RpcHealthCheck \cup RpcConfigUpdate \cup RpcShutdown : Post(m)
    /\ requests' = requests + 1
    /\ UNCHANGED <<actorVars, taskVars, bpVars, trackVars, cycles>>

(* Mutant: a released signal does not give the interval back.              *)
AdjustUpOnly(signal) == LET s == (CliInterval * 3) \div 2 IN IF s > MaxInterval THEN MaxInterval ELSE s

(* The interval asked for on a signal: half as long again, at most an      *)
(* hour, or the interval given on the command line.                        *)
Adjusted(signal) ==
    LET scaled == (CliInterval * 3) \div 2
    IN IF signal = "Released" THEN CliInterval
       ELSE IF scaled > MaxInterval THEN MaxInterval ELSE scaled

(* spawn_backpressure_monitor: a failed send is only logged.               *)
BackpressureMonitor ==
    /\ main = "select" /\ signals # <<>>
    /\ Post(Msg("AdjustInterval", None, Adjusted(Head(signals))))
    /\ lostSignal' = (lostSignal \/ ~Accepts)
    /\ signals' = Tail(signals)
    /\ UNCHANGED <<actorVars, taskVars, level, trackVars, countVars>>

----------------------------------------------------------------------------
(* The actor: run(), one loop iteration at a time.                         *)

(* The top of the loop: a pending configuration, then a pending interval.  *)
Boundary ==
    /\ pc = "boundary"
    /\ LET new == IF pendingConfig = 0 THEN config ELSE pendingConfig
           moved == pendingConfig # 0 /\ new # original
       IN /\ config' = new
          /\ original' = IF moved THEN new ELSE original
          /\ current' = IF pendingInterval # 0 THEN pendingInterval
                        ELSE IF moved THEN new ELSE current
    /\ pendingConfig' = 0 /\ pendingInterval' = 0
    /\ pc' = "select"
    /\ UNCHANGED <<mailbox, state, failures, reply, connectorOpen, taskVars, bpVars, trackVars, countVars>>

(* select! is biased: a message is taken before a tick.                    *)
Receive(kind) ==
    /\ pc = "select" /\ mailbox # <<>> /\ Head(mailbox).kind = kind
    /\ mailbox' = Tail(mailbox)

HandleHealthCheck ==
    /\ Receive("HealthCheck")
    /\ pc' = "boundary"
    /\ UNCHANGED <<state, config, pendingConfig, pendingInterval, original, current, failures,
                   reply, connectorOpen, taskVars, bpVars, trackVars, countVars>>

(* A valid configuration waits for the next boundary; a later one replaces *)
(* it.                                                                     *)
HandleUpdateConfig ==
    /\ Receive("UpdateConfig")
    /\ pendingConfig' = IF Head(mailbox).val = 0 THEN pendingConfig ELSE Head(mailbox).val
    /\ pc' = "boundary"
    /\ UNCHANGED <<state, config, pendingInterval, original, current, failures, reply,
                   connectorOpen, taskVars, bpVars, trackVars, countVars>>

(* Mutant: the caller is answered when the request is taken.               *)
AnswerThenShutDown ==
    /\ Receive("GracefulShutdown")
    /\ state' = "ShuttingDown"
    /\ reply' = None
    /\ ctrlC' = IF Head(mailbox).from = "ctrlC" THEN "ok" ELSE ctrlC
    /\ pc' = "final"
    /\ UNCHANGED <<config, pendingConfig, pendingInterval, original, current, failures, connectorOpen,
                   registration, main, waitTask, bpVars, trackVars, countVars>>

(* The loop ends here; the caller is answered at the very end of run().    *)
HandleGracefulShutdown ==
    /\ Receive("GracefulShutdown")
    /\ state' = "ShuttingDown"
    /\ reply' = Head(mailbox).from
    /\ pc' = "final"
    /\ UNCHANGED <<config, pendingConfig, pendingInterval, original, current, failures,
                   connectorOpen, taskVars, bpVars, trackVars, countVars>>

HandleBeginMonitoring ==
    /\ Receive("BeginMonitoring")
    /\ state' = IF state = "WaitingForAgent" THEN "Running" ELSE state
    /\ pc' = "boundary"
    /\ UNCHANGED <<config, pendingConfig, pendingInterval, original, current, failures, reply,
                   connectorOpen, taskVars, bpVars, trackVars, countVars>>

HandleAdjustInterval ==
    /\ Receive("AdjustInterval")
    /\ pendingInterval' = Head(mailbox).val
    /\ pc' = "boundary"
    /\ UNCHANGED <<state, config, pendingConfig, original, current, failures, reply,
                   connectorOpen, taskVars, bpVars, trackVars, countVars>>

Tick ==
    /\ pc = "select" /\ mailbox = <<>> /\ state = "Running" /\ cycles < MaxCycles
    /\ pc' = "collect" /\ cycles' = cycles + 1
    /\ UNCHANGED <<mailbox, state, config, pendingConfig, pendingInterval, original, current,
                   failures, reply, connectorOpen, taskVars, bpVars, trackVars, requests>>

(* A failed cycle backs off, or stops the actor when it is one too many.   *)
FailCycle ==
    /\ failures' = failures + 1
    /\ IF failures + 1 >= MaxFailures
       THEN pc' = "final" /\ state' = "Stopped"
       ELSE pc' = "boundary" /\ UNCHANGED state
    /\ UNCHANGED <<mailbox, config, pendingConfig, pendingInterval, original, current, reply,
                   connectorOpen, taskVars, countVars>>

(* The enumeration fails or times out.                                     *)
CollectFails ==
    /\ pc = "collect"
    /\ FailCycle
    /\ UNCHANGED <<bpVars, trackVars>>

(* The time of the enumeration of a cycle: two ticks pass between two, so  *)
(* a process met for the first time started now or one tick ago.           *)
Now == 2 * cycles

(* The tables the host can show: what ran may be gone, may go on, perhaps  *)
(* with a new image, or may have left its pid to a new process.            *)
Tables ==
    LET starts(p) == {Now - 1, Now} \cup (IF p \in DOMAIN tracked THEN {tracked[p].start} ELSE {})
    IN UNION {{t \in [ps -> {Snapshot(i, n, Now) : i \in Images, n \in 0..Now}] :
                  \A p \in ps : t[p].start \in starts(p)} : ps \in SUBSET Pids}

(* update_and_detect_changes.  The first enumeration only sets the         *)
(* baseline, and a process too young when it is met is passed over.        *)
Track(snap, now) ==
    /\ outbox' = IF first THEN {} ELSE ToPublish(tracked, snap, now)
    /\ tracked' = snap
    /\ first' = FALSE
    /\ LET same(p) == p \in DOMAIN tracked /\ Identity(snap[p]) = Identity(tracked[p])
       IN /\ stale' = {p \in DOMAIN snap : same(p) => p \in stale}
          /\ excused' = {p \in DOMAIN snap : 
                            \/ first
                            \/ same(p) /\ p \in excused
                            \/ p \notin DOMAIN tracked /\ ~ValidStart(snap[p])}

CollectProcesses ==
    /\ pc = "collect"
    /\ \E snap \in Tables : Track(snap, Now)
    /\ pc' = "publish"
    /\ UNCHANGED <<mailbox, state, config, pendingConfig, pendingInterval, original, current,
                   failures, reply, connectorOpen, taskVars, bpVars, countVars>>

(* The connector crosses a water mark while it publishes.                  *)
Signal ==
    \/ UNCHANGED bpVars
    \/ /\ level' = IF level = "Released" THEN "Activated" ELSE "Released"
       /\ signals' = IF Len(signals) < SignalCapacity THEN Append(signals, level') ELSE signals
       /\ lostSignal' = (lostSignal \/ Len(signals) >= SignalCapacity)

(* publish() of one event; an error is logged and the event is given up.   *)
Publish(ok) ==
    /\ pc = "publish"
    /\ \E e \in outbox :
        /\ outbox' = outbox \ {e}
        /\ stale' = IF ok THEN stale \ {e.pid} ELSE stale
        /\ excused' = IF ok THEN excused \ {e.pid} ELSE excused \cup {e.pid}
    /\ Signal
    /\ UNCHANGED <<mailbox, actorVars, taskVars, tracked, first, countVars>>

(* Every event has been sent down the event channel, or one send failed.   *)
FinishCycle ==
    /\ pc = "publish" /\ outbox = {}
    /\ failures' = 0
    /\ pc' = "boundary"
    /\ UNCHANGED <<mailbox, state, config, pendingConfig, pendingInterval, original, current,
                   reply, connectorOpen, taskVars, bpVars, trackVars, countVars>>

SendFails ==
    /\ pc = "publish" /\ outbox = {}
    /\ FailCycle
    /\ UNCHANGED <<bpVars, trackVars>>

(* After the loop: the connector is shut down, then the caller is answered *)
(* and the receiver is dropped with whatever it still holds.               *)
ShutDownConnector ==
    /\ pc = "final"
    /\ state' = "Stopped" /\ connectorOpen' = FALSE
    /\ pc' = "reply"
    /\ UNCHANGED <<mailbox, config, pendingConfig, pendingInterval, original, current, failures,
                   reply, taskVars, bpVars, trackVars, countVars>>

DropReceiver ==
    /\ pc = "reply"
    /\ ctrlC' = IF reply = "ctrlC" THEN "ok"
                ELSE IF ctrlC = "waiting" THEN "failed" ELSE ctrlC
    /\ reply' = None
    /\ mailbox' = <<>>
    /\ pc' = "done"
    /\ UNCHANGED <<state, config, pendingConfig, pendingInterval, original, current, failures,
                   connectorOpen, registration, main, waitTask, bpVars, trackVars, countVars>>

----------------------------------------------------------------------------

ActorStep ==
    \/ Boundary
    \/ HandleHealthCheck
    \/ HandleUpdateConfig
    \/ HandleGracefulShutdown
    \/ HandleBeginMonitoring
    \/ HandleAdjustInterval
    \/ Tick
    \/ CollectFails
    \/ CollectProcesses
    \/ \E ok \in BOOLEAN : Publish(ok)
    \/ FinishCycle
    \/ SendFails
    \/ ShutDownConnector
    \/ DropReceiver

MainStep == Register \/ BeginAtOnce \/ SubscribeThenWait \/ EndMain \/ ExitMain

Next ==
    /\ Alive
    /\ \/ ActorStep
       \/ MainStep
       \/ EndWait
       \/ PressCtrlC
       \/ RequestShutdown
       \/ Heartbeat
       \/ RpcRequest
       \/ BackpressureMonitor

(* The runtime keeps polling a task that can go on, the wait has a         *)
(* deadline, and the calls of a cycle and of the shutdown have timeouts.   *)
Fairness ==
    /\ WF_vars(Alive /\ ActorStep)
    /\ WF_vars(Alive /\ MainStep)
    /\ WF_vars(Alive /\ EndWait)
    /\ WF_vars(Alive /\ RequestShutdown)

Spec == Init /\ [][Next]_vars /\ Fairness

----------------------------------------------------------------------------
(* Properties.                                                             *)

(* What the bus last heard of a process is what the tracker now holds: no  *)
(* start, change of image or reuse of a pid between two enumerations goes  *)
(* unpublished, except the baseline of the first cycle, a process too      *)
(* young at its first sight, and an event the connector refused            *)
(* (update_and_detect_changes with the publishing loop).  The tracker has  *)
(* to look for reused pids and changed command lines, as it does unless    *)
(* configured otherwise.                                                   *)
ViewCurrent ==
    Tracking.reuse /\ Tracking.args => stale \subseteq excused \cup {e.pid : e \in outbox}

(* Every process gone since the last enumeration is handed to the          *)
(* connector as a Stop event (collect_and_analyze_internal).               *)
StopsPublished ==
    [][pc = "collect" /\ pc' = "publish" =>
        \A p \in DOMAIN tracked \ DOMAIN tracked' : [pid |-> p, type |-> "Stop"] \in outbox']_vars

(* The interval the actor calls original is always the configured one,     *)
(* however backpressure and configuration updates interleave (run()).      *)
OriginalIsConfigured == original = config

(* Once every signal has been worked off and none was lost, a released     *)
(* backpressure has given back the interval of the command line, if that   *)
(* is the configured one, and an active one has slowed collection down or  *)
(* has been overruled by a later configuration.                            *)
IntervalFollowsPressure ==
    pc = "select" /\ mailbox = <<>> /\ signals = <<>> /\ ~lostSignal =>
        IF level = "Released" THEN config = CliInterval => current = CliInterval
        ELSE current \in {Adjusted("Activated"), original}

(* A successful answer to the shutdown task means the connector has been   *)
(* shut down and no event of a cycle was left behind.                      *)
OkMeansFlushed == ctrlC = "ok" => ~connectorOpen /\ state = "Stopped" /\ outbox = {}

(* The process exits with an error only if it never collected: a signal    *)
(* to begin cannot kill a collector that runs (begin_monitoring_or_exit).  *)
FatalOnlyUnstarted == main = "fatal" => cycles = 0 /\ state # "Running"

(* procmond does not stay in WaitingForAgent: whatever happens to the      *)
(* agent's broadcast it starts, stops or exits.                            *)
NoZombie == <>(state # "WaitingForAgent" \/ ~Alive)

(* Ctrl+C ends the process, also when the mailbox is full, the actor has   *)
(* stopped on its own or an RPC shutdown came first.                       *)
CtrlCExits == ctrlC = "hit" ~> ~Alive
=============================================================================
