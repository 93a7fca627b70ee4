----------------------------- MODULE AgentStartup -----------------------------
(***************************************************************************)
(* The agent's start-up, the registration of collectors it waits for, and  *)
(* its shutdown.                                                           *)
(*                                                                         *)
(* Three parties interleave: the agent's main task (main.rs and the state  *)
(* machine of BrokerManager), the collectors (register_with_broker and     *)
(* deregister_from_broker of collector-core) and the handlers of the       *)
(* registration service (CollectorRpcService over BrokerManager), one per  *)
(* request.  A handler is split where it awaits: the duplicate check and   *)
(* the token check happen under the registry's write lock, the record is   *)
(* inserted after the engine's lock was awaited, and the RPC client and    *)
(* the readiness mark each take a lock of their own.                       *)
(*                                                                         *)
(* A collector process has a life, numbered from 1; the spawn token of a   *)
(* life is the number itself.  A request has the same deadline as the call *)
(* that waits for it, so a request whose caller has given up is refused if *)
(* its handler has not begun, and runs to its end if it has.               *)
(***************************************************************************)
EXTENDS Integers, FiniteSets

CONSTANTS
  Collectors,     \* collector ids
  Enabled,        \* the ids that collectors.json enables
  RetryAttempts,  \* registration.retry_attempts
  MaxLives,       \* bound: processes started for each collector
  FaultSets       \* the sets of faults a behaviour may have

Faults == {"late", "crash", "publish", "conflict"}

ASSUME StartupAssumption ==
  /\ Enabled \subseteq Collectors
  /\ RetryAttempts \in Nat
  /\ MaxLives \in [Collectors -> Nat]
  /\ FaultSets \subseteq SUBSET Faults

VARIABLES
  main,        \* where the agent's main task is
  agentState,  \* BrokerManager.agent_state
  up,          \* the broker and the registry exist
  expected,    \* CollectorReadinessTracker.expected
  ready,       \* CollectorReadinessTracker.ready
  registry,    \* CollectorRegistry.records: the life registered, or 0
  clients,     \* BrokerManager.rpc_clients
  token,       \* the life whose spawn token is valid, or 0
  col,         \* the collector processes
  calls,       \* requests under way, with the stage of their handlers
  begun,       \* BeginMonitoring has been published
  todo,        \* shutdown: collectors still to be asked to stop
  faults,      \* faults of this behaviour
  admitted,    \* history: ids that were ever admitted
  early,       \* history: ids marked ready before they were expected
  crossed,     \* history: ids whose client went after they registered anew
  turned       \* history: ids that ran out of attempts to register

agent   == <<main, agentState, up, expected, begun, todo>>
service == <<ready, registry, clients, calls>>
history == <<admitted, early, crossed, turned>>
vars    == <<agent, service, token, col, faults, history>>

AgentStates == {"Loading", "Ready", "SteadyState", "StartupFailed"}
Places      == {"starting", "config", "waiting", "expired", "ready", "steady",
                "broadcast", "loop", "asking", "draining", "stopping",
                "down", "failed"}
Requests    == [c : Collectors, life : Nat, n : 0..RetryAttempts,
                op : {"register", "deregister"},
                stage : {"sent", "admit", "client", "mark", "refused"}]

Init ==
  /\ main = "starting" /\ agentState = "Loading" /\ up = FALSE
  /\ expected = {} /\ ready = {}
  /\ registry = [c \in Collectors |-> 0]
  /\ clients = {} /\ calls = {} /\ begun = FALSE /\ todo = {}
  /\ token = [c \in Collectors |-> 0]
  /\ col = [c \in Collectors |-> [pc |-> "off", life |-> 0, attempt |-> 0]]
  /\ faults \in FaultSets
  /\ admitted = {} /\ early = {} /\ crossed = {} /\ turned = {}

-----------------------------------------------------------------------------
(* The agent's main task.                                                  *)

(* Mutant: one collector is enough. *)
AnyReady == expected = {} \/ \E c \in expected : c \in ready

AllReady == \A c \in expected : c \in ready

\* Broker, event bus and registry come up together, before any collectors
\* configuration is known.
StartBroker ==
  /\ main = "starting"
  /\ up' = TRUE /\ main' = "config"
  /\ UNCHANGED <<agentState, expected, begun, todo>>

SetCollectorsConfig ==
  /\ main = "config"
  /\ expected' = Enabled /\ main' = "waiting"
  /\ UNCHANGED <<agentState, up, begun, todo>>

FoundReady ==
  /\ main = "waiting" /\ AllReady
  /\ main' = "ready"
  /\ UNCHANGED <<agentState, up, expected, begun, todo>>

\* The time-out is decided on a poll that found someone pending; the failure
\* is recorded afterwards, whatever has registered in between.
WaitTimesOut ==
  /\ main = "waiting" /\ ~AllReady
  /\ main' = "expired"
  /\ UNCHANGED <<agentState, up, expected, begun, todo>>

\* mark_startup_failed, after which main returns and the process ends.
StartupFails ==
  /\ agentState' = IF agentState = "Loading" THEN "StartupFailed" ELSE agentState
  /\ main' = "failed" /\ up' = FALSE
  /\ UNCHANGED <<expected, begun, todo>>

MarkStartupFailed == main = "expired" /\ StartupFails

TransitionToReady ==
  /\ main = "ready"
  /\ IF agentState = "Loading" /\ AllReady
       THEN /\ agentState' = "Ready" /\ main' = "steady"
            /\ UNCHANGED <<up, expected, begun, todo>>
       ELSE StartupFails

EnterSteadyState ==
  /\ main = "steady" /\ agentState = "Ready"
  /\ agentState' = "SteadyState" /\ main' = "broadcast"
  /\ UNCHANGED <<up, expected, begun, todo>>

\* The state lock is released during the broadcast; main goes on to its loop
\* whether or not the broadcast succeeded.
BroadcastBeginMonitoring ==
  /\ main = "broadcast"
  /\ begun' = TRUE /\ main' = "loop"
  /\ UNCHANGED <<agentState, up, expected, todo>>

RolledBack == IF agentState = "SteadyState" THEN "Ready" ELSE agentState

BroadcastFails ==
  /\ main = "broadcast" /\ "publish" \in faults
  /\ agentState' = RolledBack /\ main' = "loop"
  /\ UNCHANGED <<up, expected, begun, todo>>

StartupStep ==
  /\ \/ StartBroker \/ SetCollectorsConfig \/ FoundReady \/ WaitTimesOut
     \/ MarkStartupFailed \/ TransitionToReady \/ EnterSteadyState
     \/ BroadcastBeginMonitoring \/ BroadcastFails
  /\ UNCHANGED <<service, token, col, faults, history>>

-----------------------------------------------------------------------------
(* A collector process.                                                    *)

Send(c, op) ==
  calls' = calls \cup {[c |-> c, life |-> col[c].life, op |-> op,
                        n |-> col[c].attempt, stage |-> "sent"]}

\* The process manager starts the process of a collector and issues its token,
\* which replaces the one of an earlier life.
CollectorStarts(c) ==
  /\ col[c].pc = "off" /\ col[c].life < MaxLives[c]
  /\ main \in {"config", "waiting", "ready", "steady", "broadcast", "loop"}
  /\ col' = [col EXCEPT ![c] = [pc |-> "boot", life |-> @.life + 1, attempt |-> 0]]
  /\ token' = [token EXCEPT ![c] = col[c].life + 1]
  /\ UNCHANGED <<agent, service, faults, history>>

DispatchRegistration(c) ==
  /\ col[c].pc = "boot"
  /\ col' = [col EXCEPT ![c].pc = "call"]
  /\ Send(c, "register")
  /\ UNCHANGED <<agent, ready, registry, clients, token, faults, history>>

(* Mutant: the attempts are not counted. *)
AlwaysOnceMore(p) == [p EXCEPT !.pc = "boot"]

\* What a collector does with a failed attempt: once more, or run() returns
\* the error and the process ends.
AfterFailure(p) ==
  IF p.attempt < RetryAttempts
    THEN [p EXCEPT !.pc = "boot", !.attempt = @ + 1]
    ELSE [p EXCEPT !.pc = "off"]

TurnedAway(c) ==
  IF col[c].attempt < RetryAttempts \/ ~up THEN turned ELSE turned \cup {c}

Shutdown(p) == [p EXCEPT !.pc = "leave"]

\* A collector told to stop, by its operator, ends its sources and deregisters.
CollectorLeaves(c) ==
  /\ col[c].pc = "run"
  /\ col' = [col EXCEPT ![c] = Shutdown(@)]
  /\ Send(c, "deregister")
  /\ UNCHANGED <<agent, ready, registry, clients, token, faults, history>>

\* The call's time-out.  A request whose handler has not begun is refused from
\* then on, because its deadline has passed; a handler that has begun goes on.
CallTimesOut(c) ==
  /\ col[c].pc \in {"call", "leave"}
  /\ "late" \in faults \/ ~up
  /\ col' = [col EXCEPT ![c] = IF @.pc = "call" THEN AfterFailure(@)
                                                ELSE [@ EXCEPT !.pc = "off"]]
  /\ turned' = IF col[c].pc = "call" THEN TurnedAway(c) ELSE turned
  /\ calls' = {r \in calls : r.c # c \/ r.life # col[c].life \/ r.stage # "sent"}
  /\ UNCHANGED <<agent, ready, registry, clients, token, faults, admitted, early, crossed>>

CollectorCrashes(c) ==
  /\ "crash" \in faults /\ col[c].pc # "off"
  /\ col' = [col EXCEPT ![c].pc = "off"]
  /\ UNCHANGED <<agent, service, token, faults, history>>

-----------------------------------------------------------------------------
(* The handlers of the registration service.                               *)

\* The caller still waits for the answer to r.
Waiting(r) ==
  /\ col[r.c].life = r.life
  /\ col[r.c].pc = (IF r.op = "register" THEN "call" ELSE "leave")
  /\ r.op = "register" => col[r.c].attempt = r.n

\* The write lock of the registry, held from the duplicate check to the insert.
Locked == \E r \in calls : r.stage = "admit"

MoveTo(r, stage) == calls' = (calls \ {r}) \cup {[r EXCEPT !.stage = stage]}

Accept(c) == [col EXCEPT ![c].pc = "run"]

(* Mutant: a collector that is registered already is let in again. *)
VacantForAnyone(c) == TRUE

Vacant(c) == registry[c] = 0

Verifies(r) == token[r.c] = r.life

\* register_inner up to admit's verification: every reason to refuse.
CheckAdmission(r) ==
  /\ up /\ r \in calls /\ r.op = "register" /\ r.stage = "sent" /\ ~Locked
  /\ MoveTo(r, IF Vacant(r.c) /\ Verifies(r) THEN "admit" ELSE "refused")
  /\ UNCHANGED <<agent, ready, registry, clients, token, col, faults, history>>

\* The rest of admit, once the engine's lock is free, and the insert.
InsertRecord(r) ==
  /\ up /\ r \in calls /\ r.op = "register" /\ r.stage = "admit"
  /\ registry' = [registry EXCEPT ![r.c] = r.life]
  /\ admitted' = admitted \cup {r.c}
  /\ MoveTo(r, "client")
  /\ UNCHANGED <<agent, ready, clients, token, col, faults, early, crossed, turned>>

\* The engine refuses the descriptor; the lock is given up.
RefuseDescriptor(r) ==
  /\ up /\ r \in calls /\ r.op = "register" /\ r.stage = "admit"
  /\ "conflict" \in faults
  /\ MoveTo(r, "refused")
  /\ UNCHANGED <<agent, ready, registry, clients, token, col, faults, history>>

(* Mutant: one slot for the client, not one for each collector. *)
OnlyClient(c) == {c}

\* create_rpc_client keeps a client that is there.
ClientsWith(c) == clients \cup {c}

CreateRpcClient(r) ==
  /\ up /\ r \in calls /\ r.op = "register" /\ r.stage = "client"
  /\ clients' = ClientsWith(r.c)
  /\ MoveTo(r, "mark")
  /\ UNCHANGED <<agent, ready, registry, token, col, faults, history>>

\* mark_ready takes no notice of an id that is not expected.
MarkReady(c) == ready \cup ({c} \cap expected)

\* The answer follows; nobody hears it when the call has timed out.
MarkCollectorReady(r) ==
  /\ up /\ r \in calls /\ r.op = "register" /\ r.stage = "mark"
  /\ ready' = MarkReady(r.c)
  /\ early' = IF r.c \in expected THEN early ELSE early \cup {r.c}
  /\ calls' = calls \ {r}
  /\ col' = IF Waiting(r) THEN Accept(r.c) ELSE col
  /\ UNCHANGED <<agent, registry, clients, token, faults, admitted, crossed, turned>>

\* A refusal, answered.  A deregistration that fails is only logged.
AnswerRefusal(r) ==
  /\ up /\ r \in calls /\ r.stage = "refused"
  /\ calls' = calls \ {r}
  /\ IF Waiting(r)
       THEN /\ col' = [col EXCEPT ![r.c] =
                         IF r.op = "register" THEN AfterFailure(@)
                                              ELSE [@ EXCEPT !.pc = "off"]]
            /\ turned' = IF r.op = "register" THEN TurnedAway(r.c) ELSE turned
       ELSE UNCHANGED <<col, turned>>
  /\ UNCHANGED <<agent, ready, registry, clients, token, faults, admitted, early, crossed>>

(* Mutant: deregistration also takes the readiness of the collector back. *)
ReadinessWithdrawn(c) == ready \ {c}

\* Deregistration leaves the readiness tracker alone.
ReadinessAfter(c) == ready

(* Mutant: a collector that leaves keeps its record. *)
RecordKept(c) == registry

RecordsWithout(c) == [registry EXCEPT ![c] = 0]

\* CollectorRegistry::deregister: the record goes, whichever life it is of.
RemoveRecord(r) ==
  /\ up /\ r \in calls /\ r.op = "deregister" /\ r.stage = "sent" /\ ~Locked
  /\ registry' = RecordsWithout(r.c)
  /\ ready' = ReadinessAfter(r.c)
  /\ MoveTo(r, IF Vacant(r.c) THEN "refused" ELSE "client")
  /\ UNCHANGED <<agent, clients, token, col, faults, history>>

\* The client is removed by id, under a lock of its own.
RemoveRpcClient(r) ==
  /\ up /\ r \in calls /\ r.op = "deregister" /\ r.stage = "client"
  /\ clients' = clients \ {r.c}
  /\ crossed' = IF /\ registry[r.c] # 0
                   /\ ~\E q \in calls : /\ q.c = r.c /\ q.op = "register"
                                        /\ q.stage = "client"
                  THEN crossed \cup {r.c} ELSE crossed
  /\ calls' = calls \ {r}
  /\ col' = IF Waiting(r) THEN [col EXCEPT ![r.c].pc = "off"] ELSE col
  /\ UNCHANGED <<agent, ready, registry, token, faults, admitted, early, turned>>

\* The deadline of a request passes whose caller has died.
RequestExpires(r) ==
  /\ up /\ r \in calls /\ r.stage = "sent" /\ ~Waiting(r)
  /\ calls' = calls \ {r}
  /\ UNCHANGED <<agent, ready, registry, clients, token, col, faults, history>>

Handle(r) ==
  \/ CheckAdmission(r) \/ InsertRecord(r) \/ RefuseDescriptor(r)
  \/ CreateRpcClient(r) \/ MarkCollectorReady(r) \/ AnswerRefusal(r)
  \/ RemoveRecord(r) \/ RemoveRpcClient(r) \/ RequestExpires(r)

-----------------------------------------------------------------------------
(* The agent's shutdown: BrokerManager::shutdown, called from main's end.  *)

\* The collectors to be asked are read once.
ShutdownBegins ==
  /\ main = "loop"
  /\ todo' = clients /\ main' = "asking"
  /\ UNCHANGED <<agentState, up, expected, begun, service, token, col, faults, history>>

\* One collector is asked over RPC to stop.  It does if it is running; if the
\* client has gone or no answer comes, the next one is asked.
AskToStop(c) ==
  /\ main = "asking" /\ c \in todo
  /\ todo' = todo \ {c}
  /\ \/ /\ c \in clients /\ col[c].pc = "run"
        /\ col' = [col EXCEPT ![c] = Shutdown(@)]
        /\ Send(c, "deregister")
     \/ /\ c \notin clients \/ col[c].pc # "run" \/ "late" \in faults
        /\ UNCHANGED <<col, calls>>
  /\ UNCHANGED <<main, agentState, up, expected, begun, ready, registry, clients,
                 token, faults, history>>

\* After two seconds the process manager ends what still runs.
KillRemaining ==
  /\ main = "asking" /\ todo = {}
  /\ col' = [c \in Collectors |-> [col[c] EXCEPT !.pc = "off"]]
  /\ token' = [c \in Collectors |-> 0]
  /\ main' = "draining"
  /\ UNCHANGED <<agentState, up, expected, begun, todo, service, faults, history>>

DrainClients ==
  /\ main = "draining"
  /\ clients' = {} /\ main' = "stopping"
  /\ UNCHANGED <<agentState, up, expected, begun, todo, ready, registry, calls,
                 token, col, faults, history>>

\* Broker and registry are dropped; handlers still under way end with them.
BrokerStops ==
  /\ main = "stopping"
  /\ up' = FALSE /\ main' = "down"
  /\ registry' = [c \in Collectors |-> 0]
  /\ UNCHANGED <<agentState, expected, begun, todo, ready, clients, calls, token,
                 col, faults, history>>

ShutdownStep ==
  \/ ShutdownBegins \/ KillRemaining \/ DrainClients \/ BrokerStops
  \/ \E c \in Collectors : AskToStop(c)

CollectorStep(c) ==
  \/ CollectorStarts(c) \/ DispatchRegistration(c) \/ CollectorLeaves(c)
  \/ CallTimesOut(c) \/ CollectorCrashes(c)

Next ==
  \/ StartupStep
  \/ ShutdownStep
  \/ \E c \in Collectors : CollectorStep(c)
  \/ \E r \in calls : Handle(r)

-----------------------------------------------------------------------------
(* Fairness.  The agent's main task and the handlers run; a call that waits *)
(* ends at its time-out; a shutdown that has begun goes on.  Nothing makes  *)
(* a collector start, stop or crash, or the agent shut down.                *)

Progress ==
  \/ StartupStep
  \/ KillRemaining \/ DrainClients \/ BrokerStops
  \/ \E c \in Collectors : AskToStop(c)

Fairness ==
  /\ WF_vars(Progress)
  /\ WF_vars(\E r \in calls : Handle(r))
  /\ \A c \in Collectors : WF_vars(DispatchRegistration(c)) /\ WF_vars(CallTimesOut(c))

Spec == Init /\ [][Next]_vars /\ Fairness

-----------------------------------------------------------------------------
(* Properties.                                                             *)

\* Every variable stays within its type, and no record or token is of a
\* process that has not been started.
TypeOK ==
  /\ main \in Places /\ agentState \in AgentStates
  /\ up \in BOOLEAN /\ begun \in BOOLEAN
  /\ expected \in SUBSET Collectors /\ ready \in SUBSET expected
  /\ registry \in [Collectors -> Nat] /\ token \in [Collectors -> Nat]
  /\ clients \in SUBSET Collectors /\ todo \in SUBSET Collectors
  /\ col \in [Collectors -> [pc : {"off", "boot", "call", "run", "leave"},
                             life : Nat, attempt : 0..RetryAttempts]]
  /\ calls \in SUBSET Requests
  /\ \A c \in Collectors : {registry[c], token[c]} \subseteq 0..col[c].life
  /\ faults \in SUBSET Faults
  /\ admitted \in SUBSET Collectors /\ early \in SUBSET Collectors
  /\ crossed \in SUBSET Collectors /\ turned \in SUBSET Collectors

\* A collector that runs, having been told that it is registered, is in the
\* registry with the process that runs, as long as the registry exists: neither
\* a late handler of an earlier process, nor a retry, nor a deregistration that
\* carries only the id takes the record of the current process away or puts
\* another one there (register_inner, deregister).
RunningIsRegistered ==
  \A c \in Collectors : up /\ col[c].pc = "run" => registry[c] = col[c].life

\* No handler of c is under way.
AtRest(c) == \A r \in calls : r.c = c => r.stage = "sent"

\* A collector whose record stands while no handler of its requests runs has
\* the RPC client over which the agent controls it, and is ready if the agent
\* expects it.  Two cases are left out, both described in the README: a
\* registration handled before the agent knew whom to expect, and a client
\* removed by the deregistration of an earlier process after the next one had
\* registered (register_collector, deregister_collector).
SettledIsServed ==
  \A c \in Collectors :
    /\ up /\ registry[c] # 0 /\ AtRest(c)
       => /\ c \in clients \cup crossed \/ main = "stopping"
          /\ c \in expected => c \in ready \cup early

\* An agent that has become Ready has admitted, with a valid token, every
\* collector that its configuration enables (wait_for_collectors_ready,
\* transition_to_ready).
ReadyMeansAdmitted ==
  agentState \in {"Ready", "SteadyState"} => Enabled \subseteq admitted

\* An agent that goes on in SteadyState has told the collectors to begin
\* monitoring: a broadcast that failed has taken the state back
\* (transition_to_steady_state).
SteadyMeansBegun ==
  agentState = "SteadyState" /\ main # "broadcast" => begun

\* Without faults no collector runs out of attempts to register, however often
\* it has left and come back: the record of an earlier process is gone by the
\* time its deregistration is answered (deregister_collector).
NobodyTurnedAway ==
  faults = {} => turned = {}

\* Once the wait has found every collector ready, start-up does not fail: the
\* second look of transition_to_ready sees what the first one saw, although
\* collectors may have left or crashed in between.
FoundStaysFound ==
  [][main = "ready" => main' # "failed"]_vars

Asking == \E c \in Collectors : col[c].pc \in {"boot", "call", "leave"}

\* Registering and deregistering end, with success or without: no handler waits
\* for ever on the lock of the registry, and no collector retries for ever
\* (register_with_broker, register_inner).
AskingEnds == Asking ~> ~Asking

\* The start-up of the agent is decided: it reaches its main loop or fails.
StartupDecided == main = "waiting" ~> main \in {"loop", "failed"}
=============================================================================
