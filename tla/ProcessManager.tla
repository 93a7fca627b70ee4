--------------------------- MODULE ProcessManager ---------------------------
(***************************************************************************)
(* CollectorProcessManager (daemoneye-eventbus/src/process_manager): the   *)
(* map of running collectors, its concurrent operations, the monitor of    *)
(* each process, the auto-restart handler, and the spawn tokens.           *)
(*                                                                         *)
(* Every operation names one collector and touches one entry of the map,   *)
(* so the model has one collector and all who act on it at once.  A step   *)
(* is what happens under one acquisition of the map's lock, or between two.*)
(* Instances of the collector are numbered in the order in which their     *)
(* tokens are issued; an instance and its token share the number.          *)
(***************************************************************************)
EXTENDS Integers, Sequences

CONSTANTS
    Callers,      \* who may call the manager at the same time
    MaxRestarts,  \* max_restarts of the collector, 0 when auto_restart is off
    MaxSpawn,     \* bound: how many instances are started
    FaultSets     \* what may go wrong in one run, subsets of FaultKinds

(***************************************************************************)
(* "nosignal": built without the feature "freebsd", so that stop_collector *)
(* sends no signal on Unix.  "spawn": a process cannot be started.         *)
(* "eperm": the collector may not be signalled.  "slow": a task may be     *)
(* held up for longer than a monitor sleeps or a spawn takes.              *)
(***************************************************************************)
FaultKinds == {"nosignal", "spawn", "eperm", "slow"}

ASSUME SpawnAssumption == MaxSpawn \in Nat /\ MaxRestarts \in Nat
ASSUME FaultsAssumption == FaultSets \subseteq SUBSET FaultKinds

VARIABLES
    entry,     \* the collector's CollectorProcess in the map, or NoEntry
    token,     \* SpawnTokenStore: the valid token, 0 for none
    requests,  \* restart_tx: restart counts of the queued RestartRequests
    monitor,   \* the monitor task of each instance
    pending,   \* what each monitor is about to request, None or a count
    call,      \* the call each task is in
    spawned,   \* instances so far
    alive,     \* operating system: running instances
    stopped,   \* operating system: instances under SIGSTOP
    faults,    \* what may go wrong in this run
    overlap,   \* history: "stop" once something began during a stop, or a stop
               \* during a start; "start" once two starts overlapped
    autos      \* history: auto-restarts, less those the callers' starts and
               \* the deaths found too early allow

managerVars == <<entry, token, requests>>
monitorVars == <<monitor, pending>>
osVars == <<alive, stopped>>
vars == <<managerVars, monitorVars, call, spawned, osVars, faults, overlap, autos>>

Handler == "handler"                    \* the task that serves RestartRequests
ASSUME CallersAssumption == Handler \notin Callers  \* it calls nothing but start_collector
Tasks == Callers \cup {Handler}
Instances == 1 .. MaxSpawn
NoEntry == [pid |-> 0, child |-> 0, state |-> "Absent", count |-> 0, rpc |-> FALSE]
None == -1
States == {"Absent", "Starting", "Running", "Paused", "Stopping", "Failed"}
Steps == {"idle", "check", "issue", "spawn", "insert", "announce", "running", "count", "failed",
          "stop", "rpc", "wait", "force", "reap", "again", "shut"}
Ops == {"none", "start", "restart", "stop", "kill", "shutdown", "shutdown2"}

(* An entry: the pid, the Child unless one has taken it (0), the state,    *)
(* restart_count, and whether there is an RPC client.                      *)
CollectorProcess ==
    [pid : 0 .. MaxSpawn, child : 0 .. MaxSpawn, state : States, count : Nat, rpc : BOOLEAN]

(***************************************************************************)
(* A call: its next step, the Child it holds or the instance it is         *)
(* starting (0 for none), the restart count it has read, and the instance  *)
(* it has put into the map or, for shutdown_all, has found there.          *)
(***************************************************************************)
Calls == [pc : Steps, op : Ops, mine : 0 .. MaxSpawn, cnt : Nat, seen : 0 .. MaxSpawn]
Idle == [pc |-> "idle", op |-> "none", mine |-> 0, cnt |-> 0, seen |-> 0]

(* Every variable keeps its type; only running instances are stopped. *)
TypeOK ==
    /\ entry \in CollectorProcess
    /\ entry.pid = 0 <=> entry = NoEntry
    /\ token \in 0 .. spawned
    /\ requests \in Seq(Nat)
    /\ monitor \in [Instances -> {"none", "poll", "reap", "done"}]
    /\ pending \in [Instances -> Nat \cup {None}]
    /\ call \in [Tasks -> Calls]
    /\ spawned \in 0 .. MaxSpawn
    /\ alive \subseteq 1 .. spawned /\ stopped \subseteq alive
    /\ faults \in FaultSets
    /\ overlap \subseteq {"stop", "start"} /\ autos \in Int

Init ==
    /\ entry = NoEntry /\ token = 0 /\ requests = <<>>
    /\ monitor = [n \in Instances |-> "none"] /\ pending = [n \in Instances |-> None]
    /\ call = [p \in Tasks |-> Idle]
    /\ spawned = 0 /\ alive = {} /\ stopped = {}
    /\ faults \in FaultSets
    /\ overlap = {} /\ autos = 0

Present == entry # NoEntry
DeadInMap == entry.child # 0 /\ entry.child \notin alive  \* try_wait() finds an exit status
Signals == "nosignal" \notin faults
Starting(p) == call[p].pc \in {"issue", "spawn", "insert"}
Stopping(p) == call[p].pc \in {"rpc", "wait", "force", "reap"}
Graceful(p) == call[p].op \notin {"kill", "shutdown2"}

----------------------------------------------------------------------------
(* How a call goes on and ends.                                            *)

Goto(p, step) == call' = [call EXCEPT ![p].pc = step]
Returns(p) == call' = [call EXCEPT ![p] = Idle]

(* After a stop restart_collector goes on to start the collector again,    *)
(* and shutdown_all to its second pass.                                    *)
StopReturns(p, ok) ==
    LET next == CASE call[p].op = "restart" /\ ok -> "check"
                  [] call[p].op = "shutdown" -> "again"
                  [] call[p].op = "shutdown2" -> "shut"
                  [] OTHER -> "idle"
    IN  call' = [call EXCEPT ![p] =
                    IF next = "idle" THEN Idle ELSE [@ EXCEPT !.pc = next, !.mine = 0]]

(* A failed start ends the call; the restart handler then marks the entry. *)
StartFails(p) ==
    call' = [call EXCEPT ![p] = IF p = Handler THEN [Idle EXCEPT !.pc = "failed"] ELSE Idle]

SetState(state) == IF Present THEN [entry EXCEPT !.state = state] ELSE entry

----------------------------------------------------------------------------
(* start_collector                                                         *)

(* The collector is not in the map; the lock is released again. *)
PassesCheck(p) ==
    /\ ~Present
    /\ overlap' = overlap
          \cup (IF \E q \in Tasks \ {p} : Stopping(q) THEN {"stop"} ELSE {})
          \cup (IF \E q \in Tasks \ {p} : Starting(q) THEN {"start"} ELSE {})

CallStart(p) ==
    /\ p \in Callers /\ call[p] = Idle /\ spawned < MaxSpawn
    /\ PassesCheck(p)
    /\ call' = [call EXCEPT ![p].pc = "issue", ![p].op = "start"]
    /\ UNCHANGED <<managerVars, monitorVars, spawned, osVars, faults, autos>>

(* Mutant: the token is issued before the map is looked into. *)
CheckAfterIssue(p) ==
    /\ call[p].pc = "check"
    /\ \/ PassesCheck(p) /\ Goto(p, "issue") /\ UNCHANGED token
       \/ Present /\ StartFails(p) /\ token' = 0 /\ UNCHANGED overlap
    /\ UNCHANGED <<entry, requests, monitorVars, spawned, osVars, faults, autos>>

(* The same check in a restart. *)
Check(p) ==
    /\ call[p].pc = "check"
    /\ \/ PassesCheck(p) /\ Goto(p, "issue")
       \/ Present /\ StartFails(p) /\ UNCHANGED overlap
    /\ UNCHANGED <<managerVars, monitorVars, spawned, osVars, faults, autos>>

(* SpawnTokenStore::issue replaces whatever token there was.  It fails     *)
(* when the bound on instances is reached.                                 *)
Issue(p) ==
    /\ call[p].pc = "issue"
    /\ "slow" \in faults \/ \A n \in Instances : monitor[n] # "reap"
    /\ IF spawned < MaxSpawn
       THEN /\ spawned' = spawned + 1
            /\ token' = spawned'
            /\ call' = [call EXCEPT ![p].pc = "spawn", ![p].mine = spawned']
       ELSE StartFails(p) /\ UNCHANGED <<spawned, token>>
    /\ UNCHANGED <<entry, requests, monitorVars, osVars, faults, overlap, autos>>

Spawn(p) ==
    /\ call[p].pc = "spawn"
    /\ alive' = alive \cup {call[p].mine}
    /\ Goto(p, "insert")
    /\ UNCHANGED <<managerVars, monitorVars, spawned, stopped, faults, overlap, autos>>

SpawnFails(p) ==
    /\ "spawn" \in faults /\ call[p].pc = "spawn"
    /\ StartFails(p)
    /\ UNCHANGED <<managerVars, monitorVars, spawned, osVars, faults, overlap, autos>>

(* Mutant: the second look into the map is left out. *)
StillAbsentUnchecked == TRUE

(* Whether the map is still without the collector after the spawn. *)
StillAbsent == ~Present

(* The new process goes into the map; a duplicate is killed and reaped. *)
Insert(p) ==
    /\ call[p].pc = "insert"
    /\ IF StillAbsent
       THEN /\ entry' = [pid |-> call[p].mine, child |-> call[p].mine, state |-> "Starting",
                         count |-> 0, rpc |-> FALSE]
            /\ autos' = IF p = Handler THEN autos + 1 ELSE autos - MaxRestarts
            /\ Goto(p, "announce")
            /\ UNCHANGED alive
       ELSE /\ alive' = alive \ {call[p].mine}
            /\ StartFails(p)
            /\ UNCHANGED <<entry, autos>>
    /\ UNCHANGED <<token, requests, monitorVars, spawned, stopped, faults, overlap>>

(* The RPC client, if there is a broker, and the monitor of the process. *)
Announce(p) ==
    /\ call[p].pc = "announce"
    /\ \E client \in BOOLEAN :
          entry' = IF Present /\ client THEN [entry EXCEPT !.rpc = TRUE] ELSE entry
    /\ monitor' = [monitor EXCEPT ![call[p].mine] = "poll"]
    /\ call' = [call EXCEPT ![p].pc = "running", ![p].mine = 0, ![p].seen = call[p].mine]
    /\ UNCHANGED <<token, requests, pending, spawned, osVars, faults, overlap, autos>>

MarkRunning(p) ==
    /\ call[p].pc = "running"
    /\ entry' = SetState("Running")
    /\ IF p = Handler \/ call[p].op = "restart" THEN Goto(p, "count") ELSE Returns(p)
    /\ UNCHANGED <<token, requests, monitorVars, spawned, osVars, faults, overlap, autos>>

(* Mutant: the restarted collector starts counting anew. *)
CountAnew(p) == 0

(* restart_count after the restart that task p has carried out *)
NextCount(p) == call[p].cnt + 1

SetCount(p) ==
    /\ call[p].pc = "count"
    /\ entry' = IF Present THEN [entry EXCEPT !.count = NextCount(p)] ELSE entry
    /\ Returns(p)
    /\ UNCHANGED <<token, requests, monitorVars, spawned, osVars, faults, overlap, autos>>

----------------------------------------------------------------------------
(* stop_collector, alone or in restart_collector and shutdown_all          *)

CallStop(p) ==
    /\ p \in Callers /\ call[p] = Idle /\ Present
    /\ \E o \in {"stop", "kill", "restart", "shutdown"} :
          call' = [call EXCEPT ![p] =
             [pc |-> "stop", op |-> o, mine |-> 0,
              cnt |-> IF o = "restart" THEN entry.count ELSE 0,
              seen |-> IF o = "shutdown" THEN entry.pid ELSE 0]]
    /\ UNCHANGED <<managerVars, monitorVars, spawned, osVars, faults, overlap, autos>>

(* The call takes the Child out of the entry and revokes the token.  An    *)
(* entry without a Child is taken for a collector that has stopped.        *)
StopBegins(p) ==
    /\ call[p].pc = "stop"
    /\ \/ ~Present /\ StopReturns(p, FALSE) /\ UNCHANGED <<entry, token, overlap>>
       \/ /\ Present
          /\ token' = 0
          /\ overlap' = IF \E q \in Tasks \ {p} : Stopping(q) \/ Starting(q)
                        THEN overlap \cup {"stop"} ELSE overlap
          /\ \/ /\ entry.child = 0
                /\ entry' = NoEntry /\ StopReturns(p, TRUE)
             \/ /\ entry.child # 0
                /\ entry' = [entry EXCEPT !.state = "Stopping", !.child = 0, !.rpc = FALSE]
                /\ call' = [call EXCEPT ![p].mine = entry.child,
                      ![p].pc = CASE ~Graceful(p) -> "force"
                                  [] Graceful(p) /\ entry.rpc -> "rpc"
                                  [] OTHER -> "wait"]
    /\ UNCHANGED <<requests, monitorVars, spawned, osVars, faults, autos>>

(* shutdown_collector_rpc: the collector agreed, and its process has ended. *)
RpcStops(p) ==
    /\ call[p].pc = "rpc" /\ call[p].mine \notin alive
    /\ entry' = NoEntry /\ StopReturns(p, TRUE)
    /\ UNCHANGED <<token, requests, monitorVars, spawned, osVars, faults, overlap, autos>>

(* The call fails, is refused, or one of its two waits runs out. *)
RpcFails(p) ==
    /\ call[p].pc = "rpc"
    /\ Goto(p, "wait")
    /\ UNCHANGED <<managerVars, monitorVars, spawned, osVars, faults, overlap, autos>>

(* SIGTERM cannot be sent: the Child goes back into the entry. *)
TermFails(p) ==
    /\ Signals /\ "eperm" \in faults /\ call[p].pc = "wait"
    /\ entry' = IF Present THEN [entry EXCEPT !.state = "Failed", !.child = call[p].mine] ELSE entry
    /\ StopReturns(p, FALSE)
    /\ UNCHANGED <<token, requests, monitorVars, spawned, osVars, faults, overlap, autos>>

(* The process ended in time.  One that died of the signal has no exit     *)
(* code, which sends the call on to the forced path all the same.          *)
WaitEnds(p) ==
    /\ call[p].pc = "wait" /\ call[p].mine \notin alive
    /\ entry' = NoEntry
    /\ StopReturns(p, TRUE) \/ Goto(p, "force")
    /\ UNCHANGED <<token, requests, monitorVars, spawned, osVars, faults, overlap, autos>>

WaitRunsOut(p) ==
    /\ call[p].pc = "wait" /\ call[p].mine \in alive
    /\ Goto(p, "force")
    /\ UNCHANGED <<managerVars, monitorVars, spawned, osVars, faults, overlap, autos>>

(* Mutant: the forced path asks again instead of killing. *)
KilledNever(n) == {}

(* What SIGKILL ends, where the build can send it. *)
Killed(n) == IF Signals THEN {n} ELSE {}

(* SIGKILL ends a process that is under SIGSTOP, too. *)
StillStopped(live) == stopped \cap live

Kill(p) ==
    /\ call[p].pc = "force"
    /\ \/ /\ Goto(p, "reap")
          /\ alive' = alive \ Killed(call[p].mine)
          /\ stopped' = StillStopped(alive')
          /\ UNCHANGED entry
       \/ /\ Signals /\ "eperm" \in faults
          /\ entry' = SetState("Failed") /\ StopReturns(p, FALSE)
          /\ UNCHANGED osVars
    /\ UNCHANGED <<token, requests, monitorVars, spawned, faults, overlap, autos>>

KillEnds(p) ==
    /\ call[p].pc = "reap" /\ call[p].mine \notin alive
    /\ entry' = NoEntry /\ StopReturns(p, TRUE)
    /\ UNCHANGED <<token, requests, monitorVars, spawned, osVars, faults, overlap, autos>>

(* The forced wait runs out: the entry stays, the Child is dropped. *)
KillRunsOut(p) ==
    /\ call[p].pc = "reap" /\ call[p].mine \in alive
    /\ entry' = SetState("Failed") /\ StopReturns(p, FALSE)
    /\ UNCHANGED <<token, requests, monitorVars, spawned, osVars, faults, overlap, autos>>

(* shutdown_all: a forced stop of what is in the map after the first pass. *)
SecondPass(p) ==
    /\ call[p].pc = "again"
    /\ call' = [call EXCEPT ![p].pc = IF Present THEN "stop" ELSE "shut", ![p].op = "shutdown2"]
    /\ UNCHANGED <<managerVars, monitorVars, spawned, osVars, faults, overlap, autos>>

ShutdownReturns(p) ==
    /\ call[p].pc = "shut"
    /\ Returns(p)
    /\ UNCHANGED <<managerVars, monitorVars, spawned, osVars, faults, overlap, autos>>

----------------------------------------------------------------------------
(* pause_collector and resume_collector                                    *)

(* A process that has been waited for is no longer there to be signalled. *)
Signalable == Signals /\ (entry.pid \in alive \/ entry.child # 0)

Pause ==
    /\ Signalable /\ entry.state = "Running"
    /\ entry' = SetState("Paused")
    /\ stopped' = stopped \cup ({entry.pid} \cap alive)
    /\ UNCHANGED <<token, requests, monitorVars, call, spawned, alive, faults, overlap, autos>>

Resume ==
    /\ Signalable /\ entry.state = "Paused"
    /\ entry' = SetState("Running")
    /\ stopped' = stopped \ {entry.pid}
    /\ UNCHANGED <<token, requests, monitorVars, call, spawned, alive, faults, overlap, autos>>

----------------------------------------------------------------------------
(* The monitor of instance n, twice a second, and the restart handler.     *)

ShouldRestart(e) == e.count < MaxRestarts

(* The start of the instance in the map has not yet written everything. *)
Unsettled ==
    \E p \in Tasks : \/ call[p].pc = "announce" /\ call[p].mine = entry.pid
                     \/ call[p].pc \in {"running", "count"} /\ call[p].seen = entry.pid

(* An exited Child is reaped and its entry removed.  A look that finds the *)
(* collector running matters only if the monitor is then held up.  The     *)
(* monitor sleeps before its first look, while the start that spawned it   *)
(* ends; the monitor of an earlier instance looks at any time.             *)
Poll(n) ==
    /\ monitor[n] = "poll"
    /\ "slow" \in faults
          \/ \A p \in Tasks : call[p].pc \in {"running", "count"} => call[p].seen # n
    /\ "slow" \in faults \/ DeadInMap \/ ~Present
    /\ monitor' = [monitor EXCEPT ![n] = IF Present THEN "reap" ELSE "done"]
    /\ pending' = [pending EXCEPT ![n] =
                      IF DeadInMap /\ ShouldRestart(entry) THEN entry.count ELSE None]
    /\ entry' = IF DeadInMap THEN NoEntry ELSE entry
    /\ autos' = IF DeadInMap /\ Unsettled THEN autos - MaxRestarts ELSE autos
    /\ UNCHANGED <<token, requests, call, spawned, osVars, faults, overlap>>

(* Mutant: the monitor takes one look only. *)
LooksOnce(n) == FALSE

(* The monitor goes on unless it has asked for a restart or is of no use. *)
LooksAgain(n) == pending[n] = None /\ Present

(* A second acquisition of the lock: the collector is not in the map, so   *)
(* its token is revoked.  Then the restart is requested.  The third one,   *)
(* which only decides whether the monitor goes on, is part of this step:   *)
(* a monitor too many does what the others do.                             *)
Reap(n) ==
    /\ monitor[n] = "reap"
    /\ token' = IF Present THEN token ELSE 0
    /\ requests' = IF pending[n] # None THEN Append(requests, pending[n]) ELSE requests
    /\ monitor' = [monitor EXCEPT ![n] = IF LooksAgain(n) THEN "poll" ELSE "done"]
    /\ pending' = [pending EXCEPT ![n] = None]
    /\ UNCHANGED <<entry, call, spawned, osVars, faults, overlap, autos>>

TakeRequest ==
    /\ call[Handler].pc = "idle" /\ requests # <<>>
    /\ requests' = Tail(requests)
    /\ call' = [call EXCEPT ![Handler].pc = "check", ![Handler].cnt = Head(requests)]
    /\ UNCHANGED <<entry, token, monitorVars, spawned, osVars, faults, overlap, autos>>

(* The restart failed: whatever is in the map now is marked Failed. *)
MarkFailed ==
    /\ call[Handler].pc = "failed"
    /\ entry' = SetState("Failed")
    /\ Returns(Handler)
    /\ UNCHANGED <<token, requests, monitorVars, spawned, osVars, faults, overlap, autos>>

(* A collector exits or dies; one under SIGSTOP does not. *)
Exit ==
    /\ \E n \in alive \ stopped : alive' = alive \ {n}
    /\ UNCHANGED <<managerVars, monitorVars, call, spawned, stopped, faults, overlap, autos>>

----------------------------------------------------------------------------
Call(p) == CallStart(p) \/ CallStop(p)

Start(p) ==
    \/ Check(p) \/ Issue(p) \/ Spawn(p) \/ SpawnFails(p) \/ Insert(p)
    \/ Announce(p) \/ MarkRunning(p) \/ SetCount(p)

Stop(p) ==
    \/ StopBegins(p) \/ RpcStops(p) \/ RpcFails(p) \/ TermFails(p)
    \/ WaitEnds(p) \/ WaitRunsOut(p) \/ Kill(p) \/ KillEnds(p) \/ KillRunsOut(p)
    \/ SecondPass(p) \/ ShutdownReturns(p)

Next ==
    \/ \E p \in Tasks : Call(p) \/ Start(p) \/ Stop(p)
    \/ \E n \in Instances : Poll(n) \/ Reap(n)
    \/ TakeRequest \/ MarkFailed
    \/ Pause \/ Resume \/ Exit

(* Calls, monitors and the handler are tasks of a runtime that runs them.  *)
(* Nobody has to call, and no collector has to exit.                       *)
Fairness ==
    /\ \A p \in Tasks : WF_vars(Start(p)) /\ WF_vars(Stop(p))
    /\ \A n \in Instances : WF_vars(Poll(n)) /\ WF_vars(Reap(n))
    /\ WF_vars(TakeRequest) /\ WF_vars(MarkFailed)

Spec == Init /\ [][Next]_vars /\ Fairness

----------------------------------------------------------------------------
(* What the manager promises.                                              *)

(* stop_collector and shutdown_all act on the map, so a running collector  *)
(* that is not in it can neither be stopped nor restarted.  No instance    *)
(* gets there, whatever crashes and starts race with one another, as long  *)
(* as signals can be sent and nothing else begins while a stop is under    *)
(* way (stop_collector removes the entry by name, not by instance).        *)
Tracked ==
    Signals /\ "eperm" \notin faults /\ "stop" \notin overlap =>
        alive \subseteq {entry.child} \cup {call[p].mine : p \in Tasks}

(* "Only one": under the same conditions two instances run only while one  *)
(* of them is a duplicate about to be killed by its own start_collector.   *)
OneInstance ==
    Signals /\ "eperm" \notin faults /\ "stop" \notin overlap =>
        \A m, n \in alive \ {call[p].mine : p \in {q \in Tasks : call[q].pc = "insert"}} : m = n

(* shutdown_all: the instance that was in the map when it was called does  *)
(* not run any more when it returns.                                       *)
ShutdownStops ==
    Signals /\ "eperm" \notin faults /\ "stop" \notin overlap =>
        \A p \in Callers : call[p].pc = "shut" => call[p].seen \notin alive

(* "restart_count < max_restarts": however the callers' starts, the deaths *)
(* and the queued requests fall together, the collector is restarted at    *)
(* most max_restarts times for each time a caller has started it, and for  *)
(* each death found before the start of the instance had written its count.*)
RestartsBounded == autos <= 0

(* "The tokens currently valid, one per live collector spawn": when the    *)
(* manager is at rest, the collector in the map can authenticate, unless a *)
(* stop or a start met another one.                                        *)
TokenStands ==
    (/\ \A p \in Tasks : call[p].pc = "idle"
     /\ \A n \in Instances : monitor[n] # "reap"
     /\ overlap = {} /\ faults = {}
     /\ entry.child \in alive)
        => token = entry.pid

(* Every wait has a deadline: a call of stop_collector, restart_collector  *)
(* or shutdown_all returns whether or not the collector ever stops.        *)
CallsReturn == \A p \in Callers : call[p].pc # "idle" ~> call[p].pc = "idle"

(* A collector that has died is found out, whatever the manager was doing: *)
(* its entry does not stay in the map with the dead process in it.         *)
DeathNoticed == DeadInMap ~> ~DeadInMap
=============================================================================
