------------------------ MODULE ProcessManagerProofs ------------------------
(***************************************************************************)
(* Proofs about the process manager, for any number of callers, instances  *)
(* and restarts and for any faults: no running collector is lost from the  *)
(* map, only one runs, shutdown_all stops what it found, the collector in  *)
(* the map keeps its token, and automatic restarts stay within bounds.     *)
(*                                                                         *)
(* The invariant says which instance every task may be holding.  Without   *)
(* it the properties are not inductive: a task could be about to insert    *)
(* the instance that another one is killing.  The bound on restarts has an *)
(* invariant of its own, a budget of the restarts that can still follow.   *)
(***************************************************************************)
EXTENDS ProcessManager, TLAPS

(* The conditions of Tracked, OneInstance and ShutdownStops. *)
Quiet == Signals /\ "eperm" \notin faults /\ "stop" \notin overlap

Newborn(p) == call[p].pc \in {"spawn", "insert"}
Holding(p) == call[p].pc \in {"spawn", "insert", "announce", "rpc", "wait", "force", "reap"}

StopSide(step) == step \in {"stop", "rpc", "wait", "force", "reap", "again", "shut"}

(* Instances in the map and in calls have been issued; a call holds one in *)
(* the steps that need one, and none in the others; shutdown_all starts    *)
(* nothing.                                                                *)
Held ==
    /\ entry.pid <= spawned /\ entry.child <= spawned
    /\ \A p \in Tasks :
          /\ call[p].mine <= spawned /\ call[p].seen <= spawned
          /\ call[p].mine # 0 <=> Holding(p)
          /\ call[p].pc = "idle" => call[p] = Idle
          /\ call[p].op \in {"shutdown", "shutdown2"} => StopSide(call[p].pc)

(* Nobody but its own start knows of an instance not yet in the map. *)
Private ==
    \A p \in Tasks : Newborn(p) =>
        /\ call[p].mine # entry.pid /\ call[p].mine # entry.child /\ call[p].mine \notin stopped
        /\ call[p].pc = "spawn" => call[p].mine \notin alive
        /\ \A q \in Tasks :
              call[q].seen # call[p].mine /\ (q # p => call[q].mine # call[p].mine)

(* A stop is alone, has emptied the entry, and keeps it until the process  *)
(* is gone; what a start has just put into the map is there, or dead, or   *)
(* in the hands of a stop.                                                 *)
Alone ==
    \A p \in Tasks : Stopping(p) =>
        /\ entry.child = 0
        /\ call[p].mine \in alive => Present /\ call[p].pc # "reap"
        /\ \A q \in Tasks : q # p => ~Stopping(q) /\ ~Starting(q)

HandedOver ==
    \A p \in Tasks : call[p].pc = "announce" =>
        \/ call[p].mine = entry.child
        \/ call[p].mine \notin alive
        \/ \E q \in Tasks : Stopping(q) /\ call[q].mine = call[p].mine

Accounted == alive \subseteq {entry.child} \cup {call[p].mine : p \in Tasks}

(* shutdown_all is stopping the instance it saw, or that one is dead. *)
ShuttingDown ==
    \A p \in Tasks :
        /\ Stopping(p) /\ call[p].op = "shutdown" => call[p].seen \in {call[p].mine} \/ call[p].seen \notin alive
        /\ call[p].op = "shutdown2" \/ call[p].pc \in {"again", "shut"} => call[p].seen \notin alive

(* As long as no start met a stop or another start: a start finds the map  *)
(* empty, and its token is still the valid one.                            *)
TokenKept ==
    /\ \A p \in Tasks : Starting(p) => ~Present /\ \A q \in Tasks : q # p => ~Starting(q)
    /\ \A p \in Tasks : Newborn(p) =>
          token = call[p].mine /\ \A n \in Instances : monitor[n] # "reap"
    /\ entry.child # 0 => token = entry.pid

ManagerInv ==
    /\ TypeOK /\ Held /\ Private
    /\ Quiet => Alone /\ HandedOver /\ Accounted /\ ShuttingDown
    /\ overlap = {} /\ faults = {} => TokenKept

----------------------------------------------------------------------------
(* How a call moves.                                                       *)

(* Task p, and no other, gets to step `step' of operation o, holding       *)
(* instance m and having seen s.                                           *)
To(p, step, o, m, s) ==
    /\ call' \in [Tasks -> Calls]
    /\ \A q \in Tasks : q # p => call'[q] = call[q]
    /\ call'[p].pc = step /\ call'[p].op = o /\ call'[p].mine = m /\ call'[p].seen = s

(* Only p's call changes when its record is replaced. *)
LEMMA Replaced ==
    ASSUME TypeOK, NEW p \in Tasks, NEW c \in Calls, call' = [call EXCEPT ![p] = c]
    PROVE  /\ To(p, c.pc, c.op, c.mine, c.seen)
           /\ call'[p] = c
BY Zenon DEF TypeOK, To

(* Goto changes the step alone. *)
LEMMA GotoTo ==
    ASSUME TypeOK, NEW p \in Tasks, NEW step \in Steps, Goto(p, step)
    PROVE  To(p, step, call[p].op, call[p].mine, call[p].seen)
<1> DEFINE c == [call[p] EXCEPT !.pc = step]
<1>1. call[p] \in Calls
    BY Zenon DEF TypeOK
<1>2. c \in Calls /\ c.pc = step /\ c.op = call[p].op /\ c.mine = call[p].mine /\ c.seen = call[p].seen
    BY ONLY <1>1, step \in Steps, Zenon DEF Calls
<1>3. call' = [call EXCEPT ![p] = c]
    BY Zenon DEF Goto
<1>4. To(p, c.pc, c.op, c.mine, c.seen)
    BY <1>2, <1>3, Replaced, Zenon
<1> QED BY <1>2, <1>4, Zenon

(* The record of a task that is in no call. *)
LEMMA IdleCall ==
    /\ Idle \in Calls /\ [Idle EXCEPT !.pc = "failed"] \in Calls
    /\ Idle.pc = "idle" /\ Idle.op = "none" /\ Idle.mine = 0 /\ Idle.seen = 0
<1>1. Idle \in Calls
    BY SpawnAssumption DEF Calls, Idle, Steps, Ops
<1>2. [Idle EXCEPT !.pc = "failed"] = [pc |-> "failed", op |-> "none", mine |-> 0, cnt |-> 0, seen |-> 0]
    BY DEF Idle
<1>3. [pc |-> "failed", op |-> "none", mine |-> 0, cnt |-> 0, seen |-> 0] \in Calls
    BY SpawnAssumption DEF Calls, Steps, Ops
<1> QED BY <1>1, <1>2, <1>3, Zenon DEF Idle

(* A call that returns leaves its task idle. *)
LEMMA ReturnsTo ==
    ASSUME TypeOK, NEW p \in Tasks, Returns(p)
    PROVE  To(p, "idle", "none", 0, 0) /\ call'[p] = Idle
<1>1. call' = [call EXCEPT ![p] = Idle]
    BY Zenon DEF Returns
<1>2. To(p, Idle.pc, Idle.op, Idle.mine, Idle.seen) /\ call'[p] = Idle
    BY <1>1, IdleCall, Replaced, Zenon
<1> QED BY <1>2, IdleCall, Zenon

(* A start that fails holds nothing any more. *)
LEMMA StartFailsTo ==
    ASSUME TypeOK, NEW p \in Tasks, StartFails(p)
    PROVE  \E step \in {"idle", "failed"} :
              To(p, step, "none", 0, 0) /\ (step = "idle" => call'[p] = Idle)
<1>1. CASE p = Handler
    <2>1. call' = [call EXCEPT ![p] = [Idle EXCEPT !.pc = "failed"]]
        BY <1>1, Zenon DEF StartFails
    <2> DEFINE c == [Idle EXCEPT !.pc = "failed"]
    <2>2. c.pc = "failed" /\ c.op = "none" /\ c.mine = 0 /\ c.seen = 0
        BY Zenon DEF Idle
    <2>3. To(p, c.pc, c.op, c.mine, c.seen)
        BY <2>1, IdleCall, Replaced, Zenon
    <2> QED BY <2>2, <2>3, Zenon
<1>2. CASE p # Handler
    <2>1. call' = [call EXCEPT ![p] = Idle]
        BY <1>2, Zenon DEF StartFails
    <2> QED BY <2>1, ReturnsTo, Zenon DEF Returns
<1> QED BY <1>1, <1>2, Zenon

(* A call that goes on without the instance it held. *)
LEMMA Emptied ==
    ASSUME TypeOK, NEW p \in Tasks, NEW step \in Steps,
           call' = [call EXCEPT ![p] = [call[p] EXCEPT !.pc = step, !.mine = 0]]
    PROVE  To(p, step, call[p].op, 0, call[p].seen)
<1> DEFINE c == [call[p] EXCEPT !.pc = step, !.mine = 0]
<1>1. call[p] \in Calls /\ 0 \in 0 .. MaxSpawn
    BY SpawnAssumption DEF TypeOK
<1>2. c \in Calls /\ c.pc = step /\ c.op = call[p].op /\ c.mine = 0 /\ c.seen = call[p].seen
    BY ONLY <1>1, step \in Steps, Zenon DEF Calls
<1>3. To(p, c.pc, c.op, c.mine, c.seen)
    BY <1>2, Replaced, Zenon
<1> QED BY <1>2, <1>3, Zenon

(* Where the caller of a stop goes on. *)
AfterStop(p) ==
    \/ /\ To(p, "idle", "none", 0, 0) /\ call'[p] = Idle
       /\ call[p].op \notin {"shutdown", "shutdown2"}
    \/ /\ To(p, "check", call[p].op, 0, call[p].seen)
       /\ call[p].op = "restart"
    \/ /\ To(p, "again", call[p].op, 0, call[p].seen)
       /\ call[p].op = "shutdown"
    \/ /\ To(p, "shut", call[p].op, 0, call[p].seen)
       /\ call[p].op = "shutdown2"

(* A stop that returns holds nothing any more, and shutdown_all goes on. *)
LEMMA StopReturnsTo ==
    ASSUME TypeOK, NEW p \in Tasks, NEW ok \in BOOLEAN, StopReturns(p, ok)
    PROVE  AfterStop(p)
<1> DEFINE c(next) == [call[p] EXCEPT !.pc = next, !.mine = 0]
<1>1. CASE call[p].op = "restart" /\ ok
    <2>1. call' = [call EXCEPT ![p] = c("check")]
        BY <1>1, Zenon DEF StopReturns
    <2>2. To(p, "check", call[p].op, 0, call[p].seen)
        BY <2>1, Emptied, Zenon DEF Steps
    <2> QED BY <1>1, <2>2, Zenon DEF AfterStop
<1>2. CASE call[p].op = "shutdown"
    <2>1. call' = [call EXCEPT ![p] = c("again")]
        BY <1>2, Zenon DEF StopReturns
    <2>2. To(p, "again", call[p].op, 0, call[p].seen)
        BY <2>1, Emptied, Zenon DEF Steps
    <2> QED BY <1>2, <2>2, Zenon DEF AfterStop
<1>3. CASE call[p].op = "shutdown2"
    <2>1. call' = [call EXCEPT ![p] = c("shut")]
        BY <1>3, Zenon DEF StopReturns
    <2>2. To(p, "shut", call[p].op, 0, call[p].seen)
        BY <2>1, Emptied, Zenon DEF Steps
    <2> QED BY <1>3, <2>2, Zenon DEF AfterStop
<1>4. CASE ~(call[p].op = "restart" /\ ok) /\ call[p].op # "shutdown" /\ call[p].op # "shutdown2"
    <2>1. call' = [call EXCEPT ![p] = Idle]
        BY <1>4, Zenon DEF StopReturns
    <2> QED BY <1>4, <2>1, ReturnsTo, Zenon DEF AfterStop, Returns
<1> QED BY <1>1, <1>2, <1>3, <1>4, Zenon

(* What the type invariant says of the entry, the instances and a call. *)
LEMMA Facts ==
    ASSUME TypeOK
    PROVE  /\ entry.pid \in Nat /\ entry.child \in Nat /\ (Present <=> entry.pid # 0)
           /\ ~Present => entry.child = 0
           /\ NoEntry.pid = 0 /\ NoEntry.child = 0
           /\ spawned \in Nat /\ \A n \in alive : n \in Nat /\ n # 0 /\ n <= spawned
           /\ \A p \in Tasks : /\ call[p] \in Calls
                               /\ call[p].mine \in Nat /\ call[p].seen \in Nat
<1>1. /\ entry.pid \in Nat /\ entry.child \in Nat /\ spawned \in Nat
      /\ \A n \in alive : n \in Nat /\ n # 0 /\ n <= spawned
    BY SpawnAssumption DEF TypeOK, CollectorProcess
<1>2. \A p \in Tasks : call[p] \in Calls /\ call[p].mine \in Nat /\ call[p].seen \in Nat
    BY SpawnAssumption DEF TypeOK, Calls
<1>3. (Present <=> entry.pid # 0) /\ NoEntry.pid = 0 /\ NoEntry.child = 0
    BY Zenon DEF TypeOK, Present, NoEntry
<1>4. ~Present => entry.child = 0
    BY <1>3, Zenon DEF Present
<1> QED BY <1>1, <1>2, <1>3, <1>4, Zenon

----------------------------------------------------------------------------
(* Steps that change nothing the invariant is about: the map keeps its     *)
(* instance, no process is started, and a call stays on its side of every  *)
(* distinction the invariant makes.                                        *)

(* The call of q, before and after a step. *)
SameSide(q) ==
    /\ call'[q].mine = call[q].mine
    /\ \/ call'[q] = call[q]
       \/ /\ call'[q].pc \notin {"issue", "spawn", "insert", "announce", "rpc", "wait", "force", "reap"}
          /\ call[q].pc \notin {"issue", "spawn", "insert", "announce", "rpc", "wait", "force", "reap"}
          /\ call'[q].pc = "idle" => call'[q] = Idle
          /\ call'[q].op \in {"shutdown", "shutdown2"} => StopSide(call'[q].pc)
          /\ call'[q].seen \in {call[q].seen, 0, entry.pid}
          /\ call'[q].op = "shutdown2" \/ call'[q].pc \in {"again", "shut"} =>
                /\ call[q].op = "shutdown2" \/ call[q].pc \in {"again", "shut"}
                /\ call'[q].seen = call[q].seen
       \/ /\ call'[q].pc \in {"wait", "force"} /\ call[q].pc \in {"rpc", "wait", "force"}
          /\ call'[q].op = call[q].op /\ call'[q].seen = call[q].seen

Harmless ==
    /\ entry'.pid = entry.pid /\ entry'.child = entry.child
    /\ alive' \subseteq alive /\ stopped' \subseteq stopped \cup {entry.pid}
    /\ spawned' = spawned /\ faults' = faults /\ overlap' = overlap
    /\ \A q \in Tasks : SameSide(q)

(* A harmless step keeps what the invariant says of who holds what. *)
LEMMA HarmlessKeeps ==
    ASSUME ManagerInv, TypeOK', Harmless
    PROVE  Held' /\ Private' /\ (Quiet' => (Alone /\ HandedOver /\ Accounted /\ ShuttingDown)')
<1>a. TypeOK /\ Held /\ Private /\ (Quiet => Alone /\ HandedOver /\ Accounted /\ ShuttingDown)
    BY Zenon DEF ManagerInv
<1>b. /\ entry.pid \in Nat /\ spawned \in Nat /\ (Present' <=> Present) /\ (Quiet' <=> Quiet)
      /\ \A q \in Tasks :
            /\ Newborn(q)' <=> Newborn(q)
            /\ Stopping(q)' <=> Stopping(q)
            /\ Starting(q)' <=> Starting(q)
            /\ Holding(q)' <=> Holding(q)
      /\ Harmless
    <2>1. \A q \in Tasks :
             /\ Newborn(q)' <=> Newborn(q)
             /\ Stopping(q)' <=> Stopping(q)
             /\ Starting(q)' <=> Starting(q)
             /\ Holding(q)' <=> Holding(q)
        BY Zenon DEF Harmless, SameSide, Newborn, Stopping, Starting, Holding
    <2>2. Present' <=> entry'.pid # 0
        BY Zenon DEF TypeOK, Present, NoEntry
    <2> QED BY <1>a, <2>1, <2>2, Facts, Zenon DEF Harmless, Quiet, Signals
<1>1. Held'
    BY ONLY <1>a, <1>b DEF Held, Harmless, SameSide, Holding, StopSide
<1>2. Private'
    <2>1. \A p \in Tasks : Newborn(p) => call'[p] = call[p] /\ call[p].mine # 0
        BY ONLY <1>a, <1>b, Zenon DEF Harmless, SameSide, Newborn, Held, Holding
    <2> QED BY ONLY <1>a, <1>b, <2>1 DEF Private, Harmless, SameSide
<1>3. Quiet' => Alone' /\ HandedOver'
    BY ONLY <1>a, <1>b DEF Alone, HandedOver, Harmless, SameSide
<1>4. Quiet' => Accounted' /\ ShuttingDown'
    BY ONLY <1>a, <1>b DEF Accounted, ShuttingDown, Harmless, SameSide, Stopping
<1> QED BY <1>1, <1>2, <1>3, <1>4, Zenon

(* A harmless step that leaves the valid token, or revokes it for want of  *)
(* a collector, and begins no second look, keeps the whole invariant.      *)
LEMMA Kept ==
    ASSUME ManagerInv, TypeOK', Harmless,
           \/ token' = token
           \/ ~Present /\ \E n \in Instances : monitor[n] = "reap",
           \A n \in Instances : monitor'[n] = "reap" => monitor[n] = "reap"
    PROVE  ManagerInv'
<1>1. ASSUME overlap' = {}, faults' = {} PROVE TokenKept'
    <2>1. TypeOK /\ TokenKept
        BY <1>1, Zenon DEF ManagerInv, Harmless
    <2>2. /\ entry'.pid = entry.pid /\ entry'.child = entry.child /\ (Present' <=> Present)
          /\ \A q \in Tasks : SameSide(q)
        <3>1. Present <=> entry.pid # 0
            BY <2>1, Facts, Zenon
        <3>2. Present' <=> entry'.pid # 0
            BY Zenon DEF TypeOK, Present, NoEntry
        <3> QED BY <3>1, <3>2, Zenon DEF Harmless
    <2>3. \A q \in Tasks :
              /\ Newborn(q)' <=> Newborn(q)
              /\ Starting(q)' <=> Starting(q)
              /\ call'[q].mine = call[q].mine
        BY <2>2, Zenon DEF SameSide, Newborn, Starting
    <2>4. ~Present => entry.child = 0
        BY <2>1, Facts, Zenon
    <2> QED BY <2>1, <2>2, <2>3, <2>4, Zenon DEF TokenKept
<1> QED BY <1>1, HarmlessKeeps, Zenon DEF ManagerInv

(* An entry stays an entry. *)
LEMMA EntryStays ==
    ASSUME TypeOK, entry' \in CollectorProcess, entry'.pid = entry.pid, ~Present => entry' = entry
    PROVE  (entry.pid = 0 <=> entry = NoEntry)'
BY DEF TypeOK, Present, NoEntry

(* Marking the collector keeps its instance, and a missing one missing. *)
LEMMA SetStateFacts ==
    ASSUME TypeOK, NEW state \in States
    PROVE  /\ SetState(state) \in CollectorProcess
           /\ SetState(state).pid = entry.pid /\ SetState(state).child = entry.child
           /\ ~Present => SetState(state) = entry
BY Zenon DEF TypeOK, SetState, CollectorProcess

Rest == {"idle", "check", "running", "count", "failed", "stop", "again", "shut"}

(* A call between two steps that hold no instance. *)
LEMMA RestStep ==
    ASSUME ManagerInv, NEW p \in Tasks, NEW step \in Rest, NEW o \in Ops,
           NEW s \in {call[p].seen, 0, entry.pid},
           call[p].pc \in Rest, To(p, step, o, 0, s), step = "idle" => call'[p] = Idle,
           o \in {"shutdown", "shutdown2"} => StopSide(step),
           o = "shutdown2" \/ step \in {"again", "shut"} =>
              s = call[p].seen /\ (call[p].op = "shutdown2" \/ call[p].pc \in {"again", "shut"})
    PROVE  \A q \in Tasks : SameSide(q)
<1>1. call[p].mine = 0
    BY Zenon DEF ManagerInv, Held, Holding, Rest
<1> QED BY <1>1, Zenon DEF To, SameSide, Rest

(* Steps of a task that do not touch what the invariant is about. *)
LEMMA CallStopKeeps ==
    ASSUME ManagerInv, NEW p \in Tasks, CallStop(p)
    PROVE  ManagerInv'
<1>1. /\ call[p] = Idle /\ Present
      /\ \E o \in {"stop", "kill", "restart", "shutdown"} :
            call' = [call EXCEPT ![p] = [pc |-> "stop", op |-> o, mine |-> 0,
                        cnt |-> IF o = "restart" THEN entry.count ELSE 0,
                        seen |-> IF o = "shutdown" THEN entry.pid ELSE 0]]
      /\ UNCHANGED <<entry, token, requests, monitor, pending, spawned, alive, stopped, faults,
                     overlap, autos>>
    BY Zenon DEF CallStop, managerVars, monitorVars, osVars
<1>2. PICK o \in {"stop", "kill", "restart", "shutdown"} :
         call' = [call EXCEPT ![p] = [pc |-> "stop", op |-> o, mine |-> 0,
                     cnt |-> IF o = "restart" THEN entry.count ELSE 0,
                     seen |-> IF o = "shutdown" THEN entry.pid ELSE 0]]
    BY <1>1, Zenon
<1> DEFINE s == IF o = "shutdown" THEN entry.pid ELSE 0
           c == [pc |-> "stop", op |-> o, mine |-> 0,
                 cnt |-> IF o = "restart" THEN entry.count ELSE 0, seen |-> s]
<1>3. c \in Calls
    <2>1. /\ entry.pid \in 0 .. MaxSpawn /\ entry.count \in Nat /\ 0 \in 0 .. MaxSpawn
          /\ o \in Ops /\ "stop" \in Steps
        BY SpawnAssumption DEF ManagerInv, TypeOK, CollectorProcess, Ops, Steps
    <2> QED BY ONLY <2>1, Zenon DEF Calls
<1>4. TypeOK /\ To(p, "stop", o, 0, s)
    <2>1. To(p, c.pc, c.op, c.mine, c.seen)
        BY <1>2, <1>3, Replaced, Zenon DEF ManagerInv
    <2> QED BY <2>1, Zenon DEF ManagerInv
<1>5. TypeOK'
    BY <1>1, <1>4, Zenon DEF TypeOK, To
<1>6. \A q \in Tasks : SameSide(q)
    <2>1. call[p].pc = "idle" /\ s \in {call[p].seen, 0, entry.pid} /\ o \in Ops
        BY <1>1, IdleCall, Zenon DEF Ops
    <2> QED BY <1>4, <2>1, RestStep, Zenon DEF Rest, StopSide
<1> QED BY <1>1, <1>5, <1>6, Kept, Zenon DEF Harmless

LEMMA MarksKeep ==
    ASSUME ManagerInv, NEW p \in Tasks, MarkRunning(p) \/ SetCount(p)
    PROVE  ManagerInv'
<1> TypeOK
    BY Zenon DEF ManagerInv
<1>1. /\ call[p].pc \in {"running", "count"}
      /\ UNCHANGED <<token, requests, monitor, pending, spawned, alive, stopped, faults,
                     overlap, autos>>
      /\ Goto(p, "count") \/ Returns(p)
    BY Zenon DEF MarkRunning, SetCount, monitorVars, osVars
<1>2. /\ entry' \in CollectorProcess /\ entry'.pid = entry.pid /\ entry'.child = entry.child
      /\ ~Present => entry' = entry
    <2>1. CASE MarkRunning(p)
        BY <2>1, SetStateFacts, Zenon DEF MarkRunning, States
    <2>2. CASE SetCount(p)
        <3>1. NextCount(p) \in Nat /\ entry \in CollectorProcess
            BY Facts DEF NextCount, Calls, TypeOK
        <3>2. CASE Present
            <4>1. entry' = [entry EXCEPT !.count = NextCount(p)]
                BY <2>2, <3>2, Zenon DEF SetCount
            <4> QED BY ONLY <3>1, <3>2, <4>1, Zenon DEF CollectorProcess
        <3>3. CASE ~Present
            BY <2>2, <3>1, <3>3, Zenon DEF SetCount
        <3> QED BY <3>2, <3>3, Zenon
    <2> QED BY <2>1, <2>2, Zenon
<1>3. call' \in [Tasks -> Calls] /\ \A q \in Tasks : SameSide(q)
    <2>1. CASE Goto(p, "count")
        <3>1. To(p, "count", call[p].op, call[p].mine, call[p].seen)
            BY <2>1, GotoTo, Zenon DEF Steps
        <3>2. call[p].mine = 0 /\ call[p].op \notin {"shutdown", "shutdown2"}
            BY <1>1, Facts, Zenon DEF ManagerInv, Held, Holding, StopSide
        <3>3. call'[p].op = call[p].op
            BY <3>1, Zenon DEF To
        <3> QED BY <1>1, <3>1, <3>2, <3>3, Zenon DEF To, SameSide
    <2>2. CASE Returns(p)
        BY <1>1, <2>2, ReturnsTo, RestStep, Zenon DEF Rest, Ops, To
    <2> QED BY <1>1, <2>1, <2>2, Zenon
<1>4. TypeOK'
    BY <1>1, <1>2, <1>3, EntryStays, Zenon DEF TypeOK
<1> QED BY <1>1, <1>2, <1>3, <1>4, Kept, Zenon DEF Harmless

LEMMA StopGoesOn ==
    ASSUME ManagerInv, NEW p \in Tasks, RpcFails(p) \/ WaitRunsOut(p)
    PROVE  ManagerInv'
<1> TypeOK
    BY Zenon DEF ManagerInv
<1>1. /\ Goto(p, "wait") \/ Goto(p, "force")
      /\ UNCHANGED <<entry, token, requests, monitor, pending, spawned, alive, stopped, faults,
                     overlap, autos>>
    BY Zenon DEF RpcFails, WaitRunsOut, managerVars, monitorVars, osVars
<1>2. call[p].pc \in {"rpc", "wait"}
    BY Zenon DEF RpcFails, WaitRunsOut
<1>3. PICK step \in {"wait", "force"} : To(p, step, call[p].op, call[p].mine, call[p].seen)
    BY <1>1, GotoTo, Zenon DEF Steps
<1>4. TypeOK'
    BY <1>1, <1>3, Zenon DEF TypeOK, To
<1>5. \A q \in Tasks : SameSide(q)
    BY <1>2, <1>3, Zenon DEF To, SameSide
<1> QED BY <1>1, <1>4, <1>5, Kept, Zenon DEF Harmless

LEMMA ShutdownKeeps ==
    ASSUME ManagerInv, NEW p \in Tasks, SecondPass(p) \/ ShutdownReturns(p)
    PROVE  ManagerInv'
<1> TypeOK
    BY Zenon DEF ManagerInv
<1>1. UNCHANGED <<entry, token, requests, monitor, pending, spawned, alive, stopped, faults,
                  overlap, autos>>
    BY Zenon DEF SecondPass, ShutdownReturns, managerVars, monitorVars, osVars
<1>2. call' \in [Tasks -> Calls] /\ \A q \in Tasks : SameSide(q)
    <2>1. CASE SecondPass(p)
        <3> DEFINE step == IF Present THEN "stop" ELSE "shut"
        <3>1. /\ call[p].pc = "again" /\ step \in {"stop", "shut"}
              /\ call' = [call EXCEPT ![p].pc = step, ![p].op = "shutdown2"]
            BY <2>1, Zenon DEF SecondPass
        <3> HIDE DEF step
        <3> DEFINE c == [call[p] EXCEPT !.pc = step, !.op = "shutdown2"]
        <3>2. /\ c \in Calls /\ c.pc = step /\ c.op = "shutdown2"
              /\ c.mine = call[p].mine /\ c.seen = call[p].seen
            <4>1. call[p] \in Calls /\ step \in Steps /\ "shutdown2" \in Ops
                BY <3>1, Zenon DEF TypeOK, Steps, Ops
            <4> QED BY ONLY <4>1, Zenon DEF Calls
        <3>3. To(p, c.pc, c.op, c.mine, c.seen)
            <4>1. call' = [call EXCEPT ![p] = c]
                BY <3>1, Zenon
            <4> QED BY <3>2, <4>1, Replaced, Zenon
        <3>4. To(p, step, "shutdown2", call[p].mine, call[p].seen)
            BY <3>2, <3>3, Zenon
        <3> QED BY <3>1, <3>4, Zenon DEF To, SameSide, StopSide
    <2>2. CASE ShutdownReturns(p)
        BY <2>2, ReturnsTo, RestStep, Zenon DEF ShutdownReturns, Rest, Ops, To
    <2> QED BY <2>1, <2>2, Zenon
<1>3. TypeOK'
    BY <1>1, <1>2, Zenon DEF TypeOK
<1> QED BY <1>1, <1>2, <1>3, Kept, Zenon DEF Harmless

(* Steps of the handler, of the operating system and of a monitor. *)
LEMMA HandlerKeeps ==
    ASSUME ManagerInv, TakeRequest \/ MarkFailed
    PROVE  ManagerInv'
<1> TypeOK /\ Handler \in Tasks
    BY Zenon DEF ManagerInv, Tasks
<1>1. UNCHANGED <<token, monitor, pending, spawned, alive, stopped, faults, overlap, autos>>
    BY Zenon DEF TakeRequest, MarkFailed, monitorVars, osVars
<1>2. CASE TakeRequest
    <2>1. /\ call[Handler].pc = "idle" /\ requests # <<>> /\ requests' = Tail(requests)
          /\ call' = [call EXCEPT ![Handler].pc = "check", ![Handler].cnt = Head(requests)]
          /\ entry' = entry
        BY <1>2, Zenon DEF TakeRequest
    <2>2. requests' \in Seq(Nat) /\ Head(requests) \in Nat
        BY <2>1 DEF TypeOK
    <2> DEFINE old == call[Handler]
               c == [old EXCEPT !.pc = "check", !.cnt = Head(requests)]
    <2>3. To(Handler, "check", old.op, old.mine, old.seen)
        <3>1. old \in Calls /\ "check" \in Steps
            BY Zenon DEF TypeOK, Steps
        <3>2. /\ c \in Calls /\ c.pc = "check" /\ c.op = old.op
              /\ c.mine = old.mine /\ c.seen = old.seen
            BY ONLY <2>2, <3>1, Zenon DEF Calls
        <3>3. To(Handler, c.pc, c.op, c.mine, c.seen)
            <4>1. call' = [call EXCEPT ![Handler] = c]
                BY <2>1, Zenon
            <4> QED BY <3>2, <4>1, Replaced, Zenon
        <3> QED BY <3>2, <3>3, Zenon
    <2>4. \A q \in Tasks : SameSide(q)
        <3>1. old.op = "none"
            BY <2>1, IdleCall, Zenon DEF ManagerInv, Held
        <3> QED BY <2>1, <2>3, <3>1, Zenon DEF To, SameSide
    <2>5. TypeOK'
        BY <1>1, <2>1, <2>2, <2>3, Zenon DEF TypeOK, To
    <2> QED BY <1>1, <2>1, <2>4, <2>5, Kept, Zenon DEF Harmless
<1>3. CASE MarkFailed
    <2>1. /\ call[Handler].pc = "failed" /\ entry' = SetState("Failed") /\ Returns(Handler)
          /\ requests' = requests
        BY <1>3, Zenon DEF MarkFailed
    <2>2. /\ entry' \in CollectorProcess /\ entry'.pid = entry.pid /\ entry'.child = entry.child
          /\ ~Present => entry' = entry
        BY <2>1, SetStateFacts, Zenon DEF States
    <2>3. call' \in [Tasks -> Calls] /\ \A q \in Tasks : SameSide(q)
        BY <2>1, ReturnsTo, RestStep, Zenon DEF Rest, Ops, To
    <2>4. TypeOK'
        BY <1>1, <2>1, <2>2, <2>3, EntryStays, Zenon DEF TypeOK
    <2> QED BY <1>1, <2>2, <2>3, <2>4, Kept, Zenon DEF Harmless
<1> QED BY <1>2, <1>3, Zenon

LEMMA OutsideKeeps ==
    ASSUME ManagerInv, Pause \/ Resume \/ Exit
    PROVE  ManagerInv'
<1> TypeOK
    BY Zenon DEF ManagerInv
<1>1. UNCHANGED <<token, requests, monitor, pending, call, spawned, faults, overlap, autos>>
    BY Zenon DEF Pause, Resume, Exit, managerVars, monitorVars
<1>2. /\ entry' \in CollectorProcess /\ entry'.pid = entry.pid /\ entry'.child = entry.child
      /\ ~Present => entry' = entry
    <2>1. CASE Pause \/ Resume
        BY <2>1, SetStateFacts, Zenon DEF Pause, Resume, States
    <2>2. CASE Exit
        BY <2>2, Zenon DEF Exit, managerVars, TypeOK
    <2> QED BY <2>1, <2>2, Zenon
<1>3. /\ alive' \subseteq alive /\ stopped' \subseteq alive'
      /\ stopped' \subseteq stopped \cup {entry.pid}
    BY Zenon DEF Pause, Resume, Exit, TypeOK
<1>4. TypeOK'
    BY <1>1, <1>2, <1>3, EntryStays, Zenon DEF TypeOK
<1>5. \A q \in Tasks : SameSide(q)
    BY <1>1, Zenon DEF SameSide
<1> QED BY <1>1, <1>2, <1>3, <1>4, <1>5, Kept, Zenon DEF Harmless

LEMMA ReapKeeps ==
    ASSUME ManagerInv, NEW n \in Instances, Reap(n)
    PROVE  ManagerInv'
<1> TypeOK
    BY Zenon DEF ManagerInv
<1>1. /\ monitor[n] = "reap" /\ token' = (IF Present THEN token ELSE 0)
      /\ requests' = (IF pending[n] # None THEN Append(requests, pending[n]) ELSE requests)
      /\ \E m \in {"poll", "done"} : monitor' = [monitor EXCEPT ![n] = m]
      /\ pending' = [pending EXCEPT ![n] = None]
      /\ UNCHANGED <<entry, call, spawned, alive, stopped, faults, overlap, autos>>
    BY Zenon DEF Reap, osVars
<1>2. requests' \in Seq(Nat) /\ pending' \in [Instances -> Nat \cup {None}]
    BY <1>1 DEF TypeOK
<1>3. /\ monitor' \in [Instances -> {"none", "poll", "reap", "done"}]
      /\ \A m \in Instances : monitor'[m] = "reap" => monitor[m] = "reap"
    BY <1>1, Zenon DEF TypeOK
<1>4. token' \in 0 .. spawned
    BY <1>1 DEF TypeOK
<1>5. TypeOK'
    BY <1>1, <1>2, <1>3, <1>4, Zenon DEF TypeOK
<1>6. \A q \in Tasks : SameSide(q)
    BY <1>1, Zenon DEF SameSide
<1> QED BY <1>1, <1>3, <1>5, <1>6, Kept, Zenon DEF Harmless

----------------------------------------------------------------------------
(* The steps of a start.                                                   *)

(* The parts of the invariant, and that its conditions only ever end. *)
LEMMA Parts ==
    ASSUME ManagerInv
    PROVE  /\ TypeOK /\ Held /\ Private
           /\ Quiet => Alone /\ HandedOver /\ Accounted /\ ShuttingDown
           /\ overlap = {} /\ faults = {} => TokenKept
           /\ faults' = faults /\ overlap \subseteq overlap' => (Quiet' => Quiet)
BY Zenon DEF ManagerInv, Quiet, Signals

(* Past the check of the map: nothing is stopping, or overlap says so. *)
LEMMA BeginStart ==
    ASSUME ManagerInv, NEW p \in Tasks, call[p].pc \in {"idle", "check"}, PassesCheck(p),
           NEW o \in Ops, o \in {call[p].op, "start"}, To(p, "issue", o, 0, call[p].seen),
           UNCHANGED <<managerVars, monitorVars, spawned, osVars, faults, autos>>
    PROVE  ManagerInv'
<1>a. /\ TypeOK /\ Held /\ Private
      /\ Quiet => Alone /\ HandedOver /\ Accounted /\ ShuttingDown
      /\ overlap = {} /\ faults = {} => TokenKept
    BY Parts, Zenon
<1>b. /\ p \in Tasks /\ call[p].pc \in {"idle", "check"} /\ o \in {call[p].op, "start"}
      /\ To(p, "issue", o, 0, call[p].seen)
      /\ UNCHANGED <<entry, token, requests, monitor, pending, spawned, alive, stopped, faults, autos>>
      /\ Present' = Present /\ ~Present
      /\ overlap' \subseteq {"stop", "start"} /\ overlap \subseteq overlap'
      /\ "stop" \notin overlap' => \A q \in Tasks : q # p => ~Stopping(q)
      /\ "start" \notin overlap' => \A q \in Tasks : q # p => ~Starting(q)
    BY <1>a, Zenon DEF managerVars, monitorVars, osVars, PassesCheck, Present, TypeOK
<1>1. TypeOK'
    BY ONLY <1>a, <1>b, Zenon DEF TypeOK, To
<1>2. Held' /\ Private'
    BY ONLY <1>a, <1>b DEF Held, Private, Holding, Newborn, StopSide, To
<1>3. Quiet' => (Alone /\ HandedOver /\ Accounted /\ ShuttingDown)'
    BY ONLY <1>a, <1>b DEF Quiet, Signals, Alone, HandedOver, Accounted, ShuttingDown,
            Held, Holding, Stopping, To
<1>4. (overlap = {} /\ faults = {} => TokenKept)'
    BY ONLY <1>a, <1>b, Zenon DEF TokenKept, Starting, Newborn, To
<1> QED BY <1>1, <1>2, <1>3, <1>4, Zenon DEF ManagerInv

LEMMA CallStartKeeps ==
    ASSUME ManagerInv, NEW p \in Tasks, CallStart(p)
    PROVE  ManagerInv'
<1> DEFINE c == [Idle EXCEPT !.pc = "issue", !.op = "start"]
<1>1. /\ call[p] = Idle /\ PassesCheck(p)
      /\ call' = [call EXCEPT ![p] = [call[p] EXCEPT !.pc = "issue", !.op = "start"]]
      /\ UNCHANGED <<managerVars, monitorVars, spawned, osVars, faults, autos>>
    BY Zenon DEF CallStart
<1>2. /\ c \in Calls /\ c.pc = "issue" /\ c.op = "start" /\ c.mine = 0 /\ c.seen = 0
    <2>1. "issue" \in Steps /\ "start" \in Ops /\ 0 \in 0 .. MaxSpawn
        BY SpawnAssumption DEF Steps, Ops
    <2> QED BY ONLY <2>1, IdleCall, Zenon DEF Calls
<1>3. To(p, c.pc, c.op, c.mine, c.seen)
    BY <1>1, <1>2, Replaced, Zenon DEF ManagerInv
<1>4. To(p, "issue", "start", 0, call[p].seen) /\ call[p].pc \in {"idle", "check"}
    BY <1>1, <1>2, <1>3, IdleCall, Zenon
<1> QED BY <1>1, <1>4, BeginStart, Zenon DEF Ops

LEMMA CheckKeeps ==
    ASSUME ManagerInv, NEW p \in Tasks, Check(p)
    PROVE  ManagerInv'
<1>a. TypeOK /\ call[p].pc = "check" /\ call[p].mine = 0 /\ call[p].op \in Ops
    BY Parts, Facts, Zenon DEF Check, Held, Holding, Calls
<1>b. UNCHANGED <<managerVars, monitorVars, spawned, osVars, faults, autos>>
    BY Zenon DEF Check
<1>1. CASE PassesCheck(p) /\ Goto(p, "issue")
    <2>1. To(p, "issue", call[p].op, call[p].mine, call[p].seen)
        BY <1>a, <1>1, GotoTo, Zenon DEF Steps
    <2>2. To(p, "issue", call[p].op, 0, call[p].seen)
        BY <1>a, <2>1, Zenon
    <2> QED BY <1>1, <1>a, <1>b, <2>2, BeginStart, Zenon
<1>2. CASE StartFails(p) /\ UNCHANGED overlap
    <2>1. PICK step \in {"idle", "failed"} :
             To(p, step, "none", 0, 0) /\ (step = "idle" => call'[p] = Idle)
        BY <1>a, <1>2, StartFailsTo, Zenon
    <2>2. \A q \in Tasks : SameSide(q)
        BY <1>a, <2>1, RestStep, Zenon DEF Rest, Ops
    <2>3. TypeOK'
        BY <1>a, <1>b, <1>2, <2>1, Zenon DEF TypeOK, To, managerVars, monitorVars, osVars
    <2> QED BY <1>b, <1>2, <2>2, <2>3, Kept, Zenon DEF Harmless, managerVars, monitorVars, osVars
<1> QED BY <1>1, <1>2, Zenon DEF Check

(* A start that fails leaves no process behind. *)
LEMMA StartGivesUp ==
    ASSUME ManagerInv, NEW p \in Tasks, Starting(p), StartFails(p), TypeOK',
           alive' \subseteq alive, alive \ {call[p].mine} \subseteq alive', call[p].mine \notin alive',
           UNCHANGED <<entry, token, monitor, spawned, stopped, faults, overlap>>
    PROVE  ManagerInv'
<1>a. /\ TypeOK /\ Held /\ Private
      /\ Quiet => Alone /\ HandedOver /\ Accounted /\ ShuttingDown
      /\ overlap = {} /\ faults = {} => TokenKept
    BY Parts, Zenon
<1>c. PICK step \in {"idle", "failed"} :
         To(p, step, "none", 0, 0) /\ (step = "idle" => call'[p] = Idle)
    BY <1>a, StartFailsTo, Zenon
<1>b. /\ p \in Tasks /\ Starting(p) /\ Present' = Present /\ spawned \in Nat
      /\ step \in {"idle", "failed"} /\ To(p, step, "none", 0, 0) /\ (step = "idle" => call'[p] = Idle)
      /\ alive' \subseteq alive /\ call[p].mine \notin alive'
      /\ UNCHANGED <<entry, token, monitor, spawned, stopped, faults, overlap>>
    BY <1>a, <1>c, Facts, Zenon DEF Present
<1>2. Held' /\ Private'
    BY ONLY <1>a, <1>b DEF Held, Private, Holding, Newborn, To
<1>3. Quiet' => (Alone /\ HandedOver /\ Accounted /\ ShuttingDown)'
    <2>1. Quiet' => \A q \in Tasks : ~Stopping(q)
        BY ONLY <1>a, <1>b, Zenon DEF Quiet, Signals, Alone, Stopping, Starting
    <2> QED BY ONLY <1>a, <1>b, <2>1
               DEF Quiet, Signals, Alone, HandedOver, Accounted, ShuttingDown, Stopping, To
<1>4. (overlap = {} /\ faults = {} => TokenKept)'
    BY ONLY <1>a, <1>b, Zenon DEF TokenKept, Starting, Newborn, To
<1> QED BY <1>2, <1>3, <1>4, Zenon DEF ManagerInv

LEMMA IssueKeeps ==
    ASSUME ManagerInv, NEW p \in Tasks, Issue(p)
    PROVE  ManagerInv'
<1>a. /\ TypeOK /\ Held /\ Private
      /\ Quiet => Alone /\ HandedOver /\ Accounted /\ ShuttingDown
      /\ overlap = {} /\ faults = {} => TokenKept
    BY Parts, Zenon
<1>b. /\ p \in Tasks /\ call[p].pc = "issue" /\ Present' = Present
      /\ UNCHANGED <<entry, requests, monitor, pending, alive, stopped, faults, overlap, autos>>
      /\ "slow" \in faults \/ \A n \in Instances : monitor[n] # "reap"
    BY Zenon DEF Issue, monitorVars, osVars, Present
<1>c. /\ spawned \in Nat /\ MaxSpawn \in Nat /\ call[p].mine = 0 /\ call[p] \in Calls
      /\ \A n \in alive : n \in Nat /\ n # 0 /\ n <= spawned
      /\ stopped \subseteq alive /\ entry.pid \in Nat /\ entry.child \in Nat
      /\ ~Present => entry.child = 0
      /\ \A q \in Tasks : call[q].mine \in Nat /\ call[q].seen \in Nat
    BY <1>a, <1>b, Facts, SpawnAssumption, Zenon DEF Held, Holding, TypeOK
<1>1. CASE spawned < MaxSpawn
    <2> DEFINE c == [call[p] EXCEPT !.pc = "spawn", !.mine = spawned + 1]
    <2>1. spawned' = spawned + 1 /\ token' = spawned + 1 /\ call' = [call EXCEPT ![p] = c]
        BY <1>1, Zenon DEF Issue
    <2>2. /\ c \in Calls /\ c.pc = "spawn" /\ c.op = call[p].op
          /\ c.mine = spawned + 1 /\ c.seen = call[p].seen
        <3>1. call[p] \in Calls /\ "spawn" \in Steps /\ spawned + 1 \in 0 .. MaxSpawn
            BY <1>1, <1>c DEF Steps
        <3> QED BY ONLY <3>1, Zenon DEF Calls
    <2>3. To(p, c.pc, c.op, c.mine, c.seen)
        BY <1>a, <2>1, <2>2, Replaced, Zenon
    <2>b. /\ To(p, "spawn", call[p].op, spawned + 1, call[p].seen)
          /\ spawned' = spawned + 1 /\ token' = spawned + 1
        BY <2>1, <2>2, <2>3, Zenon
    <2>4. TypeOK'
        <3>1. spawned' \in 0 .. MaxSpawn /\ token' \in 0 .. spawned' /\ alive' \subseteq 1 .. spawned'
            BY ONLY <1>1, <1>b, <1>c, <2>b
        <3> QED BY ONLY <1>a, <1>b, <2>b, <3>1, Zenon DEF TypeOK, To
    <2>5. Held' /\ Private'
        <3>1. Held'
            BY ONLY <1>a, <1>b, <1>c, <2>b DEF Held, Holding, StopSide, To
        <3>2. Private'
            BY ONLY <1>a, <1>b, <1>c, <2>b DEF Held, Private, Holding, Newborn, To
        <3> QED BY <3>1, <3>2, Zenon
    <2>6. Quiet' => (Alone /\ HandedOver /\ Accounted /\ ShuttingDown)'
        <3>1. Quiet' => \A q \in Tasks : ~Stopping(q)
            BY ONLY <1>a, <1>b, Zenon DEF Quiet, Signals, Alone, Stopping, Starting
        <3> QED BY ONLY <1>a, <1>b, <1>c, <2>b, <3>1
                   DEF Quiet, Signals, Alone, HandedOver, Accounted, ShuttingDown, Stopping, To
    <2>7. (overlap = {} /\ faults = {} => TokenKept)'
        BY ONLY <1>a, <1>b, <1>c, <2>b DEF TokenKept, Starting, Newborn, To
    <2> QED BY <2>4, <2>5, <2>6, <2>7, Zenon DEF ManagerInv
<1>2. CASE ~(spawned < MaxSpawn)
    <2>1. StartFails(p) /\ UNCHANGED <<spawned, token>>
        BY <1>2, Zenon DEF Issue
    <2>2. call' \in [Tasks -> Calls]
        BY <1>a, <2>1, StartFailsTo, Zenon DEF To
    <2>3. TypeOK'
        BY <1>a, <1>b, <2>1, <2>2, Zenon DEF TypeOK
    <2>4. Starting(p) /\ call[p].mine \notin alive
        BY <1>b, <1>c, Zenon DEF Starting
    <2> QED BY <1>b, <2>1, <2>3, <2>4, StartGivesUp, Zenon
<1> QED BY <1>1, <1>2, Zenon

LEMMA SpawnKeeps ==
    ASSUME ManagerInv, NEW p \in Tasks, Spawn(p)
    PROVE  ManagerInv'
<1>a. /\ TypeOK /\ Held /\ Private
      /\ Quiet => Alone /\ HandedOver /\ Accounted /\ ShuttingDown
      /\ overlap = {} /\ faults = {} => TokenKept
    BY Parts, Zenon
<1>b. /\ p \in Tasks /\ call[p].pc = "spawn" /\ alive' = alive \cup {call[p].mine}
      /\ UNCHANGED <<entry, token, requests, monitor, pending, spawned, stopped, faults, overlap, autos>>
      /\ To(p, "insert", call[p].op, call[p].mine, call[p].seen)
    <2>1. Goto(p, "insert")
        BY Zenon DEF Spawn
    <2>2. To(p, "insert", call[p].op, call[p].mine, call[p].seen)
        BY <1>a, <2>1, GotoTo, Zenon DEF Steps
    <2> QED BY <2>2, Zenon DEF Spawn, managerVars, monitorVars
<1>1. TypeOK'
    <2>1. call[p].mine \in 1 .. spawned
        BY <1>a, <1>b, Facts DEF Held, Holding
    <2> QED BY ONLY <1>a, <1>b, <2>1, Zenon DEF TypeOK, To
<1>2. Held' /\ Private'
    BY ONLY <1>a, <1>b DEF Held, Private, Holding, Newborn, StopSide, To
<1>3. Quiet' => (Alone /\ HandedOver /\ Accounted /\ ShuttingDown)'
    <2>1. Quiet' => \A q \in Tasks : ~Stopping(q)
        BY ONLY <1>a, <1>b, Zenon DEF Quiet, Signals, Alone, Stopping, Starting
    <2> QED BY ONLY <1>a, <1>b, <2>1 DEF Quiet, Signals, Alone, HandedOver, Accounted, ShuttingDown,
                   Private, Newborn, Stopping, To
<1>4. (overlap = {} /\ faults = {} => TokenKept)'
    BY ONLY <1>a, <1>b, Zenon DEF TokenKept, Starting, Newborn, To, Present
<1> QED BY <1>1, <1>2, <1>3, <1>4, Zenon DEF ManagerInv

LEMMA SpawnFailsKeeps ==
    ASSUME ManagerInv, NEW p \in Tasks, SpawnFails(p)
    PROVE  ManagerInv'
<1>1. TypeOK /\ Private
    BY Parts, Zenon
<1>2. /\ call[p].pc = "spawn" /\ StartFails(p)
      /\ UNCHANGED <<entry, token, requests, monitor, pending, spawned, alive, stopped, faults,
                     overlap, autos>>
    BY Zenon DEF SpawnFails, managerVars, monitorVars, osVars
<1>3. call' \in [Tasks -> Calls]
    BY <1>1, <1>2, StartFailsTo, Zenon DEF To
<1>4. TypeOK'
    BY <1>1, <1>2, <1>3, Zenon DEF TypeOK
<1>5. Starting(p) /\ call[p].mine \notin alive
    BY <1>1, <1>2, Zenon DEF Starting, Private, Newborn
<1> QED BY <1>2, <1>4, <1>5, StartGivesUp, Zenon

LEMMA InsertKeeps ==
    ASSUME ManagerInv, NEW p \in Tasks, Insert(p)
    PROVE  ManagerInv'
<1>a. /\ TypeOK /\ Held /\ Private
      /\ Quiet => Alone /\ HandedOver /\ Accounted /\ ShuttingDown
      /\ overlap = {} /\ faults = {} => TokenKept
    BY Parts, Zenon
<1>b. /\ p \in Tasks /\ call[p].pc = "insert"
      /\ UNCHANGED <<token, requests, monitor, pending, spawned, stopped, faults, overlap>>
    BY Zenon DEF Insert, monitorVars
<1>1. CASE StillAbsent
    <2>1. /\ entry' = [pid |-> call[p].mine, child |-> call[p].mine, state |-> "Starting",
                       count |-> 0, rpc |-> FALSE]
          /\ autos' = (IF p = Handler THEN autos + 1 ELSE autos - MaxRestarts)
          /\ Goto(p, "announce") /\ alive' = alive /\ ~Present
        BY <1>1, Zenon DEF Insert, StillAbsent
    <2>b. /\ To(p, "announce", call[p].op, call[p].mine, call[p].seen)
          /\ call[p].mine \in 1 .. spawned /\ spawned \in Nat /\ alive' = alive
          /\ entry'.pid = call[p].mine /\ entry'.child = call[p].mine /\ entry.child = 0
          /\ \A n \in alive : n # 0
        <3>1. To(p, "announce", call[p].op, call[p].mine, call[p].seen)
            BY <1>a, <2>1, GotoTo, Zenon DEF Steps
        <3> QED BY <1>a, <1>b, <2>1, <3>1, Facts DEF Held, Holding
    <2>2. TypeOK'
        <3>1. entry' \in CollectorProcess
            BY <1>a, <2>1, Facts, Zenon DEF CollectorProcess, States, Calls
        <3>2. (entry.pid = 0 <=> entry = NoEntry)' /\ autos' \in Int
            BY <1>a, <2>1, <2>b, SpawnAssumption DEF NoEntry, TypeOK
        <3> QED BY ONLY <1>a, <1>b, <2>b, <3>1, <3>2, Zenon DEF TypeOK, To
    <2>3. Held' /\ Private'
        BY ONLY <1>a, <1>b, <2>b DEF Held, Private, Holding, Newborn, StopSide, To
    <2>4. Quiet' => (Alone /\ HandedOver /\ Accounted /\ ShuttingDown)'
        <3>1. Quiet' => \A q \in Tasks : ~Stopping(q)
            BY ONLY <1>a, <1>b, Zenon DEF Quiet, Signals, Alone, Stopping, Starting
        <3>2. Quiet' => Alone' /\ HandedOver' /\ ShuttingDown'
            BY ONLY <1>a, <1>b, <2>b, <3>1
               DEF Quiet, Signals, Alone, HandedOver, ShuttingDown, Stopping, Held, Holding, To
        <3>3. Quiet' => Accounted'
            <4>1. \A q \in Tasks : call'[q].mine = call[q].mine
                BY <2>b, Zenon DEF To
            <4> QED BY ONLY <1>a, <1>b, <2>b, <4>1, Zenon DEF Quiet, Signals, Accounted
        <3> QED BY <3>2, <3>3, Zenon
    <2>5. (overlap = {} /\ faults = {} => TokenKept)'
        BY ONLY <1>a, <1>b, <2>b, Zenon DEF TokenKept, Starting, Newborn, To
    <2> QED BY <2>2, <2>3, <2>4, <2>5, Zenon DEF ManagerInv
<1>2. CASE ~StillAbsent
    <2>1. /\ alive' = alive \ {call[p].mine} /\ StartFails(p) /\ UNCHANGED <<entry, autos>>
          /\ call[p].mine \notin stopped /\ Starting(p)
        BY <1>2, <1>a, <1>b, Zenon DEF Insert, Private, Newborn, Starting
    <2>2. call' \in [Tasks -> Calls]
        BY <1>a, <2>1, StartFailsTo, Zenon DEF To
    <2>3. TypeOK'
        BY <1>a, <1>b, <2>1, <2>2, Zenon DEF TypeOK
    <2> QED BY <1>b, <2>1, <2>3, StartGivesUp, Zenon
<1> QED BY <1>1, <1>2, Zenon

LEMMA AnnounceKeeps ==
    ASSUME ManagerInv, NEW p \in Tasks, Announce(p)
    PROVE  ManagerInv'
<1>a. /\ TypeOK /\ Held /\ Private
      /\ Quiet => Alone /\ HandedOver /\ Accounted /\ ShuttingDown
      /\ overlap = {} /\ faults = {} => TokenKept
    BY Parts, Zenon
<1>1. /\ call[p].pc = "announce"
      /\ UNCHANGED <<token, requests, pending, spawned, alive, stopped, faults, overlap, autos>>
      /\ monitor' = [monitor EXCEPT ![call[p].mine] = "poll"]
    BY Zenon DEF Announce, osVars
<1>2. To(p, "running", call[p].op, 0, call[p].mine)
    <2> DEFINE c == [call[p] EXCEPT !.pc = "running", !.mine = 0, !.seen = call[p].mine]
    <2>1. call[p] \in Calls /\ "running" \in Steps /\ 0 \in 0 .. MaxSpawn
        BY <1>a, SpawnAssumption DEF TypeOK, Steps
    <2>2. /\ c \in Calls /\ c.pc = "running" /\ c.op = call[p].op /\ c.mine = 0
          /\ c.seen = call[p].mine
        BY ONLY <2>1, Zenon DEF Calls
    <2>3. call' = [call EXCEPT ![p] = c]
        BY Zenon DEF Announce
    <2>4. To(p, c.pc, c.op, c.mine, c.seen)
        BY <1>a, <2>2, <2>3, Replaced, Zenon
    <2> QED BY <2>2, <2>4, Zenon
<1>3. /\ entry' \in CollectorProcess /\ entry'.pid = entry.pid /\ entry'.child = entry.child
      /\ ~Present => entry' = entry
    <2>1. PICK client \in BOOLEAN :
             entry' = IF Present /\ client THEN [entry EXCEPT !.rpc = TRUE] ELSE entry
        BY Zenon DEF Announce
    <2>2. entry \in CollectorProcess
        BY <1>a, Zenon DEF TypeOK
    <2>3. CASE Present /\ client
        <3>1. entry' = [entry EXCEPT !.rpc = TRUE]
            BY <2>1, <2>3, Zenon
        <3> QED BY ONLY <2>2, <2>3, <3>1, Zenon DEF CollectorProcess
    <2>4. CASE ~(Present /\ client)
        BY <2>1, <2>2, <2>4, Zenon
    <2> QED BY <2>3, <2>4, Zenon
<1>4. /\ call[p].mine \in 1 .. spawned /\ spawned \in Nat /\ call[p].mine \in Instances
      /\ call[p].op \notin {"shutdown", "shutdown2"}
    <2>1. call[p].mine \in 1 .. spawned /\ spawned \in 0 .. MaxSpawn
        BY <1>a, <1>1, Facts DEF Held, Holding, TypeOK
    <2>2. call[p].op \notin {"shutdown", "shutdown2"}
        BY <1>a, <1>1, Zenon DEF Held, StopSide
    <2> QED BY ONLY <2>1, <2>2, SpawnAssumption DEF Instances
<1>5. /\ monitor' \in [Instances -> {"none", "poll", "reap", "done"}]
      /\ \A n \in Instances : monitor'[n] = "reap" => monitor[n] = "reap"
    BY <1>a, <1>1, <1>4, Zenon DEF TypeOK
<1>6. TypeOK'
    BY <1>a, <1>1, <1>2, <1>3, <1>5, EntryStays, Zenon DEF TypeOK, To
<1>b. /\ p \in Tasks /\ call[p].pc = "announce" /\ To(p, "running", call[p].op, 0, call[p].mine)
      /\ UNCHANGED <<token, spawned, alive, stopped, faults, overlap>>
      /\ entry'.pid = entry.pid /\ entry'.child = entry.child /\ (Present' <=> Present)
      /\ call[p].mine \in 1 .. spawned /\ spawned \in Nat
      /\ call[p].op \notin {"shutdown", "shutdown2"}
      /\ \A n \in Instances : monitor'[n] = "reap" => monitor[n] = "reap"
    <2>1. Present' <=> entry'.pid # 0
        BY <1>6, Zenon DEF TypeOK, Present, NoEntry
    <2> QED BY <1>a, <1>1, <1>2, <1>3, <1>4, <1>5, <2>1, Facts, Zenon
<1>7. Held' /\ Private'
    BY ONLY <1>a, <1>b DEF Held, Private, Holding, Newborn, StopSide, To
<1>8. Quiet' => (Alone /\ HandedOver /\ Accounted /\ ShuttingDown)'
    BY ONLY <1>a, <1>b DEF Quiet, Signals, Alone, HandedOver, Accounted, ShuttingDown,
            Stopping, Starting, To
<1>9. (overlap = {} /\ faults = {} => TokenKept)'
    BY ONLY <1>a, <1>b, Zenon DEF TokenKept, Starting, Newborn, To
<1> QED BY <1>6, <1>7, <1>8, <1>9, Zenon DEF ManagerInv

----------------------------------------------------------------------------
(* The steps of a stop.                                                    *)

(* Where an instance that a call has seen, and that still runs, can be. *)
LEMMA SeenIsHeld ==
    ASSUME ManagerInv, Quiet, NEW p \in Tasks, call[p].seen \in alive
    PROVE  \/ call[p].seen = entry.child
           \/ \E q \in Tasks : Stopping(q) /\ call[q].mine = call[p].seen
<1>1. Held /\ Private /\ Accounted /\ HandedOver
    BY Parts, Zenon
<1>2. call[p].seen # 0
    BY Parts, Facts, Zenon
<1>3. CASE call[p].seen # entry.child
    <2>1. PICK q \in Tasks : call[q].mine = call[p].seen
        BY <1>1, <1>3, Zenon DEF Accounted
    <2>2. ~Newborn(q) /\ Holding(q)
        BY <1>1, <1>2, <2>1, Zenon DEF Private, Held
    <2>3. call[q].pc = "announce" \/ Stopping(q)
        BY <2>2, Zenon DEF Newborn, Holding, Stopping
    <2> QED BY <1>1, <1>3, <2>1, <2>3, Zenon DEF HandedOver
<1> QED BY <1>3, Zenon

(* The map after the entry has been removed. *)
LEMMA Removed ==
    ASSUME entry' = NoEntry
    PROVE  /\ entry' \in CollectorProcess /\ (entry.pid = 0 <=> entry = NoEntry)'
           /\ entry'.pid = 0 /\ entry'.child = 0 /\ ~Present'
BY SpawnAssumption DEF NoEntry, CollectorProcess, States, Present

(* The process of a stop has ended, and its entry is removed. *)
LEMMA StopEnds ==
    ASSUME ManagerInv, NEW p \in Tasks, Stopping(p), call[p].mine \notin alive, entry' = NoEntry,
           AfterStop(p) \/ To(p, "force", call[p].op, call[p].mine, call[p].seen),
           UNCHANGED <<token, requests, monitorVars, spawned, osVars, faults, overlap, autos>>
    PROVE  ManagerInv'
<1>a. /\ TypeOK /\ Held /\ Private
      /\ Quiet => Alone /\ HandedOver /\ Accounted /\ ShuttingDown
      /\ overlap = {} /\ faults = {} => TokenKept
    BY Parts, Zenon
<1>c. /\ call' \in [Tasks -> Calls]
      /\ \A q \in Tasks : q # p => call'[q] = call[q]
      /\ \/ /\ call'[p] = Idle /\ call[p].op \notin {"shutdown", "shutdown2"}
         \/ /\ call'[p].mine = 0 /\ call'[p].op = call[p].op /\ call'[p].seen = call[p].seen
            /\ \/ call'[p].pc = "check" /\ call[p].op = "restart"
               \/ call'[p].pc = "again" /\ call[p].op = "shutdown"
               \/ call'[p].pc = "shut" /\ call[p].op = "shutdown2"
         \/ /\ call'[p].mine = call[p].mine /\ call'[p].op = call[p].op
            /\ call'[p].seen = call[p].seen /\ call'[p].pc = "force"
    BY Zenon DEF AfterStop, To
<1>b. /\ p \in Tasks /\ Stopping(p) /\ call[p].mine \notin alive
      /\ UNCHANGED <<token, requests, monitor, pending, spawned, alive, stopped, faults, overlap, autos>>
      /\ entry' \in CollectorProcess /\ (entry.pid = 0 <=> entry = NoEntry)'
      /\ entry'.pid = 0 /\ entry'.child = 0 /\ ~Present' /\ spawned \in Nat
      /\ Idle.pc = "idle" /\ Idle.op = "none" /\ Idle.mine = 0 /\ Idle.seen = 0
    BY <1>a, Facts, IdleCall, Removed, Zenon DEF monitorVars, osVars
<1>1. TypeOK'
    BY ONLY <1>a, <1>b, <1>c, Zenon DEF TypeOK
<1>2. Held' /\ Private'
    <2>1. Held'
        BY ONLY <1>a, <1>b, <1>c DEF Held, Holding, StopSide, Stopping
    <2>2. Private'
        BY ONLY <1>a, <1>b, <1>c DEF Held, Private, Holding, Newborn, Stopping
    <2> QED BY <2>1, <2>2, Zenon
<1>3. Quiet' => (Alone /\ HandedOver /\ Accounted /\ ShuttingDown)'
    <2>1. Quiet' => Quiet
        BY ONLY <1>b, Zenon DEF Quiet, Signals
    <2>2. Quiet' => Alone'
        BY ONLY <1>a, <1>b, <1>c, <2>1 DEF Alone, Stopping, Starting
    <2>3. Quiet' => HandedOver'
        BY ONLY <1>a, <1>b, <1>c, <2>1 DEF Alone, HandedOver, Stopping
    <2>4. Quiet' => Accounted'
        BY ONLY <1>a, <1>b, <1>c, <2>1 DEF Alone, Accounted, Stopping, Held, Holding
    <2>5. Quiet' => ShuttingDown'
        BY ONLY <1>a, <1>b, <1>c, <2>1 DEF ShuttingDown, Stopping
    <2> QED BY <2>2, <2>3, <2>4, <2>5, Zenon
<1>4. (overlap = {} /\ faults = {} => TokenKept)'
    BY ONLY <1>a, <1>b, <1>c, Zenon DEF TokenKept, Starting, Newborn
<1> QED BY <1>1, <1>2, <1>3, <1>4, Zenon DEF ManagerInv

LEMMA EndedKeeps ==
    ASSUME ManagerInv, NEW p \in Tasks, RpcStops(p) \/ WaitEnds(p) \/ KillEnds(p)
    PROVE  ManagerInv'
<1>1. /\ Stopping(p) /\ call[p].mine \notin alive /\ entry' = NoEntry
      /\ StopReturns(p, TRUE) \/ Goto(p, "force")
      /\ UNCHANGED <<token, requests, monitorVars, spawned, osVars, faults, overlap, autos>>
    BY Zenon DEF RpcStops, WaitEnds, KillEnds, Stopping
<1>2. AfterStop(p) \/ To(p, "force", call[p].op, call[p].mine, call[p].seen)
    BY <1>1, StopReturnsTo, GotoTo, Zenon DEF ManagerInv, Steps
<1> QED BY <1>1, <1>2, StopEnds, Zenon

(* A stop that gives up: only where signals fail, or another step met it. *)
LEMMA StopGivesUp ==
    ASSUME ManagerInv, NEW p \in Tasks, Stopping(p), AfterStop(p), ~Quiet,
           entry' \in CollectorProcess, entry'.pid = entry.pid, ~Present => entry' = entry,
           entry'.child \in {entry.child, call[p].mine},
           UNCHANGED <<token, requests, monitorVars, spawned, osVars, faults, overlap, autos>>
    PROVE  ManagerInv'
<1>a. TypeOK /\ Held /\ Private
    BY Parts, Zenon
<1>b. /\ UNCHANGED <<token, requests, monitor, pending, spawned, alive, stopped, faults, overlap, autos>>
      /\ p \in Tasks /\ Stopping(p)
      /\ entry'.pid = entry.pid /\ entry'.child \in {entry.child, call[p].mine} /\ spawned \in Nat
      /\ Idle.pc = "idle" /\ Idle.op = "none" /\ Idle.mine = 0 /\ Idle.seen = 0
    BY <1>a, Facts, IdleCall, Zenon DEF monitorVars, osVars
<1>c. /\ call' \in [Tasks -> Calls]
      /\ \A q \in Tasks : q # p => call'[q] = call[q]
      /\ \/ /\ call'[p] = Idle
         \/ /\ call'[p].mine = 0 /\ call'[p].op = call[p].op /\ call'[p].seen = call[p].seen
            /\ \/ call'[p].pc = "check" /\ call[p].op = "restart"
               \/ call'[p].pc \in {"again", "shut"}
    BY Zenon DEF AfterStop, To
<1>1. TypeOK'
    BY <1>a, <1>b, <1>c, EntryStays, Zenon DEF TypeOK
<1>2. Held' /\ Private'
    BY ONLY <1>a, <1>b, <1>c DEF Held, Private, Holding, Newborn, StopSide, Stopping
<1>3. ~Quiet' /\ ~(overlap' = {} /\ faults' = {})
    BY <1>b, Zenon DEF Quiet, Signals
<1> QED BY <1>1, <1>2, <1>3, Zenon DEF ManagerInv

LEMMA GivenUpKeeps ==
    ASSUME ManagerInv, NEW p \in Tasks, TermFails(p) \/ KillRunsOut(p)
    PROVE  ManagerInv'
<1>a. TypeOK /\ Held
    BY Parts, Zenon
<1>b. /\ Stopping(p) /\ StopReturns(p, FALSE)
      /\ UNCHANGED <<token, requests, monitorVars, spawned, osVars, faults, overlap, autos>>
    BY Zenon DEF TermFails, KillRunsOut, Stopping
<1>c. AfterStop(p)
    BY <1>a, <1>b, StopReturnsTo, Zenon
<1>1. CASE TermFails(p)
    <2>1. ~Quiet
        BY <1>1, Zenon DEF TermFails, Quiet
    <2>2. entry \in CollectorProcess /\ call[p].mine \in 0 .. MaxSpawn /\ "Failed" \in States
        BY <1>a, Facts, Zenon DEF TypeOK, Calls, States
    <2>3. /\ entry' \in CollectorProcess /\ entry'.pid = entry.pid
          /\ entry'.child \in {entry.child, call[p].mine} /\ (~Present => entry' = entry)
        <3>1. CASE Present
            <4>1. entry' = [entry EXCEPT !.state = "Failed", !.child = call[p].mine]
                BY <1>1, <3>1, Zenon DEF TermFails
            <4> QED BY ONLY <2>2, <3>1, <4>1, Zenon DEF CollectorProcess
        <3>2. CASE ~Present
            BY <1>1, <2>2, <3>2, Zenon DEF TermFails
        <3> QED BY <3>1, <3>2, Zenon
    <2> QED BY <1>b, <1>c, <2>1, <2>3, StopGivesUp, Zenon
<1>2. CASE KillRunsOut(p)
    <2>1. call[p].pc = "reap" /\ call[p].mine \in alive /\ entry' = SetState("Failed")
        BY <1>2, Zenon DEF KillRunsOut
    <2>2. ~Quiet
        BY <1>b, <2>1, Parts, Zenon DEF Alone
    <2>3. /\ entry' \in CollectorProcess /\ entry'.pid = entry.pid
          /\ entry'.child \in {entry.child, call[p].mine} /\ (~Present => entry' = entry)
        BY <1>a, <2>1, SetStateFacts, Zenon DEF States
    <2> QED BY <1>b, <1>c, <2>2, <2>3, StopGivesUp, Zenon
<1> QED BY <1>1, <1>2, Zenon

LEMMA KillKeeps ==
    ASSUME ManagerInv, NEW p \in Tasks, Kill(p)
    PROVE  ManagerInv'
<1>a. /\ TypeOK /\ Held /\ Private
      /\ Quiet => Alone /\ HandedOver /\ Accounted /\ ShuttingDown
      /\ overlap = {} /\ faults = {} => TokenKept
    BY Parts, Zenon
<1>b. /\ p \in Tasks /\ call[p].pc = "force" /\ Stopping(p)
      /\ UNCHANGED <<token, requests, monitorVars, spawned, faults, overlap, autos>>
    BY Zenon DEF Kill, Stopping
<1>1. CASE /\ Goto(p, "reap") /\ alive' = alive \ Killed(call[p].mine)
           /\ stopped' = StillStopped(alive') /\ UNCHANGED entry
    <2>1. /\ alive' \subseteq alive /\ stopped' \subseteq stopped /\ stopped' \subseteq alive'
          /\ Quiet => alive' = alive \ {call[p].mine}
        BY <1>1, Zenon DEF Killed, StillStopped, Quiet
    <2>2. To(p, "reap", call[p].op, call[p].mine, call[p].seen)
        BY <1>a, <1>1, GotoTo, Zenon DEF Steps
    <2>b. /\ To(p, "reap", call[p].op, call[p].mine, call[p].seen)
          /\ UNCHANGED <<entry, token, requests, monitor, pending, spawned, faults, overlap, autos>>
          /\ Present' = Present /\ alive' \subseteq alive /\ stopped' \subseteq stopped
          /\ stopped' \subseteq alive' /\ (Quiet => alive' = alive \ {call[p].mine})
        BY <1>1, <1>b, <2>1, <2>2, Zenon DEF monitorVars, Present
    <2>3. TypeOK'
        BY ONLY <1>a, <2>b, Zenon DEF TypeOK, To
    <2>4. Held' /\ Private'
        BY ONLY <1>a, <1>b, <2>b DEF Held, Private, Holding, Newborn, StopSide, To
    <2>5. Quiet' => (Alone /\ HandedOver /\ Accounted /\ ShuttingDown)'
        BY ONLY <1>a, <1>b, <2>b DEF Quiet, Signals, Alone, HandedOver, Accounted, ShuttingDown,
                Stopping, Starting, To
    <2>6. (overlap = {} /\ faults = {} => TokenKept)'
        BY ONLY <1>a, <1>b, <2>b, Zenon DEF TokenKept, Starting, Newborn, To
    <2> QED BY <2>3, <2>4, <2>5, <2>6, Zenon DEF ManagerInv
<1>2. CASE /\ Signals /\ "eperm" \in faults
           /\ entry' = SetState("Failed") /\ StopReturns(p, FALSE) /\ UNCHANGED osVars
    <2>1. ~Quiet /\ AfterStop(p)
        BY <1>a, <1>2, StopReturnsTo, Zenon DEF Quiet
    <2>2. /\ entry' \in CollectorProcess /\ entry'.pid = entry.pid
          /\ entry'.child \in {entry.child, call[p].mine} /\ (~Present => entry' = entry)
        BY <1>a, <1>2, SetStateFacts, Zenon DEF States
    <2> QED BY <1>2, <1>b, <2>1, <2>2, StopGivesUp, Zenon
<1> QED BY <1>1, <1>2, Zenon DEF Kill

(* A stop that finds nothing to stop removes what is left of the entry. *)
LEMMA NothingToStop ==
    ASSUME ManagerInv, NEW p \in Tasks, call[p].pc = "stop", entry.child = 0, entry' = NoEntry,
           AfterStop(p), (token' = token /\ ~Present) \/ (token' = 0 /\ Present),
           overlap \subseteq overlap', overlap' \subseteq {"stop", "start"},
           Present /\ "stop" \notin overlap' => \A q \in Tasks : ~Stopping(q),
           UNCHANGED <<requests, monitorVars, spawned, osVars, faults, autos>>
    PROVE  ManagerInv'
<1>a. /\ TypeOK /\ Held /\ Private
      /\ Quiet => Alone /\ HandedOver /\ Accounted /\ ShuttingDown
      /\ overlap = {} /\ faults = {} => TokenKept
    BY Parts, Zenon
<1>b. /\ p \in Tasks /\ call[p].pc = "stop" /\ entry.child = 0
      /\ UNCHANGED <<requests, monitor, pending, spawned, alive, stopped, faults, autos>>
      /\ entry' \in CollectorProcess /\ (entry.pid = 0 <=> entry = NoEntry)'
      /\ entry'.pid = 0 /\ entry'.child = 0 /\ ~Present'
      /\ (token' = token /\ ~Present) \/ (token' = 0 /\ Present)
      /\ overlap \subseteq overlap' /\ overlap' \subseteq {"stop", "start"}
      /\ spawned \in Nat /\ Idle.pc = "idle" /\ Idle.op = "none" /\ Idle.mine = 0 /\ Idle.seen = 0
      /\ \A n \in alive : n # 0
    BY <1>a, Facts, IdleCall, Removed, Zenon DEF monitorVars, osVars
<1>c. /\ call' \in [Tasks -> Calls]
      /\ \A q \in Tasks : q # p => call'[q] = call[q]
      /\ \/ /\ call'[p] = Idle /\ call[p].op \notin {"shutdown", "shutdown2"}
         \/ /\ call'[p].mine = 0 /\ call'[p].op = call[p].op /\ call'[p].seen = call[p].seen
            /\ \/ call'[p].pc = "check" /\ call[p].op = "restart"
               \/ call'[p].pc = "again" /\ call[p].op = "shutdown"
               \/ call'[p].pc = "shut" /\ call[p].op = "shutdown2"
    BY Zenon DEF AfterStop, To
<1>1. TypeOK'
    <2>1. token' \in 0 .. spawned
        BY ONLY <1>a, <1>b DEF TypeOK
    <2> QED BY ONLY <1>a, <1>b, <1>c, <2>1, Zenon DEF TypeOK
<1>2. Held' /\ Private'
    <2>1. Held'
        <3>1. entry'.pid <= spawned' /\ entry'.child <= spawned'
            BY ONLY <1>b
        <3>2. /\ call'[p].mine <= spawned' /\ call'[p].seen <= spawned'
              /\ call'[p].mine # 0 <=> Holding(p)'
            BY ONLY <1>a, <1>b, <1>c DEF Held, Holding
        <3>3. /\ call'[p].pc = "idle" => call'[p] = Idle
              /\ call'[p].op \in {"shutdown", "shutdown2"} => StopSide(call'[p].pc)
            BY ONLY <1>b, <1>c DEF StopSide
        <3> QED BY ONLY <1>a, <1>b, <1>c, <3>1, <3>2, <3>3, Zenon DEF Held, Holding
    <2>2. Private'
        BY ONLY <1>a, <1>b, <1>c DEF Held, Private, Holding, Newborn
    <2> QED BY <2>1, <2>2, Zenon
<1>3. Quiet' => (Alone /\ HandedOver /\ Accounted /\ ShuttingDown)'
    <2>1. /\ Quiet' => Quiet
          /\ Quiet' => \A q \in Tasks : Stopping(q) => call[q].mine \notin alive
        BY <1>a, <1>b, Zenon DEF Alone, Quiet, Signals
    <2>2. Quiet' => call[p].seen \notin alive
        BY <1>b, <2>1, SeenIsHeld, Zenon
    <2>3. Quiet' => Alone'
        BY ONLY <1>a, <1>b, <1>c, <2>1 DEF Alone, Stopping, Starting
    <2>4. Quiet' => HandedOver'
        BY ONLY <1>a, <1>b, <1>c, <2>1 DEF HandedOver, Stopping
    <2>5. Quiet' => Accounted'
        BY ONLY <1>a, <1>b, <1>c, <2>1 DEF Accounted, Held, Holding
    <2>6. Quiet' => ShuttingDown'
        BY ONLY <1>a, <1>b, <1>c, <2>1, <2>2 DEF ShuttingDown, Stopping
    <2> QED BY <2>3, <2>4, <2>5, <2>6, Zenon
<1>4. (overlap = {} /\ faults = {} => TokenKept)'
    <2> SUFFICES ASSUME overlap' = {}, faults' = {} PROVE TokenKept'
        BY Zenon
    <2>1. TokenKept
        BY ONLY <1>a, <1>b, overlap' = {}, faults' = {}, Zenon
    <2>2. /\ ~Present' /\ entry'.child = 0 /\ monitor' = monitor
          /\ token' = token \/ Present
        BY ONLY <1>b, Zenon
    <2>3. \A q \in Tasks : call'[q] = call[q] \/ call'[q].pc \in {"idle", "check", "again", "shut"}
        BY ONLY <1>b, <1>c, Zenon
    <2>4. \A q \in Tasks : Starting(q)' => Starting(q) /\ call'[q] = call[q]
        BY ONLY <2>3, Zenon DEF Starting
    <2>5. \A q \in Tasks : Newborn(q)' => Newborn(q) /\ Starting(q) /\ call'[q] = call[q]
        BY ONLY <2>3, Zenon DEF Starting, Newborn
    <2>6. \A q \in Tasks : Starting(q)' => ~Present' /\ \A o \in Tasks : o # q => ~Starting(o)'
        BY ONLY <2>1, <2>2, <2>4, Zenon DEF TokenKept
    <2>7. \A q \in Tasks : Newborn(q)' => token' = call'[q].mine
        BY ONLY <2>1, <2>2, <2>5, Zenon DEF TokenKept
    <2>8. \A q \in Tasks : Newborn(q)' => \A n \in Instances : monitor'[n] # "reap"
        BY ONLY <2>1, <2>2, <2>5, Zenon DEF TokenKept
    <2> QED BY ONLY <2>2, <2>6, <2>7, <2>8, Zenon DEF TokenKept
<1> QED BY <1>1, <1>2, <1>3, <1>4, Zenon DEF ManagerInv

(* A stop that takes the Child out of the entry. *)
LEMMA ChildTaken ==
    ASSUME ManagerInv, NEW p \in Tasks, call[p].pc = "stop", Present, entry.child # 0,
           entry' = [entry EXCEPT !.state = "Stopping", !.child = 0, !.rpc = FALSE],
           NEW step \in {"rpc", "wait", "force"},
           call' = [call EXCEPT ![p].mine = entry.child, ![p].pc = step],
           token' = 0, overlap \subseteq overlap', overlap' \subseteq {"stop", "start"},
           "stop" \notin overlap' => \A q \in Tasks : q # p => ~Stopping(q) /\ ~Starting(q),
           UNCHANGED <<requests, monitorVars, spawned, osVars, faults, autos>>
    PROVE  ManagerInv'
<1>a. /\ TypeOK /\ Held /\ Private
      /\ Quiet => Alone /\ HandedOver /\ Accounted /\ ShuttingDown
      /\ overlap = {} /\ faults = {} => TokenKept
    BY Parts, Zenon
<1>1. To(p, step, call[p].op, entry.child, call[p].seen)
    <2> DEFINE c == [call[p] EXCEPT !.mine = entry.child, !.pc = step]
    <2>1. call[p] \in Calls /\ step \in Steps /\ entry.child \in 0 .. MaxSpawn
        BY <1>a, Zenon DEF TypeOK, Steps, CollectorProcess
    <2>2. /\ c \in Calls /\ c.pc = step /\ c.op = call[p].op /\ c.mine = entry.child
          /\ c.seen = call[p].seen
        BY ONLY <2>1, Zenon DEF Calls
    <2>3. call' = [call EXCEPT ![p] = c]
        BY Zenon
    <2>4. To(p, c.pc, c.op, c.mine, c.seen)
        BY <1>a, <2>2, <2>3, Replaced, Zenon
    <2> QED BY <2>2, <2>4, Zenon
<1>2. entry' \in CollectorProcess /\ entry'.pid = entry.pid /\ entry'.child = 0
    <2>1. entry \in CollectorProcess /\ "Stopping" \in States /\ 0 \in 0 .. MaxSpawn
        BY <1>a, SpawnAssumption DEF TypeOK, States
    <2> QED BY ONLY <2>1, entry' = [entry EXCEPT !.state = "Stopping", !.child = 0, !.rpc = FALSE],
                    Zenon DEF CollectorProcess
<1>3. entry.pid # 0 /\ Present'
    <2>1. entry.pid # 0
        BY <1>a, Facts, Zenon
    <2> QED BY <1>2, <2>1, Zenon DEF Present, NoEntry
<1>b. /\ p \in Tasks /\ step \in {"rpc", "wait", "force"} /\ call[p].pc = "stop" /\ entry.child # 0
      /\ To(p, step, call[p].op, entry.child, call[p].seen)
      /\ UNCHANGED <<requests, monitor, pending, spawned, alive, stopped, faults, autos>>
      /\ entry'.pid = entry.pid /\ entry'.child = 0 /\ Present'
      /\ token' = 0 /\ overlap \subseteq overlap' /\ overlap' \subseteq {"stop", "start"}
      /\ "stop" \notin overlap' => \A q \in Tasks : q # p => ~Stopping(q) /\ ~Starting(q)
      /\ spawned \in Nat /\ entry.pid # 0 /\ (\A n \in alive : n # 0) /\ Present
    BY <1>a, <1>1, <1>2, <1>3, Facts, Zenon DEF monitorVars, osVars
<1>4. TypeOK'
    <2>1. token' \in 0 .. spawned
        BY <1>b
    <2> QED BY <1>a, <1>b, <1>2, <2>1, EntryStays, Zenon DEF TypeOK, To
<1>5. Held' /\ Private'
    BY ONLY <1>a, <1>b DEF Held, Private, Holding, Newborn, StopSide, To
<1>6. Quiet' => (Alone /\ HandedOver /\ Accounted /\ ShuttingDown)'
    <2>1. /\ Quiet' => Quiet
          /\ Quiet' => \A q \in Tasks : ~Stopping(q) /\ (q # p => ~Starting(q))
        BY <1>b, Zenon DEF Quiet, Signals, Stopping
    <2>2. Quiet' => (call[p].seen \in alive => call[p].seen = entry.child)
        BY <2>1, SeenIsHeld, Zenon
    <2>3. Quiet' => Alone'
        BY ONLY <1>a, <1>b, <2>1 DEF Stopping, Starting, Alone, To
    <2>4. Quiet' => HandedOver'
        BY ONLY <1>a, <1>b, <2>1 DEF HandedOver, Stopping, To
    <2>5. Quiet' => Accounted'
        BY ONLY <1>a, <1>b, <2>1 DEF Accounted, Held, Holding, To
    <2>6. Quiet' => ShuttingDown'
        BY ONLY <1>a, <1>b, <2>1, <2>2 DEF ShuttingDown, Stopping, To
    <2> QED BY <2>3, <2>4, <2>5, <2>6, Zenon
<1>7. (overlap = {} /\ faults = {} => TokenKept)'
    BY ONLY <1>a, <1>b, Zenon DEF TokenKept, Starting, Newborn, To
<1> QED BY <1>4, <1>5, <1>6, <1>7, Zenon DEF ManagerInv

LEMMA StopBeginsKeeps ==
    ASSUME ManagerInv, NEW p \in Tasks, StopBegins(p)
    PROVE  ManagerInv'
<1>a. TypeOK /\ overlap \subseteq {"stop", "start"} /\ (~Present => entry.child = 0)
    BY Parts, Facts, Zenon DEF TypeOK
<1>b. /\ call[p].pc = "stop" /\ ~Stopping(p)
      /\ UNCHANGED <<requests, monitorVars, spawned, osVars, faults, autos>>
    BY Zenon DEF StopBegins, Stopping
<1>1. CASE ~Present /\ StopReturns(p, FALSE) /\ UNCHANGED <<entry, token, overlap>>
    <2>1. AfterStop(p)
        BY <1>a, <1>1, StopReturnsTo, Zenon
    <2>2. entry' = NoEntry
        BY <1>1, Zenon DEF Present
    <2>3. entry.child = 0 /\ ~Present /\ token' = token /\ overlap' = overlap
        BY <1>1, <1>a, Zenon
    <2>4. overlap \subseteq overlap' /\ overlap' \subseteq {"stop", "start"}
        BY ONLY <1>a, <2>3, Zenon
    <2>5. /\ (token' = token /\ ~Present) \/ (token' = 0 /\ Present)
          /\ Present /\ "stop" \notin overlap' => \A q \in Tasks : ~Stopping(q)
        BY <2>3
    <2> QED BY <1>b, <2>1, <2>2, <2>3, <2>4, <2>5, NothingToStop, Zenon
<1>2. CASE /\ Present /\ token' = 0
           /\ overlap' = IF \E q \in Tasks \ {p} : Stopping(q) \/ Starting(q)
                         THEN overlap \cup {"stop"} ELSE overlap
           /\ \/ /\ entry.child = 0
                 /\ entry' = NoEntry /\ StopReturns(p, TRUE)
              \/ /\ entry.child # 0
                 /\ entry' = [entry EXCEPT !.state = "Stopping", !.child = 0, !.rpc = FALSE]
                 /\ call' = [call EXCEPT ![p].mine = entry.child,
                       ![p].pc = CASE ~Graceful(p) -> "force"
                                   [] Graceful(p) /\ entry.rpc -> "rpc"
                                   [] OTHER -> "wait"]
    <2>1. /\ overlap \subseteq overlap' /\ overlap' \subseteq {"stop", "start"}
          /\ "stop" \notin overlap' => \A q \in Tasks : q # p => ~Stopping(q) /\ ~Starting(q)
        BY <1>a, <1>2, Zenon
    <2>2. CASE entry.child = 0
        <3>1. entry' = NoEntry /\ StopReturns(p, TRUE)
            BY <1>2, <2>2, Zenon
        <3>2. AfterStop(p)
            BY <1>a, <3>1, StopReturnsTo, Zenon
        <3>3. Present /\ "stop" \notin overlap' => \A q \in Tasks : ~Stopping(q)
            BY <1>b, <2>1, Zenon
        <3> QED BY <1>2, <1>b, <2>1, <2>2, <3>1, <3>2, <3>3, NothingToStop, Zenon
    <2>3. CASE entry.child # 0
        <3> DEFINE step == CASE ~Graceful(p) -> "force"
                             [] Graceful(p) /\ entry.rpc -> "rpc"
                             [] OTHER -> "wait"
        <3>1. /\ entry' = [entry EXCEPT !.state = "Stopping", !.child = 0, !.rpc = FALSE]
              /\ call' = [call EXCEPT ![p].mine = entry.child, ![p].pc = step]
            BY <1>2, <2>3, Zenon
        <3>2. step \in {"rpc", "wait", "force"}
            BY Zenon
        <3> HIDE DEF step
        <3> QED BY <1>2, <1>b, <2>1, <2>3, <3>1, <3>2, ChildTaken, Zenon
    <2> QED BY <2>2, <2>3, Zenon
<1> QED BY <1>1, <1>2, Zenon DEF StopBegins

----------------------------------------------------------------------------
(* The look of a monitor.                                                  *)

LEMMA PollKeeps ==
    ASSUME ManagerInv, NEW n \in Instances, Poll(n)
    PROVE  ManagerInv'
<1>a. /\ TypeOK /\ Held /\ Private
      /\ Quiet => Alone /\ HandedOver /\ Accounted /\ ShuttingDown
      /\ overlap = {} /\ faults = {} => TokenKept
    BY Parts, Zenon
<1>1. /\ UNCHANGED <<token, requests, call, spawned, alive, stopped, faults, overlap>>
      /\ monitor' = [monitor EXCEPT ![n] = IF Present THEN "reap" ELSE "done"]
      /\ pending' = [pending EXCEPT ![n] =
                        IF DeadInMap /\ ShouldRestart(entry) THEN entry.count ELSE None]
      /\ entry' = (IF DeadInMap THEN NoEntry ELSE entry)
      /\ autos' = (IF DeadInMap /\ Unsettled THEN autos - MaxRestarts ELSE autos)
    BY Zenon DEF Poll, osVars
<1>2. /\ entry' \in CollectorProcess /\ (entry.pid = 0 <=> entry = NoEntry)'
      /\ \/ /\ entry.child # 0 /\ entry.child \notin alive
            /\ entry'.pid = 0 /\ entry'.child = 0 /\ ~Present'
         \/ entry' = entry /\ Present' = Present
    <2>1. CASE DeadInMap
        BY <1>1, <2>1, Removed, Zenon DEF DeadInMap
    <2>2. CASE ~DeadInMap
        BY <1>a, <1>1, <2>2, Zenon DEF TypeOK, Present
    <2> QED BY <2>1, <2>2, Zenon
<1>3. TypeOK'
    <2>1. entry.count \in Nat
        BY <1>a, Zenon DEF TypeOK, CollectorProcess
    <2>2. pending' \in [Instances -> Nat \cup {None}]
        BY <1>a, <1>1, <2>1, Zenon DEF TypeOK
    <2>3. monitor' \in [Instances -> {"none", "poll", "reap", "done"}] /\ autos' \in Int
        BY <1>a, <1>1, SpawnAssumption DEF TypeOK
    <2> QED BY <1>a, <1>1, <1>2, <2>2, <2>3, Zenon DEF TypeOK
<1>b. /\ UNCHANGED <<token, call, spawned, alive, stopped, faults, overlap>> /\ spawned \in Nat
      /\ \/ /\ entry.child # 0 /\ entry.child \notin alive
            /\ entry'.pid = 0 /\ entry'.child = 0 /\ ~Present'
         \/ entry' = entry /\ Present' = Present
    BY <1>a, <1>1, <1>2, Facts, Zenon
<1>4. Held' /\ Private'
    <2>1. Held'
        BY ONLY <1>a, <1>b DEF Held, Holding
    <2>2. Private'
        BY ONLY <1>a, <1>b DEF Held, Private, Holding, Newborn
    <2> QED BY <2>1, <2>2, Zenon
<1>5. Quiet' => (Alone /\ HandedOver /\ Accounted /\ ShuttingDown)'
    BY ONLY <1>a, <1>b DEF Quiet, Signals, Alone, HandedOver, Accounted, ShuttingDown,
            Stopping, Starting
<1>6. (overlap = {} /\ faults = {} => TokenKept)'
    <2>1. ~Present => \A m \in Instances : monitor'[m] = "reap" => monitor[m] = "reap"
        BY <1>a, <1>1, Zenon DEF TypeOK
    <2> QED BY ONLY <1>a, <1>b, <2>1, Zenon DEF TokenKept, Starting, Newborn
<1> QED BY <1>3, <1>4, <1>5, <1>6, Zenon DEF ManagerInv

----------------------------------------------------------------------------
(* The theorems.                                                           *)

LEMMA ManagerInit == Init => ManagerInv
<1> SUFFICES ASSUME Init PROVE ManagerInv
    BY Zenon
<1>1. \A p \in Tasks : call[p] = Idle
    BY Zenon DEF Init
<1>2. /\ entry = NoEntry /\ token = 0 /\ spawned = 0 /\ alive = {} /\ stopped = {}
      /\ NoEntry.pid = 0 /\ NoEntry.child = 0 /\ ~Present
    BY Zenon DEF Init, NoEntry, Present
<1>3. TypeOK
    <2>1. entry \in CollectorProcess /\ (entry.pid = 0 <=> entry = NoEntry)
        BY <1>2, SpawnAssumption DEF NoEntry, CollectorProcess, States
    <2>2. call \in [Tasks -> Calls]
        BY IdleCall, Zenon DEF Init
    <2>3. requests \in Seq(Nat) /\ overlap \subseteq {"stop", "start"} /\ autos \in Int
        BY DEF Init
    <2> QED BY <1>2, <2>1, <2>2, <2>3, SpawnAssumption DEF Init, TypeOK
<1>4. Held /\ Private
    BY <1>1, <1>2, IdleCall DEF Held, Private, Holding, Newborn
<1>5. Alone /\ HandedOver /\ Accounted /\ ShuttingDown /\ TokenKept
    BY <1>1, <1>2, IdleCall, Zenon DEF Alone, HandedOver, Accounted, ShuttingDown, TokenKept, Stopping,
           Starting, Newborn
<1> QED BY <1>3, <1>4, <1>5, Zenon DEF ManagerInv

LEMMA ManagerNext == ManagerInv /\ [Next]_vars => ManagerInv'
<1> SUFFICES ASSUME ManagerInv, [Next]_vars PROVE ManagerInv'
    BY Zenon
<1>1. ASSUME NEW p \in Tasks, Call(p) \/ Start(p) PROVE ManagerInv'
    BY <1>1, CallStartKeeps, CallStopKeeps, CheckKeeps, IssueKeeps, SpawnKeeps, SpawnFailsKeeps,
       InsertKeeps, AnnounceKeeps, MarksKeep, Zenon DEF Call, Start
<1>2. ASSUME NEW p \in Tasks, Stop(p) PROVE ManagerInv'
    BY <1>2, StopBeginsKeeps, StopGoesOn, EndedKeeps, GivenUpKeeps, KillKeeps, ShutdownKeeps, Zenon
       DEF Stop
<1>3. ASSUME NEW n \in Instances, Poll(n) \/ Reap(n) PROVE ManagerInv'
    BY <1>3, PollKeeps, ReapKeeps, Zenon
<1>4. CASE TakeRequest \/ MarkFailed \/ Pause \/ Resume \/ Exit
    BY <1>4, HandlerKeeps, OutsideKeeps, Zenon
<1>5. CASE UNCHANGED vars
    <2>1. UNCHANGED <<entry, token, requests, monitor, pending, call, spawned, alive, stopped,
                      faults, overlap, autos>>
        BY <1>5, Zenon DEF vars, managerVars, monitorVars, osVars
    <2>2. TypeOK'
        BY <2>1, Parts, Zenon DEF TypeOK
    <2>3. Harmless
        BY <2>1, Zenon DEF Harmless, SameSide
    <2> QED BY <2>1, <2>2, <2>3, Kept, Zenon
<1> QED BY <1>1, <1>2, <1>3, <1>4, <1>5, Zenon DEF Next

(* The manager's invariant holds throughout, with any number of callers.   *)
THEOREM ManagerInvariant == Spec => []ManagerInv
BY ManagerInit, ManagerNext, PTL DEF Spec

(* No running collector is lost: start_collector, stop_collector, the      *)
(* monitors and the restart handler never leave one that is neither in the *)
(* map nor held by a call, as long as signals can be sent and nothing      *)
(* begins during a stop.                                                   *)
THEOREM CollectorsTracked == Spec => []Tracked
<1>1. ManagerInv => Tracked
    BY Zenon DEF ManagerInv, Tracked, Quiet, Accounted
<1> QED BY <1>1, ManagerInvariant, PTL

(* "Only one": however many callers start the collector at once, and while *)
(* it dies and is restarted, one instance runs beside duplicates about to  *)
(* be killed by the start_collector that has just spawned them.            *)
THEOREM OnlyOneInstance == Spec => []OneInstance
<1>1. ManagerInv => OneInstance
    <2> SUFFICES ASSUME ManagerInv, Quiet, NEW m \in alive, NEW n \in alive,
                        \A p \in Tasks : call[p].pc = "insert" => call[p].mine # m /\ call[p].mine # n
                 PROVE  m = n
        BY Zenon DEF OneInstance, Quiet
    <2>1. Held /\ Private /\ Alone /\ HandedOver /\ Accounted
        BY Parts, Zenon
    <2>2. ASSUME NEW k \in alive, \A p \in Tasks : call[p].pc = "insert" => call[p].mine # k
          PROVE  k = entry.child \/ \E q \in Tasks : Stopping(q) /\ call[q].mine = k
        <3>1. CASE k # entry.child
            <4>1. PICK q \in Tasks : call[q].mine = k
                BY <2>1, <3>1, Zenon DEF Accounted
            <4>2. Holding(q) /\ ~Newborn(q)
                BY <2>1, <2>2, <4>1, Parts, Facts, Zenon DEF Held, Private, Newborn
            <4>3. call[q].pc = "announce" \/ Stopping(q)
                BY <4>2, Zenon DEF Holding, Newborn, Stopping
            <4> QED BY <2>1, <3>1, <4>1, <4>3, Zenon DEF HandedOver
        <3> QED BY <3>1, Zenon
    <2>3. m # 0 /\ n # 0
        BY Parts, Facts, Zenon
    <2>4. /\ m = entry.child \/ \E q \in Tasks : Stopping(q) /\ call[q].mine = m
          /\ n = entry.child \/ \E q \in Tasks : Stopping(q) /\ call[q].mine = n
        BY <2>2, Zenon
    <2> QED BY ONLY <2>1, <2>3, <2>4, Zenon DEF Alone
<1> QED BY <1>1, ManagerInvariant, PTL

(* shutdown_all does not return while the collector it found in the map is *)
(* still running, whatever the monitor and other callers did meanwhile.    *)
THEOREM ShutdownAllStops == Spec => []ShutdownStops
<1>1. ManagerInv => ShutdownStops
    BY Zenon DEF ManagerInv, ShutdownStops, Quiet, ShuttingDown, Tasks
<1> QED BY <1>1, ManagerInvariant, PTL

(* SpawnTokenStore: no reap, revocation or later start takes the token     *)
(* from the collector in the map, unless a stop or a start met another.    *)
THEOREM TokensStand == Spec => []TokenStands
<1>1. ManagerInv => TokenStands
    <2> SUFFICES ASSUME ManagerInv, overlap = {}, faults = {}, entry.child \in alive
                 PROVE  token = entry.pid
        BY Zenon DEF TokenStands
    <2>1. entry.child # 0
        BY Parts, Facts, Zenon
    <2> QED BY <2>1, Parts, Zenon DEF TokenKept
<1> QED BY <1>1, ManagerInvariant, PTL

----------------------------------------------------------------------------
(* Sums.  A sum is known by its partial sums, so that a step that changes  *)
(* one number has to be compared with this number alone.                   *)

(* t is the sum of the natural numbers w[1], ..., w[k]. *)
SumsTo(w, k, t) ==
    \E part \in [0 .. k -> Nat] :
        /\ part[0] = 0 /\ part[k] = t
        /\ \A i \in 1 .. k : w[i] \in Nat /\ part[i] = part[i - 1] + w[i]
        /\ \A i, j \in 0 .. k : i <= j => part[i] <= part[j]

(* Nothing but zeros. *)
LEMMA SumOfZeros ==
    ASSUME NEW k \in Nat, NEW w, \A i \in 1 .. k : w[i] = 0
    PROVE  SumsTo(w, k, 0)
<1> DEFINE part == [i \in 0 .. k |-> 0]
<1>1. part \in [0 .. k -> Nat] /\ part[0] = 0 /\ part[k] = 0
    OBVIOUS
<1>2. \A i \in 1 .. k : w[i] \in Nat /\ part[i] = part[i - 1] + w[i]
    OBVIOUS
<1>3. \A i, j \in 0 .. k : i <= j => part[i] <= part[j]
    OBVIOUS
<1> QED BY <1>1, <1>2, <1>3, Zenon DEF SumsTo

(* One number is replaced. *)
LEMMA SumChanged ==
    ASSUME NEW k \in Nat, NEW w, NEW u, NEW t, NEW j \in 1 .. k, SumsTo(w, k, t),
           u[j] \in Nat, \A i \in 1 .. k : i # j => u[i] = w[i]
    PROVE  t \in Nat /\ w[j] \in Nat /\ w[j] <= t /\ SumsTo(u, k, t - w[j] + u[j])
<1>1. PICK part \in [0 .. k -> Nat] :
         /\ part[0] = 0 /\ part[k] = t
         /\ \A i \in 1 .. k : w[i] \in Nat /\ part[i] = part[i - 1] + w[i]
         /\ \A i, m \in 0 .. k : i <= m => part[i] <= part[m]
    BY Zenon DEF SumsTo
<1>a. PICK a \in Nat : a = w[j]
    BY <1>1, Zenon
<1>b. PICK b \in Nat : b = u[j]
    BY Zenon
<1> DEFINE new == [i \in 0 .. k |-> IF i < j THEN part[i] ELSE part[i] - a + b]
<1>2. /\ 0 < j /\ j - 1 \in 0 .. k /\ j \in 0 .. k /\ k \in 0 .. k
      /\ part[j] = part[j - 1] + a
    BY <1>1, <1>a
<1>3. \A i \in 0 .. k : j <= i => a <= part[i]
    <2> SUFFICES ASSUME NEW i \in 0 .. k, j <= i PROVE a <= part[i]
        OBVIOUS
    <2>1. part[j] <= part[i]
        BY <1>1, <1>2, Zenon
    <2> QED BY <1>2, <2>1
<1>4. new \in [0 .. k -> Nat]
    BY <1>2, <1>3
<1>5. new[0] = 0 /\ new[k] = t - a + b /\ t \in Nat /\ a <= t
    BY <1>1, <1>2, <1>3
<1>6. \A i \in 1 .. k : u[i] \in Nat /\ new[i] = new[i - 1] + u[i]
    <2> SUFFICES ASSUME NEW i \in 1 .. k PROVE u[i] \in Nat /\ new[i] = new[i - 1] + u[i]
        OBVIOUS
    <2>1. PICK c \in Nat : c = w[i] /\ part[i] = part[i - 1] + c
        BY <1>1, Zenon
    <2>2. CASE i = j
        <3>1. new[i] = new[i - 1] + b
            BY <1>2, <2>2
        <3> QED BY <1>b, <2>2, <3>1, Zenon
    <2>3. CASE i # j
        <3>1. i \in 0 .. k /\ i - 1 \in 0 .. k /\ (i < j <=> i - 1 < j)
            BY <1>2, <2>3
        <3>2. CASE i < j
            BY <2>1, <2>3, <3>1, <3>2, Zenon
        <3>3. CASE ~(i < j)
            <4>1. new[i] = part[i] - a + b /\ new[i - 1] = part[i - 1] - a + b
                BY <3>1, <3>3, Zenon
            <4>2. part[i] - a + b = (part[i - 1] - a + b) + c
                <5>1. PICK x \in Nat, y \in Nat : x = part[i - 1] /\ y = part[i] /\ y = x + c
                    BY <2>1, <3>1, Zenon
                <5>2. y = x + c
                    BY <5>1, Zenon
                <5>3. y - a + b = (x - a + b) + c
                    BY ONLY <5>2, x \in Nat, y \in Nat, a \in Nat, b \in Nat, c \in Nat
                <5> QED BY <5>1, <5>3, Zenon
            <4> QED BY <2>1, <2>3, <4>1, <4>2, Zenon
        <3> QED BY <3>2, <3>3, Zenon
    <2> QED BY <2>2, <2>3, Zenon
<1>7. \A i, m \in 0 .. k : i <= m => new[i] <= new[m]
    <2> SUFFICES ASSUME NEW i \in 0 .. k, NEW m \in 0 .. k, i <= m PROVE new[i] <= new[m]
        OBVIOUS
    <2>1. part[i] <= part[m]
        BY <1>1, Zenon
    <2>2. CASE i < j /\ ~(m < j)
        <3>1. i <= j - 1 /\ j <= m
            BY <2>2
        <3>2. part[i] <= part[j - 1] /\ part[j] <= part[m]
            BY <1>1, <1>2, <3>1, Zenon
        <3> QED BY <1>2, <2>2, <3>2
    <2>3. CASE ~(i < j /\ ~(m < j))
        BY <2>1, <2>3
    <2> QED BY <2>2, <2>3, Zenon
<1> HIDE DEF new
<1>8. SumsTo(u, k, t - a + b)
    BY <1>4, <1>5, <1>6, <1>7, Zenon DEF SumsTo
<1> QED BY <1>a, <1>b, <1>5, <1>8, Zenon

(* A number is added at the end. *)
LEMMA SumExtended ==
    ASSUME NEW k \in Nat, NEW w, NEW u, NEW t, SumsTo(w, k, t),
           u[k + 1] \in Nat, \A i \in 1 .. k : u[i] = w[i]
    PROVE  t \in Nat /\ SumsTo(u, k + 1, t + u[k + 1])
<1>1. PICK part \in [0 .. k -> Nat] :
         /\ part[0] = 0 /\ part[k] = t
         /\ \A i \in 1 .. k : w[i] \in Nat /\ part[i] = part[i - 1] + w[i]
         /\ \A i, m \in 0 .. k : i <= m => part[i] <= part[m]
    BY Zenon DEF SumsTo
<1> DEFINE new == [i \in 0 .. k + 1 |-> IF i = k + 1 THEN t + u[k + 1] ELSE part[i]]
<1>2. /\ t \in Nat /\ \A i \in 0 .. k : part[i] \in Nat /\ part[i] <= t
    BY <1>1
<1>3. \A i \in 0 .. k + 1 : i = k + 1 \/ i \in 0 .. k
    OBVIOUS
<1>4. new \in [0 .. k + 1 -> Nat]
    BY <1>2, <1>3
<1>5. new[0] = 0 /\ new[k + 1] = t + u[k + 1] /\ new[k] = t
    BY <1>1
<1>6. \A i \in 1 .. k + 1 : u[i] \in Nat /\ new[i] = new[i - 1] + u[i]
    <2> SUFFICES ASSUME NEW i \in 1 .. k + 1 PROVE u[i] \in Nat /\ new[i] = new[i - 1] + u[i]
        OBVIOUS
    <2>1. CASE i = k + 1
        <3>1. i - 1 = k
            BY <2>1
        <3> QED BY <1>5, <2>1, <3>1, Zenon
    <2>2. CASE i # k + 1
        <3>1. i \in 1 .. k /\ i \in 0 .. k + 1 /\ i - 1 \in 0 .. k + 1 /\ i - 1 # k + 1
            BY <2>2
        <3>2. new[i] = part[i] /\ new[i - 1] = part[i - 1]
            BY <2>2, <3>1, Zenon
        <3> QED BY <1>1, <3>1, <3>2, Zenon
    <2> QED BY <2>1, <2>2, Zenon
<1>7. \A i, m \in 0 .. k + 1 : i <= m => new[i] <= new[m]
    BY <1>1, <1>2, <1>3
<1> HIDE DEF new
<1> QED BY <1>2, <1>4, <1>5, <1>6, <1>7, Zenon DEF SumsTo

(* The first number is taken away. *)
LEMMA SumShortened ==
    ASSUME NEW k \in Nat, 0 < k, NEW w, NEW u, NEW t, SumsTo(w, k, t),
           \A i \in 1 .. k - 1 : u[i] = w[i + 1]
    PROVE  t \in Nat /\ w[1] \in Nat /\ w[1] <= t /\ SumsTo(u, k - 1, t - w[1])
<1>1. PICK part \in [0 .. k -> Nat] :
         /\ part[0] = 0 /\ part[k] = t
         /\ \A i \in 1 .. k : w[i] \in Nat /\ part[i] = part[i - 1] + w[i]
         /\ \A i, m \in 0 .. k : i <= m => part[i] <= part[m]
    BY Zenon DEF SumsTo
<1>a. PICK a \in Nat : a = w[1] /\ part[1] = a
    <2>1. 1 \in 1 .. k /\ 1 - 1 = 0
        OBVIOUS
    <2>2. PICK a \in Nat : a = w[1] /\ part[1] = part[0] + a
        BY <1>1, <2>1, Zenon
    <2>3. part[1] = a
        BY <1>1, <2>2
    <2> QED BY <2>2, <2>3, Zenon
<1> DEFINE new == [i \in 0 .. k - 1 |-> part[i + 1] - a]
<1>2. \A i \in 0 .. k - 1 : i + 1 \in 0 .. k /\ a <= part[i + 1]
    BY <1>1, <1>a
<1>3. new \in [0 .. k - 1 -> Nat]
    BY <1>2
<1>4. new[0] = 0 /\ new[k - 1] = t - a /\ t \in Nat /\ a <= t
    BY <1>1, <1>a
<1>5. \A i \in 1 .. k - 1 : u[i] \in Nat /\ new[i] = new[i - 1] + u[i]
    <2> SUFFICES ASSUME NEW i \in 1 .. k - 1 PROVE u[i] \in Nat /\ new[i] = new[i - 1] + u[i]
        OBVIOUS
    <2>1. i + 1 \in 1 .. k /\ (i + 1) - 1 = i
        OBVIOUS
    <2>2. PICK c \in Nat : c = w[i + 1] /\ part[i + 1] = part[i] + c
        BY <1>1, <2>1
    <2>3. new[i] = new[i - 1] + c
        <3>1. i \in 0 .. k - 1 /\ i - 1 \in 0 .. k - 1 /\ (i - 1) + 1 = i /\ i \in 0 .. k
            OBVIOUS
        <3>2. new[i] = part[i + 1] - a /\ new[i - 1] = part[i] - a
            BY <3>1, Zenon
        <3>3. part[i + 1] - a = (part[i] - a) + c
            BY <2>1, <2>2, <3>1
        <3> QED BY <3>2, <3>3, Zenon
    <2> QED BY <2>2, <2>3, Zenon
<1>6. \A i, m \in 0 .. k - 1 : i <= m => new[i] <= new[m]
    BY <1>1
<1> HIDE DEF new
<1>7. SumsTo(u, k - 1, t - a)
    BY <1>3, <1>4, <1>5, <1>6, Zenon DEF SumsTo
<1> QED BY <1>a, <1>4, <1>7, Zenon

(* Equal numbers have equal sums. *)
LEMMA SumSame ==
    ASSUME NEW k \in Nat, NEW w, NEW u, NEW t, SumsTo(w, k, t), \A i \in 1 .. k : u[i] = w[i]
    PROVE  t \in Nat /\ SumsTo(u, k, t)
<1>1. k \in 0 .. k
    OBVIOUS
<1> QED BY <1>1, Zenon DEF SumsTo

----------------------------------------------------------------------------
(* The budget of restarts.  Whoever may bring about a restart holds the    *)
(* restarts that can still follow from it: the entry in the map, a monitor *)
(* about to make a request, a queued request, the restart handler, and a   *)
(* start that has not written its count yet.                               *)

(* The restarts that a restart count leaves. *)
Credit(k) == IF k < MaxRestarts THEN MaxRestarts - k ELSE 0

(* Task p has put instance n into the map, and its start is still going on. *)
Finishing(p, n) ==
    \/ call[p].pc = "announce" /\ call[p].mine = n
    \/ call[p].pc \in {"running", "count"} /\ call[p].seen = n

PendingCredit(n) == IF pending[n] = None THEN 0 ELSE Credit(pending[n])
StartCredit(n) == IF \E p \in Callers : Finishing(p, n) THEN MaxRestarts ELSE 0
InstanceCredits == [n \in Instances |-> PendingCredit(n) + StartCredit(n)]

QueueCredits == [i \in 1 .. Len(requests) |-> Credit(requests[i])]

EntryCredit == IF Present /\ ~Unsettled THEN Credit(entry.count) ELSE 0

(* The handler's start, before and after the collector is in the map. *)
ToInsert == {"check", "issue", "spawn", "insert"}
Inserted == {"announce", "running", "count"}

HandlerCredit ==
    IF call[Handler].pc \in ToInsert THEN Credit(call[Handler].cnt)
    ELSE IF call[Handler].pc \in Inserted THEN Credit(call[Handler].cnt + 1) ELSE 0

(* Only restarts that are allowed are requested, and the handler does      *)
(* nothing else.                                                           *)
RequestsAllowed ==
    /\ \A n \in Instances : pending[n] # None => pending[n] < MaxRestarts
    /\ \A i \in 1 .. Len(requests) : requests[i] < MaxRestarts
    /\ call[Handler].pc \in ToInsert => call[Handler].cnt < MaxRestarts
    /\ call[Handler].pc \in ToInsert \cup Inserted \cup {"idle", "failed"}

(* A start knows its instance, and every instance has one start. *)
OneStart ==
    /\ \A p \in Tasks : call[p].pc \in {"running", "count"} => call[p].seen # 0
    /\ \A p, q \in Tasks : \A n \in Instances : Finishing(p, n) /\ Finishing(q, n) => p = q

WithinBudget ==
    \E s, r \in Nat :
        /\ SumsTo(InstanceCredits, MaxSpawn, s) /\ SumsTo(QueueCredits, Len(requests), r)
        /\ autos + EntryCredit + HandlerCredit + s + r <= 0

BudgetInv == RequestsAllowed /\ OneStart /\ WithinBudget

(* Credits are natural numbers, and at most max_restarts. *)
LEMMA CreditBounds ==
    /\ MaxRestarts \in Nat /\ MaxSpawn \in Nat
    /\ \A k \in Nat : Credit(k) \in Nat /\ Credit(k) <= MaxRestarts
    /\ \A k \in Nat : k < MaxRestarts => Credit(k) = Credit(k + 1) + 1
BY SpawnAssumption DEF Credit

LEMMA CreditTypes ==
    ASSUME TypeOK
    PROVE  /\ autos \in Int /\ EntryCredit \in Nat /\ EntryCredit <= MaxRestarts
           /\ HandlerCredit \in Nat
           /\ \A n \in Instances : PendingCredit(n) \in Nat /\ StartCredit(n) \in Nat
<1>1. /\ autos \in Int /\ entry.count \in Nat /\ 0 \in Nat
      /\ \A n \in Instances : pending[n] \in Nat \cup {None}
    BY DEF TypeOK, CollectorProcess
<1>2. call[Handler].cnt \in Nat /\ call[Handler].cnt + 1 \in Nat
    BY Facts DEF Tasks, Calls
<1>3. 0 <= MaxRestarts
    BY SpawnAssumption
<1> QED BY <1>1, <1>2, <1>3, CreditBounds, Zenon DEF EntryCredit, HandlerCredit, PendingCredit, StartCredit

LEMMA CreditTypesAfter ==
    ASSUME TypeOK'
    PROVE  /\ autos' \in Int /\ EntryCredit' \in Nat /\ EntryCredit' <= MaxRestarts
           /\ HandlerCredit' \in Nat
           /\ \A n \in Instances : PendingCredit(n)' \in Nat /\ StartCredit(n)' \in Nat
<1>1. /\ autos' \in Int /\ entry'.count \in Nat /\ 0 \in Nat
      /\ \A n \in Instances : pending'[n] \in Nat \cup {None}
    BY DEF TypeOK, CollectorProcess
<1>2. call'[Handler].cnt \in Nat /\ call'[Handler].cnt + 1 \in Nat
    BY DEF TypeOK, Tasks, Calls
<1>3. 0 <= MaxRestarts
    BY SpawnAssumption
<1> QED BY <1>1, <1>2, <1>3, CreditBounds, Zenon DEF EntryCredit, HandlerCredit, PendingCredit, StartCredit

(* How the sum of the history a, an entry's credit and the handler's moves. *)
LEMMA SmallerEntry ==
    ASSUME NEW a \in Int, NEW e \in Nat, NEW f \in Nat, NEW h \in Nat, f <= e
    PROVE  a + f + h <= a + e + h /\ a + f + 0 <= a + e + h
OBVIOUS

LEMMA EntryForHandler ==
    ASSUME NEW a \in Int, NEW e \in Nat, NEW f \in Nat, NEW h \in Nat, f <= h
    PROVE  a + f + 0 <= a + e + h
OBVIOUS

(* What the handler, the entry and the history hold is at most what it was. *)
LEMMA BudgetSame ==
    ASSUME TypeOK, TypeOK', WithinBudget, requests' = requests,
           \A n \in Instances :
              PendingCredit(n)' = PendingCredit(n) /\ StartCredit(n)' = StartCredit(n),
           autos' + EntryCredit' + HandlerCredit' <= autos + EntryCredit + HandlerCredit
    PROVE  WithinBudget'
<1>1. PICK s \in Nat, r \in Nat :
         /\ SumsTo(InstanceCredits, MaxSpawn, s) /\ SumsTo(QueueCredits, Len(requests), r)
         /\ autos + EntryCredit + HandlerCredit + s + r <= 0
    BY Zenon DEF WithinBudget
<1>2. InstanceCredits' = InstanceCredits /\ QueueCredits' = QueueCredits
    BY Zenon DEF InstanceCredits, QueueCredits
<1> DEFINE x == autos + EntryCredit + HandlerCredit
           y == autos' + EntryCredit' + HandlerCredit'
<1>3. x \in Int /\ y \in Int /\ x + s + r <= 0 /\ y <= x
    <2>1. x \in Int /\ y \in Int
        <3>1. /\ autos \in Int /\ EntryCredit \in Nat /\ HandlerCredit \in Nat
              /\ autos' \in Int /\ EntryCredit' \in Nat /\ HandlerCredit' \in Nat
            BY CreditTypes, CreditTypesAfter, Zenon
        <3> QED BY ONLY <3>1
    <2> QED BY <1>1, <2>1, Zenon
<1> HIDE DEF x, y
<1>4. y + s + r <= 0
    BY ONLY <1>3, s \in Nat, r \in Nat
<1> QED BY <1>1, <1>2, <1>4, Zenon DEF WithinBudget, y

(* Credit is passed between these and one instance. *)
LEMMA BudgetMoves ==
    ASSUME TypeOK, TypeOK', WithinBudget, requests' = requests, NEW n \in Instances,
           \A m \in Instances : m # n =>
              PendingCredit(m)' = PendingCredit(m) /\ StartCredit(m)' = StartCredit(m),
           autos' + EntryCredit' + HandlerCredit' + PendingCredit(n)' + StartCredit(n)'
              <= autos + EntryCredit + HandlerCredit + PendingCredit(n) + StartCredit(n)
    PROVE  WithinBudget'
<1>1. PICK s \in Nat, r \in Nat :
         /\ SumsTo(InstanceCredits, MaxSpawn, s) /\ SumsTo(QueueCredits, Len(requests), r)
         /\ autos + EntryCredit + HandlerCredit + s + r <= 0
    BY Zenon DEF WithinBudget
<1> DEFINE old == PendingCredit(n) + StartCredit(n)
           new == PendingCredit(n)' + StartCredit(n)'
<1>2. /\ InstanceCredits[n] = old /\ InstanceCredits'[n] = new
      /\ \A m \in Instances : m # n => InstanceCredits'[m] = InstanceCredits[m]
    BY Zenon DEF InstanceCredits
<1>3. old \in Nat /\ new \in Nat
    BY CreditTypes, CreditTypesAfter
<1>4. old <= s /\ SumsTo(InstanceCredits', MaxSpawn, s - old + new)
    <2>1. /\ MaxSpawn \in Nat /\ n \in 1 .. MaxSpawn /\ InstanceCredits'[n] \in Nat
          /\ \A m \in 1 .. MaxSpawn : m # n => InstanceCredits'[m] = InstanceCredits[m]
        BY <1>2, <1>3, SpawnAssumption, Zenon DEF Instances
    <2>2. /\ InstanceCredits[n] <= s
          /\ SumsTo(InstanceCredits', MaxSpawn, s - InstanceCredits[n] + InstanceCredits'[n])
        BY ONLY <1>1, <2>1, SumChanged, Zenon
    <2> QED BY <1>2, <2>2, Zenon
<1>5. SumsTo(QueueCredits', Len(requests'), r)
    BY <1>1, Zenon DEF QueueCredits
<1>6. autos' + EntryCredit' + HandlerCredit' + new <= autos + EntryCredit + HandlerCredit + old
    BY CreditTypes, CreditTypesAfter
<1> DEFINE x == autos + EntryCredit + HandlerCredit
           y == autos' + EntryCredit' + HandlerCredit'
<1>7. x \in Int /\ y \in Int /\ x + s + r <= 0 /\ y + new <= x + old
    <2>1. x \in Int /\ y \in Int
        <3>1. /\ autos \in Int /\ EntryCredit \in Nat /\ HandlerCredit \in Nat
              /\ autos' \in Int /\ EntryCredit' \in Nat /\ HandlerCredit' \in Nat
            BY CreditTypes, CreditTypesAfter, Zenon
        <3> QED BY ONLY <3>1
    <2> QED BY <1>1, <1>6, <2>1, Zenon
<1> HIDE DEF old, new, x, y
<1>8. s - old + new \in Nat /\ y + (s - old + new) + r <= 0
    <2>1. old <= s
        BY <1>4, Zenon
    <2> QED BY ONLY <1>3, <1>7, <2>1, s \in Nat, r \in Nat
<1> QED BY <1>4, <1>5, <1>8, Zenon DEF WithinBudget, y

(* Who is in the map is unsettled while its start goes on. *)
LEMMA UnsettledMeans == Unsettled <=> \E p \in Tasks : Finishing(p, entry.pid)
BY Zenon DEF Unsettled, Finishing

LEMMA UnsettledMeansAfter == Unsettled' <=> \E p \in Tasks : Finishing(p, entry.pid)'
BY Zenon DEF Unsettled, Finishing

(* Where the calls of all starts stay and the entry goes or keeps its      *)
(* count, the entry's credit does not grow.                                *)
LEMMA EntryCreditKept ==
    ASSUME TypeOK, TypeOK', \A q \in Tasks : \A n : Finishing(q, n)' <=> Finishing(q, n),
           entry' = NoEntry \/ (entry'.pid = entry.pid /\ entry'.count = entry.count)
    PROVE  EntryCredit' <= EntryCredit
<1>1. EntryCredit \in Nat
    BY CreditTypes, Zenon
<1>2. CASE entry' = NoEntry
    <2>1. EntryCredit' = 0
        BY <1>2, Zenon DEF EntryCredit, Present
    <2> QED BY <1>1, <2>1
<1>3. CASE entry'.pid = entry.pid /\ entry'.count = entry.count
    <2>1. Present <=> entry.pid # 0
        BY Zenon DEF TypeOK, Present
    <2>2. Present' <=> entry'.pid # 0
        BY Zenon DEF TypeOK, Present
    <2>3. Unsettled' <=> Unsettled
        BY <1>3, UnsettledMeans, UnsettledMeansAfter, Zenon
    <2>4. EntryCredit' = EntryCredit
        BY <1>3, <2>1, <2>2, <2>3, Zenon DEF EntryCredit
    <2> QED BY <1>1, <2>4
<1> QED BY <1>2, <1>3, Zenon

(* A step of a task that is not finishing a start. *)
LEMMA AsideBudget ==
    ASSUME TypeOK, TypeOK', BudgetInv, NEW p \in Tasks,
           \A q \in Tasks : q # p => call'[q] = call[q],
           call[p].pc \notin Inserted, call'[p].pc \notin Inserted,
           entry' = NoEntry \/ (entry'.pid = entry.pid /\ entry'.count = entry.count),
           p = Handler =>
              \/ call'[p].pc \in {"idle", "failed"}
              \/ /\ call'[p].pc \in ToInsert /\ call[p].pc \in ToInsert
                 /\ call'[p].cnt = call[p].cnt,
           UNCHANGED <<pending, requests, autos>>
    PROVE  BudgetInv'
<1>a. RequestsAllowed /\ OneStart /\ WithinBudget /\ Handler \in Tasks
    BY Zenon DEF BudgetInv, Tasks
<1>b. pending' = pending /\ requests' = requests /\ autos' = autos
    BY Zenon
<1>1. \A q \in Tasks : \A n : Finishing(q, n)' <=> Finishing(q, n)
    BY Zenon DEF Finishing, Inserted
<1>2. EntryCredit' <= EntryCredit
    BY <1>1, EntryCreditKept, Zenon
<1>3. HandlerCredit' \in {HandlerCredit, 0}
    BY <1>a, Zenon DEF HandlerCredit, ToInsert, Inserted
<1>4. autos' + EntryCredit' + HandlerCredit' <= autos + EntryCredit + HandlerCredit
    <2>1. autos \in Int /\ EntryCredit \in Nat /\ EntryCredit' \in Nat /\ HandlerCredit \in Nat
        BY CreditTypes, CreditTypesAfter, Zenon
    <2>2. CASE HandlerCredit' = HandlerCredit
        BY ONLY <1>b, <1>2, <2>1, <2>2, SmallerEntry, Zenon
    <2>3. CASE HandlerCredit' = 0
        BY ONLY <1>b, <1>2, <2>1, <2>3, SmallerEntry, Zenon
    <2> QED BY <1>3, <2>2, <2>3, Zenon
<1>5. \A n \in Instances :
         PendingCredit(n)' = PendingCredit(n) /\ StartCredit(n)' = StartCredit(n)
    BY <1>b, <1>1, Zenon DEF PendingCredit, StartCredit, Tasks
<1>6. WithinBudget'
    BY <1>a, <1>b, <1>4, <1>5, BudgetSame, Zenon
<1>7. RequestsAllowed'
    BY <1>a, <1>b, Zenon DEF RequestsAllowed, ToInsert, Inserted
<1>8. OneStart'
    BY <1>a, <1>1, Zenon DEF OneStart, Inserted
<1> QED BY <1>6, <1>7, <1>8, Zenon DEF BudgetInv

(* Steps of a stop.  The handler stops nothing. *)
LEMMA StopBudget ==
    ASSUME TypeOK, TypeOK', BudgetInv, NEW p \in Tasks, Stop(p)
    PROVE  BudgetInv'
<1>1. /\ call[p].pc \in {"stop", "rpc", "wait", "force", "reap", "again", "shut"}
      /\ UNCHANGED <<pending, requests, autos>>
    BY Zenon DEF Stop, StopBegins, RpcStops, RpcFails, TermFails, WaitEnds, WaitRunsOut, Kill,
       KillEnds, KillRunsOut, SecondPass, ShutdownReturns, managerVars, monitorVars
<1>2. p # Handler /\ call[p].pc \notin Inserted
    BY <1>1, Zenon DEF BudgetInv, RequestsAllowed, ToInsert, Inserted
<1>3. (\A q \in Tasks : q # p => call'[q] = call[q]) /\ call'[p].pc \notin Inserted
    <2>1. ASSUME NEW ok \in BOOLEAN, StopReturns(p, ok)
          PROVE  (\A q \in Tasks : q # p => call'[q] = call[q]) /\ call'[p].pc \notin Inserted
        BY <2>1, StopReturnsTo, Zenon DEF AfterStop, To, Inserted
    <2>2. ASSUME NEW step \in {"wait", "force", "reap"}, Goto(p, step)
          PROVE  (\A q \in Tasks : q # p => call'[q] = call[q]) /\ call'[p].pc \notin Inserted
        BY <2>2, GotoTo, Zenon DEF Steps, To, Inserted
    <2>3. ASSUME NEW c, NEW step, call' = [call EXCEPT ![p].mine = c, ![p].pc = step],
                 step \in {"rpc", "wait", "force"}
          PROVE  (\A q \in Tasks : q # p => call'[q] = call[q]) /\ call'[p].pc \notin Inserted
        <3>1. call \in [Tasks -> Calls] /\ call[p] \in Calls
            BY Zenon DEF TypeOK
        <3> QED BY ONLY <2>3, <3>1, p \in Tasks, Zenon DEF Calls, Inserted
    <2>4. ASSUME StopBegins(p)
          PROVE  (\A q \in Tasks : q # p => call'[q] = call[q]) /\ call'[p].pc \notin Inserted
        <3>1. CASE \E ok \in BOOLEAN : StopReturns(p, ok)
            BY <2>1, <3>1, Zenon
        <3>2. CASE ~ \E ok \in BOOLEAN : StopReturns(p, ok)
            <4> DEFINE step == CASE ~Graceful(p) -> "force"
                                 [] Graceful(p) /\ entry.rpc -> "rpc"
                                 [] OTHER -> "wait"
            <4>1. call' = [call EXCEPT ![p].mine = entry.child, ![p].pc = step]
                BY <2>4, <3>2, Zenon DEF StopBegins
            <4>2. step \in {"rpc", "wait", "force"}
                BY Zenon
            <4> HIDE DEF step
            <4> QED BY <2>3, <4>1, <4>2, Zenon
        <3> QED BY <3>1, <3>2, Zenon
    <2>5. ASSUME SecondPass(p) \/ ShutdownReturns(p)
          PROVE  (\A q \in Tasks : q # p => call'[q] = call[q]) /\ call'[p].pc \notin Inserted
        <3>1. CASE SecondPass(p)
            <4>1. call \in [Tasks -> Calls] /\ call[p] \in Calls
                BY Zenon DEF TypeOK
            <4> QED BY ONLY <3>1, <4>1, p \in Tasks, Zenon DEF SecondPass, Calls, Inserted
        <3>2. CASE ShutdownReturns(p)
            BY <3>2, ReturnsTo, Zenon DEF ShutdownReturns, To, Inserted
        <3> QED BY <2>5, <3>1, <3>2, Zenon
    <2>6. CASE ~StopBegins(p) /\ ~SecondPass(p) /\ ~ShutdownReturns(p)
        <3>1. (\E ok \in BOOLEAN : StopReturns(p, ok)) \/ \E step \in {"wait", "force", "reap"} : Goto(p, step)
            BY <2>6, Zenon DEF Stop, RpcStops, RpcFails, TermFails, WaitEnds, WaitRunsOut, Kill,
               KillEnds, KillRunsOut
        <3> QED BY <2>1, <2>2, <3>1, Zenon
    <2> QED BY <2>4, <2>5, <2>6, Zenon
<1>4. entry' = NoEntry \/ (entry'.pid = entry.pid /\ entry'.count = entry.count)
    <2>1. \/ entry' = NoEntry \/ entry' = entry \/ entry' = SetState("Failed")
          \/ entry' = [entry EXCEPT !.state = "Failed", !.child = call[p].mine]
          \/ entry' = [entry EXCEPT !.state = "Stopping", !.child = 0, !.rpc = FALSE]
        BY Zenon DEF Stop, StopBegins, RpcStops, RpcFails, TermFails, WaitEnds, WaitRunsOut, Kill,
           KillEnds, KillRunsOut, SecondPass, ShutdownReturns, managerVars
    <2>2. entry \in CollectorProcess
        BY Zenon DEF TypeOK
    <2> QED BY ONLY <2>1, <2>2 DEF SetState, CollectorProcess
<1> QED BY <1>1, <1>2, <1>3, <1>4, AsideBudget, Zenon

(* Steps in which no call moves. *)
LEMMA OutsideBudget ==
    ASSUME TypeOK, TypeOK', BudgetInv, call' = call,
           entry' = NoEntry \/ (entry'.pid = entry.pid /\ entry'.count = entry.count),
           UNCHANGED <<pending, requests, autos>>
    PROVE  BudgetInv'
<1>a. RequestsAllowed /\ OneStart /\ WithinBudget
    BY Zenon DEF BudgetInv
<1>b. pending' = pending /\ requests' = requests /\ autos' = autos
    BY Zenon
<1>1. \A q \in Tasks : \A n : Finishing(q, n)' <=> Finishing(q, n)
    BY Zenon DEF Finishing
<1>2. EntryCredit' <= EntryCredit
    BY <1>1, EntryCreditKept, Zenon
<1>3. HandlerCredit' = HandlerCredit
    BY Zenon DEF HandlerCredit
<1>4. autos' + EntryCredit' + HandlerCredit' <= autos + EntryCredit + HandlerCredit
    <2>1. autos \in Int /\ EntryCredit \in Nat /\ EntryCredit' \in Nat /\ HandlerCredit \in Nat
        BY CreditTypes, CreditTypesAfter, Zenon
    <2> QED BY ONLY <1>b, <1>2, <1>3, <2>1, SmallerEntry, Zenon
<1>5. \A n \in Instances :
         PendingCredit(n)' = PendingCredit(n) /\ StartCredit(n)' = StartCredit(n)
    BY <1>b, <1>1, Zenon DEF PendingCredit, StartCredit, Tasks
<1>6. WithinBudget'
    BY <1>a, <1>b, <1>4, <1>5, BudgetSame, Zenon
<1>7. RequestsAllowed' /\ OneStart'
    BY <1>a, <1>b, <1>1, Zenon DEF RequestsAllowed, OneStart
<1> QED BY <1>6, <1>7, Zenon DEF BudgetInv

(* Calls begin. *)
LEMMA CallBudget ==
    ASSUME TypeOK, TypeOK', BudgetInv, NEW p \in Tasks, Call(p)
    PROVE  BudgetInv'
<1>1. p # Handler /\ call[p] = Idle /\ entry' = entry /\ UNCHANGED <<pending, requests, autos>>
    BY CallersAssumption, Zenon DEF Call, CallStart, CallStop, managerVars, monitorVars
<1>2. call[p].pc \notin Inserted
    BY <1>1, IdleCall, Zenon DEF Inserted
<1>3. (\A q \in Tasks : q # p => call'[q] = call[q]) /\ call'[p].pc \notin Inserted
    <2>1. CASE CallStart(p)
        <3>1. call \in [Tasks -> Calls] /\ call[p] \in Calls
            BY Zenon DEF TypeOK
        <3> QED BY ONLY <2>1, <3>1, p \in Tasks, Zenon DEF CallStart, Calls, Inserted
    <2>2. CASE CallStop(p)
        <3>1. PICK o : call' = [call EXCEPT ![p] =
                 [pc |-> "stop", op |-> o, mine |-> 0,
                  cnt |-> IF o = "restart" THEN entry.count ELSE 0,
                  seen |-> IF o = "shutdown" THEN entry.pid ELSE 0]]
            BY <2>2, Zenon DEF CallStop
        <3> QED BY <3>1, Zenon DEF TypeOK, Inserted
    <2> QED BY <2>1, <2>2, Zenon DEF Call
<1> QED BY <1>1, <1>2, <1>3, AsideBudget, Zenon

(* A start that fails gives its credit up. *)
LEMMA FailureBudget ==
    ASSUME TypeOK, TypeOK', BudgetInv, NEW p \in Tasks, call[p].pc \in ToInsert, StartFails(p),
           entry' = entry, UNCHANGED <<pending, requests, autos>>
    PROVE  BudgetInv'
<1>1. PICK step \in {"idle", "failed"} : To(p, step, "none", 0, 0)
    BY StartFailsTo, Zenon
<1>2. call[p].pc \notin Inserted /\ call'[p].pc \in {"idle", "failed"} /\ call'[p].pc \notin Inserted
      /\ \A q \in Tasks : q # p => call'[q] = call[q]
    BY <1>1, Zenon DEF To, ToInsert, Inserted
<1> QED BY <1>2, AsideBudget, Zenon

(* A start that goes on towards the map keeps it. *)
LEMMA AdvanceBudget ==
    ASSUME TypeOK, TypeOK', BudgetInv, NEW p \in Tasks, call[p].pc \in ToInsert,
           \A q \in Tasks : q # p => call'[q] = call[q],
           call'[p].pc \in ToInsert, call'[p].cnt = call[p].cnt,
           entry' = entry, UNCHANGED <<pending, requests, autos>>
    PROVE  BudgetInv'
<1>1. call[p].pc \notin Inserted /\ call'[p].pc \notin Inserted
    BY Zenon DEF ToInsert, Inserted
<1> QED BY <1>1, AsideBudget, Zenon

LEMMA GotoKeepsCount ==
    ASSUME TypeOK, NEW p \in Tasks, NEW step, Goto(p, step)
    PROVE  /\ \A q \in Tasks : q # p => call'[q] = call[q]
           /\ call'[p].pc = step /\ call'[p].cnt = call[p].cnt
           /\ call'[p].mine = call[p].mine /\ call'[p].seen = call[p].seen
<1>1. call \in [Tasks -> Calls] /\ call[p] \in Calls
    BY Zenon DEF TypeOK
<1> QED BY <1>1, Zenon DEF Goto, Calls

(* The steps of a start up to the map. *)
LEMMA ToInsertBudget ==
    ASSUME TypeOK, TypeOK', BudgetInv, NEW p \in Tasks,
           Check(p) \/ Issue(p) \/ Spawn(p) \/ SpawnFails(p)
    PROVE  BudgetInv'
<1>1. call[p].pc \in ToInsert /\ entry' = entry /\ UNCHANGED <<pending, requests, autos>>
    BY Zenon DEF Check, Issue, Spawn, SpawnFails, managerVars, monitorVars, ToInsert
<1>2. CASE StartFails(p)
    BY <1>1, <1>2, FailureBudget, Zenon
<1>3. CASE Goto(p, "issue") \/ Goto(p, "insert")
    <2>1. /\ \A q \in Tasks : q # p => call'[q] = call[q]
          /\ call'[p].pc \in ToInsert /\ call'[p].cnt = call[p].cnt
        BY <1>3, GotoKeepsCount, Zenon DEF ToInsert
    <2> QED BY <1>1, <2>1, AdvanceBudget, Zenon
<1>4. CASE call' = [call EXCEPT ![p].pc = "spawn", ![p].mine = spawned']
    <2>0. call \in [Tasks -> Calls] /\ call[p] \in Calls
        BY Zenon DEF TypeOK
    <2>1. /\ \A q \in Tasks : q # p => call'[q] = call[q]
          /\ call'[p].pc \in ToInsert /\ call'[p].cnt = call[p].cnt
        BY <1>4, <2>0, Zenon DEF ToInsert, Calls
    <2> QED BY <1>1, <2>1, AdvanceBudget, Zenon
<1> QED BY <1>2, <1>3, <1>4, Zenon DEF Check, Issue, Spawn, SpawnFails

(* The handler has marked a failed restart. *)
LEMMA MarkFailedBudget ==
    ASSUME TypeOK, TypeOK', BudgetInv, MarkFailed
    PROVE  BudgetInv'
<1>1. /\ Handler \in Tasks /\ call[Handler].pc = "failed" /\ Returns(Handler)
      /\ entry' = SetState("Failed") /\ UNCHANGED <<pending, requests, autos>>
    BY Zenon DEF MarkFailed, Tasks, monitorVars
<1>2. To(Handler, "idle", "none", 0, 0)
    BY <1>1, ReturnsTo, Zenon
<1>3. /\ call[Handler].pc \notin Inserted /\ call'[Handler].pc = "idle"
      /\ call'[Handler].pc \notin Inserted
      /\ \A q \in Tasks : q # Handler => call'[q] = call[q]
    BY <1>1, <1>2, Zenon DEF To, Inserted
<1>4. entry'.pid = entry.pid /\ entry'.count = entry.count
    BY <1>1 DEF SetState, TypeOK, CollectorProcess
<1> QED BY <1>1, <1>3, <1>4, AsideBudget, Zenon

(* The collector goes into the map: a caller brings max_restarts with it,  *)
(* and the handler uses one restart up.                                    *)
LEMMA InsertBudget ==
    ASSUME ManagerInv, TypeOK', BudgetInv, NEW p \in Tasks, Insert(p)
    PROVE  BudgetInv'
<1>a. TypeOK /\ Held /\ Private /\ RequestsAllowed /\ OneStart /\ WithinBudget
    BY Parts, Zenon DEF BudgetInv
<1>b. /\ call[p].pc = "insert" /\ call[p].pc \in ToInsert
      /\ pending' = pending /\ requests' = requests
    BY Zenon DEF Insert, ToInsert, monitorVars
<1>c. PICK n \in Instances : n = call[p].mine
    <2>1. call[p].mine # 0 /\ call[p].mine \in 0 .. MaxSpawn
        BY <1>a, <1>b, Facts, Zenon DEF Held, Holding, Calls
    <2> QED BY <2>1, SpawnAssumption DEF Instances
<1>1. CASE ~StillAbsent
    BY <1>a, <1>b, <1>1, FailureBudget, Zenon DEF Insert
<1>2. CASE StillAbsent
    <2>1. /\ entry'.pid = n /\ ~Present
          /\ autos' = IF p = Handler THEN autos + 1 ELSE autos - MaxRestarts
        <3>1. /\ entry' = [pid |-> call[p].mine, child |-> call[p].mine, state |-> "Starting",
                            count |-> 0, rpc |-> FALSE]
              /\ autos' = IF p = Handler THEN autos + 1 ELSE autos - MaxRestarts
            BY <1>2, Zenon DEF Insert
        <3>2. entry'.pid = call[p].mine
            BY ONLY <3>1
        <3> QED BY <1>c, <1>2, <3>1, <3>2, Zenon DEF StillAbsent
    <2>2. /\ \A q \in Tasks : q # p => call'[q] = call[q]
          /\ call'[p].pc = "announce" /\ call'[p].cnt = call[p].cnt
          /\ call'[p].mine = n /\ call'[p].seen = call[p].seen
        BY <1>a, <1>c, <1>2, GotoKeepsCount, Zenon DEF Insert
    <2>3. /\ \A q \in Tasks : q # p => \A m : Finishing(q, m)' <=> Finishing(q, m)
          /\ \A m : ~Finishing(p, m) /\ (Finishing(p, m)' <=> m = n)
        BY <1>b, <2>2, Zenon DEF Finishing
    <2>4. \A q \in Tasks : ~Finishing(q, n)
        <3>1. \A q \in Tasks : call[q].seen # n /\ (q # p => call[q].mine # n)
            BY <1>a, <1>b, <1>c, Zenon DEF Private, Newborn
        <3> QED BY <2>3, <3>1, Zenon DEF Finishing
    <2>5. EntryCredit = 0 /\ EntryCredit' = 0
        BY <2>1, <2>3, UnsettledMeansAfter, Zenon DEF EntryCredit
    <2>6. OneStart'
        <3>1. \A q \in Tasks : call'[q].pc \in {"running", "count"} => call'[q].seen # 0
            BY <1>a, <2>2, Zenon DEF OneStart
        <3>2. ASSUME NEW q1 \in Tasks, NEW q2 \in Tasks, NEW m \in Instances,
                     Finishing(q1, m)', Finishing(q2, m)'
              PROVE  q1 = q2
            <4>1. CASE m = n
                BY <2>3, <2>4, <3>2, <4>1, Zenon
            <4>2. CASE m # n
                <5>1. Finishing(q1, m) /\ Finishing(q2, m)
                    BY <2>3, <3>2, <4>2, Zenon
                <5> QED BY <1>a, <5>1, Zenon DEF OneStart
            <4> QED BY <4>1, <4>2, Zenon
        <3> QED BY <3>1, <3>2, Zenon DEF OneStart
    <2>7. RequestsAllowed'
        BY <1>a, <1>b, <2>2, Zenon DEF RequestsAllowed, ToInsert, Inserted, Tasks
    <2>8. \A m : PendingCredit(m)' = PendingCredit(m)
        BY <1>b, Zenon DEF PendingCredit
    <2>9. CASE p = Handler
        <3>1. \A m \in Instances : StartCredit(m)' = StartCredit(m)
            BY <2>3, <2>9, CallersAssumption, Zenon DEF StartCredit, Tasks
        <3>2. HandlerCredit = Credit(call[p].cnt) /\ HandlerCredit' = Credit(call[p].cnt + 1)
            BY <1>b, <2>2, <2>9, Zenon DEF HandlerCredit, ToInsert, Inserted
        <3>3. call[p].cnt \in Nat /\ call[p].cnt < MaxRestarts
            BY <1>a, <1>b, <2>9, Facts, Zenon DEF RequestsAllowed, Calls
        <3>4. HandlerCredit = HandlerCredit' + 1
            BY <3>2, <3>3, CreditBounds, Zenon
        <3>5. autos' + EntryCredit' + HandlerCredit' <= autos + EntryCredit + HandlerCredit
            BY <1>a, <2>1, <2>5, <2>9, <3>4, CreditTypes, CreditTypesAfter
        <3>6. WithinBudget'
            BY <1>a, <1>b, <2>8, <3>1, <3>5, BudgetSame, Zenon
        <3> QED BY <2>6, <2>7, <3>6, Zenon DEF BudgetInv
    <2>10. CASE p # Handler
        <3>1. \A m \in Instances : m # n => StartCredit(m)' = StartCredit(m)
            BY <2>3, Zenon DEF StartCredit, Tasks
        <3>2. StartCredit(n) = 0 /\ StartCredit(n)' = MaxRestarts
            BY <2>3, <2>4, <2>10, Zenon DEF StartCredit, Tasks
        <3>3. HandlerCredit' = HandlerCredit
            BY <2>2, <2>10, Zenon DEF HandlerCredit, Tasks
        <3>4. PendingCredit(n)' = PendingCredit(n) /\ PendingCredit(n) \in Nat
            BY <1>a, <1>c, <2>8, CreditTypes, Zenon
        <3>5. autos' + EntryCredit' + HandlerCredit' + PendingCredit(n)' + StartCredit(n)'
                 <= autos + EntryCredit + HandlerCredit + PendingCredit(n) + StartCredit(n)
            <4>1. autos \in Int /\ HandlerCredit \in Nat /\ MaxRestarts \in Nat /\ autos' = autos - MaxRestarts
                BY <1>a, <2>1, <2>10, CreditTypes, CreditBounds, Zenon
            <4> QED BY ONLY <2>5, <3>2, <3>3, <3>4, <4>1
        <3>6. WithinBudget'
            BY <1>a, <1>b, <1>c, <2>8, <3>1, <3>5, BudgetMoves, Zenon
        <3> QED BY <2>6, <2>7, <3>6, Zenon DEF BudgetInv
    <2> QED BY <2>9, <2>10, Zenon
<1> QED BY <1>1, <1>2, Zenon

(* A start goes on after it has put the collector into the map. *)
LEMMA FinishBudget ==
    ASSUME TypeOK, TypeOK', BudgetInv, NEW p \in Tasks,
           \A q \in Tasks : q # p => call'[q] = call[q],
           call[p].pc \in {"announce", "running"}, call'[p].pc \in {"running", "count"},
           call'[p].seen = (IF call[p].pc = "announce" THEN call[p].mine ELSE call[p].seen),
           call'[p].seen # 0, call'[p].cnt = call[p].cnt,
           entry'.pid = entry.pid, entry'.count = entry.count,
           UNCHANGED <<pending, requests, autos>>
    PROVE  BudgetInv'
<1>a. RequestsAllowed /\ OneStart /\ WithinBudget
    BY Zenon DEF BudgetInv
<1>b. pending' = pending /\ requests' = requests /\ autos' = autos
    BY Zenon
<1>1. \A q \in Tasks : \A n : Finishing(q, n)' <=> Finishing(q, n)
    BY Zenon DEF Finishing
<1>2. EntryCredit' <= EntryCredit
    BY <1>1, EntryCreditKept, Zenon
<1>3. HandlerCredit' = HandlerCredit
    BY Zenon DEF HandlerCredit, ToInsert, Inserted, Tasks
<1>4. autos' + EntryCredit' + HandlerCredit' <= autos + EntryCredit + HandlerCredit
    <2>1. autos \in Int /\ EntryCredit \in Nat /\ EntryCredit' \in Nat /\ HandlerCredit \in Nat
        BY CreditTypes, CreditTypesAfter, Zenon
    <2> QED BY ONLY <1>b, <1>2, <1>3, <2>1, SmallerEntry, Zenon
<1>5. \A n \in Instances :
         PendingCredit(n)' = PendingCredit(n) /\ StartCredit(n)' = StartCredit(n)
    BY <1>b, <1>1, Zenon DEF PendingCredit, StartCredit, Tasks
<1>6. WithinBudget'
    BY <1>a, <1>b, <1>4, <1>5, BudgetSame, Zenon
<1>7. RequestsAllowed'
    BY <1>a, <1>b, Zenon DEF RequestsAllowed, ToInsert, Inserted, Tasks
<1>8. OneStart'
    BY <1>a, <1>1, Zenon DEF OneStart
<1> QED BY <1>6, <1>7, <1>8, Zenon DEF BudgetInv

(* A caller's start ends: its credit is worth that of any entry. *)
LEMMA SettleBudget ==
    ASSUME TypeOK, TypeOK', BudgetInv, NEW p \in Tasks, p # Handler,
           \A q \in Tasks : q # p => call'[q] = call[q],
           call[p].pc \in {"running", "count"}, call'[p].pc = "idle",
           UNCHANGED <<pending, requests, autos>>
    PROVE  BudgetInv'
<1>a. RequestsAllowed /\ OneStart /\ WithinBudget
    BY Zenon DEF BudgetInv
<1>b. pending' = pending /\ requests' = requests /\ autos' = autos
    BY Zenon
<1>c. PICK n \in Instances : n = call[p].seen
    <2>1. call[p].seen # 0 /\ call[p].seen \in 0 .. MaxSpawn
        BY <1>a, Facts, Zenon DEF OneStart, Calls
    <2> QED BY <2>1, SpawnAssumption DEF Instances
<1>1. /\ \A q \in Tasks : q # p => \A m : Finishing(q, m)' <=> Finishing(q, m)
      /\ \A m : ~Finishing(p, m)' /\ (Finishing(p, m) <=> m = n)
    BY <1>c, Zenon DEF Finishing
<1>2. ASSUME NEW q \in Tasks, Finishing(q, n)'
      PROVE  FALSE
    <2>1. Finishing(p, n) /\ Finishing(q, n) /\ q # p
        BY <1>1, <1>2, Zenon
    <2> QED BY <1>a, <2>1, Zenon DEF OneStart
<1>3. \A m \in Instances : m # n => StartCredit(m)' = StartCredit(m)
    BY <1>1, Zenon DEF StartCredit, Tasks
<1>4. StartCredit(n) = MaxRestarts /\ StartCredit(n)' = 0
    BY <1>1, <1>2, Zenon DEF StartCredit, Tasks
<1>5. HandlerCredit' = HandlerCredit
    BY Zenon DEF HandlerCredit, Tasks
<1>6. \A m : PendingCredit(m)' = PendingCredit(m)
    BY <1>b, Zenon DEF PendingCredit
<1>7. autos' + EntryCredit' + HandlerCredit' + PendingCredit(n)' + StartCredit(n)'
         <= autos + EntryCredit + HandlerCredit + PendingCredit(n) + StartCredit(n)
    <2>1. /\ autos \in Int /\ HandlerCredit \in Nat /\ MaxRestarts \in Nat
          /\ EntryCredit \in Nat /\ EntryCredit' \in Nat /\ EntryCredit' <= MaxRestarts
          /\ PendingCredit(n) \in Nat /\ PendingCredit(n)' = PendingCredit(n)
        BY <1>c, <1>6, CreditTypes, CreditTypesAfter, CreditBounds, Zenon
    <2> QED BY ONLY <1>b, <1>4, <1>5, <2>1
<1>8. WithinBudget'
    BY <1>a, <1>b, <1>c, <1>3, <1>6, <1>7, BudgetMoves, Zenon
<1>9. RequestsAllowed'
    BY <1>a, <1>b, Zenon DEF RequestsAllowed, Tasks
<1>10. OneStart'
    <2>1. \A q \in Tasks : call'[q].pc \in {"running", "count"} => call'[q].seen # 0
        BY <1>a, Zenon DEF OneStart
    <2>2. \A q \in Tasks : \A m : Finishing(q, m)' => Finishing(q, m)
        BY <1>1, Zenon
    <2> QED BY <1>a, <2>1, <2>2, Zenon DEF OneStart
<1> QED BY <1>8, <1>9, <1>10, Zenon DEF BudgetInv

(* The handler writes the count that it has raised: the entry holds what   *)
(* the handler held.                                                       *)
LEMMA HandlerCountBudget ==
    ASSUME TypeOK, TypeOK', BudgetInv, SetCount(Handler)
    PROVE  BudgetInv'
<1>a. RequestsAllowed /\ OneStart /\ WithinBudget /\ Handler \in Tasks
    BY Zenon DEF BudgetInv, Tasks
<1>b. /\ call[Handler].pc = "count" /\ Returns(Handler)
      /\ pending' = pending /\ requests' = requests /\ autos' = autos
    BY Zenon DEF SetCount, monitorVars
<1>c. (\A q \in Tasks : q # Handler => call'[q] = call[q]) /\ call'[Handler].pc = "idle"
    BY <1>a, <1>b, ReturnsTo, Zenon DEF To
<1>1. /\ \A q \in Tasks : q # Handler => \A m : Finishing(q, m)' <=> Finishing(q, m)
      /\ \A m : ~Finishing(Handler, m)'
    BY <1>c, Zenon DEF Finishing
<1>2. \A n \in Instances : PendingCredit(n)' = PendingCredit(n) /\ StartCredit(n)' = StartCredit(n)
    BY <1>b, <1>1, CallersAssumption, Zenon DEF PendingCredit, StartCredit, Tasks
<1>3. HandlerCredit = Credit(call[Handler].cnt + 1) /\ HandlerCredit' = 0
    BY <1>b, <1>c, Zenon DEF HandlerCredit, ToInsert, Inserted
<1>4. EntryCredit' <= HandlerCredit
    <2>1. CASE Present
        <3>1. entry'.count = call[Handler].cnt + 1
            BY <2>1 DEF SetCount, NextCount, TypeOK, CollectorProcess
        <3>2. EntryCredit' = 0 \/ EntryCredit' = Credit(call[Handler].cnt + 1)
            BY <3>1, Zenon DEF EntryCredit
        <3> QED BY <1>3, <3>2, CreditTypes
    <2>2. CASE ~Present
        <3>1. ~Present'
            BY <2>2, Zenon DEF SetCount, Present
        <3>2. EntryCredit' = 0
            BY <3>1, Zenon DEF EntryCredit
        <3> QED BY <3>2, CreditTypes
    <2> QED BY <2>1, <2>2, Zenon
<1>5. autos' + EntryCredit' + HandlerCredit' <= autos + EntryCredit + HandlerCredit
    <2>1. autos \in Int /\ EntryCredit \in Nat /\ EntryCredit' \in Nat /\ HandlerCredit \in Nat
        BY CreditTypes, CreditTypesAfter, Zenon
    <2> QED BY ONLY <1>b, <1>3, <1>4, <2>1, EntryForHandler, Zenon
<1>6. WithinBudget'
    BY <1>a, <1>b, <1>2, <1>5, BudgetSame, Zenon
<1>7. RequestsAllowed'
    BY <1>a, <1>b, <1>c, Zenon DEF RequestsAllowed, ToInsert
<1>8. OneStart'
    BY <1>a, <1>c, <1>1, Zenon DEF OneStart
<1> QED BY <1>6, <1>7, <1>8, Zenon DEF BudgetInv

(* The steps of a start after the map. *)
LEMMA InsertedBudget ==
    ASSUME ManagerInv, TypeOK', BudgetInv, NEW p \in Tasks,
           Announce(p) \/ MarkRunning(p) \/ SetCount(p)
    PROVE  BudgetInv'
<1>a. TypeOK /\ Held /\ OneStart
    BY Parts, Zenon DEF BudgetInv
<1>b. UNCHANGED <<pending, requests, autos>>
    BY Zenon DEF Announce, MarkRunning, SetCount, monitorVars
<1>1. CASE Announce(p)
    <2>1. call[p].pc = "announce" /\ call[p].mine # 0
        BY <1>a, <1>1, Zenon DEF Announce, Held, Holding
    <2>2. entry'.pid = entry.pid /\ entry'.count = entry.count
        BY <1>a, <1>1 DEF Announce, TypeOK, CollectorProcess
    <2>3. /\ \A q \in Tasks : q # p => call'[q] = call[q]
          /\ call'[p].pc = "running" /\ call'[p].seen = call[p].mine
          /\ call'[p].cnt = call[p].cnt
        BY <1>a, <1>1 DEF Announce, TypeOK, Calls
    <2> QED BY <1>a, <1>b, <2>1, <2>2, <2>3, FinishBudget, Zenon
<1>2. CASE MarkRunning(p) /\ (p = Handler \/ call[p].op = "restart")
    <2>1. call[p].pc = "running" /\ call[p].seen # 0 /\ Goto(p, "count")
        BY <1>a, <1>2, Zenon DEF MarkRunning, OneStart
    <2>2. entry'.pid = entry.pid /\ entry'.count = entry.count
        BY <1>a, <1>2 DEF MarkRunning, SetState, TypeOK, CollectorProcess
    <2> QED BY <1>a, <1>b, <2>1, <2>2, GotoKeepsCount, FinishBudget, Zenon
<1>3. CASE MarkRunning(p) /\ p # Handler /\ call[p].op # "restart"
    <2>1. call[p].pc = "running" /\ Returns(p)
        BY <1>3, Zenon DEF MarkRunning
    <2> QED BY <1>a, <1>b, <1>3, <2>1, ReturnsTo, SettleBudget, Zenon DEF To
<1>4. CASE SetCount(p) /\ p # Handler
    <2>1. call[p].pc = "count" /\ Returns(p)
        BY <1>4, Zenon DEF SetCount
    <2> QED BY <1>a, <1>b, <1>4, <2>1, ReturnsTo, SettleBudget, Zenon DEF To
<1>5. CASE SetCount(p) /\ p = Handler
    BY <1>a, <1>5, HandlerCountBudget, Zenon
<1> QED BY <1>1, <1>2, <1>3, <1>4, <1>5, Zenon

(* A monitor that finds the collector dead takes over the entry's credit,  *)
(* or the max_restarts that a death before the count is written brings.    *)
LEMMA PollBudget ==
    ASSUME TypeOK, TypeOK', BudgetInv, NEW n \in Instances, Poll(n)
    PROVE  BudgetInv'
<1>a. RequestsAllowed /\ OneStart /\ WithinBudget /\ call' = call /\ requests' = requests
    BY Zenon DEF BudgetInv, Poll
<1>b. /\ \A m \in Instances : m # n => pending'[m] = pending[m]
      /\ pending'[n] = IF DeadInMap /\ ShouldRestart(entry) THEN entry.count ELSE None
    BY Zenon DEF Poll, TypeOK
<1>1. \A q \in Tasks : \A m : Finishing(q, m)' <=> Finishing(q, m)
    BY <1>a, Zenon DEF Finishing
<1>2. \A m \in Instances : StartCredit(m)' = StartCredit(m)
    BY <1>1, Zenon DEF StartCredit, Tasks
<1>3. \A m \in Instances : m # n => PendingCredit(m)' = PendingCredit(m)
    BY <1>b, Zenon DEF PendingCredit
<1>4. HandlerCredit' = HandlerCredit
    BY <1>a, Zenon DEF HandlerCredit
<1>5. autos' + EntryCredit' + PendingCredit(n)' <= autos + EntryCredit + PendingCredit(n)
    <2>a. /\ autos \in Int /\ EntryCredit \in Nat /\ PendingCredit(n) \in Nat
          /\ MaxRestarts \in Nat /\ entry.count \in Nat
          /\ Credit(entry.count) \in Nat /\ Credit(entry.count) <= MaxRestarts
        <3>1. entry.count \in Nat
            BY DEF TypeOK, CollectorProcess
        <3> QED BY <3>1, CreditTypes, CreditBounds, Zenon
    <2>1. CASE DeadInMap
        <3>1. Present /\ entry' = NoEntry
            BY <2>1, Facts, Zenon DEF DeadInMap, Poll
        <3>2. EntryCredit' = 0
            BY <3>1, Zenon DEF EntryCredit, Present
        <3>3. PendingCredit(n)' = 0 \/ PendingCredit(n)' = Credit(entry.count)
            BY <1>b, Zenon DEF PendingCredit
        <3>4. CASE Unsettled
            <4>1. autos' = autos - MaxRestarts
                BY <2>1, <3>4, Zenon DEF Poll
            <4> QED BY ONLY <2>a, <3>2, <3>3, <4>1
        <3>5. CASE ~Unsettled
            <4>1. autos' = autos /\ EntryCredit = Credit(entry.count)
                BY <3>1, <3>5, Zenon DEF Poll, EntryCredit
            <4> QED BY ONLY <2>a, <3>2, <3>3, <4>1
        <3> QED BY <3>4, <3>5, Zenon
    <2>2. CASE ~DeadInMap
        <3>1. entry' = entry /\ autos' = autos
            BY <2>2, Zenon DEF Poll
        <3>2. PendingCredit(n)' = 0
            BY <1>b, <2>2, Zenon DEF PendingCredit
        <3>3. EntryCredit' = EntryCredit
            BY <1>a, <3>1, Zenon DEF EntryCredit, Present, Unsettled
        <3> QED BY ONLY <2>a, <3>1, <3>2, <3>3
    <2> QED BY <2>1, <2>2, Zenon
<1>6. autos' + EntryCredit' + HandlerCredit' + PendingCredit(n)' + StartCredit(n)'
         <= autos + EntryCredit + HandlerCredit + PendingCredit(n) + StartCredit(n)
    <2>1. /\ autos \in Int /\ EntryCredit \in Nat /\ HandlerCredit \in Nat
          /\ PendingCredit(n) \in Nat /\ StartCredit(n) \in Nat
          /\ autos' \in Int /\ EntryCredit' \in Nat /\ PendingCredit(n)' \in Nat
        BY CreditTypes, CreditTypesAfter, Zenon
    <2>2. StartCredit(n)' = StartCredit(n)
        BY <1>2, Zenon
    <2> QED BY ONLY <1>4, <1>5, <2>1, <2>2
<1>7. WithinBudget'
    BY <1>a, <1>2, <1>3, <1>6, BudgetMoves, Zenon
<1>8. RequestsAllowed'
    BY <1>a, <1>b, Zenon DEF RequestsAllowed, ShouldRestart
<1>9. OneStart'
    BY <1>a, <1>1, Zenon DEF OneStart
<1> QED BY <1>7, <1>8, <1>9, Zenon DEF BudgetInv

(* The credit of a pending restart passes to the queue with the request. *)
LEMMA ReapBudget ==
    ASSUME TypeOK, TypeOK', BudgetInv, NEW n \in Instances, Reap(n)
    PROVE  BudgetInv'
<1>a. /\ RequestsAllowed /\ OneStart /\ WithinBudget
      /\ call' = call /\ entry' = entry /\ autos' = autos
      /\ requests' = IF pending[n] # None THEN Append(requests, pending[n]) ELSE requests
    BY Zenon DEF BudgetInv, Reap
<1>b. /\ \A m \in Instances : m # n => pending'[m] = pending[m]
      /\ pending'[n] = None
    BY Zenon DEF Reap, TypeOK
<1>1. \A q \in Tasks : \A m : Finishing(q, m)' <=> Finishing(q, m)
    BY <1>a, Zenon DEF Finishing
<1>2. \A m \in Instances : StartCredit(m)' = StartCredit(m)
    BY <1>1, Zenon DEF StartCredit, Tasks
<1>3. /\ \A m \in Instances : m # n => PendingCredit(m)' = PendingCredit(m)
      /\ PendingCredit(n)' = 0
    BY <1>b, Zenon DEF PendingCredit
<1>4. EntryCredit' = EntryCredit /\ HandlerCredit' = HandlerCredit
    BY <1>a, Zenon DEF EntryCredit, Present, Unsettled, HandlerCredit
<1>5. OneStart'
    BY <1>a, <1>1, Zenon DEF OneStart
<1>6. CASE pending[n] = None
    <2>1. requests' = requests /\ PendingCredit(n) = 0
        BY <1>a, <1>6, Zenon DEF PendingCredit
    <2>2. \A m \in Instances : PendingCredit(m)' = PendingCredit(m) /\ StartCredit(m)' = StartCredit(m)
        BY <1>2, <1>3, <2>1, Zenon
    <2>3. autos' + EntryCredit' + HandlerCredit' <= autos + EntryCredit + HandlerCredit
        BY <1>a, <1>4, CreditTypes
    <2>4. WithinBudget'
        BY <1>a, <2>1, <2>2, <2>3, BudgetSame, Zenon
    <2>5. RequestsAllowed'
        BY <1>a, <1>b, <2>1, Zenon DEF RequestsAllowed
    <2> QED BY <1>5, <2>4, <2>5, Zenon DEF BudgetInv
<1>7. CASE pending[n] # None
    <2>1. PICK s \in Nat, r \in Nat :
             /\ SumsTo(InstanceCredits, MaxSpawn, s) /\ SumsTo(QueueCredits, Len(requests), r)
             /\ autos + EntryCredit + HandlerCredit + s + r <= 0
        BY <1>a, Zenon DEF WithinBudget
    <2>2. PICK c \in Nat : c = PendingCredit(n) /\ c = Credit(pending[n])
        BY <1>7, CreditTypes, Zenon DEF PendingCredit
    <2>3. PICK d \in Nat : d = StartCredit(n) /\ d = StartCredit(n)'
        BY <1>2, CreditTypes, Zenon
    <2>4. /\ s - (c + d) + d \in Nat /\ s - (c + d) + d = s - c
          /\ SumsTo(InstanceCredits', MaxSpawn, s - (c + d) + d)
        <3>1. InstanceCredits[n] = c + d /\ InstanceCredits'[n] = d
            <4>1. InstanceCredits[n] = c + d /\ InstanceCredits'[n] = 0 + d
                BY <1>3, <2>2, <2>3, Zenon DEF InstanceCredits
            <4> QED BY <4>1
        <3>2. \A m \in 1 .. MaxSpawn : m # n => InstanceCredits'[m] = InstanceCredits[m]
            BY <1>2, <1>3, Zenon DEF InstanceCredits, Instances
        <3>3. MaxSpawn \in Nat /\ n \in 1 .. MaxSpawn /\ InstanceCredits'[n] \in Nat
            BY <3>1, SpawnAssumption, Zenon DEF Instances
        <3>4. /\ InstanceCredits[n] <= s
              /\ SumsTo(InstanceCredits', MaxSpawn, s - InstanceCredits[n] + InstanceCredits'[n])
            BY ONLY <2>1, <3>2, <3>3, SumChanged, Zenon
        <3>5. c + d <= s /\ SumsTo(InstanceCredits', MaxSpawn, s - (c + d) + d)
            BY ONLY <3>1, <3>4, Zenon
        <3>6. s - (c + d) + d \in Nat /\ s - (c + d) + d = s - c
            <4>1. c + d <= s
                BY <3>5, Zenon
            <4> QED BY ONLY <4>1, s \in Nat, c \in Nat, d \in Nat
        <3> QED BY <3>5, <3>6, Zenon
    <2>5. SumsTo(QueueCredits', Len(requests'), r + c)
        <3>1. /\ Len(requests) \in Nat /\ Len(requests') = Len(requests) + 1
              /\ \A i \in 1 .. Len(requests) : requests'[i] = requests[i]
              /\ requests'[Len(requests) + 1] = pending[n]
            BY <1>a, <1>7 DEF TypeOK
        <3>2. Len(requests) + 1 \in 1 .. Len(requests')
            BY ONLY <3>1
        <3>3. \A i \in 1 .. Len(requests) : i \in 1 .. Len(requests')
            BY ONLY <3>1
        <3>4. QueueCredits'[Len(requests) + 1] = c
            BY <2>2, <3>1, <3>2, Zenon DEF QueueCredits
        <3>5. \A i \in 1 .. Len(requests) : QueueCredits'[i] = QueueCredits[i]
            BY <3>1, <3>3, Zenon DEF QueueCredits
        <3>6. QueueCredits'[Len(requests) + 1] \in Nat
            BY <3>4, Zenon
        <3>7. SumsTo(QueueCredits', Len(requests) + 1, r + QueueCredits'[Len(requests) + 1])
            BY ONLY <2>1, <3>1, <3>5, <3>6, SumExtended, Zenon
        <3> QED BY ONLY <3>1, <3>4, <3>7, Zenon
    <2>6. /\ r + c \in Nat
          /\ autos' + EntryCredit' + HandlerCredit' + (s - (c + d) + d) + (r + c) <= 0
        <3>1. autos \in Int /\ EntryCredit \in Nat /\ HandlerCredit \in Nat
            BY CreditTypes, Zenon
        <3>2. autos + EntryCredit + HandlerCredit + s + r <= 0 /\ autos' = autos
            BY <1>a, <2>1, Zenon
        <3> QED BY ONLY <1>4, <3>1, <3>2, s \in Nat, r \in Nat, c \in Nat, d \in Nat
    <2>7. WithinBudget'
        BY <2>4, <2>5, <2>6, Zenon DEF WithinBudget
    <2>8. RequestsAllowed'
        <3>1. pending[n] < MaxRestarts
            BY <1>a, <1>7, Zenon DEF RequestsAllowed
        <3>2. \A i \in 1 .. Len(requests') : requests'[i] < MaxRestarts
            BY <1>a, <1>7, <3>1 DEF RequestsAllowed, TypeOK
        <3> QED BY <1>a, <1>b, <3>2, Zenon DEF RequestsAllowed
    <2> QED BY <1>5, <2>7, <2>8, Zenon DEF BudgetInv
<1> QED BY <1>6, <1>7, Zenon

(* The handler takes the credit over with the request. *)
LEMMA TakeRequestBudget ==
    ASSUME TypeOK, TypeOK', BudgetInv, TakeRequest
    PROVE  BudgetInv'
<1>a. /\ RequestsAllowed /\ OneStart /\ WithinBudget /\ Handler \in Tasks
      /\ entry' = entry /\ autos' = autos /\ pending' = pending
      /\ call[Handler].pc = "idle" /\ requests # <<>> /\ requests' = Tail(requests)
    BY Zenon DEF BudgetInv, TakeRequest, monitorVars, Tasks
<1>b. /\ \A q \in Tasks : q # Handler => call'[q] = call[q]
      /\ call'[Handler].pc = "check" /\ call'[Handler].cnt = Head(requests)
    BY <1>a DEF TakeRequest, TypeOK, Calls
<1>c. /\ Len(requests) \in Nat /\ 0 < Len(requests) /\ Len(requests') = Len(requests) - 1
      /\ \A i \in 1 .. Len(requests') : requests'[i] = requests[i + 1]
      /\ Head(requests) = requests[1]
    BY <1>a DEF TypeOK
<1>d. /\ \A i \in 1 .. Len(requests') : i + 1 \in 1 .. Len(requests)
      /\ 1 \in 1 .. Len(requests)
    BY ONLY <1>c
<1>1. \A q \in Tasks : \A m : Finishing(q, m)' <=> Finishing(q, m)
    BY <1>a, <1>b, Zenon DEF Finishing
<1>2. InstanceCredits' = InstanceCredits
    <2>1. \A m \in Instances : PendingCredit(m)' = PendingCredit(m) /\ StartCredit(m)' = StartCredit(m)
        BY <1>a, <1>1, Zenon DEF PendingCredit, StartCredit, Tasks
    <2> QED BY <2>1, Zenon DEF InstanceCredits
<1>3. EntryCredit' = EntryCredit
    BY <1>a, <1>1, UnsettledMeans, UnsettledMeansAfter, Zenon DEF EntryCredit, Present
<1>4. HandlerCredit = 0 /\ HandlerCredit' = Credit(requests[1])
    BY <1>a, <1>b, <1>c, Zenon DEF HandlerCredit, ToInsert, Inserted
<1>5. PICK s \in Nat, r \in Nat :
         /\ SumsTo(InstanceCredits, MaxSpawn, s) /\ SumsTo(QueueCredits, Len(requests), r)
         /\ autos + EntryCredit + HandlerCredit + s + r <= 0
    BY <1>a, Zenon DEF WithinBudget
<1>6. PICK c \in Nat : c = HandlerCredit' /\ c = QueueCredits[1]
    BY <1>d, <1>4, CreditTypesAfter, Zenon DEF QueueCredits
<1>7. c <= r /\ SumsTo(QueueCredits', Len(requests'), r - c)
    <2>1. \A i \in 1 .. Len(requests') : QueueCredits'[i] = QueueCredits[i + 1]
        BY <1>c, <1>d, Zenon DEF QueueCredits
    <2>2. \A i \in 1 .. Len(requests) - 1 : QueueCredits'[i] = QueueCredits[i + 1]
        BY <1>c, <2>1, Zenon
    <2>3. QueueCredits[1] <= r /\ SumsTo(QueueCredits', Len(requests) - 1, r - QueueCredits[1])
        BY ONLY <1>c, <1>5, <2>2, SumShortened, Zenon
    <2> QED BY ONLY <1>c, <1>6, <2>3, Zenon
<1>8. r - c \in Nat /\ autos' + EntryCredit' + HandlerCredit' + s + (r - c) <= 0
    <2>1. autos \in Int /\ EntryCredit \in Nat /\ c <= r /\ HandlerCredit' = c
        BY <1>6, <1>7, CreditTypes, Zenon
    <2>2. autos + EntryCredit + HandlerCredit + s + r <= 0 /\ autos' = autos
        BY <1>a, <1>5, Zenon
    <2> QED BY ONLY <1>3, <1>4, <2>1, <2>2, s \in Nat, r \in Nat, c \in Nat
<1>9. WithinBudget'
    BY <1>2, <1>5, <1>7, <1>8, Zenon DEF WithinBudget
<1>10. RequestsAllowed'
    <2>1. requests[1] < MaxRestarts /\ \A i \in 1 .. Len(requests') : requests'[i] < MaxRestarts
        BY <1>a, <1>c, <1>d, Zenon DEF RequestsAllowed
    <2> QED BY <1>a, <1>b, <1>c, <2>1, Zenon DEF RequestsAllowed, ToInsert
<1>11. OneStart'
    BY <1>a, <1>b, <1>1, Zenon DEF OneStart
<1> QED BY <1>9, <1>10, <1>11, Zenon DEF BudgetInv

LEMMA BudgetInit == Init => BudgetInv
<1> SUFFICES ASSUME Init PROVE BudgetInv
    BY Zenon
<1>1. /\ entry = NoEntry /\ requests = <<>> /\ autos = 0
      /\ \A n \in Instances : pending[n] = None
      /\ \A p \in Tasks : call[p].pc = "idle"
    BY IdleCall, Zenon DEF Init
<1>2. Len(requests) = 0
    BY <1>1
<1>3. \A p \in Tasks : \A n : ~Finishing(p, n)
    BY <1>1, Zenon DEF Finishing
<1>4. RequestsAllowed
    <2>1. \A i \in 1 .. Len(requests) : FALSE
        BY <1>2
    <2> QED BY <1>1, <2>1, Zenon DEF RequestsAllowed, ToInsert, Tasks
<1>5. OneStart
    BY <1>1, <1>3, Zenon DEF OneStart
<1>6. WithinBudget
    <2>1. EntryCredit = 0 /\ HandlerCredit = 0
        BY <1>1, Zenon DEF EntryCredit, Present, HandlerCredit, ToInsert, Inserted, Tasks
    <2>2. \A n \in Instances : InstanceCredits[n] = 0
        <3>1. \A n \in Instances : InstanceCredits[n] = 0 + 0
            BY <1>1, <1>3, Zenon DEF InstanceCredits, PendingCredit, StartCredit, Tasks
        <3> QED BY <3>1
    <2>3. SumsTo(InstanceCredits, MaxSpawn, 0)
        <3>1. MaxSpawn \in Nat /\ \A i \in 1 .. MaxSpawn : InstanceCredits[i] = 0
            BY <2>2, SpawnAssumption, Zenon DEF Instances
        <3> QED BY ONLY <3>1, SumOfZeros, Zenon
    <2>4. SumsTo(QueueCredits, Len(requests), 0)
        <3>1. Len(requests) \in Nat /\ \A i \in 1 .. Len(requests) : QueueCredits[i] = 0
            BY <1>2
        <3> QED BY ONLY <3>1, SumOfZeros, Zenon
    <2>5. 0 \in Nat /\ autos + EntryCredit + HandlerCredit + 0 + 0 <= 0
        BY <1>1, <2>1
    <2> QED BY <2>3, <2>4, <2>5, Zenon DEF WithinBudget
<1> QED BY <1>4, <1>5, <1>6, Zenon DEF BudgetInv

LEMMA BudgetNext == ManagerInv /\ ManagerInv' /\ BudgetInv /\ [Next]_vars => BudgetInv'
<1> SUFFICES ASSUME ManagerInv, ManagerInv', BudgetInv, [Next]_vars PROVE BudgetInv'
    BY Zenon
<1>a. TypeOK /\ TypeOK'
    BY Parts, Zenon DEF ManagerInv
<1>1. ASSUME NEW p \in Tasks, Call(p) \/ Start(p) \/ Stop(p) PROVE BudgetInv'
    BY <1>a, <1>1, CallBudget, ToInsertBudget, InsertBudget, InsertedBudget, StopBudget, Zenon DEF Start
<1>2. ASSUME NEW n \in Instances, Poll(n) \/ Reap(n) PROVE BudgetInv'
    BY <1>a, <1>2, PollBudget, ReapBudget, Zenon
<1>3. CASE TakeRequest \/ MarkFailed
    BY <1>a, <1>3, TakeRequestBudget, MarkFailedBudget, Zenon
<1>4. CASE Pause \/ Resume \/ Exit \/ UNCHANGED vars
    <2>1. call' = call /\ UNCHANGED <<pending, requests, autos>>
        BY <1>4, Zenon DEF Pause, Resume, Exit, vars, managerVars, monitorVars
    <2>2. entry'.pid = entry.pid /\ entry'.count = entry.count
        BY <1>a, <1>4 DEF Pause, Resume, Exit, vars, managerVars, SetState, TypeOK, CollectorProcess
    <2> QED BY <1>a, <2>1, <2>2, OutsideBudget, Zenon
<1> QED BY <1>1, <1>2, <1>3, <1>4, Zenon DEF Next

(* max_restarts: whatever callers, monitors, deaths and the restart        *)
(* handler do, the collector is restarted automatically at most            *)
(* max_restarts times for each time that a caller started it, and for each *)
(* death found before the start of the instance had written its count.     *)
THEOREM RestartsWithinBudget == Spec => []RestartsBounded
<1>1. ManagerInv /\ BudgetInv => RestartsBounded
    <2> SUFFICES ASSUME ManagerInv, BudgetInv PROVE autos <= 0
        BY Zenon DEF RestartsBounded
    <2>1. PICK s \in Nat, r \in Nat : autos + EntryCredit + HandlerCredit + s + r <= 0
        BY Zenon DEF BudgetInv, WithinBudget
    <2>2. autos \in Int /\ EntryCredit \in Nat /\ HandlerCredit \in Nat
        BY Parts, CreditTypes, Zenon
    <2> QED BY ONLY <2>1, <2>2, s \in Nat, r \in Nat
<1>2. Init => BudgetInv
    BY BudgetInit
<1>3. ManagerInv /\ ManagerInv' /\ BudgetInv /\ [Next]_vars => BudgetInv'
    BY BudgetNext
<1> QED BY <1>1, <1>2, <1>3, ManagerInvariant, PTL DEF Spec
=============================================================================
