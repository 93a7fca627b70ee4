------------------------------- MODULE Engine -------------------------------
(***************************************************************************)
(* The detection engine (daemoneye-lib/src/detection): the schema catalog, *)
(* loaded rules and their plans, rule health, generations and the ledger   *)
(* of pushed tasks, with the three parties that take its lock: the         *)
(* admission gate, the agent's loop and the operator.                      *)
(*                                                                         *)
(* A rule's SQL is the columns it references and the descriptor version    *)
(* its literals fit; a plan is what it pushes to which collector.  Time is *)
(* counted in renewal ticks, and a send takes less than a tick.            *)
(***************************************************************************)
EXTENDS Integers, FiniteSets

CONSTANTS
    Rules, Collectors, Tables, Columns,
    Bodies,       \* rule texts: [refs : SUBSET Columns, fits : versions]
    Descriptors,  \* [cols : SUBSET Columns, version, passes : SUBSET Columns]
    ReservedFor,  \* RESERVED_TABLES: the collector a table is reserved for, or NoOne
    Ttl,          \* PUSHDOWN_TASK_TTL in ticks
    Renewal,      \* PUSHDOWN_TASK_RENEWAL_INTERVAL in ticks
    Ops,          \* what the engine's callers do besides loading: "remove", "toggle"
    Stalls,       \* whether a scan may hold the loop past a renewal tick
    MaxLosses,    \* bound: up to where consecutive lost sends are counted
    MaxGen,       \* bound: how many loads the engine sees
    NoOne, NoDesc, NoBody, NoPlan, NoTask

ASSUME TtlAssumption == Renewal \in Nat \ {0} /\ Ttl \in Nat /\ Renewal * 2 < Ttl
ASSUME BoundsAssumption == MaxGen \in Nat /\ MaxLosses \in Nat

VARIABLES
    desc, owner, passed,       \* SchemaCatalog: descriptors, owners, conformance
    body, enabled,             \* DetectionEngine: rules
    plan,                      \* compiled
    deferred,                  \* deferred
    health, refs,              \* RuleHealthRegistry
    gen, lastGen,              \* Generations
    ledger,                    \* TaskRenewalLedger: what task_id(rule, collector) carries
    admitting, owed,           \* CollectorAdmission: between its two locks; pending_reissue
    phase, due, reissue, toSend, landed, running,  \* the agent's loop
    held,                      \* collectors: accepted tasks (external)
    idle,                      \* history: ticks since a rule was last eligible
    latchGen,                  \* history: the generation whose measurement latched a rule
    losses,                    \* history: sends of a task lost since it was issued or landed
    overlooked,                \* history: tasks the last re-issue to their collector left alone
    alerted                    \* history: the evaluations the last cycle alerted on

catalogVars == <<desc, owner, passed>>
ruleVars == <<body, enabled, plan, deferred, health, refs, gen, lastGen, latchGen>>
admissionVars == <<admitting, owed>>
loopVars == <<phase, due, reissue, toSend, landed, running, alerted>>
vars == <<catalogVars, ruleVars, ledger, admissionVars, loopVars, held, losses, overlooked, idle>>

Plan == [body : Bodies, col : Collectors, pushed : SUBSET Columns]
Task == [plan : Plan, age : 0 .. Ttl]
Causes == {"reference", "expired", "latched"}

ASSUME CatalogAssumption ==
    /\ \A c \in Columns : c.table \in Tables
    /\ \A d \in Descriptors : d.cols \subseteq Columns
    /\ ReservedFor \in [Tables -> Collectors \cup {NoOne}]

(* "a detection rule must read exactly one table" *)
ASSUME RuleAssumption ==
    \A b \in Bodies : /\ b.refs \subseteq Columns /\ b.refs # {}
                      /\ \A c, k \in b.refs : c.table = k.table

ASSUME AbsentAssumption ==
    /\ NoOne \notin Collectors /\ NoDesc \notin Descriptors /\ NoBody \notin Bodies
    /\ NoPlan \notin Plan /\ NoTask \notin Task

(* Every variable keeps its type. *)
TypeOK ==
    /\ desc \in [Collectors -> Descriptors \cup {NoDesc}]
    /\ owner \in [Tables -> Collectors \cup {NoOne}]
    /\ passed \subseteq Collectors \X Columns
    /\ body \in [Rules -> Bodies \cup {NoBody}]
    /\ enabled \in [Rules -> BOOLEAN]
    /\ plan \in [Rules -> Plan \cup {NoPlan}]
    /\ deferred \subseteq Rules
    /\ health \in [Rules -> Causes \cup {"untracked", "healthy"}]
    /\ refs \in [Rules -> SUBSET Columns]
    /\ gen \in [Rules -> 0 .. MaxGen] /\ lastGen \in 0 .. MaxGen
    /\ ledger \in [Rules \X Collectors -> Task \cup {NoTask}]
    /\ admitting \subseteq Collectors /\ owed \subseteq Collectors
    /\ phase \in {"idle", "reissue", "send", "evaluate"} /\ due \in BOOLEAN
    /\ reissue \subseteq Collectors
    /\ toSend \in [Rules \X Collectors -> Plan \cup {NoPlan}]
    /\ landed \subseteq Rules \X Collectors
    /\ running \in [Rules -> 0 .. MaxGen]
    /\ alerted \in [Rules -> 0 .. MaxGen]
    /\ held \in [Rules \X Collectors -> Task \cup {NoTask}]
    /\ losses \in [Rules \X Collectors -> 0 .. MaxLosses]
    /\ overlooked \subseteq Rules \X Collectors
    /\ idle \in [Rules -> 0 .. Ttl]
    /\ latchGen \in [Rules -> 0 .. MaxGen]

Init ==
    /\ desc = [c \in Collectors |-> NoDesc]
    /\ owner = [t \in Tables |-> NoOne]
    /\ passed = {}
    /\ body = [r \in Rules |-> NoBody] /\ enabled = [r \in Rules |-> FALSE]
    /\ plan = [r \in Rules |-> NoPlan] /\ deferred = {}
    /\ health = [r \in Rules |-> "untracked"] /\ refs = [r \in Rules |-> {}]
    /\ gen = [r \in Rules |-> 0] /\ lastGen = 0
    /\ ledger = [k \in Rules \X Collectors |-> NoTask]
    /\ admitting = {} /\ owed = {}
    /\ phase = "idle" /\ due = FALSE /\ reissue = {} /\ landed = {}
    /\ toSend = [k \in Rules \X Collectors |-> NoPlan]
    /\ running = [r \in Rules |-> 0] /\ alerted = [r \in Rules |-> 0]
    /\ held = [k \in Rules \X Collectors |-> NoTask]
    /\ losses = [k \in Rules \X Collectors |-> 0] /\ overlooked = {}
    /\ idle = [r \in Rules |-> Ttl] /\ latchGen = [r \in Rules |-> 0]

----------------------------------------------------------------------------
(* The catalog and the planner, as functions of a catalog's three parts.   *)

TablesOf(cols) == {c.table : c \in cols}
ColumnsOf(d) == IF d = NoDesc THEN {} ELSE d.cols

(* resolve_reference *)
Resolves(ds, ow, c) == ow[c.table] # NoOne /\ c \in ColumnsOf(ds[ow[c.table]])

(* check_table_ownership: reserved names are not first-claim. *)
MayOwn(c, t) ==
    IF ReservedFor[t] # NoOne THEN ReservedFor[t] = c ELSE owner[t] \in {NoOne, c}

(* plan_rule: the references resolve, and the literals fit the columns. *)
Plannable(ds, ow, b) ==
    /\ \A c \in b.refs : Resolves(ds, ow, c)
    /\ \A c \in b.refs : ds[ow[c.table]].version \in b.fits

(* Lowering: a conjunct is pushed when it is advertised and has passed. *)
PlanOf(ds, ow, ps, b) ==
    LET at == ow[CHOOSE t \in TablesOf(b.refs) : TRUE]
    IN  [body |-> b, col |-> at, pushed |-> {c \in b.refs : <<at, c>> \in ps}]

(* The owners after c registers d. *)
OwnersWith(c, d) ==
    [t \in Tables |-> IF t \in TablesOf(d.cols) THEN c
                      ELSE IF owner[t] = c THEN NoOne ELSE owner[t]]

(* The conformance results after c registers d: evicted by any change. *)
PassedWith(c, d, ow) ==
    LET changed == desc[c] = NoDesc \/ desc[c].version # d.version \/ desc[c].cols # d.cols
    IN  {p \in passed : ~(changed /\ p[1] = c)}
            \cup {<<c, k>> : k \in {j \in d.passes \cap d.cols : ow[j.table] = c}}

(* Mutant: columns the descriptor drops are not a change. *)
AffectedAdded(c, d) == TablesOf(d.cols \ ColumnsOf(desc[c]))

(* The tables a registration touches; a first one touches every rule. *)
Affected(c, d) ==
    TablesOf((ColumnsOf(desc[c]) \ d.cols) \cup (d.cols \ ColumnsOf(desc[c])))

----------------------------------------------------------------------------
(* Rule health and eligibility.                                            *)

(* is_eligible *)
Eligible(r) ==
    /\ body[r] # NoBody /\ enabled[r] /\ plan[r] # NoPlan
    /\ health[r] # "latched"

(* Mutant: a rule runs under any generation. *)
IsRunnableById(r, g) == Eligible(r)

(* is_runnable *)
IsRunnable(r, g) == g # 0 /\ gen[r] = g /\ Eligible(r)

(* History, kept by every step but Tick. *)
Remember == idle' = [r \in Rules |-> IF Eligible(r) THEN 0 ELSE idle[r]]

(* Mutant: a reload keeps the tasks of the load it replaces. *)
WithTasks(l, gone) == l

(* forget_rule of the ledger. *)
WithoutTasks(l, gone) == [k \in DOMAIN l |-> IF k[1] \in gone THEN NoTask ELSE l[k]]

----------------------------------------------------------------------------
(* The operator.                                                           *)

(* load_rule; a rule that does not validate or plan changes nothing. *)
LoadRule(r, b, on) ==
    LET waits == \A c \in Collectors : desc[c] = NoDesc
    IN  /\ lastGen < MaxGen
        /\ waits \/ Plannable(desc, owner, b)
        /\ body' = [body EXCEPT ![r] = b] /\ enabled' = [enabled EXCEPT ![r] = on]
        /\ lastGen' = lastGen + 1 /\ gen' = [gen EXCEPT ![r] = lastGen + 1]
        /\ ledger' = WithoutTasks(ledger, {r})
        /\ latchGen' = [latchGen EXCEPT ![r] = 0]
        /\ IF waits
           THEN /\ deferred' = deferred \cup {r}
                /\ health' = [health EXCEPT ![r] = "untracked"]
                /\ refs' = [refs EXCEPT ![r] = {}]
                /\ UNCHANGED plan
           ELSE /\ health' = [health EXCEPT ![r] = "healthy"]
                /\ refs' = [refs EXCEPT ![r] = b.refs]
                /\ plan' = [plan EXCEPT ![r] = PlanOf(desc, owner, passed, b)]
                /\ UNCHANGED deferred
        /\ Remember
        /\ UNCHANGED <<catalogVars, admissionVars, loopVars, held, losses, overlooked>>

(* remove_rule *)
RemoveRule(r) ==
    /\ "remove" \in Ops /\ body[r] # NoBody
    /\ body' = [body EXCEPT ![r] = NoBody] /\ enabled' = [enabled EXCEPT ![r] = FALSE]
    /\ plan' = [plan EXCEPT ![r] = NoPlan]
    /\ health' = [health EXCEPT ![r] = "untracked"] /\ refs' = [refs EXCEPT ![r] = {}]
    /\ gen' = [gen EXCEPT ![r] = 0] /\ latchGen' = [latchGen EXCEPT ![r] = 0]
    /\ ledger' = WithoutTasks(ledger, {r})
    /\ deferred' = deferred \ {r}
    /\ Remember
    /\ UNCHANGED <<catalogVars, lastGen, admissionVars, loopVars, held, losses, overlooked>>

(* set_rule_enabled refuses to enable a latched rule. *)
MaySwitch(r, on) == body[r] # NoBody /\ ~(on /\ health[r] = "latched")

SetRuleEnabled(r, on) ==
    /\ "toggle" \in Ops /\ MaySwitch(r, on) /\ enabled[r] # on
    /\ enabled' = [enabled EXCEPT ![r] = on]
    /\ Remember
    /\ UNCHANGED <<catalogVars, body, plan, deferred, health, refs, gen, lastGen, latchGen, ledger,
                   admissionVars, loopVars, held, losses, overlooked>>

----------------------------------------------------------------------------
(* The admission gate.                                                     *)

(* Mutant: re-validation looks at latched rules too. *)
RevalidatesAll(r, hl, first, touched) == first \/ TablesOf(refs[r]) \cap touched # {}

(* revalidate skips latched rules and rules the change does not touch. *)
Revalidates(r, hl, first, touched) ==
    hl # "latched" /\ (first \/ TablesOf(refs[r]) \cap touched # {})

(* A rule not looked at keeps its plan; newly_unhealthy loses it. *)
KeepsPlan(r, again, lost) == r \notin again \/ (r \in lost /\ health[r] \in Causes)

(***************************************************************************)
(* admit up to its second lock: register_collector stores the descriptor,  *)
(* drains the deferred rules (a rule that does not plan is rejected),      *)
(* re-validates what the change touches and plans it again.                *)
(***************************************************************************)
Register(c, d) ==
    LET first == desc[c] = NoDesc
        ds == [desc EXCEPT ![c] = d]
        ow == OwnersWith(c, d)
        ps == PassedWith(c, d, ow)
        touched == Affected(c, d)
        Fits(r) == Plannable(ds, ow, body[r])
        rejected == {r \in deferred : ~Fits(r)}
        drained == deferred \ rejected
        tracked == {r \in Rules : health[r] # "untracked"} \cup drained
        again == {r \in tracked :
                    r \in drained \/ Revalidates(r, health[r], first, touched)}
        lost == {r \in again : \E k \in body[r].refs : ~Resolves(ds, ow, k)}
    IN  /\ c \notin admitting
        /\ \A t \in TablesOf(d.cols) : MayOwn(c, t)
        /\ desc' = ds /\ owner' = ow /\ passed' = ps
        /\ deferred' = {}
        /\ body' = [r \in Rules |-> IF r \in rejected THEN NoBody ELSE body[r]]
        /\ enabled' = [r \in Rules |-> enabled[r] /\ r \notin rejected]
        /\ gen' = [r \in Rules |-> IF r \in rejected THEN 0 ELSE gen[r]]
        /\ refs' = [r \in Rules |-> IF r \in drained THEN body[r].refs ELSE refs[r]]
        /\ health' = [r \in Rules |-> IF r \in lost THEN "reference"
                                      ELSE IF r \in again THEN "healthy" ELSE health[r]]
        /\ plan' = [r \in Rules |->
                      IF KeepsPlan(r, again, lost) THEN plan[r]
                      ELSE IF Fits(r) THEN PlanOf(ds, ow, ps, body[r]) ELSE NoPlan]
        /\ admitting' = admitting \cup {c}
        /\ Remember
        /\ UNCHANGED <<lastGen, latchGen, ledger, owed, loopVars, held, losses, overlooked>>

(* admit's second lock. *)
OweTasks(c) ==
    /\ c \in admitting
    /\ admitting' = admitting \ {c} /\ owed' = owed \cup {c}
    /\ Remember
    /\ UNCHANGED <<catalogVars, ruleVars, ledger, loopVars, held, losses, overlooked>>

----------------------------------------------------------------------------
(* The renewal branch of the agent's loop: pushdown_renewal.               *)

(* drain_pending_reissue *)
StartRenewal ==
    /\ phase = "idle" /\ phase' = "reissue"
    /\ due /\ due' = FALSE
    /\ reissue' = owed /\ owed' = {}
    /\ alerted' = [r \in Rules |-> 0]
    /\ Remember
    /\ UNCHANGED <<catalogVars, ruleVars, ledger, admitting, toSend, landed, running, held,
                   losses, overlooked>>

NothingToSend == \A k \in DOMAIN toSend : toSend[k] = NoPlan
Issued(p) == [plan |-> p, age |-> 0]

(* issue_tasks_for_collector *)
ReissueTo(c) ==
    LET mine == {r \in Rules : Eligible(r) /\ plan[r].col = c}
    IN  /\ phase = "reissue" /\ NothingToSend /\ c \in reissue
        /\ reissue' = reissue \ {c}
        /\ ledger' = [k \in DOMAIN ledger |->
                        IF k[1] \in mine /\ k[2] = c THEN Issued(plan[k[1]]) ELSE ledger[k]]
        /\ toSend' = [k \in DOMAIN toSend |->
                        IF k[1] \in mine /\ k[2] = c THEN plan[k[1]] ELSE NoPlan]
        /\ losses' = [k \in DOMAIN losses |-> IF k[1] \in mine /\ k[2] = c THEN 0 ELSE losses[k]]
        /\ overlooked' = {k \in DOMAIN ledger :
                            IF k[2] = c THEN k[1] \notin mine /\ ledger[k] # NoTask ELSE k \in overlooked}
        /\ Remember
        /\ UNCHANGED <<catalogVars, ruleVars, admissionVars, phase, due, landed, running, alerted,
                       held>>

(* Mutant: tasks of rules that are no longer covered are kept. *)
TrackedAll == ledger

(* renewal_cycle first drops the tasks of rules that are not covered. *)
Tracked == WithoutTasks(ledger, {r \in Rules : ~Eligible(r)})

(* expire: the rules one of whose tasks has lapsed. *)
Lapsed == {r \in Rules : \E c \in Collectors :
             Tracked[<<r, c>>] # NoTask /\ Tracked[<<r, c>>].age >= Ttl}

(* Mutant: a renewal is due after two intervals. *)
DueLate(t) == t.age >= 2 * Renewal

(* Entry::is_due *)
Due(t) == t.age >= Renewal

(* renewal_cycle: retire what lapsed, issue what is missing, send what is due. *)
RenewalCycle ==
    LET left == [k \in DOMAIN ledger |->
                   IF Tracked[k] # NoTask /\ Tracked[k].age >= Ttl THEN NoTask ELSE Tracked[k]]
        missing == {<<r, plan[r].col>> : r \in {s \in Rules : Eligible(s) /\ s \notin Lapsed}}
        issued == [k \in DOMAIN left |->
                     IF k \in missing /\ left[k] = NoTask THEN Issued(plan[k[1]]) ELSE left[k]]
    IN  /\ phase = "reissue" /\ NothingToSend /\ reissue = {}
        /\ health' = [r \in Rules |->
                        IF r \in Lapsed /\ health[r] \notin {"untracked", "latched"}
                        THEN "expired" ELSE health[r]]
        /\ plan' = [r \in Rules |-> IF r \in Lapsed THEN NoPlan ELSE plan[r]]
        /\ ledger' = issued
        /\ toSend' = [k \in DOMAIN left |->
                        IF issued[k] # NoTask /\ (left[k] = NoTask \/ Due(left[k]))
                        THEN issued[k].plan ELSE NoPlan]
        /\ losses' = [k \in DOMAIN losses |-> IF left[k] = NoTask THEN 0 ELSE losses[k]]
        /\ overlooked' = {k \in overlooked : left[k] # NoTask}
        /\ phase' = "send" /\ landed' = {}
        /\ Remember
        /\ UNCHANGED <<catalogVars, body, enabled, deferred, refs, gen, lastGen, latchGen,
                       admissionVars, due, reissue, running, alerted, held>>

(* PushdownRegistry::accept: the columns are declared, pushed literals fit them. *)
Accepts(c, p) ==
    /\ desc[c] # NoDesc /\ p.body.refs \subseteq desc[c].cols
    /\ p.pushed = {} \/ desc[c].version \in p.body.fits

(* send_all: a task lands, or it does not. *)
Send(k) ==
    /\ toSend[k] # NoPlan
    /\ toSend' = [toSend EXCEPT ![k] = NoPlan]
    /\ \/ /\ Accepts(k[2], toSend[k])
          /\ held' = [held EXCEPT ![k] = Issued(toSend[k])]
          /\ losses' = [losses EXCEPT ![k] = 0]
          /\ landed' = IF phase = "send" THEN landed \cup {k} ELSE landed
       \/ /\ losses' = [losses EXCEPT ![k] = IF @ < MaxLosses THEN @ + 1 ELSE @]
          /\ UNCHANGED <<held, landed>>
    /\ Remember
    /\ UNCHANGED <<catalogVars, ruleVars, ledger, admissionVars, phase, due, reissue, running,
                   alerted, overlooked>>

(* Mutant: what was sent is confirmed, landed or not. *)
RecordSends ==
    /\ phase = "send" /\ NothingToSend
    /\ ledger' = [k \in DOMAIN ledger |->
                    IF ledger[k] # NoTask THEN [ledger[k] EXCEPT !.age = 0] ELSE NoTask]
    /\ phase' = "idle" /\ landed' = {}
    /\ Remember
    /\ UNCHANGED <<catalogVars, ruleVars, admissionVars, due, reissue, toSend, running, alerted,
                   held, losses, overlooked>>

(* run_renewal_cycle's second lock: what landed is confirmed. *)
RecordRenewals ==
    /\ phase = "send" /\ NothingToSend
    /\ ledger' = [k \in DOMAIN ledger |->
                    IF k \in landed /\ ledger[k] # NoTask
                    THEN [ledger[k] EXCEPT !.age = 0] ELSE ledger[k]]
    /\ phase' = "idle" /\ landed' = {}
    /\ Remember
    /\ UNCHANGED <<catalogVars, ruleVars, admissionVars, due, reissue, toSend, running, alerted,
                   held, losses, overlooked>>

----------------------------------------------------------------------------
(* The scan branch: run_detection_cycle.                                   *)

(* The first lock: runnable_rules. *)
StartEvaluation ==
    /\ phase = "idle" /\ \E r \in Rules : Eligible(r)
    /\ phase' = "evaluate"
    /\ running' = [r \in Rules |-> IF Eligible(r) THEN gen[r] ELSE 0]
    /\ alerted' = [r \in Rules |-> 0]
    /\ Remember
    /\ UNCHANGED <<catalogVars, ruleVars, ledger, admissionVars, due, reissue, toSend, landed,
                   held, losses, overlooked>>

(* Mutant: a latency report names the rule and not its load. *)
MeasuredById(r) == body[r] # NoBody /\ health[r] # "latched"

(* observe_pattern_latency drops reports for another load. *)
Measured(r) == gen[r] = running[r] /\ health[r] # "latched"

(* The second lock: apply_outcome with the rules that breached. *)
ApplyOutcome(slow) ==
    LET breached == {r \in slow : Measured(r)}
    IN  /\ phase = "evaluate" /\ phase' = "idle"
        /\ slow \subseteq {r \in Rules : running[r] # 0}
        /\ enabled' = [r \in Rules |-> enabled[r] /\ r \notin breached]
        /\ plan' = [r \in Rules |-> IF r \in breached THEN NoPlan ELSE plan[r]]
        /\ health' = [r \in Rules |-> IF r \in breached THEN "latched" ELSE health[r]]
        /\ latchGen' = [r \in Rules |-> IF r \in breached THEN running[r] ELSE latchGen[r]]
        /\ alerted' = [r \in Rules |->
                         IF IsRunnable(r, running[r]) /\ r \notin breached THEN running[r] ELSE 0]
        /\ running' = [r \in Rules |-> 0]
        /\ Remember
        /\ UNCHANGED <<catalogVars, body, deferred, refs, gen, lastGen, ledger, admissionVars,
                       due, reissue, toSend, landed, held, losses, overlooked>>

----------------------------------------------------------------------------
(* Time and the collectors.                                                *)

(* Entry::is_expired and is_due count from confirmed_at, up to the TTL. *)
Older(t) ==
    IF t = NoTask THEN t ELSE IF t.age = Ttl THEN t ELSE [t EXCEPT !.age = t.age + 1]

(* A collector drops a task at its TTL. *)
Lapses(t) == IF t = NoTask \/ t.age + 1 >= Ttl THEN NoTask ELSE [t EXCEPT !.age = t.age + 1]

Tick ==
    /\ phase = "idle" /\ (due => Stalls)
    /\ due' = TRUE
    /\ ledger' = [k \in DOMAIN ledger |-> Older(ledger[k])]
    /\ held' = [k \in DOMAIN held |-> Lapses(held[k])]
    /\ idle' = [r \in Rules |-> IF Eligible(r) THEN 0
                                ELSE IF idle[r] < Ttl THEN idle[r] + 1 ELSE Ttl]
    /\ UNCHANGED <<catalogVars, ruleVars, admissionVars, phase, reissue, toSend, landed, running,
                   alerted, losses, overlooked>>

(* A collector loses its accepted tasks; it will register again. *)
CollectorRestart(c) ==
    /\ \E r \in Rules : held[<<r, c>>] # NoTask
    /\ held' = [k \in DOMAIN held |-> IF k[2] = c THEN NoTask ELSE held[k]]
    /\ Remember
    /\ UNCHANGED <<catalogVars, ruleVars, ledger, admissionVars, loopVars, losses, overlooked>>

Next ==
    \/ \E r \in Rules, b \in Bodies, on \in BOOLEAN : LoadRule(r, b, on)
    \/ \E r \in Rules : RemoveRule(r)
    \/ \E r \in Rules, on \in BOOLEAN : SetRuleEnabled(r, on)
    \/ \E c \in Collectors, d \in Descriptors : Register(c, d)
    \/ \E c \in Collectors : OweTasks(c)
    \/ \E c \in Collectors : CollectorRestart(c)
    \/ StartRenewal \/ RenewalCycle \/ RecordRenewals
    \/ \E c \in Collectors : ReissueTo(c)
    \/ \E k \in Rules \X Collectors : Send(k)
    \/ StartEvaluation
    \/ \E slow \in SUBSET Rules : ApplyOutcome(slow)
    \/ Tick

Spec == Init /\ [][Next]_vars

(***************************************************************************)
(* The loop's timers keep firing and select! serves both branches, so the  *)
(* renewal branch and the clock are strongly fair; a started cycle ends.   *)
(***************************************************************************)
Fairness ==
    /\ SF_vars(Tick) /\ SF_vars(StartRenewal)
    /\ WF_vars(RenewalCycle) /\ WF_vars(RecordRenewals)
    /\ \A c \in Collectors : WF_vars(ReissueTo(c)) /\ WF_vars(OweTasks(c))
    /\ \A k \in Rules \X Collectors : WF_vars(Send(k))
    /\ WF_vars(\E slow \in SUBSET Rules : ApplyOutcome(slow))

FairSpec == Spec /\ Fairness

----------------------------------------------------------------------------
(***************************************************************************)
(* observe_pattern_latency: a latched rule is off and has no plan, and it  *)
(* was latched by a measurement of the load that is in place, whatever     *)
(* was reloaded, re-planned or expired since the evaluation began.         *)
(***************************************************************************)
LatchStands ==
    \A r \in Rules : health[r] = "latched" =>
        ~enabled[r] /\ plan[r] = NoPlan /\ latchGen[r] = gen[r]

(* Only a reload or a removal clears a latch; no registration or expiry does. *)
LatchClearedByReload ==
    [][\A r \in Rules : health[r] = "latched" /\ health'[r] # "latched" => gen'[r] # gen[r]]_vars

(* register_collector and renewal_cycle: an unhealthy rule keeps no plan. *)
NoPlanWhileUnhealthy == \A r \in Rules : health[r] \in Causes => plan[r] = NoPlan

(***************************************************************************)
(* Registrations in any order leave every plan addressed to the collector  *)
(* that owns the rule's tables, over columns that collector declares.      *)
(***************************************************************************)
PlanResolves ==
    \A r \in Rules : plan[r] # NoPlan =>
        \A c \in plan[r].body.refs : Resolves(desc, owner, c) /\ owner[c.table] = plan[r].col

(***************************************************************************)
(* The pushed half fails closed: a collector holds a rule's task only when *)
(* the rule was eligible no longer ago than the task was sent, so a rule   *)
(* that is disabled, removed or latched stops everywhere within one TTL.   *)
(***************************************************************************)
FailsClosed ==
    \A r \in Rules, c \in Collectors : held[<<r, c>>] # NoTask =>
        Eligible(r) \/ idle[r] <= held[<<r, c>>].age

(* apply_outcome: what a cycle alerts on is still the current, eligible load. *)
AlertsStand ==
    [][\A r \in Rules : alerted'[r] # alerted[r] /\ alerted'[r] # 0 =>
         gen'[r] = alerted'[r] /\ Eligible(r)']_vars

(* What a collector passes of a table follows from the columns it declares of it. *)
ConformanceByColumns ==
    \A d, e \in Descriptors, t \in Tables :
        LET of(cols) == {c \in cols : c.table = t}
        IN  of(d.cols) = of(e.cols) => of(d.passes \cap d.cols) = of(e.passes \cap e.cols)

(***************************************************************************)
(* issue_tasks_for_collector, owed by every registration: once nothing is  *)
(* owed to a collector, the task renewed there is of the rule's current    *)
(* text, and is its current plan.  Two cases are left out of the second.   *)
(* A rule that is not eligible when the re-issue passes (switched off, or  *)
(* expired) and eligible again when renewal_cycle looks keeps the task of  *)
(* its earlier plan.  And a descriptor whose conformance changes but not   *)
(* the columns of a table re-plans no rule on it; the first registration   *)
(* of another collector then re-plans all, but tasks are re-issued to the  *)
(* collector that registers alone.                                         *)
(***************************************************************************)
RenewsCurrentPlan ==
    \A r \in Rules, c \in Collectors :
        /\ phase = "idle" /\ Eligible(r) /\ plan[r].col = c /\ ledger[<<r, c>>] # NoTask
        /\ c \notin admitting \cup owed
        => /\ ledger[<<r, c>>].plan.body = plan[r].body
           /\ ConformanceByColumns /\ <<r, c>> \notin overlooked => ledger[<<r, c>>].plan = plan[r]

(***************************************************************************)
(* TASK_EXPIRED_REASON: a rule is marked expired when no renewal of it     *)
(* landed before the TTL elapsed, so not while its own plan's collector    *)
(* still holds a live task.                                                *)
(***************************************************************************)
ExpiryIsReal ==
    [][\A r \in Rules : health[r] # "expired" /\ health'[r] = "expired" =>
         held[<<r, plan[r].col>>] = NoTask]_vars

(***************************************************************************)
(* PUSHDOWN_TASK_RENEWAL_INTERVAL: two consecutive lost sends never expire *)
(* a task, as long as no scan holds the loop past its renewal ticks.       *)
(***************************************************************************)
TwoLossesSurvive ==
    [][\A r \in Rules : ~Stalls /\ health[r] # "expired" /\ health'[r] = "expired" =>
         \E c \in Collectors : losses[<<r, c>>] > 2]_vars

(***************************************************************************)
(* Once registrations settle, an eligible rule's task reaches its          *)
(* collector or the rule stops counting as covered: the agent never goes   *)
(* on treating a rule as covered while nothing lands.                      *)
(***************************************************************************)
CoveredOrReported ==
    <>[](admitting \cup owed = {}) =>
        \A r \in Rules :
            Eligible(r) ~> (~Eligible(r) \/ held[<<r, plan[r].col>>] # NoTask)
=============================================================================
