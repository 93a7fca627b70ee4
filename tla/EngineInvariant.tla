--------------------------- MODULE EngineInvariant ----------------------------
(***************************************************************************)
(* The inductive invariants of Engine, that they hold at the start, and    *)
(* what the steps of the loop, of the collectors and of the operator do to *)
(* the first of them.                                                      *)
(***************************************************************************)
EXTENDS Engine, TLAPS

-----------------------------------------------------------------------------
(* The inductive invariants.                                               *)

\* What the rule maps say of one rule agrees: a tracked rule is loaded and
\* tracked by the columns of its text, a deferred one is not tracked yet, and a
\* plan is of the text in place.
RulesAgree ==
  \A r \in Rules :
    /\ health[r] # "untracked" => body[r] \in Bodies /\ refs[r] = body[r].refs /\ gen[r] # 0
    /\ r \in deferred => body[r] \in Bodies /\ health[r] = "untracked" /\ gen[r] # 0
    /\ gen[r] # 0 => health[r] # "untracked" \/ r \in deferred
    /\ plan[r] # NoPlan => health[r] # "untracked" /\ plan[r].body = body[r]

\* Rules are deferred only until the first collector registers.
DeferredEarly == deferred # {} => \A c \in Collectors : desc[c] = NoDesc

\* Rules are evaluated only after that.
EvaluatedLate ==
  (\E r \in Rules : running[r] # 0) => \E c \in Collectors : desc[c] # NoDesc

\* Generations come from the counter.
Issuing == \A r \in Rules : gen[r] <= lastGen

\* A reserved table is owned by the collector it is reserved for.
ReservedKept ==
  \A t \in Tables : ReservedFor[t] # NoOne => owner[t] \in {NoOne, ReservedFor[t]}

EngineInv ==
  /\ TypeOK /\ RulesAgree /\ DeferredEarly /\ EvaluatedLate /\ Issuing /\ ReservedKept
  /\ LatchStands /\ NoPlanWhileUnhealthy /\ PlanResolves

\* Only what a rule covered a moment ago sends is under way, and only while the
\* renewal branch runs, in which no tick passes.
InFlight ==
  /\ \A r \in Rules, c \in Collectors :
       toSend[<<r, c>>] # NoPlan => Eligible(r) \/ idle[r] = 0
  /\ phase \in {"idle", "evaluate"} => NothingToSend

ClosingInv == FailsClosed /\ InFlight

\* A task is of the text in place, and of a rule that is tracked.
TasksOfText ==
  \A r \in Rules, c \in Collectors : ledger[<<r, c>>] # NoTask =>
    health[r] # "untracked" /\ ledger[<<r, c>>].plan.body = body[r]

\* A renewal leaves nothing of what it took from the owed re-issues.
ReissuesEnd == phase # "reissue" => reissue = {}

\* The conformance results are those of the descriptor in place.
PassedDeclared ==
  \A c \in Collectors, k \in Columns :
    <<c, k>> \in passed <=> desc[c] # NoDesc /\ k \in desc[c].passes \cap desc[c].cols

\* What planning the rule for the collector would push.
Pushable(r, c) == {k \in body[r].refs : <<c, k>> \in passed}

\* Plans push what planning again would push.
PlansFresh == \A r \in Rules : plan[r] # NoPlan => plan[r].pushed = Pushable(r, plan[r].col)

\* So do tasks, once nothing is owed to their collector and unless the last
\* re-issue to it passed them by.
TasksFresh ==
  \A r \in Rules, c \in Collectors :
    /\ ledger[<<r, c>>] # NoTask
    /\ c \notin admitting \cup owed \cup reissue /\ <<r, c>> \notin overlooked
    => ledger[<<r, c>>].plan.col = c /\ ledger[<<r, c>>].plan.pushed = Pushable(r, c)

RenewalInv ==
  /\ TasksOfText /\ ReissuesEnd
  /\ ConformanceByColumns => PassedDeclared /\ PlansFresh /\ TasksFresh

\* A tick has passed, or a send is under way, that the losses do not count yet.
Awaiting(k) == due \/ phase = "reissue" \/ toSend[k] # NoPlan

\* A task older than the renewal interval has lost a send in every tick since.
LossesCounted ==
  \A k \in Rules \X Collectors :
    /\ ledger[k] # NoTask /\ ledger[k].age >= Renewal /\ ~(phase = "send" /\ k \in landed)
    => \/ losses[k] = MaxLosses
       \/ losses[k] >= ledger[k].age - Renewal + (IF Awaiting(k) THEN 0 ELSE 1)

\* Sends belong to the renewal branch, and those of a re-issue are of new tasks.
SendsTimely ==
  /\ due => phase \in {"idle", "evaluate"}
  /\ phase \in {"idle", "evaluate"} => NothingToSend
  /\ \A k \in Rules \X Collectors :
       phase = "reissue" /\ toSend[k] # NoPlan /\ ledger[k] # NoTask => ledger[k].age = 0

LossInv == SendsTimely /\ (~Stalls => LossesCounted)
-----------------------------------------------------------------------------
(* Planning.                                                               *)

\* A plan is addressed to the owner of every column it reads, and these resolve.
LEMMA PlanIsAddressed ==
  ASSUME NEW ds \in [Collectors -> Descriptors \cup {NoDesc}],
         NEW ow \in [Tables -> Collectors \cup {NoOne}],
         NEW ps, NEW b \in Bodies, Plannable(ds, ow, b)
  PROVE  /\ PlanOf(ds, ow, ps, b) \in Plan
         /\ PlanOf(ds, ow, ps, b).body = b
         /\ \A c \in b.refs : /\ Resolves(ds, ow, c)
                              /\ ow[c.table] = PlanOf(ds, ow, ps, b).col
<1> DEFINE t == CHOOSE u \in TablesOf(b.refs) : TRUE
           at == ow[t]
<1>1. b.refs \subseteq Columns /\ b.refs # {} /\ \A c, k \in b.refs : c.table = k.table
  BY RuleAssumption, Zenon
<1>2. t \in TablesOf(b.refs)
  BY <1>1, Zenon DEF TablesOf
<1>3. \A c \in b.refs : c.table = t
  BY <1>1, <1>2, Zenon DEF TablesOf
<1>4. \A c \in b.refs : Resolves(ds, ow, c) /\ ow[c.table] = at
  BY <1>3, Zenon DEF Plannable
<1>5. at \in Collectors
  BY <1>1, <1>4, CatalogAssumption, Zenon DEF Resolves
<1>6. PlanOf(ds, ow, ps, b) = [body |-> b, col |-> at, pushed |-> {c \in b.refs : <<at, c>> \in ps}]
  BY Zenon DEF PlanOf
<1> HIDE DEF at, t
<1>7. PlanOf(ds, ow, ps, b) \in Plan
  BY <1>1, <1>5, <1>6 DEF Plan
<1> QED
  BY <1>4, <1>6, <1>7

-----------------------------------------------------------------------------
(* The type invariant by its parts.                                        *)

CatalogTyped ==
  /\ desc \in [Collectors -> Descriptors \cup {NoDesc}]
  /\ owner \in [Tables -> Collectors \cup {NoOne}]
  /\ passed \subseteq Collectors \X Columns

RulesTyped ==
  /\ body \in [Rules -> Bodies \cup {NoBody}] /\ enabled \in [Rules -> BOOLEAN]
  /\ plan \in [Rules -> Plan \cup {NoPlan}] /\ deferred \subseteq Rules
  /\ health \in [Rules -> Causes \cup {"untracked", "healthy"}]
  /\ refs \in [Rules -> SUBSET Columns]
  /\ gen \in [Rules -> 0 .. MaxGen] /\ lastGen \in 0 .. MaxGen
  /\ latchGen \in [Rules -> 0 .. MaxGen]

TasksTyped ==
  /\ ledger \in [Rules \X Collectors -> Task \cup {NoTask}]
  /\ held \in [Rules \X Collectors -> Task \cup {NoTask}]
  /\ toSend \in [Rules \X Collectors -> Plan \cup {NoPlan}]
  /\ landed \subseteq Rules \X Collectors
  /\ losses \in [Rules \X Collectors -> 0 .. MaxLosses]
  /\ overlooked \subseteq Rules \X Collectors

LoopTyped ==
  /\ admitting \subseteq Collectors /\ owed \subseteq Collectors
  /\ phase \in {"idle", "reissue", "send", "evaluate"} /\ due \in BOOLEAN
  /\ reissue \subseteq Collectors

CountsTyped ==
  /\ running \in [Rules -> 0 .. MaxGen] /\ alerted \in [Rules -> 0 .. MaxGen]
  /\ idle \in [Rules -> 0 .. Ttl]

LEMMA TypeParts ==
  /\ TypeOK <=> CatalogTyped /\ RulesTyped /\ TasksTyped /\ LoopTyped /\ CountsTyped
  /\ TypeOK' <=> CatalogTyped' /\ RulesTyped' /\ TasksTyped' /\ LoopTyped' /\ CountsTyped'
BY Zenon DEF TypeOK, CatalogTyped, RulesTyped, TasksTyped, LoopTyped, CountsTyped

-----------------------------------------------------------------------------
(* Initial states, and steps that leave catalog and rules alone.           *)

LEMMA EngineInit == Init => EngineInv /\ ClosingInv
<1> SUFFICES ASSUME Init PROVE EngineInv /\ ClosingInv
  BY Zenon
<1> USE BoundsAssumption, TtlAssumption DEF Init
<1>1. TypeOK
  <2>1. CatalogTyped
    BY Zenon DEF CatalogTyped
  <2>2. RulesTyped
    BY DEF RulesTyped
  <2>3. TasksTyped
    BY DEF TasksTyped
  <2>4. LoopTyped
    BY Zenon DEF LoopTyped
  <2>5. CountsTyped
    BY DEF CountsTyped
  <2> QED
    BY ONLY <2>1, <2>2, <2>3, <2>4, <2>5, TypeParts, Zenon
<1>2. RulesAgree /\ DeferredEarly /\ Issuing /\ ReservedKept
  BY DEF RulesAgree, DeferredEarly, Issuing, ReservedKept
<1>3. EvaluatedLate
  BY Zenon DEF EvaluatedLate
<1>4. LatchStands /\ NoPlanWhileUnhealthy /\ PlanResolves
  BY Zenon DEF LatchStands, NoPlanWhileUnhealthy, PlanResolves, Causes
<1>5. FailsClosed /\ InFlight
  BY Zenon DEF FailsClosed, InFlight, NothingToSend
<1> QED
  BY <1>1, <1>2, <1>3, <1>4, <1>5, Zenon DEF EngineInv, ClosingInv

LEMMA RulesUntouched ==
  ASSUME EngineInv, UNCHANGED <<catalogVars, ruleVars>>, TypeOK', EvaluatedLate'
  PROVE  EngineInv'
<1> USE DEF catalogVars, ruleVars
<1>1. RulesAgree' /\ DeferredEarly' /\ Issuing' /\ ReservedKept'
  BY Zenon DEF EngineInv, RulesAgree, DeferredEarly, Issuing, ReservedKept
<1>2. LatchStands' /\ NoPlanWhileUnhealthy' /\ PlanResolves'
  BY Zenon DEF EngineInv, LatchStands, NoPlanWhileUnhealthy, PlanResolves, Resolves
<1> QED
  BY <1>1, <1>2, Zenon DEF EngineInv

\* What every step but Tick remembers.
LEMMA Remembered ==
  ASSUME TypeOK, Remember
  PROVE  /\ idle' \in [Rules -> 0 .. Ttl]
         /\ \A r \in Rules : idle'[r] = IF Eligible(r) THEN 0 ELSE idle[r]
BY TtlAssumption DEF TypeOK, Remember

-----------------------------------------------------------------------------
(* Steps of the loop and of the collectors.                                *)

LEMMA TypedTask == \A p \in Plan : Issued(p) \in Task
BY TtlAssumption DEF Issued, Task

LEMMA OweTasksTyped ==
  ASSUME TypeOK, NEW c \in Collectors, OweTasks(c) PROVE TypeOK'
<1> USE TypeParts DEF OweTasks, catalogVars, ruleVars, loopVars
<1>1. CatalogTyped' /\ RulesTyped' /\ TasksTyped'
  BY Zenon DEF CatalogTyped, RulesTyped, TasksTyped
<1>2. LoopTyped'
  BY Zenon DEF LoopTyped
<1>3. CountsTyped'
  BY Remembered, Zenon DEF CountsTyped
<1> QED
  BY ONLY <1>1, <1>2, <1>3, TypeParts, Zenon

LEMMA StartRenewalTyped ==
  ASSUME TypeOK, StartRenewal PROVE TypeOK'
<1> USE TypeParts DEF StartRenewal, catalogVars, ruleVars
<1>1. CatalogTyped' /\ RulesTyped' /\ TasksTyped'
  BY Zenon DEF CatalogTyped, RulesTyped, TasksTyped
<1>2. LoopTyped'
  BY Zenon DEF LoopTyped
<1>3. CountsTyped'
  BY Remembered, BoundsAssumption DEF CountsTyped
<1> QED
  BY ONLY <1>1, <1>2, <1>3, TypeParts, Zenon

LEMMA ReissueToTyped ==
  ASSUME TypeOK, NEW c \in Collectors, ReissueTo(c) PROVE TypeOK'
<1> USE TypeParts DEF ReissueTo, catalogVars, ruleVars, admissionVars
<1>1. CatalogTyped' /\ RulesTyped'
  BY Zenon DEF CatalogTyped, RulesTyped
<1>2. \A r \in Rules : Eligible(r) => plan[r] \in Plan /\ Issued(plan[r]) \in Task
  BY TypedTask, Zenon DEF Eligible, RulesTyped
<1>3. TasksTyped'
  BY <1>2, BoundsAssumption DEF TasksTyped
<1>4. LoopTyped'
  BY Zenon DEF LoopTyped
<1>5. CountsTyped'
  BY Remembered, Zenon DEF CountsTyped
<1> QED
  BY ONLY <1>1, <1>3, <1>4, <1>5, TypeParts, SMTT(20)

LEMMA SendTyped ==
  ASSUME TypeOK, NEW k \in Rules \X Collectors, Send(k) PROVE TypeOK'
<1> USE TypeParts DEF Send, catalogVars, ruleVars, admissionVars
<1>1. CatalogTyped' /\ RulesTyped'
  BY Zenon DEF CatalogTyped, RulesTyped
<1>2. toSend[k] \in Plan /\ Issued(toSend[k]) \in Task
  BY TypedTask, Zenon DEF TasksTyped
<1>3. TasksTyped'
  BY <1>2, BoundsAssumption DEF TasksTyped
<1>4. LoopTyped'
  BY Zenon DEF LoopTyped
<1>5. CountsTyped'
  BY Remembered, Zenon DEF CountsTyped
<1> QED
  BY ONLY <1>1, <1>3, <1>4, <1>5, TypeParts, Zenon

LEMMA RecordRenewalsTyped ==
  ASSUME TypeOK, RecordRenewals PROVE TypeOK'
<1> USE TypeParts DEF RecordRenewals, catalogVars, ruleVars, admissionVars
<1>1. CatalogTyped' /\ RulesTyped'
  BY Zenon DEF CatalogTyped, RulesTyped
<1>2. \A t \in Task : [t EXCEPT !.age = 0] \in Task
  BY TtlAssumption DEF Task
<1>3. TasksTyped'
  BY <1>2, Zenon DEF TasksTyped
<1>4. LoopTyped'
  BY Zenon DEF LoopTyped
<1>5. CountsTyped'
  BY Remembered, Zenon DEF CountsTyped
<1> QED
  BY ONLY <1>1, <1>3, <1>4, <1>5, TypeParts, Zenon

LEMMA StartEvaluationTyped ==
  ASSUME TypeOK, StartEvaluation PROVE TypeOK'
<1> USE TypeParts DEF StartEvaluation, catalogVars, ruleVars, admissionVars
<1>1. CatalogTyped' /\ RulesTyped' /\ TasksTyped'
  BY Zenon DEF CatalogTyped, RulesTyped, TasksTyped
<1>2. LoopTyped'
  BY Zenon DEF LoopTyped
<1>3. CountsTyped'
  BY Remembered, BoundsAssumption DEF CountsTyped, RulesTyped
<1> QED
  BY ONLY <1>1, <1>2, <1>3, TypeParts, Zenon

\* Tasks grow older up to the TTL, at the agent and at the collectors.
LEMMA Ageing ==
  ASSUME NEW t \in Task \cup {NoTask}
  PROVE  /\ Older(t) \in Task \cup {NoTask} /\ Lapses(t) \in Task \cup {NoTask}
         /\ Lapses(t) # NoTask => t # NoTask /\ Lapses(t).age = t.age + 1 /\ t.age + 1 < Ttl
<1>1. CASE t = NoTask
  BY <1>1, Zenon DEF Older, Lapses
<1>2. CASE t # NoTask
  <2>1. t \in Task /\ t.age \in 0 .. Ttl
    BY <1>2, Zenon DEF Task
  <2>2. t.age < Ttl => [t EXCEPT !.age = t.age + 1] \in Task
    BY <2>1, TtlAssumption DEF Task
  <2>3. [t EXCEPT !.age = t.age + 1].age = t.age + 1
    BY <2>1, Zenon DEF Task
  <2> QED
    BY <1>2, <2>1, <2>2, <2>3, TtlAssumption DEF Older, Lapses
<1> QED
  BY <1>1, <1>2, Zenon

LEMMA TickTyped ==
  ASSUME TypeOK, Tick PROVE TypeOK'
<1> USE TypeParts DEF Tick, catalogVars, ruleVars, admissionVars
<1>1. CatalogTyped' /\ RulesTyped'
  BY Zenon DEF CatalogTyped, RulesTyped
<1>2. TasksTyped'
  BY Ageing, Zenon DEF TasksTyped
<1>3. LoopTyped'
  BY Zenon DEF LoopTyped
<1>4. CountsTyped'
  BY TtlAssumption, SMTT(20) DEF CountsTyped
<1> QED
  BY ONLY <1>1, <1>2, <1>3, <1>4, TypeParts, Zenon

LEMMA CollectorRestartTyped ==
  ASSUME TypeOK, NEW c \in Collectors, CollectorRestart(c) PROVE TypeOK'
<1> USE TypeParts DEF CollectorRestart, catalogVars, ruleVars, admissionVars, loopVars
<1>1. CatalogTyped' /\ RulesTyped'
  BY Zenon DEF CatalogTyped, RulesTyped
<1>2. TasksTyped'
  BY Zenon DEF TasksTyped
<1>3. LoopTyped'
  BY Zenon DEF LoopTyped
<1>4. CountsTyped'
  BY Remembered, Zenon DEF CountsTyped
<1> QED
  BY ONLY <1>1, <1>2, <1>3, <1>4, TypeParts, Zenon

-----------------------------------------------------------------------------
(* Steps of the operator.                                                  *)

LEMMA SetRuleEnabledKeeps ==
  ASSUME EngineInv, NEW r \in Rules, NEW on \in BOOLEAN, SetRuleEnabled(r, on)
  PROVE  EngineInv'
<1> USE TypeParts DEF EngineInv, SetRuleEnabled, catalogVars, admissionVars, loopVars
<1>1. CatalogTyped' /\ TasksTyped' /\ LoopTyped'
  BY Zenon DEF CatalogTyped, TasksTyped, LoopTyped
<1>2. RulesTyped'
  BY Zenon DEF RulesTyped
<1>3. CountsTyped'
  BY Remembered, Zenon DEF CountsTyped
<1>4. RulesAgree' /\ DeferredEarly' /\ EvaluatedLate' /\ Issuing' /\ ReservedKept'
  BY Zenon DEF RulesAgree, DeferredEarly, EvaluatedLate, Issuing, ReservedKept
<1>5. LatchStands'
  BY Zenon DEF LatchStands, RulesTyped, MaySwitch
<1>6. NoPlanWhileUnhealthy' /\ PlanResolves'
  BY Zenon DEF NoPlanWhileUnhealthy, PlanResolves, Resolves
<1> QED
  BY ONLY <1>1, <1>2, <1>3, <1>4, <1>5, <1>6, TypeParts, Zenon DEF EngineInv

LEMMA Untasked ==
  ASSUME TasksTyped, NEW gone
  PROVE  WithoutTasks(ledger, gone) \in [Rules \X Collectors -> Task \cup {NoTask}]
BY Zenon DEF TasksTyped, WithoutTasks

LEMMA RemoveRuleKeeps ==
  ASSUME EngineInv, NEW r \in Rules, RemoveRule(r)
  PROVE  EngineInv'
<1>1. /\ CatalogTyped /\ RulesTyped /\ TasksTyped /\ LoopTyped /\ CountsTyped
      /\ RulesAgree /\ DeferredEarly /\ EvaluatedLate /\ Issuing /\ ReservedKept
      /\ LatchStands /\ NoPlanWhileUnhealthy /\ PlanResolves /\ r \in Rules
  BY TypeParts, Zenon DEF EngineInv
<1>2. /\ ledger' = WithoutTasks(ledger, {r}) /\ Remember
      /\ UNCHANGED <<desc, owner, passed, admitting, owed, phase, due, reissue, toSend, landed,
                     running, alerted, held, losses, overlooked>>
  BY Zenon DEF RemoveRule, catalogVars, admissionVars, loopVars
<1>3. /\ body' = [body EXCEPT ![r] = NoBody] /\ enabled' = [enabled EXCEPT ![r] = FALSE]
      /\ plan' = [plan EXCEPT ![r] = NoPlan]
      /\ health' = [health EXCEPT ![r] = "untracked"] /\ refs' = [refs EXCEPT ![r] = {}]
      /\ gen' = [gen EXCEPT ![r] = 0] /\ latchGen' = [latchGen EXCEPT ![r] = 0]
      /\ deferred' = deferred \ {r} /\ lastGen' = lastGen
      /\ UNCHANGED <<desc, owner>>
  BY <1>2, Zenon DEF RemoveRule
<1>4. CatalogTyped' /\ LoopTyped'
  BY ONLY <1>1, <1>2, Zenon DEF CatalogTyped, LoopTyped
<1>5. TasksTyped'
  BY ONLY <1>1, <1>2, Untasked, Zenon DEF TasksTyped
<1>6. CountsTyped'
  <2>1. TypeOK
    BY Zenon DEF EngineInv
  <2> QED
    BY ONLY <1>1, <1>2, <2>1, Remembered, Zenon DEF CountsTyped
<1>7. RulesTyped'
  BY ONLY <1>1, <1>3, BoundsAssumption DEF RulesTyped
<1>8. RulesAgree'
  BY ONLY <1>1, <1>3, Zenon DEF RulesAgree, RulesTyped
<1>9. DeferredEarly' /\ EvaluatedLate' /\ ReservedKept'
  BY ONLY <1>1, <1>2, <1>3, Zenon DEF DeferredEarly, EvaluatedLate, ReservedKept
<1>10. Issuing'
  BY ONLY <1>1, <1>3, BoundsAssumption DEF Issuing, RulesTyped
<1>11. LatchStands'
  BY ONLY <1>1, <1>3, Zenon DEF LatchStands, RulesTyped
<1>12. NoPlanWhileUnhealthy' /\ PlanResolves'
  BY ONLY <1>1, <1>3, Zenon DEF NoPlanWhileUnhealthy, PlanResolves, Resolves, RulesTyped
<1> QED
  BY ONLY <1>4, <1>5, <1>6, <1>7, <1>8, <1>9, <1>10, <1>11, <1>12, TypeParts, Zenon DEF EngineInv

\* As long as nobody has registered there are no plans.
LEMMA NoPlansYet ==
  ASSUME EngineInv, \A c \in Collectors : desc[c] = NoDesc
  PROVE  \A r \in Rules : plan[r] = NoPlan
<1> SUFFICES ASSUME NEW r \in Rules, plan[r] # NoPlan PROVE FALSE
  BY Zenon
<1>1. plan[r] \in Plan
  BY Zenon DEF EngineInv, TypeOK
<1>2. PICK c \in plan[r].body.refs : TRUE
  BY <1>1, RuleAssumption, Zenon DEF Plan
<1>3. Resolves(desc, owner, c)
  BY <1>2, Zenon DEF EngineInv, PlanResolves
<1>4. c.table \in Tables
  BY <1>1, <1>2, RuleAssumption, CatalogAssumption, Zenon DEF Plan
<1>5. owner[c.table] \in Collectors
  BY <1>3, <1>4, Zenon DEF Resolves, EngineInv, TypeOK
<1> QED
  BY <1>3, <1>5, Zenon DEF Resolves, ColumnsOf

LEMMA LoadRuleKeeps ==
  ASSUME EngineInv, NEW r \in Rules, NEW b \in Bodies, NEW on \in BOOLEAN,
         LoadRule(r, b, on)
  PROVE  EngineInv'
<1> DEFINE waits == \A c \in Collectors : desc[c] = NoDesc
           new == PlanOf(desc, owner, passed, b)
<1>0. /\ CatalogTyped /\ RulesTyped /\ TasksTyped /\ LoopTyped /\ CountsTyped
      /\ RulesAgree /\ DeferredEarly /\ EvaluatedLate /\ Issuing /\ ReservedKept
      /\ LatchStands /\ NoPlanWhileUnhealthy /\ PlanResolves
      /\ r \in Rules /\ b \in Bodies /\ on \in BOOLEAN
  BY TypeParts, Zenon DEF EngineInv
<1>1. /\ ledger' = WithoutTasks(ledger, {r}) /\ Remember
      /\ UNCHANGED <<desc, owner, passed, admitting, owed, phase, due, reissue, toSend, landed,
                     running, alerted, held, losses, overlooked>>
  BY Zenon DEF LoadRule, catalogVars, admissionVars, loopVars
<1>2. CatalogTyped' /\ LoopTyped'
  BY ONLY <1>0, <1>1, Zenon DEF CatalogTyped, LoopTyped
<1>3. TasksTyped' /\ CountsTyped'
  <2>1. TypeOK
    BY Zenon DEF EngineInv
  <2> QED
    BY ONLY <1>0, <1>1, <2>1, Untasked, Remembered, Zenon DEF TasksTyped, CountsTyped
<1>4. /\ body' = [body EXCEPT ![r] = b] /\ enabled' = [enabled EXCEPT ![r] = on]
      /\ lastGen < MaxGen /\ lastGen' = lastGen + 1 /\ gen' = [gen EXCEPT ![r] = lastGen + 1]
      /\ latchGen' = [latchGen EXCEPT ![r] = 0]
      /\ UNCHANGED <<desc, owner>>
  BY <1>1, Zenon DEF LoadRule
<1>5. b.refs \subseteq Columns
  BY ONLY <1>0, RuleAssumption, Zenon
<1>6. Issuing' /\ ReservedKept' /\ EvaluatedLate'
  BY ONLY <1>0, <1>1, <1>4, BoundsAssumption DEF Issuing, ReservedKept, EvaluatedLate, RulesTyped
<1>7. CASE waits
  <2>1. /\ deferred' = deferred \cup {r} /\ plan' = plan
        /\ health' = [health EXCEPT ![r] = "untracked"] /\ refs' = [refs EXCEPT ![r] = {}]
    BY <1>7, Zenon DEF LoadRule
  <2>2. \A s \in Rules : plan[s] = NoPlan
    BY <1>7, NoPlansYet, Zenon
  <2>3. RulesTyped'
    BY ONLY <1>0, <1>4, <2>1, BoundsAssumption DEF RulesTyped
  <2>4. RulesAgree'
    BY ONLY <1>0, <1>4, <2>1, <2>2 DEF RulesAgree, RulesTyped
  <2>5. DeferredEarly'
    BY ONLY <1>4, <1>7, Zenon DEF DeferredEarly
  <2>6. LatchStands'
    BY ONLY <1>0, <1>4, <2>1, Zenon DEF LatchStands, RulesTyped
  <2>7. NoPlanWhileUnhealthy' /\ PlanResolves'
    BY ONLY <1>0, <2>1, <2>2, Zenon DEF NoPlanWhileUnhealthy, PlanResolves
  <2> QED
    BY ONLY <1>2, <1>3, <1>6, <2>3, <2>4, <2>5, <2>6, <2>7, TypeParts, Zenon DEF EngineInv
<1>8. CASE ~waits
  <2>1. /\ deferred' = deferred /\ plan' = [plan EXCEPT ![r] = new]
        /\ health' = [health EXCEPT ![r] = "healthy"] /\ refs' = [refs EXCEPT ![r] = b.refs]
        /\ Plannable(desc, owner, b)
    BY <1>8, Zenon DEF LoadRule
  <2>2. /\ new \in Plan /\ new.body = b
        /\ \A c \in b.refs : Resolves(desc, owner, c) /\ owner[c.table] = new.col
    BY ONLY <1>0, <2>1, PlanIsAddressed DEF CatalogTyped
  <2>3. deferred = {}
    BY ONLY <1>0, <1>8, Zenon DEF DeferredEarly
  <2> HIDE DEF new, waits
  <2>4. RulesTyped'
    BY ONLY <1>0, <1>4, <1>5, <2>1, <2>2, BoundsAssumption DEF RulesTyped
  <2>5. RulesAgree'
    BY ONLY <1>0, <1>4, <2>1, <2>2, <2>3 DEF RulesAgree, RulesTyped
  <2>6. DeferredEarly'
    BY ONLY <2>1, <2>3, Zenon DEF DeferredEarly
  <2>7. LatchStands'
    BY ONLY <1>0, <1>4, <2>1, Zenon DEF LatchStands, RulesTyped
  <2>8. NoPlanWhileUnhealthy'
    BY ONLY <1>0, <2>1, Zenon DEF NoPlanWhileUnhealthy, RulesTyped, Causes
  <2>9. PlanResolves'
    BY ONLY <1>0, <1>4, <2>1, <2>2, Zenon DEF PlanResolves, Resolves, RulesTyped
  <2> QED
    BY ONLY <1>2, <1>3, <1>6, <2>4, <2>5, <2>6, <2>7, <2>8, <2>9, TypeParts, Zenon
       DEF EngineInv
<1> QED
  BY <1>7, <1>8, Zenon
-----------------------------------------------------------------------------
(* The renewal cycle, and the outcome of an evaluation.                    *)

\* The ledger without the tasks of rules that are not covered.
LEMMA TrackedTasks ==
  ASSUME TypeOK
  PROVE  /\ Tracked \in [Rules \X Collectors -> Task \cup {NoTask}]
         /\ \A k \in Rules \X Collectors :
              Tracked[k] # NoTask => Tracked[k] \in Task /\ Eligible(k[1])
<1>1. ledger \in [Rules \X Collectors -> Task \cup {NoTask}]
  BY Zenon DEF TypeOK
<1>2. Tracked = [k \in Rules \X Collectors |->
                   IF k[1] \in {r \in Rules : ~Eligible(r)} THEN NoTask ELSE ledger[k]]
  BY <1>1, Zenon DEF Tracked, WithoutTasks
<1>3. \A k \in Rules \X Collectors : k[1] \in Rules
  BY Zenon
<1> QED
  BY <1>1, <1>2, <1>3, Zenon

\* What a renewal cycle sends is of rules that are covered.
LEMMA RenewalCycleSends ==
  ASSUME EngineInv, RenewalCycle
  PROVE  /\ ledger' \in [Rules \X Collectors -> Task \cup {NoTask}]
         /\ toSend' \in [Rules \X Collectors -> Plan \cup {NoPlan}]
         /\ losses' \in [Rules \X Collectors -> 0 .. MaxLosses]
         /\ \A k \in Rules \X Collectors : toSend'[k] # NoPlan => Eligible(k[1])
<1> DEFINE left == [k \in DOMAIN ledger |->
               IF Tracked[k] # NoTask /\ Tracked[k].age >= Ttl THEN NoTask ELSE Tracked[k]]
           missing == {<<r, plan[r].col>> : r \in {s \in Rules : Eligible(s) /\ s \notin Lapsed}}
           issued == [k \in DOMAIN left |->
               IF k \in missing /\ left[k] = NoTask THEN Issued(plan[k[1]]) ELSE left[k]]
<1>1. DOMAIN ledger = Rules \X Collectors
  BY Zenon DEF EngineInv, TypeOK
<1>2. /\ left \in [Rules \X Collectors -> Task \cup {NoTask}]
      /\ \A k \in Rules \X Collectors : left[k] # NoTask => Eligible(k[1])
  BY <1>1, TrackedTasks, Zenon DEF EngineInv
<1>3. \A k \in missing : Eligible(k[1]) /\ plan[k[1]] \in Plan
  BY DEF EngineInv, TypeOK, Eligible
<1>4. /\ ledger' = issued
      /\ toSend' = [k \in DOMAIN left |->
                      IF issued[k] # NoTask /\ (left[k] = NoTask \/ Due(left[k]))
                      THEN issued[k].plan ELSE NoPlan]
      /\ losses' = [k \in DOMAIN losses |-> IF left[k] = NoTask THEN 0 ELSE losses[k]]
  BY Zenon DEF RenewalCycle
<1>5. losses \in [Rules \X Collectors -> 0 .. MaxLosses]
  BY Zenon DEF EngineInv, TypeOK
<1> HIDE DEF left, missing
<1>6. /\ issued \in [Rules \X Collectors -> Task \cup {NoTask}]
      /\ \A k \in Rules \X Collectors : issued[k] # NoTask => Eligible(k[1])
  BY <1>2, <1>3, TypedTask, Zenon
<1> HIDE DEF issued
<1>7. \A t \in Task : t.plan \in Plan
  BY Zenon DEF Task
<1>8. losses' \in [Rules \X Collectors -> 0 .. MaxLosses]
  BY ONLY <1>4, <1>5, BoundsAssumption
<1> QED
  BY <1>2, <1>4, <1>6, <1>7, <1>8, Zenon

LEMMA RenewalCycleKeeps ==
  ASSUME EngineInv, RenewalCycle
  PROVE  EngineInv'
<1> USE TypeParts DEF EngineInv
<1>1. /\ health' = [r \in Rules |->
                      IF r \in Lapsed /\ health[r] \notin {"untracked", "latched"}
                      THEN "expired" ELSE health[r]]
      /\ plan' = [r \in Rules |-> IF r \in Lapsed THEN NoPlan ELSE plan[r]]
      /\ UNCHANGED <<body, enabled, deferred, refs, gen, lastGen, latchGen>>
  BY Zenon DEF RenewalCycle
<1>2. UNCHANGED <<desc, owner, passed>>
  BY Zenon DEF RenewalCycle, catalogVars
<1>3. phase' = "send" /\ landed' = {} /\ UNCHANGED <<admitting, owed, due, reissue, held>>
  BY Zenon DEF RenewalCycle, admissionVars
<1>4. Remember /\ UNCHANGED <<running, alerted>>
  BY Zenon DEF RenewalCycle
<1>5. CatalogTyped' /\ LoopTyped'
  BY <1>2, <1>3, Zenon DEF CatalogTyped, LoopTyped
<1>6. RulesTyped'
  BY <1>1, Zenon DEF RulesTyped, Causes
<1>7. TasksTyped'
  <2>1. overlooked' \subseteq overlooked
    BY Zenon DEF RenewalCycle
  <2> QED
    BY <1>3, <2>1, RenewalCycleSends, Zenon DEF TasksTyped
<1>8. CountsTyped'
  BY <1>4, Remembered, Zenon DEF CountsTyped
<1>9. RulesAgree'
  BY <1>1, Zenon DEF RulesAgree, RulesTyped
<1>10. DeferredEarly' /\ EvaluatedLate' /\ Issuing' /\ ReservedKept'
  BY <1>1, <1>2, <1>4, Zenon DEF DeferredEarly, EvaluatedLate, Issuing, ReservedKept
<1>11. LatchStands'
  BY <1>1, Zenon DEF LatchStands, RulesTyped
<1>12. NoPlanWhileUnhealthy' /\ PlanResolves'
  BY <1>1, <1>2, Zenon DEF NoPlanWhileUnhealthy, PlanResolves, Resolves, RulesTyped
<1> QED
  BY ONLY <1>5, <1>6, <1>7, <1>8, <1>9, <1>10, <1>11, <1>12, TypeParts, Zenon DEF EngineInv

LEMMA ApplyOutcomeKeeps ==
  ASSUME EngineInv, NEW slow \in SUBSET Rules, ApplyOutcome(slow)
  PROVE  EngineInv'
<1> DEFINE breached == {r \in slow : Measured(r)}
<1> USE TypeParts DEF EngineInv
<1>1. /\ enabled' = [r \in Rules |-> enabled[r] /\ r \notin breached]
      /\ plan' = [r \in Rules |-> IF r \in breached THEN NoPlan ELSE plan[r]]
      /\ health' = [r \in Rules |-> IF r \in breached THEN "latched" ELSE health[r]]
      /\ latchGen' = [r \in Rules |-> IF r \in breached THEN running[r] ELSE latchGen[r]]
      /\ UNCHANGED <<body, deferred, refs, gen, lastGen>>
  BY Zenon DEF ApplyOutcome
<1>2. /\ alerted' = [r \in Rules |->
                       IF IsRunnable(r, running[r]) /\ r \notin breached THEN running[r] ELSE 0]
      /\ running' = [r \in Rules |-> 0]
  BY Zenon DEF ApplyOutcome
<1>3. UNCHANGED <<desc, owner, passed>>
  BY Zenon DEF ApplyOutcome, catalogVars
<1>4. phase' = "idle" /\ Remember /\ UNCHANGED <<admitting, owed, due, reissue>>
  BY Zenon DEF ApplyOutcome, admissionVars
<1>5. UNCHANGED <<ledger, toSend, landed, held, losses, overlooked>>
  BY Zenon DEF ApplyOutcome
<1>6. slow \subseteq {r \in Rules : running[r] # 0}
  BY Zenon DEF ApplyOutcome
<1>7. \A r \in breached : r \in Rules /\ gen[r] = running[r] /\ running[r] # 0
  BY <1>6, Zenon DEF Measured
<1> HIDE DEF breached
<1>8. \A r \in breached : body[r] \in Bodies /\ health[r] # "untracked" /\ refs[r] = body[r].refs
  BY <1>7, Zenon DEF RulesAgree, DeferredEarly, EvaluatedLate
<1>9. CatalogTyped' /\ LoopTyped'
  BY <1>3, <1>4, SMTT(20) DEF CatalogTyped, LoopTyped
<1>10. RulesTyped'
  BY <1>1, <1>7, Zenon DEF RulesTyped, Causes
<1>11. TasksTyped'
  BY <1>5, Zenon DEF TasksTyped
<1>12. CountsTyped'
  <2>1. running \in [Rules -> 0 .. MaxGen]
    BY Zenon DEF CountsTyped
  <2>2. alerted' \in [Rules -> 0 .. MaxGen] /\ running' \in [Rules -> 0 .. MaxGen]
    BY ONLY <1>2, <2>1, BoundsAssumption, SMTT(20)
  <2> QED
    BY <1>4, <2>2, Remembered, Zenon DEF CountsTyped
<1>13. RulesAgree'
  BY <1>1, <1>7, <1>8, SMTT(20) DEF RulesAgree, RulesTyped
<1>14. DeferredEarly' /\ EvaluatedLate' /\ Issuing' /\ ReservedKept'
  BY <1>1, <1>2, <1>3, SMTT(20) DEF DeferredEarly, EvaluatedLate, Issuing, ReservedKept
<1>15. LatchStands'
  BY <1>1, <1>7, ZenonT(30) DEF LatchStands, RulesTyped
<1>16. NoPlanWhileUnhealthy' /\ PlanResolves'
  BY <1>1, <1>3, Zenon DEF NoPlanWhileUnhealthy, PlanResolves, Resolves, RulesTyped
<1> QED
  BY ONLY <1>9, <1>10, <1>11, <1>12, <1>13, <1>14, <1>15, <1>16, TypeParts, Zenon DEF EngineInv

-----------------------------------------------------------------------------
(* A registration.                                                         *)

\* The catalog after a registration: it keeps its type and the reservations.
LEMMA CatalogWith ==
  ASSUME EngineInv, NEW c \in Collectors, NEW d \in Descriptors,
         \A t \in TablesOf(d.cols) : MayOwn(c, t)
  PROVE  /\ [desc EXCEPT ![c] = d] \in [Collectors -> Descriptors \cup {NoDesc}]
         /\ OwnersWith(c, d) \in [Tables -> Collectors \cup {NoOne}]
         /\ PassedWith(c, d, OwnersWith(c, d)) \subseteq Collectors \X Columns
         /\ \A t \in Tables : ReservedFor[t] # NoOne
              => OwnersWith(c, d)[t] \in {NoOne, ReservedFor[t]}
<1>1. CatalogTyped /\ ReservedKept
  BY TypeParts, Zenon DEF EngineInv
<1>2. d.cols \subseteq Columns
  BY CatalogAssumption, Zenon
<1>3. PassedWith(c, d, OwnersWith(c, d)) \subseteq Collectors \X Columns
  BY <1>1, <1>2 DEF PassedWith, CatalogTyped
<1>4. \A t \in Tables : ReservedFor[t] # NoOne
        => OwnersWith(c, d)[t] \in {NoOne, ReservedFor[t]}
  BY <1>1, Zenon DEF OwnersWith, MayOwn, ReservedKept
<1>5. OwnersWith(c, d) \in [Tables -> Collectors \cup {NoOne}]
  BY <1>1, Zenon DEF OwnersWith, CatalogTyped
<1>6. [desc EXCEPT ![c] = d] \in [Collectors -> Descriptors \cup {NoDesc}]
  BY <1>1, Zenon DEF CatalogTyped
<1> QED
  BY <1>3, <1>4, <1>5, <1>6, Zenon

\* A column of a table that the registration does not touch resolves as before,
\* at the same collector: nobody else may take a table that is owned.
LEMMA ResolvesAsBefore ==
  ASSUME EngineInv, NEW c \in Collectors, NEW d \in Descriptors,
         \A t \in TablesOf(d.cols) : MayOwn(c, t),
         NEW k \in Columns, Resolves(desc, owner, k), k.table \notin Affected(c, d)
  PROVE  /\ Resolves([desc EXCEPT ![c] = d], OwnersWith(c, d), k)
         /\ OwnersWith(c, d)[k.table] = owner[k.table]
<1> DEFINE t == k.table
           ds == [desc EXCEPT ![c] = d]
<1>1. t \in Tables
  BY CatalogAssumption, Zenon
<1>2. owner[t] \in Collectors /\ k \in ColumnsOf(desc[owner[t]])
  BY <1>1, Zenon DEF Resolves, EngineInv, TypeOK
<1>3. desc \in [Collectors -> Descriptors \cup {NoDesc}]
  BY Zenon DEF EngineInv, TypeOK
<1>4. d # NoDesc /\ ColumnsOf(d) = d.cols
  BY AbsentAssumption, Zenon DEF ColumnsOf
<1>5. CASE owner[t] = c
  <2>1. k \in d.cols
    BY <1>2, <1>5, Zenon DEF Affected, TablesOf
  <2>2. t \in TablesOf(d.cols)
    BY <2>1, Zenon DEF TablesOf
  <2>3. OwnersWith(c, d)[t] = c
    BY <1>1, <2>2, Zenon DEF OwnersWith
  <2> QED
    BY <1>2, <1>3, <1>4, <1>5, <2>1, <2>3, Zenon DEF Resolves
<1>6. CASE owner[t] # c
  <2>1. t \notin TablesOf(d.cols)
    <3> SUFFICES ASSUME t \in TablesOf(d.cols) PROVE FALSE
      BY Zenon
    <3>1. MayOwn(c, t)
      BY Zenon
    <3>2. CASE ReservedFor[t] # NoOne
      BY <1>1, <1>2, <1>6, <3>1, <3>2, AbsentAssumption, Zenon DEF MayOwn, EngineInv, ReservedKept
    <3>3. CASE ReservedFor[t] = NoOne
      BY <1>2, <1>6, <3>1, <3>3, AbsentAssumption, Zenon DEF MayOwn
    <3> QED
      BY <3>2, <3>3, Zenon
  <2>2. OwnersWith(c, d)[t] = owner[t]
    BY <1>1, <1>6, <2>1, Zenon DEF OwnersWith
  <2>3. ds[owner[t]] = desc[owner[t]]
    BY <1>2, <1>3, <1>6, Zenon
  <2> QED
    BY <1>2, <2>2, <2>3, Zenon DEF Resolves
<1> QED
  BY <1>5, <1>6, Zenon

LEMMA RegisterKeeps ==
  ASSUME EngineInv, NEW c \in Collectors, NEW d \in Descriptors, Register(c, d)
  PROVE  EngineInv'
<1> DEFINE first == desc[c] = NoDesc
           ds == [desc EXCEPT ![c] = d]
           ow == OwnersWith(c, d)
           ps == PassedWith(c, d, ow)
           touched == Affected(c, d)
           Fits(r) == Plannable(ds, ow, body[r])
           rejected == {r \in deferred : ~Fits(r)}
           drained == deferred \ rejected
           tracked == {r \in Rules : health[r] # "untracked"} \cup drained
           again == {r \in tracked :
                       r \in drained \/ Revalidates(r, health[r], first, touched)}
           lost == {r \in again : \E k \in body[r].refs : ~Resolves(ds, ow, k)}
<1>1. /\ \A t \in TablesOf(d.cols) : MayOwn(c, t)
      /\ desc' = ds /\ owner' = ow /\ passed' = ps
  BY Zenon DEF Register
<1>2. /\ deferred' = {}
      /\ body' = [r \in Rules |-> IF r \in rejected THEN NoBody ELSE body[r]]
      /\ enabled' = [r \in Rules |-> enabled[r] /\ r \notin rejected]
      /\ gen' = [r \in Rules |-> IF r \in rejected THEN 0 ELSE gen[r]]
      /\ refs' = [r \in Rules |-> IF r \in drained THEN body[r].refs ELSE refs[r]]
      /\ lastGen' = lastGen /\ latchGen' = latchGen
  BY Zenon DEF Register
<1>3. /\ health' = [r \in Rules |-> IF r \in lost THEN "reference"
                                    ELSE IF r \in again THEN "healthy" ELSE health[r]]
      /\ plan' = [r \in Rules |->
                    IF KeepsPlan(r, again, lost) THEN plan[r]
                    ELSE IF Fits(r) THEN PlanOf(ds, ow, ps, body[r]) ELSE NoPlan]
  BY Zenon DEF Register
<1>4. /\ admitting' = admitting \cup {c} /\ Remember
      /\ UNCHANGED <<ledger, owed, phase, due, reissue, toSend, landed, running, alerted,
                     held, losses, overlooked>>
  BY Zenon DEF Register, loopVars
<1>5. /\ ds \in [Collectors -> Descriptors \cup {NoDesc}]
      /\ ow \in [Tables -> Collectors \cup {NoOne}]
      /\ ps \subseteq Collectors \X Columns
      /\ \A t \in Tables : ReservedFor[t] # NoOne => ow[t] \in {NoOne, ReservedFor[t]}
  BY <1>1, CatalogWith, Zenon
<1>6. \A b \in Bodies : Plannable(ds, ow, b) =>
        /\ PlanOf(ds, ow, ps, b) \in Plan /\ PlanOf(ds, ow, ps, b).body = b
        /\ \A k \in b.refs : /\ Resolves(ds, ow, k)
                             /\ ow[k.table] = PlanOf(ds, ow, ps, b).col
  <2> HIDE DEF ds, ow, ps
  <2> SUFFICES ASSUME NEW b \in Bodies, Plannable(ds, ow, b)
               PROVE  /\ PlanOf(ds, ow, ps, b) \in Plan /\ PlanOf(ds, ow, ps, b).body = b
                      /\ \A k \in b.refs : /\ Resolves(ds, ow, k)
                                           /\ ow[k.table] = PlanOf(ds, ow, ps, b).col
    BY Zenon
  <2> QED
    BY <1>5, PlanIsAddressed
\* What the sets mean, in the terms of the invariant.
<1>7. /\ again \subseteq Rules /\ rejected \subseteq Rules
      /\ \A r \in again : body[r] \in Bodies /\ health[r] # "latched" /\ r \notin rejected
      /\ \A r \in again : r \in drained \/ health[r] # "untracked"
      /\ \A r \in drained : gen[r] # 0
      /\ \A r \in rejected : health[r] = "untracked" /\ plan[r] = NoPlan /\ r \notin again
      /\ drained \subseteq again
      /\ \A r \in lost : r \in again /\ ~Fits(r)
      /\ \A r \in deferred : r \in drained \/ r \in rejected
      /\ \A r \in Rules : health[r] # "untracked" => r \notin deferred
  <2>1. RulesAgree /\ deferred \subseteq Rules
    BY Zenon DEF EngineInv, TypeOK
  <2> QED
    BY ONLY <2>1, Zenon DEF RulesAgree, Revalidates, Plannable
\* A plan that is kept is of columns that the registration does not touch.
<1>8. \A r \in Rules : plan[r] # NoPlan /\ r \notin again =>
        \A k \in plan[r].body.refs : Resolves(ds, ow, k) /\ ow[k.table] = plan[r].col
  <2>1. \A r \in Rules : r \notin again /\ health[r] \notin {"untracked", "latched"} =>
          TablesOf(refs[r]) \cap touched = {}
    BY Zenon DEF Revalidates
  <2> HIDE DEF again
  <2> SUFFICES ASSUME NEW r \in Rules, plan[r] # NoPlan, r \notin again,
                      NEW k \in plan[r].body.refs
               PROVE  Resolves(ds, ow, k) /\ ow[k.table] = plan[r].col
    BY Zenon
  <2>2. /\ health[r] # "untracked" /\ plan[r].body = body[r] /\ body[r] \in Bodies
        /\ refs[r] = body[r].refs
    BY Zenon DEF EngineInv, RulesAgree
  <2>3. health[r] # "latched"
    BY Zenon DEF EngineInv, LatchStands
  <2>4. k \in Columns /\ k.table \notin touched
    BY <2>1, <2>2, <2>3, RuleAssumption DEF TablesOf
  <2>5. Resolves(desc, owner, k) /\ owner[k.table] = plan[r].col
    BY Zenon DEF EngineInv, PlanResolves
  <2> QED
    BY <1>1, <2>4, <2>5, ResolvesAsBefore, Zenon
<1>9. \A r \in drained : body[r].refs \subseteq Columns
  BY ONLY <1>7, RuleAssumption, Zenon
<1>10. ds[c] # NoDesc
  <2>1. desc \in [Collectors -> Descriptors \cup {NoDesc}]
    BY Zenon DEF EngineInv, TypeOK
  <2> QED
    BY ONLY <2>1, AbsentAssumption, c \in Collectors, d \in Descriptors, Zenon
<1>11. \A r \in Rules : KeepsPlan(r, again, lost) <=>
                         r \notin again \/ (r \in lost /\ health[r] \in Causes)
  BY Zenon DEF KeepsPlan
<1> HIDE DEF first, ds, ow, ps, touched, rejected, drained, tracked, again, lost
\* The new plans: those of rules planned again are of what fits.
<1>12. \A r \in Rules : r \notin again => plan'[r] = plan[r]
  BY ONLY <1>3, <1>11, Zenon
<1>13. \A r \in again : plan'[r] # NoPlan =>
         r \notin lost /\ Plannable(ds, ow, body[r]) /\ plan'[r] = PlanOf(ds, ow, ps, body[r])
  <2>1. \A r \in Rules : health[r] \in Causes => plan[r] = NoPlan
    BY Zenon DEF EngineInv, NoPlanWhileUnhealthy
  <2> QED
    BY ONLY <1>3, <1>7, <1>11, <2>1, Zenon DEF Fits
<1>14. \A r \in Rules : /\ r \notin again => health'[r] = health[r]
                        /\ r \in again => health'[r] \in {"reference", "healthy"}
                        /\ r \in again /\ r \notin lost => health'[r] = "healthy"
  BY ONLY <1>3, <1>7, Zenon
<1> HIDE DEF Fits
<1>0. /\ CatalogTyped /\ RulesTyped /\ TasksTyped /\ LoopTyped /\ CountsTyped
      /\ RulesAgree /\ DeferredEarly /\ EvaluatedLate /\ Issuing /\ ReservedKept
      /\ LatchStands /\ NoPlanWhileUnhealthy /\ PlanResolves /\ TypeOK
      /\ c \in Collectors /\ d \in Descriptors
  BY TypeParts, Zenon DEF EngineInv
<1>15. CatalogTyped' /\ TasksTyped' /\ LoopTyped'
  BY ONLY <1>0, <1>1, <1>4, <1>5, Zenon DEF CatalogTyped, TasksTyped, LoopTyped
<1>16. RulesTyped'
  <2>1. plan' \in [Rules -> Plan \cup {NoPlan}]
    <3>1. \A r \in Rules : plan'[r] \in Plan \cup {NoPlan}
      <4> SUFFICES ASSUME NEW r \in Rules, plan'[r] # NoPlan PROVE plan'[r] \in Plan
        BY Zenon
      <4>1. CASE r \in again
        <5>1. /\ body[r] \in Bodies /\ Plannable(ds, ow, body[r])
              /\ plan'[r] = PlanOf(ds, ow, ps, body[r])
          BY ONLY <1>7, <1>13, <4>1, plan'[r] # NoPlan, Zenon
        <5> QED
          BY ONLY <1>6, <5>1, Zenon
      <4>2. CASE r \notin again
        <5>1. plan \in [Rules -> Plan \cup {NoPlan}]
          BY ONLY <1>0, Zenon DEF RulesTyped
        <5> QED
          BY ONLY <1>12, <4>2, <5>1, r \in Rules, plan'[r] # NoPlan, Zenon
      <4> QED
        BY ONLY <4>1, <4>2, Zenon
    <3>2. plan' = [r \in Rules |-> plan'[r]]
      BY ONLY <1>3, Zenon
    <3> QED
      BY ONLY <3>1, <3>2, ZenonT(30)
  <2>2. health' \in [Rules -> Causes \cup {"untracked", "healthy"}]
    BY ONLY <1>0, <1>3, Zenon DEF RulesTyped, Causes
  <2> QED
    BY ONLY <1>0, <1>2, <1>7, <1>9, <2>1, <2>2, BoundsAssumption DEF RulesTyped
<1>17. CountsTyped'
  BY ONLY <1>0, <1>4, Remembered, Zenon DEF CountsTyped
<1>18. RulesAgree'
  <2> SUFFICES ASSUME NEW r \in Rules
               PROVE  /\ health'[r] # "untracked" =>
                           body'[r] \in Bodies /\ refs'[r] = body'[r].refs /\ gen'[r] # 0
                      /\ gen'[r] # 0 => health'[r] # "untracked"
                      /\ plan'[r] # NoPlan =>
                           health'[r] # "untracked" /\ plan'[r].body = body'[r]
    BY <1>2, ZenonT(30) DEF RulesAgree
  <2>1. CASE r \in rejected
    <3>1. plan'[r] = NoPlan /\ health'[r] = "untracked" /\ r \notin again
      BY ONLY <1>7, <1>12, <1>14, <2>1, r \in Rules, Zenon
    <3>2. gen'[r] = 0
      BY ONLY <1>2, <2>1, r \in Rules, Zenon
    <3> QED
      BY ONLY <3>1, <3>2, Zenon
  <2>2. CASE r \in again
    <3>1. gen[r] # 0 /\ body'[r] = body[r] /\ gen'[r] = gen[r] /\ refs'[r] = body[r].refs
      BY ONLY <1>0, <1>2, <1>7, <2>2, r \in Rules, Zenon DEF RulesAgree
    <3>2. plan'[r] # NoPlan => plan'[r].body = body[r]
      BY ONLY <1>6, <1>7, <1>13, <2>2, r \in Rules, Zenon
    <3> QED
      BY ONLY <1>7, <1>14, <2>2, <3>1, <3>2, r \in Rules, Zenon
  <2>3. CASE r \notin rejected /\ r \notin again
    BY ONLY <1>0, <1>2, <1>7, <1>12, <1>14, <2>3, r \in Rules, ZenonT(30) DEF RulesAgree
  <2> QED
    BY ONLY <2>1, <2>2, <2>3, Zenon
<1>19. DeferredEarly' /\ EvaluatedLate'
  BY ONLY <1>0, <1>1, <1>2, <1>10, Zenon DEF DeferredEarly, EvaluatedLate
<1>20. Issuing' /\ ReservedKept'
  <2>1. lastGen' = lastGen /\ \A r \in Rules : gen'[r] = 0 \/ gen'[r] = gen[r]
    BY ONLY <1>2, Zenon
  <2>2. lastGen \in Nat
    BY ONLY <1>0, BoundsAssumption DEF RulesTyped
  <2>3. Issuing'
    BY ONLY <1>0, <2>1, <2>2 DEF Issuing
  <2> QED
    BY ONLY <1>1, <1>5, <2>3, Zenon DEF ReservedKept
<1>21. LatchStands'
  <2>1. \A r \in Rules : health'[r] = "latched" => health[r] = "latched" /\ r \notin rejected /\ r \notin again
    BY ONLY <1>7, <1>14, SMTT(40)
  <2> QED
    BY ONLY <1>0, <1>2, <1>12, <2>1, Zenon DEF LatchStands
<1>22. NoPlanWhileUnhealthy'
  BY ONLY <1>0, <1>7, <1>12, <1>13, <1>14, ZenonT(30) DEF NoPlanWhileUnhealthy, Causes
<1>23. PlanResolves'
  <2>1. \A r \in Rules : plan'[r] # NoPlan =>
          \A k \in plan'[r].body.refs : Resolves(ds, ow, k) /\ ow[k.table] = plan'[r].col
    <3> SUFFICES ASSUME NEW r \in Rules, plan'[r] # NoPlan
                 PROVE  \A k \in plan'[r].body.refs :
                          Resolves(ds, ow, k) /\ ow[k.table] = plan'[r].col
      BY Zenon
    <3>1. CASE r \in again
      <4>1. body[r] \in Bodies
        BY ONLY <1>7, <3>1, Zenon
      <4>2. Plannable(ds, ow, body[r]) /\ plan'[r] = PlanOf(ds, ow, ps, body[r])
        BY ONLY <1>13, <3>1, plan'[r] # NoPlan, Zenon
      <4>3. /\ PlanOf(ds, ow, ps, body[r]).body = body[r]
            /\ \A k \in body[r].refs : /\ Resolves(ds, ow, k)
                                     /\ ow[k.table] = PlanOf(ds, ow, ps, body[r]).col
        BY ONLY <1>6, <4>1, <4>2, ZenonT(30)
      <4> QED
        BY ONLY <4>2, <4>3, Zenon
    <3>2. CASE r \notin again
      BY ONLY <1>8, <1>12, <3>2, plan'[r] # NoPlan, r \in Rules, Zenon
    <3> QED
      BY <3>1, <3>2, Zenon
  <2> QED
    BY ONLY <1>1, <2>1, Zenon DEF PlanResolves
<1> QED
  BY ONLY <1>15, <1>16, <1>17, <1>18, <1>19, <1>20, <1>21, <1>22, <1>23, TypeParts, Zenon
     DEF EngineInv
===============================================================================
