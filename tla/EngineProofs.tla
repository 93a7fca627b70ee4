----------------------------- MODULE EngineProofs -----------------------------
(***************************************************************************)
(* Proofs about Engine, for any rules, collectors, tables, descriptors and *)
(* lifetimes:                                                              *)
(*   - every plan resolves at the collector it is addressed to;            *)
(*   - an unhealthy rule has no plan, a latched one is off;                *)
(*   - only a reload or a removal clears a latch;                          *)
(*   - an alert is of the load in place;                                   *)
(*   - a rule that is off stops everywhere within one TTL;                 *)
(*   - what is renewed is the current plan;                                *)
(*   - two lost sends expire no task.                                      *)
(***************************************************************************)
EXTENDS EngineInvariant

-----------------------------------------------------------------------------
(* Every step keeps the invariant.                                         *)

LEMMA EngineStep ==
  ASSUME EngineInv, [Next]_vars
  PROVE  EngineInv'
<1>1. ASSUME NEW r \in Rules, NEW b \in Bodies, NEW on \in BOOLEAN, LoadRule(r, b, on)
      PROVE  EngineInv'
  BY <1>1, LoadRuleKeeps, Zenon
<1>2. ASSUME NEW r \in Rules, RemoveRule(r) PROVE EngineInv'
  BY <1>2, RemoveRuleKeeps, Zenon
<1>3. ASSUME NEW r \in Rules, NEW on \in BOOLEAN, SetRuleEnabled(r, on) PROVE EngineInv'
  BY <1>3, SetRuleEnabledKeeps, Zenon
<1>4. ASSUME NEW c \in Collectors, NEW d \in Descriptors, Register(c, d) PROVE EngineInv'
  BY <1>4, RegisterKeeps, Zenon
<1>5. CASE RenewalCycle
  BY <1>5, RenewalCycleKeeps, Zenon
<1>6. ASSUME NEW slow \in SUBSET Rules, ApplyOutcome(slow) PROVE EngineInv'
  BY <1>6, ApplyOutcomeKeeps, Zenon
<1>7. ASSUME NEW c \in Collectors, OweTasks(c) PROVE EngineInv'
  <2>1. TypeOK' /\ UNCHANGED <<catalogVars, ruleVars>>
    BY <1>7, OweTasksTyped, Zenon DEF EngineInv, OweTasks
  <2>2. EvaluatedLate'
    BY <1>7, Zenon DEF EngineInv, EvaluatedLate, OweTasks, catalogVars, loopVars
  <2> QED
    BY <2>1, <2>2, RulesUntouched, Zenon
<1>8. ASSUME NEW c \in Collectors, CollectorRestart(c) PROVE EngineInv'
  <2>1. TypeOK' /\ UNCHANGED <<catalogVars, ruleVars>>
    BY <1>8, CollectorRestartTyped, Zenon DEF EngineInv, CollectorRestart
  <2>2. EvaluatedLate'
    BY <1>8, Zenon DEF EngineInv, EvaluatedLate, CollectorRestart, catalogVars, loopVars
  <2> QED
    BY <2>1, <2>2, RulesUntouched, Zenon
<1>9. CASE StartRenewal
  <2>1. TypeOK' /\ UNCHANGED <<catalogVars, ruleVars>>
    BY <1>9, StartRenewalTyped, Zenon DEF EngineInv, StartRenewal
  <2>2. EvaluatedLate'
    BY <1>9, Zenon DEF EngineInv, EvaluatedLate, StartRenewal, catalogVars
  <2> QED
    BY <2>1, <2>2, RulesUntouched, Zenon
<1>10. CASE RecordRenewals
  <2>1. TypeOK' /\ UNCHANGED <<catalogVars, ruleVars>>
    BY <1>10, RecordRenewalsTyped, Zenon DEF EngineInv, RecordRenewals
  <2>2. EvaluatedLate'
    BY <1>10, Zenon DEF EngineInv, EvaluatedLate, RecordRenewals, catalogVars
  <2> QED
    BY <2>1, <2>2, RulesUntouched, Zenon
<1>11. ASSUME NEW c \in Collectors, ReissueTo(c) PROVE EngineInv'
  <2>1. TypeOK' /\ UNCHANGED <<catalogVars, ruleVars>>
    BY <1>11, ReissueToTyped, Zenon DEF EngineInv, ReissueTo
  <2>2. EvaluatedLate'
    BY <1>11, Zenon DEF EngineInv, EvaluatedLate, ReissueTo, catalogVars
  <2> QED
    BY <2>1, <2>2, RulesUntouched, Zenon
<1>12. ASSUME NEW k \in Rules \X Collectors, Send(k) PROVE EngineInv'
  <2>1. TypeOK' /\ UNCHANGED <<catalogVars, ruleVars>>
    BY <1>12, SendTyped, Zenon DEF EngineInv, Send
  <2>2. EvaluatedLate'
    BY <1>12, Zenon DEF EngineInv, EvaluatedLate, Send, catalogVars
  <2> QED
    BY <2>1, <2>2, RulesUntouched, Zenon
<1>13. CASE StartEvaluation
  <2>1. TypeOK' /\ UNCHANGED <<catalogVars, ruleVars>>
    BY <1>13, StartEvaluationTyped, Zenon DEF EngineInv, StartEvaluation
  <2>2. \E r \in Rules : plan[r] # NoPlan
    BY <1>13, Zenon DEF StartEvaluation, Eligible
  <2>3. \E c \in Collectors : desc[c] # NoDesc
    BY <2>2, NoPlansYet, Zenon
  <2>4. EvaluatedLate'
    BY <2>1, <2>3, Zenon DEF EvaluatedLate, catalogVars
  <2> QED
    BY <2>1, <2>4, RulesUntouched, Zenon
<1>14. CASE Tick
  <2>1. TypeOK' /\ UNCHANGED <<catalogVars, ruleVars>>
    BY <1>14, TickTyped, Zenon DEF EngineInv, Tick
  <2>2. EvaluatedLate'
    BY <1>14, Zenon DEF EngineInv, EvaluatedLate, Tick, catalogVars
  <2> QED
    BY <2>1, <2>2, RulesUntouched, Zenon
<1>15. CASE UNCHANGED vars
  <2> USE <1>15 DEF vars, catalogVars, ruleVars, admissionVars, loopVars
  <2>1. TypeOK'
    BY Zenon DEF EngineInv, TypeOK
  <2>2. EvaluatedLate'
    BY Zenon DEF EngineInv, EvaluatedLate
  <2> QED
    BY <2>1, <2>2, RulesUntouched, Zenon
<1> QED
  BY <1>1, <1>2, <1>3, <1>4, <1>5, <1>6, <1>7, <1>8, <1>9, <1>10, <1>11, <1>12, <1>13, <1>14,
     <1>15, Zenon DEF Next

\* A latched rule is off, without a plan, and was latched by a measurement of
\* the load in place (observe_pattern_latency), for any number of rules, loads,
\* registrations and expiries.
THEOREM LatchHolds == Spec => []LatchStands
<1>1. Init => EngineInv
  BY EngineInit, Zenon
<1>2. EngineInv /\ [Next]_vars => EngineInv'
  BY EngineStep, Zenon
<1>3. EngineInv => LatchStands
  BY Zenon DEF EngineInv
<1> QED
  BY <1>1, <1>2, <1>3, PTL DEF Spec

\* A rule whose health names a cause has no plan (register_collector,
\* renewal_cycle, apply_outcome).
THEOREM UnhealthyUnplanned == Spec => []NoPlanWhileUnhealthy
<1>1. Init => EngineInv
  BY EngineInit, Zenon
<1>2. EngineInv /\ [Next]_vars => EngineInv'
  BY EngineStep, Zenon
<1>3. EngineInv => NoPlanWhileUnhealthy
  BY Zenon DEF EngineInv
<1> QED
  BY <1>1, <1>2, <1>3, PTL DEF Spec

\* Every plan is addressed to the collector that owns the rule's table, over
\* columns that collector declares, whoever registers what in which order
\* (register_collector re-plans what a registration touches).
THEOREM PlansAddressed == Spec => []PlanResolves
<1>1. Init => EngineInv
  BY EngineInit, Zenon
<1>2. EngineInv /\ [Next]_vars => EngineInv'
  BY EngineStep, Zenon
<1>3. EngineInv => PlanResolves
  BY SMTT(20) DEF EngineInv
<1> QED
  BY <1>1, <1>2, <1>3, PTL DEF Spec

-----------------------------------------------------------------------------
(* Action properties.                                                      *)

LEMMA LatchStep ==
  ASSUME EngineInv, [Next]_vars, NEW r \in Rules,
         health[r] = "latched", health'[r] # "latched"
  PROVE  gen'[r] # gen[r]
<1>1. RulesTyped
  BY TypeParts, Zenon DEF EngineInv
<1>2. gen[r] # 0 /\ gen[r] <= lastGen /\ r \notin deferred
  BY Zenon DEF EngineInv, RulesAgree, Issuing
<1>3. ASSUME NEW s \in Rules, NEW b \in Bodies, NEW on \in BOOLEAN, LoadRule(s, b, on)
      PROVE  gen'[r] # gen[r]
  <2>1. \/ health' = [health EXCEPT ![s] = "untracked"]
        \/ health' = [health EXCEPT ![s] = "healthy"]
    BY <1>3, Zenon DEF LoadRule
  <2>2. r = s
    BY <1>1, <2>1, Zenon DEF RulesTyped
  <2>3. gen' = [gen EXCEPT ![s] = lastGen + 1]
    BY <1>3, Zenon DEF LoadRule
  <2> QED
    BY <1>1, <1>2, <2>2, <2>3, BoundsAssumption DEF RulesTyped
<1>4. ASSUME NEW s \in Rules, RemoveRule(s) PROVE gen'[r] # gen[r]
  BY <1>1, <1>2, <1>4, Zenon DEF RemoveRule, RulesTyped
<1>5. ASSUME NEW c \in Collectors, NEW d \in Descriptors, Register(c, d)
      PROVE  gen'[r] # gen[r]
  BY <1>2, <1>5, ZenonT(30) DEF Register, Revalidates
<1>6. CASE RenewalCycle
  BY <1>6, Zenon DEF RenewalCycle
<1>7. ASSUME NEW slow \in SUBSET Rules, ApplyOutcome(slow) PROVE gen'[r] # gen[r]
  BY <1>7, Zenon DEF ApplyOutcome
<1>8. health' # health
  BY Zenon
<1> QED
  BY <1>3, <1>4, <1>5, <1>6, <1>7, <1>8, Zenon
     DEF Next, vars, ruleVars, SetRuleEnabled, OweTasks, CollectorRestart, StartRenewal,
         RecordRenewals, ReissueTo, Send, StartEvaluation, Tick

LEMMA AlertStep ==
  ASSUME EngineInv, [Next]_vars, NEW r \in Rules,
         alerted'[r] # alerted[r], alerted'[r] # 0
  PROVE  gen'[r] = alerted'[r] /\ Eligible(r)'
<1>1. ASSUME NEW slow \in SUBSET Rules, ApplyOutcome(slow)
      PROVE  gen'[r] = alerted'[r] /\ Eligible(r)'
  <2> DEFINE breached == {s \in slow : Measured(s)}
  <2>1. /\ enabled' = [s \in Rules |-> enabled[s] /\ s \notin breached]
        /\ plan' = [s \in Rules |-> IF s \in breached THEN NoPlan ELSE plan[s]]
        /\ health' = [s \in Rules |-> IF s \in breached THEN "latched" ELSE health[s]]
        /\ alerted' = [s \in Rules |->
                         IF IsRunnable(s, running[s]) /\ s \notin breached THEN running[s] ELSE 0]
        /\ UNCHANGED <<body, gen>>
    BY <1>1, Zenon DEF ApplyOutcome
  <2> HIDE DEF breached
  <2>2. IsRunnable(r, running[r]) /\ r \notin breached /\ alerted'[r] = running[r]
    BY <2>1, Zenon
  <2> QED
    BY <2>1, <2>2, Zenon DEF IsRunnable, Eligible
<1>2. CASE StartRenewal
  BY <1>2, Zenon DEF StartRenewal
<1>3. CASE StartEvaluation
  BY <1>3, Zenon DEF StartEvaluation
<1>4. alerted' # alerted
  BY Zenon
<1>5. ASSUME NEW s \in Rules, NEW b \in Bodies, NEW on \in BOOLEAN, LoadRule(s, b, on)
      PROVE  FALSE
  <2>1. UNCHANGED loopVars
    BY <1>5, Zenon DEF LoadRule
  <2> QED
    BY <1>4, <2>1, Zenon DEF loopVars
<1>6. \A s \in Rules : ~RemoveRule(s) /\ \A on \in BOOLEAN : ~SetRuleEnabled(s, on)
  BY <1>4, Zenon DEF RemoveRule, SetRuleEnabled, loopVars
<1>7. ASSUME NEW c \in Collectors, NEW d \in Descriptors, Register(c, d) PROVE FALSE
  <2>1. UNCHANGED loopVars
    BY <1>7, Zenon DEF Register
  <2> QED
    BY <1>4, <2>1, Zenon DEF loopVars
<1>8. \A c \in Collectors : ~OweTasks(c) /\ ~CollectorRestart(c) /\ ~ReissueTo(c)
  BY <1>4, Zenon DEF OweTasks, CollectorRestart, ReissueTo, loopVars
<1>9. ~RenewalCycle /\ ~RecordRenewals /\ ~Tick
  BY <1>4, Zenon DEF RenewalCycle, RecordRenewals, Tick
<1>10. \A k \in Rules \X Collectors : ~Send(k)
  BY <1>4, Zenon DEF Send
<1>11. ~UNCHANGED vars
  BY <1>4, Zenon DEF vars, loopVars
<1> QED
  BY <1>1, <1>2, <1>3, <1>5, <1>6, <1>7, <1>8, <1>9, <1>10, <1>11, Zenon DEF Next

\* Only a reload or a removal takes a latch away: no registration, re-plan or
\* expiry does (revalidate and mark_expired skip latched rules).
THEOREM LatchCleared == Spec => LatchClearedByReload
<1>1. Init => EngineInv
  BY EngineInit, Zenon
<1>2. EngineInv /\ [Next]_vars => EngineInv'
  BY EngineStep, Zenon
<1>3. EngineInv /\ [Next]_vars =>
        [\A r \in Rules : health[r] = "latched" /\ health'[r] # "latched" => gen'[r] # gen[r]]_vars
  BY LatchStep, Zenon
<1> QED
  BY <1>1, <1>2, <1>3, PTL DEF Spec, LatchClearedByReload

\* What a cycle alerts on is the load in place, and it is still eligible when
\* the outcome is applied (apply_outcome).
THEOREM AlertsCurrent == Spec => AlertsStand
<1>1. Init => EngineInv
  BY EngineInit, Zenon
<1>2. EngineInv /\ [Next]_vars => EngineInv'
  BY EngineStep, Zenon
<1>3. EngineInv /\ [Next]_vars =>
        [\A r \in Rules : alerted'[r] # alerted[r] /\ alerted'[r] # 0 =>
           gen'[r] = alerted'[r] /\ Eligible(r)']_vars
  BY AlertStep, Zenon
<1> QED
  BY <1>1, <1>2, <1>3, PTL DEF Spec, AlertsStand

-----------------------------------------------------------------------------
(* The pushed half fails closed.                                           *)

\* Steps that touch neither what collectors hold nor what is to be sent: a rule
\* that stops being covered was covered in the step before.
LEMMA NothingSent ==
  ASSUME TypeOK, ClosingInv, Remember, UNCHANGED <<held, toSend>>,
         phase' \in {"idle", "evaluate"} => phase \in {"idle", "evaluate"} \/ NothingToSend
  PROVE  ClosingInv'
<1>1. \A r \in Rules : idle'[r] = IF Eligible(r) THEN 0 ELSE idle[r]
  BY Remembered, Zenon
<1>2. \A k \in Rules \X Collectors : held[k] # NoTask => held[k].age \in 0 .. Ttl
  BY Zenon DEF TypeOK, Task
<1>3. FailsClosed'
  BY ONLY <1>1, <1>2, TtlAssumption, ClosingInv, UNCHANGED held DEF ClosingInv, FailsClosed
<1>4. InFlight'
  BY <1>1, Zenon DEF ClosingInv, InFlight, NothingToSend
<1> QED
  BY <1>3, <1>4, Zenon DEF ClosingInv

LEMMA ReissueToCloses ==
  ASSUME TypeOK, ClosingInv, NEW c \in Collectors, ReissueTo(c)
  PROVE  ClosingInv'
<1>1. \A r \in Rules : idle'[r] = IF Eligible(r) THEN 0 ELSE idle[r]
  <2>1. Remember
    BY Zenon DEF ReissueTo
  <2> QED
    BY ONLY <2>1, TypeOK, Remembered, Zenon
<1>2. \A k \in Rules \X Collectors : held[k] # NoTask => held[k].age \in 0 .. Ttl
  BY Zenon DEF TypeOK, Task
<1>3. held' = held /\ phase' = "reissue"
  BY Zenon DEF ReissueTo
<1>4. \A k \in Rules \X Collectors : toSend'[k] # NoPlan => Eligible(k[1])
  BY Zenon DEF ReissueTo, TypeOK
<1>5. FailsClosed'
  BY ONLY <1>1, <1>2, <1>3, TtlAssumption, ClosingInv DEF ClosingInv, FailsClosed
<1>6. InFlight'
  BY ONLY <1>1, <1>3, <1>4 DEF InFlight
<1> QED
  BY ONLY <1>5, <1>6, Zenon DEF ClosingInv

LEMMA RenewalCycleCloses ==
  ASSUME EngineInv, ClosingInv, RenewalCycle
  PROVE  ClosingInv'
<1>1. \A r \in Rules : idle'[r] = IF Eligible(r) THEN 0 ELSE idle[r]
  <2>1. Remember /\ TypeOK
    BY Zenon DEF RenewalCycle, EngineInv
  <2> QED
    BY ONLY <2>1, Remembered, Zenon
<1>2. \A k \in Rules \X Collectors : held[k] # NoTask => held[k].age \in 0 .. Ttl
  <2>1. held \in [Rules \X Collectors -> Task \cup {NoTask}]
    BY Zenon DEF EngineInv, TypeOK
  <2> QED
    BY ONLY <2>1, Zenon DEF Task
<1>3. held' = held /\ phase' = "send"
  BY Zenon DEF RenewalCycle
<1>4. \A k \in Rules \X Collectors : toSend'[k] # NoPlan => Eligible(k[1])
  BY RenewalCycleSends, Zenon
<1>5. FailsClosed'
  BY ONLY <1>1, <1>2, <1>3, TtlAssumption, ClosingInv DEF ClosingInv, FailsClosed
<1>6. InFlight'
  BY ONLY <1>1, <1>3, <1>4 DEF InFlight
<1> QED
  BY ONLY <1>5, <1>6, Zenon DEF ClosingInv

LEMMA SendCloses ==
  ASSUME TypeOK, ClosingInv, NEW k \in Rules \X Collectors, Send(k)
  PROVE  ClosingInv'
<1>1. \A r \in Rules : idle'[r] = IF Eligible(r) THEN 0 ELSE idle[r]
  <2>1. Remember
    BY Zenon DEF Send
  <2> QED
    BY ONLY <2>1, TypeOK, Remembered, Zenon
<1>2. \A j \in Rules \X Collectors : held[j] # NoTask => held[j].age \in 0 .. Ttl
  BY Zenon DEF TypeOK, Task
<1>3. PICK r \in Rules, c \in Collectors : k = <<r, c>>
  OBVIOUS
<1>4. Eligible(r) \/ idle[r] = 0
  BY <1>3, Zenon DEF Send, ClosingInv, InFlight
<1>5. /\ toSend' = [toSend EXCEPT ![k] = NoPlan] /\ phase' = phase
      /\ held' = held \/ held' = [held EXCEPT ![k] = Issued(toSend[k])]
      /\ Eligible(r)' <=> Eligible(r)
  BY Zenon DEF Send, Eligible, ruleVars
<1>6. Issued(toSend[k]).age = 0
  BY Zenon DEF Issued
<1>7. \A s \in Rules : Eligible(s)' <=> Eligible(s)
  BY Zenon DEF Send, Eligible, ruleVars
<1>8. FailsClosed'
  <2> SUFFICES ASSUME NEW s \in Rules, NEW e \in Collectors, held'[<<s, e>>] # NoTask
               PROVE  Eligible(s)' \/ idle'[s] <= held'[<<s, e>>].age
    BY Zenon DEF FailsClosed
  <2>1. CASE held'[<<s, e>>] = held[<<s, e>>]
    BY <1>1, <1>2, <2>1, TtlAssumption DEF ClosingInv, FailsClosed
  <2>2. CASE held'[<<s, e>>] # held[<<s, e>>]
    <3>1. <<s, e>> = k /\ held'[k] = Issued(toSend[k])
      BY <1>5, <2>2, Zenon DEF TypeOK
    <3>2. s = r
      BY <1>3, <3>1
    <3> QED
      BY <1>1, <1>4, <1>6, <3>1, <3>2
  <2> QED
    BY <2>1, <2>2, Zenon
<1>9. InFlight'
  <2>1. \A j \in Rules \X Collectors : toSend'[j] # NoPlan => toSend[j] # NoPlan
    BY <1>5, Zenon DEF TypeOK
  <2>2. phase \notin {"idle", "evaluate"}
    BY <1>3, Zenon DEF ClosingInv, InFlight, NothingToSend, Send, TypeOK
  <2> QED
    BY <1>1, <1>5, <1>7, <2>1, <2>2, Zenon DEF ClosingInv, InFlight
<1> QED
  BY <1>8, <1>9, Zenon DEF ClosingInv

LEMMA TickCloses ==
  ASSUME TypeOK, ClosingInv, Tick
  PROVE  ClosingInv'
<1>1. \A r \in Rules : Eligible(r)' <=> Eligible(r)
  BY Zenon DEF Tick, Eligible, ruleVars
<1>2. /\ \A k \in Rules \X Collectors : held[k] \in Task \cup {NoTask} /\ held'[k] = Lapses(held[k])
      /\ \A k \in Rules \X Collectors : held[k] # NoTask => held[k].age \in 0 .. Ttl
  BY Zenon DEF Tick, TypeOK, Task
<1>3. \A r \in Rules : idle[r] \in 0 .. Ttl /\ idle'[r] = IF Eligible(r) THEN 0
                         ELSE IF idle[r] < Ttl THEN idle[r] + 1 ELSE Ttl
  BY Zenon DEF Tick, TypeOK
<1>4. FailsClosed'
  <2> SUFFICES ASSUME NEW r \in Rules, NEW c \in Collectors, held'[<<r, c>>] # NoTask, ~Eligible(r)
               PROVE  idle'[r] <= held'[<<r, c>>].age
    BY <1>1, Zenon DEF FailsClosed
  <2>1. /\ held[<<r, c>>] # NoTask /\ held[<<r, c>>].age + 1 < Ttl
        /\ held'[<<r, c>>].age = held[<<r, c>>].age + 1
    BY <1>2, Ageing, Zenon
  <2>2. idle[r] <= held[<<r, c>>].age
    BY <2>1, Zenon DEF ClosingInv, FailsClosed
  <2> QED
    BY <1>2, <1>3, <2>1, <2>2, TtlAssumption
<1>5. InFlight'
  <2>1. /\ phase = "idle" /\ toSend' = toSend
        /\ toSend \in [Rules \X Collectors -> Plan \cup {NoPlan}]
    BY Zenon DEF Tick, TypeOK
  <2> QED
    BY ONLY <2>1, ClosingInv, Zenon DEF ClosingInv, InFlight, NothingToSend
<1> QED
  BY ONLY <1>4, <1>5, Zenon DEF ClosingInv

LEMMA CollectorRestartCloses ==
  ASSUME TypeOK, ClosingInv, NEW c \in Collectors, CollectorRestart(c)
  PROVE  ClosingInv'
<1>1. \A r \in Rules : idle'[r] = IF Eligible(r) THEN 0 ELSE idle[r]
  <2>1. Remember
    BY Zenon DEF CollectorRestart
  <2> QED
    BY ONLY <2>1, TypeOK, Remembered, Zenon
<1>2. \A k \in Rules \X Collectors : held'[k] # NoTask => held'[k] = held[k] /\ held[k].age \in 0 .. Ttl
  <2>1. /\ held \in [Rules \X Collectors -> Task \cup {NoTask}]
        /\ held' = [k \in DOMAIN held |-> IF k[2] = c THEN NoTask ELSE held[k]]
    BY Zenon DEF CollectorRestart, TypeOK
  <2> QED
    BY ONLY <2>1, Zenon DEF Task
<1>3. FailsClosed'
  BY ONLY <1>1, <1>2, TtlAssumption, ClosingInv DEF ClosingInv, FailsClosed
<1>4. toSend' = toSend /\ phase' = phase
  BY Zenon DEF CollectorRestart, loopVars
<1>5. InFlight'
  BY ONLY <1>1, <1>4, ClosingInv, Zenon DEF ClosingInv, InFlight, NothingToSend
<1> QED
  BY ONLY <1>3, <1>5, Zenon DEF ClosingInv

LEMMA ClosingStep ==
  ASSUME EngineInv, ClosingInv, [Next]_vars
  PROVE  ClosingInv'
<1> USE DEF loopVars
<1>1. TypeOK
  BY Zenon DEF EngineInv
<1>2. ASSUME NEW r \in Rules, NEW b \in Bodies, NEW on \in BOOLEAN, LoadRule(r, b, on)
      PROVE  ClosingInv'
  <2>1. Remember /\ UNCHANGED <<held, toSend, phase>>
    BY <1>2, Zenon DEF LoadRule
  <2> QED
    BY <1>1, <2>1, NothingSent, Zenon
<1>3. ASSUME NEW r \in Rules, RemoveRule(r) PROVE ClosingInv'
  <2>1. Remember /\ UNCHANGED <<held, toSend, phase>>
    BY <1>3, Zenon DEF RemoveRule
  <2> QED
    BY <1>1, <2>1, NothingSent, Zenon
<1>4. ASSUME NEW r \in Rules, NEW on \in BOOLEAN, SetRuleEnabled(r, on) PROVE ClosingInv'
  <2>1. Remember /\ UNCHANGED <<held, toSend, phase>>
    BY <1>4, Zenon DEF SetRuleEnabled
  <2> QED
    BY <1>1, <2>1, NothingSent, Zenon
<1>5. ASSUME NEW c \in Collectors, NEW d \in Descriptors, Register(c, d) PROVE ClosingInv'
  <2>1. Remember /\ UNCHANGED <<held, toSend, phase>>
    BY <1>5, Zenon DEF Register
  <2> QED
    BY <1>1, <2>1, NothingSent, Zenon
<1>6. ASSUME NEW c \in Collectors, OweTasks(c) PROVE ClosingInv'
  <2>1. Remember /\ UNCHANGED <<held, toSend, phase>>
    BY <1>6, Zenon DEF OweTasks
  <2> QED
    BY <1>1, <2>1, NothingSent, Zenon
<1>7. CASE StartRenewal
  <2>1. Remember /\ UNCHANGED <<held, toSend>> /\ phase' = "reissue"
    BY <1>7, Zenon DEF StartRenewal
  <2> QED
    BY <1>1, <2>1, NothingSent, Zenon
<1>8. CASE RecordRenewals
  <2>1. Remember /\ UNCHANGED <<held, toSend>> /\ NothingToSend
    BY <1>8, Zenon DEF RecordRenewals
  <2> QED
    BY <1>1, <2>1, NothingSent, Zenon
<1>9. CASE StartEvaluation
  <2>1. Remember /\ UNCHANGED <<held, toSend>> /\ phase = "idle"
    BY <1>9, Zenon DEF StartEvaluation
  <2> QED
    BY <1>1, <2>1, NothingSent, Zenon
<1>10. ASSUME NEW slow \in SUBSET Rules, ApplyOutcome(slow) PROVE ClosingInv'
  <2>1. Remember /\ UNCHANGED <<held, toSend>> /\ phase = "evaluate"
    BY <1>10, Zenon DEF ApplyOutcome
  <2> QED
    BY <1>1, <2>1, NothingSent, Zenon
<1>11. ASSUME NEW c \in Collectors, ReissueTo(c) PROVE ClosingInv'
  BY <1>1, <1>11, ReissueToCloses, Zenon
<1>12. CASE RenewalCycle
  BY <1>12, RenewalCycleCloses, Zenon
<1>13. ASSUME NEW k \in Rules \X Collectors, Send(k) PROVE ClosingInv'
  BY <1>1, <1>13, SendCloses, Zenon
<1>14. CASE Tick
  BY <1>1, <1>14, TickCloses, Zenon
<1>15. ASSUME NEW c \in Collectors, CollectorRestart(c) PROVE ClosingInv'
  BY <1>1, <1>15, CollectorRestartCloses, Zenon
<1>16. CASE UNCHANGED vars
  BY <1>16, Zenon DEF ClosingInv, FailsClosed, InFlight, NothingToSend, Eligible, vars, ruleVars
<1> QED
  BY <1>2, <1>3, <1>4, <1>5, <1>6, <1>7, <1>8, <1>9, <1>10, <1>11, <1>12, <1>13, <1>14, <1>15,
     <1>16, Zenon DEF Next

\* A collector holds a rule's task only if the rule was covered no longer ago
\* than the task was sent: a rule that is switched off, removed or latched stops
\* everywhere within one TTL, for any TTL, any lost sends and any restarts.
THEOREM ClosesWithinTtl == Spec => []FailsClosed
<1>1. Init => EngineInv /\ ClosingInv
  BY EngineInit, Zenon
<1>2. EngineInv /\ ClosingInv /\ [Next]_vars => EngineInv' /\ ClosingInv'
  BY EngineStep, ClosingStep, Zenon
<1>3. ClosingInv => FailsClosed
  BY Zenon DEF ClosingInv
<1> QED
  BY <1>1, <1>2, <1>3, PTL DEF Spec

-----------------------------------------------------------------------------
(* What is renewed is the current plan.                                    *)

\* What a step may do to a task that is there after it: it was there with the
\* same plan, and is still owed a re-issue if it was, or it is issued from the
\* rule's plan; the rule's text stays, and conformance changes only where a
\* registration begins.
TaskMoves(r, c) ==
  /\ body'[r] = body[r] /\ health'[r] # "untracked"
  /\ c \in admitting' \/ \A k \in Columns : <<c, k>> \in passed' <=> <<c, k>> \in passed
  /\ \/ /\ ledger[<<r, c>>] # NoTask /\ ledger'[<<r, c>>].plan = ledger[<<r, c>>].plan
        /\ c \in admitting \cup owed \cup reissue =>
             c \in admitting' \cup owed' \cup reissue' \/ <<r, c>> \in overlooked'
        /\ <<r, c>> \in overlooked => <<r, c>> \in overlooked'
     \/ Eligible(r) /\ plan[r].col = c /\ ledger'[<<r, c>>].plan = plan[r]

\* Steps that leave the tasks, the texts and the catalog alone.
LEMMA TasksLeft ==
  ASSUME TasksOfText, UNCHANGED <<ledger, body, passed, overlooked>>,
         \A r \in Rules : health[r] # "untracked" => health'[r] # "untracked",
         \A c \in Collectors : c \in admitting \cup owed \cup reissue =>
                                 c \in admitting' \cup owed' \cup reissue'
  PROVE  \A r \in Rules, c \in Collectors : ledger'[<<r, c>>] # NoTask => TaskMoves(r, c)
BY Zenon DEF TasksOfText, TaskMoves

LEMMA OperatorMoves ==
  ASSUME EngineInv, TasksOfText, NEW s \in Rules,
         \/ \E b \in Bodies, on \in BOOLEAN : LoadRule(s, b, on)
         \/ RemoveRule(s)
  PROVE  \A r \in Rules, c \in Collectors : ledger'[<<r, c>>] # NoTask => TaskMoves(r, c)
<1>1. /\ ledger' = WithoutTasks(ledger, {s})
      /\ \E b \in Bodies \cup {NoBody} : body' = [body EXCEPT ![s] = b]
      /\ \E h \in {"untracked", "healthy"} : health' = [health EXCEPT ![s] = h]
      /\ UNCHANGED <<passed, admitting, owed, reissue, overlooked>>
  BY Zenon DEF LoadRule, RemoveRule, catalogVars, admissionVars, loopVars
<1>2. /\ body \in [Rules -> Bodies \cup {NoBody}]
      /\ health \in [Rules -> Causes \cup {"untracked", "healthy"}]
      /\ DOMAIN ledger = Rules \X Collectors
  BY Zenon DEF EngineInv, TypeOK
<1> SUFFICES ASSUME NEW r \in Rules, NEW c \in Collectors, ledger'[<<r, c>>] # NoTask
             PROVE  TaskMoves(r, c)
  BY Zenon
<1>3. <<r, c>> \in Rules \X Collectors /\ <<r, c>>[1] = r
  BY Zenon
<1>4. ledger'[<<r, c>>] = IF r = s THEN NoTask ELSE ledger[<<r, c>>]
  BY <1>1, <1>2, <1>3 DEF WithoutTasks
<1>5. r # s /\ ledger'[<<r, c>>] = ledger[<<r, c>>]
  BY <1>4, Zenon
<1>6. body'[r] = body[r] /\ health'[r] = health[r]
  BY <1>1, <1>2, <1>5, Zenon
<1> QED
  BY <1>1, <1>5, <1>6, Zenon DEF TaskMoves, TasksOfText

LEMMA RegisterMoves ==
  ASSUME EngineInv, TasksOfText, NEW e \in Collectors, NEW d \in Descriptors, Register(e, d)
  PROVE  \A r \in Rules, c \in Collectors : ledger'[<<r, c>>] # NoTask => TaskMoves(r, c)
<1> DEFINE rejected == {r \in deferred : ~Plannable([desc EXCEPT ![e] = d], OwnersWith(e, d), body[r])}
<1>1. /\ body' = [r \in Rules |-> IF r \in rejected THEN NoBody ELSE body[r]]
      /\ passed' = PassedWith(e, d, OwnersWith(e, d))
      /\ admitting' = admitting \cup {e}
      /\ UNCHANGED <<ledger, owed, overlooked, reissue>>
  BY Zenon DEF Register, loopVars
<1>2. \A r \in Rules : health[r] # "untracked" => r \notin rejected /\ health'[r] # "untracked"
  <2>1. \A r \in Rules : r \in deferred => health[r] = "untracked"
    BY Zenon DEF EngineInv, RulesAgree
  <2>2. \A r \in Rules : health'[r] \in {"reference", "healthy", health[r]}
    BY Zenon DEF Register
  <2> QED
    BY <2>1, <2>2, Zenon
<1>3. \A c \in Collectors, k \in Columns : c # e => (<<c, k>> \in passed' <=> <<c, k>> \in passed)
  BY ONLY <1>1, e \in Collectors DEF PassedWith
<1> HIDE DEF rejected
<1> QED
  BY <1>1, <1>2, <1>3, Zenon DEF TaskMoves, TasksOfText

LEMMA IssuedPlan == \A p : Issued(p).plan = p
BY DEF Issued

LEMMA ReissueToMoves ==
  ASSUME EngineInv, TasksOfText, NEW e \in Collectors, ReissueTo(e)
  PROVE  \A r \in Rules, c \in Collectors : ledger'[<<r, c>>] # NoTask => TaskMoves(r, c)
<1> DEFINE mine == {r \in Rules : Eligible(r) /\ plan[r].col = e}
<1>1. /\ reissue' = reissue \ {e}
      /\ ledger' = [k \in DOMAIN ledger |->
                      IF k[1] \in mine /\ k[2] = e THEN Issued(plan[k[1]]) ELSE ledger[k]]
      /\ overlooked' = {k \in DOMAIN ledger :
                          IF k[2] = e THEN k[1] \notin mine /\ ledger[k] # NoTask ELSE k \in overlooked}
      /\ UNCHANGED <<body, health, passed, admitting, owed>>
  BY Zenon DEF ReissueTo, catalogVars, ruleVars, admissionVars
<1>2. DOMAIN ledger = Rules \X Collectors
  BY Zenon DEF EngineInv, TypeOK
<1>3. \A r \in Rules : Eligible(r) => health[r] # "untracked"
  BY Zenon DEF EngineInv, RulesAgree, Eligible
<1> SUFFICES ASSUME NEW r \in Rules, NEW c \in Collectors, ledger'[<<r, c>>] # NoTask
             PROVE  TaskMoves(r, c)
  BY Zenon
<1> DEFINE k == <<r, c>>
<1>4. k \in Rules \X Collectors /\ k[1] = r /\ k[2] = c
  BY Zenon
<1> HIDE DEF k
<1>5. ledger'[k] # NoTask
  BY Zenon DEF k
<1>6. CASE r \in mine /\ c = e
  <2>1. ledger'[k] = Issued(plan[r])
    BY <1>1, <1>2, <1>4, <1>6, Zenon
  <2>2. ledger'[k].plan = plan[r] /\ Eligible(r) /\ plan[r].col = c
    BY <1>6, <2>1, IssuedPlan, Zenon
  <2>3. body' = body /\ passed' = passed /\ health'[r] # "untracked"
    BY <1>1, <1>3, <2>2, Zenon
  <2> QED
    BY ONLY <2>2, <2>3, Zenon DEF TaskMoves, k
<1>7. CASE ~(r \in mine /\ c = e)
  <2>1. ledger'[k] = ledger[k]
    BY <1>1, <1>2, <1>4, <1>7, Zenon
  <2>2. k \in overlooked' <=> IF c = e THEN r \notin mine /\ ledger[k] # NoTask ELSE k \in overlooked
    BY <1>1, <1>2, <1>4, Zenon
  <2>3. /\ c = e => k \in overlooked'
        /\ c # e => (k \in overlooked' <=> k \in overlooked)
    BY <1>5, <1>7, <2>1, <2>2, Zenon
  <2> HIDE DEF mine
  <2>4. c \in reissue => c \in reissue' \/ c = e
    BY <1>1, Zenon
  <2> QED
    BY <1>1, <1>5, <2>1, <2>3, <2>4, Zenon DEF TaskMoves, TasksOfText, k
<1> QED
  BY <1>6, <1>7, Zenon

LEMMA RenewalCycleMoves ==
  ASSUME EngineInv, TasksOfText, RenewalCycle
  PROVE  \A r \in Rules, c \in Collectors : ledger'[<<r, c>>] # NoTask => TaskMoves(r, c)
<1> DEFINE left == [k \in DOMAIN ledger |->
               IF Tracked[k] # NoTask /\ Tracked[k].age >= Ttl THEN NoTask ELSE Tracked[k]]
           missing == {<<r, plan[r].col>> : r \in {s \in Rules : Eligible(s) /\ s \notin Lapsed}}
<1>1. /\ ledger' = [k \in DOMAIN left |->
               IF k \in missing /\ left[k] = NoTask THEN Issued(plan[k[1]]) ELSE left[k]]
      /\ overlooked' = {k \in overlooked : left[k] # NoTask}
      /\ UNCHANGED <<body, passed, admitting, owed, reissue>>
  BY Zenon DEF RenewalCycle, catalogVars, admissionVars
<1>2. \A r \in Rules : health'[r] \in {"expired", health[r]}
  BY Zenon DEF RenewalCycle
<1>3. \A r \in Rules : Eligible(r) => health[r] # "untracked"
  BY Zenon DEF EngineInv, RulesAgree, Eligible
<1>4. DOMAIN left = Rules \X Collectors /\ \A k \in Rules \X Collectors : left[k] \in {ledger[k], NoTask}
  <2>1. DOMAIN ledger = Rules \X Collectors
    BY Zenon DEF EngineInv, TypeOK
  <2> QED
    BY <2>1, Zenon DEF Tracked, WithoutTasks
<1>5. \A r \in Rules, c \in Collectors : <<r, c>> \in missing => Eligible(r) /\ plan[r].col = c
  OBVIOUS
<1> HIDE DEF left, missing
<1> SUFFICES ASSUME NEW r \in Rules, NEW c \in Collectors, ledger'[<<r, c>>] # NoTask
             PROVE  TaskMoves(r, c)
  BY Zenon
<1> DEFINE k == <<r, c>>
<1>6. k \in Rules \X Collectors /\ k[1] = r
  BY Zenon
<1>7. k \in missing => Eligible(r) /\ plan[r].col = c
  BY <1>5, Zenon
<1> HIDE DEF k
<1>8. ledger'[k] # NoTask
  BY Zenon DEF k
<1>9. CASE k \in missing /\ left[k] = NoTask
  <2>1. ledger'[k] = Issued(plan[r])
    BY <1>1, <1>4, <1>6, <1>9, Zenon
  <2>2. ledger'[k].plan = plan[r] /\ Eligible(r) /\ plan[r].col = c
    BY <1>7, <1>9, <2>1, IssuedPlan, Zenon
  <2>3. body' = body /\ passed' = passed /\ health'[r] # "untracked"
    BY <1>1, <1>2, <1>3, <2>2, Zenon
  <2> QED
    BY ONLY <2>2, <2>3, Zenon DEF TaskMoves, k
<1>10. CASE ~(k \in missing /\ left[k] = NoTask)
  <2>1. ledger'[k] = left[k] /\ left[k] # NoTask /\ left[k] = ledger[k]
    BY <1>1, <1>4, <1>6, <1>8, <1>10, Zenon
  <2>2. k \in overlooked => k \in overlooked'
    BY <1>1, <2>1, Zenon
  <2> QED
    BY <1>1, <1>2, <2>1, <2>2, Zenon DEF TaskMoves, TasksOfText, k
<1> QED
  BY <1>9, <1>10, Zenon

LEMMA AgedMoves ==
  ASSUME EngineInv, TasksOfText, RecordRenewals \/ Tick
  PROVE  \A r \in Rules, c \in Collectors : ledger'[<<r, c>>] # NoTask => TaskMoves(r, c)
<1>1. ledger \in [Rules \X Collectors -> Task \cup {NoTask}]
  BY Zenon DEF EngineInv, TypeOK
<1>2. \A t \in Task : \A n : [t EXCEPT !.age = n].plan = t.plan
  BY DEF Task
<1>3. \A t \in Task \cup {NoTask} : Older(t) # NoTask => t # NoTask /\ Older(t).plan = t.plan
  BY <1>2, Zenon DEF Older
<1>4. \A k \in Rules \X Collectors : ledger'[k] # NoTask =>
        ledger[k] # NoTask /\ ledger'[k].plan = ledger[k].plan
  <2>1. CASE RecordRenewals
    BY <1>1, <1>2, <2>1, Zenon DEF RecordRenewals
  <2>2. CASE Tick
    <3>1. ledger' = [k \in DOMAIN ledger |-> Older(ledger[k])]
      BY <2>2, Zenon DEF Tick
    <3> QED
      BY ONLY <1>1, <1>3, <3>1, Zenon
  <2> QED
    BY <2>1, <2>2, Zenon
<1>5. UNCHANGED <<body, health, passed, admitting, owed, reissue, overlooked>>
  BY Zenon DEF RecordRenewals, Tick, catalogVars, ruleVars, admissionVars
<1> QED
  BY <1>4, <1>5, Zenon DEF TaskMoves, TasksOfText

LEMMA TaskStep ==
  ASSUME EngineInv, TasksOfText, ReissuesEnd, [Next]_vars
  PROVE  \A r \in Rules, c \in Collectors : ledger'[<<r, c>>] # NoTask => TaskMoves(r, c)
<1> USE DEF catalogVars, ruleVars, admissionVars, loopVars
<1>1. ASSUME NEW r \in Rules, NEW on \in BOOLEAN, SetRuleEnabled(r, on)
      PROVE  UNCHANGED <<ledger, body, passed, overlooked, health, admitting, owed, reissue>>
  BY <1>1, Zenon DEF SetRuleEnabled
<1>2. ASSUME NEW c \in Collectors, CollectorRestart(c)
      PROVE  UNCHANGED <<ledger, body, passed, overlooked, health, admitting, owed, reissue>>
  BY <1>2, Zenon DEF CollectorRestart
<1>3. ASSUME NEW k \in Rules \X Collectors, Send(k)
      PROVE  UNCHANGED <<ledger, body, passed, overlooked, health, admitting, owed, reissue>>
  BY <1>3, Zenon DEF Send
<1>4. CASE StartEvaluation \/ UNCHANGED vars
  <2>1. UNCHANGED <<ledger, body, passed, overlooked, health, admitting, owed, reissue>>
    BY <1>4, Zenon DEF StartEvaluation, vars
  <2> QED
    BY <2>1, TasksLeft, Zenon
<1>5. ASSUME NEW c \in Collectors, OweTasks(c)
      PROVE  \A r \in Rules, e \in Collectors : ledger'[<<r, e>>] # NoTask => TaskMoves(r, e)
  <2>1. /\ UNCHANGED <<ledger, body, passed, overlooked, health, reissue>>
        /\ admitting' = admitting \ {c} /\ owed' = owed \cup {c}
    BY <1>5, Zenon DEF OweTasks
  <2> QED
    BY <2>1, TasksLeft, Zenon
<1>6. CASE StartRenewal
  <2>1. /\ UNCHANGED <<ledger, body, passed, overlooked, health, admitting>>
        /\ reissue = {} /\ reissue' = owed
    BY <1>6, Zenon DEF StartRenewal, ReissuesEnd
  <2> QED
    BY <2>1, TasksLeft, Zenon
<1>7. ASSUME NEW slow \in SUBSET Rules, ApplyOutcome(slow)
      PROVE  \A r \in Rules, e \in Collectors : ledger'[<<r, e>>] # NoTask => TaskMoves(r, e)
  <2>1. /\ UNCHANGED <<ledger, body, passed, overlooked, reissue, admitting, owed>>
        /\ \A r \in Rules : health'[r] \in {"latched", health[r]}
    BY <1>7, Zenon DEF ApplyOutcome
  <2> QED
    BY <2>1, TasksLeft, Zenon
<1>8. ASSUME UNCHANGED <<ledger, body, passed, overlooked, health, admitting, owed, reissue>>
      PROVE  \A r \in Rules, e \in Collectors : ledger'[<<r, e>>] # NoTask => TaskMoves(r, e)
  BY <1>8, TasksLeft, Zenon
<1>9. ASSUME NEW r \in Rules, NEW b \in Bodies, NEW on \in BOOLEAN, LoadRule(r, b, on)
      PROVE  \A s \in Rules, e \in Collectors : ledger'[<<s, e>>] # NoTask => TaskMoves(s, e)
  BY <1>9, OperatorMoves, Zenon
<1>10. ASSUME NEW r \in Rules, RemoveRule(r)
       PROVE  \A s \in Rules, e \in Collectors : ledger'[<<s, e>>] # NoTask => TaskMoves(s, e)
  BY <1>10, OperatorMoves, Zenon
<1>11. ASSUME NEW c \in Collectors, NEW d \in Descriptors, Register(c, d)
       PROVE  \A s \in Rules, e \in Collectors : ledger'[<<s, e>>] # NoTask => TaskMoves(s, e)
  BY <1>11, RegisterMoves, Zenon
<1>12. ASSUME NEW c \in Collectors, ReissueTo(c)
       PROVE  \A s \in Rules, e \in Collectors : ledger'[<<s, e>>] # NoTask => TaskMoves(s, e)
  BY <1>12, ReissueToMoves, Zenon
<1>13. CASE RenewalCycle
  BY <1>13, RenewalCycleMoves, Zenon
<1>14. CASE RecordRenewals \/ Tick
  BY <1>14, AgedMoves, Zenon
<1> QED
  BY <1>1, <1>2, <1>3, <1>4, <1>5, <1>6, <1>7, <1>8, <1>9, <1>10, <1>11, <1>12, <1>13, <1>14,
     Zenon DEF Next

\* The renewal branch ends with nothing left to re-issue.
LEMMA ReissueStep ==
  ASSUME ReissuesEnd, [Next]_vars
  PROVE  ReissuesEnd'
<1>1. \/ UNCHANGED <<phase, reissue>> \/ phase' = "reissue"
      \/ reissue' = {} \/ (phase # "reissue" /\ reissue' = reissue)
  <2> USE DEF loopVars
  <2>1. ASSUME NEW r \in Rules, NEW b \in Bodies, NEW on \in BOOLEAN, LoadRule(r, b, on)
        PROVE  UNCHANGED <<phase, reissue>>
    BY <2>1, Zenon DEF LoadRule
  <2>2. ASSUME NEW c \in Collectors, NEW d \in Descriptors, Register(c, d)
        PROVE  UNCHANGED <<phase, reissue>>
    BY <2>2, Zenon DEF Register
  <2>3. ASSUME NEW r \in Rules, RemoveRule(r) \/ \E on \in BOOLEAN : SetRuleEnabled(r, on)
        PROVE  UNCHANGED <<phase, reissue>>
    BY <2>3, Zenon DEF RemoveRule, SetRuleEnabled
  <2>4. ASSUME NEW c \in Collectors, OweTasks(c) \/ CollectorRestart(c)
        PROVE  UNCHANGED <<phase, reissue>>
    BY <2>4, Zenon DEF OweTasks, CollectorRestart
  <2>5. ASSUME NEW c \in Collectors, ReissueTo(c) PROVE phase' = "reissue"
    BY <2>5, Zenon DEF ReissueTo
  <2>6. ASSUME NEW k \in Rules \X Collectors, Send(k) PROVE UNCHANGED <<phase, reissue>>
    BY <2>6, Zenon DEF Send
  <2>7. StartRenewal => phase' = "reissue"
    BY Zenon DEF StartRenewal
  <2>8. RenewalCycle => reissue' = {}
    BY Zenon DEF RenewalCycle
  <2>9. RecordRenewals \/ StartEvaluation \/ Tick => phase # "reissue" /\ reissue' = reissue
    BY Zenon DEF RecordRenewals, StartEvaluation, Tick
  <2>10. ASSUME NEW slow \in SUBSET Rules, ApplyOutcome(slow)
         PROVE  phase # "reissue" /\ reissue' = reissue
    BY <2>10, Zenon DEF ApplyOutcome
  <2>11. UNCHANGED vars => UNCHANGED <<phase, reissue>>
    BY Zenon DEF vars
  <2> QED
    BY <2>1, <2>2, <2>3, <2>4, <2>5, <2>6, <2>7, <2>8, <2>9, <2>10, <2>11, Zenon DEF Next
<1> QED
  BY <1>1, Zenon DEF ReissuesEnd

-----------------------------------------------------------------------------
(* Conformance results and plans, where a collector passes what it         *)
(* declares.                                                               *)

\* Two descriptors pass the same of a table that they declare alike.
LEMMA SamePasses ==
  ASSUME ConformanceByColumns, NEW d \in Descriptors, NEW e \in Descriptors, NEW k \in Columns,
         \A j \in Columns : j.table = k.table => (j \in d.cols <=> j \in e.cols)
  PROVE  k \in d.passes \cap d.cols <=> k \in e.passes \cap e.cols
<1>1. k.table \in Tables /\ d.cols \subseteq Columns /\ e.cols \subseteq Columns
  BY CatalogAssumption, Zenon
<1> DEFINE of(cols) == {c \in cols : c.table = k.table}
<1>2. of(d.cols) = of(e.cols)
  BY <1>1, Zenon
<1>3. of(d.passes \cap d.cols) = of(e.passes \cap e.cols)
  BY <1>1, <1>2 DEF ConformanceByColumns
<1>4. /\ k \in d.passes \cap d.cols <=> k \in of(d.passes \cap d.cols)
      /\ k \in e.passes \cap e.cols <=> k \in of(e.passes \cap e.cols)
  BY Zenon
<1> QED
  BY <1>3, <1>4, Zenon

LEMMA RegisterPasses ==
  ASSUME EngineInv, ConformanceByColumns, PassedDeclared,
         NEW c \in Collectors, NEW d \in Descriptors, Register(c, d)
  PROVE  PassedDeclared'
<1>1. /\ desc' = [desc EXCEPT ![c] = d] /\ passed' = PassedWith(c, d, OwnersWith(c, d))
  BY Zenon DEF Register
<1>2. desc \in [Collectors -> Descriptors \cup {NoDesc}] /\ d # NoDesc /\ d.cols \subseteq Columns
  BY AbsentAssumption, CatalogAssumption, Zenon DEF EngineInv, TypeOK
<1>3. \A k \in d.cols : k.table \in Tables /\ OwnersWith(c, d)[k.table] = c
  BY <1>2, CatalogAssumption, Zenon DEF OwnersWith, TablesOf
<1> DEFINE changed == desc[c] = NoDesc \/ desc[c].version # d.version \/ desc[c].cols # d.cols
<1>4. \A e \in Collectors, k \in Columns : <<e, k>> \in passed' <=>
        \/ <<e, k>> \in passed /\ ~(changed /\ e = c)
        \/ e = c /\ k \in d.passes \cap d.cols
  BY ONLY <1>1, <1>3 DEF PassedWith
<1> SUFFICES ASSUME NEW e \in Collectors, NEW k \in Columns
             PROVE  <<e, k>> \in passed' <=>
                      desc'[e] # NoDesc /\ k \in desc'[e].passes \cap desc'[e].cols
  BY Zenon DEF PassedDeclared
<1>5. CASE e # c
  <2>1. desc'[e] = desc[e] /\ (<<e, k>> \in passed' <=> <<e, k>> \in passed)
    BY <1>1, <1>2, <1>4, <1>5, Zenon
  <2> QED
    BY <2>1, Zenon DEF PassedDeclared
<1>6. CASE e = c /\ changed
  BY <1>1, <1>2, <1>4, <1>6, Zenon
<1>7. CASE e = c /\ ~changed
  <2>1. desc[c] \in Descriptors /\ desc[c].cols = d.cols /\ desc'[c] = d
    BY <1>1, <1>2, <1>7, Zenon
  <2>2. k \in d.passes \cap d.cols <=> k \in desc[c].passes \cap desc[c].cols
    BY <2>1, SamePasses, Zenon
  <2>3. <<c, k>> \in passed <=> k \in desc[c].passes \cap desc[c].cols
    BY <1>7, Zenon DEF PassedDeclared
  <2> QED
    BY <1>2, <1>4, <1>7, <2>1, <2>2, <2>3, Zenon
<1> QED
  BY <1>5, <1>6, <1>7, Zenon

\* A plan pushes what has passed at its collector.
LEMMA PlanPushes ==
  \A ds, ow, ps, b : PlanOf(ds, ow, ps, b).pushed = {k \in b.refs : <<PlanOf(ds, ow, ps, b).col, k>> \in ps}
BY DEF PlanOf

\* What a registration does to a plan: it is made again, or kept because its
\* table is not touched.
LEMMA RegisterPlans ==
  ASSUME EngineInv, NEW c \in Collectors, NEW d \in Descriptors, Register(c, d),
         NEW r \in Rules, plan'[r] # NoPlan
  PROVE  /\ body'[r] = body[r]
         /\ \/ plan'[r] = PlanOf(desc', owner', passed', body[r])
            \/ /\ plan'[r] = plan[r] /\ desc[c] # NoDesc
               /\ \A k \in body[r].refs : k.table \notin Affected(c, d)
<1> DEFINE first == desc[c] = NoDesc
           ds == [desc EXCEPT ![c] = d]
           ow == OwnersWith(c, d)
           ps == PassedWith(c, d, ow)
           touched == Affected(c, d)
           Fits(s) == Plannable(ds, ow, body[s])
           rejected == {s \in deferred : ~Fits(s)}
           drained == deferred \ rejected
           tracked == {s \in Rules : health[s] # "untracked"} \cup drained
           again == {s \in tracked :
                       s \in drained \/ Revalidates(s, health[s], first, touched)}
           lost == {s \in again : \E k \in body[s].refs : ~Resolves(ds, ow, k)}
<1>1. /\ desc' = ds /\ owner' = ow /\ passed' = ps
      /\ body' = [s \in Rules |-> IF s \in rejected THEN NoBody ELSE body[s]]
      /\ plan' = [s \in Rules |->
                    IF KeepsPlan(s, again, lost) THEN plan[s]
                    ELSE IF Fits(s) THEN PlanOf(ds, ow, ps, body[s]) ELSE NoPlan]
  BY Zenon DEF Register
<1>2. /\ r \in rejected => health[r] = "untracked" /\ plan[r] = NoPlan /\ r \notin again
      /\ plan[r] # NoPlan => health[r] \notin Causes /\ health[r] # "untracked"
                              /\ refs[r] = body[r].refs
  BY Zenon DEF EngineInv, RulesAgree, NoPlanWhileUnhealthy, Revalidates
<1>3. health[r] # "untracked" /\ health[r] # "latched" /\ r \notin again =>
        ~first /\ TablesOf(refs[r]) \cap touched = {}
  BY Zenon DEF Revalidates
<1>4. KeepsPlan(r, again, lost) <=> r \notin again \/ (r \in lost /\ health[r] \in Causes)
  BY Zenon DEF KeepsPlan
<1> HIDE DEF ds, ow, ps, rejected, again, lost, Fits, touched
<1>5. r \notin rejected
  BY <1>1, <1>2, <1>4, Zenon
<1>6. CASE KeepsPlan(r, again, lost)
  <2>1. plan'[r] = plan[r]
    BY <1>1, <1>6, Zenon
  <2>2. r \notin again /\ health[r] # "latched" /\ health[r] # "untracked" /\ refs[r] = body[r].refs
    BY <1>2, <1>4, <1>6, <2>1, Zenon DEF Causes
  <2>3. \A k \in body[r].refs : k.table \notin touched
    BY <1>3, <2>2, Zenon DEF TablesOf
  <2> QED
    BY <1>1, <1>3, <1>5, <2>1, <2>2, <2>3, Zenon DEF touched
<1>7. CASE ~KeepsPlan(r, again, lost)
  BY <1>1, <1>5, <1>7, Zenon
<1> QED
  BY <1>6, <1>7, Zenon

LEMMA RegisterFresh ==
  ASSUME EngineInv, ConformanceByColumns, PassedDeclared, PassedDeclared', PlansFresh,
         NEW c \in Collectors, NEW d \in Descriptors, Register(c, d)
  PROVE  PlansFresh'
<1> SUFFICES ASSUME NEW r \in Rules, plan'[r] # NoPlan
             PROVE  plan'[r].pushed = {k \in body'[r].refs : <<plan'[r].col, k>> \in passed'}
  BY Zenon DEF PlansFresh, Pushable
<1>1. body'[r] = body[r]
  BY RegisterPlans, Zenon
<1>2. CASE plan'[r] = PlanOf(desc', owner', passed', body[r])
  <2> DEFINE new == PlanOf(desc', owner', passed', body[r])
  <2>1. new.pushed = {k \in body[r].refs : <<new.col, k>> \in passed'}
    BY PlanPushes
  <2> HIDE DEF new
  <2>2. plan'[r] = new
    BY <1>2, Zenon DEF new
  <2> QED
    BY <1>1, <2>1, <2>2, Zenon
<1>3. CASE /\ plan'[r] = plan[r] /\ desc[c] # NoDesc
           /\ \A k \in body[r].refs : k.table \notin Affected(c, d)
  <2>1. plan[r].pushed = {k \in body[r].refs : <<plan[r].col, k>> \in passed}
    BY <1>3, Zenon DEF PlansFresh, Pushable
  <2>2. plan[r] \in Plan /\ plan[r].body = body[r]
    BY <1>3, Zenon DEF EngineInv, TypeOK, RulesAgree
  <2>3. plan[r].col \in Collectors /\ body[r].refs \subseteq Columns
    BY <2>2, RuleAssumption, Zenon DEF Plan
  <2>4. /\ desc' = [desc EXCEPT ![c] = d] /\ desc \in [Collectors -> Descriptors \cup {NoDesc}]
        /\ d # NoDesc
    BY AbsentAssumption, Zenon DEF Register, EngineInv, TypeOK
  <2>5. \A k \in body[r].refs :
          <<plan[r].col, k>> \in passed' <=> <<plan[r].col, k>> \in passed
    <3> SUFFICES ASSUME NEW k \in body[r].refs
                 PROVE  <<plan[r].col, k>> \in passed' <=> <<plan[r].col, k>> \in passed
      BY Zenon
    <3>1. CASE plan[r].col # c
      <4>1. desc'[plan[r].col] = desc[plan[r].col]
        BY <2>3, <2>4, <3>1, Zenon
      <4> QED
        BY <2>3, <4>1, Zenon DEF PassedDeclared
    <3>2. CASE plan[r].col = c
      <4>1. k \in Columns /\ desc[c] \in Descriptors /\ desc'[c] = d /\ ColumnsOf(desc[c]) = desc[c].cols
        BY <1>3, <2>3, <2>4, Zenon DEF ColumnsOf
      <4>2. \A j \in Columns : j.table = k.table => (j \in d.cols <=> j \in desc[c].cols)
        BY <1>3, <4>1, Zenon DEF Affected, TablesOf
      <4>3. k \in d.passes \cap d.cols <=> k \in desc[c].passes \cap desc[c].cols
        BY <4>1, <4>2, SamePasses, Zenon
      <4> QED
        BY <1>3, <2>4, <3>2, <4>1, <4>3, Zenon DEF PassedDeclared
    <3> QED
      BY <3>1, <3>2, Zenon
  <2> QED
    BY <1>1, <1>3, <2>1, <2>5, Zenon
<1> QED
  BY <1>2, <1>3, RegisterPlans, Zenon

LEMMA LoadRuleFresh ==
  ASSUME EngineInv, PlansFresh, NEW s \in Rules, NEW b \in Bodies, NEW on \in BOOLEAN,
         LoadRule(s, b, on)
  PROVE  PlansFresh'
<1> DEFINE waits == \A c \in Collectors : desc[c] = NoDesc
<1>1. passed' = passed /\ body' = [body EXCEPT ![s] = b]
  BY Zenon DEF LoadRule, catalogVars
<1>2. /\ body \in [Rules -> Bodies \cup {NoBody}] /\ plan \in [Rules -> Plan \cup {NoPlan}]
  BY Zenon DEF EngineInv, TypeOK
<1>3. CASE waits
  <2>1. plan' = plan /\ \A r \in Rules : plan[r] = NoPlan
    BY <1>3, NoPlansYet, Zenon DEF LoadRule
  <2> QED
    BY <2>1, Zenon DEF PlansFresh
<1>4. CASE ~waits
  <2>1. plan' = [plan EXCEPT ![s] = PlanOf(desc, owner, passed, b)]
    BY <1>4, Zenon DEF LoadRule
  <2> SUFFICES ASSUME NEW r \in Rules, plan'[r] # NoPlan
               PROVE  plan'[r].pushed = {k \in body'[r].refs : <<plan'[r].col, k>> \in passed'}
    BY Zenon DEF PlansFresh, Pushable
  <2>2. CASE r = s
    <3> DEFINE new == PlanOf(desc, owner, passed, b)
    <3>1. new.pushed = {k \in b.refs : <<new.col, k>> \in passed}
      BY PlanPushes
    <3>2. plan'[r] = new /\ body'[r] = b
      BY <1>1, <1>2, <2>1, <2>2, Zenon
    <3> HIDE DEF new
    <3> QED
      BY <1>1, <3>1, <3>2, Zenon
  <2>3. CASE r # s
    <3>1. plan'[r] = plan[r] /\ body'[r] = body[r]
      BY <1>1, <1>2, <2>1, <2>3, Zenon
    <3> QED
      BY <1>1, <3>1, Zenon DEF PlansFresh, Pushable
  <2> QED
    BY <2>2, <2>3, Zenon
<1> QED
  BY <1>3, <1>4, Zenon

\* Steps that make no plan.
LEMMA PlansLeft ==
  ASSUME PlansFresh, passed' = passed,
         \A r \in Rules : plan'[r] = NoPlan \/ (plan'[r] = plan[r] /\ body'[r] = body[r])
  PROVE  PlansFresh'
<1> SUFFICES ASSUME NEW r \in Rules, plan'[r] # NoPlan
             PROVE  plan'[r].pushed = {k \in body'[r].refs : <<plan'[r].col, k>> \in passed'}
  BY Zenon DEF PlansFresh, Pushable
<1>1. plan'[r] = plan[r] /\ body'[r] = body[r]
  BY Zenon
<1> QED
  BY <1>1, Zenon DEF PlansFresh, Pushable

LEMMA PlanStep ==
  ASSUME EngineInv, ConformanceByColumns, PassedDeclared, PlansFresh, [Next]_vars
  PROVE  PassedDeclared' /\ PlansFresh'
<1> USE DEF catalogVars, ruleVars
<1>1. ASSUME UNCHANGED <<desc, passed>> PROVE PassedDeclared'
  BY <1>1, Zenon DEF PassedDeclared
<1>2. ASSUME NEW r \in Rules, NEW b \in Bodies, NEW on \in BOOLEAN, LoadRule(r, b, on)
      PROVE  PassedDeclared' /\ PlansFresh'
  <2>1. UNCHANGED <<desc, passed>>
    BY <1>2, Zenon DEF LoadRule
  <2> QED
    BY <1>1, <1>2, <2>1, LoadRuleFresh, Zenon
<1>3. ASSUME NEW c \in Collectors, NEW d \in Descriptors, Register(c, d)
      PROVE  PassedDeclared' /\ PlansFresh'
  BY <1>3, RegisterPasses, RegisterFresh, Zenon
<1>4. ASSUME NEW r \in Rules, RemoveRule(r) PROVE PassedDeclared' /\ PlansFresh'
  <2>1. /\ UNCHANGED <<desc, passed>> /\ body' = [body EXCEPT ![r] = NoBody]
        /\ plan' = [plan EXCEPT ![r] = NoPlan]
    BY <1>4, Zenon DEF RemoveRule
  <2>2. body \in [Rules -> Bodies \cup {NoBody}] /\ plan \in [Rules -> Plan \cup {NoPlan}]
    BY Zenon DEF EngineInv, TypeOK
  <2>3. \A s \in Rules : plan'[s] = NoPlan \/ (plan'[s] = plan[s] /\ body'[s] = body[s])
    BY ONLY <2>1, <2>2, r \in Rules, Zenon
  <2> QED
    BY <1>1, <2>1, <2>3, PlansLeft, Zenon
<1>5. CASE RenewalCycle \/ \E slow \in SUBSET Rules : ApplyOutcome(slow)
  <2>1. /\ UNCHANGED <<desc, passed, body>>
        /\ \A s \in Rules : plan'[s] = NoPlan \/ plan'[s] = plan[s]
    <3>1. CASE RenewalCycle
      BY <3>1, Zenon DEF RenewalCycle
    <3>2. ASSUME NEW slow \in SUBSET Rules, ApplyOutcome(slow)
          PROVE  /\ UNCHANGED <<desc, passed, body>>
                 /\ \A s \in Rules : plan'[s] = NoPlan \/ plan'[s] = plan[s]
      BY <3>2, Zenon DEF ApplyOutcome
    <3> QED
      BY <1>5, <3>1, <3>2, Zenon
  <2> QED
    BY <1>1, <2>1, PlansLeft, Zenon
<1>6. ASSUME UNCHANGED <<desc, passed, body, plan>> PROVE PassedDeclared' /\ PlansFresh'
  BY <1>1, <1>6, PlansLeft, Zenon
<1>7. \A r \in Rules, on \in BOOLEAN : SetRuleEnabled(r, on) => UNCHANGED <<desc, passed, body, plan>>
  BY Zenon DEF SetRuleEnabled
<1>8. \A c \in Collectors : OweTasks(c) \/ CollectorRestart(c) \/ ReissueTo(c) =>
        UNCHANGED <<desc, passed, body, plan>>
  BY Zenon DEF OweTasks, CollectorRestart, ReissueTo
<1>9. \A k \in Rules \X Collectors : Send(k) => UNCHANGED <<desc, passed, body, plan>>
  BY Zenon DEF Send
<1>10. StartRenewal \/ RecordRenewals \/ StartEvaluation \/ Tick \/ UNCHANGED vars =>
         UNCHANGED <<desc, passed, body, plan>>
  BY Zenon DEF StartRenewal, RecordRenewals, StartEvaluation, Tick, vars
<1> QED
  BY <1>2, <1>3, <1>4, <1>5, <1>6, <1>7, <1>8, <1>9, <1>10, Zenon DEF Next

LEMMA RenewalStep ==
  ASSUME EngineInv, RenewalInv, [Next]_vars
  PROVE  RenewalInv'
<1>1. TasksOfText /\ ReissuesEnd
  BY Zenon DEF RenewalInv
<1>2. \A r \in Rules, c \in Collectors : ledger'[<<r, c>>] # NoTask => TaskMoves(r, c)
  BY <1>1, TaskStep, Zenon
<1>3. \A r \in Rules : Eligible(r) => plan[r] # NoPlan /\ plan[r].body = body[r]
  BY Zenon DEF EngineInv, RulesAgree, Eligible
<1>4. TasksOfText'
  <2> SUFFICES ASSUME NEW r \in Rules, NEW c \in Collectors, ledger'[<<r, c>>] # NoTask
               PROVE  health'[r] # "untracked" /\ ledger'[<<r, c>>].plan.body = body'[r]
    BY Zenon DEF TasksOfText
  <2>1. TaskMoves(r, c)
    BY <1>2, Zenon
  <2> QED
    BY <1>1, <1>3, <2>1, Zenon DEF TaskMoves, TasksOfText
<1>5. ReissuesEnd'
  BY <1>1, ReissueStep, Zenon
<1>6. ASSUME ConformanceByColumns PROVE PassedDeclared' /\ PlansFresh' /\ TasksFresh'
  <2>1. PassedDeclared /\ PlansFresh /\ TasksFresh
    BY <1>6, Zenon DEF RenewalInv
  <2>2. PassedDeclared' /\ PlansFresh'
    BY <1>6, <2>1, PlanStep, Zenon
  <2>3. TasksFresh'
    <3> SUFFICES ASSUME NEW r \in Rules, NEW c \in Collectors, ledger'[<<r, c>>] # NoTask,
                        c \notin admitting' \cup owed' \cup reissue', <<r, c>> \notin overlooked'
                 PROVE  /\ ledger'[<<r, c>>].plan.col = c
                        /\ ledger'[<<r, c>>].plan.pushed = {k \in body'[r].refs : <<c, k>> \in passed'}
      BY Zenon DEF TasksFresh, Pushable
    <3>1. TaskMoves(r, c)
      BY <1>2, Zenon
    <3>2. body'[r] = body[r] /\ \A k \in Columns : <<c, k>> \in passed' <=> <<c, k>> \in passed
      BY <3>1, Zenon DEF TaskMoves
    <3>3. body[r] \in Bodies
      BY <1>1, <3>1, Zenon DEF EngineInv, RulesAgree, TaskMoves, TasksOfText, Eligible
    <3>4. {k \in body'[r].refs : <<c, k>> \in passed'} = Pushable(r, c)
      BY <3>2, <3>3, RuleAssumption, Zenon DEF Pushable
    <3>5. CASE Eligible(r) /\ plan[r].col = c /\ ledger'[<<r, c>>].plan = plan[r]
      BY <1>3, <2>1, <3>4, <3>5, Zenon DEF PlansFresh
    <3>6. CASE /\ ledger[<<r, c>>] # NoTask /\ ledger'[<<r, c>>].plan = ledger[<<r, c>>].plan
               /\ c \in admitting \cup owed \cup reissue =>
                    c \in admitting' \cup owed' \cup reissue' \/ <<r, c>> \in overlooked'
               /\ <<r, c>> \in overlooked => <<r, c>> \in overlooked'
      <4>1. c \notin admitting \cup owed \cup reissue /\ <<r, c>> \notin overlooked
        BY <3>6, Zenon
      <4>2. ledger[<<r, c>>].plan.col = c /\ ledger[<<r, c>>].plan.pushed = Pushable(r, c)
        BY <2>1, <3>6, <4>1, Zenon DEF TasksFresh
      <4> QED
        BY ONLY <3>4, <3>6, <4>2, Zenon
    <3> QED
      BY <3>1, <3>5, <3>6, Zenon DEF TaskMoves
  <2> QED
    BY <2>2, <2>3, Zenon
<1> QED
  BY <1>4, <1>5, <1>6, Zenon DEF RenewalInv

\* Once nothing is owed to a collector, what is renewed there is of the rule's
\* current text; and it is the current plan, unless the last re-issue passed the
\* rule by, where a collector's conformance follows from its columns
\* (issue_tasks_for_collector, renewal_cycle).  For any number of rules, tables
\* and collectors, registering in any order.
THEOREM RenewalsCurrent == Spec => []RenewsCurrentPlan
<1>1. Init => EngineInv /\ RenewalInv
  <2> SUFFICES ASSUME Init PROVE RenewalInv
    BY EngineInit, Zenon
  <2>1. TasksOfText /\ ReissuesEnd /\ PlansFresh /\ TasksFresh
    BY Zenon DEF Init, TasksOfText, ReissuesEnd, PlansFresh, TasksFresh
  <2>2. PassedDeclared
    BY Zenon DEF Init, PassedDeclared
  <2> QED
    BY <2>1, <2>2, Zenon DEF RenewalInv
<1>2. EngineInv /\ RenewalInv /\ [Next]_vars => EngineInv' /\ RenewalInv'
  BY EngineStep, RenewalStep, Zenon
<1>3. EngineInv /\ RenewalInv => RenewsCurrentPlan
  <2> SUFFICES ASSUME EngineInv, RenewalInv, NEW r \in Rules, NEW c \in Collectors,
                      phase = "idle", Eligible(r), plan[r].col = c, ledger[<<r, c>>] # NoTask,
                      c \notin admitting \cup owed
               PROVE  /\ ledger[<<r, c>>].plan.body = plan[r].body
                      /\ ConformanceByColumns /\ <<r, c>> \notin overlooked =>
                           ledger[<<r, c>>].plan = plan[r]
    BY Zenon DEF RenewsCurrentPlan
  <2>1. ledger[<<r, c>>].plan.body = body[r] /\ plan[r].body = body[r] /\ plan[r] # NoPlan
    BY Zenon DEF RenewalInv, TasksOfText, EngineInv, RulesAgree, Eligible
  <2>2. ASSUME ConformanceByColumns, <<r, c>> \notin overlooked
        PROVE  ledger[<<r, c>>].plan = plan[r]
    <3>1. c \notin reissue
      BY Zenon DEF RenewalInv, ReissuesEnd
    <3>2. plan[r].pushed = Pushable(r, c) /\ ledger[<<r, c>>].plan.pushed = Pushable(r, c)
          /\ ledger[<<r, c>>].plan.col = c
      BY <2>1, <2>2, <3>1, Zenon DEF RenewalInv, PlansFresh, TasksFresh
    <3>3. plan[r] \in Plan /\ ledger[<<r, c>>] \in Task
      BY <2>1, Zenon DEF EngineInv, TypeOK
    <3>4. ledger[<<r, c>>].plan \in Plan
      BY <3>3, Zenon DEF Task
    <3>5. \A p, q \in Plan : p.body = q.body /\ p.col = q.col /\ p.pushed = q.pushed => p = q
      BY DEF Plan
    <3> QED
      BY <2>1, <3>2, <3>3, <3>4, <3>5, Zenon
  <2> QED
    BY <2>1, <2>2, Zenon
<1> QED
  BY <1>1, <1>2, <1>3, PTL DEF Spec

-----------------------------------------------------------------------------
(* Two lost sends do not expire a task.                                    *)

LEMMA TaskTypes ==
  ASSUME TypeOK
  PROVE  /\ \A k \in Rules \X Collectors : /\ losses[k] \in 0 .. MaxLosses
                                           /\ ledger[k] # NoTask => ledger[k] \in Task /\ ledger[k].age \in 0 .. Ttl
         /\ DOMAIN ledger = Rules \X Collectors /\ DOMAIN toSend = Rules \X Collectors
         /\ DOMAIN losses = Rules \X Collectors
BY Zenon DEF TypeOK, Task

\* Steps outside the renewal branch, at most dropping tasks.
LEMMA LossesLeft ==
  ASSUME TypeOK, LossInv, UNCHANGED <<due, toSend, losses, landed>>,
         phase' = phase \/ (phase \in {"idle", "evaluate"} /\ phase' \in {"idle", "evaluate"}),
         \A k \in Rules \X Collectors : ledger'[k] = NoTask \/ ledger'[k] = ledger[k]
  PROVE  LossInv'
<1>1. DOMAIN toSend = Rules \X Collectors
  BY Zenon DEF TypeOK
<1>2. SendsTimely'
  BY <1>1, Zenon DEF LossInv, SendsTimely, NothingToSend
<1>3. \A k \in Rules \X Collectors : Awaiting(k)' <=> Awaiting(k)
  BY Zenon DEF Awaiting
<1>4. LossesCounted => LossesCounted'
  BY <1>3, Zenon DEF LossesCounted
<1> QED
  BY <1>2, <1>4, Zenon DEF LossInv

LEMMA StartRenewalLosses ==
  ASSUME TypeOK, LossInv, StartRenewal
  PROVE  LossInv'
<1>1. /\ phase = "idle" /\ phase' = "reissue" /\ due /\ ~due'
      /\ UNCHANGED <<ledger, toSend, landed, losses>>
  BY Zenon DEF StartRenewal
<1>2. \A k \in Rules \X Collectors : toSend[k] = NoPlan
  BY <1>1, TaskTypes, Zenon DEF LossInv, SendsTimely, NothingToSend
<1>3. SendsTimely'
  BY <1>1, <1>2, Zenon DEF SendsTimely
<1>4. \A k \in Rules \X Collectors : Awaiting(k)' /\ Awaiting(k)
  BY <1>1, Zenon DEF Awaiting
<1>5. LossesCounted => LossesCounted'
  BY <1>1, <1>4, Zenon DEF LossesCounted
<1> QED
  BY <1>3, <1>5, Zenon DEF LossInv

LEMMA ReissueToLosses ==
  ASSUME TypeOK, LossInv, NEW c \in Collectors, ReissueTo(c)
  PROVE  LossInv'
<1> DEFINE new == {k \in Rules \X Collectors : Eligible(k[1]) /\ plan[k[1]].col = c /\ k[2] = c}
<1>1. /\ phase = "reissue" /\ phase' = "reissue" /\ UNCHANGED <<due, landed>>
      /\ \A k \in Rules \X Collectors :
           /\ ledger'[k] = IF k \in new THEN Issued(plan[k[1]]) ELSE ledger[k]
           /\ toSend'[k] = IF k \in new THEN plan[k[1]] ELSE NoPlan
           /\ losses'[k] = IF k \in new THEN 0 ELSE losses[k]
  BY TaskTypes, Zenon DEF ReissueTo
<1> HIDE DEF new
<1>2. \A p : Issued(p).age = 0
  BY DEF Issued
<1>3. SendsTimely'
  <2>1. ~due'
    BY <1>1, Zenon DEF LossInv, SendsTimely
  <2>2. \A k \in Rules \X Collectors : toSend'[k] # NoPlan => ledger'[k].age = 0
    BY <1>1, <1>2, Zenon
  <2> QED
    BY <1>1, <2>1, <2>2, Zenon DEF SendsTimely
<1>4. \A k \in Rules \X Collectors : Awaiting(k)' /\ Awaiting(k)
  BY <1>1, Zenon DEF Awaiting
<1>5. ASSUME LossesCounted, NEW k \in Rules \X Collectors, ledger'[k] # NoTask, ledger'[k].age >= Renewal
      PROVE  losses'[k] = MaxLosses \/ losses'[k] >= ledger'[k].age - Renewal + 0
  <2>1. k \notin new
    BY <1>1, <1>2, <1>5, TtlAssumption
  <2>2. ledger'[k] = ledger[k] /\ losses'[k] = losses[k]
    BY <1>1, <2>1, Zenon
  <2> QED
    BY <1>1, <1>4, <1>5, <2>2, Zenon DEF LossesCounted
<1>6. LossesCounted => LossesCounted'
  BY <1>4, <1>5, Zenon DEF LossesCounted
<1> QED
  BY <1>3, <1>6, Zenon DEF LossInv

LEMMA RenewalCycleLosses ==
  ASSUME TypeOK, LossInv, RenewalCycle
  PROVE  LossInv'
<1> DEFINE left == [k \in DOMAIN ledger |->
               IF Tracked[k] # NoTask /\ Tracked[k].age >= Ttl THEN NoTask ELSE Tracked[k]]
           missing == {<<r, plan[r].col>> : r \in {s \in Rules : Eligible(s) /\ s \notin Lapsed}}
           issued == [k \in DOMAIN left |->
               IF k \in missing /\ left[k] = NoTask THEN Issued(plan[k[1]]) ELSE left[k]]
<1>1. /\ phase = "reissue" /\ phase' = "send" /\ landed' = {} /\ due' = due /\ ledger' = issued
      /\ toSend' = [k \in DOMAIN left |->
                      IF issued[k] # NoTask /\ (left[k] = NoTask \/ Due(left[k]))
                      THEN issued[k].plan ELSE NoPlan]
      /\ losses' = [k \in DOMAIN losses |-> IF left[k] = NoTask THEN 0 ELSE losses[k]]
  BY Zenon DEF RenewalCycle
<1>2. DOMAIN left = Rules \X Collectors /\ \A k \in Rules \X Collectors : left[k] \in {ledger[k], NoTask}
  BY TaskTypes, Zenon DEF Tracked, WithoutTasks
<1> HIDE DEF left, missing
<1>3. \A k \in Rules \X Collectors : left[k] # NoTask =>
        /\ left[k] = ledger[k] /\ issued[k] = ledger[k] /\ losses'[k] = losses[k]
        /\ toSend'[k] = IF Due(ledger[k]) THEN ledger[k].plan ELSE NoPlan
  BY <1>1, <1>2, TaskTypes, Zenon
<1>4. \A k \in Rules \X Collectors : left[k] = NoTask =>
        issued[k] = NoTask \/ issued[k] = Issued(plan[k[1]])
  BY <1>2, Zenon
<1>5. ~due'
  BY <1>1, Zenon DEF LossInv, SendsTimely
<1> HIDE DEF issued
<1>6. SendsTimely'
  BY <1>1, <1>5, Zenon DEF SendsTimely
<1>7. \A p : Issued(p).age = 0
  BY DEF Issued
<1>8. \A k \in Rules \X Collectors : Awaiting(k)
  BY <1>1, Zenon DEF Awaiting
<1>9. ASSUME LossesCounted, NEW k \in Rules \X Collectors, ledger'[k] # NoTask, ledger'[k].age >= Renewal
      PROVE  /\ losses'[k] = MaxLosses \/ losses'[k] >= ledger'[k].age - Renewal + 0
             /\ Awaiting(k)'
  <2>1. left[k] # NoTask
    BY <1>1, <1>4, <1>7, <1>9, TtlAssumption
  <2>2. ledger'[k] = ledger[k] /\ losses'[k] = losses[k] /\ toSend'[k] = ledger[k].plan
    BY <1>1, <1>3, <1>9, <2>1, Zenon DEF Due
  <2>3. ledger[k].plan # NoPlan
    BY <1>9, <2>2, TaskTypes, AbsentAssumption, Zenon DEF Task
  <2> QED
    BY <1>1, <1>8, <1>9, <2>2, <2>3, Zenon DEF LossesCounted, Awaiting
<1>10. LossesCounted => LossesCounted'
  BY <1>9, Zenon DEF LossesCounted
<1> QED
  BY <1>6, <1>10, Zenon DEF LossInv

LEMMA SendLosses ==
  ASSUME TypeOK, LossInv, NEW s \in Rules \X Collectors, Send(s)
  PROVE  LossInv'
<1>1. /\ toSend[s] # NoPlan /\ toSend' = [toSend EXCEPT ![s] = NoPlan]
      /\ UNCHANGED <<ledger, phase, due>>
      /\ \/ /\ losses' = [losses EXCEPT ![s] = 0]
            /\ landed' = IF phase = "send" THEN landed \cup {s} ELSE landed
         \/ /\ losses' = [losses EXCEPT ![s] = IF @ < MaxLosses THEN @ + 1 ELSE @]
            /\ landed' = landed
  BY Zenon DEF Send
<1>2. /\ toSend \in [Rules \X Collectors -> Plan \cup {NoPlan}]
      /\ losses \in [Rules \X Collectors -> 0 .. MaxLosses]
  BY Zenon DEF TypeOK
<1>3. phase \in {"send", "reissue"}
  BY <1>1, <1>2, Zenon DEF LossInv, SendsTimely, NothingToSend, TypeOK
<1>4. \A k \in Rules \X Collectors : toSend'[k] # NoPlan => k # s /\ toSend'[k] = toSend[k]
  BY <1>1, <1>2, Zenon
<1>5. SendsTimely'
  BY <1>1, <1>3, <1>4, Zenon DEF LossInv, SendsTimely
<1>6. ASSUME LossesCounted, NEW k \in Rules \X Collectors, ledger[k] # NoTask,
             ledger[k].age >= Renewal, ~(phase = "send" /\ k \in landed')
      PROVE  losses'[k] = MaxLosses
             \/ losses'[k] >= ledger[k].age - Renewal + (IF Awaiting(k)' THEN 0 ELSE 1)
  <2>1. ~(phase = "send" /\ k \in landed)
    BY <1>1, <1>6, Zenon
  <2>2. \/ losses[k] = MaxLosses
        \/ losses[k] >= ledger[k].age - Renewal + (IF Awaiting(k) THEN 0 ELSE 1)
    BY <1>6, <2>1, Zenon DEF LossesCounted
  <2>3. CASE k # s
    <3>1. losses'[k] = losses[k] /\ toSend'[k] = toSend[k]
      BY <1>1, <1>2, <2>3, Zenon
    <3>2. Awaiting(k)' <=> Awaiting(k)
      BY <1>1, <3>1, Zenon DEF Awaiting
    <3> QED
      BY <2>2, <3>1, <3>2, Zenon
  <2>4. CASE k = s
    <3>1. ~(phase = "reissue" /\ ledger[k].age = 0) /\ ledger[k].age # 0
      BY <1>6, TtlAssumption
    <3>2. phase = "send"
      BY <1>1, <1>3, <1>6, <2>4, <3>1, Zenon DEF LossInv, SendsTimely
    <3>3. losses'[k] = IF losses[k] < MaxLosses THEN losses[k] + 1 ELSE losses[k]
      BY <1>1, <1>2, <1>6, <2>4, <3>2, Zenon
    <3>4. Awaiting(k)
      BY <1>1, <2>4, Zenon DEF Awaiting
    <3>5. losses[k] = MaxLosses \/ losses[k] >= ledger[k].age - Renewal + 0
      BY <2>2, <3>4, Zenon
    <3>6. losses[k] \in 0 .. MaxLosses /\ ledger[k].age \in 0 .. Ttl
      BY <1>6, TaskTypes, Zenon
    <3>7. losses'[k] = MaxLosses \/ losses'[k] >= ledger[k].age - Renewal + 1
      BY ONLY <3>3, <3>5, <3>6, TtlAssumption, BoundsAssumption
    <3>8. losses'[k] = MaxLosses \/ losses'[k] >= ledger[k].age - Renewal + 0
      BY ONLY <3>3, <3>5, <3>6, TtlAssumption, BoundsAssumption
    <3> QED
      BY <3>7, <3>8, Zenon
  <2> QED
    BY <2>3, <2>4, Zenon
<1>7. LossesCounted => LossesCounted'
  BY <1>1, <1>6, Zenon DEF LossesCounted
<1> QED
  BY <1>5, <1>7, Zenon DEF LossInv

LEMMA RecordRenewalsLosses ==
  ASSUME TypeOK, LossInv, RecordRenewals
  PROVE  LossInv'
<1>1. /\ phase = "send" /\ phase' = "idle" /\ NothingToSend
      /\ UNCHANGED <<due, toSend, losses>>
      /\ \A k \in Rules \X Collectors :
           ledger'[k] = IF k \in landed /\ ledger[k] # NoTask
                        THEN [ledger[k] EXCEPT !.age = 0] ELSE ledger[k]
  BY TaskTypes, Zenon DEF RecordRenewals
<1>2. ~due /\ SendsTimely'
  BY <1>1, Zenon DEF LossInv, SendsTimely, NothingToSend
<1>3. \A k \in Rules \X Collectors : ~Awaiting(k) /\ ~Awaiting(k)'
  BY <1>1, <1>2, TaskTypes, Zenon DEF Awaiting, NothingToSend
<1>4. \A t \in Task : [t EXCEPT !.age = 0].age = 0
  BY DEF Task
<1>5. ASSUME LossesCounted, NEW k \in Rules \X Collectors, ledger'[k] # NoTask, ledger'[k].age >= Renewal
      PROVE  losses'[k] = MaxLosses \/ losses'[k] >= ledger'[k].age - Renewal + 1
  <2>1. ledger'[k].age # 0
    BY <1>5, TtlAssumption
  <2>2. k \notin landed \/ ledger[k] = NoTask
    BY <1>1, <1>4, <2>1, TaskTypes, Zenon
  <2>3. ledger'[k] = ledger[k] /\ k \notin landed /\ losses'[k] = losses[k]
    BY <1>1, <1>5, <2>2, Zenon
  <2> QED
    BY <1>3, <1>5, <2>3, Zenon DEF LossesCounted
<1>6. LossesCounted => LossesCounted'
  BY <1>3, <1>5, Zenon DEF LossesCounted
<1> QED
  BY <1>2, <1>6, Zenon DEF LossInv

LEMMA TickLosses ==
  ASSUME TypeOK, LossInv, Tick
  PROVE  LossInv'
<1>1. /\ phase = "idle" /\ phase' = "idle" /\ due' /\ (due => Stalls) /\ UNCHANGED <<toSend, losses>>
      /\ \A k \in Rules \X Collectors : ledger'[k] = Older(ledger[k])
  BY TaskTypes, Zenon DEF Tick
<1>2. SendsTimely'
  BY <1>1, Zenon DEF LossInv, SendsTimely, NothingToSend
<1>3. ASSUME ~Stalls, LossesCounted, NEW k \in Rules \X Collectors, ledger'[k] # NoTask,
             ledger'[k].age >= Renewal
      PROVE  losses'[k] = MaxLosses \/ losses'[k] >= ledger'[k].age - Renewal + 0
  <2>1. ledger[k] # NoTask /\ ledger[k] \in Task
    BY <1>1, <1>3, TaskTypes, Zenon DEF Older
  <2>2. [ledger[k] EXCEPT !.age = ledger[k].age + 1].age = ledger[k].age + 1
    BY <2>1 DEF Task
  <2>3. ledger'[k].age = IF ledger[k].age = Ttl THEN Ttl ELSE ledger[k].age + 1
    BY <1>1, <2>1, <2>2, Zenon DEF Older
  <2>4. ~Awaiting(k)
    BY <1>1, <1>3, TaskTypes, Zenon DEF Awaiting, LossInv, SendsTimely, NothingToSend
  <2>5. ledger[k].age >= Renewal =>
          losses[k] = MaxLosses \/ losses[k] >= ledger[k].age - Renewal + 1
    BY <1>1, <1>3, <2>1, <2>4, Zenon DEF LossesCounted
  <2>6. losses[k] \in 0 .. MaxLosses /\ ledger[k].age \in 0 .. Ttl /\ losses'[k] = losses[k]
    BY <1>1, <2>1, TaskTypes, Zenon
  <2> QED
    BY ONLY <1>3, <2>3, <2>5, <2>6, TtlAssumption, BoundsAssumption
<1>4. \A k \in Rules \X Collectors : Awaiting(k)'
  BY <1>1, Zenon DEF Awaiting
<1>5. ~Stalls /\ LossesCounted => LossesCounted'
  BY <1>3, <1>4, Zenon DEF LossesCounted
<1> QED
  BY <1>2, <1>5, Zenon DEF LossInv

LEMMA LossStep ==
  ASSUME TypeOK, LossInv, [Next]_vars
  PROVE  LossInv'
<1> USE DEF loopVars
<1>1. \A gone : \A k \in Rules \X Collectors : WithoutTasks(ledger, gone)[k] \in {NoTask, ledger[k]}
  BY TaskTypes, Zenon DEF WithoutTasks
<1>2. ASSUME NEW r \in Rules, NEW b \in Bodies, NEW on \in BOOLEAN, LoadRule(r, b, on)
      PROVE  LossInv'
  <2>1. ledger' = WithoutTasks(ledger, {r}) /\ UNCHANGED <<due, toSend, losses, landed, phase>>
    BY <1>2, Zenon DEF LoadRule
  <2> QED
    BY <1>1, <2>1, LossesLeft, Zenon
<1>3. ASSUME NEW r \in Rules, RemoveRule(r) PROVE LossInv'
  <2>1. ledger' = WithoutTasks(ledger, {r}) /\ UNCHANGED <<due, toSend, losses, landed, phase>>
    BY <1>3, Zenon DEF RemoveRule
  <2> QED
    BY <1>1, <2>1, LossesLeft, Zenon
<1>4. ASSUME UNCHANGED <<ledger, due, toSend, losses, landed, phase>> PROVE LossInv'
  BY <1>4, LossesLeft, Zenon
<1>5. \A r \in Rules, on \in BOOLEAN : SetRuleEnabled(r, on) =>
        UNCHANGED <<ledger, due, toSend, losses, landed, phase>>
  BY Zenon DEF SetRuleEnabled
<1>6. \A c \in Collectors : OweTasks(c) \/ CollectorRestart(c) =>
        UNCHANGED <<ledger, due, toSend, losses, landed, phase>>
  BY Zenon DEF OweTasks, CollectorRestart
<1>7. ASSUME NEW c \in Collectors, NEW d \in Descriptors, Register(c, d)
      PROVE  UNCHANGED <<ledger, due, toSend, losses, landed, phase>>
  BY <1>7, Zenon DEF Register
<1>8. UNCHANGED vars => UNCHANGED <<ledger, due, toSend, losses, landed, phase>>
  BY Zenon DEF vars
<1>9. CASE StartEvaluation
  <2>1. /\ UNCHANGED <<ledger, due, toSend, losses, landed>>
        /\ phase = "idle" /\ phase' = "evaluate"
    BY <1>9, Zenon DEF StartEvaluation
  <2> QED
    BY <2>1, LossesLeft, Zenon
<1>10. ASSUME NEW slow \in SUBSET Rules, ApplyOutcome(slow) PROVE LossInv'
  <2>1. /\ UNCHANGED <<ledger, due, toSend, losses, landed>>
        /\ phase = "evaluate" /\ phase' = "idle"
    BY <1>10, Zenon DEF ApplyOutcome
  <2> QED
    BY <2>1, LossesLeft, Zenon
<1>11. ASSUME NEW c \in Collectors, ReissueTo(c) PROVE LossInv'
  BY <1>11, ReissueToLosses, Zenon
<1>12. ASSUME NEW k \in Rules \X Collectors, Send(k) PROVE LossInv'
  BY <1>12, SendLosses, Zenon
<1>13. CASE StartRenewal \/ RenewalCycle \/ RecordRenewals \/ Tick
  BY <1>13, StartRenewalLosses, RenewalCycleLosses, RecordRenewalsLosses, TickLosses, Zenon
<1> QED
  BY <1>2, <1>3, <1>4, <1>5, <1>6, <1>7, <1>8, <1>9, <1>10, <1>11, <1>12, <1>13, Zenon DEF Next

\* Only a renewal cycle expires a rule, and one of whose tasks the TTL ran out.
LEMMA ExpiryStep ==
  ASSUME EngineInv, LossInv, [Next]_vars, Renewal > 1, MaxLosses > 2, ~Stalls,
         NEW r \in Rules, health[r] # "expired", health'[r] = "expired"
  PROVE  \E c \in Collectors : losses[<<r, c>>] > 2
<1>1. ASSUME NEW s \in Rules, NEW b \in Bodies, NEW on \in BOOLEAN, LoadRule(s, b, on)
      PROVE  FALSE
  <2>1. \E h \in {"untracked", "healthy"} : health' = [health EXCEPT ![s] = h]
    BY <1>1, Zenon DEF LoadRule
  <2>2. health \in [Rules -> Causes \cup {"untracked", "healthy"}]
    BY Zenon DEF EngineInv, TypeOK
  <2> QED
    BY <2>1, <2>2, Zenon
<1>2. ASSUME NEW s \in Rules, RemoveRule(s) PROVE FALSE
  <2>1. health' = [health EXCEPT ![s] = "untracked"]
    BY <1>2, Zenon DEF RemoveRule
  <2>2. health \in [Rules -> Causes \cup {"untracked", "healthy"}]
    BY Zenon DEF EngineInv, TypeOK
  <2> QED
    BY <2>1, <2>2, Zenon
<1>3. ASSUME NEW c \in Collectors, NEW d \in Descriptors, Register(c, d) PROVE FALSE
  <2>1. health'[r] \in {"reference", "healthy", health[r]}
    BY <1>3, Zenon DEF Register
  <2> QED
    BY <2>1, Zenon
<1>4. ASSUME NEW slow \in SUBSET Rules, ApplyOutcome(slow) PROVE FALSE
  <2>1. health'[r] \in {"latched", health[r]}
    BY <1>4, Zenon DEF ApplyOutcome
  <2> QED
    BY <2>1, Zenon
<1>5. RenewalCycle
  BY <1>1, <1>2, <1>3, <1>4, Zenon
     DEF Next, vars, ruleVars, SetRuleEnabled, OweTasks, CollectorRestart, StartRenewal,
         RecordRenewals, ReissueTo, Send, StartEvaluation, Tick
<1>6. r \in Lapsed /\ phase = "reissue"
  BY <1>5, Zenon DEF RenewalCycle
<1>7. PICK c \in Collectors : Tracked[<<r, c>>] # NoTask /\ Tracked[<<r, c>>].age >= Ttl
  BY <1>6, Zenon DEF Lapsed
<1>8. <<r, c>> \in Rules \X Collectors
  BY Zenon
<1>9. TypeOK
  BY Zenon DEF EngineInv
<1>10. Tracked[<<r, c>>] = ledger[<<r, c>>]
  BY <1>7, <1>8, <1>9, TaskTypes, Zenon DEF Tracked, WithoutTasks
<1>11. Awaiting(<<r, c>>)
  BY <1>6, Zenon DEF Awaiting
<1>12. ledger[<<r, c>>].age \in 0 .. Ttl /\ losses[<<r, c>>] \in 0 .. MaxLosses
  BY <1>7, <1>8, <1>9, <1>10, TaskTypes, Zenon
<1>13. ledger[<<r, c>>].age = Ttl /\ Ttl >= Renewal
  BY ONLY <1>7, <1>10, <1>12, TtlAssumption
<1>14. ledger[<<r, c>>] # NoTask
  BY <1>7, <1>10, Zenon
<1>15. losses[<<r, c>>] = MaxLosses \/ losses[<<r, c>>] >= Ttl - Renewal + 0
  BY <1>6, <1>8, <1>11, <1>13, <1>14, Zenon DEF LossInv, LossesCounted
<1> QED
  BY <1>12, <1>15, TtlAssumption, BoundsAssumption

\* A rule expires only after three sends in a row of one of its tasks were lost,
\* as long as no scan holds the loop past a tick: what main.rs says of ticking
\* at half the renewal interval (a renewal interval of more than one tick), and
\* detection_bounds.rs of the interval itself.  The losses are counted up to a
\* bound, which has to be above the two in question.
THEOREM LossesSurvived ==
  ASSUME Renewal > 1, MaxLosses > 2
  PROVE  Spec => TwoLossesSurvive
<1>1. Init => EngineInv /\ LossInv
  <2> SUFFICES ASSUME Init PROVE LossInv
    BY EngineInit, Zenon
  <2> QED
    BY Zenon DEF Init, LossInv, SendsTimely, LossesCounted, NothingToSend
<1>2. EngineInv /\ LossInv /\ [Next]_vars => EngineInv' /\ LossInv'
  BY EngineStep, LossStep, Zenon DEF EngineInv
<1>3. EngineInv /\ LossInv /\ [Next]_vars =>
        [\A r \in Rules : ~Stalls /\ health[r] # "expired" /\ health'[r] = "expired" =>
           \E c \in Collectors : losses[<<r, c>>] > 2]_vars
  BY ExpiryStep, Zenon
<1> QED
  BY <1>1, <1>2, <1>3, PTL DEF Spec, TwoLossesSurvive
===============================================================================
