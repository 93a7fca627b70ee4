-------------------------- MODULE AgentStartupProofs --------------------------
(***************************************************************************)
(* Proofs about AgentStartup, for any collectors, any number of attempts,  *)
(* any number of processes and any faults:                                 *)
(*   - a running collector is registered as the process it is;             *)
(*   - an agent that is Ready has admitted every enabled collector;        *)
(*   - an agent in SteadyState has begun monitoring;                       *)
(*   - start-up does not fail once everybody was found ready;              *)
(*   - a collector on record has its client and its readiness;             *)
(*   - without faults nobody is turned away.                               *)
(***************************************************************************)
EXTENDS AgentStartup, TLAPS

-----------------------------------------------------------------------------
(* The inductive invariant of the registration service.                    *)

\* Nothing happens before the broker is up, and nobody is expected before the
\* configuration is set.
Beginning ==
  /\ main \in {"starting", "config"} => expected = {}
  /\ main = "starting" => calls = {} /\ \A c \in Collectors : col[c].pc = "off"

\* Requests are of processes that have been started, and an attempt that is
\* still to be made has sent nothing.
Numbered ==
  \A r \in calls :
    /\ 1 <= r.life /\ r.life <= col[r.c].life
    /\ r.op = "register" /\ r.life = col[r.c].life
         => /\ r.n <= col[r.c].attempt
            /\ r.n = col[r.c].attempt => col[r.c].pc # "boot"

\* A process that is not off has been started.
Started == \A c \in Collectors : col[c].pc # "off" => 1 <= col[c].life

\* A process that has asked to be deregistered does nothing else any more.
Departing ==
  \A r \in calls :
    r.op = "deregister" /\ r.life = col[r.c].life => col[r.c].pc \in {"leave", "off"}

\* One handler at most holds the lock of the registry.
OneHolder ==
  \A r, q \in calls : r.stage = "admit" /\ q.stage = "admit" => r = q

\* The holder of the lock has found no record.
HolderFoundNone ==
  up => \A r \in calls : r.stage = "admit" => r.op = "register" /\ registry[r.c] = 0

\* A deregistration yet to be handled is of the process on record.
DepartingOnRecord ==
  up => \A r \in calls :
          r.op = "deregister" /\ r.stage = "sent" => registry[r.c] = r.life

\* There is one such deregistration of a collector at most.
OneDeparture ==
  up => \A r, q \in calls :
          (/\ r.op = "deregister" /\ r.stage = "sent"
           /\ q.op = "deregister" /\ q.stage = "sent" /\ r.c = q.c) => r = q

\* A process that waits for a registration past the insert is on record.
WaitingOnRecord ==
  up => \A r \in calls :
          r.op = "register" /\ r.stage \in {"client", "mark"} /\ Waiting(r)
            => registry[r.c] = r.life

Handshake ==
  /\ Numbered /\ Departing /\ OneHolder /\ HolderFoundNone
  /\ DepartingOnRecord /\ OneDeparture /\ WaitingOnRecord /\ RunningIsRegistered

RegistrationInv == TypeOK /\ Beginning /\ Started /\ Handshake

-----------------------------------------------------------------------------
(* The inductive invariant of start-up.                                    *)

\* Whoever is ready, or about to be marked, has been admitted.
ReadyAdmitted ==
  /\ ready \subseteq admitted
  /\ \A r \in calls : r.op = "register" /\ r.stage \in {"client", "mark"}
                        => r.c \in admitted

BeforeReady == {"starting", "config", "waiting", "expired", "ready"}

\* How far main has come tells the state of the agent, and from the poll that
\* found everybody ready on everybody stays so.
StartupOrder ==
  /\ main \notin {"starting", "config"} => expected = Enabled
  /\ main \in BeforeReady => agentState = "Loading"
  /\ main = "steady" => agentState = "Ready"
  /\ main = "ready" \/ agentState \in {"Ready", "SteadyState"} => Enabled \subseteq ready

StartupInv == ReadyAdmitted /\ StartupOrder /\ SteadyMeansBegun

-----------------------------------------------------------------------------
(* Registration.                                                           *)

Process == [pc : {"off", "boot", "call", "run", "leave"}, life : Nat,
            attempt : 0..RetryAttempts]
Stages  == {"sent", "admit", "client", "mark", "refused"}

\* A request whose handler has moved on is the same request.
LEMMA Moved ==
  ASSUME NEW r \in Requests, NEW s \in Stages
  PROVE  /\ [r EXCEPT !.stage = s] \in Requests
         /\ [r EXCEPT !.stage = s].stage = s
         /\ [r EXCEPT !.stage = s].c = r.c
         /\ [r EXCEPT !.stage = s].op = r.op
         /\ [r EXCEPT !.stage = s].life = r.life
         /\ [r EXCEPT !.stage = s].n = r.n
BY Zenon DEF Requests, Stages

\* A handler that moves on without touching the registry keeps the handshake,
\* provided that it takes the lock only when it is free and no record stands,
\* and does not get past the insert.
LEMMA MoveKeeps ==
  ASSUME TypeOK, Handshake, NEW r \in calls, NEW s \in Stages \ {"sent"},
         MoveTo(r, s), UNCHANGED <<up, registry, col>>,
         s = "admit" => r.op = "register" /\ ~Locked /\ registry[r.c] = 0,
         r.op = "register" /\ s \in {"client", "mark"} => r.stage \in {"client", "mark"}
  PROVE  Handshake'
<1> DEFINE m == [r EXCEPT !.stage = s]
<1>1. calls' = (calls \ {r}) \cup {m}
  BY Zenon DEF MoveTo
<1>2. r \in Requests
  BY Zenon DEF TypeOK
<1>3. /\ m.stage = s /\ m.c = r.c /\ m.op = r.op /\ m.life = r.life /\ m.n = r.n
  BY <1>2, Moved, Zenon
<1> HIDE DEF m
<1>4. Numbered' /\ Departing'
  BY <1>1, <1>3 DEF Handshake, Numbered, Departing
<1>5. OneHolder'
  BY <1>1, <1>3, Zenon DEF Handshake, OneHolder, Locked
<1>6. HolderFoundNone'
  BY <1>1, <1>3, Zenon DEF Handshake, HolderFoundNone
<1>7. DepartingOnRecord' /\ OneDeparture'
  BY <1>1, <1>3 DEF Handshake, DepartingOnRecord, OneDeparture
<1>8. WaitingOnRecord'
  BY <1>1, <1>3 DEF Handshake, WaitingOnRecord, Waiting
<1>9. RunningIsRegistered'
  BY Zenon DEF Handshake, RunningIsRegistered
<1> QED
  BY <1>4, <1>5, <1>6, <1>7, <1>8, <1>9, Zenon DEF Handshake

\* How an unsuccessful end of a call, a crash or a kill changes a process.
Recedes(c) ==
  /\ col'[c].life = col[c].life
  /\ \/ col'[c] = col[c]
     \/ col'[c].pc = "off" /\ col'[c].attempt = col[c].attempt
     \/ /\ col[c].pc = "call" /\ col'[c].pc = "boot"
        /\ col'[c].attempt = col[c].attempt + 1

\* Requests that end, and processes that recede, keep the handshake.
LEMMA EndKeeps ==
  ASSUME TypeOK, Handshake, calls' \subseteq calls, UNCHANGED <<up, registry>>,
         \A c \in Collectors : Recedes(c)
  PROVE  Handshake'
<1>1. \A r \in calls : r.c \in Collectors /\ r.n \in Nat /\ r \in Requests
  BY StartupAssumption DEF TypeOK, Requests
<1>2. \A c \in Collectors : col[c].attempt \in Nat
  BY StartupAssumption DEF TypeOK
<1>3. Numbered'
  BY <1>1, <1>2 DEF Handshake, Numbered, Recedes
<1>4. Departing'
  BY <1>1, Zenon DEF Handshake, Departing, Recedes
<1>5. OneHolder' /\ HolderFoundNone' /\ DepartingOnRecord' /\ OneDeparture'
  BY Zenon DEF Handshake, OneHolder, HolderFoundNone, DepartingOnRecord, OneDeparture
<1>6. WaitingOnRecord'
  BY <1>1 DEF Handshake, WaitingOnRecord, Waiting, Recedes
<1>7. RunningIsRegistered'
  BY Zenon DEF Handshake, RunningIsRegistered, Recedes
<1> QED
  BY <1>3, <1>4, <1>5, <1>6, <1>7, Zenon DEF Handshake

\* The insert: no record stood, so nobody who counted on a record loses it.
LEMMA InsertKeeps ==
  ASSUME TypeOK, Handshake, NEW r \in calls, InsertRecord(r)
  PROVE  Handshake'
<1> DEFINE m == [r EXCEPT !.stage = "client"]
<1>1. calls' = (calls \ {r}) \cup {m} /\ up /\ up' /\ col' = col
  BY Zenon DEF InsertRecord, MoveTo, agent
<1>2. r \in Requests /\ r.c \in Collectors /\ \A q \in calls : q.c \in Collectors /\ q.life \in Nat
  BY Zenon DEF TypeOK, Requests
<1>3. m.stage = "client" /\ m.c = r.c /\ m.op = r.op /\ m.life = r.life /\ m.n = r.n
  BY <1>2, Moved, Zenon DEF Stages
<1> HIDE DEF m
<1>4. /\ registry[r.c] = 0 /\ registry'[r.c] = r.life
      /\ \A c \in Collectors : c # r.c => registry'[c] = registry[c]
  BY <1>1, <1>2, Zenon DEF InsertRecord, Handshake, HolderFoundNone, TypeOK
<1>5. Numbered' /\ Departing'
  BY <1>1, <1>3 DEF Handshake, Numbered, Departing
<1>6. OneHolder' /\ \A q \in calls' : q.stage # "admit"
  BY <1>1, <1>3, Zenon DEF Handshake, OneHolder, InsertRecord
<1>7. HolderFoundNone'
  BY <1>6, Zenon DEF HolderFoundNone
<1>8. DepartingOnRecord' /\ OneDeparture'
  BY <1>1, <1>2, <1>3, <1>4 DEF Handshake, DepartingOnRecord, OneDeparture, Numbered
<1>9. WaitingOnRecord'
  BY <1>1, <1>2, <1>3, <1>4 DEF Handshake, WaitingOnRecord, Waiting, Numbered
<1>10. RunningIsRegistered'
  <2> SUFFICES ASSUME NEW c \in Collectors, col[c].pc = "run" PROVE registry'[c] = col[c].life
    BY <1>1, Zenon DEF RunningIsRegistered
  <2>1. registry[c] = col[c].life
    BY <1>1, Zenon DEF Handshake, RunningIsRegistered
  <2>2. CASE c = r.c
    BY <2>1, <2>2, <1>2, <1>4 DEF Handshake, Numbered
  <2> QED
    BY <2>1, <2>2, <1>4, Zenon
<1> QED
  BY <1>5, <1>6, <1>7, <1>8, <1>9, <1>10, Zenon DEF Handshake

\* The removal: the record is that of the process that asked for it, which
\* neither runs nor registers any more.
LEMMA RemoveKeeps ==
  ASSUME TypeOK, Handshake, NEW r \in calls, RemoveRecord(r)
  PROVE  Handshake'
<1> DEFINE s == IF Vacant(r.c) THEN "refused" ELSE "client"
           m == [r EXCEPT !.stage = s]
<1>1. calls' = (calls \ {r}) \cup {m} /\ up /\ up' /\ col' = col
  BY Zenon DEF RemoveRecord, MoveTo, agent
<1>2. r \in Requests /\ r.c \in Collectors /\ \A q \in calls : q.c \in Collectors /\ q.life \in Nat
  BY Zenon DEF TypeOK, Requests
<1>3. m.stage \in {"refused", "client"} /\ m.c = r.c /\ m.op = "deregister"
      /\ m.life = r.life /\ m.n = r.n
  BY <1>2, Moved DEF Stages, RemoveRecord
<1> HIDE DEF m
<1>4. /\ registry[r.c] = r.life /\ registry'[r.c] = 0
      /\ \A c \in Collectors : c # r.c => registry'[c] = registry[c]
  BY <1>1, <1>2, Zenon DEF RemoveRecord, RecordsWithout, Handshake, DepartingOnRecord, TypeOK
<1>5. Numbered' /\ Departing'
  BY <1>1, <1>3 DEF Handshake, Numbered, Departing, RemoveRecord
<1>6. OneHolder' /\ \A q \in calls' : q.stage # "admit"
  BY <1>1, <1>3, Zenon DEF Handshake, OneHolder, RemoveRecord, Locked
<1>7. HolderFoundNone'
  BY <1>6, Zenon DEF HolderFoundNone
<1>8. DepartingOnRecord' /\ OneDeparture'
  BY <1>1, <1>2, <1>3, <1>4 DEF Handshake, DepartingOnRecord, OneDeparture, RemoveRecord
<1>9. col[r.c].life = r.life => col[r.c].pc \in {"leave", "off"}
  BY Zenon DEF Handshake, Departing, RemoveRecord
<1>10. WaitingOnRecord'
  BY <1>1, <1>2, <1>3, <1>4, <1>9 DEF Handshake, WaitingOnRecord, Waiting
<1>11. RunningIsRegistered'
  BY <1>1, <1>4, <1>9, Zenon DEF Handshake, RunningIsRegistered
<1> QED
  BY <1>5, <1>6, <1>7, <1>8, <1>10, <1>11, Zenon DEF Handshake

\* A collector that waits for a registration past the insert is on record, and
\* so may run.
LEMMA MarkKeeps ==
  ASSUME TypeOK, Handshake, NEW r \in calls, MarkCollectorReady(r)
  PROVE  Handshake'
<1>1. /\ calls' = calls \ {r} /\ up /\ up' /\ registry' = registry
      /\ r.op = "register" /\ r.stage = "mark" /\ r.c \in Collectors
  BY Zenon DEF MarkCollectorReady, agent, TypeOK, Requests
<1>2. CASE ~Waiting(r)
  <2>1. \A c \in Collectors : Recedes(c)
    BY <1>2, Zenon DEF MarkCollectorReady, Recedes
  <2> QED
    BY <2>1, <1>1, EndKeeps, Zenon
<1>3. CASE Waiting(r)
  <2>1. col' = [col EXCEPT ![r.c].pc = "run"]
    BY <1>3, Zenon DEF MarkCollectorReady, Accept
  <2>2. /\ col'[r.c].pc = "run" /\ col'[r.c].life = col[r.c].life
        /\ col'[r.c].attempt = col[r.c].attempt /\ col[r.c].pc = "call"
        /\ col[r.c].life = r.life
        /\ \A c \in Collectors : c # r.c => col'[c] = col[c]
    BY <2>1, <1>1, <1>3, Zenon DEF TypeOK, Waiting
  <2>3. registry[r.c] = r.life
    BY <1>1, <1>3, Zenon DEF Handshake, WaitingOnRecord
  <2>4. \A q \in calls : q.c \in Collectors
    BY Zenon DEF TypeOK, Requests
  <2>5. Numbered' /\ Departing'
    BY <1>1, <2>2, <2>4 DEF Handshake, Numbered, Departing
  <2>6. OneHolder' /\ HolderFoundNone' /\ DepartingOnRecord' /\ OneDeparture'
    BY <1>1 DEF Handshake, OneHolder, HolderFoundNone, DepartingOnRecord, OneDeparture
  <2>7. WaitingOnRecord'
    BY <1>1, <2>2, <2>4 DEF Handshake, WaitingOnRecord, Waiting
  <2>8. RunningIsRegistered'
    BY <1>1, <2>2, <2>3, Zenon DEF Handshake, RunningIsRegistered
  <2> QED
    BY <2>5, <2>6, <2>7, <2>8, Zenon DEF Handshake
<1> QED
  BY <1>2, <1>3, Zenon

\* A new process has no requests under way.
LEMMA StartKeeps ==
  ASSUME TypeOK, Handshake, NEW c \in Collectors, CollectorStarts(c)
  PROVE  Handshake'
<1>1. UNCHANGED <<calls, up, registry>> /\ col[c].life \in Nat
  BY Zenon DEF CollectorStarts, agent, service, TypeOK
<1>2. /\ col'[c].pc = "boot" /\ col'[c].life = col[c].life + 1
      /\ \A d \in Collectors : d # c => col'[d] = col[d]
  BY Zenon DEF CollectorStarts, TypeOK
<1>3. \A q \in calls : q.c \in Collectors /\ q.life \in Nat
  BY Zenon DEF TypeOK, Requests
<1>4. \A q \in calls : q.c = c => q.life < col'[c].life
  BY <1>1, <1>2, <1>3 DEF Handshake, Numbered
<1>5. Numbered'
  BY <1>1, <1>2, <1>3, <1>4 DEF Handshake, Numbered
<1>6. Departing'
  BY <1>1, <1>2, <1>3, <1>4 DEF Handshake, Departing
<1>7. OneHolder' /\ HolderFoundNone' /\ DepartingOnRecord' /\ OneDeparture'
  BY <1>1, Zenon DEF Handshake, OneHolder, HolderFoundNone, DepartingOnRecord, OneDeparture
<1>8. WaitingOnRecord'
  BY <1>1, <1>2, <1>3, <1>4 DEF Handshake, WaitingOnRecord, Waiting
<1>9. RunningIsRegistered'
  BY <1>1, <1>2, Zenon DEF Handshake, RunningIsRegistered
<1> QED
  BY <1>5, <1>6, <1>7, <1>8, <1>9, Zenon DEF Handshake

\* The request that Send adds.
Sent(c, op) == [c |-> c, life |-> col[c].life, op |-> op, n |-> col[c].attempt,
                stage |-> "sent"]

\* A registration is sent by a process that has none of the same number under way.
LEMMA DispatchKeeps ==
  ASSUME TypeOK, Handshake, NEW c \in Collectors, DispatchRegistration(c),
         col[c].life >= 1
  PROVE  Handshake'
<1> DEFINE m == Sent(c, "register")
<1>1. calls' = calls \cup {m} /\ UNCHANGED <<up, registry>> /\ col[c].pc = "boot"
  BY Zenon DEF DispatchRegistration, Send, Sent, agent
<1>2. /\ col'[c].pc = "call" /\ col'[c].life = col[c].life /\ col'[c].attempt = col[c].attempt
      /\ \A d \in Collectors : d # c => col'[d] = col[d]
  BY Zenon DEF DispatchRegistration, TypeOK
<1>3. /\ m.c = c /\ m.op = "register" /\ m.life = col[c].life /\ m.n = col[c].attempt
      /\ m.stage = "sent"
  BY Zenon DEF Sent
<1> HIDE DEF m
<1>4. /\ \A q \in calls : q.c \in Collectors /\ q.life \in Nat /\ q.n \in Nat
      /\ col[c].life \in Nat /\ col[c].attempt \in Nat
  BY StartupAssumption DEF TypeOK, Requests
<1>5. Numbered'
  BY <1>1, <1>2, <1>3, <1>4 DEF Handshake, Numbered
<1>6. Departing'
  BY <1>1, <1>2, <1>3, <1>4 DEF Handshake, Departing
<1>7. OneHolder' /\ HolderFoundNone' /\ DepartingOnRecord' /\ OneDeparture'
  BY <1>1, <1>3 DEF Handshake, OneHolder, HolderFoundNone, DepartingOnRecord, OneDeparture
<1>8. WaitingOnRecord'
  BY <1>1, <1>2, <1>3, <1>4 DEF Handshake, WaitingOnRecord, Waiting, Numbered
<1>9. RunningIsRegistered'
  BY <1>1, <1>2, Zenon DEF Handshake, RunningIsRegistered
<1> QED
  BY <1>5, <1>6, <1>7, <1>8, <1>9, Zenon DEF Handshake

\* A deregistration is sent by a running process, whose record stands.
LEMMA LeaveKeeps ==
  ASSUME TypeOK, Handshake, NEW c \in Collectors, col[c].pc = "run",
         col' = [col EXCEPT ![c] = Shutdown(@)], Send(c, "deregister"),
         UNCHANGED <<up, registry>>, col[c].life >= 1
  PROVE  Handshake'
<1> DEFINE m == Sent(c, "deregister")
<1>1. calls' = calls \cup {m}
  BY Zenon DEF Send, Sent
<1>2. /\ col'[c].pc = "leave" /\ col'[c].life = col[c].life /\ col'[c].attempt = col[c].attempt
      /\ \A d \in Collectors : d # c => col'[d] = col[d]
  BY Zenon DEF Shutdown, TypeOK
<1>3. /\ m.c = c /\ m.op = "deregister" /\ m.life = col[c].life /\ m.n = col[c].attempt
      /\ m.stage = "sent"
  BY Zenon DEF Sent
<1> HIDE DEF m
<1>4. /\ \A q \in calls : q.c \in Collectors /\ q.life \in Nat
      /\ col[c].life \in Nat
  BY Zenon DEF TypeOK, Requests
<1>5. Numbered'
  BY <1>1, <1>2, <1>3, <1>4 DEF Handshake, Numbered
<1>6. Departing'
  BY <1>1, <1>2, <1>3, <1>4 DEF Handshake, Departing
<1>7. OneHolder' /\ HolderFoundNone'
  BY <1>1, <1>3, Zenon DEF Handshake, OneHolder, HolderFoundNone
<1>8. DepartingOnRecord'
  BY <1>1, <1>3, Zenon DEF Handshake, DepartingOnRecord, RunningIsRegistered
<1>9. up => \A q \in calls : q.op = "deregister" /\ q.stage = "sent" => q.c # c
  BY Zenon DEF Handshake, DepartingOnRecord, RunningIsRegistered, Departing
<1>10. OneDeparture'
  BY <1>1, <1>3, <1>9 DEF Handshake, OneDeparture
<1>11. WaitingOnRecord'
  BY <1>1, <1>2, <1>3, <1>4 DEF Handshake, WaitingOnRecord, Waiting
<1>12. RunningIsRegistered'
  BY <1>2, Zenon DEF Handshake, RunningIsRegistered
<1> QED
  BY <1>5, <1>6, <1>7, <1>8, <1>10, <1>11, <1>12, Zenon DEF Handshake

\* Init establishes the invariant.
LEMMA RegistrationInit == Init => RegistrationInv
<1> SUFFICES ASSUME Init PROVE RegistrationInv
  BY Zenon
<1>0. faults \in SUBSET Faults /\ 0 \in 0..RetryAttempts
  BY StartupAssumption DEF Init
<1>1. TypeOK
  <2>1. col \in [Collectors -> Process] /\ \A c \in Collectors : col[c].life = 0
    BY <1>0, Zenon DEF Init, Process
  <2>2. /\ registry \in [Collectors -> Nat] /\ token \in [Collectors -> Nat]
        /\ \A c \in Collectors : {registry[c], token[c]} \subseteq 0..col[c].life
    BY <2>1 DEF Init
  <2>3. main \in Places /\ agentState \in AgentStates
    BY Zenon DEF Init, Places, AgentStates
  <2> QED
    BY <1>0, <2>1, <2>2, <2>3, Zenon DEF Init, TypeOK, Process
<1>2. Beginning /\ Started
  BY Zenon DEF Init, Beginning, Started
<1>3. Handshake
  BY Zenon DEF Init, Handshake, Numbered, Departing, OneHolder, HolderFoundNone,
         DepartingOnRecord, OneDeparture, WaitingOnRecord, RunningIsRegistered
<1> QED
  BY <1>1, <1>2, <1>3, Zenon DEF RegistrationInv

\* Start-up leaves requests, records and processes alone; the registry appears
\* when there are none, and disappears when start-up fails.
LEMMA RegistrationMain == RegistrationInv /\ StartupStep => RegistrationInv'
<1> SUFFICES ASSUME RegistrationInv, StartupStep PROVE RegistrationInv'
  BY Zenon
<1>1. UNCHANGED <<ready, registry, clients, calls, token, col, faults,
                  admitted, early, crossed, turned>>
  BY Zenon DEF StartupStep, service, history
<1> USE DEF RegistrationInv
<1>2. /\ main' \in Places /\ agentState' \in AgentStates /\ main' # "starting"
      /\ up' \in BOOLEAN /\ begun' \in BOOLEAN /\ todo' = todo
  BY Zenon DEF StartupStep, StartBroker, SetCollectorsConfig, FoundReady, WaitTimesOut,
         MarkStartupFailed, StartupFails, TransitionToReady, EnterSteadyState,
         BroadcastBeginMonitoring, BroadcastFails, RolledBack, TypeOK, Places, AgentStates
<1>3. \/ expected' = expected /\ (main' = "config" => main = "starting")
      \/ expected = {} /\ expected' = Enabled /\ main' = "waiting"
  BY Zenon DEF StartupStep, StartBroker, SetCollectorsConfig, FoundReady, WaitTimesOut,
         MarkStartupFailed, StartupFails, TransitionToReady, EnterSteadyState,
         BroadcastBeginMonitoring, BroadcastFails, Beginning
<1>4. expected' \in SUBSET Collectors /\ ready \in SUBSET expected'
  BY <1>3, StartupAssumption, Zenon DEF TypeOK
<1>5. TypeOK'
  BY <1>1, <1>2, <1>4, Zenon DEF TypeOK, Requests
<1>6. Beginning'
  BY <1>2, <1>3, Zenon DEF Beginning
<1>7. Started'
  BY <1>1, Zenon DEF Started
<1>8. up' => up \/ (calls = {} /\ \A c \in Collectors : col[c].pc = "off")
  BY Zenon DEF StartupStep, StartBroker, SetCollectorsConfig, FoundReady, WaitTimesOut,
         MarkStartupFailed, StartupFails, TransitionToReady, EnterSteadyState,
         BroadcastBeginMonitoring, BroadcastFails, Beginning
<1>9. Handshake'
  BY <1>1, <1>8, Zenon DEF Handshake, Numbered, Departing, OneHolder, HolderFoundNone, Waiting,
         DepartingOnRecord, OneDeparture, WaitingOnRecord, RunningIsRegistered
<1> QED
  BY <1>5, <1>6, <1>7, <1>9, Zenon

\* A failed attempt leads to the next one or to the end of the process.
LEMMA Failed ==
  ASSUME NEW p \in Process
  PROVE  /\ AfterFailure(p) \in Process /\ AfterFailure(p).life = p.life
         /\ \/ AfterFailure(p).pc = "off" /\ AfterFailure(p).attempt = p.attempt
            \/ AfterFailure(p).pc = "boot" /\ AfterFailure(p).attempt = p.attempt + 1
<1> RetryAttempts \in Nat
  BY StartupAssumption, Zenon
<1>1. CASE p.attempt < RetryAttempts
  <2>1. p.attempt + 1 \in 0..RetryAttempts
    BY <1>1 DEF Process
  <2>2. AfterFailure(p) = [p EXCEPT !.pc = "boot", !.attempt = p.attempt + 1]
    BY <1>1, Zenon DEF AfterFailure
  <2> QED
    BY <2>1, <2>2, Zenon DEF Process
<1>2. CASE ~(p.attempt < RetryAttempts)
  BY <1>2, Zenon DEF AfterFailure, Process
<1> QED
  BY <1>1, <1>2, Zenon

LEMMA SwitchedOff ==
  ASSUME NEW p \in Process
  PROVE  /\ [p EXCEPT !.pc = "off"] \in Process
         /\ [p EXCEPT !.pc = "off"].pc = "off"
         /\ [p EXCEPT !.pc = "off"].life = p.life
         /\ [p EXCEPT !.pc = "off"].attempt = p.attempt
BY Zenon DEF Process

\* A step of a collector.
LEMMA RegistrationCollector ==
  ASSUME RegistrationInv, NEW c \in Collectors, CollectorStep(c)
  PROVE  RegistrationInv'
<1> USE DEF RegistrationInv
<1>0. col[c] \in Process /\ RetryAttempts \in Nat
  BY StartupAssumption, Zenon DEF TypeOK, Process
<1>1. CASE CollectorStarts(c)
  <2>1. col' \in [Collectors -> Process] /\ col'[c].life = col[c].life + 1
        /\ col'[c].pc = "boot" /\ \A d \in Collectors : d # c => col'[d] = col[d]
    BY <1>0, <1>1 DEF CollectorStarts, TypeOK, Process
  <2>2. token' \in [Collectors -> Nat] /\ token'[c] = col[c].life + 1
        /\ \A d \in Collectors : d # c => token'[d] = token[d]
    BY <1>0, <1>1 DEF CollectorStarts, TypeOK, Process
  <2>3. UNCHANGED <<agent, service, faults, history>>
    BY <1>1, Zenon DEF CollectorStarts
  <2>4. \A d \in Collectors : {registry'[d], token'[d]} \subseteq 0..col'[d].life
    BY <1>0, <2>1, <2>2, <2>3 DEF TypeOK, Process, service
  <2>5. TypeOK'
    BY <2>1, <2>2, <2>3, <2>4, Zenon DEF TypeOK, Process, agent, service, history, Requests
  <2>6. Beginning' /\ Started'
    BY <1>0, <1>1, <2>1, <2>3 DEF Beginning, Started, agent, service, CollectorStarts, Process
  <2> QED
    BY <1>1, <2>5, <2>6, StartKeeps, Zenon
<1>2. CASE DispatchRegistration(c)
  <2>1. col' \in [Collectors -> Process] /\ col'[c].life = col[c].life
        /\ \A d \in Collectors : col'[d].life = col[d].life /\ (d # c => col'[d] = col[d])
    BY <1>0, <1>2, Zenon DEF DispatchRegistration, TypeOK, Process
  <2>2. calls' \in SUBSET Requests
    BY <1>0, <1>2 DEF DispatchRegistration, Send, TypeOK, Process, Requests
  <2>3. UNCHANGED <<agent, ready, registry, clients, token, faults, history>>
        /\ col[c].pc = "boot"
    BY <1>2, Zenon DEF DispatchRegistration
  <2>4. TypeOK'
    BY <2>1, <2>2, <2>3, Zenon DEF TypeOK, Process, agent, history
  <2>5. Beginning' /\ Started'
    BY <2>1, <2>3, Zenon DEF Beginning, Started, agent
  <2> QED
    BY <1>2, <2>3, <2>4, <2>5, DispatchKeeps, Zenon DEF Started
<1>3. CASE CollectorLeaves(c)
  <2>1. col' \in [Collectors -> Process] /\ col'[c].life = col[c].life
        /\ \A d \in Collectors : col'[d].life = col[d].life /\ (d # c => col'[d] = col[d])
    BY <1>0, <1>3, Zenon DEF CollectorLeaves, Shutdown, TypeOK, Process
  <2>2. calls' \in SUBSET Requests
    BY <1>0, <1>3 DEF CollectorLeaves, Send, TypeOK, Process, Requests
  <2>3. UNCHANGED <<agent, ready, registry, clients, token, faults, history>>
        /\ col[c].pc = "run"
    BY <1>3, Zenon DEF CollectorLeaves
  <2>4. TypeOK'
    BY <2>1, <2>2, <2>3, Zenon DEF TypeOK, Process, agent, history
  <2>5. Beginning' /\ Started'
    BY <2>1, <2>3, Zenon DEF Beginning, Started, agent
  <2>6. Handshake'
    BY <1>3, <2>3, LeaveKeeps, Zenon DEF CollectorLeaves, Started, agent
  <2> QED
    BY <2>4, <2>5, <2>6, Zenon
<1>4. CASE CallTimesOut(c) \/ CollectorCrashes(c)
  <2>0. PICK p \in Process :
          /\ col' = [col EXCEPT ![c] = p]
          /\ \/ p = AfterFailure(col[c]) /\ col[c].pc = "call"
             \/ p = [col[c] EXCEPT !.pc = "off"] /\ col[c].pc # "off"
    <3>1. CASE CallTimesOut(c) /\ col[c].pc = "call"
      BY <3>1, <1>0, Failed, Zenon DEF CallTimesOut
    <3>2. CASE CallTimesOut(c) /\ col[c].pc # "call"
      BY <3>2, <1>0, SwitchedOff, Zenon DEF CallTimesOut
    <3>3. CASE CollectorCrashes(c)
      BY <3>3, <1>0, SwitchedOff, Zenon DEF CollectorCrashes
    <3> QED
      BY <1>4, <3>1, <3>2, <3>3, Zenon
  <2>1. /\ col' \in [Collectors -> Process] /\ calls' \subseteq calls
        /\ col'[c] = p /\ \A d \in Collectors : d # c => col'[d] = col[d]
    <3>1. col \in [Collectors -> Process]
      BY Zenon DEF TypeOK, Process
    <3>2. calls' \subseteq calls
      BY <1>4, Zenon DEF CallTimesOut, CollectorCrashes, service
    <3> QED
      BY <2>0, <3>1, <3>2, Zenon
  <2>2. Recedes(c) /\ col[c].pc # "off"
    <3>1. CASE p = AfterFailure(col[c]) /\ col[c].pc = "call"
      <4>1. /\ p.life = col[c].life
            /\ \/ p.pc = "off" /\ p.attempt = col[c].attempt
               \/ p.pc = "boot" /\ p.attempt = col[c].attempt + 1
        BY <1>0, <3>1, Failed, Zenon
      <4> QED
        BY <2>1, <3>1, <4>1, Zenon DEF Recedes
    <3>2. CASE p = [col[c] EXCEPT !.pc = "off"] /\ col[c].pc # "off"
      <4>1. p.life = col[c].life /\ p.pc = "off" /\ p.attempt = col[c].attempt
        BY <1>0, <3>2, SwitchedOff, Zenon
      <4> QED
        BY <2>1, <3>2, <4>1, Zenon DEF Recedes
    <3> QED
      BY <2>0, <3>1, <3>2, Zenon
  <2>3. UNCHANGED <<agent, ready, registry, clients, token, faults, admitted, early, crossed>>
        /\ turned' \in SUBSET Collectors
    BY <1>4, Zenon DEF CallTimesOut, CollectorCrashes, TurnedAway, service, history, TypeOK
  <2>4. \A d \in Collectors : Recedes(d)
    BY <2>1, <2>2, Zenon DEF Recedes
  <2>5. TypeOK'
    BY <2>1, <2>3, <2>4 DEF TypeOK, Process, agent, Recedes
  <2>6. Beginning' /\ Started'
    BY <2>1, <2>2, <2>3, <2>4, Zenon DEF Beginning, Started, agent, Recedes
  <2>7. Handshake'
    BY <2>1, <2>3, <2>4, EndKeeps, Zenon DEF agent
  <2> QED
    BY <2>5, <2>6, <2>7, Zenon
<1> QED
  BY <1>1, <1>2, <1>3, <1>4, Zenon DEF CollectorStep

\* A handler keeps requests requests.
LEMMA MoveTyped ==
  ASSUME TypeOK, NEW r \in calls, NEW s \in Stages, MoveTo(r, s)
  PROVE  calls' \in SUBSET Requests
<1>1. r \in Requests
  BY Zenon DEF TypeOK
<1>2. [r EXCEPT !.stage = s] \in Requests
  BY <1>1, Moved, Zenon
<1> QED
  BY <1>2, Zenon DEF MoveTo, TypeOK

\* A step of a handler.
LEMMA RegistrationHandler ==
  ASSUME RegistrationInv, NEW r \in calls, Handle(r)
  PROVE  RegistrationInv'
<1> USE DEF RegistrationInv
<1>0. /\ r \in Requests /\ r.c \in Collectors /\ r.life \in Nat
      /\ 1 <= r.life /\ r.life <= col[r.c].life
      /\ col[r.c] \in Process /\ col \in [Collectors -> Process]
  BY Zenon DEF TypeOK, Requests, Process, Handshake, Numbered
<1>1. CASE CheckAdmission(r) \/ RefuseDescriptor(r) \/ CreateRpcClient(r)
  <2>1. PICK s \in Stages \ {"sent"} :
          /\ MoveTo(r, s)
          /\ s = "admit" => r.op = "register" /\ ~Locked /\ registry[r.c] = 0
          /\ s \in {"client", "mark"} => r.stage \in {"client", "mark"}
    BY <1>1 DEF CheckAdmission, RefuseDescriptor, CreateRpcClient, Vacant, Stages
  <2>2. UNCHANGED <<agent, ready, registry, token, col, faults, history>>
        /\ clients' \in SUBSET Collectors
    BY <1>0, <1>1, Zenon DEF CheckAdmission, RefuseDescriptor, CreateRpcClient, ClientsWith, TypeOK
  <2>3. calls' \in SUBSET Requests
    BY <2>1, MoveTyped, Zenon
  <2>4. TypeOK'
    BY <2>2, <2>3, Zenon DEF TypeOK, agent, history
  <2>5. Beginning' /\ Started'
    BY <2>2, Zenon DEF Beginning, Started, agent
  <2>6. Handshake'
    BY <2>1, <2>2, MoveKeeps, Zenon DEF agent
  <2> QED
    BY <2>4, <2>5, <2>6, Zenon
<1>2. CASE InsertRecord(r)
  <2>1. /\ registry' \in [Collectors -> Nat] /\ registry'[r.c] = r.life
        /\ \A c \in Collectors : c # r.c => registry'[c] = registry[c]
    BY <1>0, <1>2, Zenon DEF InsertRecord, TypeOK
  <2>2. UNCHANGED <<agent, ready, clients, token, col, faults, early, crossed, turned>>
        /\ admitted' \in SUBSET Collectors
    BY <1>0, <1>2, Zenon DEF InsertRecord, TypeOK
  <2>3. calls' \in SUBSET Requests
    BY <1>2, MoveTyped, Zenon DEF InsertRecord, Stages
  <2>4. \A c \in Collectors : {registry'[c], token'[c]} \subseteq 0..col'[c].life
    BY <1>0, <2>1, <2>2 DEF TypeOK, Process
  <2>5. TypeOK'
    BY <2>1, <2>2, <2>3, <2>4, Zenon DEF TypeOK, agent
  <2>6. Beginning' /\ Started'
    BY <2>2, Zenon DEF Beginning, Started, agent
  <2> QED
    BY <1>2, <2>5, <2>6, InsertKeeps, Zenon
<1>3. CASE RemoveRecord(r)
  <2>1. /\ registry' \in [Collectors -> Nat] /\ registry'[r.c] = 0
        /\ \A c \in Collectors : c # r.c => registry'[c] = registry[c]
    BY <1>0, <1>3, Zenon DEF RemoveRecord, RecordsWithout, TypeOK
  <2>2. UNCHANGED <<agent, ready, clients, token, col, faults, history>>
    BY <1>3, Zenon DEF RemoveRecord, ReadinessAfter
  <2>3. calls' \in SUBSET Requests
    BY <1>3, MoveTyped, Zenon DEF RemoveRecord, Stages
  <2>4. \A c \in Collectors : {registry'[c], token'[c]} \subseteq 0..col'[c].life
    BY <1>0, <2>1, <2>2 DEF TypeOK, Process
  <2>5. TypeOK'
    BY <2>1, <2>2, <2>3, <2>4, Zenon DEF TypeOK, agent, history
  <2>6. Beginning' /\ Started'
    BY <2>2, Zenon DEF Beginning, Started, agent
  <2> QED
    BY <1>3, <2>5, <2>6, RemoveKeeps, Zenon
<1>4. CASE MarkCollectorReady(r)
  <2>1. /\ col' \in [Collectors -> Process]
        /\ \A c \in Collectors : col'[c].life = col[c].life
        /\ \A c \in Collectors : col'[c].pc # "off" => col[c].pc # "off"
    BY <1>0, <1>4, Zenon DEF MarkCollectorReady, Accept, Waiting, Process
  <2>2. /\ UNCHANGED <<agent, registry, clients, token, faults, admitted, crossed, turned>>
        /\ ready' \in SUBSET expected /\ early' \in SUBSET Collectors /\ calls' \subseteq calls
    BY <1>0, <1>4, Zenon DEF MarkCollectorReady, MarkReady, TypeOK
  <2>3. TypeOK'
    BY <2>1, <2>2, Zenon DEF TypeOK, Process, agent
  <2>4. Beginning' /\ Started'
    BY <2>1, <2>2, Zenon DEF Beginning, Started, agent
  <2> QED
    BY <1>4, <2>3, <2>4, MarkKeeps, Zenon
<1>5. CASE AnswerRefusal(r) \/ RemoveRpcClient(r) \/ RequestExpires(r)
  <2>0. PICK p \in Process :
          /\ col' = [col EXCEPT ![r.c] = p]
          /\ \/ p = AfterFailure(col[r.c]) /\ col[r.c].pc = "call"
             \/ p = [col[r.c] EXCEPT !.pc = "off"]
             \/ p = col[r.c]
    <3>1. CASE col' = col
      BY <3>1, <1>0, Zenon
    <3>2. CASE col' = [col EXCEPT ![r.c] = AfterFailure(col[r.c])] /\ col[r.c].pc = "call"
      BY <3>2, <1>0, Failed, Zenon
    <3>3. CASE col' = [col EXCEPT ![r.c] = [col[r.c] EXCEPT !.pc = "off"]]
      BY <3>3, <1>0, SwitchedOff, Zenon
    <3>4. CASE AnswerRefusal(r)
      <4>1. CASE Waiting(r) /\ r.op = "register"
        BY <4>1, <3>2, <3>4, Zenon DEF AnswerRefusal, Waiting
      <4>2. CASE Waiting(r) /\ r.op # "register"
        BY <4>2, <3>3, <3>4, Zenon DEF AnswerRefusal
      <4>3. CASE ~Waiting(r)
        BY <4>3, <3>1, <3>4, Zenon DEF AnswerRefusal
      <4> QED
        BY <4>1, <4>2, <4>3, Zenon
    <3>5. CASE RemoveRpcClient(r)
      BY <3>1, <3>3, <3>5, Zenon DEF RemoveRpcClient
    <3>6. CASE RequestExpires(r)
      BY <3>1, <3>6, Zenon DEF RequestExpires
    <3> QED
      BY <1>5, <3>4, <3>5, <3>6, Zenon
  <2>1. /\ col' \in [Collectors -> Process] /\ col'[r.c] = p
        /\ \A c \in Collectors : c # r.c => col'[c] = col[c]
    BY <1>0, <2>0, Zenon
  <2>2. Recedes(r.c) /\ (p.pc # "off" => col[r.c].pc # "off")
    <3>1. CASE p = AfterFailure(col[r.c]) /\ col[r.c].pc = "call"
      <4>1. /\ p.life = col[r.c].life
            /\ \/ p.pc = "off" /\ p.attempt = col[r.c].attempt
               \/ p.pc = "boot" /\ p.attempt = col[r.c].attempt + 1
        BY <1>0, <3>1, Failed, Zenon
      <4> QED
        BY <2>1, <3>1, <4>1, Zenon DEF Recedes
    <3>2. CASE p = [col[r.c] EXCEPT !.pc = "off"]
      <4>1. p.life = col[r.c].life /\ p.pc = "off" /\ p.attempt = col[r.c].attempt
        BY <1>0, <3>2, SwitchedOff, Zenon
      <4> QED
        BY <2>1, <4>1, Zenon DEF Recedes
    <3>3. CASE p = col[r.c]
      BY <2>1, <3>3, Zenon DEF Recedes
    <3> QED
      BY <2>0, <3>1, <3>2, <3>3, Zenon
  <2>3. /\ UNCHANGED <<agent, ready, registry, token, faults, admitted, early>>
        /\ clients' \in SUBSET Collectors /\ calls' \subseteq calls
        /\ crossed' \in SUBSET Collectors /\ turned' \in SUBSET Collectors
    BY <1>0, <1>5 DEF AnswerRefusal, RemoveRpcClient, RequestExpires, TurnedAway, TypeOK, history
  <2>4. \A c \in Collectors : Recedes(c)
    BY <2>1, <2>2, Zenon DEF Recedes
  <2>5. TypeOK'
    BY <2>1, <2>3, <2>4 DEF TypeOK, Process, agent, Recedes
  <2>6. Beginning' /\ Started'
    BY <2>1, <2>2, <2>3, <2>4, Zenon DEF Beginning, Started, agent, Recedes
  <2>7. Handshake'
    BY <2>3, <2>4, EndKeeps, Zenon DEF agent
  <2> QED
    BY <2>5, <2>6, <2>7, Zenon
<1> QED
  BY <1>1, <1>2, <1>3, <1>4, <1>5, Zenon DEF Handle

\* A step of the shutdown.
LEMMA RegistrationShutdown == RegistrationInv /\ ShutdownStep => RegistrationInv'
<1> SUFFICES ASSUME RegistrationInv, ShutdownStep PROVE RegistrationInv'
  BY Zenon
<1> USE DEF RegistrationInv
<1>0. col \in [Collectors -> Process]
  BY Zenon DEF TypeOK, Process
<1>1. CASE ShutdownBegins \/ DrainClients
  <2>1. /\ UNCHANGED <<agentState, up, expected, begun, ready, registry, calls, token, col,
                       faults, history>>
        /\ clients' \in SUBSET Collectors /\ todo' \in SUBSET Collectors
        /\ main \notin {"starting", "config"} /\ main' \in {"asking", "stopping"}
    BY <1>1, Zenon DEF ShutdownBegins, DrainClients, TypeOK, service
  <2>2. TypeOK' /\ Beginning' /\ Started'
    BY <2>1, Zenon DEF TypeOK, Places, Beginning, Started, history
  <2>3. Handshake'
    BY <2>1, EndKeeps, Zenon DEF Recedes
  <2> QED
    BY <2>2, <2>3, Zenon
<1>2. CASE KillRemaining
  <2>1. /\ col' \in [Collectors -> Process]
        /\ \A c \in Collectors : /\ col'[c].pc = "off" /\ col'[c].life = col[c].life
                                 /\ col'[c].attempt = col[c].attempt
    BY <1>0, <1>2, Zenon DEF KillRemaining, Process
  <2>2. /\ UNCHANGED <<agentState, up, expected, begun, todo, service, faults, history>>
        /\ token' = [c \in Collectors |-> 0] /\ main' = "draining"
    BY <1>2, Zenon DEF KillRemaining
  <2>3. \A c \in Collectors : {registry'[c], token'[c]} \subseteq 0..col'[c].life
    BY <1>0, <2>1, <2>2 DEF TypeOK, Process, service
  <2>4. TypeOK'
    BY <2>1, <2>2, <2>3, Zenon DEF TypeOK, Places, Process, service, history
  <2>5. Beginning' /\ Started'
    BY <2>1, <2>2, Zenon DEF Beginning, Started
  <2>6. Handshake'
    BY <2>1, <2>2, EndKeeps, Zenon DEF Recedes, service
  <2> QED
    BY <2>4, <2>5, <2>6, Zenon
<1>3. CASE BrokerStops
  <2>1. /\ UNCHANGED <<agentState, expected, begun, todo, ready, clients, calls, token, col,
                       faults, history>>
        /\ registry' = [c \in Collectors |-> 0] /\ main' = "down" /\ up' = FALSE
    BY <1>3, Zenon DEF BrokerStops
  <2>2. \A c \in Collectors : {registry'[c], token'[c]} \subseteq 0..col'[c].life
    BY <1>0, <2>1 DEF TypeOK, Process
  <2>3. TypeOK'
    BY <2>1, <2>2, Zenon DEF TypeOK, Places, history
  <2>4. Beginning' /\ Started'
    BY <2>1, Zenon DEF Beginning, Started
  <2>5. Handshake'
    BY <2>1, Zenon DEF Handshake, Numbered, Departing, OneHolder, HolderFoundNone,
         DepartingOnRecord, OneDeparture, WaitingOnRecord, RunningIsRegistered
  <2> QED
    BY <2>3, <2>4, <2>5, Zenon
<1>4. ASSUME NEW c \in Collectors, AskToStop(c) PROVE RegistrationInv'
  <2>1. /\ UNCHANGED <<main, agentState, up, expected, begun, ready, registry, clients,
                       token, faults, history>>
        /\ todo' \in SUBSET Collectors /\ main = "asking"
    BY <1>4, Zenon DEF AskToStop, TypeOK
  <2>2. CASE UNCHANGED <<col, calls>>
    <3>1. TypeOK' /\ Beginning' /\ Started'
      BY <2>1, <2>2, Zenon DEF TypeOK, Beginning, Started, history
    <3>2. Handshake'
      BY <2>1, <2>2, EndKeeps, Zenon DEF Recedes
    <3> QED
      BY <3>1, <3>2, Zenon
  <2>3. CASE /\ col[c].pc = "run" /\ col' = [col EXCEPT ![c] = Shutdown(@)]
             /\ Send(c, "deregister")
    <3>1. /\ col' \in [Collectors -> Process]
          /\ \A d \in Collectors : col'[d].life = col[d].life /\ (d # c => col'[d] = col[d])
      BY <1>0, <2>3, Zenon DEF Shutdown, Process
    <3>2. calls' \in SUBSET Requests
      BY <1>0, <2>3 DEF Send, TypeOK, Process, Requests
    <3>3. TypeOK'
      BY <2>1, <3>1, <3>2, Zenon DEF TypeOK, Process, history
    <3>4. Beginning' /\ Started'
      BY <2>1, <2>3, <3>1, Zenon DEF Beginning, Started
    <3>5. Handshake'
      BY <2>1, <2>3, LeaveKeeps, Zenon DEF Started
    <3> QED
      BY <3>3, <3>4, <3>5, Zenon
  <2> QED
    BY <1>4, <2>2, <2>3, Zenon DEF AskToStop
<1> QED
  BY <1>1, <1>2, <1>3, <1>4, Zenon DEF ShutdownStep

LEMMA RegistrationNext == RegistrationInv /\ [Next]_vars => RegistrationInv'
<1> SUFFICES ASSUME RegistrationInv, [Next]_vars PROVE RegistrationInv'
  BY Zenon
<1>1. CASE UNCHANGED vars
  <2>1. UNCHANGED <<main, agentState, up, expected, begun, todo, ready, registry, clients,
                    calls, token, col, faults, admitted, early, crossed, turned>>
    BY <1>1, Zenon DEF vars, agent, service, history
  <2>2. TypeOK' /\ Beginning' /\ Started'
    BY <2>1, Zenon DEF RegistrationInv, TypeOK, Beginning, Started
  <2>3. Handshake'
    BY <2>1, EndKeeps, Zenon DEF RegistrationInv, Recedes
  <2> QED
    BY <2>2, <2>3, Zenon DEF RegistrationInv
<1> QED
  BY <1>1, RegistrationMain, RegistrationShutdown, RegistrationCollector,
     RegistrationHandler, Zenon DEF Next

\* A running collector is in the registry as the process it is, for any number
\* of collectors, processes and attempts and under every fault
\* (register_inner, deregister, handle_register_request).
THEOREM RunningRegistered == Spec => []RunningIsRegistered
<1>1. RegistrationInv => RunningIsRegistered
  BY Zenon DEF RegistrationInv, Handshake
<1> QED
  BY <1>1, RegistrationInit, RegistrationNext, PTL DEF Spec

-----------------------------------------------------------------------------
(* Start-up.                                                               *)

\* The start-up invariant holds at first, and every step keeps it.
LEMMA StartupInit == Init => StartupInv
BY Zenon DEF Init, StartupInv, ReadyAdmitted, StartupOrder, SteadyMeansBegun, BeforeReady

LEMMA StartupMain == StartupInv /\ StartupStep => StartupInv'
<1> SUFFICES ASSUME StartupInv, StartupStep PROVE StartupInv'
  BY Zenon
<1>1. ReadyAdmitted'
  BY Zenon DEF StartupInv, ReadyAdmitted, StartupStep, service, history
<1>2. ready' = ready
  BY Zenon DEF StartupStep, service
<1> USE DEF StartupInv, StartupOrder, SteadyMeansBegun, BeforeReady
<1>3. CASE StartBroker
  BY <1>1, <1>2, <1>3, Zenon DEF StartBroker
<1>4. CASE SetCollectorsConfig
  BY <1>1, <1>2, <1>4, Zenon DEF SetCollectorsConfig
<1>5. CASE FoundReady
  BY <1>1, <1>2, <1>5, Zenon DEF FoundReady, AllReady
<1>6. CASE WaitTimesOut
  BY <1>1, <1>2, <1>6, Zenon DEF WaitTimesOut
<1>7. CASE MarkStartupFailed
  BY <1>1, <1>2, <1>7, Zenon DEF MarkStartupFailed, StartupFails
<1>8. CASE TransitionToReady
  BY <1>1, <1>2, <1>8, Zenon DEF TransitionToReady, StartupFails, AllReady
<1>9. CASE EnterSteadyState
  BY <1>1, <1>2, <1>9, Zenon DEF EnterSteadyState
<1>10. CASE BroadcastBeginMonitoring
  BY <1>1, <1>2, <1>10, Zenon DEF BroadcastBeginMonitoring
<1>11. CASE BroadcastFails
  BY <1>1, <1>2, <1>11, Zenon DEF BroadcastFails, RolledBack
<1> QED
  BY <1>3, <1>4, <1>5, <1>6, <1>7, <1>8, <1>9, <1>10, <1>11, Zenon DEF StartupStep

LEMMA StartupShutdown == StartupInv /\ ShutdownStep => StartupInv'
<1> SUFFICES ASSUME StartupInv, ShutdownStep PROVE StartupInv'
  BY Zenon
<1>1. /\ main \in {"loop", "asking", "draining", "stopping"}
      /\ main' \in {"asking", "draining", "stopping", "down"}
      /\ UNCHANGED <<agentState, expected, begun, ready, admitted>>
  BY Zenon DEF ShutdownStep, ShutdownBegins, KillRemaining, DrainClients, BrokerStops,
         AskToStop, service, history
<1>2. \A r \in calls' : r \in calls \/ r.op = "deregister"
  BY DEF ShutdownStep, ShutdownBegins, KillRemaining, DrainClients, BrokerStops,
         AskToStop, Send, service
<1>3. ReadyAdmitted'
  BY <1>1, <1>2, Zenon DEF StartupInv, ReadyAdmitted
<1> QED
  BY <1>1, <1>3, Zenon DEF StartupInv, StartupOrder, SteadyMeansBegun, BeforeReady

LEMMA StartupCollector ==
  ASSUME NEW c \in Collectors, StartupInv, CollectorStep(c)
  PROVE  StartupInv'
<1>1. UNCHANGED <<main, agentState, expected, begun, ready, admitted>>
  BY Zenon DEF CollectorStep, CollectorStarts, DispatchRegistration, CollectorLeaves,
         CallTimesOut, CollectorCrashes, agent, service, history
<1>2. \A r \in calls' : r \in calls \/ r.stage = "sent"
  BY DEF CollectorStep, CollectorStarts, DispatchRegistration, CollectorLeaves,
         CallTimesOut, CollectorCrashes, Send, service
<1> QED
  BY <1>1, <1>2, Zenon DEF StartupInv, ReadyAdmitted, StartupOrder, SteadyMeansBegun, BeforeReady

\* What a handler may do to what start-up looks at: admit, and mark the admitted.
LEMMA StartupHandler ==
  ASSUME TypeOK, NEW r \in calls, StartupInv, Handle(r)
  PROVE  StartupInv'
<1>0. /\ r \in Requests
      /\ \A s \in Stages : /\ [r EXCEPT !.stage = s].stage = s
                           /\ [r EXCEPT !.stage = s].c = r.c
                           /\ [r EXCEPT !.stage = s].op = r.op
  BY Moved DEF TypeOK
<1>1. UNCHANGED <<main, agentState, expected, begun>>
  BY Zenon DEF Handle, CheckAdmission, InsertRecord, RefuseDescriptor, CreateRpcClient,
         MarkCollectorReady, AnswerRefusal, RemoveRecord, RemoveRpcClient,
         RequestExpires, agent
<1>2. ready \subseteq ready' /\ admitted \subseteq admitted'
  BY Zenon DEF Handle, CheckAdmission, InsertRecord, RefuseDescriptor, CreateRpcClient,
         MarkCollectorReady, AnswerRefusal, RemoveRecord, RemoveRpcClient,
         RequestExpires, MarkReady, ReadinessAfter, history
<1>3. ready' \subseteq admitted'
  BY <1>2 DEF Handle, CheckAdmission, InsertRecord, RefuseDescriptor, CreateRpcClient,
         MarkCollectorReady, AnswerRefusal, RemoveRecord, RemoveRpcClient,
         RequestExpires, MarkReady, ReadinessAfter, StartupInv, ReadyAdmitted
<1>4. \A q \in calls' : q.op = "register" /\ q.stage \in {"client", "mark"}
                          => q.c \in admitted'
  <2>1. CASE InsertRecord(r)
    BY <1>0, <2>1, Zenon DEF InsertRecord, MoveTo, StartupInv, ReadyAdmitted, Stages
  <2>2. CASE CreateRpcClient(r)
    <3> DEFINE m == [r EXCEPT !.stage = "mark"]
    <3>1. calls' = (calls \ {r}) \cup {m} /\ r.c \in admitted
      BY <2>2, Zenon DEF CreateRpcClient, MoveTo, StartupInv, ReadyAdmitted
    <3>2. m.c = r.c
      BY <1>0, Zenon DEF Stages
    <3> HIDE DEF m
    <3> QED
      BY <1>2, <3>1, <3>2, Zenon DEF StartupInv, ReadyAdmitted
  <2>3. CASE CheckAdmission(r) \/ RefuseDescriptor(r) \/ RemoveRecord(r)
    <3>1. PICK s \in Stages : MoveTo(r, s) /\ (r.op = "register" => s \in {"admit", "refused"})
      BY <2>3, Zenon DEF CheckAdmission, RefuseDescriptor, RemoveRecord, Stages
    <3> QED
      BY <1>0, <1>2, <3>1, Zenon DEF MoveTo, StartupInv, ReadyAdmitted
  <2>4. CASE MarkCollectorReady(r) \/ AnswerRefusal(r) \/ RemoveRpcClient(r)
             \/ RequestExpires(r)
    BY <2>4, <1>2, Zenon DEF MarkCollectorReady, AnswerRefusal, RemoveRpcClient,
                      RequestExpires, StartupInv, ReadyAdmitted
  <2> QED
    BY <2>1, <2>2, <2>3, <2>4, Zenon DEF Handle
<1> QED
  BY <1>1, <1>2, <1>3, <1>4, Zenon DEF StartupInv, ReadyAdmitted, StartupOrder,
                               SteadyMeansBegun, BeforeReady

LEMMA StartupNext == RegistrationInv /\ StartupInv /\ [Next]_vars => StartupInv'
<1> SUFFICES ASSUME RegistrationInv, StartupInv, [Next]_vars PROVE StartupInv'
  BY Zenon
<1>1. CASE UNCHANGED vars
  BY <1>1, Zenon DEF vars, agent, service, history, StartupInv, ReadyAdmitted, StartupOrder,
              SteadyMeansBegun, BeforeReady
<1> QED
  BY <1>1, StartupMain, StartupShutdown, StartupCollector, StartupHandler, Zenon
  DEF Next, RegistrationInv

\* An agent that is Ready has admitted every enabled collector, whatever the
\* collectors, the time-outs and the faults (transition_to_ready).
THEOREM ReadyAfterAdmission == Spec => []ReadyMeansAdmitted
<1>1. StartupInv => ReadyMeansAdmitted
  BY Zenon DEF StartupInv, ReadyAdmitted, StartupOrder, ReadyMeansAdmitted
<1> QED
  BY <1>1, RegistrationInit, RegistrationNext, StartupInit, StartupNext, PTL DEF Spec

\* SteadyState is kept only by an agent whose broadcast succeeded
\* (transition_to_steady_state).
THEOREM SteadyAfterBroadcast == Spec => []SteadyMeansBegun
<1>1. StartupInv => SteadyMeansBegun
  BY Zenon DEF StartupInv
<1> QED
  BY <1>1, RegistrationInit, RegistrationNext, StartupInit, StartupNext, PTL DEF Spec

\* The second look at readiness sees what the first one saw
\* (wait_for_collectors_ready, transition_to_ready).
THEOREM SecondLookAgrees == Spec => FoundStaysFound
<1>1. StartupInv /\ [Next]_vars => [main = "ready" => main' # "failed"]_vars
  <2> SUFFICES ASSUME StartupInv, Next, main = "ready" PROVE main' # "failed"
    BY Zenon
  <2>1. agentState = "Loading" /\ AllReady
    BY Zenon DEF StartupInv, StartupOrder, BeforeReady, AllReady
  <2>2. CASE StartupStep
    BY <2>1, <2>2, Zenon DEF StartupStep, StartBroker, SetCollectorsConfig, FoundReady,
       WaitTimesOut, MarkStartupFailed, TransitionToReady, EnterSteadyState,
       BroadcastBeginMonitoring, BroadcastFails
  <2>3. CASE ShutdownStep
    BY <2>3, Zenon DEF ShutdownStep, ShutdownBegins, KillRemaining, DrainClients,
       BrokerStops, AskToStop
  <2>4. ASSUME NEW c \in Collectors, CollectorStep(c) PROVE main' # "failed"
    BY <2>4, Zenon DEF CollectorStep, CollectorStarts, DispatchRegistration, CollectorLeaves,
       CallTimesOut, CollectorCrashes, agent
  <2>5. ASSUME NEW r \in calls, Handle(r) PROVE main' # "failed"
    BY <2>5, Zenon DEF Handle, CheckAdmission, InsertRecord, RefuseDescriptor, CreateRpcClient,
       MarkCollectorReady, AnswerRefusal, RemoveRecord, RemoveRpcClient, RequestExpires, agent
  <2> QED
    BY <2>2, <2>3, <2>4, <2>5, Zenon DEF Next
<1> QED
  BY <1>1, RegistrationInit, RegistrationNext, StartupInit, StartupNext, PTL DEF Spec, FoundStaysFound

-----------------------------------------------------------------------------
(* What a record brings with it.                                           *)

\* A handler of a registration of c is at one of these stages.
UnderWay(c, stages) ==
  \E r \in calls : r.c = c /\ r.op = "register" /\ r.stage \in stages

\* The client and the readiness of a collector on record are there, or a handler
\* is about to see to them.
Served(c) ==
  registry[c] # 0 =>
    /\ c \in clients \cup crossed \/ main = "stopping" \/ UnderWay(c, {"client"})
    /\ c \in ready \cup early \/ UnderWay(c, {"client", "mark"})

\* There are no records before the registry is up.
ServiceInv ==
  /\ main = "starting" => \A c \in Collectors : registry[c] = 0
  /\ up => \A c \in Collectors : Served(c)

LEMMA ServiceInit == Init => ServiceInv
BY Zenon DEF Init, ServiceInv

\* The steps of the agent.
LEMMA ServiceMain ==
  ASSUME ServiceInv, StartupStep \/ ShutdownStep
  PROVE  ServiceInv'
<1>1. /\ \A r \in calls : r \in calls'
      /\ UNCHANGED <<ready, crossed, early>>
      /\ main # "stopping" \/ ~up'
  BY Zenon DEF StartupStep, StartBroker, SetCollectorsConfig, FoundReady, WaitTimesOut,
       MarkStartupFailed, StartupFails, TransitionToReady, EnterSteadyState,
       BroadcastBeginMonitoring, BroadcastFails, ShutdownStep, ShutdownBegins, KillRemaining,
       DrainClients, BrokerStops, AskToStop, Send, service, history
<1>2. main' # "starting"
  BY Zenon DEF StartupStep, StartBroker, SetCollectorsConfig, FoundReady, WaitTimesOut,
       MarkStartupFailed, StartupFails, TransitionToReady, EnterSteadyState,
       BroadcastBeginMonitoring, BroadcastFails, ShutdownStep, ShutdownBegins, KillRemaining,
       DrainClients, BrokerStops, AskToStop
<1>3. CASE ~up'
  BY <1>2, <1>3, Zenon DEF ServiceInv
<1>4. CASE up' /\ ~up
  <2>1. main = "starting" /\ registry' = registry
    BY <1>4, Zenon DEF StartupStep, StartBroker, SetCollectorsConfig, FoundReady, WaitTimesOut,
         MarkStartupFailed, StartupFails, TransitionToReady, EnterSteadyState,
         BroadcastBeginMonitoring, BroadcastFails, ShutdownStep, ShutdownBegins, KillRemaining,
         DrainClients, BrokerStops, AskToStop, service
  <2> QED
    BY <1>2, <2>1, Zenon DEF ServiceInv, Served
<1>5. CASE up' /\ up
  <2>1. registry' = registry /\ (clients' = clients \/ main' = "stopping")
    BY <1>5, Zenon DEF StartupStep, StartBroker, SetCollectorsConfig, FoundReady, WaitTimesOut,
         MarkStartupFailed, StartupFails, TransitionToReady, EnterSteadyState,
         BroadcastBeginMonitoring, BroadcastFails, ShutdownStep, ShutdownBegins, KillRemaining,
         DrainClients, BrokerStops, AskToStop, service
  <2>2. \A c \in Collectors, t \in SUBSET Stages : UnderWay(c, t) => UnderWay(c, t)'
    BY <1>1, Zenon DEF UnderWay
  <2>3. {"client"} \in SUBSET Stages /\ {"client", "mark"} \in SUBSET Stages
    BY Zenon DEF Stages
  <2> QED
    BY <1>1, <1>2, <1>5, <2>1, <2>2, <2>3, Zenon DEF ServiceInv, Served
<1> QED
  BY <1>3, <1>4, <1>5, Zenon

\* A collector touches neither records nor handlers that have begun.
LEMMA ServiceCollector ==
  ASSUME ServiceInv, NEW d \in Collectors, CollectorStep(d)
  PROVE  ServiceInv'
<1>1. /\ UNCHANGED <<main, up, registry, clients, ready, crossed, early>>
      /\ \A r \in calls : r.stage # "sent" => r \in calls'
  BY Zenon DEF CollectorStep, CollectorStarts, DispatchRegistration, CollectorLeaves,
       CallTimesOut, CollectorCrashes, Send, agent, service, history
<1>2. \A c \in Collectors : Served(c) => Served(c)'
  BY <1>1, Zenon DEF Served, UnderWay
<1> QED
  BY <1>1, <1>2, Zenon DEF ServiceInv

\* A handler gives up its stage only for what it stood for.
LEMMA ServiceHandler ==
  ASSUME TypeOK, Beginning, ServiceInv, NEW r \in calls, Handle(r)
  PROVE  ServiceInv'
<1>0. /\ r \in Requests /\ r.c \in Collectors
      /\ \A s \in Stages : /\ [r EXCEPT !.stage = s].stage = s
                           /\ [r EXCEPT !.stage = s].c = r.c
                           /\ [r EXCEPT !.stage = s].op = r.op
  BY Moved DEF TypeOK, Requests
<1>1. UNCHANGED <<main, up>> /\ up
  BY Zenon DEF Handle, CheckAdmission, InsertRecord, RefuseDescriptor, CreateRpcClient,
         MarkCollectorReady, AnswerRefusal, RemoveRecord, RemoveRpcClient, RequestExpires, agent
<1>2. CASE CheckAdmission(r) \/ RefuseDescriptor(r) \/ AnswerRefusal(r) \/ RequestExpires(r)
  <2>1. /\ UNCHANGED <<registry, clients, ready, crossed, early>>
        /\ r.stage \notin {"client", "mark"} /\ \A q \in calls : q # r => q \in calls'
    BY <1>2, Zenon DEF CheckAdmission, RefuseDescriptor, AnswerRefusal, RequestExpires, MoveTo, history
  <2>2. ASSUME NEW c \in Collectors, Served(c) PROVE Served(c)'
    BY <1>1, <2>1, <2>2, Zenon DEF Served, UnderWay
  <2> QED
    BY <1>1, <2>1, <2>2, Zenon DEF ServiceInv
<1>3. CASE InsertRecord(r)
  <2> DEFINE m == [r EXCEPT !.stage = "client"]
  <2>1. /\ UNCHANGED <<clients, ready, crossed, early>> /\ r.stage = "admit"
        /\ \A c \in Collectors : c # r.c => registry'[c] = registry[c]
        /\ calls' = (calls \ {r}) \cup {m}
    BY <1>3, Zenon DEF InsertRecord, MoveTo, TypeOK
  <2>2. m.stage = "client" /\ m.c = r.c /\ m.op = "register" /\ r.stage = "admit"
    BY <1>0, <1>3, Zenon DEF InsertRecord, Stages
  <2> HIDE DEF m
  <2>3. Served(r.c)'
    BY <2>1, <2>2, Zenon DEF Served, UnderWay
  <2>4. ASSUME NEW c \in Collectors, c # r.c, Served(c) PROVE Served(c)'
    BY <1>1, <2>1, <2>4, Zenon DEF Served, UnderWay
  <2>5. main # "starting"
    BY Zenon DEF Beginning
  <2> QED
    BY <1>1, <2>3, <2>4, <2>5, Zenon DEF ServiceInv
<1>4. CASE CreateRpcClient(r)
  <2> DEFINE m == [r EXCEPT !.stage = "mark"]
  <2>1. /\ UNCHANGED <<registry, ready, crossed, early>> /\ clients' = clients \cup {r.c}
        /\ calls' = (calls \ {r}) \cup {m}
    BY <1>4, Zenon DEF CreateRpcClient, ClientsWith, MoveTo, history
  <2>2. m.stage = "mark" /\ m.c = r.c /\ m.op = "register"
    BY <1>0, <1>4, Zenon DEF CreateRpcClient, Stages
  <2> HIDE DEF m
  <2>3. Served(r.c)'
    BY <2>1, <2>2, Zenon DEF Served, UnderWay
  <2>4. ASSUME NEW c \in Collectors, c # r.c, Served(c) PROVE Served(c)'
    BY <1>1, <2>1, <2>4, Zenon DEF Served, UnderWay
  <2> QED
    BY <1>1, <2>1, <2>3, <2>4, Zenon DEF ServiceInv
<1>5. CASE MarkCollectorReady(r)
  <2>1. /\ UNCHANGED <<registry, clients, crossed>> /\ r.stage = "mark"
        /\ ready \subseteq ready' /\ early \subseteq early' /\ r.c \in ready' \cup early'
        /\ calls' = calls \ {r}
    BY <1>5, Zenon DEF MarkCollectorReady, MarkReady
  <2>2. ASSUME NEW c \in Collectors, Served(c) PROVE Served(c)'
    BY <1>1, <2>1, <2>2, Zenon DEF Served, UnderWay
  <2> QED
    BY <1>1, <2>1, <2>2, Zenon DEF ServiceInv
<1>6. CASE RemoveRecord(r)
  <2>1. /\ UNCHANGED <<clients, ready, crossed, early>> /\ r.op = "deregister"
        /\ registry'[r.c] = 0
        /\ \A c \in Collectors : c # r.c => registry'[c] = registry[c]
        /\ \A q \in calls : q # r => q \in calls'
    BY <1>0, <1>6, Zenon DEF RemoveRecord, RecordsWithout, ReadinessAfter, MoveTo, history, TypeOK
  <2>2. ASSUME NEW c \in Collectors, Served(c) PROVE Served(c)'
    BY <1>1, <2>1, <2>2, Zenon DEF Served, UnderWay
  <2>3. main # "starting" \/ \A c \in Collectors : registry'[c] = 0
    BY <2>1, Zenon DEF ServiceInv
  <2> QED
    BY <1>1, <2>2, <2>3, Zenon DEF ServiceInv
<1>7. CASE RemoveRpcClient(r)
  <2>1. /\ UNCHANGED <<registry, ready, early>> /\ r.op = "deregister"
        /\ calls' = calls \ {r} /\ clients' = clients \ {r.c} /\ crossed \subseteq crossed'
        /\ registry[r.c] = 0 \/ r.c \in crossed' \/ UnderWay(r.c, {"client"})
    BY <1>7, Zenon DEF RemoveRpcClient, UnderWay
  <2>2. ASSUME NEW c \in Collectors, Served(c) PROVE Served(c)'
    BY <1>1, <2>1, <2>2, Zenon DEF Served, UnderWay
  <2> QED
    BY <1>1, <2>1, <2>2, Zenon DEF ServiceInv
<1> QED
  BY <1>2, <1>3, <1>4, <1>5, <1>6, <1>7, Zenon DEF Handle

LEMMA ServiceNext == RegistrationInv /\ ServiceInv /\ [Next]_vars => ServiceInv'
<1> SUFFICES ASSUME RegistrationInv, ServiceInv, [Next]_vars PROVE ServiceInv'
  BY Zenon
<1>1. CASE UNCHANGED vars
  BY <1>1, Zenon DEF vars, agent, service, history, ServiceInv, Served, UnderWay
<1> QED
  BY <1>1, ServiceMain, ServiceCollector, ServiceHandler, Zenon DEF Next, RegistrationInv

\* A collector on record, none of whose requests is being handled, has its RPC
\* client and is ready if it is expected, however registrations, departures of
\* earlier processes and the agent's shutdown interleave (register_collector,
\* deregister_collector).
THEOREM RecordsServed == Spec => []SettledIsServed
<1>1. ServiceInv => SettledIsServed
  <2> SUFFICES ASSUME ServiceInv, NEW c \in Collectors, up, registry[c] # 0, AtRest(c)
               PROVE  /\ c \in clients \cup crossed \/ main = "stopping"
                      /\ c \in expected => c \in ready \cup early
    BY Zenon DEF SettledIsServed
  <2>1. ~UnderWay(c, {"client"}) /\ ~UnderWay(c, {"client", "mark"})
    BY Zenon DEF AtRest, UnderWay
  <2> QED
    BY <2>1, Zenon DEF ServiceInv, Served
<1> QED
  BY <1>1, RegistrationInit, RegistrationNext, ServiceInit, ServiceNext, PTL DEF Spec

-----------------------------------------------------------------------------
(* Registration without faults.                                            *)

\* A process without a registration has no record, and one that asks for it has
\* the token that is valid.
Vacated ==
  \A c \in Collectors :
    /\ col[c].pc \in {"off", "boot"} => registry[c] = 0
    /\ col[c].pc \in {"boot", "call"} => token[c] = col[c].life

\* Every request has its caller waiting, is the only one of its collector, and
\* the record tells how far it is.
Attended ==
  \A r \in calls :
    /\ Waiting(r) /\ r.stage # "refused"
    /\ r.op = "register" => (registry[r.c] = 0 <=> r.stage \in {"sent", "admit"})
    /\ r.op = "deregister" => (registry[r.c] = 0 <=> r.stage # "sent")
    /\ \A q \in calls : q.c = r.c => q = r

\* The manager has ended every process.
Ended == main \in {"draining", "stopping"}

OrderlyInv ==
  /\ Ended => \A c \in Collectors : col[c].pc = "off"
  /\ faults = {} => turned = {}
  /\ faults = {} /\ up /\ ~Ended => Vacated /\ Attended

LEMMA OrderlyInit == Init => OrderlyInv
BY Zenon DEF Init, OrderlyInv, Ended

\* The steps of start-up.
LEMMA OrderlyMain ==
  ASSUME RegistrationInv, ServiceInv, OrderlyInv, StartupStep
  PROVE  OrderlyInv'
<1>1. UNCHANGED <<registry, calls, token, col, faults, turned>>
  BY Zenon DEF StartupStep, service, history
<1>2. /\ main' # "starting" /\ ~Ended' /\ ~Ended
      /\ up' => up \/ main = "starting"
  BY DEF StartupStep, StartBroker, SetCollectorsConfig, FoundReady, WaitTimesOut,
       MarkStartupFailed, StartupFails, TransitionToReady, EnterSteadyState,
       BroadcastBeginMonitoring, BroadcastFails, Ended
<1>3. CASE up
  BY <1>1, <1>2, <1>3, Zenon DEF OrderlyInv, Vacated, Attended, Waiting
<1>4. CASE ~up
  <2>1. up' => /\ calls = {}
               /\ \A c \in Collectors : registry[c] = 0 /\ col[c].pc = "off"
    BY <1>2, <1>4, Zenon DEF RegistrationInv, Beginning, ServiceInv
  <2> QED
    BY <1>1, <1>2, <2>1, Zenon DEF OrderlyInv, Vacated, Attended
<1> QED
  BY <1>3, <1>4, Zenon

\* A caller whose process has not moved still waits.
LEMMA WaitingKept ==
  ASSUME NEW r, Waiting(r), col'[r.c] = col[r.c]
  PROVE  Waiting(r)'
<1>1. /\ col'[r.c].life = col[r.c].life /\ col'[r.c].pc = col[r.c].pc
      /\ col'[r.c].attempt = col[r.c].attempt
  BY Zenon
<1> QED
  BY ONLY Waiting(r), <1>1 DEF Waiting

\* A new request of a collector that has none.
LEMMA AttendedWith ==
  ASSUME Attended, NEW m, calls' = calls \cup {m}, registry' = registry,
         Waiting(m)', \A r \in calls : r.c # m.c /\ Waiting(r)',
         m.stage = "sent", m.op = "register" => registry[m.c] = 0,
         m.op = "deregister" => registry[m.c] # 0
  PROVE  Attended'
<1> SUFFICES ASSUME NEW r \in calls'
             PROVE  /\ Waiting(r)' /\ r.stage # "refused"
                    /\ r.op = "register" => (registry'[r.c] = 0 <=> r.stage \in {"sent", "admit"})
                    /\ r.op = "deregister" => (registry'[r.c] = 0 <=> r.stage # "sent")
                    /\ \A q \in calls' : q.c = r.c => q = r
  BY Zenon DEF Attended
<1>1. CASE r = m
  BY <1>1, Zenon
<1>2. CASE r \in calls
  BY <1>2, Zenon DEF Attended
<1> QED
  BY <1>1, <1>2, Zenon

\* A running collector is told to stop.
LEMMA OrderlyLeaving ==
  ASSUME RegistrationInv, NEW c \in Collectors, col[c].pc = "run",
         col' = [col EXCEPT ![c] = Shutdown(@)], Send(c, "deregister"),
         UNCHANGED <<registry, token>>, up, Vacated, Attended
  PROVE  Vacated' /\ Attended'
<1>1. PICK m : /\ calls' = calls \cup {m}
               /\ m.c = c /\ m.op = "deregister" /\ m.stage = "sent" /\ m.life = col[c].life
  <2>1. /\ calls' = calls \cup {Sent(c, "deregister")}
        /\ Sent(c, "deregister").c = c /\ Sent(c, "deregister").op = "deregister"
        /\ Sent(c, "deregister").stage = "sent" /\ Sent(c, "deregister").life = col[c].life
    BY Zenon DEF Send, Sent
  <2> QED
    BY <2>1, Zenon
<1>3. col \in [Collectors -> Process] /\ \A r \in calls : r.c \in Collectors
  BY Zenon DEF RegistrationInv, TypeOK, Process, Requests
<1>4. /\ col'[c].pc = "leave" /\ col'[c].life = col[c].life
      /\ \A d \in Collectors : d # c => col'[d] = col[d]
  BY <1>3, Zenon DEF Shutdown, Process
<1>5. registry[c] # 0
  BY DEF RegistrationInv, TypeOK, Started, Handshake, RunningIsRegistered
<1>6. \A r \in calls : r.c # c
  BY Zenon DEF Attended, Waiting
<1>7. Vacated'
  BY <1>4 DEF Vacated
<1>8. Waiting(m)' /\ \A r \in calls : Waiting(r)'
  <2>1. Waiting(m)'
    BY <1>1, <1>4, Zenon DEF Waiting
  <2>2. \A r \in calls : col'[r.c] = col[r.c]
    BY <1>3, <1>4, <1>6, Zenon
  <2>3. \A r \in calls : Waiting(r)
    BY Zenon DEF Attended
  <2>4. \A r \in calls : Waiting(r)'
    BY ONLY <2>2, <2>3, WaitingKept, Zenon
  <2> QED
    BY ONLY <2>1, <2>4, Zenon
<1>9. Attended'
  <2>1. /\ \A r \in calls : r.c # m.c /\ Waiting(r)'
        /\ m.op = "register" => registry[m.c] = 0
        /\ m.op = "deregister" => registry[m.c] # 0
    BY ONLY <1>1, <1>5, <1>6, <1>8, Zenon
  <2> QED
    BY ONLY Attended, registry' = registry, <1>1, <1>8, <2>1, AttendedWith, Zenon
<1> QED
  BY <1>7, <1>9, Zenon

\* The steps of the shutdown.
LEMMA OrderlyShutdown ==
  ASSUME RegistrationInv, OrderlyInv, ShutdownStep
  PROVE  OrderlyInv'
<1>0. UNCHANGED <<faults, turned>> /\ main' # "starting" /\ (up' => up)
  BY DEF ShutdownStep, ShutdownBegins, KillRemaining, DrainClients, BrokerStops,
       AskToStop, history
<1>1. CASE ShutdownBegins
  <2>1. UNCHANGED <<up, registry, calls, token, col>> /\ ~Ended /\ ~Ended'
    BY <1>1, Zenon DEF ShutdownBegins, service, Ended
  <2> QED
    BY <1>0, <2>1, Zenon DEF OrderlyInv, Vacated, Attended, Waiting
<1>2. CASE KillRemaining
  <2>1. Ended' /\ \A c \in Collectors : col'[c].pc = "off"
    BY <1>2, Zenon DEF KillRemaining, Ended, RegistrationInv, TypeOK
  <2> QED
    BY <1>0, <2>1, Zenon DEF OrderlyInv
<1>3. CASE DrainClients
  <2>1. Ended' /\ Ended /\ UNCHANGED col
    BY <1>3, Zenon DEF DrainClients, Ended
  <2> QED
    BY <1>0, <2>1, Zenon DEF OrderlyInv
<1>4. CASE BrokerStops
  <2>1. ~up' /\ ~Ended'
    BY <1>4, Zenon DEF BrokerStops, Ended
  <2> QED
    BY <1>0, <2>1, Zenon DEF OrderlyInv
<1>5. ASSUME NEW c \in Collectors, AskToStop(c) PROVE OrderlyInv'
  <2>1. UNCHANGED <<main, up, registry, token>> /\ ~Ended /\ ~Ended'
    BY <1>5, Zenon DEF AskToStop, Ended
  <2>2. CASE UNCHANGED <<col, calls>>
    BY <1>0, <2>1, <2>2, Zenon DEF OrderlyInv, Vacated, Attended, Waiting
  <2>3. CASE col[c].pc = "run" /\ col' = [col EXCEPT ![c] = Shutdown(@)] /\ Send(c, "deregister")
    BY <1>0, <2>1, <2>3, OrderlyLeaving, Zenon DEF OrderlyInv
  <2> QED
    BY <1>5, <2>2, <2>3, Zenon DEF AskToStop
<1> QED
  BY <1>1, <1>2, <1>3, <1>4, <1>5, Zenon DEF ShutdownStep
\* The steps of a collector.
LEMMA OrderlyCollector ==
  ASSUME RegistrationInv, OrderlyInv, NEW c \in Collectors, CollectorStep(c)
  PROVE  OrderlyInv'
<1>0. /\ UNCHANGED <<main, up, registry, faults>>
      /\ col \in [Collectors -> Process] /\ \A r \in calls : r.c \in Collectors
  BY Zenon DEF CollectorStep, CollectorStarts, DispatchRegistration, CollectorLeaves,
       CallTimesOut, CollectorCrashes, agent, service, RegistrationInv, TypeOK, Process, Requests
<1>1. CASE CollectorStarts(c)
  <2>1. /\ UNCHANGED <<calls, turned>> /\ ~Ended /\ col[c].pc = "off"
        /\ col'[c].pc = "boot" /\ token'[c] = col'[c].life
        /\ \A d \in Collectors : d # c => col'[d] = col[d] /\ token'[d] = token[d]
    BY <1>0, <1>1, Zenon DEF CollectorStarts, service, history, Ended, RegistrationInv, TypeOK
  <2>2. ASSUME Vacated, Attended PROVE Vacated' /\ Attended'
    <3>1. Vacated'
      BY <1>0, <2>1, <2>2, Zenon DEF Vacated
    <3>2. \A r \in calls : r.c # c
      BY <2>1, <2>2, Zenon DEF Attended, Waiting
    <3>3. \A r \in calls : Waiting(r)'
      <4>1. \A r \in calls : Waiting(r)
        BY <2>2, Zenon DEF Attended
      <4>2. \A r \in calls : col'[r.c] = col[r.c]
        BY ONLY <1>0, <2>1, <3>2, Zenon
      <4> QED
        BY ONLY <4>1, <4>2, WaitingKept, Zenon
    <3> QED
      BY <1>0, <2>1, <2>2, <3>1, <3>3, Zenon DEF Attended
  <2> QED
    BY <1>0, <2>1, <2>2, Zenon DEF OrderlyInv, Ended
<1>2. CASE DispatchRegistration(c)
  <2>1. /\ UNCHANGED <<token, turned>> /\ col[c].pc = "boot"
        /\ col'[c].pc = "call" /\ col'[c].life = col[c].life /\ col'[c].attempt = col[c].attempt
        /\ \A d \in Collectors : d # c => col'[d] = col[d]
    BY <1>0, <1>2, Zenon DEF DispatchRegistration, history, Process
  <2>2. PICK m : /\ calls' = calls \cup {m}
                 /\ m.c = c /\ m.op = "register" /\ m.stage = "sent"
                 /\ m.life = col[c].life /\ m.n = col[c].attempt
    <3>1. /\ calls' = calls \cup {Sent(c, "register")}
          /\ Sent(c, "register").c = c /\ Sent(c, "register").op = "register"
          /\ Sent(c, "register").stage = "sent" /\ Sent(c, "register").life = col[c].life
          /\ Sent(c, "register").n = col[c].attempt
      BY <1>2, Zenon DEF DispatchRegistration, Send, Sent
    <3> QED
      BY <3>1, Zenon
  <2>3. ~Ended
    BY <2>1, Zenon DEF OrderlyInv
  <2>4. ASSUME Vacated, Attended PROVE Vacated' /\ Attended'
    <3>1. Vacated'
      BY <1>0, <2>1, <2>4, Zenon DEF Vacated
    <3>2. \A r \in calls : r.c # c
      BY <2>1, <2>4, Zenon DEF Attended, Waiting
    <3>3. Waiting(m)' /\ \A r \in calls : Waiting(r)'
      <4>1. Waiting(m)'
        BY <2>1, <2>2, Zenon DEF Waiting
      <4>2. \A r \in calls : col'[r.c] = col[r.c]
        BY <1>0, <2>1, <3>2, Zenon
      <4> QED
        BY <2>4, <4>1, <4>2, Zenon DEF Attended, Waiting
    <3>4. registry[c] = 0
      BY <2>1, <2>4, Zenon DEF Vacated
    <3> QED
      BY <1>0, <2>2, <2>4, <3>1, <3>2, <3>3, <3>4, AttendedWith, Zenon
  <2> QED
    BY <1>0, <2>1, <2>3, <2>4, Zenon DEF OrderlyInv, Ended
<1>3. CASE CollectorLeaves(c)
  <2>1. /\ UNCHANGED <<token, turned>> /\ col[c].pc = "run"
        /\ col' = [col EXCEPT ![c] = Shutdown(@)] /\ Send(c, "deregister")
    BY <1>3, Zenon DEF CollectorLeaves, history
  <2>2. ~Ended
    BY <2>1, Zenon DEF OrderlyInv
  <2> QED
    BY <1>0, <2>1, <2>2, OrderlyLeaving, Zenon DEF OrderlyInv, Ended
<1>4. CASE CallTimesOut(c)
  <2>1. col[c].pc # "off" /\ (faults = {} => ~up /\ turned' = turned)
    BY <1>4, Zenon DEF CallTimesOut, TurnedAway
  <2> QED
    BY <1>0, <2>1, Zenon DEF OrderlyInv, Ended
<1>5. CASE CollectorCrashes(c)
  <2>1. col[c].pc # "off" /\ faults # {}
    BY <1>5, Zenon DEF CollectorCrashes
  <2> QED
    BY <1>0, <2>1, Zenon DEF OrderlyInv, Ended
<1> QED
  BY <1>1, <1>2, <1>3, <1>4, <1>5, Zenon DEF CollectorStep

\* A handler that moves on keeps its caller waiting.
LEMMA AttendedMoves ==
  ASSUME TypeOK, Attended, NEW r \in calls, NEW s \in Stages \ {"refused"}, MoveTo(r, s),
         col' = col, \A c \in Collectors : c # r.c => registry'[c] = registry[c],
         r.op = "register" => (registry'[r.c] = 0 <=> s \in {"sent", "admit"}),
         r.op = "deregister" => (registry'[r.c] = 0 <=> s # "sent")
  PROVE  Attended'
<1>1. PICK m : /\ calls' = (calls \ {r}) \cup {m}
               /\ m.stage = s /\ m.c = r.c /\ m.op = r.op /\ m.life = r.life /\ m.n = r.n
  <2>1. r \in Requests /\ s \in Stages
    BY Zenon DEF TypeOK
  <2> DEFINE m == [r EXCEPT !.stage = s]
  <2>2. calls' = (calls \ {r}) \cup {m}
    BY Zenon DEF MoveTo
  <2>3. m.stage = s /\ m.c = r.c /\ m.op = r.op /\ m.life = r.life /\ m.n = r.n
    BY <2>1, Moved, Zenon
  <2> HIDE DEF m
  <2> QED
    BY <2>2, <2>3, Zenon
<1>2. \A q \in calls : q.c \in Collectors /\ Waiting(q)' /\ (q # r => q.c # r.c)
  BY Zenon DEF Attended, Waiting, TypeOK, Requests
<1>3. Waiting(m)'
  BY <1>1, <1>2, Zenon DEF Waiting
<1> SUFFICES ASSUME NEW p \in calls'
             PROVE  /\ Waiting(p)' /\ p.stage # "refused"
                    /\ p.op = "register" => (registry'[p.c] = 0 <=> p.stage \in {"sent", "admit"})
                    /\ p.op = "deregister" => (registry'[p.c] = 0 <=> p.stage # "sent")
                    /\ \A q \in calls' : q.c = p.c => q = p
  BY Zenon DEF Attended
<1>4. CASE p = m
  BY <1>1, <1>2, <1>3, <1>4, Zenon
<1>5. CASE p \in calls \ {r}
  <2>1. p.c # r.c /\ registry'[p.c] = registry[p.c] /\ Waiting(p)'
    BY <1>2, <1>5, Zenon
  <2>2. \A q \in calls' : q.c = p.c => q = p
    BY <1>1, <1>5, <2>1, Zenon DEF Attended
  <2> QED
    BY <1>5, <2>1, <2>2, Zenon DEF Attended
<1> QED
  BY <1>1, <1>4, <1>5, Zenon

\* A handler that has ended leaves a collector without requests.
LEMMA AttendedWithout ==
  ASSUME TypeOK, Attended, NEW r \in calls, calls' = calls \ {r}, registry' = registry,
         \A c \in Collectors : c # r.c => col'[c] = col[c]
  PROVE  Attended'
<1>1. \A q \in calls' : q \in calls /\ q.c \in Collectors /\ q.c # r.c
  BY Zenon DEF Attended, TypeOK, Requests
<1>2. \A q \in calls' : Waiting(q)'
  <2>1. \A q \in calls' : col'[q.c] = col[q.c] /\ Waiting(q)
    BY <1>1, Zenon DEF Attended
  <2> QED
    BY ONLY <2>1, WaitingKept, Zenon
<1> QED
  BY <1>1, <1>2, Zenon DEF Attended

\* The handlers, while no fault is possible and the processes are not ended.
LEMMA OrderlyHandles ==
  ASSUME RegistrationInv, NEW r \in calls, Handle(r), faults = {}, Vacated, Attended
  PROVE  Vacated' /\ Attended' /\ turned' = turned
<1>0. /\ r.c \in Collectors /\ col \in [Collectors -> Process]
      /\ r \in Requests /\ TypeOK /\ Waiting(r) /\ r.stage # "refused"
      /\ r.op = "register" => (registry[r.c] = 0 <=> r.stage \in {"sent", "admit"})
      /\ r.op = "deregister" => (registry[r.c] = 0 <=> r.stage # "sent")
  BY Zenon DEF Attended, RegistrationInv, TypeOK, Process, Requests
<1>1. ~AnswerRefusal(r) /\ ~RequestExpires(r) /\ ~RefuseDescriptor(r)
  BY <1>0, Zenon DEF AnswerRefusal, RequestExpires, RefuseDescriptor
<1>2. CASE CheckAdmission(r)
  <2>1. Vacant(r.c) /\ Verifies(r)
    BY <1>0, <1>2, Zenon DEF CheckAdmission, Vacant, Verifies, Vacated, Waiting
  <2>2. /\ UNCHANGED <<registry, token, col, turned>> /\ MoveTo(r, "admit") /\ r.op = "register"
        /\ r.stage = "sent"
    BY <1>2, <2>1, Zenon DEF CheckAdmission, history
  <2> QED
    BY <1>0, <2>2, AttendedMoves, Zenon DEF Vacated, Stages
<1>3. CASE InsertRecord(r)
  <2>1. /\ UNCHANGED <<token, col, turned>> /\ MoveTo(r, "client") /\ r.op = "register"
        /\ registry'[r.c] = r.life /\ \A c \in Collectors : c # r.c => registry'[c] = registry[c]
    BY <1>0, <1>3, Zenon DEF InsertRecord, TypeOK
  <2>2. r.life # 0
    BY DEF RegistrationInv, Handshake, Numbered
  <2>3. Vacated'
    BY <1>0, <2>1, Zenon DEF Vacated, Waiting
  <2> QED
    BY <1>0, <2>1, <2>2, <2>3, AttendedMoves, Zenon DEF Stages
<1>4. CASE CreateRpcClient(r)
  <2>1. /\ UNCHANGED <<registry, token, col, turned>> /\ MoveTo(r, "mark") /\ r.op = "register"
        /\ r.stage = "client"
    BY <1>4, Zenon DEF CreateRpcClient, history
  <2> QED
    BY <1>0, <2>1, AttendedMoves, Zenon DEF Vacated, Stages
<1>5. CASE MarkCollectorReady(r)
  <2>1. /\ UNCHANGED <<registry, token, turned>> /\ calls' = calls \ {r}
        /\ col'[r.c].pc = "run" /\ \A c \in Collectors : c # r.c => col'[c] = col[c]
    BY <1>0, <1>5, Zenon DEF MarkCollectorReady, Accept, Process
  <2> QED
    BY <1>0, <2>1, AttendedWithout, Zenon DEF Vacated
<1>6. CASE RemoveRecord(r)
  <2>1. /\ UNCHANGED <<token, col, turned>> /\ MoveTo(r, "client") /\ r.op = "deregister"
        /\ registry'[r.c] = 0 /\ \A c \in Collectors : c # r.c => registry'[c] = registry[c]
    BY <1>0, <1>6, Zenon DEF RemoveRecord, RecordsWithout, Vacant, history, TypeOK
  <2>2. Vacated'
    BY <1>0, <2>1, Zenon DEF Vacated
  <2> QED
    BY <1>0, <2>1, <2>2, AttendedMoves, Zenon DEF Stages
<1>7. CASE RemoveRpcClient(r)
  <2>1. /\ UNCHANGED <<registry, token, turned>> /\ calls' = calls \ {r}
        /\ r.op = "deregister" /\ r.stage = "client" /\ registry[r.c] = 0
        /\ col'[r.c].pc = "off" /\ \A c \in Collectors : c # r.c => col'[c] = col[c]
    BY <1>0, <1>7, Zenon DEF RemoveRpcClient, Process
  <2> QED
    BY <1>0, <2>1, AttendedWithout, Zenon DEF Vacated
<1> QED
  BY <1>1, <1>2, <1>3, <1>4, <1>5, <1>6, <1>7, Zenon DEF Handle

LEMMA OrderlyHandler ==
  ASSUME RegistrationInv, OrderlyInv, NEW r \in calls, Handle(r)
  PROVE  OrderlyInv'
<1>1. UNCHANGED <<main, up, faults>> /\ up /\ main # "starting"
  BY Zenon DEF Handle, CheckAdmission, InsertRecord, RefuseDescriptor, CreateRpcClient,
       MarkCollectorReady, AnswerRefusal, RemoveRecord, RemoveRpcClient, RequestExpires, agent,
       RegistrationInv, Beginning
<1>2. CASE Ended
  <2>1. ~Waiting(r)
    BY <1>2, Zenon DEF OrderlyInv, Waiting, RegistrationInv, TypeOK, Requests
  <2>2. UNCHANGED <<col, turned>>
    BY <2>1, Zenon DEF Handle, CheckAdmission, InsertRecord, RefuseDescriptor, CreateRpcClient,
         MarkCollectorReady, AnswerRefusal, RemoveRecord, RemoveRpcClient, RequestExpires, history
  <2> QED
    BY <1>1, <1>2, <2>2, Zenon DEF OrderlyInv, Ended
<1>3. CASE ~Ended
  BY <1>1, <1>3, OrderlyHandles, Zenon DEF OrderlyInv, Ended
<1> QED
  BY <1>2, <1>3, Zenon

LEMMA OrderlyNext == RegistrationInv /\ ServiceInv /\ OrderlyInv /\ [Next]_vars => OrderlyInv'
<1> SUFFICES ASSUME RegistrationInv, ServiceInv, OrderlyInv, [Next]_vars PROVE OrderlyInv'
  BY Zenon
<1>1. CASE UNCHANGED vars
  BY <1>1, Zenon DEF vars, agent, service, history, OrderlyInv, Ended, Vacated, Attended, Waiting
<1> QED
  BY <1>1, OrderlyMain, OrderlyShutdown, OrderlyCollector, OrderlyHandler, Zenon DEF Next

\* Without faults every attempt to register succeeds, for any number of
\* collectors and of processes that come and go: a process starts only after
\* the deregistration of the one before has been answered, and by then the
\* record has gone (register_with_broker, deregister_collector).
THEOREM EveryoneAdmitted == Spec => []NobodyTurnedAway
<1>1. OrderlyInv => NobodyTurnedAway
  BY Zenon DEF OrderlyInv, NobodyTurnedAway
<1> QED
  BY <1>1, RegistrationInit, RegistrationNext, ServiceInit, ServiceNext, OrderlyInit, OrderlyNext,
     PTL DEF Spec
=============================================================================
