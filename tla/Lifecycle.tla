----------------------------- MODULE Lifecycle -----------------------------
(***************************************************************************)
(* ProcessLifecycleTracker (procmond/src/lifecycle.rs): the comparison of  *)
(* two enumerations of the process table.  A table is a function from pid  *)
(* to snapshot; a snapshot keeps the fields the comparison reads.          *)
(***************************************************************************)
EXTENDS Integers

CONSTANTS
    Tracking,   \* LifecycleTrackingConfig
    NoValue     \* None, for the optional fields

(* ProcessSnapshot without its pid, which is the key of the table.         *)
Snapshot(image, start, taken) ==
    [name |-> image.name, exe |-> image.exe, args |-> image.args,
     user |-> image.user, hash |-> image.hash, memory |-> image.memory,
     start |-> start, taken |-> taken]

(* A start is legitimate once the process has lived min_process_lifetime;  *)
(* a start time after the snapshot fails the subtraction.                  *)
ValidStart(s) ==
    s.start = NoValue \/ s.taken - s.start >= Tracking.minLifetime

(* The threshold tests of memory_usage and cpu_usage, in percent.          *)
Drifts(old, new, threshold) ==
    /\ old # NoValue /\ new # NoValue
    /\ IF old = 0 THEN new > 0
       ELSE (IF new > old THEN new - old ELSE old - new) * 100 > threshold * old

(* compare_snapshots: the tracked fields that differ.  A hash counts only  *)
(* when both enumerations computed one.                                    *)
ModifiedFields(p, c) ==
    {f \in {"args"} : Tracking.args /\ p.args # c.args}
    \cup {f \in {"exe"} : Tracking.exe /\ p.exe # c.exe}
    \cup {f \in {"memory"} : Tracking.memory /\ Drifts(p.memory, c.memory, Tracking.threshold)}
    \cup {f \in {"hash"} : p.hash # c.hash /\ p.hash # NoValue /\ c.hash # NoValue}
    \cup {f \in {"user"} : p.user # c.user}

(* Mutant: the start time is not compared.                                 *)
PidReuseByName(p, c) == p.name # c.name \/ p.exe # c.exe

(* The pid now names another process.                                      *)
PidReuse(p, c) == p.name # c.name \/ p.exe # c.exe \/ p.start # c.start

(* A start time in the future, or more than a year ago.                    *)
TimestampAnomaly(s, now) ==
    s.start # NoValue /\ (s.start > now \/ now - s.start > Tracking.maxAge)

Started(prev, cur) == {p \in DOMAIN cur \ DOMAIN prev : ValidStart(cur[p])}
Stopped(prev, cur) == DOMAIN prev \ DOMAIN cur
Modified(prev, cur) ==
    {p \in DOMAIN cur \cap DOMAIN prev : ModifiedFields(prev[p], cur[p]) # {}}
Suspicious(prev, cur, now) ==
    {p \in DOMAIN cur \cap DOMAIN prev :
        Tracking.reuse /\ (PidReuse(prev[p], cur[p]) \/ TimestampAnomaly(cur[p], now))}

(* The event type published for each pid: a later kind of event replaces   *)
(* an earlier one, and a suspicious process is published as modified.      *)
EventType(prev, cur, now, p) ==
    IF p \in Modified(prev, cur) \cup Suspicious(prev, cur, now) THEN "Modify"
    ELSE IF p \in Stopped(prev, cur) THEN "Stop" ELSE "Start"

Changed(prev, cur, now) ==
    Started(prev, cur) \cup Stopped(prev, cur)
    \cup Modified(prev, cur) \cup Suspicious(prev, cur, now)

(* What collect_and_analyze_internal hands to the connector: it walks the  *)
(* processes of this enumeration, so a pid that has gone is not among them.*)
ToPublish(prev, cur, now) ==
    {[pid |-> p, type |-> EventType(prev, cur, now, p)] :
        p \in Changed(prev, cur, now) \cap DOMAIN cur}
=============================================================================
