---------------------------- MODULE MCAgentStartup ----------------------------
(* AgentStartup on two collectors, both enabled, one of which may restart.  *)
EXTENDS AgentStartup

MCLives == [c \in Collectors |-> IF c = "a" THEN 2 ELSE 1]

TwoLives == [c \in Collectors |-> 2]

\* Wider instances are checked for safety alone.
SafetySpec == Init /\ [][Next]_vars
=============================================================================
