----------------------------- MODULE MCMonitor -----------------------------
(* A small host and a small mailbox for procmond in actor mode. *)
EXTENDS Monitor

CONSTANTS p1

Image(exe, args) ==
    [name |-> "n", exe |-> exe, args |-> args, user |-> "u", hash |-> NoValue, memory |-> NoValue]
MCImages == {Image("x", "a"), Image("x", "b")}
MCTracking ==
    [minLifetime |-> 1, reuse |-> TRUE, args |-> TRUE, exe |-> TRUE, memory |-> FALSE,
     threshold |-> 50, maxAge |-> 100]
SafetySpec == Init /\ [][Next]_vars
=============================================================================
