------------------------------ MODULE MCEngine ------------------------------
(* Instances of Engine: one table of one or two columns, two collectors.   *)
EXTENDS Engine

CONSTANTS t1, c1, c2, r1

a == [table |-> t1, name |-> 1]
b == [table |-> t1, name |-> 2]

MCColumns == {a, b}
OneColumn == {a}
Reserved == [t \in Tables |-> c1]
Unreserved == [t \in Tables |-> NoOne]
OnA == {[refs |-> {a}, fits |-> {1, 2}]}
OnAtwice == OnA \cup {[refs |-> {a}, fits |-> {1}]}
Descriptor(cols, version, passes) == [cols |-> cols, version |-> version, passes |-> passes]
NoTables == Descriptor({}, 1, {})
OnOff == {Descriptor({a}, 1, {a}), NoTables}
MoreOrLess == {Descriptor({a, b}, 1, {a}), Descriptor({a}, 2, {}), Descriptor({b}, 1, {})}
=============================================================================
