---------------------------- MODULE MCExtensions ----------------------------
(* Model checking of Extensions: two instances, one with an External       *)
(* Extension that calls register twice, listing both events or the one     *)
(* that an Internal Extension may list; the other with an Extension that   *)
(* fails to start.                                                         *)
EXTENDS Extensions, TLC

CONSTANTS
    g1, g2,  \* process groups
    x        \* the name of the Extension

Two     == {g1, g2}
Files   == {x}
Calls   == {<<g1, x, 1>>, <<g1, x, 2>>}
GroupIn == [c \in Calls |-> c[1]]
NameIn  == [c \in Calls |-> c[2]]
Early   == {<<g2, "register">>}
AsksFor == [c \in Calls |-> IF c[3] = 1 THEN Kinds ELSE {"INVOKE"}]
=============================================================================
