--------------------------- MODULE MCControlPlane ---------------------------
(* Instances of ControlPlane for TLC.                                      *)
EXTENDS ControlPlane

CONSTANTS server, c1, c2, c3, s1

ThreeClients == {c1, c2, c3}
OneStray     == {s1}
\* c3 was started with a --magic of its own.
OddMagic     == [p \in {server, c1, c2, c3} |-> IF p = c3 THEN "m43" ELSE "m42"]
OnlyC1       == {c1}
OnlyC2       == {c2}

============================================================================
