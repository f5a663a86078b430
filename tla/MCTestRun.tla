----------------------------- MODULE MCTestRun -----------------------------
(* Instances of TestRun for TLC.                                           *)
EXTENDS TestRun

CONSTANTS server, c1, c2, c3, s1, t1, t2

ThreeClients == {c1, c2, c3}
OneStray   == {s1}
NoOne      == {}
TwoThreads == {t1, t2}
OnlyC1     == {c1}
SameMagic  == [p \in {server, c1, c2, c3} |-> "m42"]

============================================================================
