----------------------------- MODULE MCSampling -----------------------------
(* Instances of Sampling for TLC.                                          *)
EXTENDS Sampling

CONSTANTS t1, t2, f1, f2, f3

TwoThreads  == {t1, t2}
ThreeFlows  == {f1, f2, f3}
TwoFlows    == {f1, f3}
\* t1 handles two flows, t2 one.
ThreeOwned  == [f \in ThreeFlows |-> IF f = f3 THEN t2 ELSE t1]
\* f1 can get two samples, the others one.
WorkOfThree == [f \in ThreeFlows |-> IF f = f1 THEN 2 ELSE 1]
OneEach     == [f \in TwoFlows |-> IF f = f3 THEN t2 ELSE t1]
WorkOfTwo   == [f \in TwoFlows |-> 2]

============================================================================
