------------------------------ MODULE MCStats ------------------------------
(* Instances of Stats for TLC.                                             *)
EXTENDS Stats

\* Two flows of the first worker and one of the second.
ThreeFlows == {<<0, 0>>, <<0, 1>>, <<1, 0>>}
============================================================================
