------------------------------ MODULE MCStream ------------------------------
(* Instances of Stream for TLC.                                            *)
EXTENDS Stream

TwoBuffers == 2
OneMessage == 1

============================================================================
