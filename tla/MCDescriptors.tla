--------------------------- MODULE MCDescriptors ---------------------------
(* Instances of Descriptors for TLC.                                       *)
EXTENDS Descriptors

CONSTANTS t1, t2

TwoThreads == {t1, t2}

============================================================================
