------------------------- MODULE MCFailureCoalescer -------------------------
(* Model values for checking FailureCoalescer.                             *)
EXTENDS FailureCoalescer

CONSTANTS f1, f2, f3, t1, t2
=============================================================================
