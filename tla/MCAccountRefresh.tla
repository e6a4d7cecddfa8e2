-------------------------- MODULE MCAccountRefresh --------------------------
(* Model values for checking AccountRefresh.                               *)
EXTENDS AccountRefresh

CONSTANTS t1, t2, c1, c2, c3
=============================================================================
