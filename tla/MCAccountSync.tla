--------------------------- MODULE MCAccountSync ----------------------------
(* Model values for checking AccountSync.                                  *)
EXTENDS AccountSync, TLC

CONSTANTS t1, t2, t3, w1, w2

TwoPools == {"basic", "super"}
OnePool  == {"super"}

\* One status that is served and one of the two that are not.
Served   == {"active", "expired"}
Symmetry == Permutations(Tokens)
=============================================================================
