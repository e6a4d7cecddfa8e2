--------------------------- MODULE MCImageRequest ---------------------------
(* Model values for checking ImageRequest: two images wanted out of three  *)
(* slots, two accounts with one request in flight each.                    *)
EXTENDS ImageRequest

CONSTANTS i1, i2, i3, a1, a2, t1, t2
=============================================================================
