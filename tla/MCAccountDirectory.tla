------------------------- MODULE MCAccountDirectory -------------------------
(* Model values and inputs for checking AccountDirectory.                  *)
EXTENDS AccountDirectory, TLC

CONSTANTS t1, t2, r1, r2

ChatOnly   == {"chat"}
BothKinds  == {"chat", "image"}
Capped     == {"random", "fast"}
QuotaOnly  == {"quota"}
AnyStrategy == {"quota", "random", "fast"}

\* A model of the basic tier, and its auto mode with the fallback to fast.
PoolOrder == <<"basic", "super">>
ModeOrder == <<"auto", "fast">>

RowAs(pool, status, deleted) ==
    [pool |-> pool, status |-> status, windows |-> SupportedModes(pool),
     deleted |-> deleted, rev |-> 0]

\* An account of either pool, and one that is deleted.
Rows == {RowAs("basic", "active", FALSE), RowAs("super", "active", FALSE),
         RowAs("super", "active", TRUE)}

Symmetry == Permutations(Tokens) \cup Permutations(Requests)
=============================================================================
