---------------------------- MODULE MCVideoJobs -----------------------------
(* Model values for checking VideoJobs: one job, one streamed completion,  *)
(* two workers, and a small file an earlier service left.                  *)
EXTENDS VideoJobs, TLC

CONSTANTS w1, w2, r1, r2, f1, f2, f3, admin

MCBytes == (f1 :> 1) @@ (f2 :> 2) @@ (f3 :> 1)
MCHome  == (r1 :> w1) @@ (r2 :> w2) @@ (admin :> w1)
MCSegments == (r1 :> 2) @@ (r2 :> 1)
MCFile  == (r1 :> f1) @@ (r2 :> f2)
MCLeftovers == {(f1 :> 0) @@ (f2 :> 1) @@ (f3 :> 2)}
MCOps   == {w1, w2, r1, r2, admin}
=============================================================================
