----------------------------- MODULE MCShardMap -----------------------------
(* Instances of ShardMap for TLC.                                          *)
EXTENDS ShardMap, TLC

CONSTANTS a1, a2, a3, a4, n1, n2, r1, b1, b2, b3, b4

\* Every cluster has a name of its own, and the last request repeats the
\* first one, as a retry does.
RetriedNames == (a1 :> 1) @@ (a2 :> 2) @@ (a3 :> 3) @@ (a4 :> 1)

\* Buckets are alike.
BucketSymmetry == Permutations(Bucket)
=============================================================================
