-------------------------- MODULE MCWorkerStorage ---------------------------
(* Instances of WorkerStorage for TLC: three saves of one chunk and one of  *)
(* another, and deletes of both.                                            *)
EXTENDS WorkerStorage, TLC

CONSTANTS a, b, s1, s2, s3, s4, d1, d2

Sent == (s1 :> a) @@ (s2 :> a) @@ (s3 :> a) @@ (s4 :> b)
Purged == (d1 :> a) @@ (d2 :> b)
=============================================================================
