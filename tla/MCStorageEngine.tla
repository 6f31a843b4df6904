--------------------------- MODULE MCStorageEngine --------------------------
(* Instances of StorageEngine for TLC.                                     *)
EXTENDS StorageEngineInv, TLC

CONSTANTS h1, h2, w1, w2, c1, c2, m1, m2, f1, f2, n1, n2

Replicated == {{w1, w2}}
Single == {{w1}}

OneChunk == {<<h1>>}
Mixed == {<<h1>>, <<h1, h2>>}
Doubled == {<<h1, h1>>, <<h2>>}

SameName == [c \in Client |-> n1]
OwnNames == (c1 :> n1) @@ (c2 :> n2)

Symmetric == Permutations(Worker) \cup Permutations(Master) \cup Permutations(FileId)
=============================================================================
