-------------------------- MODULE MCRepositoryTxn ---------------------------
(* Instances of RepositoryTxn for TLC.                                     *)
EXTENDS RepositoryTxn, TLC

CONSTANTS a, b, c, o, n1, n2, x1, x2, x3, x4, u1, u2, d1, g1, g2, f1, f2

Old(ref_count) == ARow({n1}, ref_count, FALSE)
AFile(name, chunkSeq) == [name |-> name, chunks |-> chunkSeq]

\* Files <<a, b>> and <<b>>; o is an orphan and c is unknown.
Shared == [rows  |-> (a :> Old(1)) @@ (b :> Old(2)),
           files |-> (f1 :> AFile(x1, <<a, b>>)) @@ (f2 :> AFile(x2, <<b>>))]

\* A collector that died has left b tombstoned; there are no files.
Locked == [rows |-> (b :> Old(-1)) @@ (o :> Old(0)), files |-> Empty]

SharedOrLocked == {Shared, Locked}

\* One upload sends b, c and the other c, b, while the file <<a, b>> is deleted.
CrossedChunks == (u1 :> <<b, c>>) @@ (u2 :> <<c, b>>)
CrossedNames == (u1 :> x3) @@ (u2 :> x4) @@ (d1 :> x1)

\* An orphan is uploaded again while it is collected.
Orphaned == {[rows |-> a :> Old(0), files |-> Empty]}
AgainChunks == u1 :> <<a>>
AgainNames == u1 :> x3
=============================================================================
