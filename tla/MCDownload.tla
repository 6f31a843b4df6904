----------------------------- MODULE MCDownload -----------------------------
(* Instances of Download for TLC: chunks of two units, of which the last of *)
(* a file may have one.                                                     *)
EXTENDS Download, TLC

CONSTANTS a, b, c, d

Sizes == (a :> 2) @@ (b :> 2) @@ (c :> 1) @@ (d :> 1)

First  == Version(5, <<a, b, c>>)
Second == Version(5, <<a, a, d>>)
Short  == Version(2, <<b>>)

Nothing == Version(0, <<>>)

\* Two versions of one size, a shorter one, and an empty file.
AllVersions == {First, Second, Short, Nothing}

\* A download of the short file, one of the same size, and an empty file.
OldDownloads == {AFile(2, <<b>>), AFile(5, <<"torn", b, d>>), AFile(0, <<>>)}

Placement == (a :> <<"n1", "n2">>) @@ (b :> <<"n1", "n2", "n3">>) @@ (c :> <<"n3">>) @@ (d :> <<"n2", "n1">>)

\* n1 serves nothing; b is undamaged at most on the last node that has it.
Undamaged == {<<a, "n2">>, <<b, "n3">>, <<c, "n3">>, <<d, "n2">>}

\* Every chunk is undamaged somewhere, or b is not.
SomeGood == {Undamaged, Undamaged \ {<<b, "n3">>}}
=============================================================================
