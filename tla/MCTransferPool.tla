--------------------------- MODULE MCTransferPool ---------------------------
(* An instance of TransferPool for TLC: three chunks, one with two         *)
(* replicas.                                                               *)
EXTENDS TransferPool

CONSTANTS t1, t2

MixedReplicas == <<<<"n1", "n2">>, <<"n1">>, <<"n2">>>>
=============================================================================
