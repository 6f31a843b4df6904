--------------------------- MODULE MCCorrelation ----------------------------
(* An instance of Correlation for TLC: every list of up to three of two    *)
(* chunks.                                                                 *)
EXTENDS Correlation

ShortLists == UNION {[1..n -> Hash] : n \in 0..3}
=============================================================================
