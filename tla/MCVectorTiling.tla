---------------------------- MODULE MCVectorTiling ----------------------------
(***************************************************************************)
(* Rows of 2 and 3 elements, on a core of width 2 and vector units of      *)
(* width 4.  Softmax has one or two requests.                              *)
(***************************************************************************)
EXTENDS VectorTiling

MCRowCounts == (1..24) \cup {32, 64}
=============================================================================
