----------------------------- MODULE MCMhaTiling -----------------------------
(***************************************************************************)
(* Six heads of 4 elements, on one device or on two: a row of 16 elements  *)
(* holds four heads, so the last chunk is not full.                        *)
(***************************************************************************)
EXTENDS MhaTiling

\* Below a page, a page, a page and a part that is no power of two, and a
\* request whose logits do not fit the scratchpad.
MCSeqLens == {1, 16, 21, 28}
=============================================================================
