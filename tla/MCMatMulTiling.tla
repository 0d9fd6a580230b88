--------------------------- MODULE MCMatMulTiling ---------------------------
(***************************************************************************)
(* Shapes for blocks of 2 x 2 elements.                                    *)
(***************************************************************************)
EXTENDS MatMulTiling

\* Sides that are a power of two, a whole number of blocks or neither, and
\* those that are a whole number of blocks until they are halved.
AllShapes == [Sides -> 1..8]

\* A batch of 3 requests.
OddBatch == {<<3, 4, 4>>}
=============================================================================
