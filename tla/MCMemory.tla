------------------------------ MODULE MCMemory ------------------------------
(***************************************************************************)
(* Small memories: rows of 8 bytes, blocks aligned to 4.                   *)
(***************************************************************************)
EXTENDS Memory

SomeWeights == <<3, 4>>

R(ch, len) == [channel |-> ch, seq_len |-> len]

\* Two requests share channel 0.
ThreeRequests == <<R(0, 3), R(1, 2), R(0, 1)>>
=============================================================================
