---------------------------- MODULE MCModelProgram ----------------------------
(***************************************************************************)
(* Two heads of two elements, batches of one or two requests of equal and  *)
(* of different lengths, on one or two devices with one or two layers.     *)
(***************************************************************************)
EXTENDS ModelProgram
=============================================================================
