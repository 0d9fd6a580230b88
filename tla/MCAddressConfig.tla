--------------------------- MODULE MCAddressConfig ---------------------------
(***************************************************************************)
(* Rows at both ends of a bank, headers of every size, and two runs of     *)
(* accesses.                                                               *)
(***************************************************************************)
EXTENDS AddressConfig

MCRows == {0, 1, 32767}
MCHeaders == ((1..40) \cup {64, 127}) \X (1..16)
MCBlocks == 0..1100
=============================================================================
