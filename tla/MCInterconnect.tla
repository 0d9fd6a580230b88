--------------------------- MODULE MCInterconnect ---------------------------
(***************************************************************************)
(* Accesses of small instances of Interconnect.                            *)
(***************************************************************************)
EXTENDS Interconnect

A(c, ch, q, r) == [core |-> c, channel |-> ch, platform |-> q, responds |-> r]

\* Both cores use channel 0; core 1 sends a P_HEADER and a READRES there.
Contended == <<A(0, 0, SA, TRUE), A(1, 0, PIM, FALSE), A(1, 0, PIM, TRUE), A(0, 1, SA, TRUE)>>
=============================================================================
