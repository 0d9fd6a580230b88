---------------------------- MODULE MCNeuPIMSCore ----------------------------
(* Small programs for one core. *)
EXTENDS NeuPIMSCore

CONSTANTS A, W, X, Y

I(o, d, s, n) == [opcode |-> o, dest_addr |-> d, size |-> 1, src_addrs |-> s,
                  src_from_accum |-> FALSE, accesses |-> n]
T(p, acc, code) == [platform |-> p, accum |-> acc, skip |-> FALSE, instructions |-> code]

\* A matrix product whose K dimension is cut in two (the second tile
\* accumulates and stores).
MatMul0 == T(SA, FALSE, <<I("MOVIN", X, {}, 1), I("MOVIN", A, {}, 2), I("GEMM", X, {A}, 1)>>)
MatMul1 == T(SA, TRUE, <<I("MOVIN", A, {}, 1), I("GEMM", X, {A}, 1), I("MOVOUT", X, {}, 1)>>)
LayerNorm == T(SA, FALSE, <<I("MOVIN", A, {}, 1), I("VECTOR", X, {A}, 1),
                            I("MOVOUT", X, {}, 2)>>)
Skipped == [LayerNorm EXCEPT !.skip = TRUE]
\* The attention score of one request.
Logit == T(PIM, FALSE, <<I("PIM_GWRITE", A, {}, 1), I("PIM_HEADER", A, {}, 1),
                         I("PIM_READRES", A, {}, 1), I("VECTOR", X, {A}, 1),
                         I("MOVOUT", X, {}, 1)>>)

\* A product, then vector tiles on its side of the scratchpad, one of them to be
\* skipped; beside them two scores, the second one skipped, too.
MixedTiles == <<MatMul0, Logit, MatMul1, LayerNorm, [Logit EXCEPT !.skip = TRUE], Skipped>>
Product == <<MatMul0, MatMul1>>
MCSpadAddr == {A, W}
MCAccAddr  == {X, Y}

ASSUME TilesFit
=============================================================================
