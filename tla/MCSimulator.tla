---------------------------- MODULE MCSimulator ----------------------------
(* Instances of Simulator for TLC. *)
EXTENDS Simulator

\* A small model and memory: 2 heads of 2, rows of 4 parameters, 2 banks.
MCDim == [nh |-> 2, dk |-> 2, page |-> 4, banks |-> 2]

\* Two sub-batches, formed by either algorithm, or one batch.
Mode(sub, simple) == [sub_batch_mode |-> sub, partition_alg_simple |-> simple]
MCConfigs == {Mode(TRUE, FALSE), Mode(TRUE, TRUE), Mode(FALSE, FALSE)}
SubBatches == {Mode(TRUE, FALSE)}

\* Three requests on two channels; both channels have work for sub-batch 1 or 2.
MCChannel3 == <<0, 1, 0>>
MCInputSize3 == <<3, 5, 9>>

\* A single request: one of the two sub-batches stays empty.
MCChannel1 == <<0>>
MCInputSize1 == <<3>>
=============================================================================
