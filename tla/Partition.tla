------------------------------ MODULE Partition ------------------------------
(***************************************************************************)
(* The two algorithms that split the requests of a DRAM channel into the   *)
(* two sub-batches (Scheduler::group_sub_batches), and the latency         *)
(* estimate they weigh requests with.  Indices are 1-based here, 0-based   *)
(* in the code.                                                            *)
(***************************************************************************)
EXTENDS Integers, Sequences, SequencesExt, FiniteSetsExt

CeilDiv(a, b) == (a + b - 1) \div b

gwrite_latency == 100
gemv_latency   == 184

\* Scheduler::estimate_mha_latency for a request of seq_len tokens, where dim
\* holds the model and memory dimensions (nh, dk, page = parameters per DRAM
\* row, banks = banks per channel).
estimate_mha_latency(seq_len, dim) ==
  LET key_chunks   == CeilDiv(dim.nh * dim.dk, dim.page)
      key_tiles    == CeilDiv(seq_len, dim.banks)
      value_chunks == CeilDiv(seq_len, dim.page) * dim.nh
      value_tiles  == CeilDiv(dim.dk, dim.banks)
  IN  key_chunks * (gwrite_latency + key_tiles * gemv_latency)
      + value_chunks * (gwrite_latency + value_tiles * gemv_latency)

SumSeq(s) == FoldLeft(+, 0, s)

\* The matrix of partition_lists_dp: dp[<<i, j>>] says that some subset of the
\* first i elements adds up to j.
DpTable(in, target) ==
  LET dp[ij \in (0..Len(in)) \X (0..target)] ==
        LET i == ij[1]
            j == ij[2]
        IN  \/ j = 0
            \/ /\ i > 0
               /\ \/ dp[<<i - 1, j>>]
                  \/ j >= in[i] /\ dp[<<i - 1, j - in[i]>>]
  IN  dp

\* Mutant: the elements left when the sum is reached are in neither list.
Reconstruct_drop_rest(in, dp, maxSum) ==
  LET Taken(i, j) == j > 0 /\ dp[<<i, j>>] /\ ~dp[<<i - 1, j>>]
      n == Len(in)
      rest[k \in 0..n] ==
        IF k = 0 THEN maxSum
        ELSE LET i == n - k + 1
                 j == rest[k - 1]
             IN  IF Taken(i, j) THEN j - in[i] ELSE j
      walk == [k \in 1..n |-> n - k + 1]
      InList1(i) == Taken(i, rest[n - i])
  IN  [list1 |-> SelectSeq(walk, InList1),
       list2 |-> SelectSeq(walk, LAMBDA i : ~InList1(i) /\ rest[n - i] > 0)]

\* The backward walk that reconstructs the lists: rest[i] is the sum still to
\* be covered by the first i elements, and element i is taken exactly when
\* the first i - 1 elements cannot cover rest[i] on their own.
Reconstruct(in, dp, maxSum) ==
  LET Taken(i, j) == j > 0 /\ dp[<<i, j>>] /\ ~dp[<<i - 1, j>>]
      n == Len(in)
      rest[k \in 0..n] ==      \* after k steps of the walk
        IF k = 0 THEN maxSum
        ELSE LET i == n - k + 1
                 j == rest[k - 1]
             IN  IF Taken(i, j) THEN j - in[i] ELSE j
      walk == [k \in 1..n |-> n - k + 1]
      InList1(i) == Taken(i, rest[n - i])
  IN  [list1 |-> SelectSeq(walk, InList1),
       list2 |-> SelectSeq(walk, LAMBDA i : ~InList1(i))]

\* Scheduler::partition_lists_dp: the two lists of indices.
partition_lists_dp(in) ==
  LET target == SumSeq(in) \div 2
      dp     == DpTable(in, target)
      maxSum == Max({j \in 0..target : dp[<<Len(in), j>>]})
  IN  Reconstruct(in, dp, maxSum)

\* The _partition_alg_simple branch of group_sub_batches: how many requests of
\* a channel with n requests go to sub-batch 1.
simple_sb1_size(n, ceil_turn) ==
  IF n % 2 = 0 THEN n \div 2
  ELSE IF ceil_turn THEN CeilDiv(n, 2) ELSE n \div 2
==============================================================================
