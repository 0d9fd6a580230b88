----------------------------- MODULE ModelProgram -----------------------------
(***************************************************************************)
(* A program for the whole model (ModelProgram.cc): the graph of tensors   *)
(* and operations of all layers, built one operation after the other, and  *)
(* the list of the operations that may run.  init_program knows two kinds: *)
(* the end-to-end program, a chain of an attention and a feed-forward      *)
(* block for every layer, and the attention operations of the layers alone *)
(* (end_to_end is a constant of the code, FALSE at present).               *)
(*                                                                         *)
(* An operation is <<iteration, layer, kind, request>> (request 0: for the *)
(* batch), a tensor is an output of an operation; the input, the queries   *)
(* of a program without QKV generation and the key and value caches are    *)
(* outputs of kinds that nothing has to compute.  Weights are produced     *)
(* from the start and appear in the shapes only.                           *)
(*                                                                         *)
(* The operations on the list finish in any order.  When all are finished, *)
(* Scheduler::cleanup_sub_batch prepares the requests for the program of   *)
(* their next token, which meets the same caches.  A request has a cache   *)
(* for every layer here, as the blocks expect (K_cache[layer]); at present *)
(* the scheduler, which builds no such program, makes the one of layer 0   *)
(* only, and it is the only one that cleanup_sub_batch clears.             *)
(***************************************************************************)
EXTENDS Integers, Sequences, FiniteSets, SequencesExt, TLC

CONSTANTS
  EndToEnd,       \* the values of end_to_end
  LayerCounts,    \* model_n_layer
  TpSizes,        \* n_tp
  NumHead, NumEmbd,
  InputSizes, MaxBatch, MaxIterations

Modes == [end_to_end : EndToEnd, npu_only : BOOLEAN, kernel_fusion : BOOLEAN]

ASSUME ModelProgramAssumption ==
  /\ EndToEnd \subseteq BOOLEAN
  /\ LayerCounts \subseteq Nat \ {0} /\ TpSizes \subseteq Nat \ {0} /\ InputSizes \subseteq Nat \ {0}
  /\ {NumHead, NumEmbd, MaxBatch, MaxIterations} \subseteq Nat \ {0}
  /\ NumEmbd % NumHead = 0 /\ \A tp \in TpSizes : NumHead % tp = 0

VARIABLES
  mode, n_layer, n_tp,   \* the configuration, which nothing changes
  reqs,                  \* _breq: input_size and is_initiated of each request
  iter,                  \* the number of the program
  op_map, todo,          \* _op_map, and the operations that are still to be added to it
  dims,                  \* the shape of each tensor
  child_nodes,           \* BTensor::_child_nodes
  executable,            \* _executable_operations
  finished,              \* operations with _finish, whose outputs are produced
  pc                     \* "build", "run", "done"; "aborted": a failed assert, a null pointer

config == <<mode, n_layer, n_tp>>
vars == <<config, reqs, iter, op_map, todo, dims, child_nodes, executable, finished, pc>>

Layers == 0..(n_layer - 1)
Batch  == DOMAIN reqs
Nh     == NumHead \div n_tp
Dk     == NumEmbd \div NumHead

\* Kinds whose tensors exist before the program runs, with produced = true.
Given == {"input", "query", "key", "value"}

\* The k-th output of an operation, and back.
Output(o, k) == <<o[1], o[2], o[3], o[4], k>>
Source(t)    == <<t[1], t[2], t[3], t[4]>>
Key(l, r)    == Output(<<0, l, "key", r>>, 1)
Value(l, r)  == Output(<<0, l, "value", r>>, 1)

-----------------------------------------------------------------------------
(* The blocks: operations in the order of add_op.                           *)

PerRequest(l, kinds) ==
  FlattenSeq([r \in Batch |-> [k \in DOMAIN kinds |-> <<iter, l, kinds[k], r>>]])
ForAll(l, kinds) == [k \in DOMAIN kinds |-> <<iter, l, kinds[k], 0>>]

fused_attn_block(l) == ForAll(l, <<"ln1", "qkv_gen">>)
attn_block(l) ==
  ForAll(l, <<"ln1", "qkv_gen", "split">>)
    \o PerRequest(l, <<"split_decoding", "qk", "softmax", "lsv", "reshape">>)
    \o ForAll(l, <<"concat", "projection", "residual">>)
pim_attn_block(l) ==
  ForAll(l, <<"ln1", "qkv_gen", "split">>) \o PerRequest(l, <<"split_decoding">>)
    \o ForAll(l, <<"pim_gemv", "softmax", "gemv_add">>) \o PerRequest(l, <<"reshape">>)
    \o ForAll(l, <<"concat", "projection", "residual">>)
fused_pim_attn_block(l) ==
  ForAll(l, <<"ln1", "qkv_gen", "split">>) \o PerRequest(l, <<"split_decoding">>)
    \o ForAll(l, <<"logit_softmax", "attend">>) \o PerRequest(l, <<"reshape">>)
    \o ForAll(l, <<"concat", "projection", "residual">>)
ffn_block(l) == ForAll(l, <<"ln", "fc1", "gelu", "fc2", "ffn_residual">>)

end_to_end_layer(l) ==
  (CASE mode.npu_only /\ mode.kernel_fusion   -> fused_attn_block(l)
     [] mode.npu_only /\ ~mode.kernel_fusion  -> attn_block(l)
     [] ~mode.npu_only /\ mode.kernel_fusion  -> fused_pim_attn_block(l)
     [] ~mode.npu_only /\ ~mode.kernel_fusion -> pim_attn_block(l))
  \o ffn_block(l)
mha_layer(l) == ForAll(l, IF mode.npu_only THEN <<"fused_mha">> ELSE <<"logit_softmax", "attend">>)

\* init_program: all operations of the program.
program == FlattenSeq([k \in 1..n_layer |->
             IF mode.end_to_end THEN end_to_end_layer(k - 1) ELSE mha_layer(k - 1)])

-----------------------------------------------------------------------------
(* The tensors between them.                                                *)

\* Operation::_outputs.  Those of SplitDecoding are a query and the caches
\* themselves; an operation for the batch has one output for each request.
outputs(o) ==
  CASE o[3] = "split_decoding" -> <<Output(o, 1), Key(o[2], o[4]), Value(o[2], o[4])>>
    [] o[3] \in {"split", "pim_gemv", "gemv_add", "logit_softmax", "attend", "fused_mha"}
         \/ (o[3] = "softmax" /\ o[4] = 0)
       -> [k \in Batch |-> Output(o, k)]
    [] OTHER -> <<Output(o, 1)>>

\* The result of the attention block of layer l in program i, and what init_program
\* hands to the layer: the input of the model, or the result of the layer before.
attn_output(i, l) ==
  outputs(<<i, l, IF mode.npu_only /\ mode.kernel_fusion THEN "qkv_gen" ELSE "residual", 0>>)
layer_input_attn(i, l) ==     \* mutant: the result of the attention block is handed on
  IF l = 0 THEN outputs(<<i, 0, "input", 0>>) ELSE attn_output(i, l - 1)
layer_input(i, l) == outputs(IF l = 0 THEN <<i, 0, "input", 0>> ELSE <<i, l - 1, "ffn_residual", 0>>)

\* Operation::_inputs without weights, of an operation of layer l.
inputs(o) ==
  LET l == o[2]  r == o[4]
      from(layer, kind, req) == outputs(<<o[1], layer, kind, req>>)
      prev(kind) == from(l, kind, r)
      attention   == IF mode.kernel_fusion THEN "attend" ELSE "gemv_add"
      queries == [q \in Batch |-> from(l, IF mode.end_to_end THEN "split_decoding" ELSE "query", q)[1]]
      keys    == [q \in Batch |-> Key(l, q)]
      values  == [q \in Batch |-> Value(l, q)]
  IN  CASE o[3] = "ln1"            -> layer_input(o[1], l)
        [] o[3] = "qkv_gen"        -> prev("ln1")
        [] o[3] = "split"          -> prev("qkv_gen")
        [] o[3] = "split_decoding" -> <<from(l, "split", 0)[r], Key(l, r), Value(l, r)>>
        [] o[3] = "qk"             -> <<prev("split_decoding")[1], Key(l, r)>>
        [] o[3] = "softmax"        -> prev(IF r = 0 THEN "pim_gemv" ELSE "qk")
        [] o[3] = "lsv"            -> prev("softmax") \o <<Value(l, r)>>
        [] o[3] = "reshape"        -> IF mode.npu_only THEN prev("lsv") ELSE <<from(l, attention, 0)[r]>>
        [] o[3] \in {"pim_gemv", "logit_softmax"} -> queries \o keys
        [] o[3] = "gemv_add"       -> prev("softmax") \o values
        [] o[3] = "attend"         -> prev("logit_softmax") \o values
        [] o[3] = "fused_mha"      -> queries \o keys \o values
        [] o[3] = "concat"         -> [q \in Batch |-> from(l, "reshape", q)[1]]
        [] o[3] = "projection"     -> prev("concat")
        [] o[3] = "residual"       -> prev("projection") \o layer_input(o[1], l)
        [] o[3] = "ln"             -> attn_output(o[1], l)
        [] o[3] = "fc1"            -> prev("ln")
        [] o[3] = "gelu"           -> prev("fc1")
        [] o[3] = "fc2"            -> prev("gelu")
        [] o[3] = "ffn_residual"   -> prev("fc2") \o attn_output(o[1], l)

\* Mutant: only the first input knows its consumer.
parents_first(o) == <<inputs(o)[1]>>

\* set_as_parent_tensor: SplitDecoding does not call it for the caches.
parents(o) == IF o[3] = "split_decoding" THEN <<inputs(o)[1]>> ELSE inputs(o)

-----------------------------------------------------------------------------
(* Shapes: what get_outputs asserts of its inputs, d, and makes of them.    *)

Product(s) == FoldLeft(LAMBDA p, n : p * n, 1, s)
num_rows(r) == IF reqs[r].is_initiated THEN 1 ELSE reqs[r].input_size
N == FoldLeft(LAMBDA n, r : n + num_rows(r), 0, [r \in Batch |-> r])

\* The weights of a MatMul: its inner and outer dimension (Model::init_params).
weight(kind) ==
  CASE kind = "qkv_gen"    -> <<NumEmbd, (3 * NumEmbd) \div n_tp>>
    [] kind = "projection" -> <<NumEmbd \div n_tp, NumEmbd>>
    [] kind = "fc1"        -> <<NumEmbd, (4 * NumEmbd) \div n_tp>>
    [] kind = "fc2"        -> <<(4 * NumEmbd) \div n_tp, NumEmbd>>

\* get_outputs of each operation: whether its asserts hold, and the shapes of
\* its outputs.
layer_norm_outputs(d)      == [fits |-> Last(d[1]) = NumEmbd, dims |-> <<d[1]>>]
matmul_outputs(kind, d)    == [fits |-> Last(d[1]) = weight(kind)[1],
                               dims |-> <<<<d[1][1], weight(kind)[2]>>>>]
batched_matmul_outputs_untransposed(d) ==     \* mutant: the key is not transposed
  [fits |-> d[1][3] = d[2][2], dims |-> <<<<d[1][1], d[1][2], d[2][2]>>>>]
batched_matmul_outputs(d)  == [fits |-> d[1][3] = d[2][2],
                               dims |-> <<<<d[1][1], d[1][2], d[2][3]>>>>]
add_outputs(d)             == [fits |-> d[1] = d[2], dims |-> <<d[1]>>]
gelu_outputs(d)            == [fits |-> TRUE, dims |-> <<d[1]>>]
softmax_outputs(d)         == [fits |-> TRUE, dims |-> d]
split_outputs(d)           == [fits |-> d[1][1] = N, dims |-> [k \in Batch |-> <<num_rows(k), d[1][2]>>]]
split_decoding_outputs(r, d) ==
  [fits |-> Last(d[1]) = 3 * NumEmbd,
   dims |-> <<<<Nh, IF reqs[r].is_initiated THEN 1 ELSE d[1][1], Dk>>>>]
reshape_outputs(d)         == [fits |-> Product(d[1]) = d[1][2] * NumEmbd, dims |-> <<<<d[1][2], NumEmbd>>>>]
concat_outputs(d)          == [fits |-> \A k \in DOMAIN d : d[k][2] = d[1][2],
                               dims |-> <<<<FoldLeft(LAMBDA n, x : n + x[1], 0, d), d[1][2]>>>>]

\* The operations for a batch: their inputs are a tensor for each request, the
\* caches follow.
Caches(d) == SubSeq(d, Len(reqs) + 1, Len(d))
gemv_outputs(d) ==
  LET c == Caches(d)
  IN  [fits |-> \A k \in Batch : d[k][3] = c[k][2],
       dims |-> [k \in Batch |-> <<d[1][1], 1, c[k][3]>>]]
gemv_add_outputs(d) ==
  LET c == Caches(d)
  IN  [fits |-> \A k \in Batch : d[k][3] = c[k][2],
       dims |-> [k \in Batch |-> <<c[1][1], 1, c[1][3]>>]]

\* These two write no instructions for a prompt: their branch for it is
\* assert(false).
logit_softmax_outputs(d) ==
  LET c == Caches(d)
  IN  [fits |-> \A k \in Batch : d[k][1] = c[k][1] /\ d[k][3] = c[k][2] /\ d[k][2] = 1,
       dims |-> [k \in Batch |-> <<d[1][1], d[k][2], c[k][3]>>]]
attend_outputs(d) ==
  LET c == Caches(d)
  IN  [fits |-> \A k \in Batch : d[k][1] = c[k][1] /\ d[k][3] = c[k][2] /\ d[k][2] = 1,
       dims |-> [k \in Batch |-> <<c[1][1], d[k][2], c[1][3]>>]]
fused_mha_outputs(d) ==
  LET c == Caches(d)  n == Len(reqs)
  IN  [fits |-> /\ d[1][1] = Nh /\ d[1][3] = Dk
                /\ \A k \in Batch : c[k][3] = c[n + k][2] /\ d[k][2] \in {1, c[k][3]},
       dims |-> [k \in Batch |-> <<d[1][1], d[k][2], d[1][3]>>]]

get_outputs(o, d) ==
  CASE o[3] \in {"ln1", "ln"}                             -> layer_norm_outputs(d)
    [] o[3] \in {"qkv_gen", "projection", "fc1", "fc2"}   -> matmul_outputs(o[3], d)
    [] o[3] \in {"qk", "lsv"}                             -> batched_matmul_outputs(d)
    [] o[3] \in {"residual", "ffn_residual"}              -> add_outputs(d)
    [] o[3] = "gelu"           -> gelu_outputs(d)
    [] o[3] = "softmax"        -> softmax_outputs(d)
    [] o[3] = "split"          -> split_outputs(d)
    [] o[3] = "split_decoding" -> split_decoding_outputs(o[4], d)
    [] o[3] = "reshape"        -> reshape_outputs(d)
    [] o[3] = "concat"         -> concat_outputs(d)
    [] o[3] = "pim_gemv"       -> gemv_outputs(d)
    [] o[3] = "gemv_add"       -> gemv_add_outputs(d)
    [] o[3] = "logit_softmax"  -> logit_softmax_outputs(d)
    [] o[3] = "attend"         -> attend_outputs(d)
    [] o[3] = "fused_mha"      -> fused_mha_outputs(d)

\* The tensors that are there when a program is made.  The queries of a program
\* of attention alone have all heads of the model.
caches == [t \in {Key(l, r) : l \in Layers, r \in Batch} |-> <<Nh, Dk, reqs[t[4]].input_size>>]
          @@ [t \in {Value(l, r) : l \in Layers, r \in Batch} |-> <<Nh, reqs[t[4]].input_size, Dk>>]
first_tensor == IF mode.end_to_end THEN Output(<<iter, 0, "input", 0>>, 1)
                ELSE Output(<<iter, n_layer - 1, "query", Len(reqs)>>, 1)
given_dims ==
  caches @@ (IF mode.end_to_end THEN first_tensor :> <<N, NumEmbd>>
             ELSE [t \in {Output(<<iter, l, "query", r>>, 1) : l \in Layers, r \in Batch} |-> <<NumHead, 1, Dk>>])

Init ==
  /\ mode \in Modes /\ n_layer \in LayerCounts /\ n_tp \in TpSizes
  /\ reqs \in BoundedSeq([input_size : InputSizes, is_initiated : BOOLEAN], MaxBatch) \ {<<>>}
  /\ iter = 1 /\ op_map = {} /\ todo = program /\ dims = given_dims
  /\ child_nodes = <<>> /\ executable = <<>> /\ finished = {} /\ pc = "build"

-----------------------------------------------------------------------------
children(t) == IF t \in DOMAIN child_nodes THEN child_nodes[t] ELSE <<>>

\* Operation::check_executable
check_executable(done, o) ==
  \A t \in Range(inputs(o)) : t[3] \in Given \/ Source(t) \in done

\* Operation::get_child_nodes, with each operation where it comes first: the
\* later ones are on the list already (check_exist_in_executable).
get_child_nodes(o) ==
  LET all   == FlattenSeq([k \in DOMAIN outputs(o) |-> children(outputs(o)[k])])
      first == SelectSeq([k \in DOMAIN all |-> k], LAMBDA k : \A j \in 1..(k - 1) : all[j] # all[k])
  IN  [k \in DOMAIN first |-> all[first[k]]]

\* Mutant: the values are forgotten.
cleared_keys == {Key(0, r) : r \in Batch}

\* The tensors whose consumers cleanup_sub_batch forgets: K_cache[0], V_cache[0].
cleared == {Key(0, r) : r \in Batch} \cup {Value(0, r) : r \in Batch}

\* add_op and get_outputs of the next operation.
AddOp ==
  /\ pc = "build" /\ todo # <<>>
  /\ LET o == Head(todo)
         ins == inputs(o)
         result == get_outputs(o, [k \in DOMAIN ins |-> dims[ins[k]]])
         fresh == {t \in Range(outputs(o)) : Source(t) = o}
     IN  IF result.fits
         THEN /\ op_map' = op_map \cup {o} /\ todo' = Tail(todo)
              /\ dims' = dims @@ [t \in fresh |-> result.dims[t[5]]]
              /\ child_nodes' = [t \in Range(parents(o)) |-> Append(children(t), o)] @@ child_nodes
              /\ UNCHANGED pc
         ELSE pc' = "aborted" /\ UNCHANGED <<op_map, todo, dims, child_nodes>>
  /\ UNCHANGED <<config, reqs, iter, executable, finished>>

\* The end of init_program: find_executable_node of the first tensor.
FindExecutableNode ==
  /\ pc = "build" /\ todo = <<>>
  /\ executable' = SelectSeq(children(first_tensor), LAMBDA o : check_executable(finished, o))
  /\ pc' = "run"
  /\ UNCHANGED <<config, reqs, iter, op_map, todo, dims, child_nodes, finished>>

\* finish_operation of an operation on the list.  _op_map[id] of an operation
\* that is not in the map is a null pointer.
FinishOperation(o) ==
  /\ pc = "run" /\ o \in Range(executable)
  /\ IF o \notin op_map
     THEN pc' = "aborted" /\ UNCHANGED <<executable, finished>>
     ELSE LET done == finished \cup {o}
              rest == RemoveFirst(executable, o)
          IN  /\ finished' = done
              /\ executable' = rest \o SelectSeq(get_child_nodes(o), LAMBDA c :
                                   check_executable(done, c) /\ ~Contains(rest, c))
              /\ UNCHANGED pc
  /\ UNCHANGED <<config, reqs, iter, op_map, todo, dims, child_nodes>>

check_finish == op_map \subseteq finished

\* The program is finished: cleanup_sub_batch, and the program of the next token.
NextProgram ==
  /\ pc = "run" /\ check_finish
  /\ UNCHANGED <<config, finished>>
  /\ reqs' = [r \in Batch |-> [reqs[r] EXCEPT !.is_initiated = TRUE]]
  /\ child_nodes' = [t \in cleared |-> <<>>] @@ child_nodes
  /\ executable' = <<>>
  /\ IF iter < MaxIterations
     THEN iter' = iter + 1 /\ op_map' = {} /\ todo' = program' /\ dims' = given_dims' /\ pc' = "build"
     ELSE pc' = "done" /\ UNCHANGED <<iter, op_map, todo, dims>>

Next == AddOp \/ FindExecutableNode \/ (\E o \in Range(executable) : FinishOperation(o)) \/ NextProgram
Done == pc \in {"done", "aborted"} /\ UNCHANGED vars
Spec == Init /\ [][Next \/ Done]_vars /\ WF_vars(Next)

-----------------------------------------------------------------------------
\* A cache keeps the consumers of earlier programs, and SplitDecoding returns the
\* caches as its outputs: without cleanup_sub_batch the operations of the program
\* before would be put on the list again.  An operation on the list is one of
\* this program, has not run, may run, and is there once.  cleanup_sub_batch
\* clears the caches of layer 0 only, so this is so for programs of one layer,
\* for those that do not split (attention alone), and for the first program.
ListedOperationsRun == (n_layer = 1 \/ ~mode.end_to_end \/ iter = 1) =>
  /\ \A k \in DOMAIN executable :
       /\ executable[k] \in op_map \ finished
       /\ check_executable(finished, executable[k])
  /\ IsInjective(executable)

\* When an operation of a layer is on the list, all operations of the layers
\* before it have finished: no path through the graph overtakes the residual
\* connections, whichever requests are ahead.
LayersInOrder == mode.end_to_end /\ (n_layer = 1 \/ iter = 1) =>
  \A o \in Range(executable), p \in op_map : p[2] < o[2] => p \in finished

\* The shapes fit together through all blocks, whatever lengths are mixed in a
\* batch: no assert fails on a single device, in programs with PIM for requests
\* past their prompt.  The block of fused attention ends after the QKV
\* generation, so its end-to-end program is left out.
ShapesFit ==
  n_tp = 1 /\ (mode.npu_only \/ ~mode.end_to_end \/ \A r \in Batch : reqs[r].is_initiated)
  /\ ~(mode.end_to_end /\ mode.npu_only /\ mode.kernel_fusion)
  /\ (n_layer = 1 \/ ~mode.end_to_end \/ iter = 1) => pc # "aborted"

\* A program that is built finishes, and so do the programs after it: there is
\* always an operation on the list.  For attention alone init_program lists the
\* consumers of one query, which is of the last layer, so this is so for one
\* layer only.
ProgramsFinish == mode.end_to_end \/ n_layer = 1 => <>(pc \in {"done", "aborted"})
=============================================================================
