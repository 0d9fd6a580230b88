---------------------------- MODULE StageProgram ----------------------------
(***************************************************************************)
(* The operation graph of one stage program (StageProgram.cc) and the      *)
(* bookkeeping of which of its operations may run next.                    *)
(*                                                                         *)
(* A program is a record: the operations of its graph (_op_map), the list  *)
(* of executable operations (_executable_operations, in order), and the    *)
(* operations that have finished (Operation::_finish, whose output tensors *)
(* are then produced).  Tensors are kept only as the edges they induce.    *)
(***************************************************************************)
EXTENDS Naturals, Sequences, SequencesExt

\* enum class Stage { A, B, C, D, E, F, Finish }, with the values of the enum.
A == 0
B == 1
C == 2
D == 3
E == 4
F == 5
Finish == 6
Stages == A..Finish

\* enum class StagePlatform: program 1 runs on the systolic array, 2 on PIM.
SA  == "SA"
PIM == "PIM"
Platforms == {SA, PIM}

ProjFfn == <<"projection", "residual", "ln", "fc1", "gelu", "fc2", "residual2">>
QkvGen  == <<"ln1", "qkv_gen">>
Mha     == <<"logit_softmax", "attend">>
OpKinds == Range(ProjFfn) \cup Range(QkvGen) \cup Range(Mha)

\* Mutant: PIM works in the last stage too.
skip_pim_stage_first_only(stage) == stage = A

skip_pim_stage(stage)   == stage \in {A, F}
enable_proj_ffns(stage) == stage \in {C, D, E, F}
enable_qkv_gen(stage)   == stage \in {A, B, C, D}

\* The operations whose outputs are inputs of op.  Any other input (weights,
\* residual buffer, query, KV cache) is created with produced = true.
Producers ==
  [op \in OpKinds |->
     CASE op = "residual"  -> {"projection"}
       [] op = "ln"        -> {"residual"}
       [] op = "fc1"       -> {"ln"}
       [] op = "gelu"      -> {"fc1"}
       [] op = "fc2"       -> {"gelu"}
       [] op = "residual2" -> {"fc2", "residual"}
       [] op = "ln1"       -> {"residual2"}
       [] op = "qkv_gen"   -> {"ln1"}
       [] op = "attend"    -> {"logit_softmax"}
       [] OTHER            -> {}]

\* Operation::get_child_nodes: the consumers of the outputs of op.  logit_softmax
\* has one output per request; "attend" consumes all of them and is named once,
\* as enlisting it again does nothing.
get_child_nodes(op) ==
  CASE op = "projection"    -> <<"residual">>
    [] op = "residual"      -> <<"ln", "residual2">>
    [] op = "ln"            -> <<"fc1">>
    [] op = "fc1"           -> <<"gelu">>
    [] op = "gelu"          -> <<"fc2">>
    [] op = "fc2"           -> <<"residual2">>
    [] op = "residual2"     -> <<"ln1">>
    [] op = "ln1"           -> <<"qkv_gen">>
    [] op = "logit_softmax" -> <<"attend">>
    [] OTHER                -> <<>>

\* Operation::check_executable: every input tensor of op has been produced.
check_executable(prog, op) == (Producers[op] \cap prog.ops) \subseteq prog.finished

\* The empty program of an empty sub-batch or of a skipped PIM stage.
EmptyProgram == [ops |-> {}, executable |-> <<>>, finished |-> {}]

\* init_SA_program and init_PIM_program: the graph, and the operations that
\* consume the program's own input tensor as the first executable ones.
init_SA_program(stage) ==
  LET chain == (IF enable_proj_ffns(stage) THEN ProjFfn ELSE <<>>)
               \o (IF enable_qkv_gen(stage) THEN QkvGen ELSE <<>>)
  IN  [ops |-> Range(chain), executable |-> <<Head(chain)>>, finished |-> {}]

init_PIM_program ==
  [ops |-> Range(Mha), executable |-> <<"logit_softmax">>, finished |-> {}]

\* StageProgram::init_program
init_program(platform, stage, reqs) ==
  CASE reqs = <<>>                                             -> EmptyProgram
    [] reqs # <<>> /\ platform = SA                            -> init_SA_program(stage)
    [] reqs # <<>> /\ platform = PIM /\ skip_pim_stage(stage)  -> EmptyProgram
    [] OTHER                                                   -> init_PIM_program

\* Mutant: the consumers of a finished operation are not listed.
finish_operation_no_children(prog, op) ==
  [prog EXCEPT !.finished = @ \cup {op}, !.executable = RemoveFirst(@, op)]

\* StageProgram::finish_operation: op leaves the executable list and each of
\* its consumers (two at most) that became executable and is not listed yet is
\* appended.
finish_operation(prog, op) ==
  LET done     == [ops |-> prog.ops, executable |-> RemoveFirst(prog.executable, op),
                   finished |-> prog.finished \cup {op}]
      children == get_child_nodes(op)
      Enlist(exec, i) ==
        IF /\ i <= Len(children) /\ children[i] \in prog.ops
           /\ check_executable(done, children[i]) /\ ~Contains(exec, children[i])
        THEN Append(exec, children[i]) ELSE exec
  IN  [done EXCEPT !.executable = Enlist(Enlist(@, 1), 2)]

\* StageProgram::check_finish
check_finish(prog) == prog.ops \subseteq prog.finished
=============================================================================
