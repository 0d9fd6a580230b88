------------------------------ MODULE Pipeline ------------------------------
(***************************************************************************)
(* What the stages of the scheduler promise, without stages, programs,     *)
(* tiles or cores: every sub-batch performs a fixed list of operations in  *)
(* order.  The list is cut into phases, and the sub-batches move through   *)
(* the phases in lock step, sub-batch 2 one phase behind sub-batch 1, so   *)
(* that while one of them occupies the systolic array the other one        *)
(* occupies PIM.                                                           *)
(***************************************************************************)
EXTENDS Integers, Sequences, FiniteSets

CONSTANT Plans         \* the plans there may be

VARIABLES plan,        \* the plan of this run: its sub-batches, {1} or {1, 2}, and
                       \* for each phase, how many operations are done after it
          progress     \* operations each sub-batch has performed

vars == <<plan, progress>>

Batches   == plan.batches
PhaseEnds == plan.ends
Last      == PhaseEnds[Len(PhaseEnds)]

\* How many phases a sub-batch has completed.
Phase(b) == Cardinality({k \in DOMAIN PhaseEnds : PhaseEnds[k] <= progress[b]})

\* Lock step: a phase of sub-batch 1 runs beside the previous one of sub-batch 2.
MayRun(b) ==
  \/ Batches = {1}
  \/ b = 1 /\ Phase(2) >= Phase(1) - 1
  \/ b = 2 /\ Phase(1) > Phase(2)

Init == /\ plan \in Plans
        /\ progress = [b \in Batches |-> 0]

Perform(b) ==
  /\ progress[b] < Last
  /\ MayRun(b)
  /\ progress' = [progress EXCEPT ![b] = @ + 1]
  /\ UNCHANGED plan

Next == \E b \in Batches : Perform(b)

Safety == Init /\ [][Next]_vars

Spec == Safety /\ WF_vars(Next)
=============================================================================
