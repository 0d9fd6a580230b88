--------------------------- MODULE SimulatorProofs ---------------------------
(***************************************************************************)
(* Safety of the loop and the scheduler, for every number of requests,     *)
(* channels, cores and tiles: tiles are accounted for, the executable list *)
(* is never empty when its front is taken, each sub-batch runs through its *)
(* layers in model order, the summary lists the stages in order, and the   *)
(* stages implement the safety part of the abstract pipeline.              *)
(***************************************************************************)
EXTENDS Simulator, HalvingLemmas, FiniteSetTheorems, SequenceTheorems, TLAPS

-----------------------------------------------------------------------------
(* The inductive invariant.  It is stated over a Run r (the scheduler's     *)
(* programs, queues and stage), so that it can be followed through the      *)
(* steps of one call; m tells whether there are sub-batches.                *)

\* The operations platform p performs in stage s, in order.
Chain(m, p, s) ==
  IF m THEN IF p = SA THEN CASE s \in {A, B} -> QkvGen
                             [] s \in {C, D} -> ProjFfn \o QkvGen
                             [] s \in {E, F} -> ProjFfn
                             [] OTHER -> <<>>
            ELSE IF s \in {B, C, D, E} THEN Mha ELSE <<>>
  ELSE CASE p = SA /\ s = A  -> QkvGen
         [] p = PIM /\ s = B -> Mha
         [] p = SA /\ s = E  -> ProjFfn
         [] OTHER -> <<>>

\* How many operations sub-batch b has performed when stage s begins.
Base(m, b, s) ==
  IF m THEN IF b = 1 THEN <<0, 2, 4, 13, 15, 22, 22>>[s + 1]
                     ELSE <<0, 0, 2, 4, 13, 15, 22>>[s + 1]
  ELSE IF b = 1 THEN <<0, 2, 4, 4, 4, 11, 11>>[s + 1] ELSE 0

Reached(m) == IF m THEN Stages ELSE {A, B, E, Finish}

\* The operations of the current stage that the sub-batch on platform p has done.
Position(m, p, s, w) == Len(w[sub_batch_on(p, s)]) - Base(m, sub_batch_on(p, s), s)

\* The program of a chain of operations of which k are done.
ProgramAt(chain, k) ==
  [ops |-> Range(chain), executable |-> <<chain[k + 1]>>, finished |-> {chain[i] : i \in 1..k}]

NotBegun(m, r, w) ==
  \A p \in Platforms : r.program[p] = NoProgram /\ Position(m, p, r.stage, w) = 0

\* Platform p is at work on its chain, or has done all of it.
AtWork(m, p, r, w) ==
  LET chain == Chain(m, p, r.stage)
      k     == Position(m, p, r.stage, w)
  IN  k \in 0..(Len(chain) - 1) /\ r.program[p] = ProgramAt(chain, k)
Done(m, p, r, w) ==
  r.program[p] = NoProgram /\ Position(m, p, r.stage, w) = Len(Chain(m, p, r.stage))

ProgramsInv(m, r, w) ==
  \/ NotBegun(m, r, w)
  \/ /\ \A p \in Platforms : AtWork(m, p, r, w) \/ Done(m, p, r, w)
     /\ \E p \in Platforms : AtWork(m, p, r, w)

Layers(m, b) == IF m THEN OneLayer \o OneLayer ELSE IF b = 1 THEN OneLayer ELSE <<>>

\* What the sub-batches have done is what their layers begin with.
WorkInv(m, w) ==
  /\ w \in [1..2 -> Seq(OpKinds)]
  /\ \A b \in 1..2 : /\ Len(w[b]) <= Len(Layers(m, b))
                     /\ \A i \in 1..Len(w[b]) : w[b][i] = Layers(m, b)[i]

\* The operations that are running, one for each program.
Current(r) ==
  {OpId(r.stage, p, Head(r.program[p].executable)) :
      p \in {q \in Platforms : r.program[q] # NoProgram}}

Of(T, op) == {t \in T : t.operation_id = op}

\* Each operation of `active` is counted with the number of its tiles in T, and T
\* has no other tiles.
Counts(active, T) ==
  /\ IsFiniteSet(T)
  /\ \A op \in DOMAIN active :
        active[op] \in Nat \ {0} /\ active[op] = Cardinality(Of(T, op))
  /\ \A t \in T : t.operation_id \in DOMAIN active /\ t.stage_platform = t.operation_id[2]

\* Exactly the current operations are active.
CountInv(r, T) == Counts(r.active, T) /\ DOMAIN r.active = Current(r)

\* The queued tiles are those of the platform, each once, and none is in H.
QueueInv(r, H) ==
  \A p \in Platforms :
     /\ r.queue[p] \in Seq(TileType) /\ IsInjective(r.queue[p])
     /\ \A i \in DOMAIN r.queue[p] : r.queue[p][i].stage_platform = p /\ r.queue[p][i] \notin H

Queued(r) == Range(r.queue[SA]) \cup Range(r.queue[PIM])

\* Every operation in `done` ran in an earlier stage or earlier in this one.
FinishedInv(r, done) ==
  \A op \in done :
     /\ op \in OpIds /\ op[1] <= r.stage
     /\ op[1] = r.stage => /\ \E p \in Platforms : r.program[p] # NoProgram
                           /\ r.program[op[2]] # NoProgram
                                => op[3] \in r.program[op[2]].finished

RunShape(r) ==
  /\ DOMAIN r = {"program", "queue", "active", "stage", "prev", "changed", "log"}
  /\ DOMAIN r.program = Platforms /\ DOMAIN r.queue = Platforms

RunInv(m, r, w, done, H) ==
  /\ RunShape(r)
  /\ m \in BOOLEAN /\ r.stage \in Reached(m)
  /\ WorkInv(m, w) /\ ProgramsInv(m, r, w)
  /\ CountInv(r, Queued(r) \cup H)
  /\ QueueInv(r, H)
  /\ FinishedInv(r, done)

\* The tiles in the cores, running or finished; each is in one place.
HeldBy(c) == TilesIn(c) \cup Range(finished_tiles[c])
Held == UNION {HeldBy(c) : c \in Cores}

HeldInv ==
  /\ core_tiles \in [Cores -> [Platforms -> Seq(TileType)]]
  /\ finished_tiles \in [Cores -> Seq(TileType)]
  /\ \A c \in Cores :
        /\ IsInjective(finished_tiles[c])
        /\ TilesIn(c) \cap Range(finished_tiles[c]) = {}
        /\ \A p \in Platforms :
              /\ IsInjective(core_tiles[c][p])
              /\ \A i \in DOMAIN core_tiles[c][p] : core_tiles[c][p][i].stage_platform = p
  /\ \A c, d \in Cores : c # d => HeldBy(c) \cap HeldBy(d) = {}

\* Without sub-batches the second one stays empty.
BatchInv ==
  /\ config \in Configs
  /\ DOMAIN breq = 1..2 \/ SubBatchMode
  /\ SubBatchMode \/ breq[2] = <<>>

\* The stages before stage s.
Before(m, s) ==
  IF m THEN [i \in 1..s |-> i - 1]
  ELSE CASE s = A -> <<>> [] s = B -> <<A>> [] s = E -> <<A, B>> [] OTHER -> <<A, B, E>>

\* The summary lacks the last stage while, and only while, the flag is up; no
\* program runs then.  No request is completed before the last stage is logged.
LogInv ==
  /\ has_stage_changed \in BOOLEAN
  /\ IF has_stage_changed
     THEN /\ Before(SubBatchMode, stage) = Append(sim_stage_stats, prev_stage)
          /\ NoPrograms /\ pc \notin {"scheduler", "done"}
     ELSE sim_stage_stats = Before(SubBatchMode, stage)
  /\ sim_stage_stats \in Seq(Stages)
  /\ \/ stage = Finish /\ ~has_stage_changed
     \/ completed_cnt = 0 /\ completed_request_queue = <<>> /\ pc # "done"

Inv ==
  /\ RunInv(SubBatchMode, Run, work, finished_operation_stats, Held)
  /\ HeldInv
  /\ BatchInv
  /\ turn \in Cores
-----------------------------------------------------------------------------
(* The selection of a sequence's elements, by induction on its length.      *)

\* The recursion of Those has a solution, so it computes what it says.
LEMMA ThoseRecursion ==
  ASSUME NEW S, NEW s \in Seq(S), NEW T
  PROVE  \E u : /\ u = [i \in 0..Len(s) |->
                          IF i = 0 THEN <<>>
                          ELSE IF s[i] \in T THEN Append(u[i - 1], s[i]) ELSE u[i - 1]]
                /\ Those(s, T) = u[Len(s)]
<1> DEFINE Step(g, i) == IF i = 0 THEN <<>>
                         ELSE IF s[i] \in T THEN Append(g[i - 1], s[i]) ELSE g[i - 1]
           Solvable(n) == \E g : g = [i \in 0..n |-> Step(g, i)]
           Solved == {n \in 0..Len(s) : Solvable(n)}
<1>1. Len(s) \in Nat OBVIOUS
<1>2. 0 \in Solved
  <2>1. [i \in 0..0 |-> <<>>] = [i \in 0..0 |-> Step([j \in 0..0 |-> <<>>], i)] OBVIOUS
  <2>2. Solvable(0) BY <2>1
  <2> HIDE DEF Solvable
  <2> QED BY <1>1, <2>2
<1>3. ASSUME NEW n \in 0..(Len(s) - 1), n \in Solved
      PROVE  n + 1 \in Solved
  <2>0. Solvable(n)
    <3> HIDE DEF Solvable
    <3> QED BY <1>3
  <2>1. PICK g : g = [i \in 0..n |-> Step(g, i)]
    <3> HIDE DEF Step
    <3> QED BY <2>0, Zenon
  <2> DEFINE h == [i \in 0..(n + 1) |-> IF i <= n THEN g[i] ELSE Step(g, n + 1)]
  <2>2. ASSUME NEW i \in 0..(n + 1) PROVE h[i] = Step(h, i)
    <3>1. CASE i = 0
      <4>1. h[i] = g[0] BY <3>1
      <4> QED BY <2>1, <3>1, <4>1
    <3>2. CASE i \in 1..n
      <4>1. h[i] = g[i] /\ h[i - 1] = g[i - 1] BY <3>2
      <4>2. g[i] = Step(g, i)
        <5> HIDE DEF Step
        <5> QED BY <2>1, <3>2
      <4> QED BY <3>2, <4>1, <4>2
    <3>3. CASE i = n + 1
      <4>1. h[i] = Step(g, n + 1) /\ h[i - 1] = g[n] BY <3>3
      <4> QED BY <3>3, <4>1
    <3> QED BY <3>1, <3>2, <3>3
  <2>3. h = [i \in 0..(n + 1) |-> Step(h, i)]
    <3>1. [i \in 0..(n + 1) |-> h[i]] = [i \in 0..(n + 1) |-> Step(h, i)] BY <2>2
    <3> QED BY <3>1
  <2>4. Solvable(n + 1)
    <3> HIDE DEF h, Step
    <3> QED BY <2>3, Zenon
  <2> HIDE DEF Solvable
  <2> QED BY <2>4, <1>1
<1>4. Len(s) \in Solved
  <2> HIDE DEF Solved
  <2>1. \A n \in 0..Len(s) : n \in Solved BY <1>1, <1>2, <1>3, UpTo
  <2> QED BY <1>1, <2>1
<1>5. Solvable(Len(s))
  <2> HIDE DEF Solvable
  <2> QED BY <1>4
<1> DEFINE u == CHOOSE g : g = [i \in 0..Len(s) |-> Step(g, i)]
<1>6. u = [i \in 0..Len(s) |-> Step(u, i)]
  <2> HIDE DEF Step
  <2> QED BY <1>5, Zenon
<1>7. Those(s, T) = u[Len(s)] BY Zenon DEF Those
<1> HIDE DEF u
<1> QED BY <1>6, <1>7

\* Those(s, T) has the elements of s that are in T, and repeats none if s does not.
LEMMA ThoseIs ==
  ASSUME NEW S, NEW s \in Seq(S), NEW T
  PROVE  /\ Those(s, T) \in Seq(S)
         /\ Range(Those(s, T)) = Range(s) \cap T
         /\ IsInjective(s) => IsInjective(Those(s, T))
<1>1. PICK u : /\ u = [i \in 0..Len(s) |->
                        IF i = 0 THEN <<>>
                        ELSE IF s[i] \in T THEN Append(u[i - 1], s[i]) ELSE u[i - 1]]
               /\ Those(s, T) = u[Len(s)]
  BY ThoseRecursion
<1> DEFINE Good(i) == /\ u[i] \in Seq(S)
                      /\ \A k \in 1..Len(u[i]) : \E j \in 1..i : s[j] = u[i][k] /\ s[j] \in T
                      /\ \A j \in 1..i : s[j] \in T => \E k \in 1..Len(u[i]) : u[i][k] = s[j]
                      /\ IsInjective(s) => IsInjective(u[i])
           G == {i \in 0..Len(s) : Good(i)}
<1>2. Len(s) \in Nat /\ s \in [1..Len(s) -> S] OBVIOUS
<1>3. 0 \in G
  <2>1. u[0] = <<>> BY <1>1, <1>2
  <2>2. Good(0) BY <2>1 DEF IsInjective
  <2> HIDE DEF Good
  <2> QED BY <1>2, <2>2
<1>4. ASSUME NEW i \in 0..(Len(s) - 1), i \in G
      PROVE  i + 1 \in G
  <2>0. i + 1 \in 1..Len(s) /\ i \in Nat BY <1>2
  <2>1. u[i + 1] = IF s[i + 1] \in T THEN Append(u[i], s[i + 1]) ELSE u[i]
    <3>1. i + 1 \in 0..Len(s) /\ i + 1 # 0 /\ (i + 1) - 1 = i BY <2>0
    <3>2. u[i + 1] = IF i + 1 = 0 THEN <<>>
                     ELSE IF s[i + 1] \in T THEN Append(u[(i + 1) - 1], s[i + 1])
                     ELSE u[(i + 1) - 1]
      BY <1>1, <3>1, ZenonT(30)
    <3> QED BY <3>1, <3>2
  <2>2. Good(i)
    <3> HIDE DEF Good
    <3> QED BY <1>4
  <2>3. CASE s[i + 1] \notin T
    <3>1. u[i + 1] = u[i] BY <2>1, <2>3
    <3>2. Good(i + 1) BY <2>0, <2>2, <2>3, <3>1
    <3> HIDE DEF Good
    <3> QED BY <2>0, <3>2
  <2>4. CASE s[i + 1] \in T
    <3> DEFINE v == u[i]
               x == s[i + 1]
    <3>1. u[i + 1] = Append(v, x) /\ x \in S /\ v \in Seq(S) BY <1>2, <2>0, <2>1, <2>2, <2>4
    <3>2. /\ Append(v, x) \in Seq(S) /\ Len(Append(v, x)) = Len(v) + 1 /\ Len(v) \in Nat
          /\ \A k \in 1..Len(v) : Append(v, x)[k] = v[k]
          /\ Append(v, x)[Len(v) + 1] = x
      BY <3>1
    <3>3. \A k \in 1..Len(v) : \E j \in 1..i : s[j] = v[k] /\ s[j] \in T BY <2>2
    <3>4. \A j \in 1..i : s[j] \in T => \E k \in 1..Len(v) : v[k] = s[j] BY <2>2
    <3>5. ASSUME IsInjective(s) PROVE IsInjective(Append(v, x))
      <4>1. IsInjective(v) BY <2>2, <3>5
      <4>2. ASSUME NEW k \in 1..Len(v) PROVE v[k] # x
        <5>1. PICK j \in 1..i : s[j] = v[k] BY <3>3
        <5>2. DOMAIN s = 1..Len(s) /\ j \in 1..Len(s) /\ j # i + 1 BY <1>2, <2>0
        <5> QED BY <2>0, <3>5, <5>1, <5>2 DEF IsInjective
      <4>3. DOMAIN v = 1..Len(v) /\ DOMAIN Append(v, x) = 1..(Len(v) + 1) BY <3>1, <3>2
      <4> HIDE DEF v, x
      <4> QED BY <3>2, <4>1, <4>2, <4>3 DEF IsInjective
    <3>6. \A k \in 1..Len(Append(v, x)) :
             \E j \in 1..(i + 1) : s[j] = Append(v, x)[k] /\ s[j] \in T
      <4> SUFFICES ASSUME NEW k \in 1..Len(Append(v, x))
                   PROVE  \E j \in 1..(i + 1) : s[j] = Append(v, x)[k] /\ s[j] \in T
        OBVIOUS
      <4>1. CASE k = Len(v) + 1 BY <2>0, <2>4, <3>2, <4>1
      <4>2. CASE k \in 1..Len(v)
        <5>1. PICK j \in 1..i : s[j] = v[k] /\ s[j] \in T BY <3>3, <4>2
        <5>2. j \in 1..(i + 1) BY <2>0
        <5> HIDE DEF v, x
        <5> QED BY <3>2, <4>2, <5>1, <5>2
      <4> HIDE DEF v, x
      <4> QED BY <3>2, <4>1, <4>2
    <3>7. \A j \in 1..(i + 1) : s[j] \in T =>
             \E k \in 1..Len(Append(v, x)) : Append(v, x)[k] = s[j]
      <4> SUFFICES ASSUME NEW j \in 1..(i + 1), s[j] \in T
                   PROVE  \E k \in 1..Len(Append(v, x)) : Append(v, x)[k] = s[j]
        OBVIOUS
      <4>0. Len(v) + 1 \in 1..Len(Append(v, x)) /\ 1..Len(v) \subseteq 1..Len(Append(v, x))
        <5> HIDE DEF v, x
        <5> QED BY <3>2
      <4>1. CASE j = i + 1 BY <4>0, <3>2, <4>1
      <4>2. CASE j \in 1..i
        <5>1. PICK k \in 1..Len(v) : v[k] = s[j] BY <3>4, <4>2
        <5> HIDE DEF v, x
        <5> QED BY <3>2, <4>0, <5>1
      <4> QED BY <2>0, <4>1, <4>2
    <3>8. Good(i + 1)
      <4> DEFINE a == Append(v, x)
      <4>1. /\ a \in Seq(S) /\ u[i + 1] = a
            /\ \A k \in 1..Len(a) : \E j \in 1..(i + 1) : s[j] = a[k] /\ s[j] \in T
            /\ \A j \in 1..(i + 1) : s[j] \in T => \E k \in 1..Len(a) : a[k] = s[j]
            /\ IsInjective(s) => IsInjective(a)
        BY <3>1, <3>2, <3>5, <3>6, <3>7, Zenon
      <4> HIDE DEF a
      <4> QED BY <4>1, Zenon
    <3> HIDE DEF Good
    <3> QED BY <2>0, <3>8
  <2> QED BY <2>3, <2>4
<1>5. Good(Len(s))
  <2>1. \A n \in 0..Len(s) : n \in G
    <3> HIDE DEF G
    <3> QED BY <1>2, <1>3, <1>4, UpTo
  <2> HIDE DEF Good
  <2> QED BY <1>2, <2>1
<1> DEFINE z == Those(s, T)
<1>6. /\ z \in Seq(S)
      /\ \A k \in 1..Len(z) : \E j \in 1..Len(s) : s[j] = z[k] /\ s[j] \in T
      /\ \A j \in 1..Len(s) : s[j] \in T => \E k \in 1..Len(z) : z[k] = s[j]
      /\ IsInjective(s) => IsInjective(z)
  <2>1. z = u[Len(s)] BY <1>1
  <2> HIDE DEF z
  <2> QED BY <1>5, <2>1
<1> HIDE DEF z
<1>7. DOMAIN z = 1..Len(z) /\ DOMAIN s = 1..Len(s) BY <1>6
<1>8. Range(z) = Range(s) \cap T
  <2>1. ASSUME NEW x \in Range(z) PROVE x \in Range(s) \cap T
    <3>1. PICK k \in 1..Len(z) : x = z[k] BY <1>7 DEF Range
    <3>2. PICK j \in 1..Len(s) : s[j] = z[k] /\ s[j] \in T BY <1>6
    <3> QED BY <1>7, <3>1, <3>2 DEF Range
  <2>2. ASSUME NEW x \in Range(s) \cap T PROVE x \in Range(z)
    <3>1. PICK j \in 1..Len(s) : x = s[j] BY <1>7 DEF Range
    <3>2. PICK k \in 1..Len(z) : z[k] = s[j] BY <1>6, <3>1
    <3> QED BY <1>7, <3>1, <3>2 DEF Range
  <2> QED BY <2>1, <2>2
<1> QED BY <1>6, <1>8 DEF z

-----------------------------------------------------------------------------
(* The operations of a stage form a chain, and finish_operation moves a     *)
(* program along it.                                                        *)

LEMMA RemoveOnly ==
  ASSUME NEW x
  PROVE  RemoveFirst(<<x>>, x) = <<>>
<1>1. {i \in 1..Len(<<x>>) : <<x>>[i] = x} = {1} OBVIOUS
<1>2. Min({1}) = 1 BY DEF Min
<1>3. SelectInSeq(<<x>>, LAMBDA v : v = x) = 1
  BY <1>1, <1>2 DEF SelectInSeq
<1>4. SubSeq(<<x>>, 1, 0) \o SubSeq(<<x>>, 2, 1) = <<>> OBVIOUS
<1>5. RemoveAt(<<x>>, 1) = <<>> BY <1>4 DEF RemoveAt
<1> QED BY <1>3, <1>5 DEF RemoveFirst

LEMMA FinishNext ==
  ASSUME NEW ops, NEW fin, NEW x, NEW y, get_child_nodes(x) = <<y>>,
         y \in ops, Producers[y] \cap ops \subseteq fin \cup {x}
  PROVE  finish_operation([ops |-> ops, executable |-> <<x>>, finished |-> fin], x)
         = [ops |-> ops, executable |-> <<y>>, finished |-> fin \cup {x}]
<1> DEFINE prog == [ops |-> ops, executable |-> <<x>>, finished |-> fin]
           done == [ops |-> ops, executable |-> <<>>, finished |-> fin \cup {x}]
           c    == get_child_nodes(x)
           Enter(exec, i) ==
             IF /\ i <= Len(c) /\ c[i] \in prog.ops
                /\ check_executable(done, c[i]) /\ ~Contains(exec, c[i])
             THEN Append(exec, c[i]) ELSE exec
<1>0. RemoveFirst(<<x>>, x) = <<>> BY RemoveOnly
<1>1. done = [ops |-> prog.ops, executable |-> RemoveFirst(prog.executable, x),
             finished |-> prog.finished \cup {x}]
  BY <1>0
<1>2. finish_operation(prog, x) = [done EXCEPT !.executable = Enter(Enter(@, 1), 2)]
  BY <1>1 DEF finish_operation
<1>3. Enter(<<>>, 1) = <<y>>
  BY DEF check_executable, Contains
<1>4. Enter(<<y>>, 2) = <<y>>
  BY DEF check_executable, Contains
<1>5. [done EXCEPT !.executable = Enter(Enter(@, 1), 2)] = [done EXCEPT !.executable = <<y>>]
  BY <1>3, <1>4
<1> QED BY <1>2, <1>5

LEMMA FinishFork ==
  ASSUME NEW ops, NEW fin, NEW x, NEW y, NEW z, get_child_nodes(x) = <<y, z>>,
         y \in ops, Producers[y] \cap ops \subseteq fin \cup {x},
         ~(Producers[z] \cap ops \subseteq fin \cup {x})
  PROVE  finish_operation([ops |-> ops, executable |-> <<x>>, finished |-> fin], x)
         = [ops |-> ops, executable |-> <<y>>, finished |-> fin \cup {x}]
<1> DEFINE prog == [ops |-> ops, executable |-> <<x>>, finished |-> fin]
           done == [ops |-> ops, executable |-> <<>>, finished |-> fin \cup {x}]
           c    == get_child_nodes(x)
           Enter(exec, i) ==
             IF /\ i <= Len(c) /\ c[i] \in prog.ops
                /\ check_executable(done, c[i]) /\ ~Contains(exec, c[i])
             THEN Append(exec, c[i]) ELSE exec
<1>0. RemoveFirst(<<x>>, x) = <<>> BY RemoveOnly
<1>1. done = [ops |-> prog.ops, executable |-> RemoveFirst(prog.executable, x),
             finished |-> prog.finished \cup {x}]
  BY <1>0
<1>2. finish_operation(prog, x) = [done EXCEPT !.executable = Enter(Enter(@, 1), 2)]
  BY <1>1 DEF finish_operation
<1>3. Enter(<<>>, 1) = <<y>>
  BY DEF check_executable, Contains
<1>4. Enter(<<y>>, 2) = <<y>>
  BY DEF check_executable, Contains
<1>5. [done EXCEPT !.executable = Enter(Enter(@, 1), 2)] = [done EXCEPT !.executable = <<y>>]
  BY <1>3, <1>4
<1> QED BY <1>2, <1>5

LEMMA FinishLast ==
  ASSUME NEW ops, NEW fin, NEW x,
         \/ get_child_nodes(x) = <<>>
         \/ \E y : get_child_nodes(x) = <<y>> /\ y \notin ops
  PROVE  finish_operation([ops |-> ops, executable |-> <<x>>, finished |-> fin], x)
         = [ops |-> ops, executable |-> <<>>, finished |-> fin \cup {x}]
<1> DEFINE prog == [ops |-> ops, executable |-> <<x>>, finished |-> fin]
           done == [ops |-> ops, executable |-> <<>>, finished |-> fin \cup {x}]
           c    == get_child_nodes(x)
           Enter(exec, i) ==
             IF /\ i <= Len(c) /\ c[i] \in prog.ops
                /\ check_executable(done, c[i]) /\ ~Contains(exec, c[i])
             THEN Append(exec, c[i]) ELSE exec
<1>0. RemoveFirst(<<x>>, x) = <<>> BY RemoveOnly
<1>1. done = [ops |-> prog.ops, executable |-> RemoveFirst(prog.executable, x),
             finished |-> prog.finished \cup {x}]
  BY <1>0
<1>2. finish_operation(prog, x) = [done EXCEPT !.executable = Enter(Enter(@, 1), 2)]
  BY <1>1 DEF finish_operation
<1>3. Enter(<<>>, 1) = <<>>
  BY DEF check_executable, Contains
<1>4. Enter(<<>>, 2) = <<>>
  BY DEF check_executable, Contains
<1>5. [done EXCEPT !.executable = Enter(Enter(@, 1), 2)] = [done EXCEPT !.executable = <<>>]
  BY <1>3, <1>4
<1> QED BY <1>2, <1>5

Chains == {QkvGen, Mha, ProjFfn, ProjFfn \o QkvGen}

LEMMA ChainsAre ==
  /\ ProjFfn \o QkvGen = <<"projection", "residual", "ln", "fc1", "gelu", "fc2", "residual2",
                           "ln1", "qkv_gen">>
  /\ OpKinds = {"projection", "residual", "ln", "fc1", "gelu", "fc2", "residual2",
                "ln1", "qkv_gen", "logit_softmax", "attend"}
<1>1. ProjFfn \o QkvGen = <<"projection", "residual", "ln", "fc1", "gelu", "fc2", "residual2",
                           "ln1", "qkv_gen">>
  <2> DEFINE K == {"projection", "residual", "ln", "fc1", "gelu", "fc2", "residual2",
                    "ln1", "qkv_gen"}
             p == ProjFfn
             q == QkvGen
             t == <<"projection", "residual", "ln", "fc1", "gelu", "fc2", "residual2",
                    "ln1", "qkv_gen">>
  <2>1. p \in Seq(K) /\ q \in Seq(K) /\ Len(p) = 7 /\ Len(q) = 2
    BY DEF ProjFfn, QkvGen
  <2>2. t \in Seq(K) /\ Len(t) = 9 OBVIOUS
  <2>3. /\ \A i \in 1..7 : t[i] = p[i]
        /\ \A i \in 8..9 : t[i] = q[i - 7]
    BY DEF ProjFfn, QkvGen
  <2> HIDE DEF p, q, t, K
  <2>3a. /\ p \o q \in Seq(K) /\ Len(p \o q) = Len(p) + Len(q)
         /\ \A i \in 1 .. Len(p) + Len(q) : (p \o q)[i] =
                     IF i <= Len(p) THEN p[i] ELSE q[i - Len(p)]
    BY <2>1, ConcatProperties, Zenon
  <2> DEFINE c == p \o q
  <2>4a. /\ c \in Seq(K) /\ Len(c) = Len(p) + Len(q)
         /\ \A i \in 1 .. Len(p) + Len(q) : c[i] = IF i <= Len(p) THEN p[i] ELSE q[i - Len(p)]
    BY <2>3a, Zenon
  <2> HIDE DEF c
  <2>4. c \in Seq(K) /\ Len(c) = 9 BY <2>1, <2>4a
  <2>5a. \A i \in 1..9 : c[i] = IF i <= 7 THEN p[i] ELSE q[i - 7] BY <2>1, <2>4a
  <2>5. \A i \in 1..9 : c[i] = t[i] BY <2>3, <2>5a
  <2>6. c = t BY <2>2, <2>4, <2>5
  <2> QED BY <2>6 DEF p, q, t, c
<1>2. Range(ProjFfn) = {"projection", "residual", "ln", "fc1", "gelu", "fc2", "residual2"}
  BY DEF ProjFfn, Range
<1>3. Range(QkvGen) = {"ln1", "qkv_gen"}
  BY DEF QkvGen, Range
<1>4. Range(Mha) = {"logit_softmax", "attend"}
  BY DEF Mha, Range
<1> QED BY <1>1, <1>2, <1>3, <1>4 DEF OpKinds

LEMMA ProducersAre ==
  /\ Producers["projection"] = {} /\ Producers["residual"] = {"projection"}
  /\ Producers["ln"] = {"residual"} /\ Producers["fc1"] = {"ln"}
  /\ Producers["gelu"] = {"fc1"} /\ Producers["fc2"] = {"gelu"}
  /\ Producers["residual2"] = {"fc2", "residual"} /\ Producers["ln1"] = {"residual2"}
  /\ Producers["qkv_gen"] = {"ln1"} /\ Producers["logit_softmax"] = {}
  /\ Producers["attend"] = {"logit_softmax"}
BY ChainsAre DEF Producers

LEMMA ChildrenAre ==
  /\ get_child_nodes("projection") = <<"residual">>
  /\ get_child_nodes("residual") = <<"ln", "residual2">>
  /\ get_child_nodes("ln") = <<"fc1">> /\ get_child_nodes("fc1") = <<"gelu">>
  /\ get_child_nodes("gelu") = <<"fc2">> /\ get_child_nodes("fc2") = <<"residual2">>
  /\ get_child_nodes("residual2") = <<"ln1">> /\ get_child_nodes("ln1") = <<"qkv_gen">>
  /\ get_child_nodes("qkv_gen") = <<>> /\ get_child_nodes("logit_softmax") = <<"attend">>
  /\ get_child_nodes("attend") = <<>>
BY DEF get_child_nodes

\* After k operations of the chain the next one makes exactly the one after it
\* executable, or ends the chain.
LinkAt(chain, k) ==
  LET ops == Range(chain)
      fin == {chain[i] : i \in 1..(k + 1)}
      x   == chain[k + 1]
      y   == chain[k + 2]
  IN  IF k + 1 = Len(chain)
      THEN \/ get_child_nodes(x) = <<>>
           \/ \E z : get_child_nodes(x) = <<z>> /\ z \notin ops
      ELSE /\ y \in ops /\ Producers[y] \cap ops \subseteq fin
           /\ \/ get_child_nodes(x) = <<y>>
              \/ \E z : get_child_nodes(x) = <<y, z>> /\ ~(Producers[z] \cap ops \subseteq fin)

EndOf(chain) == [ops |-> Range(chain), executable |-> <<>>, finished |-> Range(chain)]

LEMMA LinkStep ==
  ASSUME NEW S, NEW chain \in Seq(S), NEW k \in 0..(Len(chain) - 1), LinkAt(chain, k)
  PROVE  finish_operation(ProgramAt(chain, k), chain[k + 1])
         = IF k + 1 = Len(chain) THEN EndOf(chain) ELSE ProgramAt(chain, k + 1)
<1> DEFINE ops == Range(chain)
           fin == {chain[i] : i \in 1..k}
           all == {chain[i] : i \in 1..(k + 1)}
           x   == chain[k + 1]
           y   == chain[k + 2]
<1>1. all = fin \cup {x}
  <2>1. 1..(k + 1) = 1..k \cup {k + 1} OBVIOUS
  <2> QED BY <2>1
<1>2. ProgramAt(chain, k) = [ops |-> ops, executable |-> <<x>>, finished |-> fin]
  BY DEF ProgramAt
<1>3. CASE k + 1 = Len(chain)
  <2>1. \/ get_child_nodes(x) = <<>>
        \/ \E z : get_child_nodes(x) = <<z>> /\ z \notin ops
    BY <1>3 DEF LinkAt
  <2>2. fin \cup {x} = Range(chain)
    <3>1. all = Range(chain) BY <1>3 DEF Range
    <3> QED BY <1>1, <3>1
  <2> HIDE DEF ops, fin, all, x, y
  <2>3. finish_operation(ProgramAt(chain, k), x)
        = [ops |-> ops, executable |-> <<>>, finished |-> fin \cup {x}]
    BY <1>2, <2>1, FinishLast
  <2> QED BY <1>3, <2>2, <2>3 DEF EndOf, ops, x
<1>4. CASE k + 1 # Len(chain)
  <2>1. /\ y \in ops /\ Producers[y] \cap ops \subseteq fin \cup {x}
        /\ \/ get_child_nodes(x) = <<y>>
           \/ \E z : get_child_nodes(x) = <<y, z>>
                     /\ ~(Producers[z] \cap ops \subseteq fin \cup {x})
    <3>1. /\ y \in ops /\ Producers[y] \cap ops \subseteq all
          /\ \/ get_child_nodes(x) = <<y>>
             \/ \E z : get_child_nodes(x) = <<y, z>> /\ ~(Producers[z] \cap ops \subseteq all)
      BY <1>4, Zenon DEF LinkAt
    <3> HIDE DEF ops, fin, all, x, y
    <3> QED BY <1>1, <3>1
  <2>2. ProgramAt(chain, k + 1) = [ops |-> ops, executable |-> <<y>>, finished |-> fin \cup {x}]
    <3>1. (k + 1) + 1 = k + 2 OBVIOUS
    <3>2. ProgramAt(chain, k + 1) = [ops |-> ops, executable |-> <<y>>, finished |-> all]
      BY <3>1 DEF ProgramAt
    <3> HIDE DEF ops, fin, all, x, y
    <3> QED BY <1>1, <3>2
  <2> HIDE DEF ops, fin, all, x, y
  <2>3. finish_operation(ProgramAt(chain, k), x)
        = [ops |-> ops, executable |-> <<y>>, finished |-> fin \cup {x}]
    <3>1. CASE get_child_nodes(x) = <<y>> BY <1>2, <2>1, <3>1, FinishNext
    <3>2. CASE get_child_nodes(x) # <<y>>
      <4>1. PICK z : get_child_nodes(x) = <<y, z>>
                     /\ ~(Producers[z] \cap ops \subseteq fin \cup {x})
        BY <2>1, <3>2
      <4> QED BY <1>2, <2>1, <4>1, FinishFork
    <3> QED BY <3>1, <3>2
  <2> QED BY <1>4, <2>2, <2>3 DEF x
<1> QED BY <1>3, <1>4

LEMMA QkvLinks ==
  LET chain == QkvGen
  IN  /\ Len(chain) = 2 /\ chain \in Seq(OpKinds) /\ IsInjective(chain)
      /\ \A k \in 0..(Len(chain) - 1) : LinkAt(chain, k)
<1> DEFINE chain == QkvGen
<1>1. chain = <<"ln1", "qkv_gen">> BY DEF QkvGen
<1> HIDE DEF chain
<1>2. Len(chain) = 2 /\ DOMAIN chain = 1..2 BY <1>1
<1>3. /\ chain[1] = "ln1"
      /\ chain[2] = "qkv_gen"
  BY <1>1
<1>4. Range(chain) = {"ln1", "qkv_gen"} BY <1>1 DEF Range
<1>5. chain \in Seq(OpKinds) BY <1>1, ChainsAre
<1>6. IsInjective(chain) BY <1>2, <1>3 DEF IsInjective
<1>10. LinkAt(chain, 0)
  <2>1. {chain[i] : i \in 1..1} = {"ln1"} BY <1>3
  <2> QED BY <1>2, <1>3, <1>4, <2>1, ProducersAre, ChildrenAre DEF LinkAt
<1>11. LinkAt(chain, 1)
  <2>1. {chain[i] : i \in 1..2} = {"ln1", "qkv_gen"} BY <1>3
  <2> QED BY <1>2, <1>3, <1>4, <2>1, ProducersAre, ChildrenAre DEF LinkAt
<1>7. \A k \in 0..1 : LinkAt(chain, k)
  <2> SUFFICES ASSUME NEW k \in 0..1 PROVE LinkAt(chain, k) OBVIOUS
  <2>1. k = 0 \/ k = 1 OBVIOUS
  <2> QED BY <2>1, <1>10, <1>11
<1> QED BY <1>2, <1>5, <1>6, <1>7 DEF chain

LEMMA MhaLinks ==
  LET chain == Mha
  IN  /\ Len(chain) = 2 /\ chain \in Seq(OpKinds) /\ IsInjective(chain)
      /\ \A k \in 0..(Len(chain) - 1) : LinkAt(chain, k)
<1> DEFINE chain == Mha
<1>1. chain = <<"logit_softmax", "attend">> BY DEF Mha
<1> HIDE DEF chain
<1>2. Len(chain) = 2 /\ DOMAIN chain = 1..2 BY <1>1
<1>3. /\ chain[1] = "logit_softmax"
      /\ chain[2] = "attend"
  BY <1>1
<1>4. Range(chain) = {"logit_softmax", "attend"} BY <1>1 DEF Range
<1>5. chain \in Seq(OpKinds) BY <1>1, ChainsAre
<1>6. IsInjective(chain) BY <1>2, <1>3 DEF IsInjective
<1>10. LinkAt(chain, 0)
  <2>1. {chain[i] : i \in 1..1} = {"logit_softmax"} BY <1>3
  <2> QED BY <1>2, <1>3, <1>4, <2>1, ProducersAre, ChildrenAre DEF LinkAt
<1>11. LinkAt(chain, 1)
  <2>1. {chain[i] : i \in 1..2} = {"logit_softmax", "attend"} BY <1>3
  <2> QED BY <1>2, <1>3, <1>4, <2>1, ProducersAre, ChildrenAre DEF LinkAt
<1>7. \A k \in 0..1 : LinkAt(chain, k)
  <2> SUFFICES ASSUME NEW k \in 0..1 PROVE LinkAt(chain, k) OBVIOUS
  <2>1. k = 0 \/ k = 1 OBVIOUS
  <2> QED BY <2>1, <1>10, <1>11
<1> QED BY <1>2, <1>5, <1>6, <1>7 DEF chain

LEMMA ProjLinks ==
  LET chain == ProjFfn
  IN  /\ Len(chain) = 7 /\ chain \in Seq(OpKinds) /\ IsInjective(chain)
      /\ \A k \in 0..(Len(chain) - 1) : LinkAt(chain, k)
<1> DEFINE chain == ProjFfn
<1>1. chain = <<"projection", "residual", "ln", "fc1", "gelu", "fc2", "residual2">> BY DEF ProjFfn
<1> HIDE DEF chain
<1>2. Len(chain) = 7 /\ DOMAIN chain = 1..7 BY <1>1
<1>3. /\ chain[1] = "projection"
      /\ chain[2] = "residual"
      /\ chain[3] = "ln"
      /\ chain[4] = "fc1"
      /\ chain[5] = "gelu"
      /\ chain[6] = "fc2"
      /\ chain[7] = "residual2"
  BY <1>1
<1>4. Range(chain) = {"projection", "residual", "ln", "fc1", "gelu", "fc2", "residual2"} BY <1>1 DEF Range
<1>5. chain \in Seq(OpKinds) BY <1>1, ChainsAre
<1>6. IsInjective(chain) BY <1>2, <1>3 DEF IsInjective
<1>10. LinkAt(chain, 0)
  <2>1. {chain[i] : i \in 1..1} = {"projection"} BY <1>3
  <2> QED BY <1>2, <1>3, <1>4, <2>1, ProducersAre, ChildrenAre DEF LinkAt
<1>11. LinkAt(chain, 1)
  <2>1. {chain[i] : i \in 1..2} = {"projection", "residual"} BY <1>3
  <2>2. ~(Producers["residual2"] \cap Range(chain) \subseteq {chain[i] : i \in 1..2})
    BY <1>4, <2>1, ProducersAre
  <2>3. Producers["ln"] \cap Range(chain) \subseteq {chain[i] : i \in 1..2}
    BY <1>4, <2>1, ProducersAre
  <2>4. chain[3] \in Range(chain) BY <1>3, <1>4
  <2>5. get_child_nodes(chain[2]) = <<chain[3], "residual2">> BY <1>3, ChildrenAre
  <2> QED BY <1>2, <1>3, <2>2, <2>3, <2>4, <2>5 DEF LinkAt
<1>12. LinkAt(chain, 2)
  <2>1. {chain[i] : i \in 1..3} = {"projection", "residual", "ln"} BY <1>3
  <2> QED BY <1>2, <1>3, <1>4, <2>1, ProducersAre, ChildrenAre DEF LinkAt
<1>13. LinkAt(chain, 3)
  <2>1. {chain[i] : i \in 1..4} = {"projection", "residual", "ln", "fc1"} BY <1>3
  <2> QED BY <1>2, <1>3, <1>4, <2>1, ProducersAre, ChildrenAre DEF LinkAt
<1>14. LinkAt(chain, 4)
  <2>1. {chain[i] : i \in 1..5} = {"projection", "residual", "ln", "fc1", "gelu"} BY <1>3
  <2> QED BY <1>2, <1>3, <1>4, <2>1, ProducersAre, ChildrenAre DEF LinkAt
<1>15. LinkAt(chain, 5)
  <2>1. {chain[i] : i \in 1..6} = {"projection", "residual", "ln", "fc1", "gelu", "fc2"} BY <1>3
  <2> QED BY <1>2, <1>3, <1>4, <2>1, ProducersAre, ChildrenAre DEF LinkAt
<1>16. LinkAt(chain, 6)
  <2>1. {chain[i] : i \in 1..7} = {"projection", "residual", "ln", "fc1", "gelu", "fc2", "residual2"} BY <1>3
  <2> QED BY <1>2, <1>3, <1>4, <2>1, ProducersAre, ChildrenAre DEF LinkAt
<1>7. \A k \in 0..6 : LinkAt(chain, k)
  <2> SUFFICES ASSUME NEW k \in 0..6 PROVE LinkAt(chain, k) OBVIOUS
  <2>1. k = 0 \/ k = 1 \/ k = 2 \/ k = 3 \/ k = 4 \/ k = 5 \/ k = 6 OBVIOUS
  <2> QED BY <2>1, <1>10, <1>11, <1>12, <1>13, <1>14, <1>15, <1>16
<1> QED BY <1>2, <1>5, <1>6, <1>7 DEF chain

LEMMA BothLinks ==
  LET chain == ProjFfn \o QkvGen
  IN  /\ Len(chain) = 9 /\ chain \in Seq(OpKinds) /\ IsInjective(chain)
      /\ \A k \in 0..(Len(chain) - 1) : LinkAt(chain, k)
<1> DEFINE chain == ProjFfn \o QkvGen
<1>1. chain = <<"projection", "residual", "ln", "fc1", "gelu", "fc2", "residual2", "ln1", "qkv_gen">>
  BY ChainsAre
<1> HIDE DEF chain
<1>2. Len(chain) = 9 /\ DOMAIN chain = 1..9 BY <1>1
<1>3. /\ chain[1] = "projection"
      /\ chain[2] = "residual"
      /\ chain[3] = "ln"
      /\ chain[4] = "fc1"
      /\ chain[5] = "gelu"
      /\ chain[6] = "fc2"
      /\ chain[7] = "residual2"
      /\ chain[8] = "ln1"
      /\ chain[9] = "qkv_gen"
  BY <1>1
<1>4. Range(chain) = {"projection", "residual", "ln", "fc1", "gelu", "fc2", "residual2", "ln1", "qkv_gen"} BY <1>1 DEF Range
<1>5. chain \in Seq(OpKinds) BY <1>1, ChainsAre
<1>6. IsInjective(chain) BY <1>2, <1>3 DEF IsInjective
<1>10. LinkAt(chain, 0)
  <2>1. {chain[i] : i \in 1..1} = {"projection"} BY <1>3
  <2> QED BY <1>2, <1>3, <1>4, <2>1, ProducersAre, ChildrenAre DEF LinkAt
<1>11. LinkAt(chain, 1)
  <2>1. {chain[i] : i \in 1..2} = {"projection", "residual"} BY <1>3
  <2>2. ~(Producers["residual2"] \cap Range(chain) \subseteq {chain[i] : i \in 1..2})
    BY <1>4, <2>1, ProducersAre
  <2>3. Producers["ln"] \cap Range(chain) \subseteq {chain[i] : i \in 1..2}
    BY <1>4, <2>1, ProducersAre
  <2>4. chain[3] \in Range(chain) BY <1>3, <1>4
  <2>5. get_child_nodes(chain[2]) = <<chain[3], "residual2">> BY <1>3, ChildrenAre
  <2> QED BY <1>2, <1>3, <2>2, <2>3, <2>4, <2>5 DEF LinkAt
<1>12. LinkAt(chain, 2)
  <2>1. {chain[i] : i \in 1..3} = {"projection", "residual", "ln"} BY <1>3
  <2> QED BY <1>2, <1>3, <1>4, <2>1, ProducersAre, ChildrenAre DEF LinkAt
<1>13. LinkAt(chain, 3)
  <2>1. {chain[i] : i \in 1..4} = {"projection", "residual", "ln", "fc1"} BY <1>3
  <2> QED BY <1>2, <1>3, <1>4, <2>1, ProducersAre, ChildrenAre DEF LinkAt
<1>14. LinkAt(chain, 4)
  <2>1. {chain[i] : i \in 1..5} = {"projection", "residual", "ln", "fc1", "gelu"} BY <1>3
  <2> QED BY <1>2, <1>3, <1>4, <2>1, ProducersAre, ChildrenAre DEF LinkAt
<1>15. LinkAt(chain, 5)
  <2>1. {chain[i] : i \in 1..6} = {"projection", "residual", "ln", "fc1", "gelu", "fc2"} BY <1>3
  <2> QED BY <1>2, <1>3, <1>4, <2>1, ProducersAre, ChildrenAre DEF LinkAt
<1>16. LinkAt(chain, 6)
  <2>1. {chain[i] : i \in 1..7} = {"projection", "residual", "ln", "fc1", "gelu", "fc2", "residual2"} BY <1>3
  <2> QED BY <1>2, <1>3, <1>4, <2>1, ProducersAre, ChildrenAre DEF LinkAt
<1>17. LinkAt(chain, 7)
  <2>1. {chain[i] : i \in 1..8} = {"projection", "residual", "ln", "fc1", "gelu", "fc2", "residual2", "ln1"} BY <1>3
  <2> QED BY <1>2, <1>3, <1>4, <2>1, ProducersAre, ChildrenAre DEF LinkAt
<1>18. LinkAt(chain, 8)
  <2>1. {chain[i] : i \in 1..9} = {"projection", "residual", "ln", "fc1", "gelu", "fc2", "residual2", "ln1", "qkv_gen"} BY <1>3
  <2> QED BY <1>2, <1>3, <1>4, <2>1, ProducersAre, ChildrenAre DEF LinkAt
<1>7. \A k \in 0..8 : LinkAt(chain, k)
  <2> SUFFICES ASSUME NEW k \in 0..8 PROVE LinkAt(chain, k) OBVIOUS
  <2>1. k = 0 \/ k = 1 \/ k = 2 \/ k = 3 \/ k = 4 \/ k = 5 \/ k = 6 \/ k = 7 \/ k = 8 OBVIOUS
  <2> QED BY <2>1, <1>10, <1>11, <1>12, <1>13, <1>14, <1>15, <1>16, <1>17, <1>18
<1> QED BY <1>2, <1>5, <1>6, <1>7 DEF chain

LEMMA ChainFacts ==
  ASSUME NEW chain \in Chains
  PROVE  /\ chain \in Seq(OpKinds) /\ Len(chain) \in Nat \ {0} /\ IsInjective(chain)
         /\ \A k \in 0..(Len(chain) - 1) : LinkAt(chain, k)
<1>1. CASE chain = QkvGen BY <1>1, QkvLinks, SMT
<1>2. CASE chain = Mha BY <1>2, MhaLinks, SMT
<1>3. CASE chain = ProjFfn BY <1>3, ProjLinks, SMT
<1>4. CASE chain = ProjFfn \o QkvGen
  <2>1. /\ Len(chain) = 9 /\ chain \in Seq(OpKinds) /\ IsInjective(chain)
        /\ \A k \in 0..(Len(chain) - 1) : LinkAt(chain, k)
    BY <1>4, BothLinks, Zenon
  <2> QED BY <2>1
<1> QED BY <1>1, <1>2, <1>3, <1>4 DEF Chains

\* A program at position k of its chain is not finished; finishing its operation
\* moves it to the next position.
LEMMA ChainStep ==
  ASSUME NEW chain \in Chains, NEW k \in 0..(Len(chain) - 1)
  PROVE  /\ finish_operation(ProgramAt(chain, k), chain[k + 1])
            = IF k + 1 = Len(chain) THEN EndOf(chain) ELSE ProgramAt(chain, k + 1)
         /\ ~check_finish(ProgramAt(chain, k))
         /\ check_finish(EndOf(chain))
         /\ ProgramAt(chain, k) # NoProgram /\ EndOf(chain) # NoProgram
         /\ chain[k + 1] \notin ProgramAt(chain, k).finished
         /\ ProgramAt(chain, k).executable = <<chain[k + 1]>>
<1> USE ChainFacts
<1>1. finish_operation(ProgramAt(chain, k), chain[k + 1])
      = IF k + 1 = Len(chain) THEN EndOf(chain) ELSE ProgramAt(chain, k + 1)
  BY LinkStep
<1>2. chain[k + 1] \in Range(chain) /\ k + 1 \in DOMAIN chain /\ DOMAIN chain = 1..Len(chain)
  BY DEF Range
<1>3. chain[k + 1] \notin {chain[i] : i \in 1..k}
  BY <1>2 DEF IsInjective
<1>4. ~check_finish(ProgramAt(chain, k)) BY <1>2, <1>3 DEF check_finish, ProgramAt
<1>5. check_finish(EndOf(chain)) BY DEF check_finish, EndOf
<1>6. Range(chain) \subseteq OpKinds /\ \A i \in 1..Len(chain) : chain[i] \in OpKinds
  BY DEF Range
<1>7. {chain[i] : i \in 1..k} \subseteq OpKinds BY <1>6
<1>8. <<chain[k + 1]>> \in Seq(OpKinds) BY <1>2, <1>6
<1>9. ProgramAt(chain, k) \in ProgramType BY <1>6, <1>7, <1>8 DEF ProgramAt, ProgramType
<1>10. EndOf(chain) \in ProgramType BY <1>6 DEF EndOf, ProgramType
<1> QED BY <1>1, <1>3, <1>4, <1>5, <1>9, <1>10, NullAssumption DEF ProgramAt

-----------------------------------------------------------------------------
(* The stages: which chain each platform has, and where the sub-batches are. *)

LEMMA ConcatIs ==
  ASSUME NEW K, NEW p \in Seq(K), NEW q \in Seq(K)
  PROVE  /\ p \o q \in Seq(K) /\ Len(p \o q) = Len(p) + Len(q)
         /\ \A i \in 1..Len(p) : (p \o q)[i] = p[i]
         /\ \A i \in 1..Len(q) : (p \o q)[Len(p) + i] = q[i]
OBVIOUS

LEMMA OneLayerIs ==
  /\ OneLayer \in Seq(OpKinds) /\ Len(OneLayer) = 11
  /\ OneLayer[1] = "ln1" /\ OneLayer[2] = "qkv_gen"
  /\ OneLayer[3] = "logit_softmax" /\ OneLayer[4] = "attend"
  /\ OneLayer[5] = "projection" /\ OneLayer[6] = "residual"
  /\ OneLayer[7] = "ln" /\ OneLayer[8] = "fc1"
  /\ OneLayer[9] = "gelu" /\ OneLayer[10] = "fc2"
  /\ OneLayer[11] = "residual2"

<1> DEFINE u == QkvGen \o Mha
<1>1. QkvGen \in Seq(OpKinds) /\ Mha \in Seq(OpKinds) /\ ProjFfn \in Seq(OpKinds)
  BY QkvLinks, MhaLinks, ProjLinks
<1>2. Len(QkvGen) = 2 /\ Len(Mha) = 2 /\ Len(ProjFfn) = 7
  BY QkvLinks, MhaLinks, ProjLinks
<1>3. /\ u \in Seq(OpKinds) /\ Len(u) = 2 + 2
      /\ \A i \in 1..2 : u[i] = QkvGen[i]
      /\ \A i \in 1..2 : u[2 + i] = Mha[i]
  <2>1. /\ u \in Seq(OpKinds) /\ Len(u) = Len(QkvGen) + Len(Mha)
        /\ \A i \in 1..Len(QkvGen) : u[i] = QkvGen[i]
        /\ \A i \in 1..Len(Mha) : u[Len(QkvGen) + i] = Mha[i]
    BY <1>1, ConcatIs
  <2> HIDE DEF u
  <2> QED BY <1>2, <2>1
<1>4. u \in Seq(OpKinds) BY <1>3
<1>4a. Len(u) = 4 BY <1>3
<1>5. /\ u[1] = "ln1" /\ u[2] = "qkv_gen" /\ u[3] = "logit_softmax" /\ u[4] = "attend"
  <2>1. u[1] = QkvGen[1] /\ u[2] = QkvGen[2] /\ u[2 + 1] = Mha[1] /\ u[2 + 2] = Mha[2]
    <3> HIDE DEF u
    <3> QED BY <1>3
  <2> HIDE DEF u
  <2> QED BY <2>1 DEF QkvGen, Mha
<1> DEFINE v == u \o ProjFfn
<1> HIDE DEF u
<1>6. /\ v \in Seq(OpKinds) /\ Len(v) = 4 + 7
      /\ \A i \in 1..4 : v[i] = u[i]
      /\ \A i \in 1..7 : v[4 + i] = ProjFfn[i]
  <2>1. /\ v \in Seq(OpKinds) /\ Len(v) = Len(u) + Len(ProjFfn)
        /\ \A i \in 1..Len(u) : v[i] = u[i]
        /\ \A i \in 1..Len(ProjFfn) : v[Len(u) + i] = ProjFfn[i]
    BY <1>1, <1>4, ConcatIs
  <2> HIDE DEF v
  <2> QED BY <1>2, <1>4a, <2>1
<1> HIDE DEF v
<1>7. \A i \in 1..7 : v[4 + i] = ProjFfn[i] BY <1>6
<1>8. v[1] = u[1] /\ v[2] = u[2] /\ v[3] = u[3] /\ v[4] = u[4] BY <1>6
<1>9. /\ v[4 + 1] = ProjFfn[1] /\ v[4 + 2] = ProjFfn[2] /\ v[4 + 3] = ProjFfn[3] /\ v[4 + 4] = ProjFfn[4] /\ v[4 + 5] = ProjFfn[5] /\ v[4 + 6] = ProjFfn[6] /\ v[4 + 7] = ProjFfn[7]
  BY <1>7
<1>10. /\ v[5] = "projection" /\ v[6] = "residual" /\ v[7] = "ln" /\ v[8] = "fc1" /\ v[9] = "gelu" /\ v[10] = "fc2" /\ v[11] = "residual2"
  BY <1>9 DEF ProjFfn
<1>11. OneLayer = v BY DEF OneLayer, u, v
<1>12. Len(v) = 11 BY <1>6
<1> QED BY <1>5, <1>6, <1>8, <1>10, <1>11, <1>12

LEMMA TwoLayersAre ==
  /\ OneLayer \o OneLayer \in Seq(OpKinds) /\ Len(OneLayer \o OneLayer) = 22
  /\ (OneLayer \o OneLayer)[1] = "ln1" /\ (OneLayer \o OneLayer)[12] = "ln1"
  /\ (OneLayer \o OneLayer)[2] = "qkv_gen" /\ (OneLayer \o OneLayer)[13] = "qkv_gen"
  /\ (OneLayer \o OneLayer)[3] = "logit_softmax" /\ (OneLayer \o OneLayer)[14] = "logit_softmax"
  /\ (OneLayer \o OneLayer)[4] = "attend" /\ (OneLayer \o OneLayer)[15] = "attend"
  /\ (OneLayer \o OneLayer)[5] = "projection" /\ (OneLayer \o OneLayer)[16] = "projection"
  /\ (OneLayer \o OneLayer)[6] = "residual" /\ (OneLayer \o OneLayer)[17] = "residual"
  /\ (OneLayer \o OneLayer)[7] = "ln" /\ (OneLayer \o OneLayer)[18] = "ln"
  /\ (OneLayer \o OneLayer)[8] = "fc1" /\ (OneLayer \o OneLayer)[19] = "fc1"
  /\ (OneLayer \o OneLayer)[9] = "gelu" /\ (OneLayer \o OneLayer)[20] = "gelu"
  /\ (OneLayer \o OneLayer)[10] = "fc2" /\ (OneLayer \o OneLayer)[21] = "fc2"
  /\ (OneLayer \o OneLayer)[11] = "residual2" /\ (OneLayer \o OneLayer)[22] = "residual2"
<1> DEFINE v == OneLayer
           z == v \o v
<1>1. v \in Seq(OpKinds) BY OneLayerIs
<1>1a. Len(v) = 11 BY OneLayerIs
<1> HIDE DEF v
<1>2. /\ z \in Seq(OpKinds) /\ Len(z) = 11 + 11
      /\ \A i \in 1..11 : z[i] = v[i]
      /\ \A i \in 1..11 : z[11 + i] = v[i]
  <2>1. /\ z \in Seq(OpKinds) /\ Len(z) = Len(v) + Len(v)
        /\ \A i \in 1..Len(v) : z[i] = v[i]
        /\ \A i \in 1..Len(v) : z[Len(v) + i] = v[i]
    BY <1>1, ConcatIs
  <2> HIDE DEF z
  <2> QED BY <1>1a, <2>1
<1> HIDE DEF z
<1>3. Len(z) = 22 BY <1>2
<1>4. /\ z[1] = v[1] /\ z[11 + 1] = v[1] /\ z[2] = v[2] /\ z[11 + 2] = v[2]
      /\ z[3] = v[3] /\ z[11 + 3] = v[3] /\ z[4] = v[4] /\ z[11 + 4] = v[4]
      /\ z[5] = v[5] /\ z[11 + 5] = v[5] /\ z[6] = v[6] /\ z[11 + 6] = v[6]
      /\ z[7] = v[7] /\ z[11 + 7] = v[7] /\ z[8] = v[8] /\ z[11 + 8] = v[8]
      /\ z[9] = v[9] /\ z[11 + 9] = v[9] /\ z[10] = v[10] /\ z[11 + 10] = v[10]
      /\ z[11] = v[11] /\ z[11 + 11] = v[11]
  BY <1>2
<1>5. /\ v[1] = "ln1" /\ v[2] = "qkv_gen" /\ v[3] = "logit_softmax"
      /\ v[4] = "attend" /\ v[5] = "projection" /\ v[6] = "residual"
      /\ v[7] = "ln" /\ v[8] = "fc1" /\ v[9] = "gelu"
      /\ v[10] = "fc2" /\ v[11] = "residual2"
  BY OneLayerIs DEF v
<1>10. z[1] = "ln1" /\ z[12] = "ln1" BY <1>4, <1>5
<1>11. z[2] = "qkv_gen" /\ z[13] = "qkv_gen" BY <1>4, <1>5
<1>12. z[3] = "logit_softmax" /\ z[14] = "logit_softmax" BY <1>4, <1>5
<1>13. z[4] = "attend" /\ z[15] = "attend" BY <1>4, <1>5
<1>14. z[5] = "projection" /\ z[16] = "projection" BY <1>4, <1>5
<1>15. z[6] = "residual" /\ z[17] = "residual" BY <1>4, <1>5
<1>16. z[7] = "ln" /\ z[18] = "ln" BY <1>4, <1>5
<1>17. z[8] = "fc1" /\ z[19] = "fc1" BY <1>4, <1>5
<1>18. z[9] = "gelu" /\ z[20] = "gelu" BY <1>4, <1>5
<1>19. z[10] = "fc2" /\ z[21] = "fc2" BY <1>4, <1>5
<1>20. z[11] = "residual2" /\ z[22] = "residual2" BY <1>4, <1>5
<1> QED BY <1>2, <1>3, <1>10, <1>11, <1>12, <1>13, <1>14, <1>15, <1>16, <1>17, <1>18, <1>19, <1>20 DEF z, v

\* refresh_stage: the stage after s.
NextStage(m, s) == IF m THEN s + 1 ELSE CASE s = A -> B [] s = B -> E [] OTHER -> Finish

\* What the stages say about platform p in stage s: its chain is the next part of
\* the layers of its sub-batch, up to where the next stage begins.
RowFacts(m, p, s, chain, b, base) ==
  /\ Chain(m, p, s) = chain /\ sub_batch_on(p, s) = b /\ Base(m, b, s) = base
  /\ s # Finish => Base(m, b, NextStage(m, s)) = base + Len(chain)
  /\ \A k \in 0..(Len(chain) - 1) : /\ base + k + 1 <= Len(Layers(m, b))
                                    /\ Layers(m, b)[base + k + 1] = chain[k + 1]

LEMMA PlatformParity ==
  /\ \A s \in {0, 2, 4, 6} : sub_batch_on(SA, s) = 1 /\ sub_batch_on(PIM, s) = 2
  /\ \A s \in {1, 3, 5} : sub_batch_on(SA, s) = 2 /\ sub_batch_on(PIM, s) = 1
BY DEF sub_batch_on, SA, PIM

LEMMA LayersAre ==
  /\ \A b : Layers(TRUE, b) = OneLayer \o OneLayer
  /\ Layers(FALSE, 1) = OneLayer /\ Layers(FALSE, 2) = <<>>
BY DEF Layers

LEMMA EmptyRow ==
  ASSUME NEW m \in BOOLEAN, NEW p, NEW s, NEW b, NEW base \in Nat,
         Chain(m, p, s) = <<>>, sub_batch_on(p, s) = b, Base(m, b, s) = base,
         s # Finish => Base(m, b, NextStage(m, s)) = base
  PROVE  RowFacts(m, p, s, <<>>, b, base)
BY DEF RowFacts

LEMMA RowTSA0 == RowFacts(TRUE, SA, 0, QkvGen, 1, 0)
<1>1. Chain(TRUE, SA, 0) = QkvGen BY DEF Chain, SA, PIM, A, B, C, D, E, F
<1>2. sub_batch_on(SA, 0) = 1 BY PlatformParity
<1>3. Base(TRUE, 1, 0) = 0 BY DEF Base
<1>4. Base(TRUE, 1, NextStage(TRUE, 0)) = 2
  <2>1. NextStage(TRUE, 0) = 1 BY DEF NextStage, A, B, E, Finish
  <2>2. Base(TRUE, 1, 1) = 2 BY DEF Base
  <2> QED BY <2>1, <2>2, Zenon
<1> DEFINE chain == QkvGen
           lay == Layers(TRUE, 1)
           base == 0
<1>5. Len(chain) = 2 BY QkvLinks
<1>6. /\ chain[1] = "ln1" /\ chain[2] = "qkv_gen"
  BY DEF QkvGen
<1>7a. lay = OneLayer \o OneLayer BY LayersAre, Zenon
<1>7. Len(lay) = 22 BY <1>7a, TwoLayersAre, Zenon
<1> HIDE DEF lay
<1>8. /\ lay[1] = "ln1" /\ lay[2] = "qkv_gen"
  BY <1>7a, TwoLayersAre, Zenon
<1>9. base = 0 OBVIOUS
<1> HIDE DEF chain, base
<1>10. ASSUME NEW k \in 0..(Len(chain) - 1)
       PROVE  base + k + 1 <= Len(lay) /\ lay[base + k + 1] = chain[k + 1]
  <2>1. k = 0 \/ k = 1 BY <1>5
  <2> QED BY <1>6, <1>7, <1>8, <1>9, <2>1
<1>11. Base(TRUE, 1, NextStage(TRUE, 0)) = base + Len(chain)
  <2>1. base + Len(chain) = 2 BY <1>5, <1>9
  <2> QED BY <1>4, <2>1, Zenon
<1>12. RowFacts(TRUE, SA, 0, chain, 1, base)
  BY <1>1, <1>2, <1>3, <1>9, <1>10, <1>11 DEF RowFacts, chain, lay
<1> QED BY <1>9, <1>12 DEF chain

LEMMA RowTPIM0 == RowFacts(TRUE, PIM, 0, <<>>, 2, 0)
<1>1. Chain(TRUE, PIM, 0) = <<>> BY DEF Chain, SA, PIM, A, B, C, D, E, F
<1>2. sub_batch_on(PIM, 0) = 2 BY PlatformParity
<1>3. Base(TRUE, 2, 0) = 0 BY DEF Base
<1>4. Base(TRUE, 2, NextStage(TRUE, 0)) = 0
  <2>1. NextStage(TRUE, 0) = 1 BY DEF NextStage, A, B, E, Finish
  <2>2. Base(TRUE, 2, 1) = 0 BY DEF Base
  <2> QED BY <2>1, <2>2, Zenon
<1> QED BY <1>1, <1>2, <1>3, <1>4, EmptyRow

LEMMA RowTSA1 == RowFacts(TRUE, SA, 1, QkvGen, 2, 0)
<1>1. Chain(TRUE, SA, 1) = QkvGen BY DEF Chain, SA, PIM, A, B, C, D, E, F
<1>2. sub_batch_on(SA, 1) = 2 BY PlatformParity
<1>3. Base(TRUE, 2, 1) = 0 BY DEF Base
<1>4. Base(TRUE, 2, NextStage(TRUE, 1)) = 2
  <2>1. NextStage(TRUE, 1) = 2 BY DEF NextStage, A, B, E, Finish
  <2>2. Base(TRUE, 2, 2) = 2 BY DEF Base
  <2> QED BY <2>1, <2>2, Zenon
<1> DEFINE chain == QkvGen
           lay == Layers(TRUE, 2)
           base == 0
<1>5. Len(chain) = 2 BY QkvLinks
<1>6. /\ chain[1] = "ln1" /\ chain[2] = "qkv_gen"
  BY DEF QkvGen
<1>7a. lay = OneLayer \o OneLayer BY LayersAre, Zenon
<1>7. Len(lay) = 22 BY <1>7a, TwoLayersAre, Zenon
<1> HIDE DEF lay
<1>8. /\ lay[1] = "ln1" /\ lay[2] = "qkv_gen"
  BY <1>7a, TwoLayersAre, Zenon
<1>9. base = 0 OBVIOUS
<1> HIDE DEF chain, base
<1>10. ASSUME NEW k \in 0..(Len(chain) - 1)
       PROVE  base + k + 1 <= Len(lay) /\ lay[base + k + 1] = chain[k + 1]
  <2>1. k = 0 \/ k = 1 BY <1>5
  <2> QED BY <1>6, <1>7, <1>8, <1>9, <2>1
<1>11. Base(TRUE, 2, NextStage(TRUE, 1)) = base + Len(chain)
  <2>1. base + Len(chain) = 2 BY <1>5, <1>9
  <2> QED BY <1>4, <2>1, Zenon
<1>12. RowFacts(TRUE, SA, 1, chain, 2, base)
  BY <1>1, <1>2, <1>3, <1>9, <1>10, <1>11 DEF RowFacts, chain, lay
<1> QED BY <1>9, <1>12 DEF chain

LEMMA RowTPIM1 == RowFacts(TRUE, PIM, 1, Mha, 1, 2)
<1>1. Chain(TRUE, PIM, 1) = Mha BY DEF Chain, SA, PIM, A, B, C, D, E, F
<1>2. sub_batch_on(PIM, 1) = 1 BY PlatformParity
<1>3. Base(TRUE, 1, 1) = 2 BY DEF Base
<1>4. Base(TRUE, 1, NextStage(TRUE, 1)) = 4
  <2>1. NextStage(TRUE, 1) = 2 BY DEF NextStage, A, B, E, Finish
  <2>2. Base(TRUE, 1, 2) = 4 BY DEF Base
  <2> QED BY <2>1, <2>2, Zenon
<1> DEFINE chain == Mha
           lay == Layers(TRUE, 1)
           base == 2
<1>5. Len(chain) = 2 BY MhaLinks
<1>6. /\ chain[1] = "logit_softmax" /\ chain[2] = "attend"
  BY DEF Mha
<1>7a. lay = OneLayer \o OneLayer BY LayersAre, Zenon
<1>7. Len(lay) = 22 BY <1>7a, TwoLayersAre, Zenon
<1> HIDE DEF lay
<1>8. /\ lay[3] = "logit_softmax" /\ lay[4] = "attend"
  BY <1>7a, TwoLayersAre, Zenon
<1>9. base = 2 OBVIOUS
<1> HIDE DEF chain, base
<1>10. ASSUME NEW k \in 0..(Len(chain) - 1)
       PROVE  base + k + 1 <= Len(lay) /\ lay[base + k + 1] = chain[k + 1]
  <2>1. k = 0 \/ k = 1 BY <1>5
  <2> QED BY <1>6, <1>7, <1>8, <1>9, <2>1
<1>11. Base(TRUE, 1, NextStage(TRUE, 1)) = base + Len(chain)
  <2>1. base + Len(chain) = 4 BY <1>5, <1>9
  <2> QED BY <1>4, <2>1, Zenon
<1>12. RowFacts(TRUE, PIM, 1, chain, 1, base)
  BY <1>1, <1>2, <1>3, <1>9, <1>10, <1>11 DEF RowFacts, chain, lay
<1> QED BY <1>9, <1>12 DEF chain

LEMMA RowTSA2 == RowFacts(TRUE, SA, 2, ProjFfn \o QkvGen, 1, 4)
<1>1. Chain(TRUE, SA, 2) = ProjFfn \o QkvGen BY DEF Chain, SA, PIM, A, B, C, D, E, F
<1>2. sub_batch_on(SA, 2) = 1 BY PlatformParity
<1>3. Base(TRUE, 1, 2) = 4 BY DEF Base
<1>4. Base(TRUE, 1, NextStage(TRUE, 2)) = 13
  <2>1. NextStage(TRUE, 2) = 3 BY DEF NextStage, A, B, E, Finish
  <2>2. Base(TRUE, 1, 3) = 13 BY DEF Base
  <2> QED BY <2>1, <2>2, Zenon
<1> DEFINE chain == ProjFfn \o QkvGen
           lay == Layers(TRUE, 1)
           base == 4
<1>5. Len(chain) = 9 BY BothLinks
<1>6. /\ chain[1] = "projection" /\ chain[2] = "residual" /\ chain[3] = "ln" /\ chain[4] = "fc1" /\ chain[5] = "gelu" /\ chain[6] = "fc2" /\ chain[7] = "residual2" /\ chain[8] = "ln1" /\ chain[9] = "qkv_gen"
  BY ChainsAre
<1>7a. lay = OneLayer \o OneLayer BY LayersAre, Zenon
<1>7. Len(lay) = 22 BY <1>7a, TwoLayersAre, Zenon
<1> HIDE DEF lay
<1>8. /\ lay[5] = "projection" /\ lay[6] = "residual" /\ lay[7] = "ln" /\ lay[8] = "fc1" /\ lay[9] = "gelu" /\ lay[10] = "fc2" /\ lay[11] = "residual2" /\ lay[12] = "ln1" /\ lay[13] = "qkv_gen"
  BY <1>7a, TwoLayersAre, Zenon
<1>9. base = 4 OBVIOUS
<1> HIDE DEF chain, base
<1>10. ASSUME NEW k \in 0..(Len(chain) - 1)
       PROVE  base + k + 1 <= Len(lay) /\ lay[base + k + 1] = chain[k + 1]
  <2>1. k = 0 \/ k = 1 \/ k = 2 \/ k = 3 \/ k = 4 \/ k = 5 \/ k = 6 \/ k = 7 \/ k = 8 BY <1>5
  <2> QED BY <1>6, <1>7, <1>8, <1>9, <2>1
<1>11. Base(TRUE, 1, NextStage(TRUE, 2)) = base + Len(chain)
  <2>1. base + Len(chain) = 13 BY <1>5, <1>9
  <2> QED BY <1>4, <2>1, Zenon
<1>12. RowFacts(TRUE, SA, 2, chain, 1, base)
  BY <1>1, <1>2, <1>3, <1>9, <1>10, <1>11 DEF RowFacts, chain, lay
<1> QED BY <1>9, <1>12 DEF chain

LEMMA RowTPIM2 == RowFacts(TRUE, PIM, 2, Mha, 2, 2)
<1>1. Chain(TRUE, PIM, 2) = Mha BY DEF Chain, SA, PIM, A, B, C, D, E, F
<1>2. sub_batch_on(PIM, 2) = 2 BY PlatformParity
<1>3. Base(TRUE, 2, 2) = 2 BY DEF Base
<1>4. Base(TRUE, 2, NextStage(TRUE, 2)) = 4
  <2>1. NextStage(TRUE, 2) = 3 BY DEF NextStage, A, B, E, Finish
  <2>2. Base(TRUE, 2, 3) = 4 BY DEF Base
  <2> QED BY <2>1, <2>2, Zenon
<1> DEFINE chain == Mha
           lay == Layers(TRUE, 2)
           base == 2
<1>5. Len(chain) = 2 BY MhaLinks
<1>6. /\ chain[1] = "logit_softmax" /\ chain[2] = "attend"
  BY DEF Mha
<1>7a. lay = OneLayer \o OneLayer BY LayersAre, Zenon
<1>7. Len(lay) = 22 BY <1>7a, TwoLayersAre, Zenon
<1> HIDE DEF lay
<1>8. /\ lay[3] = "logit_softmax" /\ lay[4] = "attend"
  BY <1>7a, TwoLayersAre, Zenon
<1>9. base = 2 OBVIOUS
<1> HIDE DEF chain, base
<1>10. ASSUME NEW k \in 0..(Len(chain) - 1)
       PROVE  base + k + 1 <= Len(lay) /\ lay[base + k + 1] = chain[k + 1]
  <2>1. k = 0 \/ k = 1 BY <1>5
  <2> QED BY <1>6, <1>7, <1>8, <1>9, <2>1
<1>11. Base(TRUE, 2, NextStage(TRUE, 2)) = base + Len(chain)
  <2>1. base + Len(chain) = 4 BY <1>5, <1>9
  <2> QED BY <1>4, <2>1, Zenon
<1>12. RowFacts(TRUE, PIM, 2, chain, 2, base)
  BY <1>1, <1>2, <1>3, <1>9, <1>10, <1>11 DEF RowFacts, chain, lay
<1> QED BY <1>9, <1>12 DEF chain

LEMMA RowTSA3 == RowFacts(TRUE, SA, 3, ProjFfn \o QkvGen, 2, 4)
<1>1. Chain(TRUE, SA, 3) = ProjFfn \o QkvGen BY DEF Chain, SA, PIM, A, B, C, D, E, F
<1>2. sub_batch_on(SA, 3) = 2 BY PlatformParity
<1>3. Base(TRUE, 2, 3) = 4 BY DEF Base
<1>4. Base(TRUE, 2, NextStage(TRUE, 3)) = 13
  <2>1. NextStage(TRUE, 3) = 4 BY DEF NextStage, A, B, E, Finish
  <2>2. Base(TRUE, 2, 4) = 13 BY DEF Base
  <2> QED BY <2>1, <2>2, Zenon
<1> DEFINE chain == ProjFfn \o QkvGen
           lay == Layers(TRUE, 2)
           base == 4
<1>5. Len(chain) = 9 BY BothLinks
<1>6. /\ chain[1] = "projection" /\ chain[2] = "residual" /\ chain[3] = "ln" /\ chain[4] = "fc1" /\ chain[5] = "gelu" /\ chain[6] = "fc2" /\ chain[7] = "residual2" /\ chain[8] = "ln1" /\ chain[9] = "qkv_gen"
  BY ChainsAre
<1>7a. lay = OneLayer \o OneLayer BY LayersAre, Zenon
<1>7. Len(lay) = 22 BY <1>7a, TwoLayersAre, Zenon
<1> HIDE DEF lay
<1>8. /\ lay[5] = "projection" /\ lay[6] = "residual" /\ lay[7] = "ln" /\ lay[8] = "fc1" /\ lay[9] = "gelu" /\ lay[10] = "fc2" /\ lay[11] = "residual2" /\ lay[12] = "ln1" /\ lay[13] = "qkv_gen"
  BY <1>7a, TwoLayersAre, Zenon
<1>9. base = 4 OBVIOUS
<1> HIDE DEF chain, base
<1>10. ASSUME NEW k \in 0..(Len(chain) - 1)
       PROVE  base + k + 1 <= Len(lay) /\ lay[base + k + 1] = chain[k + 1]
  <2>1. k = 0 \/ k = 1 \/ k = 2 \/ k = 3 \/ k = 4 \/ k = 5 \/ k = 6 \/ k = 7 \/ k = 8 BY <1>5
  <2> QED BY <1>6, <1>7, <1>8, <1>9, <2>1
<1>11. Base(TRUE, 2, NextStage(TRUE, 3)) = base + Len(chain)
  <2>1. base + Len(chain) = 13 BY <1>5, <1>9
  <2> QED BY <1>4, <2>1, Zenon
<1>12. RowFacts(TRUE, SA, 3, chain, 2, base)
  BY <1>1, <1>2, <1>3, <1>9, <1>10, <1>11 DEF RowFacts, chain, lay
<1> QED BY <1>9, <1>12 DEF chain

LEMMA RowTPIM3 == RowFacts(TRUE, PIM, 3, Mha, 1, 13)
<1>1. Chain(TRUE, PIM, 3) = Mha BY DEF Chain, SA, PIM, A, B, C, D, E, F
<1>2. sub_batch_on(PIM, 3) = 1 BY PlatformParity
<1>3. Base(TRUE, 1, 3) = 13 BY DEF Base
<1>4. Base(TRUE, 1, NextStage(TRUE, 3)) = 15
  <2>1. NextStage(TRUE, 3) = 4 BY DEF NextStage, A, B, E, Finish
  <2>2. Base(TRUE, 1, 4) = 15 BY DEF Base
  <2> QED BY <2>1, <2>2, Zenon
<1> DEFINE chain == Mha
           lay == Layers(TRUE, 1)
           base == 13
<1>5. Len(chain) = 2 BY MhaLinks
<1>6. /\ chain[1] = "logit_softmax" /\ chain[2] = "attend"
  BY DEF Mha
<1>7a. lay = OneLayer \o OneLayer BY LayersAre, Zenon
<1>7. Len(lay) = 22 BY <1>7a, TwoLayersAre, Zenon
<1> HIDE DEF lay
<1>8. /\ lay[14] = "logit_softmax" /\ lay[15] = "attend"
  BY <1>7a, TwoLayersAre, Zenon
<1>9. base = 13 OBVIOUS
<1> HIDE DEF chain, base
<1>10. ASSUME NEW k \in 0..(Len(chain) - 1)
       PROVE  base + k + 1 <= Len(lay) /\ lay[base + k + 1] = chain[k + 1]
  <2>1. k = 0 \/ k = 1 BY <1>5
  <2> QED BY <1>6, <1>7, <1>8, <1>9, <2>1
<1>11. Base(TRUE, 1, NextStage(TRUE, 3)) = base + Len(chain)
  <2>1. base + Len(chain) = 15 BY <1>5, <1>9
  <2> QED BY <1>4, <2>1, Zenon
<1>12. RowFacts(TRUE, PIM, 3, chain, 1, base)
  BY <1>1, <1>2, <1>3, <1>9, <1>10, <1>11 DEF RowFacts, chain, lay
<1> QED BY <1>9, <1>12 DEF chain

LEMMA RowTSA4 == RowFacts(TRUE, SA, 4, ProjFfn, 1, 15)
<1>1. Chain(TRUE, SA, 4) = ProjFfn BY DEF Chain, SA, PIM, A, B, C, D, E, F
<1>2. sub_batch_on(SA, 4) = 1 BY PlatformParity
<1>3. Base(TRUE, 1, 4) = 15 BY DEF Base
<1>4. Base(TRUE, 1, NextStage(TRUE, 4)) = 22
  <2>1. NextStage(TRUE, 4) = 5 BY DEF NextStage, A, B, E, Finish
  <2>2. Base(TRUE, 1, 5) = 22 BY DEF Base
  <2> QED BY <2>1, <2>2, Zenon
<1> DEFINE chain == ProjFfn
           lay == Layers(TRUE, 1)
           base == 15
<1>5. Len(chain) = 7 BY ProjLinks
<1>6. /\ chain[1] = "projection" /\ chain[2] = "residual" /\ chain[3] = "ln" /\ chain[4] = "fc1" /\ chain[5] = "gelu" /\ chain[6] = "fc2" /\ chain[7] = "residual2"
  BY DEF ProjFfn
<1>7a. lay = OneLayer \o OneLayer BY LayersAre, Zenon
<1>7. Len(lay) = 22 BY <1>7a, TwoLayersAre, Zenon
<1> HIDE DEF lay
<1>8. /\ lay[16] = "projection" /\ lay[17] = "residual" /\ lay[18] = "ln" /\ lay[19] = "fc1" /\ lay[20] = "gelu" /\ lay[21] = "fc2" /\ lay[22] = "residual2"
  BY <1>7a, TwoLayersAre, Zenon
<1>9. base = 15 OBVIOUS
<1> HIDE DEF chain, base
<1>10. ASSUME NEW k \in 0..(Len(chain) - 1)
       PROVE  base + k + 1 <= Len(lay) /\ lay[base + k + 1] = chain[k + 1]
  <2>1. k = 0 \/ k = 1 \/ k = 2 \/ k = 3 \/ k = 4 \/ k = 5 \/ k = 6 BY <1>5
  <2> QED BY <1>6, <1>7, <1>8, <1>9, <2>1
<1>11. Base(TRUE, 1, NextStage(TRUE, 4)) = base + Len(chain)
  <2>1. base + Len(chain) = 22 BY <1>5, <1>9
  <2> QED BY <1>4, <2>1, Zenon
<1>12. RowFacts(TRUE, SA, 4, chain, 1, base)
  BY <1>1, <1>2, <1>3, <1>9, <1>10, <1>11 DEF RowFacts, chain, lay
<1> QED BY <1>9, <1>12 DEF chain

LEMMA RowTPIM4 == RowFacts(TRUE, PIM, 4, Mha, 2, 13)
<1>1. Chain(TRUE, PIM, 4) = Mha BY DEF Chain, SA, PIM, A, B, C, D, E, F
<1>2. sub_batch_on(PIM, 4) = 2 BY PlatformParity
<1>3. Base(TRUE, 2, 4) = 13 BY DEF Base
<1>4. Base(TRUE, 2, NextStage(TRUE, 4)) = 15
  <2>1. NextStage(TRUE, 4) = 5 BY DEF NextStage, A, B, E, Finish
  <2>2. Base(TRUE, 2, 5) = 15 BY DEF Base
  <2> QED BY <2>1, <2>2, Zenon
<1> DEFINE chain == Mha
           lay == Layers(TRUE, 2)
           base == 13
<1>5. Len(chain) = 2 BY MhaLinks
<1>6. /\ chain[1] = "logit_softmax" /\ chain[2] = "attend"
  BY DEF Mha
<1>7a. lay = OneLayer \o OneLayer BY LayersAre, Zenon
<1>7. Len(lay) = 22 BY <1>7a, TwoLayersAre, Zenon
<1> HIDE DEF lay
<1>8. /\ lay[14] = "logit_softmax" /\ lay[15] = "attend"
  BY <1>7a, TwoLayersAre, Zenon
<1>9. base = 13 OBVIOUS
<1> HIDE DEF chain, base
<1>10. ASSUME NEW k \in 0..(Len(chain) - 1)
       PROVE  base + k + 1 <= Len(lay) /\ lay[base + k + 1] = chain[k + 1]
  <2>1. k = 0 \/ k = 1 BY <1>5
  <2> QED BY <1>6, <1>7, <1>8, <1>9, <2>1
<1>11. Base(TRUE, 2, NextStage(TRUE, 4)) = base + Len(chain)
  <2>1. base + Len(chain) = 15 BY <1>5, <1>9
  <2> QED BY <1>4, <2>1, Zenon
<1>12. RowFacts(TRUE, PIM, 4, chain, 2, base)
  BY <1>1, <1>2, <1>3, <1>9, <1>10, <1>11 DEF RowFacts, chain, lay
<1> QED BY <1>9, <1>12 DEF chain

LEMMA RowTSA5 == RowFacts(TRUE, SA, 5, ProjFfn, 2, 15)
<1>1. Chain(TRUE, SA, 5) = ProjFfn BY DEF Chain, SA, PIM, A, B, C, D, E, F
<1>2. sub_batch_on(SA, 5) = 2 BY PlatformParity
<1>3. Base(TRUE, 2, 5) = 15 BY DEF Base
<1>4. Base(TRUE, 2, NextStage(TRUE, 5)) = 22
  <2>1. NextStage(TRUE, 5) = 6 BY DEF NextStage, A, B, E, Finish
  <2>2. Base(TRUE, 2, 6) = 22 BY DEF Base
  <2> QED BY <2>1, <2>2, Zenon
<1> DEFINE chain == ProjFfn
           lay == Layers(TRUE, 2)
           base == 15
<1>5. Len(chain) = 7 BY ProjLinks
<1>6. /\ chain[1] = "projection" /\ chain[2] = "residual" /\ chain[3] = "ln" /\ chain[4] = "fc1" /\ chain[5] = "gelu" /\ chain[6] = "fc2" /\ chain[7] = "residual2"
  BY DEF ProjFfn
<1>7a. lay = OneLayer \o OneLayer BY LayersAre, Zenon
<1>7. Len(lay) = 22 BY <1>7a, TwoLayersAre, Zenon
<1> HIDE DEF lay
<1>8. /\ lay[16] = "projection" /\ lay[17] = "residual" /\ lay[18] = "ln" /\ lay[19] = "fc1" /\ lay[20] = "gelu" /\ lay[21] = "fc2" /\ lay[22] = "residual2"
  BY <1>7a, TwoLayersAre, Zenon
<1>9. base = 15 OBVIOUS
<1> HIDE DEF chain, base
<1>10. ASSUME NEW k \in 0..(Len(chain) - 1)
       PROVE  base + k + 1 <= Len(lay) /\ lay[base + k + 1] = chain[k + 1]
  <2>1. k = 0 \/ k = 1 \/ k = 2 \/ k = 3 \/ k = 4 \/ k = 5 \/ k = 6 BY <1>5
  <2> QED BY <1>6, <1>7, <1>8, <1>9, <2>1
<1>11. Base(TRUE, 2, NextStage(TRUE, 5)) = base + Len(chain)
  <2>1. base + Len(chain) = 22 BY <1>5, <1>9
  <2> QED BY <1>4, <2>1, Zenon
<1>12. RowFacts(TRUE, SA, 5, chain, 2, base)
  BY <1>1, <1>2, <1>3, <1>9, <1>10, <1>11 DEF RowFacts, chain, lay
<1> QED BY <1>9, <1>12 DEF chain

LEMMA RowTPIM5 == RowFacts(TRUE, PIM, 5, <<>>, 1, 22)
<1>1. Chain(TRUE, PIM, 5) = <<>> BY DEF Chain, SA, PIM, A, B, C, D, E, F
<1>2. sub_batch_on(PIM, 5) = 1 BY PlatformParity
<1>3. Base(TRUE, 1, 5) = 22 BY DEF Base
<1>4. Base(TRUE, 1, NextStage(TRUE, 5)) = 22
  <2>1. NextStage(TRUE, 5) = 6 BY DEF NextStage, A, B, E, Finish
  <2>2. Base(TRUE, 1, 6) = 22 BY DEF Base
  <2> QED BY <2>1, <2>2, Zenon
<1> QED BY <1>1, <1>2, <1>3, <1>4, EmptyRow

LEMMA RowTSA6 == RowFacts(TRUE, SA, 6, <<>>, 1, 22)
<1>1. Chain(TRUE, SA, 6) = <<>> BY DEF Chain, SA, PIM, A, B, C, D, E, F
<1>2. sub_batch_on(SA, 6) = 1 BY PlatformParity
<1>3. Base(TRUE, 1, 6) = 22 BY DEF Base
<1>4. 6 = Finish BY DEF Finish
<1> QED BY <1>1, <1>2, <1>3, <1>4, EmptyRow

LEMMA RowTPIM6 == RowFacts(TRUE, PIM, 6, <<>>, 2, 22)
<1>1. Chain(TRUE, PIM, 6) = <<>> BY DEF Chain, SA, PIM, A, B, C, D, E, F
<1>2. sub_batch_on(PIM, 6) = 2 BY PlatformParity
<1>3. Base(TRUE, 2, 6) = 22 BY DEF Base
<1>4. 6 = Finish BY DEF Finish
<1> QED BY <1>1, <1>2, <1>3, <1>4, EmptyRow

LEMMA RowFSA0 == RowFacts(FALSE, SA, 0, QkvGen, 1, 0)
<1>1. Chain(FALSE, SA, 0) = QkvGen BY DEF Chain, SA, PIM, A, B, C, D, E, F
<1>2. sub_batch_on(SA, 0) = 1 BY PlatformParity
<1>3. Base(FALSE, 1, 0) = 0 BY DEF Base
<1>4. Base(FALSE, 1, NextStage(FALSE, 0)) = 2
  <2>1. NextStage(FALSE, 0) = 1 BY DEF NextStage, A, B, E, Finish
  <2>2. Base(FALSE, 1, 1) = 2 BY DEF Base
  <2> QED BY <2>1, <2>2, Zenon
<1> DEFINE chain == QkvGen
           lay == Layers(FALSE, 1)
           base == 0
<1>5. Len(chain) = 2 BY QkvLinks
<1>6. /\ chain[1] = "ln1" /\ chain[2] = "qkv_gen"
  BY DEF QkvGen
<1>7. Len(lay) = 11 BY LayersAre, OneLayerIs
<1>7a. lay = OneLayer BY LayersAre
<1> HIDE DEF lay
<1>8. /\ lay[1] = "ln1" /\ lay[2] = "qkv_gen"
  BY <1>7a, OneLayerIs, Zenon
<1>9. base = 0 OBVIOUS
<1> HIDE DEF chain, base
<1>10. ASSUME NEW k \in 0..(Len(chain) - 1)
       PROVE  base + k + 1 <= Len(lay) /\ lay[base + k + 1] = chain[k + 1]
  <2>1. k = 0 \/ k = 1 BY <1>5
  <2> QED BY <1>6, <1>7, <1>8, <1>9, <2>1
<1>11. Base(FALSE, 1, NextStage(FALSE, 0)) = base + Len(chain)
  <2>1. base + Len(chain) = 2 BY <1>5, <1>9
  <2> QED BY <1>4, <2>1, Zenon
<1>12. RowFacts(FALSE, SA, 0, chain, 1, base)
  BY <1>1, <1>2, <1>3, <1>9, <1>10, <1>11 DEF RowFacts, chain, lay
<1> QED BY <1>9, <1>12 DEF chain

LEMMA RowFPIM0 == RowFacts(FALSE, PIM, 0, <<>>, 2, 0)
<1>1. Chain(FALSE, PIM, 0) = <<>> BY DEF Chain, SA, PIM, A, B, C, D, E, F
<1>2. sub_batch_on(PIM, 0) = 2 BY PlatformParity
<1>3. Base(FALSE, 2, 0) = 0 BY DEF Base
<1>4. Base(FALSE, 2, NextStage(FALSE, 0)) = 0
  <2>1. NextStage(FALSE, 0) = 1 BY DEF NextStage, A, B, E, Finish
  <2>2. Base(FALSE, 2, 1) = 0 BY DEF Base
  <2> QED BY <2>1, <2>2, Zenon
<1> QED BY <1>1, <1>2, <1>3, <1>4, EmptyRow

LEMMA RowFSA1 == RowFacts(FALSE, SA, 1, <<>>, 2, 0)
<1>1. Chain(FALSE, SA, 1) = <<>> BY DEF Chain, SA, PIM, A, B, C, D, E, F
<1>2. sub_batch_on(SA, 1) = 2 BY PlatformParity
<1>3. Base(FALSE, 2, 1) = 0 BY DEF Base
<1>4. Base(FALSE, 2, NextStage(FALSE, 1)) = 0
  <2>1. NextStage(FALSE, 1) = 4 BY DEF NextStage, A, B, E, Finish
  <2>2. Base(FALSE, 2, 4) = 0 BY DEF Base
  <2> QED BY <2>1, <2>2, Zenon
<1> QED BY <1>1, <1>2, <1>3, <1>4, EmptyRow

LEMMA RowFPIM1 == RowFacts(FALSE, PIM, 1, Mha, 1, 2)
<1>1. Chain(FALSE, PIM, 1) = Mha BY DEF Chain, SA, PIM, A, B, C, D, E, F
<1>2. sub_batch_on(PIM, 1) = 1 BY PlatformParity
<1>3. Base(FALSE, 1, 1) = 2 BY DEF Base
<1>4. Base(FALSE, 1, NextStage(FALSE, 1)) = 4
  <2>1. NextStage(FALSE, 1) = 4 BY DEF NextStage, A, B, E, Finish
  <2>2. Base(FALSE, 1, 4) = 4 BY DEF Base
  <2> QED BY <2>1, <2>2, Zenon
<1> DEFINE chain == Mha
           lay == Layers(FALSE, 1)
           base == 2
<1>5. Len(chain) = 2 BY MhaLinks
<1>6. /\ chain[1] = "logit_softmax" /\ chain[2] = "attend"
  BY DEF Mha
<1>7. Len(lay) = 11 BY LayersAre, OneLayerIs
<1>7a. lay = OneLayer BY LayersAre
<1> HIDE DEF lay
<1>8. /\ lay[3] = "logit_softmax" /\ lay[4] = "attend"
  BY <1>7a, OneLayerIs, Zenon
<1>9. base = 2 OBVIOUS
<1> HIDE DEF chain, base
<1>10. ASSUME NEW k \in 0..(Len(chain) - 1)
       PROVE  base + k + 1 <= Len(lay) /\ lay[base + k + 1] = chain[k + 1]
  <2>1. k = 0 \/ k = 1 BY <1>5
  <2> QED BY <1>6, <1>7, <1>8, <1>9, <2>1
<1>11. Base(FALSE, 1, NextStage(FALSE, 1)) = base + Len(chain)
  <2>1. base + Len(chain) = 4 BY <1>5, <1>9
  <2> QED BY <1>4, <2>1, Zenon
<1>12. RowFacts(FALSE, PIM, 1, chain, 1, base)
  BY <1>1, <1>2, <1>3, <1>9, <1>10, <1>11 DEF RowFacts, chain, lay
<1> QED BY <1>9, <1>12 DEF chain

LEMMA RowFSA4 == RowFacts(FALSE, SA, 4, ProjFfn, 1, 4)
<1>1. Chain(FALSE, SA, 4) = ProjFfn BY DEF Chain, SA, PIM, A, B, C, D, E, F
<1>2. sub_batch_on(SA, 4) = 1 BY PlatformParity
<1>3. Base(FALSE, 1, 4) = 4 BY DEF Base
<1>4. Base(FALSE, 1, NextStage(FALSE, 4)) = 11
  <2>1. NextStage(FALSE, 4) = 6 BY DEF NextStage, A, B, E, Finish
  <2>2. Base(FALSE, 1, 6) = 11 BY DEF Base
  <2> QED BY <2>1, <2>2, Zenon
<1> DEFINE chain == ProjFfn
           lay == Layers(FALSE, 1)
           base == 4
<1>5. Len(chain) = 7 BY ProjLinks
<1>6. /\ chain[1] = "projection" /\ chain[2] = "residual" /\ chain[3] = "ln" /\ chain[4] = "fc1" /\ chain[5] = "gelu" /\ chain[6] = "fc2" /\ chain[7] = "residual2"
  BY DEF ProjFfn
<1>7. Len(lay) = 11 BY LayersAre, OneLayerIs
<1>7a. lay = OneLayer BY LayersAre
<1> HIDE DEF lay
<1>8. /\ lay[5] = "projection" /\ lay[6] = "residual" /\ lay[7] = "ln" /\ lay[8] = "fc1" /\ lay[9] = "gelu" /\ lay[10] = "fc2" /\ lay[11] = "residual2"
  BY <1>7a, OneLayerIs, Zenon
<1>9. base = 4 OBVIOUS
<1> HIDE DEF chain, base
<1>10. ASSUME NEW k \in 0..(Len(chain) - 1)
       PROVE  base + k + 1 <= Len(lay) /\ lay[base + k + 1] = chain[k + 1]
  <2>1. k = 0 \/ k = 1 \/ k = 2 \/ k = 3 \/ k = 4 \/ k = 5 \/ k = 6 BY <1>5
  <2> QED BY <1>6, <1>7, <1>8, <1>9, <2>1
<1>11. Base(FALSE, 1, NextStage(FALSE, 4)) = base + Len(chain)
  <2>1. base + Len(chain) = 11 BY <1>5, <1>9
  <2> QED BY <1>4, <2>1, Zenon
<1>12. RowFacts(FALSE, SA, 4, chain, 1, base)
  BY <1>1, <1>2, <1>3, <1>9, <1>10, <1>11 DEF RowFacts, chain, lay
<1> QED BY <1>9, <1>12 DEF chain

LEMMA RowFPIM4 == RowFacts(FALSE, PIM, 4, <<>>, 2, 0)
<1>1. Chain(FALSE, PIM, 4) = <<>> BY DEF Chain, SA, PIM, A, B, C, D, E, F
<1>2. sub_batch_on(PIM, 4) = 2 BY PlatformParity
<1>3. Base(FALSE, 2, 4) = 0 BY DEF Base
<1>4. Base(FALSE, 2, NextStage(FALSE, 4)) = 0
  <2>1. NextStage(FALSE, 4) = 6 BY DEF NextStage, A, B, E, Finish
  <2>2. Base(FALSE, 2, 6) = 0 BY DEF Base
  <2> QED BY <2>1, <2>2, Zenon
<1> QED BY <1>1, <1>2, <1>3, <1>4, EmptyRow

LEMMA RowFSA6 == RowFacts(FALSE, SA, 6, <<>>, 1, 11)
<1>1. Chain(FALSE, SA, 6) = <<>> BY DEF Chain, SA, PIM, A, B, C, D, E, F
<1>2. sub_batch_on(SA, 6) = 1 BY PlatformParity
<1>3. Base(FALSE, 1, 6) = 11 BY DEF Base
<1>4. 6 = Finish BY DEF Finish
<1> QED BY <1>1, <1>2, <1>3, <1>4, EmptyRow

LEMMA RowFPIM6 == RowFacts(FALSE, PIM, 6, <<>>, 2, 0)
<1>1. Chain(FALSE, PIM, 6) = <<>> BY DEF Chain, SA, PIM, A, B, C, D, E, F
<1>2. sub_batch_on(PIM, 6) = 2 BY PlatformParity
<1>3. Base(FALSE, 2, 6) = 0 BY DEF Base
<1>4. 6 = Finish BY DEF Finish
<1> QED BY <1>1, <1>2, <1>3, <1>4, EmptyRow

\* The facts of all rows.
StageFacts(m, p, s) ==
  LET chain == Chain(m, p, s)
      b     == sub_batch_on(p, s)
      base  == Base(m, b, s)
  IN  /\ chain = <<>> \/ chain \in Chains
      /\ b \in 1..2 /\ base \in Nat
      /\ s # Finish => Base(m, b, NextStage(m, s)) = base + Len(chain)
      /\ \A k \in 0..(Len(chain) - 1) : /\ base + k + 1 <= Len(Layers(m, b))
                                        /\ Layers(m, b)[base + k + 1] = chain[k + 1]

LEMMA FactsOfRow ==
  ASSUME NEW m, NEW p, NEW s, NEW chain, NEW b \in 1..2, NEW base \in Nat,
         chain = <<>> \/ chain \in Chains, RowFacts(m, p, s, chain, b, base)
  PROVE  StageFacts(m, p, s)
BY Zenon DEF StageFacts, RowFacts

LEMMA StagesHaveFacts ==
  ASSUME NEW m \in BOOLEAN, NEW s \in Reached(m), NEW p \in Platforms
  PROVE  StageFacts(m, p, s)
<1>1. StageFacts(TRUE, SA, 0)
  <2>1. 1 \in 1..2 /\ 0 \in Nat OBVIOUS
  <2>2. QkvGen \in Chains BY DEF Chains
  <2> QED BY RowTSA0, <2>1, <2>2, FactsOfRow, Zenon
<1>2. StageFacts(TRUE, PIM, 0)
  <2>1. 2 \in 1..2 /\ 0 \in Nat OBVIOUS
  <2> QED BY RowTPIM0, <2>1, FactsOfRow, Zenon
<1>3. StageFacts(TRUE, SA, 1)
  <2>1. 2 \in 1..2 /\ 0 \in Nat OBVIOUS
  <2>2. QkvGen \in Chains BY DEF Chains
  <2> QED BY RowTSA1, <2>1, <2>2, FactsOfRow, Zenon
<1>4. StageFacts(TRUE, PIM, 1)
  <2>1. 1 \in 1..2 /\ 2 \in Nat OBVIOUS
  <2>2. Mha \in Chains BY DEF Chains
  <2> QED BY RowTPIM1, <2>1, <2>2, FactsOfRow, Zenon
<1>5. StageFacts(TRUE, SA, 2)
  <2>1. 1 \in 1..2 /\ 4 \in Nat OBVIOUS
  <2>2. ProjFfn \o QkvGen \in Chains BY DEF Chains
  <2> QED BY RowTSA2, <2>1, <2>2, FactsOfRow, Zenon
<1>6. StageFacts(TRUE, PIM, 2)
  <2>1. 2 \in 1..2 /\ 2 \in Nat OBVIOUS
  <2>2. Mha \in Chains BY DEF Chains
  <2> QED BY RowTPIM2, <2>1, <2>2, FactsOfRow, Zenon
<1>7. StageFacts(TRUE, SA, 3)
  <2>1. 2 \in 1..2 /\ 4 \in Nat OBVIOUS
  <2>2. ProjFfn \o QkvGen \in Chains BY DEF Chains
  <2> QED BY RowTSA3, <2>1, <2>2, FactsOfRow, Zenon
<1>8. StageFacts(TRUE, PIM, 3)
  <2>1. 1 \in 1..2 /\ 13 \in Nat OBVIOUS
  <2>2. Mha \in Chains BY DEF Chains
  <2> QED BY RowTPIM3, <2>1, <2>2, FactsOfRow, Zenon
<1>9. StageFacts(TRUE, SA, 4)
  <2>1. 1 \in 1..2 /\ 15 \in Nat OBVIOUS
  <2>2. ProjFfn \in Chains BY DEF Chains
  <2> QED BY RowTSA4, <2>1, <2>2, FactsOfRow, Zenon
<1>10. StageFacts(TRUE, PIM, 4)
  <2>1. 2 \in 1..2 /\ 13 \in Nat OBVIOUS
  <2>2. Mha \in Chains BY DEF Chains
  <2> QED BY RowTPIM4, <2>1, <2>2, FactsOfRow, Zenon
<1>11. StageFacts(TRUE, SA, 5)
  <2>1. 2 \in 1..2 /\ 15 \in Nat OBVIOUS
  <2>2. ProjFfn \in Chains BY DEF Chains
  <2> QED BY RowTSA5, <2>1, <2>2, FactsOfRow, Zenon
<1>12. StageFacts(TRUE, PIM, 5)
  <2>1. 1 \in 1..2 /\ 22 \in Nat OBVIOUS
  <2> QED BY RowTPIM5, <2>1, FactsOfRow, Zenon
<1>13. StageFacts(TRUE, SA, 6)
  <2>1. 1 \in 1..2 /\ 22 \in Nat OBVIOUS
  <2> QED BY RowTSA6, <2>1, FactsOfRow, Zenon
<1>14. StageFacts(TRUE, PIM, 6)
  <2>1. 2 \in 1..2 /\ 22 \in Nat OBVIOUS
  <2> QED BY RowTPIM6, <2>1, FactsOfRow, Zenon
<1>15. StageFacts(FALSE, SA, 0)
  <2>1. 1 \in 1..2 /\ 0 \in Nat OBVIOUS
  <2>2. QkvGen \in Chains BY DEF Chains
  <2> QED BY RowFSA0, <2>1, <2>2, FactsOfRow, Zenon
<1>16. StageFacts(FALSE, PIM, 0)
  <2>1. 2 \in 1..2 /\ 0 \in Nat OBVIOUS
  <2> QED BY RowFPIM0, <2>1, FactsOfRow, Zenon
<1>17. StageFacts(FALSE, SA, 1)
  <2>1. 2 \in 1..2 /\ 0 \in Nat OBVIOUS
  <2> QED BY RowFSA1, <2>1, FactsOfRow, Zenon
<1>18. StageFacts(FALSE, PIM, 1)
  <2>1. 1 \in 1..2 /\ 2 \in Nat OBVIOUS
  <2>2. Mha \in Chains BY DEF Chains
  <2> QED BY RowFPIM1, <2>1, <2>2, FactsOfRow, Zenon
<1>19. StageFacts(FALSE, SA, 4)
  <2>1. 1 \in 1..2 /\ 4 \in Nat OBVIOUS
  <2>2. ProjFfn \in Chains BY DEF Chains
  <2> QED BY RowFSA4, <2>1, <2>2, FactsOfRow, Zenon
<1>20. StageFacts(FALSE, PIM, 4)
  <2>1. 2 \in 1..2 /\ 0 \in Nat OBVIOUS
  <2> QED BY RowFPIM4, <2>1, FactsOfRow, Zenon
<1>21. StageFacts(FALSE, SA, 6)
  <2>1. 1 \in 1..2 /\ 11 \in Nat OBVIOUS
  <2> QED BY RowFSA6, <2>1, FactsOfRow, Zenon
<1>22. StageFacts(FALSE, PIM, 6)
  <2>1. 2 \in 1..2 /\ 0 \in Nat OBVIOUS
  <2> QED BY RowFPIM6, <2>1, FactsOfRow, Zenon
<1>23. p = SA \/ p = PIM BY DEF Platforms
<1>24. m \/ ~m OBVIOUS
<1>25. CASE m
  <2>1. m = TRUE BY <1>25
  <2>2. s \in 0..6 BY <1>25 DEF Reached, Stages, A, Finish
  <2>3. s = 0 \/ s = 1 \/ s = 2 \/ s = 3 \/ s = 4 \/ s = 5 \/ s = 6 BY <2>2
  <2> QED BY <2>1, <2>3, <1>23, <1>1, <1>2, <1>3, <1>4, <1>5, <1>6, <1>7, <1>8, <1>9, <1>10, <1>11, <1>12, <1>13, <1>14, Zenon
<1>26. CASE ~m
  <2>1. m = FALSE BY <1>26
  <2>2. s = 0 \/ s = 1 \/ s = 4 \/ s = 6 BY <1>26 DEF Reached, A, B, E, Finish
  <2> QED BY <2>1, <2>2, <1>23, <1>15, <1>16, <1>17, <1>18, <1>19, <1>20, <1>21, <1>22, Zenon
<1> QED BY <1>24, <1>25, <1>26

LEMMA StageNumbers ==
  /\ A = 0 /\ B = 1 /\ C = 2 /\ D = 3 /\ E = 4 /\ F = 5 /\ Finish = 6
  /\ \A m \in BOOLEAN : Reached(m) \subseteq 0..6
  /\ Stages = 0..6
BY DEF A, B, C, D, E, F, Finish, Reached, Stages

LEMMA NextReached ==
  ASSUME NEW m \in BOOLEAN, NEW s \in Reached(m), s # Finish
  PROVE  /\ NextStage(m, s) \in Reached(m)
         /\ s \in Nat /\ NextStage(m, s) \in Nat /\ s < NextStage(m, s)
         /\ m = SubBatchMode => next_stage(s) = NextStage(m, s)
BY StageNumbers DEF NextStage, next_stage, Reached

LEMMA SomeWork ==
  ASSUME NEW m \in BOOLEAN, NEW s \in Reached(m), s # Finish
  PROVE  \E p \in Platforms : Chain(m, p, s) # <<>>
<1>1. QkvGen # <<>> /\ Mha # <<>> /\ ProjFfn # <<>>
  BY DEF QkvGen, Mha, ProjFfn
<1>2. ProjFfn \o QkvGen # <<>> BY BothLinks
<1>3. SA \in Platforms /\ PIM \in Platforms /\ SA # PIM BY DEF Platforms, SA, PIM
<1>4. CASE m
  <2>1. s \in 0..5 BY <1>4, StageNumbers DEF Reached
  <2>2. Chain(m, SA, s) = QkvGen \/ Chain(m, SA, s) = ProjFfn \/ Chain(m, SA, s) = ProjFfn \o QkvGen
    <3>1. s = 0 \/ s = 1 \/ s = 2 \/ s = 3 \/ s = 4 \/ s = 5 BY <2>1
    <3>2. m = TRUE BY <1>4
    <3> QED BY <3>1, <3>2, RowTSA0, RowTSA1, RowTSA2, RowTSA3, RowTSA4, RowTSA5, Zenon
            DEF RowFacts
  <2> QED BY <1>1, <1>2, <1>3, <2>2, Zenon
<1>5. CASE ~m
  <2>1. s = 0 \/ s = 1 \/ s = 4 BY <1>5, StageNumbers DEF Reached
  <2>2. \/ Chain(m, SA, s) = QkvGen \/ Chain(m, PIM, s) = Mha \/ Chain(m, SA, s) = ProjFfn
    BY <1>3, <1>5, <2>1 DEF Chain, A, B, E
  <2> QED BY <1>1, <1>3, <2>2, Zenon
<1> QED BY <1>4, <1>5

\* The two platforms serve the two sub-batches.
LEMMA BothServed ==
  ASSUME NEW s \in Stages
  PROVE  \/ sub_batch_on(SA, s) = 1 /\ sub_batch_on(PIM, s) = 2
         \/ sub_batch_on(SA, s) = 2 /\ sub_batch_on(PIM, s) = 1
BY StageNumbers DEF sub_batch_on, SA, PIM

\* init_program makes the program of the platform's chain.
LEMMA InitPrograms ==
  ASSUME NEW m \in BOOLEAN, NEW s \in Reached(m), s # Finish, NEW p \in Platforms,
         NEW batches, batches[1] # <<>>, IF m THEN batches[2] # <<>> ELSE batches[2] = <<>>
  PROVE  init_program(p, s, batches[sub_batch_on(p, s)])
         = IF Chain(m, p, s) = <<>> THEN EmptyProgram ELSE ProgramAt(Chain(m, p, s), 0)
<1> DEFINE reqs == batches[sub_batch_on(p, s)]
<1>0. /\ QkvGen \in Seq(OpKinds) /\ Mha \in Seq(OpKinds) /\ ProjFfn \in Seq(OpKinds)
      /\ QkvGen # <<>> /\ Mha # <<>> /\ ProjFfn # <<>>
      /\ Mha[1] = "logit_softmax"
  <2>1. QkvGen # <<>> /\ Mha # <<>> /\ ProjFfn # <<>> /\ Mha[1] = "logit_softmax"
    BY DEF QkvGen, Mha, ProjFfn
  <2> QED BY <2>1, QkvLinks, MhaLinks, ProjLinks
<1>1. <<>> \o QkvGen = QkvGen /\ ProjFfn \o <<>> = ProjFfn
  BY <1>0, ConcatEmptySeq
<1>2. ProjFfn \o QkvGen # <<>> /\ ProjFfn \o QkvGen \in Seq(OpKinds)
  BY BothLinks
<1>3. \A chain : ProgramAt(chain, 0) = [ops |-> Range(chain), executable |-> <<chain[1]>>,
                                        finished |-> {}]
  <2>1. \A chain : {chain[i] : i \in 1..0} = {} OBVIOUS
  <2>2. 0 + 1 = 1 OBVIOUS
  <2> QED BY <2>1, <2>2, Zenon DEF ProgramAt
<1>4. SA # PIM BY DEF SA, PIM
<1>5. s \in 0..5 BY StageNumbers
<1>6. ASSUME p = SA, reqs # <<>>
      PROVE  init_program(p, s, reqs) = ProgramAt(Chain(TRUE, SA, s), 0)
  <2>1. init_program(p, s, reqs) = init_SA_program(s)
    <3> HIDE DEF reqs
    <3> QED BY <1>4, <1>6 DEF init_program
  <2>2. ASSUME NEW chain \in Seq(OpKinds), chain # <<>>,
               (IF enable_proj_ffns(s) THEN ProjFfn ELSE <<>>)
                 \o (IF enable_qkv_gen(s) THEN QkvGen ELSE <<>>) = chain
        PROVE  init_SA_program(s) = ProgramAt(chain, 0)
    <3>1. Head(chain) = chain[1] BY <2>2
    <3>2. init_SA_program(s) = [ops |-> Range(chain), executable |-> <<Head(chain)>>,
                                finished |-> {}]
      BY <2>2, Zenon DEF init_SA_program
    <3> QED BY <1>3, <3>1, <3>2
  <2>3. CASE s \in {0, 1}
    <3>1. ~enable_proj_ffns(s) /\ enable_qkv_gen(s)
      BY <2>3, StageNumbers DEF enable_proj_ffns, enable_qkv_gen
    <3>2. Chain(TRUE, SA, s) = QkvGen BY <2>3, StageNumbers DEF Chain
    <3> QED BY <1>0, <1>1, <2>1, <2>2, <3>1, <3>2
  <2>4. CASE s \in {2, 3}
    <3>1. enable_proj_ffns(s) /\ enable_qkv_gen(s)
      BY <2>4, StageNumbers DEF enable_proj_ffns, enable_qkv_gen
    <3>2. Chain(TRUE, SA, s) = ProjFfn \o QkvGen
      <4>1. s \in {C, D} /\ s \notin {A, B} BY <2>4, StageNumbers
      <4> QED BY <4>1, RowTSA2, RowTSA3, <2>4, Zenon DEF RowFacts
    <3> QED BY <1>2, <2>1, <2>2, <3>1, <3>2, Zenon
  <2>5. CASE s \in {4, 5}
    <3>1. enable_proj_ffns(s) /\ ~enable_qkv_gen(s)
      BY <2>5, StageNumbers DEF enable_proj_ffns, enable_qkv_gen
    <3>2. Chain(TRUE, SA, s) = ProjFfn BY <2>5, StageNumbers DEF Chain
    <3> QED BY <1>0, <1>1, <2>1, <2>2, <3>1, <3>2
  <2>6. s \in {0, 1} \/ s \in {2, 3} \/ s \in {4, 5} BY <1>5
  <2> QED BY <2>3, <2>4, <2>5, <2>6, Zenon
<1>7. ASSUME p = PIM, reqs # <<>>
      PROVE  init_program(p, s, reqs) = IF s \in {0, 5} THEN EmptyProgram ELSE ProgramAt(Mha, 0)
  BY <1>0, <1>3, <1>4, <1>7, StageNumbers
     DEF init_program, init_PIM_program, skip_pim_stage
<1>8. ASSUME reqs = <<>> PROVE init_program(p, s, reqs) = EmptyProgram
  BY <1>8 DEF init_program
<1>9. CASE m
  <2>1. reqs # <<>> BY <1>9, BothServed, StageNumbers DEF Platforms
  <2>2. CASE p = SA
    <3>1. Chain(TRUE, SA, s) # <<>>
      <4>1. Chain(TRUE, SA, s) \in {QkvGen, ProjFfn, ProjFfn \o QkvGen}
        <5>1. s = 0 \/ s = 1 \/ s = 2 \/ s = 3 \/ s = 4 \/ s = 5 BY <1>5
        <5> QED BY <5>1, RowTSA0, RowTSA1, RowTSA2, RowTSA3, RowTSA4, RowTSA5, Zenon DEF RowFacts
      <4> QED BY <4>1, <1>0, <1>2, Zenon
    <3>2. m = TRUE BY <1>9
    <3> QED BY <1>6, <2>1, <2>2, <3>1, <3>2, Zenon
  <2>3. CASE p = PIM
    <3>1. Chain(m, PIM, s) = IF s \in {0, 5} THEN <<>> ELSE Mha
      BY <1>4, <1>5, <1>9, StageNumbers DEF Chain
    <3> QED BY <1>0, <1>7, <2>1, <2>3, <3>1
  <2> QED BY <2>2, <2>3 DEF Platforms
<1>10. CASE ~m
  <2>1. s = 0 \/ s = 1 \/ s = 4 BY <1>10, StageNumbers DEF Reached
  <2>2. reqs # <<>> <=> (p = SA) = (s # 1)
    BY <1>4, <1>10, <2>1, PlatformParity DEF Platforms
  <2>3. CASE reqs = <<>>
    <3>1. Chain(m, p, s) = <<>>
      BY <1>4, <1>10, <2>1, <2>2, <2>3, StageNumbers DEF Chain, Platforms
    <3> QED BY <1>8, <2>3, <3>1
  <2>4. CASE reqs # <<>> /\ p = SA
    <3>1. s = 0 \/ s = 4 BY <2>1, <2>2, <2>4
    <3>2. Chain(m, p, s) = IF s = 0 THEN QkvGen ELSE ProjFfn
      BY <1>4, <1>10, <2>4, <3>1, StageNumbers DEF Chain
    <3>3. Chain(TRUE, SA, s) = IF s = 0 THEN QkvGen ELSE ProjFfn
      BY <3>1, StageNumbers DEF Chain
    <3>4. Chain(m, p, s) # <<>> /\ Chain(m, p, s) = Chain(TRUE, SA, s)
      <4>1. CASE s = 0 BY <1>0, <3>2, <3>3, <4>1, Zenon
      <4>2. CASE s # 0 BY <1>0, <3>2, <3>3, <4>2, Zenon
      <4> QED BY <4>1, <4>2, Zenon
    <3> QED BY <1>6, <2>4, <3>4, Zenon
  <2>5. CASE reqs # <<>> /\ p = PIM
    <3>1. s = 1 BY <1>4, <2>1, <2>2, <2>5
    <3>2. Chain(m, p, s) = Mha BY <1>4, <1>10, <2>5, <3>1, StageNumbers DEF Chain
    <3> QED BY <1>0, <1>7, <2>5, <3>1, <3>2
  <2> QED BY <2>3, <2>4, <2>5 DEF Platforms
<1> QED BY <1>9, <1>10

-----------------------------------------------------------------------------
(* Counting tiles                                                           *)

LEMMA CountReport ==
  ASSUME NEW f, NEW T, Counts(f, T), NEW t \in T, NEW op, op = t.operation_id, f[op] # 1
  PROVE  /\ Counts([f EXCEPT ![op] = @ - 1], T \ {t})
         /\ DOMAIN [f EXCEPT ![op] = @ - 1] = DOMAIN f
<1> DEFINE g == [f EXCEPT ![op] = @ - 1]
           U == T \ {t}
<1>1. op \in DOMAIN f /\ f[op] \in Nat \ {0} /\ f[op] = Cardinality(Of(T, op))
  BY DEF Counts
<1>2. DOMAIN g = DOMAIN f /\ g[op] = f[op] - 1 /\ \A x \in DOMAIN f : x # op => g[x] = f[x]
  BY <1>1
<1>3. IsFiniteSet(T) /\ IsFiniteSet(U) BY FS_RemoveElement DEF Counts
<1>4. Of(U, op) = Of(T, op) \ {t} /\ t \in Of(T, op) BY DEF Of
<1>5. IsFiniteSet(Of(T, op)) BY <1>3, FS_Subset DEF Of
<1>6. Cardinality(Of(U, op)) = Cardinality(Of(T, op)) - 1 BY <1>4, <1>5, FS_RemoveElement
<1>7. \A x \in DOMAIN f : x # op => Of(U, x) = Of(T, x) BY DEF Of
<1>8. \A x \in DOMAIN f : f[x] \in Nat \ {0} /\ f[x] = Cardinality(Of(T, x)) BY DEF Counts
<1>9. \A u \in U : u.operation_id \in DOMAIN f /\ u.stage_platform = u.operation_id[2]
  BY DEF Counts
<1> HIDE DEF g, U
<1>10. \A x \in DOMAIN g : g[x] \in Nat \ {0} /\ g[x] = Cardinality(Of(U, x))
  BY <1>1, <1>2, <1>6, <1>7, <1>8
<1>11. Counts(g, U) BY <1>2, <1>3, <1>9, <1>10 DEF Counts
<1> QED BY <1>2, <1>11 DEF g, U

LEMMA CountLast ==
  ASSUME NEW f, NEW T, Counts(f, T), NEW t \in T, NEW op, op = t.operation_id, f[op] = 1
  PROVE  /\ Of(T, op) = {t}
         /\ Counts(Restrict(f, DOMAIN f \ {op}), T \ {t})
         /\ DOMAIN Restrict(f, DOMAIN f \ {op}) = DOMAIN f \ {op}
<1> DEFINE g == Restrict(f, DOMAIN f \ {op})
           U == T \ {t}
<1>1. op \in DOMAIN f /\ Cardinality(Of(T, op)) = 1 BY DEF Counts
<1>2. DOMAIN g = DOMAIN f \ {op} /\ \A x \in DOMAIN f : x # op => g[x] = f[x]
  BY DEF Restrict
<1>3. IsFiniteSet(T) /\ IsFiniteSet(U) BY FS_RemoveElement DEF Counts
<1>4. t \in Of(T, op) BY DEF Of
<1>5. IsFiniteSet(Of(T, op)) BY <1>3, FS_Subset DEF Of
<1>6. Of(T, op) = {t}
  <2>1. \E x : Of(T, op) = {x} BY <1>1, <1>5, FS_Singleton
  <2> QED BY <1>4, <2>1
<1>7. \A x \in DOMAIN f : x # op => Of(U, x) = Of(T, x) BY DEF Of
<1>8. \A x \in DOMAIN f : f[x] \in Nat \ {0} /\ f[x] = Cardinality(Of(T, x)) BY DEF Counts
<1>9. \A u \in U : /\ u.operation_id \in DOMAIN f \ {op}
                   /\ u.stage_platform = u.operation_id[2]
  <2> SUFFICES ASSUME NEW u \in U
               PROVE  /\ u.operation_id \in DOMAIN f \ {op}
                      /\ u.stage_platform = u.operation_id[2]
    OBVIOUS
  <2>1. u.operation_id # op BY <1>6 DEF Of
  <2> QED BY <2>1 DEF Counts
<1> HIDE DEF g, U
<1>10. \A x \in DOMAIN g : g[x] \in Nat \ {0} /\ g[x] = Cardinality(Of(U, x))
  BY <1>2, <1>7, <1>8
<1>11. Counts(g, U) BY <1>2, <1>3, <1>9, <1>10 DEF Counts
<1> QED BY <1>2, <1>6, <1>11 DEF g, U

LEMMA NewTiles ==
  ASSUME NEW op, NEW p, NEW n \in Nat
  PROVE  LET q == TilesOf(op, p, n)
         IN  /\ IsFiniteSet(Range(q)) /\ Cardinality(Range(q)) = n
             /\ IsInjective(q) /\ Len(q) = n /\ DOMAIN q = 1..n
             /\ \A i \in 1..n : /\ q[i] = [operation_id |-> op, idx |-> i, stage_platform |-> p]
                                /\ q[i].operation_id = op /\ q[i].stage_platform = p
             /\ \A t \in Range(q) : t.operation_id = op /\ t.stage_platform = p
<1> DEFINE q == TilesOf(op, p, n)
<1>1. /\ DOMAIN q = 1..n
      /\ \A i \in 1..n : q[i] = [operation_id |-> op, idx |-> i, stage_platform |-> p]
      /\ q = [i \in 1..n |-> [operation_id |-> op, idx |-> i, stage_platform |-> p]]
  BY DEF TilesOf
<1>2. Len(q) = n BY <1>1
<1> HIDE DEF q
<1>3. \A i \in 1..n : q[i].operation_id = op /\ q[i].stage_platform = p /\ q[i].idx = i BY <1>1
<1>4. IsInjective(q) BY <1>1, <1>3 DEF IsInjective
<1>5. \A t \in Range(q) : t.operation_id = op /\ t.stage_platform = p BY <1>1, <1>3 DEF Range
<1>6. IsFiniteSet(1..n) /\ Cardinality(1..n) = n BY FS_Interval
<1>7. q \in Bijection(1..n, Range(q))
  <2>1. q \in [1..n -> Range(q)]
    <3>1. q = [i \in 1..n |-> q[i]] BY <1>1
    <3>2. \A i \in 1..n : q[i] \in Range(q) BY <1>1 DEF Range
    <3> QED BY <3>1, <3>2
  <2>2. \A y \in Range(q) : \E i \in 1..n : q[i] = y BY <1>1 DEF Range
  <2>3. q \in Injection(1..n, Range(q)) BY <1>4, <2>1 DEF Injection
  <2>4. q \in Surjection(1..n, Range(q)) BY <2>1, <2>2 DEF Surjection
  <2> QED BY <2>3, <2>4 DEF Bijection
<1>8. IsFiniteSet(Range(q)) /\ Cardinality(Range(q)) = n
  <2>1. ExistsBijection(1..n, Range(q)) BY <1>7 DEF ExistsBijection
  <2> QED BY <1>6, <2>1, FS_Bijection
<1> QED BY <1>1, <1>2, <1>3, <1>4, <1>5, <1>8 DEF q

LEMMA CountLaunch ==
  ASSUME NEW f, NEW T, Counts(f, T), NEW op, NEW p, op[2] = p, NEW n \in Nat \ {0},
         op \notin DOMAIN f
  PROVE  /\ Counts(WithEntry(f, op, n), T \cup Range(TilesOf(op, p, n)))
         /\ DOMAIN WithEntry(f, op, n) = DOMAIN f \cup {op}
<1> DEFINE N == Range(TilesOf(op, p, n))
           g == WithEntry(f, op, n)
           U == T \cup N
<1>1. IsFiniteSet(N) /\ Cardinality(N) = n /\ \A t \in N : t.operation_id = op /\ t.stage_platform = p
  BY NewTiles
<1> HIDE DEF N
<1>2. /\ DOMAIN g = DOMAIN f \cup {op} /\ g[op] = n
      /\ \A y \in DOMAIN f : y # op => g[y] = f[y]
  BY DEF WithEntry
<1>3. IsFiniteSet(U) BY <1>1, FS_Union DEF Counts
<1>4. \A t \in T : t.operation_id # op BY DEF Counts
<1>5. Of(U, op) = N BY <1>1, <1>4 DEF Of
<1>6. \A y \in DOMAIN f : Of(U, y) = Of(T, y) BY <1>1 DEF Of
<1>7. \A y \in DOMAIN f : f[y] \in Nat \ {0} /\ f[y] = Cardinality(Of(T, y)) BY DEF Counts
<1>8. \A u \in U : u.operation_id \in DOMAIN g /\ u.stage_platform = u.operation_id[2]
  BY <1>1, <1>2 DEF Counts
<1> HIDE DEF g, U
<1>10. \A y \in DOMAIN g : g[y] \in Nat \ {0} /\ g[y] = Cardinality(Of(U, y))
  BY <1>1, <1>2, <1>5, <1>6, <1>7
<1>11. Counts(g, U) BY <1>3, <1>8, <1>10 DEF Counts
<1> QED BY <1>2, <1>11 DEF g, U, N

-----------------------------------------------------------------------------
(* A run, its programs and its tiles                                        *)

LEMMA PlatformsAre ==
  /\ SA \in Platforms /\ PIM \in Platforms /\ SA # PIM
  /\ \A p \in Platforms : p = SA \/ p = PIM
BY DEF Platforms, SA, PIM

\* A program that is there is at its place in the chain.
AtPlace(m, p, r, w, chain, k) ==
  /\ chain = Chain(m, p, r.stage) /\ k = Position(m, p, r.stage, w)
  /\ chain \in Chains /\ k \in 0..(Len(chain) - 1)
  /\ r.program[p] = ProgramAt(chain, k)
  /\ Head(r.program[p].executable) = chain[k + 1] /\ chain[k + 1] \in OpKinds
  /\ <<r.stage, p, chain[k + 1]>> \in Current(r)

LEMMA Working ==
  ASSUME NEW m, NEW r, NEW w, NEW done, NEW held, RunInv(m, r, w, done, held),
         NEW p \in Platforms, r.program[p] # NoProgram
  PROVE  /\ \E chain, k : AtPlace(m, p, r, w, chain, k)
         /\ r.stage # Finish /\ r.stage \in Stages
         /\ \A q \in Platforms : AtWork(m, q, r, w) \/ Done(m, q, r, w)
<1> SUFFICES ASSUME NEW chain, chain = Chain(m, p, r.stage), NEW k, k = Position(m, p, r.stage, w)
             PROVE  /\ AtPlace(m, p, r, w, chain, k)
                    /\ r.stage # Finish /\ r.stage \in Stages
                    /\ \A q \in Platforms : AtWork(m, q, r, w) \/ Done(m, q, r, w)
  OBVIOUS
<1>1. m \in BOOLEAN /\ r.stage \in Reached(m) /\ ProgramsInv(m, r, w) BY DEF RunInv
<1>2. ~NotBegun(m, r, w) BY DEF NotBegun
<1>3. \A q \in Platforms : AtWork(m, q, r, w) \/ Done(m, q, r, w)
  BY <1>1, <1>2 DEF ProgramsInv
<1>4. AtWork(m, p, r, w) BY <1>3 DEF Done
<1>5. k \in 0..(Len(chain) - 1) /\ r.program[p] = ProgramAt(chain, k)
  BY <1>4, Zenon DEF AtWork
<1>6. chain = <<>> \/ chain \in Chains BY <1>1, StagesHaveFacts, Zenon DEF StageFacts
<1>7. chain # <<>> BY <1>5
<1>8. chain \in Chains BY <1>6, <1>7
<1>9. chain \in Seq(OpKinds) BY <1>8, ChainFacts
<1>10. chain[k + 1] \in OpKinds BY <1>5, <1>9
<1>11. r.program[p].executable = <<chain[k + 1]>> BY <1>5, <1>8, ChainStep
<1>12. Head(r.program[p].executable) = chain[k + 1] BY <1>11
<1>13. r.stage \in Stages BY <1>1, StageNumbers
<1>14. r.stage # Finish
  <2> SUFFICES ASSUME r.stage = Finish PROVE FALSE OBVIOUS
  <2>1. r.stage = 6 BY StageNumbers
  <2>2. chain = <<>>
    BY <1>1, <2>1, RowTSA6, RowTPIM6, RowFSA6, RowFPIM6, PlatformsAre, Zenon DEF RowFacts
  <2> QED BY <1>7, <2>2
<1>15. <<r.stage, p, chain[k + 1]>> \in Current(r) BY <1>12 DEF Current, OpId
<1> QED BY <1>3, <1>5, <1>8, <1>10, <1>12, <1>13, <1>14, <1>15 DEF AtPlace

\* A tile belongs to the current operation of its platform, which has not finished.
LEMMA TileOwner ==
  ASSUME NEW m, NEW r, NEW w, NEW done, NEW held, RunInv(m, r, w, done, held),
         NEW t \in Queued(r) \cup held, NEW p, p = t.stage_platform, NEW op, op = t.operation_id
  PROVE  /\ p \in Platforms /\ r.program[p] # NoProgram
         /\ op = <<r.stage, p, Head(r.program[p].executable)>>
         /\ op \in DOMAIN r.active /\ op \notin done
         /\ op[1] = r.stage /\ op[2] = p /\ op[3] = Head(r.program[p].executable)
<1>1. op \in DOMAIN r.active /\ p = op[2] /\ DOMAIN r.active = Current(r)
  BY DEF RunInv, CountInv, Counts
<1>2. PICK q \in Platforms : r.program[q] # NoProgram
                             /\ op = <<r.stage, q, Head(r.program[q].executable)>>
  BY <1>1 DEF Current, OpId
<1>3. op[1] = r.stage /\ op[2] = q /\ op[3] = Head(r.program[q].executable) BY <1>2
<1>4. p = q BY <1>1, <1>3
<1>5. op \notin done
  <2> SUFFICES ASSUME op \in done PROVE FALSE OBVIOUS
  <2>1. op[3] \in r.program[p].finished BY <1>2, <1>3, <1>4 DEF RunInv, FinishedInv
  <2>2. p \in Platforms /\ r.program[p] # NoProgram BY <1>2, <1>4
  <2>3. PICK chain, k : AtPlace(m, p, r, w, chain, k) BY <2>2, Working
  <2>4. chain[k + 1] \notin ProgramAt(chain, k).finished BY <2>3, ChainStep DEF AtPlace
  <2> QED BY <1>3, <1>4, <2>1, <2>3, <2>4 DEF AtPlace
<1> QED BY <1>1, <1>2, <1>3, <1>4, <1>5

\* What the invariant says of the programs depends on the programs and the stage only.
LEMMA SamePrograms ==
  ASSUME NEW m, NEW r, NEW x, NEW w, NEW done,
         x.stage = r.stage, \A p \in Platforms : x.program[p] = r.program[p]
  PROVE  /\ ProgramsInv(m, r, w) => ProgramsInv(m, x, w)
         /\ Current(x) = Current(r)
         /\ FinishedInv(r, done) => FinishedInv(x, done)
<1>1. ProgramsInv(m, r, w) => ProgramsInv(m, x, w)
  BY Zenon DEF ProgramsInv, NotBegun, AtWork, Done
<1>2. Current(x) = Current(r)
  <2>1. {q \in Platforms : x.program[q] # NoProgram} = {q \in Platforms : r.program[q] # NoProgram}
    OBVIOUS
  <2> QED BY <2>1 DEF Current
<1>3. FinishedInv(r, done) => FinishedInv(x, done)
  <2> SUFFICES ASSUME FinishedInv(r, done), NEW op \in done
               PROVE  /\ op \in OpIds /\ op[1] <= x.stage
                      /\ op[1] = x.stage => /\ \E p \in Platforms : x.program[p] # NoProgram
                                            /\ x.program[op[2]] # NoProgram
                                                 => op[3] \in x.program[op[2]].finished
    BY DEF FinishedInv
  <2>1. op \in OpIds /\ op[1] <= r.stage
        /\ (op[1] = r.stage => /\ \E p \in Platforms : r.program[p] # NoProgram
                               /\ r.program[op[2]] # NoProgram
                                    => op[3] \in r.program[op[2]].finished)
    BY DEF FinishedInv
  <2>2. op[2] \in Platforms BY <2>1 DEF OpIds
  <2> QED BY <2>1, <2>2
<1> QED BY <1>1, <1>2, <1>3

\* finish_tile, on a run.
Reported(r, t) ==
  LET op == t.operation_id
      p  == t.stage_platform
      last == r.active[op] = 1
  IN  [r EXCEPT !.program[p] = IF last THEN finish_operation(r.program[p], op[3])
                               ELSE r.program[p],
                !.active = IF last THEN Restrict(r.active, DOMAIN r.active \ {op})
                           ELSE [r.active EXCEPT ![op] = @ - 1]]
Report(r, t, n) == refresh_status(t.stage_platform, n, Reported(r, t))

LEMMA FinishReports ==
  ASSUME NEW t, NEW n
  PROVE  finish_tile(t, n) = Report(Run, t, n)
<1>1. Run.active = active_operation_stats /\ Run.program = model_program BY DEF Run
<1> QED BY <1>1, Zenon DEF finish_tile, Report, Reported, last_tile, ProgramAfter, ActiveAfter

\* x is r with other programs, queues and active operations.
SameStage(x, r) ==
  x.stage = r.stage /\ x.prev = r.prev /\ x.changed = r.changed /\ x.log = r.log

ReportedIs(x, r, p, op) ==
  /\ RunShape(x) /\ SameStage(x, r) /\ x.queue = r.queue
  /\ x.program[p] = IF r.active[op] = 1 THEN finish_operation(r.program[p], op[3])
                    ELSE r.program[p]
  /\ \A q \in Platforms : q # p => x.program[q] = r.program[q]
  /\ x.active = IF r.active[op] = 1 THEN Restrict(r.active, DOMAIN r.active \ {op})
                ELSE [r.active EXCEPT ![op] = @ - 1]

LEMMA ReportedFields ==
  ASSUME NEW r, RunShape(r), NEW t, t.stage_platform \in Platforms
  PROVE  ReportedIs(Reported(r, t), r, t.stage_platform, t.operation_id)
<1> DEFINE p == t.stage_platform
           op == t.operation_id
           last == r.active[op] = 1
           P == IF last THEN finish_operation(r.program[p], op[3]) ELSE r.program[p]
           Q == IF last THEN Restrict(r.active, DOMAIN r.active \ {op})
                ELSE [r.active EXCEPT ![op] = @ - 1]
<1>1. Reported(r, t) = [r EXCEPT !.program[p] = P, !.active = Q]
  BY Zenon DEF Reported
<1>2. p \in Platforms OBVIOUS
<1> HIDE DEF P, Q, p
<1>3. LET x == Reported(r, t)
      IN  /\ RunShape(x) /\ SameStage(x, r) /\ x.queue = r.queue
          /\ x.program[p] = P /\ \A q \in Platforms : q # p => x.program[q] = r.program[q]
          /\ x.active = Q
  BY <1>1, <1>2 DEF RunShape, SameStage
<1> QED BY <1>3, Zenon DEF P, Q, p, ReportedIs

\* The second half of refresh_status finds nothing to do.
LEMMA RefreshBusy ==
  ASSUME NEW r, NEW p, NEW n, r.program[p] # NoProgram, ~check_finish(r.program[p]),
         \/ r.queue[p] # <<>>
         \/ <<r.stage, p, Head(r.program[p].executable)>> \in DOMAIN r.active
  PROVE  refresh_status(p, n, r) = r
BY DEF refresh_status, start_operation, OpId

\* x is r after operation op has been launched on platform p with n tiles.
Launched(x, r, p, op, n) ==
  /\ x.queue[p] = TilesOf(op, p, n)
  /\ \A q \in Platforms : q # p => x.queue[q] = r.queue[q]
  /\ x.active = WithEntry(r.active, op, n)

LEMMA RefreshLaunch ==
  ASSUME NEW r, RunShape(r), NEW p \in Platforms, NEW n, r.program[p] # NoProgram,
         ~check_finish(r.program[p]), r.queue[p] = <<>>,
         NEW y, r.program[p].executable = <<y>>, NEW op, op = <<r.stage, p, y>>,
         op \notin DOMAIN r.active
  PROVE  LET x == refresh_status(p, n, r)
         IN  /\ RunShape(x) /\ SameStage(x, r)
             /\ x.program = r.program
             /\ Launched(x, r, p, op, n)
<1>1. r.program[p].executable # <<>> /\ Head(r.program[p].executable) = y OBVIOUS
<1>2. refresh_status(p, n, r) =
        [r EXCEPT !.queue[p] = TilesOf(op, p, n), !.active = WithEntry(@, op, n)]
  BY <1>1 DEF refresh_status, start_operation, OpId
<1> QED BY <1>2 DEF RunShape, SameStage, Launched

\* x is r after the program of platform p has ended, and the stage if it was the last.
Ended(x, r, p) ==
  /\ RunShape(x)
  /\ x.program[p] = NoProgram
  /\ \A q \in Platforms : q # p => x.program[q] = r.program[q]
  /\ x.queue = r.queue /\ x.active = r.active
  /\ IF \A q \in Platforms : q # p => r.program[q] = NoProgram
     THEN x.stage = next_stage(r.stage) /\ x.prev = r.stage /\ x.changed = TRUE
     ELSE SameStage(x, r)

LEMMA RefreshEnd ==
  ASSUME NEW r, RunShape(r), NEW p \in Platforms, NEW n, r.program[p] # NoProgram,
         check_finish(r.program[p])
  PROVE  Ended(refresh_status(p, n, r), r, p)
<1> DEFINE z == [r EXCEPT !.program[p] = NoProgram]
           x == refresh_stage(z)
<1>1. /\ RunShape(z) /\ SameStage(z, r) /\ z.queue = r.queue /\ z.active = r.active
      /\ z.program[p] = NoProgram
      /\ \A q \in Platforms : q # p => z.program[q] = r.program[q]
  BY DEF RunShape, SameStage
<1> HIDE DEF z
<1>2. CASE \A q \in Platforms : z.program[q] = NoProgram
  <2>1. x = [z EXCEPT !.log = Append(@, z.stage), !.prev = z.stage,
                      !.stage = next_stage(@), !.changed = TRUE]
    BY <1>2 DEF refresh_stage
  <2>2. /\ RunShape(x) /\ x.program = z.program /\ x.queue = z.queue /\ x.active = z.active
        /\ x.stage = next_stage(z.stage) /\ x.prev = z.stage /\ x.changed = TRUE
    BY <1>1, <2>1 DEF RunShape
  <2>3. x.program[p] = NoProgram BY <1>1, <2>2
  <2>4. refresh_status(p, n, r) = x
    <3>1. finish_program(p, r) = x BY DEF finish_program, z
    <3> HIDE DEF x
    <3> QED BY <2>3, <3>1 DEF refresh_status
  <2>5. \A q \in Platforms : q # p => r.program[q] = NoProgram BY <1>1, <1>2
  <2> HIDE DEF x
  <2> QED BY <1>1, <2>2, <2>3, <2>4, <2>5 DEF SameStage, Ended
<1>3. CASE ~ \A q \in Platforms : z.program[q] = NoProgram
  <2>1. x = z BY <1>3 DEF refresh_stage
  <2>2. refresh_status(p, n, r) = z
    <3>1. finish_program(p, r) = z BY <2>1 DEF finish_program, z
    <3> QED BY <1>1, <3>1 DEF refresh_status
  <2>3. ~ \A q \in Platforms : q # p => r.program[q] = NoProgram BY <1>1, <1>3
  <2> QED BY <1>1, <2>2, <2>3 DEF Ended
<1> QED BY <1>2, <1>3

LEMMA ReportCounts ==
  ASSUME NEW r, NEW held, QueueInv(r, held), NEW t \in held
  PROVE  /\ t \notin Queued(r)
         /\ (Queued(r) \cup held) \ {t} = Queued(r) \cup (held \ {t})
         /\ QueueInv(r, held \ {t})
<1>1. t \notin Queued(r) BY PlatformsAre DEF QueueInv, Queued, Range
<1>2. QueueInv(r, held \ {t}) BY DEF QueueInv
<1> QED BY <1>1, <1>2

\* The report of a tile that is not the last one of its operation.
LEMMA ReportOther ==
  ASSUME NEW m, NEW r, NEW w, NEW done, NEW held, RunInv(m, r, w, done, held),
         NEW t \in held, NEW n, r.active[t.operation_id] # 1
  PROVE  LET x == Report(r, t, n)
         IN  /\ RunInv(m, x, w, done, held \ {t})
             /\ SameStage(x, r) /\ \A p \in Platforms : x.program[p] = r.program[p]
<1> DEFINE op == t.operation_id
           p  == t.stage_platform
           x  == Reported(r, t)
           T  == Queued(r) \cup held
<1>0. t \in Queued(r) \cup held OBVIOUS
<1>1. /\ p \in Platforms /\ r.program[p] # NoProgram /\ op \in DOMAIN r.active
      /\ op = <<r.stage, p, Head(r.program[p].executable)>>
  BY <1>0, TileOwner
<1>2. RunShape(r) /\ QueueInv(r, held) /\ CountInv(r, T) BY DEF RunInv
<1>3. /\ RunShape(x) /\ SameStage(x, r) /\ x.queue = r.queue
      /\ \A q \in Platforms : x.program[q] = r.program[q]
      /\ x.active = [r.active EXCEPT ![op] = @ - 1]
  <2>1. ReportedIs(x, r, p, op) BY <1>1, <1>2, ReportedFields
  <2>2. r.active[op] # 1 OBVIOUS
  <2> HIDE DEF x, op, p
  <2> QED BY <2>1, <2>2 DEF ReportedIs
<1>4. Counts(x.active, T \ {t}) /\ DOMAIN x.active = DOMAIN r.active
  <2>1. Counts(r.active, T) BY <1>2 DEF CountInv
  <2>2. r.active[op] # 1 /\ t \in T OBVIOUS
  <2> HIDE DEF x, T, op
  <2> QED BY <1>3, <2>1, <2>2, CountReport DEF op
<1>5. Report(r, t, n) = x
  <2>1. PICK chain, k : AtPlace(m, p, r, w, chain, k) BY <1>1, Working
  <2>2. ~check_finish(r.program[p]) BY <2>1, ChainStep DEF AtPlace
  <2>3. ~check_finish(x.program[p]) /\ x.program[p] # NoProgram BY <1>1, <1>3, <2>2
  <2>4. <<x.stage, p, Head(x.program[p].executable)>> \in DOMAIN x.active
    <3>1. x.stage = r.stage /\ x.program[p] = r.program[p] BY <1>1, <1>3 DEF SameStage
    <3> HIDE DEF x
    <3> QED BY <1>1, <1>4, <3>1
  <2> HIDE DEF x, p
  <2>5. refresh_status(p, n, x) = x BY <2>3, <2>4, RefreshBusy
  <2> QED BY <2>5 DEF Report, x, p
<1> HIDE DEF x
<1>6. RunInv(m, x, w, done, held \ {t})
  <2>1. x.stage = r.stage BY <1>3 DEF SameStage
  <2>2. ProgramsInv(m, x, w) /\ Current(x) = Current(r) /\ FinishedInv(x, done)
    <3>1. ProgramsInv(m, r, w) /\ FinishedInv(r, done) BY DEF RunInv
    <3> QED BY <1>3, <2>1, <3>1, SamePrograms
  <2>3. Queued(x) = Queued(r) BY <1>3 DEF Queued
  <2>4. CountInv(x, Queued(x) \cup (held \ {t}))
    <3>1. (Queued(r) \cup held) \ {t} = Queued(r) \cup (held \ {t})
      BY <1>2, ReportCounts, Zenon
    <3>2. T \ {t} = Queued(x) \cup (held \ {t}) BY <2>3, <3>1, Zenon
    <3> HIDE DEF T
    <3> QED BY <1>2, <1>4, <2>2, <3>2 DEF CountInv
  <2>5. QueueInv(x, held \ {t})
    <3>1. QueueInv(r, held \ {t}) BY <1>2, ReportCounts
    <3> QED BY <1>3, <3>1 DEF QueueInv
  <2>6. m \in BOOLEAN /\ x.stage \in Reached(m) /\ WorkInv(m, w) BY <2>1 DEF RunInv
  <2> QED BY <1>3, <2>2, <2>4, <2>5, <2>6 DEF RunInv
<1> QED BY <1>3, <1>5, <1>6 DEF x

\* Where the platforms are when the sub-batch of platform p has done one more
\* operation of its chain.
Moves(m, p, s, w, w2) ==
  /\ WorkInv(m, w2) /\ Position(m, p, s, w2) = Position(m, p, s, w) + 1
  /\ \A q \in Platforms : q # p => Position(m, q, s, w2) = Position(m, q, s, w)

LEMMA PositionMoves ==
  ASSUME NEW m \in BOOLEAN, NEW s \in Reached(m), NEW w, WorkInv(m, w), NEW p \in Platforms,
         NEW k, k = Position(m, p, s, w), k \in 0..(Len(Chain(m, p, s)) - 1),
         NEW y \in OpKinds, y = Chain(m, p, s)[k + 1]
  PROVE  Moves(m, p, s, w, [w EXCEPT ![sub_batch_on(p, s)] = Append(@, y)])
<1> SUFFICES ASSUME NEW b, b = sub_batch_on(p, s), NEW base, base = Base(m, b, s),
                    NEW chain, chain = Chain(m, p, s),
                    NEW w2, w2 = [w EXCEPT ![sub_batch_on(p, s)] = Append(@, y)]
             PROVE  Moves(m, p, s, w, w2)
  OBVIOUS
<1>1. /\ b \in 1..2 /\ base \in Nat /\ base + k + 1 <= Len(Layers(m, b))
      /\ Layers(m, b)[base + k + 1] = y
  BY StagesHaveFacts, Zenon DEF StageFacts
<1>2. w \in [1..2 -> Seq(OpKinds)] /\ Len(w[b]) = base + k
  <2>1. w \in [1..2 -> Seq(OpKinds)] BY DEF WorkInv
  <2>2. k = Len(w[b]) - base BY DEF Position
  <2> QED BY <1>1, <2>1, <2>2
<1>3. w2 = [w EXCEPT ![b] = Append(@, y)] OBVIOUS
<1>4. /\ w2 \in [1..2 -> Seq(OpKinds)] /\ w2[b] = Append(w[b], y)
      /\ \A c \in 1..2 : c # b => w2[c] = w[c]
  <2>1. Append(w[b], y) \in Seq(OpKinds) BY <1>1, <1>2
  <2> DEFINE v == Append(w[b], y)
  <2>2. w2 = [w EXCEPT ![b] = v] /\ v \in Seq(OpKinds) BY <1>3, <2>1
  <2> HIDE DEF v
  <2>3. w2 \in [1..2 -> Seq(OpKinds)] BY <1>2, <2>2
  <2>4. w2[b] = v /\ \A c \in 1..2 : c # b => w2[c] = w[c] BY <1>1, <1>2, <2>2
  <2> QED BY <2>3, <2>4 DEF v
<1>5. /\ Len(w2[b]) = base + k + 1 /\ w2[b][base + k + 1] = y
      /\ \A i \in 1..(base + k) : w2[b][i] = w[b][i]
  <2>1. w[b] \in Seq(OpKinds) BY <1>1, <1>2
  <2>2. /\ Len(Append(w[b], y)) = Len(w[b]) + 1 /\ Append(w[b], y)[Len(w[b]) + 1] = y
        /\ \A i \in 1..Len(w[b]) : Append(w[b], y)[i] = w[b][i]
    BY <2>1
  <2> QED BY <1>1, <1>2, <1>4, <2>2
<1>6. WorkInv(m, w2)
  <2> SUFFICES ASSUME NEW c \in 1..2
               PROVE  /\ Len(w2[c]) <= Len(Layers(m, c))
                      /\ \A i \in 1..Len(w2[c]) : w2[c][i] = Layers(m, c)[i]
    BY <1>4 DEF WorkInv
  <2>1. /\ Len(w[c]) <= Len(Layers(m, c))
        /\ \A i \in 1..Len(w[c]) : w[c][i] = Layers(m, c)[i]
    BY DEF WorkInv
  <2>2. CASE c # b BY <1>4, <2>1, <2>2
  <2>3. CASE c = b
    <3>1. \A i \in 1..(base + k) : w2[b][i] = Layers(m, b)[i] BY <1>2, <1>5, <2>1, <2>3
    <3>2. \A i \in 1..(base + k + 1) : i \in 1..(base + k) \/ i = base + k + 1 BY <1>1
    <3>3. \A i \in 1..(base + k + 1) : w2[b][i] = Layers(m, b)[i] BY <1>1, <1>5, <3>1, <3>2
    <3> QED BY <1>1, <1>5, <2>3, <3>3
  <2> QED BY <2>2, <2>3
<1>7. Position(m, p, s, w2) = k + 1 BY <1>1, <1>5 DEF Position
<1>8. ASSUME NEW q \in Platforms, q # p PROVE Position(m, q, s, w2) = Position(m, q, s, w)
  <2>1. sub_batch_on(q, s) \in 1..2 /\ sub_batch_on(q, s) # b
    BY <1>8, BothServed, StageNumbers, PlatformsAre
  <2> QED BY <1>4, <2>1 DEF Position
<1> QED BY <1>6, <1>7, <1>8 DEF Moves

\* The report of the last tile of an operation, up to refresh_status.
LastReport(m, r, w, held, x, p, op) ==
  /\ p \in Platforms /\ r.program[p] # NoProgram
  /\ RunShape(x) /\ SameStage(x, r) /\ x.queue = r.queue /\ x.queue[p] = <<>>
  /\ \A q \in Platforms : q # p => x.program[q] = r.program[q]
  /\ Counts(x.active, Queued(r) \cup held)
  /\ DOMAIN x.active = Current(r) \ {op}
  /\ \A o \in DOMAIN x.active : o[2] # p
  /\ \E chain, k : /\ AtPlace(m, p, r, w, chain, k)
                   /\ op = <<r.stage, p, chain[k + 1]>>
                   /\ op[1] = r.stage /\ op[2] = p /\ op[3] = chain[k + 1]
                   /\ x.program[p] = IF k + 1 = Len(chain) THEN EndOf(chain)
                                     ELSE ProgramAt(chain, k + 1)

LEMMA ReportLast ==
  ASSUME NEW m, NEW r, NEW w, NEW done, NEW held, RunInv(m, r, w, done, held),
         NEW t \in held, r.active[t.operation_id] = 1
  PROVE  LastReport(m, r, w, held \ {t}, Reported(r, t), t.stage_platform, t.operation_id)
<1> SUFFICES ASSUME NEW op, op = t.operation_id, NEW p, p = t.stage_platform, r.active[op] = 1
             PROVE  LastReport(m, r, w, held \ {t}, Reported(r, t), p, op)
  OBVIOUS
<1> DEFINE x == Reported(r, t)
           T == Queued(r) \cup held
<1>0. t \in Queued(r) \cup held OBVIOUS
<1>1. /\ p \in Platforms /\ r.program[p] # NoProgram /\ op \in DOMAIN r.active
      /\ op = <<r.stage, p, Head(r.program[p].executable)>>
      /\ op[1] = r.stage /\ op[2] = p /\ op[3] = Head(r.program[p].executable)
  BY <1>0, TileOwner
<1>2. RunShape(r) /\ QueueInv(r, held) /\ CountInv(r, T) BY DEF RunInv
<1>3. /\ RunShape(x) /\ SameStage(x, r) /\ x.queue = r.queue
      /\ x.program[p] = finish_operation(r.program[p], op[3])
      /\ \A q \in Platforms : q # p => x.program[q] = r.program[q]
      /\ x.active = Restrict(r.active, DOMAIN r.active \ {op})
  <2>1. ReportedIs(x, r, p, op) BY <1>1, <1>2, ReportedFields
  <2> HIDE DEF x
  <2> QED BY <2>1 DEF ReportedIs
<1> HIDE DEF x
<1>4. Counts(r.active, T) /\ DOMAIN r.active = Current(r) BY <1>2 DEF CountInv
<1>5. /\ Of(T, op) = {t} /\ Counts(x.active, T \ {t}) /\ DOMAIN x.active = Current(r) \ {op}
  <2>1. t \in T OBVIOUS
  <2> HIDE DEF T
  <2> QED BY <1>3, <1>4, <2>1, CountLast
<1>6. T \ {t} = Queued(r) \cup (held \ {t}) /\ t \notin Queued(r) BY <1>2, ReportCounts
<1>7. r.queue[p] = <<>>
  <2> SUFFICES ASSUME r.queue[p] # <<>> PROVE FALSE OBVIOUS
  <2>1. r.queue[p] \in Seq(TileType) BY <1>1, <1>2 DEF QueueInv
  <2>2. 1 \in DOMAIN r.queue[p] BY <2>1
  <2>3. PICK u : u = r.queue[p][1] OBVIOUS
  <2>4. u \in Queued(r) /\ u.stage_platform = p
    BY <1>1, <1>2, <2>2, <2>3, PlatformsAre DEF QueueInv, Queued, Range
  <2>5. u.operation_id = op
    <3>1. u \in Queued(r) \cup held BY <2>4
    <3> QED BY <1>1, <2>4, <3>1, TileOwner
  <2>6. u \in Of(T, op) BY <2>4, <2>5 DEF Of
  <2> QED BY <1>5, <1>6, <2>4, <2>6
<1>8. \A o \in DOMAIN x.active : o[2] # p
  <2> SUFFICES ASSUME NEW o \in Current(r), o # op, o[2] = p PROVE FALSE BY <1>5
  <2>1. PICK q \in Platforms : /\ r.program[q] # NoProgram
                               /\ o = <<r.stage, q, Head(r.program[q].executable)>>
    BY DEF Current, OpId
  <2>2. q = p BY <2>1
  <2> QED BY <1>1, <2>1, <2>2
<1>9. PICK chain, k : AtPlace(m, p, r, w, chain, k) BY <1>1, Working
<1>10. /\ Head(r.program[p].executable) = chain[k + 1]
       /\ x.program[p] = IF k + 1 = Len(chain) THEN EndOf(chain) ELSE ProgramAt(chain, k + 1)
  <2>1. /\ Head(r.program[p].executable) = chain[k + 1] /\ r.program[p] = ProgramAt(chain, k)
        /\ chain \in Chains /\ k \in 0..(Len(chain) - 1)
    BY <1>9 DEF AtPlace
  <2>2. finish_operation(ProgramAt(chain, k), chain[k + 1])
          = IF k + 1 = Len(chain) THEN EndOf(chain) ELSE ProgramAt(chain, k + 1)
    BY <2>1, ChainStep
  <2> QED BY <1>1, <1>3, <2>1, <2>2, Zenon
<1>11. \E c, i : /\ AtPlace(m, p, r, w, c, i)
                 /\ op = <<r.stage, p, c[i + 1]>>
                 /\ op[1] = r.stage /\ op[2] = p /\ op[3] = c[i + 1]
                 /\ x.program[p] = IF i + 1 = Len(c) THEN EndOf(c) ELSE ProgramAt(c, i + 1)
  BY <1>1, <1>9, <1>10, Zenon
<1> QED BY <1>1, <1>3, <1>5, <1>6, <1>7, <1>8, <1>11, Zenon DEF x, LastReport

LEMMA ProgramAtIs ==
  ASSUME NEW chain, NEW k
  PROVE  /\ ProgramAt(chain, k).finished = {chain[i] : i \in 1..k}
         /\ ProgramAt(chain, k).executable = <<chain[k + 1]>>
BY DEF ProgramAt

\* Launching an operation on platform p, whose queue is empty and which has no
\* active operation, keeps the counts right.
LEMMA LaunchCounts ==
  ASSUME NEW r, NEW held, NEW p \in Platforms, NEW op \in OpIds, op[2] = p,
         NEW n \in 1..MaxTiles, QueueInv(r, held), Counts(r.active, Queued(r) \cup held),
         r.queue[p] = <<>>, op \notin DOMAIN r.active,
         NEW x, Launched(x, r, p, op, n)
  PROVE  /\ QueueInv(x, held) /\ Counts(x.active, Queued(x) \cup held)
         /\ DOMAIN x.active = DOMAIN r.active \cup {op}
<1> DEFINE N == Range(TilesOf(op, p, n))
<1>0. n \in Nat \ {0} BY SchedulerAssumption
<1>0b. /\ x.queue[p] = TilesOf(op, p, n) /\ x.active = WithEntry(r.active, op, n)
       /\ \A q \in Platforms : q # p => x.queue[q] = r.queue[q]
  BY DEF Launched
<1>1. /\ Counts(x.active, (Queued(r) \cup held) \cup N)
      /\ DOMAIN x.active = DOMAIN r.active \cup {op}
  <2> DEFINE T == Queued(r) \cup held
  <2>1. Counts(r.active, T) OBVIOUS
  <2> HIDE DEF T
  <2>2. /\ Counts(WithEntry(r.active, op, n), T \cup Range(TilesOf(op, p, n)))
        /\ DOMAIN WithEntry(r.active, op, n) = DOMAIN r.active \cup {op}
    BY <1>0, <2>1, CountLaunch
  <2> QED BY <1>0b, <2>2, Zenon DEF T
<1>2. Queued(x) = Queued(r) \cup N
  <2>1. Range(r.queue[p]) = {} BY DEF Range
  <2>2. Range(x.queue[p]) = N BY <1>0b
  <2> HIDE DEF N
  <2>3. CASE p = SA BY <1>0b, <2>1, <2>2, <2>3, PlatformsAre DEF Queued
  <2>4. CASE p = PIM BY <1>0b, <2>1, <2>2, <2>4, PlatformsAre DEF Queued
  <2> QED BY <2>3, <2>4, PlatformsAre
<1>3. Counts(x.active, Queued(x) \cup held)
  <2>1. (Queued(r) \cup held) \cup N = Queued(x) \cup held BY <1>2
  <2> HIDE DEF N
  <2> QED BY <1>1, <2>1
<1>4. QueueInv(x, held)
  <2> SUFFICES ASSUME NEW q \in Platforms
               PROVE  /\ x.queue[q] \in Seq(TileType) /\ IsInjective(x.queue[q])
                      /\ \A i \in DOMAIN x.queue[q] :
                            x.queue[q][i].stage_platform = q /\ x.queue[q][i] \notin held
    BY DEF QueueInv
  <2>1. CASE q # p BY <1>0b, <2>1 DEF QueueInv
  <2>2. CASE q = p
    <3> DEFINE s == TilesOf(op, p, n)
    <3>1. /\ IsInjective(s) /\ Len(s) = n /\ DOMAIN s = 1..n
          /\ \A i \in 1..n : /\ s[i] = [operation_id |-> op, idx |-> i, stage_platform |-> p]
                             /\ s[i].operation_id = op /\ s[i].stage_platform = p
      BY <1>0, NewTiles
    <3>3. \A i \in 1..n : i \in 1..MaxTiles BY <1>0, SchedulerAssumption
    <3>4. s = [i \in 1..n |-> [operation_id |-> op, idx |-> i, stage_platform |-> p]]
      BY DEF TilesOf
    <3> HIDE DEF s
    <3>5. \A i \in 1..n : s[i] \in TileType BY <3>1, <3>3 DEF TileType
    <3>6. s \in Seq(TileType) BY <1>0, <3>1, <3>4, <3>5
    <3>7. \A u \in held : u.operation_id # op BY DEF Counts
    <3>8. \A i \in 1..n : s[i] \notin held BY <3>1, <3>7
    <3>9. x.queue[q] = s BY <1>0b, <2>2 DEF s
    <3> QED BY <2>2, <3>1, <3>6, <3>8, <3>9
  <2> QED BY <2>1, <2>2
<1> QED BY <1>1, <1>3, <1>4

\* The sub-batch of tile t has done one more operation.
WorkWith(r, w, t) ==
  [w EXCEPT ![sub_batch_on(t.stage_platform, r.stage)] = Append(@, t.operation_id[3])]

\* The last tile of an operation that is not the last one of its chain: the next
\* operation of the chain is launched.
LEMMA ReportNext ==
  ASSUME NEW m, NEW r, NEW w, NEW done, NEW held, RunInv(m, r, w, done, held),
         NEW t \in held, r.active[t.operation_id] = 1, NEW n \in 1..MaxTiles,
         NEW chain, NEW k, AtPlace(m, t.stage_platform, r, w, chain, k), k + 1 # Len(chain),
         t.operation_id[3] = chain[k + 1],
         Reported(r, t).program[t.stage_platform] = ProgramAt(chain, k + 1)
  PROVE  /\ RunInv(m, Report(r, t, n), WorkWith(r, w, t), done \cup {t.operation_id}, held \ {t})
         /\ SameStage(Report(r, t, n), r)
<1> SUFFICES ASSUME NEW op, op = t.operation_id, NEW p, p = t.stage_platform,
                    r.active[op] = 1, AtPlace(m, p, r, w, chain, k), op[3] = chain[k + 1],
                    Reported(r, t).program[p] = ProgramAt(chain, k + 1),
                    NEW w2, w2 = [w EXCEPT ![sub_batch_on(p, r.stage)] = Append(@, op[3])]
             PROVE  /\ RunInv(m, Report(r, t, n), w2, done \cup {op}, held \ {t})
                    /\ SameStage(Report(r, t, n), r)
  BY DEF WorkWith
<1> DEFINE z == Reported(r, t)
           x == Report(r, t, n)
           y == chain[k + 2]
           o2 == <<r.stage, p, y>>
           h2 == held \ {t}
<1>1. /\ p \in Platforms /\ r.program[p] # NoProgram
      /\ RunShape(z) /\ SameStage(z, r) /\ z.queue = r.queue /\ z.queue[p] = <<>>
      /\ \A q \in Platforms : q # p => z.program[q] = r.program[q]
      /\ Counts(z.active, Queued(r) \cup h2)
      /\ DOMAIN z.active = Current(r) \ {op}
      /\ \A o \in DOMAIN z.active : o[2] # p
      /\ op = <<r.stage, p, chain[k + 1]>> /\ op[1] = r.stage /\ op[2] = p
  <2>1. LastReport(m, r, w, h2, z, p, op) BY ReportLast
  <2>2. PICK c, i : /\ AtPlace(m, p, r, w, c, i) /\ op = <<r.stage, p, c[i + 1]>>
                    /\ op[1] = r.stage /\ op[2] = p
    BY <2>1, Zenon DEF LastReport
  <2>3. c = chain /\ i = k BY <2>2 DEF AtPlace
  <2> HIDE DEF z, h2
  <2> QED BY <2>1, <2>2, <2>3 DEF LastReport
<1>2. /\ chain = Chain(m, p, r.stage) /\ k = Position(m, p, r.stage, w) /\ chain \in Chains
      /\ k \in 0..(Len(chain) - 1) /\ k + 1 \in 0..(Len(chain) - 1) /\ chain[k + 1] \in OpKinds
      /\ Len(chain) \in Nat /\ chain \in Seq(OpKinds)
      /\ r.program[p] = ProgramAt(chain, k)
  BY ChainFacts DEF AtPlace
<1>3. m \in BOOLEAN /\ r.stage \in Reached(m) /\ r.stage \in Stages /\ r.stage # Finish
  BY <1>1, Working, Zenon DEF RunInv
<1>4. y \in OpKinds BY <1>2
<1>5. z.program[p] # NoProgram /\ ~check_finish(z.program[p]) /\ z.program[p].executable = <<y>>
  <2>1. (k + 1) + 1 = k + 2 BY <1>2
  <2> QED BY <1>2, <2>1, ChainStep
<1>6. o2 \notin DOMAIN z.active BY <1>1
<1>7. /\ RunShape(x) /\ SameStage(x, z) /\ x.program = z.program
      /\ Launched(x, z, p, o2, n)
  <2>1. x = refresh_status(p, n, z) BY DEF Report
  <2>2. o2 = <<z.stage, p, y>> BY <1>1 DEF SameStage
  <2> HIDE DEF x, z, y, o2
  <2> QED BY <1>1, <1>5, <1>6, <2>1, <2>2, RefreshLaunch
<1>8. /\ SameStage(x, r) /\ x.stage = r.stage BY <1>1, <1>7 DEF SameStage
<1> HIDE DEF x, z, y
<1>9. /\ QueueInv(x, h2) /\ Counts(x.active, Queued(x) \cup h2)
      /\ DOMAIN x.active = DOMAIN z.active \cup {o2}
  <2>1. QueueInv(r, h2) BY ReportCounts DEF RunInv
  <2>2. QueueInv(z, h2) /\ Queued(z) = Queued(r) BY <1>1, <2>1 DEF QueueInv, Queued
  <2>3. z.stage = r.stage BY <1>1 DEF SameStage
  <2>4. o2 \in OpIds /\ o2[2] = p BY <1>1, <1>3, <1>4 DEF OpIds
  <2>5. Counts(z.active, Queued(z) \cup h2) /\ z.queue[p] = <<>> /\ p \in Platforms
    BY <1>1, <1>3, <2>2, <2>3
  <2> HIDE DEF h2, o2
  <2>6. QueueInv(x, h2) /\ Counts(x.active, Queued(x) \cup h2)
    BY <1>6, <1>7, <2>2, <2>4, <2>5, LaunchCounts
  <2>7. DOMAIN x.active = DOMAIN z.active \cup {o2} BY <1>7 DEF Launched, WithEntry
  <2> QED BY <2>6, <2>7
<1>10. /\ x.program[p] = ProgramAt(chain, k + 1) /\ x.program[p] # NoProgram
       /\ \A q \in Platforms : q # p => x.program[q] = r.program[q]
  BY <1>1, <1>5, <1>7 DEF z
<1>11. Head(x.program[p].executable) = y BY <1>5, <1>7
<1>12. CountInv(x, Queued(x) \cup h2)
  <2>1. Current(x) = (Current(r) \ {op}) \cup {o2}
    <3> SUFFICES ASSUME NEW o PROVE o \in Current(x) <=> o \in (Current(r) \ {op}) \cup {o2}
      OBVIOUS
    <3>1. o \in Current(x) <=> \E q \in Platforms : x.program[q] # NoProgram
                                 /\ o = <<x.stage, q, Head(x.program[q].executable)>>
      BY DEF Current, OpId
    <3>2. o \in Current(r) <=> \E q \in Platforms : r.program[q] # NoProgram
                                 /\ o = <<r.stage, q, Head(r.program[q].executable)>>
      BY DEF Current, OpId
    <3>3. Head(r.program[p].executable) = chain[k + 1] BY DEF AtPlace
    <3>4. \A q \in Platforms : q # p => <<r.stage, q, Head(r.program[q].executable)>> # op
      BY <1>1
    <3> QED BY <1>1, <1>8, <1>10, <1>11, <3>1, <3>2, <3>3, <3>4
  <2> QED BY <1>1, <1>9, <2>1 DEF CountInv
<1>13. WorkInv(m, w2) /\ Position(m, p, r.stage, w2) = k + 1
       /\ \A q \in Platforms : q # p => Position(m, q, r.stage, w2) = Position(m, q, r.stage, w)
  <2>1. WorkInv(m, w) BY DEF RunInv
  <2>2. Moves(m, p, r.stage, w, [w EXCEPT ![sub_batch_on(p, r.stage)] = Append(@, op[3])])
    <3>1. /\ p \in Platforms /\ k \in 0..(Len(Chain(m, p, r.stage)) - 1)
          /\ k = Position(m, p, r.stage, w) /\ op[3] \in OpKinds
          /\ op[3] = Chain(m, p, r.stage)[k + 1]
      BY <1>1, <1>2
    <3> QED BY <1>3, <2>1, <3>1, PositionMoves
  <2> QED BY <1>2, <2>2 DEF Moves
<1>14. ProgramsInv(m, x, w2)
  <2>1. AtWork(m, p, x, w2) BY <1>2, <1>8, <1>10, <1>13, Zenon DEF AtWork
  <2>2. ASSUME NEW q \in Platforms, q # p PROVE AtWork(m, q, x, w2) \/ Done(m, q, x, w2)
    <3>1. AtWork(m, q, r, w) \/ Done(m, q, r, w) BY <1>1, Working
    <3>2. x.program[q] = r.program[q] /\ Position(m, q, r.stage, w2) = Position(m, q, r.stage, w)
      BY <1>10, <1>13, <2>2
    <3> QED BY <1>8, <3>1, <3>2, Zenon DEF AtWork, Done
  <2> QED BY <1>1, <2>1, <2>2, Zenon DEF ProgramsInv
<1>15. FinishedInv(x, done \cup {op})
  <2> SUFFICES ASSUME NEW o \in done \cup {op}
               PROVE  /\ o \in OpIds /\ o[1] <= x.stage
                      /\ o[1] = x.stage => /\ \E q \in Platforms : x.program[q] # NoProgram
                                           /\ x.program[o[2]] # NoProgram
                                                => o[3] \in x.program[o[2]].finished
    BY DEF FinishedInv
  <2>1. x.program[p].finished = {chain[i] : i \in 1..(k + 1)}
        /\ r.program[p].finished = {chain[i] : i \in 1..k}
    BY <1>2, <1>10, ProgramAtIs
  <2>2. r.program[p].finished \subseteq x.program[p].finished /\ chain[k + 1] \in x.program[p].finished
    BY <1>2, <2>1
  <2>3. CASE o = op
    <3>1. op \in OpIds BY <1>1, <1>2, <1>3 DEF OpIds
    <3>2. op[1] <= x.stage BY <1>1, <1>3, <1>8, StageNumbers
    <3> QED BY <1>1, <1>10, <2>2, <2>3, <3>1, <3>2
  <2>4. CASE o \in done
    <3>1. /\ o \in OpIds /\ o[1] <= r.stage
          /\ o[1] = r.stage => (r.program[o[2]] # NoProgram => o[3] \in r.program[o[2]].finished)
      BY <2>4 DEF RunInv, FinishedInv
    <3>2. o[2] \in Platforms BY <3>1 DEF OpIds
    <3>3. CASE o[2] = p BY <1>1, <1>8, <1>10, <2>2, <3>1, <3>3
    <3>4. CASE o[2] # p BY <1>1, <1>8, <1>10, <3>1, <3>2, <3>4
    <3> QED BY <3>3, <3>4
  <2> QED BY <2>3, <2>4
<1>16. RunInv(m, x, w2, done \cup {op}, h2)
  BY <1>3, <1>7, <1>8, <1>9, <1>12, <1>13, <1>14, <1>15 DEF RunInv
<1> QED BY <1>8, <1>16 DEF x

\* No program is left and the stage has changed.
Advanced(m, x, r) ==
  /\ \A q \in Platforms : x.program[q] = NoProgram
  /\ x.changed = TRUE /\ x.prev = r.stage /\ x.stage = NextStage(m, r.stage)

\* The last tile of the last operation of a chain: the program ends, and with it
\* the stage if the other platform has no program either.
LEMMA ReportEnd ==
  ASSUME NEW m, NEW r, NEW w, NEW done, NEW held, RunInv(m, r, w, done, held),
         NEW t \in held, r.active[t.operation_id] = 1, NEW n \in 1..MaxTiles, m = SubBatchMode,
         NEW chain, NEW k, AtPlace(m, t.stage_platform, r, w, chain, k), k + 1 = Len(chain),
         t.operation_id[3] = chain[k + 1],
         Reported(r, t).program[t.stage_platform] = EndOf(chain)
  PROVE  /\ RunInv(m, Report(r, t, n), WorkWith(r, w, t), done \cup {t.operation_id}, held \ {t})
         /\ SameStage(Report(r, t, n), r) \/ Advanced(m, Report(r, t, n), r)
<1> SUFFICES ASSUME NEW op, op = t.operation_id, NEW p, p = t.stage_platform,
                    r.active[op] = 1, AtPlace(m, p, r, w, chain, k), op[3] = chain[k + 1],
                    Reported(r, t).program[p] = EndOf(chain),
                    NEW w2, w2 = [w EXCEPT ![sub_batch_on(p, r.stage)] = Append(@, op[3])]
             PROVE  /\ RunInv(m, Report(r, t, n), w2, done \cup {op}, held \ {t})
                    /\ SameStage(Report(r, t, n), r) \/ Advanced(m, Report(r, t, n), r)
  BY DEF WorkWith
<1> DEFINE z == Reported(r, t)
           x == Report(r, t, n)
           h2 == held \ {t}
<1>1. /\ p \in Platforms /\ r.program[p] # NoProgram
      /\ RunShape(z) /\ SameStage(z, r) /\ z.queue = r.queue
      /\ \A q \in Platforms : q # p => z.program[q] = r.program[q]
      /\ Counts(z.active, Queued(r) \cup h2)
      /\ DOMAIN z.active = Current(r) \ {op}
      /\ op = <<r.stage, p, chain[k + 1]>> /\ op[1] = r.stage /\ op[2] = p
  <2>1. LastReport(m, r, w, h2, z, p, op) BY ReportLast
  <2>2. PICK c, i : /\ AtPlace(m, p, r, w, c, i) /\ op = <<r.stage, p, c[i + 1]>>
                    /\ op[1] = r.stage /\ op[2] = p
    BY <2>1, Zenon DEF LastReport
  <2>3. c = chain /\ i = k BY <2>2 DEF AtPlace
  <2> HIDE DEF z, h2
  <2> QED BY <2>1, <2>2, <2>3 DEF LastReport
<1>2. /\ chain = Chain(m, p, r.stage) /\ k = Position(m, p, r.stage, w) /\ chain \in Chains
      /\ k \in 0..(Len(chain) - 1) /\ chain[k + 1] \in OpKinds
      /\ Len(chain) \in Nat
  BY ChainFacts DEF AtPlace
<1>3. m \in BOOLEAN /\ r.stage \in Reached(m) /\ r.stage \in Stages /\ r.stage # Finish
  BY <1>1, Working, Zenon DEF RunInv
<1>4. z.program[p] # NoProgram /\ check_finish(z.program[p])
  BY <1>2, ChainStep
<1>5. /\ RunShape(x) /\ x.program[p] = NoProgram
      /\ \A q \in Platforms : q # p => x.program[q] = z.program[q]
      /\ x.queue = z.queue /\ x.active = z.active
      /\ IF \A q \in Platforms : q # p => z.program[q] = NoProgram
         THEN x.stage = next_stage(z.stage) /\ x.prev = z.stage /\ x.changed = TRUE
         ELSE SameStage(x, z)
  <2>1. x = refresh_status(p, n, z) BY DEF Report
  <2> HIDE DEF x, z
  <2>2. Ended(x, z, p) BY <1>1, <1>4, <2>1, RefreshEnd
  <2> QED BY <2>2, Zenon DEF Ended
<1> HIDE DEF x, z
<1>6. /\ \A q \in Platforms : q # p => x.program[q] = r.program[q]
      /\ x.queue = r.queue
  BY <1>1, <1>5
<1>7. QueueInv(x, h2) /\ Queued(x) = Queued(r)
  <2>1. QueueInv(r, h2) BY ReportCounts DEF RunInv
  <2> QED BY <1>6, <2>1 DEF QueueInv, Queued
<1>8. WorkInv(m, w2) /\ Position(m, p, r.stage, w2) = k + 1
       /\ \A q \in Platforms : q # p => Position(m, q, r.stage, w2) = Position(m, q, r.stage, w)
  <2>1. WorkInv(m, w) BY DEF RunInv
  <2>2. Moves(m, p, r.stage, w, [w EXCEPT ![sub_batch_on(p, r.stage)] = Append(@, op[3])])
    <3>1. /\ p \in Platforms /\ k \in 0..(Len(Chain(m, p, r.stage)) - 1)
          /\ k = Position(m, p, r.stage, w) /\ op[3] \in OpKinds
          /\ op[3] = Chain(m, p, r.stage)[k + 1]
      BY <1>1, <1>2
    <3> QED BY <1>3, <2>1, <3>1, PositionMoves
  <2> QED BY <1>2, <2>2 DEF Moves
<1>9. Position(m, p, r.stage, w2) = Len(Chain(m, p, r.stage)) BY <1>2, <1>8
<1>10. \A o \in done \cup {op} : o \in OpIds /\ o[1] <= r.stage
  <2>1. op \in OpIds /\ op[1] <= r.stage BY <1>1, <1>2, <1>3, StageNumbers DEF OpIds
  <2> QED BY <2>1 DEF RunInv, FinishedInv
<1>11. CASE \E q \in Platforms : q # p /\ r.program[q] # NoProgram
  <2>1. PICK q \in Platforms : q # p /\ r.program[q] # NoProgram BY <1>11
  <2>2. SameStage(x, r) /\ x.stage = r.stage BY <1>1, <1>5, <2>1 DEF SameStage
  <2>3. CountInv(x, Queued(x) \cup h2)
    <3>1. Current(x) = Current(r) \ {op}
      <4> SUFFICES ASSUME NEW o PROVE o \in Current(x) <=> o \in Current(r) \ {op}
        OBVIOUS
      <4>1. o \in Current(x) <=> \E u \in Platforms : x.program[u] # NoProgram
                                   /\ o = <<x.stage, u, Head(x.program[u].executable)>>
        BY DEF Current, OpId
      <4>2. o \in Current(r) <=> \E u \in Platforms : r.program[u] # NoProgram
                                   /\ o = <<r.stage, u, Head(r.program[u].executable)>>
        BY DEF Current, OpId
      <4>3. Head(r.program[p].executable) = chain[k + 1] BY DEF AtPlace
      <4>4. \A u \in Platforms : u # p => <<r.stage, u, Head(r.program[u].executable)>> # op
        BY <1>1
      <4> QED BY <1>1, <1>5, <1>6, <2>2, <4>1, <4>2, <4>3, <4>4
    <3> QED BY <1>1, <1>5, <1>7, <3>1 DEF CountInv
  <2>4. ProgramsInv(m, x, w2)
    <3>1. Done(m, p, x, w2) BY <1>5, <1>9, <2>2, Zenon DEF Done
    <3>2. ASSUME NEW u \in Platforms, u # p
          PROVE  /\ AtWork(m, u, x, w2) \/ Done(m, u, x, w2)
                 /\ r.program[u] # NoProgram => AtWork(m, u, x, w2)
      <4>1. AtWork(m, u, r, w) \/ Done(m, u, r, w) BY <1>1, Working
      <4>2. x.program[u] = r.program[u] /\ Position(m, u, r.stage, w2) = Position(m, u, r.stage, w)
        BY <1>6, <1>8, <3>2
      <4> QED BY <2>2, <4>1, <4>2, Zenon DEF AtWork, Done
    <3> QED BY <2>1, <3>1, <3>2, Zenon DEF ProgramsInv
  <2>5. FinishedInv(x, done \cup {op})
    <3> SUFFICES ASSUME NEW o \in done \cup {op}
                 PROVE  /\ o \in OpIds /\ o[1] <= x.stage
                        /\ o[1] = x.stage => /\ \E u \in Platforms : x.program[u] # NoProgram
                                             /\ x.program[o[2]] # NoProgram
                                                  => o[3] \in x.program[o[2]].finished
      BY DEF FinishedInv
    <3>1. o \in OpIds /\ o[1] <= x.stage /\ \E u \in Platforms : x.program[u] # NoProgram
      BY <1>6, <1>10, <2>1, <2>2
    <3>2. o[2] \in Platforms BY <3>1 DEF OpIds
    <3>3. CASE o[2] = p BY <1>5, <3>1, <3>3
    <3>4. CASE o[2] # p
      <4>1. o \in done BY <1>1, <3>4
      <4>2. o[1] = r.stage => (r.program[o[2]] # NoProgram => o[3] \in r.program[o[2]].finished)
        BY <4>1 DEF RunInv, FinishedInv
      <4> QED BY <1>6, <2>2, <3>1, <3>2, <3>4, <4>2
    <3> QED BY <3>3, <3>4
  <2>6. RunInv(m, x, w2, done \cup {op}, h2)
    BY <1>3, <1>5, <1>7, <1>8, <2>2, <2>3, <2>4, <2>5 DEF RunInv
  <2> QED BY <2>2, <2>6 DEF x
<1>12. CASE \A q \in Platforms : q # p => r.program[q] = NoProgram
  <2>1. Advanced(m, x, r) /\ x.stage = NextStage(m, r.stage)
    <3>1. x.stage = next_stage(r.stage) /\ x.prev = r.stage /\ x.changed = TRUE
      BY <1>1, <1>5, <1>12 DEF SameStage
    <3>2. x.stage = NextStage(m, r.stage) BY <1>3, <3>1, NextReached
    <3>3. \A q \in Platforms : x.program[q] = NoProgram BY <1>5, <1>6, <1>12
    <3> QED BY <3>1, <3>2, <3>3 DEF Advanced
  <2>2. /\ x.stage \in Reached(m) /\ r.stage < x.stage /\ r.stage \in Nat /\ x.stage \in Nat
    BY <1>3, <2>1, NextReached
  <2>3. CountInv(x, Queued(x) \cup h2)
    <3>1. Current(x) = {} BY <2>1 DEF Current, Advanced
    <3>2. Current(r) \ {op} = {}
      <4> SUFFICES ASSUME NEW o \in Current(r) PROVE o = op OBVIOUS
      <4>1. PICK u \in Platforms : r.program[u] # NoProgram
                                   /\ o = <<r.stage, u, Head(r.program[u].executable)>>
        BY DEF Current, OpId
      <4>2. u = p BY <1>12, <4>1
      <4>3. Head(r.program[p].executable) = chain[k + 1] BY DEF AtPlace
      <4> QED BY <1>1, <4>1, <4>2, <4>3
    <3> QED BY <1>1, <1>5, <1>7, <3>1, <3>2 DEF CountInv
  <2>4. \A q \in Platforms : Position(m, q, r.stage, w2) = Len(Chain(m, q, r.stage))
    <3> SUFFICES ASSUME NEW q \in Platforms, q # p
                 PROVE  Position(m, q, r.stage, w2) = Len(Chain(m, q, r.stage))
      BY <1>9
    <3>1. AtWork(m, q, r, w) \/ Done(m, q, r, w) BY <1>1, Working
    <3>2. r.program[q] = NoProgram BY <1>12
    <3>3. ~AtWork(m, q, r, w)
      <4> SUFFICES ASSUME AtWork(m, q, r, w) PROVE FALSE OBVIOUS
      <4> DEFINE c == Chain(m, q, r.stage)
                 i == Position(m, q, r.stage, w)
      <4>1. i \in 0..(Len(c) - 1) /\ r.program[q] = ProgramAt(c, i) BY Zenon DEF AtWork
      <4>2. c = <<>> \/ c \in Chains BY <1>3, StagesHaveFacts, Zenon DEF StageFacts
      <4> HIDE DEF c, i
      <4>3. c \in Chains BY <4>1, <4>2
      <4> QED BY <3>2, <4>1, <4>3, ChainStep
    <3>4. Position(m, q, r.stage, w) = Len(Chain(m, q, r.stage))
      BY <3>1, <3>3, Zenon DEF Done
    <3> QED BY <1>8, <3>4
  <2>5. \A b \in 1..2 : Len(w2[b]) = Base(m, b, x.stage)
    <3>1. ASSUME NEW q \in Platforms, NEW b, b = sub_batch_on(q, r.stage)
          PROVE  Len(w2[b]) = Base(m, b, x.stage)
      <4>1. Len(w2[b]) - Base(m, b, r.stage) = Len(Chain(m, q, r.stage))
        BY <2>4, <3>1 DEF Position
      <4>2. /\ Base(m, b, NextStage(m, r.stage)) = Base(m, b, r.stage) + Len(Chain(m, q, r.stage))
            /\ Base(m, b, r.stage) \in Nat /\ b \in 1..2
        BY <1>3, <3>1, StagesHaveFacts, Zenon DEF StageFacts
      <4>3. Len(w2[b]) \in Nat BY <1>8, <4>2 DEF WorkInv
      <4> HIDE <3>1
      <4>4. Base(m, b, x.stage) = Base(m, b, r.stage) + Len(Chain(m, q, r.stage))
        BY <2>1, <4>2, Zenon
      <4> QED BY <4>1, <4>2, <4>3, <4>4
    <3> QED BY <1>3, <3>1, BothServed, PlatformsAre
  <2>6. ProgramsInv(m, x, w2)
    <3>1. ASSUME NEW q \in Platforms
          PROVE  x.program[q] = NoProgram /\ Position(m, q, x.stage, w2) = 0
      <4>1. sub_batch_on(q, x.stage) \in 1..2
        BY <1>3, <2>2, StagesHaveFacts, Zenon DEF StageFacts
      <4>2. Len(w2[sub_batch_on(q, x.stage)]) \in Nat BY <1>8, <4>1 DEF WorkInv
      <4>3. Position(m, q, x.stage, w2) = 0 BY <2>5, <4>1, <4>2 DEF Position
      <4> QED BY <2>1, <4>3 DEF Advanced
    <3> QED BY <3>1 DEF ProgramsInv, NotBegun
  <2>7. FinishedInv(x, done \cup {op})
    <3> SUFFICES ASSUME NEW o \in done \cup {op}
                 PROVE  o \in OpIds /\ o[1] <= x.stage /\ o[1] # x.stage
      BY DEF FinishedInv
    <3>1. o \in OpIds /\ o[1] <= r.stage BY <1>10
    <3>2. o[1] \in Nat BY <3>1, StageNumbers DEF OpIds
    <3> QED BY <2>2, <3>1, <3>2
  <2>8. RunInv(m, x, w2, done \cup {op}, h2)
    BY <1>3, <1>5, <1>7, <1>8, <2>2, <2>3, <2>6, <2>7 DEF RunInv
  <2> QED BY <2>1, <2>8 DEF x
<1> QED BY <1>11, <1>12

\* What finish_tile records.
WorkAfter(r, w, t) ==
  LET op == t.operation_id
  IN  IF r.active[op] = 1 THEN [w EXCEPT ![sub_batch_on(op[2], op[1])] = Append(@, op[3])] ELSE w
DoneAfter(r, done, t) ==
  IF r.active[t.operation_id] = 1 THEN done \cup {t.operation_id} ELSE done

\* finish_tile keeps the invariant of the run.
LEMMA ReportInv ==
  ASSUME NEW m, NEW r, NEW w, NEW done, NEW held, RunInv(m, r, w, done, held),
         m = SubBatchMode, NEW t \in held, NEW n \in 1..MaxTiles
  PROVE  /\ RunInv(m, Report(r, t, n), WorkAfter(r, w, t), DoneAfter(r, done, t), held \ {t})
         /\ SameStage(Report(r, t, n), r) \/ Advanced(m, Report(r, t, n), r)
<1> DEFINE x == Report(r, t, n)
<1>1. CASE r.active[t.operation_id] # 1
  <2>1. RunInv(m, x, w, done, held \ {t}) /\ SameStage(x, r) BY <1>1, ReportOther
  <2>2. WorkAfter(r, w, t) = w /\ DoneAfter(r, done, t) = done BY <1>1 DEF WorkAfter, DoneAfter
  <2> HIDE DEF x
  <2> QED BY <2>1, <2>2 DEF x
<1>2. CASE r.active[t.operation_id] = 1
  <2> DEFINE op == t.operation_id
             p == t.stage_platform
  <2>1. LastReport(m, r, w, held \ {t}, Reported(r, t), p, op) BY <1>2, ReportLast
  <2>2. PICK chain, k : /\ AtPlace(m, p, r, w, chain, k)
                        /\ op[1] = r.stage /\ op[2] = p /\ op[3] = chain[k + 1]
                        /\ Reported(r, t).program[p]
                             = IF k + 1 = Len(chain) THEN EndOf(chain) ELSE ProgramAt(chain, k + 1)
    BY <2>1, Zenon DEF LastReport
  <2>3. WorkAfter(r, w, t) = WorkWith(r, w, t) /\ DoneAfter(r, done, t) = done \cup {op}
    BY <1>2, <2>2 DEF WorkAfter, DoneAfter, WorkWith
  <2>4. CASE k + 1 # Len(chain)
    <3>1. Reported(r, t).program[p] = ProgramAt(chain, k + 1) BY <2>2, <2>4
    <3>2. RunInv(m, x, WorkWith(r, w, t), done \cup {op}, held \ {t}) /\ SameStage(x, r)
      BY <1>2, <2>2, <2>4, <3>1, ReportNext
    <3> HIDE DEF x, op
    <3> QED BY <2>3, <3>2 DEF x
  <2>5. CASE k + 1 = Len(chain)
    <3>1. Reported(r, t).program[p] = EndOf(chain) BY <2>2, <2>5
    <3>2. /\ RunInv(m, x, WorkWith(r, w, t), done \cup {op}, held \ {t})
          /\ SameStage(x, r) \/ Advanced(m, x, r)
      BY <1>2, <2>2, <2>5, <3>1, ReportEnd
    <3> HIDE DEF x, op
    <3> QED BY <2>3, <3>2 DEF x
  <2> QED BY <2>4, <2>5
<1> QED BY <1>1, <1>2

LEMMA TailIs ==
  ASSUME NEW S, NEW s \in Seq(S), s # <<>>, IsInjective(s)
  PROVE  /\ Head(s) \in S /\ Head(s) \in Range(s) /\ Head(s) \notin Range(Tail(s))
         /\ Tail(s) \in Seq(S) /\ IsInjective(Tail(s))
         /\ Range(s) = Range(Tail(s)) \cup {Head(s)}
<1> SUFFICES ASSUME NEW u, u = Tail(s), NEW h, h = Head(s)
             PROVE  /\ h \in S /\ h \in Range(s) /\ h \notin Range(u)
                    /\ u \in Seq(S) /\ IsInjective(u) /\ Range(s) = Range(u) \cup {h}
  OBVIOUS
<1>1. /\ u \in Seq(S) /\ Len(u) = Len(s) - 1 /\ Len(s) \in Nat \ {0}
      /\ \A i \in 1..(Len(s) - 1) : u[i] = s[i + 1]
      /\ h = s[1] /\ DOMAIN s = 1..Len(s) /\ DOMAIN u = 1..(Len(s) - 1) /\ h \in S
  OBVIOUS
<1>2. \A i \in DOMAIN u : u[i] = s[i + 1] /\ i + 1 \in DOMAIN s /\ i + 1 # 1 /\ 1 \in DOMAIN s
  BY <1>1
<1>3. \A i \in DOMAIN s : i = 1 \/ (i - 1 \in DOMAIN u /\ u[i - 1] = s[i])
  BY <1>1
<1>4. \A i, j \in DOMAIN s : s[i] = s[j] => i = j BY DEF IsInjective
<1>5. IsInjective(u)
  <2> SUFFICES ASSUME NEW i \in DOMAIN u, NEW j \in DOMAIN u, u[i] = u[j] PROVE i = j
    BY DEF IsInjective
  <2>1. i + 1 = j + 1 BY <1>2, <1>4
  <2> QED BY <1>1, <2>1
<1>6. Range(s) = Range(u) \cup {h}
  <2>1. ASSUME NEW y \in Range(s) PROVE y \in Range(u) \cup {h}
    <3>1. PICK i \in DOMAIN s : y = s[i] BY DEF Range
    <3>2. i = 1 \/ (i - 1 \in DOMAIN u /\ u[i - 1] = y) BY <1>3, <3>1
    <3>3. \A j \in DOMAIN u : u[j] \in Range(u) BY DEF Range
    <3> QED BY <1>1, <3>1, <3>2, <3>3
  <2>2. \A y \in Range(u) \cup {h} : y \in Range(s) BY <1>1, <1>2 DEF Range
  <2> QED BY <2>1, <2>2
<1>7. h \notin Range(u) BY <1>1, <1>2, <1>4 DEF Range
<1>8. h \in Range(s) BY <1>1 DEF Range
<1> QED BY <1>1, <1>5, <1>6, <1>7, <1>8

\* A tile that a core takes moves from its queue to the tiles in the cores.
Taken(m, r, w, done, held, p, x, t) ==
  /\ RunInv(m, x, w, done, held \cup {t}) /\ SameStage(x, r) /\ x.program = r.program
  /\ \A q \in Platforms : q # p => x.queue[q] = r.queue[q]
  /\ t \notin held /\ t \in TileType /\ t.stage_platform = p

LEMMA GetTileInv ==
  ASSUME NEW m, NEW r, NEW w, NEW done, NEW held, RunInv(m, r, w, done, held),
         NEW p \in Platforms, r.queue[p] # <<>>
  PROVE  Taken(m, r, w, done, held, p, get_tile(p, r), top_tile(p, r))
<1> SUFFICES ASSUME NEW x, x = get_tile(p, r), NEW t, t = top_tile(p, r),
                    NEW s, s = r.queue[p]
             PROVE  Taken(m, r, w, done, held, p, x, t)
  OBVIOUS
<1>1. RunShape(r) /\ QueueInv(r, held) /\ CountInv(r, Queued(r) \cup held) BY DEF RunInv
<1>2. /\ RunShape(x) /\ SameStage(x, r) /\ x.program = r.program /\ x.active = r.active
      /\ x.queue[p] = Tail(s) /\ \A q \in Platforms : q # p => x.queue[q] = r.queue[q]
  BY <1>1 DEF get_tile, RunShape, SameStage
<1>3. /\ s \in Seq(TileType) /\ s # <<>> /\ IsInjective(s) /\ t = Head(s)
      /\ \A i \in DOMAIN s : s[i].stage_platform = p /\ s[i] \notin held
  BY <1>1 DEF QueueInv, top_tile
<1>4. /\ Tail(s) \in Seq(TileType) /\ IsInjective(Tail(s)) /\ t \in TileType
      /\ t \in Range(s) /\ t \notin Range(Tail(s)) /\ Range(s) = Range(Tail(s)) \cup {t}
  BY <1>3, TailIs
<1>5. t \notin held /\ t.stage_platform = p BY <1>3, <1>4 DEF Range
<1>6. \A i \in DOMAIN Tail(s) : /\ Tail(s)[i] # t /\ Tail(s)[i] \notin held
                                /\ Tail(s)[i].stage_platform = p
  <2> SUFFICES ASSUME NEW i \in DOMAIN Tail(s), NEW u, u = Tail(s)[i]
               PROVE  u # t /\ u \notin held /\ u.stage_platform = p
    OBVIOUS
  <2>1. u \in Range(Tail(s)) BY DEF Range
  <2>2. u \in Range(s) BY <1>4, <2>1
  <2> QED BY <1>3, <1>4, <2>1, <2>2 DEF Range
<1>7. Range(s) = Range(Tail(s)) \cup {t} BY <1>4
<1>8. Queued(r) \cup held = Queued(x) \cup (held \cup {t})
  <2>1. CASE p = SA BY <1>2, <1>7, <2>1, PlatformsAre DEF Queued
  <2>2. CASE p = PIM BY <1>2, <1>7, <2>2, PlatformsAre DEF Queued
  <2> QED BY <2>1, <2>2, PlatformsAre
<1>9. QueueInv(x, held \cup {t})
  <2> SUFFICES ASSUME NEW q \in Platforms
               PROVE  /\ x.queue[q] \in Seq(TileType) /\ IsInjective(x.queue[q])
                      /\ \A i \in DOMAIN x.queue[q] :
                            x.queue[q][i].stage_platform = q /\ x.queue[q][i] \notin held \cup {t}
    BY DEF QueueInv
  <2>1. CASE q # p BY <1>1, <1>2, <1>5, <2>1 DEF QueueInv
  <2>2. CASE q = p BY <1>2, <1>4, <1>6, <2>2
  <2> QED BY <2>1, <2>2
<1>10. x.stage = r.stage /\ \A q \in Platforms : x.program[q] = r.program[q]
  BY <1>2 DEF SameStage
<1>11. ProgramsInv(m, x, w) /\ Current(x) = Current(r) /\ FinishedInv(x, done)
  <2>1. ProgramsInv(m, r, w) /\ FinishedInv(r, done) BY DEF RunInv
  <2> QED BY <1>10, <2>1, SamePrograms
<1>12. CountInv(x, Queued(x) \cup (held \cup {t}))
  <2>1. CountInv(r, Queued(x) \cup (held \cup {t})) BY <1>1, <1>8
  <2> QED BY <1>2, <1>11, <2>1 DEF CountInv
<1>13. m \in BOOLEAN /\ x.stage \in Reached(m) /\ WorkInv(m, w) BY <1>10 DEF RunInv
<1>14. RunInv(m, x, w, done, held \cup {t}) BY <1>2, <1>9, <1>11, <1>12, <1>13 DEF RunInv
<1> QED BY <1>2, <1>4, <1>5, <1>14 DEF Taken

\* x is r after the new program of platform p, with operations `chain`, was started.
Started(x, r, p, chain, held) ==
  /\ RunShape(x) /\ SameStage(x, r)
  /\ x.program[p] = IF chain = <<>> THEN NoProgram ELSE ProgramAt(chain, 0)
  /\ \A q \in Platforms : q # p => x.program[q] = r.program[q] /\ x.queue[q] = r.queue[q]
  /\ QueueInv(x, held) /\ Counts(x.active, Queued(x) \cup held)
  /\ DOMAIN x.active = IF chain = <<>> THEN DOMAIN r.active
                       ELSE DOMAIN r.active \cup {<<r.stage, p, chain[1]>>}

LEMMA EmptyProgramIs == EmptyProgram # NoProgram /\ check_finish(EmptyProgram)
<1>1. EmptyProgram \in ProgramType BY DEF EmptyProgram, ProgramType
<1>2. check_finish(EmptyProgram) BY DEF EmptyProgram, check_finish
<1> QED BY <1>1, <1>2, NullAssumption

LEMMA StartOne ==
  ASSUME NEW r, RunShape(r), NEW p \in Platforms, NEW n \in 1..MaxTiles, NEW held,
         r.stage \in Stages, r.queue[p] = <<>>, \A o \in DOMAIN r.active : o[2] # p,
         QueueInv(r, held), Counts(r.active, Queued(r) \cup held), NEW chain,
         \/ chain = <<>> /\ r.program[p] = EmptyProgram
            /\ \E q \in Platforms : q # p /\ r.program[q] # NoProgram
         \/ chain \in Chains /\ r.program[p] = ProgramAt(chain, 0)
  PROVE  Started(refresh_status(p, n, r), r, p, chain, held)
<1> DEFINE x == refresh_status(p, n, r)
<1>1. CASE chain = <<>> /\ r.program[p] = EmptyProgram
           /\ \E q \in Platforms : q # p /\ r.program[q] # NoProgram
  <2>1. Ended(x, r, p) BY <1>1, EmptyProgramIs, RefreshEnd
  <2> HIDE DEF x
  <2>2. /\ RunShape(x) /\ SameStage(x, r) /\ x.program[p] = NoProgram
        /\ \A q \in Platforms : q # p => x.program[q] = r.program[q]
        /\ x.queue = r.queue /\ x.active = r.active
    BY <1>1, <2>1 DEF Ended
  <2>3. QueueInv(x, held) /\ Counts(x.active, Queued(x) \cup held)
    BY <2>2 DEF QueueInv, Queued
  <2>4. Started(x, r, p, chain, held) BY <1>1, <2>2, <2>3 DEF Started
  <2> QED BY <2>4 DEF x
<1>2. CASE chain \in Chains /\ r.program[p] = ProgramAt(chain, 0)
  <2> DEFINE op == <<r.stage, p, chain[1]>>
  <2>0. chain # <<>> /\ chain[1] \in OpKinds BY <1>2, ChainFacts
  <2>1. /\ r.program[p] # NoProgram /\ ~check_finish(r.program[p])
        /\ r.program[p].executable = <<chain[1]>>
    <3>1. 0 \in 0..(Len(chain) - 1) BY <1>2, ChainFacts
    <3>2. 0 + 1 = 1 OBVIOUS
    <3> QED BY <1>2, <3>1, <3>2, ChainStep
  <2>2. op \notin DOMAIN r.active OBVIOUS
  <2>3. op \in OpIds /\ op[2] = p BY <2>0 DEF OpIds
  <2>4. RunShape(x) /\ SameStage(x, r) /\ x.program = r.program /\ Launched(x, r, p, op, n)
    <3> HIDE DEF x
    <3> QED BY <2>1, <2>2, RefreshLaunch DEF x
  <2> HIDE DEF x, op
  <2>5. QueueInv(x, held) /\ Counts(x.active, Queued(x) \cup held)
    BY <2>2, <2>3, <2>4, LaunchCounts
  <2>6. DOMAIN x.active = DOMAIN r.active \cup {op} BY <2>4 DEF Launched, WithEntry
  <2>7. Started(x, r, p, chain, held)
    <3>1. op = <<r.stage, p, chain[1]>> BY DEF op
    <3>2. \A q \in Platforms : q # p => x.program[q] = r.program[q] /\ x.queue[q] = r.queue[q]
      BY <2>4 DEF Launched
    <3> QED BY <1>2, <2>0, <2>4, <2>5, <2>6, <3>1, <3>2 DEF Started
  <2> QED BY <2>7 DEF x
<1> QED BY <1>1, <1>2

\* A run without programs has no tiles.
LEMMA IdleRun ==
  ASSUME NEW m, NEW r, NEW w, NEW done, NEW held, RunInv(m, r, w, done, held),
         \A p \in Platforms : r.program[p] = NoProgram
  PROVE  /\ held = {} /\ DOMAIN r.active = {} /\ \A p \in Platforms : r.queue[p] = <<>>
         /\ \A p \in Platforms : Position(m, p, r.stage, w) = 0
         /\ \A op \in done : op \in OpIds /\ op[1] <= r.stage /\ op[1] # r.stage
<1>1. Current(r) = {} BY DEF Current
<1>2. DOMAIN r.active = {} /\ Queued(r) \cup held = {} BY <1>1 DEF RunInv, CountInv, Counts
<1>3. ASSUME NEW p \in Platforms PROVE r.queue[p] = <<>>
  <2>1. r.queue[p] \in Seq(TileType) BY DEF RunInv, QueueInv
  <2>2. Range(r.queue[p]) = {} BY <1>2, PlatformsAre DEF Queued
  <2>3. DOMAIN r.queue[p] = {} BY <2>2 DEF Range
  <2>4. r.queue[p] # <<>> => 1 \in DOMAIN r.queue[p] BY <2>1
  <2> QED BY <2>3, <2>4
<1>4. NotBegun(m, r, w)
  <2> SUFFICES ASSUME NEW p \in Platforms, AtWork(m, p, r, w) PROVE FALSE
    BY DEF RunInv, ProgramsInv
  <2> DEFINE c == Chain(m, p, r.stage)
             i == Position(m, p, r.stage, w)
  <2>1. i \in 0..(Len(c) - 1) /\ r.program[p] = ProgramAt(c, i) BY Zenon DEF AtWork
  <2>2. c = <<>> \/ c \in Chains BY StagesHaveFacts, Zenon DEF StageFacts, RunInv
  <2> HIDE DEF c, i
  <2>3. c \in Chains BY <2>1, <2>2
  <2> QED BY <2>1, <2>3, ChainStep
<1>5. \A op \in done : op \in OpIds /\ op[1] <= r.stage /\ op[1] # r.stage
  BY DEF RunInv, FinishedInv
<1> QED BY <1>2, <1>3, <1>4, <1>5 DEF NotBegun

\* make_program, on a run.
Begun(r, batches, n) ==
  LET programs == [p \in Platforms |->
                     init_program(p, r.stage, batches[sub_batch_on(p, r.stage)])]
      r1 == refresh_status(SA, n[SA], [r EXCEPT !.program = programs])
  IN  refresh_status(PIM, n[PIM], r1)

\* make_program keeps the invariant of the run.
LEMMA BeginInv ==
  ASSUME NEW m, NEW r, NEW w, NEW done, NEW held, RunInv(m, r, w, done, held),
         \A p \in Platforms : r.program[p] = NoProgram, r.stage # Finish,
         NEW batches, batches[1] # <<>>, IF m THEN batches[2] # <<>> ELSE batches[2] = <<>>,
         NEW n \in [Platforms -> 1..MaxTiles]
  PROVE  RunInv(m, Begun(r, batches, n), w, done, held) /\ SameStage(Begun(r, batches, n), r)
<1> DEFINE programs == [p \in Platforms |->
                          init_program(p, r.stage, batches[sub_batch_on(p, r.stage)])]
           r0 == [r EXCEPT !.program = programs]
           r1 == refresh_status(SA, n[SA], r0)
           r2 == refresh_status(PIM, n[PIM], r1)
           s == r.stage
           cs == Chain(m, SA, s)
           cp == Chain(m, PIM, s)
<1>1. /\ RunShape(r) /\ m \in BOOLEAN /\ s \in Reached(m) /\ WorkInv(m, w) /\ QueueInv(r, held)
      /\ Counts(r.active, Queued(r) \cup held)
  BY DEF RunInv, CountInv
<1>2. /\ held = {} /\ DOMAIN r.active = {} /\ \A p \in Platforms : r.queue[p] = <<>>
      /\ \A p \in Platforms : Position(m, p, s, w) = 0
      /\ \A op \in done : op \in OpIds /\ op[1] <= s /\ op[1] # s
  BY IdleRun
<1>3. \A p \in Platforms : programs[p] = IF Chain(m, p, s) = <<>> THEN EmptyProgram
                                         ELSE ProgramAt(Chain(m, p, s), 0)
  <2> SUFFICES ASSUME NEW p \in Platforms
               PROVE  programs[p] = IF Chain(m, p, s) = <<>> THEN EmptyProgram
                                    ELSE ProgramAt(Chain(m, p, s), 0)
    OBVIOUS
  <2>1. programs[p] = init_program(p, s, batches[sub_batch_on(p, s)]) OBVIOUS
  <2>2. s # Finish OBVIOUS
  <2> HIDE DEF programs, s
  <2>3. init_program(p, s, batches[sub_batch_on(p, s)])
        = IF Chain(m, p, s) = <<>> THEN EmptyProgram ELSE ProgramAt(Chain(m, p, s), 0)
    BY <1>1, <2>2, InitPrograms
  <2> QED BY <2>1, <2>3, Zenon
<1>4. s \in Stages BY <1>1, StageNumbers
<1>5. cs # <<>> \/ cp # <<>> BY <1>1, SomeWork, PlatformsAre
<1>6. (cs = <<>> \/ cs \in Chains) /\ (cp = <<>> \/ cp \in Chains)
  BY <1>1, StagesHaveFacts, PlatformsAre, Zenon DEF StageFacts
<1>7. /\ RunShape(r0) /\ SameStage(r0, r) /\ r0.queue = r.queue /\ r0.active = r.active
      /\ r0.program = programs /\ r0.stage = s
  BY <1>1 DEF RunShape, SameStage
<1> HIDE DEF programs, r0
<1>8. /\ QueueInv(r0, held) /\ Counts(r0.active, Queued(r0) \cup held)
      /\ r0.queue[SA] = <<>> /\ r0.queue[PIM] = <<>> /\ DOMAIN r0.active = {}
  BY <1>1, <1>2, <1>7, PlatformsAre DEF QueueInv, Queued
<1>9. /\ r0.program[SA] = IF cs = <<>> THEN EmptyProgram ELSE ProgramAt(cs, 0)
      /\ r0.program[PIM] = IF cp = <<>> THEN EmptyProgram ELSE ProgramAt(cp, 0)
  BY <1>3, <1>7, PlatformsAre, Zenon
<1> HIDE DEF cs, cp
<1>10. \A c \in Chains : ProgramAt(c, 0) # NoProgram
  <2> SUFFICES ASSUME NEW c \in Chains PROVE ProgramAt(c, 0) # NoProgram OBVIOUS
  <2>1. 0 \in 0..(Len(c) - 1) BY ChainFacts
  <2> QED BY <2>1, ChainStep
<1>11. Started(r1, r0, SA, cs, held)
  <2>1. r0.program[PIM] # NoProgram BY <1>6, <1>9, <1>10, EmptyProgramIs
  <2>2. \/ cs = <<>> /\ r0.program[SA] = EmptyProgram
           /\ \E q \in Platforms : q # SA /\ r0.program[q] # NoProgram
        \/ cs \in Chains /\ r0.program[SA] = ProgramAt(cs, 0)
    BY <1>6, <1>9, <2>1, PlatformsAre
  <2>3. n[SA] \in 1..MaxTiles /\ SA \in Platforms /\ r0.stage \in Stages
        /\ \A o \in DOMAIN r0.active : o[2] # SA
    BY <1>4, <1>7, <1>8, PlatformsAre
  <2> QED BY <1>7, <1>8, <2>2, <2>3, StartOne
<1> HIDE DEF r1
<1>12. /\ RunShape(r1) /\ SameStage(r1, r0) /\ r1.stage = s
       /\ r1.program[SA] = IF cs = <<>> THEN NoProgram ELSE ProgramAt(cs, 0)
       /\ r1.program[PIM] = r0.program[PIM] /\ r1.queue[PIM] = <<>>
       /\ QueueInv(r1, held) /\ Counts(r1.active, Queued(r1) \cup held)
       /\ DOMAIN r1.active = IF cs = <<>> THEN {} ELSE {<<s, SA, cs[1]>>}
  BY <1>7, <1>8, <1>11, PlatformsAre DEF Started, SameStage
<1>13. Started(r2, r1, PIM, cp, held)
  <2>1. cp = <<>> => r1.program[SA] # NoProgram BY <1>5, <1>6, <1>10, <1>12
  <2>2. \/ cp = <<>> /\ r1.program[PIM] = EmptyProgram
           /\ \E q \in Platforms : q # PIM /\ r1.program[q] # NoProgram
        \/ cp \in Chains /\ r1.program[PIM] = ProgramAt(cp, 0)
    BY <1>6, <1>9, <1>12, <2>1, PlatformsAre
  <2>3. n[PIM] \in 1..MaxTiles /\ PIM \in Platforms /\ r1.stage \in Stages
        /\ \A o \in DOMAIN r1.active : o[2] # PIM
    BY <1>4, <1>12, PlatformsAre
  <2> QED BY <1>12, <2>2, <2>3, StartOne
<1> HIDE DEF r2
<1>14. /\ RunShape(r2) /\ SameStage(r2, r) /\ r2.stage = s
       /\ r2.program[SA] = IF cs = <<>> THEN NoProgram ELSE ProgramAt(cs, 0)
       /\ r2.program[PIM] = IF cp = <<>> THEN NoProgram ELSE ProgramAt(cp, 0)
       /\ QueueInv(r2, held) /\ Counts(r2.active, Queued(r2) \cup held)
       /\ DOMAIN r2.active = IF cp = <<>> THEN DOMAIN r1.active
                             ELSE DOMAIN r1.active \cup {<<s, PIM, cp[1]>>}
  BY <1>7, <1>12, <1>13, PlatformsAre DEF Started, SameStage
<1>15. \A c \in Chains : /\ Head(ProgramAt(c, 0).executable) = c[1] /\ Len(c) \in Nat \ {0}
                         /\ c # <<>>
  <2> SUFFICES ASSUME NEW c \in Chains
               PROVE  Head(ProgramAt(c, 0).executable) = c[1] /\ Len(c) \in Nat \ {0} /\ c # <<>>
    OBVIOUS
  <2>1. ProgramAt(c, 0).executable = <<c[0 + 1]>> BY ProgramAtIs
  <2> QED BY <2>1, ChainFacts
<1>16. Current(r2) = DOMAIN r2.active
  <2> SUFFICES ASSUME NEW o PROVE o \in Current(r2) <=> o \in DOMAIN r2.active OBVIOUS
  <2>1. o \in Current(r2) <=> \E q \in Platforms : r2.program[q] # NoProgram
                               /\ o = <<r2.stage, q, Head(r2.program[q].executable)>>
    BY DEF Current, OpId
  <2>2. o \in Current(r2) <=> \/ r2.program[SA] # NoProgram
                                 /\ o = <<s, SA, Head(r2.program[SA].executable)>>
                              \/ r2.program[PIM] # NoProgram
                                 /\ o = <<s, PIM, Head(r2.program[PIM].executable)>>
    BY <1>14, <2>1, PlatformsAre
  <2>3. (r2.program[SA] # NoProgram /\ o = <<s, SA, Head(r2.program[SA].executable)>>)
          <=> (cs # <<>> /\ o = <<s, SA, cs[1]>>)
    BY <1>6, <1>10, <1>14, <1>15
  <2>4. (r2.program[PIM] # NoProgram /\ o = <<s, PIM, Head(r2.program[PIM].executable)>>)
          <=> (cp # <<>> /\ o = <<s, PIM, cp[1]>>)
    BY <1>6, <1>10, <1>14, <1>15
  <2> QED BY <1>12, <1>14, <2>2, <2>3, <2>4
<1>17. ProgramsInv(m, r2, w)
  <2>1. ASSUME NEW p \in Platforms, NEW c, c = Chain(m, p, s),
               r2.program[p] = IF c = <<>> THEN NoProgram ELSE ProgramAt(c, 0)
        PROVE  (c = <<>> => Done(m, p, r2, w)) /\ (c # <<>> => AtWork(m, p, r2, w))
    <3>1. Position(m, p, r2.stage, w) = 0 /\ c = Chain(m, p, r2.stage) BY <1>2, <1>14, <2>1
    <3>2. c = <<>> \/ c \in Chains BY <1>1, <2>1, StagesHaveFacts, Zenon DEF StageFacts
    <3>3. CASE c = <<>>
      <4>1. Len(c) = 0 BY <3>3
      <4>2. r2.program[p] = NoProgram BY <2>1, <3>3
      <4>3. Position(m, p, r2.stage, w) = Len(Chain(m, p, r2.stage)) BY <3>1, <4>1
      <4> QED BY <3>3, <4>2, <4>3 DEF Done
    <3>4. CASE c # <<>>
      <4>1. 0 \in 0..(Len(c) - 1) BY <1>15, <3>2, <3>4
      <4>2. r2.program[p] = ProgramAt(c, 0) BY <2>1, <3>4
      <4> QED BY <3>1, <3>4, <4>1, <4>2, Zenon DEF AtWork
    <3> QED BY <3>3, <3>4
  <2>2. /\ (cs = <<>> => Done(m, SA, r2, w)) /\ (cs # <<>> => AtWork(m, SA, r2, w))
        /\ (cp = <<>> => Done(m, PIM, r2, w)) /\ (cp # <<>> => AtWork(m, PIM, r2, w))
    BY <1>14, <2>1, PlatformsAre DEF cs, cp
  <2> QED BY <1>5, <2>2, PlatformsAre DEF ProgramsInv
<1>18. FinishedInv(r2, done) BY <1>2, <1>14 DEF FinishedInv
<1>19. RunInv(m, r2, w, done, held)
  <2>1. CountInv(r2, Queued(r2) \cup held) BY <1>14, <1>16 DEF CountInv
  <2> QED BY <1>1, <1>14, <1>17, <1>18, <2>1 DEF RunInv
<1>20. Begun(r, batches, n) = r2 BY Zenon DEF Begun, r2, r1, r0, programs
<1> QED BY <1>14, <1>19, <1>20

-----------------------------------------------------------------------------
(* The tiles in the cores                                                   *)

LEMMA ConcatInjective ==
  ASSUME NEW S, NEW s \in Seq(S), NEW t \in Seq(S)
  PROVE  /\ s \o t \in Seq(S) /\ Range(s \o t) = Range(s) \cup Range(t)
         /\ IsInjective(s) /\ IsInjective(t) /\ Range(s) \cap Range(t) = {} => IsInjective(s \o t)
<1> SUFFICES ASSUME NEW z, z = s \o t, NEW a, a = Len(s), NEW b, b = Len(t)
             PROVE  /\ z \in Seq(S) /\ Range(z) = Range(s) \cup Range(t)
                    /\ IsInjective(s) /\ IsInjective(t) /\ Range(s) \cap Range(t) = {}
                         => IsInjective(z)
  OBVIOUS
<1>1. /\ z \in Seq(S) /\ Len(z) = a + b /\ a \in Nat /\ b \in Nat
      /\ \A i \in 1..a : z[i] = s[i] /\ \A j \in 1..b : z[a + j] = t[j]
      /\ DOMAIN s = 1..a /\ DOMAIN t = 1..b /\ DOMAIN z = 1..(a + b)
  BY ConcatIs
<1>2. \A i \in DOMAIN z : \/ i \in DOMAIN s /\ z[i] = s[i]
                          \/ i - a \in DOMAIN t /\ z[i] = t[i - a]
  <2> SUFFICES ASSUME NEW i \in 1..(a + b), ~(i \in 1..a)
               PROVE  i - a \in 1..b /\ z[i] = t[i - a]
    BY <1>1
  <2>1. i - a \in 1..b /\ a + (i - a) = i BY <1>1
  <2> QED BY <1>1, <2>1
<1>3. Range(z) = Range(s) \cup Range(t)
  <2>1. ASSUME NEW y \in Range(z) PROVE y \in Range(s) \cup Range(t)
    <3>1. PICK i \in DOMAIN z : y = z[i] BY DEF Range
    <3>2. \A j \in DOMAIN s : s[j] \in Range(s) BY DEF Range
    <3>3. \A j \in DOMAIN t : t[j] \in Range(t) BY DEF Range
    <3> QED BY <1>2, <3>1, <3>2, <3>3
  <2>2. ASSUME NEW y \in Range(s) PROVE y \in Range(z)
    <3>1. PICK i \in 1..a : y = s[i] BY <1>1 DEF Range
    <3>2. i \in DOMAIN z /\ z[i] = y BY <1>1, <3>1
    <3> QED BY <3>2 DEF Range
  <2>3. ASSUME NEW y \in Range(t) PROVE y \in Range(z)
    <3>1. PICK i \in 1..b : y = t[i] BY <1>1 DEF Range
    <3>2. a + i \in DOMAIN z /\ z[a + i] = y BY <1>1, <3>1
    <3> QED BY <3>2 DEF Range
  <2> QED BY <2>1, <2>2, <2>3
<1>4. ASSUME IsInjective(s), IsInjective(t), Range(s) \cap Range(t) = {}
      PROVE  IsInjective(z)
  <2> SUFFICES ASSUME NEW i \in DOMAIN z, NEW j \in DOMAIN z, z[i] = z[j] PROVE i = j
    BY DEF IsInjective
  <2>1. \A u \in DOMAIN s, v \in DOMAIN t : s[u] # t[v] BY <1>4 DEF Range
  <2>2. \A u, v \in DOMAIN s : s[u] = s[v] => u = v BY <1>4 DEF IsInjective
  <2>3. \A u, v \in DOMAIN t : t[u] = t[v] => u = v BY <1>4 DEF IsInjective
  <2>4. \/ i \in DOMAIN s /\ j \in DOMAIN s /\ s[i] = s[j]
        \/ i - a \in DOMAIN t /\ j - a \in DOMAIN t /\ t[i - a] = t[j - a]
    BY <1>2, <2>1
  <2> QED BY <1>1, <2>2, <2>3, <2>4
<1> QED BY <1>1, <1>3, <1>4

\* What HeldInv says of one core: kt are its running tiles, q the finished ones.
OwnTiles(kt) == Range(kt[SA]) \cup Range(kt[PIM])
CoreInv(kt, q) ==
  /\ kt \in [Platforms -> Seq(TileType)] /\ q \in Seq(TileType)
  /\ IsInjective(q) /\ OwnTiles(kt) \cap Range(q) = {}
  /\ \A p \in Platforms : /\ IsInjective(kt[p])
                          /\ \A t \in Range(kt[p]) : t.stage_platform = p

\* A turn of a core: the tiles in `done` end, and each platform gets the tiles of
\* add[p].
KtAfter(kt, done, add) == [p \in Platforms |-> Those(kt[p], Range(kt[p]) \ done) \o add[p]]
QAfter(rest, kt, done) == rest \o Those(kt[SA], done) \o Those(kt[PIM], done)
Gets(kt, q, add) ==
  /\ add \in [Platforms -> Seq(TileType)]
  /\ \A p \in Platforms : /\ IsInjective(add[p])
                          /\ \A t \in Range(add[p]) : /\ t \notin OwnTiles(kt) \cup Range(q)
                                                      /\ t.stage_platform = p
Turned(kt, rest, add, kt2, q2) ==
  /\ CoreInv(kt2, q2)
  /\ OwnTiles(kt2) \cup Range(q2)
       = (OwnTiles(kt) \cup Range(rest)) \cup (Range(add[SA]) \cup Range(add[PIM]))

LEMMA TurnOfCore ==
  ASSUME NEW kt, NEW rest, CoreInv(kt, rest), NEW done, NEW add, Gets(kt, rest, add)
  PROVE  Turned(kt, rest, add, KtAfter(kt, done, add), QAfter(rest, kt, done))
<1> SUFFICES ASSUME NEW kt2, kt2 = [p \in Platforms |-> Those(kt[p], Range(kt[p]) \ done) \o add[p]],
                    NEW q2, q2 = rest \o Those(kt[SA], done) \o Those(kt[PIM], done),
                    NEW q, q = rest
             PROVE  Turned(kt, rest, add, kt2, q2)
  BY DEF KtAfter, QAfter
<1>0. /\ rest \in Seq(TileType) /\ IsInjective(rest) /\ Range(rest) \subseteq Range(q)
      /\ CoreInv(kt, q) /\ add \in [Platforms -> Seq(TileType)]
      /\ \A p \in Platforms : /\ IsInjective(add[p])
                              /\ \A t \in Range(add[p]) : /\ t \notin OwnTiles(kt) \cup Range(q)
                                                          /\ t.stage_platform = p
  BY DEF CoreInv, Gets
<1>1. \A p \in Platforms : /\ kt[p] \in Seq(TileType) /\ IsInjective(kt[p])
                           /\ \A t \in Range(kt[p]) : t.stage_platform = p
  BY DEF CoreInv
<1>2. ASSUME NEW p \in Platforms
      PROVE  LET keep == Those(kt[p], Range(kt[p]) \ done)
                 out  == Those(kt[p], done)
             IN  /\ keep \in Seq(TileType) /\ IsInjective(keep) /\ Range(keep) = Range(kt[p]) \ done
                 /\ out \in Seq(TileType) /\ IsInjective(out) /\ Range(out) = Range(kt[p]) \cap done
  <2> DEFINE k == kt[p]
  <2>1. k \in Seq(TileType) /\ IsInjective(k) BY <1>1
  <2>2. Range(k) \cap (Range(k) \ done) = Range(k) \ done OBVIOUS
  <2> HIDE DEF k
  <2>3. /\ Those(k, Range(k) \ done) \in Seq(TileType) /\ IsInjective(Those(k, Range(k) \ done))
        /\ Range(Those(k, Range(k) \ done)) = Range(k) \ done
    BY <2>1, <2>2, ThoseIs
  <2>4. /\ Those(k, done) \in Seq(TileType) /\ IsInjective(Those(k, done))
        /\ Range(Those(k, done)) = Range(k) \cap done
    BY <2>1, ThoseIs
  <2> QED BY <2>3, <2>4 DEF k
<1>3. ASSUME NEW p \in Platforms
      PROVE  /\ kt2[p] \in Seq(TileType) /\ IsInjective(kt2[p])
             /\ Range(kt2[p]) = (Range(kt[p]) \ done) \cup Range(add[p])
  <2> DEFINE keep == Those(kt[p], Range(kt[p]) \ done)
  <2>1. keep \in Seq(TileType) /\ IsInjective(keep) /\ Range(keep) = Range(kt[p]) \ done BY <1>2
  <2>2. kt2[p] = keep \o add[p] OBVIOUS
  <2>3. add[p] \in Seq(TileType) /\ IsInjective(add[p]) BY <1>0
  <2>4. Range(keep) \cap Range(add[p]) = {}
    <3>1. Range(kt[p]) \subseteq OwnTiles(kt) BY PlatformsAre DEF OwnTiles
    <3> HIDE DEF keep
    <3> QED BY <1>0, <2>1, <3>1
  <2> DEFINE a == add[p]
  <2>5. /\ keep \o a \in Seq(TileType) /\ IsInjective(keep \o a)
        /\ Range(keep \o a) = Range(keep) \cup Range(a)
    <3>1. a \in Seq(TileType) /\ IsInjective(a) /\ Range(keep) \cap Range(a) = {} BY <2>3, <2>4
    <3> HIDE DEF keep, a
    <3> QED BY <2>1, <3>1, ConcatInjective
  <2>6. kt2[p] = keep \o a BY <2>2
  <2> HIDE DEF keep
  <2> QED BY <2>1, <2>5, <2>6, Zenon
<1>4. /\ q2 \in Seq(TileType) /\ IsInjective(q2)
      /\ Range(q2) = (Range(rest) \cup (Range(kt[SA]) \cap done)) \cup (Range(kt[PIM]) \cap done)
  <2> DEFINE os == Those(kt[SA], done)
             op == Those(kt[PIM], done)
  <2>1. /\ os \in Seq(TileType) /\ IsInjective(os) /\ Range(os) = Range(kt[SA]) \cap done
        /\ op \in Seq(TileType) /\ IsInjective(op) /\ Range(op) = Range(kt[PIM]) \cap done
    BY <1>2, PlatformsAre
  <2>2. q2 = (rest \o os) \o op OBVIOUS
  <2> HIDE DEF os, op
  <2>3. Range(rest) \cap Range(os) = {} BY <1>0, <2>1 DEF CoreInv, OwnTiles
  <2>4. /\ rest \o os \in Seq(TileType) /\ IsInjective(rest \o os)
        /\ Range(rest \o os) = Range(rest) \cup Range(os)
    BY <1>0, <2>1, <2>3, ConcatInjective
  <2>5. Range(rest \o os) \cap Range(op) = {}
    <3>1. Range(rest) \cap Range(op) = {} BY <2>1 DEF CoreInv, OwnTiles
    <3>2. ASSUME NEW t \in Range(os) \cap Range(op) PROVE FALSE
      <4>1. t \in Range(kt[SA]) /\ t \in Range(kt[PIM]) BY <2>1
      <4>2. t.stage_platform = SA /\ t.stage_platform = PIM BY <1>1, <4>1, PlatformsAre
      <4> QED BY <4>2, PlatformsAre
    <3> QED BY <2>4, <3>1, <3>2
  <2> DEFINE ro == rest \o os
  <2>6. /\ ro \o op \in Seq(TileType) /\ IsInjective(ro \o op)
        /\ Range(ro \o op) = Range(ro) \cup Range(op)
    <3>1. ro \in Seq(TileType) /\ IsInjective(ro) /\ Range(ro) \cap Range(op) = {} BY <2>4, <2>5
    <3> HIDE DEF ro
    <3> QED BY <2>1, <3>1, ConcatInjective
  <2>7. Range(ro) = Range(rest) \cup Range(os) /\ q2 = ro \o op BY <2>2, <2>4
  <2> HIDE DEF ro
  <2> QED BY <2>1, <2>6, <2>7
<1>5. /\ OwnTiles(kt2) = (OwnTiles(kt) \ done) \cup (Range(add[SA]) \cup Range(add[PIM]))
      /\ Range(q2) = Range(rest) \cup (OwnTiles(kt) \cap done)
  <2>1. /\ Range(kt2[SA]) = (Range(kt[SA]) \ done) \cup Range(add[SA])
        /\ Range(kt2[PIM]) = (Range(kt[PIM]) \ done) \cup Range(add[PIM])
    BY <1>3, PlatformsAre
  <2> QED BY <1>4, <2>1 DEF OwnTiles
<1>6. CoreInv(kt2, q2)
  <2>1. OwnTiles(kt2) \cap Range(q2) = {}
    <3>1. OwnTiles(kt) \cap Range(q) = {} BY DEF CoreInv
    <3>2. \A t \in Range(add[SA]) \cup Range(add[PIM]) : t \notin OwnTiles(kt) \cup Range(q)
      BY <1>0, PlatformsAre
    <3> QED BY <1>0, <1>5, <3>1, <3>2
  <2>2. \A p \in Platforms : \A t \in Range(kt2[p]) : t.stage_platform = p
    <3> SUFFICES ASSUME NEW p \in Platforms, NEW t \in Range(kt2[p]) PROVE t.stage_platform = p
      OBVIOUS
    <3>1. t \in Range(kt[p]) \/ t \in Range(add[p]) BY <1>3
    <3> QED BY <1>0, <1>1, <3>1
  <2>3. kt2 \in [Platforms -> Seq(TileType)] BY <1>3
  <2> QED BY <1>3, <1>4, <2>1, <2>2, <2>3 DEF CoreInv
<1>7. OwnTiles(kt2) \cup Range(q2)
        = (OwnTiles(kt) \cup Range(rest)) \cup (Range(add[SA]) \cup Range(add[PIM]))
  BY <1>5
<1> QED BY <1>6, <1>7 DEF Turned

LEMMA CoreInvOf ==
  ASSUME HeldInv, NEW c \in Cores
  PROVE  /\ CoreInv(core_tiles[c], finished_tiles[c])
         /\ HeldBy(c) = OwnTiles(core_tiles[c]) \cup Range(finished_tiles[c])
         /\ TilesIn(c) = OwnTiles(core_tiles[c]) /\ HeldBy(c) \subseteq Held
<1>1. TilesIn(c) = OwnTiles(core_tiles[c]) BY DEF TilesIn, OwnTiles
<1>2. /\ core_tiles[c] \in [Platforms -> Seq(TileType)] /\ finished_tiles[c] \in Seq(TileType)
      /\ IsInjective(finished_tiles[c]) /\ OwnTiles(core_tiles[c]) \cap Range(finished_tiles[c]) = {}
      /\ \A p \in Platforms : IsInjective(core_tiles[c][p])
  BY <1>1 DEF HeldInv
<1>3. \A p \in Platforms : \A t \in Range(core_tiles[c][p]) : t.stage_platform = p
  BY DEF HeldInv, Range
<1>4. CoreInv(core_tiles[c], finished_tiles[c]) BY <1>2, <1>3 DEF CoreInv
<1> QED BY <1>1, <1>4 DEF HeldBy, Held

\* A turn of core c: it loses the tiles in `gone` and gets those in `new`.
CoreSet(c, kt2, q2) ==
  /\ core_tiles' = [core_tiles EXCEPT ![c] = kt2]
  /\ finished_tiles' = [finished_tiles EXCEPT ![c] = q2]
Swapped(c, kt2, q2, gone, new) ==
  /\ gone \subseteq HeldBy(c) /\ new \cap (Held \ gone) = {}
  /\ OwnTiles(kt2) \cup Range(q2) = (HeldBy(c) \ gone) \cup new
HeldAfter(gone, new) == HeldInv' /\ Held' = (Held \ gone) \cup new

LEMMA HeldStep ==
  ASSUME HeldInv, NEW c \in Cores, NEW kt2, NEW q2, CoreInv(kt2, q2), CoreSet(c, kt2, q2),
         NEW gone, NEW new, Swapped(c, kt2, q2, gone, new)
  PROVE  HeldAfter(gone, new)
<1>0. /\ core_tiles' = [core_tiles EXCEPT ![c] = kt2]
      /\ finished_tiles' = [finished_tiles EXCEPT ![c] = q2]
      /\ gone \subseteq HeldBy(c) /\ new \cap (Held \ gone) = {}
      /\ OwnTiles(kt2) \cup Range(q2) = (HeldBy(c) \ gone) \cup new
  BY DEF CoreSet, Swapped
<1>1. /\ core_tiles \in [Cores -> [Platforms -> Seq(TileType)]]
      /\ finished_tiles \in [Cores -> Seq(TileType)]
      /\ \A a, b \in Cores : a # b => HeldBy(a) \cap HeldBy(b) = {}
  BY DEF HeldInv
<1>2. kt2 \in [Platforms -> Seq(TileType)] /\ q2 \in Seq(TileType) BY DEF CoreInv
<1>3. /\ core_tiles' \in [Cores -> [Platforms -> Seq(TileType)]]
      /\ finished_tiles' \in [Cores -> Seq(TileType)]
      /\ core_tiles'[c] = kt2 /\ finished_tiles'[c] = q2
      /\ \A d \in Cores : d # c => /\ core_tiles'[d] = core_tiles[d]
                                   /\ finished_tiles'[d] = finished_tiles[d]
  BY <1>0, <1>1, <1>2
<1>4. TilesIn(c)' = OwnTiles(kt2) /\ HeldBy(c)' = (HeldBy(c) \ gone) \cup new
  BY <1>0, <1>3 DEF TilesIn, OwnTiles, HeldBy
<1>5. \A d \in Cores : d # c => TilesIn(d)' = TilesIn(d) /\ HeldBy(d)' = HeldBy(d)
  BY <1>3 DEF TilesIn, HeldBy
<1>6. \A d \in Cores : d # c => HeldBy(d) \subseteq Held \ gone
  BY <1>0, <1>1 DEF Held
<1>7. \A a, b \in Cores : a # b => HeldBy(a)' \cap HeldBy(b)' = {}
  <2> SUFFICES ASSUME NEW a \in Cores, NEW b \in Cores, a # b
               PROVE  HeldBy(a)' \cap HeldBy(b)' = {}
    OBVIOUS
  <2>1. CASE a = c BY <1>0, <1>1, <1>4, <1>5, <1>6, <2>1
  <2>2. CASE b = c BY <1>0, <1>1, <1>4, <1>5, <1>6, <2>2
  <2>3. CASE a # c /\ b # c BY <1>1, <1>5, <2>3
  <2> QED BY <2>1, <2>2, <2>3
<1>8. Held' = (Held \ gone) \cup new
  <2>1. \A t : t \in Held' <=> \E d \in Cores : t \in HeldBy(d)' BY DEF Held
  <2>2. \A t : t \in Held <=> \E d \in Cores : t \in HeldBy(d) BY DEF Held
  <2>3. ASSUME NEW t \in Held' PROVE t \in (Held \ gone) \cup new
    <3>1. PICK d \in Cores : t \in HeldBy(d)' BY <2>1
    <3> QED BY <1>0, <1>4, <1>5, <1>6, <2>2, <3>1
  <2>4. ASSUME NEW t \in (Held \ gone) \cup new PROVE t \in Held'
    <3>1. CASE t \in new BY <1>4, <2>1, <3>1
    <3>2. CASE t \in Held \ gone
      <4>1. PICK d \in Cores : t \in HeldBy(d) BY <2>2, <3>2
      <4> QED BY <1>0, <1>4, <1>5, <2>1, <3>2, <4>1
    <3> QED BY <3>1, <3>2
  <2> QED BY <2>3, <2>4
<1>9. ASSUME NEW d \in Cores
      PROVE  /\ IsInjective(finished_tiles'[d])
             /\ TilesIn(d)' \cap Range(finished_tiles'[d]) = {}
             /\ \A p \in Platforms :
                   /\ IsInjective(core_tiles'[d][p])
                   /\ \A i \in DOMAIN core_tiles'[d][p] : core_tiles'[d][p][i].stage_platform = p
  <2>1. CASE d = c
    <3>1. \A p \in Platforms : \A i \in DOMAIN kt2[p] : kt2[p][i].stage_platform = p
      BY DEF CoreInv, Range
    <3> QED BY <1>3, <1>4, <2>1, <3>1 DEF CoreInv
  <2>2. CASE d # c BY <1>3, <1>5, <2>2 DEF HeldInv
  <2> QED BY <2>1, <2>2
<1>10. HeldInv' BY <1>3, <1>7, <1>9 DEF HeldInv
<1> QED BY <1>8, <1>10 DEF HeldAfter

-----------------------------------------------------------------------------
(* The steps of the simulator                                               *)

LEMMA SameRun ==
  ASSUME NEW m, NEW r, NEW w, NEW done, NEW held, RunInv(m, r, w, done, held),
         NEW x, RunShape(x), x.program = r.program, x.queue = r.queue, x.active = r.active,
         x.stage = r.stage
  PROVE  RunInv(m, x, w, done, held)
<1>1. ProgramsInv(m, x, w) /\ Current(x) = Current(r) /\ FinishedInv(x, done)
  <2>1. ProgramsInv(m, r, w) /\ FinishedInv(r, done) BY DEF RunInv
  <2> QED BY <2>1, SamePrograms
<1>2. Queued(x) = Queued(r) /\ QueueInv(x, held) BY DEF Queued, QueueInv, RunInv
<1>3. CountInv(x, Queued(x) \cup held)
  <2>1. CountInv(r, Queued(r) \cup held) BY DEF RunInv
  <2> QED BY <1>1, <1>2, <2>1 DEF CountInv
<1> QED BY <1>1, <1>2, <1>3 DEF RunInv

LEMMA RunFields ==
  /\ Run.program = model_program /\ Run.queue = executable_tile_queue
  /\ Run.active = active_operation_stats /\ Run.stage = stage /\ Run.prev = prev_stage
  /\ Run.changed = has_stage_changed /\ Run.log = stage_stats
  /\ DOMAIN Run = {"program", "queue", "active", "stage", "prev", "changed", "log"}
BY DEF Run

LEMMA SetRunInv ==
  ASSUME NEW m, NEW r, NEW w, NEW done, NEW held, RunInv(m, r, w, done, held), SetRun(r)
  PROVE  /\ RunInv(m, Run', w, done, held)
         /\ SameStage(Run', r) /\ Run'.program = r.program
<1>1. /\ Run'.program = r.program /\ Run'.queue = r.queue /\ Run'.active = r.active
      /\ Run'.stage = r.stage /\ Run'.prev = r.prev /\ Run'.changed = r.changed
      /\ Run'.log = r.log
      /\ DOMAIN Run' = {"program", "queue", "active", "stage", "prev", "changed", "log"}
  BY DEF Run, SetRun
<1> SUFFICES ASSUME NEW x, x = Run',
                    /\ x.program = r.program /\ x.queue = r.queue /\ x.active = r.active
                    /\ x.stage = r.stage /\ x.prev = r.prev /\ x.changed = r.changed
                    /\ x.log = r.log
                    /\ DOMAIN x = {"program", "queue", "active", "stage", "prev", "changed", "log"}
             PROVE  RunInv(m, x, w, done, held) /\ SameStage(x, r) /\ x.program = r.program
  BY <1>1
<1>2. RunShape(x) BY DEF RunInv, RunShape
<1>3. SameStage(x, r) BY DEF SameStage
<1> QED BY <1>2, <1>3, SameRun

\* The turn of a core, as far as the run and the tiles are concerned.
TurnIs(m) ==
  /\ RunInv(m, Run', work', finished_operation_stats', Held') /\ HeldInv'
  /\ SameStage(Run', Run) \/ Advanced(m, Run', Run)
  /\ \/ UNCHANGED work
     \/ \E t \in Held : Run.active[t.operation_id] = 1 /\ work' = WorkAfter(Run, work, t)

LEMMA CoreTurnInv ==
  ASSUME RunInv(SubBatchMode, Run, work, finished_operation_stats, Held), HeldInv,
         NEW c \in Cores, NEW n \in 1..MaxTiles, NEW spare \in BOOLEAN,
         NEW done \in SUBSET TilesIn(c), CoreTurn(c, n, spare, done)
  PROVE  TurnIs(SubBatchMode)
<1> DEFINE m      == SubBatchMode
           q      == finished_tiles[c]
           kt     == core_tiles[c]
           tile   == Head(q)
           popped == q # <<>>
           r      == IF popped THEN finish_tile(tile, n) ELSE Run
           idle   == \A p \in Platforms : r.program[p] = NoProgram
           issued == {p \in Platforms : HasTile(p, r) /\ CanIssue(c, p, spare)}
           r1     == IF SA \in issued THEN get_tile(SA, r) ELSE r
           r2     == IF PIM \in issued THEN get_tile(PIM, r1) ELSE r1
           rest   == IF popped THEN Tail(q) ELSE <<>>
           gone   == IF popped THEN {tile} ELSE {}
           h1     == Held \ gone
           w2     == work'
           d2     == finished_operation_stats'
<1>1. /\ CoreInv(kt, q) /\ HeldBy(c) = OwnTiles(kt) \cup Range(q)
      /\ TilesIn(c) = OwnTiles(kt) /\ HeldBy(c) \subseteq Held
  BY CoreInvOf
<1>2. q \in Seq(TileType) /\ IsInjective(q) /\ kt \in [Platforms -> Seq(TileType)]
      /\ OwnTiles(kt) \cap Range(q) = {}
  BY <1>1 DEF CoreInv
<1>3. /\ rest \in Seq(TileType) /\ IsInjective(rest) /\ Range(q) \ gone = Range(rest)
      /\ gone \subseteq Range(q) /\ Range(rest) \subseteq Range(q)
      /\ popped => tile \in Range(q)
  <2> HIDE DEF q
  <2>1. CASE q # <<>>
    <3>1. /\ Head(q) \in Range(q) /\ Head(q) \notin Range(Tail(q))
          /\ Tail(q) \in Seq(TileType) /\ IsInjective(Tail(q))
          /\ Range(q) = Range(Tail(q)) \cup {Head(q)}
      BY <1>2, <2>1, TailIs
    <3> QED BY <2>1, <3>1
  <2>2. CASE q = <<>>
    <3>1. Range(<<>>) = {} /\ IsInjective(<<>>) /\ <<>> \in Seq(TileType) BY DEF Range, IsInjective
    <3> QED BY <2>2, <3>1
  <2> QED BY <2>1, <2>2
<1>4. gone \subseteq HeldBy(c) /\ gone \subseteq Held BY <1>1, <1>3
<1>5. /\ RunInv(m, r, w2, d2, h1) /\ (SameStage(r, Run) \/ Advanced(m, r, Run))
      /\ \/ UNCHANGED work
         \/ \E t \in Held : Run.active[t.operation_id] = 1 /\ work' = WorkAfter(Run, work, t)
  <2>1. CASE popped
    <3>1. tile \in Held BY <1>1, <1>3, <2>1
    <3>2. r = Report(Run, tile, n) BY <2>1, FinishReports
    <3>3. RecordFinish(tile) BY <2>1, Zenon DEF CoreTurn
    <3> HIDE DEF tile
    <3>4. w2 = WorkAfter(Run, work, tile) /\ d2 = DoneAfter(Run, finished_operation_stats, tile)
      BY <3>3, RunFields DEF RecordFinish, WorkAfter, DoneAfter, last_tile
    <3>5. h1 = Held \ {tile} BY <2>1
    <3>6. /\ RunInv(m, Report(Run, tile, n), WorkAfter(Run, work, tile),
                    DoneAfter(Run, finished_operation_stats, tile), Held \ {tile})
          /\ SameStage(Report(Run, tile, n), Run) \/ Advanced(m, Report(Run, tile, n), Run)
      BY <3>1, ReportInv
    <3>7. \/ UNCHANGED work
          \/ \E t \in Held : Run.active[t.operation_id] = 1 /\ work' = WorkAfter(Run, work, t)
      <4>1. CASE Run.active[tile.operation_id] = 1 BY <3>1, <3>4, <4>1
      <4>2. CASE Run.active[tile.operation_id] # 1 BY <3>4, <4>2 DEF WorkAfter
      <4> QED BY <4>1, <4>2
    <3> HIDE DEF r, h1, w2, d2
    <3> QED BY <3>2, <3>4, <3>5, <3>6, <3>7
  <2>2. CASE ~popped
    <3>1. UNCHANGED <<finished_operation_stats, work>> BY <2>2, Zenon DEF CoreTurn
    <3>2. r = Run /\ h1 = Held BY <2>2
    <3>3. w2 = work /\ d2 = finished_operation_stats BY <3>1
    <3> HIDE DEF r, h1, w2, d2, m
    <3> QED BY <3>1, <3>2, <3>3 DEF SameStage, m
  <2> QED BY <2>1, <2>2
<1>6. CASE idle
  <2>1. /\ SetRun(r) /\ done = {} /\ finished_tiles' = [finished_tiles EXCEPT ![c] = rest]
        /\ core_tiles' = core_tiles
    BY <1>6, Zenon DEF CoreTurn
  <2>2. core_tiles' = [core_tiles EXCEPT ![c] = kt]
    <3>1. core_tiles \in [Cores -> [Platforms -> Seq(TileType)]] BY DEF HeldInv
    <3> QED BY <2>1, <3>1
  <2>3. CoreInv(kt, rest) BY <1>1, <1>3 DEF CoreInv
  <2> DEFINE none == {}
  <2>4. /\ OwnTiles(kt) \cup Range(rest) = (HeldBy(c) \ gone) \cup none
        /\ none \cap (Held \ gone) = {}
    BY <1>1, <1>2, <1>3
  <2> HIDE DEF r, rest, gone, kt, none
  <2>5. HeldInv' /\ Held' = (Held \ gone) \cup none
    <3>1. CoreSet(c, kt, rest) BY <2>1, <2>2 DEF CoreSet
    <3>2. Swapped(c, kt, rest, gone, none) BY <1>4, <2>4 DEF Swapped
    <3>3. HeldAfter(gone, none) BY <2>3, <3>1, <3>2, HeldStep
    <3> QED BY <3>3 DEF HeldAfter
  <2>6. Held' = h1 BY <2>5 DEF none
  <2> HIDE DEF h1, w2, d2, m
  <2>7. RunInv(m, Run', w2, d2, h1) /\ SameStage(Run', r) /\ Run'.program = r.program
    BY <1>5, <2>1, SetRunInv
  <2>8. SameStage(Run', Run) \/ Advanced(m, Run', Run)
    BY <1>5, <2>7 DEF SameStage, Advanced
  <2> QED BY <1>5, <2>5, <2>6, <2>7, <2>8 DEF TurnIs, w2, d2, m
<1>7. CASE ~idle
  <2> DEFINE Keep(p) == Those(kt[p], Range(kt[p]) \ done)
             Out(p)  == Those(kt[p], done)
             add == [p \in Platforms |-> IF p \in issued THEN <<top_tile(p, r)>> ELSE <<>>]
             kt2 == [p \in Platforms |-> Keep(p) \o add[p]]
             q2  == rest \o Out(SA) \o Out(PIM)
             new == Range(add[SA]) \cup Range(add[PIM])
             h2  == IF SA \in issued THEN h1 \cup {top_tile(SA, r)} ELSE h1
  <2>1. SetRun(r2) /\ finished_tiles' = [finished_tiles EXCEPT ![c] = q2]
    BY <1>7, Zenon DEF CoreTurn
  <2>2. core_tiles' = [core_tiles EXCEPT ![c] = kt2]
    <3>1. core_tiles' = [core_tiles EXCEPT ![c] =
             [p \in Platforms |-> Keep(p) \o (IF p \in issued THEN <<top_tile(p, r)>> ELSE <<>>)]]
      BY <1>7, Zenon DEF CoreTurn
    <3>2. \A p \in Platforms : add[p] = IF p \in issued THEN <<top_tile(p, r)>> ELSE <<>>
      OBVIOUS
    <3>3. kt2 = [p \in Platforms |-> Keep(p) \o (IF p \in issued THEN <<top_tile(p, r)>> ELSE <<>>)]
      <4> HIDE DEF add, issued, r
      <4> QED BY <3>2
    <3> HIDE DEF kt2, issued, r, Keep
    <3> QED BY <3>1, <3>3
  <2>3. \A p \in issued : p \in Platforms /\ r.queue[p] # <<>> BY DEF HasTile
  <2>4. /\ RunInv(m, r1, w2, d2, h2) /\ SameStage(r1, r) /\ r1.program = r.program
        /\ r1.queue[PIM] = r.queue[PIM]
        /\ SA \in issued => /\ top_tile(SA, r) \notin h1 /\ top_tile(SA, r) \in TileType
                            /\ top_tile(SA, r).stage_platform = SA
    <3> HIDE DEF r, h1, issued, w2, d2, m
    <3>1. CASE SA \in issued
      <4>1. Taken(m, r, w2, d2, h1, SA, get_tile(SA, r), top_tile(SA, r))
        BY <1>5, <2>3, <3>1, GetTileInv
      <4>2. r1 = get_tile(SA, r) /\ h2 = h1 \cup {top_tile(SA, r)} BY <3>1
      <4> HIDE DEF r1, h2
      <4> QED BY <4>1, <4>2, PlatformsAre DEF Taken
    <3>2. CASE SA \notin issued
      <4>1. r1 = r /\ h2 = h1 BY <3>2
      <4> HIDE DEF r1, h2
      <4> QED BY <1>5, <3>2, <4>1 DEF SameStage
    <3> QED BY <3>1, <3>2
  <2> DEFINE h3 == IF PIM \in issued THEN h2 \cup {top_tile(PIM, r)} ELSE h2
  <2>5. /\ RunInv(m, r2, w2, d2, h3) /\ SameStage(r2, r) /\ r2.program = r.program
        /\ PIM \in issued => /\ top_tile(PIM, r) \notin h2 /\ top_tile(PIM, r) \in TileType
                             /\ top_tile(PIM, r).stage_platform = PIM
    <3> HIDE DEF r, r1, h2, issued, w2, d2, m
    <3>0. top_tile(PIM, r) = top_tile(PIM, r1) BY <2>4 DEF top_tile
    <3>1. CASE PIM \in issued
      <4>1. Taken(m, r1, w2, d2, h2, PIM, get_tile(PIM, r1), top_tile(PIM, r1))
        BY <2>3, <2>4, <3>1, GetTileInv
      <4>2. r2 = get_tile(PIM, r1) /\ h3 = h2 \cup {top_tile(PIM, r1)} BY <3>0, <3>1
      <4> HIDE DEF r2, h3
      <4>3. /\ RunInv(m, r2, w2, d2, h3) /\ SameStage(r2, r1) /\ r2.program = r1.program
            /\ top_tile(PIM, r) \notin h2 /\ top_tile(PIM, r) \in TileType
            /\ top_tile(PIM, r).stage_platform = PIM
        BY <3>0, <4>1, <4>2 DEF Taken
      <4> QED BY <2>4, <4>3 DEF SameStage
    <3>2. CASE PIM \notin issued
      <4>1. r2 = r1 /\ h3 = h2 BY <3>2
      <4> HIDE DEF r2, h3
      <4> QED BY <2>4, <3>2, <4>1
    <3> QED BY <3>1, <3>2
  <2>6. new = {t \in TileType : \E p \in issued : t = top_tile(p, r)} /\ h3 = h1 \cup new
    <3>1. /\ Range(add[SA]) = IF SA \in issued THEN {top_tile(SA, r)} ELSE {}
          /\ Range(add[PIM]) = IF PIM \in issued THEN {top_tile(PIM, r)} ELSE {}
      <4>1. \A t : Range(<<t>>) = {t} BY DEF Range
      <4>2. Range(<<>>) = {} BY DEF Range
      <4>3. /\ add[SA] = IF SA \in issued THEN <<top_tile(SA, r)>> ELSE <<>>
            /\ add[PIM] = IF PIM \in issued THEN <<top_tile(PIM, r)>> ELSE <<>>
        BY PlatformsAre
      <4> HIDE DEF add, issued, r
      <4> QED BY <4>1, <4>2, <4>3
    <3>2. \A p \in issued : p = SA \/ p = PIM BY PlatformsAre
    <3> HIDE DEF add, issued, r, h1
    <3> QED BY <2>4, <2>5, <3>1, <3>2
  <2>7. /\ add \in [Platforms -> Seq(TileType)]
        /\ \A p \in Platforms : /\ IsInjective(add[p])
                                /\ \A t \in Range(add[p]) : t \notin h1 /\ t.stage_platform = p
    <3>0. h1 \subseteq h2 OBVIOUS
    <3>1. ASSUME NEW p \in Platforms
          PROVE  /\ add[p] \in Seq(TileType) /\ IsInjective(add[p])
                 /\ \A t \in Range(add[p]) : t \notin h1 /\ t.stage_platform = p
      <4>1. p \in issued => /\ top_tile(p, r) \notin h1 /\ top_tile(p, r) \in TileType
                            /\ top_tile(p, r).stage_platform = p
        <5> HIDE DEF r, h1, h2, issued
        <5> QED BY <2>4, <2>5, <3>0, PlatformsAre
      <4>2. add[p] = IF p \in issued THEN <<top_tile(p, r)>> ELSE <<>> OBVIOUS
      <4>3. \A t \in TileType : <<t>> \in Seq(TileType) /\ IsInjective(<<t>>) /\ Range(<<t>>) = {t}
        BY DEF IsInjective, Range
      <4>4. <<>> \in Seq(TileType) /\ IsInjective(<<>>) /\ Range(<<>>) = {} BY DEF IsInjective, Range
      <4> HIDE DEF r, h1, issued, add
      <4> QED BY <4>1, <4>2, <4>3, <4>4
    <3>2. add = [p \in Platforms |-> add[p]] OBVIOUS
    <3> HIDE DEF add
    <3> QED BY <3>1, <3>2
  <2>8. \A p \in Platforms : \A t \in Range(add[p]) : t \notin OwnTiles(kt) \cup Range(rest)
    <3>1. OwnTiles(kt) \cup Range(rest) \subseteq h1 BY <1>1, <1>2, <1>3
    <3> HIDE DEF add, h1, kt, rest
    <3> QED BY <2>7, <3>1
  <2>9. CoreInv(kt, rest) BY <1>1, <1>3 DEF CoreInv
  <2>10. /\ CoreInv(kt2, q2)
         /\ OwnTiles(kt2) \cup Range(q2) = (OwnTiles(kt) \cup Range(rest)) \cup new
    <3>1. kt2 = KtAfter(kt, done, add) /\ q2 = QAfter(rest, kt, done) BY DEF KtAfter, QAfter
    <3> HIDE DEF add, rest, kt, kt2, q2
    <3>2. Gets(kt, rest, add)
      <4>1. ASSUME NEW p \in Platforms, NEW t \in Range(add[p])
            PROVE  t \notin OwnTiles(kt) \cup Range(rest) /\ t.stage_platform = p
        BY <2>7, <2>8
      <4> QED BY <2>7, <4>1 DEF Gets
    <3>3. Turned(kt, rest, add, KtAfter(kt, done, add), QAfter(rest, kt, done))
      BY <2>9, <3>2, TurnOfCore
    <3>4. Turned(kt, rest, add, kt2, q2) BY <3>1, <3>3
    <3> QED BY <3>4 DEF Turned
  <2>11. /\ OwnTiles(kt) \cup Range(rest) = HeldBy(c) \ gone
         /\ new \cap (Held \ gone) = {}
    <3>1. OwnTiles(kt) \cup Range(rest) = HeldBy(c) \ gone BY <1>1, <1>2, <1>3
    <3>2. new \cap h1 = {}
      <4> HIDE DEF add, h1
      <4> QED BY <2>7, PlatformsAre
    <3> QED BY <3>1, <3>2
  <2> HIDE DEF r, r2, rest, gone, kt, kt2, q2, new
  <2>12. HeldInv' /\ Held' = (Held \ gone) \cup new
    <3>1. CoreSet(c, kt2, q2) BY <2>1, <2>2 DEF CoreSet
    <3>2. Swapped(c, kt2, q2, gone, new) BY <1>4, <2>10, <2>11 DEF Swapped
    <3>3. HeldAfter(gone, new) BY <2>10, <3>1, <3>2, HeldStep
    <3> QED BY <3>3 DEF HeldAfter
  <2>13. Held' = h3 BY <2>6, <2>12
  <2> HIDE DEF h1, h3, w2, d2, m
  <2>14. RunInv(m, Run', w2, d2, h3) /\ SameStage(Run', r2) /\ Run'.program = r2.program
    BY <2>1, <2>5, SetRunInv
  <2>15. SameStage(Run', Run) \/ Advanced(m, Run', Run)
    BY <1>5, <2>5, <2>14 DEF SameStage, Advanced
  <2> QED BY <1>5, <2>12, <2>13, <2>14, <2>15 DEF TurnIs, w2, d2, m
<1> QED BY <1>6, <1>7

\* Scheduler::cycle, as far as the programs and the stage are concerned: b are
\* the sub-batches it goes on with.
Cycled(b, n) ==
  /\ UNCHANGED <<config, finished_operation_stats>>
  /\ SubBatchMode \/ (DOMAIN b = 1..2 /\ b[2] = <<>>)
  /\ \/ /\ UNCHANGED <<stageVars, programVars>>
        /\ breq' \in {b, [k \in 1..2 |-> <<>>]}
        /\ completed_request_queue' = completed_request_queue \/ stage = Finish
     \/ /\ NoPrograms /\ stage # Finish /\ breq' = b /\ make_program(b, n)
        /\ b[1] # <<>> /\ (IF SubBatchMode THEN b[2] # <<>> ELSE b[2] = <<>>)
        /\ UNCHANGED completed_request_queue

LEMMA SchedulerCases ==
  ASSUME BatchInv, NEW n, scheduler_cycle(n)
  PROVE  \E b : Cycled(b, n)
<1> DEFINE a     == IF NeedsBatches THEN allocate_requests
                    ELSE [active |-> active_reqs, initiated |-> is_initiated,
                          queues |-> active_request_queues]
           b     == IF NeedsBatches THEN group_sub_batches(a.queues) ELSE breq
           ready == /\ NoPrograms
                    /\ IF SubBatchMode THEN \A k \in 1..2 : b[k] # <<>>
                                       ELSE \E k \in 1..2 : b[k] # <<>>
<1>1. /\ UNCHANGED <<config, finished_operation_stats>>
      /\ IF ready /\ stage = Finish
         THEN /\ cleanup_sub_batches
              /\ breq' = [k \in 1..2 |-> <<>>]
              /\ UNCHANGED <<stageVars, programVars>>
         ELSE /\ active_reqs' = a.active /\ is_initiated' = a.initiated
              /\ breq' = b
              /\ UNCHANGED <<request_queue, completed_request_queue, generated>>
              /\ IF ready THEN make_program(b, n) ELSE UNCHANGED <<stageVars, programVars>>
  BY Zenon DEF scheduler_cycle
<1>2. SubBatchMode \/ (DOMAIN b = 1..2 /\ b[2] = <<>>)
  <2> SUFFICES ASSUME ~SubBatchMode PROVE DOMAIN b = 1..2 /\ b[2] = <<>> OBVIOUS
  <2>1. DOMAIN breq = 1..2 /\ breq[2] = <<>> BY DEF BatchInv
  <2>2. CASE ~NeedsBatches BY <2>1, <2>2
  <2>3. CASE NeedsBatches
    <3> DEFINE chs == [i \in 1..NumChannels |-> i - 1]
               more == FlattenSeq([i \in 1..NumChannels |-> a.queues[chs[i]]])
    <3>1. group_sub_batches(a.queues) = [breq EXCEPT ![1] = @ \o more]
      BY Zenon DEF group_sub_batches
    <3> HIDE DEF more, a
    <3>2. b = [breq EXCEPT ![1] = @ \o more] BY <2>3, <3>1
    <3> HIDE DEF b
    <3> QED BY <2>1, <3>2
  <2> QED BY <2>2, <2>3
<1>3. ready => NoPrograms /\ b[1] # <<>> /\ (IF SubBatchMode THEN b[2] # <<>> ELSE b[2] = <<>>)
  <2> HIDE DEF b
  <2>1. 1..2 = {1, 2} OBVIOUS
  <2> QED BY <1>2, <2>1
<1> HIDE DEF a, b, ready
<1>4. Cycled(b, n)
  <2>1. CASE ready /\ stage = Finish BY <1>1, <1>2, <2>1 DEF Cycled
  <2>2. CASE ~(ready /\ stage = Finish) BY <1>1, <1>2, <1>3, <2>2 DEF Cycled
  <2> QED BY <2>1, <2>2
<1> QED BY <1>4

LEMMA MakeProgramIs == ASSUME NEW b, NEW n, make_program(b, n) PROVE SetRun(Begun(Run, b, n))
<1>1. Run.stage = stage BY DEF Run
<1>2. SetRun(LET programs == [p \in Platforms |-> init_program(p, stage, b[sub_batch_on(p, stage)])]
                 r1 == refresh_status(SA, n[SA], [Run EXCEPT !.program = programs])
             IN  refresh_status(PIM, n[PIM], r1))
  BY Zenon DEF make_program
<1>3. [p \in Platforms |-> init_program(p, stage, b[sub_batch_on(p, stage)])]
        = [p \in Platforms |-> init_program(p, Run.stage, b[sub_batch_on(p, Run.stage)])]
  BY <1>1
<1> QED BY <1>2, <1>3, Zenon DEF Begun

LEMMA RunIdle == NoPrograms <=> \A p \in Platforms : Run.program[p] = NoProgram
BY RunFields DEF NoPrograms

LEMMA RunSame ==
  ASSUME UNCHANGED <<stageVars, programVars>>
  PROVE  Run' = Run
BY DEF Run, stageVars, programVars

LEMMA HeldSame ==
  ASSUME UNCHANGED coreVars
  PROVE  Held' = Held /\ (HeldInv <=> HeldInv')
<1>1. core_tiles' = core_tiles /\ finished_tiles' = finished_tiles BY DEF coreVars
<1>2. \A c : TilesIn(c)' = TilesIn(c) /\ HeldBy(c)' = HeldBy(c) BY <1>1 DEF TilesIn, HeldBy
<1>3. Held' = Held BY <1>2 DEF Held
<1> QED BY <1>1, <1>2, <1>3 DEF HeldInv

LEMMA SameInv ==
  ASSUME Inv, UNCHANGED <<config, finished_operation_stats, stage, programVars, work, breq>>,
         UNCHANGED coreVars, turn' \in Cores
  PROVE  Inv'
<1>1. Held' = Held /\ HeldInv' BY HeldSame DEF Inv
<1>2. /\ Run'.program = Run.program /\ Run'.queue = Run.queue /\ Run'.active = Run.active
      /\ Run'.stage = Run.stage
      /\ DOMAIN Run' = {"program", "queue", "active", "stage", "prev", "changed", "log"}
  BY DEF Run, programVars
<1>3. RunShape(Run')
  <2>1. RunShape(Run) BY DEF Inv, RunInv
  <2> SUFFICES ASSUME NEW x, x = Run', x.program = Run.program, x.queue = Run.queue,
                      DOMAIN x = {"program", "queue", "active", "stage", "prev", "changed", "log"}
               PROVE  RunShape(x)
    BY <1>2
  <2> QED BY <2>1 DEF RunShape
<1>4. RunInv(SubBatchMode, Run', work, finished_operation_stats, Held)
  <2> SUFFICES ASSUME NEW x, x = Run', x.program = Run.program, x.queue = Run.queue,
                      x.active = Run.active, x.stage = Run.stage, RunShape(x)
               PROVE  RunInv(SubBatchMode, x, work, finished_operation_stats, Held)
    BY <1>2, <1>3
  <2>1. RunInv(SubBatchMode, Run, work, finished_operation_stats, Held) BY DEF Inv
  <2> QED BY <2>1, SameRun
<1>5. RunInv(SubBatchMode, Run, work, finished_operation_stats, Held)'
  BY <1>1, <1>4 DEF SubBatchMode
<1>6. BatchInv' BY DEF BatchInv, Inv, SubBatchMode
<1> QED BY <1>1, <1>5, <1>6 DEF Inv

LEMMA InitInv == ASSUME Init PROVE Inv
<1>1. /\ config \in Configs /\ SubBatchMode \in BOOLEAN
  BY SchedulerAssumption DEF Init, SchedulerInit, SubBatchMode
<1>2. /\ Run.program = [p \in Platforms |-> NoProgram] /\ Run.queue = [p \in Platforms |-> <<>>]
      /\ Run.active = << >> /\ Run.stage = A
  BY RunFields DEF Init, SchedulerInit
<1>3. /\ core_tiles = [c \in Cores |-> [p \in Platforms |-> <<>>]]
      /\ finished_tiles = [c \in Cores |-> <<>>] /\ finished_operation_stats = {}
      /\ work = [b \in 1..2 |-> <<>>] /\ turn = 1 /\ breq = [k \in 1..2 |-> <<>>]
  BY DEF Init, SchedulerInit
<1>4. Range(<<>>) = {} /\ IsInjective(<<>>) /\ <<>> \in Seq(TileType) BY DEF Range, IsInjective
<1>5. \A c \in Cores : TilesIn(c) = {} /\ HeldBy(c) = {}
  <2>1. \A c \in Cores : core_tiles[c][SA] = <<>> /\ core_tiles[c][PIM] = <<>>
                         /\ finished_tiles[c] = <<>>
    BY <1>3, PlatformsAre
  <2> QED BY <1>4, <2>1 DEF TilesIn, HeldBy
<1>6. Held = {} BY <1>5 DEF Held
<1>7. HeldInv
  <2>1. \A c \in Cores : /\ finished_tiles[c] = <<>>
                         /\ \A p \in Platforms : core_tiles[c][p] = <<>>
    BY <1>3
  <2>2. \A c \in Cores : \A p \in Platforms : \A i \in DOMAIN core_tiles[c][p] : FALSE
    BY <2>1
  <2>3. /\ core_tiles \in [Cores -> [Platforms -> Seq(TileType)]]
        /\ finished_tiles \in [Cores -> Seq(TileType)]
    BY <1>3, <1>4
  <2> QED BY <1>4, <1>5, <2>1, <2>2, <2>3 DEF HeldInv
<1>8. BatchInv BY <1>1, <1>3 DEF BatchInv
<1>9. turn \in Cores BY <1>3, SimulatorAssumption DEF Cores
<1> SUFFICES ASSUME NEW r, r = Run, NEW m, m = SubBatchMode
             PROVE  RunInv(m, r, work, {}, {})
  BY <1>3, <1>6, <1>7, <1>8, <1>9 DEF Inv
<1>10. RunShape(r) BY <1>2, RunFields DEF RunShape
<1>11. r.stage \in Reached(m) BY <1>2, StageNumbers DEF Reached, A, B, E, Finish
<1>12. WorkInv(m, work)
  <2>1. \A b \in 1..2 : work[b] = <<>> /\ Len(work[b]) = 0 BY <1>3
  <2>2. \A b \in 1..2 : Len(Layers(m, b)) \in Nat
    BY DEF Layers, OneLayer, QkvGen, Mha, ProjFfn
  <2>3. work \in [1..2 -> Seq(OpKinds)] BY <1>3
  <2> QED BY <2>1, <2>2, <2>3 DEF WorkInv
<1>13. ProgramsInv(m, r, work)
  <2>1. \A b \in 1..2 : Len(work[b]) = 0 /\ Base(m, b, r.stage) = 0
    BY <1>2, <1>3 DEF Base, A
  <2>2. \A p \in Platforms : sub_batch_on(p, r.stage) \in 1..2 BY DEF sub_batch_on
  <2>3. \A p \in Platforms : Position(m, p, r.stage, work) = 0 BY <2>1, <2>2 DEF Position
  <2>4. \A p \in Platforms : r.program[p] = NoProgram BY <1>2
  <2> QED BY <2>3, <2>4 DEF ProgramsInv, NotBegun
<1>14. Queued(r) \cup {} = {} /\ QueueInv(r, {})
  <2>1. \A p \in Platforms : r.queue[p] = <<>> BY <1>2
  <2>2. Queued(r) \cup {} = {}
    <3>1. r.queue[SA] = <<>> /\ r.queue[PIM] = <<>> BY <2>1, PlatformsAre
    <3>2. Queued(r) = Range(<<>>) \cup Range(<<>>) BY <3>1, Zenon DEF Queued
    <3> QED BY <1>4, <3>2
  <2>3. ASSUME NEW p \in Platforms
        PROVE  /\ r.queue[p] \in Seq(TileType) /\ IsInjective(r.queue[p])
               /\ \A i \in DOMAIN r.queue[p] : FALSE
    <3>1. r.queue[p] = <<>> BY <2>1
    <3>2. \A i \in DOMAIN <<>> : FALSE OBVIOUS
    <3> QED BY <1>4, <3>1, <3>2, Zenon
  <2>4. QueueInv(r, {}) BY <2>3 DEF QueueInv
  <2> QED BY <2>2, <2>4
<1>15. CountInv(r, Queued(r) \cup {})
  <2>1. Current(r) = {} BY <1>2 DEF Current
  <2>2. DOMAIN r.active = {} BY <1>2
  <2>3. IsFiniteSet({}) BY FS_EmptySet
  <2> QED BY <1>14, <2>1, <2>2, <2>3 DEF CountInv, Counts
<1>16. FinishedInv(r, {}) BY DEF FinishedInv
<1> QED BY <1>1, <1>10, <1>11, <1>12, <1>13, <1>14, <1>15, <1>16 DEF RunInv

LEMMA BatchStep ==
  ASSUME BatchInv, NEW b, SubBatchMode \/ (DOMAIN b = 1..2 /\ b[2] = <<>>), config' = config,
         breq' \in {b, [k \in 1..2 |-> <<>>]}
  PROVE  BatchInv'
<1>1. DOMAIN [k \in 1..2 |-> <<>>] = 1..2 /\ [k \in 1..2 |-> <<>>][2] = <<>> OBVIOUS
<1>2. SubBatchMode' = SubBatchMode BY DEF SubBatchMode
<1>3. SubBatchMode \/ (DOMAIN breq' = 1..2 /\ breq'[2] = <<>>)
  <2>1. CASE breq' = b BY <2>1
  <2>2. CASE breq' = [k \in 1..2 |-> <<>>] BY <1>1, <2>2
  <2> QED BY <2>1, <2>2
<1> QED BY <1>2, <1>3 DEF BatchInv

LEMMA SchedulerStep ==
  ASSUME Inv, SchedulerCycle
  PROVE  Inv' /\ SameStage(Run', Run)
<1>1. PICK n \in TileCounts : scheduler_cycle(n) BY DEF SchedulerCycle
<1>2. PICK b : Cycled(b, n) BY <1>1, SchedulerCases DEF Inv
<1>3. /\ UNCHANGED <<config, finished_operation_stats>> /\ UNCHANGED coreVars /\ UNCHANGED work
      /\ turn' \in Cores /\ BatchInv'
  <2>1. UNCHANGED coreVars /\ UNCHANGED work /\ turn' = 1 BY DEF SchedulerCycle
  <2>2. BatchInv'
    <3>1. /\ SubBatchMode \/ (DOMAIN b = 1..2 /\ b[2] = <<>>)
          /\ config' = config /\ breq' \in {b, [k \in 1..2 |-> <<>>]}
      BY <1>2 DEF Cycled
    <3> QED BY <3>1, BatchStep DEF Inv
  <2> QED BY <1>2, <2>1, <2>2, SimulatorAssumption DEF Cycled, Cores
<1>4. Held' = Held /\ HeldInv' BY <1>3, HeldSame DEF Inv
<1>5. SubBatchMode' = SubBatchMode BY <1>3 DEF SubBatchMode
<1>6. RunInv(SubBatchMode, Run, work, finished_operation_stats, Held) BY DEF Inv
<1>7. RunInv(SubBatchMode, Run', work, finished_operation_stats, Held) /\ SameStage(Run', Run)
  <2>1. CASE UNCHANGED <<stageVars, programVars>>
    <3>1. Run' = Run BY <2>1, RunSame
    <3> QED BY <1>6, <3>1 DEF SameStage
  <2>2. CASE /\ NoPrograms /\ stage # Finish /\ make_program(b, n)
             /\ b[1] # <<>> /\ (IF SubBatchMode THEN b[2] # <<>> ELSE b[2] = <<>>)
    <3>1. \A p \in Platforms : Run.program[p] = NoProgram BY <2>2, RunIdle
    <3>2. Run.stage # Finish BY <2>2, RunFields
    <3>3. n \in [Platforms -> 1..MaxTiles] BY DEF TileCounts
    <3>4. /\ RunInv(SubBatchMode, Begun(Run, b, n), work, finished_operation_stats, Held)
          /\ SameStage(Begun(Run, b, n), Run)
      BY <1>6, <2>2, <3>1, <3>2, <3>3, BeginInv
    <3>5. SetRun(Begun(Run, b, n)) BY <2>2, MakeProgramIs
    <3>6. /\ RunInv(SubBatchMode, Run', work, finished_operation_stats, Held)
          /\ SameStage(Run', Begun(Run, b, n))
      BY <3>4, <3>5, SetRunInv
    <3> QED BY <3>4, <3>6 DEF SameStage
  <2> QED BY <1>2, <2>1, <2>2 DEF Cycled
<1>8. RunInv(SubBatchMode, Run, work, finished_operation_stats, Held)'
  BY <1>3, <1>4, <1>5, <1>7
<1> QED BY <1>3, <1>4, <1>7, <1>8 DEF Inv

LEMMA CoreStep ==
  ASSUME Inv, NEW c \in Cores, CoreCycle(c)
  PROVE  Inv' /\ TurnIs(SubBatchMode)
<1>1. PICK n \in 1..MaxTiles, spare \in BOOLEAN, done \in SUBSET TilesIn(c) :
         CoreTurn(c, n, spare, done)
  BY DEF CoreCycle
<1>2. TurnIs(SubBatchMode) BY <1>1, CoreTurnInv DEF Inv
<1>3. /\ config' = config /\ breq' = breq BY DEF CoreCycle, requestVars
<1>4. turn' \in Cores
  <2>1. IF c = NumCores THEN turn' = turn ELSE turn' = c + 1 BY DEF CoreCycle
  <2> QED BY <2>1, SimulatorAssumption DEF Cores, Inv
<1>5. BatchInv' /\ SubBatchMode' = SubBatchMode BY <1>3 DEF BatchInv, Inv, SubBatchMode
<1>6. RunInv(SubBatchMode, Run, work, finished_operation_stats, Held)' /\ HeldInv'
  BY <1>2, <1>5 DEF TurnIs
<1> QED BY <1>2, <1>4, <1>5, <1>6 DEF Inv

\* Every step keeps the invariant.
LEMMA NextInv == ASSUME Inv, [Next]_vars PROVE Inv'
<1>1. CASE Stop \/ ClientCycle \/ Responses
  <2>1. /\ UNCHANGED <<config, finished_operation_stats, stage, programVars, work, breq>>
        /\ UNCHANGED coreVars /\ turn' = turn
    BY <1>1 DEF Stop, ClientCycle, Responses, schedulerVars, requestVars, stageVars, clientVars
  <2>2. turn' \in Cores BY <2>1 DEF Inv
  <2> QED BY <2>1, <2>2, SameInv
<1>2. CASE SchedulerCycle BY <1>2, SchedulerStep
<1>3. CASE \E c \in Cores : CoreCycle(c) BY <1>3, CoreStep
<1>4. CASE UNCHANGED vars
  <2>1. /\ UNCHANGED <<config, finished_operation_stats, stage, programVars, work, breq>>
        /\ UNCHANGED coreVars /\ turn' = turn
    BY <1>4 DEF vars, schedulerVars, requestVars, stageVars
  <2>2. turn' \in Cores BY <2>1 DEF Inv
  <2> QED BY <2>1, <2>2, SameInv
<1> QED BY <1>1, <1>2, <1>3, <1>4 DEF Next, Terminated

-----------------------------------------------------------------------------
(* The theorems                                                             *)

LEMMA PrefixIs ==
  ASSUME NEW S, NEW s \in Seq(S), NEW t \in Seq(S), Len(s) <= Len(t),
         \A i \in 1..Len(s) : s[i] = t[i]
  PROVE  IsPrefix(s, t)
<1> DEFINE n == Len(s)
           u == SubSeq(s, 1, n)
           v == SubSeq(t, 1, n)
<1>1. n \in Nat /\ \A i \in 1..n : s[i] \in S /\ t[i] \in S OBVIOUS
<1> HIDE DEF n
<1>2. /\ u \in Seq(S) /\ Len(u) = (IF 1 <= n THEN n - 1 + 1 ELSE 0)
      /\ \A i \in 1..(n - 1 + 1) : u[i] = s[1 + i - 1]
  BY <1>1, SubSeqProperties
<1>3. /\ v \in Seq(S) /\ Len(v) = (IF 1 <= n THEN n - 1 + 1 ELSE 0)
      /\ \A i \in 1..(n - 1 + 1) : v[i] = t[1 + i - 1]
  BY <1>1, SubSeqProperties
<1> HIDE DEF u, v
<1>4. Len(u) = n /\ Len(v) = n /\ \A i \in 1..n : u[i] = s[i] /\ v[i] = t[i]
  BY <1>1, <1>2, <1>3
<1>5. \A i \in 1..n : s[i] = t[i] BY DEF n
<1>6. u = v BY <1>2, <1>3, <1>4, <1>5, SeqEqual
<1> QED BY <1>6 DEF IsPrefix, u, v, n

\* The invariant holds in every reachable state.
THEOREM Invariant == Spec => []Inv
<1>1. Init => Inv BY InitInv
<1>2. Inv /\ [Next]_vars => Inv' BY NextInv
<1> QED BY <1>1, <1>2, PTL DEF Spec

\* refresh_status never takes the front of an empty list: while a program is there,
\* it has exactly one executable operation, which has not run yet.
THEOREM ExecutableFrontHolds == Spec => []ExecutableFront
<1>1. ASSUME Inv PROVE ExecutableFront
  <2> SUFFICES ASSUME NEW p \in Platforms, model_program[p] # NoProgram, NEW prog,
                      prog = model_program[p]
               PROVE  /\ prog.executable # <<>> /\ IsInjective(prog.executable)
                      /\ Range(prog.executable) \cap prog.finished = {}
    BY Zenon DEF ExecutableFront
  <2>1. Run.program[p] = prog /\ Run.program[p] # NoProgram BY RunFields
  <2>2. RunInv(SubBatchMode, Run, work, finished_operation_stats, Held) BY <1>1 DEF Inv
  <2>3. PICK chain, k : AtPlace(SubBatchMode, p, Run, work, chain, k) BY <2>1, <2>2, Working
  <2>4. /\ chain \in Chains /\ k \in 0..(Len(chain) - 1) /\ prog = ProgramAt(chain, k)
    BY <2>1, <2>3 DEF AtPlace
  <2>5. /\ prog.executable = <<chain[k + 1]>> /\ chain[k + 1] \notin prog.finished
    BY <2>4, ChainStep
  <2>6. Range(<<chain[k + 1]>>) = {chain[k + 1]} /\ IsInjective(<<chain[k + 1]>>)
    BY DEF Range, IsInjective
  <2> QED BY <2>5, <2>6
<1> QED BY <1>1, Invariant, PTL

\* Each sub-batch performs the operations of its layers in the order of the model,
\* however its work alternates between the systolic array and PIM.
THEOREM LayerOrderHolds == Spec => []LayerOrder
<1>1. ASSUME Inv PROVE LayerOrder
  <2>1. WorkInv(SubBatchMode, work) BY <1>1 DEF Inv, RunInv
  <2> SUFFICES ASSUME NEW b \in 1..2, NEW s, s = work[b], NEW t, t = Layers(SubBatchMode, b)
               PROVE  IsPrefix(s, t)
    BY DEF LayerOrder, LayerSequence, Layers
  <2>2. /\ s \in Seq(OpKinds) /\ Len(s) <= Len(t)
        /\ \A i \in 1..Len(s) : s[i] = t[i]
    BY <2>1 DEF WorkInv
  <2>3. t \in Seq(OpKinds)
    <3>1. OneLayer \in Seq(OpKinds)
      <4>1. QkvGen \in Seq(OpKinds) /\ Mha \in Seq(OpKinds) /\ ProjFfn \in Seq(OpKinds)
        BY ChainFacts DEF Chains
      <4> QED BY <4>1 DEF OneLayer
    <3> HIDE DEF OneLayer
    <3>2. OneLayer \o OneLayer \in Seq(OpKinds) BY <3>1
    <3> QED BY <3>1, <3>2 DEF Layers
  <2>4. /\ Len(s) \in Nat /\ Len(t) \in Nat /\ DOMAIN s = 1..Len(s) /\ DOMAIN t = 1..Len(t)
    BY <2>2, <2>3
  <2> QED BY <2>2, <2>3, PrefixIs
<1> QED BY <1>1, Invariant, PTL

\* The counter of an active operation is the number of its tiles that are queued, in
\* a core, or waiting to be reported, and every report passes finish_tile's assertions.
THEOREM TilesAccountedHolds == Spec => []TilesAccounted
<1>1. ASSUME Inv PROVE TilesAccounted
  <2> DEFINE T == Queued(Run) \cup Held
  <2>1. RunInv(SubBatchMode, Run, work, finished_operation_stats, Held) BY <1>1 DEF Inv
  <2>2. Counts(active_operation_stats, T) /\ DOMAIN active_operation_stats = Current(Run)
    BY <2>1, RunFields DEF RunInv, CountInv
  <2>3. \A op : Outstanding(op) = Of(T, op)
    <3>1. UNION {Range(executable_tile_queue[p]) : p \in Platforms} = Queued(Run)
      BY RunFields, PlatformsAre DEF Queued
    <3>2. UNION {TilesIn(c) \cup Range(finished_tiles[c]) : c \in Cores} = Held
      BY DEF Held, HeldBy
    <3> DEFINE U == UNION {Range(executable_tile_queue[p]) : p \in Platforms}
               V == UNION {TilesIn(c) \cup Range(finished_tiles[c]) : c \in Cores}
    <3>3. \A op : Outstanding(op) = {t \in U \cup V : t.operation_id = op}
      BY Zenon DEF Outstanding
    <3>4. U \cup V = T BY <3>1, <3>2
    <3> HIDE DEF U, V, T
    <3> QED BY <3>3, <3>4 DEF Of
  <2>4. ASSUME NEW op \in DOMAIN active_operation_stats
        PROVE  /\ active_operation_stats[op] = Cardinality(Outstanding(op))
               /\ model_program[op[2]] # NoProgram
    <3> HIDE DEF T
    <3>1. active_operation_stats[op] = Cardinality(Of(T, op)) BY <2>2 DEF Counts
    <3>2. PICK p \in Platforms : /\ Run.program[p] # NoProgram
                                 /\ op = <<Run.stage, p, Head(Run.program[p].executable)>>
      BY <2>2 DEF Current, OpId
    <3> QED BY <2>3, <3>1, <3>2, RunFields
  <2>5. ASSUME NEW t \in T
        PROVE  /\ t.operation_id \in DOMAIN active_operation_stats
               /\ t.operation_id \notin finished_operation_stats
               /\ active_operation_stats[t.operation_id] > 0
    <3>1. t.operation_id \in DOMAIN active_operation_stats BY <2>2 DEF Counts
    <3>2. active_operation_stats[t.operation_id] > 0 BY <2>2, <3>1 DEF Counts
    <3>3. t.operation_id \notin finished_operation_stats BY <2>1, TileOwner
    <3> QED BY <3>1, <3>2, <3>3
  <2>6. \A c \in Cores : \A t \in TilesIn(c) \cup Range(finished_tiles[c]) : t \in T
    BY DEF Held, HeldBy
  <2>7. \A p \in Platforms : \A t \in Range(executable_tile_queue[p]) : t \in T
    BY RunFields, PlatformsAre DEF Queued
  <2> HIDE DEF T
  <2> QED BY <2>4, <2>5, <2>6, <2>7, Zenon DEF TilesAccounted, finish_tile_asserts
<1> QED BY <1>1, Invariant, PTL

LEMMA AppendIs ==
  ASSUME NEW S, NEW s \in Seq(S), NEW x \in S, NEW t \in Seq(S), Len(t) = Len(s) + 1,
         t[Len(s) + 1] = x, \A i \in 1..Len(s) : t[i] = s[i]
  PROVE  Append(s, x) = t
<1> DEFINE h == Append(s, x)
<1>1. h \in Seq(S) /\ Len(h) = Len(s) + 1 /\ h[Len(s) + 1] = x /\ \A i \in 1..Len(s) : h[i] = s[i]
  OBVIOUS
<1> HIDE DEF h
<1>2. \A i \in 1..Len(h) : h[i] = t[i] BY <1>1
<1>3. h = t BY <1>1, <1>2, SeqEqual
<1> QED BY <1>3 DEF h

LEMMA BeforeFacts ==
  ASSUME NEW m \in BOOLEAN, NEW s \in Reached(m)
  PROVE  /\ Before(m, s) \in Seq(Stages)
         /\ s # Finish => Before(m, NextStage(m, s)) = Append(Before(m, s), s)
<1>1. CASE m = TRUE
  <2>1. s \in 0..6 BY StageNumbers
  <2>2. Before(m, s) = [i \in 1..s |-> i - 1] BY <1>1 DEF Before
  <2>3. [i \in 1..s |-> i - 1] \in Seq(Stages) BY <2>1, StageNumbers
  <2>4. ASSUME s # Finish PROVE Before(m, NextStage(m, s)) = Append(Before(m, s), s)
    <3> DEFINE f == [i \in 1..s |-> i - 1]
               g == [i \in 1..(s + 1) |-> i - 1]
    <3>1. Before(m, NextStage(m, s)) = g BY <1>1 DEF Before, NextStage
    <3>2. f \in Seq(Stages) /\ Len(f) = s /\ g \in Seq(Stages) /\ Len(g) = s + 1
      BY <2>1, <2>3, <2>4, StageNumbers
    <3>3. /\ \A i \in 1..s : f[i] = i - 1
          /\ \A i \in 1..(s + 1) : g[i] = i - 1
      OBVIOUS
    <3>4. s \in Stages BY <2>1, StageNumbers
    <3> DEFINE h == Append(f, s)
    <3>5. h \in Seq(Stages) /\ Len(h) = s + 1 /\ h[s + 1] = s /\ \A i \in 1..s : h[i] = f[i]
      <4> HIDE DEF f
      <4> QED BY <2>1, <3>2, <3>4
    <3> HIDE DEF f, g, h
    <3>6. \A i \in 1..Len(g) : g[i] = h[i] BY <2>1, <3>2, <3>3, <3>5
    <3>7. g = h BY <3>2, <3>5, <3>6, SeqEqual
    <3> QED BY <2>2, <3>1, <3>7 DEF f, h
  <2> QED BY <2>2, <2>3, <2>4
<1>2. CASE m = FALSE
  <2>1. s \in {A, B, E, Finish} BY <1>2 DEF Reached
  <2>2. /\ Before(m, A) = <<>> /\ Before(m, B) = <<A>> /\ Before(m, E) = <<A, B>>
        /\ Before(m, Finish) = <<A, B, E>>
    BY <1>2, StageNumbers DEF Before
  <2>3. NextStage(m, A) = B /\ NextStage(m, B) = E /\ NextStage(m, E) = Finish
    BY <1>2, StageNumbers DEF NextStage
  <2>4. /\ A \in Stages /\ B \in Stages /\ E \in Stages BY StageNumbers
  <2>5. Append(<<>>, A) = <<A>> /\ Append(<<A>>, B) = <<A, B>> /\ Append(<<A, B>>, E) = <<A, B, E>>
    <3>1. Append(<<>>, A) = <<A>> OBVIOUS
    <3> DEFINE u == <<A>>
               v == <<A, B>>
               w == <<A, B, E>>
    <3>2. /\ u \in Seq(Stages) /\ Len(u) = 1 /\ u[1] = A
          /\ v \in Seq(Stages) /\ Len(v) = 2 /\ v[1] = A /\ v[2] = B
          /\ w \in Seq(Stages) /\ Len(w) = 3 /\ w[1] = A /\ w[2] = B /\ w[3] = E
      BY <2>4
    <3> HIDE DEF u, v, w
    <3>3. Append(u, B) = v
      <4>1. Len(v) = Len(u) + 1 /\ v[Len(u) + 1] = B /\ \A i \in 1..Len(u) : v[i] = u[i] BY <3>2
      <4> QED BY <2>4, <3>2, <4>1, AppendIs
    <3>4. Append(v, E) = w
      <4>1. 1..2 = {1, 2} OBVIOUS
      <4>2. Len(w) = Len(v) + 1 /\ w[Len(v) + 1] = E /\ \A i \in 1..Len(v) : w[i] = v[i]
        BY <3>2, <4>1
      <4> QED BY <2>4, <3>2, <4>2, AppendIs
    <3> QED BY <3>1, <3>3, <3>4 DEF u, v, w
  <2>6. <<>> \in Seq(Stages) /\ <<A>> \in Seq(Stages) /\ <<A, B>> \in Seq(Stages)
        /\ <<A, B, E>> \in Seq(Stages)
    BY <2>4
  <2> QED BY <2>1, <2>2, <2>3, <2>5, <2>6
<1> QED BY <1>1, <1>2

LEMMA BeforePrefix ==
  ASSUME NEW s \in Reached(SubBatchMode), SubBatchMode \in BOOLEAN
  PROVE  /\ IsPrefix(Before(SubBatchMode, s), StageOrder)
         /\ s = Finish => Before(SubBatchMode, s) = StageOrder
         /\ \A q \in Seq(Stages) : \A x : Append(q, x) = Before(SubBatchMode, s) => IsPrefix(q, StageOrder)
<1> SUFFICES ASSUME NEW q, q = Before(SubBatchMode, s), NEW t, t = StageOrder
             PROVE  /\ IsPrefix(q, t) /\ (s = Finish => q = t)
                    /\ \A u \in Seq(Stages) : \A x : Append(u, x) = q => IsPrefix(u, t)
  BY Zenon
<1>1. q \in Seq(Stages) BY BeforeFacts
<1>2. /\ t \in Seq(Stages) /\ Len(q) <= Len(t) /\ \A i \in 1..Len(q) : q[i] = t[i]
      /\ s = Finish => Len(q) = Len(t)
  <2>1. CASE SubBatchMode = TRUE
    <3>1. s \in 0..6 BY StageNumbers
    <3>2. q = [i \in 1..s |-> i - 1] BY <2>1 DEF Before
    <3>3. t = <<0, 1, 2, 3, 4, 5>> BY <2>1, StageNumbers DEF StageOrder
    <3>4. Len(q) = s /\ \A i \in 1..s : q[i] = i - 1 BY <3>1, <3>2
    <3>5. t \in Seq(Stages) /\ Len(t) = 6 BY <3>3, StageNumbers
    <3>6. \A i \in 1..6 : t[i] = i - 1
      <4> SUFFICES ASSUME NEW i \in 1..6 PROVE t[i] = i - 1 OBVIOUS
      <4>1. i = 1 \/ i = 2 \/ i = 3 \/ i = 4 \/ i = 5 \/ i = 6 OBVIOUS
      <4> QED BY <3>3, <4>1
    <3> QED BY <3>1, <3>4, <3>5, <3>6, StageNumbers
  <2>2. CASE SubBatchMode = FALSE
    <3>1. s \in {A, B, E, Finish} BY <2>2 DEF Reached
    <3>2. q = CASE s = A -> <<>> [] s = B -> <<A>> [] s = E -> <<A, B>> [] OTHER -> <<A, B, E>>
      BY <2>2 DEF Before
    <3>3. q = <<>> \/ q = <<A>> \/ q = <<A, B>> \/ q = <<A, B, E>> BY <3>2
    <3>4. t = <<A, B, E>> BY <2>2 DEF StageOrder
    <3>5. t \in Seq(Stages) /\ Len(t) = 3 BY <3>4, StageNumbers
    <3>6. s = Finish => q = t BY <3>2, <3>4, StageNumbers
    <3>7. Len(q) <= Len(t) /\ \A i \in 1..Len(q) : q[i] = t[i]
      <4>1. CASE q = <<>> BY <3>4, <4>1
      <4>2. CASE q = <<A>> BY <3>4, <4>2
      <4>3. CASE q = <<A, B>> BY <3>4, <4>3
      <4>4. CASE q = <<A, B, E>> BY <3>4, <4>4
      <4> QED BY <3>3, <4>1, <4>2, <4>3, <4>4
    <3> QED BY <3>5, <3>6, <3>7
  <2> QED BY <2>1, <2>2
<1>3. IsPrefix(q, t) BY <1>1, <1>2, PrefixIs
<1>4. s = Finish => q = t BY <1>1, <1>2, SeqEqual
<1>5. ASSUME NEW u \in Seq(Stages), NEW x, Append(u, x) = q PROVE IsPrefix(u, t)
  <2>1. Len(q) = Len(u) + 1 /\ \A i \in 1..Len(u) : u[i] = q[i] BY <1>5
  <2>2. Len(u) <= Len(t) /\ \A i \in 1..Len(u) : u[i] = t[i] BY <1>1, <1>2, <2>1
  <2> QED BY <1>2, <2>2, PrefixIs
<1> QED BY <1>3, <1>4, <1>5

LEMMA InitLog == ASSUME Init PROVE LogInv
<1>1. SubBatchMode \in BOOLEAN BY SchedulerAssumption DEF Init, SchedulerInit, SubBatchMode
<1>2. Before(SubBatchMode, A) = <<>>
  <2>1. [i \in 1..0 |-> i - 1] = <<>> OBVIOUS
  <2> QED BY <1>1, <2>1, StageNumbers DEF Before
<1>3. /\ has_stage_changed = FALSE /\ sim_stage_stats = <<>> /\ stage = A /\ completed_cnt = 0
      /\ completed_request_queue = <<>> /\ pc = "loop"
  BY DEF Init, SchedulerInit
<1>4. sim_stage_stats \in Seq(Stages) BY <1>3
<1>5. sim_stage_stats = Before(SubBatchMode, stage) BY <1>2, <1>3
<1> QED BY <1>3, <1>4, <1>5 DEF LogInv

\* A core whose scheduler has no programs changes nothing of the run.
LEMMA IdleTurn ==
  ASSUME Inv, NoPrograms, NEW c \in Cores, CoreCycle(c)
  PROVE  SetRun(Run)
<1>1. PICK n \in 1..MaxTiles, spare \in BOOLEAN, done \in SUBSET TilesIn(c) :
         CoreTurn(c, n, spare, done)
  BY DEF CoreCycle
<1>2. Held = {}
  <2>1. \A p \in Platforms : Run.program[p] = NoProgram BY RunIdle
  <2> QED BY <2>1, IdleRun DEF Inv
<1>3. finished_tiles[c] = <<>>
  <2> DEFINE q == finished_tiles[c]
  <2>1. q \in Seq(TileType) BY DEF Inv, HeldInv
  <2>2. Range(q) = {} BY <1>2 DEF Held, HeldBy
  <2> HIDE DEF q
  <2>3. DOMAIN q = {} BY <2>2 DEF Range
  <2>4. q # <<>> => 1 \in DOMAIN q BY <2>1
  <2> QED BY <2>3, <2>4 DEF q
<1> DEFINE tile   == Head(finished_tiles[c])
           popped == finished_tiles[c] # <<>>
           r      == IF popped THEN finish_tile(tile, n) ELSE Run
           idle   == \A p \in Platforms : r.program[p] = NoProgram
<1>4. idle => SetRun(r) BY <1>1, Zenon DEF CoreTurn
<1>5. r = Run BY <1>3
<1> HIDE DEF r
<1> QED BY <1>4, <1>5, RunIdle

\* The invariant of the summary over one step, for a step of each kind.
LEMMA LogOfScheduler ==
  ASSUME Inv, LogInv, SchedulerCycle
  PROVE  LogInv'
<1>1. ~has_stage_changed /\ has_stage_changed \in BOOLEAN BY DEF LogInv, SchedulerCycle
<1>2. SameStage(Run', Run) BY SchedulerStep
<1>3. stage' = stage /\ has_stage_changed' = has_stage_changed
  BY <1>2 DEF SameStage, Run
<1>4. /\ UNCHANGED <<sim_stage_stats, completed_cnt>> /\ pc' = "cores"
  BY DEF SchedulerCycle, clientVars
<1>5. PICK n : scheduler_cycle(n) BY DEF SchedulerCycle
<1>6. PICK b : Cycled(b, n) BY <1>5, SchedulerCases DEF Inv
<1>7. /\ SubBatchMode' = SubBatchMode
      /\ completed_request_queue' = completed_request_queue \/ stage = Finish
  BY <1>6 DEF Cycled, SubBatchMode
<1> QED BY <1>1, <1>3, <1>4, <1>7 DEF LogInv

LEMMA LogOfResponses ==
  ASSUME Inv, LogInv, Responses
  PROVE  LogInv'
<1>1. /\ pc = "responses" /\ pc' = "scheduler" /\ has_stage_changed' = FALSE
      /\ completed_cnt' = completed_cnt + Len(completed_request_queue)
      /\ completed_request_queue' = <<>> /\ stage' = stage
      /\ sim_stage_stats' = IF has_stage_changed THEN Append(sim_stage_stats, prev_stage)
                            ELSE sim_stage_stats
      /\ SubBatchMode' = SubBatchMode
  BY DEF Responses, SubBatchMode
<1>2. stage \in Reached(SubBatchMode) /\ SubBatchMode \in BOOLEAN
  BY RunFields DEF Inv, RunInv
<1>3. Before(SubBatchMode, stage) \in Seq(Stages) BY <1>2, BeforeFacts
<1>4. sim_stage_stats' = Before(SubBatchMode, stage) BY <1>1 DEF LogInv
<1>5. \/ stage = Finish
      \/ completed_cnt' = 0 /\ completed_request_queue' = <<>>
  <2> SUFFICES ASSUME completed_cnt = 0 /\ completed_request_queue = <<>>
               PROVE  completed_cnt' = 0
    BY <1>1 DEF LogInv
  <2>1. Len(completed_request_queue) = 0 OBVIOUS
  <2> QED BY <1>1, <2>1
<1>6. sim_stage_stats' = Before(SubBatchMode', stage') BY <1>1, <1>4
<1>7. sim_stage_stats' \in Seq(Stages) BY <1>3, <1>4
<1>8. pc' # "done" BY <1>1
<1> QED BY <1>1, <1>5, <1>6, <1>7, <1>8 DEF LogInv

LEMMA LogOfCore ==
  ASSUME Inv, LogInv, NEW c \in Cores, CoreCycle(c)
  PROVE  LogInv'
<1>1. /\ UNCHANGED <<config, completed_cnt, completed_request_queue, sim_stage_stats>>
      /\ pc \in {"cores"} /\ pc' \in {"cores", "loop"}
  BY DEF CoreCycle, requestVars, clientVars
<1>2. SubBatchMode' = SubBatchMode BY <1>1 DEF SubBatchMode
<1>3. stage \in Reached(SubBatchMode) /\ SubBatchMode \in BOOLEAN
  BY RunFields DEF Inv, RunInv
<1>4. CASE NoPrograms
  <2>1. SetRun(Run) BY <1>4, IdleTurn
  <2>2. UNCHANGED <<model_program, stage, prev_stage, has_stage_changed>>
    BY <2>1, RunFields DEF SetRun
  <2>3. NoPrograms' BY <1>4, <2>2 DEF NoPrograms
  <2> QED BY <1>1, <1>2, <2>2, <2>3 DEF LogInv
<1>5. CASE ~NoPrograms
  <2>1. ~has_stage_changed /\ has_stage_changed = FALSE BY <1>5 DEF LogInv
  <2>2. PICK p \in Platforms : Run.program[p] # NoProgram BY <1>5, RunIdle
  <2>3. stage # Finish BY <2>2, RunFields, Working DEF Inv
  <2>4. sim_stage_stats = Before(SubBatchMode, stage) /\ sim_stage_stats \in Seq(Stages)
    BY <2>1 DEF LogInv
  <2>5. completed_cnt = 0 /\ completed_request_queue = <<>> BY <2>3 DEF LogInv
  <2>6. TurnIs(SubBatchMode) BY CoreStep
  <2>7. CASE SameStage(Run', Run)
    <3>1. stage' = stage /\ has_stage_changed' = FALSE
      BY <2>1, <2>7 DEF SameStage, Run
    <3> QED BY <1>1, <1>2, <2>4, <2>5, <3>1 DEF LogInv
  <2>8. CASE Advanced(SubBatchMode, Run', Run)
    <3>1. /\ has_stage_changed' = TRUE /\ prev_stage' = stage
          /\ stage' = NextStage(SubBatchMode, stage)
          /\ NoPrograms'
      BY <2>8 DEF Advanced, Run, NoPrograms
    <3>2. Before(SubBatchMode, NextStage(SubBatchMode, stage))
             = Append(Before(SubBatchMode, stage), stage)
      BY <1>3, <2>3, BeforeFacts
    <3>3. Before(SubBatchMode', stage') = Append(sim_stage_stats', prev_stage')
      BY <1>1, <1>2, <2>4, <3>1, <3>2
    <3> QED BY <1>1, <2>4, <2>5, <3>1, <3>3 DEF LogInv
  <2> QED BY <2>6, <2>7, <2>8 DEF TurnIs
<1> QED BY <1>4, <1>5

LEMMA NextLog ==
  ASSUME NumRequests # 0, Inv, LogInv, [Next]_vars
  PROVE  LogInv'
<1>1. CASE Stop
  <2>1. /\ pc' = "done" /\ pc = "loop"
        /\ UNCHANGED <<config, stage, prev_stage, has_stage_changed, model_program, completed_cnt,
                       completed_request_queue, sim_stage_stats>>
    BY <1>1 DEF Stop, schedulerVars, requestVars, stageVars, programVars, clientVars
  <2>2. completed_cnt # 0
    <3>1. ~(completed_cnt < NumRequests) BY <1>1 DEF Stop, running, client_running
    <3> QED BY <3>1, SchedulerAssumption
  <2>3. stage = Finish /\ ~has_stage_changed BY <2>2 DEF LogInv
  <2>4. SubBatchMode' = SubBatchMode BY <2>1 DEF SubBatchMode
  <2> QED BY <2>1, <2>3, <2>4 DEF LogInv
<1>2. CASE ClientCycle
  <2>1. /\ pc' \in {"exited", "responses"} /\ pc = "loop"
        /\ UNCHANGED <<config, stage, prev_stage, has_stage_changed, model_program, completed_cnt,
                       completed_request_queue, sim_stage_stats>>
    BY <1>2 DEF ClientCycle, stageVars, programVars
  <2>2. SubBatchMode' = SubBatchMode BY <2>1 DEF SubBatchMode
  <2>3. NoPrograms' = NoPrograms BY <2>1 DEF NoPrograms
  <2> QED BY <2>1, <2>2, <2>3 DEF LogInv
<1>3. CASE Responses BY <1>3, LogOfResponses
<1>4. CASE SchedulerCycle BY <1>4, LogOfScheduler
<1>5. CASE \E c \in Cores : CoreCycle(c) BY <1>5, LogOfCore
<1>6. CASE UNCHANGED vars
  <2>1. UNCHANGED <<config, stage, prev_stage, has_stage_changed, model_program, completed_cnt,
                    completed_request_queue, sim_stage_stats, pc>>
    BY <1>6 DEF vars, schedulerVars, requestVars, stageVars, programVars, clientVars
  <2>2. SubBatchMode' = SubBatchMode BY <2>1 DEF SubBatchMode
  <2>3. NoPrograms' = NoPrograms BY <2>1 DEF NoPrograms
  <2> QED BY <2>1, <2>2, <2>3 DEF LogInv
<1> QED BY <1>1, <1>2, <1>3, <1>4, <1>5, <1>6 DEF Next, Terminated

\* The summary has the stages in order, each once, and all of them when the run has
\* ended: the flag is polled before the next stage can end, and the last stage is
\* logged before its requests are returned.  (Without requests no stage runs.)
THEOREM SummaryHolds == ASSUME NumRequests # 0 PROVE Spec => []SummaryComplete
<1>1. Init => LogInv BY InitLog
<1>2. Inv /\ LogInv /\ [Next]_vars => LogInv' BY NextLog
<1>3. Inv /\ LogInv => SummaryComplete
  <2> SUFFICES ASSUME Inv, LogInv PROVE SummaryComplete OBVIOUS
  <2>1. stage \in Reached(SubBatchMode) /\ SubBatchMode \in BOOLEAN
    BY RunFields DEF Inv, RunInv
  <2>2. sim_stage_stats \in Seq(Stages) BY DEF LogInv
  <2>3. IsPrefix(sim_stage_stats, StageOrder)
    <3>1. CASE has_stage_changed BY <2>1, <2>2, <3>1, BeforePrefix DEF LogInv
    <3>2. CASE ~has_stage_changed BY <2>1, <3>2, BeforePrefix DEF LogInv
    <3> QED BY <3>1, <3>2
  <2>4. ASSUME pc = "done" PROVE sim_stage_stats = StageOrder
    <3>1. stage = Finish /\ ~has_stage_changed BY <2>4 DEF LogInv
    <3> QED BY <2>1, <3>1, BeforePrefix DEF LogInv
  <2> QED BY <2>3, <2>4 DEF SummaryComplete
<1> QED BY <1>1, <1>2, <1>3, Invariant, PTL DEF Spec

-----------------------------------------------------------------------------
(* The stages implement the abstract pipeline                               *)

\* The sub-batches are within the current stage, and one that is at work is not at
\* its end.
LEMMA BatchBounds ==
  ASSUME NEW m, NEW r, NEW w, NEW done, NEW held, RunInv(m, r, w, done, held),
         NEW p \in Platforms, r.program[p] # NoProgram
  PROVE  /\ \A c \in 1..2 : /\ Len(w[c]) \in Nat
                            /\ Base(m, c, r.stage) <= Len(w[c])
                            /\ Len(w[c]) <= Base(m, c, NextStage(m, r.stage))
         /\ Len(w[sub_batch_on(p, r.stage)])
              < Base(m, sub_batch_on(p, r.stage), NextStage(m, r.stage))
<1> DEFINE s == r.stage
<1>1. /\ s # Finish /\ s \in Stages
      /\ \A q \in Platforms : AtWork(m, q, r, w) \/ Done(m, q, r, w)
  BY Working
<1>2. m \in BOOLEAN /\ s \in Reached(m) /\ WorkInv(m, w) BY DEF RunInv
<1>3. ASSUME NEW q \in Platforms
      PROVE  LET b == sub_batch_on(q, s)
             IN  /\ Len(w[b]) \in Nat /\ Base(m, b, s) <= Len(w[b])
                 /\ Len(w[b]) <= Base(m, b, NextStage(m, s))
                 /\ r.program[q] # NoProgram => Len(w[b]) < Base(m, b, NextStage(m, s))
  <2> DEFINE b == sub_batch_on(q, s)
             chain == Chain(m, q, s)
             base == Base(m, b, s)
             next == Base(m, b, NextStage(m, s))
             k == Position(m, q, s, w)
  <2>1. b \in 1..2 /\ base \in Nat /\ next = base + Len(chain) /\ (chain = <<>> \/ chain \in Chains)
    BY <1>1, <1>2, StagesHaveFacts, Zenon DEF StageFacts
  <2>2. Len(w[b]) \in Nat BY <1>2, <2>1 DEF WorkInv
  <2>3. k = Len(w[b]) - base BY DEF Position
  <2>4. Len(chain) \in Nat
    <3> HIDE DEF chain
    <3> QED BY <2>1, ChainFacts
  <2>5. \/ k \in 0..(Len(chain) - 1)
        \/ k = Len(chain) /\ r.program[q] = NoProgram
    BY <1>1, Zenon DEF AtWork, Done
  <2> HIDE DEF b, chain, base, next, k
  <2>6. base <= Len(w[b]) /\ Len(w[b]) <= next /\ (r.program[q] # NoProgram => Len(w[b]) < next)
    BY <2>1, <2>2, <2>3, <2>4, <2>5
  <2> QED BY <2>2, <2>6 DEF b, base, next
<1>4. \A c \in 1..2 : c = sub_batch_on(SA, s) \/ c = sub_batch_on(PIM, s)
  <2>1. 1..2 = {1, 2} OBVIOUS
  <2> QED BY <1>1, <2>1, BothServed
<1> HIDE DEF s
<1>5. \A c \in 1..2 : Len(w[c]) \in Nat /\ Base(m, c, s) <= Len(w[c])
                      /\ Len(w[c]) <= Base(m, c, NextStage(m, s))
  BY <1>3, <1>4, PlatformsAre
<1> QED BY <1>3, <1>5 DEF s

\* How many phases end at or before x operations.
Ends(m) == IF m THEN <<2, 4, 13, 15, 22>> ELSE <<2, 4, 11>>
PhaseOf(x) == IF x < 2 THEN 0 ELSE IF x < 4 THEN 1 ELSE IF x < 13 THEN 2
              ELSE IF x < 15 THEN 3 ELSE IF x < 22 THEN 4 ELSE 5

PhaseCount(e, x) == Cardinality({k \in DOMAIN e : e[k] <= x})

LEMMA PhaseIs ==
  ASSUME NEW x \in Nat
  PROVE  PhaseCount(Ends(TRUE), x) = PhaseOf(x)
<1> DEFINE e == Ends(TRUE)
<1>1. /\ DOMAIN e = 1..5 /\ e[1] = 2 /\ e[2] = 4 /\ e[3] = 13 /\ e[4] = 15 /\ e[5] = 22
  BY DEF Ends
<1> HIDE DEF e
<1>2. PhaseOf(x) \in 0..5 BY DEF PhaseOf
<1>3. \A k \in 1..5 : e[k] <= x <=> k <= PhaseOf(x)
  <2> SUFFICES ASSUME NEW k \in 1..5 PROVE e[k] <= x <=> k <= PhaseOf(x) OBVIOUS
  <2>1. k = 1 \/ k = 2 \/ k = 3 \/ k = 4 \/ k = 5 OBVIOUS
  <2> QED BY <1>1, <2>1 DEF PhaseOf
<1>4. {k \in DOMAIN e : e[k] <= x} = 1..PhaseOf(x) BY <1>1, <1>2, <1>3
<1>5. Cardinality(1..PhaseOf(x)) = PhaseOf(x)
  <2> DEFINE n == PhaseOf(x)
  <2>1. n \in 0..5 BY <1>2
  <2> HIDE DEF n
  <2>2. Cardinality(1..n) = IF 1 > n THEN 0 ELSE n - 1 + 1 BY <2>1, FS_Interval
  <2>3. Cardinality(1..n) = n BY <2>1, <2>2
  <2> QED BY <2>3 DEF n
<1> QED BY <1>4, <1>5 DEF e, PhaseCount

\* The stages keep the sub-batches in lock step: sub-batch 1 moves from a to a2 while
\* sub-batch 2 moves from b to b2.
StageSpans(a, a2, b, b2) ==
  \/ a = 0 /\ a2 = 2 /\ b = 0 /\ b2 = 0
  \/ a = 2 /\ a2 = 4 /\ b = 0 /\ b2 = 2
  \/ a = 4 /\ a2 = 13 /\ b = 2 /\ b2 = 4
  \/ a = 13 /\ a2 = 15 /\ b = 4 /\ b2 = 13
  \/ a = 15 /\ a2 = 22 /\ b = 13 /\ b2 = 15
  \/ a = 22 /\ a2 = 22 /\ b = 15 /\ b2 = 22

LEMMA LockStep ==
  ASSUME NEW x \in Nat, NEW y \in Nat, NEW a, NEW a2, NEW b, NEW b2, StageSpans(a, a2, b, b2),
         a <= x, x <= a2, b <= y, y <= b2
  PROVE  /\ x < a2 => x < 22 /\ PhaseOf(y) >= PhaseOf(x) - 1
         /\ y < b2 => y < 22 /\ PhaseOf(x) > PhaseOf(y)
<1>1. CASE a = 0 /\ a2 = 2 /\ b = 0 /\ b2 = 0 BY <1>1 DEF PhaseOf
<1>2. CASE a = 2 /\ a2 = 4 /\ b = 0 /\ b2 = 2 BY <1>2 DEF PhaseOf
<1>3. CASE a = 4 /\ a2 = 13 /\ b = 2 /\ b2 = 4 BY <1>3 DEF PhaseOf
<1>4. CASE a = 13 /\ a2 = 15 /\ b = 4 /\ b2 = 13 BY <1>4 DEF PhaseOf
<1>5. CASE a = 15 /\ a2 = 22 /\ b = 13 /\ b2 = 15 BY <1>5 DEF PhaseOf
<1>6. CASE a = 22 /\ a2 = 22 /\ b = 15 /\ b2 = 22 BY <1>6 DEF PhaseOf
<1> QED BY <1>1, <1>2, <1>3, <1>4, <1>5, <1>6 DEF StageSpans

LEMMA SpansOfStages ==
  ASSUME NEW m, m = TRUE, NEW s \in 0..5
  PROVE  StageSpans(Base(m, 1, s), Base(m, 1, NextStage(m, s)),
                    Base(m, 2, s), Base(m, 2, NextStage(m, s)))
<1>1. NextStage(m, s) = s + 1 BY DEF NextStage
<1>2. /\ Base(m, 1, 0) = 0 /\ Base(m, 1, 1) = 2 /\ Base(m, 1, 2) = 4 /\ Base(m, 1, 3) = 13
      /\ Base(m, 1, 4) = 15 /\ Base(m, 1, 5) = 22 /\ Base(m, 1, 6) = 22
  BY DEF Base
<1>3. /\ Base(m, 2, 0) = 0 /\ Base(m, 2, 1) = 0 /\ Base(m, 2, 2) = 2 /\ Base(m, 2, 3) = 4
      /\ Base(m, 2, 4) = 13 /\ Base(m, 2, 5) = 15 /\ Base(m, 2, 6) = 22
  BY DEF Base
<1>4. CASE s = 0
  <2>1. NextStage(m, s) = 1 BY <1>1, <1>4
  <2>2. StageSpans(0, 2, 0, 0) BY DEF StageSpans
  <2> QED BY <1>2, <1>3, <1>4, <2>1, <2>2, Zenon
<1>5. CASE s = 1
  <2>1. NextStage(m, s) = 2 BY <1>1, <1>5
  <2>2. StageSpans(2, 4, 0, 2) BY DEF StageSpans
  <2> QED BY <1>2, <1>3, <1>5, <2>1, <2>2, Zenon
<1>6. CASE s = 2
  <2>1. NextStage(m, s) = 3 BY <1>1, <1>6
  <2>2. StageSpans(4, 13, 2, 4) BY DEF StageSpans
  <2> QED BY <1>2, <1>3, <1>6, <2>1, <2>2, Zenon
<1>7. CASE s = 3
  <2>1. NextStage(m, s) = 4 BY <1>1, <1>7
  <2>2. StageSpans(13, 15, 4, 13) BY DEF StageSpans
  <2> QED BY <1>2, <1>3, <1>7, <2>1, <2>2, Zenon
<1>8. CASE s = 4
  <2>1. NextStage(m, s) = 5 BY <1>1, <1>8
  <2>2. StageSpans(15, 22, 13, 15) BY DEF StageSpans
  <2> QED BY <1>2, <1>3, <1>8, <2>1, <2>2, Zenon
<1>9. CASE s = 5
  <2>1. NextStage(m, s) = 6 BY <1>1, <1>9
  <2>2. StageSpans(22, 22, 15, 22) BY DEF StageSpans
  <2> QED BY <1>2, <1>3, <1>9, <2>1, <2>2, Zenon
<1>10. s = 0 \/ s = 1 \/ s = 2 \/ s = 3 \/ s = 4 \/ s = 5 OBVIOUS
<1> QED BY <1>4, <1>5, <1>6, <1>7, <1>8, <1>9, <1>10, Zenon

\* The operations each sub-batch has performed, as the pipeline counts them.
Progress == [b \in PlanOf(config).batches |-> Len(work[b])]

\* An operation of a sub-batch ends: which one it is, and that it may.
LEMMA WorkStep ==
  ASSUME Inv, NEW t \in Held, Run.active[t.operation_id] = 1, work' = WorkAfter(Run, work, t)
  PROVE  \E b \in 1..2 :
            /\ \A c \in 1..2 : Len(work'[c]) = IF c = b THEN Len(work[c]) + 1 ELSE Len(work[c])
            /\ \A c \in 1..2 : Len(work[c]) \in Nat
            /\ IF SubBatchMode
               THEN /\ Len(work[b]) < 22
                    /\ b = 1 => PhaseOf(Len(work[2])) >= PhaseOf(Len(work[1])) - 1
                    /\ b = 2 => PhaseOf(Len(work[1])) > PhaseOf(Len(work[2]))
               ELSE b = 1 /\ Len(work[1]) < 11
<1> DEFINE op == t.operation_id
           p  == t.stage_platform
           b  == sub_batch_on(op[2], op[1])
           m  == SubBatchMode
           s  == Run.stage
<1>1. RunInv(m, Run, work, finished_operation_stats, Held) BY DEF Inv
<1>2. p \in Platforms /\ Run.program[p] # NoProgram /\ op[1] = s /\ op[2] = p
  BY <1>1, TileOwner
<1>3. m \in BOOLEAN /\ s \in Reached(m) /\ WorkInv(m, work) BY <1>1 DEF RunInv
<1>4. s # Finish /\ s \in Stages BY <1>1, <1>2, Working
<1>5. /\ \A c \in 1..2 : /\ Len(work[c]) \in Nat /\ Base(m, c, s) <= Len(work[c])
                         /\ Len(work[c]) <= Base(m, c, NextStage(m, s))
      /\ Len(work[b]) < Base(m, b, NextStage(m, s))
  <2>1. b = sub_batch_on(p, s) BY <1>2
  <2> HIDE DEF m, s, b, p
  <2> QED BY <1>1, <1>2, <2>1, BatchBounds DEF s, p
<1>6. b \in 1..2 BY DEF sub_batch_on
<1>7. work' = [work EXCEPT ![b] = Append(@, op[3])] BY Zenon DEF WorkAfter
<1> HIDE DEF op, p, b, m, s
<1>8. \A c \in 1..2 : Len(work'[c]) = IF c = b THEN Len(work[c]) + 1 ELSE Len(work[c])
  <2>1. work \in [1..2 -> Seq(OpKinds)] BY <1>3 DEF WorkInv
  <2>2. \A c \in 1..2 : work'[c] = IF c = b THEN Append(work[c], op[3]) ELSE work[c]
    BY <1>7, <2>1
  <2>3. \A c \in 1..2 : Len(Append(work[c], op[3])) = Len(work[c]) + 1
    <3> SUFFICES ASSUME NEW q \in Seq(OpKinds) PROVE Len(Append(q, op[3])) = Len(q) + 1
      BY <2>1
    <3> QED OBVIOUS
  <2> QED BY <2>2, <2>3
<1>9. CASE m = TRUE
  <2>1. s \in 0..5 BY <1>4, StageNumbers
  <2> DEFINE a == Base(m, 1, s)
             a2 == Base(m, 1, NextStage(m, s))
             e == Base(m, 2, s)
             e2 == Base(m, 2, NextStage(m, s))
             x == Len(work[1])
             y == Len(work[2])
  <2>2. StageSpans(a, a2, e, e2) BY <1>9, <2>1, SpansOfStages
  <2>3. x \in Nat /\ y \in Nat /\ a <= x /\ x <= a2 /\ e <= y /\ y <= e2 BY <1>5
  <2>4. (b = 1 => x < a2) /\ (b = 2 => y < e2) BY <1>5
  <2> HIDE DEF a, a2, e, e2, x, y
  <2>5. /\ x < a2 => x < 22 /\ PhaseOf(y) >= PhaseOf(x) - 1
        /\ y < e2 => y < 22 /\ PhaseOf(x) > PhaseOf(y)
    BY <2>2, <2>3, LockStep
  <2>6. b = 1 \/ b = 2 BY <1>6
  <2>7. /\ b = 1 => x < 22 /\ PhaseOf(y) >= PhaseOf(x) - 1
        /\ b = 2 => y < 22 /\ PhaseOf(x) > PhaseOf(y)
    BY <2>4, <2>5
  <2>8. /\ Len(work[b]) < 22
        /\ b = 1 => PhaseOf(Len(work[2])) >= PhaseOf(Len(work[1])) - 1
        /\ b = 2 => PhaseOf(Len(work[1])) > PhaseOf(Len(work[2]))
    BY <2>6, <2>7 DEF x, y
  <2> QED BY <1>5, <1>6, <1>8, <1>9, <2>8 DEF m
<1>10. CASE m = FALSE
  <2>1. s \in {0, 1, 4} BY <1>3, <1>4, <1>10, StageNumbers DEF Reached
  <2>2. NextStage(m, s) \in {1, 4, 6} BY <1>10, <2>1, StageNumbers DEF NextStage
  <2>3. \A i \in {1, 4, 6} : Base(m, 2, i) = 0 /\ Base(m, 1, i) <= 11
    BY <1>10 DEF Base
  <2>4. b = 1 /\ Len(work[1]) < 11
    <3> DEFINE n == NextStage(m, s)
    <3>1. Base(m, 2, n) = 0 /\ Base(m, 1, n) <= 11 /\ Base(m, 1, n) \in Int
      <4>1. \A i \in {1, 4, 6} : Base(m, 1, i) \in Int BY <1>10 DEF Base
      <4> QED BY <2>2, <2>3, <4>1
    <3>2. Len(work[b]) \in Nat /\ Len(work[b]) < Base(m, b, n) BY <1>5, <1>6
    <3>3. b = 1 \/ b = 2 BY <1>6
    <3> HIDE DEF n
    <3> QED BY <3>1, <3>2, <3>3
  <2> QED BY <1>5, <1>6, <1>8, <1>10, <2>4 DEF m
<1> QED BY <1>3, <1>9, <1>10

\* Both modules count with the same operator.
LEMMA SameCardinality == \A T : AbstractPipeline!Cardinality(T) = Cardinality(T)
BY Zenon DEF AbstractPipeline!Cardinality, Cardinality

\* Such a step is a step of the pipeline.
LEMMA PipelineStep ==
  ASSUME SubBatchMode \in BOOLEAN, config' = config, NEW b \in 1..2,
         \A c \in 1..2 : Len(work'[c]) = IF c = b THEN Len(work[c]) + 1 ELSE Len(work[c]),
         \A c \in 1..2 : Len(work[c]) \in Nat,
         IF SubBatchMode
         THEN /\ Len(work[b]) < 22
              /\ b = 1 => PhaseOf(Len(work[2])) >= PhaseOf(Len(work[1])) - 1
              /\ b = 2 => PhaseOf(Len(work[1])) > PhaseOf(Len(work[2]))
         ELSE b = 1 /\ Len(work[1]) < 11
  PROVE  AbstractPipeline!Next
<1> DEFINE S == PlanOf(config).batches
           e == PlanOf(config).ends
<1>1. /\ S = IF SubBatchMode THEN 1..2 ELSE {1}
      /\ e = IF SubBatchMode THEN <<2, 4, 13, 15, 22>> ELSE <<2, 4, 11>>
  BY DEF PlanOf, SubBatchMode
<1>2. b \in S /\ S \subseteq 1..2 BY <1>1
<1>3. PlanOf(config)' = PlanOf(config) BY DEF PlanOf
<1>4. Progress' = [Progress EXCEPT ![b] = @ + 1]
  <2>1. Progress' = [c \in S |-> Len(work'[c])] BY <1>3 DEF Progress
  <2>2. Progress = [c \in S |-> Len(work[c])] BY DEF Progress
  <2> HIDE DEF S
  <2> QED BY <1>2, <2>1, <2>2
<1>5. \A c \in S : Progress[c] = Len(work[c]) BY DEF Progress
<1>6. e[Len(e)] = IF SubBatchMode THEN 22 ELSE 11 BY <1>1
<1>7. Progress[b] < e[Len(e)] BY <1>2, <1>5, <1>6
<1>8. \/ S = {1}
      \/ b = 1 /\ PhaseCount(e, Progress[2]) >= PhaseCount(e, Progress[1]) - 1
      \/ b = 2 /\ PhaseCount(e, Progress[1]) > PhaseCount(e, Progress[2])
  <2>1. CASE SubBatchMode
    <3>1. 1 \in S /\ 2 \in S BY <1>1, <2>1
    <3>2. e = Ends(TRUE) BY <1>1, <2>1 DEF Ends
    <3> HIDE DEF S, e
    <3>3. \A c \in 1..2 : PhaseCount(e, Len(work[c])) = PhaseOf(Len(work[c]))
      BY <3>2, PhaseIs
    <3>4. /\ PhaseCount(e, Progress[1]) = PhaseOf(Len(work[1]))
          /\ PhaseCount(e, Progress[2]) = PhaseOf(Len(work[2]))
      BY <1>5, <3>1, <3>3
    <3>5. b = 1 \/ b = 2 OBVIOUS
    <3> QED BY <2>1, <3>4, <3>5
  <2>2. CASE ~SubBatchMode BY <1>1, <2>2
  <2> QED BY <2>1, <2>2
<1> HIDE DEF S, e
<1>9. AbstractPipeline!Perform(b)
  <2>1. AbstractPipeline!MayRun(b)
    <3>1. \A c : AbstractPipeline!Phase(c) = PhaseCount(e, Progress[c])
      <4>1. \A c : AbstractPipeline!Phase(c) = Cardinality({k \in DOMAIN e : e[k] <= Progress[c]})
        BY SameCardinality DEF AbstractPipeline!Phase, AbstractPipeline!PhaseEnds, Progress, e
      <4> QED BY <4>1, Zenon DEF PhaseCount
    <3>2. AbstractPipeline!Batches = S BY DEF AbstractPipeline!Batches, S
    <3> QED BY <1>8, <3>1, <3>2 DEF AbstractPipeline!MayRun
  <2>2. AbstractPipeline!Last = e[Len(e)]
    BY DEF AbstractPipeline!Last, AbstractPipeline!PhaseEnds, e
  <2> QED BY <1>3, <1>4, <1>7, <2>1, <2>2 DEF AbstractPipeline!Perform, Progress
<1> QED BY <1>2, <1>9 DEF AbstractPipeline!Next, AbstractPipeline!Batches, S

LEMMA PipelineInit == ASSUME Init PROVE AbstractPipeline!Init
<1>1. config \in Configs /\ work = [b \in 1..2 |-> <<>>] BY DEF Init, SchedulerInit
<1>2. PlanOf(config) \in {PlanOf(c) : c \in Configs} BY <1>1
<1>3. PlanOf(config).batches \subseteq 1..2 BY DEF PlanOf
<1>4. \A b \in PlanOf(config).batches : Len(work[b]) = 0 BY <1>1, <1>3
<1> QED BY <1>2, <1>4 DEF AbstractPipeline!Init, AbstractPipeline!Batches

LEMMA PipelineNext ==
  ASSUME Inv, [Next]_vars
  PROVE  [AbstractPipeline!Next]_(AbstractPipeline!vars)
<1>1. CASE UNCHANGED <<config, work>>
  <2>1. PlanOf(config)' = PlanOf(config) BY <1>1 DEF PlanOf
  <2> QED BY <1>1, <2>1 DEF AbstractPipeline!vars
<1>2. CASE \E c \in Cores : CoreCycle(c)
  <2>1. TurnIs(SubBatchMode) /\ config' = config BY <1>2, CoreStep DEF CoreCycle
  <2>2. CASE UNCHANGED work BY <1>1, <2>1, <2>2
  <2>3. CASE \E t \in Held : Run.active[t.operation_id] = 1 /\ work' = WorkAfter(Run, work, t)
    <3>1. SubBatchMode \in BOOLEAN BY DEF Inv, RunInv
    <3>2. AbstractPipeline!Next BY <2>1, <2>3, <3>1, WorkStep, PipelineStep
    <3> QED BY <3>2
  <2> QED BY <2>1, <2>2, <2>3 DEF TurnIs
<1>3. CASE Stop \/ ClientCycle \/ Responses \/ UNCHANGED vars
  <2>1. UNCHANGED <<config, work>>
    BY <1>3 DEF Stop, ClientCycle, Responses, vars, schedulerVars
  <2> QED BY <1>1, <2>1
<1>4. CASE SchedulerCycle
  <2>1. work' = work BY <1>4 DEF SchedulerCycle
  <2>2. PICK n : scheduler_cycle(n) BY <1>4 DEF SchedulerCycle
  <2>3. PICK b : Cycled(b, n) BY <2>2, SchedulerCases DEF Inv
  <2> QED BY <1>1, <2>1, <2>3 DEF Cycled
<1> QED BY <1>2, <1>3, <1>4 DEF Next, Terminated

\* Every run of the simulator is a run of the abstract pipeline: an operation that
\* ends is one step of its sub-batch, taken only when the lock step allows it; any
\* other step leaves the pipeline as it is.
THEOREM RefinesPipeline == Spec => AbstractPipeline!Safety
<1>1. Init => AbstractPipeline!Init BY PipelineInit
<1>2. Inv /\ [Next]_vars => [AbstractPipeline!Next]_(AbstractPipeline!vars) BY PipelineNext
<1> QED BY <1>1, <1>2, Invariant, PTL DEF Spec, AbstractPipeline!Safety
==============================================================================
