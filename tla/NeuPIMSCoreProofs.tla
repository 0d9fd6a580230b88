-------------------------- MODULE NeuPIMSCoreProofs --------------------------
(***************************************************************************)
(* Theorems about the core, for every program, buffer size and number of   *)
(* vector units: its counters are exact, a tile that was handed back has   *)
(* left nothing behind, no tile is given a side of a buffer that an        *)
(* earlier one still uses, every answer of the memory finds the entry that *)
(* was reserved for it, and no side of a buffer is filled beyond its size. *)
(***************************************************************************)
EXTENDS NeuPIMSCore, FiniteSetTheorems, TLAPS

(* An instruction belongs to its tile and is a record of the program. *)
LEMMA InstFacts ==
  /\ \A i \in Inst : tile(i) \in Tiles /\ i \in InstOf(tile(i)) /\ inst(i) \in Instruction
  /\ \A t \in Tiles : \A i \in InstOf(t) : i \in Inst /\ tile(i) = t
  /\ \A t \in Tiles : Program[t] \in TileRecord
<1>1. \A t \in Tiles : Program[t] \in TileRecord
  BY CoreAssumption DEF Tiles
<1>2. \A t \in Tiles : Program[t].instructions \in Seq(Instruction)
  BY <1>1 DEF TileRecord
<1>3. ASSUME NEW i \in Inst
      PROVE  tile(i) \in Tiles /\ i \in InstOf(tile(i)) /\ inst(i) \in Instruction
  <2>1. PICK t \in Tiles : i \in {t} \X DOMAIN Program[t].instructions
    BY DEF Inst
  <2>2. i = <<t, i[2]>> /\ i[1] = t /\ i[2] \in DOMAIN Program[t].instructions
    BY <2>1
  <2>3. inst(i) \in Instruction
    BY <1>2, <2>2 DEF inst
  <2> QED  BY <2>1, <2>2, <2>3 DEF tile, InstOf
<1>4. ASSUME NEW t \in Tiles, NEW i \in InstOf(t) PROVE i \in Inst /\ tile(i) = t
  BY DEF InstOf, Inst, tile
<1> QED  BY <1>1, <1>3, <1>4

(* The accesses of an instruction name it, and there are finitely many. *)
LEMMA AccessFacts ==
  ASSUME NEW i \in Inst
  PROVE  /\ \A a \in Accesses(i) : a[1] = i
         /\ IsFiniteSet(Accesses(i))
         /\ inst(i).accesses \in Nat \ {0}
         /\ Cardinality(Accesses(i)) = inst(i).accesses
<1>1. inst(i).accesses \in Nat \ {0}
  BY InstFacts DEF Instruction
<1>2. IsFiniteSet(1..inst(i).accesses) /\ Cardinality(1..inst(i).accesses) = inst(i).accesses
  BY <1>1, FS_Interval
<1>3. IsFiniteSet({i}) /\ Cardinality({i}) = 1
  BY FS_Singleton
<1>4. /\ IsFiniteSet({i} \X (1..inst(i).accesses))
      /\ Cardinality({i} \X (1..inst(i).accesses))
           = Cardinality({i}) * Cardinality(1..inst(i).accesses)
  BY <1>2, <1>3, FS_Product
<1>5. Cardinality({i} \X (1..inst(i).accesses)) = inst(i).accesses
  BY <1>1, <1>2, <1>3, <1>4
<1> QED  BY <1>1, <1>4, <1>5 DEF Accesses

(* The instructions of a tile are finitely many. *)
LEMMA InstOfFinite == ASSUME NEW t \in Tiles PROVE IsFiniteSet(InstOf(t))
<1>1. Program[t].instructions \in Seq(Instruction)
  BY InstFacts DEF TileRecord
<1>2. /\ Len(Program[t].instructions) \in Nat
      /\ DOMAIN Program[t].instructions = 1..Len(Program[t].instructions)
  BY <1>1
<1>3. IsFiniteSet(DOMAIN Program[t].instructions)
  BY <1>2, FS_Interval
<1>4. IsFiniteSet({t})
  BY FS_Singleton
<1> QED  BY <1>3, <1>4, FS_Product DEF InstOf

(* A program has finitely many instructions. *)
LEMMA InstFinite == IsFiniteSet(Inst)
<1>1. IsFiniteSet(Tiles)
  <2>1. Program \in Seq(TileRecord)
    BY CoreAssumption
  <2>2. DOMAIN Program = 1..Len(Program) /\ Len(Program) \in Nat
    BY <2>1
  <2> QED  BY <2>2, FS_Interval DEF Tiles
<1>2. IsFiniteSet({InstOf(t) : t \in Tiles})
  <2> DEFINE f == [t \in Tiles |-> InstOf(t)]
  <2>1. f \in Surjection(Tiles, {InstOf(t) : t \in Tiles})
    BY DEF Surjection
  <2> HIDE DEF f
  <2> QED  BY <1>1, <2>1, FS_Surjection
<1>3. \A S \in {InstOf(t) : t \in Tiles} : IsFiniteSet(S)
  BY InstOfFinite
<1>4. Inst = UNION {InstOf(t) : t \in Tiles}
  BY DEF Inst, InstOf
<1> QED  BY <1>2, <1>3, <1>4, FS_UNION

-----------------------------------------------------------------------------
(* Every instruction a step moves is one of the program. *)
LEMMA TypeInit == Init => TypeOK
<1> SUFFICES ASSUME Init PROVE TypeOK
  OBVIOUS
<1>1. 1 \in Vpus
  BY CoreAssumption DEF Vpus
<1> QED  BY <1>1 DEF Init, TypeOK, Places, Phases

(* The end of a computation keeps the types. *)
LEMMA TypeComputed ==
  ASSUME TypeOK, NEW i \in Inst, Computed(i), vector_pipelines' \in [Vpus -> Seq(Inst)],
         pc' \in Phases, lane' \in Vpus
  PROVE  TypeOK'
<1>1. tile(i) \in Tiles /\ "done" \in Places
  BY InstFacts DEF Places
<1>2. /\ UNCHANGED <<status, inflight, remaining_loads, waiting_write_reqs, finished_tiles>>
      /\ UNCHANGED <<spad_id, accum_spad_id, current_spad, current_acc_spad>>
  BY DEF Computed, sides
<1>3. place' \in [Inst -> Places]
  BY <1>1 DEF Computed, TypeOK
<1>4. remaining_accum_io' \in [Tiles -> Int] /\ remaining_computes' \in [Tiles -> Int]
  BY <1>1 DEF Computed, TypeOK
<1>5. DOMAIN sram' = Buffers
  BY DEF Computed, TypeOK
<1> QED  BY <1>2, <1>3, <1>4, <1>5 DEF TypeOK

(* Every step keeps the types. *)
LEMMA TypeStep == ASSUME TypeOK, [Next]_vars PROVE TypeOK'
<1> USE DEF TypeOK
<1>0. CASE UNCHANGED vars
  BY <1>0 DEF vars, counters, sides
<1>a. ASSUME NEW t \in Tiles, Finish(t) PROVE TypeOK'
  BY <1>a DEF Finish, counters, sides
<1>b. ASSUME NEW t \in Tiles, NEW sp \in {0, 1}, NEW ac \in {0, 1}, Start(t, sp, ac),
             current_spad' \in {0, 1}, current_acc_spad' \in {0, 1}, DOMAIN sram' = Buffers
      PROVE  TypeOK'
  <2>1. /\ UNCHANGED <<vector_pipelines, inflight, waiting_write_reqs, finished_tiles, pc, lane>>
        /\ status' \in [Tiles -> {"INITIALIZED", "RUNNING", "FINISH"}]
        /\ spad_id' \in [Tiles -> {0, 1}] /\ accum_spad_id' \in [Tiles -> {0, 1}]
    BY <1>b DEF Start
  <2>2. place' \in [Inst -> Places]
    BY <1>b DEF Start, QueueOf, Places
  <2>3. \A q : Cardinality({i \in InstOf(t) : QueueOf(i) \in q}) \in Int
    BY InstOfFinite, FS_Subset, FS_CardinalityType
  <2>4. /\ Cardinality({i \in InstOf(t) : QueueOf(i) = "ld" /\ Counted(i)}) \in Int
        /\ Cardinality({i \in InstOf(t) : QueueOf(i) = "ex"}) \in Int
        /\ Cardinality({i \in InstOf(t) : QueueOf(i) \in {"st", "ex"}}) \in Int
    BY InstOfFinite, FS_Subset, FS_CardinalityType
  <2>5. /\ remaining_loads' \in [Tiles -> Int] /\ remaining_computes' \in [Tiles -> Int]
        /\ remaining_accum_io' \in [Tiles -> Int]
    BY <1>b, <2>4 DEF Start
  <2> QED  BY <1>b, <2>1, <2>2, <2>5
<1>1. ASSUME NEW t \in Tiles, issue(t) PROVE TypeOK'
  <2> DEFINE sp == 1 - current_spad
             ac == IF Program[t].accum THEN current_acc_spad ELSE 1 - current_acc_spad
  <2>1. sp \in {0, 1} /\ ac \in {0, 1}
    OBVIOUS
  <2>2. CASE Finish(t)
    BY <1>a, <2>2
  <2>3. CASE /\ current_spad' = sp /\ current_acc_spad' = ac
             /\ sram' = [sram EXCEPT ![<<"spad", sp>>] = flush(@),
                            ![<<"acc", ac>>] = IF Program[t].accum THEN @ ELSE flush(@)]
             /\ Start(t, sp, ac)
    <3>1. DOMAIN sram' = Buffers
      BY <2>3
    <3> HIDE DEF sp, ac
    <3> QED  BY <1>b, <2>1, <2>3, <3>1
  <2> QED  BY <1>1, <2>2, <2>3 DEF issue
<1>2. ASSUME NEW t \in Tiles, issue_pim(t) PROVE TypeOK'
  <2>1. CASE Finish(t)
    BY <1>a, <2>1
  <2>2. CASE /\ sram' = [sram EXCEPT ![<<"pim_spad", 0>>] = flush(@),
                                     ![<<"pim_acc", 0>>] = flush(@)]
             /\ Start(t, 0, 0) /\ UNCHANGED <<current_spad, current_acc_spad>>
    <3>1. DOMAIN sram' = Buffers
      BY <2>2
    <3> QED  BY <1>b, <2>2, <3>1
  <2> QED  BY <1>2, <2>1, <2>2 DEF issue_pim
<1>3. CASE pop_finished_tile
  BY <1>3 DEF pop_finished_tile, counters, sides
<1>4. ASSUME NEW a \in inflight, push_memory_response(a) PROVE TypeOK'
  <2>1. PICK i \in Inst : a \in Accesses(i)
    OBVIOUS
  <2>2. a[1] = i /\ tile(i) \in Tiles
    BY <2>1, AccessFacts, InstFacts
  <2>3. /\ UNCHANGED <<status, place, vector_pipelines, remaining_computes, finished_tiles>>
        /\ UNCHANGED <<spad_id, accum_spad_id, current_spad, current_acc_spad, pc, lane>>
        /\ inflight' \subseteq inflight
    BY <1>4 DEF push_memory_response, sides
  <2>4. /\ remaining_loads' \in [Tiles -> Int] /\ remaining_accum_io' \in [Tiles -> Int]
        /\ waiting_write_reqs' \in Int /\ DOMAIN sram' = Buffers
    BY <1>4, <2>2 DEF push_memory_response
  <2> QED  BY <2>3, <2>4
<1>5. CASE StartCycle
  BY <1>5 DEF StartCycle, counters, sides, Phases
<1>6. CASE systolic_cycle
  <2>1. 1 \in Vpus /\ "vector" \in Phases
    BY CoreAssumption DEF Vpus, Phases
  <2>2. CASE SystolicFinish
    BY <2>1, <2>2, TypeComputed DEF SystolicFinish
  <2>3. CASE Idle("systolic", "vector") /\ lane' = 1
    BY <2>1, <2>3 DEF Idle, counters, sides
  <2> QED  BY <1>6, <2>2, <2>3 DEF systolic_cycle
<1>7. CASE vector_unit_cycle
  <2>1. ASSUME AfterLane PROVE pc' \in Phases /\ lane' \in Vpus
    BY <2>1, CoreAssumption DEF AfterLane, Vpus, Phases
  <2>2. CASE VectorFinish
    <3>1. vector_pipelines[lane] \in Seq(Inst) /\ vector_pipelines[lane] # <<>>
      BY <2>2 DEF VectorFinish
    <3>2. Head(vector_pipelines[lane]) \in Inst /\ Tail(vector_pipelines[lane]) \in Seq(Inst)
      BY <3>1
    <3>3. vector_pipelines' \in [Vpus -> Seq(Inst)]
      BY <2>2, <3>2 DEF VectorFinish
    <3> QED  BY <2>1, <2>2, <3>2, <3>3, TypeComputed DEF VectorFinish
  <2>3. CASE /\ AfterLane
             /\ UNCHANGED <<status, place, vector_pipelines, inflight, counters, sides, sram,
                            waiting_write_reqs, finished_tiles>>
    BY <2>1, <2>3 DEF counters, sides
  <2> QED  BY <1>7, <2>2, <2>3 DEF vector_unit_cycle
<1>8. ASSUME NEW here, NEW next \in Phases, Idle(here, next), UNCHANGED lane PROVE TypeOK'
  BY <1>8 DEF Idle, counters, sides
<1>9. ASSUME NEW p \in Platforms, ld_queue_cycle(p) PROVE TypeOK'
  <2>1. ASSUME NEW i \in Inst, SendLoad(i), UNCHANGED pc PROVE TypeOK'
    <3>1. /\ UNCHANGED <<status, vector_pipelines, remaining_computes, remaining_accum_io>>
          /\ UNCHANGED <<spad_id, accum_spad_id, current_spad, current_acc_spad>>
          /\ UNCHANGED <<waiting_write_reqs, finished_tiles, pc, lane>>
      BY <2>1 DEF SendLoad, sides
    <3>2. tile(i) \in Tiles /\ MoreAccesses(i) \in Int /\ "sent" \in Places
      BY InstFacts, AccessFacts DEF MoreAccesses, Places
    <3>3. DOMAIN sram' = Buffers
      BY <2>1 DEF SendLoad
    <3>4. inflight' \subseteq inflight \cup Accesses(i)
      BY <2>1 DEF SendLoad
    <3>5. place' \in [Inst -> Places] /\ remaining_loads' \in [Tiles -> Int]
      BY <2>1, <3>2 DEF SendLoad
    <3> QED  BY <3>1, <3>3, <3>4, <3>5
  <2>2. CASE Idle(LdAt(p), StAt(p)) /\ UNCHANGED lane
    BY <1>8, <2>2 DEF StAt, Phases
  <2> QED  BY <1>9, <2>1, <2>2 DEF ld_queue_cycle
<1>10. ASSUME NEW p \in Platforms, st_queue_cycle(p) PROVE TypeOK'
  <2>0. ExAt(p) \in Phases
    BY DEF ExAt, Phases
  <2>1. ASSUME NEW i \in Inst, SendStore(i), pc' = ExAt(p) PROVE TypeOK'
    <3>1. /\ UNCHANGED <<status, vector_pipelines, remaining_loads, remaining_computes, sram>>
          /\ UNCHANGED <<spad_id, accum_spad_id, current_spad, current_acc_spad>>
          /\ UNCHANGED <<finished_tiles, lane>>
      BY <2>1 DEF SendStore, sides
    <3>2. /\ tile(i) \in Tiles /\ MoreAccesses(i) \in Int /\ "sent" \in Places
          /\ inst(i).accesses \in Int
      BY InstFacts, AccessFacts DEF MoreAccesses, Places
    <3>3. /\ place' \in [Inst -> Places] /\ remaining_accum_io' \in [Tiles -> Int]
          /\ waiting_write_reqs' \in Int /\ inflight' = inflight \cup Accesses(i)
      BY <2>1, <3>2 DEF SendStore
    <3> QED  BY <2>0, <2>1, <3>1, <3>3
  <2>2. CASE Idle(StAt(p), ExAt(p)) /\ UNCHANGED lane
    BY <1>8, <2>0, <2>2
  <2> QED  BY <1>10, <2>1, <2>2 DEF st_queue_cycle
<1>11. ASSUME NEW p \in Platforms, ex_queue_cycle(p) PROVE TypeOK'
  <2>0. AfterEx(p) \in Phases
    BY DEF AfterEx, Phases
  <2>1. ASSUME NEW i \in Inst, issue_ex_inst(i), pc' = AfterEx(p) PROVE TypeOK'
    <3>1. /\ UNCHANGED <<status, inflight, remaining_loads, remaining_computes>>
          /\ UNCHANGED <<spad_id, accum_spad_id, current_spad, current_acc_spad>>
          /\ UNCHANGED <<remaining_accum_io, waiting_write_reqs, finished_tiles, lane>>
      BY <2>1 DEF issue_ex_inst, counters, sides
    <3>2. place' \in [Inst -> Places] /\ DOMAIN sram' = Buffers
      BY <2>1 DEF issue_ex_inst, Places
    <3>3. ASSUME NEW v \in Vpus,
                 vector_pipelines' = [vector_pipelines EXCEPT ![v] = Append(@, i)]
          PROVE  vector_pipelines' \in [Vpus -> Seq(Inst)]
      <4>1. Append(vector_pipelines[v], i) \in Seq(Inst)
        OBVIOUS
      <4> QED  BY <3>3, <4>1
    <3>4. \/ UNCHANGED vector_pipelines
          \/ \E v \in Vpus : vector_pipelines' = [vector_pipelines EXCEPT ![v] = Append(@, i)]
      BY <2>1 DEF issue_ex_inst
    <3> QED  BY <2>0, <2>1, <3>1, <3>2, <3>3, <3>4
  <2>2. CASE Idle(ExAt(p), AfterEx(p)) /\ UNCHANGED lane
    BY <1>8, <2>0, <2>2
  <2> QED  BY <1>11, <2>1, <2>2 DEF ex_queue_cycle
<1>12. CASE cycle
  <2>1. ASSUME NEW t \in Tiles, Finish(t) PROVE TypeOK'
    BY <1>a, <2>1
  <2>2. CASE Idle("tiles", "idle") /\ UNCHANGED lane
    BY <1>8, <2>2 DEF Phases
  <2> QED  BY <1>12, <2>1, <2>2 DEF cycle
<1> QED  BY <1>0, <1>1, <1>2, <1>3, <1>4, <1>5, <1>6, <1>7, <1>9, <1>10, <1>11, <1>12 DEF Next

(* The state of the core is always of its type, whatever program it runs. *)
THEOREM TypeCorrect == Spec => []TypeOK
BY TypeInit, TypeStep, PTL DEF Spec

-----------------------------------------------------------------------------
(* The places of instructions agree with the rest of the state. *)
PlacesAgree ==
  /\ \A i \in Inst : status[tile(i)] = "INITIALIZED" => place[i] = "none"
  /\ \A i \in Inst : /\ place[i] = "ld" => op(i) \in LoadOp
                     /\ place[i] = "st" => op(i) = "MOVOUT"
                     /\ place[i] \in {"ex", "systolic", "vector"} => op(i) \in ExOp
  /\ \A a \in inflight : place[a[1]] = "sent" /\ Counted(a[1])

(* A vector unit holds instructions that are in place "vector", each once. *)
PipelinesAgree ==
  /\ \A v \in Vpus : \A k \in 1..Len(vector_pipelines[v]) :
       place[vector_pipelines[v][k]] = "vector"
  /\ \A v, w \in Vpus : \A k \in 1..Len(vector_pipelines[v]), l \in 1..Len(vector_pipelines[w]) :
       vector_pipelines[v][k] = vector_pipelines[w][l] => v = w /\ k = l

(* A tile that is not running awaits nothing. *)
ZeroUnlessRunning == \A t \in Tiles : status[t] # "RUNNING" =>
  remaining_loads[t] = 0 /\ remaining_computes[t] = 0 /\ remaining_accum_io[t] = 0

(* The inductive invariant. *)
Agreement == /\ IsFiniteSet(inflight) /\ PlacesAgree /\ PipelinesAgree
             /\ CountersExact /\ ZeroUnlessRunning
IInv == TypeOK /\ Agreement

(* What the end of a computation does to the vector units. *)
Leaves(i) ==
  \/ place[i] = "systolic" /\ UNCHANGED vector_pipelines
  \/ \E v \in Vpus : /\ vector_pipelines[v] # <<>> /\ i = Head(vector_pipelines[v])
                     /\ vector_pipelines' = [vector_pipelines EXCEPT ![v] = Tail(@)]

(* issue() and issue_pim() of a tile that is not skipped. *)
Starts(t) == ~Program[t].skip /\ (issue(t) \/ issue_pim(t))

(* The steps that concern instructions and tiles, whatever the place in the
   loop they are taken at. *)
LEMMA StepCases ==
  ASSUME TypeOK, Next
  PROVE  \/ UNCHANGED <<status, place, vector_pipelines, inflight, counters, sides, sram,
                        waiting_write_reqs>>
         \/ \E t \in Tiles : Program[t].skip /\ IsNext(t, platform(t)) /\ Finish(t)
         \/ \E t \in Tiles : Starts(t)
         \/ \E a \in inflight : push_memory_response(a)
         \/ \E i \in Inst : Computed(i) /\ Leaves(i)
         \/ \E i \in Inst : place[i] = "ld" /\ SendLoad(i)
         \/ \E i \in Inst : place[i] = "st" /\ SendStore(i)
         \/ \E i \in Inst : place[i] = "ex" /\ pc = ExAt(platform(tile(i))) /\ issue_ex_inst(i)
         \/ \E t \in Tiles : Complete(t) /\ Finish(t)
<1> DEFINE Neutral == UNCHANGED <<status, place, vector_pipelines, inflight, counters, sides,
                                  sram, waiting_write_reqs>>
<1>0. ASSUME NEW here, NEW next, Idle(here, next) PROVE Neutral
  BY <1>0 DEF Idle
<1>1. ASSUME NEW t \in Tiles, issue(t)
      PROVE  Starts(t) \/ (Program[t].skip /\ IsNext(t, platform(t)) /\ Finish(t))
  <2>1. IsNext(t, platform(t))
    BY <1>1 DEF issue, IsNext
  <2>2. Program[t].skip => Finish(t)
    BY <1>1 DEF issue
  <2> QED  BY <1>1, <2>1, <2>2 DEF Starts
<1>2. ASSUME NEW t \in Tiles, issue_pim(t)
      PROVE  Starts(t) \/ (Program[t].skip /\ IsNext(t, platform(t)) /\ Finish(t))
  <2>1. IsNext(t, platform(t))
    BY <1>2 DEF issue_pim, IsNext
  <2>2. Program[t].skip => Finish(t)
    BY <1>2 DEF issue_pim
  <2> QED  BY <1>2, <2>1, <2>2 DEF Starts
<1>3. CASE pop_finished_tile
  BY <1>3 DEF pop_finished_tile
<1>4. CASE StartCycle
  BY <1>4 DEF StartCycle
<1>5. CASE systolic_cycle
  <2>1. CASE SystolicFinish
    <3>1. PICK i \in Inst : IsFront(i, Queue("systolic", SA)) /\ Computed(i)
      BY <2>1 DEF SystolicFinish
    <3>2. place[i] = "systolic" /\ UNCHANGED vector_pipelines
      BY <2>1, <3>1 DEF SystolicFinish, IsFront, Queue
    <3> QED  BY <3>1, <3>2 DEF Leaves
  <2> QED  BY <1>0, <1>5, <2>1 DEF systolic_cycle
<1>6. CASE vector_unit_cycle
  <2>1. CASE VectorFinish
    <3>1. lane \in Vpus /\ vector_pipelines[lane] \in Seq(Inst) /\ vector_pipelines[lane] # <<>>
      BY <2>1 DEF VectorFinish, TypeOK
    <3>2. Head(vector_pipelines[lane]) \in Inst
      BY <3>1
    <3> QED  BY <2>1, <3>1, <3>2 DEF VectorFinish, Leaves
  <2>2. CASE UNCHANGED <<status, place, vector_pipelines, inflight, counters, sides, sram,
                         waiting_write_reqs, finished_tiles>>
    BY <2>2
  <2> QED  BY <1>6, <2>1, <2>2 DEF vector_unit_cycle
<1>7. ASSUME NEW p \in Platforms, ld_queue_cycle(p)
      PROVE  Neutral \/ \E i \in Inst : place[i] = "ld" /\ SendLoad(i)
  <2> HIDE DEF Neutral
  <2> QED  BY <1>0, <1>7 DEF ld_queue_cycle, IsFront, Queue
<1>8. ASSUME NEW p \in Platforms, st_queue_cycle(p)
      PROVE  Neutral \/ \E i \in Inst : place[i] = "st" /\ SendStore(i)
  <2> HIDE DEF Neutral
  <2> QED  BY <1>0, <1>8 DEF st_queue_cycle, IsFront, Queue
<1>9. ASSUME NEW p \in Platforms, ex_queue_cycle(p)
      PROVE  \/ Neutral
             \/ \E i \in Inst : /\ place[i] = "ex" /\ pc = ExAt(platform(tile(i)))
                                /\ issue_ex_inst(i)
  <2> HIDE DEF Neutral
  <2> QED  BY <1>0, <1>9 DEF ex_queue_cycle, IsFront, Queue
<1>10. CASE cycle
  BY <1>0, <1>10 DEF cycle
<1> HIDE DEF Neutral
<1> QED  BY <1>1, <1>2, <1>3, <1>4, <1>5, <1>6, <1>7, <1>8, <1>9, <1>10 DEF Next, Neutral

(* What issue() and issue_pim() have in common. *)
LEMMA StartsFacts ==
  ASSUME TypeOK, NEW t \in Tiles, Starts(t)
  PROVE  /\ pc = "idle" /\ status[t] = "INITIALIZED" /\ IsNext(t, platform(t))
         /\ \E sp, ac \in {0, 1} : Start(t, sp, ac)
<1>1. CASE issue(t)
  <2>1. /\ 1 - current_spad \in {0, 1}
        /\ (IF Program[t].accum THEN current_acc_spad ELSE 1 - current_acc_spad) \in {0, 1}
    BY DEF TypeOK
  <2> QED  BY <1>1, <2>1 DEF Starts, issue, IsNext
<1>2. CASE issue_pim(t)
  BY <1>2 DEF Starts, issue_pim, IsNext
<1> QED  BY <1>1, <1>2 DEF Starts

-----------------------------------------------------------------------------
(* An instruction that changes places leaves or stays in a counted set. *)
LEMMA MoveCount ==
  ASSUME TypeOK, NEW i \in Inst, NEW b, place' = [place EXCEPT ![i] = b],
         NEW q, NEW t \in Tiles
  PROVE  /\ t = tile(i) /\ place[i] \in q /\ b \notin q /\ Counted(i) =>
              Cardinality(Queued(q, t)') = Cardinality(Queued(q, t)) - 1
         /\ t # tile(i) \/ ~Counted(i) \/ (place[i] \in q <=> b \in q) =>
              Queued(q, t)' = Queued(q, t)
<1>1. \A j \in InstOf(t) : j \in Inst /\ tile(j) = t
  BY InstFacts
<1>2. i \in InstOf(tile(i))
  BY InstFacts
<1>3. \A j \in Inst : place'[j] = IF j = i THEN b ELSE place[j]
  BY DEF TypeOK
<1>4. IsFiniteSet(Queued(q, t))
  BY InstOfFinite, FS_Subset DEF Queued
<1>5. ASSUME t = tile(i), place[i] \in q, b \notin q, Counted(i)
      PROVE  Cardinality(Queued(q, t)') = Cardinality(Queued(q, t)) - 1
  <2>1. i \in Queued(q, t)
    BY <1>2, <1>5 DEF Queued
  <2>2. Queued(q, t)' = Queued(q, t) \ {i}
    BY <1>1, <1>3, <1>5 DEF Queued, Counted, op, inst, InstOf
  <2> QED  BY <1>4, <2>1, <2>2, FS_RemoveElement
<1>6. ASSUME t # tile(i) \/ ~Counted(i) \/ (place[i] \in q <=> b \in q)
      PROVE  Queued(q, t)' = Queued(q, t)
  BY <1>1, <1>3, <1>6 DEF Queued, Counted, op, inst, InstOf
<1> QED  BY <1>5, <1>6

(* How each step of the life of an instruction moves it between the sets. *)
LEMMA LeftAfter ==
  ASSUME TypeOK, NEW i \in Inst, NEW b \in {"sent", "done", "systolic", "vector"},
         place' = [place EXCEPT ![i] = b], NEW t \in Tiles
  PROVE  /\ t # tile(i) \/ ~Counted(i) =>
              /\ LoadsLeft(t)' = LoadsLeft(t) /\ ComputesLeft(t)' = ComputesLeft(t)
              /\ AccumLeft(t)' = AccumLeft(t)
         /\ t = tile(i) /\ Counted(i) /\ place[i] = "ld" =>
              /\ Cardinality(LoadsLeft(t)') = Cardinality(LoadsLeft(t)) - 1
              /\ b \in {"sent", "done"} => /\ ComputesLeft(t)' = ComputesLeft(t)
                                          /\ AccumLeft(t)' = AccumLeft(t)
         /\ t = tile(i) /\ Counted(i) /\ place[i] = "st" /\ b = "sent" =>
              /\ LoadsLeft(t)' = LoadsLeft(t) /\ ComputesLeft(t)' = ComputesLeft(t)
              /\ Cardinality(AccumLeft(t)') = Cardinality(AccumLeft(t)) - 1
         /\ t = tile(i) /\ place[i] = "ex" /\ b \in {"systolic", "vector"} =>
              /\ LoadsLeft(t)' = LoadsLeft(t) /\ ComputesLeft(t)' = ComputesLeft(t)
              /\ AccumLeft(t)' = AccumLeft(t)
         /\ t = tile(i) /\ Counted(i) /\ place[i] \in {"systolic", "vector"} /\ b = "done" =>
              /\ LoadsLeft(t)' = LoadsLeft(t)
              /\ Cardinality(ComputesLeft(t)') = Cardinality(ComputesLeft(t)) - 1
              /\ Cardinality(AccumLeft(t)') = Cardinality(AccumLeft(t)) - 1
<1>1. /\ t = tile(i) /\ place[i] = "ld" /\ Counted(i) =>
           Cardinality(LoadsLeft(t)') = Cardinality(LoadsLeft(t)) - 1
      /\ t # tile(i) \/ ~Counted(i) \/ place[i] # "ld" => LoadsLeft(t)' = LoadsLeft(t)
  BY MoveCount, ZenonT(30) DEF LoadsLeft
<1>2. LET q == {"ex", "systolic", "vector"}
      IN  /\ t = tile(i) /\ place[i] \in q /\ b \notin q /\ Counted(i) =>
               Cardinality(ComputesLeft(t)') = Cardinality(ComputesLeft(t)) - 1
          /\ t # tile(i) \/ ~Counted(i) \/ (place[i] \in q <=> b \in q) =>
               ComputesLeft(t)' = ComputesLeft(t)
  BY MoveCount, ZenonT(30) DEF ComputesLeft
<1>3. LET q == {"st", "ex", "systolic", "vector"}
      IN  /\ t = tile(i) /\ place[i] \in q /\ b \notin q /\ Counted(i) =>
               Cardinality(AccumLeft(t)') = Cardinality(AccumLeft(t)) - 1
          /\ t # tile(i) \/ ~Counted(i) \/ (place[i] \in q <=> b \in q) =>
               AccumLeft(t)' = AccumLeft(t)
  BY MoveCount, ZenonT(30) DEF AccumLeft
<1> QED  BY <1>1, <1>2, <1>3

(* Sending the accesses of an instruction adds them to one of the counts. *)
LEMMA SendCount ==
  ASSUME IsFiniteSet(inflight), NEW i \in Inst, \A a \in inflight : a[1] # i,
         inflight' = inflight \cup Accesses(i), NEW t \in Tiles
  PROVE  /\ IsFiniteSet(inflight')
         /\ t = tile(i) /\ op(i) # "MOVOUT" =>
              /\ Cardinality(Reads(t)') = Cardinality(Reads(t)) + inst(i).accesses
              /\ Writes(t)' = Writes(t)
         /\ t = tile(i) /\ op(i) = "MOVOUT" =>
              /\ Cardinality(Writes(t)') = Cardinality(Writes(t)) + inst(i).accesses
              /\ Reads(t)' = Reads(t)
         /\ t # tile(i) => Reads(t)' = Reads(t) /\ Writes(t)' = Writes(t)
         /\ op(i) = "MOVOUT" => Cardinality(AllWrites') = Cardinality(AllWrites) + inst(i).accesses
         /\ op(i) # "MOVOUT" => AllWrites' = AllWrites
<1>1. /\ \A a \in Accesses(i) : a[1] = i
      /\ IsFiniteSet(Accesses(i)) /\ Cardinality(Accesses(i)) = inst(i).accesses
      /\ inst(i).accesses \in Nat
  BY AccessFacts
<1>2. IsFiniteSet(inflight')
  BY <1>1, FS_Union
<1>3. ASSUME NEW S, S \subseteq inflight
      PROVE  Cardinality(S \cup Accesses(i)) = Cardinality(S) + inst(i).accesses
  <2>1. IsFiniteSet(S) /\ Cardinality(S) \in Nat
    BY <1>3, FS_Subset, FS_CardinalityType
  <2>2. S \cap Accesses(i) = {}
    BY <1>1, <1>3
  <2>3. Cardinality(S \cup Accesses(i))
          = Cardinality(S) + Cardinality(Accesses(i)) - Cardinality(S \cap Accesses(i))
    BY <1>1, <2>1, FS_Union
  <2>4. Cardinality(S \cap Accesses(i)) = 0
    BY <2>2, FS_EmptySet
  <2> QED  BY <1>1, <2>1, <2>3, <2>4
<1>4. Reads(t) \subseteq inflight /\ Writes(t) \subseteq inflight
  BY DEF Reads, Writes
<1>5. ASSUME t = tile(i), op(i) # "MOVOUT"
      PROVE  Reads(t)' = Reads(t) \cup Accesses(i) /\ Writes(t)' = Writes(t)
  BY <1>1, <1>5 DEF Reads, Writes, op, inst, tile
<1>6. ASSUME t = tile(i), op(i) = "MOVOUT"
      PROVE  Writes(t)' = Writes(t) \cup Accesses(i) /\ Reads(t)' = Reads(t)
  BY <1>1, <1>6 DEF Reads, Writes, op, inst, tile
<1>7. ASSUME t # tile(i) PROVE Reads(t)' = Reads(t) /\ Writes(t)' = Writes(t)
  BY <1>1, <1>7 DEF Reads, Writes, op, inst, tile
<1>8. ASSUME op(i) = "MOVOUT" PROVE AllWrites' = AllWrites \cup Accesses(i)
  BY <1>1, <1>8 DEF AllWrites, op, inst
<1>9. ASSUME op(i) # "MOVOUT" PROVE AllWrites' = AllWrites
  BY <1>1, <1>9 DEF AllWrites, op, inst
<1>10. AllWrites \subseteq inflight
  BY DEF AllWrites
<1> QED  BY <1>2, <1>3, <1>4, <1>5, <1>6, <1>7, <1>8, <1>9, <1>10

(* An answer takes its access out of one of the counts. *)
LEMMA AnswerCount ==
  ASSUME IsFiniteSet(inflight), NEW a \in inflight, inflight' = inflight \ {a}, NEW t \in Tiles
  PROVE  /\ IsFiniteSet(inflight')
         /\ t = tile(a[1]) /\ op(a[1]) # "MOVOUT" =>
              /\ Cardinality(Reads(t)') = Cardinality(Reads(t)) - 1
              /\ Writes(t)' = Writes(t)
         /\ t = tile(a[1]) /\ op(a[1]) = "MOVOUT" =>
              /\ Cardinality(Writes(t)') = Cardinality(Writes(t)) - 1
              /\ Reads(t)' = Reads(t)
         /\ t # tile(a[1]) => Reads(t)' = Reads(t) /\ Writes(t)' = Writes(t)
         /\ op(a[1]) = "MOVOUT" => Cardinality(AllWrites') = Cardinality(AllWrites) - 1
         /\ op(a[1]) # "MOVOUT" => AllWrites' = AllWrites
<1>1. /\ IsFiniteSet(inflight') /\ IsFiniteSet(AllWrites)
      /\ IsFiniteSet(Reads(t)) /\ IsFiniteSet(Writes(t))
  BY FS_RemoveElement, FS_Subset DEF Reads, Writes, AllWrites
<1>2. ASSUME t = tile(a[1]), op(a[1]) # "MOVOUT"
      PROVE  /\ a \in Reads(t) /\ Reads(t)' = Reads(t) \ {a} /\ Writes(t)' = Writes(t)
  BY <1>2 DEF Reads, Writes, op, inst, tile
<1>3. ASSUME t = tile(a[1]), op(a[1]) = "MOVOUT"
      PROVE  /\ a \in Writes(t) /\ Writes(t)' = Writes(t) \ {a} /\ Reads(t)' = Reads(t)
  BY <1>3 DEF Reads, Writes, op, inst, tile
<1>4. ASSUME t # tile(a[1]) PROVE Reads(t)' = Reads(t) /\ Writes(t)' = Writes(t)
  BY <1>4 DEF Reads, Writes, op, inst, tile
<1>5. \A S : IsFiniteSet(S) /\ a \in S => Cardinality(S \ {a}) = Cardinality(S) - 1
  BY FS_RemoveElement
<1>6. ASSUME op(a[1]) = "MOVOUT" PROVE a \in AllWrites /\ AllWrites' = AllWrites \ {a}
  BY <1>6 DEF AllWrites, op, inst
<1>7. ASSUME op(a[1]) # "MOVOUT" PROVE AllWrites' = AllWrites
  BY <1>7 DEF AllWrites, op, inst
<1> QED  BY <1>1, <1>2, <1>3, <1>4, <1>5, <1>6, <1>7

(* All counts are natural numbers. *)
LEMMA CountsNat ==
  ASSUME IsFiniteSet(inflight), NEW t \in Tiles
  PROVE  /\ IsFiniteSet(LoadsLeft(t)) /\ Cardinality(LoadsLeft(t)) \in Nat
         /\ IsFiniteSet(ComputesLeft(t)) /\ Cardinality(ComputesLeft(t)) \in Nat
         /\ IsFiniteSet(AccumLeft(t)) /\ Cardinality(AccumLeft(t)) \in Nat
         /\ IsFiniteSet(Reads(t)) /\ Cardinality(Reads(t)) \in Nat
         /\ IsFiniteSet(Writes(t)) /\ Cardinality(Writes(t)) \in Nat
         /\ Cardinality(AllWrites) \in Nat
<1>1. IsFiniteSet(LoadsLeft(t)) /\ IsFiniteSet(ComputesLeft(t)) /\ IsFiniteSet(AccumLeft(t))
  BY InstOfFinite, FS_Subset DEF LoadsLeft, ComputesLeft, AccumLeft, Queued
<1>2. IsFiniteSet(Reads(t)) /\ IsFiniteSet(Writes(t)) /\ IsFiniteSet(AllWrites)
  BY FS_Subset DEF Reads, Writes, AllWrites
<1> QED  BY <1>1, <1>2, FS_CardinalityType

(* The invariant holds initially. *)
LEMMA IInvInit == Init => IInv
<1> SUFFICES ASSUME Init PROVE IInv
  OBVIOUS
<1>1. TypeOK
  BY TypeInit
<1>2. IsFiniteSet(inflight) /\ AllWrites = {} /\ Cardinality({}) = 0
  BY FS_EmptySet DEF Init, AllWrites
<1>3. PlacesAgree
  BY DEF Init, PlacesAgree
<1>4. PipelinesAgree
  BY DEF Init, PipelinesAgree
<1>5. ZeroUnlessRunning
  BY DEF Init, ZeroUnlessRunning
<1>6. ASSUME NEW t \in Tiles PROVE TileCountersExact(t)
  <2>1. Reads(t) = {} /\ Writes(t) = {}
    BY DEF Init, Reads, Writes
  <2>2. \A q : "none" \notin q => Queued(q, t) = {}
    BY InstFacts DEF Init, Queued
  <2>3. LoadsLeft(t) = {} /\ ComputesLeft(t) = {} /\ AccumLeft(t) = {}
    BY <2>2 DEF LoadsLeft, ComputesLeft, AccumLeft
  <2> QED  BY <1>2, <2>1, <2>3 DEF Init, TileCountersExact
<1>7. CountersExact
  BY <1>2, <1>6 DEF Init, CountersExact
<1> QED  BY <1>1, <1>2, <1>3, <1>4, <1>5, <1>7 DEF IInv, Agreement

(* An instruction that is counted, or an access, belongs to a running tile. *)
LEMMA Busy ==
  ASSUME IInv
  PROVE  /\ \A i \in Inst : Counted(i) /\ place[i] \in {"ld", "st", "ex", "systolic", "vector"} =>
              status[tile(i)] = "RUNNING"
         /\ \A a \in inflight : a[1] \in Inst /\ status[tile(a[1])] = "RUNNING"
<1> USE DEF IInv, Agreement
<1>0. \A S, x : IsFiniteSet(S) /\ x \in S => Cardinality(S) # 0
  BY FS_EmptySet
<1>1. ASSUME NEW i \in Inst, Counted(i), place[i] \in {"ld", "st", "ex", "systolic", "vector"}
      PROVE  status[tile(i)] = "RUNNING"
  <2> DEFINE t == tile(i)
  <2>1. t \in Tiles /\ i \in InstOf(t)
    BY InstFacts
  <2>2. i \in LoadsLeft(t) \/ i \in AccumLeft(t)
    BY <1>1, <2>1 DEF LoadsLeft, AccumLeft, Queued
  <2> HIDE DEF t
  <2>3. Cardinality(LoadsLeft(t)) # 0 \/ Cardinality(AccumLeft(t)) # 0
    BY <1>0, <2>1, <2>2, CountsNat
  <2>4. remaining_loads[t] # 0 \/ remaining_accum_io[t] # 0
    BY <2>1, <2>3, CountsNat DEF CountersExact, TileCountersExact
  <2>5. status[t] = "RUNNING"
    BY <2>1, <2>4 DEF ZeroUnlessRunning
  <2> QED  BY <2>5 DEF t
<1>2. ASSUME NEW a \in inflight PROVE a[1] \in Inst /\ status[tile(a[1])] = "RUNNING"
  <2> DEFINE t == tile(a[1])
  <2>0. a[1] \in Inst
    BY AccessFacts DEF TypeOK
  <2>1. t \in Tiles
    BY <2>0, InstFacts
  <2>2. a \in Reads(t) \/ a \in Writes(t)
    BY DEF Reads, Writes
  <2> HIDE DEF t
  <2>3. Cardinality(Reads(t)) # 0 \/ Cardinality(Writes(t)) # 0
    BY <1>0, <2>1, <2>2, CountsNat
  <2>4. remaining_loads[t] # 0 \/ remaining_accum_io[t] # 0
    BY <2>1, <2>3, CountsNat DEF CountersExact, TileCountersExact
  <2>5. status[t] = "RUNNING"
    BY <2>1, <2>4 DEF ZeroUnlessRunning
  <2> QED  BY <2>0, <2>5 DEF t
<1> QED  BY <1>1, <1>2

(* Steps that touch neither instructions nor counters. *)
LEMMA NeutralStep ==
  ASSUME IInv, UNCHANGED <<status, place, vector_pipelines, inflight, counters, waiting_write_reqs>>
  PROVE  Agreement'
<1> USE DEF IInv, Agreement, counters
<1>1. PlacesAgree'
  BY DEF PlacesAgree, op, inst, tile, Counted
<1>2. PipelinesAgree'
  BY DEF PipelinesAgree
<1>3. CountersExact'
  BY DEF CountersExact, TileCountersExact, LoadsLeft, ComputesLeft, AccumLeft, Queued, Reads, Writes,
         AllWrites
<1>4. ZeroUnlessRunning'
  BY DEF ZeroUnlessRunning
<1> QED  BY <1>1, <1>2, <1>3, <1>4

(* A tile that is skipped or complete is finished. *)
LEMMA FinishStep ==
  ASSUME IInv, NEW t \in Tiles, status[t] = "INITIALIZED" \/ Complete(t), Finish(t)
  PROVE  Agreement'
<1> USE DEF IInv, Agreement
<1>0. /\ UNCHANGED <<place, vector_pipelines, inflight, waiting_write_reqs>>
      /\ UNCHANGED <<remaining_loads, remaining_computes, remaining_accum_io>>
      /\ \A u \in Tiles : status'[u] = IF u = t THEN "FINISH" ELSE status[u]
  BY DEF Finish, counters, TypeOK
<1>1. PlacesAgree'
  <2>1. \A i \in Inst : status'[tile(i)] = "INITIALIZED" => place'[i] = "none"
    BY <1>0, InstFacts DEF PlacesAgree
  <2> QED  BY <1>0, <2>1 DEF PlacesAgree, op, inst, tile, Counted
<1>2. PipelinesAgree'
  BY <1>0 DEF PipelinesAgree
<1>3. CountersExact'
  BY <1>0 DEF CountersExact, TileCountersExact, LoadsLeft, ComputesLeft, AccumLeft, Queued, Reads,
              Writes, AllWrites
<1>4. ZeroUnlessRunning'
  BY <1>0 DEF ZeroUnlessRunning, Complete
<1> QED  BY <1>0, <1>1, <1>2, <1>3, <1>4

(* A tile is issued: its instructions enter the queues and are counted. *)
LEMMA StartStep ==
  ASSUME IInv, NEW t \in Tiles, status[t] = "INITIALIZED", NEW sp, NEW ac, Start(t, sp, ac)
  PROVE  Agreement'
<1> USE DEF IInv, Agreement
<1>0. /\ UNCHANGED <<vector_pipelines, inflight, waiting_write_reqs>>
      /\ \A u \in Tiles : status'[u] = IF u = t THEN "RUNNING" ELSE status[u]
      /\ \A i \in Inst : place'[i] = IF tile(i) = t THEN QueueOf(i) ELSE place[i]
  BY DEF Start, TypeOK
<1>1. \A a \in inflight : a[1] \in Inst /\ tile(a[1]) # t
  BY Busy
<1>2. \A i \in Inst : tile(i) = t => place[i] = "none"
  BY DEF PlacesAgree
<1>3. \A i \in Inst : op(i) \in Opcode
  BY InstFacts DEF Instruction, op
<1>4. PlacesAgree'
  <2>1. \A i \in Inst : status'[tile(i)] = "INITIALIZED" => place'[i] = "none"
    BY <1>0, InstFacts DEF PlacesAgree
  <2>2. \A i \in Inst : /\ place'[i] = "ld" => op(i) \in LoadOp
                        /\ place'[i] = "st" => op(i) = "MOVOUT"
                        /\ place'[i] \in {"ex", "systolic", "vector"} => op(i) \in ExOp
    BY <1>0, <1>3 DEF PlacesAgree, QueueOf, Opcode
  <2>3. \A a \in inflight' : place'[a[1]] = "sent" /\ Counted(a[1])
    BY <1>0, <1>1 DEF PlacesAgree
  <2> QED  BY <2>1, <2>2, <2>3 DEF PlacesAgree, op, inst, tile, Counted
<1>5. PipelinesAgree'
  <2>1. ASSUME NEW v \in Vpus, NEW k \in 1..Len(vector_pipelines[v])
        PROVE  place'[vector_pipelines[v][k]] = "vector"
    <3>1. vector_pipelines[v][k] \in Inst
      BY DEF TypeOK
    <3>2. place[vector_pipelines[v][k]] = "vector"
      BY DEF PipelinesAgree
    <3> QED  BY <1>0, <1>2, <3>1, <3>2
  <2> QED  BY <1>0, <2>1 DEF PipelinesAgree
<1>6. AllWrites' = AllWrites /\ \A u \in Tiles : Reads(u)' = Reads(u) /\ Writes(u)' = Writes(u)
  BY <1>0 DEF AllWrites, Reads, Writes
<1>7. ASSUME NEW u \in Tiles, u # t PROVE TileCountersExact(u)'
  <2>1. /\ LoadsLeft(u)' = LoadsLeft(u) /\ ComputesLeft(u)' = ComputesLeft(u)
        /\ AccumLeft(u)' = AccumLeft(u)
    BY <1>0, <1>7, InstFacts DEF LoadsLeft, ComputesLeft, AccumLeft, Queued
  <2>2. /\ remaining_loads'[u] = remaining_loads[u] /\ remaining_computes'[u] = remaining_computes[u]
        /\ remaining_accum_io'[u] = remaining_accum_io[u]
    BY <1>7 DEF Start, TypeOK
  <2> QED  BY <1>6, <2>1, <2>2 DEF CountersExact, TileCountersExact
<1>8. TileCountersExact(t)'
  <2>1. Reads(t)' = {} /\ Writes(t)' = {} /\ Cardinality({}) = 0
    BY <1>1, <1>6, FS_EmptySet DEF Reads, Writes
  <2>2. \A i \in InstOf(t) : i \in Inst /\ place'[i] = QueueOf(i)
    BY <1>0, InstFacts
  <2>3. \A i \in InstOf(t) : QueueOf(i) \in {"st", "ex"} => Counted(i)
    BY <1>3, <2>2 DEF QueueOf, Counted, LoadOp
  <2>4. \A i \in InstOf(t) : QueueOf(i) \in {"ld", "st", "ex"}
    BY DEF QueueOf
  <2>5. LoadsLeft(t)' = {i \in InstOf(t) : QueueOf(i) = "ld" /\ Counted(i)}
    BY <2>2 DEF LoadsLeft, Queued
  <2>6. ComputesLeft(t)' = {i \in InstOf(t) : QueueOf(i) = "ex"}
    BY <2>2, <2>3, <2>4 DEF ComputesLeft, Queued
  <2>7. AccumLeft(t)' = {i \in InstOf(t) : QueueOf(i) \in {"st", "ex"}}
    BY <2>2, <2>3, <2>4 DEF AccumLeft, Queued
  <2>8. /\ remaining_loads'[t] = Cardinality(LoadsLeft(t)')
        /\ remaining_computes'[t] = Cardinality(ComputesLeft(t)')
        /\ remaining_accum_io'[t] = Cardinality(AccumLeft(t)')
    BY <2>5, <2>6, <2>7 DEF Start, TypeOK
  <2>9. Cardinality(LoadsLeft(t)') \in Nat /\ Cardinality(AccumLeft(t)') \in Nat
    BY <2>5, <2>7, InstOfFinite, FS_Subset, FS_CardinalityType
  <2> QED  BY <2>1, <2>8, <2>9 DEF TileCountersExact
<1>9. CountersExact'
  BY <1>0, <1>6, <1>7, <1>8 DEF CountersExact
<1>10. ZeroUnlessRunning'
  BY <1>0 DEF ZeroUnlessRunning, Start, TypeOK
<1> QED  BY <1>0, <1>4, <1>5, <1>9, <1>10

(* The memory answers. *)
LEMMA ResponseStep ==
  ASSUME IInv, NEW a \in inflight, push_memory_response(a)
  PROVE  Agreement'
<1> USE DEF IInv, Agreement
<1> DEFINE r == tile(a[1])
<1>0. UNCHANGED <<status, place, vector_pipelines, remaining_computes>> /\ inflight' = inflight \ {a}
  BY DEF push_memory_response
<1>1. a[1] \in Inst /\ status[r] = "RUNNING" /\ r \in Tiles
  BY Busy, InstFacts
<1>2. PlacesAgree'
  BY <1>0 DEF PlacesAgree, op, inst, tile, Counted
<1>3. PipelinesAgree'
  BY <1>0 DEF PipelinesAgree
<1>4. \A t \in Tiles : /\ LoadsLeft(t)' = LoadsLeft(t) /\ ComputesLeft(t)' = ComputesLeft(t)
                       /\ AccumLeft(t)' = AccumLeft(t)
  BY <1>0 DEF LoadsLeft, ComputesLeft, AccumLeft, Queued
<1>5. /\ op(a[1]) = "MOVOUT" =>
           /\ remaining_accum_io' = [remaining_accum_io EXCEPT ![r] = @ - 1]
           /\ waiting_write_reqs' = waiting_write_reqs - 1 /\ UNCHANGED remaining_loads
      /\ op(a[1]) # "MOVOUT" =>
           /\ remaining_loads' = [remaining_loads EXCEPT ![r] = @ - 1]
           /\ UNCHANGED <<remaining_accum_io, waiting_write_reqs>>
  BY DEF push_memory_response
<1> HIDE DEF r
<1>6. ASSUME NEW t \in Tiles PROVE TileCountersExact(t)'
  <2>1. /\ t = r /\ op(a[1]) # "MOVOUT" =>
             Cardinality(Reads(t)') = Cardinality(Reads(t)) - 1 /\ Writes(t)' = Writes(t)
        /\ t = r /\ op(a[1]) = "MOVOUT" =>
             Cardinality(Writes(t)') = Cardinality(Writes(t)) - 1 /\ Reads(t)' = Reads(t)
        /\ t # r => Reads(t)' = Reads(t) /\ Writes(t)' = Writes(t)
    BY <1>0, AnswerCount DEF r
  <2>2. /\ remaining_loads'[t] =
             IF t = r /\ op(a[1]) # "MOVOUT" THEN remaining_loads[t] - 1 ELSE remaining_loads[t]
        /\ remaining_accum_io'[t] =
             IF t = r /\ op(a[1]) = "MOVOUT" THEN remaining_accum_io[t] - 1
                                             ELSE remaining_accum_io[t]
    BY <1>1, <1>5 DEF TypeOK
  <2>3. TileCountersExact(t)
    BY DEF CountersExact
  <2> QED  BY <1>0, <1>4, <2>1, <2>2, <2>3, CountsNat DEF TileCountersExact
<1>7. IsFiniteSet(inflight') /\ waiting_write_reqs' = Cardinality(AllWrites')
  BY <1>0, <1>1, <1>5, AnswerCount, CountsNat DEF CountersExact
<1>8. ZeroUnlessRunning'
  BY <1>0, <1>1, <1>5 DEF ZeroUnlessRunning, TypeOK
<1> QED  BY <1>2, <1>3, <1>6, <1>7, <1>8 DEF CountersExact

(* A computation ends and leaves its pipeline. *)
LEMMA ComputedStep ==
  ASSUME IInv, NEW i \in Inst, Computed(i), Leaves(i)
  PROVE  Agreement'
<1> USE DEF IInv, Agreement
<1> DEFINE r == tile(i)
<1>0. /\ UNCHANGED <<status, inflight, remaining_loads, waiting_write_reqs>>
      /\ place' = [place EXCEPT ![i] = "done"]
      /\ remaining_accum_io' = [remaining_accum_io EXCEPT ![r] = @ - 1]
      /\ remaining_computes' = [remaining_computes EXCEPT ![r] = @ - 1]
  BY DEF Computed
<1>1. \A j \in Inst : place'[j] = IF j = i THEN "done" ELSE place[j]
  BY <1>0 DEF TypeOK
<1>2. \A v \in Vpus : \A k \in 1..Len(vector_pipelines[v]) : vector_pipelines[v][k] \in Inst
  BY DEF TypeOK
<1>3. place[i] \in {"systolic", "vector"}
  <2>1. ASSUME NEW v \in Vpus, vector_pipelines[v] # <<>>, i = Head(vector_pipelines[v])
        PROVE  place[i] = "vector"
    <3>1. vector_pipelines[v] \in Seq(Inst)
      BY DEF TypeOK
    <3>2. 1 \in 1..Len(vector_pipelines[v]) /\ i = vector_pipelines[v][1]
      BY <2>1, <3>1
    <3> QED  BY <3>2 DEF PipelinesAgree
  <2> QED  BY <2>1 DEF Leaves
<1>4. op(i) \in ExOp /\ Counted(i) /\ status[r] = "RUNNING" /\ r \in Tiles
  <2>1. op(i) \in ExOp
    BY <1>3 DEF PlacesAgree
  <2>2. Counted(i)
    BY <2>1 DEF ExOp, Counted
  <2> QED  BY <1>3, <2>1, <2>2, Busy, InstFacts
<1>5. PlacesAgree'
  <2>1. \A a \in inflight : a[1] \in Inst /\ a[1] # i
    BY <1>3, Busy DEF PlacesAgree
  <2>2. \A j \in Inst : status'[tile(j)] = "INITIALIZED" => place'[j] = "none"
    BY <1>0, <1>1, <1>4 DEF PlacesAgree
  <2>3. \A j \in Inst : /\ place'[j] = "ld" => op(j) \in LoadOp
                        /\ place'[j] = "st" => op(j) = "MOVOUT"
                        /\ place'[j] \in {"ex", "systolic", "vector"} => op(j) \in ExOp
    BY <1>1 DEF PlacesAgree
  <2>4. \A a \in inflight' : place'[a[1]] = "sent" /\ Counted(a[1])
    BY <1>0, <1>1, <2>1 DEF PlacesAgree
  <2> QED  BY <2>2, <2>3, <2>4 DEF PlacesAgree, op, inst, tile, Counted
<1>6. PipelinesAgree'
  <2>1. CASE place[i] = "systolic" /\ UNCHANGED vector_pipelines
    BY <1>1, <1>2, <2>1 DEF PipelinesAgree
  <2>2. ASSUME NEW v \in Vpus, vector_pipelines[v] # <<>>, i = Head(vector_pipelines[v]),
               vector_pipelines' = [vector_pipelines EXCEPT ![v] = Tail(@)]
        PROVE  PipelinesAgree'
    <3>1. vector_pipelines[v] \in Seq(Inst) /\ vector_pipelines \in [Vpus -> Seq(Inst)]
      BY DEF TypeOK
    <3>2. /\ Len(vector_pipelines'[v]) = Len(vector_pipelines[v]) - 1
          /\ Len(vector_pipelines[v]) \in Nat \ {0}
          /\ \A k \in 1..Len(vector_pipelines'[v]) :
               /\ vector_pipelines'[v][k] = vector_pipelines[v][k + 1]
               /\ k + 1 \in 1..Len(vector_pipelines[v])
          /\ i = vector_pipelines[v][1]
      BY <2>2, <3>1
    <3>3. \A w \in Vpus : w # v => vector_pipelines'[w] = vector_pipelines[w]
      BY <2>2, <3>1
    <3>4. ASSUME NEW w \in Vpus, NEW k \in 1..Len(vector_pipelines'[w])
          PROVE  \E m \in 1..Len(vector_pipelines[w]) :
                   /\ vector_pipelines'[w][k] = vector_pipelines[w][m]
                   /\ m = IF w = v THEN k + 1 ELSE k
                   /\ vector_pipelines[w][m] # i
      <4>1. CASE w = v
        <5>1. k + 1 \in 1..Len(vector_pipelines[v]) /\ 1 \in 1..Len(vector_pipelines[v])
              /\ k + 1 # 1
          BY <3>2, <4>1
        <5>2. vector_pipelines[v][k + 1] # vector_pipelines[v][1]
          BY <5>1 DEF PipelinesAgree
        <5> QED  BY <3>2, <4>1, <5>1, <5>2
      <4>2. CASE w # v
        <5>1. k \in 1..Len(vector_pipelines[w]) /\ 1 \in 1..Len(vector_pipelines[v])
          BY <3>2, <3>3, <4>2
        <5>2. vector_pipelines[w][k] # vector_pipelines[v][1]
          BY <4>2, <5>1 DEF PipelinesAgree
        <5> QED  BY <3>2, <3>3, <4>2, <5>1, <5>2
      <4> QED  BY <4>1, <4>2
    <3>5. \A w \in Vpus : \A k \in 1..Len(vector_pipelines'[w]) :
            place'[vector_pipelines'[w][k]] = "vector"
      BY <1>1, <1>2, <3>4 DEF PipelinesAgree
    <3>6. ASSUME NEW w \in Vpus, NEW x \in Vpus, NEW k \in 1..Len(vector_pipelines'[w]),
                 NEW l \in 1..Len(vector_pipelines'[x]),
                 vector_pipelines'[w][k] = vector_pipelines'[x][l]
          PROVE  w = x /\ k = l
      <4>1. PICK m \in 1..Len(vector_pipelines[w]) :
              /\ vector_pipelines'[w][k] = vector_pipelines[w][m]
              /\ m = IF w = v THEN k + 1 ELSE k
        BY <3>4
      <4>2. PICK n \in 1..Len(vector_pipelines[x]) :
              /\ vector_pipelines'[x][l] = vector_pipelines[x][n]
              /\ n = IF x = v THEN l + 1 ELSE l
        BY <3>4
      <4>3. vector_pipelines[w][m] = vector_pipelines[x][n]
        BY <3>6, <4>1, <4>2
      <4>4. w = x /\ m = n
        BY <4>3 DEF PipelinesAgree
      <4>5. k \in Int /\ l \in Int
        OBVIOUS
      <4> QED  BY <4>1, <4>2, <4>4, <4>5
    <3> QED  BY <3>5, <3>6 DEF PipelinesAgree
  <2> QED  BY <2>1, <2>2 DEF Leaves
<1>7. AllWrites' = AllWrites /\ \A t \in Tiles : Reads(t)' = Reads(t) /\ Writes(t)' = Writes(t)
  BY <1>0 DEF AllWrites, Reads, Writes
<1>8. ASSUME NEW t \in Tiles PROVE TileCountersExact(t)'
  <2>1. /\ LoadsLeft(t)' = LoadsLeft(t)
        /\ t # r => ComputesLeft(t)' = ComputesLeft(t) /\ AccumLeft(t)' = AccumLeft(t)
        /\ t = r => /\ Cardinality(ComputesLeft(t)') = Cardinality(ComputesLeft(t)) - 1
                    /\ Cardinality(AccumLeft(t)') = Cardinality(AccumLeft(t)) - 1
    BY <1>0, <1>3, <1>4, LeftAfter
  <2> HIDE DEF r
  <2>2. /\ remaining_computes'[t] = IF t = r THEN remaining_computes[t] - 1 ELSE remaining_computes[t]
        /\ remaining_accum_io'[t] = IF t = r THEN remaining_accum_io[t] - 1 ELSE remaining_accum_io[t]
    BY <1>0, <1>4 DEF TypeOK
  <2>3. TileCountersExact(t)
    BY DEF CountersExact
  <2> QED  BY <1>0, <1>7, <2>1, <2>2, <2>3, CountsNat DEF TileCountersExact
<1>9. CountersExact'
  BY <1>0, <1>7, <1>8 DEF CountersExact
<1>10. ZeroUnlessRunning'
  <2> HIDE DEF r
  <2> QED  BY <1>0, <1>4 DEF ZeroUnlessRunning, TypeOK
<1> QED  BY <1>0, <1>5, <1>6, <1>9, <1>10

(* What is left to show about a step that moves instruction i out of a queue. *)
LEMMA SentPlaces ==
  ASSUME IInv, NEW i \in Inst, place[i] \in {"ld", "st"}, place' = [place EXCEPT ![i] = "sent"],
         UNCHANGED <<status, vector_pipelines>>,
         inflight' = inflight \/ (Counted(i) /\ inflight' = inflight \cup Accesses(i))
  PROVE  PlacesAgree' /\ PipelinesAgree'
<1> USE DEF IInv, Agreement
<1>1. \A j \in Inst : place'[j] = IF j = i THEN "sent" ELSE place[j]
  BY DEF TypeOK
<1>2. \A v \in Vpus : \A k \in 1..Len(vector_pipelines[v]) : vector_pipelines[v][k] \in Inst
  BY DEF TypeOK
<1>3. \A a \in Accesses(i) : a[1] = i
  BY AccessFacts
<1>4. \A j \in Inst : status'[tile(j)] = "INITIALIZED" => place'[j] = "none"
  BY <1>1 DEF PlacesAgree
<1>5. \A j \in Inst : /\ place'[j] = "ld" => op(j) \in LoadOp
                      /\ place'[j] = "st" => op(j) = "MOVOUT"
                      /\ place'[j] \in {"ex", "systolic", "vector"} => op(j) \in ExOp
  BY <1>1 DEF PlacesAgree
<1>6. \A a \in inflight' : place'[a[1]] = "sent" /\ Counted(a[1])
  BY <1>1, <1>3, Busy DEF PlacesAgree
<1>7. PlacesAgree'
  BY <1>4, <1>5, <1>6 DEF PlacesAgree, op, inst, tile, Counted
<1>8. PipelinesAgree'
  BY <1>1, <1>2 DEF PipelinesAgree
<1> QED  BY <1>7, <1>8

(* A load is sent. *)
LEMMA SendLoadStep ==
  ASSUME IInv, NEW i \in Inst, place[i] = "ld", SendLoad(i)
  PROVE  Agreement'
<1> USE DEF IInv, Agreement
<1> DEFINE r == tile(i)
<1>0. /\ UNCHANGED <<status, vector_pipelines, remaining_computes, remaining_accum_io>>
      /\ UNCHANGED waiting_write_reqs
      /\ place' = [place EXCEPT ![i] = "sent"]
      /\ remaining_loads' = [remaining_loads EXCEPT ![r] = @ + MoreAccesses(i)]
      /\ inflight' = IF Counted(i) THEN inflight \cup Accesses(i) ELSE inflight
  BY DEF SendLoad
<1>1. op(i) \in LoadOp /\ op(i) # "MOVOUT" /\ r \in Tiles
  BY InstFacts DEF PlacesAgree, LoadOp
<1>2. \A a \in inflight : a[1] # i
  BY DEF PlacesAgree
<1>3. PlacesAgree' /\ PipelinesAgree'
  BY <1>0, SentPlaces
<1>4. inst(i).accesses \in Nat /\ MoreAccesses(i) = inst(i).accesses - 1
      /\ MoreAccesses(i) \in Int
  BY AccessFacts DEF MoreAccesses
<1>5. ~Counted(i) => MoreAccesses(i) = 0
  BY <1>1, <1>4, ProgramAssumption DEF Counted, LoadOp
<1>6. ASSUME NEW t \in Tiles
      PROVE  remaining_loads'[t] =
               IF t = r THEN remaining_loads[t] + MoreAccesses(i) ELSE remaining_loads[t]
  BY <1>0, <1>1 DEF TypeOK
<1>7. CASE Counted(i)
  <2>0. inflight' = inflight \cup Accesses(i)
    BY <1>0, <1>7
  <2>1. ASSUME NEW t \in Tiles PROVE TileCountersExact(t)'
    <3>1. /\ t # r => LoadsLeft(t)' = LoadsLeft(t)
          /\ t = r => Cardinality(LoadsLeft(t)') = Cardinality(LoadsLeft(t)) - 1
          /\ ComputesLeft(t)' = ComputesLeft(t) /\ AccumLeft(t)' = AccumLeft(t)
      BY <1>0, <1>7, LeftAfter
    <3>2. /\ t # r => Reads(t)' = Reads(t)
          /\ t = r => Cardinality(Reads(t)') = Cardinality(Reads(t)) + inst(i).accesses
          /\ Writes(t)' = Writes(t)
      BY <1>1, <1>2, <2>0, SendCount
    <3>3. TileCountersExact(t)
      BY DEF CountersExact
    <3> HIDE DEF r
    <3> QED  BY <1>0, <1>4, <1>6, <3>1, <3>2, <3>3, CountsNat DEF TileCountersExact
  <2>2. IsFiniteSet(inflight') /\ AllWrites' = AllWrites
    BY <1>1, <1>2, <2>0, SendCount
  <2>3. status[r] = "RUNNING"
    BY <1>7, Busy
  <2> HIDE DEF r
  <2>4. ZeroUnlessRunning'
    BY <1>0, <1>6, <2>3 DEF ZeroUnlessRunning
  <2> QED  BY <1>0, <1>3, <2>1, <2>2, <2>4 DEF CountersExact
<1>8. CASE ~Counted(i)
  <2>0. inflight' = inflight
    BY <1>0, <1>8
  <2>1. \A t \in Tiles : remaining_loads'[t] = remaining_loads[t]
    BY <1>5, <1>6, <1>8 DEF TypeOK
  <2>2. \A t \in Tiles : /\ LoadsLeft(t)' = LoadsLeft(t) /\ ComputesLeft(t)' = ComputesLeft(t)
                         /\ AccumLeft(t)' = AccumLeft(t)
    BY <1>0, <1>8, LeftAfter
  <2>3. AllWrites' = AllWrites /\ \A t \in Tiles : Reads(t)' = Reads(t) /\ Writes(t)' = Writes(t)
    BY <2>0 DEF AllWrites, Reads, Writes
  <2>4. CountersExact'
    BY <1>0, <2>1, <2>2, <2>3 DEF CountersExact, TileCountersExact
  <2>5. ZeroUnlessRunning'
    BY <1>0, <2>1 DEF ZeroUnlessRunning
  <2> QED  BY <1>3, <2>0, <2>4, <2>5
<1> QED  BY <1>7, <1>8

(* A store is sent. *)
LEMMA SendStoreStep ==
  ASSUME IInv, NEW i \in Inst, place[i] = "st", SendStore(i)
  PROVE  Agreement'
<1> USE DEF IInv, Agreement
<1> DEFINE r == tile(i)
<1>0. /\ UNCHANGED <<status, vector_pipelines, remaining_loads, remaining_computes>>
      /\ waiting_write_reqs' = waiting_write_reqs + inst(i).accesses
      /\ place' = [place EXCEPT ![i] = "sent"]
      /\ remaining_accum_io' = [remaining_accum_io EXCEPT ![r] = @ + MoreAccesses(i)]
      /\ inflight' = inflight \cup Accesses(i)
  BY DEF SendStore
<1>1. op(i) = "MOVOUT" /\ Counted(i) /\ r \in Tiles
  BY InstFacts DEF PlacesAgree, Counted
<1>2. \A a \in inflight : a[1] # i
  BY DEF PlacesAgree
<1>3. PlacesAgree' /\ PipelinesAgree'
  BY <1>0, <1>1, SentPlaces
<1>4. inst(i).accesses \in Nat /\ MoreAccesses(i) = inst(i).accesses - 1
  BY AccessFacts DEF MoreAccesses
<1>5. ASSUME NEW t \in Tiles
      PROVE  remaining_accum_io'[t] =
               IF t = r THEN remaining_accum_io[t] + MoreAccesses(i) ELSE remaining_accum_io[t]
  BY <1>0, <1>1 DEF TypeOK
<1>6. ASSUME NEW t \in Tiles PROVE TileCountersExact(t)'
  <2>1. /\ t # r => AccumLeft(t)' = AccumLeft(t)
        /\ t = r => Cardinality(AccumLeft(t)') = Cardinality(AccumLeft(t)) - 1
        /\ LoadsLeft(t)' = LoadsLeft(t) /\ ComputesLeft(t)' = ComputesLeft(t)
    BY <1>0, <1>1, LeftAfter
  <2>2. /\ t # r => Writes(t)' = Writes(t)
        /\ t = r => Cardinality(Writes(t)') = Cardinality(Writes(t)) + inst(i).accesses
        /\ Reads(t)' = Reads(t)
    BY <1>0, <1>1, <1>2, SendCount
  <2>3. TileCountersExact(t)
    BY DEF CountersExact
  <2> HIDE DEF r
  <2> QED  BY <1>0, <1>4, <1>5, <2>1, <2>2, <2>3, CountsNat DEF TileCountersExact
<1>7. IsFiniteSet(inflight') /\ Cardinality(AllWrites') = Cardinality(AllWrites) + inst(i).accesses
  BY <1>0, <1>1, <1>2, SendCount
<1>8. status[r] = "RUNNING"
  BY <1>1, Busy
<1> HIDE DEF r
<1>9. ZeroUnlessRunning'
  BY <1>0, <1>5, <1>8 DEF ZeroUnlessRunning
<1> QED  BY <1>0, <1>3, <1>6, <1>7, <1>9 DEF CountersExact

(* A computation enters the systolic array or a vector unit. *)
LEMMA IssueExStep ==
  ASSUME IInv, NEW i \in Inst, place[i] = "ex", issue_ex_inst(i)
  PROVE  Agreement'
<1> USE DEF IInv, Agreement
<1>0. /\ UNCHANGED <<status, inflight, waiting_write_reqs>>
      /\ UNCHANGED <<remaining_loads, remaining_computes, remaining_accum_io>>
  BY DEF issue_ex_inst, counters
<1>1. PICK b \in {"systolic", "vector"} :
        /\ place' = [place EXCEPT ![i] = b]
        /\ \/ UNCHANGED vector_pipelines
           \/ /\ b = "vector"
              /\ \E v \in Vpus :
                   vector_pipelines' = [vector_pipelines EXCEPT ![v] = Append(@, i)]
  BY DEF issue_ex_inst
<1>2. \A j \in Inst : place'[j] = IF j = i THEN b ELSE place[j]
  BY <1>1 DEF TypeOK
<1>3. ASSUME NEW v \in Vpus, NEW k \in 1..Len(vector_pipelines[v])
      PROVE  /\ vector_pipelines[v][k] \in Inst /\ vector_pipelines[v][k] # i
             /\ place'[vector_pipelines[v][k]] = "vector"
  <2>1. vector_pipelines[v][k] \in Inst
    BY DEF TypeOK
  <2>2. place[vector_pipelines[v][k]] = "vector"
    BY DEF PipelinesAgree
  <2> QED  BY <1>2, <2>1, <2>2
<1>4. op(i) \in ExOp /\ Counted(i) /\ status[tile(i)] = "RUNNING" /\ tile(i) \in Tiles
  <2>1. op(i) \in ExOp
    BY DEF PlacesAgree
  <2>2. Counted(i)
    BY <2>1 DEF ExOp, Counted
  <2> QED  BY <2>1, <2>2, Busy, InstFacts
<1>5. PlacesAgree'
  <2>1. \A a \in inflight : a[1] \in Inst /\ a[1] # i
    BY Busy DEF PlacesAgree
  <2>2. \A j \in Inst : status'[tile(j)] = "INITIALIZED" => place'[j] = "none"
    BY <1>0, <1>2, <1>4 DEF PlacesAgree
  <2>3. \A j \in Inst : /\ place'[j] = "ld" => op(j) \in LoadOp
                        /\ place'[j] = "st" => op(j) = "MOVOUT"
                        /\ place'[j] \in {"ex", "systolic", "vector"} => op(j) \in ExOp
    BY <1>2, <1>4 DEF PlacesAgree
  <2>4. \A a \in inflight' : place'[a[1]] = "sent" /\ Counted(a[1])
    BY <1>0, <1>2, <2>1 DEF PlacesAgree
  <2> QED  BY <2>2, <2>3, <2>4 DEF PlacesAgree, op, inst, tile, Counted
<1>6. PipelinesAgree'
  <2>1. CASE UNCHANGED vector_pipelines
    BY <1>3, <2>1 DEF PipelinesAgree
  <2>2. ASSUME NEW v \in Vpus, b = "vector",
               vector_pipelines' = [vector_pipelines EXCEPT ![v] = Append(@, i)]
        PROVE  PipelinesAgree'
    <3>1. vector_pipelines[v] \in Seq(Inst) /\ vector_pipelines \in [Vpus -> Seq(Inst)]
      BY DEF TypeOK
    <3>2. /\ Len(vector_pipelines[v]) \in Nat
          /\ Len(vector_pipelines'[v]) = Len(vector_pipelines[v]) + 1
          /\ \A k \in 1..Len(vector_pipelines[v]) :
               vector_pipelines'[v][k] = vector_pipelines[v][k]
          /\ vector_pipelines'[v][Len(vector_pipelines[v]) + 1] = i
      BY <2>2, <3>1
    <3>3. \A w \in Vpus : w # v => vector_pipelines'[w] = vector_pipelines[w]
      BY <2>2, <3>1
    <3>4. ASSUME NEW w \in Vpus, NEW k \in 1..Len(vector_pipelines'[w])
          PROVE  \/ /\ k \in 1..Len(vector_pipelines[w])
                    /\ vector_pipelines'[w][k] = vector_pipelines[w][k]
                 \/ /\ w = v /\ k = Len(vector_pipelines[v]) + 1
                    /\ vector_pipelines'[w][k] = i
      BY <3>2, <3>3
    <3>5. \A w \in Vpus : \A k \in 1..Len(vector_pipelines'[w]) :
            place'[vector_pipelines'[w][k]] = "vector"
      BY <1>2, <1>3, <2>2, <3>4
    <3>6. ASSUME NEW w \in Vpus, NEW x \in Vpus, NEW k \in 1..Len(vector_pipelines'[w]),
                 NEW l \in 1..Len(vector_pipelines'[x]),
                 vector_pipelines'[w][k] = vector_pipelines'[x][l]
          PROVE  w = x /\ k = l
      <4>1. CASE vector_pipelines'[w][k] = i
        <5>1. w = v /\ k = Len(vector_pipelines[v]) + 1
          BY <1>3, <3>4, <4>1
        <5>2. x = v /\ l = Len(vector_pipelines[v]) + 1
          BY <1>3, <3>4, <3>6, <4>1, ZenonT(30)
        <5> QED  BY <5>1, <5>2
      <4>2. CASE vector_pipelines'[w][k] # i
        <5>1. /\ k \in 1..Len(vector_pipelines[w]) /\ l \in 1..Len(vector_pipelines[x])
              /\ vector_pipelines[w][k] = vector_pipelines[x][l]
          BY <3>4, <3>6, <4>2
        <5> QED  BY <5>1 DEF PipelinesAgree
      <4> QED  BY <4>1, <4>2
    <3> QED  BY <3>5, <3>6 DEF PipelinesAgree
  <2> QED  BY <1>1, <2>1, <2>2
<1>7. AllWrites' = AllWrites /\ \A t \in Tiles : Reads(t)' = Reads(t) /\ Writes(t)' = Writes(t)
  BY <1>0 DEF AllWrites, Reads, Writes
<1>8. \A t \in Tiles : /\ LoadsLeft(t)' = LoadsLeft(t) /\ ComputesLeft(t)' = ComputesLeft(t)
                       /\ AccumLeft(t)' = AccumLeft(t)
  BY <1>1, LeftAfter
<1>9. CountersExact'
  BY <1>0, <1>7, <1>8 DEF CountersExact, TileCountersExact
<1>10. ZeroUnlessRunning'
  BY <1>0 DEF ZeroUnlessRunning
<1> QED  BY <1>0, <1>5, <1>6, <1>9, <1>10

(* Every step preserves the invariant. *)
LEMMA IInvStep == ASSUME IInv, [Next]_vars PROVE IInv'
<1>1. TypeOK'
  BY TypeStep DEF IInv
<1>2. CASE UNCHANGED vars
  BY <1>1, <1>2, NeutralStep DEF vars, IInv
<1>3. CASE Next
  <2>1. \A t \in Tiles : IsNext(t, platform(t)) => status[t] = "INITIALIZED"
    BY DEF IsNext
  <2>2. Agreement'
    BY <1>3, <2>1, StepCases, StartsFacts, NeutralStep, FinishStep, StartStep, ResponseStep,
       ComputedStep, SendLoadStep, SendStoreStep, IssueExStep DEF IInv
  <2> QED  BY <1>1, <2>2 DEF IInv
<1> QED  BY <1>2, <1>3

(* The counters of every tile, by which NeuPIMSCore::cycle decides that it is
   finished and can_issue() that a buffer may be cleared, count exactly its
   queued and running instructions and its unanswered accesses. *)
THEOREM CountersAreExact == Spec => []CountersExact
<1>1. IInv => CountersExact
  BY DEF IInv, Agreement
<1> QED  BY <1>1, IInvInit, IInvStep, PTL DEF Spec

(* Nothing that is queued, computed or unanswered in the core belongs to a
   tile that NeuPIMSCore::cycle has handed back. *)
THEOREM FinishedQuiet == Spec => []FinishedTilesAreQuiet
<1>1. ASSUME IInv PROVE FinishedTilesAreQuiet
  <2>1. ASSUME NEW t \in Tiles, status[t] = "FINISH", NEW i \in InstOf(t), Counted(i)
        PROVE  place[i] \in {"none", "sent", "done"}
    <3>1. i \in Inst /\ tile(i) = t
      BY InstFacts
    <3>2. place[i] \in Places
      BY <1>1, <3>1 DEF IInv, TypeOK
    <3> QED  BY <1>1, <2>1, <3>1, <3>2, Busy DEF Places
  <2>2. ASSUME NEW t \in Tiles, status[t] = "FINISH", NEW a \in inflight PROVE tile(a[1]) # t
    BY <1>1, <2>2, Busy
  <2> QED  BY <2>1, <2>2 DEF FinishedTilesAreQuiet
<1> QED  BY <1>1, IInvInit, IInvStep, PTL DEF Spec

-----------------------------------------------------------------------------
(* Tiles for the systolic array are issued in their order. *)
IssuedInOrder == \A t, u \in Tiles :
  t < u /\ platform(t) = SA /\ platform(u) = SA /\ status[u] # "INITIALIZED" =>
    status[t] # "INITIALIZED"

(* At most one tile for the memory runs. *)
OnePim == \A t, u \in Running(PIM) : t = u

(* A tile that still loads into the current side of the scratchpad has the
   current side of the accumulators. *)
CurrentSide == \A t \in Running(SA) :
  remaining_loads[t] # 0 /\ spad_id[t] = current_spad => accum_spad_id[t] = current_acc_spad

(* A tile that still loads has a side of the scratchpad to itself, and a side
   of the accumulators unless a later tile accumulates there. *)
LoadsApart == \A t, u \in Running(SA) : t < u /\ remaining_loads[t] # 0 =>
  /\ spad_id[t] # spad_id[u]
  /\ Program[u].accum \/ accum_spad_id[t] # accum_spad_id[u]

SidesInv == IssuedInOrder /\ OnePim /\ BuffersNotShared /\ CurrentSide /\ LoadsApart

(* What issue() does to tile t beside filling the queues. *)
GivesSides(t, sp, ac) ==
  /\ status' = [status EXCEPT ![t] = "RUNNING"]
  /\ spad_id' = [spad_id EXCEPT ![t] = sp]
  /\ accum_spad_id' = [accum_spad_id EXCEPT ![t] = ac]

AccFor(t) == IF Program[t].accum THEN current_acc_spad ELSE 1 - current_acc_spad

(* The two steps that start a tile, and all others. *)
LEMMA SidesCases ==
  ASSUME TypeOK, Next
  PROVE  \/ /\ UNCHANGED sides
            /\ \/ UNCHANGED status
               \/ \E t \in Tiles : /\ status[t] = "RUNNING" \/ IsNext(t, platform(t))
                                   /\ status' = [status EXCEPT ![t] = "FINISH"]
         \/ \E t \in Tiles : /\ IsNext(t, SA) /\ can_issue(t)
                             /\ GivesSides(t, 1 - current_spad, AccFor(t))
                             /\ current_spad' = 1 - current_spad
                             /\ current_acc_spad' = AccFor(t)
         \/ \E t \in Tiles : /\ IsNext(t, PIM) /\ can_issue_pim /\ GivesSides(t, 0, 0)
                             /\ UNCHANGED <<current_spad, current_acc_spad>>
<1> DEFINE Other == /\ UNCHANGED sides
                    /\ \/ UNCHANGED status
                       \/ \E t \in Tiles : /\ status[t] = "RUNNING" \/ IsNext(t, platform(t))
                                           /\ status' = [status EXCEPT ![t] = "FINISH"]
<1>1. ASSUME NEW t \in Tiles, Finish(t), Complete(t) \/ IsNext(t, platform(t)) PROVE Other
  BY <1>1 DEF Finish, Complete
<1>2. ASSUME NEW a \in inflight, push_memory_response(a) PROVE Other
  BY <1>2 DEF push_memory_response
<1>3. ASSUME NEW i \in Inst, Computed(i) \/ SendLoad(i) \/ SendStore(i) \/ issue_ex_inst(i)
      PROVE  Other
  BY <1>3 DEF Computed, SendLoad, SendStore, issue_ex_inst
<1>4. ASSUME NEW t \in Tiles, Starts(t), issue(t)
      PROVE  /\ IsNext(t, SA) /\ can_issue(t)
             /\ GivesSides(t, 1 - current_spad, AccFor(t))
             /\ current_spad' = 1 - current_spad
             /\ current_acc_spad' = AccFor(t)
  BY <1>4 DEF Starts, issue, Start, GivesSides, AccFor
<1>5. ASSUME NEW t \in Tiles, Starts(t), issue_pim(t)
      PROVE  /\ IsNext(t, PIM) /\ can_issue_pim /\ GivesSides(t, 0, 0)
             /\ UNCHANGED <<current_spad, current_acc_spad>>
  BY <1>5 DEF Starts, issue_pim, Start, GivesSides
<1>6. \A t \in Tiles : Starts(t) => issue(t) \/ issue_pim(t)
  BY DEF Starts
<1>7. UNCHANGED <<status, place, vector_pipelines, inflight, counters, sides, sram,
                  waiting_write_reqs>> => Other
  OBVIOUS
<1> QED  BY <1>1, <1>2, <1>3, <1>4, <1>5, <1>6, <1>7, StepCases

(* A counter of an issued tile that has come to zero stays there. *)
LEMMA ZeroStays ==
  ASSUME IInv, IInv', Next, NEW t \in Tiles, status[t] # "INITIALIZED"
  PROVE  /\ remaining_loads[t] = 0 => remaining_loads'[t] = 0
         /\ remaining_computes[t] = 0 => remaining_computes'[t] = 0
         /\ remaining_accum_io[t] = 0 => remaining_accum_io'[t] = 0
<1> DEFINE NoMore == /\ remaining_loads[t] = 0 => remaining_loads'[t] <= 0
                     /\ remaining_computes[t] = 0 => remaining_computes'[t] <= 0
                     /\ remaining_accum_io[t] = 0 => remaining_accum_io'[t] <= 0
<1>0. /\ TypeOK /\ CountersExact /\ IsFiniteSet(inflight) /\ PlacesAgree
      /\ remaining_loads[t] \in Int /\ remaining_computes[t] \in Int
      /\ remaining_accum_io[t] \in Int
  BY DEF IInv, Agreement, TypeOK
<1>1. ASSUME NEW i \in Inst, tile(i) = t, Counted(i)
      PROVE  /\ place[i] = "ld" => remaining_loads[t] # 0
             /\ place[i] = "st" => remaining_accum_io[t] # 0
  <2>1. i \in InstOf(t)
    BY <1>1, InstFacts
  <2>2. /\ place[i] = "ld" => LoadsLeft(t) # {}
        /\ place[i] = "st" => AccumLeft(t) # {}
    BY <1>1, <2>1 DEF LoadsLeft, AccumLeft, Queued
  <2>3. /\ LoadsLeft(t) # {} => Cardinality(LoadsLeft(t)) # 0
        /\ AccumLeft(t) # {} => Cardinality(AccumLeft(t)) # 0
    BY <1>0, CountsNat, FS_EmptySet
  <2> QED  BY <1>0, <2>2, <2>3, CountsNat DEF CountersExact, TileCountersExact
<1>2. ASSUME UNCHANGED counters PROVE NoMore
  BY <1>0, <1>2 DEF counters
<1>3. ASSUME NEW u \in Tiles, Finish(u) PROVE NoMore
  BY <1>0, <1>3 DEF Finish, counters
<1>4. ASSUME NEW u \in Tiles, Starts(u) PROVE NoMore
  <2>1. PICK sp, ac \in {0, 1} : Start(u, sp, ac)
    BY <1>0, <1>4, StartsFacts
  <2>2. u # t
    BY <1>0, <1>4, StartsFacts
  <2> QED  BY <1>0, <2>1, <2>2 DEF Start, TypeOK
<1>5. ASSUME NEW a \in inflight, push_memory_response(a) PROVE NoMore
  <2>1. /\ UNCHANGED remaining_computes
        /\ remaining_loads' \in {remaining_loads, [remaining_loads EXCEPT ![tile(a[1])] = @ - 1]}
        /\ remaining_accum_io' \in {remaining_accum_io,
                                    [remaining_accum_io EXCEPT ![tile(a[1])] = @ - 1]}
    BY <1>5 DEF push_memory_response
  <2>2. /\ remaining_loads'[t] \in {remaining_loads[t], remaining_loads[t] - 1}
        /\ remaining_accum_io'[t] \in {remaining_accum_io[t], remaining_accum_io[t] - 1}
    BY <1>0, <2>1 DEF TypeOK
  <2> QED  BY <1>0, <2>1, <2>2
<1>6. ASSUME NEW i \in Inst, Computed(i) PROVE NoMore
  BY <1>0, <1>6 DEF Computed, TypeOK
<1>7. ASSUME NEW i \in Inst, place[i] = "ld", SendLoad(i) PROVE NoMore
  <2>1. ~Counted(i) => MoreAccesses(i) = 0
    <3>1. op(i) \in LoadOp
      BY <1>0, <1>7 DEF PlacesAgree
    <3> QED  BY <3>1, ProgramAssumption DEF Counted, LoadOp, MoreAccesses
  <2>2. /\ UNCHANGED <<remaining_computes, remaining_accum_io>>
        /\ remaining_loads'[t] = IF tile(i) = t THEN remaining_loads[t] + MoreAccesses(i)
                                                ELSE remaining_loads[t]
    BY <1>0, <1>7 DEF SendLoad, TypeOK
  <2> QED  BY <1>0, <1>1, <1>7, <2>1, <2>2
<1>8. ASSUME NEW i \in Inst, place[i] = "st", SendStore(i) PROVE NoMore
  <2>1. Counted(i)
    BY <1>0, <1>8 DEF PlacesAgree, Counted
  <2>2. /\ UNCHANGED <<remaining_computes, remaining_loads>>
        /\ tile(i) # t => remaining_accum_io'[t] = remaining_accum_io[t]
    BY <1>0, <1>8 DEF SendStore, TypeOK
  <2> QED  BY <1>0, <1>1, <1>8, <2>1, <2>2
<1>9. ASSUME NEW i \in Inst, issue_ex_inst(i) PROVE NoMore
  BY <1>0, <1>9 DEF issue_ex_inst, counters
<1>10. NoMore
  <2> HIDE DEF NoMore
  <2> QED  BY <1>0, <1>2, <1>3, <1>4, <1>5, <1>6, <1>7, <1>8, <1>9, StepCases
<1>11. /\ remaining_loads'[t] \in Nat /\ remaining_computes'[t] \in Nat
       /\ remaining_accum_io'[t] \in Nat
  <2>1. /\ Cardinality(LoadsLeft(t)') \in Nat /\ Cardinality(ComputesLeft(t)') \in Nat
        /\ Cardinality(AccumLeft(t)') \in Nat /\ Cardinality(Reads(t)') \in Nat
        /\ Cardinality(Writes(t)') \in Nat
    <3>1. IsFiniteSet(inflight')
      BY DEF IInv, Agreement
    <3>2. /\ IsFiniteSet(LoadsLeft(t)') /\ IsFiniteSet(ComputesLeft(t)')
          /\ IsFiniteSet(AccumLeft(t)')
      BY InstOfFinite, FS_Subset DEF LoadsLeft, ComputesLeft, AccumLeft, Queued
    <3>3. IsFiniteSet(Reads(t)') /\ IsFiniteSet(Writes(t)')
      BY <3>1, FS_Subset DEF Reads, Writes
    <3> QED  BY <3>2, <3>3, FS_CardinalityType
  <2>2. TileCountersExact(t)'
    BY DEF IInv, Agreement, CountersExact
  <2> QED  BY <2>1, <2>2 DEF TileCountersExact
<1> QED  BY <1>10, <1>11

(* Every step keeps the sides of the running tiles apart.  A tile that is
   issued comes after all that run, and can_issue() has looked at those. *)
LEMMA SidesStep == ASSUME IInv, IInv', SidesInv, [Next]_vars PROVE SidesInv'
<1> USE DEF SidesInv
<1>0. TypeOK /\ TypeOK'
  BY DEF IInv
<1>1. CASE UNCHANGED vars
  BY <1>1 DEF vars, counters, sides, IssuedInOrder, OnePim, BuffersNotShared, CurrentSide,
              LoadsApart, Running, platform
<1> SUFFICES ASSUME Next PROVE SidesInv'
  BY <1>1
<1>2. ASSUME NEW t \in Tiles, IsNext(t, SA), NEW u \in Running(SA) PROVE u < t
  <2>1. u \in Tiles /\ status[u] = "RUNNING" /\ platform(u) = SA /\ u # t
    BY <1>2 DEF Running, IsNext
  <2>2. t \in Nat /\ u \in Nat
    BY <2>1, CoreAssumption DEF Tiles
  <2>3. ~ t < u
    BY <1>2, <2>1 DEF IsNext, IssuedInOrder
  <2> QED  BY <2>1, <2>2, <2>3
<1>3. CASE UNCHANGED sides /\ \/ UNCHANGED status
                              \/ \E t \in Tiles :
                                   /\ status[t] = "RUNNING" \/ IsNext(t, platform(t))
                                   /\ status' = [status EXCEPT ![t] = "FINISH"]
  <2>1. UNCHANGED <<spad_id, accum_spad_id, current_spad, current_acc_spad>>
    BY <1>3 DEF sides
  <2>2. \A p \in Platforms : \A u \in Running(p)' : u \in Running(p) /\ u \in Tiles
    BY <1>0, <1>3 DEF Running, TypeOK
  <2>3. \A p \in Platforms : \A u \in Running(p) :
          /\ remaining_loads[u] = 0 => remaining_loads'[u] = 0
          /\ remaining_computes[u] = 0 => remaining_computes'[u] = 0
          /\ remaining_accum_io[u] = 0 => remaining_accum_io'[u] = 0
    BY ZeroStays DEF Running
  <2>4. SA \in Platforms /\ PIM \in Platforms
    BY DEF Platforms
  <2>5. IssuedInOrder'
    <3>1. \A u \in Tiles : /\ status[u] # "INITIALIZED" => status'[u] # "INITIALIZED"
                           /\ status'[u] # status[u] =>
                                status[u] = "RUNNING" \/ IsNext(u, platform(u))
      BY <1>0, <1>3 DEF TypeOK
    <3>2. ASSUME NEW t \in Tiles, NEW u \in Tiles, t < u, platform(t) = SA, platform(u) = SA,
                 status'[u] # "INITIALIZED"
          PROVE  status[t] # "INITIALIZED"
      <4>1. CASE status[u] # "INITIALIZED"
        BY <3>2, <4>1 DEF IssuedInOrder
      <4>2. CASE status[u] = "INITIALIZED"
        BY <3>1, <3>2, <4>2 DEF IsNext
      <4> QED  BY <4>1, <4>2
    <3> QED  BY <3>1, <3>2 DEF IssuedInOrder, platform
  <2>6. OnePim'
    BY <2>2, <2>4 DEF OnePim
  <2>7. BuffersNotShared'
    BY <2>1, <2>2, <2>3, <2>4 DEF BuffersNotShared
  <2>8. CurrentSide'
    BY <2>1, <2>2, <2>3, <2>4 DEF CurrentSide
  <2>9. LoadsApart'
    BY <2>1, <2>2, <2>3, <2>4 DEF LoadsApart
  <2> QED  BY <2>5, <2>6, <2>7, <2>8, <2>9
<1>4. ASSUME NEW t \in Tiles, IsNext(t, SA), can_issue(t),
             GivesSides(t, 1 - current_spad, AccFor(t)),
             current_spad' = 1 - current_spad, current_acc_spad' = AccFor(t)
      PROVE  SidesInv'
  <2>1. \A u \in Tiles : /\ status'[u] = IF u = t THEN "RUNNING" ELSE status[u]
                         /\ u # t => spad_id'[u] = spad_id[u] /\ accum_spad_id'[u] = accum_spad_id[u]
    BY <1>0, <1>4 DEF GivesSides, TypeOK
  <2>2. spad_id'[t] = 1 - current_spad /\ accum_spad_id'[t] = AccFor(t)
    BY <1>0, <1>4 DEF GivesSides, TypeOK
  <2>3. status[t] = "INITIALIZED" /\ platform(t) = SA /\ t \notin Running(SA)
    BY <1>4 DEF IsNext, Running
  <2>4. Running(SA)' = Running(SA) \cup {t} /\ Running(PIM)' = Running(PIM)
    BY <2>1, <2>3 DEF Running, platform, SA, PIM
  <2>5. ASSUME NEW u \in Running(SA)
        PROVE  /\ u \in Tiles /\ u # t /\ u < t /\ ~ t < u
               /\ spad_id'[u] = spad_id[u] /\ accum_spad_id'[u] = accum_spad_id[u]
               /\ remaining_loads[u] = 0 => remaining_loads'[u] = 0
               /\ remaining_computes[u] = 0 => remaining_computes'[u] = 0
               /\ remaining_accum_io[u] = 0 => remaining_accum_io'[u] = 0
    <3>1. u \in Tiles /\ u # t /\ status[u] # "INITIALIZED"
      BY <2>3 DEF Running
    <3>2. u < t /\ ~ t < u
      BY <1>2, <1>4, <3>1, CoreAssumption DEF Tiles
    <3> QED  BY <2>1, <3>1, <3>2, ZeroStays
  <2>6. ASSUME NEW u \in Running(SA)
        PROVE  /\ spad_id[u] = 1 - current_spad =>
                    remaining_loads[u] = 0 /\ remaining_computes[u] = 0
               /\ Program[t].accum \/ (accum_spad_id[u] = 1 - current_acc_spad =>
                                         remaining_accum_io[u] = 0)
    BY <1>4 DEF can_issue
  <2>7. current_spad \in {0, 1} /\ current_acc_spad \in {0, 1}
    BY <1>0 DEF TypeOK
  <2>8. \A u \in Tiles : spad_id[u] \in {0, 1} /\ accum_spad_id[u] \in {0, 1}
    BY <1>0 DEF TypeOK
  <2>9. ~ t < t
    BY CoreAssumption DEF Tiles
  <2>10. IssuedInOrder'
    BY <1>4, <2>1 DEF IssuedInOrder, IsNext, platform
  <2>11. OnePim'
    BY <2>4 DEF OnePim
  <2>12. ASSUME NEW u \in Running(SA)', NEW w \in Running(SA)', u < w
         PROVE  u \in Running(SA) /\ (w \in Running(SA) \/ w = t)
    BY <2>4, <2>5, <2>9, <2>12
  <2>13. BuffersNotShared'
    <3>1. ASSUME NEW u \in Running(SA)', NEW w \in Running(SA)', u < w
          PROVE  /\ spad_id'[u] = spad_id'[w] => remaining_loads'[u] = 0 /\ remaining_computes'[u] = 0
                 /\ accum_spad_id'[u] = accum_spad_id'[w] =>
                      remaining_accum_io'[u] = 0 \/ Program[w].accum
      <4>1. CASE w \in Running(SA)
        BY <2>5, <2>12, <3>1, <4>1 DEF BuffersNotShared
      <4>2. CASE w = t
        BY <2>2, <2>5, <2>6, <2>12, <3>1, <4>2 DEF AccFor
      <4> QED  BY <2>12, <3>1, <4>1, <4>2
    <3> QED  BY <3>1 DEF BuffersNotShared
  <2>14. CurrentSide'
    <3>1. ASSUME NEW u \in Running(SA), remaining_loads'[u] # 0, spad_id'[u] = current_spad'
          PROVE  FALSE
      BY <1>4, <2>5, <2>6, <3>1
    <3> QED  BY <1>4, <2>2, <2>4, <3>1 DEF CurrentSide
  <2>15. LoadsApart'
    <3>1. ASSUME NEW u \in Running(SA)', NEW w \in Running(SA)', u < w, remaining_loads'[u] # 0
          PROVE  /\ spad_id'[u] # spad_id'[w]
                 /\ Program[w].accum \/ accum_spad_id'[u] # accum_spad_id'[w]
      <4>1. CASE w \in Running(SA)
        BY <2>5, <2>12, <3>1, <4>1 DEF LoadsApart
      <4>2. CASE w = t
        <5>1. u \in Running(SA) /\ remaining_loads[u] # 0
          BY <2>5, <2>12, <3>1
        <5>2. spad_id[u] # 1 - current_spad /\ spad_id[u] = current_spad
          BY <2>5, <2>6, <2>7, <2>8, <5>1
        <5>3. accum_spad_id[u] = current_acc_spad
          BY <5>1, <5>2 DEF CurrentSide
        <5> QED  BY <2>2, <2>5, <2>7, <4>2, <5>1, <5>2, <5>3 DEF AccFor
      <4> QED  BY <2>12, <3>1, <4>1, <4>2
    <3> QED  BY <3>1 DEF LoadsApart
  <2> QED  BY <2>10, <2>11, <2>13, <2>14, <2>15
<1>5. ASSUME NEW t \in Tiles, IsNext(t, PIM), can_issue_pim, GivesSides(t, 0, 0),
             UNCHANGED <<current_spad, current_acc_spad>>
      PROVE  SidesInv'
  <2>1. \A u \in Tiles : /\ status'[u] = IF u = t THEN "RUNNING" ELSE status[u]
                         /\ u # t => spad_id'[u] = spad_id[u] /\ accum_spad_id'[u] = accum_spad_id[u]
    BY <1>0, <1>5 DEF GivesSides, TypeOK
  <2>2. status[t] = "INITIALIZED" /\ platform(t) = PIM /\ platform(t) # SA
    BY <1>5 DEF IsNext, SA, PIM
  <2>3. Running(SA)' = Running(SA) /\ Running(PIM)' = {t}
    BY <1>5, <2>1, <2>2 DEF Running, platform, can_issue_pim
  <2>4. ASSUME NEW u \in Running(SA)
        PROVE  /\ spad_id'[u] = spad_id[u] /\ accum_spad_id'[u] = accum_spad_id[u]
               /\ remaining_loads[u] = 0 => remaining_loads'[u] = 0
               /\ remaining_computes[u] = 0 => remaining_computes'[u] = 0
               /\ remaining_accum_io[u] = 0 => remaining_accum_io'[u] = 0
    <3>1. u \in Tiles /\ u # t /\ status[u] # "INITIALIZED"
      BY <2>2 DEF Running
    <3> QED  BY <2>1, <3>1, ZeroStays
  <2>5. IssuedInOrder'
    BY <2>1, <2>2 DEF IssuedInOrder, platform
  <2>6. OnePim'
    BY <2>3 DEF OnePim
  <2>7. BuffersNotShared'
    BY <2>3, <2>4 DEF BuffersNotShared
  <2>8. CurrentSide'
    BY <1>5, <2>3, <2>4 DEF CurrentSide
  <2>9. LoadsApart'
    BY <2>3, <2>4 DEF LoadsApart
  <2> QED  BY <2>5, <2>6, <2>7, <2>8, <2>9
<1> QED  BY <1>0, <1>3, <1>4, <1>5, SidesCases

LEMMA SidesInit == Init => SidesInv
BY DEF Init, SidesInv, IssuedInOrder, OnePim, BuffersNotShared, CurrentSide, LoadsApart, Running

(* Double buffering: two tiles that run at the same time share a side of the
   scratchpad or of the accumulators only when the earlier one is done with it
   or the later one accumulates onto its results. *)
THEOREM AlwaysBuffersNotShared == Spec => []BuffersNotShared
<1>1. SidesInv => BuffersNotShared
  BY DEF SidesInv
<1> QED  BY <1>1, IInvInit, IInvStep, SidesInit, SidesStep, PTL DEF Spec

-----------------------------------------------------------------------------
(* The load queue of a platform is empty while its stores and computations
   are looked at. *)
Drained ==
  /\ pc \in {"st", "ex"} => Queue("ld", SA) = {}
  /\ pc \in {"pim_st", "pim_ex"} => Queue("ld", PIM) = {}

(* A buffer has entries for addresses, an entry counts what is on its way to
   it and is not valid before all of it has come. *)
EntriesExact == \A b \in Buffers :
  /\ "entry" \in DOMAIN sram[b] /\ DOMAIN sram[b].entry \subseteq Addr
  /\ \A a \in DOMAIN sram[b].entry :
       /\ sram[b].entry[a].remain = Cardinality(Arriving(b, a)) + Cardinality(Computing(b, a))
       /\ sram[b].entry[a].remain > 0 => ~sram[b].entry[a].valid

(* What is on its way to a buffer has an entry there. *)
AwaitedAllocated == \A b \in Buffers, a \in Addr :
  Arriving(b, a) # {} \/ Computing(b, a) # {} => a \in DOMAIN sram[b].entry

(* A load that is still queued finds its address free. *)
LoadsFresh == \A i \in Inst : place[i] = "ld" /\ Reserves(i) =>
  inst(i).dest_addr \notin DOMAIN sram[BufferOf(i)].entry

BufferInv == EntriesExact /\ AwaitedAllocated /\ LoadsFresh

(* Only issuing a tile puts loads into a queue, and that queue is emptied
   before the stores and computations of its platform. *)
LEMMA DrainedStep == ASSUME IInv, Drained, [Next]_vars PROVE Drained'
<1> DEFINE NoLoads(p) == \A i \in Inst : place[i] = "ld" => platform(tile(i)) # p
           NoneNew == \A i \in Inst : place'[i] = "ld" => place[i] = "ld"
<1>0. TypeOK
  BY DEF IInv
<1>1. /\ Drained <=> /\ pc \in {"st", "ex"} => NoLoads(SA)
                     /\ pc \in {"pim_st", "pim_ex"} => NoLoads(PIM)
      /\ \A p : Queue("ld", p) = {} <=> NoLoads(p)
  BY DEF Drained, Queue
<1>2. Drained' <=> /\ pc' \in {"st", "ex"} => NoLoads(SA)'
                   /\ pc' \in {"pim_st", "pim_ex"} => NoLoads(PIM)'
  BY DEF Drained, Queue
<1>3. NoneNew => \A p : NoLoads(p) => NoLoads(p)'
  BY DEF platform, tile
<1>4. CASE UNCHANGED vars
  BY <1>1, <1>2, <1>3, <1>4 DEF vars
<1>5. CASE pc' \notin {"st", "ex", "pim_st", "pim_ex"}
  BY <1>2, <1>5
<1>6. CASE Next /\ pc' \in {"st", "ex", "pim_st", "pim_ex"}
  <2>1. \E p \in Platforms : ld_queue_cycle(p) \/ st_queue_cycle(p)
    <3>1. ASSUME NEW t \in Tiles, issue(t) \/ issue_pim(t) PROVE pc' = "idle"
      BY <3>1 DEF issue, issue_pim, Finish, Start
    <3>2. ASSUME NEW a \in inflight, push_memory_response(a) PROVE pc' = "idle"
      BY <3>2 DEF push_memory_response
    <3>3. ASSUME pop_finished_tile \/ StartCycle \/ systolic_cycle
          PROVE  pc' \in {"idle", "systolic", "vector"}
      BY <3>3 DEF pop_finished_tile, StartCycle, systolic_cycle, SystolicFinish, Idle
    <3>4. ASSUME vector_unit_cycle PROVE pc' \in {"ld", "vector"}
      BY <3>4 DEF vector_unit_cycle, VectorFinish, AfterLane
    <3>5. ASSUME NEW p \in Platforms, ex_queue_cycle(p) PROVE pc' \in {"pim_ld", "tiles"}
      BY <3>5 DEF ex_queue_cycle, AfterEx, Idle
    <3>6. ASSUME cycle PROVE pc' \in {"tiles", "idle"}
      BY <3>6 DEF cycle, Finish, Idle
    <3> QED  BY <1>6, <3>1, <3>2, <3>3, <3>4, <3>5, <3>6 DEF Next
  <2>2. PICK p \in Platforms : ld_queue_cycle(p) \/ st_queue_cycle(p)
    BY <2>1
  <2>3. CASE ld_queue_cycle(p)
    <3>1. CASE pc = LdAt(p) /\ pc' = pc
      BY <1>6, <3>1 DEF LdAt
    <3>2. CASE Queue("ld", p) = {} /\ Idle(LdAt(p), StAt(p))
      <4>1. NoLoads(p) /\ pc' = StAt(p) /\ NoneNew
        BY <1>1, <3>2 DEF Idle
      <4> QED  BY <1>2, <1>3, <4>1 DEF StAt, Platforms, SA, PIM
    <3> QED  BY <2>3, <3>1, <3>2 DEF ld_queue_cycle
  <2>4. CASE st_queue_cycle(p)
    <3>1. pc = StAt(p) /\ pc' = ExAt(p)
      BY <2>4 DEF st_queue_cycle, Idle
    <3>2. NoneNew
      BY <1>0, <2>4 DEF st_queue_cycle, Idle, SendStore, TypeOK
    <3>3. NoLoads(p)
      BY <1>1, <3>1 DEF StAt, Platforms, SA, PIM
    <3> QED  BY <1>2, <1>3, <3>1, <3>2, <3>3 DEF ExAt, Platforms, SA, PIM
  <2> QED  BY <2>2, <2>3, <2>4
<1> QED  BY <1>4, <1>5, <1>6

-----------------------------------------------------------------------------
(* The buffer that an address of an instruction is in. *)
LEMMA BufferFacts ==
  ASSUME TypeOK, NEW i \in Inst
  PROVE  /\ BufferOf(i) \in Buffers /\ AccOf(tile(i)) \in Buffers
         /\ inst(i).dest_addr \in Addr
         /\ op(i) \in ExOp => BufferOf(i) = AccOf(tile(i))
         /\ platform(tile(i)) = SA =>
              BufferOf(i) = IF inst(i).dest_addr \in AccAddr
                            THEN <<"acc", accum_spad_id[tile(i)]>> ELSE <<"spad", spad_id[tile(i)]>>
         /\ platform(tile(i)) # SA =>
              BufferOf(i) = IF inst(i).dest_addr \in AccAddr
                            THEN <<"pim_acc", accum_spad_id[tile(i)]>>
                            ELSE <<"pim_spad", spad_id[tile(i)]>>
<1>1. tile(i) \in Tiles /\ inst(i).dest_addr \in Addr
  BY InstFacts DEF Instruction
<1>2. spad_id[tile(i)] \in {0, 1} /\ accum_spad_id[tile(i)] \in {0, 1}
  BY <1>1 DEF TypeOK
<1>3. SpadOf(tile(i)) \in Buffers /\ AccOf(tile(i)) \in Buffers
  BY <1>2 DEF SpadOf, AccOf, Buffers, Kinds
<1>4. op(i) \in ExOp => inst(i).dest_addr \in AccAddr
  BY ProgramAssumption
<1> QED  BY <1>1, <1>3, <1>4 DEF BufferOf, SpadOf, AccOf

(* An instruction keeps its buffer as long as its tile keeps its sides. *)
LEMMA BufferKept ==
  ASSUME NEW i, spad_id'[tile(i)] = spad_id[tile(i)],
         accum_spad_id'[tile(i)] = accum_spad_id[tile(i)]
  PROVE  BufferOf(i)' = BufferOf(i) /\ AccOf(tile(i))' = AccOf(tile(i))
BY DEF BufferOf, SpadOf, AccOf, inst, tile, platform

(* The sets of things on their way are finite. *)
LEMMA AwaitedFinite ==
  ASSUME IInv, NEW b, NEW a
  PROVE  /\ IsFiniteSet(Arriving(b, a)) /\ Cardinality(Arriving(b, a)) \in Nat
         /\ IsFiniteSet(Computing(b, a)) /\ Cardinality(Computing(b, a)) \in Nat
<1>1. IsFiniteSet(Arriving(b, a))
  BY FS_Subset DEF Arriving, IInv, Agreement
<1>2. IsFiniteSet(Computing(b, a))
  BY InstFinite, FS_Subset DEF Computing
<1> QED  BY <1>1, <1>2, FS_CardinalityType

(* One entry is set, and only what is on its way to that entry has changed. *)
LEMMA EntryStep ==
  ASSUME EntriesExact, AwaitedAllocated, NEW b \in Buffers, NEW a \in Addr, NEW ok, NEW n \in Nat,
         \A c \in Buffers : "entry" \in DOMAIN sram'[c],
         sram'[b].entry = SetEntry(sram[b], a, Entry(ok, n)),
         \A c \in Buffers : c # b => sram'[c].entry = sram[c].entry,
         \A c \in Buffers, x \in Addr : c # b \/ x # a =>
           Arriving(c, x)' = Arriving(c, x) /\ Computing(c, x)' = Computing(c, x),
         n = Cardinality(Arriving(b, a)') + Cardinality(Computing(b, a)'),
         n > 0 => ~ok
  PROVE  EntriesExact' /\ AwaitedAllocated'
<1>1. /\ DOMAIN sram'[b].entry = DOMAIN sram[b].entry \cup {a}
      /\ sram'[b].entry[a] = Entry(ok, n)
      /\ \A x \in DOMAIN sram[b].entry : x # a => sram'[b].entry[x] = sram[b].entry[x]
  BY DEF SetEntry
<1>2. Entry(ok, n).remain = n /\ Entry(ok, n).valid = ok
  BY DEF Entry
<1>3. ASSUME NEW c \in Buffers
      PROVE  /\ DOMAIN sram'[c].entry \subseteq Addr
             /\ \A x \in DOMAIN sram'[c].entry :
                  /\ sram'[c].entry[x].remain
                       = Cardinality(Arriving(c, x)') + Cardinality(Computing(c, x)')
                  /\ sram'[c].entry[x].remain > 0 => ~sram'[c].entry[x].valid
  <2>1. CASE c # b
    BY <2>1 DEF EntriesExact
  <2>2. CASE c = b
    <3>1. ASSUME NEW x \in DOMAIN sram[b].entry, x # a
          PROVE  /\ sram'[b].entry[x].remain
                      = Cardinality(Arriving(b, x)') + Cardinality(Computing(b, x)')
                 /\ sram'[b].entry[x].remain > 0 => ~sram'[b].entry[x].valid
      BY <1>1, <3>1 DEF EntriesExact
    <3> QED  BY <1>1, <1>2, <2>2, <3>1 DEF EntriesExact
  <2> QED  BY <2>1, <2>2
<1>4. EntriesExact'
  BY <1>3 DEF EntriesExact
<1>5. AwaitedAllocated'
  BY <1>1 DEF AwaitedAllocated
<1> QED  BY <1>4, <1>5

(* A step after which no entry, side or thing on its way is different. *)
LEMMA UntouchedStep ==
  ASSUME BufferInv, UNCHANGED <<sram, spad_id, accum_spad_id>>,
         \A b \in Buffers, a \in Addr :
           Arriving(b, a)' = Arriving(b, a) /\ Computing(b, a)' = Computing(b, a),
         \A i \in Inst : place'[i] = "ld" => place[i] = "ld"
  PROVE  BufferInv'
<1> USE DEF BufferInv
<1>1. EntriesExact'
  BY DEF EntriesExact
<1>2. AwaitedAllocated'
  BY DEF AwaitedAllocated
<1>3. LoadsFresh'
  <2>1. \A i \in Inst : BufferOf(i)' = BufferOf(i)
    BY BufferKept
  <2> QED  BY <2>1 DEF LoadsFresh, Reserves, op, inst
<1> QED  BY <1>1, <1>2, <1>3

(* A tile starts.  The flushed sides await nothing: a tile that still waits for
   something has the other side, or the new tile accumulates. *)
LEMMA StartBuffers ==
  ASSUME IInv, SidesInv, BufferInv, NEW t \in Tiles, Starts(t)
  PROVE  BufferInv'
<1> USE DEF BufferInv
<1>0. TypeOK /\ PlacesAgree /\ CountersExact /\ IsFiniteSet(inflight) /\ ZeroUnlessRunning
  BY DEF IInv, Agreement
<1>1. /\ status[t] = "INITIALIZED" /\ UNCHANGED inflight
      /\ \A i \in Inst : place'[i] = IF tile(i) = t THEN QueueOf(i) ELSE place[i]
      /\ \A u \in Tiles : u # t => spad_id'[u] = spad_id[u] /\ accum_spad_id'[u] = accum_spad_id[u]
  <2>1. PICK sp, ac \in {0, 1} : Start(t, sp, ac)
    BY <1>0, StartsFacts
  <2>2. status[t] = "INITIALIZED"
    BY <1>0, StartsFacts
  <2> QED  BY <1>0, <2>1, <2>2 DEF Start, TypeOK
<1>2. \A i \in Inst : /\ tile(i) \in Tiles
                      /\ tile(i) # t => BufferOf(i)' = BufferOf(i)
                      /\ tile(i) = t => place[i] = "none" /\ place'[i] \in {"ld", "st", "ex"}
  <2>1. \A i \in Inst : tile(i) \in Tiles
    BY InstFacts
  <2>2. \A i \in Inst : tile(i) = t => place[i] = "none" /\ place'[i] \in {"ld", "st", "ex"}
    BY <1>0, <1>1 DEF PlacesAgree, QueueOf
  <2> QED  BY <1>1, <2>1, <2>2, BufferKept
<1>3. \A x \in inflight : x[1] \in Inst /\ tile(x[1]) # t /\ status[tile(x[1])] = "RUNNING"
  BY <1>1, Busy
<1>4. \A i \in Inst : place[i] \in {"systolic", "vector"} =>
        /\ op(i) \in ExOp /\ tile(i) # t /\ status[tile(i)] = "RUNNING"
  <2>1. \A i \in Inst : place[i] \in {"systolic", "vector"} => op(i) \in ExOp
    BY <1>0 DEF PlacesAgree
  <2>2. \A i \in Inst : op(i) \in ExOp => Counted(i)
    BY DEF ExOp, Counted
  <2> QED  BY <1>1, <2>1, <2>2, Busy
<1>5. ASSUME NEW b \in Buffers, NEW a \in Addr
      PROVE  Arriving(b, a)' = Arriving(b, a) /\ Computing(b, a)' = Computing(b, a)
  <2>1. Arriving(b, a)' = Arriving(b, a)
    BY <1>1, <1>2, <1>3 DEF Arriving, Reserves, op, inst
  <2>2. \A i \in Inst : /\ place'[i] \in {"systolic", "vector"} <=> place[i] \in {"systolic", "vector"}
                        /\ place[i] \in {"systolic", "vector"} => BufferOf(i)' = BufferOf(i)
    BY <1>1, <1>2, <1>4
  <2>3. Computing(b, a)' = Computing(b, a)
    BY <2>2 DEF Computing, inst
  <2> QED  BY <2>1, <2>3
<1>6. ASSUME NEW i \in Inst, status[tile(i)] = "RUNNING"
      PROVE  /\ (\E x \in inflight : x[1] = i /\ Reserves(i)) => remaining_loads[tile(i)] # 0
             /\ place[i] \in {"systolic", "vector"} => remaining_accum_io[tile(i)] # 0
  <2> DEFINE u == tile(i)
  <2>1. u \in Tiles /\ i \in InstOf(u)
    BY InstFacts
  <2>2. (\E x \in inflight : x[1] = i /\ Reserves(i)) => Reads(u) # {}
    BY DEF Reads, Reserves
  <2>3. place[i] \in {"systolic", "vector"} => AccumLeft(u) # {}
    BY <1>4, <2>1 DEF AccumLeft, Queued, ExOp, Counted
  <2> HIDE DEF u
  <2>4. /\ Reads(u) # {} => Cardinality(Reads(u)) # 0
        /\ AccumLeft(u) # {} => Cardinality(AccumLeft(u)) # 0
    BY <1>0, <2>1, CountsNat, FS_EmptySet
  <2>5. /\ Reads(u) # {} => remaining_loads[u] # 0
        /\ AccumLeft(u) # {} => remaining_accum_io[u] # 0
    <3>1. TileCountersExact(u)
      BY <1>0, <2>1 DEF CountersExact
    <3>2. /\ Cardinality(LoadsLeft(u)) \in Nat /\ Cardinality(Reads(u)) \in Nat
          /\ Cardinality(AccumLeft(u)) \in Nat /\ Cardinality(Writes(u)) \in Nat
      BY <1>0, <2>1, CountsNat
    <3> QED  BY <2>4, <3>1, <3>2 DEF TileCountersExact
  <2> QED  BY <2>2, <2>3, <2>5 DEF u
<1>7. ASSUME NEW F \in SUBSET Buffers,
             \A b \in Buffers : sram'[b] = IF b \in F THEN Flushed ELSE sram[b],
             \A b \in F, a \in Addr : Arriving(b, a) = {} /\ Computing(b, a) = {},
             \A i \in Inst : tile(i) = t /\ Reserves(i) => BufferOf(i)' \in F
      PROVE  BufferInv'
  <2>1. "entry" \in DOMAIN Flushed /\ DOMAIN Flushed.entry = {}
    BY DEF Flushed, NoEntry
  <2>2. EntriesExact'
    <3>1. ASSUME NEW b \in Buffers
          PROVE  /\ "entry" \in DOMAIN sram'[b] /\ DOMAIN sram'[b].entry \subseteq Addr
                 /\ \A a \in DOMAIN sram'[b].entry :
                      /\ sram'[b].entry[a].remain
                           = Cardinality(Arriving(b, a)') + Cardinality(Computing(b, a)')
                      /\ sram'[b].entry[a].remain > 0 => ~sram'[b].entry[a].valid
      <4>1. CASE b \in F
        BY <1>7, <2>1, <4>1
      <4>2. CASE b \notin F
        BY <1>5, <1>7, <4>2 DEF EntriesExact
      <4> QED  BY <4>1, <4>2
    <3> QED  BY <3>1 DEF EntriesExact
  <2>3. AwaitedAllocated'
    BY <1>5, <1>7 DEF AwaitedAllocated
  <2>4. LoadsFresh'
    <3>1. ASSUME NEW i \in Inst, place'[i] = "ld", Reserves(i)
          PROVE  inst(i).dest_addr \notin DOMAIN sram'[BufferOf(i)'].entry
      <4>1. CASE tile(i) = t
        BY <1>7, <2>1, <3>1, <4>1
      <4>2. CASE tile(i) # t
        <5>1. place[i] = "ld" /\ BufferOf(i)' = BufferOf(i) /\ BufferOf(i) \in Buffers
          BY <1>0, <1>1, <1>2, <3>1, <4>2, BufferFacts
        <5> QED  BY <1>7, <2>1, <3>1, <5>1 DEF LoadsFresh
      <4> QED  BY <4>1, <4>2
    <3> QED  BY <3>1 DEF LoadsFresh, Reserves, op, inst
  <2> QED  BY <2>2, <2>3, <2>4
<1>8. CASE issue(t)
  <2> DEFINE sp == 1 - current_spad
             ac == AccFor(t)
             F == {<<"spad", sp>>} \cup (IF Program[t].accum THEN {} ELSE {<<"acc", ac>>})
  <2>0. current_spad \in {0, 1} /\ current_acc_spad \in {0, 1} /\ sp \in {0, 1} /\ ac \in {0, 1}
    BY <1>0 DEF TypeOK, AccFor
  <2>1. /\ platform(t) = SA /\ can_issue(t)
        /\ spad_id'[t] = sp /\ accum_spad_id'[t] = ac
        /\ sram' = [sram EXCEPT ![<<"spad", sp>>] = Flushed,
                                ![<<"acc", ac>>] = IF Program[t].accum THEN @ ELSE Flushed]
    BY <1>0, <1>8 DEF Starts, issue, IsNext, Start, AccFor, TypeOK, flush
  <2>2. F \in SUBSET Buffers
    BY <2>0 DEF Buffers, Kinds
  <2>3. \A b \in Buffers : sram'[b] = IF b \in F THEN Flushed ELSE sram[b]
    <3>1. DOMAIN sram = Buffers /\ <<"spad", sp>> # <<"acc", ac>>
      BY <1>0 DEF TypeOK
    <3>2. CASE Program[t].accum
      <4>1. sram' = [sram EXCEPT ![<<"spad", sp>>] = Flushed, ![<<"acc", ac>>] = @]
        BY <2>1, <3>2
      <4>2. F = {<<"spad", sp>>}
        BY <3>2
      <4> HIDE DEF sp, ac, F
      <4> QED  BY <3>1, <4>1, <4>2
    <3>3. CASE ~Program[t].accum
      <4>1. sram' = [sram EXCEPT ![<<"spad", sp>>] = Flushed, ![<<"acc", ac>>] = Flushed]
        BY <2>1, <3>3
      <4>2. F = {<<"spad", sp>>, <<"acc", ac>>}
        BY <3>3
      <4> HIDE DEF sp, ac, F
      <4> QED  BY <3>1, <4>1, <4>2
    <3> QED  BY <3>2, <3>3
  <2>4. ASSUME NEW i \in Inst, tile(i) = t, Reserves(i) PROVE BufferOf(i)' \in F
    <3>1. BufferOf(i)' = IF inst(i).dest_addr \in AccAddr THEN <<"acc", ac>> ELSE <<"spad", sp>>
      BY <2>1, <2>4 DEF BufferOf, SpadOf, AccOf, inst, tile, platform
    <3>2. Program[t].accum => inst(i).dest_addr \notin AccAddr
      BY <2>4, ProgramAssumption
    <3> QED  BY <3>1, <3>2
  <2>5. ASSUME NEW i \in Inst, status[tile(i)] = "RUNNING", BufferOf(i) \in F
        PROVE  /\ platform(tile(i)) = SA /\ tile(i) \in Running(SA)
               /\ inst(i).dest_addr \notin AccAddr => spad_id[tile(i)] = sp
               /\ inst(i).dest_addr \in AccAddr =>
                    accum_spad_id[tile(i)] = 1 - current_acc_spad /\ ~Program[t].accum
    <3>1. platform(tile(i)) = SA
      BY <1>0, <2>5, BufferFacts
    <3>2. BufferOf(i) = IF inst(i).dest_addr \in AccAddr
                        THEN <<"acc", accum_spad_id[tile(i)]>> ELSE <<"spad", spad_id[tile(i)]>>
      BY <1>0, <3>1, BufferFacts
    <3> QED  BY <1>2, <2>5, <3>1, <3>2 DEF Running, AccFor
  <2>6. ASSUME NEW b \in F, NEW a \in Addr PROVE Arriving(b, a) = {} /\ Computing(b, a) = {}
    <3>1. ASSUME NEW x \in Arriving(b, a) PROVE FALSE
      <4>1. x \in inflight /\ Reserves(x[1]) /\ BufferOf(x[1]) \in F
        BY <3>1 DEF Arriving
      <4>2. /\ x[1] \in Inst /\ status[tile(x[1])] = "RUNNING"
            /\ remaining_loads[tile(x[1])] # 0 /\ tile(x[1]) \in Running(SA)
        BY <1>3, <1>6, <2>5, <4>1
      <4>3. spad_id[tile(x[1])] # sp /\ spad_id[tile(x[1])] \in {0, 1}
        BY <1>0, <1>2, <2>1, <4>2 DEF can_issue, TypeOK
      <4>4. spad_id[tile(x[1])] = current_spad
        BY <2>0, <4>3
      <4>5. accum_spad_id[tile(x[1])] = current_acc_spad
        BY <4>2, <4>4 DEF SidesInv, CurrentSide
      <4>6. accum_spad_id[tile(x[1])] = 1 - current_acc_spad
        BY <2>5, <4>1, <4>2, <4>3
      <4> QED  BY <2>0, <4>5, <4>6
    <3>2. ASSUME NEW i \in Computing(b, a) PROVE FALSE
      <4>1. i \in Inst /\ place[i] \in {"systolic", "vector"} /\ BufferOf(i) \in F
        BY <3>2 DEF Computing
      <4>2. /\ op(i) \in ExOp /\ status[tile(i)] = "RUNNING"
            /\ remaining_accum_io[tile(i)] # 0 /\ tile(i) \in Running(SA)
        BY <1>4, <1>6, <2>5, <4>1
      <4>3. inst(i).dest_addr \in AccAddr
        BY <4>1, <4>2, ProgramAssumption
      <4> QED  BY <2>1, <2>5, <4>1, <4>2, <4>3 DEF can_issue
    <3> QED  BY <3>1, <3>2
  <2> HIDE DEF F
  <2> QED  BY <1>7, <2>2, <2>3, <2>4, <2>6
<1>9. CASE issue_pim(t)
  <2> DEFINE F == {<<"pim_spad", 0>>, <<"pim_acc", 0>>}
  <2>1. /\ platform(t) = PIM /\ Running(PIM) = {}
        /\ spad_id'[t] = 0 /\ accum_spad_id'[t] = 0
        /\ sram' = [sram EXCEPT ![<<"pim_spad", 0>>] = Flushed, ![<<"pim_acc", 0>>] = Flushed]
    BY <1>0, <1>9 DEF Starts, issue_pim, IsNext, Start, can_issue_pim, TypeOK, flush
  <2>2. F \in SUBSET Buffers
    BY DEF Buffers, Kinds
  <2>3. \A b \in Buffers : sram'[b] = IF b \in F THEN Flushed ELSE sram[b]
    BY <1>0, <2>1 DEF TypeOK
  <2>4. ASSUME NEW i \in Inst, tile(i) = t, Reserves(i) PROVE BufferOf(i)' \in F
    BY <2>1, <2>4 DEF BufferOf, SpadOf, AccOf, inst, tile, platform, SA, PIM
  <2>5. ASSUME NEW i \in Inst, status[tile(i)] = "RUNNING" PROVE BufferOf(i) \notin F
    <3>1. platform(tile(i)) \in Platforms
      BY <1>2, InstFacts DEF platform, TileRecord
    <3>2. platform(tile(i)) = SA
      BY <1>2, <2>1, <2>5, <3>1 DEF Running, Platforms
    <3> QED  BY <1>0, <3>2, BufferFacts
  <2>6. ASSUME NEW b \in F, NEW a \in Addr PROVE Arriving(b, a) = {} /\ Computing(b, a) = {}
    BY <1>3, <1>4, <2>5 DEF Arriving, Computing
  <2> HIDE DEF F
  <2> QED  BY <1>7, <2>2, <2>3, <2>4, <2>6
<1> QED  BY <1>8, <1>9 DEF Starts

(* What one operation of a buffer does to its entries. *)
LEMMA SramFacts ==
  ASSUME NEW s, "entry" \in DOMAIN s, NEW a
  PROVE  /\ "entry" \in DOMAIN fill(s, a) /\ "entry" \in DOMAIN count_up(s, a)
         /\ fill(s, a).entry =
              SetEntry(s, a, Entry(s.entry[a].remain - 1 = 0 \/ s.entry[a].valid,
                                   s.entry[a].remain - 1))
         /\ count_up(s, a).entry = SetEntry(s, a, Entry(FALSE, s.entry[a].remain + 1))
BY DEF fill, count_up

(* A part of what an entry waits for has come. *)
LEMMA FillStep ==
  ASSUME IInv, IInv', BufferInv, NEW b \in Buffers, NEW a \in Addr,
         sram' = [sram EXCEPT ![b] = fill(@, a)], UNCHANGED <<spad_id, accum_spad_id>>,
         \A c \in Buffers, x \in Addr : c # b \/ x # a =>
           Arriving(c, x)' = Arriving(c, x) /\ Computing(c, x)' = Computing(c, x),
         Arriving(b, a) # {} \/ Computing(b, a) # {},
         Cardinality(Arriving(b, a)') + Cardinality(Computing(b, a)')
           = Cardinality(Arriving(b, a)) + Cardinality(Computing(b, a)) - 1,
         \A i \in Inst : place'[i] = "ld" => place[i] = "ld"
  PROVE  BufferInv'
<1> USE DEF BufferInv
<1>0. DOMAIN sram = Buffers /\ TypeOK
  BY DEF IInv, TypeOK
<1>1. /\ a \in DOMAIN sram[b].entry
      /\ sram[b].entry[a].remain = Cardinality(Arriving(b, a)) + Cardinality(Computing(b, a))
      /\ sram[b].entry[a].remain > 0 => ~sram[b].entry[a].valid
  BY DEF AwaitedAllocated, EntriesExact
<1>2. /\ Cardinality(Arriving(b, a)) \in Nat /\ Cardinality(Computing(b, a)) \in Nat
      /\ Cardinality(Arriving(b, a)) + Cardinality(Computing(b, a)) > 0
  <2>1. /\ IsFiniteSet(Arriving(b, a)) /\ Cardinality(Arriving(b, a)) \in Nat
        /\ IsFiniteSet(Computing(b, a)) /\ Cardinality(Computing(b, a)) \in Nat
    BY AwaitedFinite
  <2>2. Cardinality(Arriving(b, a)) # 0 \/ Cardinality(Computing(b, a)) # 0
    BY <2>1, FS_EmptySet
  <2> QED  BY <2>1, <2>2
<1> DEFINE n  == sram[b].entry[a].remain - 1
           ok == n = 0 \/ sram[b].entry[a].valid
<1>3. /\ n \in Nat /\ (n > 0 => ~ok)
      /\ n = Cardinality(Arriving(b, a)') + Cardinality(Computing(b, a)')
  BY <1>1, <1>2
<1>4. /\ sram'[b] = fill(sram[b], a) /\ \A c \in Buffers : c # b => sram'[c] = sram[c]
      /\ \A c \in Buffers : "entry" \in DOMAIN sram[c]
  BY <1>0 DEF EntriesExact
<1>5. /\ sram'[b].entry = SetEntry(sram[b], a, Entry(ok, n))
      /\ \A c \in Buffers : "entry" \in DOMAIN sram'[c]
  <2>1. "entry" \in DOMAIN fill(sram[b], a)
    BY <1>4, SramFacts
  <2>2. fill(sram[b], a).entry = SetEntry(sram[b], a, Entry(ok, n))
    BY <1>4, SramFacts
  <2> HIDE DEF n, ok
  <2> QED  BY <1>4, <2>1, <2>2
<1> HIDE DEF n, ok
<1>6. EntriesExact' /\ AwaitedAllocated'
  BY <1>3, <1>4, <1>5, EntryStep
<1>7. \A c \in Buffers : DOMAIN sram'[c].entry = DOMAIN sram[c].entry
  <2>1. \A e : DOMAIN SetEntry(sram[b], a, e) = DOMAIN sram[b].entry
    BY <1>1 DEF SetEntry
  <2>2. DOMAIN sram'[b].entry = DOMAIN sram[b].entry
    BY <1>5, <2>1
  <2> QED  BY <1>4, <2>2
<1>8. LoadsFresh'
  <2>1. \A i \in Inst : BufferOf(i)' = BufferOf(i) /\ BufferOf(i) \in Buffers
    BY <1>0, BufferKept, BufferFacts
  <2> QED  BY <1>7, <2>1 DEF LoadsFresh, Reserves, op, inst
<1> QED  BY <1>6, <1>8

(* An entry is allocated, or waits for one more computation. *)
LEMMA AwaitStep ==
  ASSUME IInv, BufferInv, NEW b \in Buffers, NEW a \in Addr, NEW s, NEW n \in Nat,
         sram' = [sram EXCEPT ![b] = s], UNCHANGED <<spad_id, accum_spad_id>>,
         "entry" \in DOMAIN s, s.entry = SetEntry(sram[b], a, Entry(FALSE, n)),
         \A c \in Buffers, x \in Addr : c # b \/ x # a =>
           Arriving(c, x)' = Arriving(c, x) /\ Computing(c, x)' = Computing(c, x),
         n = Cardinality(Arriving(b, a)') + Cardinality(Computing(b, a)'),
         \A i \in Inst : place'[i] = "ld" =>
           place[i] = "ld" /\ (Reserves(i) => BufferOf(i) # b \/ inst(i).dest_addr # a)
  PROVE  BufferInv'
<1> USE DEF BufferInv
<1>0. DOMAIN sram = Buffers /\ TypeOK
  BY DEF IInv, TypeOK
<1>1. /\ sram'[b] = s /\ \A c \in Buffers : c # b => sram'[c] = sram[c]
      /\ \A c \in Buffers : "entry" \in DOMAIN sram'[c]
  <2>1. sram'[b] = s /\ \A c \in Buffers : c # b => sram'[c] = sram[c]
    BY <1>0
  <2>2. \A c \in Buffers : "entry" \in DOMAIN sram[c]
    BY DEF EntriesExact
  <2> QED  BY <2>1, <2>2
<1>2. EntriesExact' /\ AwaitedAllocated'
  <2>1. ~FALSE /\ sram'[b].entry = SetEntry(sram[b], a, Entry(FALSE, n))
    BY <1>1
  <2>2. \A c \in Buffers : c # b => sram'[c].entry = sram[c].entry
    BY <1>1
  <2> QED  BY <1>1, <2>1, <2>2, EntryStep
<1>3. LoadsFresh'
  <2>1. \A i \in Inst : BufferOf(i)' = BufferOf(i) /\ BufferOf(i) \in Buffers
    BY <1>0, BufferKept, BufferFacts
  <2>2. DOMAIN sram'[b].entry = DOMAIN sram[b].entry \cup {a}
    BY <1>1 DEF SetEntry
  <2>3. \A i \in Inst : place'[i] = "ld" /\ Reserves(i) =>
          inst(i).dest_addr \notin DOMAIN sram'[BufferOf(i)].entry
    BY <1>1, <2>1, <2>2 DEF LoadsFresh
  <2> QED  BY <2>1, <2>3 DEF LoadsFresh, Reserves, op, inst
<1> QED  BY <1>2, <1>3

(* The memory answers. *)
LEMMA ResponseBuffers ==
  ASSUME IInv, IInv', BufferInv, NEW x \in inflight, push_memory_response(x)
  PROVE  BufferInv'
<1> DEFINE i == x[1]
<1>a. PICK b, a : b = BufferOf(i) /\ a = inst(i).dest_addr
  OBVIOUS
<1>0. TypeOK /\ i \in Inst
  BY Busy DEF IInv
<1>1. /\ UNCHANGED <<place, spad_id, accum_spad_id>> /\ inflight' = inflight \ {x}
      /\ op(i) # "MOVOUT" /\ Reserves(i) => sram' = [sram EXCEPT ![b] = fill(@, a)]
      /\ op(i) = "MOVOUT" \/ ~Reserves(i) => sram' = sram
  BY <1>a DEF push_memory_response, sides
<1>2. \A j : BufferOf(j)' = BufferOf(j)
  BY <1>1, BufferKept
<1>3. \A c, y : Computing(c, y)' = Computing(c, y)
  BY <1>1, <1>2 DEF Computing, inst
<1>4. \A c, y : Arriving(c, y)' = Arriving(c, y) \ {x}
  BY <1>1, <1>2 DEF Arriving, inst, Reserves, op
<1>5. Reserves(i) => op(i) # "MOVOUT"
  BY DEF Reserves
<1>6. CASE ~Reserves(i)
  <2>1. \A c, y : Arriving(c, y)' = Arriving(c, y)
    BY <1>4, <1>6 DEF Arriving
  <2> QED  BY <1>1, <1>3, <1>6, <2>1, UntouchedStep
<1>7. CASE Reserves(i)
  <2>1. x \in Arriving(b, a) /\ \A c, y : c # b \/ y # a => x \notin Arriving(c, y)
    BY <1>7, <1>a DEF Arriving
  <2>2. b \in Buffers /\ a \in Addr
    BY <1>0, <1>a, BufferFacts
  <2>3. sram' = [sram EXCEPT ![b] = fill(@, a)]
    BY <1>1, <1>5, <1>7
  <2> HIDE DEF i
  <2>4. Cardinality(Arriving(b, a)') = Cardinality(Arriving(b, a)) - 1
    BY <1>4, <2>1, AwaitedFinite, FS_RemoveElement
  <2>5. \A c, y : c # b \/ y # a => Arriving(c, y)' = Arriving(c, y)
    BY <1>4, <2>1
  <2>6. Cardinality(Arriving(b, a)) \in Nat /\ Cardinality(Computing(b, a)) \in Nat
    BY AwaitedFinite
  <2>7. Cardinality(Arriving(b, a)') + Cardinality(Computing(b, a)')
          = Cardinality(Arriving(b, a)) + Cardinality(Computing(b, a)) - 1
    BY <1>3, <2>4, <2>6
  <2>8. /\ \A c \in Buffers, y \in Addr : c # b \/ y # a =>
             Arriving(c, y)' = Arriving(c, y) /\ Computing(c, y)' = Computing(c, y)
        /\ Arriving(b, a) # {} \/ Computing(b, a) # {}
        /\ UNCHANGED <<spad_id, accum_spad_id>>
        /\ \A j \in Inst : place'[j] = "ld" => place[j] = "ld"
    BY <1>1, <1>3, <2>1, <2>5
  <2> QED  BY <2>2, <2>3, <2>7, <2>8, FillStep
<1> QED  BY <1>6, <1>7

(* A computation ends. *)
LEMMA ComputedBuffers ==
  ASSUME IInv, IInv', BufferInv, NEW i \in Inst, Computed(i), place[i] \in {"systolic", "vector"}
  PROVE  BufferInv'
<1>a. PICK b, a : b = BufferOf(i) /\ a = inst(i).dest_addr
  OBVIOUS
<1>0. TypeOK /\ PlacesAgree
  BY DEF IInv, Agreement
<1>1. /\ UNCHANGED <<inflight, spad_id, accum_spad_id>>
      /\ \A j \in Inst : place'[j] = IF j = i THEN "done" ELSE place[j]
      /\ sram' = [sram EXCEPT ![AccOf(tile(i))] = fill(@, a)]
  BY <1>0, <1>a DEF Computed, sides, TypeOK
<1>2. \A j : BufferOf(j)' = BufferOf(j)
  BY <1>1, BufferKept
<1>3. op(i) \in ExOp /\ AccOf(tile(i)) = b /\ b \in Buffers /\ a \in Addr
  BY <1>0, <1>a, BufferFacts DEF PlacesAgree
<1>4. \A c, y : Arriving(c, y)' = Arriving(c, y)
  BY <1>1, <1>2 DEF Arriving, inst, Reserves, op
<1>5. \A c, y : Computing(c, y)' = Computing(c, y) \ {i}
  BY <1>1, <1>2 DEF Computing, inst
<1>6. i \in Computing(b, a) /\ \A c, y : c # b \/ y # a => i \notin Computing(c, y)
  BY <1>a DEF Computing
<1>7. Cardinality(Computing(b, a)') = Cardinality(Computing(b, a)) - 1
  BY <1>5, <1>6, AwaitedFinite, FS_RemoveElement
<1>8. \A c, y : c # b \/ y # a => Computing(c, y)' = Computing(c, y)
  BY <1>5, <1>6
<1>9. Cardinality(Arriving(b, a)) \in Nat /\ Cardinality(Computing(b, a)) \in Nat
  BY AwaitedFinite
<1>10. Cardinality(Arriving(b, a)') + Cardinality(Computing(b, a)')
         = Cardinality(Arriving(b, a)) + Cardinality(Computing(b, a)) - 1
  BY <1>4, <1>7, <1>9
<1>11. /\ \A c \in Buffers, y \in Addr : c # b \/ y # a =>
            Arriving(c, y)' = Arriving(c, y) /\ Computing(c, y)' = Computing(c, y)
       /\ Arriving(b, a) # {} \/ Computing(b, a) # {}
       /\ UNCHANGED <<spad_id, accum_spad_id>>
       /\ \A j \in Inst : place'[j] = "ld" => place[j] = "ld"
       /\ sram' = [sram EXCEPT ![b] = fill(@, a)]
  BY <1>1, <1>3, <1>4, <1>6, <1>8
<1> QED  BY <1>3, <1>10, <1>11, FillStep

(* No two queued loads go to the same address of a buffer. *)
LEMMA LoadsDistinct ==
  ASSUME IInv, SidesInv, NEW i \in Inst, NEW j \in Inst, i # j, place[i] = "ld", place[j] = "ld",
         Reserves(i), Reserves(j), BufferOf(i) = BufferOf(j)
  PROVE  inst(i).dest_addr # inst(j).dest_addr
<1>0. TypeOK /\ CountersExact /\ IsFiniteSet(inflight)
  BY DEF IInv, Agreement
<1>1. ASSUME NEW k \in Inst, place[k] = "ld", Reserves(k)
      PROVE  /\ tile(k) \in Tiles /\ tile(k) \in Nat /\ k \in InstOf(tile(k))
             /\ status[tile(k)] = "RUNNING" /\ remaining_loads[tile(k)] # 0
             /\ platform(tile(k)) \in Platforms
  <2>1. Counted(k)
    BY <1>1 DEF Reserves, Counted
  <2>2. tile(k) \in Tiles /\ k \in InstOf(tile(k)) /\ platform(tile(k)) \in Platforms
    BY InstFacts DEF platform, TileRecord
  <2>3. tile(k) \in Nat
    BY <2>2, CoreAssumption DEF Tiles
  <2>4. k \in LoadsLeft(tile(k))
    BY <1>1, <2>1, <2>2 DEF LoadsLeft, Queued
  <2>5. Cardinality(LoadsLeft(tile(k))) # 0
    BY <1>0, <2>2, <2>4, CountsNat, FS_EmptySet
  <2>6. remaining_loads[tile(k)] # 0
    BY <1>0, <2>2, <2>5, CountsNat DEF CountersExact, TileCountersExact
  <2> QED  BY <1>1, <2>1, <2>2, <2>3, <2>6, Busy
<1>2. platform(tile(i)) = platform(tile(j))
  BY <1>0, <1>1, BufferFacts DEF Platforms, SA, PIM
<1>3. CASE tile(i) = tile(j)
  BY <1>1, <1>3, ProgramAssumption
<1>4. CASE tile(i) # tile(j)
  <2>1. platform(tile(i)) = SA
    <3>1. platform(tile(i)) # PIM
      BY <1>1, <1>2, <1>4 DEF Running, SidesInv, OnePim
    <3> QED  BY <1>1, <3>1 DEF Platforms
  <2>2. tile(i) \in Running(SA) /\ tile(j) \in Running(SA)
    BY <1>1, <1>2, <2>1 DEF Running
  <2>3. ASSUME NEW k \in Inst, NEW l \in Inst, tile(k) \in Running(SA), tile(l) \in Running(SA),
               remaining_loads[tile(k)] # 0, Reserves(l), platform(tile(k)) = SA,
               platform(tile(l)) = SA, tile(k) < tile(l)
        PROVE  BufferOf(k) # BufferOf(l)
    <3>1. /\ spad_id[tile(k)] # spad_id[tile(l)]
          /\ Program[tile(l)].accum \/ accum_spad_id[tile(k)] # accum_spad_id[tile(l)]
      BY <2>3 DEF SidesInv, LoadsApart
    <3>2. Program[tile(l)].accum => inst(l).dest_addr \notin AccAddr
      BY <2>3, ProgramAssumption
    <3> QED  BY <1>0, <2>3, <3>1, <3>2, BufferFacts
  <2>4. tile(i) < tile(j) \/ tile(j) < tile(i)
    BY <1>1, <1>4
  <2> QED  BY <1>1, <1>2, <2>1, <2>2, <2>3, <2>4
<1> QED  BY <1>3, <1>4

(* A load is sent. *)
LEMMA SendLoadBuffers ==
  ASSUME IInv, SidesInv, BufferInv, NEW i \in Inst, place[i] = "ld", SendLoad(i)
  PROVE  BufferInv'
<1>a. PICK b, a : b = BufferOf(i) /\ a = inst(i).dest_addr
  OBVIOUS
<1>0. TypeOK /\ PlacesAgree
  BY DEF IInv, Agreement
<1>1. /\ UNCHANGED <<spad_id, accum_spad_id>>
      /\ \A j \in Inst : place'[j] = IF j = i THEN "sent" ELSE place[j]
      /\ inflight' = inflight \/ inflight' = inflight \cup Accesses(i)
      /\ Reserves(i) => inflight' = inflight \cup Accesses(i)
      /\ Reserves(i) => sram' = [sram EXCEPT ![b] = reserve(@, a, inst(i).size, inst(i).accesses)]
      /\ ~Reserves(i) => sram' = sram
  BY <1>0, <1>a DEF SendLoad, sides, TypeOK, Reserves, Counted
<1>2. \A j : BufferOf(j)' = BufferOf(j)
  BY <1>1, BufferKept
<1>3. \A c, y : Computing(c, y)' = Computing(c, y)
  BY <1>1, <1>2 DEF Computing, inst
<1>4. \A x \in Accesses(i) : x[1] = i
  BY AccessFacts
<1>5. \A j \in Inst : place'[j] = "ld" => place[j] = "ld" /\ j # i
  BY <1>1
<1>6. CASE ~Reserves(i)
  <2>1. \A c, y : Arriving(c, y)' = Arriving(c, y)
    BY <1>1, <1>2, <1>4, <1>6 DEF Arriving, inst, Reserves, op
  <2> QED  BY <1>1, <1>3, <1>5, <1>6, <2>1, UntouchedStep
<1>7. CASE Reserves(i)
  <2>1. b \in Buffers /\ a \in Addr
    BY <1>0, <1>a, BufferFacts
  <2>2. a \notin DOMAIN sram[b].entry
    BY <1>7, <1>a DEF BufferInv, LoadsFresh
  <2>3. Arriving(b, a) = {} /\ Computing(b, a) = {}
    BY <2>1, <2>2 DEF BufferInv, AwaitedAllocated
  <2>4. Arriving(b, a)' = Arriving(b, a) \cup Accesses(i)
    BY <1>1, <1>2, <1>4, <1>7, <1>a DEF Arriving, inst, Reserves, op
  <2>5. \A c, y : c # b \/ y # a => Arriving(c, y)' = Arriving(c, y)
    BY <1>1, <1>2, <1>4, <1>7, <1>a DEF Arriving, inst, Reserves, op
  <2>6. /\ inst(i).accesses \in Nat
        /\ inst(i).accesses = Cardinality(Arriving(b, a)') + Cardinality(Computing(b, a)')
    <3>1. Cardinality(Computing(b, a)') = 0
      BY <1>3, <2>3, FS_EmptySet
    <3>2. Arriving(b, a)' = Accesses(i)
      BY <2>3, <2>4
    <3>3. inst(i).accesses \in Nat /\ Cardinality(Accesses(i)) = inst(i).accesses
      BY AccessFacts
    <3> QED  BY <3>1, <3>2, <3>3
  <2>7. PICK s : s = reserve(sram[b], a, inst(i).size, inst(i).accesses)
    OBVIOUS
  <2>8. /\ "entry" \in DOMAIN s /\ s.entry = SetEntry(sram[b], a, Entry(FALSE, inst(i).accesses))
        /\ sram' = [sram EXCEPT ![b] = s]
    <3>1. sram' = [sram EXCEPT ![b] = s]
      BY <1>1, <1>7, <2>7
    <3>2. /\ "entry" \in DOMAIN reserve(sram[b], a, inst(i).size, inst(i).accesses)
          /\ reserve(sram[b], a, inst(i).size, inst(i).accesses).entry
               = SetEntry(sram[b], a, Entry(FALSE, inst(i).accesses))
      BY DEF reserve
    <3> QED  BY <2>7, <3>1, <3>2
  <2>9. \A j \in Inst : place'[j] = "ld" =>
          place[j] = "ld" /\ (Reserves(j) => BufferOf(j) # b \/ inst(j).dest_addr # a)
    BY <1>5, <1>7, <1>a, LoadsDistinct
  <2>10. /\ \A c \in Buffers, y \in Addr : c # b \/ y # a =>
              Arriving(c, y)' = Arriving(c, y) /\ Computing(c, y)' = Computing(c, y)
         /\ UNCHANGED <<spad_id, accum_spad_id>>
    BY <1>1, <1>3, <2>5
  <2> QED  BY <2>1, <2>6, <2>8, <2>9, <2>10, AwaitStep
<1> QED  BY <1>6, <1>7

(* A store is sent. *)
LEMMA SendStoreBuffers ==
  ASSUME IInv, BufferInv, NEW i \in Inst, place[i] = "st", SendStore(i)
  PROVE  BufferInv'
<1>0. TypeOK /\ PlacesAgree
  BY DEF IInv, Agreement
<1>1. /\ UNCHANGED <<sram, spad_id, accum_spad_id>> /\ inflight' = inflight \cup Accesses(i)
      /\ \A j \in Inst : place'[j] = IF j = i THEN "sent" ELSE place[j]
  BY <1>0 DEF SendStore, sides, TypeOK
<1>2. \A j : BufferOf(j)' = BufferOf(j)
  BY <1>1, BufferKept
<1>3. ~Reserves(i) /\ \A x \in Accesses(i) : x[1] = i
  BY <1>0, AccessFacts DEF PlacesAgree, Reserves
<1>4. \A c, y : Computing(c, y)' = Computing(c, y)
  BY <1>1, <1>2 DEF Computing, inst
<1>5. \A c, y : Arriving(c, y)' = Arriving(c, y)
  BY <1>1, <1>2, <1>3 DEF Arriving, inst, Reserves, op
<1> QED  BY <1>1, <1>4, <1>5, UntouchedStep

(* A computation is issued. *)
LEMMA IssueExBuffers ==
  ASSUME IInv, Drained, BufferInv, NEW i \in Inst, place[i] = "ex",
         pc = ExAt(platform(tile(i))), issue_ex_inst(i)
  PROVE  BufferInv'
<1>a. PICK b, a : b = BufferOf(i) /\ a = inst(i).dest_addr
  OBVIOUS
<1>0. TypeOK /\ PlacesAgree
  BY DEF IInv, Agreement
<1>1. op(i) \in ExOp /\ AccOf(tile(i)) = b /\ b \in Buffers /\ a \in Addr
  BY <1>0, <1>a, BufferFacts DEF PlacesAgree
<1>2. PICK q \in {"systolic", "vector"} : place' = [place EXCEPT ![i] = q]
  BY DEF issue_ex_inst
<1>3. /\ UNCHANGED <<inflight, spad_id, accum_spad_id>>
      /\ \A j \in Inst : place'[j] = IF j = i THEN q ELSE place[j]
      /\ sram' = [sram EXCEPT ![b] = IF check_allocated(@, a) THEN count_up(@, a)
                                     ELSE reserve(@, a, inst(i).size, 1)]
  BY <1>0, <1>1, <1>2, <1>a DEF issue_ex_inst, sides, TypeOK
<1>4. \A j : BufferOf(j)' = BufferOf(j)
  BY <1>3, BufferKept
<1>5. \A c, y : Arriving(c, y)' = Arriving(c, y)
  BY <1>3, <1>4 DEF Arriving, inst, Reserves, op
<1>6. /\ Computing(b, a)' = Computing(b, a) \cup {i} /\ i \notin Computing(b, a)
      /\ \A c, y : c # b \/ y # a => Computing(c, y)' = Computing(c, y)
  BY <1>3, <1>4, <1>a DEF Computing, inst
<1>7. /\ Cardinality(Arriving(b, a)) \in Nat /\ Cardinality(Computing(b, a)) \in Nat
      /\ Cardinality(Arriving(b, a)') = Cardinality(Arriving(b, a))
      /\ Cardinality(Computing(b, a)') = Cardinality(Computing(b, a)) + 1
  BY <1>5, <1>6, AwaitedFinite, FS_AddElement
<1>8. \A j \in Inst : place'[j] = "ld" => place[j] = "ld" /\ BufferOf(j) # b
  <2>1. ASSUME NEW j \in Inst, place[j] = "ld" PROVE BufferOf(j) # b
    <3>1. platform(tile(i)) \in Platforms /\ platform(tile(j)) \in Platforms
      BY InstFacts DEF platform, TileRecord
    <3>2. platform(tile(i)) # platform(tile(j))
      BY <2>1, <3>1 DEF Drained, Queue, ExAt, Platforms, SA, PIM
    <3> QED  BY <1>0, <1>a, <3>1, <3>2, BufferFacts DEF Platforms, SA, PIM
  <2> QED  BY <1>3, <2>1
<1>9. PICK s : s = IF check_allocated(sram[b], a) THEN count_up(sram[b], a)
                   ELSE reserve(sram[b], a, inst(i).size, 1)
  OBVIOUS
<1>10. PICK n : n = Cardinality(Arriving(b, a)) + Cardinality(Computing(b, a)) + 1
  OBVIOUS
<1>11. /\ "entry" \in DOMAIN s /\ s.entry = SetEntry(sram[b], a, Entry(FALSE, n))
       /\ sram' = [sram EXCEPT ![b] = s]
  <2>1. "entry" \in DOMAIN sram[b]
    BY <1>1 DEF BufferInv, EntriesExact
  <2>2. sram' = [sram EXCEPT ![b] = s]
    BY <1>3, <1>9
  <2>3. CASE a \in DOMAIN sram[b].entry
    <3>1. sram[b].entry[a].remain + 1 = n
      BY <1>1, <1>7, <1>10, <2>3 DEF BufferInv, EntriesExact
    <3>2. s = count_up(sram[b], a)
      BY <1>9, <2>3 DEF check_allocated
    <3>3. /\ "entry" \in DOMAIN count_up(sram[b], a)
          /\ count_up(sram[b], a).entry
               = SetEntry(sram[b], a, Entry(FALSE, sram[b].entry[a].remain + 1))
      BY <2>1, SramFacts
    <3> QED  BY <2>2, <3>1, <3>2, <3>3
  <2>4. CASE a \notin DOMAIN sram[b].entry
    <3>1. Arriving(b, a) = {} /\ Computing(b, a) = {}
      BY <1>1, <2>4 DEF BufferInv, AwaitedAllocated
    <3>2. n = 1
      BY <1>10, <3>1, FS_EmptySet
    <3>3. s = reserve(sram[b], a, inst(i).size, 1)
      BY <1>9, <2>4 DEF check_allocated
    <3>4. /\ "entry" \in DOMAIN reserve(sram[b], a, inst(i).size, 1)
          /\ reserve(sram[b], a, inst(i).size, 1).entry = SetEntry(sram[b], a, Entry(FALSE, 1))
      BY DEF reserve
    <3> QED  BY <2>2, <3>2, <3>3, <3>4
  <2> QED  BY <2>3, <2>4
<1>12. n \in Nat /\ n = Cardinality(Arriving(b, a)') + Cardinality(Computing(b, a)')
  BY <1>7, <1>10
<1>13. /\ \A c \in Buffers, y \in Addr : c # b \/ y # a =>
            Arriving(c, y)' = Arriving(c, y) /\ Computing(c, y)' = Computing(c, y)
       /\ UNCHANGED <<spad_id, accum_spad_id>>
       /\ \A j \in Inst : place'[j] = "ld" =>
            place[j] = "ld" /\ (Reserves(j) => BufferOf(j) # b \/ inst(j).dest_addr # a)
  BY <1>3, <1>5, <1>6, <1>8
<1> QED  BY <1>1, <1>11, <1>12, <1>13, AwaitStep

(* Every step keeps the buffers as they should be. *)
LEMMA BufferStep ==
  ASSUME IInv, IInv', SidesInv, Drained, BufferInv, [Next]_vars
  PROVE  BufferInv'
<1>0. TypeOK
  BY DEF IInv
<1>1. ASSUME UNCHANGED <<place, inflight, sides, sram>> PROVE BufferInv'
  <2>1. UNCHANGED <<place, inflight, spad_id, accum_spad_id, sram>>
    BY <1>1 DEF sides
  <2>2. \A j : BufferOf(j)' = BufferOf(j)
    BY <2>1, BufferKept
  <2>3. \A c, y : Arriving(c, y)' = Arriving(c, y) /\ Computing(c, y)' = Computing(c, y)
    BY <2>1, <2>2 DEF Arriving, Computing, inst, Reserves, op
  <2> QED  BY <2>1, <2>3, UntouchedStep
<1>2. ASSUME NEW t \in Tiles, Finish(t) PROVE BufferInv'
  BY <1>1, <1>2 DEF Finish
<1>3. ASSUME NEW i \in Inst, Computed(i), Leaves(i) PROVE BufferInv'
  <2>1. ASSUME NEW v \in Vpus, vector_pipelines[v] # <<>>, i = Head(vector_pipelines[v])
        PROVE  place[i] = "vector"
    <3>1. vector_pipelines[v] \in Seq(Inst)
      BY <1>0 DEF TypeOK
    <3>2. 1 \in 1..Len(vector_pipelines[v]) /\ i = vector_pipelines[v][1]
      BY <2>1, <3>1
    <3> QED  BY <3>2 DEF IInv, Agreement, PipelinesAgree
  <2>2. place[i] \in {"systolic", "vector"}
    BY <1>3, <2>1 DEF Leaves
  <2> QED  BY <1>3, <2>2, ComputedBuffers
<1>4. CASE UNCHANGED vars
  BY <1>1, <1>4 DEF vars
<1>5. CASE Next
  <2>1. UNCHANGED <<status, place, vector_pipelines, inflight, counters, sides, sram,
                    waiting_write_reqs>> => BufferInv'
    BY <1>1
  <2> QED  BY <1>0, <1>2, <1>3, <1>5, <2>1, StepCases, StartBuffers, ResponseBuffers,
              SendLoadBuffers, SendStoreBuffers, IssueExBuffers
<1> QED  BY <1>4, <1>5

LEMMA BufferInit == Init => BufferInv /\ Drained
<1> SUFFICES ASSUME Init PROVE BufferInv /\ Drained
  OBVIOUS
<1>1. /\ \A b \in Buffers : sram[b] = Flushed
      /\ "entry" \in DOMAIN Flushed /\ DOMAIN Flushed.entry = {}
  BY DEF Init, Flushed, NoEntry
<1>2. EntriesExact
  BY <1>1 DEF EntriesExact
<1>3. AwaitedAllocated
  BY DEF Init, AwaitedAllocated, Arriving, Computing
<1>4. LoadsFresh /\ Drained
  BY DEF Init, LoadsFresh, Drained
<1> QED  BY <1>2, <1>3, <1>4 DEF BufferInv

(* Every Sram::fill of a memory answer or of the end of a computation finds its
   entry allocated, awaited and not yet valid, whatever tiles were issued, and
   the other side of the buffers cleared, since it was asked for. *)
THEOREM AlwaysFillsAreExpected == Spec => []FillsAreExpected
<1>1. ASSUME IInv, BufferInv PROVE FillsAreExpected
  <2>1. ASSUME NEW b \in Buffers, NEW a \in Addr, Arriving(b, a) # {} \/ Computing(b, a) # {}
        PROVE  fill_asserts(sram[b], a)
    <3>1. /\ a \in DOMAIN sram[b].entry
          /\ sram[b].entry[a].remain = Cardinality(Arriving(b, a)) + Cardinality(Computing(b, a))
          /\ sram[b].entry[a].remain > 0 => ~sram[b].entry[a].valid
      BY <1>1, <2>1 DEF BufferInv, AwaitedAllocated, EntriesExact
    <3>2. /\ IsFiniteSet(Arriving(b, a)) /\ Cardinality(Arriving(b, a)) \in Nat
          /\ IsFiniteSet(Computing(b, a)) /\ Cardinality(Computing(b, a)) \in Nat
      BY <1>1, AwaitedFinite
    <3>3. Cardinality(Arriving(b, a)) # 0 \/ Cardinality(Computing(b, a)) # 0
      BY <2>1, <3>2, FS_EmptySet
    <3>4. sram[b].entry[a].remain > 0
      BY <3>1, <3>2, <3>3
    <3> QED  BY <3>1, <3>4 DEF fill_asserts, check_allocated
  <2> QED  BY <1>1, <2>1 DEF FillsAreExpected, BufferInv, EntriesExact
<1> QED  BY <1>1, IInvInit, IInvStep, SidesInit, SidesStep, BufferInit, DrainedStep, BufferStep,
            PTL DEF Spec

-----------------------------------------------------------------------------
(* A set of no more than n units. *)
Fit(S, n) == IsFiniteSet(S) /\ Cardinality(S) <= n

(* The part S of a side s of a buffer holds what was allocated there, and has
   room for the units P that are still to be allocated. *)
Room(s, P, S) ==
  /\ "used" \in DOMAIN s /\ P \subseteq S
  /\ \E U \in SUBSET S : Cardinality(U) = s.used /\ \A u \in U : u[1] \in DOMAIN s.entry

(* Instructions that will still allocate something in buffer b. *)
Pending(b) == {i \in Inst : place[i] \in {"ld", "ex"} /\ Allocates(i) /\ BufferOf(i) = b}

(* The tiles whose results are in the current side of the accumulators, and
   the units of their results. *)
Started(t) == platform(t) = SA /\ ~Program[t].skip /\ status[t] # "INITIALIZED"
OnSide == {t \in Tiles : Started(t) /\ \A u \in Tiles : t < u /\ Started(u) => Program[u].accum}
SumsOf(T) == UnitsOf({i \in Inst : tile(i) \in T /\ Allocates(i) /\ inst(i).dest_addr \in AccAddr})

HasRoom(b) == \E S : Fit(S, Capacity(b)) /\ Room(sram[b], UnitsOf(Pending(b)), S)
HasSums(b) == b = <<"acc", current_acc_spad>> =>
                Room(sram[b], UnitsOf(Pending(b)), SumsOf(OnSide))

(* Every side of a buffer has room for what will still be allocated there, the
   current side of the accumulators among the results it is used for. *)
SpaceInv == /\ Fit(SumsOf(OnSide), AccSize)
            /\ \A b \in Buffers : HasRoom(b) /\ HasSums(b)

(* The instructions of a program need finitely many units. *)
LEMMA UnitsFinite ==
  /\ \A i \in Inst : /\ inst(i).size \in Nat
                     /\ IsFiniteSet({inst(i).dest_addr} \X (1..inst(i).size))
                     /\ Cardinality({inst(i).dest_addr} \X (1..inst(i).size)) = inst(i).size
  /\ \A I \in SUBSET Inst : IsFiniteSet(UnitsOf(I))
<1> DEFINE F(i) == {inst(i).dest_addr} \X (1..inst(i).size)
<1>1. ASSUME NEW i \in Inst
      PROVE  inst(i).size \in Nat /\ IsFiniteSet(F(i)) /\ Cardinality(F(i)) = inst(i).size
  <2>1. inst(i).size \in Nat
    BY InstFacts DEF Instruction
  <2>2. IsFiniteSet(1..inst(i).size) /\ Cardinality(1..inst(i).size) = inst(i).size
    <3>1. \A n \in Nat : IsFiniteSet(1..n) /\ Cardinality(1..n) = n
      BY FS_Interval
    <3> QED  BY <2>1, <3>1
  <2>3. IsFiniteSet({inst(i).dest_addr}) /\ Cardinality({inst(i).dest_addr}) = 1
    BY FS_Singleton
  <2>4. /\ IsFiniteSet(F(i))
        /\ Cardinality(F(i)) = Cardinality({inst(i).dest_addr}) * Cardinality(1..inst(i).size)
    BY <2>2, <2>3, FS_Product
  <2> HIDE DEF F
  <2> QED  BY <2>1, <2>2, <2>3, <2>4
<1>2. ASSUME NEW I \in SUBSET Inst PROVE IsFiniteSet(UnitsOf(I))
  <2>1. IsFiniteSet(I)
    BY InstFinite, FS_Subset
  <2>2. IsFiniteSet({F(i) : i \in I})
    <3> DEFINE f == [i \in I |-> F(i)]
    <3> HIDE DEF F
    <3>1. f \in Surjection(I, {F(i) : i \in I})
      BY DEF Surjection
    <3> HIDE DEF f
    <3> QED  BY <2>1, <3>1, FS_Surjection
  <2>3. \A S \in {F(i) : i \in I} : IsFiniteSet(S)
    BY <1>1
  <2>4. UnitsOf(I) = UNION {F(i) : i \in I}
    BY DEF UnitsOf
  <2> HIDE DEF F
  <2> QED  BY <2>2, <2>3, <2>4, FS_UNION
<1> QED  BY <1>1, <1>2

LEMMA UnitsMonotone ==
  ASSUME NEW I, NEW J, I \subseteq J
  PROVE  UnitsOf(I) \subseteq UnitsOf(J)
BY DEF UnitsOf

(* Room in a part of a buffer stays when nothing is allocated, and the part may
   be larger. *)
LEMMA RoomKept ==
  ASSUME NEW s, NEW P, NEW S, Room(s, P, S), NEW s2, NEW P2, NEW S2,
         "used" \in DOMAIN s2, s2.used = s.used, DOMAIN s.entry \subseteq DOMAIN s2.entry,
         S \subseteq S2, P2 \subseteq S2
  PROVE  Room(s2, P2, S2)
<1>1. PICK U \in SUBSET S : Cardinality(U) = s.used /\ \A u \in U : u[1] \in DOMAIN s.entry
  BY DEF Room
<1>2. U \in SUBSET S2 /\ Cardinality(U) = s2.used /\ \A u \in U : u[1] \in DOMAIN s2.entry
  BY <1>1
<1> QED  BY <1>2 DEF Room

LEMMA RoomEmpty ==
  ASSUME NEW P, NEW S, P \subseteq S
  PROVE  Room(Flushed, P, S)
<1>1. "used" \in DOMAIN Flushed /\ Flushed.used = 0
  BY DEF Flushed
<1>2. {} \in SUBSET S /\ Cardinality({}) = 0
  BY FS_EmptySet
<1>3. \E U \in SUBSET S : /\ Cardinality(U) = Flushed.used
                         /\ \A u \in U : u[1] \in DOMAIN Flushed.entry
  BY <1>1, <1>2
<1> QED  BY <1>1, <1>3 DEF Room

(* What is allocated next is beside what was allocated before. *)
LEMMA RoomFor ==
  ASSUME NEW s, NEW P, NEW S, NEW n \in Nat, Room(s, P, S), Fit(S, n),
         NEW i \in Inst, {inst(i).dest_addr} \X (1..inst(i).size) \subseteq S,
         inst(i).dest_addr \notin DOMAIN s.entry
  PROVE  /\ s.used + inst(i).size <= n
         /\ \E U \in SUBSET S : /\ Cardinality(U) = s.used + inst(i).size
                                /\ \A u \in U : u[1] \in DOMAIN s.entry \cup {inst(i).dest_addr}
<1> DEFINE V == {inst(i).dest_addr} \X (1..inst(i).size)
<1>1. PICK U \in SUBSET S : Cardinality(U) = s.used /\ \A u \in U : u[1] \in DOMAIN s.entry
  BY DEF Room
<1>2. /\ IsFiniteSet(V) /\ Cardinality(V) = inst(i).size /\ inst(i).size \in Nat
      /\ \A v \in V : v[1] = inst(i).dest_addr
      /\ V \subseteq S
  BY UnitsFinite
<1>3. IsFiniteSet(U) /\ Cardinality(U) \in Nat
  BY FS_Subset, FS_CardinalityType DEF Fit
<1> HIDE DEF V
<1>4. U \cap V = {}
  BY <1>1, <1>2
<1>5. Cardinality(U \cup V) = Cardinality(U) + Cardinality(V)
  <2>1. Cardinality(U \cup V) = Cardinality(U) + Cardinality(V) - Cardinality(U \cap V)
    BY <1>2, <1>3, FS_Union
  <2>2. Cardinality(U \cap V) = 0 /\ Cardinality(U) \in Nat /\ Cardinality(V) \in Nat
    BY <1>2, <1>3, <1>4, FS_EmptySet
  <2> QED  BY <2>1, <2>2
<1>6. U \cup V \in SUBSET S /\ Cardinality(S) \in Nat /\ Cardinality(U \cup V) <= Cardinality(S)
  BY <1>2, FS_Subset, FS_CardinalityType DEF Fit
<1>7. Cardinality(U \cup V) = s.used + inst(i).size
  BY <1>1, <1>2, <1>5
<1>8. \A u \in U \cup V : u[1] \in DOMAIN s.entry \cup {inst(i).dest_addr}
  BY <1>1, <1>2
<1>9. s.used \in Nat /\ inst(i).size \in Nat
  BY <1>1, <1>2, <1>3
<1> QED  BY <1>6, <1>7, <1>8, <1>9 DEF Fit

LEMMA RoomBound ==
  ASSUME NEW s, NEW P, NEW S, NEW n \in Nat, Room(s, P, S), Fit(S, n)
  PROVE  s.used \in Nat /\ s.used <= n
<1>1. PICK U \in SUBSET S : Cardinality(U) = s.used
  BY DEF Room
<1>2. Cardinality(U) \in Nat /\ Cardinality(S) \in Nat /\ Cardinality(U) <= Cardinality(S)
  BY FS_Subset, FS_CardinalityType DEF Fit
<1> QED  BY <1>1, <1>2 DEF Fit

(* A part of a buffer has room while no more is pending. *)
LEMMA SpaceKept ==
  ASSUME SpaceInv, TypeOK, UNCHANGED current_acc_spad, OnSide' = OnSide,
         \A b \in Buffers : \A S : Fit(S, Capacity(b)) /\ Room(sram[b], UnitsOf(Pending(b)), S)
                                     => Room(sram'[b], UnitsOf(Pending(b)'), S)
  PROVE  SpaceInv'
<1>1. SumsOf(OnSide)' = SumsOf(OnSide)
  BY DEF SumsOf, UnitsOf, tile, inst, Allocates, Reserves, op
<1>2. \A b : UnitsOf(Pending(b))' = UnitsOf(Pending(b)')
  BY DEF UnitsOf, inst
<1>3. ASSUME NEW b \in Buffers PROVE HasRoom(b)'
  <2>1. PICK S : Fit(S, Capacity(b)) /\ Room(sram[b], UnitsOf(Pending(b)), S)
    BY DEF SpaceInv, HasRoom
  <2>2. Room(sram'[b], UnitsOf(Pending(b)'), S)
    BY <2>1
  <2> QED  BY <1>2, <2>1, <2>2, Zenon DEF HasRoom, Capacity
<1>4. ASSUME NEW b \in Buffers PROVE HasSums(b)'
  <2>1. CASE b # <<"acc", current_acc_spad>>
    BY <2>1 DEF HasSums
  <2>2. CASE b = <<"acc", current_acc_spad>>
    <3>1. Capacity(b) = AccSize
      BY <2>2 DEF Capacity
    <3>2. Room(sram[b], UnitsOf(Pending(b)), SumsOf(OnSide)) /\ Fit(SumsOf(OnSide), AccSize)
      BY <2>2 DEF SpaceInv, HasSums
    <3>3. Room(sram'[b], UnitsOf(Pending(b)'), SumsOf(OnSide))
      BY <3>1, <3>2
    <3>4. Room(sram'[b], UnitsOf(Pending(b))', SumsOf(OnSide)')
      BY <1>1, <1>2, <3>3
    <3> QED  BY <3>4, Zenon DEF HasSums
  <2> QED  BY <2>1, <2>2
<1>5. Fit(SumsOf(OnSide), AccSize)'
  BY <1>1 DEF SpaceInv, Fit
<1> QED  BY <1>3, <1>4, <1>5 DEF SpaceInv

(* A step that sends, answers or computes, and allocates nothing. *)
LEMMA RoomUnchanged ==
  ASSUME SpaceInv, IInv, UNCHANGED sides, OnSide' = OnSide,
         \A b \in Buffers : /\ "used" \in DOMAIN sram[b] =>
                                "used" \in DOMAIN sram'[b] /\ sram'[b].used = sram[b].used
                           /\ DOMAIN sram[b].entry \subseteq DOMAIN sram'[b].entry,
         \A i \in Inst : place'[i] \in {"ld", "ex"} => place'[i] = place[i]
  PROVE  SpaceInv'
<1>0. TypeOK /\ UNCHANGED <<current_acc_spad, spad_id, accum_spad_id>>
  BY DEF IInv, sides
<1>1. ASSUME NEW b \in Buffers, NEW S, Room(sram[b], UnitsOf(Pending(b)), S)
      PROVE  Room(sram'[b], UnitsOf(Pending(b)'), S)
  <2>1. \A i \in Inst : BufferOf(i)' = BufferOf(i)
    BY <1>0, BufferKept
  <2>2. Pending(b)' \subseteq Pending(b)
    BY <2>1 DEF Pending, Allocates, Reserves, op, inst
  <2>3. UnitsOf(Pending(b)') \subseteq S
    BY <1>1, <2>2, UnitsMonotone DEF Room
  <2>4. "used" \in DOMAIN sram[b]
    BY <1>1 DEF Room
  <2> QED  BY <1>1, <2>3, <2>4, RoomKept
<1> QED  BY <1>0, <1>1, SpaceKept

(* An instruction allocates its units. *)
LEMMA RoomTaken ==
  ASSUME SpaceInv, IInv, UNCHANGED sides, OnSide' = OnSide, NEW i \in Inst, Allocates(i),
         place[i] \in {"ld", "ex"},
         \A j \in Inst : place'[j] \in {"ld", "ex"} => place'[j] = place[j],
         NEW b \in Buffers, b = BufferOf(i), inst(i).dest_addr \notin DOMAIN sram[b].entry,
         \A c \in Buffers : c # b => sram'[c] = sram[c],
         "used" \in DOMAIN sram'[b], sram'[b].used = sram[b].used + inst(i).size,
         DOMAIN sram'[b].entry = DOMAIN sram[b].entry \cup {inst(i).dest_addr}
  PROVE  SpaceInv'
<1>0. TypeOK /\ UNCHANGED <<current_acc_spad, spad_id, accum_spad_id>>
  BY DEF IInv, sides
<1>1. ASSUME NEW c \in Buffers, NEW S, Fit(S, Capacity(c)), Room(sram[c], UnitsOf(Pending(c)), S)
      PROVE  Room(sram'[c], UnitsOf(Pending(c)'), S)
  <2>1. \A j \in Inst : BufferOf(j)' = BufferOf(j)
    BY <1>0, BufferKept
  <2>2. Pending(c)' \subseteq Pending(c)
    BY <2>1 DEF Pending, Allocates, Reserves, op, inst
  <2>3. UnitsOf(Pending(c)') \subseteq S
    BY <1>1, <2>2, UnitsMonotone DEF Room
  <2>4. CASE c # b
    BY <1>1, <2>3, <2>4, RoomKept DEF Room
  <2>5. CASE c = b
    <3>1. {inst(i).dest_addr} \X (1..inst(i).size) \subseteq S
      <4>1. i \in Pending(c)
        BY <2>5 DEF Pending
      <4>2. {inst(i).dest_addr} \X (1..inst(i).size) \subseteq UnitsOf(Pending(c))
        BY <4>1 DEF UnitsOf
      <4> QED  BY <1>1, <4>2 DEF Room
    <3>2. Capacity(c) \in Nat
      BY CoreAssumption DEF Capacity
    <3>3. \E U \in SUBSET S : /\ Cardinality(U) = sram[c].used + inst(i).size
                              /\ \A u \in U : u[1] \in DOMAIN sram[c].entry \cup {inst(i).dest_addr}
      BY <1>1, <2>5, <3>1, <3>2, RoomFor
    <3> QED  BY <2>3, <2>5, <3>3 DEF Room
  <2> QED  BY <2>4, <2>5
<1> QED  BY <1>0, <1>1, SpaceKept

(* What is still to be allocated is for a running tile, which waits for it. *)
LEMMA PendingBusy ==
  ASSUME IInv, NEW i \in Inst, place[i] \in {"ld", "ex"}, Allocates(i)
  PROVE  /\ tile(i) \in Tiles /\ status[tile(i)] = "RUNNING"
         /\ place[i] = "ld" => Reserves(i) /\ remaining_loads[tile(i)] # 0
         /\ place[i] = "ex" => /\ op(i) \in ExOp /\ inst(i).dest_addr \in AccAddr
                               /\ remaining_accum_io[tile(i)] # 0
<1> DEFINE u == tile(i)
<1>0. TypeOK /\ PlacesAgree /\ CountersExact /\ IsFiniteSet(inflight)
  BY DEF IInv, Agreement
<1>1. u \in Tiles /\ i \in InstOf(u)
  BY InstFacts
<1>2. Counted(i)
  BY DEF Allocates, Reserves, ExOp, Counted
<1>3. status[u] = "RUNNING"
  BY <1>2, Busy
<1>4. TileCountersExact(u)
  BY <1>0, <1>1 DEF CountersExact
<1>5. place[i] = "ld" => Reserves(i) /\ i \in LoadsLeft(u)
  BY <1>0, <1>1, <1>2 DEF PlacesAgree, Allocates, LoadOp, ExOp, LoadsLeft, Queued
<1>6. place[i] = "ex" => op(i) \in ExOp /\ inst(i).dest_addr \in AccAddr /\ i \in AccumLeft(u)
  BY <1>0, <1>1, <1>2, ProgramAssumption DEF PlacesAgree, AccumLeft, Queued
<1> HIDE DEF u
<1>7. /\ i \in LoadsLeft(u) => Cardinality(LoadsLeft(u)) # 0
      /\ i \in AccumLeft(u) => Cardinality(AccumLeft(u)) # 0
  BY <1>0, <1>1, CountsNat, FS_EmptySet
<1>8. /\ Cardinality(LoadsLeft(u)) \in Nat /\ Cardinality(Reads(u)) \in Nat
      /\ Cardinality(AccumLeft(u)) \in Nat /\ Cardinality(Writes(u)) \in Nat
  BY <1>0, <1>1, CountsNat
<1>9. /\ i \in LoadsLeft(u) => remaining_loads[u] # 0
      /\ i \in AccumLeft(u) => remaining_accum_io[u] # 0
  BY <1>4, <1>7, <1>8 DEF TileCountersExact
<1> QED  BY <1>1, <1>3, <1>5, <1>6, <1>9 DEF u

(* A tile is issued, and the sides it is given have room for it. *)
LEMMA StartRoom ==
  ASSUME TilesFit, IInv, SidesInv, SpaceInv, NEW t \in Tiles, Starts(t)
  PROVE  SpaceInv'
<1> DEFINE SpadInst == {i \in InstOf(t) : Allocates(i) /\ inst(i).dest_addr \notin AccAddr}
           AccInst  == {i \in InstOf(t) : Allocates(i) /\ inst(i).dest_addr \in AccAddr}
<1>0. TypeOK /\ PlacesAgree /\ CountersExact
  BY DEF IInv, Agreement
<1>1. /\ status[t] = "INITIALIZED" /\ IsNext(t, platform(t)) /\ ~Program[t].skip
      /\ \A u \in Tiles : status'[u] = IF u = t THEN "RUNNING" ELSE status[u]
      /\ \A i \in Inst : place'[i] = IF tile(i) = t THEN QueueOf(i) ELSE place[i]
      /\ \A u \in Tiles : u # t => spad_id'[u] = spad_id[u] /\ accum_spad_id'[u] = accum_spad_id[u]
  <2>1. PICK sp, ac \in {0, 1} : Start(t, sp, ac)
    BY <1>0, StartsFacts
  <2>2. status[t] = "INITIALIZED" /\ IsNext(t, platform(t))
    BY <1>0, StartsFacts
  <2> QED  BY <1>0, <2>1, <2>2 DEF Start, Starts, TypeOK
<1>2. \A i \in Inst : /\ tile(i) \in Tiles
                      /\ tile(i) # t => BufferOf(i)' = BufferOf(i) /\ place'[i] = place[i]
                      /\ tile(i) = t => i \in InstOf(t) /\ place[i] = "none"
  <2>1. \A i \in Inst : tile(i) \in Tiles /\ i \in InstOf(tile(i))
    BY InstFacts
  <2>2. \A i \in Inst : tile(i) = t => place[i] = "none"
    BY <1>0, <1>1 DEF PlacesAgree
  <2> QED  BY <1>1, <2>1, <2>2, BufferKept
<1>3. \A i : /\ Allocates(i)' = Allocates(i)
  BY DEF Allocates, Reserves, op, inst
<1>4. \A I : UnitsOf(I)' = UnitsOf(I')
  BY DEF UnitsOf, inst
<1>5. ASSUME NEW b \in Buffers, \A i \in Inst : tile(i) = t /\ Allocates(i) => BufferOf(i)' # b
      PROVE  Pending(b)' = Pending(b)
  BY <1>2, <1>3, <1>5 DEF Pending
<1>6. ASSUME NEW b \in Buffers, sram'[b] = sram[b], Pending(b)' = Pending(b) PROVE HasRoom(b)'
  <2>1. PICK S : Fit(S, Capacity(b)) /\ Room(sram[b], UnitsOf(Pending(b)), S)
    BY DEF SpaceInv, HasRoom
  <2>2. Room(sram'[b], UnitsOf(Pending(b))', S)
    BY <1>4, <1>6, <2>1
  <2> QED  BY <2>1, <2>2, Zenon DEF HasRoom, Capacity
<1>7. ASSUME NEW b \in Buffers, sram'[b] = Flushed, NEW I \in SUBSET Inst, Pending(b)' \subseteq I,
             Cardinality(UnitsOf(I)) <= Capacity(b)
      PROVE  HasRoom(b)'
  <2>1. Fit(UnitsOf(I), Capacity(b))
    BY <1>7, UnitsFinite DEF Fit
  <2>2. UnitsOf(Pending(b)') \subseteq UnitsOf(I)
    BY <1>7, UnitsMonotone
  <2>3. Room(sram'[b], UnitsOf(Pending(b))', UnitsOf(I))
    BY <1>4, <1>7, <2>2, RoomEmpty
  <2> QED  BY <2>1, <2>3, Zenon DEF HasRoom, Capacity
<1>8. /\ SpadInst \in SUBSET Inst /\ AccInst \in SUBSET Inst
      /\ Cardinality(UnitsOf(SpadInst)) <= SpadSize
      /\ \A T \in SUBSET Summed(t) : Fit(SumsOf(T), AccSize)
      /\ UnitsOf(AccInst) \subseteq SumsOf({t}) /\ t \in Summed(t)
  <2>1. SpadInst \in SUBSET Inst /\ AccInst \in SUBSET Inst /\ \A i \in AccInst : tile(i) = t
    BY InstFacts
  <2>2. t \in Summed(t)
    BY DEF Summed
  <2>3. Cardinality(UnitsOf(SpadInst)) <= SpadSize /\ Cardinality(SumsOf(Summed(t))) <= AccSize
    BY <1>1 DEF TilesFit, SumsOf
  <2>4. ASSUME NEW T \in SUBSET Summed(t) PROVE Fit(SumsOf(T), AccSize)
    <3>1. SumsOf(T) \subseteq SumsOf(Summed(t))
      BY DEF SumsOf, UnitsOf
    <3>2. IsFiniteSet(SumsOf(Summed(t)))
      BY UnitsFinite DEF SumsOf
    <3>3. /\ IsFiniteSet(SumsOf(T)) /\ Cardinality(SumsOf(T)) <= Cardinality(SumsOf(Summed(t)))
          /\ Cardinality(SumsOf(T)) \in Nat /\ Cardinality(SumsOf(Summed(t))) \in Nat
      BY <3>1, <3>2, FS_Subset, FS_CardinalityType
    <3> QED  BY <2>3, <3>3, CoreAssumption DEF Fit
  <2>5. UnitsOf(AccInst) \subseteq SumsOf({t})
    BY <2>1 DEF SumsOf, UnitsOf
  <2> QED  BY <2>1, <2>2, <2>3, <2>4, <2>5
<1>9. \A T : SumsOf(T)' = SumsOf(T')
  BY DEF SumsOf, UnitsOf, tile, inst, Allocates, Reserves, op
<1>10. \A u \in Tiles : Started(u)' <=> Started(u) \/ (u = t /\ platform(t) = SA)
  BY <1>1 DEF Started, platform
<1>11. \A u \in Tiles : u \in Nat
  BY CoreAssumption DEF Tiles
<1> HIDE DEF SpadInst, AccInst
<1>12. CASE issue(t)
  <2> DEFINE sp == 1 - current_spad
             ac == AccFor(t)
  <2>0. current_spad \in {0, 1} /\ current_acc_spad \in {0, 1} /\ sp \in {0, 1} /\ ac \in {0, 1}
    BY <1>0 DEF TypeOK, AccFor
  <2>1. /\ platform(t) = SA /\ can_issue(t)
        /\ spad_id'[t] = sp /\ accum_spad_id'[t] = ac
        /\ current_acc_spad' = ac
        /\ sram' = [sram EXCEPT ![<<"spad", sp>>] = Flushed,
                                ![<<"acc", ac>>] = IF Program[t].accum THEN @ ELSE Flushed]
    BY <1>0, <1>12 DEF Starts, issue, IsNext, Start, AccFor, TypeOK, flush
  <2>2. /\ \A b \in Buffers : b # <<"spad", sp>> /\ b # <<"acc", ac>> => sram'[b] = sram[b]
        /\ sram'[<<"spad", sp>>] = Flushed
        /\ sram'[<<"acc", ac>>] = IF Program[t].accum THEN sram[<<"acc", ac>>] ELSE Flushed
        /\ <<"spad", sp>> \in Buffers /\ <<"acc", ac>> \in Buffers
    <3>1. DOMAIN sram = Buffers /\ <<"spad", sp>> # <<"acc", ac>>
      BY <1>0 DEF TypeOK
    <3>2. <<"spad", sp>> \in Buffers /\ <<"acc", ac>> \in Buffers
      BY <2>0 DEF Buffers, Kinds
    <3> HIDE DEF sp, ac
    <3>3. CASE Program[t].accum
      <4>1. sram' = [sram EXCEPT ![<<"spad", sp>>] = Flushed, ![<<"acc", ac>>] = @]
        BY <2>1, <3>3
      <4> QED  BY <3>1, <3>2, <3>3, <4>1
    <3>4. CASE ~Program[t].accum
      <4>1. sram' = [sram EXCEPT ![<<"spad", sp>>] = Flushed, ![<<"acc", ac>>] = Flushed]
        BY <2>1, <3>4
      <4> QED  BY <3>1, <3>2, <3>4, <4>1
    <3> QED  BY <3>3, <3>4
  <2>3. ASSUME NEW i \in Inst, tile(i) = t
        PROVE  BufferOf(i)' = IF inst(i).dest_addr \in AccAddr THEN <<"acc", ac>>
                                                               ELSE <<"spad", sp>>
    BY <2>1, <2>3 DEF BufferOf, SpadOf, AccOf, inst, tile, platform
  <2>4. ASSUME NEW i \in Inst, place[i] \in {"ld", "ex"}, Allocates(i),
               BufferOf(i) = <<"spad", sp>> \/ (BufferOf(i) = <<"acc", ac>> /\ ~Program[t].accum)
        PROVE  FALSE
    <3> DEFINE u == tile(i)
    <3>1. platform(u) = SA
      BY <1>0, <2>4, BufferFacts
    <3>2. BufferOf(i) = IF inst(i).dest_addr \in AccAddr
                        THEN <<"acc", accum_spad_id[u]>> ELSE <<"spad", spad_id[u]>>
      BY <1>0, <3>1, BufferFacts
    <3>3. u \in Running(SA)
      BY <2>4, <3>1, PendingBusy DEF Running
    <3>4. /\ spad_id[u] = sp => remaining_loads[u] = 0
          /\ ~Program[t].accum /\ accum_spad_id[u] = 1 - current_acc_spad =>
               remaining_accum_io[u] = 0
      BY <2>1, <3>3 DEF can_issue
    <3>5. CASE place[i] = "ld"
      <4>1. remaining_loads[u] # 0
        BY <2>4, <3>5, PendingBusy
      <4>2. spad_id[u] # sp /\ spad_id[u] \in {0, 1}
        BY <1>0, <1>2, <3>4, <4>1 DEF TypeOK
      <4>3. spad_id[u] = current_spad
        BY <2>0, <4>2
      <4>4. accum_spad_id[u] = current_acc_spad
        BY <3>3, <4>1, <4>3 DEF SidesInv, CurrentSide
      <4>5. accum_spad_id[u] = ac /\ ~Program[t].accum
        BY <2>4, <3>2, <4>2
      <4> QED  BY <2>0, <4>4, <4>5 DEF AccFor
    <3>6. CASE place[i] = "ex"
      <4>1. remaining_accum_io[u] # 0 /\ inst(i).dest_addr \in AccAddr
        BY <2>4, <3>6, PendingBusy
      <4>2. accum_spad_id[u] = ac /\ ~Program[t].accum
        BY <2>4, <3>2, <4>1
      <4> QED  BY <3>4, <4>1, <4>2 DEF AccFor
    <3> QED  BY <2>4, <3>5, <3>6
  <2> HIDE DEF sp, ac
  <2>5. PICK bs, ba \in Buffers : bs = <<"spad", sp>> /\ ba = <<"acc", ac>>
    BY <2>2
  <2>6. Pending(bs)' \subseteq SpadInst
    <3>1. ASSUME NEW i \in Pending(bs)' PROVE i \in SpadInst
      <4>1. i \in Inst /\ place'[i] \in {"ld", "ex"} /\ Allocates(i) /\ BufferOf(i)' = bs
        BY <1>3, <3>1 DEF Pending
      <4>2. tile(i) = t
        BY <1>2, <2>4, <2>5, <4>1
      <4>3. inst(i).dest_addr \notin AccAddr
        BY <2>3, <2>5, <4>1, <4>2
      <4> QED  BY <1>2, <4>1, <4>2, <4>3 DEF SpadInst
    <3> QED  BY <3>1
  <2>7. ASSUME NEW i \in Pending(ba)'
        PROVE  i \in AccInst \/ (Program[t].accum /\ i \in Pending(ba))
    <3>1. i \in Inst /\ place'[i] \in {"ld", "ex"} /\ Allocates(i) /\ BufferOf(i)' = ba
      BY <1>3, <2>7 DEF Pending
    <3>2. CASE tile(i) = t
      <4>1. inst(i).dest_addr \in AccAddr
        BY <2>3, <2>5, <3>1, <3>2
      <4> QED  BY <1>2, <3>1, <3>2, <4>1 DEF AccInst
    <3>3. CASE tile(i) # t
      <4>1. place[i] \in {"ld", "ex"} /\ BufferOf(i) = ba
        BY <1>2, <3>1, <3>3
      <4> QED  BY <2>4, <2>5, <3>1, <4>1 DEF Pending
    <3> QED  BY <3>2, <3>3
  <2>8. HasRoom(bs)'
    <3>1. Capacity(bs) = SpadSize /\ sram'[bs] = Flushed
      BY <2>2, <2>5 DEF Capacity
    <3> QED  BY <1>7, <1>8, <2>6, <3>1
  <2>9. ASSUME NEW b \in Buffers, b # bs, b # ba PROVE HasRoom(b)'
    <3>1. \A i \in Inst : tile(i) = t /\ Allocates(i) => BufferOf(i)' # b
      BY <2>3, <2>5, <2>9
    <3> QED  BY <1>5, <1>6, <2>2, <2>5, <2>9, <3>1
  <2>10. /\ OnSide' \subseteq Summed(t) /\ t \in OnSide'
         /\ Program[t].accum => OnSide \subseteq OnSide'
    <3>1. \A u \in Tiles : Started(u) => u < t
      <4>1. \A u \in Tiles : t < u /\ Started(u) => FALSE
        BY <1>1, <2>1 DEF SidesInv, IssuedInOrder, Started
      <4>2. ~Started(t)
        BY <1>1 DEF Started
      <4> QED  BY <1>11, <4>1, <4>2
    <3>2. \A u \in Tiles : u < t /\ platform(u) = SA /\ ~Program[u].skip => Started(u)
      BY <1>1, <2>1 DEF IsNext, Started
    <3>3. OnSide' = {u \in Tiles : /\ Started(u)'
                                   /\ \A v \in Tiles : u < v /\ Started(v)' => Program[v].accum}
      BY DEF OnSide
    <3>4. t \in OnSide'
      BY <1>10, <1>11, <2>1, <3>1, <3>3
    <3>5. ASSUME NEW u \in OnSide', u # t PROVE u \in Summed(t)
      <4>1. u \in Tiles /\ Started(u) /\ u < t
        BY <1>10, <3>1, <3>3, <3>5
      <4>2. u \in 1..(t - 1)
        BY <1>11, <4>1, CoreAssumption DEF Tiles
      <4>3. platform(u) = SA /\ ~Program[u].skip
        BY <4>1 DEF Started
      <4>4. ASSUME NEW v \in (u + 1)..t, platform(v) = SA, ~Program[v].skip
            PROVE  Program[v].accum
        <5>1. v \in Tiles
          <6>1. Program \in Seq(TileRecord)
            BY CoreAssumption
          <6>2. Tiles = 1..Len(Program) /\ Len(Program) \in Nat
            BY <6>1 DEF Tiles
          <6> QED  BY <4>2, <6>2
        <5>2. Started(v)'
          BY <1>10, <1>11, <2>1, <3>2, <4>4, <5>1
        <5>3. u < v
          BY <1>11, <4>1, <4>4
        <5> QED  BY <3>3, <3>5, <5>1, <5>2, <5>3
      <4> QED  BY <2>1, <4>2, <4>3, <4>4 DEF Summed
    <3>6. ASSUME Program[t].accum, NEW u \in OnSide PROVE u \in OnSide'
      BY <1>10, <3>3, <3>6 DEF OnSide
    <3> QED  BY <1>8, <3>4, <3>5, <3>6
  <2>11. Fit(SumsOf(OnSide'), AccSize) /\ SumsOf({t}) \subseteq SumsOf(OnSide')
    <3>1. SumsOf({t}) \subseteq SumsOf(OnSide')
      BY <2>10 DEF SumsOf, UnitsOf
    <3> QED  BY <1>8, <2>10, <3>1
  <2>12. Room(sram'[ba], UnitsOf(Pending(ba)'), SumsOf(OnSide'))
    <3>1. CASE ~Program[t].accum
      <4>1. Pending(ba)' \subseteq AccInst
        BY <2>7, <3>1
      <4>2. UnitsOf(Pending(ba)') \subseteq SumsOf(OnSide')
        BY <1>8, <2>11, <4>1, UnitsMonotone
      <4>3. sram'[ba] = Flushed
        BY <2>2, <2>5, <3>1
      <4> QED  BY <4>2, <4>3, RoomEmpty
    <3>2. CASE Program[t].accum
      <4>1. sram'[ba] = sram[ba] /\ ba = <<"acc", current_acc_spad>>
        BY <2>2, <2>5, <3>2 DEF ac, AccFor
      <4>2. Room(sram[ba], UnitsOf(Pending(ba)), SumsOf(OnSide))
        BY <4>1 DEF SpaceInv, HasSums
      <4>3. SumsOf(OnSide) \subseteq SumsOf(OnSide')
        BY <2>10, <3>2 DEF SumsOf, UnitsOf
      <4>4. UnitsOf(Pending(ba)') \subseteq UnitsOf(AccInst) \cup UnitsOf(Pending(ba))
        BY <2>7 DEF UnitsOf
      <4>5. UnitsOf(Pending(ba)') \subseteq SumsOf(OnSide')
        BY <1>8, <2>11, <4>2, <4>3, <4>4 DEF Room
      <4> QED  BY <4>1, <4>2, <4>3, <4>5, RoomKept DEF Room
    <3> QED  BY <3>1, <3>2
  <2>13. HasRoom(ba)'
    <3>1. Capacity(ba) = AccSize
      BY <2>5 DEF Capacity
    <3>2. Room(sram'[ba], UnitsOf(Pending(ba))', SumsOf(OnSide'))
      BY <1>4, <2>12
    <3> QED  BY <2>11, <3>1, <3>2, Zenon DEF HasRoom, Capacity
  <2>14. ASSUME NEW b \in Buffers PROVE HasSums(b)'
    <3>1. CASE b = ba
      <4>1. Room(sram'[b], UnitsOf(Pending(b))', SumsOf(OnSide)')
        BY <1>4, <1>9, <2>12, <3>1
      <4> QED  BY <4>1, Zenon DEF HasSums
    <3>2. CASE b # ba
      <4>1. b # <<"acc", current_acc_spad'>>
        BY <2>1, <2>5, <3>2 DEF ac
      <4> QED  BY <4>1 DEF HasSums
    <3> QED  BY <3>1, <3>2
  <2>15. Fit(SumsOf(OnSide), AccSize)'
    BY <1>9, <2>11 DEF Fit
  <2> QED  BY <2>8, <2>9, <2>13, <2>14, <2>15 DEF SpaceInv
<1>13. CASE issue_pim(t)
  <2>1. /\ platform(t) = PIM /\ Running(PIM) = {}
        /\ spad_id'[t] = 0 /\ accum_spad_id'[t] = 0 /\ UNCHANGED current_acc_spad
        /\ sram' = [sram EXCEPT ![<<"pim_spad", 0>>] = Flushed, ![<<"pim_acc", 0>>] = Flushed]
    BY <1>0, <1>13 DEF Starts, issue_pim, IsNext, Start, can_issue_pim, TypeOK, flush
  <2>2. PICK bs, ba \in Buffers : bs = <<"pim_spad", 0>> /\ ba = <<"pim_acc", 0>>
    BY DEF Buffers, Kinds
  <2>3. /\ sram'[bs] = Flushed /\ sram'[ba] = Flushed
        /\ \A b \in Buffers : b # bs /\ b # ba => sram'[b] = sram[b]
    BY <1>0, <2>1, <2>2 DEF TypeOK
  <2>4. ASSUME NEW i \in Inst, tile(i) = t
        PROVE  BufferOf(i)' = IF inst(i).dest_addr \in AccAddr THEN ba ELSE bs
    BY <2>1, <2>2, <2>4 DEF BufferOf, SpadOf, AccOf, inst, tile, platform, SA, PIM
  <2>5. ASSUME NEW i \in Inst, place[i] \in {"ld", "ex"}, Allocates(i)
        PROVE  BufferOf(i) # bs /\ BufferOf(i) # ba
    <3>1. platform(tile(i)) \in Platforms /\ status[tile(i)] = "RUNNING"
      BY <1>2, <2>5, InstFacts, PendingBusy DEF platform, TileRecord
    <3>2. platform(tile(i)) = SA
      BY <1>2, <2>1, <3>1 DEF Running, Platforms
    <3> QED  BY <1>0, <2>2, <3>2, BufferFacts
  <2>6. Pending(bs)' \subseteq SpadInst /\ Pending(ba)' \subseteq AccInst
    <3>1. ASSUME NEW b \in {bs, ba}, NEW i \in Pending(b)'
          PROVE  i \in IF b = bs THEN SpadInst ELSE AccInst
      <4>1. i \in Inst /\ place'[i] \in {"ld", "ex"} /\ Allocates(i) /\ BufferOf(i)' = b
        BY <1>3, <3>1 DEF Pending
      <4>2. tile(i) = t
        BY <1>2, <2>5, <4>1
      <4>3. b = IF inst(i).dest_addr \in AccAddr THEN ba ELSE bs
        BY <2>4, <4>1, <4>2
      <4> QED  BY <1>2, <2>2, <4>1, <4>2, <4>3 DEF SpadInst, AccInst
    <3>2. bs # ba
      BY <2>2
    <3> QED  BY <3>1, <3>2
  <2>7. HasRoom(bs)'
    <3>1. Capacity(bs) = SpadSize
      BY <2>2 DEF Capacity
    <3> QED  BY <1>7, <1>8, <2>3, <2>6, <3>1
  <2>8. HasRoom(ba)'
    <3>1. Capacity(ba) = AccSize
      BY <2>2 DEF Capacity
    <3>2. Fit(SumsOf({t}), AccSize)
      BY <1>8
    <3>3. UnitsOf(Pending(ba)') \subseteq SumsOf({t})
      BY <1>8, <2>6, UnitsMonotone
    <3>4. Room(sram'[ba], UnitsOf(Pending(ba))', SumsOf({t}))
      BY <1>4, <2>3, <3>3, RoomEmpty
    <3> QED  BY <3>1, <3>2, <3>4, Zenon DEF HasRoom, Capacity
  <2>9. \A b \in Buffers : b # bs /\ b # ba => Pending(b)' = Pending(b)
    BY <1>5, <2>4
  <2>10. ASSUME NEW b \in Buffers, b # bs, b # ba PROVE HasRoom(b)'
    BY <1>6, <2>3, <2>9, <2>10
  <2>11. OnSide' = OnSide
    BY <1>10, <2>1 DEF OnSide, SA, PIM
  <2>12. ASSUME NEW b \in Buffers PROVE HasSums(b)'
    <3>1. CASE b # <<"acc", current_acc_spad>>
      BY <2>1, <3>1 DEF HasSums
    <3>2. CASE b = <<"acc", current_acc_spad>>
      <4>1. b # bs /\ b # ba
        BY <2>2, <3>2
      <4>2. Room(sram[b], UnitsOf(Pending(b)), SumsOf(OnSide))
        BY <3>2 DEF SpaceInv, HasSums
      <4>3. Room(sram'[b], UnitsOf(Pending(b))', SumsOf(OnSide)')
        BY <1>4, <1>9, <2>3, <2>9, <2>11, <4>1, <4>2
      <4> QED  BY <4>3, Zenon DEF HasSums
    <3> QED  BY <3>1, <3>2
  <2>13. Fit(SumsOf(OnSide), AccSize)'
    BY <1>9, <2>11 DEF SpaceInv, Fit
  <2> QED  BY <2>7, <2>8, <2>10, <2>12, <2>13 DEF SpaceInv
<1> QED  BY <1>12, <1>13 DEF Starts

(* What comes in, or is computed, takes no more room. *)
LEMMA UsedKept ==
  ASSUME NEW s, "entry" \in DOMAIN s, NEW a, NEW s2, s2 = fill(s, a) \/ s2 = count_up(s, a)
  PROVE  /\ "used" \in DOMAIN s => "used" \in DOMAIN s2 /\ s2.used = s.used
         /\ DOMAIN s.entry \subseteq DOMAIN s2.entry
<1>1. /\ "used" \in DOMAIN s => "used" \in DOMAIN fill(s, a) /\ fill(s, a).used = s.used
      /\ "used" \in DOMAIN s => "used" \in DOMAIN count_up(s, a) /\ count_up(s, a).used = s.used
  BY DEF fill, count_up
<1>2. \A e : DOMAIN s.entry \subseteq DOMAIN SetEntry(s, a, e)
  BY DEF SetEntry
<1>3. DOMAIN s.entry \subseteq DOMAIN fill(s, a).entry
  BY <1>2, SramFacts
<1>4. DOMAIN s.entry \subseteq DOMAIN count_up(s, a).entry
  BY <1>2, SramFacts
<1> QED  BY <1>1, <1>3, <1>4

(* Sram::reserve, of a load or of the result of a computation. *)
LEMMA ReserveStep ==
  ASSUME SpaceInv, IInv, UNCHANGED sides, OnSide' = OnSide, NEW i \in Inst, Allocates(i),
         place[i] \in {"ld", "ex"},
         \A j \in Inst : place'[j] \in {"ld", "ex"} => place'[j] = place[j],
         inst(i).dest_addr \notin DOMAIN sram[BufferOf(i)].entry, NEW n,
         sram' = [sram EXCEPT ![BufferOf(i)] = reserve(@, inst(i).dest_addr, inst(i).size, n)]
  PROVE  SpaceInv'
<1>1. PICK b \in Buffers : b = BufferOf(i)
  BY BufferFacts DEF IInv
<1>2. DOMAIN sram = Buffers
  BY DEF IInv, TypeOK
<1> DEFINE r == reserve(sram[b], inst(i).dest_addr, inst(i).size, n)
<1>3. /\ "used" \in DOMAIN r /\ r.used = sram[b].used + inst(i).size
      /\ r.entry = SetEntry(sram[b], inst(i).dest_addr, Entry(FALSE, n))
  BY DEF reserve
<1> HIDE DEF r
<1>4. sram'[b] = r /\ \A c \in Buffers : c # b => sram'[c] = sram[c]
  BY <1>1, <1>2 DEF r
<1>5. DOMAIN r.entry = DOMAIN sram[b].entry \cup {inst(i).dest_addr}
  BY <1>3 DEF SetEntry
<1> QED  BY <1>1, <1>3, <1>4, <1>5, RoomTaken

(* No step takes more room of a buffer than there is. *)
LEMMA SpaceStep ==
  ASSUME TilesFit, IInv, SidesInv, BufferInv, SpaceInv, [Next]_vars
  PROVE  SpaceInv'
<1>0. TypeOK /\ \A b \in Buffers : "entry" \in DOMAIN sram[b]
  BY DEF IInv, BufferInv, EntriesExact
<1>1. ASSUME \A t \in Tiles : Started(t)' <=> Started(t) PROVE OnSide' = OnSide
  BY <1>1 DEF OnSide
<1>2. UNCHANGED status => OnSide' = OnSide
  BY <1>1 DEF Started, platform
<1>3. ASSUME UNCHANGED <<place, sides, sram>>, OnSide' = OnSide PROVE SpaceInv'
  BY <1>3, RoomUnchanged
<1>4. ASSUME NEW t \in Tiles, Finish(t),
             Program[t].skip \/ status[t] = "RUNNING"
      PROVE  SpaceInv'
  <2>1. \A u \in Tiles : Started(u)' <=> Started(u)
    BY <1>0, <1>4 DEF Finish, Started, platform, TypeOK
  <2> QED  BY <1>1, <1>3, <1>4, <2>1 DEF Finish
<1>5. ASSUME NEW b \in Buffers, NEW a, NEW s2, s2 = fill(sram[b], a) \/ s2 = count_up(sram[b], a),
             sram' = [sram EXCEPT ![b] = s2], UNCHANGED <<sides, status>>,
             \A i \in Inst : place'[i] \in {"ld", "ex"} => place'[i] = place[i]
      PROVE  SpaceInv'
  <2>1. /\ "used" \in DOMAIN sram[b] => "used" \in DOMAIN s2 /\ s2.used = sram[b].used
        /\ DOMAIN sram[b].entry \subseteq DOMAIN s2.entry
    BY <1>0, <1>5, UsedKept
  <2>2. \A c \in Buffers : sram'[c] = IF c = b THEN s2 ELSE sram[c]
    BY <1>0, <1>5 DEF TypeOK
  <2> QED  BY <1>2, <1>5, <2>1, <2>2, RoomUnchanged
<1>6. ASSUME NEW a \in inflight, push_memory_response(a) PROVE SpaceInv'
  <2>1. UNCHANGED <<place, sides, status>>
    BY <1>6 DEF push_memory_response
  <2>2. CASE UNCHANGED sram
    BY <1>2, <1>3, <2>1, <2>2
  <2>3. CASE sram' = [sram EXCEPT ![BufferOf(a[1])] = fill(@, inst(a[1]).dest_addr)]
    <3>1. a[1] \in Inst
      BY Busy
    <3>2. PICK b \in Buffers : b = BufferOf(a[1])
      BY <1>0, <3>1, BufferFacts
    <3>3. sram' = [sram EXCEPT ![b] = fill(sram[b], inst(a[1]).dest_addr)]
      BY <2>3, <3>2
    <3> QED  BY <1>5, <2>1, <3>3
  <2> QED  BY <1>6, <2>2, <2>3 DEF push_memory_response
<1>7. ASSUME NEW i \in Inst, Computed(i) PROVE SpaceInv'
  <2>1. PICK b \in Buffers : b = AccOf(tile(i))
    BY <1>0, BufferFacts
  <2>2. sram' = [sram EXCEPT ![b] = fill(sram[b], inst(i).dest_addr)]
    BY <1>7, <2>1 DEF Computed
  <2>3. /\ UNCHANGED <<sides, status>>
        /\ \A j \in Inst : place'[j] \in {"ld", "ex"} => place'[j] = place[j]
    BY <1>0, <1>7 DEF Computed, TypeOK
  <2> QED  BY <1>5, <2>2, <2>3
<1>8. ASSUME NEW i \in Inst, place[i] = "ld", SendLoad(i) PROVE SpaceInv'
  <2>1. /\ UNCHANGED <<sides, status>>
        /\ \A j \in Inst : place'[j] \in {"ld", "ex"} => place'[j] = place[j]
    BY <1>0, <1>8 DEF SendLoad, TypeOK
  <2>2. CASE ~Reserves(i)
    <3>1. UNCHANGED sram
      BY <1>8, <2>2 DEF SendLoad
    <3> QED  BY <1>2, <2>1, <3>1, RoomUnchanged
  <2>3. CASE Reserves(i)
    <3>1. sram' = [sram EXCEPT ![BufferOf(i)] =
                     reserve(@, inst(i).dest_addr, inst(i).size, inst(i).accesses)]
      BY <1>8, <2>3 DEF SendLoad
    <3>2. inst(i).dest_addr \notin DOMAIN sram[BufferOf(i)].entry
      BY <1>8, <2>3 DEF BufferInv, LoadsFresh
    <3>3. Allocates(i)
      BY <2>3 DEF Allocates
    <3> QED  BY <1>2, <1>8, <2>1, <3>1, <3>2, <3>3, ReserveStep
  <2> QED  BY <2>2, <2>3
<1>9. ASSUME NEW i \in Inst, place[i] = "st", SendStore(i) PROVE SpaceInv'
  <2>1. /\ UNCHANGED <<sides, status, sram>>
        /\ \A j \in Inst : place'[j] \in {"ld", "ex"} => place'[j] = place[j]
    BY <1>0, <1>9 DEF SendStore, TypeOK
  <2> QED  BY <1>2, <2>1, RoomUnchanged
<1>10. ASSUME NEW i \in Inst, place[i] = "ex", issue_ex_inst(i) PROVE SpaceInv'
  <2> DEFINE a == inst(i).dest_addr
  <2>1. op(i) \in ExOp /\ BufferOf(i) = AccOf(tile(i))
    BY <1>0, <1>10, BufferFacts DEF IInv, Agreement, PlacesAgree
  <2>2. PICK b \in Buffers : b = BufferOf(i)
    BY <1>0, BufferFacts
  <2>3. PICK q \in {"systolic", "vector"} : place' = [place EXCEPT ![i] = q]
    BY <1>10 DEF issue_ex_inst
  <2>4. /\ UNCHANGED <<sides, status>>
        /\ \A j \in Inst : place'[j] \in {"ld", "ex"} => place'[j] = place[j]
    BY <1>0, <1>10, <2>3 DEF issue_ex_inst, TypeOK
  <2>5. sram' = [sram EXCEPT ![b] = IF check_allocated(@, a) THEN count_up(@, a)
                                    ELSE reserve(@, a, inst(i).size, 1)]
    BY <1>10, <2>1, <2>2 DEF issue_ex_inst
  <2> HIDE DEF a
  <2>6. CASE a \in DOMAIN sram[b].entry
    <3>1. sram' = [sram EXCEPT ![b] = count_up(sram[b], a)]
      BY <2>5, <2>6 DEF check_allocated
    <3> QED  BY <1>5, <2>4, <3>1
  <2>7. CASE a \notin DOMAIN sram[b].entry
    <3>1. sram' = [sram EXCEPT ![b] = reserve(@, a, inst(i).size, 1)]
      BY <2>5, <2>7 DEF check_allocated
    <3>2. Allocates(i)
      BY <2>1 DEF Allocates
    <3> QED  BY <1>2, <1>10, <2>2, <2>4, <2>7, <3>1, <3>2, ReserveStep DEF a
  <2> QED  BY <2>6, <2>7
<1>11. CASE UNCHANGED vars
  BY <1>2, <1>3, <1>11 DEF vars
<1>12. CASE Next
  <2>1. UNCHANGED <<status, place, vector_pipelines, inflight, counters, sides, sram,
                    waiting_write_reqs>> => SpaceInv'
    BY <1>2, <1>3
  <2>2. \A t \in Tiles : Complete(t) => status[t] = "RUNNING"
    BY DEF Complete
  <2> QED  BY <1>0, <1>4, <1>6, <1>7, <1>8, <1>9, <1>10, <1>12, <2>1, <2>2, StepCases, StartRoom
<1> QED  BY <1>11, <1>12

LEMMA SpaceInit == ASSUME Init PROVE SpaceInv
<1>1. \A b : Pending(b) = {}
  BY DEF Init, Pending
<1>2. OnSide = {} /\ UnitsOf({}) = {} /\ SumsOf({}) = {}
  BY DEF Init, OnSide, Started, UnitsOf, SumsOf
<1>3. Fit({}, SpadSize) /\ Fit({}, AccSize)
  BY FS_EmptySet, CoreAssumption DEF Fit
<1>4. ASSUME NEW b \in Buffers PROVE Room(sram[b], UnitsOf(Pending(b)), {})
  <2>1. sram[b] = Flushed
    BY DEF Init
  <2> QED  BY <1>1, <1>2, <2>1, RoomEmpty
<1>5. \A b \in Buffers : HasRoom(b)
  BY <1>3, <1>4 DEF HasRoom, Capacity
<1> QED  BY <1>2, <1>3, <1>4, <1>5 DEF SpaceInv, HasSums

(* Double buffering never overflows: every Sram::reserve of a load finds its
   address free and its size available, and the results of computations stay
   in their half, although an accumulating tile is issued onto the results of
   those before it and the sides change under running tiles, if every tile,
   with those it accumulates onto, fits its half. *)
THEOREM AlwaysReservationsFit == ASSUME TilesFit PROVE Spec => []ReservationsFit
<1>1. ASSUME IInv, BufferInv, SpaceInv PROVE ReservationsFit
  <2>0. TypeOK /\ \A b \in Buffers : Capacity(b) \in Nat
    BY <1>1, CoreAssumption DEF IInv, Capacity
  <2>1. ASSUME NEW b \in Buffers PROVE sram[b].used <= Capacity(b)
    <3>1. PICK S : Fit(S, Capacity(b)) /\ Room(sram[b], UnitsOf(Pending(b)), S)
      BY <1>1 DEF SpaceInv, HasRoom
    <3> QED  BY <2>0, <3>1, RoomBound
  <2>2. ASSUME NEW i \in Inst, place[i] = "ld", Reserves(i)
        PROVE  reserve_asserts(sram[BufferOf(i)], inst(i).dest_addr, inst(i).size,
                               Capacity(BufferOf(i)))
    <3>1. PICK b \in Buffers : b = BufferOf(i)
      BY <2>0, BufferFacts
    <3>2. PICK S : Fit(S, Capacity(b)) /\ Room(sram[b], UnitsOf(Pending(b)), S)
      BY <1>1 DEF SpaceInv, HasRoom
    <3>3. i \in Pending(b)
      BY <2>2, <3>1 DEF Pending, Allocates
    <3>4. {inst(i).dest_addr} \X (1..inst(i).size) \subseteq S
      BY <3>2, <3>3 DEF Room, UnitsOf
    <3>5. inst(i).dest_addr \notin DOMAIN sram[b].entry
      BY <1>1, <2>2, <3>1 DEF BufferInv, LoadsFresh
    <3>6. sram[b].used + inst(i).size <= Capacity(b)
      BY <2>0, <3>2, <3>4, <3>5, RoomFor
    <3> QED  BY <3>1, <3>5, <3>6 DEF reserve_asserts, check_allocated, check_remain
  <2> QED  BY <2>1, <2>2 DEF ReservationsFit
<1>2. IInv /\ SidesInv /\ BufferInv /\ SpaceInv /\ [Next]_vars => SpaceInv'
  BY SpaceStep
<1>3. Init => SpaceInv
  BY SpaceInit
<1> QED  BY <1>1, <1>2, <1>3, IInvInit, IInvStep, SidesInit, SidesStep, BufferInit, DrainedStep,
            BufferStep, PTL DEF Spec

=============================================================================
