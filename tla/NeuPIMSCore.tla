---------------------------- MODULE NeuPIMSCore ----------------------------
(***************************************************************************)
(* One NPU core (classes NeuPIMSCore and NeuPIMSystolicWS): the tiles it   *)
(* was given, their instructions on the way through the load, store and    *)
(* execution queues, the systolic array and the vector units, its on-chip  *)
(* buffers, and the memory accesses that have not been answered.           *)
(*                                                                         *)
(* Time is abstract: the front of a pipeline may or may not be finished in *)
(* a cycle, and the memory answers accesses in any order.  The core is one *)
(* thread: `pc` is the place in NeuPIMSystolicWS::cycle, and tiles are     *)
(* issued and answers delivered between two cycles only.                   *)
(*                                                                         *)
(* A tile is numbered by its place in Program, an instruction is a pair    *)
(* <<tile, index>>.  All instructions of a tile enter the queues when the  *)
(* tile is issued, so every queue holds instructions in the order of these *)
(* pairs: a queue is the set of instructions whose `place` names it.       *)
(***************************************************************************)
EXTENDS Sram, FiniteSets, Sequences

CONSTANTS
  Program,      \* the tiles that the scheduler hands to this core, in order
  SpadAddr,     \* addresses below ACCUM_SPAD_BASE
  AccAddr,      \* addresses from ACCUM_SPAD_BASE on
  SpadSize, AccSize,   \* half of spad_size and of accum_spad_size
  NumVpus       \* vector_core_count

SA  == "SA"
PIM == "PIM"
Platforms == {SA, PIM}
Addr == SpadAddr \cup AccAddr

\* VECTOR is LAYERNORM, SOFTMAX, ADD, GELU or DUMMY; PIM_GWRITE is also
\* PIM_COMP, and PIM_READRES is also PIM_COMPS_READRES.
LoadOp == {"MOVIN", "PIM_HEADER", "PIM_GWRITE", "PIM_READRES"}
ExOp   == {"GEMM", "VECTOR"}
Opcode == LoadOp \cup ExOp \cup {"MOVOUT"}

\* `accesses` is the number of DRAM accesses that from_instruction makes.
Instruction == [opcode : Opcode, dest_addr : Addr, size : Nat, src_addrs : SUBSET Addr,
                src_from_accum : BOOLEAN, accesses : Nat \ {0}]
TileRecord  == [platform : Platforms, accum : BOOLEAN, skip : BOOLEAN,
                instructions : Seq(Instruction)]

ASSUME CoreAssumption ==
  /\ Program \in Seq(TileRecord)
  /\ SpadSize \in Nat /\ AccSize \in Nat /\ NumVpus \in Nat \ {0}
  /\ SpadAddr \cap AccAddr = {}

Tiles == DOMAIN Program
Inst  == UNION {{t} \X DOMAIN Program[t].instructions : t \in Tiles}
InstOf(t) == {t} \X DOMAIN Program[t].instructions
tile(i)   == i[1]
inst(i)   == Program[i[1]].instructions[i[2]]
op(i)     == inst(i).opcode
platform(t) == Program[t].platform

\* The loads that Tile::remaining_loads counts, and those that allocate.
Counted(i)  == op(i) # "PIM_HEADER"
Reserves(i) == op(i) \in {"MOVIN", "PIM_READRES"}

\* What the operations generate: PIM commands only in PIM tiles and neither
\* MOVIN nor GEMM there (assert(0) or throw), a result goes to an accumulator,
\* a PIM command is one access, no two loads of a tile have the same place, and
\* only the first tile of an accumulation loads into the accumulators (a bias).
ASSUME ProgramAssumption == \A i \in Inst :
  /\ platform(tile(i)) = SA  => op(i) \in {"MOVIN", "MOVOUT"} \cup ExOp
  /\ platform(tile(i)) = PIM => op(i) \notin {"MOVIN", "GEMM"}
  /\ op(i) \in ExOp => inst(i).dest_addr \in AccAddr
  /\ op(i) \in LoadOp \ {"MOVIN"} => inst(i).accesses = 1
  /\ Reserves(i) => \A j \in InstOf(tile(i)) :
       Reserves(j) /\ inst(i).dest_addr = inst(j).dest_addr => i = j
  /\ Reserves(i) /\ Program[tile(i)].accum => inst(i).dest_addr \notin AccAddr

VARIABLES
  status,             \* status[t]: Tile::Status
  place,              \* place[i]: the queue or unit instruction i is in
  vector_pipelines,   \* vector_pipelines[v]
  inflight,           \* accesses <<i, k>> that will be answered
  remaining_loads, remaining_computes, remaining_accum_io,
  spad_id, accum_spad_id, current_spad, current_acc_spad,
  sram,               \* sram[<<kind, side>>]
  waiting_write_reqs, finished_tiles,
  pc, lane            \* where NeuPIMSystolicWS::cycle is, and at which vector unit

counters == <<remaining_loads, remaining_computes, remaining_accum_io>>
sides    == <<spad_id, accum_spad_id, current_spad, current_acc_spad>>
vars == <<status, place, vector_pipelines, inflight, counters, sides, sram,
          waiting_write_reqs, finished_tiles, pc, lane>>

Vpus  == 1..NumVpus
Kinds == {"spad", "acc", "pim_spad", "pim_acc"}
Buffers == Kinds \X {0, 1}
Capacity(b) == IF b[1] \in {"spad", "pim_spad"} THEN SpadSize ELSE AccSize

Init ==
  /\ status = [t \in Tiles |-> "INITIALIZED"]
  /\ place = [i \in Inst |-> "none"]
  /\ vector_pipelines = [v \in Vpus |-> <<>>]
  /\ inflight = {}
  /\ remaining_loads    = [t \in Tiles |-> 0]
  /\ remaining_computes = [t \in Tiles |-> 0]
  /\ remaining_accum_io = [t \in Tiles |-> 0]
  /\ spad_id = [t \in Tiles |-> 0] /\ accum_spad_id = [t \in Tiles |-> 0]
  /\ current_spad = 0 /\ current_acc_spad = 0
  /\ sram = [b \in Buffers |-> Flushed]
  /\ waiting_write_reqs = 0 /\ finished_tiles = <<>>
  /\ pc = "idle" /\ lane = 1

-----------------------------------------------------------------------------
\* Which buffer an address of a tile is in.
SpadOf(t) == <<IF platform(t) = SA THEN "spad" ELSE "pim_spad", spad_id[t]>>
AccOf(t)  == <<IF platform(t) = SA THEN "acc" ELSE "pim_acc", accum_spad_id[t]>>
BufferOf(i) == IF inst(i).dest_addr \in AccAddr THEN AccOf(tile(i)) ELSE SpadOf(tile(i))

\* The accesses of an instruction, and what sending them adds to its tile's
\* counter, which has counted the instruction since issue.
Accesses(i) == {i} \X (1..inst(i).accesses)
MoreAccesses_all(i) == inst(i).accesses        \* mutant: counts the instruction twice
MoreAccesses(i) == inst(i).accesses - 1

Precedes(i, j) == i[1] < j[1] \/ (i[1] = j[1] /\ i[2] < j[2])
Queue(q, p)    == {i \in Inst : place[i] = q /\ platform(tile(i)) = p}
IsFront(i, S)  == i \in S /\ \A j \in S : i = j \/ Precedes(i, j)

-----------------------------------------------------------------------------
Running(p) == {t \in Tiles : status[t] = "RUNNING" /\ platform(t) = p}

\* Simulator::cycle offers the tiles of a platform in the scheduler's order.
IsNext(t, p) == /\ status[t] = "INITIALIZED" /\ platform(t) = p
                /\ \A u \in Tiles : u < t /\ platform(u) = p => status[u] # "INITIALIZED"

can_issue_pim == Running(PIM) = {}

\* Mutant: the scratchpad is not looked at.
can_issue_accum_only(t) ==
  \/ Running(SA) = {}
  \/ Program[t].accum
  \/ \A u \in Running(SA) : accum_spad_id[u] = 1 - current_acc_spad => remaining_accum_io[u] = 0

can_issue(t) ==
  \/ Running(SA) = {}
  \/ /\ \A u \in Running(SA) : spad_id[u] = 1 - current_spad =>
           remaining_loads[u] = 0 /\ remaining_computes[u] = 0
     /\ Program[t].accum \/ \A u \in Running(SA) :
           accum_spad_id[u] = 1 - current_acc_spad => remaining_accum_io[u] = 0

\* The queue an instruction is pushed to when its tile is issued.
QueueOf(i) == IF op(i) \in LoadOp THEN "ld" ELSE IF op(i) = "MOVOUT" THEN "st" ELSE "ex"

\* What issue and issue_pim do with the instructions of the tile.
Start(t, sp, ac) ==
  /\ status' = [status EXCEPT ![t] = "RUNNING"]
  /\ spad_id' = [spad_id EXCEPT ![t] = sp]
  /\ accum_spad_id' = [accum_spad_id EXCEPT ![t] = ac]
  /\ place' = [i \in Inst |-> IF tile(i) = t THEN QueueOf(i) ELSE place[i]]
  /\ remaining_loads' = [remaining_loads EXCEPT ![t] =
        Cardinality({i \in InstOf(t) : QueueOf(i) = "ld" /\ Counted(i)})]
  /\ remaining_computes' = [remaining_computes EXCEPT ![t] =
        Cardinality({i \in InstOf(t) : QueueOf(i) = "ex"})]
  /\ remaining_accum_io' = [remaining_accum_io EXCEPT ![t] =
        Cardinality({i \in InstOf(t) : QueueOf(i) \in {"st", "ex"}})]
  /\ UNCHANGED <<vector_pipelines, inflight, waiting_write_reqs, finished_tiles, pc, lane>>

\* The tile goes to _finished_tiles: at once if it is to be skipped, else when
\* it is complete.
Finish(t) ==
  /\ status' = [status EXCEPT ![t] = "FINISH"]
  /\ finished_tiles' = Append(finished_tiles, t)
  /\ UNCHANGED <<place, vector_pipelines, inflight, counters, sides, sram,
                 waiting_write_reqs, pc, lane>>

issue(t) ==
  LET sp == 1 - current_spad
      ac == IF Program[t].accum THEN current_acc_spad ELSE 1 - current_acc_spad
  IN  /\ pc = "idle" /\ IsNext(t, SA) /\ can_issue(t)
      /\ \/ Program[t].skip /\ Finish(t)
         \/ /\ ~Program[t].skip
            /\ current_spad' = sp /\ current_acc_spad' = ac
            /\ sram' = [sram EXCEPT ![<<"spad", sp>>] = flush(@),
                                    ![<<"acc", ac>>] = IF Program[t].accum THEN @ ELSE flush(@)]
            /\ Start(t, sp, ac)

issue_pim(t) ==
  /\ pc = "idle" /\ IsNext(t, PIM) /\ can_issue_pim
  /\ \/ Program[t].skip /\ Finish(t)
     \/ /\ ~Program[t].skip
        /\ sram' = [sram EXCEPT ![<<"pim_spad", 0>>] = flush(@),
                                ![<<"pim_acc", 0>>] = flush(@)]
        /\ Start(t, 0, 0)
        /\ UNCHANGED <<current_spad, current_acc_spad>>

\* Simulator::cycle takes one finished tile before it issues and cycles.
pop_finished_tile ==
  /\ pc = "idle" /\ finished_tiles # <<>>
  /\ finished_tiles' = Tail(finished_tiles)
  /\ UNCHANGED <<status, place, vector_pipelines, inflight, counters, sides, sram,
                 waiting_write_reqs, pc, lane>>

\* A P_HEADER access has no response, the responses to PIM_GWRITE and PIM_COMP
\* bring no data.
push_memory_response(a) ==
  LET i == a[1]
      t == tile(i)
  IN  /\ pc = "idle" /\ a \in inflight
      /\ inflight' = inflight \ {a}
      /\ IF op(i) = "MOVOUT"
         THEN /\ remaining_accum_io' = [remaining_accum_io EXCEPT ![t] = @ - 1]
              /\ waiting_write_reqs' = waiting_write_reqs - 1
              /\ UNCHANGED <<remaining_loads, sram>>
         ELSE /\ remaining_loads' = [remaining_loads EXCEPT ![t] = @ - 1]
              /\ sram' = IF Reserves(i)
                         THEN [sram EXCEPT ![BufferOf(i)] = fill(@, inst(i).dest_addr)]
                         ELSE sram
              /\ UNCHANGED <<remaining_accum_io, waiting_write_reqs>>
      /\ UNCHANGED <<status, place, vector_pipelines, remaining_computes, sides,
                     finished_tiles, pc, lane>>

-----------------------------------------------------------------------------
\* NeuPIMSystolicWS::cycle, one action per call.
StartCycle ==
  /\ pc = "idle" /\ pc' = "systolic"
  /\ UNCHANGED <<status, place, vector_pipelines, inflight, counters, sides, sram,
                 waiting_write_reqs, finished_tiles, lane>>

\* The end of a computation, in the systolic array or in a vector unit.
Computed(i) ==
  LET t == tile(i)
  IN  /\ place' = [place EXCEPT ![i] = "done"]
      /\ sram' = [sram EXCEPT ![AccOf(t)] = fill(@, inst(i).dest_addr)]
      /\ remaining_accum_io' = [remaining_accum_io EXCEPT ![t] = @ - 1]
      /\ remaining_computes' = [remaining_computes EXCEPT ![t] = @ - 1]
      /\ UNCHANGED <<status, inflight, remaining_loads, sides, waiting_write_reqs,
                     finished_tiles>>

SystolicFinish ==
  /\ pc = "systolic" /\ pc' = "vector" /\ lane' = 1
  /\ \E i \in Inst : IsFront(i, Queue("systolic", SA)) /\ Computed(i)
  /\ UNCHANGED vector_pipelines

Idle(here, next) ==
  /\ pc = here /\ pc' = next
  /\ UNCHANGED <<status, place, vector_pipelines, inflight, counters, sides, sram,
                 waiting_write_reqs, finished_tiles>>

systolic_cycle == SystolicFinish \/ (Idle("systolic", "vector") /\ lane' = 1)

\* The loop over the vector units.
AfterLane == IF lane = NumVpus THEN pc' = "ld" /\ lane' = 1
                               ELSE pc' = "vector" /\ lane' = lane + 1

VectorFinish ==
  /\ pc = "vector" /\ vector_pipelines[lane] # <<>>
  /\ Computed(Head(vector_pipelines[lane]))
  /\ vector_pipelines' = [vector_pipelines EXCEPT ![lane] = Tail(@)]
  /\ AfterLane

vector_unit_cycle ==
  \/ VectorFinish
  \/ /\ pc = "vector" /\ AfterLane
     /\ UNCHANGED <<status, place, vector_pipelines, inflight, counters, sides, sram,
                    waiting_write_reqs, finished_tiles>>

LdAt(p) == IF p = SA THEN "ld" ELSE "pim_ld"
StAt(p) == IF p = SA THEN "st" ELSE "pim_st"
ExAt(p) == IF p = SA THEN "ex" ELSE "pim_ex"

\* One turn of the loop of ld_queue_cycle and pim_ld_queue_cycle, which empty
\* their queue in every cycle.
SendLoad(i) ==
  /\ place' = [place EXCEPT ![i] = "sent"]
  /\ inflight' = IF Counted(i) THEN inflight \cup Accesses(i) ELSE inflight
  /\ sram' = IF Reserves(i)
             THEN [sram EXCEPT ![BufferOf(i)] =
                     reserve(@, inst(i).dest_addr, inst(i).size, inst(i).accesses)]
             ELSE sram
  /\ remaining_loads' = [remaining_loads EXCEPT ![tile(i)] = @ + MoreAccesses(i)]
  /\ UNCHANGED <<status, vector_pipelines, remaining_computes, remaining_accum_io, sides,
                 waiting_write_reqs, finished_tiles, lane>>

ld_queue_cycle(p) ==
  \/ /\ pc = LdAt(p) /\ UNCHANGED pc
     /\ \E i \in Inst : IsFront(i, Queue("ld", p)) /\ SendLoad(i)
  \/ Queue("ld", p) = {} /\ Idle(LdAt(p), StAt(p)) /\ UNCHANGED lane

\* One instruction per cycle; it waits until its source is in the buffer.
SendStore(i) ==
  /\ check_hit(sram[BufferOf(i)], inst(i).dest_addr)
  /\ place' = [place EXCEPT ![i] = "sent"]
  /\ inflight' = inflight \cup Accesses(i)
  /\ remaining_accum_io' = [remaining_accum_io EXCEPT ![tile(i)] = @ + MoreAccesses(i)]
  /\ waiting_write_reqs' = waiting_write_reqs + inst(i).accesses
  /\ UNCHANGED <<status, vector_pipelines, remaining_loads, remaining_computes, sides, sram,
                 finished_tiles, lane>>

StoreReady(p) == \E i \in Queue("st", p) :
  IsFront(i, Queue("st", p)) /\ check_hit(sram[BufferOf(i)], inst(i).dest_addr)

st_queue_cycle(p) ==
  \/ /\ pc = StAt(p) /\ pc' = ExAt(p)
     /\ \E i \in Inst : IsFront(i, Queue("st", p)) /\ SendStore(i)
  \/ ~StoreReady(p) /\ Idle(StAt(p), ExAt(p)) /\ UNCHANGED lane

\* Mutant: every source is looked up in the accumulators.
can_issue_compute_accum(i) == \A a \in inst(i).src_addrs : check_hit(sram[AccOf(tile(i))], a)

\* A source in an accumulator is looked up there only if the instruction says so.
can_issue_compute(i) == \A a \in inst(i).src_addrs :
  check_hit(sram[IF inst(i).src_from_accum /\ a \in AccAddr THEN AccOf(tile(i))
                                                            ELSE SpadOf(tile(i))], a)

\* The first idle vector unit; if all are busy, finish cycles decide.
ChosenVpu(v) ==
  \/ vector_pipelines[v] = <<>> /\ \A w \in 1..(v-1) : vector_pipelines[w] # <<>>
  \/ \A w \in Vpus : vector_pipelines[w] # <<>>

issue_ex_inst(i) ==
  LET a == inst(i).dest_addr
  IN  /\ \/ /\ op(i) = "GEMM"
            /\ place' = [place EXCEPT ![i] = "systolic"]
            /\ UNCHANGED vector_pipelines
         \/ /\ op(i) = "VECTOR"
            /\ place' = [place EXCEPT ![i] = "vector"]
            /\ \E v \in Vpus :
                 /\ ChosenVpu(v)
                 /\ vector_pipelines' = [vector_pipelines EXCEPT ![v] = Append(@, i)]
      /\ sram' = [sram EXCEPT ![AccOf(tile(i))] =
                    IF check_allocated(@, a) THEN count_up(@, a)
                                             ELSE reserve(@, a, inst(i).size, 1)]
      /\ UNCHANGED <<status, inflight, counters, sides, waiting_write_reqs, finished_tiles, lane>>

AfterEx(p) == IF p = SA THEN "pim_ld" ELSE "tiles"

ExReady(p) == \E i \in Queue("ex", p) : IsFront(i, Queue("ex", p)) /\ can_issue_compute(i)

ex_queue_cycle(p) ==
  \/ /\ pc = ExAt(p) /\ pc' = AfterEx(p)
     /\ \E i \in Inst : /\ IsFront(i, Queue("ex", p)) /\ can_issue_compute(i)
                        /\ issue_ex_inst(i)
  \/ ~ExReady(p) /\ Idle(ExAt(p), AfterEx(p)) /\ UNCHANGED lane

\* NeuPIMSCore::cycle: tiles with nothing left to do are finished, in the
\* order of _tiles and then of _pim_tiles.
Complete_stores_forgotten(t) ==      \* mutant
  status[t] = "RUNNING" /\ remaining_computes[t] = 0 /\ remaining_loads[t] = 0
Complete(t) == /\ status[t] = "RUNNING"
               /\ remaining_accum_io[t] = 0
               /\ remaining_computes[t] = 0
               /\ remaining_loads[t] = 0

cycle ==
  \/ /\ pc = "tiles"
     /\ \E t \in Tiles :
          /\ Complete(t)
          /\ \A u \in Tiles : Complete(u) => \/ platform(t) = platform(u) /\ t <= u
                                             \/ platform(t) = SA /\ platform(u) = PIM
          /\ Finish(t)
  \/ (\A t \in Tiles : ~Complete(t)) /\ Idle("tiles", "idle") /\ UNCHANGED lane

Next ==
  \/ \E t \in Tiles : issue(t) \/ issue_pim(t)
  \/ pop_finished_tile
  \/ \E a \in inflight : push_memory_response(a)
  \/ StartCycle \/ systolic_cycle \/ vector_unit_cycle
  \/ \E p \in Platforms : ld_queue_cycle(p) \/ st_queue_cycle(p) \/ ex_queue_cycle(p)
  \/ cycle

Spec == Init /\ [][Next]_vars

\* The simulation loop goes on for ever here; the scheduler keeps offering its
\* tiles, the memory answers every access some time, and a computation takes
\* finitely many cycles.  The last three compete with other steps at the same
\* place of the loop, hence strong fairness.
Fairness ==
  /\ WF_vars(Next /\ pc # "idle") /\ SF_vars(StartCycle)
  /\ SF_vars(\E t \in Tiles : issue(t) \/ issue_pim(t))
  /\ SF_vars(\E a \in inflight : push_memory_response(a))
  /\ SF_vars(SystolicFinish)
  /\ \A v \in Vpus : SF_vars(lane = v /\ VectorFinish)
FairSpec == Spec /\ Fairness

-----------------------------------------------------------------------------
Places == {"none", "ld", "st", "ex", "systolic", "vector", "sent", "done"}
Phases == {"idle", "systolic", "vector", "ld", "st", "ex", "pim_ld", "pim_st", "pim_ex",
           "tiles"}

\* The values the state of the core ranges over.
TypeOK ==
  /\ status \in [Tiles -> {"INITIALIZED", "RUNNING", "FINISH"}]
  /\ place \in [Inst -> Places]
  /\ vector_pipelines \in [Vpus -> Seq(Inst)]
  /\ inflight \subseteq UNION {Accesses(i) : i \in Inst}
  /\ remaining_loads \in [Tiles -> Int] /\ remaining_computes \in [Tiles -> Int]
  /\ remaining_accum_io \in [Tiles -> Int]
  /\ spad_id \in [Tiles -> {0, 1}] /\ accum_spad_id \in [Tiles -> {0, 1}]
  /\ current_spad \in {0, 1} /\ current_acc_spad \in {0, 1}
  /\ DOMAIN sram = Buffers
  /\ waiting_write_reqs \in Int
  /\ finished_tiles \in Seq(Tiles)
  /\ pc \in Phases /\ lane \in Vpus

Queued(q, t) == {i \in InstOf(t) : place[i] \in q /\ Counted(i)}
Reads(t)     == {a \in inflight : tile(a[1]) = t /\ op(a[1]) # "MOVOUT"}
Writes(t)    == {a \in inflight : tile(a[1]) = t /\ op(a[1]) = "MOVOUT"}
LoadsLeft(t)    == Queued({"ld"}, t)
ComputesLeft(t) == Queued({"ex", "systolic", "vector"}, t)
AccumLeft(t)    == Queued({"st", "ex", "systolic", "vector"}, t)
AllWrites    == {a \in inflight : op(a[1]) = "MOVOUT"}

TileCountersExact(t) ==
  /\ remaining_loads[t] = Cardinality(LoadsLeft(t)) + Cardinality(Reads(t))
  /\ remaining_computes[t] = Cardinality(ComputesLeft(t))
  /\ remaining_accum_io[t] = Cardinality(AccumLeft(t)) + Cardinality(Writes(t))

\* The three counters of a tile are exact at every moment: a load counts once
\* while it is queued and once per access afterwards, a computation counts in
\* remaining_computes and in remaining_accum_io until it leaves its pipeline,
\* a store like a load.  They are unsigned in the code, so one decrement too
\* many would keep the tile from ever finishing, and one increment too few
\* would finish it (and free it) under accesses that still name it.
\* _waiting_write_reqs, which keeps running() true, counts the stores likewise.
CountersExact ==
  /\ \A t \in Tiles : TileCountersExact(t)
  /\ waiting_write_reqs = Cardinality(AllWrites)

\* A tile that NeuPIMSCore::cycle has moved to _finished_tiles has no
\* instruction in a queue or a pipeline and no unanswered access: every
\* parent_tile.lock() of the core succeeds (each is followed by assert(0)).
FinishedTilesAreQuiet == \A t \in Tiles : status[t] = "FINISH" =>
  /\ \A i \in InstOf(t) : Counted(i) => place[i] \in {"none", "sent", "done"}
  /\ \A a \in inflight : tile(a[1]) # t

\* What has to arrive at address a of buffer b.
Arriving(b, a) ==
  {x \in inflight : Reserves(x[1]) /\ BufferOf(x[1]) = b /\ inst(x[1]).dest_addr = a}
Computing(b, a) ==
  {i \in Inst : place[i] \in {"systolic", "vector"} /\ BufferOf(i) = b
                /\ inst(i).dest_addr = a}

\* Double buffering is safe: an entry of a buffer waits for exactly the answers
\* and computations that are on their way to it, so every Sram::fill finds its
\* entry allocated, awaited and not yet valid (the asserts of fill), although
\* issue() clears the other side of the buffers while earlier tiles run.
FillsAreExpected == \A b \in Buffers :
  /\ \A a \in DOMAIN sram[b].entry :
       sram[b].entry[a].remain = Cardinality(Arriving(b, a)) + Cardinality(Computing(b, a))
  /\ \A a \in Addr : Arriving(b, a) # {} \/ Computing(b, a) # {} => fill_asserts(sram[b], a)

\* The asserts of Sram::reserve hold for every queued load (its address is not
\* in use and its size fits), and computations, whose results are allocated
\* when they are issued, fill no side of a buffer beyond half of its memory.
ReservationsFit ==
  /\ \A b \in Buffers : sram[b].used <= Capacity(b)
  /\ \A i \in Inst : place[i] = "ld" /\ Reserves(i) =>
       reserve_asserts(sram[BufferOf(i)], inst(i).dest_addr, inst(i).size,
                       Capacity(BufferOf(i)))

\* The units of a buffer that instructions allocate, by address.
Allocates(i) == Reserves(i) \/ op(i) \in ExOp
UnitsOf(I)   == UNION {{inst(i).dest_addr} \X (1..inst(i).size) : i \in I}

\* The tiles whose results are in the accumulators with those of tile t.
Summed(t) ==
  LET Runs(u) == platform(u) = SA /\ ~Program[u].skip
  IN  {t} \cup {u \in 1..(t-1) : /\ platform(t) = SA /\ Runs(u)
                               /\ \A v \in (u+1)..t : Runs(v) => Program[v].accum}

\* The hypothesis under which the core fills no side of a buffer too far: what a
\* tile loads and computes fits half of the scratchpad and half of the accumulators,
\* together with the tiles it accumulates onto. A product, a vector operation and the
\* score and value products choose their tiles by it (MatMul.cc:527, LayerNorm.cc:217,
\* PIMGEMV.cc:230); the fused attention operations count elements of the whole buffer
\* (NeuPIMSLogitSoftmax.cc:356, NeuPIMSAttend.cc:331), so for them it has to be
\* established from the sizes of the model. Nothing compares a tile with the
\* accumulators before Sram::reserve asserts that a load has room.
TilesFit == \A t \in Tiles : ~Program[t].skip =>
  /\ Cardinality(UnitsOf({i \in InstOf(t) :
        Allocates(i) /\ inst(i).dest_addr \notin AccAddr})) <= SpadSize
  /\ Cardinality(UnitsOf({i \in Inst :
        tile(i) \in Summed(t) /\ Allocates(i) /\ inst(i).dest_addr \in AccAddr})) <= AccSize

\* Two running tiles share a side of the scratchpad only when the earlier one
\* has loaded and computed everything, and a side of the accumulators only when
\* it has stored everything too, or when the later one accumulates onto it.
BuffersNotShared == \A t, u \in Running(SA) : t < u =>
  /\ spad_id[t] = spad_id[u] => remaining_loads[t] = 0 /\ remaining_computes[t] = 0
  /\ accum_spad_id[t] = accum_spad_id[u] =>
       remaining_accum_io[t] = 0 \/ Program[u].accum

\* Every tile of the program is issued and finished in the end: no instruction
\* waits for ever for a source that was cleared or never filled, no counter
\* sticks, and neither side of a buffer stays taken.
TilesFinish == <>(\A t \in Tiles : status[t] = "FINISH")

\* A store is sent after the computations of its tile that precede it and write
\* to the same accumulator.
StoresFollowComputations == \A i, j \in Inst :
  /\ tile(i) = tile(j) /\ i[2] < j[2]
  /\ op(i) \in ExOp /\ op(j) = "MOVOUT" /\ inst(i).dest_addr = inst(j).dest_addr
  /\ place[j] = "sent"
  => place[i] = "done"

=============================================================================
