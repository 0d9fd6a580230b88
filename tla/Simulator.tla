------------------------------ MODULE Simulator ------------------------------
(***************************************************************************)
(* The core-clock half of Simulator::cycle: in every core cycle the client *)
(* hands its requests to the scheduler, the scheduler returns completed    *)
(* requests and advances, and then each core in turn reports at most one   *)
(* finished tile, is offered one tile of each program, and runs a cycle.   *)
(*                                                                         *)
(* The simulator is one thread: `pc` is the place in the loop body.  A     *)
(* core is seen here only through the tiles it holds; how long a tile      *)
(* takes (module NeuPIMSCore, the interconnect and the DRAM) is left open. *)
(***************************************************************************)
EXTENDS Scheduler

CONSTANT NumCores
Cores == 1..NumCores

ASSUME SimulatorAssumption == NumCores \in Nat \ {0}

VARIABLES
  waiting_queue, touch, completed_cnt,   \* Client
  core_tiles,       \* core_tiles[c][p]: tiles core c is executing, in issue order
  finished_tiles,   \* finished_tiles[c]: NeuPIMSCore::_finished_tiles
  sim_stage_stats,  \* Simulator::_stage_stats
  pc, turn,         \* where the loop body of Simulator::cycle is, and at which core
  work              \* history: the operations each sub-batch has completed

clientVars == <<waiting_queue, touch, completed_cnt>>
coreVars   == <<core_tiles, finished_tiles>>
vars == <<schedulerVars, clientVars, coreVars, sim_stage_stats, pc, turn, work>>

Init ==
  /\ SchedulerInit
  /\ waiting_queue = <<>> /\ touch = FALSE /\ completed_cnt = 0
  /\ core_tiles = [c \in Cores |-> [p \in Platforms |-> <<>>]]
  /\ finished_tiles = [c \in Cores |-> <<>>]
  /\ sim_stage_stats = <<>>
  /\ pc = "loop" /\ turn = 1
  /\ work = [b \in 1..2 |-> <<>>]

-----------------------------------------------------------------------------
\* Client::running, NeuPIMSCore::running (which looks at SA tiles only)
client_running == completed_cnt < NumRequests
core_running(c) == core_tiles[c][SA] # <<>>

\* Simulator::running.  SimpleInterconnect and PIM always report FALSE.
running == \/ \E c \in Cores : core_running(c)
           \/ scheduler_running
           \/ client_running

\* The end of the loop: the statistics are written and the program returns.
Stop ==
  /\ pc = "loop" /\ ~running
  /\ pc' = "done"
  /\ UNCHANGED <<schedulerVars, clientVars, coreVars, sim_stage_stats, turn, work>>

\* has_request / pop_request / add_request, then Client::cycle: the first call
\* creates every request of the data set; a call that finds all requests
\* completed ends the process with exit(-1), before any statistics are written.
ClientCycle ==
  /\ pc = "loop" /\ running
  /\ request_queue' = request_queue \o waiting_queue
  /\ waiting_queue' = IF touch THEN <<>> ELSE [i \in 1..NumRequests |-> i]
  /\ touch' = TRUE
  /\ pc' = IF completed_cnt = NumRequests THEN "exited" ELSE "responses"
  /\ UNCHANGED <<config, completed_request_queue, active_request_queues, active_reqs,
                 is_initiated, generated, breq, init_calls, stageVars, programVars,
                 finished_operation_stats, completed_cnt, coreVars, sim_stage_stats,
                 turn, work>>

\* pop_completed_request / receive_response until none is left, and then
\* has_stage_changed / update_stage_stat.
Responses ==
  /\ pc = "responses"
  /\ completed_cnt' = completed_cnt + Len(completed_request_queue)
  /\ completed_request_queue' = <<>>
  /\ has_stage_changed' = FALSE
  /\ sim_stage_stats' = IF has_stage_changed THEN Append(sim_stage_stats, prev_stage)
                        ELSE sim_stage_stats
  /\ pc' = "scheduler"
  /\ UNCHANGED <<config, request_queue, active_request_queues, active_reqs, is_initiated,
                 generated, breq, init_calls, stage, prev_stage, stage_stats, programVars,
                 finished_operation_stats, waiting_queue, touch, coreVars, turn, work>>

TileCounts == [Platforms -> 1..MaxTiles]

SchedulerCycle ==
  /\ pc = "scheduler"
  /\ \E n \in TileCounts : scheduler_cycle(n)
  /\ pc' = "cores" /\ turn' = 1
  /\ UNCHANGED <<clientVars, coreVars, sim_stage_stats, work>>

\* What finish_tile records about the operation of the tile.
RecordFinish(tile) ==
  LET op == tile.operation_id
  IN  IF last_tile(op)
      THEN /\ finished_operation_stats' = finished_operation_stats \cup {op}
           /\ work' = [work EXCEPT ![sub_batch_on(op[2], op[1])] = Append(@, op[3])]
      ELSE UNCHANGED <<finished_operation_stats, work>>

\* can_issue / can_issue_pim: an idle unit takes a tile; a busy PIM side never
\* does, a busy systolic array may (double buffering).
CanIssue(c, p, spare) == core_tiles[c][p] = <<>> \/ (p = SA /\ spare)

\* The elements of s that are in T, in the order of s.
Those(s, T) ==
  LET upto[i \in 0..Len(s)] ==
        IF i = 0 THEN <<>>
        ELSE IF s[i] \in T THEN Append(upto[i - 1], s[i]) ELSE upto[i - 1]
  IN  upto[Len(s)]

\* The body of the loop over the cores for core c.  `spare` tells whether the
\* other half of the systolic array's buffers is free, `done[p]` which of the
\* running tiles reach the end in this core cycle.
CoreTurn(c, n, spare, done) ==
  LET tile   == Head(finished_tiles[c])
      popped == finished_tiles[c] # <<>>
      r      == IF popped THEN finish_tile(tile, n) ELSE Run
      idle   == \A p \in Platforms : r.program[p] = NoProgram
      issued == {p \in Platforms : HasTile(p, r) /\ CanIssue(c, p, spare)}
      r1     == IF SA \in issued THEN get_tile(SA, r) ELSE r
      r2     == IF PIM \in issued THEN get_tile(PIM, r1) ELSE r1
      rest   == IF popped THEN Tail(finished_tiles[c]) ELSE <<>>
      Keep(p) == Those(core_tiles[c][p], Range(core_tiles[c][p]) \ done)
      Out(p)  == Those(core_tiles[c][p], done)
  IN  /\ IF popped THEN RecordFinish(tile) ELSE UNCHANGED <<finished_operation_stats, work>>
      /\ IF idle      \* `continue`: neither issue nor NeuPIMSystolicWS::cycle
         THEN /\ SetRun(r)
              /\ done = {}
              /\ finished_tiles' = [finished_tiles EXCEPT ![c] = rest]
              /\ UNCHANGED core_tiles
         ELSE /\ SetRun(r2)
              /\ finished_tiles' = [finished_tiles EXCEPT ![c] = rest \o Out(SA) \o Out(PIM)]
              /\ core_tiles' = [core_tiles EXCEPT ![c] =
                    [p \in Platforms |-> Keep(p) \o (IF p \in issued THEN <<top_tile(p, r)>>
                                                     ELSE <<>>)]]

TilesIn(c) == Range(core_tiles[c][SA]) \cup Range(core_tiles[c][PIM])

CoreCycle(c) ==
  /\ pc = "cores" /\ turn = c
  /\ \E n \in 1..MaxTiles, spare \in BOOLEAN, done \in SUBSET TilesIn(c) :
        CoreTurn(c, n, spare, done)
  /\ IF c = NumCores THEN pc' = "loop" /\ UNCHANGED turn
                     ELSE turn' = c + 1 /\ UNCHANGED pc
  /\ UNCHANGED <<config, requestVars, clientVars, sim_stage_stats>>

Terminated == pc \in {"done", "exited"} /\ UNCHANGED vars

Next == \/ Stop \/ ClientCycle \/ Responses \/ SchedulerCycle
        \/ \E c \in Cores : CoreCycle(c)
        \/ Terminated

\* Weak fairness of the loop, and strong fairness of "a tile of core c ends in
\* this core cycle": the loads, computations and stores of a tile take finitely
\* many core cycles.  Both are written with the value of their ENABLED: the loop
\* can always go on until it stops, and a tile can end whenever its core has one
\* and it is the core's turn, as its program is then still there (TilesAccounted).
TileEnds(c) == TilesIn(c) \ TilesIn(c)' # {}

Fairness ==
  /\ []<>(pc \in {"done", "exited"}) \/ []<><<Next>>_vars
  /\ \A c \in Cores :
        \/ <>[]~(pc = "cores" /\ turn = c /\ TilesIn(c) # {})
        \/ []<><<TileEnds(c)>>_vars

Spec == Init /\ [][Next]_vars /\ Fairness

-----------------------------------------------------------------------------
\* The values the state of the client, the scheduler, the cores and the loop ranges over.
TypeOK ==
  /\ SchedulerTypeOK
  /\ waiting_queue \in Seq(Requests) /\ touch \in BOOLEAN
  /\ completed_cnt \in 0..NumRequests
  /\ core_tiles \in [Cores -> [Platforms -> Seq(TileType)]]
  /\ finished_tiles \in [Cores -> Seq(TileType)]
  /\ sim_stage_stats \in Seq(Stages)
  /\ pc \in {"loop", "responses", "scheduler", "cores", "done", "exited"}
  /\ turn \in Cores
  /\ work \in [1..2 -> Seq(OpKinds)]

\* All tiles of operation op that are somewhere: queued, in a core, or finished
\* and waiting to be reported.
Outstanding(op) ==
  {t \in (UNION {Range(executable_tile_queue[p]) : p \in Platforms})
        \cup (UNION {TilesIn(c) \cup Range(finished_tiles[c]) : c \in Cores}) :
     t.operation_id = op}

\* Every tile that is anywhere in the system belongs to an active operation of
\* the program it was issued for, and the operation's remain_tiles counts
\* exactly those tiles; so the assertions of finish_tile hold for every report.
TilesAccounted ==
  /\ \A op \in DOMAIN active_operation_stats :
        /\ active_operation_stats[op] = Cardinality(Outstanding(op))
        /\ model_program[op[2]] # NoProgram
  /\ \A c \in Cores : \A t \in TilesIn(c) \cup Range(finished_tiles[c]) :
        finish_tile_asserts(t)
  /\ \A p \in Platforms : \A t \in Range(executable_tile_queue[p]) :
        t.operation_id \in DOMAIN active_operation_stats

\* refresh_status takes the front of the executable operations of an unfinished
\* program unchecked: the list is never empty.  No operation of a program is
\* listed twice or after it finished.
ExecutableFront ==
  \A p \in Platforms :
     model_program[p] # NoProgram =>
        LET prog == model_program[p]
        IN  /\ prog.executable # <<>>
            /\ IsInjective(prog.executable)
            /\ Range(prog.executable) \cap prog.finished = {}

\* The operations of one and of two transformer layers, in the order of the model.
OneLayer == QkvGen \o Mha \o ProjFfn
LayerSequence(b) == IF SubBatchMode THEN OneLayer \o OneLayer
                    ELSE IF b = 1 THEN OneLayer ELSE <<>>

\* Each sub-batch goes through the operations of its layers in model order,
\* although its work alternates between the two programs and six stages.
LayerOrder == \A b \in 1..2 : IsPrefix(work[b], LayerSequence(b))

StageOrder == IF SubBatchMode THEN <<A, B, C, D, E, F>> ELSE <<A, B, E>>

SummaryComplete ==
  /\ IsPrefix(sim_stage_stats, StageOrder)
  /\ pc = "done" => sim_stage_stats = StageOrder

\* The summary the simulator writes at its end has every stage once, in order,
\* although it learns of a finished stage only through a flag that is polled
\* once per core cycle; and the run never ends in the client's exit(-1), which
\* would lose the summary.
StagesLogged == SummaryComplete /\ pc # "exited"

\* Requests are conserved: each request is in exactly one place on its way from
\* the client through the scheduler and back, is in at most one sub-batch, and
\* is counted as completed once.  While any stage is in progress, every queued
\* request takes part in it.  (The number of requests is within the limits.)
RequestsConserved ==
  LET returned == {r \in Requests : generated[r] = OutputSize} \ Range(completed_request_queue)
  IN  /\ completed_cnt = Cardinality(returned)
      /\ IsInjective(waiting_queue \o request_queue \o completed_request_queue)
      /\ touch => Range(waiting_queue \o request_queue \o completed_request_queue) \cup returned
                    = Requests
      /\ IsInjective(breq[1] \o breq[2])
      /\ Range(breq[1] \o breq[2]) \subseteq Range(request_queue)
      /\ stage # A => Range(breq[1] \o breq[2]) = Range(request_queue)

\* Every run ends, with all requests returned to the client.
Termination == <>(pc = "done" /\ completed_cnt = NumRequests)

\* The sub-batches advance in lock step through the phases of the pipeline.
PlanOf(c) == IF c.sub_batch_mode THEN [batches |-> 1..2, ends |-> <<2, 4, 13, 15, 22>>]
                                 ELSE [batches |-> {1}, ends |-> <<2, 4, 11>>]
AbstractPipeline == INSTANCE Pipeline WITH
  Plans <- {PlanOf(c) : c \in Configs}, plan <- PlanOf(config),
  progress <- [b \in PlanOf(config).batches |-> Len(work[b])]

\* The stages implement the abstract pipeline: order, lock step and progress.
ImplementsPipeline == AbstractPipeline!Spec

\* Scheduler.cc says above init_batches: "Called exactly once".
InitBatchesOnce == init_calls <= 1
==============================================================================
