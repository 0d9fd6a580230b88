------------------------------ MODULE Scheduler ------------------------------
(***************************************************************************)
(* The scheduler of the simulator (scheduler/Scheduler.cc; OrcaScheduler   *)
(* inherits all of it): it forms two sub-batches from the queued requests, *)
(* runs them through stages A..F, in each stage one sub-batch on the       *)
(* systolic array (program 1) and the other on PIM (program 2), hands the  *)
(* tiles of the current operations to the cores and returns the requests.  *)
(*                                                                         *)
(* Each operator below that has primed variables is one method of the      *)
(* class; the methods that only compute are plain operators.  The module   *)
(* Simulator drives them in the order of Simulator::cycle.                 *)
(***************************************************************************)
EXTENDS Integers, Sequences, FiniteSets, SequencesExt, Functions, TLC,
        StageProgram, Partition

CONSTANTS
  NumRequests,         \* requests in the data set, with ids 1..NumRequests
  Channel,             \* the DRAM channel of each request
  InputSize,           \* its sequence length
  NumChannels,         \* _dram_channels
  Dim,                 \* model and memory dimensions, see estimate_mha_latency
  MaxBatchSize,        \* _max_batch_size
  MaxActiveReqs,       \* _max_active_reqs
  Configs,             \* the modes of SimulationConfig that a run may be started with
  MaxTiles,            \* bound: an operation is split into 1..MaxTiles tiles
  NoProgram            \* the null program pointer

Requests == 1..NumRequests
Channels == 0..(NumChannels - 1)
OutputSize == 1        \* Client::cycle creates every request with output_size 1

ASSUME SchedulerAssumption ==
  /\ NumRequests \in Nat /\ NumChannels \in Nat \ {0}
  /\ Channel \in [Requests -> Channels]
  /\ InputSize \in [Requests -> Nat \ {0}]
  /\ {MaxBatchSize, MaxActiveReqs, MaxTiles} \subseteq Nat \ {0}
  /\ Configs \subseteq [sub_batch_mode : BOOLEAN, partition_alg_simple : BOOLEAN]

\* What the two program pointers point to, unless they are null.
ProgramType == [ops : SUBSET OpKinds, executable : Seq(OpKinds), finished : SUBSET OpKinds]

ASSUME NullAssumption == NoProgram \notin ProgramType

VARIABLES
  config,                    \* _config, which nothing changes
  request_queue,             \* requests not completed yet, in arrival order
  completed_request_queue,   \* requests to be returned to the client
  active_request_queues,     \* per channel, the requests that own a KV cache
  active_reqs,               \* _active_reqs
  is_initiated, generated,   \* fields of InferRequest
  breq,                      \* breq[1] = _breq1, breq[2] = _breq2
  stage, prev_stage, has_stage_changed,
  stage_stats,               \* the scheduler's own list of finished stages
  model_program,             \* [SA |-> _model_program1, PIM |-> _model_program2]
  executable_tile_queue,     \* [SA |-> queue 1, PIM |-> queue 2]
  active_operation_stats,    \* remain_tiles of the active operations of both programs
  finished_operation_stats,  \* the operations that have finished
  init_calls                 \* history: calls of init_batches, counted up to 2

requestVars == <<request_queue, completed_request_queue, active_request_queues,
                 active_reqs, is_initiated, generated, breq, init_calls>>
stageVars   == <<stage, prev_stage, has_stage_changed, stage_stats>>
programVars == <<model_program, executable_tile_queue, active_operation_stats>>
schedulerVars == <<config, requestVars, stageVars, programVars, finished_operation_stats>>

SubBatchMode       == config.sub_batch_mode
PartitionAlgSimple == config.partition_alg_simple

SchedulerInit ==
  /\ config \in Configs
  /\ request_queue = <<>> /\ completed_request_queue = <<>>
  /\ active_request_queues = [ch \in Channels |-> <<>>]
  /\ active_reqs = 0
  /\ is_initiated = [r \in Requests |-> FALSE]
  /\ generated = [r \in Requests |-> 0]
  /\ breq = [k \in 1..2 |-> <<>>]
  /\ stage = A /\ prev_stage = A /\ has_stage_changed = FALSE /\ stage_stats = <<>>
  /\ model_program = [p \in Platforms |-> NoProgram]
  /\ executable_tile_queue = [p \in Platforms |-> <<>>]
  /\ active_operation_stats = << >> /\ finished_operation_stats = {}
  /\ init_calls = 0

-----------------------------------------------------------------------------
(* The class also keeps total_tiles and launched_tiles of every operation;  *)
(* they are read for BAR tiles only, which no operation creates.            *)

(* Programs and stages.  A Run is the part of the state that the chain      *)
(* refresh_status -> finish_program -> refresh_stage updates in place.      *)

Run == [program |-> model_program, queue |-> executable_tile_queue,
        active |-> active_operation_stats, stage |-> stage, prev |-> prev_stage,
        changed |-> has_stage_changed, log |-> stage_stats]

SetRun(r) ==
  /\ model_program' = r.program /\ executable_tile_queue' = r.queue
  /\ active_operation_stats' = r.active
  /\ stage' = r.stage /\ prev_stage' = r.prev
  /\ has_stage_changed' = r.changed /\ stage_stats' = r.log


\* refresh_stage: the successor of a stage; without sub-batches, C, D and F
\* are left out.
next_stage(s) ==
  LET n == s + 1
  IN  IF SubBatchMode THEN n ELSE IF n = C THEN E ELSE IF n = F THEN Finish ELSE n

\* Mutant: the stage that is done is not remembered.
refresh_stage_stale_prev(r) ==
  IF \A p \in Platforms : r.program[p] = NoProgram
  THEN [r EXCEPT !.log = Append(@, r.stage), !.stage = next_stage(@), !.changed = TRUE]
  ELSE r

refresh_stage(r) ==
  IF \A p \in Platforms : r.program[p] = NoProgram
  THEN [r EXCEPT !.log = Append(@, r.stage), !.prev = r.stage,
                 !.stage = next_stage(@), !.changed = TRUE]
  ELSE r

\* finish_program1, finish_program2
finish_program(p, r) == refresh_stage([r EXCEPT !.program[p] = NoProgram])

\* The id of an operation: operations are created anew for every program.
OpId(s, p, kind) == <<s, p, kind>>

TilesOf(op, p, n) == [i \in 1..n |-> [operation_id |-> op, idx |-> i, stage_platform |-> p]]

\* active_operation_stats with the entry of a newly launched operation.
WithEntry(active, op, n) ==
  [o \in DOMAIN active \cup {op} |-> IF o = op THEN n ELSE active[o]]

\* Mutant: an operation whose tiles have all been handed out is launched again.
start_operation_relaunch(p, ntiles, r) ==
  LET exec == r.program[p].executable
      op   == OpId(r.stage, p, Head(exec))
  IN  IF exec = <<>> THEN r
      ELSE [r EXCEPT !.queue[p] = TilesOf(op, p, ntiles), !.active = WithEntry(@, op, ntiles)]

\* The second half of refresh_status: launch the first executable operation
\* unless it is active already.  The code takes front() of the executable
\* list without asking whether it is empty; ExecutableFront says it never is.
start_operation(p, ntiles, r) ==
  LET exec == r.program[p].executable
      op   == OpId(r.stage, p, Head(exec))
  IN  IF exec = <<>> \/ op \in DOMAIN r.active THEN r
      ELSE [r EXCEPT !.queue[p] = TilesOf(op, p, ntiles),
                     !.active = WithEntry(@, op, ntiles)]

\* refresh_status1, refresh_status2
refresh_status(p, ntiles, r) ==
  LET f == IF r.program[p] # NoProgram /\ check_finish(r.program[p])
           THEN finish_program(p, r) ELSE r
  IN  IF f.program[p] # NoProgram /\ f.queue[p] = <<>>
      THEN start_operation(p, ntiles, f) ELSE f

\* Mutant: the sub-batches are swapped.
sub_batch_on_swapped(p, s) == IF (s % 2 = 0) = (p = SA) THEN 2 ELSE 1

\* make_program: which of the two sub-batches a platform serves in a stage.
sub_batch_on(p, s) == IF (s % 2 = 0) = (p = SA) THEN 1 ELSE 2

\* make_program: n gives the number of tiles of each operation that is launched.
make_program(batches, n) ==
  LET programs == [p \in Platforms |-> init_program(p, stage, batches[sub_batch_on(p, stage)])]
      r1 == refresh_status(SA, n[SA], [Run EXCEPT !.program = programs])
  IN  SetRun(refresh_status(PIM, n[PIM], r1))

-----------------------------------------------------------------------------
(* Requests and sub-batches                                                 *)

\* allocate_requests: walks the queue until a batch is full.  A request that
\* has no KV cache yet gets one, and a place in its channel, unless too many
\* requests are active.
allocate_requests ==
  LET Visit(a, r) ==
        IF a.batch = MaxBatchSize \/ (~a.initiated[r] /\ a.active >= MaxActiveReqs) THEN a
        ELSE IF a.initiated[r] THEN [a EXCEPT !.batch = @ + 1]
        ELSE [batch |-> a.batch + 1, active |-> a.active + 1,
              initiated |-> [a.initiated EXCEPT ![r] = TRUE],
              queues |-> [a.queues EXCEPT ![Channel[r]] = Append(@, r)]]
  IN  FoldLeft(Visit, [batch |-> 0, active |-> active_reqs, initiated |-> is_initiated,
                       queues |-> active_request_queues], request_queue)

\* group_sub_batches: appends the requests of every channel to the sub-batches,
\* all of them to the first one without sub-batches.
group_sub_batches(queues) ==
  LET Lists(q, turn) ==
        IF PartitionAlgSimple
        THEN LET k == simple_sb1_size(Len(q), turn)
             IN  <<SubSeq(q, 1, k), SubSeq(q, k + 1, Len(q))>>
        ELSE LET part == partition_lists_dp([i \in DOMAIN q |->
                            estimate_mha_latency(InputSize[q[i]], Dim)])
             IN  <<[i \in DOMAIN part.list1 |-> q[part.list1[i]]],
                   [i \in DOMAIN part.list2 |-> q[part.list2[i]]]>>
      Channelwise(g, ch) ==
        LET q == queues[ch]
            l == Lists(q, g.ceil_turn)
        IN  [breq |-> [k \in 1..2 |-> g.breq[k] \o l[k]],
             ceil_turn |-> IF Len(q) % 2 = 0 THEN g.ceil_turn ELSE ~g.ceil_turn]
      channels == [i \in 1..NumChannels |-> i - 1]
  IN  IF ~SubBatchMode
      THEN [breq EXCEPT ![1] = @ \o FlattenSeq([i \in 1..NumChannels |-> queues[channels[i]]])]
      ELSE FoldLeft(Channelwise, [breq |-> breq, ceil_turn |-> TRUE], channels).breq

\* cleanup_sub_batch of both sub-batches, in order: every request has produced
\* one more token; a request that has produced all of them is returned.
cleanup_sub_batches ==
  LET Clean(c, r) ==
        LET g == c.generated[r] + 1
        IN  IF g # OutputSize THEN [c EXCEPT !.generated[r] = g]
            ELSE [generated |-> [c.generated EXCEPT ![r] = g],
                  completed |-> Append(c.completed, r),
                  queue     |-> SelectSeq(c.queue, LAMBDA x : x # r),
                  active    |-> c.active - Len(SelectSeq(c.queue, LAMBDA x : x = r))]
      c == FoldLeft(Clean, [generated |-> generated, completed |-> completed_request_queue,
                            queue |-> request_queue, active |-> active_reqs],
                    breq[1] \o breq[2])
  IN  /\ generated' = c.generated /\ completed_request_queue' = c.completed
      /\ request_queue' = c.queue /\ active_reqs' = c.active
      /\ is_initiated' = [r \in Requests |-> is_initiated[r] \/ r \in Range(breq[1] \o breq[2])]

\* Scheduler::cycle.
NoPrograms == \A p \in Platforms : model_program[p] = NoProgram

NeedsBatches == NoPrograms /\ stage = A /\ request_queue # <<>>

scheduler_cycle(n) ==
  LET a     == IF NeedsBatches THEN allocate_requests     \* init_batches
               ELSE [active |-> active_reqs, initiated |-> is_initiated,
                     queues |-> active_request_queues]
      b     == IF NeedsBatches THEN group_sub_batches(a.queues) ELSE breq
      ready == /\ NoPrograms
               /\ IF SubBatchMode THEN \A k \in 1..2 : b[k] # <<>>
                                  ELSE \E k \in 1..2 : b[k] # <<>>
  IN  /\ init_calls' = IF NeedsBatches THEN (IF init_calls < 2 THEN init_calls + 1 ELSE 2)
                       ELSE init_calls
      /\ active_request_queues' = a.queues
      /\ UNCHANGED <<config, finished_operation_stats>>
      /\ IF ready /\ stage = Finish
         THEN /\ cleanup_sub_batches
              /\ breq' = [k \in 1..2 |-> <<>>]
              /\ UNCHANGED <<stageVars, programVars>>
         ELSE /\ active_reqs' = a.active /\ is_initiated' = a.initiated
              /\ breq' = b
              /\ UNCHANGED <<request_queue, completed_request_queue, generated>>
              /\ IF ready THEN make_program(b, n) ELSE UNCHANGED <<stageVars, programVars>>

-----------------------------------------------------------------------------
(* Tiles                                                                    *)

\* top_tile1 / top_tile2 return the first tile of the queue, if there is one
\* (no operation creates a BAR tile); get_tile1 / get_tile2 take it out once
\* the core has accepted it.
HasTile(p, r) == r.program[p] # NoProgram /\ r.queue[p] # <<>>
top_tile(p, r) == Head(r.queue[p])

get_tile(p, r) == [r EXCEPT !.queue[p] = Tail(@)]

\* The three assertions at the head of finish_tile.
finish_tile_asserts(tile) ==
  LET op == tile.operation_id
  IN  /\ op \in DOMAIN active_operation_stats
      /\ op \notin finished_operation_stats
      /\ active_operation_stats[op] > 0

\* The operation waits for no other tile than the one that is reported.
last_tile(op) == active_operation_stats[op] = 1

\* What the report of a tile of op does to the program on p and to the active
\* operations: the last tile finishes the operation.
ProgramAfter(p, op) ==
  IF last_tile(op) THEN finish_operation(model_program[p], op[3]) ELSE model_program[p]
ActiveAfter(op) ==
  LET active == active_operation_stats
  IN  IF last_tile(op) THEN Restrict(active, DOMAIN active \ {op})
      ELSE [active EXCEPT ![op] = @ - 1]

\* Mutant: no new operation is started after an operation has finished.
finish_tile_no_refresh(tile, n) ==
  LET op == tile.operation_id
      p  == tile.stage_platform
  IN  [Run EXCEPT !.program[p] = ProgramAfter(p, op), !.active = ActiveAfter(op)]

\* finish_tile: what the report of a finished tile turns the run into, n being
\* the number of tiles of the operation that it may launch.
finish_tile(tile, n) ==
  LET op == tile.operation_id
      p  == tile.stage_platform
  IN  refresh_status(p, n,
        [Run EXCEPT !.program[p] = ProgramAfter(p, op), !.active = ActiveAfter(op)])

\* Scheduler::running
scheduler_running == request_queue # <<>> \/ completed_request_queue # <<>>

-----------------------------------------------------------------------------
OpIds == Stages \X Platforms \X OpKinds
TileType == [operation_id : OpIds, idx : 1..MaxTiles, stage_platform : Platforms]

SchedulerTypeOK ==
  /\ config \in Configs
  /\ request_queue \in Seq(Requests) /\ completed_request_queue \in Seq(Requests)
  /\ active_request_queues \in [Channels -> Seq(Requests)]
  /\ active_reqs \in 0..NumRequests
  /\ is_initiated \in [Requests -> BOOLEAN] /\ generated \in [Requests -> 0..OutputSize]
  /\ breq \in [1..2 -> Seq(Requests)]
  /\ stage \in Stages /\ prev_stage \in Stages /\ has_stage_changed \in BOOLEAN
  /\ stage_stats \in Seq(Stages)
  /\ \A p \in Platforms : model_program[p] = NoProgram \/ model_program[p] \in ProgramType
  /\ executable_tile_queue \in [Platforms -> Seq(TileType)]
  /\ \A op \in DOMAIN active_operation_stats :
        op \in OpIds /\ active_operation_stats[op] \in 1..MaxTiles
  /\ finished_operation_stats \subseteq OpIds
  /\ init_calls \in 0..2
==============================================================================
