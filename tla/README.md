# A TLA+ model of the NeuPIMs simulator

The repository (`src/`) holds NeuPIMs: a cycle-level simulator, in C++, of an
accelerator that serves language models on systolic arrays (SA) and on
processing-in-memory DRAM (PIM). Two sub-batches of requests go through the
model at the same time, one on each side, and change sides from stage to
stage. This directory models the part of it that decides *what happens in
which order*: the scheduler and its stages, the cores and their buffers, the
network to the memory, the allocators, the programs (graphs of operations),
and the algorithms that turn an operation into tiles and instructions. Paths below are relative to
`src/src/cpp/src/`.

The simulator is one thread, with no locks. Its concurrency is that of the
hardware it simulates: queues, pipelines and memory answers that may overtake
each other, driven by a loop that gives every component a turn. The models
therefore have one action per turn or handler, and leave *when* things happen
(latencies, DRAM timing) open.

## Inventory

| Part | State it keeps | Operations | Interacts with | What makes it correct |
|---|---|---|---|---|
| `Simulator.cc` | cycle counters, stage statistics | `cycle`, `running` | calls all others in turn | no component is left without its turn while it has work; every stage is recorded once |
| `client/Client.cc` | waiting queue, counts | `cycle`, `receive_response` | the loop moves requests and responses | every request sent and returned once |
| `scheduler/Scheduler.cc` | request queues, sub-batches, stage, two programs, tile queues, operation statistics | `cycle`, `finish_tile`, `get_tile*`, `refresh_*`, `cleanup_sub_batch` | programs, cores, client | tiles and requests are accounted for; operations of a layer run in order |
| `StageProgram.cc`, `operations/Operation.cc` | graph of operations, executable list | `init_program`, `finish_operation` | scheduler | there is always an executable operation until the program ends |
| `ModelProgram.cc`, `BatchedRequest.cc`, `Model.cc`, shapes in `operations/*` | graph and tensors of the whole model, executable list, consumers kept by caches | `init_program` and its blocks, `get_outputs`, `find_executable_node`, `finish_operation` | scheduler, caches of the requests | shapes fit; only operations that may run are listed; layers in order; the program ends |
| `NeuPIMSCore.cc`, `NeuPIMSystolicWS.cc`, `Sram.cc` | running tiles with counters, six queues, pipelines, four double buffers | `issue`, `issue_pim`, `cycle`, `push_memory_response` | loop, network | counters exact, double buffering safe, every tile ends |
| `Interconnect.cc`, `Dram.cc` | in- and out-buffers, memory queues, round robin | `push`, `cycle`, `pop`, `memreq_*` | cores, NewtonSim | no access lost, doubled, reordered or unanswered |
| `allocator/*`, `tensor/PIMTensor.cc`, `tensor/NPUTensorKV.cc` | tops of regions, free rows or entries, rows or entries of tensors | `init`, `allocate`, `add_token` | operations, scheduler | no address has two owners |
| `operations/MatMul.cc` | loops, tiles | `calculate_loops`, `initialize_tiles` | tensors | the product is covered, complete, stored once |
| `operations/LayerNorm.cc`, `Add.cc`, `Gelu.cc`, `Softmax.cc` | loops, tiles | the same | tensors | every row computed from itself and stored once |
| `operations/NeuPIMSLogitSoftmax.cc`, `NeuPIMSAttend.cc`, `PIMGEMV.cc`, `PIMGEMVSoftmax.cc`, `PIMGEMVAdd.cc` | cuts of a sub-batch, tiles | `calculate_loops`, `initialize_instructions` | `PIMTensor` rows, headers | no request lost, results do not collide, headers announce what follows |
| `Common.cc` (`AddressConfig`) | none | encoding of addresses and PIM headers | the decoder of NewtonSim | the memory understands what was meant |
| `Core.cc`, `SystolicWS.cc`, other `operations/`, `Mapping.cc`, `Tensor.cc`, statistics, input | – | – | – | not modelled, see below |

What is hard to test in this code: tiles of one operation that end on several
cores in any order; flags that are polled once per cycle; a `continue` that
skips the rest of a core's turn; double buffers that are cleared while
accesses are on their way; answers in any order; a DRAM that is full; caches
that remember the operations of an earlier program; sizes that are halved,
rounded and used as keys. `PROJECT.json` lists each of these
hazards at its line with the properties that would catch it.

## Modules

**The loop and the scheduler.** `StageProgram` (operations of a stage,
executable list), `Partition` (the two algorithms that split the requests of a
channel, `partition_lists_dp` being a subset-sum table) and `Scheduler` give
every method of the scheduler as an operator or action part. `Simulator`
extends `Scheduler`, adds the client and the tiles in the cores, and is the
core-clock half of `Simulator::cycle`: `ClientCycle`, `Responses`,
`SchedulerCycle`, then `CoreCycle(c)` for each core (finished tile reported,
`continue` if no program is left, one tile offered per platform, tiles may end).
The chain `finish_tile` → `refresh_status` → `finish_program` → `refresh_stage`
→ next operation is one atomic update of a record (`Run`), as in the code.
`config` holds the modes of `SimulationConfig`, chosen at the start.
`work` and `init_calls` are history variables.

`Pipeline` is the abstract specification: a plan of phases which sub-batches go
through in lock step, the second one phase behind the first. `Simulator` is
shown to implement it (`ImplementsPipeline`, with
`progress[b] = Len(work[b])`): its steps (`Safety`) by proof, its liveness by a run.

**The program of the whole model.** `ModelProgram` builds the graph of
`ModelProgram.cc` one operation at a time (`AddOp`: the operation's `get_outputs`
and its place among the consumers of its inputs), for its run modes: end to end
or attention alone, NPU only, PIM, and PIM with fused kernels. A block
(`attn_block`, `pim_attn_block`, `ffn_block`, ...) is the sequence of its
operations, `inputs(o)` says whose outputs an operation reads, and each operation
that has a shape has an operator `..._outputs` with its asserts (`fits`) and the
shapes it returns (`dims`). Then the listed operations finish in any order
(`FinishOperation`), and `NextProgram` is `cleanup_sub_batch` and the program of
the next token on the same caches. `end_to_end` is a constant of the code, FALSE
at present; the model has both values. The scheduler makes a cache for layer 0
only, where the blocks index one cache per layer; the model gives each layer its
own, and clears those of layer 0, as `cleanup_sub_batch` does.

**The core.** `Sram` is one side of a buffer (entries, awaited fills, used
size). `NeuPIMSCore` is one core with its two platforms. `place[i]` says in
which queue or pipeline instruction `i` is, `inflight` are unanswered accesses.
Steps of `NeuPIMSystolicWS::cycle` follow in the order of the code (`pc`):
systolic pipeline, vector units, then load, store and execute queue of each
platform, then finished tiles; `issue`, `issue_pim` and
`push_memory_response` happen between cycles. A computation may stay in its
pipeline for any number of cycles.

**The network.** `Interconnect` is the interconnect half of the loop:
`CorePort` and `MemoryPort` are one turn each of the two loops in
`Simulator::cycle`, `IcntCycle` is `SimpleInterconnect::cycle` with latency,
round robin and one arrival per node. `_rr_start` has no initial value in the
code and any here. The DRAM (external) is a set per channel that accepts
unless full and answers in any order.

**Memory.** `Memory` has the three regions one after the other (weights,
activations, caches), the tensors of each request, and `aborted` for a failed
`ast`, which ends the program. The caches are rows of channels (mode `NPU_PIM`)
or entries of some tokens and one head (mode `NPU_ONLY`, `NPUTensorKV`), whose
sizes are products of 32-bit numbers (`WordSize`).

**Operations.** `MatMulTiling`, `VectorTiling` and `MhaTiling` have the loops
that choose tile sizes as actions and the instructions of a tile as sets of
records, whose field `at` is the place in the program. `VectorTiling` has
LayerNorm, Add, Gelu and Softmax; the latter starts its loops again for every
request (`NextRequest`). `MhaTiling` has the two fused operations, which cut the
sub-batch, and the three of the unfused blocks, which write one tile or abort. It
has the places of results and sums only: a GWRITE and a header of keys take a place
of size 0, whose key is that of the next result. No operation reads such a key, and
that the core keeps the three instructions apart is checked there: the tile `Logit`
of `MCNeuPIMSCore` gives its GWRITE, header and result one key, and
`FillsAreExpected` would fail if one of the first two reserved or filled the entry.
`AddressConfig` encodes a request as the operations do and decodes it as the memory
does.

`MC*` modules and `.cfg` files give the instances. In every module a definition
whose name extends that of another one and which is marked "mutant" is a
plausible bug of the code it stands beside; nothing uses it in the
specification.

## Runs

| Run | Instance | What it shows |
|---|---|---|
| `simulator` | 3 requests on 2 channels (one has two), 2 cores, 1–2 tiles per operation; sub-batches by either algorithm, and no sub-batches | every tile counted once (`TilesAccounted`); never an empty executable list (`ExecutableFront`); layer order; every stage logged once and no early `exit` (`StagesLogged`); requests conserved; termination, also where the loop skips the cores; refinement of `Pipeline` |
| `one_request` (violation) | 1 request, sub-batches | `init_batches`, "Called exactly once", is called in every cycle |
| `core` | six tiles: an accumulating product, attention scores, a layer normalisation, two of them skipped; 2 vector units | `BuffersNotShared`; exact counters; finished tiles are quiet; every fill is expected; reservations fit, as every tile of the instance does (`TilesFit`); every tile finishes |
| `core_store` (violation) | a product with a bias | the output is sent while its computations are still queued |
| `interconnect` | 2 cores × 2 channels, 4 accesses, both modes, any first turn | accesses conserved and given to their core; order at the memory; every access answered |
| `memory` | 2 channels, 3 requests (two share a channel), one token added per tensor, both layouts, space for 2, 3 and 5 requests (the last one wraps around), until regions are full | regions disjoint; a row has one owner; a token of a cache without PIM has its own bytes (`TokensApart`) |
| `matmul_tiling` | all shapes with sides 1–8, blocks of 2, a bias, 2 batches | sides covered; sources loaded; outputs complete; powers of two stay in range; the tiling ends |
| `matmul_odd_batch` (violation) | 3 rows on blocks of 2 | an index outside the tensor, which throws |
| `mha_tiling` | five operations, up to 3 requests of length 1, 16, 21, 28; 6 heads, on 1 or 2 devices, last chunk not full | sources loaded; outputs stored; headers announce enough; rows exist; the cut fits |
| `vector_tiling` | 4 operations on 1–24, 32 and 64 rows; Softmax of two requests | each row stored once; powers of two stay inside; sources loaded; tiles fit; the tiling ends |
| `address_config` | 32 channels, all ranks and banks, rows at both ends, headers of every size, 1101 accesses | the memory understands what was meant; neighbouring accesses are spread over the channels |
| `model_program` | all run modes, batches of mixed lengths, 1 and 2 layers, 1 and 2 devices, two programs in a row | listed operations belong to the program and may run (`ListedOperationsRun`); layers in order; shapes fit; programs finish |

**Why the bounds are enough.** Two cores and two tiles per operation let tiles
of one operation end on different cores, out of order, before and after the
next operation of the other program starts; six stages and both layers are run
in full. In the core, buffers have room for one unit, so every load must wait
for a flush, and tiles overlap in both halves. In the network two cores
compete for a node, one behind the other in the round robin, with the memory
full at any moment. In the tilings a block of 2 elements makes every kind of
side appear (one block, several, a part of one, odd after halving). In `Memory`
every region is filled up to its limit, and one number of requests makes the
32-bit size of the caches wrap around. In `ModelProgram` two programs follow one
another, which is what it takes to meet the consumers a cache remembers, and
requests of different lengths are in one batch. Deadlock is checked everywhere except
in `memory`, where nothing remains to be allocated at the end, and in
`model_program`, where the attention of several layers alone stops after the last
of them (see below).

**Fairness.** The loop of the simulator runs until `running()` is false, so
its steps are weakly fair. A tile ends in some core cycle, the memory answers
what it accepted, is not full for ever, and a pipeline hands out its front: each
of these is a finite latency in the code, but competes with other steps of the
loop in the model, hence strong fairness for it. In `Simulator` the fairness is
written out with the value of ENABLED (`TilesIn(c)` not empty at the turn of
core `c`), which is the same formula, evaluated faster. Tilings and
`ModelProgram` need only that their loop goes on.

## What differs from what the code says

Three disagreements are shown by runs (see "findings" in `PROJECT.json`):
`init_batches` with an empty sub-batch; the store of a product with a bias; and
a product whose rows are not a multiple of `core_width`.

Others were met while modelling and are kept in the models or excluded by a
stated condition, without a run of their own:

- `Simulator.cc:233` computes the node of a core with `_n_cores`, where
  `get_dest_node` uses `_n_memories`. They agree for one core (the shipped
  configuration) or as many cores as channels (the instance).
- `cleanup_sub_batch` says "free KV cache" (`Scheduler.cc:614`), but nothing
  calls `KVCacheAlloc::free`.
- `PIMTensor::add_token` compares the new length with itself rounded up, so it
  never allocates a row (`PIMTensor.cc:60`). The scheduler does not call it now.
- `NeuPIMSLogitSoftmax::initialize_tiles` and the one of `NeuPIMSAttend` repeat
  the last request of a tile in the next one; `CutFits` leaves this request out.
- `NeuPIMSAttend::calculate_loops` reads `seq_len` from the dimension that is
  `dk` (line 316), so its cut is not by length.
- `NeuPIMSAttend` writes neither ADD nor MOVOUT for a request of one page.
- `ModelProgram::init_program` keeps one query of the last layer when it builds
  the attention operations of several layers alone, and lists the consumers of
  this one only: the other layers never run (`ProgramsFinish` is stated for one
  layer). Its block of fused attention ends after the QKV generation.
- `cleanup_sub_batch` clears the consumers of the caches of layer 0 only; with
  several layers, end to end, operations of an earlier program would be listed
  again (the condition of `ListedOperationsRun` and `LayersInOrder`).
- The shapes of the programs with PIM fit after the prompt and on one device
  only (`ShapesFit`).
- `PIMGEMV` and `PIMGEMVSoftmax` compute no head of the last chunk when the heads
  fill it (`PIMGEMV.cc:239`): their assert on the number of results fails, and the
  model aborts. With more than one device they compute the heads of all of them.
- The headers of rows of keys are not rounded up as those of values are: a chunk
  of three heads is announced as two (`HeadersAnnounce` is stated for powers of
  two there). No header can announce more than 128.
- `KVCacheAlloc::init_npu_layout` computes the size of the caches in 32 bits; when
  it wraps around, its check passes although the caches do not fit.
- LayerNorm, Add and Gelu take the size of a computation from a vector they
  moved from (`Add.cc:107`), and round an odd number of rows up (`RowsInTensor`
  is stated for powers of two).

## Proofs

The theorems hold for every value of the constants that satisfies the named
assumptions of the modules (`CoreAssumption`, `ProgramAssumption`,
`TilingAssumption`, `VectorAssumption`, `MhaAssumption`, `MemoryAssumption`,
`NpuLayoutAssumption` and those of `Interconnect`), which TLC evaluates on the
instances. `Spec` of a theorem is that of the module. Every invariant below that
strengthens a property was checked by TLC on the instance of its run before it
was proved. A theorem has the name of its property with `Always` before it,
unless another name is given.

- **`SimulatorProofs`** — for every number of requests, channels, cores and tiles.
  The invariant `Inv` is stated over a `Run`, the record that the chain of calls
  from `finish_tile` on updates, so that it can be followed from call to call
  within one step. Each stage gives a platform a `Chain` of operations; what the
  sub-batch has done beyond the `Base` of the stage is its `Position`, and the
  program is exactly the one of that position (`AtWork`), or gone (`Done`).
  `Counts` says that each active operation is counted with its tiles, wherever
  they are (`Queued`, `Held`), each of them once (`QueueInv`, `HeldInv`), and
  `FinishedInv` that no operation which is still to run was recorded as finished:
  their identities are those of a stage.
  - `Invariant`, `TilesAccountedHolds`, `ExecutableFrontHolds`, `LayerOrderHolds`.
  - `SummaryHolds` (`SummaryComplete`, the part of `StagesLogged` about the
    summary), if there is a request at all. `LogInv` says that the summary lacks
    the last stage exactly while the flag `has_stage_changed` is up, that no
    program runs then, and that no request is completed before the last stage.
  - `RefinesPipeline`: every run of `Simulator` is one of the steps of `Pipeline`.
    The last tile of an operation is one step of its sub-batch, and it is allowed:
    from `Base` and `Position` follows the phase of each sub-batch (`PhaseIs`).
- **`NeuPIMSCoreProofs`** — for every program of tiles, buffer size and number of
  vector units.
  - `TypeCorrect`, `CountersAreExact`, `FinishedQuiet`. The counters are
    decremented by answers and pipelines, and a tile is handed back when they are
    zero. `CountersExact` alone is not inductive: that a computation leaves a
    pipeline only if it is there, that an instruction in a vector unit is there
    once, and that a tile which does not run has nothing anywhere are needed. The
    invariant is `IInv == TypeOK /\ Agreement`, with `PlacesAgree` and
    `PipelinesAgree` (places, in-flight accesses and pipelines tell the same
    story) and `ZeroUnlessRunning`. There is a lemma per kind of change (an
    instruction moves, an access is answered, a computation ends), each with
    cardinality facts, and one step per action.
  - `AlwaysBuffersNotShared`: a tile never gets a side of a buffer that an earlier
    tile still uses, except an accumulating one. `can_issue` looks at the counters
    of the tiles on the side that comes next, and the sides change while tiles run;
    `SidesInv` adds that tiles are issued in their order, that one PIM tile runs at
    a time, that a tile which still loads into the current scratchpad has the
    current accumulators (`CurrentSide`), and that a tile which still loads shares
    its side with no later one (`LoadsApart`).
  - `AlwaysFillsAreExpected`: an answer finds the entry that was reserved for it,
    in any order of the answers. `BufferInv` says that an entry counts exactly
    what is on its way to it (`EntriesExact`), that what is on its way has an
    entry (`AwaitedAllocated`: a side is not flushed under it), and that a queued
    load finds its address free (`LoadsFresh`); `Drained` is the order of the
    queues within a cycle. This needs two facts about programs, now part of
    `ProgramAssumption`: no two loads of a tile have the same destination, and an
    accumulating tile does not load into the accumulator. The operations give each
    load its own address, and `MatMul.cc:196` loads a bias for the first block of
    the inner side only.
  - `AlwaysReservationsFit`: no side of a buffer is filled beyond its size. `SpaceInv`
    says that a side has room for all that is still to be allocated there, beside
    what it holds (`Room`), the used size being the number of units in a set; the
    current accumulators have room among the results of the tiles that are summed
    in them (`OnSide`). The hypothesis is `TilesFit`: a tile fits half of the
    scratchpad, and half of the accumulators together with the tiles it accumulates
    onto. `MatMul.cc:527`, `LayerNorm.cc:217` and `PIMGEMV.cc:230` choose their tiles
    by the half of the scratchpad; the fused attention counts elements of the whole
    buffer (`NeuPIMSLogitSoftmax.cc:356`, `NeuPIMSAttend.cc:331`), so for it
    `TilesFit` is a condition on the sizes of the model. Nothing compares a tile with
    the accumulators before the assert of `Sram::reserve`.
- **`InterconnectProofs`** — `IcntInvariant`, `AlwaysAccessesConserved`,
  `AlwaysDramOrder`, for every latency, number of channels and list of accesses,
  if the two numberings of nodes agree (`NodesAgree`: one core, or as many cores
  as channels; see "What differs"). The way of an access is fixed by its core,
  channel and platform, so there is one queue for it at each of eight stages.
  `IcntInv` says that each queue holds only accesses it is for (`RequestHome`,
  `NodeHome`, `MemoryHome`, `DeliveredHome`), that an access is at exactly one
  stage (`Stages`) and once in its queue (`EachOnce`), and that of two accesses of
  one flow the earlier one is ahead until both are in the memory (`Ahead`).
- **`MemoryProofs`** — `Apartness` (`RegionsDisjoint`) and `Exclusion`
  (`RowsExclusive`), for every sequence of allocations. The invariant `MemInv`
  adds `Tops`: blocks lie below the top of their allocator, and nothing is
  allocated before the regions exist. `AlwaysTokensApart`, for the layout without
  PIM: `KvInv` says that free and owned entries are places of one arithmetic
  progression, each owned once, and that a cache has entries for all of its
  tokens. `TokensApart` itself has the condition that the 32-bit size of the
  caches does not wrap around. The module also holds the proofs about
  `AddressConfig`, which it extends too: `AlwaysRequestUnderstood` and
  `AlwaysBlocksSpread`, for every set of rows, headers and accesses of
  `AddressAssumption`, on the 32 channels of the shipped memory (`Shipped`:
  `switch_co_ch` has five bits for them and `init_pim_layout` divides by 2^20).
  `Fields` says that a number fits its field; then every field is read back from the address
  (`PlaceRead`), and `AccessDigits` are those that `switch_co_ch` exchanges.
- **`MatMulTilingProofs`** — `Covered` (`SidesCovered`), `AlwaysSourcesLoaded`,
  `AlwaysPowersInRange`, `AlwaysOutputsComplete`, for every shape, width and
  scratchpad. `inner * outer >= shape` is preserved by halving only while the
  32-bit `outer` does not wrap around, which follows from `SidesTight`
  (`(inner - 1) * outer < shape`). `MatMulInv` adds the tiles written so far and
  `Exact`: a side that is a power of two has been halved without a rest. The blocks
  of the product are counted by the digits of their place (`Digits`, `TwoDigits`).
  `OutputsComplete` has the condition `IndexesInRange`: otherwise the code throws.
- **`VectorTilingProofs`** — `StoredOnce` (`RowsStoredOnce`), `TilingTyped`,
  `AlwaysTileFits`, `AlwaysRowsInTensor`, `AlwaysSourcesLoaded`: by `Covering` and
  `Tight` as above, and division with remainder, every row has one tile and one
  place in it, for each request of a Softmax again; `Fitting` says that the loop
  which halves a tile ends with one that fits.
- **`MhaTilingProofs`** — `MhaInvariant`, `AlwaysSourcesLoaded`,
  `AlwaysOutputsStored`, `AlwaysHeadersAnnounce`, `AlwaysRowsInTensor`, for all five
  operations of attention, every list of lengths, number of heads and devices,
  size of rows and number of banks. `MhaInv` has four parts beside the
  properties: the cuts follow one another and the next request is never behind the
  next cut (`Cuts`); what is written lies below the next addresses (`InSpace`) and
  before the next request (`Earlier`); and the heads of all requests before the
  next one are stored (`StoredSoFar`), which survives that a tile starts again at
  the last request of the one before. The results of a request are numbered by
  head, chunk and group of banks; that this is a numbering without gaps is what
  keeps results apart and the counts exact. `AlwaysRowsInTensor` assumes
  `BanksAgree`: the memory has no more banks than the 32 that `PIMGEMV` and
  `PIMGEMVSoftmax` are written for. `HeadersAnnounce` has the condition that the
  numbers of a header can be carried by it: powers of two up to 128 for keys,
  not more than 128 COMPs in a row for values. `AlwaysCutFits`: the needs of a range of
  requests are a difference of prefix sums (`SumsExist`); `CutInv` says that between
  two cuts this difference is not more than the scratchpad, `GemvInv` that the place
  of the next result of a `PIMGEMV` is what was counted for the requests before.
- **`HalvingLemmas`** — what several of them share: halving of powers of two,
  products that do not wrap around, numbers by their digits; and counting up
  (`UpTo`: what holds at 0, and at `n + 1` if at `n`, holds up to the last number).
  The induction theorems of the library take an operator as a parameter, which the
  provers cannot instantiate; `UpTo` speaks of a set and rests on `LeastNumber`, so
  what a recursive function computes can be proved from it.

A power of two is, in `VectorTiling` and `MatMulTiling`, a number all of whose
divisors except 1 are even: the same numbers, in a form the provers can use.

Only model-checked:

- liveness (termination, answers, end of tilings, programs that finish) and with
  it that of the refinement of `Pipeline`: fairness is outside the reach of the
  proof system used;
- of `Simulator`, that the client never exits (`StagesLogged`) and
  `RequestsConserved`: both need what the two algorithms that split a channel do to
  every list of requests, and the second one holds only when requests are within the
  limits and both sub-batches get some;
- `ListedOperationsRun`, `LayersInOrder`, `ShapesFit` of `ModelProgram`: they depend on
  the graph that each run mode builds for each batch, and the run covers the modes.

The `TypeOK` of the core and of `VectorTiling` are proved (`TypeCorrect`,
`TilingTyped`); those of the other modules state what the variables hold and
carry the proofs.

## Not modelled

- Time: cycle counts, bandwidth and the clock mask; statistics and logs.
- `NewtonSim` except its address decoding (it is vendored).
- `Core`, `SystolicWS`, `SystolicOS`: the core before the present one. The loop
  makes none, and its handler of answers ends in `assert(0)`, so no tile that
  loads anything can finish. `Mapping`, `Tensor`: not used by the programs.
- The instructions of `FusedMHA` (its shapes are in `ModelProgram`): they cover
  the first group of heads of each request only, and the result of a head has the
  place where the logits of the next one go (`FusedMHA.cc:212`, "change output
  offset"); nothing says what they should do instead.
- `Attention` (writes no instructions), `Transpose` (commented out),
  `SplitEncoding` (made nowhere), `Microbench` (a fixed list of instructions).
- The variants of `MatMul`'s addresses for transposed and three-dimensional
  operands; their shapes are in `ModelProgram`.
- BAR tiles (none is created) and functions without a caller.
- Reading of configurations and traces, and the Rust launcher.

## Plan

Done, in this order: loop and scheduler; core; network; memory; operations;
addresses; the program of the whole model; the layout of the caches without PIM;
Softmax and the unfused PIM operations; the proofs above. What could follow:

1. Proofs: the part of `RequestsConserved` that does not depend on the limits; the
   graph of `ModelProgram`, mode by mode.
2. Composition of scheduler and cores, so that an accumulating tile may be issued
   to another core than the one that holds its partial sums.
3. `partition_lists_dp` against a reference definition (best split of a
   multiset), over all small lists.
