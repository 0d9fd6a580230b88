----------------------------- MODULE VectorTiling -----------------------------
(***************************************************************************)
(* How the operations of the vector units (LayerNorm, Add, Gelu, Softmax)  *)
(* cut an activation of `rows` rows into tiles and write their             *)
(* instructions.                                                           *)
(*                                                                         *)
(* They differ in their weights, in the number of their inputs and in what *)
(* they count for the scratchpad.  calculate_loops halves the number of    *)
(* rows of a tile until it fits half of the scratchpad; a tile loads the   *)
(* weights, and then for each of its rows loads the inputs, computes and   *)
(* stores.  Softmax does so for the matrices of one request after the      *)
(* other, whose rows are those of all heads; the others work on the batch. *)
(* Sizes and addresses are in elements, from SPAD_BASE and                 *)
(* ACCUM_SPAD_BASE.                                                        *)
(***************************************************************************)
EXTENDS Integers, Sequences, FiniteSets

CONSTANTS
  Operations,          \* "LayerNorm", "Add", "Gelu", "Softmax"
  RowCounts,           \* the numbers of rows of activations
  RowLengths,          \* their lengths
  MaxBatch,            \* requests of a Softmax
  CoreWidth, VectorCoreWidth,
  SramLimit,           \* spad_size KB / 2 / precision
  WordSize             \* 2^32: _outer_loop holds 32-bit numbers

VARIABLES
  op, rows, columns,   \* the operation, the shape of its input and output
  left,                \* the shapes of the requests after this one
  inner, outer,        \* _inner_loop[0], _outer_loop[0]
  tiles,               \* the number of tiles made
  pc                   \* "loops", "tiles", "done"

vars == <<op, rows, columns, left, inner, outer, tiles, pc>>

Shapes == RowCounts \X RowLengths

ceil(a, b) == (a + b - 1) \div b

\* The rows of weights (gamma and beta), and the inputs.
weights(o) == IF o = "LayerNorm" THEN 2 ELSE 0
inputs(o)  == IF o = "Add" THEN 2 ELSE 1

\* A row is rounded up to the width of the core, or of the vector unit.
width(o) == IF o \in {"Gelu", "Softmax"} THEN VectorCoreWidth ELSE CoreWidth
padded(o, k) == width(o) * ceil(k, width(o))
sram_size_needed_output(o, n, k) == padded(o, k) * n      \* mutant: only the output is counted
sram_size_needed(o, n, k) ==
  IF o = "Softmax" THEN n * (2 * padded(o, k) + 1)
  ELSE padded(o, k) * (IF o = "LayerNorm" THEN 3 * n + 2 ELSE (inputs(o) + 1) * n)

ASSUME VectorAssumption ==
  /\ Operations \subseteq {"LayerNorm", "Add", "Gelu", "Softmax"}
  /\ RowCounts \subseteq Nat \ {0} /\ RowLengths \subseteq Nat \ {0} /\ MaxBatch \in Nat \ {0}
  /\ CoreWidth \in Nat \ {0} /\ VectorCoreWidth \in Nat \ {0} /\ SramLimit \in Nat
  \* One row fits: without this calculate_loops does not end.
  /\ \A o \in Operations, k \in RowLengths : sram_size_needed(o, 1, k) <= SramLimit
  /\ WordSize \in Nat /\ \A n \in RowCounts : 2 * n <= WordSize

Init ==
  /\ op \in Operations /\ rows \in RowCounts /\ columns \in RowLengths
  /\ left \in UNION {[1..n -> Shapes] : n \in 0..(IF op = "Softmax" THEN MaxBatch - 1 ELSE 0)}
  /\ inner = rows /\ outer = 1 /\ tiles = 0 /\ pc = "loops"

-----------------------------------------------------------------------------
half_down(x) == x \div 2     \* mutant: the odd row is dropped
half_more(x) == x \div 2 + 1 \* mutant: one too many
half(x) == (x % 2) + (x \div 2)

\* One turn of the loop of calculate_loops.
Halve ==
  /\ pc = "loops" /\ sram_size_needed(op, inner, columns) > SramLimit
  /\ outer' = (2 * outer) % WordSize
  /\ inner' = half(inner)
  /\ UNCHANGED <<op, rows, columns, left, tiles, pc>>

EndOfLoops ==
  /\ pc = "loops" /\ sram_size_needed(op, inner, columns) <= SramLimit
  /\ pc' = "tiles" /\ UNCHANGED <<op, rows, columns, left, inner, outer, tiles>>

\* initialize_tiles: one tile after the other, in the same loop for LayerNorm,
\* Add, Gelu and each request of a Softmax.
last_tile(n) == n >= outer
NewTile ==
  /\ pc = "tiles" /\ ~last_tile(tiles)
  /\ tiles' = tiles + 1
  /\ UNCHANGED <<op, rows, columns, left, inner, outer, pc>>

EndOfTiles ==
  /\ pc = "tiles" /\ last_tile(tiles)
  /\ pc' = "done" /\ UNCHANGED <<op, rows, columns, left, inner, outer, tiles>>

\* Mutant: _outer_loop is not set to 1 again.
fresh_outer_kept == outer
fresh_outer == 1

\* Softmax: the loops begin again for the next request.
NextRequest ==
  /\ pc = "done" /\ left # <<>>
  /\ rows' = Head(left)[1] /\ columns' = Head(left)[2] /\ left' = Tail(left)
  /\ inner' = rows' /\ outer' = fresh_outer /\ tiles' = 0 /\ pc' = "loops"
  /\ UNCHANGED op

Next == Halve \/ EndOfLoops \/ NewTile \/ EndOfTiles \/ NextRequest
Done == pc = "done" /\ left = <<>> /\ UNCHANGED vars
Spec == Init /\ [][Next \/ Done]_vars /\ WF_vars(Next)

-----------------------------------------------------------------------------
\* initialize_instructions of tile t.  Offsets of rows in a tile; the row of
\* the tensors that an offset stands for; where rows are kept.
Offsets == 0..(inner - 1)
row_idx(t, o) == inner * t + o
weight_base(w) == w * columns
activation_offset_no_base(o, i) == (inputs(op) * o + i) * columns    \* mutant: on top of the weights
activation_offset(o, i) == (weights(op) + inputs(op) * o + i) * columns
accumulation_offset(o) == o * columns

\* The instructions of a tile; `at` is the place in it.  The weights are loaded
\* first.
weight_loads == {[at |-> <<-1, -w>>, dest |-> weight_base(w)] : w \in 0..(weights(op) - 1)}
input_loads(t) == {[at |-> <<o, i>>, dest |-> activation_offset(o, i), row |-> row_idx(t, o)] :
                     o \in Offsets, i \in 0..(inputs(op) - 1)}
computations(t) == {[at |-> <<o, 2>>, dest |-> accumulation_offset(o),
                     srcs |-> {activation_offset(o, i) : i \in 0..(inputs(op) - 1)}
                              \cup {weight_base(w) : w \in 0..(weights(op) - 1)}] : o \in Offsets}
stores(t) == {[at |-> <<o, 3>>, src |-> accumulation_offset(o), row |-> row_idx(t, o)] : o \in Offsets}

Before(p, q) == p[1] < q[1] \/ (p[1] = q[1] /\ p[2] < q[2])

-----------------------------------------------------------------------------
\* The values the state ranges over.
TypeOK ==
  /\ op \in Operations /\ rows \in RowCounts /\ columns \in RowLengths /\ left \in Seq(Shapes)
  /\ inner \in Nat \ {0} /\ outer \in Nat \ {0} /\ tiles \in 0..outer
  /\ pc \in {"loops", "tiles", "done"}

\* When all tiles of a batch or request are made, every row of the output is stored by exactly one
\* tile, at one place of it: halving an odd number of rows loses none, and
\* makes no two tiles share one.
RowsStoredOnce == pc = "done" =>
  \A r \in 0..(rows - 1) :
    \E t \in 0..(tiles - 1), o \in Offsets :
      /\ row_idx(t, o) = r
      /\ \A u \in 0..(tiles - 1), p \in Offsets : row_idx(u, p) = r => u = t /\ p = o

\* In a tile, what is loaded does not overlap, every source of a computation
\* is loaded before it, and what is stored is what the computation of that row
\* left, and was computed from that row.
SourcesLoaded == pc = "done" => \A t \in 0..(tiles - 1) :
  LET loads == weight_loads \cup input_loads(t)
  IN  /\ \A x, y \in loads : x # y => x.dest + columns <= y.dest \/ y.dest + columns <= x.dest
      /\ \A c \in computations(t) : \A a \in c.srcs :
           \E x \in loads : x.dest = a /\ Before(x.at, c.at)
      /\ \A s \in stores(t) : \E c \in computations(t) :
           /\ c.dest = s.src /\ Before(c.at, s.at)
           /\ \A d \in computations(t) : d.dest = s.src => d = c
           /\ \A x \in input_loads(t) : x.dest \in c.srcs => x.row = s.row

\* The addresses of a tile stay inside half of the scratchpad, which is what the
\* core reserves for one of its two buffers.
TileFits == pc # "loops" =>
  \A x \in weight_loads \cup input_loads(0) : x.dest + columns <= SramLimit

\* All divisors but 1 are even.
PowerOfTwo(n) == \A d \in 2..n : n % d = 0 => d % 2 = 0

\* When the number of rows is a power of two, every row that is loaded or
\* stored is a row of its tensor.  (get_row_addrs does not check it, and there
\* is another tensor behind the last row: with an odd number of rows on the
\* way down, the last tile works on that one.)
RowsInTensor == pc = "done" /\ PowerOfTwo(rows) =>
  \A t \in 0..(tiles - 1), o \in Offsets : row_idx(t, o) < rows

\* calculate_loops ends and all tiles are made, for every request.
TilesMade == <>(pc = "done" /\ left = <<>>)
=============================================================================
