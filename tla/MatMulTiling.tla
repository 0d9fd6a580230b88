---------------------------- MODULE MatMulTiling ----------------------------
(***************************************************************************)
(* How MatMul cuts (M, K) x (K, N) into tiles and writes the instructions  *)
(* of each of them.                                                        *)
(*                                                                         *)
(* calculate_loops halves the longest of the three sides until a tile fits *)
(* half of the scratchpad; initialize_tiles makes the tiles, and           *)
(* initialize_instructions walks over the blocks of core_width x core_width*)
(* elements of a tile.  Sizes are counted in elements; the addresses of a  *)
(* block stand for its first element.  Tiles of one core are run in the    *)
(* order in which they are made.                                           *)
(***************************************************************************)
EXTENDS Integers, Sequences, FiniteSets

CONSTANTS
  Width,       \* core_width
  SramLimit,   \* spad_size KB / 2 / precision
  HasBias,     \* three inputs
  Shapes,      \* the shapes <<M, K, N>> of matrix products
  Batches,     \* _prod_batches
  WordSize     \* 2^32: _outer_loop holds 32-bit numbers

\* The positions of the sides in _inner_loop and _outer_loop.
M == 1
K == 2
N == 3
Sides == {M, K, N}

ASSUME TilingAssumption ==
  /\ Width \in Nat \ {0} /\ SramLimit \in Nat /\ Batches \in Nat \ {0} /\ HasBias \in BOOLEAN
  /\ Shapes \subseteq [Sides -> Nat \ {0}]
  \* Three blocks fit: without this calculate_loops does not end.
  /\ SramLimit >= 3 * Width * Width
  /\ WordSize \in Nat /\ \A sh \in Shapes : \A s \in Sides : 2 * sh[s] <= WordSize

VARIABLES
  shape, inner, outer,    \* the sides, _inner_loop, _outer_loop
  tiles,                  \* the tiles made so far, in order
  pc                      \* "loops", "tiles", "done"

vars == <<shape, inner, outer, tiles, pc>>

ceil(a, b) == (a + b - 1) \div b

Init ==
  /\ shape \in Shapes
  /\ inner = shape /\ outer = [s \in Sides |-> 1]
  /\ tiles = <<>> /\ pc = "loops"

-----------------------------------------------------------------------------
\* Every side is rounded up to whole blocks.
aligned(x) == Width * ceil(x, Width)
sram_size_needed(l) ==
  aligned(l[M]) * aligned(l[K]) + aligned(l[K]) * aligned(l[N]) + aligned(l[N]) * aligned(l[M])

\* std::max_element: the first of the longest sides.
is_max_element_m(l, s) == s = M     \* mutant: only M is halved
is_max_element(l, s) == \A x \in Sides : l[x] < l[s] \/ (l[x] = l[s] /\ s <= x)

half_down(x) == x \div 2     \* mutant: the odd element is dropped
half_more(x) == x \div 2 + 1  \* mutant: one too many
half(x) == ceil(x, 2)

\* One turn of the loop of calculate_loops.
Halve ==
  /\ pc = "loops" /\ sram_size_needed(inner) > SramLimit
  /\ \E s \in Sides :
       /\ is_max_element(inner, s)
       /\ outer' = [outer EXCEPT ![s] = (2 * @) % WordSize]
       /\ inner' = [inner EXCEPT ![s] = half(@)]
  /\ UNCHANGED <<shape, tiles, pc>>

EndOfLoops ==
  /\ pc = "loops" /\ sram_size_needed(inner) <= SramLimit
  /\ pc' = "tiles" /\ UNCHANGED <<shape, inner, outer, tiles>>

\* initialize_tiles: tile number i of the loops over B, M, N and K.
tile_at_k_outside(i) ==      \* mutant: K is not the innermost loop
  <<(i \div outer[N]) \div outer[K] % outer[M], (i \div outer[N]) % outer[K], i % outer[N],
    i \div (outer[M] * outer[K] * outer[N])>>
tile_at(i) ==
  <<(i \div outer[K]) \div outer[N] % outer[M], i % outer[K], (i \div outer[K]) % outer[N],
    i \div (outer[M] * outer[K] * outer[N])>>
B == 4      \* the batch of a tile

NewTile ==
  /\ pc = "tiles"
  /\ tiles' = Append(tiles, tile_at(Len(tiles)))
  /\ pc' = IF Len(tiles') = Batches * outer[M] * outer[N] * outer[K] THEN "done" ELSE "tiles"
  /\ UNCHANGED <<shape, inner, outer>>

Next == Halve \/ EndOfLoops \/ NewTile
Done == pc = "done" /\ UNCHANGED vars
Spec == Init /\ [][Next \/ Done]_vars /\ WF_vars(Next)

-----------------------------------------------------------------------------
\* initialize_instructions.  The blocks of a side, by their offset in the tile.
Offsets(s) == {Width * i : i \in 0..(ceil(inner[s], Width) - 1)}
accum(t)        == t[K] # 0
should_store(t) == t[K] + 1 = outer[K]

\* Where blocks are kept: the activations in front of the weights in the
\* scratchpad, the results in the accumulator.
sram_activation_offset(m, k) == m * inner[K] + k
sram_weight_offset_no_base(k, n) == k * inner[N] + n    \* mutant: on top of the activations
sram_weight_offset(k, n) == inner[M] * inner[K] + k * inner[N] + n
sram_accumulation_offset(m, n) == m * inner[N] + n

\* The instructions of a tile.  `at` is the place in the program: the offsets
\* of the three loops, and the place inside the innermost one.
biases(t) == IF HasBias /\ ~accum(t)
             THEN {[at |-> <<-1, 0, 0, n>>, dest |-> sram_accumulation_offset(0, n), n |-> n] :
                     n \in Offsets(N)}
             ELSE {}
activations(t) == {[at |-> <<0, k, m, 0>>, dest |-> sram_activation_offset(m, k)] :
                     m \in Offsets(M), k \in Offsets(K)}
weights(t) == {[at |-> <<n, k, 0, 1>>, dest |-> sram_weight_offset(k, n)] :
                 k \in Offsets(K), n \in Offsets(N)}
gemms(t) == {[at |-> <<n, k, m, 2>>, dest |-> sram_accumulation_offset(m, n), m |-> m, k |-> k, n |-> n,
              srcs |-> {sram_activation_offset(m, k), sram_weight_offset(k, n)}] :
               m \in Offsets(M), k \in Offsets(K), n \in Offsets(N)}
last_k(k) == k + Width >= inner[K]
stores(t) == IF should_store(t)
  THEN {[at |-> <<n, k, m, 3>>, dest |-> sram_accumulation_offset(m, n), m |-> m, n |-> n] :
          m \in Offsets(M), k \in {x \in Offsets(K) : last_k(x)}, n \in Offsets(N)}
  ELSE {}

Before(p, q) == \E i \in 1..4 : p[i] < q[i] /\ \A j \in 1..(i - 1) : p[j] = q[j]

\* The elements of a side that a block at offset o of tile t stands for.
Elements(t, s, o) == (t[s] * inner[s] + o)..(t[s] * inner[s] + o + Width - 1)

-----------------------------------------------------------------------------
\* The tiles cover every side (calculate_loops never drops a row or a column).
SidesCovered == \A s \in Sides : inner[s] * outer[s] >= shape[s]

\* Both sources of a GEMM are loaded by exactly one earlier MOVIN of its tile,
\* and no two loads share a place: a core executes a GEMM when its sources are
\* there, and would wait for ever, or use another block, if this failed.
SourcesLoaded == \A i \in DOMAIN tiles : LET t == tiles[i] IN
  \A g \in gemms(t) : \A a \in g.srcs :
    LET from == {x \in activations(t) \cup weights(t) : x.dest = a}
    IN  Cardinality(from) = 1 /\ \A x \in from : Before(x.at, g.at)

\* Every index that is turned into an address lies inside its tensor
\* (NPUTensor::get_addr throws otherwise).  A load walks over the rows of a
\* block, a store over its columns; the other index stays at the block's start.
IndexesInRange == \A i \in DOMAIN tiles :
  LET t == tiles[i]
      Full(s)  == \A o \in Offsets(s) : Elements(t, s, o) \subseteq 0..(shape[s] - 1)
      Start(s) == \A o \in Offsets(s) : t[s] * inner[s] + o < shape[s]
  IN  Full(M) /\ Full(K) /\ Start(N) /\ (should_store(t) => Full(N))

\* All divisors but 1 are even.
PowerOfTwo(n) == \A d \in 2..n : n % d = 0 => d % 2 = 0

\* When every side is a block times a power of two, all indexes are in range.
PowersInRange ==
  (\A s \in Sides : shape[s] % Width = 0 /\ PowerOfTwo(shape[s] \div Width)) => IndexesInRange

\* The order of the whole operation: tiles, then the places in them.
Earlier(i, p, j, q) == i < j \/ (i = j /\ Before(p, q))

\* When no index is out of range (the program ends otherwise), an element of
\* the output is stored once, after every GEMM of its row and
\* column; each element of K is in exactly one of these.  All of them are in
\* tiles that follow one another, the first of which does not accumulate on
\* what was there before: so the sum is complete, and of this output only.
\* The bias, if there is one, is loaded once, before all of it (into the first
\* row of blocks, from where it is spread).
OutputsComplete == pc = "done" /\ IndexesInRange =>
  \A b \in 0..(Batches - 1), m \in 0..(shape[M] - 1), n \in 0..(shape[N] - 1) :
    LET on == {i \in DOMAIN tiles : tiles[i][B] = b}
        S == {x \in UNION {{i} \X stores(tiles[i]) : i \in on} :
                m \in Elements(tiles[x[1]], M, x[2].m) /\ n \in Elements(tiles[x[1]], N, x[2].n)}
        G(k) == {x \in UNION {{i} \X gemms(tiles[i]) : i \in on} :
                   m \in Elements(tiles[x[1]], M, x[2].m) /\ n \in Elements(tiles[x[1]], N, x[2].n)
                   /\ k \in Elements(tiles[x[1]], K, x[2].k)}
        F == {x \in UNION {{i} \X biases(tiles[i]) : i \in on} :
                m \in Elements(tiles[x[1]], M, 0) /\ n \in Elements(tiles[x[1]], N, x[2].n)}
    IN  /\ Cardinality(S) = 1
        /\ m < Width /\ HasBias => Cardinality(F) = 1
        /\ \A s \in S : \A k \in 0..(shape[K] - 1) :
             /\ Cardinality(G(k)) = 1
             /\ \A g \in G(k) :
                  /\ Earlier(g[1], g[2].at, s[1], s[2].at) /\ g[2].dest = s[2].dest
                  /\ \A f \in F : Earlier(f[1], f[2].at, g[1], g[2].at) /\ f[2].dest = g[2].dest
                  /\ \A i \in g[1]..s[1] : accum(tiles[i]) <=> i > s[1] - outer[K] + 1

\* calculate_loops ends and all tiles are made.
TilesMade == <>(pc = "done")
=============================================================================
