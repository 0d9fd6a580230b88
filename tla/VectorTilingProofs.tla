-------------------------- MODULE VectorTilingProofs --------------------------
(***************************************************************************)
(* Every row of an activation is stored by exactly one tile, from what was *)
(* computed from it; a tile fits, and does not reach behind the tensor     *)
(* when the rows are a power of two: for every number and length of rows,  *)
(* every width of the units and every size of the scratchpad.              *)
(***************************************************************************)
EXTENDS VectorTiling, HalvingLemmas, TLAPS

\* The tiles cover the rows, and with one row less each they would not: this
\* bounds _outer_loop, which therefore does not wrap around.
Covering == inner * outer >= rows
Tight    == (inner - 1) * outer < rows

\* All tiles are there at the end.
AllTiles == pc = "done" => tiles = outer
EarlyTiles == pc = "loops" => tiles = 0

\* The loops have ended with a tile that fits.
Fitting == pc # "loops" => sram_size_needed(op, inner, columns) <= SramLimit

\* A power of two is halved without a rest: the tiles cover the rows exactly.
Exact == PowerOfTwo(rows) => PowerOfTwo(inner) /\ inner * outer = rows

TilingInv == TypeOK /\ Covering /\ Tight /\ AllTiles /\ EarlyTiles /\ Fitting /\ Exact

-----------------------------------------------------------------------------
\* ((x & 1) + (x >> 1)) is half of x, rounded up.
LEMMA Half == ASSUME NEW x \in Nat, x >= 2
  PROVE half(x) \in Nat \ {0} /\ 2 * half(x) >= x /\ 2 * half(x) <= x + 1
  BY DivMod DEF half

\* What is counted for a tile is a number.
LEMMA NeedTyped == ASSUME NEW o \in Operations, NEW n \in Nat, NEW k \in RowLengths
  PROVE sram_size_needed(o, n, k) \in Int
  <1>1. o \in {"LayerNorm", "Add", "Gelu", "Softmax"} /\ k \in Nat BY VectorAssumption
  <1>2. width(o) \in Nat \ {0} BY VectorAssumption DEF width
  <1>3. ceil(k, width(o)) \in Int BY <1>1, <1>2, DivMod, k + width(o) - 1 \in Nat DEF ceil
  <1>4. padded(o, k) \in Int BY <1>2, <1>3 DEF padded
  <1>5. inputs(o) \in Nat BY DEF inputs
  <1>6. QED BY <1>1, <1>4, <1>5 DEF sram_size_needed

\* A tile of one row fits, so only tiles of several rows are halved.
LEMMA SeveralRows == ASSUME TypeOK, sram_size_needed(op, inner, columns) > SramLimit
  PROVE inner >= 2
  <1> SUFFICES ASSUME inner < 2 PROVE FALSE BY DEF TypeOK
  <1>1. inner = 1 BY DEF TypeOK
  <1>2. sram_size_needed(op, 1, columns) <= SramLimit BY VectorAssumption DEF TypeOK
  <1>3. SramLimit \in Nat BY VectorAssumption
  <1>4. sram_size_needed(op, 1, columns) \in Int BY NeedTyped DEF TypeOK
  <1>5. QED BY <1>1, <1>2, <1>3, <1>4

LEMMA TilingInit == Init => TilingInv
  <1> SUFFICES ASSUME Init PROVE TilingInv OBVIOUS
  <1>1. rows \in Nat \ {0} /\ rows \in RowCounts /\ op \in Operations /\ columns \in RowLengths
    BY VectorAssumption DEF Init
  <1>2. left \in Seq(Shapes)
    <2>1. PICK n \in 0..(IF op = "Softmax" THEN MaxBatch - 1 ELSE 0) : left \in [1..n -> Shapes]
      BY DEF Init
    <2>2. n \in Nat BY VectorAssumption
    <2>3. QED BY <2>1, <2>2
  <1>3. Exact BY <1>1 DEF Init, Exact
  <1>4. QED BY <1>1, <1>2, <1>3 DEF Init, TilingInv, TypeOK, Covering, Tight, AllTiles, EarlyTiles, Fitting

\* The loops of the next request begin as the first did.
LEMMA NextRequestStep == TilingInv /\ NextRequest => TilingInv'
  <1> SUFFICES ASSUME TilingInv, NextRequest PROVE TilingInv' OBVIOUS
  <1>1. left \in Seq(Shapes) /\ left # <<>> BY DEF TilingInv, TypeOK, NextRequest
  <1>2. Head(left) \in Shapes /\ Tail(left) \in Seq(Shapes) BY <1>1
  <1>3. rows' \in RowCounts /\ columns' \in RowLengths /\ left' \in Seq(Shapes)
    BY <1>2 DEF NextRequest, Shapes
  <1>4. rows' \in Nat \ {0} /\ inner' = rows' /\ outer' = 1 /\ tiles' = 0 /\ pc' = "loops" /\ op' = op
    BY <1>3, VectorAssumption DEF NextRequest, fresh_outer
  <1>5. TypeOK' BY <1>3, <1>4 DEF TilingInv, TypeOK
  <1>6. ASSUME NEW n \in Nat PROVE n * 1 >= n /\ (n - 1) * 1 < n /\ n * 1 = n OBVIOUS
  <1>7. Covering' /\ Tight'
    <2>1. rows' * 1 >= rows' /\ (rows' - 1) * 1 < rows' BY <1>4, <1>6
    <2>2. Covering' BY <1>4, <2>1, Zenon DEF Covering
    <2>3. Tight' BY <1>4, <2>1, Zenon DEF Tight
    <2>4. QED BY <2>2, <2>3
  <1>8. AllTiles' /\ EarlyTiles' /\ Fitting' BY <1>4 DEF AllTiles, EarlyTiles, Fitting
  <1>9. Exact'
    <2>1. rows' * 1 = rows' BY <1>4, <1>6
    <2>2. QED BY <1>4, <2>1, Zenon DEF Exact, PowerOfTwo
  <1>10. QED BY <1>5, <1>7, <1>8, <1>9 DEF TilingInv

LEMMA HalveStep == TilingInv /\ Halve => TilingInv'
  <1> SUFFICES ASSUME TilingInv, Halve PROVE TilingInv' OBVIOUS
  <1>1. rows \in Nat \ {0} /\ WordSize \in Nat /\ 2 * rows <= WordSize
    BY VectorAssumption DEF TilingInv, TypeOK
  <1>2. inner >= 2 /\ inner \in Nat /\ outer \in Nat \ {0}
    BY SeveralRows DEF TilingInv, TypeOK, Halve
  <1>3. half(inner) \in Nat \ {0} /\ 2 * half(inner) >= inner /\ 2 * half(inner) <= inner + 1
    BY <1>2, Half
  <1>4. /\ (2 * outer) % WordSize \in Nat \ {0}
        /\ half(inner) * ((2 * outer) % WordSize) >= rows
        /\ (half(inner) - 1) * ((2 * outer) % WordSize) < rows
    BY <1>1, <1>2, <1>3, HalveSide DEF TilingInv, Covering, Tight
  <1>5. TypeOK' BY <1>3, <1>4 DEF TilingInv, TypeOK, EarlyTiles, Halve
  <1>6. Covering' /\ Tight' BY <1>4 DEF Covering, Tight, Halve
  <1>7. AllTiles' /\ EarlyTiles' /\ Fitting' BY DEF TilingInv, AllTiles, EarlyTiles, Fitting, Halve
  <1>8. Exact'
    <2> SUFFICES ASSUME PowerOfTwo(rows) PROVE PowerOfTwo(half(inner))
                   /\ half(inner) * ((2 * outer) % WordSize) = rows
      BY DEF Halve, Exact, PowerOfTwo
    <2>1. PowerOfTwo(inner) /\ inner * outer = rows BY DEF TilingInv, Exact
    <2>2. half(inner) = inner \div 2 /\ inner = 2 * (inner \div 2) /\ PowerOfTwo(inner \div 2)
          /\ inner \div 2 \in Nat
      <3>1. /\ inner % 2 = 0 /\ inner = 2 * (inner \div 2) /\ inner \div 2 \in Nat
            /\ PowerOfTwo(inner \div 2)
        BY <1>2, <2>1, HalfOfPower DEF PowerOfTwo
      <3>2. QED BY <3>1 DEF half
    <2> DEFINE h == inner \div 2
    <2> HIDE DEF h
    <2>3. inner = 2 * h /\ h \in Nat BY <2>2 DEF h
    <2>4. (2 * outer) % WordSize = 2 * outer BY <1>1, <1>2, NoWrap DEF TilingInv, Tight
    <2>5. h * (2 * outer) = inner * outer BY <1>2, <2>3
    <2>6. QED BY <2>1, <2>2, <2>4, <2>5 DEF h
  <1>9. QED BY <1>5, <1>6, <1>7, <1>8 DEF TilingInv

LEMMA TilingStep == TilingInv /\ [Next \/ Done]_vars => TilingInv'
  <1> SUFFICES ASSUME TilingInv, [Next \/ Done]_vars PROVE TilingInv' OBVIOUS
  <1> USE DEF TilingInv, TypeOK, Covering, Tight, AllTiles, EarlyTiles, Fitting, Exact
  <1>1. CASE Halve BY <1>1, HalveStep
  <1>2. CASE EndOfLoops BY <1>2 DEF EndOfLoops
  <1>3. CASE NewTile BY <1>3 DEF NewTile, last_tile
  <1>4. CASE EndOfTiles BY <1>4 DEF EndOfTiles, last_tile
  <1>5. CASE NextRequest BY <1>5, NextRequestStep
  <1>6. CASE UNCHANGED vars BY <1>6 DEF vars
  <1>7. QED BY <1>1, <1>2, <1>3, <1>4, <1>5, <1>6 DEF Next, Done

-----------------------------------------------------------------------------
\* A number below n * m is n * t + o in exactly one way.
LEMMA OnePlace == ASSUME NEW n \in Nat \ {0}, NEW m \in Nat, NEW r \in Nat, r < n * m
  PROVE \E t \in 0..(m - 1), o \in 0..(n - 1) :
          /\ n * t + o = r
          /\ \A u \in 0..(m - 1), p \in 0..(n - 1) : n * u + p = r => u = t /\ p = o
  <1> DEFINE t == r \div n   o == r % n
  <1>1. r = n * t + o /\ o \in Nat /\ o < n /\ t \in Nat BY DivMod
  <1> HIDE DEF t, o
  <1>2. t \in 0..(m - 1)
    <2>1. SUFFICES ASSUME m <= t PROVE FALSE BY <1>1
    <2>2. m * n <= t * n BY <2>1, <1>1, TimesMono
    <2>3. m * n = n * m /\ t * n = n * t /\ n * t \in Nat /\ n * m \in Nat BY <1>1
    <2>4. QED BY <1>1, <2>2, <2>3
  <1>3. o \in 0..(n - 1) BY <1>1
  <1>4. ASSUME NEW u \in 0..(m - 1), NEW p \in 0..(n - 1), n * u + p = r PROVE u = t /\ p = o
    <2>0. u \in Nat /\ p \in Nat /\ p < n OBVIOUS
    <2>1. ~(u + 1 <= t)
      <3>1. SUFFICES ASSUME u + 1 <= t PROVE FALSE OBVIOUS
      <3>2. (u + 1) * n <= t * n BY <3>1, <2>0, <1>1, TimesMono
      <3>3. (u + 1) * n = n * u + n /\ t * n = n * t /\ n * u \in Nat /\ n * t \in Nat BY <2>0, <1>1
      <3>4. QED BY <3>2, <3>3, <2>0, <1>1, <1>4
    <2>2. ~(t + 1 <= u)
      <3>1. SUFFICES ASSUME t + 1 <= u PROVE FALSE OBVIOUS
      <3>2. (t + 1) * n <= u * n BY <3>1, <2>0, <1>1, TimesMono
      <3>3. (t + 1) * n = n * t + n /\ u * n = n * u /\ n * u \in Nat /\ n * t \in Nat BY <2>0, <1>1
      <3>4. QED BY <3>2, <3>3, <2>0, <1>1, <1>4
    <2>3. u = t BY <2>0, <2>1, <2>2, <1>1
    <2>4. n * u = n * t /\ n * u \in Nat BY <2>3, <2>0
    <2>5. QED BY <2>0, <2>3, <2>4, <1>1, <1>4
  <1>5. QED BY <1>1, <1>2, <1>3, <1>4

LEMMA TilingStored == TilingInv => RowsStoredOnce
  <1> SUFFICES ASSUME TilingInv, pc = "done", NEW r \in 0..(rows - 1)
      PROVE \E t \in 0..(tiles - 1), o \in Offsets :
              /\ row_idx(t, o) = r
              /\ \A u \in 0..(tiles - 1), p \in Offsets : row_idx(u, p) = r => u = t /\ p = o
    BY DEF RowsStoredOnce
  <1>1. tiles = outer /\ inner \in Nat \ {0} /\ outer \in Nat /\ rows \in Nat
    BY VectorAssumption DEF TilingInv, TypeOK, AllTiles
  <1>2. r \in Nat /\ r < inner * outer BY <1>1 DEF TilingInv, Covering
  <1>3. \E t \in 0..(outer - 1), o \in 0..(inner - 1) :
          /\ inner * t + o = r
          /\ \A u \in 0..(outer - 1), p \in 0..(inner - 1) : inner * u + p = r => u = t /\ p = o
    <2>1. ASSUME NEW n \in Nat \ {0}, NEW m \in Nat, r < n * m
          PROVE \E t \in 0..(m - 1), o \in 0..(n - 1) :
                  /\ n * t + o = r
                  /\ \A u \in 0..(m - 1), p \in 0..(n - 1) : n * u + p = r => u = t /\ p = o
      BY <1>2, <2>1, OnePlace
    <2>2. QED BY <1>1, <1>2, <2>1, Zenon
  <1>4. QED BY <1>1, <1>3, Zenon DEF Offsets, row_idx

-----------------------------------------------------------------------------
LEMMA TilingRows == TilingInv => RowsInTensor
  <1> SUFFICES ASSUME TilingInv, pc = "done", PowerOfTwo(rows),
                      NEW t \in 0..(tiles - 1), NEW o \in Offsets
               PROVE  row_idx(t, o) < rows
    BY DEF RowsInTensor
  <1>1. tiles = outer /\ inner \in Nat \ {0} /\ outer \in Nat
    BY DEF TilingInv, TypeOK, AllTiles
  <1>2. inner * outer = rows BY DEF TilingInv, Exact
  <1>3. t \in Nat /\ t + 1 <= outer /\ o \in Nat /\ o < inner BY <1>1 DEF Offsets
  <1>4. (t + 1) * inner <= outer * inner BY <1>1, <1>3, TimesMono, t + 1 \in Nat
  <1>5. (t + 1) * inner = inner * t + inner /\ outer * inner = inner * outer /\ inner * t \in Nat
    BY <1>1, <1>3
  <1> DEFINE p == inner * t
             q == inner * outer
  <1>6. p + inner <= q /\ p \in Nat /\ q = rows BY <1>2, <1>4, <1>5
  <1>7. q \in Nat BY <1>1
  <1> HIDE DEF p, q
  <1>8. p + o < rows BY <1>1, <1>3, <1>6, <1>7
  <1>9. QED BY <1>8 DEF p, row_idx

\* The vectors of a tile are in slots of one row: the weights, then the inputs
\* of one row after the other.
Slot(o, i) == weights(op) + inputs(op) * o + i

LEMMA OpNumbers == ASSUME TypeOK
  PROVE  /\ op \in {"LayerNorm", "Add", "Gelu", "Softmax"}
         /\ weights(op) \in {0, 2} /\ inputs(op) \in {1, 2} /\ columns \in Nat \ {0} /\ inner \in Nat \ {0}
  BY VectorAssumption DEF TypeOK, weights, inputs

LEMMA SlotPlace == ASSUME TypeOK, NEW o \in Offsets, NEW i \in 0..(inputs(op) - 1)
  PROVE /\ Slot(o, i) \in Nat /\ activation_offset(o, i) = Slot(o, i) * columns
        /\ o \in Nat /\ o < inner /\ i \in Nat /\ weights(op) <= Slot(o, i)
        /\ Slot(o, i) + 1 <= weights(op) + inputs(op) * inner
        /\ accumulation_offset(o) = o * columns
  <1>1. weights(op) \in {0, 2} /\ inputs(op) \in {1, 2} /\ inner \in Nat BY OpNumbers
  <1>2. o \in Nat /\ o < inner /\ i \in Nat BY <1>1 DEF Offsets
  <1>3. CASE inputs(op) = 1 BY <1>1, <1>2, <1>3 DEF Slot, activation_offset, accumulation_offset
  <1>4. CASE inputs(op) = 2 BY <1>1, <1>2, <1>4 DEF Slot, activation_offset, accumulation_offset
  <1>5. QED BY <1>1, <1>3, <1>4

\* Different slots do not overlap, and the same place is the same slot.
LEMMA SlotsApart == ASSUME NEW a \in Nat, NEW b \in Nat, NEW w \in Nat \ {0}
  PROVE /\ a * w \in Nat /\ b * w \in Nat
        /\ a # b => a * w + w <= b * w \/ b * w + w <= a * w
        /\ a * w = b * w => a = b
  <1>1. ASSUME NEW x \in Nat, NEW y \in Nat, x < y PROVE x * w + w <= y * w
    <2>1. (x + 1) * w <= y * w BY <1>1, TimesMono, x + 1 \in Nat
    <2>2. (x + 1) * w = x * w + w OBVIOUS
    <2>3. QED BY <2>1, <2>2
  <1> DEFINE p == a * w
             q == b * w
  <1>2. p \in Nat /\ q \in Nat OBVIOUS
  <1>3. (a < b => p + w <= q) /\ (b < a => q + w <= p) BY <1>1
  <1> HIDE DEF p, q
  <1>4. (a # b => p + w <= q \/ q + w <= p) /\ (p = q => a = b) BY <1>2, <1>3
  <1>5. QED BY <1>2, <1>4 DEF p, q

LEMMA SameSlot ==
  ASSUME TypeOK, NEW o \in Offsets, NEW i \in 0..(inputs(op) - 1),
         NEW p \in Offsets, NEW j \in 0..(inputs(op) - 1), Slot(o, i) = Slot(p, j)
  PROVE  o = p /\ i = j
  <1>1. weights(op) \in {0, 2} /\ inputs(op) \in {1, 2} /\ inner \in Nat BY OpNumbers
  <1>2. o \in Nat /\ i \in Nat /\ p \in Nat /\ j \in Nat BY <1>1 DEF Offsets
  <1>3. CASE inputs(op) = 1 BY <1>1, <1>2, <1>3 DEF Slot
  <1>4. CASE inputs(op) = 2 BY <1>1, <1>2, <1>4 DEF Slot
  <1>5. QED BY <1>1, <1>3, <1>4

\* What a tile is counted for covers its weights and inputs.
LEMMA NeedCovers == ASSUME TypeOK
  PROVE (weights(op) + inputs(op) * inner) * columns <= sram_size_needed(op, inner, columns)
  <1> DEFINE c == padded(op, columns)
             w == width(op)
             m == ceil(columns, w)
  <1>1. /\ op \in {"LayerNorm", "Add", "Gelu", "Softmax"} /\ columns \in Nat \ {0} /\ inner \in Nat \ {0}
    BY OpNumbers
  <1>2. w \in Nat /\ w > 0 BY VectorAssumption DEF width
  <1>3. c \in Nat /\ columns <= c
    <2>1. columns + w - 1 \in Nat BY <1>1, <1>2
    <2> HIDE DEF w
    <2>2. columns + w - 1 = w * ((columns + w - 1) \div w) + ((columns + w - 1) % w)
          /\ (columns + w - 1) % w < w /\ (columns + w - 1) % w \in Nat
          /\ (columns + w - 1) \div w \in Nat
      BY <1>2, <2>1, DivMod
    <2>3. m = (columns + w - 1) \div w BY DEF ceil
    <2> HIDE DEF m
    <2>4. m \in Nat /\ w * m \in Nat BY <1>2, <2>2, <2>3
    <2> DEFINE r == (columns + w - 1) % w
               f == w * m
    <2>5. columns + w - 1 = f + r /\ r < w /\ r \in Nat /\ f \in Nat BY <2>2, <2>3, <2>4
    <2> HIDE DEF r, f
    <2>6. f >= columns BY <1>1, <1>2, <2>5
    <2>7. c = f BY DEF padded, f, m, w
    <2>8. QED BY <2>5, <2>6, <2>7
  <1> HIDE DEF c
  <1>4. ASSUME NEW n \in Nat PROVE n * columns <= n * c /\ n * columns \in Nat /\ n * c \in Nat
    <2>1. columns * n <= c * n BY <1>1, <1>3, TimesMono
    <2>2. QED BY <1>1, <1>3, <2>1
  <1> DEFINE a == inner * columns
             b == inner * c
  <1>5. a \in Nat /\ b \in Nat /\ a <= b BY <1>1, <1>4
  <1>6. CASE op = "LayerNorm"
    <2>1. weights(op) = 2 /\ inputs(op) = 1 BY <1>6 DEF weights, inputs
    <2>2. sram_size_needed(op, inner, columns) = c * (3 * inner + 2) BY <1>6 DEF sram_size_needed, c
    <2>3. c * (3 * inner + 2) = 3 * b + 2 * c /\ (2 + 1 * inner) * columns = 2 * columns + a
      BY <1>1, <1>3
    <2> HIDE DEF a, b
    <2>4. 2 * columns + a <= 3 * b + 2 * c BY <1>1, <1>3, <1>5
    <2>5. QED BY <2>1, <2>2, <2>3, <2>4
  <1>7. CASE op = "Add"
    <2>1. weights(op) = 0 /\ inputs(op) = 2 BY <1>7 DEF weights, inputs
    <2>2. sram_size_needed(op, inner, columns) = c * (3 * inner)
      BY <1>7, <2>1 DEF sram_size_needed, c
    <2>3. c * (3 * inner) = 3 * b /\ (0 + 2 * inner) * columns = 2 * a BY <1>1, <1>3
    <2> HIDE DEF a, b
    <2>4. 2 * a <= 3 * b BY <1>5
    <2>5. QED BY <2>1, <2>2, <2>3, <2>4
  <1>8. CASE op = "Gelu"
    <2>1. weights(op) = 0 /\ inputs(op) = 1 BY <1>8 DEF weights, inputs
    <2>2. sram_size_needed(op, inner, columns) = c * (2 * inner)
      BY <1>8, <2>1 DEF sram_size_needed, c
    <2>3. c * (2 * inner) = 2 * b /\ (0 + 1 * inner) * columns = a BY <1>1, <1>3
    <2> HIDE DEF a, b
    <2>4. a <= 2 * b BY <1>5
    <2>5. QED BY <2>1, <2>2, <2>3, <2>4
  <1>9. CASE op = "Softmax"
    <2>1. weights(op) = 0 /\ inputs(op) = 1 BY <1>9 DEF weights, inputs
    <2>2. sram_size_needed(op, inner, columns) = inner * (2 * c + 1) BY <1>9 DEF sram_size_needed, c
    <2>3. inner * (2 * c + 1) = 2 * b + inner /\ (0 + 1 * inner) * columns = a BY <1>1, <1>3
    <2> HIDE DEF a, b
    <2>4. a <= 2 * b + inner BY <1>1, <1>5
    <2>5. QED BY <2>1, <2>2, <2>3, <2>4
  <1>10. QED BY <1>1, <1>6, <1>7, <1>8, <1>9

LEMMA TilingFits == TilingInv => TileFits
  <1> SUFFICES ASSUME TilingInv, pc # "loops", NEW x \in weight_loads \cup input_loads(0)
               PROVE  x.dest + columns <= SramLimit
    BY DEF TileFits
  <1> DEFINE top == weights(op) + inputs(op) * inner
             need == sram_size_needed(op, inner, columns)
  <1>1. TypeOK BY DEF TilingInv
  <1>2. columns \in Nat /\ weights(op) \in {0, 2} /\ inputs(op) \in {1, 2} /\ inner \in Nat
    BY <1>1, OpNumbers
  <1>3. top \in Nat /\ weights(op) <= top
    <2>1. CASE inputs(op) = 1 BY <1>2, <2>1
    <2>2. CASE inputs(op) = 2 BY <1>2, <2>2
    <2>3. QED BY <1>2, <2>1, <2>2
  <1>4. need \in Int /\ need <= SramLimit /\ SramLimit \in Nat
    BY <1>1, NeedTyped, VectorAssumption DEF TilingInv, Fitting, TypeOK
  <1>5. top * columns <= need BY <1>1, NeedCovers
  <1> HIDE DEF top, need
  <1>6. \E n \in Nat : n + 1 <= top /\ x.dest = n * columns
    <2>1. CASE x \in weight_loads
      <3>1. PICK w \in 0..(weights(op) - 1) : x.dest = weight_base(w) BY <2>1 DEF weight_loads
      <3>2. w \in Nat /\ w + 1 <= top BY <1>2, <1>3
      <3>3. QED BY <3>1, <3>2 DEF weight_base
    <2>2. CASE x \in input_loads(0)
      <3>1. PICK o \in Offsets, i \in 0..(inputs(op) - 1) : x.dest = activation_offset(o, i)
        BY <2>2 DEF input_loads
      <3>2. Slot(o, i) \in Nat /\ Slot(o, i) + 1 <= top /\ x.dest = Slot(o, i) * columns
        BY <1>1, <3>1, SlotPlace DEF top
      <3>3. QED BY <3>2
    <2>3. QED BY <2>1, <2>2
  <1>7. PICK n \in Nat : n + 1 <= top /\ x.dest = n * columns BY <1>6
  <1>8. (n + 1) * columns <= top * columns BY <1>2, <1>3, <1>7, TimesMono, n + 1 \in Nat
  <1>9. (n + 1) * columns = n * columns + columns BY <1>2, <1>7
  <1>10. n * columns \in Nat /\ top * columns \in Nat BY <1>2, <1>3, <1>7
  <1> DEFINE p == n * columns
             q == top * columns
  <1>11. p + columns <= q /\ p \in Nat /\ q \in Nat /\ q <= need /\ x.dest = p
    BY <1>5, <1>7, <1>8, <1>9, <1>10
  <1> HIDE DEF p, q
  <1>12. QED BY <1>2, <1>4, <1>11

-----------------------------------------------------------------------------
\* The loads of a tile, by their slot.
LEMMA WeightLoad == ASSUME TypeOK, NEW x \in weight_loads
  PROVE \E w \in 0..(weights(op) - 1) :
          /\ x = [at |-> <<-1, -w>>, dest |-> weight_base(w)]
          /\ w \in Nat /\ w < weights(op) /\ x.dest = w * columns
  <1>1. weights(op) \in {0, 2} BY OpNumbers
  <1>2. PICK w \in 0..(weights(op) - 1) : x = [at |-> <<-1, -w>>, dest |-> weight_base(w)]
    BY DEF weight_loads
  <1>3. QED BY <1>1, <1>2 DEF weight_base

LEMMA InputLoad == ASSUME TypeOK, NEW t, NEW x \in input_loads(t)
  PROVE \E o \in Offsets, i \in 0..(inputs(op) - 1) :
          /\ x = [at |-> <<o, i>>, dest |-> activation_offset(o, i), row |-> row_idx(t, o)]
          /\ x.dest = Slot(o, i) * columns /\ x.at = <<o, i>> /\ x.row = row_idx(t, o)
  <1>1. PICK o \in Offsets, i \in 0..(inputs(op) - 1) :
          x = [at |-> <<o, i>>, dest |-> activation_offset(o, i), row |-> row_idx(t, o)]
    BY DEF input_loads
  <1>2. activation_offset(o, i) = Slot(o, i) * columns BY SlotPlace
  <1>3. QED BY <1>1, <1>2

\* Two loads have two slots.
LEMMA LoadsApart ==
  ASSUME TypeOK, NEW t, NEW x \in weight_loads \cup input_loads(t),
         NEW y \in weight_loads \cup input_loads(t), x # y
  PROVE  x.dest + columns <= y.dest \/ y.dest + columns <= x.dest
  <1>1. columns \in Nat \ {0} /\ weights(op) \in {0, 2} BY OpNumbers
  <1>2. SUFFICES \E a \in Nat, b \in Nat : a # b /\ x.dest = a * columns /\ y.dest = b * columns
    <2>1. PICK a \in Nat, b \in Nat : a # b /\ x.dest = a * columns /\ y.dest = b * columns BY <1>2
    <2>2. a * columns + columns <= b * columns \/ b * columns + columns <= a * columns
      BY <1>1, <2>1, SlotsApart
    <2>3. QED BY <2>1, <2>2
  <1>3. CASE x \in weight_loads /\ y \in weight_loads
    <2>1. PICK v \in 0..(weights(op) - 1) : x = [at |-> <<-1, -v>>, dest |-> weight_base(v)]
                                            /\ v \in Nat /\ x.dest = v * columns
      BY <1>3, WeightLoad
    <2>2. PICK w \in 0..(weights(op) - 1) : y = [at |-> <<-1, -w>>, dest |-> weight_base(w)]
                                            /\ w \in Nat /\ y.dest = w * columns
      BY <1>3, WeightLoad
    <2>3. v # w BY <2>1, <2>2
    <2>4. QED BY <2>1, <2>2, <2>3
  <1>4. CASE x \in weight_loads /\ y \in input_loads(t)
    <2>1. PICK w \in 0..(weights(op) - 1) : w \in Nat /\ w < weights(op) /\ x.dest = w * columns
      BY <1>4, WeightLoad
    <2>2. PICK o \in Offsets, i \in 0..(inputs(op) - 1) : y.dest = Slot(o, i) * columns
      BY <1>4, InputLoad
    <2>3. Slot(o, i) \in Nat /\ Slot(o, i) # w BY <1>1, <2>1, SlotPlace
    <2>4. QED BY <2>1, <2>2, <2>3
  <1>5. CASE x \in input_loads(t) /\ y \in weight_loads
    <2>1. PICK w \in 0..(weights(op) - 1) : w \in Nat /\ w < weights(op) /\ y.dest = w * columns
      BY <1>5, WeightLoad
    <2>2. PICK o \in Offsets, i \in 0..(inputs(op) - 1) : x.dest = Slot(o, i) * columns
      BY <1>5, InputLoad
    <2>3. Slot(o, i) \in Nat /\ Slot(o, i) # w BY <1>1, <2>1, SlotPlace
    <2>4. QED BY <2>1, <2>2, <2>3
  <1>6. CASE x \in input_loads(t) /\ y \in input_loads(t)
    <2>1. PICK o \in Offsets, i \in 0..(inputs(op) - 1) :
            /\ x = [at |-> <<o, i>>, dest |-> activation_offset(o, i), row |-> row_idx(t, o)]
            /\ x.dest = Slot(o, i) * columns
      BY <1>6, InputLoad
    <2>2. PICK p \in Offsets, j \in 0..(inputs(op) - 1) :
            /\ y = [at |-> <<p, j>>, dest |-> activation_offset(p, j), row |-> row_idx(t, p)]
            /\ y.dest = Slot(p, j) * columns
      BY <1>6, InputLoad
    <2>3. Slot(o, i) # Slot(p, j)
      <3> SUFFICES ASSUME Slot(o, i) = Slot(p, j) PROVE FALSE OBVIOUS
      <3>1. o = p /\ i = j BY SameSlot
      <3>2. QED BY <2>1, <2>2, <3>1
    <2>4. Slot(o, i) \in Nat /\ Slot(p, j) \in Nat BY SlotPlace
    <2>5. QED BY <2>1, <2>2, <2>3, <2>4
  <1>7. QED BY <1>3, <1>4, <1>5, <1>6

\* The computation of a row.
Computation(o) == [at |-> <<o, 2>>, dest |-> accumulation_offset(o),
                   srcs |-> {activation_offset(o, i) : i \in 0..(inputs(op) - 1)}
                            \cup {weight_base(w) : w \in 0..(weights(op) - 1)}]

LEMMA TilingSources == TilingInv => SourcesLoaded
  <1> SUFFICES ASSUME TypeOK, NEW t
               PROVE  LET loads == weight_loads \cup input_loads(t)
                      IN  /\ \A x, y \in loads : x # y =>
                               x.dest + columns <= y.dest \/ y.dest + columns <= x.dest
                          /\ \A c \in computations(t) : \A a \in c.srcs :
                               \E x \in loads : x.dest = a /\ Before(x.at, c.at)
                          /\ \A s \in stores(t) : \E c \in computations(t) :
                               /\ c.dest = s.src /\ Before(c.at, s.at)
                               /\ \A d \in computations(t) : d.dest = s.src => d = c
                               /\ \A x \in input_loads(t) : x.dest \in c.srcs => x.row = s.row
    BY DEF SourcesLoaded, TilingInv
  <1> DEFINE loads == weight_loads \cup input_loads(t)
  <1>1. columns \in Nat \ {0} /\ weights(op) \in {0, 2} /\ inputs(op) \in {1, 2} /\ inner \in Nat
    BY OpNumbers
  <1>2. \A o \in Offsets : o \in Nat BY <1>1 DEF Offsets
  <1>3. \A x, y \in loads : x # y => x.dest + columns <= y.dest \/ y.dest + columns <= x.dest
    BY LoadsApart
  <1>4. computations(t) = {Computation(o) : o \in Offsets} BY DEF computations, Computation
  <1>5. ASSUME NEW c \in computations(t), NEW a \in c.srcs
        PROVE  \E x \in loads : x.dest = a /\ Before(x.at, c.at)
    <2>1. PICK o \in Offsets : c = Computation(o) BY <1>4
    <2>2. c.at = <<o, 2>> /\ o \in Nat BY <1>2, <2>1 DEF Computation
    <2>3. CASE \E i \in 0..(inputs(op) - 1) : a = activation_offset(o, i)
      <3>1. PICK i \in 0..(inputs(op) - 1) : a = activation_offset(o, i) BY <2>3
      <3> DEFINE x == [at |-> <<o, i>>, dest |-> activation_offset(o, i), row |-> row_idx(t, o)]
      <3>2. x \in loads BY DEF input_loads
      <3>3. i < 2 /\ i \in Nat BY <1>1
      <3>4. x.dest = a /\ Before(x.at, c.at) BY <2>2, <3>1, <3>3 DEF Before
      <3> HIDE DEF x
      <3>5. QED BY <3>2, <3>4
    <2>4. CASE \E w \in 0..(weights(op) - 1) : a = weight_base(w)
      <3>1. PICK w \in 0..(weights(op) - 1) : a = weight_base(w) BY <2>4
      <3> DEFINE x == [at |-> <<-1, -w>>, dest |-> weight_base(w)]
      <3>2. x \in loads BY DEF weight_loads
      <3>3. x.dest = a /\ Before(x.at, c.at) BY <2>2, <3>1 DEF Before
      <3> HIDE DEF x
      <3>4. QED BY <3>2, <3>3
    <2>5. QED BY <2>1, <2>3, <2>4 DEF Computation
  <1>6. ASSUME NEW s \in stores(t)
        PROVE  \E c \in computations(t) :
                 /\ c.dest = s.src /\ Before(c.at, s.at)
                 /\ \A d \in computations(t) : d.dest = s.src => d = c
                 /\ \A x \in input_loads(t) : x.dest \in c.srcs => x.row = s.row
    <2>1. PICK o \in Offsets : s = [at |-> <<o, 3>>, src |-> accumulation_offset(o), row |-> row_idx(t, o)]
      BY DEF stores
    <2>2. o \in Nat BY <1>2
    <2>3. Computation(o) \in computations(t) BY <1>4
    <2>4. Computation(o).dest = s.src /\ Before(Computation(o).at, s.at)
      BY <2>1, <2>2 DEF Computation, Before
    <2>5. ASSUME NEW d \in computations(t), d.dest = s.src PROVE d = Computation(o)
      <3>1. PICK p \in Offsets : d = Computation(p) BY <1>4
      <3>2. p \in Nat /\ p * columns = o * columns
        BY <1>2, <2>1, <2>5, <3>1 DEF Computation, accumulation_offset
      <3>3. p = o BY <1>1, <2>2, <3>2, SlotsApart
      <3>4. QED BY <3>1, <3>3
    <2>6. ASSUME NEW x \in input_loads(t), x.dest \in Computation(o).srcs PROVE x.row = s.row
      <3>1. PICK p \in Offsets, j \in 0..(inputs(op) - 1) :
              x.dest = Slot(p, j) * columns /\ x.row = row_idx(t, p)
        BY InputLoad
      <3>2. Slot(p, j) \in Nat /\ weights(op) <= Slot(p, j) BY SlotPlace
      <3>3. CASE \E i \in 0..(inputs(op) - 1) : x.dest = activation_offset(o, i)
        <4>1. PICK i \in 0..(inputs(op) - 1) : x.dest = activation_offset(o, i) BY <3>3
        <4>2. Slot(o, i) \in Nat /\ Slot(p, j) * columns = Slot(o, i) * columns
          BY <3>1, <4>1, SlotPlace
        <4>3. Slot(p, j) = Slot(o, i) BY <1>1, <3>2, <4>2, SlotsApart
        <4>4. p = o BY <4>3, SameSlot
        <4>5. QED BY <2>1, <3>1, <4>4
      <3>4. CASE \E w \in 0..(weights(op) - 1) : x.dest = weight_base(w)
        <4>1. PICK w \in 0..(weights(op) - 1) : Slot(p, j) * columns = w * columns
          BY <3>1, <3>4 DEF weight_base
        <4>2. w \in Nat /\ w < weights(op) BY <1>1
        <4>3. Slot(p, j) = w BY <1>1, <3>2, <4>1, <4>2, SlotsApart
        <4>4. QED BY <1>1, <3>2, <4>2, <4>3
      <3>5. QED BY <2>6, <3>3, <3>4 DEF Computation
    <2>7. QED BY <2>3, <2>4, <2>5, <2>6
  <1>7. QED BY <1>3, <1>5, <1>6

-----------------------------------------------------------------------------
\* LayerNorm, Add, Gelu and Softmax never lose a row, and never store one from two
\* places (calculate_loops, initialize_tiles, initialize_instructions).
THEOREM StoredOnce == Spec => []RowsStoredOnce
  BY TilingInit, TilingStep, TilingStored, PTL DEF Spec

\* The state of the tiling is well typed; in particular _outer_loop never wraps
\* around to zero.
THEOREM TilingTyped == Spec => []TypeOK
  <1>1. TilingInv => TypeOK BY DEF TilingInv
  <1>2. QED BY <1>1, TilingInit, TilingStep, PTL DEF Spec

\* The scratchpad half that the core reserves is enough for every address of a
\* tile, whatever the operation, the widths and the shape.
THEOREM AlwaysTileFits == Spec => []TileFits
  BY TilingInit, TilingStep, TilingFits, PTL DEF Spec

\* With a power of two of rows no tile reaches behind the last row of its
\* tensors, which get_row_addrs would not notice.
THEOREM AlwaysRowsInTensor == Spec => []RowsInTensor
  BY TilingInit, TilingStep, TilingRows, PTL DEF Spec

\* Every operand of a vector instruction is loaded before it, at a place of its
\* own, and a row is stored from what was computed from the same row
\* (initialize_instructions).
THEOREM AlwaysSourcesLoaded == Spec => []SourcesLoaded
  BY TilingInit, TilingStep, TilingSources, PTL DEF Spec
=============================================================================
