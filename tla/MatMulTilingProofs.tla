------------------------- MODULE MatMulTilingProofs -------------------------
(***************************************************************************)
(* The tiles of a matrix product cover it, load what they multiply, stay   *)
(* inside the tensors when the sides are powers of two, and store every    *)
(* block of the product once, as the sum over the whole inner side: for    *)
(* every shape, every width of the core and every size of the scratchpad.  *)
(***************************************************************************)
EXTENDS MatMulTiling, HalvingLemmas, FiniteSetTheorems, TLAPS

\* The part of the state that calculate_loops changes.
LoopsOK ==
  /\ shape \in Shapes
  /\ inner \in [Sides -> Nat \ {0}] /\ outer \in [Sides -> Nat \ {0}]

\* The tiles cover a side, and without one of their rows they would not: this
\* bounds _outer_loop, which therefore does not wrap around.
SidesTight == \A s \in Sides : (inner[s] - 1) * outer[s] < shape[s]

LoopInv == LoopsOK /\ SidesCovered /\ SidesTight

-----------------------------------------------------------------------------
\* Rounding up to whole blocks.
LEMMA OneBlock == aligned(1) = Width
  <1>1. Width \in Nat /\ Width > 0 BY TilingAssumption
  <1>2. (1 + Width - 1) \div Width = 1 BY <1>1, Z3
  <1>3. QED BY <1>1, <1>2 DEF aligned, ceil

\* ((x & 1) + (x >> 1)) is half of x, rounded up.
LEMMA Half == ASSUME NEW x \in Nat, x >= 2
  PROVE /\ half(x) \in Nat \ {0} /\ 2 * half(x) >= x /\ 2 * half(x) <= x + 1
  <1>1. x + 2 - 1 \in Nat OBVIOUS
  <1>2. QED BY <1>1, DivMod DEF half, ceil

\* A side that is halved has at least two elements: three single blocks fit.
LEMMA LongSide == ASSUME NEW s \in Sides, LoopsOK, is_max_element(inner, s),
                         sram_size_needed(inner) > SramLimit
  PROVE inner[s] >= 2
  <1> SUFFICES ASSUME inner[s] < 2 PROVE FALSE BY DEF LoopsOK
  <1>1. \A x \in Sides : inner[x] \in Nat \ {0} /\ inner[x] <= inner[s]
    BY DEF LoopsOK, is_max_element
  <1>2. \A x \in Sides : inner[x] = 1 BY <1>1
  <1>3. inner[M] = 1 /\ inner[K] = 1 /\ inner[N] = 1 BY <1>2 DEF Sides
  <1>4. Width \in Nat /\ SramLimit \in Nat /\ SramLimit >= 3 * Width * Width BY TilingAssumption
  <1>5. sram_size_needed(inner) = Width * Width + Width * Width + Width * Width
    BY <1>3, OneBlock DEF sram_size_needed
  <1>6. Width * Width + Width * Width + Width * Width = 3 * Width * Width BY <1>4
  <1>7. QED BY <1>4, <1>5, <1>6

-----------------------------------------------------------------------------
LEMMA LoopInit == Init => LoopInv
  <1> SUFFICES ASSUME Init PROVE LoopInv OBVIOUS
  <1>1. shape \in [Sides -> Nat \ {0}] BY TilingAssumption DEF Init
  <1>2. LoopsOK BY <1>1 DEF Init, LoopsOK
  <1>3. ASSUME NEW s \in Sides
        PROVE inner[s] * outer[s] >= shape[s] /\ (inner[s] - 1) * outer[s] < shape[s]
    <2>1. shape[s] \in Nat \ {0} /\ inner[s] = shape[s] /\ outer[s] = 1 BY <1>1 DEF Init
    <2>2. QED BY <2>1
  <1>4. QED BY <1>2, <1>3 DEF LoopInv, SidesCovered, SidesTight

LEMMA HalveStep == LoopInv /\ Halve => LoopInv'
  <1> SUFFICES ASSUME LoopInv, Halve PROVE LoopInv' OBVIOUS
  <1>1. PICK s \in Sides : /\ is_max_element(inner, s)
                           /\ outer' = [outer EXCEPT ![s] = (2 * @) % WordSize]
                           /\ inner' = [inner EXCEPT ![s] = half(@)]
    BY DEF Halve
  <1>2. shape \in Shapes /\ inner \in [Sides -> Nat \ {0}] /\ outer \in [Sides -> Nat \ {0}]
        /\ shape' = shape
    BY DEF LoopInv, LoopsOK, Halve
  <1>3. shape \in [Sides -> Nat \ {0}] BY <1>2, TilingAssumption
  <1>4. shape[s] \in Nat /\ WordSize \in Nat /\ 2 * shape[s] <= WordSize
    BY <1>2, <1>3, TilingAssumption
  <1>5. inner[s] >= 2 BY <1>1, LongSide DEF LoopInv, Halve
  <1>6. inner[s] * outer[s] >= shape[s] /\ (inner[s] - 1) * outer[s] < shape[s]
    BY DEF LoopInv, SidesCovered, SidesTight
  <1>7. inner[s] \in Nat /\ outer[s] \in Nat \ {0} BY <1>2
  <1>8. /\ half(inner[s]) \in Nat \ {0} /\ (2 * outer[s]) % WordSize \in Nat \ {0}
        /\ half(inner[s]) * ((2 * outer[s]) % WordSize) >= shape[s]
        /\ (half(inner[s]) - 1) * ((2 * outer[s]) % WordSize) < shape[s]
    <2>1. half(inner[s]) \in Nat \ {0} /\ 2 * half(inner[s]) >= inner[s]
          /\ 2 * half(inner[s]) <= inner[s] + 1
      BY <1>5, <1>7, Half
    <2>2. QED BY <2>1, <1>4, <1>5, <1>6, <1>7, HalveSide
  <1>9. inner'[s] = half(inner[s]) /\ outer'[s] = (2 * outer[s]) % WordSize
        /\ \A x \in Sides \ {s} : inner'[x] = inner[x] /\ outer'[x] = outer[x]
    BY <1>1, <1>2
  <1>10. LoopsOK' BY <1>1, <1>2, <1>8 DEF LoopsOK
  <1>11. SidesCovered' BY <1>2, <1>8, <1>9 DEF LoopInv, SidesCovered
  <1>12. SidesTight' BY <1>2, <1>8, <1>9 DEF LoopInv, SidesTight
  <1>13. QED BY <1>10, <1>11, <1>12 DEF LoopInv

LEMMA LoopStep == LoopInv /\ [Next \/ Done]_vars => LoopInv'
  <1> SUFFICES ASSUME LoopInv, [Next \/ Done]_vars PROVE LoopInv' OBVIOUS
  <1>1. CASE Halve BY <1>1, HalveStep
  <1>2. CASE UNCHANGED <<shape, inner, outer>>
    BY <1>2 DEF LoopInv, LoopsOK, SidesCovered, SidesTight
  <1>3. QED BY <1>1, <1>2 DEF Next, EndOfLoops, NewTile, Done, vars

-----------------------------------------------------------------------------
\* The tiles are numbered as initialize_tiles walks over them.
Total == Batches * outer[M] * outer[N] * outer[K]
TilesOK ==
  /\ pc \in {"loops", "tiles", "done"} /\ tiles \in Seq(Nat \X Nat \X Nat \X Nat)
  /\ pc = "loops" => tiles = <<>>
  /\ pc = "tiles" => Len(tiles) < Total
  /\ pc = "done" => Len(tiles) = Total
  /\ \A i \in DOMAIN tiles : tiles[i] = tile_at(i - 1)

\* Sides that are a block times a power of two stay so, and their tiles cover
\* them exactly.
Blocks(n) == n % Width = 0 /\ PowerOfTwo(n \div Width)
Exact == (\A s \in Sides : Blocks(shape[s])) =>
           \A s \in Sides : Blocks(inner[s]) /\ inner[s] * outer[s] = shape[s]

MatMulInv == LoopInv /\ TilesOK /\ Exact

\* The numbers of the loops.
LEMMA LoopNumbers == ASSUME LoopInv
  PROVE  /\ \A s \in Sides : inner[s] \in Nat \ {0} /\ outer[s] \in Nat \ {0} /\ shape[s] \in Nat \ {0}
         /\ M \in Sides /\ K \in Sides /\ N \in Sides /\ Width \in Nat /\ Width > 0 /\ Batches \in Nat \ {0}
         /\ outer[M] * outer[K] * outer[N] \in Nat \ {0} /\ Total \in Nat \ {0}
  <1>1. shape \in [Sides -> Nat \ {0}] BY TilingAssumption DEF LoopInv, LoopsOK
  <1>2. M \in Sides /\ K \in Sides /\ N \in Sides BY DEF Sides
  <1>3. ASSUME NEW a \in Nat \ {0}, NEW b \in Nat \ {0} PROVE a * b \in Nat \ {0}
    <2>1. 1 * b <= a * b BY TimesMono, 1 <= a
    <2>2. QED BY <2>1
  <1>4. inner \in [Sides -> Nat \ {0}] /\ outer \in [Sides -> Nat \ {0}] BY DEF LoopInv, LoopsOK
  <1>5. outer[M] \in Nat \ {0} /\ outer[K] \in Nat \ {0} /\ outer[N] \in Nat \ {0}
    BY <1>2, <1>4
  <1>6. outer[M] * outer[K] \in Nat \ {0} BY <1>3, <1>5
  <1>7. outer[M] * outer[K] * outer[N] \in Nat \ {0} BY <1>3, <1>5, <1>6
  <1>8. Width \in Nat /\ Width > 0 /\ Batches \in Nat \ {0} BY TilingAssumption
  <1>9. Batches * outer[M] \in Nat \ {0} BY <1>3, <1>5, <1>8
  <1>10. Batches * outer[M] * outer[N] \in Nat \ {0} BY <1>3, <1>5, <1>9
  <1>11. Total \in Nat \ {0} BY <1>3, <1>5, <1>10 DEF Total
  <1>12. QED BY <1>1, <1>2, <1>4, <1>7, <1>8, <1>11

\* The digits of a number of a tile.
LEMMA TileDigits == ASSUME LoopInv, NEW i \in Nat
  PROVE  /\ tile_at(i) \in Nat \X Nat \X Nat \X Nat
         /\ \A s \in Sides : tile_at(i)[s] \in Nat /\ tile_at(i)[s] < outer[s]
  <1>1. outer[M] \in Nat /\ outer[M] > 0 /\ outer[K] \in Nat /\ outer[K] > 0
        /\ outer[N] \in Nat /\ outer[N] > 0
    BY LoopNumbers
  <1> DEFINE a == outer[M] * outer[K] * outer[N]
             q == i \div outer[K]
             p == q \div outer[N]
  <1>2. a \in Nat /\ a > 0 BY LoopNumbers
  <1>3. q \in Nat /\ i % outer[K] \in Nat /\ i % outer[K] < outer[K] BY <1>1, DivMod
  <1>4. i \div a \in Nat
    <2> HIDE DEF a
    <2>1. QED BY <1>2, DivMod
  <1> HIDE DEF q, a
  <1>5. p \in Nat /\ q % outer[N] \in Nat /\ q % outer[N] < outer[N] BY <1>1, <1>3, DivMod
  <1> HIDE DEF p
  <1>6. p % outer[M] \in Nat /\ p % outer[M] < outer[M] BY <1>1, <1>5, DivMod
  <1>7. tile_at(i) = <<p % outer[M], i % outer[K], q % outer[N], i \div a>>
    BY DEF tile_at, p, q, a
  <1>8. tile_at(i)[M] = p % outer[M] /\ tile_at(i)[K] = i % outer[K] /\ tile_at(i)[N] = q % outer[N]
    BY <1>7 DEF M, K, N
  <1>9. \A s \in Sides : tile_at(i)[s] \in Nat /\ tile_at(i)[s] < outer[s]
    BY <1>3, <1>5, <1>6, <1>8 DEF Sides
  <1>10. QED BY <1>3, <1>4, <1>5, <1>6, <1>7, <1>9

LEMMA TilesStep == LoopInv /\ TilesOK /\ [Next \/ Done]_vars => TilesOK'
  <1> SUFFICES ASSUME LoopInv, TilesOK, [Next \/ Done]_vars PROVE TilesOK' OBVIOUS
  <1>1. CASE Halve
    <2>1. tiles = <<>> /\ tiles' = <<>> /\ pc' = "loops" BY <1>1 DEF Halve, TilesOK
    <2>2. QED BY <2>1 DEF TilesOK
  <1>2. CASE EndOfLoops
    <2>1. tiles = <<>> /\ tiles' = <<>> /\ pc' = "tiles" /\ outer' = outer
      BY <1>2 DEF EndOfLoops, TilesOK
    <2>2. Total' = Total /\ Total \in Nat \ {0} BY <2>1, LoopNumbers DEF Total
    <2>3. QED BY <2>1, <2>2 DEF TilesOK
  <1>3. CASE NewTile
    <2>1. tiles' = Append(tiles, tile_at(Len(tiles))) /\ outer' = outer BY <1>3 DEF NewTile
    <2>2. tiles \in Seq(Nat \X Nat \X Nat \X Nat) BY DEF TilesOK
    <2>3. Len(tiles) \in Nat BY <2>2
    <2>4. tile_at(Len(tiles)) \in Nat \X Nat \X Nat \X Nat BY <2>3, TileDigits
    <2>5. tiles' \in Seq(Nat \X Nat \X Nat \X Nat) /\ Len(tiles') = Len(tiles) + 1
      BY <2>1, <2>2, <2>4
    <2>6. Total' = Total /\ Total \in Nat BY <2>1, LoopNumbers DEF Total
    <2>7. pc = "tiles" /\ Len(tiles) < Total BY <1>3 DEF NewTile, TilesOK
    <2>8. pc' = IF Len(tiles') = Total THEN "done" ELSE "tiles" BY <1>3 DEF NewTile, Total
    <2>9. ASSUME NEW i \in DOMAIN tiles' PROVE tiles'[i] = tile_at(i - 1)'
      <3>1. tile_at(i - 1)' = tile_at(i - 1) BY <2>1 DEF tile_at
      <3>2. CASE i = Len(tiles) + 1
        <4>1. tiles'[i] = tile_at(Len(tiles)) BY <2>1, <2>2, <3>2
        <4>2. i - 1 = Len(tiles) BY <2>3, <3>2
        <4>3. QED BY <3>1, <4>1, <4>2
      <3>3. CASE i # Len(tiles) + 1
        <4>1. i \in DOMAIN tiles BY <2>2, <2>3, <2>5, <3>3
        <4>2. tiles'[i] = tiles[i] BY <2>1, <2>2, <4>1
        <4>3. QED BY <3>1, <4>1, <4>2 DEF TilesOK
      <3>4. QED BY <3>2, <3>3
    <2>10. QED BY <2>3, <2>5, <2>6, <2>7, <2>8, <2>9 DEF TilesOK
  <1>4. CASE Done \/ UNCHANGED vars
    BY <1>4 DEF Done, vars, TilesOK, Total, tile_at
  <1>5. QED BY <1>1, <1>2, <1>3, <1>4 DEF Next

-----------------------------------------------------------------------------
\* A side that is a whole number of blocks.
LEMMA BlockSide == ASSUME NEW n \in Nat \ {0}, n % Width = 0
  PROVE n \div Width \in Nat \ {0} /\ n = Width * (n \div Width)
  <1>1. Width \in Nat /\ Width > 0 BY TilingAssumption
  <1> DEFINE q == n \div Width
  <1>2. n = Width * q + 0 /\ q \in Nat BY <1>1, DivMod
  <1> HIDE DEF q
  <1>3. n = Width * q BY <1>1, <1>2
  <1>4. q # 0 BY <1>1, <1>3
  <1>5. QED BY <1>2, <1>3, <1>4 DEF q

\* The longest of three sides of whole blocks has several blocks.
LEMMA SeveralBlocks ==
  ASSUME NEW s \in Sides, LoopInv, is_max_element(inner, s), sram_size_needed(inner) > SramLimit,
         \A x \in Sides : inner[x] % Width = 0
  PROVE  inner[s] \div Width >= 2
  <1> DEFINE q(x) == inner[x] \div Width
  <1>1. \A x \in Sides : inner[x] \in Nat \ {0} BY LoopNumbers
  <1>2. ASSUME NEW x \in Sides PROVE q(x) \in Nat \ {0} /\ inner[x] = Width * q(x) BY <1>1, BlockSide
  <1>3. Width \in Nat /\ Width > 0 /\ SramLimit \in Nat /\ SramLimit >= 3 * Width * Width
    BY TilingAssumption
  <1> HIDE DEF q
  <1> SUFFICES ASSUME q(s) < 2 PROVE FALSE BY <1>2 DEF q
  <1>4. q(s) = 1 /\ inner[s] = Width BY <1>2, <1>3
  <1>5. ASSUME NEW x \in Sides PROVE inner[x] = Width
    <2>1. inner[x] <= Width BY <1>1, <1>4 DEF is_max_element
    <2>2. inner[x] = Width * q(x) /\ q(x) \in Nat \ {0} BY <1>2
    <2>3. ~(q(x) >= 2)
      <3> SUFFICES ASSUME q(x) >= 2 PROVE FALSE OBVIOUS
      <3>1. 2 * Width <= q(x) * Width BY <1>3, <2>2, TimesMono
      <3>2. q(x) * Width = inner[x] BY <1>3, <2>2
      <3>3. QED BY <1>1, <1>3, <2>1, <3>1, <3>2
    <2>4. q(x) = 1 BY <2>2, <2>3
    <2>5. QED BY <1>3, <2>2, <2>4
  <1>6. aligned(Width) = Width
    <2>1. (Width + Width - 1) \div Width = 1
      <3>1. Width - 1 \in Nat /\ Width - 1 < Width BY <1>3
      <3>2. (1 * Width + (Width - 1)) \div Width = 1 BY <1>3, <3>1, Digits
      <3>3. Width + Width - 1 = 1 * Width + (Width - 1) BY <1>3
      <3>4. QED BY <3>2, <3>3
    <2>2. QED BY <1>3, <2>1 DEF aligned, ceil
  <1>7. inner[M] = Width /\ inner[K] = Width /\ inner[N] = Width BY <1>5 DEF Sides
  <1>8. sram_size_needed(inner) = Width * Width + Width * Width + Width * Width
    BY <1>6, <1>7 DEF sram_size_needed
  <1>9. Width * Width + Width * Width + Width * Width = 3 * Width * Width BY <1>3
  <1>10. QED BY <1>3, <1>8, <1>9

LEMMA ExactStep == LoopInv /\ Exact /\ [Next \/ Done]_vars => Exact'
  <1> SUFFICES ASSUME LoopInv, Exact, [Next \/ Done]_vars PROVE Exact' OBVIOUS
  <1>1. CASE Halve
    <2> SUFFICES ASSUME \A s \in Sides : Blocks(shape[s])
                 PROVE  \A s \in Sides : Blocks(inner'[s]) /\ inner'[s] * outer'[s] = shape[s]
      BY <1>1 DEF Exact, Halve, Blocks, PowerOfTwo
    <2>1. \A s \in Sides : Blocks(inner[s]) /\ inner[s] * outer[s] = shape[s] BY DEF Exact
    <2>2. PICK s \in Sides : /\ is_max_element(inner, s)
                             /\ outer' = [outer EXCEPT ![s] = (2 * @) % WordSize]
                             /\ inner' = [inner EXCEPT ![s] = half(@)]
      BY <1>1 DEF Halve
    <2>3. inner \in [Sides -> Nat \ {0}] /\ outer \in [Sides -> Nat \ {0}] BY DEF LoopInv, LoopsOK
    <2>4. inner'[s] = half(inner[s]) /\ outer'[s] = (2 * outer[s]) % WordSize
          /\ \A x \in Sides \ {s} : inner'[x] = inner[x] /\ outer'[x] = outer[x]
      BY <2>2, <2>3
    <2> DEFINE p == inner[s] \div Width
               h == p \div 2
    <2>5. inner[s] \in Nat \ {0} /\ outer[s] \in Nat \ {0} /\ shape[s] \in Nat /\ Width \in Nat /\ Width > 0
      BY LoopNumbers
    <2>6. inner[s] % Width = 0 /\ PowerOfTwo(p) BY <2>1 DEF Blocks
    <2>7. p \in Nat /\ inner[s] = Width * p BY <2>5, <2>6, BlockSide
    <2>8. p >= 2
      <3>1. \A x \in Sides : inner[x] % Width = 0 BY <2>1 DEF Blocks
      <3>2. sram_size_needed(inner) > SramLimit BY <1>1 DEF Halve
      <3>3. QED BY <2>2, <3>1, <3>2, SeveralBlocks
    <2> HIDE DEF p
    <2>9. p = 2 * h /\ h \in Nat \ {0} /\ PowerOfTwo(h) BY <2>6, <2>7, <2>8, HalfOfPower DEF PowerOfTwo
    <2> HIDE DEF h
    <2>10. inner[s] = (Width * h) * 2 + 0 /\ Width * h \in Nat BY <2>5, <2>7, <2>9
    <2>11. half(inner[s]) = Width * h
      <3> DEFINE a == Width * h
      <3>1. a \in Nat /\ inner[s] = a * 2 BY <2>10
      <3> HIDE DEF a
      <3>2. inner[s] + 2 - 1 = a * 2 + 1 BY <3>1
      <3>3. (a * 2 + 1) \div 2 = a BY <3>1, Digits
      <3>4. QED BY <3>2, <3>3 DEF half, ceil, a
    <2>12. Blocks(Width * h)
      <3>1. (Width * h) % Width = 0 BY <2>5, <2>9, Divides
      <3>2. (h * Width + 0) \div Width = h BY <2>5, <2>9, Digits
      <3>3. Width * h = h * Width + 0 BY <2>5, <2>9
      <3>4. QED BY <2>9, <3>1, <3>2, <3>3 DEF Blocks
    <2>13. (2 * outer[s]) % WordSize = 2 * outer[s]
      <3>1. WordSize \in Nat /\ 2 * shape[s] <= WordSize BY TilingAssumption DEF LoopInv, LoopsOK
      <3>2. (inner[s] - 1) * outer[s] < shape[s] BY DEF LoopInv, SidesTight
      <3>3. inner[s] >= 2 BY <1>1, <2>2, LongSide DEF LoopInv, Halve
      <3>4. QED BY <2>5, <3>1, <3>2, <3>3, NoWrap
    <2>14. (Width * h) * (2 * outer[s]) = shape[s]
      <3>1. inner[s] * outer[s] = shape[s] BY <2>1
      <3> DEFINE a == Width * h
      <3>2. a \in Nat /\ inner[s] = a * 2 BY <2>10
      <3> HIDE DEF a
      <3>3. (a * 2) * outer[s] = a * (2 * outer[s]) BY <2>5, <3>2
      <3>4. QED BY <3>1, <3>2, <3>3 DEF a
    <2>15. Blocks(inner'[s]) /\ inner'[s] * outer'[s] = shape[s] BY <2>4, <2>11, <2>12, <2>13, <2>14
    <2>16. QED BY <2>1, <2>4, <2>15
  <1>2. CASE UNCHANGED <<shape, inner, outer>> BY <1>2 DEF Exact
  <1>3. QED BY <1>1, <1>2 DEF Next, EndOfLoops, NewTile, Done, vars

LEMMA MatMulInit == Init => MatMulInv
  <1> SUFFICES ASSUME Init PROVE MatMulInv OBVIOUS
  <1>1. LoopInv BY LoopInit
  <1>2. TilesOK BY DEF Init, TilesOK
  <1>3. ASSUME NEW s \in Sides PROVE inner[s] = shape[s] /\ inner[s] * outer[s] = shape[s]
    <2>1. inner[s] = shape[s] /\ outer[s] = 1 BY DEF Init
    <2>2. shape[s] \in Nat BY <1>1, LoopNumbers
    <2>3. QED BY <2>1, <2>2
  <1>4. Exact BY <1>3 DEF Exact
  <1>5. QED BY <1>1, <1>2, <1>4 DEF MatMulInv

LEMMA MatMulStep == MatMulInv /\ [Next \/ Done]_vars => MatMulInv'
  BY LoopStep, TilesStep, ExactStep DEF MatMulInv

-----------------------------------------------------------------------------
\* Rounding up to whole blocks.
LEMMA Ceil == ASSUME NEW n \in Nat \ {0}
  PROVE /\ ceil(n, Width) \in Nat \ {0} /\ Width * ceil(n, Width) >= n
        /\ Width * ceil(n, Width) < n + Width
  <1>1. Width \in Nat /\ Width > 0 BY TilingAssumption
  <1> DEFINE a == n + Width - 1
             q == a \div Width
             r == a % Width
             f == Width * q
  <1>2. a \in Nat BY <1>1
  <1> HIDE DEF a
  <1>3. a = Width * q + r /\ r \in Nat /\ r < Width /\ q \in Nat BY <1>1, <1>2, DivMod
  <1> HIDE DEF q, r
  <1>4. f \in Nat /\ a = f + r BY <1>1, <1>3
  <1>5. q # 0
    <2> SUFFICES ASSUME q = 0 PROVE FALSE OBVIOUS
    <2>1. f = 0 BY <1>1
    <2>2. QED BY <1>1, <1>3, <1>4, <2>1 DEF a
  <1> HIDE DEF f
  <1>6. f >= n /\ f < n + Width BY <1>1, <1>3, <1>4 DEF a
  <1>7. ceil(n, Width) = q BY DEF ceil, q, a
  <1>8. QED BY <1>3, <1>5, <1>6, <1>7 DEF f

\* A block starts inside its tile.
LEMMA OffsetInside == ASSUME LoopInv, NEW s \in Sides, NEW o \in Offsets(s)
  PROVE o \in Nat /\ o < inner[s] /\ o + Width <= Width * ceil(inner[s], Width)
        /\ \E j \in Nat : o = Width * j
  <1>1. Width \in Nat /\ Width > 0 /\ inner[s] \in Nat \ {0} BY LoopNumbers
  <1> DEFINE c == ceil(inner[s], Width)
  <1>2. c \in Nat \ {0} /\ Width * c < inner[s] + Width BY <1>1, Ceil
  <1> HIDE DEF c
  <1>3. PICK j \in 0..(c - 1) : o = Width * j BY DEF Offsets, c
  <1>4. j \in Nat /\ j + 1 <= c BY <1>2
  <1>5. (j + 1) * Width <= c * Width BY <1>1, <1>2, <1>4, TimesMono, j + 1 \in Nat
  <1>6. (j + 1) * Width = Width * j + Width /\ c * Width = Width * c /\ Width * c \in Nat
        /\ Width * j \in Nat
    BY <1>1, <1>2, <1>4
  <1> DEFINE f == Width * c
  <1>7. o + Width <= f /\ f \in Nat /\ f < inner[s] + Width /\ o \in Nat
    BY <1>2, <1>3, <1>5, <1>6
  <1> HIDE DEF f
  <1>8. o < inner[s] BY <1>1, <1>7
  <1>9. QED BY <1>3, <1>4, <1>7, <1>8 DEF f, c

\* The loads, by the block that they bring.
Activation(m, k) == [at |-> <<0, k, m, 0>>, dest |-> sram_activation_offset(m, k)]
Weight(k, n) == [at |-> <<n, k, 0, 1>>, dest |-> sram_weight_offset(k, n)]

\* The activations are below inner[M] * inner[K], the weights above; in both a
\* block has a place of its own.
LEMMA ActivationPlace == ASSUME LoopInv, NEW m \in Offsets(M), NEW k \in Offsets(K)
  PROVE /\ sram_activation_offset(m, k) \in Nat
        /\ sram_activation_offset(m, k) < inner[M] * inner[K]
  <1>1. inner[M] \in Nat /\ inner[K] \in Nat /\ m \in Nat /\ m < inner[M] /\ k \in Nat /\ k < inner[K]
    BY LoopNumbers, OffsetInside
  <1>2. (m + 1) * inner[K] <= inner[M] * inner[K] BY <1>1, TimesMono, m + 1 \in Nat
  <1>3. (m + 1) * inner[K] = m * inner[K] + inner[K] /\ m * inner[K] \in Nat
        /\ inner[M] * inner[K] \in Nat
    BY <1>1
  <1> DEFINE p == m * inner[K]
             q == inner[M] * inner[K]
  <1>4. p + inner[K] <= q /\ p \in Nat /\ q \in Nat BY <1>2, <1>3
  <1> HIDE DEF p, q
  <1>5. p + k \in Nat /\ p + k < q BY <1>1, <1>4
  <1>6. QED BY <1>5 DEF p, q, sram_activation_offset

LEMMA SameActivation ==
  ASSUME LoopInv, NEW m \in Offsets(M), NEW k \in Offsets(K), NEW x \in Offsets(M), NEW y \in Offsets(K),
         sram_activation_offset(m, k) = sram_activation_offset(x, y)
  PROVE  m = x /\ k = y
  <1>1. inner[K] \in Nat /\ m \in Nat /\ k \in Nat /\ k < inner[K] /\ x \in Nat /\ y \in Nat /\ y < inner[K]
    BY LoopNumbers, OffsetInside
  <1>2. m * inner[K] + k = x * inner[K] + y BY DEF sram_activation_offset
  <1>3. QED BY <1>1, <1>2, TwoDigits

LEMMA SameWeight ==
  ASSUME LoopInv, NEW k \in Offsets(K), NEW n \in Offsets(N), NEW x \in Offsets(K), NEW y \in Offsets(N),
         sram_weight_offset(k, n) = sram_weight_offset(x, y)
  PROVE  k = x /\ n = y
  <1>1. inner[N] \in Nat /\ k \in Nat /\ n \in Nat /\ n < inner[N] /\ x \in Nat /\ y \in Nat /\ y < inner[N]
    BY LoopNumbers, OffsetInside
  <1> DEFINE c == inner[M] * inner[K]
             p == k * inner[N]
             q == x * inner[N]
  <1>2. c \in Nat /\ p \in Nat /\ q \in Nat BY <1>1, LoopNumbers
  <1>3. c + p + n = c + q + y BY DEF sram_weight_offset
  <1> HIDE DEF c, p, q
  <1>4. p + n = q + y BY <1>1, <1>2, <1>3
  <1>5. k * inner[N] + n = x * inner[N] + y BY <1>4 DEF p, q
  <1>6. QED BY <1>1, <1>5, TwoDigits

LEMMA WeightPlace == ASSUME LoopInv, NEW k \in Offsets(K), NEW n \in Offsets(N)
  PROVE sram_weight_offset(k, n) \in Nat /\ sram_weight_offset(k, n) >= inner[M] * inner[K]
  <1>1. inner[N] \in Nat /\ k \in Nat /\ n \in Nat /\ inner[M] * inner[K] \in Nat
    BY LoopNumbers, OffsetInside
  <1> DEFINE c == inner[M] * inner[K]
             p == k * inner[N]
  <1>2. c \in Nat /\ p \in Nat BY <1>1
  <1> HIDE DEF c, p
  <1>3. c + p + n \in Nat /\ c + p + n >= c BY <1>1, <1>2
  <1>4. QED BY <1>3 DEF c, p, sram_weight_offset

LEMMA MatMulSources == MatMulInv => SourcesLoaded
  <1> SUFFICES ASSUME LoopInv, NEW t, NEW g \in gemms(t), NEW a \in g.srcs
               PROVE  LET from == {x \in activations(t) \cup weights(t) : x.dest = a}
                      IN  Cardinality(from) = 1 /\ \A x \in from : Before(x.at, g.at)
    BY DEF SourcesLoaded, MatMulInv
  <1> DEFINE from == {x \in activations(t) \cup weights(t) : x.dest = a}
  <1>1. PICK m \in Offsets(M), k \in Offsets(K), n \in Offsets(N) :
          g.at = <<n, k, m, 2>> /\ g.srcs = {sram_activation_offset(m, k), sram_weight_offset(k, n)}
    BY DEF gemms
  <1>2. M \in Sides /\ K \in Sides /\ N \in Sides BY DEF Sides
  <1>3. m \in Nat /\ k \in Nat /\ n \in Nat BY <1>2, OffsetInside
  <1>4. \A x \in activations(t) : \E i \in Offsets(M), j \in Offsets(K) : x = Activation(i, j)
    BY DEF activations, Activation
  <1>5. \A x \in weights(t) : \E i \in Offsets(K), j \in Offsets(N) : x = Weight(i, j)
    BY DEF weights, Weight
  <1>6. Activation(m, k) \in activations(t) /\ Weight(k, n) \in weights(t)
    BY DEF activations, Activation, weights, Weight
  <1>7. CASE a = sram_activation_offset(m, k)
    <2>1. ASSUME NEW x \in from PROVE x = Activation(m, k)
      <3>1. CASE x \in activations(t)
        <4>1. PICK i \in Offsets(M), j \in Offsets(K) : x = Activation(i, j) BY <1>4, <3>1
        <4>2. sram_activation_offset(i, j) = sram_activation_offset(m, k) BY <1>7, <4>1 DEF Activation
        <4>3. i = m /\ j = k BY <4>2, SameActivation
        <4>4. QED BY <4>1, <4>3
      <3>2. CASE x \in weights(t)
        <4>1. PICK i \in Offsets(K), j \in Offsets(N) : x = Weight(i, j) BY <1>5, <3>2
        <4>2. sram_weight_offset(i, j) = sram_activation_offset(m, k) BY <1>7, <4>1 DEF Weight
        <4>3. inner[M] * inner[K] \in Nat BY LoopNumbers
        <4>4. QED BY <4>2, <4>3, WeightPlace, ActivationPlace
      <3>3. QED BY <3>1, <3>2
    <2>2. Activation(m, k) \in from BY <1>6, <1>7 DEF Activation
    <2>3. from = {Activation(m, k)} BY <2>1, <2>2
    <2>4. Before(Activation(m, k).at, g.at)
      <3>1. Before(<<0, k, m, 0>>, <<n, k, m, 2>>)
        <4>1. CASE n > 0 BY <1>3, <4>1 DEF Before
        <4>2. CASE n = 0 BY <1>3, <4>2 DEF Before
        <4>3. QED BY <1>3, <4>1, <4>2
      <3>2. QED BY <1>1, <3>1 DEF Activation
    <2> HIDE DEF from
    <2>5. Cardinality(from) = 1 BY <2>3, FS_Singleton
    <2>6. QED BY <2>3, <2>4, <2>5 DEF from
  <1>8. CASE a = sram_weight_offset(k, n)
    <2>1. ASSUME NEW x \in from PROVE x = Weight(k, n)
      <3>1. CASE x \in weights(t)
        <4>1. PICK i \in Offsets(K), j \in Offsets(N) : x = Weight(i, j) BY <1>5, <3>1
        <4>2. sram_weight_offset(i, j) = sram_weight_offset(k, n) BY <1>8, <4>1 DEF Weight
        <4>3. i = k /\ j = n BY <4>2, SameWeight
        <4>4. QED BY <4>1, <4>3
      <3>2. CASE x \in activations(t)
        <4>1. PICK i \in Offsets(M), j \in Offsets(K) : x = Activation(i, j) BY <1>4, <3>2
        <4>2. sram_activation_offset(i, j) = sram_weight_offset(k, n) BY <1>8, <4>1 DEF Activation
        <4>3. inner[M] * inner[K] \in Nat BY LoopNumbers
        <4>4. QED BY <4>2, <4>3, WeightPlace, ActivationPlace
      <3>3. QED BY <3>1, <3>2
    <2>2. Weight(k, n) \in from BY <1>6, <1>8 DEF Weight
    <2>3. from = {Weight(k, n)} BY <2>1, <2>2
    <2>4. Before(Weight(k, n).at, g.at)
      <3>1. Before(<<n, k, 0, 1>>, <<n, k, m, 2>>)
        <4>1. CASE m > 0 BY <1>3, <4>1 DEF Before
        <4>2. CASE m = 0 BY <1>3, <4>2 DEF Before
        <4>3. QED BY <1>3, <4>1, <4>2
      <3>2. QED BY <1>1, <3>1 DEF Weight
    <2> HIDE DEF from
    <2>5. Cardinality(from) = 1 BY <2>3, FS_Singleton
    <2>6. QED BY <2>3, <2>4, <2>5 DEF from
  <1>9. QED BY <1>1, <1>7, <1>8

-----------------------------------------------------------------------------
\* The elements of a block of a tile, when the tiles cover a side exactly and
\* are whole blocks.
LEMMA BlockInSide ==
  ASSUME LoopInv, NEW s \in Sides, inner[s] * outer[s] = shape[s], Width * ceil(inner[s], Width) = inner[s],
         NEW t, t[s] \in Nat, t[s] < outer[s], NEW o \in Offsets(s)
  PROVE  /\ t[s] * inner[s] + o \in Nat /\ t[s] * inner[s] + o < shape[s]
         /\ Elements(t, s, o) \subseteq 0..(shape[s] - 1)
  <1>1. inner[s] \in Nat /\ outer[s] \in Nat /\ shape[s] \in Nat /\ Width \in Nat /\ Width > 0
    BY LoopNumbers
  <1>2. o \in Nat /\ o + Width <= inner[s] BY OffsetInside
  <1>3. (t[s] + 1) * inner[s] <= outer[s] * inner[s] BY <1>1, TimesMono, t[s] + 1 \in Nat
  <1>4. (t[s] + 1) * inner[s] = t[s] * inner[s] + inner[s] /\ t[s] * inner[s] \in Nat BY <1>1
  <1>5. outer[s] * inner[s] = shape[s] BY <1>1
  <1> DEFINE p == t[s] * inner[s]
  <1>6. p \in Nat /\ p + inner[s] <= shape[s] BY <1>3, <1>4, <1>5
  <1>7. Elements(t, s, o) = (p + o)..(p + o + Width - 1) BY DEF Elements
  <1> HIDE DEF p
  <1>8. p + o \in Nat /\ p + o + Width <= shape[s] BY <1>1, <1>2, <1>6
  <1>9. (p + o)..(p + o + Width - 1) \subseteq 0..(shape[s] - 1) BY <1>1, <1>8
  <1>10. p + o < shape[s] BY <1>1, <1>8
  <1>11. QED BY <1>7, <1>8, <1>9, <1>10 DEF p

LEMMA WholeBlocks == ASSUME NEW n \in Nat \ {0}, n % Width = 0
  PROVE Width * ceil(n, Width) = n
  <1>1. Width \in Nat /\ Width > 0 BY TilingAssumption
  <1> DEFINE q == n \div Width
  <1>2. q \in Nat /\ n = Width * q BY BlockSide
  <1> HIDE DEF q
  <1>3. n + Width - 1 = q * Width + (Width - 1) BY <1>1, <1>2
  <1>4. (q * Width + (Width - 1)) \div Width = q BY <1>1, <1>2, Digits, Width - 1 \in Nat
  <1>5. QED BY <1>2, <1>3, <1>4 DEF ceil

LEMMA MatMulPowers == MatMulInv => PowersInRange
  <1> SUFFICES ASSUME MatMulInv, \A s \in Sides : Blocks(shape[s]) PROVE IndexesInRange
    BY DEF PowersInRange, Blocks
  <1>1. LoopInv /\ TilesOK BY DEF MatMulInv
  <1>2. \A s \in Sides : inner[s] % Width = 0 /\ inner[s] * outer[s] = shape[s]
    BY DEF MatMulInv, Exact, Blocks
  <1>3. ASSUME NEW i \in DOMAIN tiles, NEW s \in Sides, NEW o \in Offsets(s)
        PROVE  /\ tiles[i][s] * inner[s] + o < shape[s]
               /\ Elements(tiles[i], s, o) \subseteq 0..(shape[s] - 1)
    <2>1. tiles \in Seq(Nat \X Nat \X Nat \X Nat) BY <1>1 DEF TilesOK
    <2>2. i - 1 \in Nat BY <2>1
    <2>3. tiles[i] = tile_at(i - 1) BY <1>1 DEF TilesOK
    <2>4. tiles[i][s] \in Nat /\ tiles[i][s] < outer[s] BY <1>1, <2>2, <2>3, TileDigits
    <2>5. inner[s] \in Nat \ {0} BY <1>1, LoopNumbers
    <2>6. Width * ceil(inner[s], Width) = inner[s] BY <1>2, <2>5, WholeBlocks
    <2>7. QED BY <1>1, <1>2, <2>4, <2>6, BlockInSide
  <1>4. M \in Sides /\ K \in Sides /\ N \in Sides BY DEF Sides
  <1>5. QED BY <1>3, <1>4 DEF IndexesInRange

-----------------------------------------------------------------------------
\* The number of the tile of batch b, row a, column n and part c of the sum: the
\* tiles of one output follow one another.
Run(b, a, n) == (b * outer[M] + a) * outer[N] + n
Number(b, a, n, c) == Run(b, a, n) * outer[K] + c

LEMMA NumberTile ==
  ASSUME LoopInv, NEW b \in Nat, NEW a \in Nat, NEW n \in Nat, NEW c \in Nat,
         a < outer[M], n < outer[N], c < outer[K]
  PROVE  /\ Run(b, a, n) \in Nat /\ Number(b, a, n, c) \in Nat
         /\ tile_at(Number(b, a, n, c)) = <<a, c, n, b>>
         /\ b < Batches => Number(b, a, n, c) < Total
  <1> DEFINE x == b * outer[M] + a
             y == x * outer[N] + n
             z == y * outer[K] + c
  <1>1. outer[M] \in Nat /\ outer[N] \in Nat /\ outer[K] \in Nat /\ Batches \in Nat BY LoopNumbers
  <1>2. x \in Nat /\ x % outer[M] = a BY <1>1, Digits
  <1>3. b < Batches => x < Batches * outer[M] BY <1>1, DigitsBound
  <1> HIDE DEF x
  <1>4. y \in Nat /\ y % outer[N] = n /\ y \div outer[N] = x
    BY <1>1, <1>2, Digits
  <1>5. b < Batches => y < Batches * outer[M] * outer[N]
    BY <1>1, <1>2, <1>3, DigitsBound, Batches * outer[M] \in Nat
  <1>6. y = Run(b, a, n) BY DEF Run, x
  <1>7. z = Number(b, a, n, c) BY <1>6 DEF Number
  <1> HIDE DEF y
  <1>8. z \in Nat /\ z % outer[K] = c /\ z \div outer[K] = y
    BY <1>1, <1>4, Digits
  <1>9. b < Batches => z < Batches * outer[M] * outer[N] * outer[K]
    <2> DEFINE e == Batches * outer[M] * outer[N]
    <2>1. e \in Nat BY <1>1
    <2>2. b < Batches => y < e BY <1>5
    <2> HIDE DEF e
    <2>3. b < Batches => z < e * outer[K] BY <1>1, <1>4, <2>1, <2>2, DigitsBound
    <2>4. QED BY <2>3 DEF e
  <1>10. z \div (outer[M] * outer[K] * outer[N]) = b
    <2> DEFINE u == a * outer[N] + n
               v == u * outer[K] + c
               e == outer[M] * outer[N] * outer[K]
    <2>1. u \in Nat /\ u < outer[M] * outer[N] BY <1>1, DigitsBound
    <2>2. v \in Nat /\ v < e
      <3> HIDE DEF u
      <3> DEFINE f == outer[M] * outer[N]
      <3>1. f \in Nat /\ u < f BY <1>1, <2>1
      <3> HIDE DEF f
      <3>2. v \in Nat /\ v < f * outer[K] BY <1>1, <2>1, <3>1, DigitsBound
      <3>3. QED BY <3>2 DEF f
    <2>3. e \in Nat BY <1>1
    <2>4. z = b * e + v BY <1>1 DEF x, y
    <2>5. outer[M] * outer[K] * outer[N] = e BY <1>1
    <2> HIDE DEF e, v, z
    <2>6. (b * e + v) \div e = b BY <2>2, <2>3, Digits
    <2>7. QED BY <2>4, <2>5, <2>6
  <1> HIDE DEF z
  <1>11. tile_at(z) = <<a, c, n, b>> BY <1>2, <1>4, <1>8, <1>10 DEF tile_at
  <1>12. QED BY <1>4, <1>6, <1>7, <1>8, <1>9, <1>11 DEF Total

LEMMA TileNumber == ASSUME LoopInv, NEW i \in Nat
  PROVE i = Number(tile_at(i)[B], tile_at(i)[M], tile_at(i)[N], tile_at(i)[K])
  <1>1. outer[M] \in Nat /\ outer[M] > 0 /\ outer[K] \in Nat /\ outer[K] > 0
        /\ outer[N] \in Nat /\ outer[N] > 0
    BY LoopNumbers
  <1> DEFINE y == i \div outer[K]
             x == y \div outer[N]
             b == x \div outer[M]
             a == x % outer[M]
             n == y % outer[N]
             c == i % outer[K]
  <1>2. i = outer[K] * y + c /\ c \in Nat /\ c < outer[K] /\ y \in Nat BY <1>1, DivMod
  <1>3. tile_at(i)[M] = a /\ tile_at(i)[N] = n /\ tile_at(i)[K] = c BY DEF tile_at, M, N, K
  <1> HIDE DEF y, c
  <1>4. y = outer[N] * x + n /\ n \in Nat /\ n < outer[N] /\ x \in Nat BY <1>1, <1>2, DivMod
  <1> HIDE DEF x, n
  <1>5. x = outer[M] * b + a /\ a \in Nat /\ a < outer[M] /\ b \in Nat BY <1>1, <1>4, DivMod
  <1> HIDE DEF a, b
  <1>6. i = Number(b, a, n, c)
    <2>1. x = b * outer[M] + a BY <1>1, <1>5
    <2>2. y = x * outer[N] + n BY <1>1, <1>4
    <2>3. i = y * outer[K] + c BY <1>1, <1>2
    <2>4. QED BY <2>1, <2>2, <2>3 DEF Number, Run
  <1>7. tile_at(i) = <<a, c, n, b>> BY <1>2, <1>4, <1>5, <1>6, NumberTile
  <1>8. tile_at(i)[B] = b BY <1>7 DEF B
  <1>9. QED BY <1>3, <1>6, <1>8

-----------------------------------------------------------------------------
\* What holds at the end when no index was out of range: the tiles are whole
\* blocks and cover every side exactly.
Whole == \A s \in Sides : Width * ceil(inner[s], Width) = inner[s] /\ inner[s] * outer[s] = shape[s]

\* Tile number j of the finished operation.
LEMMA DoneTiles == ASSUME LoopInv, TilesOK, pc = "done"
  PROVE  /\ DOMAIN tiles = 1..Total
         /\ \A i \in 1..Total : i - 1 \in Nat /\ tiles[i] = tile_at(i - 1)
  <1>1. tiles \in Seq(Nat \X Nat \X Nat \X Nat) /\ Len(tiles) = Total BY DEF TilesOK
  <1>2. DOMAIN tiles = 1..Total BY <1>1
  <1>3. Total \in Nat BY LoopNumbers
  <1>4. \A i \in 1..Total : i - 1 \in Nat BY <1>3
  <1>5. \A i \in 1..Total : tiles[i] = tile_at(i - 1) BY <1>2 DEF TilesOK
  <1>6. QED BY <1>2, <1>4, <1>5

LEMMA DoneWhole == ASSUME MatMulInv, pc = "done", IndexesInRange PROVE Whole
  <1>1. LoopInv /\ TilesOK BY DEF MatMulInv
  <1>2. \A s \in Sides : inner[s] \in Nat \ {0} /\ outer[s] \in Nat \ {0} /\ shape[s] \in Nat \ {0}
    BY <1>1, LoopNumbers
  <1>3. M \in Sides /\ K \in Sides /\ N \in Sides /\ Width \in Nat /\ Width > 0 /\ Batches \in Nat \ {0}
    BY <1>1, LoopNumbers
  \* The last tile of the first matrix.
  <1> DEFINE j == Number(0, outer[M] - 1, outer[N] - 1, outer[K] - 1)
             t == tiles[j + 1]
  <1>4. j \in Nat /\ j < Total /\ tile_at(j) = <<outer[M] - 1, outer[K] - 1, outer[N] - 1, 0>>
    <2>1. ASSUME NEW s \in Sides PROVE outer[s] - 1 \in Nat /\ outer[s] - 1 < outer[s]
      <3>1. outer[s] \in Nat \ {0} BY <1>2
      <3>2. QED BY <3>1
    <2> DEFINE a == outer[M] - 1
               n == outer[N] - 1
               c == outer[K] - 1
    <2>2. a \in Nat /\ a < outer[M] /\ n \in Nat /\ n < outer[N] /\ c \in Nat /\ c < outer[K]
      BY <1>3, <2>1
    <2>3. 0 \in Nat /\ 0 < Batches BY <1>3
    <2> HIDE DEF a, n, c
    <2>4. Number(0, a, n, c) \in Nat /\ Number(0, a, n, c) < Total
          /\ tile_at(Number(0, a, n, c)) = <<a, c, n, 0>>
      BY <1>1, <2>2, <2>3, NumberTile
    <2>5. QED BY <2>4 DEF a, n, c
  <1> HIDE DEF j
  <1>5. j + 1 \in DOMAIN tiles /\ t = <<outer[M] - 1, outer[K] - 1, outer[N] - 1, 0>>
    <2>1. j + 1 \in 1..Total /\ (j + 1) - 1 = j BY <1>1, <1>4, LoopNumbers
    <2>2. QED BY <1>1, <1>4, <2>1, DoneTiles
  <1>6. t[M] = outer[M] - 1 /\ t[K] = outer[K] - 1 /\ t[N] = outer[N] - 1 BY <1>5 DEF M, K, N
  <1>7. should_store(t) BY <1>2, <1>3, <1>6 DEF should_store
  <1>8. \A s \in Sides : t[s] = outer[s] - 1 BY <1>6 DEF Sides
  <1>9. \A s \in Sides : \A o \in Offsets(s) : Elements(t, s, o) \subseteq 0..(shape[s] - 1)
    BY <1>5, <1>7 DEF IndexesInRange, Sides
  <1> HIDE DEF t
  <1>10. ASSUME NEW s \in Sides
         PROVE  Width * ceil(inner[s], Width) = inner[s] /\ inner[s] * outer[s] = shape[s]
    <2> DEFINE c == ceil(inner[s], Width)
               o == Width * (c - 1)
               f == Width * c
               p == (outer[s] - 1) * inner[s]
               e == p + o + Width - 1
    <2>1. c \in Nat \ {0} /\ f >= inner[s] BY <1>2, Ceil
    <2> HIDE DEF c
    <2>2. o \in Offsets(s) BY <2>1 DEF Offsets, c
    <2>3. o + Width = f /\ o \in Nat /\ f \in Nat BY <1>3, <2>1
    <2>4. p \in Nat /\ p + inner[s] = inner[s] * outer[s] BY <1>2
    <2>5. e \in Elements(t, s, o)
      <3>1. Elements(t, s, o) = (p + o)..(p + o + Width - 1) BY <1>8 DEF Elements
      <3> HIDE DEF p, o
      <3>2. QED BY <1>3, <2>3, <2>4, <3>1
    <2>6. e < shape[s]
      <3>1. e \in 0..(shape[s] - 1) BY <1>9, <2>2, <2>5
      <3> HIDE DEF e
      <3>2. QED BY <1>2, <3>1
    <2>7. inner[s] * outer[s] >= shape[s] BY <1>1 DEF LoopInv, SidesCovered
    <2> DEFINE q == inner[s] * outer[s]
    <2>8. q \in Nat /\ q >= shape[s] /\ p + inner[s] = q BY <1>2, <2>4, <2>7
    <2> HIDE DEF q, f, o, p
    <2>9. f = inner[s] /\ q = shape[s] BY <1>2, <1>3, <2>1, <2>3, <2>4, <2>6, <2>8
    <2>10. QED BY <2>9 DEF f, q, c
  <1>11. QED BY <1>10 DEF Whole

\* The tile of an element of a side, and the block in it.
TileOf(s, e) == e \div inner[s]
RestOf(s, e) == e % inner[s]
OffsetOf(s, e) == Width * (RestOf(s, e) \div Width)

LEMMA ElementPlace == ASSUME LoopInv, Whole, NEW s \in Sides, NEW e \in 0..(shape[s] - 1)
  PROVE  /\ TileOf(s, e) \in Nat /\ TileOf(s, e) < outer[s]
         /\ OffsetOf(s, e) \in Offsets(s) /\ OffsetOf(s, e) \in Nat
         /\ OffsetOf(s, e) <= RestOf(s, e) /\ RestOf(s, e) < OffsetOf(s, e) + Width
         /\ e = TileOf(s, e) * inner[s] + RestOf(s, e) /\ RestOf(s, e) \in Nat /\ RestOf(s, e) < inner[s]
  <1>1. /\ inner[s] \in Nat /\ inner[s] > 0 /\ outer[s] \in Nat /\ shape[s] \in Nat /\ shape[s] > 0
        /\ Width \in Nat /\ Width > 0
    BY LoopNumbers
  <1>2. e \in Nat /\ e < shape[s] BY <1>1
  <1> DEFINE q == e \div inner[s]
             r == e % inner[s]
             j == r \div Width
             d == r % Width
             c == ceil(inner[s], Width)
  <1>3. e = inner[s] * q + r /\ r \in Nat /\ r < inner[s] /\ q \in Nat BY <1>1, <1>2, DivMod
  <1>4. Width * c = inner[s] /\ inner[s] * outer[s] = shape[s] BY DEF Whole
  <1>5. c \in Nat BY <1>1, Ceil
  <1> HIDE DEF q, r, c
  <1>6. r = Width * j + d /\ d \in Nat /\ d < Width /\ j \in Nat BY <1>1, <1>3, DivMod
  <1> HIDE DEF j, d
  <1>7. q < outer[s]
    <2> SUFFICES ASSUME outer[s] <= q PROVE FALSE BY <1>1, <1>3
    <2>1. outer[s] * inner[s] <= q * inner[s] BY <1>1, <1>3, TimesMono
    <2>2. outer[s] * inner[s] = shape[s] BY <1>1, <1>4
    <2> DEFINE p == q * inner[s]
    <2>3. p \in Nat /\ e = p + r BY <1>1, <1>3
    <2>4. shape[s] <= p BY <2>1, <2>2
    <2> HIDE DEF p
    <2>5. QED BY <1>1, <1>2, <1>3, <2>3, <2>4
  <1>8. j < c
    <2> SUFFICES ASSUME c <= j PROVE FALSE BY <1>5, <1>6
    <2>1. c * Width <= j * Width BY <1>1, <1>5, <1>6, TimesMono
    <2>2. c * Width = inner[s] BY <1>1, <1>4, <1>5
    <2> DEFINE p == j * Width
    <2>3. p \in Nat /\ r = p + d BY <1>1, <1>6
    <2>4. inner[s] <= p BY <2>1, <2>2
    <2> HIDE DEF p
    <2>5. QED BY <1>1, <1>3, <1>6, <2>3, <2>4
  <1> DEFINE o == Width * j
  <1>9. o \in Nat /\ o <= r /\ r < o + Width
    <2>1. o \in Nat /\ r = o + d BY <1>1, <1>6
    <2> HIDE DEF o
    <2>2. QED BY <1>1, <1>6, <2>1
  <1>10. o \in Offsets(s)
    <2>1. j \in 0..(c - 1) BY <1>5, <1>6, <1>8
    <2>2. QED BY <2>1 DEF Offsets, c
  <1>11. e = q * inner[s] + r BY <1>1, <1>3
  <1>12. TileOf(s, e) = q /\ OffsetOf(s, e) = o /\ RestOf(s, e) = r BY DEF TileOf, RestOf, OffsetOf, q, r, j
  <1> HIDE DEF o
  <1>13. QED BY <1>1, <1>3, <1>7, <1>9, <1>10, <1>11, <1>12

\* An element of a side is in one block of one tile.
LEMMA ElementBlock ==
  ASSUME LoopInv, Whole, NEW s \in Sides, NEW e \in 0..(shape[s] - 1), NEW o \in Offsets(s),
         NEW t, t[s] \in Nat
  PROVE  e \in Elements(t, s, o) <=> t[s] = TileOf(s, e) /\ o = OffsetOf(s, e)
  <1>1. /\ inner[s] \in Nat /\ inner[s] > 0 /\ Width \in Nat /\ Width > 0 /\ shape[s] \in Nat
    BY LoopNumbers
  <1>2. e \in Nat BY <1>1
  <1>3. o \in Nat /\ o + Width <= Width * ceil(inner[s], Width) /\ \E j \in Nat : o = Width * j
    BY OffsetInside
  <1>4. o + Width <= inner[s] BY <1>3 DEF Whole
  <1> DEFINE q == TileOf(s, e)
             r == RestOf(s, e)
             u == OffsetOf(s, e)
             p == t[s] * inner[s]
  <1>5. /\ q \in Nat /\ u \in Nat /\ u <= r /\ r < u + Width /\ e = q * inner[s] + r
        /\ r \in Nat /\ r < inner[s]
    BY ElementPlace
  <1>6. u = Width * (r \div Width) BY DEF OffsetOf
  <1>7. p \in Nat BY <1>1
  <1>8. Elements(t, s, o) = (p + o)..(p + o + Width - 1) BY DEF Elements
  <1> HIDE DEF q, r, u
  <1>9. ASSUME e \in Elements(t, s, o) PROVE t[s] = q /\ o = u
    <2> DEFINE d == e - p
    <2>1. d \in Nat /\ o <= d /\ d < o + Width /\ e = p + d
      <3> HIDE DEF p
      <3>1. QED BY <1>1, <1>2, <1>3, <1>7, <1>8, <1>9
    <2> HIDE DEF d
    <2>2. d < inner[s] BY <1>1, <1>3, <1>4, <2>1
    <2>3. t[s] * inner[s] + d = q * inner[s] + r BY <1>5, <2>1
    <2>4. t[s] = q /\ d = r
      <3>1. q \in Nat /\ r \in Nat /\ r < inner[s] /\ d \in Nat /\ inner[s] \in Nat BY <1>1, <1>5, <2>1
      <3>2. QED BY <2>2, <2>3, <3>1, TwoDigits
    <2>5. PICK j \in Nat : o = Width * j BY <1>3
    <2>6. d - o \in Nat /\ d - o < Width BY <1>1, <1>3, <2>1
    <2> DEFINE x == d - o
    <2>7. r = j * Width + x
      <3>1. o = j * Width BY <1>1, <2>5
      <3>2. r = o + x BY <1>3, <2>1, <2>4
      <3>3. QED BY <3>1, <3>2
    <2> HIDE DEF x
    <2>8. (j * Width + x) \div Width = j BY <1>1, <2>6, Digits DEF x
    <2>9. QED BY <1>6, <2>4, <2>5, <2>7, <2>8
  <1>10. ASSUME t[s] = q, o = u PROVE e \in Elements(t, s, o)
    <2>1. e = p + r BY <1>5, <1>10
    <2> HIDE DEF p
    <2>2. QED BY <1>1, <1>5, <1>7, <1>8, <1>10, <2>1
  <1>11. QED BY <1>9, <1>10 DEF q, u

-----------------------------------------------------------------------------
\* The instructions for one output, as OutputsComplete counts them.
On(b) == {i \in DOMAIN tiles : tiles[i][B] = b}
StoresFor(b, m, n) ==
  {x \in UNION {{i} \X stores(tiles[i]) : i \in On(b)} :
     m \in Elements(tiles[x[1]], M, x[2].m) /\ n \in Elements(tiles[x[1]], N, x[2].n)}
GemmsFor(b, m, n, k) ==
  {x \in UNION {{i} \X gemms(tiles[i]) : i \in On(b)} :
     m \in Elements(tiles[x[1]], M, x[2].m) /\ n \in Elements(tiles[x[1]], N, x[2].n)
     /\ k \in Elements(tiles[x[1]], K, x[2].k)}
BiasesFor(b, m, n) ==
  {x \in UNION {{i} \X biases(tiles[i]) : i \in On(b)} :
     m \in Elements(tiles[x[1]], M, 0) /\ n \in Elements(tiles[x[1]], N, x[2].n)}

\* They are one store, one GEMM for each k and at most one bias.
Gemm(m, k, n) == [at |-> <<n, k, m, 2>>, dest |-> sram_accumulation_offset(m, n), m |-> m, k |-> k, n |-> n,
                  srcs |-> {sram_activation_offset(m, k), sram_weight_offset(k, n)}]
Store(m, k, n) == [at |-> <<n, k, m, 3>>, dest |-> sram_accumulation_offset(m, n), m |-> m, n |-> n]
Bias(n) == [at |-> <<-1, 0, 0, n>>, dest |-> sram_accumulation_offset(0, n), n |-> n]

\* Its tiles follow one another.
FirstTile(b, m, n) == Run(b, TileOf(M, m), TileOf(N, n)) * outer[K] + 1

Finished == LoopInv /\ TilesOK /\ Whole /\ pc = "done"

LEMMA SidesIn == M \in Sides /\ K \in Sides /\ N \in Sides
  BY DEF Sides

\* Which tiles belong to an output.
LEMMA OutputTile ==
  ASSUME Finished, NEW b \in 0..(Batches - 1), NEW m \in 0..(shape[M] - 1), NEW n \in 0..(shape[N] - 1)
  PROVE  /\ FirstTile(b, m, n) \in Nat
         /\ \A c \in 0..(outer[K] - 1) :
              /\ FirstTile(b, m, n) + c \in On(b)
              /\ tiles[FirstTile(b, m, n) + c] = <<TileOf(M, m), c, TileOf(N, n), b>>
         /\ \A i \in On(b) : tiles[i][M] = TileOf(M, m) /\ tiles[i][N] = TileOf(N, n) =>
              tiles[i][K] \in 0..(outer[K] - 1) /\ i = FirstTile(b, m, n) + tiles[i][K]
  <1>1. LoopInv /\ TilesOK /\ Whole /\ pc = "done" BY DEF Finished
  <1> DEFINE a == TileOf(M, m)
             e == TileOf(N, n)
             p == Run(b, a, e) * outer[K]
  <1>2. a \in Nat /\ a < outer[M] /\ e \in Nat /\ e < outer[N] BY <1>1, SidesIn, ElementPlace
  <1>3. outer[K] \in Nat \ {0} /\ Batches \in Nat /\ Total \in Nat BY <1>1, LoopNumbers
  <1>4. b \in Nat /\ b < Batches BY <1>3
  <1>5. FirstTile(b, m, n) = p + 1 BY DEF FirstTile
  <1>6. DOMAIN tiles = 1..Total /\ \A i \in 1..Total : i - 1 \in Nat /\ tiles[i] = tile_at(i - 1)
    BY <1>1, DoneTiles
  <1> HIDE DEF a, e
  <1>7. Run(b, a, e) \in Nat BY <1>1, <1>2, <1>3, <1>4, NumberTile, 0 \in Nat, 0 < outer[K]
  <1>8. p \in Nat BY <1>3, <1>7
  <1>9. \A c : Number(b, a, e, c) = p + c BY DEF Number
  <1> HIDE DEF p
  <1>10. ASSUME NEW c \in 0..(outer[K] - 1)
         PROVE  p + 1 + c \in On(b) /\ tiles[p + 1 + c] = <<a, c, e, b>>
    <2>1. c \in Nat /\ c < outer[K] BY <1>3
    <2>2. p + c < Total /\ tile_at(p + c) = <<a, c, e, b>> BY <1>1, <1>2, <1>4, <1>9, <2>1, NumberTile
    <2>3. p + 1 + c \in 1..Total /\ (p + 1 + c) - 1 = p + c BY <1>3, <1>8, <2>1, <2>2
    <2>4. tiles[p + 1 + c] = <<a, c, e, b>> BY <1>6, <2>2, <2>3
    <2>5. QED BY <1>6, <2>3, <2>4 DEF On, B
  <1>11. ASSUME NEW i \in On(b), tiles[i][M] = a, tiles[i][N] = e
         PROVE  tiles[i][K] \in 0..(outer[K] - 1) /\ i = p + 1 + tiles[i][K]
    <2>1. i \in 1..Total /\ tiles[i][B] = b BY <1>6 DEF On
    <2>2. i - 1 \in Nat /\ tiles[i] = tile_at(i - 1) BY <1>6, <2>1
    <2> DEFINE c == tiles[i][K]
    <2>3. i - 1 = Number(b, a, e, c) BY <1>1, <1>11, <2>1, <2>2, TileNumber
    <2>4. c \in Nat /\ c < outer[K] BY <1>1, <2>2, SidesIn, TileDigits
    <2>5. i - 1 = p + c BY <1>9, <2>3
    <2> HIDE DEF c
    <2>6. c \in 0..(outer[K] - 1) /\ i = p + 1 + c BY <1>3, <1>8, <2>1, <2>4, <2>5
    <2>7. QED BY <2>6 DEF c
  <1>12. QED BY <1>5, <1>8, <1>10, <1>11 DEF a, e

\* Digits of the tiles are numbers.
LEMMA TileTyped == ASSUME Finished, NEW i \in DOMAIN tiles, NEW s \in Sides
  PROVE tiles[i][s] \in Nat
  <1>1. LoopInv /\ TilesOK /\ pc = "done" BY DEF Finished
  <1>2. i - 1 \in Nat /\ tiles[i] = tile_at(i - 1) BY <1>1, DoneTiles
  <1>3. QED BY <1>1, <1>2, TileDigits

LEMMA OneGemm ==
  ASSUME Finished, NEW b \in 0..(Batches - 1), NEW m \in 0..(shape[M] - 1), NEW n \in 0..(shape[N] - 1),
         NEW k \in 0..(shape[K] - 1)
  PROVE  GemmsFor(b, m, n, k) =
           {<<FirstTile(b, m, n) + TileOf(K, k), Gemm(OffsetOf(M, m), OffsetOf(K, k), OffsetOf(N, n))>>}
  <1>1. LoopInv /\ TilesOK /\ Whole /\ pc = "done" BY DEF Finished
  <1> DEFINE g == Gemm(OffsetOf(M, m), OffsetOf(K, k), OffsetOf(N, n))
             j == FirstTile(b, m, n) + TileOf(K, k)
  <1>2. /\ TileOf(K, k) \in Nat /\ TileOf(K, k) < outer[K]
        /\ OffsetOf(M, m) \in Offsets(M) /\ OffsetOf(K, k) \in Offsets(K) /\ OffsetOf(N, n) \in Offsets(N)
        /\ TileOf(M, m) \in Nat /\ TileOf(N, n) \in Nat
    BY <1>1, SidesIn, ElementPlace
  <1>3. outer[K] \in Nat BY <1>1, SidesIn, LoopNumbers
  <1>4. TileOf(K, k) \in 0..(outer[K] - 1) BY <1>2, <1>3
  <1>5. j \in On(b) /\ tiles[j] = <<TileOf(M, m), TileOf(K, k), TileOf(N, n), b>>
    BY <1>4, OutputTile
  <1>6. tiles[j][M] = TileOf(M, m) /\ tiles[j][K] = TileOf(K, k) /\ tiles[j][N] = TileOf(N, n)
    BY <1>5 DEF M, K, N
  <1>7. g \in gemms(tiles[j])
    <2>1. ASSUME NEW u \in Offsets(M), NEW v \in Offsets(K), NEW w \in Offsets(N)
          PROVE  Gemm(u, v, w) \in gemms(tiles[j])
      <3>1. gemms(tiles[j]) = {Gemm(x, y, z) : x \in Offsets(M), y \in Offsets(K), z \in Offsets(N)}
        BY DEF gemms, Gemm
      <3>2. QED BY <3>1
    <2>2. QED BY <1>2, <2>1
  <1>8. g.m = OffsetOf(M, m) /\ g.k = OffsetOf(K, k) /\ g.n = OffsetOf(N, n) BY DEF Gemm
  <1> HIDE DEF g, j
  <1>9. <<j, g>> \in GemmsFor(b, m, n, k)
    <2>1. m \in Elements(tiles[j], M, g.m) BY <1>1, <1>2, <1>6, <1>8, SidesIn, ElementBlock
    <2>2. n \in Elements(tiles[j], N, g.n) BY <1>1, <1>2, <1>6, <1>8, SidesIn, ElementBlock
    <2>3. k \in Elements(tiles[j], K, g.k) BY <1>1, <1>2, <1>6, <1>8, SidesIn, ElementBlock
    <2>4. QED BY <1>5, <1>7, <2>1, <2>2, <2>3 DEF GemmsFor
  <1>10. ASSUME NEW x \in GemmsFor(b, m, n, k) PROVE x = <<j, g>>
    <2>1. PICK i \in On(b) : x \in {i} \X gemms(tiles[i]) BY DEF GemmsFor
    <2>2. PICK h \in gemms(tiles[i]) : x = <<i, h>> BY <2>1
    <2>3. m \in Elements(tiles[i], M, h.m) /\ n \in Elements(tiles[i], N, h.n)
          /\ k \in Elements(tiles[i], K, h.k)
      BY <2>2 DEF GemmsFor
    <2>4. PICK u \in Offsets(M), v \in Offsets(K), w \in Offsets(N) : h = Gemm(u, v, w)
      BY <2>2 DEF gemms, Gemm
    <2>5. h.m = u /\ h.k = v /\ h.n = w BY <2>4 DEF Gemm
    <2>6. i \in DOMAIN tiles BY DEF On
    <2>7. tiles[i][M] = TileOf(M, m) /\ u = OffsetOf(M, m)
      BY <1>1, <2>3, <2>5, <2>6, SidesIn, TileTyped, ElementBlock
    <2>8. tiles[i][N] = TileOf(N, n) /\ w = OffsetOf(N, n)
      BY <1>1, <2>3, <2>5, <2>6, SidesIn, TileTyped, ElementBlock
    <2>9. tiles[i][K] = TileOf(K, k) /\ v = OffsetOf(K, k)
      BY <1>1, <2>3, <2>5, <2>6, SidesIn, TileTyped, ElementBlock
    <2>10. i = j BY <2>7, <2>8, <2>9, OutputTile DEF j
    <2>11. QED BY <2>2, <2>4, <2>7, <2>8, <2>9, <2>10 DEF g
  <1>11. QED BY <1>9, <1>10 DEF g, j

LEMMA OneStore ==
  ASSUME Finished, NEW b \in 0..(Batches - 1), NEW m \in 0..(shape[M] - 1), NEW n \in 0..(shape[N] - 1)
  PROVE  StoresFor(b, m, n) =
           {<<FirstTile(b, m, n) + (outer[K] - 1), Store(OffsetOf(M, m), inner[K] - Width, OffsetOf(N, n))>>}
  <1>1. LoopInv /\ TilesOK /\ Whole /\ pc = "done" BY DEF Finished
  <1> DEFINE g == Store(OffsetOf(M, m), inner[K] - Width, OffsetOf(N, n))
             j == FirstTile(b, m, n) + (outer[K] - 1)
             last == {x \in Offsets(K) : last_k(x)}
  <1>2. /\ OffsetOf(M, m) \in Offsets(M) /\ OffsetOf(N, n) \in Offsets(N)
        /\ TileOf(M, m) \in Nat /\ TileOf(N, n) \in Nat
    BY <1>1, SidesIn, ElementPlace
  <1>3. outer[K] \in Nat \ {0} /\ inner[K] \in Nat \ {0} /\ Width \in Nat /\ Width > 0
    BY <1>1, SidesIn, LoopNumbers
  <1>4. last = {inner[K] - Width}
    <2> DEFINE c == ceil(inner[K], Width)
    <2>1. c \in Nat \ {0} BY <1>3, Ceil
    <2>2. Width * c = inner[K] BY <1>1, SidesIn DEF Whole
    <2> HIDE DEF c
    <2>3. inner[K] - Width = Width * (c - 1) BY <1>3, <2>1, <2>2
    <2>4. inner[K] - Width \in Offsets(K) BY <2>1, <2>3 DEF Offsets, c
    <2>5. inner[K] - Width + Width >= inner[K] BY <1>3
    <2>6. ASSUME NEW x \in Offsets(K), x + Width >= inner[K] PROVE x = inner[K] - Width
      <3>1. x \in Nat /\ x + Width <= inner[K] BY <1>1, <2>2, SidesIn, OffsetInside DEF c
      <3>2. QED BY <1>3, <2>6, <3>1
    <2>7. QED BY <2>4, <2>5, <2>6 DEF last_k
  <1> HIDE DEF last
  <1>5. j \in On(b) /\ tiles[j] = <<TileOf(M, m), outer[K] - 1, TileOf(N, n), b>>
    <2>1. outer[K] - 1 \in 0..(outer[K] - 1) BY <1>3
    <2>2. QED BY <2>1, OutputTile
  <1>6. tiles[j][M] = TileOf(M, m) /\ tiles[j][K] = outer[K] - 1 /\ tiles[j][N] = TileOf(N, n)
    BY <1>5 DEF M, K, N
  <1>7. should_store(tiles[j]) BY <1>3, <1>6 DEF should_store
  <1>8. g \in stores(tiles[j]) BY <1>2, <1>4, <1>7 DEF stores, Store, last
  <1>9. g.m = OffsetOf(M, m) /\ g.n = OffsetOf(N, n) BY DEF Store
  <1> HIDE DEF g, j
  <1>10. <<j, g>> \in StoresFor(b, m, n)
    <2>1. m \in Elements(tiles[j], M, g.m) BY <1>1, <1>2, <1>6, <1>9, SidesIn, ElementBlock
    <2>2. n \in Elements(tiles[j], N, g.n) BY <1>1, <1>2, <1>6, <1>9, SidesIn, ElementBlock
    <2>3. QED BY <1>5, <1>8, <2>1, <2>2 DEF StoresFor
  <1>11. ASSUME NEW x \in StoresFor(b, m, n) PROVE x = <<j, g>>
    <2>1. PICK i \in On(b) : x \in {i} \X stores(tiles[i]) BY DEF StoresFor
    <2>2. PICK h \in stores(tiles[i]) : x = <<i, h>> BY <2>1
    <2>3. m \in Elements(tiles[i], M, h.m) /\ n \in Elements(tiles[i], N, h.n)
      BY <2>2 DEF StoresFor
    <2>4. should_store(tiles[i]) BY <2>2 DEF stores
    <2>5. PICK u \in Offsets(M), v \in last, w \in Offsets(N) : h = Store(u, v, w)
      BY <2>2, <2>4 DEF stores, Store, last
    <2>6. h.m = u /\ h.n = w BY <2>5 DEF Store
    <2>7. i \in DOMAIN tiles BY DEF On
    <2>8. tiles[i][M] = TileOf(M, m) /\ u = OffsetOf(M, m)
      BY <1>1, <2>3, <2>6, <2>7, SidesIn, TileTyped, ElementBlock
    <2>9. tiles[i][N] = TileOf(N, n) /\ w = OffsetOf(N, n)
      BY <1>1, <2>3, <2>6, <2>7, SidesIn, TileTyped, ElementBlock
    <2>10. tiles[i][K] = outer[K] - 1
      <3>1. tiles[i][K] \in Nat BY <2>7, SidesIn, TileTyped
      <3>2. QED BY <1>3, <2>4, <3>1 DEF should_store
    <2>11. i = j BY <2>8, <2>9, <2>10, OutputTile DEF j
    <2>12. QED BY <1>4, <2>2, <2>5, <2>8, <2>9, <2>11 DEF g
  <1>12. QED BY <1>10, <1>11 DEF g, j

\* The bias goes to the blocks of the first rows of a tile.
LEMMA OneBias ==
  ASSUME Finished, NEW b \in 0..(Batches - 1), NEW m \in 0..(shape[M] - 1), NEW n \in 0..(shape[N] - 1)
  PROVE  BiasesFor(b, m, n) = IF HasBias /\ OffsetOf(M, m) = 0
                              THEN {<<FirstTile(b, m, n), Bias(OffsetOf(N, n))>>} ELSE {}
  <1>1. LoopInv /\ TilesOK /\ Whole /\ pc = "done" BY DEF Finished
  <1> DEFINE g == Bias(OffsetOf(N, n))
             j == FirstTile(b, m, n)
  <1>2. /\ OffsetOf(N, n) \in Offsets(N) /\ TileOf(M, m) \in Nat /\ TileOf(N, n) \in Nat
    BY <1>1, SidesIn, ElementPlace
  <1>3. outer[K] \in Nat \ {0} /\ inner[M] \in Nat \ {0} /\ Width \in Nat BY <1>1, SidesIn, LoopNumbers
  <1>4. 0 \in Offsets(M)
    <2>1. ceil(inner[M], Width) \in Nat \ {0} BY <1>3, Ceil
    <2>2. 0 \in 0..(ceil(inner[M], Width) - 1) /\ Width * 0 = 0 BY <1>3, <2>1
    <2>3. QED BY <2>2 DEF Offsets
  <1>5. ASSUME NEW x \in BiasesFor(b, m, n) PROVE HasBias /\ OffsetOf(M, m) = 0 /\ x = <<j, g>>
    <2>1. PICK i \in On(b) : x \in {i} \X biases(tiles[i]) BY DEF BiasesFor
    <2>2. PICK h \in biases(tiles[i]) : x = <<i, h>> BY <2>1
    <2>3. m \in Elements(tiles[i], M, 0) /\ n \in Elements(tiles[i], N, h.n)
      BY <2>2 DEF BiasesFor
    <2>4. HasBias /\ ~accum(tiles[i]) BY <2>2 DEF biases
    <2>5. PICK w \in Offsets(N) : h = Bias(w) BY <2>2, <2>4 DEF biases, Bias
    <2>6. h.n = w BY <2>5 DEF Bias
    <2>7. i \in DOMAIN tiles BY DEF On
    <2>8. tiles[i][M] = TileOf(M, m) /\ 0 = OffsetOf(M, m)
      BY <1>1, <1>4, <2>3, <2>7, SidesIn, TileTyped, ElementBlock
    <2>9. tiles[i][N] = TileOf(N, n) /\ w = OffsetOf(N, n)
      BY <1>1, <2>3, <2>6, <2>7, SidesIn, TileTyped, ElementBlock
    <2>10. tiles[i][K] = 0 BY <2>4 DEF accum
    <2>11. i = FirstTile(b, m, n) + 0 /\ FirstTile(b, m, n) \in Nat BY <2>8, <2>9, <2>10, OutputTile
    <2>12. i = j BY <2>11
    <2>13. QED BY <2>2, <2>4, <2>5, <2>8, <2>9, <2>12
  <1>6. ASSUME HasBias, OffsetOf(M, m) = 0 PROVE <<j, g>> \in BiasesFor(b, m, n)
    <2>1. 0 \in 0..(outer[K] - 1) BY <1>3
    <2>2. FirstTile(b, m, n) \in Nat /\ FirstTile(b, m, n) + 0 \in On(b)
          /\ tiles[FirstTile(b, m, n) + 0] = <<TileOf(M, m), 0, TileOf(N, n), b>>
      BY <2>1, OutputTile
    <2>3. j \in On(b) /\ tiles[j] = <<TileOf(M, m), 0, TileOf(N, n), b>> BY <2>2
    <2>4. tiles[j][M] = TileOf(M, m) /\ tiles[j][K] = 0 /\ tiles[j][N] = TileOf(N, n)
      BY <2>3 DEF M, K, N
    <2>5. g \in biases(tiles[j]) BY <1>2, <1>6, <2>4 DEF biases, Bias, accum
    <2>6. g.n = OffsetOf(N, n) BY DEF Bias
    <2> HIDE DEF g, j
    <2>7. m \in Elements(tiles[j], M, 0) BY <1>1, <1>2, <1>4, <1>6, <2>4, SidesIn, ElementBlock
    <2>8. n \in Elements(tiles[j], N, g.n) BY <1>1, <1>2, <2>4, <2>6, SidesIn, ElementBlock
    <2>9. QED BY <2>3, <2>5, <2>7, <2>8 DEF BiasesFor
  <1> HIDE DEF g, j
  <1>7. CASE HasBias /\ OffsetOf(M, m) = 0
    <2>1. BiasesFor(b, m, n) = {<<j, g>>} BY <1>5, <1>6, <1>7
    <2>2. QED BY <1>7, <2>1 DEF g, j
  <1>8. CASE ~(HasBias /\ OffsetOf(M, m) = 0)
    <2>1. BiasesFor(b, m, n) = {} BY <1>5, <1>8
    <2>2. QED BY <1>8, <2>1
  <1>9. QED BY <1>7, <1>8

-----------------------------------------------------------------------------
\* The order of the instructions of one output, and where they work.
LEMMA GemmBeforeStore ==
  ASSUME NEW f \in Nat, NEW c \in Nat, NEW d \in Nat, c <= d,
         NEW m \in Nat, NEW k \in Nat, NEW n \in Nat, NEW l \in Nat, k <= l
  PROVE  Earlier(f + c, <<n, k, m, 2>>, f + d, <<n, l, m, 3>>)
  <1>1. CASE c < d BY <1>1 DEF Earlier
  <1>2. CASE c = d
    <2>1. Before(<<n, k, m, 2>>, <<n, l, m, 3>>)
      <3>1. CASE k < l BY <3>1 DEF Before
      <3>2. CASE k = l BY <3>2 DEF Before
      <3>3. QED BY <3>1, <3>2
    <2>2. QED BY <1>2, <2>1 DEF Earlier
  <1>3. QED BY <1>1, <1>2

LEMMA BiasBeforeGemm ==
  ASSUME NEW f \in Nat, NEW c \in Nat, NEW m \in Nat, NEW k \in Nat, NEW n \in Nat
  PROVE  Earlier(f, <<-1, 0, 0, n>>, f + c, <<n, k, m, 2>>)
  <1>1. Before(<<-1, 0, 0, n>>, <<n, k, m, 2>>) BY DEF Before
  <1>2. QED BY <1>1 DEF Earlier

LEMMA MatMulOutputs == MatMulInv => OutputsComplete
  <1> SUFFICES ASSUME MatMulInv, pc = "done", IndexesInRange,
                      NEW b \in 0..(Batches - 1), NEW m \in 0..(shape[M] - 1), NEW n \in 0..(shape[N] - 1)
               PROVE  LET S == StoresFor(b, m, n)
                          F == BiasesFor(b, m, n)
                      IN  /\ Cardinality(S) = 1
                          /\ m < Width /\ HasBias => Cardinality(F) = 1
                          /\ \A s \in S : \A k \in 0..(shape[K] - 1) :
                               /\ Cardinality(GemmsFor(b, m, n, k)) = 1
                               /\ \A g \in GemmsFor(b, m, n, k) :
                                    /\ Earlier(g[1], g[2].at, s[1], s[2].at) /\ g[2].dest = s[2].dest
                                    /\ \A f \in F : Earlier(f[1], f[2].at, g[1], g[2].at)
                                                    /\ f[2].dest = g[2].dest
                                    /\ \A i \in g[1]..s[1] : accum(tiles[i]) <=> i > s[1] - outer[K] + 1
    BY DEF OutputsComplete, StoresFor, BiasesFor, GemmsFor, On
  <1>1. Finished BY DoneWhole DEF Finished, MatMulInv
  <1>2. LoopInv /\ Whole BY <1>1 DEF Finished
  <1> DEFINE r == FirstTile(b, m, n)
             u == OffsetOf(M, m)
             w == OffsetOf(N, n)
             l == inner[K] - Width
             S == StoresFor(b, m, n)
             F == BiasesFor(b, m, n)
  <1>3. r \in Nat /\ \A c \in 0..(outer[K] - 1) : tiles[r + c] = <<TileOf(M, m), c, TileOf(N, n), b>>
    BY <1>1, OutputTile
  <1>4. outer[K] \in Nat \ {0} /\ inner[K] \in Nat \ {0} /\ Width \in Nat /\ Width > 0
        /\ inner[M] \in Nat \ {0} /\ shape[M] \in Nat
    BY <1>2, SidesIn, LoopNumbers
  <1>5. u \in Nat /\ w \in Nat BY <1>2, SidesIn, ElementPlace
  <1>6. S = {<<r + (outer[K] - 1), Store(u, l, w)>>} BY <1>1, OneStore
  <1>7. F = IF HasBias /\ u = 0 THEN {<<r, Bias(w)>>} ELSE {} BY <1>1, OneBias
  <1>8. Cardinality(S) = 1
    <2> HIDE DEF S
    <2>1. QED BY <1>6, FS_Singleton
  <1>9. ASSUME m < Width, HasBias PROVE Cardinality(F) = 1
    <2>1. u = 0
      <3>1. Width * ceil(inner[M], Width) = inner[M] BY <1>2, SidesIn DEF Whole
      <3>2. ceil(inner[M], Width) \in Nat \ {0} BY <1>4, Ceil
      <3>3. Width <= inner[M]
        <4>1. 1 * Width <= ceil(inner[M], Width) * Width BY <1>4, <3>2, TimesMono
        <4>2. ceil(inner[M], Width) * Width = inner[M] BY <1>4, <3>1, <3>2
        <4>3. QED BY <1>4, <4>1, <4>2
      <3>4. m \in Nat /\ m < inner[M] BY <1>4, <1>9, <3>3
      <3>5. RestOf(M, m) = m
        <4>1. (0 * inner[M] + m) % inner[M] = m BY <1>4, <3>4, Digits
        <4>2. 0 * inner[M] + m = m BY <1>4, <3>4
        <4>3. QED BY <4>1, <4>2 DEF RestOf
      <3>6. m \div Width = 0
        <4>1. (0 * Width + m) \div Width = 0 BY <1>4, <1>9, <3>4, Digits
        <4>2. 0 * Width + m = m BY <1>4, <3>4
        <4>3. QED BY <4>1, <4>2
      <3>7. Width * 0 = 0 BY <1>4
      <3>8. QED BY <3>5, <3>6, <3>7 DEF OffsetOf
    <2>2. F = {<<r, Bias(w)>>} BY <1>7, <1>9, <2>1
    <2> HIDE DEF F
    <2>3. QED BY <2>2, FS_Singleton
  <1> HIDE DEF S, F
  <1>10. ASSUME NEW s \in S, NEW k \in 0..(shape[K] - 1)
         PROVE  /\ Cardinality(GemmsFor(b, m, n, k)) = 1
                /\ \A g \in GemmsFor(b, m, n, k) :
                     /\ Earlier(g[1], g[2].at, s[1], s[2].at) /\ g[2].dest = s[2].dest
                     /\ \A f \in F : Earlier(f[1], f[2].at, g[1], g[2].at) /\ f[2].dest = g[2].dest
                     /\ \A i \in g[1]..s[1] : accum(tiles[i]) <=> i > s[1] - outer[K] + 1
    <2> DEFINE v == OffsetOf(K, k)
               c == TileOf(K, k)
               d == outer[K] - 1
    <2>1. GemmsFor(b, m, n, k) = {<<r + c, Gemm(u, v, w)>>} BY <1>1, OneGemm
    <2>2. Cardinality(GemmsFor(b, m, n, k)) = 1 BY <2>1, FS_Singleton
    <2>3. v \in Nat /\ v \in Offsets(K) /\ c \in Nat /\ c < outer[K] BY <1>2, SidesIn, ElementPlace
    <2>4. v <= l /\ l \in Nat
      <3>1. v + Width <= Width * ceil(inner[K], Width) BY <1>2, <2>3, SidesIn, OffsetInside
      <3>2. Width * ceil(inner[K], Width) = inner[K] BY <1>2, SidesIn DEF Whole
      <3> HIDE DEF v
      <3>3. QED BY <1>4, <2>3, <3>1, <3>2
    <2>5. d \in Nat /\ c <= d BY <1>4, <2>3
    <2>6. s[1] = r + d /\ s[2] = Store(u, l, w) BY <1>6
    <2> HIDE DEF r, u, v, w, l, c
    <2>7. ASSUME NEW g \in GemmsFor(b, m, n, k)
          PROVE  /\ Earlier(g[1], g[2].at, s[1], s[2].at) /\ g[2].dest = s[2].dest
                 /\ \A f \in F : Earlier(f[1], f[2].at, g[1], g[2].at) /\ f[2].dest = g[2].dest
                 /\ \A i \in g[1]..s[1] : accum(tiles[i]) <=> i > s[1] - outer[K] + 1
      <3>1. g[1] = r + c /\ g[2] = Gemm(u, v, w) BY <2>1
      <3>2. Earlier(g[1], g[2].at, s[1], s[2].at)
        <4>1. Earlier(r + c, <<w, v, u, 2>>, r + d, <<w, l, u, 3>>)
          BY <1>3, <1>5, <2>3, <2>4, <2>5, GemmBeforeStore
        <4>2. g[2].at = <<w, v, u, 2>> /\ s[2].at = <<w, l, u, 3>> BY <2>6, <3>1 DEF Gemm, Store
        <4>3. QED BY <2>6, <3>1, <4>1, <4>2
      <3>3. g[2].dest = s[2].dest BY <2>6, <3>1 DEF Gemm, Store
      <3>4. ASSUME NEW f \in F PROVE Earlier(f[1], f[2].at, g[1], g[2].at) /\ f[2].dest = g[2].dest
        <4>1. u = 0 /\ f = <<r, Bias(w)>> BY <1>7
        <4>2. f[1] = r /\ f[2].at = <<-1, 0, 0, w>> /\ f[2].dest = sram_accumulation_offset(0, w)
          BY <4>1 DEF Bias
        <4>3. Earlier(r, <<-1, 0, 0, w>>, r + c, <<w, v, u, 2>>)
          BY <1>3, <1>5, <2>3, BiasBeforeGemm
        <4>4. g[2].at = <<w, v, u, 2>> /\ g[2].dest = sram_accumulation_offset(u, w) BY <3>1 DEF Gemm
        <4>5. QED BY <3>1, <4>1, <4>2, <4>3, <4>4
      <3>5. ASSUME NEW i \in g[1]..s[1] PROVE accum(tiles[i]) <=> i > s[1] - outer[K] + 1
        <4>1. i \in (r + c)..(r + d) BY <2>6, <3>1
        <4> DEFINE e == i - r
        <4>2. e \in 0..(outer[K] - 1) /\ i = r + e BY <1>3, <1>4, <2>3, <2>5, <4>1
        <4>3. s[1] - outer[K] + 1 = r BY <1>3, <1>4, <2>6
        <4> HIDE DEF e
        <4>4. tiles[i] = <<TileOf(M, m), e, TileOf(N, n), b>> BY <1>3, <4>2
        <4>5. accum(tiles[i]) <=> e # 0 BY <4>4 DEF accum, K
        <4>6. i > r <=> e # 0 BY <1>3, <1>4, <4>2
        <4>7. QED BY <4>3, <4>5, <4>6
      <3>6. QED BY <3>2, <3>3, <3>4, <3>5
    <2>8. QED BY <2>2, <2>7
  <1>11. QED BY <1>8, <1>9, <1>10 DEF S, F

-----------------------------------------------------------------------------
\* Whatever the shape, no row or column of the product is left without a tile
\* (MatMul::calculate_loops).
THEOREM Covered == Spec => []SidesCovered
  <1>1. LoopInv => SidesCovered BY DEF LoopInv
  <1>2. QED BY <1>1, LoopInit, LoopStep, PTL DEF Spec

\* Both operands of a GEMM are loaded by exactly one earlier MOVIN of its tile,
\* whatever the shape and the width of the core (initialize_instructions).
THEOREM AlwaysSourcesLoaded == Spec => []SourcesLoaded
  BY MatMulInit, MatMulStep, MatMulSources, PTL DEF Spec

\* With sides of 2^j blocks no index of an instruction is outside its tensor, so
\* NPUTensor::get_addr does not throw.
THEOREM AlwaysPowersInRange == Spec => []PowersInRange
  BY MatMulInit, MatMulStep, MatMulPowers, PTL DEF Spec

\* When no index is out of range, MatMul computes every element of its output
\* completely, from its own batch, row and column only, and stores it once,
\* after the last GEMM for it (initialize_tiles, initialize_instructions).
THEOREM AlwaysOutputsComplete == Spec => []OutputsComplete
  BY MatMulInit, MatMulStep, MatMulOutputs, PTL DEF Spec
=============================================================================
