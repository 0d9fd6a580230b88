--------------------------- MODULE MhaTilingProofs ---------------------------
(***************************************************************************)
(* The tiles of multi-head attention lose no request at a cut, no two      *)
(* results share a place, a sum is computed from the results of its head,  *)
(* rows exist, headers announce what follows and tiles fit the scratchpad: *)
(* for every list of lengths, number of heads and devices, size of rows    *)
(* and number of banks.                                                    *)
(***************************************************************************)
EXTENDS MhaTiling, HalvingLemmas, FiniteSetTheorems, TLAPS

\* PIMGEMV and PIMGEMVSoftmax count with 32 banks; with fewer of them than the
\* memory has they would ask for rows that do not exist.
BanksAgree == Banks <= FixedBanks

-----------------------------------------------------------------------------
\* The requests, which do not change.
Given ==
  /\ op \in AllOperations /\ n_tp \in TpSizes
  /\ batch_size \in Nat \ {0} /\ seq_len \in [0..(batch_size - 1) -> Nat \ {0}]

\* A tile, and the place of an instruction in the program.
Place == Int \X Int \X Int \X Int \X Int \X Int
Record(T) == T = [start |-> T.start, end |-> T.end, headers |-> T.headers,
                  gemvs |-> T.gemvs, sums |-> T.sums, stores |-> T.stores]

Numbers ==
  /\ i \in Nat /\ i <= batch_size /\ req_idxs \in Seq(Nat) /\ prev_idx \in Nat /\ next \in Nat
  /\ spad_addr \in Nat /\ acc_spad_addr \in Nat
  /\ tiles \in Seq({tiles[k] : k \in DOMAIN tiles}) /\ \A k \in DOMAIN tiles : Record(tiles[k])
  /\ pc \in {"cut", "tile", "request", "done", "aborted"}

\* The cuts follow one another, and the requests of a tile are written up to
\* the last one.
Cuts ==
  /\ \A k, l \in DOMAIN req_idxs : k <= l => req_idxs[k] <= req_idxs[l]
  /\ \A k \in DOMAIN req_idxs : req_idxs[k] < batch_size
  /\ pc = "cut" => tiles = <<>> /\ \A k \in DOMAIN req_idxs : req_idxs[k] < i
  /\ Len(tiles) <= Len(req_idxs)
  /\ prev_idx = IF tiles = <<>> THEN 0 ELSE req_idxs[Len(tiles)]
  /\ pc = "tile" => Len(tiles) < Len(req_idxs) /\ prev_idx <= next
  /\ pc = "request" =>
       /\ Len(tiles) > 0 /\ tiles[Len(tiles)].end = req_idxs[Len(tiles)]
       /\ next <= req_idxs[Len(tiles)]
       /\ Len(tiles) = Len(req_idxs) => req_idxs[Len(tiles)] = batch_size - 1
  /\ pc = "done" => next = batch_size

\* What is written lies below the addresses that are given next ...
InSpace == \A k \in DOMAIN tiles : LET T == tiles[k] IN
  /\ \A g \in T.gemvs : g.req \in Nat /\ g.dest \in Nat /\ g.dest < spad_addr
  /\ \A s \in T.sums :
       /\ s.dest \in Nat /\ s.size \in Nat /\ s.dest + s.size <= acc_spad_addr
       /\ \A a \in s.srcs : a \in Nat /\ a < spad_addr
  /\ \A x \in T.headers \cup T.gemvs : x.at \in Place

\* ... and before the request that is written next.
Earlier == pc = "request" => LET T == tiles[Len(tiles)] IN
  /\ \A g \in T.gemvs : g.req < next
  /\ \A x \in T.headers \cup T.gemvs : x.at[1] < next

\* The heads of the requests so far are stored.
StoredIn(k, r, h) == \E m \in tiles[k].stores, s \in tiles[k].sums :
  /\ m.req = r /\ m.head = h /\ s.req = r /\ s.head = h
  /\ m.src = s.dest /\ Before(s.at, m.at)
StoredSoFar == \A r \in 0..(next - 1), h \in Heads :
  r \in DOMAIN seq_len /\ (OfKeys \/ value_chunks(r) > 1) => \E k \in DOMAIN tiles : StoredIn(k, r, h)

MhaInv == Given /\ Numbers /\ Cuts /\ InSpace /\ Earlier /\ StoredSoFar
          /\ SourcesLoaded /\ (BanksAgree => RowsInTensor) /\ HeadersAnnounce

-----------------------------------------------------------------------------
\* Division.
LEMMA DivMono == ASSUME NEW a \in Nat, NEW b \in Nat, NEW n \in Nat, n > 0, a <= b
  PROVE  a \div n \in Nat /\ b \div n \in Nat /\ a \div n <= b \div n
  <1> DEFINE p == a \div n
             q == b \div n
             x == a % n
             y == b % n
  <1>1. a = n * p + x /\ x \in Nat /\ x < n /\ p \in Nat BY DivMod
  <1>2. b = n * q + y /\ y \in Nat /\ y < n /\ q \in Nat BY DivMod
  <1> HIDE DEF p, q, x, y
  <1>3. ASSUME q + 1 <= p PROVE FALSE
    <2>1. (q + 1) * n <= p * n BY <1>1, <1>2, <1>3, TimesMono, q + 1 \in Nat
    <2>2. (q + 1) * n = n * q + n /\ p * n = n * p BY <1>1, <1>2
    <2> DEFINE u == n * q
               v == n * p
    <2>3. u \in Nat /\ v \in Nat /\ u + n <= v /\ a = v + x /\ b = u + y
      BY <1>1, <1>2, <2>1, <2>2
    <2> HIDE DEF u, v
    <2>4. QED BY <1>1, <1>2, <2>3
  <1>4. p <= q BY <1>1, <1>2, <1>3
  <1>5. QED BY <1>1, <1>2, <1>4 DEF p, q

LEMMA DivExact == ASSUME NEW a \in Nat, NEW n \in Nat, n > 0
  PROVE  (a * n) \div n = a
  <1>1. (a * n + 0) \div n = a BY Digits
  <1>2. a * n + 0 = a * n BY a * n \in Nat
  <1>3. QED BY <1>1, <1>2

LEMMA Ceil == ASSUME NEW a \in Nat, NEW n \in Nat \ {0}
  PROVE  ceil(a, n) \in Nat /\ (a > 0 => ceil(a, n) > 0)
  <1>1. a + n - 1 \in Nat BY a + n - 1 >= 0
  <1>2. ceil(a, n) \in Nat BY <1>1, DivMono DEF ceil
  <1>3. ASSUME a > 0 PROVE ceil(a, n) > 0
    <2>1. n <= a + n - 1 BY <1>3
    <2>2. n \div n <= (a + n - 1) \div n BY <1>1, <2>1, DivMono
    <2>3. (1 * n) \div n = 1 BY DivExact
    <2>4. 1 * n = n OBVIOUS
    <2>5. 1 <= ceil(a, n) BY <2>2, <2>3, <2>4 DEF ceil
    <2>6. QED BY <1>2, <2>5
  <1>4. QED BY <1>2, <1>3

LEMMA CeilMono == ASSUME NEW a \in Nat, NEW n \in Nat \ {0}, NEW b \in Nat, b <= a
  PROVE  ceil(b, n) <= ceil(a, n)
  <1>1. a + n - 1 \in Nat BY a + n - 1 >= 0
  <1>2. b + n - 1 \in Nat /\ b + n - 1 <= a + n - 1 BY b + n - 1 >= 0
  <1>3. QED BY <1>1, <1>2, DivMono DEF ceil

LEMMA CeilBound == ASSUME NEW a \in Nat, NEW n \in Nat \ {0}, NEW b \in Nat, a <= b * n
  PROVE  ceil(a, n) <= b
  <1>1. a + n - 1 \in Nat BY a + n - 1 >= 0
  <1>2. b * n \in Nat OBVIOUS
  <1>3. n - 1 \in Nat /\ n - 1 < n OBVIOUS
  <1>4. (b * n + (n - 1)) \div n = b /\ b * n + (n - 1) \in Nat BY <1>3, Digits
  <1> DEFINE p == b * n
  <1>5. p \in Nat /\ a <= p BY <1>2
  <1> HIDE DEF p
  <1>6. a + n - 1 <= p + (n - 1) /\ p + (n - 1) \in Nat BY <1>5
  <1>7. (a + n - 1) \div n <= (p + (n - 1)) \div n BY <1>1, <1>6, DivMono
  <1>8. QED BY <1>4, <1>7 DEF ceil, p

LEMMA Positive ==
  /\ NumEmbd \in Nat \ {0} /\ Dk \in Nat \ {0} /\ PageSize \in Nat \ {0} /\ Banks \in Nat \ {0}
  /\ FixedBanks \in Nat \ {0} /\ CompCoverage \in Nat \ {0} /\ Precision \in Nat \ {0}
  BY MhaAssumption

LEMMA DivBelow == ASSUME NEW a \in Nat, NEW n \in Nat, n > 0
  PROVE  a \div n \in Nat /\ a \div n <= a
  <1> DEFINE q == a \div n
             r == a % n
  <1>1. a = n * q + r /\ r \in Nat /\ q \in Nat BY DivMod
  <1> HIDE DEF q, r
  <1>2. 1 * q <= n * q BY <1>1, TimesMono
  <1>3. n * q \in Nat BY <1>1
  <1>4. QED BY <1>1, <1>2, <1>3 DEF q

\* The numbers of the loops.
LEMMA LoopSizes == ASSUME Given
  PROVE  /\ E \in Nat /\ E <= NumEmbd /\ Nh \in Nat
         /\ chunks \in Nat /\ chunks <= ceil(NumEmbd, PageSize)
         /\ heads_per_tile \in Nat \ {0} /\ comps_per_head \in Nat \ {0}
         /\ \A c \in Nat : heads_in_tile(c) \in Nat /\ heads_in_tile(c) <= heads_per_tile
                           /\ (c < chunks - 1 => heads_in_tile(c) = heads_per_tile)
         /\ value_tiles \in Nat \ {0} /\ value_tiles <= ceil(NumEmbd, Banks)
         /\ readres_size \in Nat \ {0}
  <1>0. n_tp \in Nat /\ n_tp > 0 /\ n_tp * Dk \in Nat /\ n_tp * Dk > 0 /\ NumEmbd % (n_tp * Dk) = 0
    <2>1. n_tp \in Nat /\ n_tp > 0 /\ NumEmbd % (n_tp * Dk) = 0 BY MhaAssumption DEF Given
    <2>2. 1 * Dk <= n_tp * Dk BY <2>1, Positive, TimesMono
    <2>3. n_tp * Dk \in Nat BY <2>1, Positive
    <2>4. QED BY <2>1, <2>2, <2>3, Positive
  <1>1. E \in Nat /\ E <= NumEmbd BY <1>0, Positive, DivBelow DEF E
  <1>2. Nh \in Nat BY <1>1, Positive, DivBelow DEF Nh
  <1>3. chunks \in Nat /\ chunks <= ceil(NumEmbd, PageSize)
    <2>1. ceil(E, PageSize) \in Nat /\ ceil(NumEmbd, PageSize) \in Nat BY <1>1, Positive, Ceil
    <2>2. ceil(E, PageSize) <= ceil(NumEmbd, PageSize) BY <1>1, Positive, CeilMono
    <2>3. CASE Fused BY <2>1, <2>2, <2>3 DEF chunks
    <2>4. CASE ~Fused BY <2>1, <2>4 DEF chunks
    <2>5. QED BY <2>3, <2>4
  <1>4. heads_per_tile \in Nat \ {0} BY Positive, Ceil DEF heads_per_tile
  <1>5. comps_per_head \in Nat \ {0} BY Positive, Ceil DEF comps_per_head
  <1>6. ASSUME NEW n \in Nat
        PROVE  ceil(n % PageSize, Dk) \in Nat /\ ceil(n % PageSize, Dk) <= heads_per_tile
    <2>1. n % PageSize \in Nat /\ n % PageSize <= PageSize BY Positive, DivMod
    <2>2. QED BY <2>1, Positive, Ceil, CeilMono DEF heads_per_tile
  <1>7. ASSUME NEW c \in Nat
        PROVE  /\ heads_in_tile(c) \in Nat /\ heads_in_tile(c) <= heads_per_tile
               /\ (c < chunks - 1 => heads_in_tile(c) = heads_per_tile)
    <2>1. heads_in_last_chunk \in Nat /\ heads_in_last_chunk <= heads_per_tile
      BY <1>1, <1>4, <1>6 DEF heads_in_last_chunk
    <2>2. gemv_heads_in_last_chunk \in Nat /\ gemv_heads_in_last_chunk <= heads_per_tile
      BY Positive, <1>6 DEF gemv_heads_in_last_chunk
    <2>3. QED BY <1>4, <2>1, <2>2 DEF heads_in_tile
  <1>8. value_tiles \in Nat \ {0} /\ value_tiles <= ceil(NumEmbd, Banks)
    <2>1. Dk <= NumEmbd
      <3> DEFINE m == n_tp * Dk
                 q == NumEmbd \div m
      <3>1. m \in Nat /\ m > 0 /\ NumEmbd % m = 0 BY <1>0
      <3>2. Dk <= m
        <4>1. 1 * Dk <= n_tp * Dk BY <1>0, Positive, TimesMono
        <4>2. QED BY <4>1, Positive
      <3> HIDE DEF m
      <3>3. NumEmbd = m * q + (NumEmbd % m) /\ q \in Nat BY <3>1, Positive, DivMod
      <3> HIDE DEF q
      <3>4. NumEmbd = m * q BY <3>1, <3>3
      <3>5. q # 0 BY <3>1, <3>4, Positive
      <3>6. 1 * m <= q * m BY <3>1, <3>3, <3>5, TimesMono
      <3>7. q * m = NumEmbd BY <3>1, <3>3, <3>4
      <3>8. QED BY <3>1, <3>2, <3>6, <3>7, Positive
    <2>2. QED BY <2>1, Positive, Ceil, CeilMono DEF value_tiles
  <1>9. readres_size \in Nat \ {0}
    <2>1. \A a \in Nat \ {0} : a * Precision \in Nat \ {0}
      <3>1. ASSUME NEW a \in Nat \ {0} PROVE a * Precision \in Nat \ {0}
        <4>1. 1 * Precision <= a * Precision BY Positive, TimesMono
        <4>2. QED BY <4>1, Positive
      <3>2. QED BY <3>1
    <2>2. QED BY <2>1, Positive DEF readres_size
  <1>10. QED BY <1>1, <1>2, <1>3, <1>4, <1>5, <1>7, <1>8, <1>9

LEMMA RequestSizes == ASSUME Given, NEW r \in DOMAIN seq_len
  PROVE  /\ r \in Nat /\ seq_len[r] \in Nat \ {0}
         /\ tiles_per_chunk(r) \in Nat /\ (BanksAgree => tiles_per_chunk(r) <= ceil(seq_len[r], Banks))
         /\ value_chunks(r) \in Nat \ {0}
         /\ \A c \in Nat : num_comps(r, c) \in Nat
  <1>1. r \in Nat /\ seq_len[r] \in Nat \ {0} BY DEF Given
  <1> DEFINE n == ceil(seq_len[r], Banks)
             a == n * Banks
  <1>2. n \in Nat /\ a \in Nat BY <1>1, Positive, Ceil
  <1>3. a \div Banks = n BY <1>2, Positive, DivExact
  <1>4. ASSUME BanksAgree PROVE a \div FixedBanks <= n
    <2>1. n * Banks <= n * FixedBanks
      <3>1. Banks * n <= FixedBanks * n BY <1>2, <1>4, Positive, TimesMono DEF BanksAgree
      <3>2. n * Banks = Banks * n /\ n * FixedBanks = FixedBanks * n BY <1>2, Positive
      <3>3. QED BY <3>1, <3>2
    <2>2. n * FixedBanks \in Nat BY <1>2, Positive
    <2>3. a \div FixedBanks <= (n * FixedBanks) \div FixedBanks BY <1>2, <2>1, <2>2, Positive, DivMono
    <2>4. (n * FixedBanks) \div FixedBanks = n BY <1>2, Positive, DivExact
    <2>5. QED BY <2>3, <2>4
  <1>5. a \div FixedBanks \in Nat BY <1>2, Positive, DivBelow
  <1>6. tiles_per_chunk(r) = a \div (IF Fused THEN Banks ELSE FixedBanks)
    BY DEF tiles_per_chunk, allocated_seq_len
  <1>7. tiles_per_chunk(r) \in Nat /\ (BanksAgree => tiles_per_chunk(r) <= n)
    <2> HIDE DEF n, a
    <2>1. CASE Fused BY <1>2, <1>3, <1>6, <2>1
    <2>2. CASE ~Fused BY <1>4, <1>5, <1>6, <2>2
    <2>3. QED BY <2>1, <2>2
  <1>8. value_chunks(r) \in Nat \ {0} BY <1>1, Positive, Ceil DEF value_chunks
  <1>9. ASSUME NEW c \in Nat PROVE num_comps(r, c) \in Nat
    <2>1. seq_len[r] % PageSize \in Nat BY <1>1, Positive, DivMod
    <2>2. ceil(seq_len[r] % PageSize, CompCoverage) \in Nat BY <2>1, Positive, Ceil
    <2>3. PageSize \div CompCoverage \in Nat BY Positive, DivBelow
    <2>4. QED BY <2>2, <2>3 DEF num_comps
  <1>10. QED BY <1>1, <1>7, <1>8, <1>9 DEF n

-----------------------------------------------------------------------------
\* A set whose elements are numbered has as many elements as there are numbers.
Numbering(f, S, n) ==
  /\ f \in [S -> 0..(n - 1)]
  /\ \A x, y \in S : f[x] = f[y] => x = y
  /\ \A k \in 0..(n - 1) : \E x \in S : f[x] = k

LEMMA CountBy == ASSUME NEW S, NEW n \in Nat, NEW f, Numbering(f, S, n)
  PROVE  IsFiniteSet(S) /\ Cardinality(S) = n
  <1>1. f \in Injection(S, 0..(n - 1)) /\ f \in Surjection(S, 0..(n - 1))
    BY DEF Numbering, Injection, Surjection, IsInjective
  <1>2. IsFiniteSet(0..(n - 1)) /\ Cardinality(0..(n - 1)) = n BY FS_Interval
  <1>3. QED BY <1>1, <1>2, FS_Injection

\* The same for records whose destinations follow one another.
Following(S, n, base, size) ==
  /\ \A x \in S : \E k \in 0..(n - 1) : x.dest = base + k * size
  /\ \A k \in 0..(n - 1) : \E x \in S : x.dest = base + k * size
  /\ \A x, y \in S : x.dest = y.dest => x = y

LEMMA CountByDest ==
  ASSUME NEW S, NEW n \in Nat, NEW base \in Nat, NEW size \in Nat \ {0}, Following(S, n, base, size)
  PROVE  IsFiniteSet(S) /\ Cardinality(S) = n
  <1> USE DEF Following
  <1> DEFINE f == [x \in S |-> CHOOSE k \in 0..(n - 1) : x.dest = base + k * size]
  <1>1. \A x \in S : f[x] \in 0..(n - 1) /\ x.dest = base + f[x] * size OBVIOUS
  <1>2. f \in [S -> 0..(n - 1)] BY <1>1
  <1> HIDE DEF f
  <1>3. \A x, y \in S : f[x] = f[y] => x = y BY <1>1
  <1>4. ASSUME NEW k \in 0..(n - 1) PROVE \E x \in S : f[x] = k
    <2>1. PICK x \in S : x.dest = base + k * size OBVIOUS
    <2>2. f[x] \in 0..(n - 1) /\ x.dest = base + f[x] * size BY <1>1
    <2>3. k * size \in Nat /\ f[x] * size \in Nat /\ k \in Nat /\ f[x] \in Nat BY <2>2
    <2>4. k * size = f[x] * size BY <2>1, <2>2, <2>3
    <2>5. f[x] = k BY <2>3, <2>4, TwoDigits, k * size + 0 = f[x] * size + 0, 0 < size
    <2>6. QED BY <2>5
  <1>5. Numbering(f, S, n) BY <1>2, <1>3, <1>4 DEF Numbering
  <1>6. QED BY <1>5, CountBy

\* Places in the scratchpad.
LEMMA Nth ==
  ASSUME Given, spad_addr \in Nat, NEW a \in Nat, NEW b \in Nat
  PROVE  /\ nth(a) \in Nat /\ spad_addr <= nth(a)
         /\ nth(a) = nth(b) => a = b
         /\ a < b => nth(a) < nth(b)
  <1> DEFINE z == readres_size
  <1>1. z \in Nat \ {0} BY LoopSizes
  <1> HIDE DEF z
  <1>2. nth(a) = spad_addr + a * z /\ nth(b) = spad_addr + b * z BY DEF nth, z
  <1>3. a * z \in Nat /\ b * z \in Nat BY <1>1
  <1>4. ASSUME nth(a) = nth(b) PROVE a = b
    <2>1. a * z + 0 = b * z + 0 BY <1>2, <1>3, <1>4
    <2>2. QED BY <1>1, <2>1, TwoDigits
  <1>5. ASSUME a < b PROVE nth(a) < nth(b)
    <2>1. (a + 1) * z <= b * z BY <1>1, <1>5, TimesMono
    <2>2. (a + 1) * z = a * z + z BY <1>1
    <2>3. QED BY <1>1, <1>2, <1>3, <2>1, <2>2
  <1>6. QED BY <1>2, <1>3, <1>4, <1>5

-----------------------------------------------------------------------------
\* The products with the keys of request r: chunk c of the query, group t of
\* tokens, and head h of the chunk.
InKeys(r, c, t, h) ==
  c \in 0..(chunks - 1) /\ t \in 0..(tiles_per_chunk(r) - 1) /\ h \in 0..(heads_in_tile(c) - 1)
KeyIndex(r, c, t, h) == c * tiles_per_chunk(r) * heads_per_tile + t * heads_in_tile(c) + h
KeyGemv(r, c, t, h) ==
  [at |-> <<r, 0, c, t, 1, h>>, row |-> key_row(c, t), comps |-> comps_per_head,
   req |-> r, head |-> heads_per_tile * c + h, part |-> t, dest |-> nth(KeyIndex(r, c, t, h))]
KeyCount(r) ==
  IF chunks = 0 THEN 0
  ELSE (chunks - 1) * (tiles_per_chunk(r) * heads_per_tile)
         + tiles_per_chunk(r) * heads_in_tile(chunks - 1)

LEMMA KeyGemvs == ASSUME NEW r
  PROVE  \A g : g \in logit_gemvs(r) <=>
           \E c \in 0..(chunks - 1), t \in 0..(tiles_per_chunk(r) - 1) :
             \E h \in 0..(heads_in_tile(c) - 1) : g = KeyGemv(r, c, t, h)
  BY DEF logit_gemvs, KeyGemv, KeyIndex

\* The digits of a number of a product.
LEMMA KeyDigits ==
  ASSUME Given, NEW r \in DOMAIN seq_len, NEW c, NEW t, NEW h, InKeys(r, c, t, h)
  PROVE  /\ c \in Nat /\ t \in Nat /\ h \in Nat /\ c < chunks /\ t < tiles_per_chunk(r)
         /\ h < heads_in_tile(c) /\ h < heads_per_tile /\ heads_in_tile(c) \in Nat
         /\ t * heads_in_tile(c) + h \in Nat
         /\ t * heads_in_tile(c) + h < tiles_per_chunk(r) * heads_in_tile(c)
         /\ t * heads_in_tile(c) + h < tiles_per_chunk(r) * heads_per_tile
         /\ KeyIndex(r, c, t, h)
              = c * (tiles_per_chunk(r) * heads_per_tile) + (t * heads_in_tile(c) + h)
         /\ KeyIndex(r, c, t, h) \in Nat
  <1> DEFINE tp == tiles_per_chunk(r)
             hp == heads_per_tile
             hc == heads_in_tile(c)
             y == t * hc + h
  <1>1. chunks \in Nat /\ tp \in Nat /\ hp \in Nat BY LoopSizes, RequestSizes
  <1>2. c \in Nat /\ c < chunks /\ t \in Nat /\ t < tp BY <1>1 DEF InKeys
  <1>3. hc \in Nat /\ hc <= hp BY <1>2, LoopSizes
  <1>4. h \in Nat /\ h < hc /\ h < hp BY <1>1, <1>3 DEF InKeys
  <1>5. y \in Nat /\ y < tp * hc
    <2> HIDE DEF tp, hc
    <2>1. QED BY <1>1, <1>2, <1>3, <1>4, DigitsBound
  <1>6. tp * hc <= tp * hp
    <2> HIDE DEF tp, hc, hp
    <2>1. hc * tp <= hp * tp BY <1>1, <1>3, TimesMono
    <2>2. hc * tp = tp * hc /\ hp * tp = tp * hp BY <1>1, <1>3
    <2>3. QED BY <2>1, <2>2
  <1>7. y < tp * hp
    <2>1. tp * hc \in Nat /\ tp * hp \in Nat BY <1>1, <1>3
    <2> HIDE DEF y, tp, hc, hp
    <2>2. QED BY <1>5, <1>6, <2>1
  <1>8. KeyIndex(r, c, t, h) = c * (tp * hp) + y
    <2>1. KeyIndex(r, c, t, h) = c * tp * hp + t * hc + h BY DEF KeyIndex
    <2>2. c * tp * hp = c * (tp * hp) /\ c * tp * hp \in Nat
      <3> HIDE DEF tp, hp
      <3>1. QED BY <1>1, <1>2
    <2>3. t * hc \in Nat BY <1>2, <1>3
    <2> DEFINE u == c * tp * hp
               v == t * hc
    <2>4. u \in Nat /\ v \in Nat BY <2>2, <2>3
    <2>5. KeyIndex(r, c, t, h) = u + v + h BY <2>1
    <2> HIDE DEF u, v
    <2>6. KeyIndex(r, c, t, h) = u + (v + h) BY <1>4, <2>4, <2>5
    <2>7. QED BY <2>2, <2>6 DEF u, v
  <1>9. c * (tp * hp) \in Nat BY <1>1, <1>2
  <1>10. KeyIndex(r, c, t, h) \in Nat
    <2> HIDE DEF y, tp, hp
    <2>1. QED BY <1>5, <1>8, <1>9
  <1>11. QED BY <1>2, <1>3, <1>4, <1>5, <1>7, <1>8, <1>10

LEMMA KeyIndexOnce ==
  ASSUME Given, NEW r \in DOMAIN seq_len, NEW c, NEW t, NEW h, InKeys(r, c, t, h),
         NEW d, NEW u, NEW j, InKeys(r, d, u, j), KeyIndex(r, c, t, h) = KeyIndex(r, d, u, j)
  PROVE  c = d /\ t = u /\ h = j
  <1> DEFINE p == tiles_per_chunk(r) * heads_per_tile
             y == t * heads_in_tile(c) + h
             z == u * heads_in_tile(d) + j
  <1>1. c \in Nat /\ y \in Nat /\ y < p /\ KeyIndex(r, c, t, h) = c * p + y BY KeyDigits
  <1>2. d \in Nat /\ z \in Nat /\ z < p /\ KeyIndex(r, d, u, j) = d * p + z BY KeyDigits
  <1>3. p \in Nat BY LoopSizes, RequestSizes
  <1>4. c = d /\ y = z
    <2> HIDE DEF p, y, z
    <2>1. QED BY <1>1, <1>2, <1>3, TwoDigits
  <1> DEFINE n == heads_in_tile(c)
  <1>5. n \in Nat /\ t \in Nat /\ h \in Nat /\ h < n BY KeyDigits
  <1>6. u \in Nat /\ j \in Nat /\ j < n BY <1>4, KeyDigits
  <1>7. t * n + h = u * n + j BY <1>4
  <1> HIDE DEF n
  <1>8. QED BY <1>4, <1>5, <1>6, <1>7, TwoDigits

LEMMA KeyIndexBelow ==
  ASSUME Given, NEW r \in DOMAIN seq_len, NEW c, NEW t, NEW h, InKeys(r, c, t, h)
  PROVE  KeyIndex(r, c, t, h) \in 0..(KeyCount(r) - 1) /\ KeyCount(r) \in Nat
  <1> DEFINE p == tiles_per_chunk(r) * heads_per_tile
             l == tiles_per_chunk(r) * heads_in_tile(chunks - 1)
             y == t * heads_in_tile(c) + h
  <1>1. /\ c \in Nat /\ c < chunks /\ y \in Nat /\ y < p /\ KeyIndex(r, c, t, h) = c * p + y
        /\ y < tiles_per_chunk(r) * heads_in_tile(c)
    BY KeyDigits
  <1>2. chunks \in Nat /\ chunks # 0 /\ chunks - 1 \in Nat BY <1>1, LoopSizes
  <1>3. p \in Nat BY LoopSizes, RequestSizes
  <1>4. l \in Nat BY <1>2, LoopSizes, RequestSizes
  <1>5. KeyCount(r) = (chunks - 1) * p + l BY <1>2 DEF KeyCount
  <1>6. CASE c < chunks - 1
    <2> HIDE DEF p, l, y
    <2>1. c * p + y \in Nat /\ c * p + y < (chunks - 1) * p BY <1>1, <1>2, <1>3, <1>6, DigitsBound
    <2>2. (chunks - 1) * p \in Nat BY <1>2, <1>3
    <2>3. QED BY <1>1, <1>4, <1>5, <2>1, <2>2
  <1>7. CASE c = chunks - 1
    <2>1. y < l BY <1>1, <1>7
    <2> HIDE DEF p, l, y
    <2>2. (chunks - 1) * p \in Nat BY <1>2, <1>3
    <2>3. QED BY <1>1, <1>4, <1>5, <1>7, <2>1, <2>2
  <1>8. QED BY <1>1, <1>2, <1>6, <1>7

LEMMA KeyIndexAll ==
  ASSUME Given, NEW r \in DOMAIN seq_len, NEW n \in 0..(KeyCount(r) - 1)
  PROVE  \E c \in 0..(chunks - 1), t \in 0..(tiles_per_chunk(r) - 1) :
           \E h \in 0..(heads_in_tile(c) - 1) : KeyIndex(r, c, t, h) = n
  <1> DEFINE tp == tiles_per_chunk(r)
             p == tp * heads_per_tile
             e == chunks - 1
             l == tp * heads_in_tile(e)
  <1>1. tp \in Nat /\ heads_per_tile \in Nat /\ p \in Nat BY LoopSizes, RequestSizes
  <1>2. chunks \in Nat /\ chunks # 0 /\ e \in Nat
    <2>1. chunks \in Nat BY LoopSizes
    <2>2. CASE chunks = 0 BY <2>2 DEF KeyCount
    <2>3. QED BY <2>1, <2>2
  <1>3. heads_in_tile(e) \in Nat /\ l \in Nat BY <1>1, <1>2, LoopSizes
  <1>4. KeyCount(r) = e * p + l /\ e * p \in Nat BY <1>1, <1>2 DEF KeyCount
  <1>5. n \in Nat /\ n < e * p + l
    <2> HIDE DEF e, p, l
    <2>1. QED BY <1>3, <1>4
  <1>6. CASE n < e * p
    <2> HIDE DEF p, e, tp
    <2>1. PICK c \in 0..(e - 1), y \in 0..(p - 1) : n = c * p + y
      <3>1. n \in Nat /\ e \in Nat /\ p \in Nat BY <1>1, <1>2, <1>5
      <3>2. QED BY <1>6, <3>1, HasDigits
    <2>2. y \in Nat /\ y < tp * heads_per_tile BY <1>1 DEF p
    <2>3. PICK t \in 0..(tp - 1), h \in 0..(heads_per_tile - 1) : y = t * heads_per_tile + h
      BY <1>1, <2>2, HasDigits
    <2>4. c \in Nat /\ c < chunks - 1 /\ c \in 0..(chunks - 1) BY <1>2 DEF e
    <2>5. heads_in_tile(c) = heads_per_tile BY <2>4, LoopSizes
    <2>6. InKeys(r, c, t, h) BY <2>3, <2>4, <2>5 DEF InKeys, tp
    <2>7. KeyIndex(r, c, t, h) = c * p + y BY <2>3, <2>5, <2>6, KeyDigits DEF p, tp
    <2>8. QED BY <2>1, <2>6, <2>7 DEF InKeys
  <1>7. CASE ~(n < e * p)
    <2> DEFINE y == n - e * p
    <2>1. y \in Nat /\ y < l /\ n = e * p + y
      <3> DEFINE v == e * p
      <3>1. v \in Nat /\ ~(n < v) /\ n < v + l BY <1>4, <1>5, <1>7
      <3> HIDE DEF v, l
      <3>2. n - v \in Nat /\ n - v < l /\ n = v + (n - v) BY <1>3, <1>5, <3>1
      <3>3. QED BY <3>2 DEF v
    <2> HIDE DEF y, e, tp, p
    <2>2. PICK t \in 0..(tp - 1), h \in 0..(heads_in_tile(e) - 1) : y = t * heads_in_tile(e) + h
      <3>1. PICK w \in Nat : w = heads_in_tile(e) BY <1>3
      <3>2. y \in Nat /\ tp \in Nat /\ w \in Nat /\ y < tp * w BY <1>1, <2>1, <3>1
      <3>3. \E t \in 0..(tp - 1), h \in 0..(w - 1) : y = t * w + h BY <3>2, HasDigits, Zenon
      <3> QED BY <3>1, <3>3
    <2>3. InKeys(r, e, t, h) BY <1>2, <2>2 DEF InKeys, tp, e
    <2>4. KeyIndex(r, e, t, h) = e * p + y BY <2>2, <2>3, KeyDigits DEF p, tp
    <2>5. QED BY <2>1, <2>3, <2>4 DEF InKeys
  <1>8. QED BY <1>6, <1>7

-----------------------------------------------------------------------------
\* What the products G and the sums S of request r must be when they are added
\* to a tile.
GemvsFor(r, G) ==
  /\ \A g \in G :
       /\ g.req = r /\ g.at \in Place /\ g.at[1] = r
       /\ g.dest \in Nat /\ spad_addr <= g.dest /\ g.dest < nth(Cardinality(G))
       /\ BanksAgree => g.row < num_rows(r)
  /\ \A g, h \in G : g.dest = h.dest => g = h
  /\ \A g, h \in G : h.head = g.head /\ h.row = g.row => h = g
  /\ Cardinality(G) \in Nat

Parts(r) == IF OfKeys THEN tiles_per_chunk(r) ELSE value_chunks(r)
From(G, s) == {g \in G : g.dest \in s.srcs}
SumOf(G, s) ==
  /\ \A g \in From(G, s) : g.req = s.req /\ g.head = s.head /\ Before(g.at, s.at)
  /\ {g.part : g \in From(G, s)} = 0..(Parts(s.req) - 1)
  /\ Cardinality(From(G, s)) = Parts(s.req)

Apart(s, u) == s.dest + s.size <= u.dest \/ u.dest + u.size <= s.dest
Space(S) == IF S = {} THEN 0 ELSE Cardinality(S) * (CHOOSE s \in S : TRUE).size
SumsFor(r, G, S) ==
  /\ \A s \in S :
       /\ s.req = r /\ SumOf(G, s) /\ \A a \in s.srcs : \E g \in G : a = g.dest
       /\ s.dest \in Nat /\ s.size \in Nat
       /\ acc_spad_addr <= s.dest /\ s.dest + s.size <= acc_spad_addr + Space(S)
       /\ Before(s.at, [s.at EXCEPT ![5] = 1])
  /\ \A s, u \in S : s # u => Apart(s, u)
  /\ \A h \in Heads : OfKeys \/ value_chunks(r) > 1 => \E s \in S : s.head = h
  /\ Space(S) \in Nat

LEMMA KeyRow ==
  ASSUME Given, NEW r \in DOMAIN seq_len, NEW c, NEW t, NEW h, InKeys(r, c, t, h)
  PROVE  key_row(c, t) \in Nat /\ (OfKeys /\ BanksAgree => key_row(c, t) < num_rows(r))
  <1> DEFINE m == tiles_per_chunk(r)
             a == ceil(seq_len[r], Banks)
             b == ceil(NumEmbd, PageSize)
  <1>1. c \in Nat /\ c < chunks /\ t \in Nat /\ t < m BY KeyDigits
  <1>2. chunks \in Nat /\ chunks <= b /\ b \in Nat BY LoopSizes, Positive, Ceil
  <1>3. a \in Nat /\ (BanksAgree => m <= a) BY RequestSizes, Positive, Ceil
  <1>4. key_row(c, t) = t * chunks + c BY DEF key_row
  <1>5. t * chunks + c \in Nat BY <1>1, <1>2
  <1>6. ASSUME OfKeys, BanksAgree PROVE t * chunks + c < num_rows(r)
    <2>1. num_rows(r) = b * a BY <1>6 DEF num_rows
    <2> HIDE DEF a, b, m
    <2>2. t < a BY <1>1, <1>3, <1>6, RequestSizes DEF m
    <2>3. t * chunks + c < a * chunks BY <1>1, <1>2, <1>3, <2>2, DigitsBound
    <2>4. chunks * a <= b * a BY <1>2, <1>3, TimesMono
    <2>5. a * chunks = chunks * a /\ chunks * a \in Nat /\ b * a \in Nat BY <1>2, <1>3
    <2>6. QED BY <1>5, <2>1, <2>3, <2>4, <2>5
  <1>7. QED BY <1>4, <1>5, <1>6

LEMMA PickKey == ASSUME NEW r, NEW g \in logit_gemvs(r)
  PROVE  \E c, t, h : InKeys(r, c, t, h) /\ g = KeyGemv(r, c, t, h)
  BY KeyGemvs DEF InKeys

LEMMA KeyCounted == ASSUME Given, spad_addr \in Nat, NEW r \in DOMAIN seq_len
  PROVE  /\ \A g, h \in logit_gemvs(r) : g.dest = h.dest => g = h
         /\ KeyCount(r) \in Nat /\ Cardinality(logit_gemvs(r)) = KeyCount(r)
         /\ IsFiniteSet(logit_gemvs(r))
  <1> DEFINE G == logit_gemvs(r)
             n == KeyCount(r)
  <1>1. ASSUME NEW g \in G, NEW k \in G, g.dest = k.dest PROVE g = k
    <2>1. PICK c, t, h : InKeys(r, c, t, h) /\ g = KeyGemv(r, c, t, h) BY PickKey
    <2>2. PICK d, u, j : InKeys(r, d, u, j) /\ k = KeyGemv(r, d, u, j) BY PickKey
    <2>3. nth(KeyIndex(r, c, t, h)) = nth(KeyIndex(r, d, u, j)) BY <1>1, <2>1, <2>2 DEF KeyGemv
    <2>4. KeyIndex(r, c, t, h) = KeyIndex(r, d, u, j) BY <2>1, <2>2, <2>3, KeyDigits, Nth
    <2>5. c = d /\ t = u /\ h = j BY <2>1, <2>2, <2>4, KeyIndexOnce
    <2>6. QED BY <2>1, <2>2, <2>5
  <1>2. n \in Nat
    <2>1. chunks \in Nat /\ tiles_per_chunk(r) \in Nat /\ heads_per_tile \in Nat
      BY LoopSizes, RequestSizes
    <2>2. CASE chunks = 0 BY <2>2 DEF KeyCount
    <2>3. CASE chunks # 0
      <3>1. chunks - 1 \in Nat BY <2>1, <2>3
      <3>2. heads_in_tile(chunks - 1) \in Nat BY <3>1, LoopSizes
      <3>3. (chunks - 1) * (tiles_per_chunk(r) * heads_per_tile) \in Nat
            /\ tiles_per_chunk(r) * heads_in_tile(chunks - 1) \in Nat BY <2>1, <3>1, <3>2
      <3>4. QED BY <2>3, <3>3 DEF KeyCount
    <2>4. QED BY <2>2, <2>3
  <1>3. \A g \in G : \E k \in 0..(n - 1) : g.dest = spad_addr + k * readres_size
    <2> SUFFICES ASSUME NEW g \in G PROVE \E k \in 0..(n - 1) : g.dest = spad_addr + k * readres_size
      OBVIOUS
    <2>1. PICK c, t, h : InKeys(r, c, t, h) /\ g = KeyGemv(r, c, t, h) BY PickKey
    <2>2. KeyIndex(r, c, t, h) \in 0..(n - 1) BY <2>1, KeyIndexBelow
    <2>3. g.dest = spad_addr + KeyIndex(r, c, t, h) * readres_size BY <2>1 DEF KeyGemv, nth
    <2>4. QED BY <2>2, <2>3
  <1>4. \A k \in 0..(n - 1) : \E g \in G : g.dest = spad_addr + k * readres_size
    <2> SUFFICES ASSUME NEW k \in 0..(n - 1) PROVE \E g \in G : g.dest = spad_addr + k * readres_size
      OBVIOUS
    <2>1. PICK c \in 0..(chunks - 1), t \in 0..(tiles_per_chunk(r) - 1) :
            \E h \in 0..(heads_in_tile(c) - 1) : KeyIndex(r, c, t, h) = k
      BY KeyIndexAll
    <2>2. PICK h \in 0..(heads_in_tile(c) - 1) : KeyIndex(r, c, t, h) = k BY <2>1
    <2>3. KeyGemv(r, c, t, h) \in G BY KeyGemvs
    <2>4. KeyGemv(r, c, t, h).dest = spad_addr + k * readres_size BY <2>2 DEF KeyGemv, nth
    <2>5. QED BY <2>3, <2>4
  <1>5. readres_size \in Nat \ {0} BY LoopSizes
  <1>6. \A g, h \in G : g.dest = h.dest => g = h BY <1>1
  <1>7. Following(G, n, spad_addr, readres_size) BY <1>3, <1>4, <1>6 DEF Following
  <1> HIDE DEF G, n
  <1>8. IsFiniteSet(G) /\ Cardinality(G) = n BY <1>2, <1>5, <1>7, CountByDest
  <1>9. QED BY <1>2, <1>6, <1>8 DEF G, n

LEMMA KeyGemvsFor == ASSUME Given, spad_addr \in Nat, OfKeys, NEW r \in DOMAIN seq_len
  PROVE  GemvsFor(r, logit_gemvs(r))
  <1> DEFINE G == logit_gemvs(r)
  <1>1. ASSUME NEW g \in G
        PROVE  /\ g.req = r /\ g.at \in Place /\ g.at[1] = r
               /\ g.dest \in Nat /\ spad_addr <= g.dest /\ g.dest < nth(Cardinality(G))
               /\ BanksAgree => g.row < num_rows(r)
    <2>1. PICK c, t, h : InKeys(r, c, t, h) /\ g = KeyGemv(r, c, t, h) BY PickKey
    <2>2. c \in Nat /\ t \in Nat /\ h \in Nat /\ KeyIndex(r, c, t, h) \in Nat BY <2>1, KeyDigits
    <2>3. r \in Nat BY RequestSizes
    <2>4. g.req = r /\ g.at = <<r, 0, c, t, 1, h>> BY <2>1 DEF KeyGemv
    <2>5. g.at \in Place /\ g.at[1] = r BY <2>2, <2>3, <2>4 DEF Place
    <2>6. g.dest = nth(KeyIndex(r, c, t, h)) /\ g.row = key_row(c, t) BY <2>1 DEF KeyGemv
    <2>7. KeyCount(r) \in Nat /\ Cardinality(G) = KeyCount(r) BY KeyCounted
    <2>8. KeyIndex(r, c, t, h) < KeyCount(r) BY <2>1, <2>7, KeyIndexBelow
    <2>9. g.dest \in Nat /\ spad_addr <= g.dest /\ g.dest < nth(Cardinality(G))
      BY <2>2, <2>6, <2>7, <2>8, Nth
    <2>10. BanksAgree => g.row < num_rows(r) BY <2>1, <2>6, KeyRow
    <2>11. QED BY <2>4, <2>5, <2>9, <2>10
  <1>2. ASSUME NEW g \in G, NEW k \in G, k.head = g.head, k.row = g.row PROVE k = g
    <2>1. PICK c, t, h : InKeys(r, c, t, h) /\ g = KeyGemv(r, c, t, h) BY PickKey
    <2>2. PICK d, u, j : InKeys(r, d, u, j) /\ k = KeyGemv(r, d, u, j) BY PickKey
    <2>3. c \in Nat /\ t \in Nat /\ h \in Nat /\ c < chunks /\ h < heads_per_tile BY <2>1, KeyDigits
    <2>4. d \in Nat /\ u \in Nat /\ j \in Nat /\ d < chunks /\ j < heads_per_tile BY <2>2, KeyDigits
    <2>5. t * chunks + c = u * chunks + d
      BY <1>2, <2>1, <2>2 DEF KeyGemv, key_row
    <2>6. chunks \in Nat /\ heads_per_tile \in Nat BY LoopSizes
    <2>7. t = u /\ c = d BY <2>3, <2>4, <2>5, <2>6, TwoDigits
    <2>8. heads_per_tile * c + h = heads_per_tile * c + j BY <1>2, <2>1, <2>2, <2>7 DEF KeyGemv
    <2>9. heads_per_tile * c \in Nat BY <2>3, <2>6
    <2>10. h = j BY <2>3, <2>4, <2>8, <2>9
    <2>11. QED BY <2>1, <2>2, <2>7, <2>10
  <1>3. QED BY <1>1, <1>2, KeyCounted DEF GemvsFor

\* Sums of one size that follow one another.
LEMMA SumsInSpace ==
  ASSUME NEW S, NEW n \in Nat, NEW size \in Nat \ {0}, acc_spad_addr \in Nat,
         Following(S, n, acc_spad_addr, size), \A s \in S : s.size = size
  PROVE  /\ Space(S) \in Nat
         /\ \A s \in S : /\ s.dest \in Nat /\ s.size \in Nat /\ acc_spad_addr <= s.dest
                         /\ s.dest + s.size <= acc_spad_addr + Space(S)
         /\ \A s, u \in S : s # u => Apart(s, u)
  <1>1. IsFiniteSet(S) /\ Cardinality(S) = n BY CountByDest
  <1>2. Space(S) = n * size /\ n * size \in Nat
    <2>1. CASE S = {} 
      <3>1. n = 0 BY <1>1, <2>1, FS_EmptySet
      <3>2. QED BY <2>1, <3>1 DEF Space
    <2>2. CASE S # {}
      <3>1. (CHOOSE s \in S : TRUE) \in S BY <2>2
      <3>2. (CHOOSE s \in S : TRUE).size = size BY <3>1
      <3>3. QED BY <1>1, <2>2, <3>2 DEF Space
    <2>3. QED BY <2>1, <2>2
  <1>3. ASSUME NEW k \in Nat, NEW l \in Nat, k < l PROVE k * size + size <= l * size
    <2>1. (k + 1) * size <= l * size BY <1>3, TimesMono
    <2>2. (k + 1) * size = k * size + size OBVIOUS
    <2>3. QED BY <2>1, <2>2
  <1>4. ASSUME NEW s \in S
        PROVE  /\ s.dest \in Nat /\ s.size \in Nat /\ acc_spad_addr <= s.dest
               /\ s.dest + s.size <= acc_spad_addr + Space(S)
    <2>1. PICK k \in 0..(n - 1) : s.dest = acc_spad_addr + k * size BY DEF Following
    <2>2. k \in Nat /\ k < n /\ k * size \in Nat /\ s.size = size OBVIOUS
    <2>3. k * size + size <= n * size BY <1>3, <2>2
    <2>4. QED BY <1>2, <2>1, <2>2, <2>3
  <1>5. ASSUME NEW s \in S, NEW u \in S, s # u PROVE Apart(s, u)
    <2>1. PICK k \in 0..(n - 1) : s.dest = acc_spad_addr + k * size BY DEF Following
    <2>2. PICK l \in 0..(n - 1) : u.dest = acc_spad_addr + l * size BY DEF Following
    <2>3. s.dest # u.dest BY <1>5 DEF Following
    <2>4. k # l BY <2>1, <2>2, <2>3
    <2>5. k \in Nat /\ l \in Nat /\ k * size \in Nat /\ l * size \in Nat OBVIOUS
    <2>6. k * size + size <= l * size \/ l * size + size <= k * size BY <1>3, <2>4, <2>5
    <2>7. s.size = size /\ u.size = size OBVIOUS
    <2>8. s.dest + s.size <= u.dest \/ u.dest + u.size <= s.dest BY <2>1, <2>2, <2>5, <2>6, <2>7
    <2>9. QED BY <2>8 DEF Apart
  <1>6. QED BY <1>2, <1>4, <1>5

KeySum(r, G, h) ==
  [at |-> <<r, 1, h, 0, 0, 0>>, req |-> r, head |-> h,
   dest |-> acc_spad_addr + h * seq_len[r] * Precision, size |-> seq_len[r] * Precision,
   srcs |-> {g.dest : g \in {x \in G : x.head = h}}]

LEMMA KeySums == ASSUME NEW r, NEW G
  PROVE  \A s : s \in logit_sums(r, G) <=> \E h \in Heads : s = KeySum(r, G, h)
  BY DEF logit_sums, KeySum

LEMMA KeySumOf ==
  ASSUME Given, spad_addr \in Nat, OfKeys, NEW r \in DOMAIN seq_len, NEW h \in Heads,
         logit_asserts(r, logit_gemvs(r))
  PROVE  SumOf(logit_gemvs(r), KeySum(r, logit_gemvs(r), h))
  <1> DEFINE G == logit_gemvs(r)
             s == KeySum(r, G, h)
             F == {g \in G : g.head = h}
  <1>1. From(G, s) = F
    <2>1. s.srcs = {g.dest : g \in F} BY DEF KeySum
    <2>2. \A g, k \in G : g.dest = k.dest => g = k BY KeyCounted
    <2>3. QED BY <2>1, <2>2 DEF From
  <1>2. s.req = r /\ s.head = h /\ s.at = <<r, 1, h, 0, 0, 0>> BY DEF KeySum
  <1>3. Parts(s.req) = tiles_per_chunk(r) BY <1>2 DEF Parts
  <1>4. Cardinality(F) = tiles_per_chunk(r) BY DEF logit_asserts
  <1>5. ASSUME NEW g \in F PROVE g.req = s.req /\ g.head = s.head /\ Before(g.at, s.at)
    <2>1. PICK c, t, j : InKeys(r, c, t, j) /\ g = KeyGemv(r, c, t, j) BY PickKey
    <2>2. g.req = r /\ g.at = <<r, 0, c, t, 1, j>> BY <2>1 DEF KeyGemv
    <2>3. r \in Nat BY RequestSizes
    <2>4. Before(<<r, 0, c, t, 1, j>>, <<r, 1, h, 0, 0, 0>>) BY <2>3 DEF Before
    <2>5. QED BY <1>2, <2>2, <2>4
  <1>6. {g.part : g \in F} = 0..(tiles_per_chunk(r) - 1)
    <2>1. ASSUME NEW g \in F PROVE g.part \in 0..(tiles_per_chunk(r) - 1)
      <3>1. PICK c, t, j : InKeys(r, c, t, j) /\ g = KeyGemv(r, c, t, j) BY PickKey
      <3>2. QED BY <3>1 DEF KeyGemv, InKeys
    <2>2. ASSUME NEW u \in 0..(tiles_per_chunk(r) - 1) PROVE \E g \in F : g.part = u
      <3>1. tiles_per_chunk(r) \in Nat BY RequestSizes
      <3>2. tiles_per_chunk(r) # 0 BY <3>1
      <3>3. F # {} BY <1>4, <3>2, FS_EmptySet
      <3>4. PICK g \in F : TRUE BY <3>3
      <3>5. PICK c, t, j : InKeys(r, c, t, j) /\ g = KeyGemv(r, c, t, j) BY PickKey
      <3>6. InKeys(r, c, u, j) BY <3>5 DEF InKeys
      <3>7. KeyGemv(r, c, u, j) \in G BY <3>6, KeyGemvs DEF InKeys
      <3>8. KeyGemv(r, c, u, j).head = g.head /\ KeyGemv(r, c, u, j).part = u BY <3>5 DEF KeyGemv
      <3>9. QED BY <3>7, <3>8
    <2> HIDE DEF F
    <2>3. QED BY <2>1, <2>2
  <1> HIDE DEF s, F, G
  <1>7. QED BY <1>1, <1>3, <1>4, <1>5, <1>6 DEF SumOf, s, G

LEMMA KeySumsFor ==
  ASSUME Given, spad_addr \in Nat, acc_spad_addr \in Nat, OfKeys, NEW r \in DOMAIN seq_len,
         logit_asserts(r, logit_gemvs(r))
  PROVE  SumsFor(r, logit_gemvs(r), logit_sums(r, logit_gemvs(r)))
  <1> DEFINE G == logit_gemvs(r)
             S == logit_sums(r, G)
             size == seq_len[r] * Precision
  <1>1. seq_len[r] \in Nat \ {0} /\ Nh \in Nat /\ r \in Nat BY LoopSizes, RequestSizes
  <1>2. size \in Nat \ {0}
    <2>1. 1 * Precision <= seq_len[r] * Precision BY <1>1, Positive, TimesMono
    <2>2. QED BY <1>1, <2>1, Positive
  <1>3. \A s : s \in S <=> \E h \in Heads : s = KeySum(r, G, h) BY KeySums
  <1>4. ASSUME NEW h \in Nat
        PROVE KeySum(r, G, h).dest = acc_spad_addr + h * size /\ KeySum(r, G, h).size = size
    <2>1. h * seq_len[r] * Precision = h * size BY <1>1, Positive
    <2>2. QED BY <2>1 DEF KeySum
  <1>5. \A s \in S : s.size = size BY <1>3 DEF KeySum
  <1> HIDE DEF size, G, S
  <1>6. Following(S, Nh, acc_spad_addr, size)
    <2>1. Heads = 0..(Nh - 1) /\ \A h \in Heads : h \in Nat BY <1>1 DEF Heads
    <2>2. ASSUME NEW s \in S PROVE \E k \in 0..(Nh - 1) : s.dest = acc_spad_addr + k * size
      <3>1. PICK h \in Heads : s = KeySum(r, G, h) BY <1>3
      <3>2. s.dest = acc_spad_addr + h * size BY <1>4, <2>1, <3>1
      <3>3. QED BY <2>1, <3>2
    <2>3. ASSUME NEW k \in 0..(Nh - 1) PROVE \E s \in S : s.dest = acc_spad_addr + k * size
      <3>1. KeySum(r, G, k) \in S BY <1>3, <2>1
      <3>2. QED BY <1>4, <2>1, <3>1
    <2>4. ASSUME NEW s \in S, NEW u \in S, s.dest = u.dest PROVE s = u
      <3>1. PICK h \in Heads : s = KeySum(r, G, h) BY <1>3
      <3>2. PICK j \in Heads : u = KeySum(r, G, j) BY <1>3
      <3>3. acc_spad_addr + h * size = acc_spad_addr + j * size BY <1>4, <2>1, <2>4, <3>1, <3>2
      <3>4. h \in Nat /\ j \in Nat /\ h * size \in Nat /\ j * size \in Nat BY <1>2, <2>1
      <3>5. h * size + 0 = j * size + 0 BY <3>3, <3>4
      <3>6. h = j BY <1>2, <3>4, <3>5, TwoDigits
      <3>7. QED BY <3>1, <3>2, <3>6
    <2>5. QED BY <2>2, <2>3, <2>4 DEF Following
  <1>7. /\ Space(S) \in Nat
        /\ \A s \in S : /\ s.dest \in Nat /\ s.size \in Nat /\ acc_spad_addr <= s.dest
                        /\ s.dest + s.size <= acc_spad_addr + Space(S)
        /\ \A s, u \in S : s # u => Apart(s, u)
    BY <1>1, <1>2, <1>5, <1>6, SumsInSpace
  <1>8. ASSUME NEW s \in S
        PROVE  /\ s.req = r /\ SumOf(G, s) /\ \A a \in s.srcs : \E g \in G : a = g.dest
               /\ Before(s.at, [s.at EXCEPT ![5] = 1])
    <2>1. PICK h \in Heads : s = KeySum(r, G, h) BY <1>3
    <2>2. SumOf(G, s) BY <2>1, KeySumOf DEF G
    <2>3. s.req = r /\ s.at = <<r, 1, h, 0, 0, 0>> /\ \A a \in s.srcs : \E g \in G : a = g.dest
      BY <2>1 DEF KeySum
    <2>4. h \in Nat BY <1>1 DEF Heads
    <2>5. [<<r, 1, h, 0, 0, 0>> EXCEPT ![5] = 1] = <<r, 1, h, 0, 1, 0>> OBVIOUS
    <2>6. Before(<<r, 1, h, 0, 0, 0>>, <<r, 1, h, 0, 1, 0>>) BY DEF Before
    <2>7. QED BY <2>2, <2>3, <2>5, <2>6
  <1>9. \A h \in Heads : \E s \in S : s.head = h
    <2> SUFFICES ASSUME NEW h \in Heads PROVE \E s \in S : s.head = h OBVIOUS
    <2>1. KeySum(r, G, h) \in S BY <1>3
    <2>2. KeySum(r, G, h).head = h BY DEF KeySum
    <2>3. QED BY <2>1, <2>2
  <1>10. QED BY <1>7, <1>8, <1>9 DEF SumsFor, G, S

-----------------------------------------------------------------------------
\* The products with the values of request r: head h, chunk c of the logits and
\* group t of columns.
InValues(r, h, c, t) == h \in Heads /\ c \in 0..(value_chunks(r) - 1) /\ t \in 0..(value_tiles - 1)
ValueIndex(r, h, c, t) == (h * value_chunks(r) + c) * value_tiles + t
ValueGemv(r, h, c, t) ==
  [at |-> <<r, h, 0, c, t, 1>>, row |-> value_row(r, c, t), comps |-> num_comps(r, c),
   req |-> r, head |-> h, part |-> c, dest |-> nth(ValueIndex(r, h, c, t))]
ValueCount(r) == (Nh * value_chunks(r)) * value_tiles

LEMMA ValueGemvs == ASSUME NEW r
  PROVE  \A g : g \in attend_gemvs(r) <=>
           \E h \in Heads, c \in 0..(value_chunks(r) - 1), t \in 0..(value_tiles - 1) :
             g = ValueGemv(r, h, c, t)
  BY DEF attend_gemvs, ValueGemv, ValueIndex

LEMMA PickValue == ASSUME NEW r, NEW g \in attend_gemvs(r)
  PROVE  \E h, c, t : InValues(r, h, c, t) /\ g = ValueGemv(r, h, c, t)
  BY ValueGemvs DEF InValues

LEMMA ValueDigits ==
  ASSUME Given, NEW r \in DOMAIN seq_len, NEW h, NEW c, NEW t, InValues(r, h, c, t)
  PROVE  /\ h \in Nat /\ c \in Nat /\ t \in Nat /\ h < Nh /\ c < value_chunks(r) /\ t < value_tiles
         /\ h * value_chunks(r) + c \in Nat /\ h * value_chunks(r) + c < Nh * value_chunks(r)
         /\ ValueIndex(r, h, c, t) \in Nat /\ ValueIndex(r, h, c, t) < ValueCount(r)
  <1> DEFINE v == value_chunks(r)
             w == value_tiles
             y == h * v + c
             n == Nh * v
  <1>1. v \in Nat /\ w \in Nat /\ Nh \in Nat BY LoopSizes, RequestSizes
  <1>2. h \in Nat /\ c \in Nat /\ t \in Nat /\ h < Nh /\ c < v /\ t < w
    BY <1>1 DEF InValues, Heads
  <1>3. y \in Nat /\ y < n
    <2> HIDE DEF v
    <2>1. QED BY <1>1, <1>2, DigitsBound
  <1>4. n \in Nat BY <1>1
  <1>5. y * w + t \in Nat /\ y * w + t < n * w
    <2> HIDE DEF y, n, w
    <2>1. QED BY <1>1, <1>2, <1>3, <1>4, DigitsBound
  <1>6. QED BY <1>2, <1>3, <1>5 DEF ValueIndex, ValueCount

LEMMA ValueIndexOnce ==
  ASSUME Given, NEW r \in DOMAIN seq_len, NEW h, NEW c, NEW t, InValues(r, h, c, t),
         NEW j, NEW d, NEW u, InValues(r, j, d, u), ValueIndex(r, h, c, t) = ValueIndex(r, j, d, u)
  PROVE  h = j /\ c = d /\ t = u
  <1> DEFINE v == value_chunks(r)
             y == h * v + c
             z == j * v + d
  <1>1. h \in Nat /\ c \in Nat /\ t \in Nat /\ c < v /\ t < value_tiles /\ y \in Nat BY ValueDigits
  <1>2. j \in Nat /\ d \in Nat /\ u \in Nat /\ d < v /\ u < value_tiles /\ z \in Nat BY ValueDigits
  <1>3. v \in Nat /\ value_tiles \in Nat BY LoopSizes, RequestSizes
  <1>4. y * value_tiles + t = z * value_tiles + u BY DEF ValueIndex
  <1>5. y = z /\ t = u
    <2> HIDE DEF y, z
    <2>1. QED BY <1>1, <1>2, <1>3, <1>4, TwoDigits
  <1>6. h = j /\ c = d
    <2>1. h * v + c = j * v + d BY <1>5
    <2> HIDE DEF v
    <2>2. QED BY <1>1, <1>2, <1>3, <2>1, TwoDigits
  <1>7. QED BY <1>5, <1>6

LEMMA ValueIndexAll ==
  ASSUME Given, NEW r \in DOMAIN seq_len, NEW n \in 0..(ValueCount(r) - 1)
  PROVE  \E h \in Heads, c \in 0..(value_chunks(r) - 1), t \in 0..(value_tiles - 1) :
           ValueIndex(r, h, c, t) = n
  <1> DEFINE v == value_chunks(r)
             m == Nh * v
  <1>1. v \in Nat /\ value_tiles \in Nat /\ Nh \in Nat /\ m \in Nat BY LoopSizes, RequestSizes
  <1>2. ValueCount(r) = m * value_tiles BY DEF ValueCount
  <1>3. n \in Nat /\ n < m * value_tiles
    <2>1. m * value_tiles \in Nat BY <1>1
    <2> HIDE DEF m
    <2>2. QED BY <1>2, <2>1
  <1>4. PICK y \in 0..(m - 1), t \in 0..(value_tiles - 1) : n = y * value_tiles + t
    <2> HIDE DEF m
    <2>1. QED BY <1>1, <1>3, HasDigits
  <1>5. y \in Nat /\ y < Nh * v BY <1>1
  <1>6. PICK h \in 0..(Nh - 1), c \in 0..(v - 1) : y = h * v + c
    <2> HIDE DEF v
    <2>1. QED BY <1>1, <1>5, HasDigits
  <1>7. ValueIndex(r, h, c, t) = n BY <1>4, <1>6 DEF ValueIndex
  <1>8. QED BY <1>4, <1>6, <1>7 DEF Heads

LEMMA ValueCounted == ASSUME Given, spad_addr \in Nat, NEW r \in DOMAIN seq_len
  PROVE  /\ \A g, h \in attend_gemvs(r) : g.dest = h.dest => g = h
         /\ ValueCount(r) \in Nat /\ Cardinality(attend_gemvs(r)) = ValueCount(r)
  <1> DEFINE G == attend_gemvs(r)
             n == ValueCount(r)
  <1>1. ASSUME NEW g \in G, NEW k \in G, g.dest = k.dest PROVE g = k
    <2>1. PICK h, c, t : InValues(r, h, c, t) /\ g = ValueGemv(r, h, c, t) BY PickValue
    <2>2. PICK j, d, u : InValues(r, j, d, u) /\ k = ValueGemv(r, j, d, u) BY PickValue
    <2>3. nth(ValueIndex(r, h, c, t)) = nth(ValueIndex(r, j, d, u)) BY <1>1, <2>1, <2>2 DEF ValueGemv
    <2>4. ValueIndex(r, h, c, t) = ValueIndex(r, j, d, u) BY <2>1, <2>2, <2>3, ValueDigits, Nth
    <2>5. h = j /\ c = d /\ t = u BY <2>1, <2>2, <2>4, ValueIndexOnce
    <2>6. QED BY <2>1, <2>2, <2>5
  <1>2. n \in Nat BY LoopSizes, RequestSizes DEF ValueCount
  <1>3. \A g \in G : \E k \in 0..(n - 1) : g.dest = spad_addr + k * readres_size
    <2> SUFFICES ASSUME NEW g \in G PROVE \E k \in 0..(n - 1) : g.dest = spad_addr + k * readres_size
      OBVIOUS
    <2>1. PICK h, c, t : InValues(r, h, c, t) /\ g = ValueGemv(r, h, c, t) BY PickValue
    <2>2. ValueIndex(r, h, c, t) \in 0..(n - 1) BY <1>2, <2>1, ValueDigits
    <2>3. g.dest = spad_addr + ValueIndex(r, h, c, t) * readres_size BY <2>1 DEF ValueGemv, nth
    <2>4. QED BY <2>2, <2>3
  <1>4. \A k \in 0..(n - 1) : \E g \in G : g.dest = spad_addr + k * readres_size
    <2> SUFFICES ASSUME NEW k \in 0..(n - 1) PROVE \E g \in G : g.dest = spad_addr + k * readres_size
      OBVIOUS
    <2>1. PICK h \in Heads, c \in 0..(value_chunks(r) - 1), t \in 0..(value_tiles - 1) :
            ValueIndex(r, h, c, t) = k
      BY ValueIndexAll
    <2>2. ValueGemv(r, h, c, t) \in G BY ValueGemvs
    <2>3. ValueGemv(r, h, c, t).dest = spad_addr + k * readres_size BY <2>1 DEF ValueGemv, nth
    <2>4. QED BY <2>2, <2>3
  <1>5. readres_size \in Nat \ {0} BY LoopSizes
  <1>6. \A g, h \in G : g.dest = h.dest => g = h BY <1>1
  <1>7. Following(G, n, spad_addr, readres_size) BY <1>3, <1>4, <1>6 DEF Following
  <1> HIDE DEF G, n
  <1>8. Cardinality(G) = n BY <1>2, <1>5, <1>7, CountByDest
  <1>9. QED BY <1>2, <1>6, <1>8 DEF G, n

LEMMA ValueRow ==
  ASSUME Given, NEW r \in DOMAIN seq_len, NEW h, NEW c, NEW t, InValues(r, h, c, t), ~OfKeys
  PROVE  value_row(r, c, t) \in Nat /\ value_row(r, c, t) < num_rows(r)
  <1> DEFINE v == value_chunks(r)
             b == ceil(NumEmbd, Banks)
  <1>1. c \in Nat /\ c < v /\ t \in Nat /\ t < value_tiles BY ValueDigits
  <1>2. value_tiles \in Nat /\ value_tiles <= b /\ b \in Nat BY LoopSizes, Positive, Ceil
  <1>3. v \in Nat BY RequestSizes
  <1>4. value_row(r, c, t) = t * v + c /\ num_rows(r) = b * v BY DEF value_row, num_rows, value_chunks
  <1> HIDE DEF v, b
  <1>5. t < b BY <1>1, <1>2
  <1>6. t * v + c \in Nat /\ t * v + c < b * v BY <1>1, <1>2, <1>3, <1>5, DigitsBound
  <1>7. QED BY <1>4, <1>6

LEMMA ValueGemvsFor == ASSUME Given, spad_addr \in Nat, ~OfKeys, NEW r \in DOMAIN seq_len
  PROVE  GemvsFor(r, attend_gemvs(r))
  <1> DEFINE G == attend_gemvs(r)
  <1>1. ASSUME NEW g \in G
        PROVE  /\ g.req = r /\ g.at \in Place /\ g.at[1] = r
               /\ g.dest \in Nat /\ spad_addr <= g.dest /\ g.dest < nth(Cardinality(G))
               /\ g.row < num_rows(r)
    <2>1. PICK h, c, t : InValues(r, h, c, t) /\ g = ValueGemv(r, h, c, t) BY PickValue
    <2>2. /\ c \in Nat /\ t \in Nat /\ h \in Nat /\ ValueIndex(r, h, c, t) \in Nat
          /\ ValueIndex(r, h, c, t) < ValueCount(r)
      BY <2>1, ValueDigits
    <2>3. r \in Nat BY RequestSizes
    <2>4. g.req = r /\ g.at = <<r, h, 0, c, t, 1>> BY <2>1 DEF ValueGemv
    <2>5. g.at \in Place /\ g.at[1] = r BY <2>2, <2>3, <2>4 DEF Place
    <2>6. g.dest = nth(ValueIndex(r, h, c, t)) /\ g.row = value_row(r, c, t) BY <2>1 DEF ValueGemv
    <2>7. ValueCount(r) \in Nat /\ Cardinality(G) = ValueCount(r) BY ValueCounted
    <2>8. g.dest \in Nat /\ spad_addr <= g.dest /\ g.dest < nth(Cardinality(G))
      BY <2>2, <2>6, <2>7, Nth
    <2>9. g.row < num_rows(r) BY <2>1, <2>6, ValueRow
    <2>10. QED BY <2>4, <2>5, <2>8, <2>9
  <1>2. ASSUME NEW g \in G, NEW k \in G, k.head = g.head, k.row = g.row PROVE k = g
    <2>1. PICK h, c, t : InValues(r, h, c, t) /\ g = ValueGemv(r, h, c, t) BY PickValue
    <2>2. PICK j, d, u : InValues(r, j, d, u) /\ k = ValueGemv(r, j, d, u) BY PickValue
    <2>3. c \in Nat /\ t \in Nat /\ c < value_chunks(r) BY <2>1, ValueDigits
    <2>4. d \in Nat /\ u \in Nat /\ d < value_chunks(r) BY <2>2, ValueDigits
    <2>5. t * value_chunks(r) + c = u * value_chunks(r) + d
      BY <1>2, <2>1, <2>2 DEF ValueGemv, value_row
    <2>6. value_chunks(r) \in Nat BY RequestSizes
    <2>7. t = u /\ c = d BY <2>3, <2>4, <2>5, <2>6, TwoDigits
    <2>8. h = j BY <1>2, <2>1, <2>2 DEF ValueGemv
    <2>9. QED BY <2>1, <2>2, <2>7, <2>8
  <1>3. QED BY <1>1, <1>2, ValueCounted DEF GemvsFor

ValueSum(r, G, h, t) ==
  [at |-> <<r, h, 1, t, 0, 0>>, req |-> r, head |-> h,
   dest |-> acc_spad_addr + (h * value_tiles + t) * value_tiles * readres_size,
   size |-> value_tiles * readres_size,
   srcs |-> {g.dest : g \in {x \in G : x.head = h /\ x.at[5] = t}}]

LEMMA ValueSums == ASSUME NEW r, NEW G, value_chunks(r) # 1
  PROVE  \A s : s \in attend_sums(r, G) <=>
           \E h \in Heads, t \in 0..(value_tiles - 1) : s = ValueSum(r, G, h, t)
  BY DEF attend_sums, ValueSum

LEMMA ValueSumOf ==
  ASSUME Given, spad_addr \in Nat, ~OfKeys, NEW r \in DOMAIN seq_len, NEW h \in Heads,
         NEW t \in 0..(value_tiles - 1)
  PROVE  SumOf(attend_gemvs(r), ValueSum(r, attend_gemvs(r), h, t))
  <1> DEFINE G == attend_gemvs(r)
             s == ValueSum(r, G, h, t)
             F == {g \in G : g.head = h /\ g.at[5] = t}
             v == value_chunks(r)
  <1>1. From(G, s) = F
    <2>1. s.srcs = {g.dest : g \in F} BY DEF ValueSum
    <2>2. \A g, k \in G : g.dest = k.dest => g = k BY ValueCounted
    <2>3. QED BY <2>1, <2>2 DEF From
  <1>2. s.req = r /\ s.head = h /\ s.at = <<r, h, 1, t, 0, 0>> BY DEF ValueSum
  <1>3. Parts(s.req) = v BY <1>2 DEF Parts
  <1>4. \A g \in F : \E c \in 0..(v - 1) : g = ValueGemv(r, h, c, t)
    <2> SUFFICES ASSUME NEW g \in F PROVE \E c \in 0..(v - 1) : g = ValueGemv(r, h, c, t) OBVIOUS
    <2>1. PICK j, c, u : InValues(r, j, c, u) /\ g = ValueGemv(r, j, c, u) BY PickValue
    <2>2. g.head = j /\ g.at = <<r, j, 0, c, u, 1>> BY <2>1 DEF ValueGemv
    <2>3. g.at[5] = u BY <2>2
    <2>4. j = h /\ u = t BY <2>2, <2>3
    <2>5. QED BY <2>1, <2>4 DEF InValues
  <1>5. \A c \in 0..(v - 1) : ValueGemv(r, h, c, t) \in F /\ ValueGemv(r, h, c, t).part = c
    <2> SUFFICES ASSUME NEW c \in 0..(v - 1)
                 PROVE  ValueGemv(r, h, c, t) \in F /\ ValueGemv(r, h, c, t).part = c OBVIOUS
    <2>1. ValueGemv(r, h, c, t) \in G BY ValueGemvs
    <2>2. ValueGemv(r, h, c, t).head = h /\ ValueGemv(r, h, c, t).part = c
          /\ ValueGemv(r, h, c, t).at = <<r, h, 0, c, t, 1>> BY DEF ValueGemv
    <2>3. <<r, h, 0, c, t, 1>>[5] = t OBVIOUS
    <2>4. QED BY <2>1, <2>2, <2>3
  <1>6. ASSUME NEW g \in F PROVE g.req = s.req /\ g.head = s.head /\ Before(g.at, s.at)
    <2>1. PICK c \in 0..(v - 1) : g = ValueGemv(r, h, c, t) BY <1>4
    <2>2. g.req = r /\ g.head = h /\ g.at = <<r, h, 0, c, t, 1>> BY <2>1 DEF ValueGemv
    <2>3. Before(<<r, h, 0, c, t, 1>>, <<r, h, 1, t, 0, 0>>) BY DEF Before
    <2>4. QED BY <1>2, <2>2, <2>3
  <1> HIDE DEF F
  <1>7. \A g \in F : g.part \in 0..(v - 1) /\ g = ValueGemv(r, h, g.part, t)
    <2> SUFFICES ASSUME NEW g \in F PROVE g.part \in 0..(v - 1) /\ g = ValueGemv(r, h, g.part, t) OBVIOUS
    <2>1. PICK c \in 0..(v - 1) : g = ValueGemv(r, h, c, t) BY <1>4
    <2>2. g.part = c BY <1>5, <2>1
    <2>3. QED BY <2>1, <2>2
  <1>8. {g.part : g \in F} = 0..(v - 1) BY <1>5, <1>7
  <1>9. Cardinality(F) = v
    <2> DEFINE f == [g \in F |-> g.part]
    <2>1. v \in Nat BY RequestSizes
    <2>2. f \in [F -> 0..(v - 1)] BY <1>7
    <2>3. \A x, y \in F : f[x] = f[y] => x = y BY <1>7
    <2>4. \A k \in 0..(v - 1) : \E x \in F : f[x] = k BY <1>5
    <2>5. Numbering(f, F, v) BY <2>2, <2>3, <2>4 DEF Numbering
    <2> HIDE DEF f, v
    <2>6. QED BY <2>1, <2>5, CountBy
  <1> HIDE DEF s, v, G
  <1>10. QED BY <1>1, <1>3, <1>6, <1>8, <1>9 DEF SumOf, s, G

LEMMA ValueSumsFor ==
  ASSUME Given, spad_addr \in Nat, acc_spad_addr \in Nat, ~OfKeys, NEW r \in DOMAIN seq_len
  PROVE  SumsFor(r, attend_gemvs(r), attend_sums(r, attend_gemvs(r)))
  <1> DEFINE G == attend_gemvs(r)
             S == attend_sums(r, G)
             w == value_tiles
             size == w * readres_size
  <1>0. value_chunks(r) \in Nat \ {0} BY RequestSizes
  <1>1. CASE value_chunks(r) = 1
    <2>1. S = {} BY <1>1 DEF attend_sums
    <2>2. Space({}) = 0 BY DEF Space
    <2> HIDE DEF S, G
    <2>3. QED BY <1>1, <2>1, <2>2 DEF SumsFor, S, G
  <1>2. CASE value_chunks(r) # 1
    <2>1. w \in Nat \ {0} /\ readres_size \in Nat \ {0} /\ Nh \in Nat /\ r \in Nat
      BY LoopSizes, RequestSizes
    <2>2. size \in Nat \ {0}
      <3>1. 1 * readres_size <= w * readres_size BY <2>1, TimesMono
      <3>2. QED BY <2>1, <3>1
    <2>3. \A s : s \in S <=> \E h \in Heads, t \in 0..(w - 1) : s = ValueSum(r, G, h, t)
      BY <1>2, ValueSums
    <2>4. ASSUME NEW h \in Nat, NEW t \in Nat
          PROVE  /\ ValueSum(r, G, h, t).dest = acc_spad_addr + (h * w + t) * size
                 /\ ValueSum(r, G, h, t).size = size
      <3>1. h * w + t \in Nat BY <2>1
      <3>2. (h * w + t) * w * readres_size = (h * w + t) * size BY <2>1, <3>1
      <3>3. QED BY <3>2 DEF ValueSum
    <2>5. \A s \in S : s.size = size BY <2>3 DEF ValueSum
    <2> DEFINE n == Nh * w
    <2>6. n \in Nat BY <2>1
    <2>7. \A h \in Heads, t \in 0..(w - 1) :
            h \in Nat /\ t \in Nat /\ t < w /\ h * w + t \in 0..(n - 1)
      <3> SUFFICES ASSUME NEW h \in Heads, NEW t \in 0..(w - 1)
                   PROVE  h \in Nat /\ t \in Nat /\ t < w /\ h * w + t \in 0..(n - 1) OBVIOUS
      <3>1. h \in Nat /\ h < Nh /\ t \in Nat /\ t < w BY <2>1 DEF Heads
      <3> HIDE DEF w
      <3>2. h * w + t \in Nat /\ h * w + t < Nh * w BY <2>1, <3>1, DigitsBound
      <3>3. QED BY <2>6, <3>1, <3>2
    <2>7a. ASSUME NEW k \in Nat, k < n PROVE \E h \in 0..(Nh - 1), t \in 0..(w - 1) : k = h * w + t
      <3>1. Nh \in Nat /\ w \in Nat BY <2>1
      <3> HIDE DEF size, G, S, w
      <3>2. QED BY <2>7a, <3>1, HasDigits, ZenonT(30)
    <2> HIDE DEF size, G, S
    <2>8. Following(S, n, acc_spad_addr, size)
      <3>1. ASSUME NEW s \in S PROVE \E k \in 0..(n - 1) : s.dest = acc_spad_addr + k * size
        <4>1. PICK h \in Heads, t \in 0..(w - 1) : s = ValueSum(r, G, h, t) BY <2>3
        <4>2. s.dest = acc_spad_addr + (h * w + t) * size BY <2>4, <2>7, <4>1
        <4>3. QED BY <2>7, <4>2
      <3>2. ASSUME NEW k \in 0..(n - 1) PROVE \E s \in S : s.dest = acc_spad_addr + k * size
        <4>1. k \in Nat /\ k < n BY <2>6
        <4>2. PICK h \in 0..(Nh - 1), t \in 0..(w - 1) : k = h * w + t BY <2>7a, <4>1
        <4>3. h \in Heads BY DEF Heads
        <4>4. ValueSum(r, G, h, t) \in S BY <2>3, <4>3
        <4>5. ValueSum(r, G, h, t).dest = acc_spad_addr + k * size BY <2>4, <2>7, <4>2, <4>3
        <4>6. QED BY <4>4, <4>5
      <3>3. ASSUME NEW s \in S, NEW u \in S, s.dest = u.dest PROVE s = u
        <4>1. PICK h \in Heads, t \in 0..(w - 1) : s = ValueSum(r, G, h, t) BY <2>3
        <4>2. PICK j \in Heads, l \in 0..(w - 1) : u = ValueSum(r, G, j, l) BY <2>3
        <4> DEFINE a == h * w + t
                   b == j * w + l
        <4>3. a \in Nat /\ b \in Nat BY <2>6, <2>7
        <4>4. s.dest = acc_spad_addr + a * size BY <2>4, <2>7, <4>1
        <4>5. u.dest = acc_spad_addr + b * size BY <2>4, <2>7, <4>2
        <4> HIDE DEF a, b
        <4>6. a * size \in Nat /\ b * size \in Nat BY <2>2, <4>3
        <4> DEFINE p == a * size
                   q == b * size
        <4>7. p \in Nat /\ q \in Nat /\ acc_spad_addr + p = acc_spad_addr + q BY <3>3, <4>4, <4>5, <4>6
        <4> HIDE DEF p, q
        <4>8. p + 0 = q + 0 BY <4>7
        <4>8a. a = b BY <2>2, <4>3, <4>8, TwoDigits DEF p, q
        <4>9. h * w + t = j * w + l BY <4>8a DEF a, b
        <4>10. h \in Nat /\ t \in Nat /\ t < w /\ j \in Nat /\ l \in Nat /\ l < w BY <2>7
        <4> HIDE DEF w
        <4>11. h = j /\ t = l BY <2>1, <4>9, <4>10, TwoDigits
        <4>12. QED BY <4>1, <4>2, <4>11
      <3>4. QED BY <3>1, <3>2, <3>3 DEF Following
    <2> HIDE DEF n
    <2>9. /\ Space(S) \in Nat
          /\ \A s \in S : /\ s.dest \in Nat /\ s.size \in Nat /\ acc_spad_addr <= s.dest
                          /\ s.dest + s.size <= acc_spad_addr + Space(S)
          /\ \A s, u \in S : s # u => Apart(s, u)
      BY <2>2, <2>5, <2>6, <2>8, SumsInSpace
    <2>10. ASSUME NEW s \in S
           PROVE  /\ s.req = r /\ SumOf(G, s) /\ \A a \in s.srcs : \E g \in G : a = g.dest
                  /\ Before(s.at, [s.at EXCEPT ![5] = 1])
      <3>1. PICK h \in Heads, t \in 0..(w - 1) : s = ValueSum(r, G, h, t) BY <2>3
      <3>2. SumOf(G, s) BY <3>1, ValueSumOf DEF G
      <3>3. s.req = r /\ s.at = <<r, h, 1, t, 0, 0>> /\ \A a \in s.srcs : \E g \in G : a = g.dest
        BY <3>1 DEF ValueSum
      <3>4. [<<r, h, 1, t, 0, 0>> EXCEPT ![5] = 1] = <<r, h, 1, t, 1, 0>> OBVIOUS
      <3>5. Before(<<r, h, 1, t, 0, 0>>, <<r, h, 1, t, 1, 0>>) BY DEF Before
      <3>6. QED BY <3>2, <3>3, <3>4, <3>5
    <2>11. \A h \in Heads : \E s \in S : s.head = h
      <3> SUFFICES ASSUME NEW h \in Heads PROVE \E s \in S : s.head = h OBVIOUS
      <3>1. 0 \in 0..(w - 1) BY <2>1
      <3>2. ValueSum(r, G, h, 0) \in S BY <2>3, <3>1
      <3>3. ValueSum(r, G, h, 0).head = h BY DEF ValueSum
      <3>4. QED BY <3>2, <3>3
    <2>12. QED BY <2>9, <2>10, <2>11 DEF SumsFor, G, S
  <1>3. QED BY <1>1, <1>2

-----------------------------------------------------------------------------
\* The order of instructions.
LEMMA PlaceParts == ASSUME NEW p \in Place PROVE \A k \in 1..6 : p[k] \in Int
  <1>1. p[1] \in Int /\ p[2] \in Int /\ p[3] \in Int /\ p[4] \in Int /\ p[5] \in Int /\ p[6] \in Int
    BY DEF Place
  <1>2. \A k \in 1..6 : k = 1 \/ k = 2 \/ k = 3 \/ k = 4 \/ k = 5 \/ k = 6 OBVIOUS
  <1>3. QED BY <1>1, <1>2

LEMMA BeforeFirst == ASSUME NEW p \in Place, NEW q \in Place, p[1] < q[1]
  PROVE  Before(p, q) /\ ~Before(q, p)
  <1>1. \A k \in 1..6 : p[k] \in Int /\ q[k] \in Int BY PlaceParts
  <1>2. Before(p, q) BY <1>1 DEF Before
  <1>3. ASSUME NEW k \in 1..6, q[k] < p[k], \A j \in 1..(k - 1) : q[j] = p[j] PROVE FALSE
    <2>1. CASE k = 1 BY <1>1, <1>3, <2>1
    <2>2. CASE k # 1 BY <1>1, <1>3, <2>2, 1 \in 1..(k - 1)
    <2>3. QED BY <2>1, <2>2
  <1>4. QED BY <1>2, <1>3 DEF Before

LEMMA BeforeOneWay == ASSUME NEW p \in Place, NEW q \in Place, Before(p, q) PROVE ~Before(q, p)
  <1> SUFFICES ASSUME Before(q, p) PROVE FALSE OBVIOUS
  <1>1. \A k \in 1..6 : p[k] \in Int /\ q[k] \in Int BY PlaceParts
  <1>2. PICK k \in 1..6 : p[k] < q[k] /\ \A j \in 1..(k - 1) : p[j] = q[j] BY DEF Before
  <1>3. PICK l \in 1..6 : q[l] < p[l] /\ \A j \in 1..(l - 1) : q[j] = p[j] BY DEF Before
  <1>4. CASE k < l BY <1>1, <1>2, <1>3, <1>4, k \in 1..(l - 1)
  <1>5. CASE l < k BY <1>1, <1>2, <1>3, <1>5, l \in 1..(k - 1)
  <1>6. CASE k = l BY <1>1, <1>2, <1>3, <1>6
  <1>7. QED BY <1>4, <1>5, <1>6

-----------------------------------------------------------------------------
\* The products under a header: those after it and before the next one.
Under(H, G, h) ==
  {g \in G : Before(h.at, g.at) /\ \A x \in H : Before(h.at, x.at) => Before(g.at, x.at)}
Enough(h, U) ==
  IF h.for_gwrite THEN U = {} ELSE
    /\ U # {} /\ \A g \in U : g.row = h.row
    /\ Cardinality(U) <= h.readres
    /\ \A g \in U : Cardinality(U) * g.comps <= h.comps
Announced(H, G) == \A h \in H : Enough(h, Under(H, G, h))

\* The numbers of the headers are powers of two, or small enough to be rounded up.
Announceable ==
  IF OfKeys THEN \A c \in 0..(chunks - 1) :
                   {heads_in_tile(c), comps_per_head * heads_in_tile(c)} \subseteq PowersOfTwo
            ELSE PageSize <= 128 * CompCoverage

LEMMA AnnouncedTiles ==
  HeadersAnnounce <=>
    (Announceable => \A k \in DOMAIN tiles : Announced(tiles[k].headers, tiles[k].gemvs))
  <1>1. ASSUME NEW H, NEW G, NEW h
        PROVE  {g \in G : Before(h.at, g.at) /\ \A x \in {y \in H : Before(h.at, y.at)} : Before(g.at, x.at)}
                 = Under(H, G, h)
    BY DEF Under
  <1>2. ASSUME NEW T, NEW h
        PROVE  (LET later == {x \in T.headers : Before(h.at, x.at)}
                    under == {g \in T.gemvs : Before(h.at, g.at) /\ \A x \in later : Before(g.at, x.at)}
                IN  IF h.for_gwrite THEN under = {} ELSE
                    /\ under # {} /\ \A g \in under : g.row = h.row
                    /\ Cardinality(under) <= h.readres
                    /\ \A g \in under : Cardinality(under) * g.comps <= h.comps)
               <=> Enough(h, Under(T.headers, T.gemvs, h))
    BY <1>1 DEF Enough
  <1>3. QED BY <1>2 DEF HeadersAnnounce, Announceable, Announced

\* What the headers H of request r must be when they are added to a tile.
HeadersFor(r, H, G) ==
  /\ \A x \in H : x.at \in Place /\ x.at[1] = r
  /\ \A g \in G : \E x \in H : Before(x.at, g.at)
  /\ Announceable => Announced(H, G)

\* What is announced stays so when the instructions of a later request follow.
LEMMA AnnouncedMore ==
  ASSUME NEW H, NEW G, NEW I, NEW J, NEW r \in Nat, Announced(H, G), Announced(I, J),
         \A x \in H \cup G : x.at \in Place /\ x.at[1] < r,
         \A x \in I \cup J : x.at \in Place /\ x.at[1] = r,
         \A g \in J : \E x \in I : Before(x.at, g.at)
  PROVE  Announced(H \cup I, G \cup J)
  <1>1. ASSUME NEW x \in H \cup G, NEW y \in I \cup J
        PROVE  Before(x.at, y.at) /\ ~Before(y.at, x.at)
    BY BeforeFirst
  <1>2. ASSUME NEW h \in H PROVE Under(H \cup I, G \cup J, h) = Under(H, G, h)
    <2>1. ASSUME NEW g \in J PROVE g \notin Under(H \cup I, G \cup J, h)
      <3>1. PICK x \in I : Before(x.at, g.at) OBVIOUS
      <3>2. ~Before(g.at, x.at) BY <3>1, BeforeOneWay
      <3>3. Before(h.at, x.at) BY <1>1
      <3>4. QED BY <3>2, <3>3 DEF Under
    <2>2. ASSUME NEW g \in G PROVE g \in Under(H \cup I, G \cup J, h) <=> g \in Under(H, G, h)
      BY <1>1 DEF Under
    <2>3. \A g : g \in Under(H \cup I, G \cup J, h) => g \in G \cup J BY DEF Under
    <2>4. \A g : g \in Under(H, G, h) => g \in G BY DEF Under
    <2>5. QED BY <2>1, <2>2, <2>3, <2>4
  <1>3. ASSUME NEW h \in I PROVE Under(H \cup I, G \cup J, h) = Under(I, J, h)
    <2>1. ASSUME NEW g \in G PROVE g \notin Under(H \cup I, G \cup J, h)
      BY <1>1 DEF Under
    <2>2. ASSUME NEW g \in J PROVE g \in Under(H \cup I, G \cup J, h) <=> g \in Under(I, J, h)
      BY <1>1 DEF Under
    <2>3. \A g : g \in Under(H \cup I, G \cup J, h) => g \in G \cup J BY DEF Under
    <2>4. \A g : g \in Under(I, J, h) => g \in J BY DEF Under
    <2>5. QED BY <2>1, <2>2, <2>3, <2>4
  <1>4. QED BY <1>2, <1>3 DEF Announced

\* A power of two is encoded as it is, and decoded_up rounds up to one.
LEMMA EncodedPower == ASSUME NEW n \in PowersOfTwo PROVE encoded(n) = n
  <1>1. n \in Nat /\ n # 0 BY DEF PowersOfTwo
  <1>2. \A p \in PowersOfTwo : p <= n /\ n < 2 * p => p = n BY DEF PowersOfTwo
  <1>3. n <= n /\ n < 2 * n BY <1>1
  <1>4. QED BY <1>1, <1>2, <1>3 DEF encoded

LEMMA RoundedUp == ASSUME NEW n \in Nat, n <= 128
  PROVE  encoded(decoded_up(n)) \in Nat /\ n <= encoded(decoded_up(n))
  <1>1. CASE n = 0
    <2>1. encoded(0) = 1 BY DEF encoded
    <2>2. decoded_up(0) = 1 BY <2>1 DEF decoded_up
    <2>3. encoded(1) = 1 BY EncodedPower DEF PowersOfTwo
    <2>4. QED BY <1>1, <2>2, <2>3
  <1>2. CASE n # 0
    <2> DEFINE p == encoded(n)
    <2>1. \E q \in PowersOfTwo : q <= n /\ n < 2 * q BY <1>2 DEF PowersOfTwo
    <2>2. p \in PowersOfTwo /\ p <= n /\ n < 2 * p BY <1>2, <2>1 DEF encoded
    <2> HIDE DEF p
    <2>3. decoded_up(n) = IF p < n THEN 2 * p ELSE p BY DEF decoded_up, p
    <2>4. decoded_up(n) \in PowersOfTwo /\ n <= decoded_up(n) BY <2>2, <2>3 DEF PowersOfTwo
    <2>5. encoded(decoded_up(n)) = decoded_up(n) BY <2>4, EncodedPower
    <2>6. QED BY <2>4, <2>5 DEF PowersOfTwo
  <1>3. QED BY <1>1, <1>2

\* Headers and products of keys are ordered by chunk and group of tokens.
LEMMA HeaderThenProduct ==
  ASSUME NEW r \in Int, NEW c \in Int, NEW t \in Int, NEW d \in Int, NEW u \in Int, NEW j \in Int
  PROVE  Before(<<r, 0, c, t, 0, 0>>, <<r, 0, d, u, 1, j>>) <=> c < d \/ (c = d /\ t <= u)
  BY DEF Before

LEMMA ProductThenHeader ==
  ASSUME NEW r \in Int, NEW c \in Int, NEW t \in Int, NEW d \in Int, NEW u \in Int, NEW j \in Int
  PROVE  Before(<<r, 0, d, u, 1, j>>, <<r, 0, c, t, 0, 0>>) <=> d < c \/ (d = c /\ u < t)
  BY DEF Before

LEMMA HeaderThenHeader ==
  ASSUME NEW r \in Int, NEW c \in Int, NEW t \in Int, NEW d \in Int, NEW u \in Int
  PROVE  Before(<<r, 0, c, t, 0, 0>>, <<r, 0, d, u, 0, 0>>) <=> c < d \/ (c = d /\ t < u)
  BY DEF Before

KeyHeader(r, c, t) ==
  [at |-> <<r, 0, c, t, 0, 0>>, for_gwrite |-> FALSE, row |-> key_row(c, t),
   comps |-> encoded(comps_per_head * heads_in_tile(c)), readres |-> encoded(heads_in_tile(c))]

\* H has the headers of all rows of keys, and at most one before them for each
\* chunk.
KeyHeaders(r, H) ==
  /\ \A c \in 0..(chunks - 1), t \in 0..(tiles_per_chunk(r) - 1) : KeyHeader(r, c, t) \in H
  /\ \A x \in H : \E c \in 0..(chunks - 1) :
       \/ \E t \in 0..(tiles_per_chunk(r) - 1) : x = KeyHeader(r, c, t)
       \/ x.at = <<r, 0, c, -1, 0, 0>> /\ x.for_gwrite

LEMMA KeysUnder ==
  ASSUME Given, NEW r \in DOMAIN seq_len, NEW H, KeyHeaders(r, H),
         NEW c \in 0..(chunks - 1), NEW t \in {-1} \cup 0..(tiles_per_chunk(r) - 1),
         NEW h \in H, h.at = <<r, 0, c, t, 0, 0>>, NEW g
  PROVE  g \in Under(H, logit_gemvs(r), h) <=>
           t # -1 /\ \E j \in 0..(heads_in_tile(c) - 1) : g = KeyGemv(r, c, t, j)
  <1>1. r \in Int /\ c \in Nat /\ t \in Int BY RequestSizes
  <1>2. ASSUME g \in Under(H, logit_gemvs(r), h)
        PROVE  t # -1 /\ \E j \in 0..(heads_in_tile(c) - 1) : g = KeyGemv(r, c, t, j)
    <2>1. g \in logit_gemvs(r) /\ Before(h.at, g.at) BY <1>2 DEF Under
    <2>2. PICK d, u, j : InKeys(r, d, u, j) /\ g = KeyGemv(r, d, u, j) BY <2>1, PickKey
    <2>3. d \in Nat /\ u \in Nat /\ j \in Nat BY <2>2, KeyDigits
    <2>4. g.at = <<r, 0, d, u, 1, j>> BY <2>2 DEF KeyGemv
    <2> DEFINE x == KeyHeader(r, d, u)
    <2>5. x \in H BY <2>2 DEF KeyHeaders, InKeys
    <2>6. x.at = <<r, 0, d, u, 0, 0>> BY DEF KeyHeader
    <2>7. c < d \/ (c = d /\ t <= u) BY <1>1, <2>1, <2>3, <2>4, HeaderThenProduct
    <2>8. ~Before(g.at, x.at) BY <1>1, <2>3, <2>4, <2>6, ProductThenHeader
    <2>9. ~Before(h.at, x.at) BY <1>2, <2>5, <2>8 DEF Under
    <2>10. ~(c < d \/ (c = d /\ t < u)) BY <1>1, <2>3, <2>6, <2>9, HeaderThenHeader
    <2>11. c = d /\ t = u BY <1>1, <2>3, <2>7, <2>10
    <2>12. t # -1 BY <2>3, <2>11
    <2>13. QED BY <2>2, <2>11, <2>12 DEF InKeys
  <1>3. ASSUME t # -1, NEW j \in 0..(heads_in_tile(c) - 1), g = KeyGemv(r, c, t, j)
        PROVE  g \in Under(H, logit_gemvs(r), h)
    <2>1. t \in 0..(tiles_per_chunk(r) - 1) BY <1>3
    <2>2. g \in logit_gemvs(r) BY <1>3, <2>1, KeyGemvs
    <2>3. j \in Int BY LoopSizes, <1>1
    <2>4. g.at = <<r, 0, c, t, 1, j>> BY <1>3 DEF KeyGemv
    <2>5. Before(h.at, g.at) BY <1>1, <2>3, <2>4, HeaderThenProduct
    <2>6. ASSUME NEW x \in H, Before(h.at, x.at) PROVE Before(g.at, x.at)
      <3>1. PICK d \in 0..(chunks - 1) :
              \/ \E u \in 0..(tiles_per_chunk(r) - 1) : x = KeyHeader(r, d, u)
              \/ x.at = <<r, 0, d, -1, 0, 0>> /\ x.for_gwrite
        BY DEF KeyHeaders
      <3>2. \E u \in Int : x.at = <<r, 0, d, u, 0, 0>> BY <3>1 DEF KeyHeader
      <3>3. PICK u \in Int : x.at = <<r, 0, d, u, 0, 0>> BY <3>2
      <3>4. d \in Int OBVIOUS
      <3>5. c < d \/ (c = d /\ t < u) BY <1>1, <2>6, <3>3, <3>4, HeaderThenHeader
      <3>6. QED BY <1>1, <2>3, <2>4, <3>3, <3>4, <3>5, ProductThenHeader
    <2>7. QED BY <2>2, <2>5, <2>6 DEF Under
  <1>4. QED BY <1>2, <1>3

LEMMA KeyAnnounced ==
  ASSUME Given, OfKeys, NEW r \in DOMAIN seq_len, NEW H, KeyHeaders(r, H), Announceable
  PROVE  Announced(H, logit_gemvs(r))
  <1> SUFFICES ASSUME NEW h \in H PROVE Enough(h, Under(H, logit_gemvs(r), h)) BY DEF Announced
  <1> DEFINE U == Under(H, logit_gemvs(r), h)
  <1>1. PICK c \in 0..(chunks - 1) :
          \/ \E t \in 0..(tiles_per_chunk(r) - 1) : h = KeyHeader(r, c, t)
          \/ h.at = <<r, 0, c, -1, 0, 0>> /\ h.for_gwrite
    BY DEF KeyHeaders
  <1>2. CASE h.at = <<r, 0, c, -1, 0, 0>> /\ h.for_gwrite
    <2>1. \A g : g \notin U BY <1>2, KeysUnder
    <2> HIDE DEF U
    <2>2. U = {} BY <2>1
    <2>3. QED BY <1>2, <2>2 DEF Enough, U
  <1>3. CASE \E t \in 0..(tiles_per_chunk(r) - 1) : h = KeyHeader(r, c, t)
    <2>1. PICK t \in 0..(tiles_per_chunk(r) - 1) : h = KeyHeader(r, c, t) BY <1>3
    <2> DEFINE n == heads_in_tile(c)
               m == comps_per_head * n
    <2>2. /\ h.at = <<r, 0, c, t, 0, 0>> /\ h.for_gwrite = FALSE /\ h.row = key_row(c, t)
          /\ h.comps = encoded(m) /\ h.readres = encoded(n)
      BY <2>1 DEF KeyHeader
    <2>3. n \in PowersOfTwo /\ m \in PowersOfTwo BY DEF Announceable
    <2>4. h.comps = m /\ h.readres = n BY <2>2, <2>3, EncodedPower
    <2>5. n \in Nat /\ n # 0 /\ m \in Nat BY <2>3 DEF PowersOfTwo
    <2>6. t # -1 OBVIOUS
    <2>7. \A g : g \in U <=> \E j \in 0..(n - 1) : g = KeyGemv(r, c, t, j)
      BY <2>2, <2>6, KeysUnder
    <2> HIDE DEF U
    <2>8. Cardinality(U) = n
      <3> DEFINE f == [g \in U |-> g.at[6]]
      <3>1. \A j : KeyGemv(r, c, t, j).at[6] = j BY DEF KeyGemv
      <3>2. \A g \in U : g.at[6] \in 0..(n - 1) /\ g = KeyGemv(r, c, t, g.at[6]) BY <2>7, <3>1
      <3>3. Numbering(f, U, n)
        <4>1. f \in [U -> 0..(n - 1)] BY <3>2
        <4>2. \A x, y \in U : f[x] = f[y] => x = y BY <3>2
        <4>3. ASSUME NEW k \in 0..(n - 1) PROVE \E x \in U : f[x] = k
          <5>1. KeyGemv(r, c, t, k) \in U BY <2>7
          <5>2. QED BY <3>1, <5>1
        <4> HIDE DEF f
        <4>4. QED BY <4>1, <4>2, <4>3 DEF Numbering
      <3> HIDE DEF f
      <3>4. QED BY <2>5, <3>3, CountBy
    <2>9. KeyGemv(r, c, t, 0) \in U BY <2>5, <2>7
    <2>10. \A g \in U : g.row = h.row /\ g.comps = comps_per_head BY <2>2, <2>7 DEF KeyGemv
    <2>11. comps_per_head \in Nat BY LoopSizes
    <2>12. n * comps_per_head = m BY <2>5, <2>11
    <2> HIDE DEF n, m
    <2>13. Cardinality(U) <= h.readres BY <2>4, <2>5, <2>8
    <2>14. \A g \in U : Cardinality(U) * g.comps <= h.comps BY <2>4, <2>5, <2>8, <2>10, <2>12
    <2>15. QED BY <2>2, <2>9, <2>10, <2>13, <2>14 DEF Enough, U
  <1>4. QED BY <1>1, <1>2, <1>3

LEMMA KeyHeadersFor == ASSUME Given, OfKeys, NEW r \in DOMAIN seq_len, NEW H, KeyHeaders(r, H)
  PROVE  HeadersFor(r, H, logit_gemvs(r))
  <1>1. r \in Nat BY RequestSizes
  <1>2. ASSUME NEW x \in H PROVE x.at \in Place /\ x.at[1] = r
    <2>1. PICK c \in 0..(chunks - 1) :
            \/ \E t \in 0..(tiles_per_chunk(r) - 1) : x = KeyHeader(r, c, t)
            \/ x.at = <<r, 0, c, -1, 0, 0>> /\ x.for_gwrite
      BY DEF KeyHeaders
    <2>2. \E t \in Int : x.at = <<r, 0, c, t, 0, 0>> BY <2>1 DEF KeyHeader
    <2>3. QED BY <1>1, <2>2 DEF Place
  <1>3. ASSUME NEW g \in logit_gemvs(r) PROVE \E x \in H : Before(x.at, g.at)
    <2>1. PICK c, t, j : InKeys(r, c, t, j) /\ g = KeyGemv(r, c, t, j) BY PickKey
    <2>2. c \in Nat /\ t \in Nat /\ j \in Nat BY <2>1, KeyDigits
    <2>3. KeyHeader(r, c, t) \in H BY <2>1 DEF KeyHeaders, InKeys
    <2>4. KeyHeader(r, c, t).at = <<r, 0, c, t, 0, 0>> /\ g.at = <<r, 0, c, t, 1, j>>
      BY <2>1 DEF KeyHeader, KeyGemv
    <2>5. Before(<<r, 0, c, t, 0, 0>>, <<r, 0, c, t, 1, j>>) BY <1>1, <2>2, HeaderThenProduct
    <2>6. QED BY <2>3, <2>4, <2>5
  <1>4. Announceable => Announced(H, logit_gemvs(r)) BY KeyAnnounced
  <1>5. QED BY <1>2, <1>3, <1>4 DEF HeadersFor

LEMMA LogitHeaders == ASSUME NEW r
  PROVE  KeyHeaders(r, logit_headers(r)) /\ KeyHeaders(r, logit_headers(r) \cup gwrite_headers(r))
  <1>1. \A x : x \in logit_headers(r) <=>
          \E c \in 0..(chunks - 1), t \in 0..(tiles_per_chunk(r) - 1) : x = KeyHeader(r, c, t)
    BY DEF logit_headers, KeyHeader
  <1>2. \A x \in gwrite_headers(r) :
          \E c \in 0..(chunks - 1) : x.at = <<r, 0, c, -1, 0, 0>> /\ x.for_gwrite
    BY DEF gwrite_headers
  <1>3. QED BY <1>1, <1>2 DEF KeyHeaders

\* Headers and products of values are ordered by head, chunk and columns.
Lex(h, c, t, j, d, u) == h < j \/ (h = j /\ (c < d \/ (c = d /\ t < u)))

SameOrLex(h, c, t, j, d, u) == Lex(h, c, t, j, d, u) \/ (h = j /\ c = d /\ t = u)
HeaderAt(r, h, c, t)  == <<r, h, 0, c, t, 0>>
ProductAt(r, h, c, t) == <<r, h, 0, c, t, 1>>

LEMMA ValueHeaderThenProduct ==
  ASSUME NEW r \in Int, NEW h \in Int, NEW c \in Int, NEW t \in Int,
         NEW j \in Int, NEW d \in Int, NEW u \in Int
  PROVE  Before(HeaderAt(r, h, c, t), ProductAt(r, j, d, u)) <=> SameOrLex(h, c, t, j, d, u)
  BY DEF Before, Lex, SameOrLex, HeaderAt, ProductAt

LEMMA ValueProductThenHeader ==
  ASSUME NEW r \in Int, NEW h \in Int, NEW c \in Int, NEW t \in Int,
         NEW j \in Int, NEW d \in Int, NEW u \in Int
  PROVE  Before(ProductAt(r, h, c, t), HeaderAt(r, j, d, u)) <=> Lex(h, c, t, j, d, u)
  BY DEF Before, Lex, HeaderAt, ProductAt

LEMMA ValueHeaderThenHeader ==
  ASSUME NEW r \in Int, NEW h \in Int, NEW c \in Int, NEW t \in Int,
         NEW j \in Int, NEW d \in Int, NEW u \in Int
  PROVE  Before(HeaderAt(r, h, c, t), HeaderAt(r, j, d, u)) <=> Lex(h, c, t, j, d, u)
  BY DEF Before, Lex, HeaderAt, ProductAt

ValueHeader(r, h, c, t) ==
  [at |-> <<r, h, 0, c, t, 0>>, for_gwrite |-> FALSE, row |-> value_row(r, c, t),
   comps |-> encoded(decoded_up(num_comps(r, c))), readres |-> encoded(1)]

LEMMA ValueHeaders == ASSUME NEW r
  PROVE  \A x : x \in attend_headers(r) <=>
           \E h \in Heads, c \in 0..(value_chunks(r) - 1), t \in 0..(value_tiles - 1) :
             x = ValueHeader(r, h, c, t)
  BY DEF attend_headers, ValueHeader

LEMMA ValuesUnder ==
  ASSUME Given, NEW r \in DOMAIN seq_len, NEW h, NEW c, NEW t, InValues(r, h, c, t)
  PROVE  Under(attend_headers(r), attend_gemvs(r), ValueHeader(r, h, c, t)) = {ValueGemv(r, h, c, t)}
  <1> DEFINE H == attend_headers(r)
             y == ValueHeader(r, h, c, t)
             U == Under(H, attend_gemvs(r), y)
             z == ValueGemv(r, h, c, t)
  <1>1. r \in Int /\ h \in Int /\ c \in Int /\ t \in Int
    <2>1. r \in Nat /\ h \in Nat /\ c \in Nat /\ t \in Nat BY RequestSizes, ValueDigits
    <2>2. QED BY <2>1
  <1>2. y.at = HeaderAt(r, h, c, t) BY DEF ValueHeader, HeaderAt
  <1>3. z.at = ProductAt(r, h, c, t) BY DEF ValueGemv, ProductAt
  <1>4. ASSUME NEW g \in U PROVE g = z
    <2>1. g \in attend_gemvs(r) /\ Before(y.at, g.at) BY DEF Under
    <2>2. PICK j, d, u : InValues(r, j, d, u) /\ g = ValueGemv(r, j, d, u) BY <2>1, PickValue
    <2>3. j \in Int /\ d \in Int /\ u \in Int
      <3>1. j \in Nat /\ d \in Nat /\ u \in Nat BY <2>2, ValueDigits
      <3>2. QED BY <3>1
    <2>4. g.at = ProductAt(r, j, d, u) BY <2>2 DEF ValueGemv, ProductAt
    <2> DEFINE x == ValueHeader(r, j, d, u)
    <2>5. x \in H BY <2>2, ValueHeaders DEF InValues
    <2>6. x.at = HeaderAt(r, j, d, u) BY DEF ValueHeader, HeaderAt
    <2>7. SameOrLex(h, c, t, j, d, u)
      <3>1. Before(HeaderAt(r, h, c, t), ProductAt(r, j, d, u)) BY <1>2, <2>1, <2>4
      <3>2. QED BY <1>1, <2>3, <3>1, ValueHeaderThenProduct
    <2>8. ~Before(g.at, x.at)
      <3>1. ~Lex(j, d, u, j, d, u) BY <2>3 DEF Lex
      <3>2. ~Before(ProductAt(r, j, d, u), HeaderAt(r, j, d, u))
        BY <1>1, <2>3, <3>1, ValueProductThenHeader
      <3>3. QED BY <2>4, <2>6, <3>2
    <2>9. ~Before(y.at, x.at) BY <2>5, <2>8 DEF Under
    <2>10. ~Lex(h, c, t, j, d, u)
      <3>1. ~Before(HeaderAt(r, h, c, t), HeaderAt(r, j, d, u)) BY <1>2, <2>6, <2>9
      <3>2. QED BY <1>1, <2>3, <3>1, ValueHeaderThenHeader
    <2>11. h = j /\ c = d /\ t = u BY <2>7, <2>10 DEF SameOrLex
    <2>12. QED BY <2>2, <2>11
  <1>5. z \in U
    <2>1. z \in attend_gemvs(r) BY ValueGemvs DEF InValues
    <2>2. Before(y.at, z.at)
      <3>1. SameOrLex(h, c, t, h, c, t) BY DEF SameOrLex
      <3>2. Before(HeaderAt(r, h, c, t), ProductAt(r, h, c, t)) BY <1>1, <3>1, ValueHeaderThenProduct
      <3>3. QED BY <1>2, <1>3, <3>2
    <2>3. ASSUME NEW x \in H, Before(y.at, x.at) PROVE Before(z.at, x.at)
      <3>1. PICK j \in Heads, d \in 0..(value_chunks(r) - 1), u \in 0..(value_tiles - 1) :
              x = ValueHeader(r, j, d, u)
        BY ValueHeaders
      <3>2. j \in Int /\ d \in Int /\ u \in Int
        <4>1. j \in Nat /\ d \in Nat /\ u \in Nat BY <3>1, ValueDigits DEF InValues
        <4>2. QED BY <4>1
      <3>3. x.at = HeaderAt(r, j, d, u) BY <3>1 DEF ValueHeader, HeaderAt
      <3>4. Lex(h, c, t, j, d, u)
        <4>1. Before(HeaderAt(r, h, c, t), HeaderAt(r, j, d, u)) BY <1>2, <2>3, <3>3
        <4>2. QED BY <1>1, <3>2, <4>1, ValueHeaderThenHeader
      <3>5. Before(ProductAt(r, h, c, t), HeaderAt(r, j, d, u))
        BY <1>1, <3>2, <3>4, ValueProductThenHeader
      <3>6. QED BY <1>3, <3>3, <3>5
    <2>4. QED BY <2>1, <2>2, <2>3 DEF Under
  <1> HIDE DEF U, z
  <1>6. U = {z} BY <1>4, <1>5
  <1>7. QED BY <1>6 DEF U, z

LEMMA CompsSmall ==
  ASSUME Given, NEW r \in DOMAIN seq_len, NEW c \in Nat, PageSize <= 128 * CompCoverage
  PROVE  num_comps(r, c) \in Nat /\ num_comps(r, c) <= 128
  <1>1. num_comps(r, c) \in Nat BY RequestSizes
  <1> DEFINE n == seq_len[r] % PageSize
  <1>2. n \in Nat /\ n <= PageSize BY RequestSizes, Positive, DivMod
  <1>3. n <= 128 * CompCoverage BY <1>2, Positive
  <1>4. ceil(n, CompCoverage) <= 128
    <2> HIDE DEF n
    <2>1. QED BY <1>2, <1>3, Positive, CeilBound
  <1>5. PageSize \div CompCoverage <= 128
    <2>1. 128 * CompCoverage \in Nat BY Positive
    <2>2. PageSize \div CompCoverage <= (128 * CompCoverage) \div CompCoverage
      BY <2>1, Positive, DivMono
    <2>3. (128 * CompCoverage) \div CompCoverage = 128 BY Positive, DivExact
    <2>4. QED BY <2>2, <2>3
  <1>6. QED BY <1>1, <1>4, <1>5 DEF num_comps

LEMMA ValueHeadersFor == ASSUME Given, ~OfKeys, NEW r \in DOMAIN seq_len
  PROVE  HeadersFor(r, attend_headers(r), attend_gemvs(r))
  <1> DEFINE H == attend_headers(r)
             G == attend_gemvs(r)
  <1>1. r \in Nat BY RequestSizes
  <1>2. ASSUME NEW x \in H
        PROVE  \E h, c, t : InValues(r, h, c, t) /\ x = ValueHeader(r, h, c, t)
    BY ValueHeaders DEF InValues
  <1>3. ASSUME NEW x \in H PROVE x.at \in Place /\ x.at[1] = r
    <2>1. PICK h, c, t : InValues(r, h, c, t) /\ x = ValueHeader(r, h, c, t) BY <1>2
    <2>2. h \in Nat /\ c \in Nat /\ t \in Nat BY <2>1, ValueDigits
    <2>3. x.at = <<r, h, 0, c, t, 0>> BY <2>1 DEF ValueHeader
    <2>4. QED BY <1>1, <2>2, <2>3 DEF Place
  <1>4. ASSUME NEW g \in G PROVE \E x \in H : Before(x.at, g.at)
    <2>1. PICK h, c, t : InValues(r, h, c, t) /\ g = ValueGemv(r, h, c, t) BY PickValue
    <2>2. h \in Nat /\ c \in Nat /\ t \in Nat BY <2>1, ValueDigits
    <2>3. ValueHeader(r, h, c, t) \in H BY <2>1, ValueHeaders DEF InValues
    <2>4. ValueHeader(r, h, c, t).at = <<r, h, 0, c, t, 0>> /\ g.at = <<r, h, 0, c, t, 1>>
      BY <2>1 DEF ValueHeader, ValueGemv
    <2>5. Before(<<r, h, 0, c, t, 0>>, <<r, h, 0, c, t, 1>>)
      <3>1. SameOrLex(h, c, t, h, c, t) BY DEF SameOrLex
      <3>2. h \in Int /\ c \in Int /\ t \in Int BY <2>2
      <3>3. Before(HeaderAt(r, h, c, t), ProductAt(r, h, c, t)) BY <1>1, <3>1, <3>2, ValueHeaderThenProduct
      <3>4. QED BY <3>3 DEF HeaderAt, ProductAt
    <2>6. QED BY <2>3, <2>4, <2>5
  <1>5. ASSUME Announceable, NEW x \in H PROVE Enough(x, Under(H, G, x))
    <2>1. PICK h, c, t : InValues(r, h, c, t) /\ x = ValueHeader(r, h, c, t) BY <1>2
    <2> DEFINE z == ValueGemv(r, h, c, t)
               U == Under(H, G, x)
               n == num_comps(r, c)
    <2>2. U = {z} BY <2>1, ValuesUnder
    <2>3. /\ x.for_gwrite = FALSE /\ x.row = value_row(r, c, t)
          /\ x.comps = encoded(decoded_up(n)) /\ x.readres = encoded(1)
      BY <2>1 DEF ValueHeader
    <2>4. z.row = x.row /\ z.comps = n BY <2>3 DEF ValueGemv
    <2>5. c \in Nat BY <2>1, ValueDigits
    <2>6. n \in Nat /\ n <= 128 BY <1>5, <2>5, CompsSmall DEF Announceable
    <2>7. encoded(1) = 1 BY EncodedPower DEF PowersOfTwo
    <2>8. x.comps \in Nat /\ n <= x.comps BY <2>3, <2>6, RoundedUp
    <2> HIDE DEF z, U, n
    <2>9. Cardinality(U) = 1 BY <2>2, FS_Singleton
    <2>10. 1 * n <= x.comps BY <2>6, <2>8
    <2>11. QED BY <2>2, <2>3, <2>4, <2>7, <2>9, <2>10 DEF Enough, U
  <1>6. QED BY <1>3, <1>4, <1>5 DEF HeadersFor, Announced

-----------------------------------------------------------------------------
\* The requests and what depends on them alone do not change.
LEMMA SameRequests == ASSUME UNCHANGED <<op, n_tp, seq_len>>, Given
  PROVE  /\ Given' /\ batch_size' = batch_size /\ (OfKeys' <=> OfKeys) /\ Heads' = Heads
         /\ \A r : num_rows(r)' = num_rows(r) /\ Parts(r)' = Parts(r)
                   /\ value_chunks(r)' = value_chunks(r)
         /\ (Announceable' <=> Announceable)
  <1>1. Given' /\ batch_size' = batch_size BY DEF Given, batch_size
  <1>2. (OfKeys' <=> OfKeys) /\ (Fused' <=> Fused) BY DEF OfKeys, Fused
  <1>3. E' = E /\ Nh' = Nh /\ Heads' = Heads BY DEF E, Nh, Heads
  <1>4. ASSUME NEW r
        PROVE  num_rows(r)' = num_rows(r) /\ Parts(r)' = Parts(r) /\ value_chunks(r)' = value_chunks(r)
    BY <1>2 DEF num_rows, Parts, value_chunks, tiles_per_chunk, allocated_seq_len
  <1>5. chunks' = chunks BY <1>2, <1>3 DEF chunks
  <1>6. \A c : heads_in_tile(c)' = heads_in_tile(c)
    BY <1>2, <1>3, <1>5 DEF heads_in_tile, heads_in_last_chunk, heads_per_tile, gemv_heads_in_last_chunk
  <1>7. Announceable' <=> Announceable
    BY <1>2, <1>5, <1>6 DEF Announceable, comps_per_head
  <1>8. QED BY <1>1, <1>2, <1>3, <1>4, <1>7

\* The properties, tile by tile.
SourcesOK(G, S) ==
  /\ \A g, h \in G : g.dest = h.dest => g = h
  /\ \A s \in S : SumOf(G, s)
  /\ \A s, u \in S : s # u => Apart(s, u)
RowsOK(G) == \A g \in G :
  /\ g.row < num_rows(g.req)
  /\ \A h \in G : h.req = g.req /\ h.head = g.head /\ h.row = g.row => h = g
SpaceOK(T) ==
  /\ \A g \in T.gemvs : g.req \in Nat /\ g.dest \in Nat /\ g.dest < spad_addr
  /\ \A s \in T.sums :
       /\ s.dest \in Nat /\ s.size \in Nat /\ s.dest + s.size <= acc_spad_addr
       /\ \A a \in s.srcs : a \in Nat /\ a < spad_addr
  /\ \A x \in T.headers \cup T.gemvs : x.at \in Place

LEMMA TileByTile ==
  /\ SourcesLoaded <=> \A k \in DOMAIN tiles : SourcesOK(tiles[k].gemvs, tiles[k].sums)
  /\ RowsInTensor <=> \A k \in DOMAIN tiles : RowsOK(tiles[k].gemvs)
  /\ InSpace <=> \A k \in DOMAIN tiles : SpaceOK(tiles[k])
  <1>1. SourcesLoaded <=> \A k \in DOMAIN tiles : SourcesOK(tiles[k].gemvs, tiles[k].sums)
    BY DEF SourcesLoaded, SourcesOK, SumOf, From, Parts, Apart
  <1>2. RowsInTensor <=> \A k \in DOMAIN tiles : RowsOK(tiles[k].gemvs) BY DEF RowsInTensor, RowsOK
  <1>3. InSpace <=> \A k \in DOMAIN tiles : SpaceOK(tiles[k]) BY DEF InSpace, SpaceOK
  <1>4. QED BY <1>1, <1>2, <1>3

TilesOK == \A k \in DOMAIN tiles : LET T == tiles[k] IN
  /\ SpaceOK(T) /\ SourcesOK(T.gemvs, T.sums)
  /\ BanksAgree => RowsOK(T.gemvs)
  /\ Announceable => Announced(T.headers, T.gemvs)

LEMMA TilesAre == MhaInv <=> Given /\ Numbers /\ Cuts /\ Earlier /\ StoredSoFar /\ TilesOK
  BY TileByTile, AnnouncedTiles DEF MhaInv, TilesOK

LEMMA SeqOfRange == ASSUME NEW s, NEW n \in Nat, s = [k \in 1..n |-> s[k]]
  PROVE  s \in Seq({s[k] : k \in DOMAIN s}) /\ Len(s) = n /\ DOMAIN s = 1..n
  <1>1. DOMAIN s = 1..n OBVIOUS
  <1> DEFINE R == {s[k] : k \in DOMAIN s}
  <1>2. \A k \in 1..n : s[k] \in R BY <1>1
  <1> HIDE DEF R
  <1>3. s \in [1..n -> R] BY <1>2
  <1>4. s \in Seq(R) BY <1>3
  <1>5. QED BY <1>1, <1>4 DEF R

LEMMA TilesSeq == ASSUME Numbers
  PROVE  /\ Len(tiles) \in Nat /\ DOMAIN tiles = 1..Len(tiles)
         /\ tiles = [k \in 1..Len(tiles) |-> tiles[k]]
         /\ (Len(tiles) = 0 <=> tiles = <<>>)
  <1> DEFINE R == {tiles[k] : k \in DOMAIN tiles}
  <1>1. tiles \in Seq(R) BY DEF Numbers
  <1> HIDE DEF R
  <1>2. QED BY <1>1

\* The properties of tiles after a step, which may be stated with the requests
\* before it.
TileOK(T) ==
  /\ SourcesOK(T.gemvs, T.sums)
  /\ BanksAgree => RowsOK(T.gemvs)
  /\ Announceable => Announced(T.headers, T.gemvs)

LEMMA TilesAfter ==
  ASSUME UNCHANGED <<op, n_tp, seq_len>>, Given,
         \A k \in DOMAIN tiles' : TileOK(tiles'[k]) /\ SpaceOK(tiles[k])'
  PROVE  TilesOK'
  <1>1. /\ \A r : num_rows(r)' = num_rows(r) /\ Parts(r)' = Parts(r)
        /\ Announceable' <=> Announceable
    BY SameRequests
  <1> SUFFICES ASSUME NEW k \in DOMAIN tiles'
               PROVE  (SpaceOK(tiles[k]) /\ SourcesOK(tiles[k].gemvs, tiles[k].sums)
                       /\ (BanksAgree => RowsOK(tiles[k].gemvs))
                       /\ (Announceable => Announced(tiles[k].headers, tiles[k].gemvs)))'
    BY DEF TilesOK
  <1>2. TileOK(tiles'[k]) /\ SpaceOK(tiles[k])' OBVIOUS
  <1>3. SourcesOK(tiles[k].gemvs, tiles[k].sums)'
    <2>1. SourcesOK(tiles'[k].gemvs, tiles'[k].sums) BY <1>2 DEF TileOK
    <2>2. QED BY <1>1, <2>1 DEF SourcesOK, SumOf, From, Apart
  <1>4. ASSUME BanksAgree PROVE RowsOK(tiles[k].gemvs)'
    <2>1. RowsOK(tiles'[k].gemvs) BY <1>2, <1>4 DEF TileOK
    <2>2. QED BY <1>1, <2>1 DEF RowsOK
  <1>5. ASSUME Announceable' PROVE Announced(tiles[k].headers, tiles[k].gemvs)'
    <2>1. Announced(tiles'[k].headers, tiles'[k].gemvs) BY <1>1, <1>2, <1>5 DEF TileOK
    <2>2. QED BY <2>1 DEF Announced, Enough, Under, Before
  <1>6. QED BY <1>2, <1>3, <1>4, <1>5 DEF BanksAgree

LEMMA TilesKept ==
  ASSUME UNCHANGED <<op, n_tp, seq_len, tiles, spad_addr, acc_spad_addr>>, Given, TilesOK
  PROVE  TilesOK'
  <1>1. \A k \in DOMAIN tiles' : TileOK(tiles'[k]) BY DEF TilesOK, TileOK
  <1>2. \A k \in DOMAIN tiles' : SpaceOK(tiles[k])' BY DEF TilesOK, SpaceOK, Place
  <1>3. QED BY <1>1, <1>2, TilesAfter

\* A head stays stored while tiles grow.
LEMMA StoredKept ==
  ASSUME UNCHANGED <<op, n_tp, seq_len>>, Given, StoredSoFar, next \in Nat, next' \in Nat, next' <= next,
         \A k \in DOMAIN tiles : k \in DOMAIN tiles' /\ tiles[k].stores \subseteq tiles'[k].stores
                                 /\ tiles[k].sums \subseteq tiles'[k].sums
  PROVE  StoredSoFar'
  <1>1. (OfKeys' <=> OfKeys) /\ Heads' = Heads /\ \A r : value_chunks(r)' = value_chunks(r)
    BY SameRequests
  <1> SUFFICES ASSUME NEW r \in 0..(next' - 1), NEW h \in Heads', r \in DOMAIN seq_len',
                      OfKeys' \/ value_chunks(r)' > 1
               PROVE  \E k \in DOMAIN tiles' : StoredIn(k, r, h)'
    BY DEF StoredSoFar
  <1>2. r \in 0..(next - 1) /\ h \in Heads /\ r \in DOMAIN seq_len /\ (OfKeys \/ value_chunks(r) > 1)
    BY <1>1
  <1>3. PICK k \in DOMAIN tiles : StoredIn(k, r, h) BY <1>2 DEF StoredSoFar
  <1>4. StoredIn(k, r, h)' BY <1>3 DEF StoredIn
  <1>5. QED BY <1>3, <1>4

-----------------------------------------------------------------------------
\* A request is written.
StoresOf(S) ==
  {[at |-> [s.at EXCEPT ![5] = 1], src |-> s.dest, req |-> s.req, head |-> s.head] : s \in S}

LEMMA WrittenTile ==
  ASSUME Numbers, Len(tiles) > 0, NEW H, NEW G, NEW S, Write(H, G, S)
  PROVE  /\ DOMAIN tiles' = DOMAIN tiles /\ Len(tiles') = Len(tiles)
         /\ Len(tiles) \in DOMAIN tiles
         /\ tiles' \in Seq({tiles'[k] : k \in DOMAIN tiles'})
         /\ \A k \in DOMAIN tiles : k # Len(tiles) => tiles'[k] = tiles[k]
         /\ LET T == tiles[Len(tiles)] IN
              tiles'[Len(tiles)] =
                [start |-> T.start, end |-> T.end, headers |-> T.headers \cup H,
                 gemvs |-> T.gemvs \cup G, sums |-> T.sums \cup S, stores |-> T.stores \cup StoresOf(S)]
  <1> DEFINE n == Len(tiles)
             T == tiles[n]
             M == {[at |-> [s.at EXCEPT ![5] = 1], src |-> s.dest, req |-> s.req, head |-> s.head] : s \in S}
  <1>1. n \in Nat /\ DOMAIN tiles = 1..n /\ tiles = [k \in 1..n |-> tiles[k]] BY TilesSeq
  <1>2. n \in 1..n BY <1>1
  <1>3. Record(T) BY <1>1, <1>2 DEF Numbers
  <1>4. tiles' = [tiles EXCEPT ![n].headers = @ \cup H, ![n].gemvs = @ \cup G, ![n].sums = @ \cup S,
                               ![n].stores = @ \cup M]
    BY DEF Write
  <1> HIDE DEF M, n
  <1>5. DOMAIN tiles' = DOMAIN tiles BY <1>4
  <1>6. \A k \in DOMAIN tiles : k # n => tiles'[k] = tiles[k] BY <1>4
  <1>7. tiles'[n] = [T EXCEPT !.headers = @ \cup H, !.gemvs = @ \cup G, !.sums = @ \cup S,
                              !.stores = @ \cup M]
    BY <1>1, <1>2, <1>4
  <1>8. tiles'[n] = [start |-> T.start, end |-> T.end, headers |-> T.headers \cup H,
                     gemvs |-> T.gemvs \cup G, sums |-> T.sums \cup S, stores |-> T.stores \cup M]
    BY <1>3, <1>7 DEF Record
  <1>9. tiles' = [k \in 1..n |-> tiles'[k]] BY <1>1, <1>4
  <1>10. tiles' \in Seq({tiles'[k] : k \in DOMAIN tiles'}) /\ Len(tiles') = n BY <1>1, <1>9, SeqOfRange
  <1>11. QED BY <1>1, <1>2, <1>5, <1>6, <1>8, <1>10 DEF M, n, StoresOf

LEMMA SourcesMore ==
  ASSUME NEW T, SpaceOK(T), SourcesOK(T.gemvs, T.sums), spad_addr \in Nat, acc_spad_addr \in Nat,
         NEW r, NEW G, NEW S, GemvsFor(r, G), SumsFor(r, G, S)
  PROVE  SourcesOK(T.gemvs \cup G, T.sums \cup S)
  <1> DEFINE Q == T.gemvs
             R == T.sums
  <1>1. \A g \in Q : g.dest \in Nat /\ g.dest < spad_addr BY DEF SpaceOK
  <1>2. \A g \in G : g.dest \in Nat /\ spad_addr <= g.dest BY DEF GemvsFor
  <1>3. \A g \in Q, k \in G : g.dest # k.dest BY <1>1, <1>2
  <1>4. \A g, k \in Q \cup G : g.dest = k.dest => g = k
    <2>1. \A g, k \in Q : g.dest = k.dest => g = k BY DEF SourcesOK
    <2>2. \A g, k \in G : g.dest = k.dest => g = k BY DEF GemvsFor
    <2>3. QED BY <1>3, <2>1, <2>2
  <1>5. ASSUME NEW s \in R PROVE SumOf(Q \cup G, s)
    <2>1. \A a \in s.srcs : a \in Nat /\ a < spad_addr BY DEF SpaceOK
    <2>2. \A g \in G : g.dest \notin s.srcs BY <1>2, <2>1
    <2>3. From(Q \cup G, s) = From(Q, s) BY <2>2 DEF From
    <2>4. SumOf(Q, s) BY DEF SourcesOK
    <2>5. QED BY <2>3, <2>4 DEF SumOf
  <1>6. ASSUME NEW s \in S PROVE SumOf(Q \cup G, s)
    <2>1. \A a \in s.srcs : \E g \in G : a = g.dest BY DEF SumsFor
    <2>2. \A g \in Q : g.dest \notin s.srcs BY <1>3, <2>1
    <2>3. From(Q \cup G, s) = From(G, s) BY <2>2 DEF From
    <2>4. SumOf(G, s) BY DEF SumsFor
    <2>5. QED BY <2>3, <2>4 DEF SumOf
  <1>7. ASSUME NEW s \in R, NEW u \in S PROVE Apart(s, u) /\ Apart(u, s)
    <2>1. s.dest \in Nat /\ s.size \in Nat /\ s.dest + s.size <= acc_spad_addr BY DEF SpaceOK
    <2>2. u.dest \in Nat /\ acc_spad_addr <= u.dest BY DEF SumsFor
    <2>3. s.dest + s.size <= u.dest BY <2>1, <2>2
    <2>4. QED BY <2>3 DEF Apart
  <1>8. \A s, u \in R : s # u => Apart(s, u) BY DEF SourcesOK
  <1>9. \A s, u \in S : s # u => Apart(s, u) BY DEF SumsFor
  <1> HIDE DEF Q, R
  <1>10. \A s, u \in R \cup S : s # u => Apart(s, u) BY <1>7, <1>8, <1>9
  <1>11. \A s \in R \cup S : SumOf(Q \cup G, s) BY <1>5, <1>6
  <1>12. QED BY <1>4, <1>10, <1>11 DEF SourcesOK, Q, R

LEMMA RowsMore ==
  ASSUME NEW T, NEW r \in Nat, NEW G, BanksAgree, RowsOK(T.gemvs), GemvsFor(r, G), \A g \in T.gemvs : g.req < r
  PROVE  RowsOK(T.gemvs \cup G)
  <1> DEFINE Q == T.gemvs
  <1>1. \A g \in Q : g.req # r BY r < r <=> FALSE
  <1>2. \A g \in G : g.req = r /\ g.row < num_rows(r) BY DEF GemvsFor
  <1>3. \A g, k \in G : k.head = g.head /\ k.row = g.row => k = g BY DEF GemvsFor
  <1>4. QED BY <1>1, <1>2, <1>3 DEF RowsOK

LEMMA SpaceMore ==
  ASSUME Given, spad_addr \in Nat, acc_spad_addr \in Nat, NEW T, SpaceOK(T),
         NEW r \in Nat, NEW H, NEW G, NEW S, GemvsFor(r, G), SumsFor(r, G, S), HeadersFor(r, H, G),
         NEW p \in Nat, p = nth(Cardinality(G)), NEW q \in Nat, q = acc_spad_addr + Space(S)
  PROVE  /\ spad_addr <= p /\ acc_spad_addr <= q
         /\ \A g \in T.gemvs \cup G : g.req \in Nat /\ g.dest \in Nat /\ g.dest < p
         /\ \A s \in T.sums \cup S :
              /\ s.dest \in Nat /\ s.size \in Nat /\ s.dest + s.size <= q
              /\ \A a \in s.srcs : a \in Nat /\ a < p
         /\ \A x \in (T.headers \cup H) \cup (T.gemvs \cup G) : x.at \in Place
  <1>1. spad_addr <= p
    <2>1. Cardinality(G) \in Nat BY DEF GemvsFor
    <2>2. QED BY <2>1, Nth
  <1>2. acc_spad_addr <= q BY DEF SumsFor
  <1>3. \A g \in T.gemvs \cup G : g.req \in Nat /\ g.dest \in Nat /\ g.dest < p
    <2>1. \A g \in T.gemvs : g.req \in Nat /\ g.dest \in Nat /\ g.dest < spad_addr BY DEF SpaceOK
    <2>2. \A g \in G : g.req \in Nat /\ g.dest \in Nat /\ g.dest < p BY DEF GemvsFor
    <2>3. QED BY <1>1, <2>1, <2>2
  <1>4. ASSUME NEW s \in T.sums
        PROVE  /\ s.dest \in Nat /\ s.size \in Nat /\ s.dest + s.size <= q
               /\ \A a \in s.srcs : a \in Nat /\ a < p
    <2>1. /\ s.dest \in Nat /\ s.size \in Nat /\ s.dest + s.size <= acc_spad_addr
          /\ \A a \in s.srcs : a \in Nat /\ a < spad_addr
      BY DEF SpaceOK
    <2>2. QED BY <1>1, <1>2, <2>1
  <1>5. ASSUME NEW s \in S
        PROVE  /\ s.dest \in Nat /\ s.size \in Nat /\ s.dest + s.size <= q
               /\ \A a \in s.srcs : a \in Nat /\ a < p
    <2>1. /\ s.dest \in Nat /\ s.size \in Nat /\ s.dest + s.size <= acc_spad_addr + Space(S)
          /\ \A a \in s.srcs : \E g \in G : a = g.dest
      BY DEF SumsFor
    <2>2. QED BY <1>3, <2>1
  <1>6. \A x \in (T.headers \cup H) \cup (T.gemvs \cup G) : x.at \in Place
    BY DEF SpaceOK, GemvsFor, HeadersFor
  <1>7. QED BY <1>1, <1>2, <1>3, <1>4, <1>5, <1>6

LEMMA WriteStep ==
  ASSUME MhaInv, pc = "request", next \in DOMAIN seq_len, NEW H, NEW G, NEW S,
         GemvsFor(next, G), SumsFor(next, G, S), HeadersFor(next, H, G), Write(H, G, S),
         UNCHANGED <<op, n_tp, seq_len, i, sram_needs, req_idxs, prev_idx>>
  PROVE  MhaInv'
  <1> DEFINE n == Len(tiles)
             T == tiles[n]
             U == tiles'[n]
  <1>1. Given /\ Numbers /\ Cuts /\ Earlier /\ StoredSoFar /\ TilesOK BY TilesAre
  <1>2. /\ n \in Nat /\ n > 0 /\ DOMAIN tiles = 1..n /\ T.end = req_idxs[n] /\ next <= req_idxs[n]
        /\ n <= Len(req_idxs) /\ (n = Len(req_idxs) => req_idxs[n] = batch_size - 1)
    BY <1>1, TilesSeq DEF Cuts
  <1>3. /\ DOMAIN tiles' = DOMAIN tiles /\ Len(tiles') = n /\ n \in DOMAIN tiles
        /\ tiles' \in Seq({tiles'[k] : k \in DOMAIN tiles'})
        /\ \A k \in DOMAIN tiles : k # n => tiles'[k] = tiles[k]
        /\ U = [start |-> T.start, end |-> T.end, headers |-> T.headers \cup H,
                gemvs |-> T.gemvs \cup G, sums |-> T.sums \cup S, stores |-> T.stores \cup StoresOf(S)]
    BY <1>1, <1>2, WrittenTile
  <1>4. /\ spad_addr' = nth(Cardinality(G)) /\ acc_spad_addr' = acc_spad_addr + Space(S)
        /\ next' = next + 1
        /\ pc' = IF next < T.end THEN "request" ELSE IF n < Len(req_idxs) THEN "tile" ELSE "done"
    BY DEF Write, Space
  <1>5. spad_addr \in Nat /\ acc_spad_addr \in Nat /\ next \in Nat /\ i \in Nat /\ prev_idx \in Nat
        /\ req_idxs \in Seq(Nat) /\ i <= batch_size
    BY <1>1 DEF Numbers
  <1>6. Given' /\ batch_size' = batch_size BY <1>1, SameRequests
  <1>7. spad_addr' \in Nat /\ acc_spad_addr' \in Nat
    <2>1. Cardinality(G) \in Nat /\ Space(S) \in Nat BY DEF GemvsFor, SumsFor
    <2>2. nth(Cardinality(G)) \in Nat BY <1>1, <1>5, <2>1, Nth
    <2>3. acc_spad_addr + Space(S) \in Nat BY <1>5, <2>1
    <2>4. QED BY <1>4, <2>2, <2>3
  <1>8. /\ U.gemvs = T.gemvs \cup G /\ U.sums = T.sums \cup S /\ U.headers = T.headers \cup H
        /\ U.stores = T.stores \cup StoresOf(S) /\ U.end = T.end
    BY <1>3
  <1>9. Numbers'
    <2>1. \A k \in DOMAIN tiles' : Record(tiles'[k])
      <3> SUFFICES ASSUME NEW k \in DOMAIN tiles PROVE Record(tiles'[k]) BY <1>3
      <3>1. CASE k = n BY <1>3, <3>1 DEF Record
      <3>2. CASE k # n BY <1>1, <1>3, <3>2 DEF Numbers
      <3>3. QED BY <3>1, <3>2
    <2>2. pc' \in {"cut", "tile", "request", "done", "aborted"} BY <1>4
    <2>3. (\A k \in DOMAIN tiles : Record(tiles[k]))' BY <2>1 DEF Record
    <2>4. i' \in Nat /\ i' <= batch_size' /\ req_idxs' \in Seq(Nat) /\ prev_idx' \in Nat /\ next' \in Nat
      BY <1>4, <1>5, <1>6
    <2>5. QED BY <1>3, <1>7, <2>2, <2>3, <2>4 DEF Numbers
  <1>10. Cuts'
    <2>1. tiles' # <<>> /\ tiles # <<>> BY <1>2, <1>3
    <2>2. n \in DOMAIN req_idxs /\ req_idxs[n] \in Nat BY <1>2, <1>5
    <2>3. batch_size \in Nat BY <1>1 DEF Given
    <2>4. pc' # "cut" BY <1>4
    <2>5. pc' = "request" => next' <= req_idxs'[n] BY <1>2, <1>4, <1>5, <2>2
    <2>6. pc' = "tile" => n < Len(req_idxs) /\ prev_idx' <= next'
      <3>1. prev_idx = req_idxs[n] BY <1>1, <2>1 DEF Cuts
      <3>2. QED BY <1>2, <1>4, <1>5, <2>2, <3>1
    <2>7. pc' = "done" => next' = batch_size
      <3> SUFFICES ASSUME pc' = "done" PROVE next' = batch_size OBVIOUS
      <3>1. ~(next < req_idxs[n]) /\ ~(n < Len(req_idxs)) BY <1>2, <1>4
      <3>2. Len(req_idxs) \in Nat BY <1>5
      <3>3. n = Len(req_idxs) BY <1>2, <3>1, <3>2
      <3>4. QED BY <1>2, <1>4, <1>5, <2>2, <2>3, <3>1, <3>3
    <2>8. U.end = req_idxs'[n] BY <1>2, <1>8
    <2>9. QED BY <1>1, <1>2, <1>3, <1>6, <2>1, <2>4, <2>5, <2>6, <2>7, <2>8 DEF Cuts
  <1>11. /\ SpaceOK(T) /\ SourcesOK(T.gemvs, T.sums) /\ (BanksAgree => RowsOK(T.gemvs))
         /\ (Announceable => Announced(T.headers, T.gemvs))
    BY <1>1, <1>3 DEF TilesOK
  <1>12. (\A g \in T.gemvs : g.req < next) /\ (\A x \in T.headers \cup T.gemvs : x.at[1] < next)
    BY <1>1 DEF Earlier
  <1>13. Earlier'
    <2>1. \A g \in T.gemvs \cup G : g.req < next + 1
      <3>1. \A g \in G : g.req = next BY DEF GemvsFor
      <3>2. \A g \in T.gemvs : g.req \in Nat BY <1>11 DEF SpaceOK
      <3>3. QED BY <1>5, <1>12, <3>1, <3>2
    <2>2. \A x \in (T.headers \cup H) \cup (T.gemvs \cup G) : x.at[1] < next + 1
      <3>1. \A x \in H \cup G : x.at[1] = next BY DEF GemvsFor, HeadersFor
      <3>2. \A x \in T.headers \cup T.gemvs : x.at \in Place BY <1>11 DEF SpaceOK
      <3>3. \A x \in T.headers \cup T.gemvs : x.at[1] \in Int BY <3>2, PlaceParts
      <3>4. QED BY <1>5, <1>12, <3>1, <3>3
    <2>3. QED BY <1>3, <1>4, <1>8, <2>1, <2>2 DEF Earlier
  <1>14. \A k \in DOMAIN tiles' : TileOK(tiles'[k])
    <2> SUFFICES ASSUME NEW k \in DOMAIN tiles PROVE TileOK(tiles'[k]) BY <1>3
    <2>1. CASE k # n
      <3>1. TileOK(tiles[k]) BY <1>1 DEF TilesOK, TileOK
      <3>2. QED BY <1>3, <2>1, <3>1
    <2>2. CASE k = n
      <3>1. SourcesOK(T.gemvs \cup G, T.sums \cup S) BY <1>5, <1>11, SourcesMore
      <3>2. ASSUME BanksAgree PROVE RowsOK(T.gemvs \cup G) BY <1>5, <1>11, <1>12, <3>2, RowsMore
      <3>3. ASSUME Announceable PROVE Announced(T.headers \cup H, T.gemvs \cup G)
        <4>1. Announced(T.headers, T.gemvs) /\ Announced(H, G) BY <1>11, <3>3 DEF HeadersFor
        <4>2. \A x \in T.headers \cup T.gemvs : x.at \in Place /\ x.at[1] < next
          BY <1>11, <1>12 DEF SpaceOK
        <4>3. \A x \in H \cup G : x.at \in Place /\ x.at[1] = next BY DEF GemvsFor, HeadersFor
        <4>4. \A g \in G : \E x \in H : Before(x.at, g.at) BY DEF HeadersFor
        <4> HIDE DEF T
        <4>5. QED BY <1>5, <4>1, <4>2, <4>3, <4>4, AnnouncedMore
      <3> HIDE DEF T
      <3>4. TileOK(U) BY <1>8, <3>1, <3>2, <3>3 DEF TileOK
      <3>5. QED BY <2>2, <3>4
    <2>3. QED BY <2>1, <2>2
  <1>15. \A k \in DOMAIN tiles' : SpaceOK(tiles[k])'
    <2> SUFFICES ASSUME NEW k \in DOMAIN tiles PROVE SpaceOK(tiles[k])' BY <1>3
    <2>1. SpaceOK(tiles[k]) BY <1>1 DEF TilesOK
    <2> DEFINE V == tiles[k]
    <2>2. /\ spad_addr <= spad_addr' /\ acc_spad_addr <= acc_spad_addr'
          /\ \A g \in V.gemvs \cup G : g.req \in Nat /\ g.dest \in Nat /\ g.dest < spad_addr'
          /\ \A s \in V.sums \cup S :
               /\ s.dest \in Nat /\ s.size \in Nat /\ s.dest + s.size <= acc_spad_addr'
               /\ \A a \in s.srcs : a \in Nat /\ a < spad_addr'
          /\ \A x \in (V.headers \cup H) \cup (V.gemvs \cup G) : x.at \in Place
      BY <1>1, <1>4, <1>5, <1>7, <2>1, SpaceMore
    <2>3. CASE k # n
      <3>1. tiles'[k] = V BY <1>3, <2>3
      <3> HIDE DEF V
      <3>2. QED BY <2>2, <3>1 DEF SpaceOK, Place
    <2>4. CASE k = n
      <3>1. /\ tiles'[k].gemvs = V.gemvs \cup G /\ tiles'[k].sums = V.sums \cup S
            /\ tiles'[k].headers = V.headers \cup H
        BY <1>8, <2>4
      <3> HIDE DEF V
      <3>2. QED BY <2>2, <3>1 DEF SpaceOK, Place
    <2>5. QED BY <2>3, <2>4
  <1>16. TilesOK' BY <1>1, <1>14, <1>15, TilesAfter
  <1>17. StoredSoFar'
    <2>1. (OfKeys' <=> OfKeys) /\ Heads' = Heads /\ \A r : value_chunks(r)' = value_chunks(r)
      BY <1>1, SameRequests
    <2> SUFFICES ASSUME NEW r \in 0..(next' - 1), NEW h \in Heads, r \in DOMAIN seq_len,
                        OfKeys \/ value_chunks(r) > 1
                 PROVE  \E k \in DOMAIN tiles' : StoredIn(k, r, h)'
      BY <2>1 DEF StoredSoFar
    <2>2. CASE r # next
      <3>1. r \in 0..(next - 1) BY <1>4, <1>5, <2>2
      <3>2. PICK k \in DOMAIN tiles : StoredIn(k, r, h) BY <1>1, <3>1 DEF StoredSoFar
      <3>3. tiles[k].stores \subseteq tiles'[k].stores /\ tiles[k].sums \subseteq tiles'[k].sums
        BY <1>3, <1>8
      <3>4. StoredIn(k, r, h)' BY <3>2, <3>3 DEF StoredIn
      <3>5. QED BY <1>3, <3>4
    <2>3. CASE r = next
      <3>1. PICK s \in S : s.head = h BY <2>3 DEF SumsFor
      <3>2. s.req = next /\ Before(s.at, [s.at EXCEPT ![5] = 1]) BY DEF SumsFor
      <3> DEFINE m == [at |-> [s.at EXCEPT ![5] = 1], src |-> s.dest, req |-> s.req, head |-> s.head]
      <3>3. m \in U.stores /\ s \in U.sums BY <1>8 DEF StoresOf
      <3>4. m.req = r /\ m.head = h /\ s.req = r /\ s.head = h /\ m.src = s.dest /\ Before(s.at, m.at)
        BY <2>3, <3>1, <3>2
      <3> HIDE DEF m
      <3>5. PICK k \in DOMAIN tiles : k = n BY <1>3
      <3>6. StoredIn(k, r, h)' BY <3>3, <3>4, <3>5 DEF StoredIn
      <3>7. QED BY <1>3, <3>6
    <2>4. QED BY <2>2, <2>3
  <1>18. (Given /\ Numbers /\ Cuts /\ Earlier /\ StoredSoFar /\ TilesOK)'
    BY <1>6, <1>9, <1>10, <1>13, <1>16, <1>17
  <1>19. QED BY <1>18, TilesAre, PTL

-----------------------------------------------------------------------------
\* The other steps.
LEMMA MhaInit == Init => MhaInv
  <1> SUFFICES ASSUME Init PROVE Given /\ Numbers /\ Cuts /\ Earlier /\ StoredSoFar /\ TilesOK BY TilesAre
  <1>1. PICK n \in 1..MaxBatch : seq_len \in [0..(n - 1) -> SeqLens] BY DEF Init
  <1>2. n \in Nat \ {0} BY <1>1, MhaAssumption
  <1>3. DOMAIN seq_len = 0..(n - 1) BY <1>1
  <1>4. Cardinality(0..(n - 1)) = n
    <2>1. 0 \in Int /\ n - 1 \in Int BY <1>2
    <2>2. Cardinality(0..(n - 1)) = IF 0 > n - 1 THEN 0 ELSE (n - 1) - 0 + 1 BY <2>1, FS_Interval
    <2>3. QED BY <1>2, <2>2
  <1>5. batch_size = n BY <1>3, <1>4 DEF batch_size
  <1>6. seq_len \in [0..(batch_size - 1) -> Nat \ {0}] BY <1>1, <1>5, MhaAssumption
  <1>7. op \in AllOperations /\ n_tp \in TpSizes BY MhaAssumption DEF Init
  <1>8. Given BY <1>2, <1>5, <1>6, <1>7 DEF Given
  <1>9. tiles = <<>> /\ req_idxs = <<>> /\ next = 0 /\ prev_idx = 0 /\ i = 0 /\ spad_addr = 0
        /\ acc_spad_addr = 0 /\ pc = "cut"
    BY DEF Init
  <1>10. DOMAIN tiles = {} /\ DOMAIN req_idxs = {} /\ Len(tiles) = 0 /\ Len(req_idxs) = 0 BY <1>9
  <1>11. tiles \in Seq({tiles[k] : k \in DOMAIN tiles}) /\ req_idxs \in Seq(Nat) BY <1>9
  <1>12. 0 <= batch_size BY <1>2, <1>5
  <1>13. Numbers BY <1>9, <1>10, <1>11, <1>12 DEF Numbers
  <1>14. Cuts BY <1>9, <1>10 DEF Cuts
  <1>15. Earlier /\ TilesOK BY <1>9, <1>10 DEF Earlier, TilesOK
  <1>16. 0..(next - 1) = {} BY <1>9
  <1>17. StoredSoFar BY <1>16 DEF StoredSoFar
  <1>18. QED BY <1>8, <1>13, <1>14, <1>15, <1>17

\* A step that leaves the tiles alone.
LEMMA TilesAlone ==
  ASSUME MhaInv, pc' # "request",
         UNCHANGED <<op, n_tp, seq_len, tiles, prev_idx, next, spad_addr, acc_spad_addr>>,
         i' \in Nat, i' <= batch_size, req_idxs' \in Seq(Nat),
         pc' \in {"cut", "tile", "request", "done", "aborted"}, Cuts'
  PROVE  MhaInv'
  <1>1. Given /\ Numbers /\ Cuts /\ Earlier /\ StoredSoFar /\ TilesOK BY TilesAre
  <1>2. Given' /\ batch_size' = batch_size BY <1>1, SameRequests
  <1>3. Numbers' BY <1>1, <1>2 DEF Numbers, Record
  <1>4. Earlier' BY DEF Earlier
  <1>5. next \in Nat BY <1>1 DEF Numbers
  <1>6. StoredSoFar' BY <1>1, <1>5, StoredKept
  <1>7. TilesOK' BY <1>1, TilesKept
  <1>8. (Given /\ Numbers /\ Cuts /\ Earlier /\ StoredSoFar /\ TilesOK)' BY <1>2, <1>3, <1>4, <1>6, <1>7
  <1>9. QED BY <1>8, TilesAre, PTL

\* A cut is added after the others.
LEMMA CutAdded ==
  ASSUME Numbers, Cuts, pc = "cut", i > 0, batch_size \in Nat, batch_size' = batch_size,
         req_idxs' = Append(req_idxs, i - 1), UNCHANGED <<tiles, prev_idx, next>>
  PROVE  /\ req_idxs' \in Seq(Nat) /\ Len(req_idxs') = Len(req_idxs) + 1
         /\ (\A k, l \in DOMAIN req_idxs : k <= l => req_idxs[k] <= req_idxs[l])'
         /\ \A k \in DOMAIN req_idxs' : req_idxs'[k] \in Nat /\ req_idxs'[k] < i /\ req_idxs'[k] < batch_size
         /\ tiles = <<>> /\ Len(tiles) = 0 /\ prev_idx = 0 /\ prev_idx <= next /\ Len(req_idxs) \in Nat
  <1>1. i \in Nat /\ i <= batch_size /\ req_idxs \in Seq(Nat) /\ next \in Nat BY DEF Numbers
  <1>2. i - 1 \in Nat BY <1>1
  <1> DEFINE n == Len(req_idxs)
  <1>3. n \in Nat /\ DOMAIN req_idxs = 1..n BY <1>1
  <1>4. req_idxs' \in Seq(Nat) /\ Len(req_idxs') = n + 1 /\ DOMAIN req_idxs' = 1..(n + 1) BY <1>1, <1>2
  <1>5. (\A k \in 1..n : req_idxs'[k] = req_idxs[k] /\ req_idxs[k] \in Nat) /\ req_idxs'[n + 1] = i - 1
    BY <1>1, <1>2
  <1>6. \A k \in 1..n : req_idxs[k] < i BY <1>3 DEF Cuts
  <1>7. \A k, l \in 1..n : k <= l => req_idxs[k] <= req_idxs[l] BY <1>3 DEF Cuts
  <1> HIDE DEF n
  <1>8. \A k \in 1..(n + 1) : k \in 1..n \/ k = n + 1 BY <1>3
  <1>9. \A k \in DOMAIN req_idxs' : req_idxs'[k] \in Nat /\ req_idxs'[k] < i /\ req_idxs'[k] < batch_size
    <2> SUFFICES ASSUME NEW k \in 1..(n + 1)
                 PROVE  req_idxs'[k] \in Nat /\ req_idxs'[k] < i
      <3>1. \A a \in Nat : a < i => a < batch_size BY <1>1
      <3>2. QED BY <1>4, <3>1
    <2>1. CASE k \in 1..n BY <1>5, <1>6, <2>1
    <2>2. CASE k = n + 1
      <3>1. req_idxs'[k] = i - 1 BY <1>5, <2>2
      <3>2. i - 1 < i BY <1>1
      <3>3. QED BY <1>2, <3>1, <3>2
    <2>3. QED BY <1>8, <2>1, <2>2
  <1>10. ASSUME NEW k \in DOMAIN req_idxs', NEW l \in DOMAIN req_idxs', k <= l
         PROVE  req_idxs'[k] <= req_idxs'[l]
    <2>1. k \in 1..(n + 1) /\ l \in 1..(n + 1) BY <1>4
    <2>2. CASE l = n + 1 BY <1>1, <1>4, <1>5, <1>9, <2>2
    <2>3. CASE l # n + 1
      <3>1. l \in 1..n BY <1>8, <2>1, <2>3
      <3>2. k \in 1..n BY <1>3, <1>10, <2>1, <3>1
      <3>3. QED BY <1>5, <1>7, <1>10, <3>1, <3>2
    <2>4. QED BY <2>2, <2>3
  <1>11. tiles = <<>> /\ prev_idx = 0 BY DEF Cuts
  <1>12. QED BY <1>1, <1>3, <1>4, <1>9, <1>10, <1>11 DEF n

LEMMA CountStep == ASSUME MhaInv, CountRequest PROVE MhaInv'
  <1>1. Given /\ Numbers /\ Cuts BY TilesAre
  <1>2. UNCHANGED <<op, n_tp, seq_len, tiles, prev_idx, next, spad_addr, acc_spad_addr>>
        /\ pc = "cut" /\ i < batch_size
    BY DEF CountRequest
  <1>3. i \in Nat /\ i <= batch_size /\ req_idxs \in Seq(Nat) BY <1>1 DEF Numbers
  <1>4. batch_size \in Nat /\ batch_size' = batch_size BY <1>1, <1>2, SameRequests DEF Given
  <1>5. \A k \in DOMAIN req_idxs : req_idxs[k] \in Nat /\ req_idxs[k] < i BY <1>1, <1>2, <1>3 DEF Cuts
  <1>6. CASE i' = i + 1 /\ UNCHANGED <<req_idxs, pc>>
    <2>1. \A k \in DOMAIN req_idxs : req_idxs[k] < i' BY <1>3, <1>5, <1>6
    <2>2. Cuts' BY <1>1, <1>2, <1>4, <1>6, <2>1 DEF Cuts
    <2>3. QED BY <1>2, <1>3, <1>4, <1>6, <2>2, TilesAlone
  <1>7. CASE pc' = "aborted" /\ UNCHANGED <<i, req_idxs>>
    <2>1. Cuts' BY <1>1, <1>2, <1>4, <1>7 DEF Cuts
    <2>2. QED BY <1>2, <1>3, <1>7, <2>1, TilesAlone
  <1>8. CASE i # 0 /\ req_idxs' = Append(req_idxs, i - 1) /\ i' = i + 1 /\ UNCHANGED pc
    <2>1. i > 0 BY <1>3, <1>8
    <2>2. /\ req_idxs' \in Seq(Nat) /\ Len(req_idxs') = Len(req_idxs) + 1
          /\ (\A k, l \in DOMAIN req_idxs : k <= l => req_idxs[k] <= req_idxs[l])'
          /\ \A k \in DOMAIN req_idxs' : req_idxs'[k] \in Nat /\ req_idxs'[k] < i /\ req_idxs'[k] < batch_size
          /\ tiles = <<>> /\ Len(tiles) = 0 /\ prev_idx = 0 /\ Len(req_idxs) \in Nat
      BY <1>1, <1>2, <1>4, <1>8, <2>1, CutAdded
    <2>3. \A k \in DOMAIN req_idxs' : req_idxs'[k] < i' BY <1>3, <1>8, <2>2
    <2>4. Len(tiles') <= Len(req_idxs') BY <1>2, <2>2
    <2>5. Cuts' BY <1>2, <1>4, <1>8, <2>2, <2>3, <2>4 DEF Cuts
    <2>6. QED BY <1>2, <1>3, <1>4, <1>8, <2>2, <2>5, TilesAlone
  <1>9. QED BY <1>6, <1>7, <1>8 DEF CountRequest

LEMMA EndStep == ASSUME MhaInv, EndOfRequests PROVE MhaInv'
  <1>1. Given /\ Numbers /\ Cuts BY TilesAre
  <1>2. /\ UNCHANGED <<op, n_tp, seq_len, i, tiles, prev_idx, next, spad_addr, acc_spad_addr>>
        /\ pc = "cut" /\ i = batch_size /\ req_idxs' = Append(req_idxs, i - 1) /\ pc' = "tile"
    BY DEF EndOfRequests, last_idx
  <1>3. batch_size \in Nat \ {0} /\ batch_size' = batch_size BY <1>1, <1>2, SameRequests DEF Given
  <1>4. i > 0 /\ i \in Nat /\ i <= batch_size BY <1>2, <1>3
  <1>5. /\ req_idxs' \in Seq(Nat) /\ Len(req_idxs') = Len(req_idxs) + 1
        /\ (\A k, l \in DOMAIN req_idxs : k <= l => req_idxs[k] <= req_idxs[l])'
        /\ \A k \in DOMAIN req_idxs' : req_idxs'[k] \in Nat /\ req_idxs'[k] < i /\ req_idxs'[k] < batch_size
        /\ tiles = <<>> /\ Len(tiles) = 0 /\ prev_idx = 0 /\ prev_idx <= next /\ Len(req_idxs) \in Nat
    BY <1>1, <1>2, <1>3, <1>4, CutAdded
  <1>6. Len(tiles') < Len(req_idxs') /\ Len(tiles') <= Len(req_idxs') BY <1>2, <1>5
  <1>7. Cuts' BY <1>2, <1>3, <1>5, <1>6 DEF Cuts
  <1>8. QED BY <1>2, <1>4, <1>5, <1>7, TilesAlone

LEMMA OneStep == ASSUME MhaInv, OneTile PROVE MhaInv'
  <1>1. Given /\ Numbers /\ Cuts BY TilesAre
  <1>2. /\ UNCHANGED <<op, n_tp, seq_len, i, tiles, prev_idx, next, spad_addr, acc_spad_addr>>
        /\ pc = "cut"
        /\ (req_idxs' = <<batch_size - 1>> /\ pc' = "tile") \/ (pc' = "aborted" /\ UNCHANGED req_idxs)
    BY DEF OneTile
  <1>3. i \in Nat /\ i <= batch_size /\ req_idxs \in Seq(Nat) /\ next \in Nat BY <1>1 DEF Numbers
  <1>4. batch_size \in Nat \ {0} /\ batch_size' = batch_size BY <1>1, <1>2, SameRequests DEF Given
  <1>5. tiles = <<>> /\ prev_idx = 0 /\ Len(tiles) = 0 BY <1>1, <1>2 DEF Cuts
  <1>6. CASE pc' = "aborted" /\ UNCHANGED req_idxs
    <2>1. Cuts' BY <1>1, <1>2, <1>4, <1>6 DEF Cuts
    <2>2. QED BY <1>2, <1>3, <1>6, <2>1, TilesAlone
  <1>7. CASE req_idxs' = <<batch_size - 1>> /\ pc' = "tile"
    <2>1. req_idxs' \in Seq(Nat) /\ Len(req_idxs') = 1 /\ DOMAIN req_idxs' = {1}
          /\ req_idxs'[1] = batch_size - 1
      BY <1>4, <1>7
    <2>2. req_idxs'[1] <= req_idxs'[1] /\ req_idxs'[1] < batch_size BY <1>4, <2>1
    <2>3. Len(tiles') < Len(req_idxs') /\ Len(tiles') <= Len(req_idxs') BY <1>2, <1>5, <2>1
    <2>4. prev_idx' <= next' BY <1>2, <1>3, <1>5
    <2>5. \A k, l \in DOMAIN req_idxs' : k <= l => req_idxs'[k] <= req_idxs'[l] BY <2>1, <2>2
    <2>6. \A k \in DOMAIN req_idxs' : req_idxs'[k] < batch_size' BY <1>4, <2>1, <2>2
    <2>7. Cuts' BY <1>2, <1>5, <1>7, <2>3, <2>4, <2>5, <2>6 DEF Cuts
    <2>8. QED BY <1>2, <1>3, <1>7, <2>1, <2>7, TilesAlone
  <1>8. QED BY <1>2, <1>6, <1>7

\* The tile that is begun has no instructions yet.
LEMMA NewTileStep == ASSUME MhaInv, NewTile PROVE MhaInv'
  <1>1. Given /\ Numbers /\ Cuts /\ Earlier /\ StoredSoFar /\ TilesOK BY TilesAre
  <1>2. UNCHANGED <<op, n_tp, seq_len, i, req_idxs, spad_addr, acc_spad_addr>> /\ pc = "tile"
    BY DEF NewTile
  <1>3. i \in Nat /\ i <= batch_size /\ req_idxs \in Seq(Nat) /\ prev_idx \in Nat /\ next \in Nat
        /\ spad_addr \in Nat /\ acc_spad_addr \in Nat
    BY <1>1 DEF Numbers
  <1>4. Given' /\ batch_size' = batch_size BY <1>1, <1>2, SameRequests
  <1>5. CASE pc' = "aborted" /\ UNCHANGED <<tiles, prev_idx, next>>
    <2>1. Cuts' BY <1>1, <1>2, <1>4, <1>5 DEF Cuts
    <2>2. QED BY <1>2, <1>3, <1>5, <2>1, TilesAlone
  <1>6. CASE pc' # "aborted"
    <2>1. PICK n : n = Len(tiles) + 1 OBVIOUS
    <2> DEFINE T == [start |-> prev_idx, end |-> req_idxs[n],
                     headers |-> {}, gemvs |-> {}, sums |-> {}, stores |-> {}]
    <2>2. /\ tiles' = Append(tiles, T) /\ prev_idx' = req_idxs[n] /\ next' = prev_idx /\ pc' = "request"
          /\ n = Len(req_idxs) => req_idxs[n] = batch_size - 1
      BY <1>6, <2>1 DEF NewTile
    <2>3. Len(tiles) \in Nat /\ DOMAIN tiles = 1..Len(tiles) /\ tiles = [k \in 1..Len(tiles) |-> tiles[k]]
          /\ (Len(tiles) = 0 <=> tiles = <<>>)
      BY <1>1, TilesSeq
    <2>4. Len(tiles) < Len(req_idxs) /\ prev_idx <= next
          /\ prev_idx = IF tiles = <<>> THEN 0 ELSE req_idxs[Len(tiles)]
      BY <1>1, <1>2 DEF Cuts
    <2>5. n \in DOMAIN req_idxs /\ req_idxs[n] \in Nat /\ n \in Nat /\ n > 0 /\ n <= Len(req_idxs)
      BY <1>3, <2>1, <2>3, <2>4
    <2>6. prev_idx <= req_idxs[n]
      <3>1. CASE tiles = <<>> BY <2>4, <2>5, <3>1
      <3>2. CASE tiles # <<>>
        <4>1. Len(tiles) \in DOMAIN req_idxs /\ Len(tiles) <= n BY <1>3, <2>1, <2>3, <2>4, <3>2
        <4>2. QED BY <1>1, <2>4, <2>5, <3>2, <4>1 DEF Cuts
      <3>3. QED BY <3>1, <3>2
    <2>7. Record(T) BY DEF Record
    <2>8. T.gemvs = {} /\ T.headers = {} /\ T.sums = {} /\ T.end = req_idxs[n] OBVIOUS
    <2> HIDE DEF T
    <2>9. /\ DOMAIN tiles' = 1..n /\ tiles'[n] = T /\ Len(tiles') = n
          /\ \A k \in 1..n : k # n => k \in DOMAIN tiles /\ tiles'[k] = tiles[k]
          /\ \A k \in DOMAIN tiles : k \in 1..n /\ tiles'[k] = tiles[k]
          /\ tiles' \in Seq({tiles'[k] : k \in DOMAIN tiles'})
      <3> DEFINE R == {tiles[k] : k \in DOMAIN tiles} \cup {T}
                 m == Len(tiles)
      <3>1. tiles \in [1..m -> R] BY <2>3
      <3> HIDE DEF R
      <3>2. m \in Nat /\ n = m + 1 BY <2>1, <2>3
      <3>3. tiles \in Seq(R) BY <3>1, <3>2
      <3>4. T \in R BY DEF R
      <3>5. tiles' \in Seq(R) /\ Len(tiles') = m + 1 /\ tiles'[m + 1] = T
            /\ \A k \in 1..m : tiles'[k] = tiles[k]
        BY <2>2, <3>3, <3>4
      <3> HIDE DEF m
      <3>6. DOMAIN tiles' = 1..n BY <3>2, <3>5
      <3>7. tiles' = [k \in 1..n |-> tiles'[k]] BY <3>2, <3>5
      <3>8. tiles' \in Seq({tiles'[k] : k \in DOMAIN tiles'}) BY <3>7, <2>5, SeqOfRange
      <3>9. DOMAIN tiles = 1..m BY <2>3 DEF m
      <3>10. \A k \in 1..n : k # n => k \in 1..m BY <3>2
      <3>11. \A k \in 1..m : k \in 1..n BY <3>2
      <3>12. QED BY <3>2, <3>5, <3>6, <3>8, <3>9, <3>10, <3>11
    <2>10. Numbers'
      <3>1. \A k \in DOMAIN tiles' : Record(tiles'[k])
        <4> SUFFICES ASSUME NEW k \in 1..n PROVE Record(tiles'[k]) BY <2>9
        <4>1. CASE k = n BY <2>7, <2>9, <4>1
        <4>2. CASE k # n BY <1>1, <2>9, <4>2 DEF Numbers
        <4>3. QED BY <4>1, <4>2
      <3>2. (\A k \in DOMAIN tiles : Record(tiles[k]))' BY <3>1 DEF Record
      <3>3. QED BY <1>2, <1>3, <1>4, <2>2, <2>5, <2>9, <3>2 DEF Numbers
    <2>11. Cuts'
      <3>1. tiles' # <<>> BY <2>5, <2>9
      <3>2. (\A k, l \in DOMAIN req_idxs : k <= l => req_idxs[k] <= req_idxs[l])'
            /\ (\A k \in DOMAIN req_idxs : req_idxs[k] < batch_size)'
        BY <1>1, <1>2, <1>4 DEF Cuts
      <3>3. tiles'[Len(tiles')].end = req_idxs'[Len(tiles')] BY <1>2, <2>8, <2>9
      <3>4. QED BY <1>2, <1>4, <2>2, <2>5, <2>6, <2>9, <3>1, <3>2, <3>3 DEF Cuts
    <2>12. Earlier' BY <2>8, <2>9 DEF Earlier
    <2>13. StoredSoFar'
      <3>1. next' \in Nat /\ next' <= next BY <1>3, <2>2, <2>4
      <3>2. QED BY <1>1, <1>2, <1>3, <2>9, <3>1, StoredKept
    <2>14. TileOK(T)
      BY <2>8 DEF TileOK, SourcesOK, RowsOK, Announced
    <2>15. \A k \in DOMAIN tiles' : TileOK(tiles'[k])
      <3>1. \A k \in DOMAIN tiles : TileOK(tiles[k]) BY <1>1 DEF TilesOK, TileOK
      <3>2. QED BY <2>9, <2>14, <3>1
    <2>16. ASSUME NEW k \in DOMAIN tiles' PROVE SpaceOK(tiles[k])'
      <3>1. CASE k = n BY <2>8, <2>9, <3>1 DEF SpaceOK
      <3>2. CASE k # n
        <4>1. SpaceOK(tiles[k]) /\ tiles'[k] = tiles[k] BY <1>1, <2>9, <3>2 DEF TilesOK
        <4>2. QED BY <1>2, <4>1 DEF SpaceOK, Place
      <3>3. QED BY <3>1, <3>2
    <2>17. TilesOK' BY <1>1, <1>2, <2>15, <2>16, TilesAfter
    <2>18. (Given /\ Numbers /\ Cuts /\ Earlier /\ StoredSoFar /\ TilesOK)'
      BY <1>4, <2>10, <2>11, <2>12, <2>13, <2>17
    <2>19. QED BY <2>18, TilesAre, PTL
  <1>7. QED BY <1>5, <1>6 DEF NewTile

\* A request that is written is one of the sub-batch.
LEMMA NextIsRequest == ASSUME MhaInv, pc = "request" PROVE next \in DOMAIN seq_len
  <1>1. Given /\ Numbers /\ Cuts BY DEF MhaInv
  <1>2. next \in Nat /\ req_idxs \in Seq(Nat) BY <1>1 DEF Numbers
  <1>3. batch_size \in Nat /\ DOMAIN seq_len = 0..(batch_size - 1) BY <1>1 DEF Given
  <1>4. Len(tiles) \in Nat BY <1>1, TilesSeq
  <1>5. Len(tiles) > 0 /\ Len(tiles) <= Len(req_idxs) /\ next <= req_idxs[Len(tiles)] BY <1>1 DEF Cuts
  <1>6. Len(tiles) \in DOMAIN req_idxs /\ req_idxs[Len(tiles)] \in Nat BY <1>2, <1>4, <1>5
  <1>7. req_idxs[Len(tiles)] < batch_size BY <1>1, <1>6 DEF Cuts
  <1> QED BY <1>2, <1>3, <1>5, <1>6, <1>7

LEMMA AddStep == ASSUME MhaInv, AddRequest PROVE MhaInv'
  <1>1. Given /\ Numbers /\ Cuts BY TilesAre
  <1>2. pc = "request" /\ UNCHANGED <<op, n_tp, seq_len, i, sram_needs, req_idxs, prev_idx>>
    BY DEF AddRequest
  <1>3. spad_addr \in Nat /\ acc_spad_addr \in Nat /\ next \in Nat /\ req_idxs \in Seq(Nat)
        /\ i \in Nat /\ i <= batch_size
    BY <1>1 DEF Numbers
  <1>4. batch_size \in Nat /\ batch_size' = batch_size /\ DOMAIN seq_len = 0..(batch_size - 1)
    BY <1>1, <1>2, SameRequests DEF Given
  <1>5. next \in DOMAIN seq_len BY <1>2, NextIsRequest
  <1>6. ASSUME Abort PROVE MhaInv'
    <2>1. pc' = "aborted" /\ UNCHANGED <<tiles, spad_addr, acc_spad_addr, next>> BY <1>6 DEF Abort
    <2>2. Cuts' BY <1>1, <1>2, <1>4, <2>1 DEF Cuts
    <2>3. QED BY <1>2, <1>3, <2>1, <2>2, TilesAlone
  <1>7. ASSUME OfKeys, NEW H, KeyHeaders(next, H), AddKeys(H) PROVE MhaInv'
    <2>1. CASE ~logit_asserts(next, logit_gemvs(next)) BY <1>6, <1>7, <2>1 DEF AddKeys
    <2>2. CASE logit_asserts(next, logit_gemvs(next))
      <3>1. Write(H, logit_gemvs(next), logit_sums(next, logit_gemvs(next))) BY <1>7, <2>2 DEF AddKeys
      <3>2. GemvsFor(next, logit_gemvs(next)) BY <1>1, <1>3, <1>5, <1>7, KeyGemvsFor
      <3>3. SumsFor(next, logit_gemvs(next), logit_sums(next, logit_gemvs(next)))
        BY <1>1, <1>3, <1>5, <1>7, <2>2, KeySumsFor
      <3>4. HeadersFor(next, H, logit_gemvs(next)) BY <1>1, <1>5, <1>7, KeyHeadersFor
      <3>5. QED BY <1>2, <1>5, <3>1, <3>2, <3>3, <3>4, WriteStep
    <2>3. QED BY <2>1, <2>2
  <1>8. ASSUME ~OfKeys, AddValues PROVE MhaInv'
    <2>1. Write(attend_headers(next), attend_gemvs(next), attend_sums(next, attend_gemvs(next)))
      BY <1>8 DEF AddValues
    <2>2. GemvsFor(next, attend_gemvs(next)) BY <1>1, <1>3, <1>5, <1>8, ValueGemvsFor
    <2>3. SumsFor(next, attend_gemvs(next), attend_sums(next, attend_gemvs(next)))
      BY <1>1, <1>3, <1>5, <1>8, ValueSumsFor
    <2>4. HeadersFor(next, attend_headers(next), attend_gemvs(next)) BY <1>1, <1>5, <1>8, ValueHeadersFor
    <2>5. QED BY <1>2, <1>5, <2>1, <2>2, <2>3, <2>4, WriteStep
  <1>9. CASE AddLogit \/ AddGemv \/ AddGemvSoftmax
    <2>1. OfKeys BY <1>9 DEF AddLogit, AddGemv, AddGemvSoftmax, OfKeys
    <2>2. PICK H : KeyHeaders(next, H) /\ AddKeys(H)
      BY <1>9, LogitHeaders DEF AddLogit, AddGemv, AddGemvSoftmax
    <2>3. QED BY <1>7, <2>1, <2>2
  <1>10. CASE AddAttend \/ AddGemvAdd
    <2>1. ~OfKeys /\ AddValues BY <1>10 DEF AddAttend, AddGemvAdd, OfKeys
    <2>2. QED BY <1>8, <2>1
  <1>11. QED BY <1>9, <1>10 DEF AddRequest

LEMMA MhaStutter == ASSUME MhaInv, UNCHANGED vars PROVE MhaInv'
  <1>1. Given /\ Numbers /\ Cuts /\ Earlier /\ StoredSoFar /\ TilesOK BY TilesAre
  <1>2. UNCHANGED <<op, n_tp, seq_len, tiles, prev_idx, next, spad_addr, acc_spad_addr, i, req_idxs, pc>>
    BY DEF vars
  <1>3. Given' /\ batch_size' = batch_size BY <1>1, <1>2, SameRequests
  <1>4. Numbers' BY <1>1, <1>2, <1>3 DEF Numbers, Record
  <1>5. Cuts' BY <1>1, <1>2, <1>3 DEF Cuts
  <1>6. Earlier' BY <1>1, <1>2 DEF Earlier
  <1>7. StoredSoFar'
    <2>1. next \in Nat /\ next' \in Nat /\ next' <= next BY <1>1, <1>2 DEF Numbers
    <2>2. QED BY <1>1, <1>2, <2>1, StoredKept
  <1>8. TilesOK' BY <1>1, <1>2, TilesKept
  <1>9. (Given /\ Numbers /\ Cuts /\ Earlier /\ StoredSoFar /\ TilesOK)'
    BY <1>3, <1>4, <1>5, <1>6, <1>7, <1>8
  <1>10. QED BY <1>9, TilesAre, PTL

\* The invariant holds of every operation, list of lengths, number of devices
\* and size of the memory's rows, whichever cuts calculate_loops makes.
THEOREM MhaInvariant == Spec => []MhaInv
  <1>1. Init => MhaInv BY MhaInit
  <1>2. MhaInv /\ [Next \/ Done]_vars => MhaInv'
    BY CountStep, EndStep, OneStep, NewTileStep, AddStep, MhaStutter DEF Next, Done
  <1>3. QED BY <1>1, <1>2, PTL DEF Spec

\* A SOFTMAX, DUMMY or ADD reads the results of its own request and head, one
\* for each part, all computed before it; no two results of a tile and no two
\* sums share space in the scratchpad.
THEOREM AlwaysSourcesLoaded == Spec => []SourcesLoaded
  <1>1. MhaInv => SourcesLoaded BY DEF MhaInv
  <1>2. QED BY <1>1, MhaInvariant, PTL

\* When the tiles are written every head of every request is stored, although
\* a tile begins at the last request of the tile before it.
THEOREM AlwaysOutputsStored == Spec => []OutputsStored
  <1>1. ASSUME MhaInv PROVE OutputsStored
    <2> SUFFICES ASSUME pc = "done", NEW r \in DOMAIN seq_len, NEW h \in Heads,
                        OfKeys \/ value_chunks(r) > 1
                 PROVE  \E k \in DOMAIN tiles : StoredIn(k, r, h)
      BY DEF OutputsStored, StoredIn
    <2>1. next = batch_size /\ DOMAIN seq_len = 0..(batch_size - 1) BY <1>1 DEF MhaInv, Cuts, Given
    <2>2. QED BY <1>1, <2>1 DEF MhaInv, StoredSoFar
  <1>2. MhaInv => OutputsStored BY <1>1
  <1>3. QED BY <1>2, MhaInvariant, PTL

\* The products that follow a header are of its row, and no more than it
\* announces, when its numbers are ones that the header can carry.
THEOREM AlwaysHeadersAnnounce == Spec => []HeadersAnnounce
  <1>1. MhaInv => HeadersAnnounce BY DEF MhaInv
  <1>2. QED BY <1>1, MhaInvariant, PTL

\* Every row that a request is computed from exists in its tensor, and the
\* products of a head are of different rows, when the memory has no more banks
\* than PIMGEMV and PIMGEMVSoftmax are written for.
THEOREM AlwaysRowsInTensor == ASSUME BanksAgree PROVE Spec => []RowsInTensor
  <1>1. MhaInv => RowsInTensor BY DEF MhaInv
  <1>2. QED BY <1>1, MhaInvariant, PTL


-----------------------------------------------------------------------------
\* The sums of the first numbers of s, as sram_size_needed adds them up.
AddUp(f, s, n) == f = [r \in -1..(n - 1) |-> IF r < 0 THEN 0 ELSE f[r - 1] + s[r]]
SumsUpTo(s, n) ==
  LET sum[r \in -1..(n - 1)] == IF r < 0 THEN 0 ELSE sum[r - 1] + s[r] IN sum

LEMMA SumsExist == ASSUME NEW n \in Nat, NEW s
  PROVE  AddUp(SumsUpTo(s, n), s, n)
  <1> DEFINE Step(f, r) == IF r < 0 THEN 0 ELSE f[r - 1] + s[r]
             Solvable(k) == \E f : f = [r \in -1..(k - 1) |-> Step(f, r)]
             Solved == {k \in 0..n : Solvable(k)}
  <1>1. 0 \in Solved
    <2>1. [r \in -1..(0 - 1) |-> 0] = [r \in -1..(0 - 1) |-> Step([j \in -1..(0 - 1) |-> 0], r)] OBVIOUS
    <2>2. Solvable(0) BY <2>1
    <2> HIDE DEF Solvable
    <2> QED BY <2>2
  <1>2. ASSUME NEW k \in 0..(n - 1), k \in Solved PROVE k + 1 \in Solved
    <2>0. Solvable(k)
      <3> HIDE DEF Solvable
      <3> QED BY <1>2
    <2>1. PICK f : f = [r \in -1..(k - 1) |-> Step(f, r)]
      <3> HIDE DEF Step
      <3> QED BY <2>0, Zenon
    <2> DEFINE g == [r \in -1..((k + 1) - 1) |-> IF r < k THEN f[r] ELSE f[k - 1] + s[k]]
    <2>2. ASSUME NEW r \in -1..((k + 1) - 1) PROVE g[r] = Step(g, r)
      <3>1. CASE r < 0 BY <2>1, <3>1
      <3>2. CASE r \in 0..(k - 1)
        <4>1. g[r] = f[r] /\ g[r - 1] = f[r - 1] BY <3>2
        <4>2. f[r] = Step(f, r)
          <5> HIDE DEF Step
          <5> QED BY <2>1, <3>2
        <4> QED BY <3>2, <4>1, <4>2
      <3>3. CASE r = k
        <4>1. g[r] = f[k - 1] + s[k] /\ g[r - 1] = f[k - 1] BY <3>3
        <4> QED BY <3>3, <4>1
      <3> QED BY <3>1, <3>2, <3>3
    <2>3. g = [r \in -1..((k + 1) - 1) |-> Step(g, r)]
      <3>1. [r \in -1..((k + 1) - 1) |-> g[r]] = [r \in -1..((k + 1) - 1) |-> Step(g, r)] BY <2>2
      <3> QED BY <3>1
    <2>4. Solvable(k + 1)
      <3> HIDE DEF g, Step
      <3> QED BY <2>3, Zenon
    <2> HIDE DEF Solvable
    <2> QED BY <2>4
  <1>3. Solvable(n)
    <2> HIDE DEF Solvable
    <2>1. \A k \in 0..n : k \in Solved
      <3> HIDE DEF Solved
      <3> QED BY <1>1, <1>2, UpTo
    <2> QED BY <2>1
  <1> DEFINE f == CHOOSE f : f = [r \in -1..(n - 1) |-> Step(f, r)]
  <1>4. f = [r \in -1..(n - 1) |-> Step(f, r)]
    <2> HIDE DEF Step
    <2> QED BY <1>3, Zenon
  <1>5. SumsUpTo(s, n) = f BY Zenon DEF SumsUpTo
  <1> HIDE DEF f
  <1> QED BY <1>4, <1>5 DEF AddUp

\* The sums of natural numbers grow.
LEMMA SumsGrow == ASSUME NEW n \in Nat, NEW s, \A r \in 0..(n - 1) : s[r] \in Nat
  PROVE  /\ SumsUpTo(s, n)[-1] = 0
         /\ \A r \in -1..(n - 1) : SumsUpTo(s, n)[r] \in Nat
         /\ \A r \in 0..(n - 1) : SumsUpTo(s, n)[r] = SumsUpTo(s, n)[r - 1] + s[r]
         /\ \A r \in -1..(n - 1) : SumsUpTo(s, n)[r] <= SumsUpTo(s, n)[n - 1]
  <1>1. PICK f : f = SumsUpTo(s, n) OBVIOUS
  <1>2. f = [r \in -1..(n - 1) |-> IF r < 0 THEN 0 ELSE f[r - 1] + s[r]] BY <1>1, SumsExist DEF AddUp
  <1>3. f[-1] = 0
    <2>1. -1 \in -1..(n - 1) /\ -1 < 0 OBVIOUS
    <2> QED BY <1>2, <2>1
  <1>4. \A r \in 0..(n - 1) : f[r] = f[r - 1] + s[r]
    <2> SUFFICES ASSUME NEW r \in 0..(n - 1) PROVE f[r] = f[r - 1] + s[r] OBVIOUS
    <2>1. r \in -1..(n - 1) /\ ~(r < 0) OBVIOUS
    <2> QED BY <1>2, <2>1
  <1>5. \A r \in -1..(n - 1) : f[r] \in Nat
    <2> DEFINE T == {k \in 0..n : f[k - 1] \in Nat}
    <2>1. 0 \in T BY <1>3
    <2>2. \A k \in 0..(n - 1) : k \in T => k + 1 \in T BY <1>4
    <2> HIDE DEF T
    <2>3. \A k \in 0..n : k \in T BY <2>1, <2>2, UpTo
    <2>4. \A k \in 0..n : f[k - 1] \in Nat BY <2>3 DEF T
    <2>5. \A r \in -1..(n - 1) : r + 1 \in 0..n /\ (r + 1) - 1 = r OBVIOUS
    <2> QED BY <2>4, <2>5
  <1>6. \A r \in -1..(n - 1) : f[r] <= f[n - 1]
    <2> DEFINE T == {k \in 0..n : f[n - 1 - k] <= f[n - 1]}
    <2>1. 0 \in T
      <3>1. n - 1 - 0 = n - 1 /\ n - 1 \in -1..(n - 1) OBVIOUS
      <3> QED BY <1>5, <3>1
    <2>2. ASSUME NEW k \in 0..(n - 1), k \in T PROVE k + 1 \in T
      <3>1. PICK r : r = n - 1 - k OBVIOUS
      <3>2. r \in 0..(n - 1) /\ r - 1 = n - 1 - (k + 1) /\ k + 1 \in 0..n BY <3>1
      <3>3. f[r] <= f[n - 1] BY <2>2, <3>1
      <3>4. f[r] = f[r - 1] + s[r] /\ s[r] \in Nat /\ f[r - 1] \in Nat /\ f[n - 1] \in Nat
        BY <1>4, <1>5, <3>2
      <3>5. f[r - 1] <= f[n - 1] BY <3>3, <3>4
      <3> QED BY <3>2, <3>5
    <2> HIDE DEF T
    <2>3. \A k \in 0..n : k \in T BY <2>1, <2>2, UpTo
    <2>4. \A k \in 0..n : f[n - 1 - k] <= f[n - 1] BY <2>3 DEF T
    <2>5. \A r \in -1..(n - 1) : n - 1 - r \in 0..n /\ n - 1 - (n - 1 - r) = r OBVIOUS
    <2> QED BY <2>4, <2>5
  <1> QED BY <1>1, <1>3, <1>4, <1>5, <1>6

\* The lengths that PIMGEMV counts.
LEMMA TotalLength == total_seq_len = SumsUpTo(seq_len, batch_size)[batch_size - 1]
  BY Zenon DEF total_seq_len, SumsUpTo

\* What the requests from a to b need.
Needs == [r \in DOMAIN seq_len |-> need_sram_for_req(r)]
NeedsUpTo == SumsUpTo(Needs, batch_size)

LEMMA NeedsAre ==
  ASSUME Given, Needs \in [DOMAIN seq_len -> Nat],
         NEW a \in Nat, NEW b \in -1..(batch_size - 1), a - 1 <= b
  PROVE  NeedsOf(a, b) = NeedsUpTo[b] - NeedsUpTo[a - 1]
  <1>0. PICK n : n = batch_size OBVIOUS
  <1>n. n \in Nat /\ b \in -1..(n - 1) BY <1>0 DEF Given
  <1>1. PICK s : s = Needs OBVIOUS
  <1>2. PICK p : p = NeedsUpTo OBVIOUS
  <1>3. n \in Nat /\ DOMAIN seq_len = 0..(n - 1) BY <1>0 DEF Given
  <1>4. \A r \in 0..(n - 1) : s[r] \in Nat /\ s[r] = need_sram_for_req(r)
    <2>1. s \in [0..(n - 1) -> Nat] BY <1>1, <1>3
    <2>2. s = [r \in 0..(n - 1) |-> need_sram_for_req(r)] BY <1>1, <1>3 DEF Needs
    <2> QED BY <2>1, <2>2
  <1>5. /\ \A r \in -1..(n - 1) : p[r] \in Nat
        /\ \A r \in 0..(n - 1) : p[r] = p[r - 1] + s[r]
    <2>1. p = SumsUpTo(s, n) BY <1>0, <1>1, <1>2 DEF NeedsUpTo
    <2> QED BY <1>3, <1>4, <2>1, SumsGrow
  <1> DEFINE Step(f, r) == IF r < a THEN 0 ELSE f[r - 1] + need_sram_for_req(r)
             h == [r \in (a - 1)..b |-> p[r] - p[a - 1]]
  <1>6. h = [r \in (a - 1)..b |-> Step(h, r)]
    <2>1. ASSUME NEW r \in (a - 1)..b PROVE h[r] = Step(h, r)
      <3>1. CASE r < a
        <4>1. r = a - 1 /\ a - 1 \in -1..(n - 1) BY <1>n, <3>1
        <4> QED BY <1>5, <3>1, <4>1
      <3>2. CASE ~(r < a)
        <4>1. r \in 0..(n - 1) /\ r - 1 \in (a - 1)..b /\ a - 1 \in -1..(n - 1) /\ r - 1 \in -1..(n - 1)
          BY <1>n, <3>2
        <4>2. h[r] = p[r] - p[a - 1] /\ h[r - 1] = p[r - 1] - p[a - 1] BY <4>1
        <4>3. p[r] = p[r - 1] + need_sram_for_req(r) /\ need_sram_for_req(r) \in Nat BY <1>4, <1>5, <4>1
        <4>4. p[r - 1] \in Nat /\ p[a - 1] \in Nat BY <1>5, <4>1
        <4> HIDE DEF h
        <4>5. h[r] = h[r - 1] + need_sram_for_req(r) BY <4>2, <4>3, <4>4
        <4> QED BY <3>2, <4>5
      <3> QED BY <3>1, <3>2
    <2>2. [r \in (a - 1)..b |-> h[r]] = [r \in (a - 1)..b |-> Step(h, r)]
      <3> HIDE DEF h, Step
      <3> QED BY <2>1
    <2> QED BY <2>2
  <1> DEFINE f == CHOOSE f : f = [r \in (a - 1)..b |-> Step(f, r)]
  <1>7. f = [r \in (a - 1)..b |-> Step(f, r)]
    <2> HIDE DEF Step, h
    <2> QED BY <1>6, Zenon
  <1>8. NeedsOf(a, b) = f[b] BY Zenon DEF NeedsOf
  <1> HIDE DEF f
  \* the recursion has no other solution
  <1>9. \A r \in (a - 1)..b : f[r] = p[r] - p[a - 1]
    <2> DEFINE T == {k \in 0..(b - (a - 1)) : f[a - 1 + k] = p[a - 1 + k] - p[a - 1]}
    <2>1. 0 \in T
      <3>1. a - 1 \in (a - 1)..b /\ a - 1 < a /\ a - 1 + 0 = a - 1 /\ a - 1 \in -1..(n - 1) BY <1>n
      <3>2. f[a - 1] = Step(f, a - 1)
        <4> HIDE DEF Step
        <4> QED BY <1>7, <3>1
      <3> QED BY <1>5, <3>1, <3>2
    <2>2. ASSUME NEW k \in 0..(b - (a - 1) - 1), k \in T PROVE k + 1 \in T
      <3>1. PICK r : r = a - 1 + (k + 1) OBVIOUS
      <3>2. r \in (a - 1)..b /\ ~(r < a) /\ r \in 0..(n - 1) /\ r - 1 \in -1..(n - 1) /\ r - 1 = a - 1 + k
            /\ a - 1 \in -1..(n - 1)
        BY <1>n, <3>1
      <3>3. f[r] = Step(f, r)
        <4> HIDE DEF Step
        <4> QED BY <1>7, <3>2
      <3>4. f[r] = f[r - 1] + s[r] BY <1>4, <3>2, <3>3
      <3>5. f[r - 1] = p[r - 1] - p[a - 1] BY <2>2, <3>2
      <3>6. p[r] = p[r - 1] + s[r] /\ p[r - 1] \in Nat /\ p[a - 1] \in Nat /\ s[r] \in Nat
        BY <1>4, <1>5, <3>2
      <3>7. f[r] = p[r] - p[a - 1] BY <3>4, <3>5, <3>6
      <3> QED BY <3>1, <3>2, <3>7
    <2>3. b - (a - 1) \in Nat BY <1>n
    <2> HIDE DEF T
    <2>4. \A k \in 0..(b - (a - 1)) : k \in T BY <2>1, <2>2, <2>3, UpTo
    <2>5. \A k \in 0..(b - (a - 1)) : f[a - 1 + k] = p[a - 1 + k] - p[a - 1] BY <2>4 DEF T
    <2>6. \A r \in (a - 1)..b : r - (a - 1) \in 0..(b - (a - 1)) /\ a - 1 + (r - (a - 1)) = r BY <1>n
    <2> QED BY <2>5, <2>6
  <1> QED BY <1>2, <1>8, <1>9

-----------------------------------------------------------------------------
\* Between two cuts the requests need no more than there is.
AllFit == \A r \in DOMAIN seq_len : need_sram_for_req(r) <= SpadSize
LastCut(k) == IF k = 0 THEN -1 ELSE req_idxs[k]
CutSums ==
  /\ \A k \in DOMAIN req_idxs : NeedsUpTo[req_idxs[k]] - NeedsUpTo[LastCut(k - 1)] <= SpadSize
  /\ pc = "cut" => /\ sram_needs = NeedsUpTo[i - 1] - NeedsUpTo[LastCut(Len(req_idxs))]
                   /\ sram_needs <= SpadSize
TilesCut == \A k \in DOMAIN tiles :
  tiles[k].end = req_idxs[k] /\ tiles[k].start = IF k = 1 THEN 0 ELSE req_idxs[k - 1]
CutInv == TilesCut /\ (op = "LogitSoftmax" /\ AllFit => CutSums)

\* What PIMGEMV and PIMGEMVSoftmax have read out of the banks is what was
\* counted for the requests so far.
Multiples == \A r \in DOMAIN seq_len : seq_len[r] % Banks = 0
LengthsUpTo == SumsUpTo(seq_len, batch_size)
PerToken == (NumEmbd \div Dk) * Precision
GemvSpace ==
  /\ next <= batch_size /\ spad_addr <= LengthsUpTo[next - 1] * PerToken
  /\ spad_addr # 0 \/ pc \in {"tile", "request", "done"} => sram_size_needed < half_spad
  /\ pc \in {"tile", "request", "done"} => req_idxs = <<batch_size - 1>>
  /\ pc \in {"cut", "tile"} => spad_addr = 0 /\ next = 0
GemvInv == OfKeys /\ ~Fused /\ Multiples => GemvSpace

LEMMA NeedsTyped == ASSUME Given, op = "LogitSoftmax"
  PROVE  /\ Needs \in [DOMAIN seq_len -> Nat]
         /\ \A r \in DOMAIN seq_len : need_sram_for_req(r) \in Nat
  <1>1. \A r \in DOMAIN seq_len : need_sram_for_req(r) \in Nat
    <2> SUFFICES ASSUME NEW r \in DOMAIN seq_len PROVE need_sram_for_req(r) \in Nat OBVIOUS
    <2>1. seq_len[r] \in Nat /\ Dk \in Nat /\ Nh \in Nat /\ Precision \in Nat
      BY RequestSizes, LoopSizes, Positive
    <2>2. \A a, b \in Nat : a * b \in Nat OBVIOUS
    <2>3. 2 * seq_len[r] + Dk \in Nat BY <2>1
    <2>4. (2 * seq_len[r] + Dk) * Nh \in Nat BY <2>1, <2>2, <2>3
    <2>5. (2 * seq_len[r] + Dk) * Nh * Precision \in Nat BY <2>1, <2>2, <2>4
    <2> QED BY <2>5 DEF need_sram_for_req
  <1> QED BY <1>1 DEF Needs

\* Sums over the needs and the lengths of the requests.
LEMMA NeedSums == ASSUME Given, op = "LogitSoftmax"
  PROVE  /\ NeedsUpTo[-1] = 0
         /\ \A r \in -1..(batch_size - 1) : NeedsUpTo[r] \in Nat
         /\ \A r \in 0..(batch_size - 1) :
              /\ NeedsUpTo[r] = NeedsUpTo[r - 1] + need_sram_for_req(r)
              /\ need_sram_for_req(r) \in Nat
  <1>1. batch_size \in Nat /\ DOMAIN seq_len = 0..(batch_size - 1) BY DEF Given
  <1>2. \A r \in 0..(batch_size - 1) : Needs[r] = need_sram_for_req(r) /\ Needs[r] \in Nat
    BY <1>1, NeedsTyped DEF Needs
  <1>3. PICK s, n : s = Needs /\ n = batch_size OBVIOUS
  <1>4. n \in Nat /\ \A r \in 0..(n - 1) : s[r] \in Nat BY <1>1, <1>2, <1>3
  <1>5. /\ SumsUpTo(s, n)[-1] = 0
        /\ \A r \in -1..(n - 1) : SumsUpTo(s, n)[r] \in Nat
        /\ \A r \in 0..(n - 1) : SumsUpTo(s, n)[r] = SumsUpTo(s, n)[r - 1] + s[r]
    BY <1>4, SumsGrow
  <1>6. NeedsUpTo = SumsUpTo(s, n) BY <1>3 DEF NeedsUpTo
  <1> QED BY <1>2, <1>3, <1>5, <1>6

LEMMA LengthSums == ASSUME Given
  PROVE  /\ LengthsUpTo[-1] = 0
         /\ \A r \in -1..(batch_size - 1) :
              LengthsUpTo[r] \in Nat /\ LengthsUpTo[r] <= LengthsUpTo[batch_size - 1]
         /\ \A r \in 0..(batch_size - 1) : LengthsUpTo[r] = LengthsUpTo[r - 1] + seq_len[r]
  <1>1. batch_size \in Nat /\ \A r \in 0..(batch_size - 1) : seq_len[r] \in Nat BY DEF Given
  <1> QED BY <1>1, SumsGrow DEF LengthsUpTo

\* None of this changes.
LEMMA SameSums == ASSUME UNCHANGED <<op, n_tp, seq_len>>, Given
  PROVE  /\ NeedsUpTo' = NeedsUpTo /\ (AllFit' <=> AllFit)
         /\ \A r : need_sram_for_req(r)' = need_sram_for_req(r)
         /\ LengthsUpTo' = LengthsUpTo /\ (Multiples' <=> Multiples) /\ (Fused' <=> Fused)
         /\ sram_size_needed' = sram_size_needed
  <1>1. batch_size' = batch_size /\ (OfKeys' <=> OfKeys) BY SameRequests
  <1>2. E' = E /\ Nh' = Nh /\ (Fused' <=> Fused) BY DEF E, Nh, Fused
  <1>3. \A r : need_sram_for_req(r)' = need_sram_for_req(r) BY <1>2 DEF need_sram_for_req
  <1>4. Needs' = Needs /\ (AllFit' <=> AllFit) BY <1>3 DEF Needs, AllFit
  <1>5. NeedsUpTo' = NeedsUpTo BY <1>1, <1>4 DEF NeedsUpTo
  <1>6. LengthsUpTo' = LengthsUpTo /\ (Multiples' <=> Multiples) BY <1>1 DEF LengthsUpTo, Multiples
  <1>7. total_seq_len' = total_seq_len BY <1>1 DEF total_seq_len
  <1>8. sram_size_needed' = sram_size_needed BY <1>1, <1>7 DEF sram_size_needed
  <1> QED BY <1>2, <1>3, <1>4, <1>5, <1>6, <1>8

\* A cut between the requests ends a tile whose needs were counted.
LEMMA CutSummed ==
  ASSUME MhaInv, pc = "cut", i > 0, op = "LogitSoftmax", CutSums,
         req_idxs' = Append(req_idxs, i - 1), UNCHANGED <<op, n_tp, seq_len>>
  PROVE  /\ \A k \in DOMAIN req_idxs' :
              NeedsUpTo[req_idxs'[k]] - NeedsUpTo[LastCut(k - 1)'] <= SpadSize
         /\ LastCut(Len(req_idxs))' = i - 1
  <1>1. Given /\ Numbers BY DEF MhaInv
  <1>0. PICK n : n = Len(req_idxs) OBVIOUS
  <1>2. req_idxs \in Seq(Nat) /\ i - 1 \in Nat BY <1>1 DEF Numbers
  <1>3. n \in Nat /\ DOMAIN req_idxs = 1..n /\ DOMAIN req_idxs' = 1..(n + 1) /\ Len(req_idxs') = n + 1
        /\ req_idxs'[n + 1] = i - 1 /\ \A k \in 1..n : req_idxs'[k] = req_idxs[k]
    BY <1>0, <1>2
  <1>4. LastCut(n + 1)' = i - 1 BY <1>3 DEF LastCut
  <1>5. \A k \in 0..n : LastCut(k)' = LastCut(k)
    <2> SUFFICES ASSUME NEW k \in 0..n PROVE LastCut(k)' = LastCut(k) OBVIOUS
    <2>1. k = 0 \/ k \in 1..n BY <1>3
    <2> QED BY <1>3, <2>1 DEF LastCut
  <1>6. ASSUME NEW k \in 1..(n + 1)
        PROVE  NeedsUpTo[req_idxs'[k]] - NeedsUpTo[LastCut(k - 1)'] <= SpadSize
    <2>1. LastCut(k - 1)' = LastCut(k - 1) BY <1>3, <1>5
    <2>2. CASE k \in 1..n
      <3>1. req_idxs'[k] = req_idxs[k] /\ k \in DOMAIN req_idxs BY <1>3, <2>2
      <3> QED BY <2>1, <3>1 DEF CutSums
    <2>3. CASE k = n + 1
      <3>1. req_idxs'[k] = i - 1 /\ k - 1 = n BY <1>3, <2>3
      <3>2. NeedsUpTo[i - 1] - NeedsUpTo[LastCut(n)] <= SpadSize BY <1>0 DEF CutSums
      <3> QED BY <2>1, <3>1, <3>2
    <2> QED BY <1>3, <2>2, <2>3
  <1>7. LastCut(Len(req_idxs))' = i - 1 BY <1>3, <1>4
  <1> QED BY <1>3, <1>6, <1>7

LEMMA CutCount == ASSUME MhaInv, CutInv, CountRequest PROVE CutInv'
  <1>1. Given /\ Numbers /\ Cuts BY DEF MhaInv
  <1>2. UNCHANGED <<op, n_tp, seq_len, tiles>> /\ pc = "cut" /\ i < batch_size /\ i \in Nat
    BY <1>1 DEF CountRequest, Numbers
  <1>3. TilesCut'
    <2>1. DOMAIN tiles = {} BY <1>1, <1>2 DEF Cuts
    <2> QED BY <1>2, <2>1 DEF TilesCut
  <1>4. ASSUME op = "LogitSoftmax", AllFit PROVE CutSums'
    <2>1. CutSums BY <1>4 DEF CutInv
    <2>2. /\ i \in DOMAIN seq_len /\ i \in 0..(batch_size - 1) /\ i - 1 \in -1..(batch_size - 1)
      BY <1>1, <1>2 DEF Given
    <2>3. /\ NeedsUpTo[i] = NeedsUpTo[i - 1] + need_sram_for_req(i)
          /\ NeedsUpTo[i - 1] \in Nat /\ need_sram_for_req(i) \in Nat /\ need_sram_for_req(i) <= SpadSize
      BY <1>1, <1>4, <2>2, NeedSums DEF AllFit
    <2>4. NeedsUpTo' = NeedsUpTo BY <1>1, <1>2, SameSums
    <2>5. sram_needs = NeedsUpTo[i - 1] - NeedsUpTo[LastCut(Len(req_idxs))] BY <1>2, <2>1 DEF CutSums
    <2>6. CASE /\ sram_needs + need_sram_for_req(i) <= SpadSize
               /\ sram_needs' = sram_needs + need_sram_for_req(i) /\ i' = i + 1 /\ UNCHANGED <<req_idxs, pc>>
      <3>1. \A k : LastCut(k)' = LastCut(k) BY <2>6 DEF LastCut
      <3>2. i' - 1 = i BY <1>2, <2>6
      <3>3. PICK m : m = NeedsUpTo[LastCut(Len(req_idxs))] OBVIOUS
      <3>4. m \in Nat
        <4>1. LastCut(Len(req_idxs)) \in -1..(batch_size - 1)
          <5>1. req_idxs \in Seq(Nat) BY <1>1 DEF Numbers
          <5>2. \A k \in DOMAIN req_idxs : req_idxs[k] < batch_size BY <1>1 DEF Cuts
          <5>3. CASE Len(req_idxs) = 0 BY <1>1, <5>3 DEF LastCut, Given
          <5>4. CASE Len(req_idxs) # 0
            <6>1. Len(req_idxs) \in DOMAIN req_idxs /\ req_idxs[Len(req_idxs)] \in Nat BY <5>1, <5>4
            <6>2. req_idxs[Len(req_idxs)] \in 0..(batch_size - 1) BY <1>1, <5>2, <6>1 DEF Given
            <6> QED BY <5>4, <6>2 DEF LastCut
          <5> QED BY <5>3, <5>4
        <4> QED BY <1>1, <1>4, <3>3, <4>1, NeedSums
      <3>5. sram_needs' = NeedsUpTo[i] - m BY <2>3, <2>5, <2>6, <3>3, <3>4
      <3>6. sram_needs' <= SpadSize BY <2>6
      <3> QED BY <2>1, <2>4, <2>6, <3>1, <3>2, <3>3, <3>5, <3>6 DEF CutSums
    <2>7. CASE pc' = "aborted" /\ UNCHANGED req_idxs
      <3>1. \A k : LastCut(k)' = LastCut(k) BY <2>7 DEF LastCut
      <3> QED BY <2>1, <2>4, <2>7, <3>1 DEF CutSums
    <2>8. CASE /\ i # 0 /\ req_idxs' = Append(req_idxs, i - 1)
               /\ sram_needs' = need_sram_for_req(i) /\ i' = i + 1 /\ UNCHANGED pc
      <3>1. /\ \A k \in DOMAIN req_idxs' :
                 NeedsUpTo[req_idxs'[k]] - NeedsUpTo[LastCut(k - 1)'] <= SpadSize
            /\ LastCut(Len(req_idxs))' = i - 1
        BY <1>2, <1>4, <2>1, <2>8, CutSummed
      <3>2. i' - 1 = i BY <1>2, <2>8
      <3>3. sram_needs' = NeedsUpTo[i] - NeedsUpTo[i - 1] /\ sram_needs' <= SpadSize BY <2>3, <2>8
      <3> QED BY <2>4, <3>1, <3>2, <3>3 DEF CutSums
    <2> QED BY <2>6, <2>7, <2>8 DEF CountRequest, fresh_needs
  <1>5. (op' = "LogitSoftmax" /\ AllFit') => (op = "LogitSoftmax" /\ AllFit) BY <1>1, <1>2, SameSums
  <1> QED BY <1>3, <1>4, <1>5 DEF CutInv

LEMMA CutEnd == ASSUME MhaInv, CutInv, EndOfRequests PROVE CutInv'
  <1>1. Given /\ Numbers /\ Cuts BY DEF MhaInv
  <1>2. /\ UNCHANGED <<op, n_tp, seq_len, tiles>> /\ pc = "cut" /\ i = batch_size
        /\ req_idxs' = Append(req_idxs, i - 1) /\ pc' = "tile"
    BY DEF EndOfRequests, last_idx
  <1>3. TilesCut'
    <2>1. DOMAIN tiles = {} BY <1>1, <1>2 DEF Cuts
    <2> QED BY <1>2, <2>1 DEF TilesCut
  <1>4. ASSUME op = "LogitSoftmax", AllFit PROVE CutSums'
    <2>1. CutSums BY <1>4 DEF CutInv
    <2>2. i > 0 BY <1>1, <1>2 DEF Given
    <2>3. \A k \in DOMAIN req_idxs' : NeedsUpTo[req_idxs'[k]] - NeedsUpTo[LastCut(k - 1)'] <= SpadSize
      BY <1>2, <1>4, <2>1, <2>2, CutSummed
    <2>4. NeedsUpTo' = NeedsUpTo BY <1>1, <1>2, SameSums
    <2> QED BY <1>2, <2>3, <2>4 DEF CutSums
  <1>5. (op' = "LogitSoftmax" /\ AllFit') => (op = "LogitSoftmax" /\ AllFit) BY <1>1, <1>2, SameSums
  <1> QED BY <1>3, <1>4, <1>5 DEF CutInv

\* After the cuts only the tiles change.
LEMMA CutsStay ==
  ASSUME Given, UNCHANGED <<op, n_tp, seq_len, req_idxs>>, pc' # "cut",
         op = "LogitSoftmax" /\ AllFit => CutSums
  PROVE  (op = "LogitSoftmax" /\ AllFit => CutSums)'
  <1>1. \A k : LastCut(k)' = LastCut(k) BY DEF LastCut
  <1>2. NeedsUpTo' = NeedsUpTo /\ (AllFit' <=> AllFit) BY SameSums
  <1> QED BY <1>1, <1>2 DEF CutSums

LEMMA CutNewTile == ASSUME MhaInv, CutInv, NewTile PROVE CutInv'
  <1>1. Given /\ Numbers /\ Cuts BY DEF MhaInv
  <1>2. UNCHANGED <<op, n_tp, seq_len, req_idxs>> /\ pc = "tile" /\ pc' # "cut" BY DEF NewTile
  <1>3. (op = "LogitSoftmax" /\ AllFit => CutSums)' BY <1>1, <1>2, CutsStay DEF CutInv
  <1>4. TilesCut'
    <2>1. CASE UNCHANGED tiles BY <1>2, <2>1 DEF CutInv, TilesCut
    <2>2. CASE ~(UNCHANGED tiles)
      <3>1. PICK n : n = Len(tiles) + 1 OBVIOUS
      <3>2. PICK T : T = [start |-> prev_idx, end |-> req_idxs[n],
                          headers |-> {}, gemvs |-> {}, sums |-> {}, stores |-> {}]
        OBVIOUS
      <3>3. tiles' = Append(tiles, T) BY <2>2, <3>1, <3>2 DEF NewTile
      <3>4. Len(tiles) \in Nat /\ DOMAIN tiles = 1..Len(tiles) /\ tiles = [k \in 1..Len(tiles) |-> tiles[k]]
            /\ (Len(tiles) = 0 <=> tiles = <<>>)
        BY <1>1, TilesSeq
      <3>5. DOMAIN tiles' = 1..n /\ tiles'[n] = T /\ \A k \in DOMAIN tiles : tiles'[k] = tiles[k]
        <4>1. tiles \in Seq({tiles[k] : k \in DOMAIN tiles} \cup {T}) BY <1>1 DEF Numbers
        <4>2. PICK R : R = {tiles[k] : k \in DOMAIN tiles} \cup {T} OBVIOUS
        <4>3. tiles \in Seq(R) /\ T \in R BY <4>1, <4>2
        <4> QED BY <3>1, <3>3, <3>4, <4>3
      <3>6. prev_idx = IF n = 1 THEN 0 ELSE req_idxs[n - 1]
        BY <1>1, <3>1, <3>4 DEF Cuts
      <3>7. \A k \in 1..n : k = n \/ k \in DOMAIN tiles BY <3>1, <3>4
      <3> QED BY <1>2, <3>2, <3>5, <3>6, <3>7 DEF CutInv, TilesCut
    <2> QED BY <2>1, <2>2
  <1> QED BY <1>3, <1>4 DEF CutInv

LEMMA CutAdd == ASSUME MhaInv, CutInv, AddRequest PROVE CutInv'
  <1>1. Given /\ Numbers /\ Cuts BY DEF MhaInv
  <1>2. UNCHANGED <<op, n_tp, seq_len, req_idxs>> /\ pc = "request" BY DEF AddRequest
  <1>3. ASSUME Abort PROVE TilesCut' /\ pc' # "cut"
    BY <1>2, <1>3 DEF CutInv, TilesCut, Abort
  <1>4. ASSUME NEW H, NEW G, NEW S, Write(H, G, S) PROVE TilesCut' /\ pc' # "cut"
    <2>1. Len(tiles) > 0 BY <1>1, <1>2 DEF Cuts
    <2> DEFINE T == tiles[Len(tiles)]
               U == [start |-> T.start, end |-> T.end, headers |-> T.headers \cup H,
                     gemvs |-> T.gemvs \cup G, sums |-> T.sums \cup S,
                     stores |-> T.stores \cup StoresOf(S)]
    <2>2. /\ DOMAIN tiles' = DOMAIN tiles
          /\ \A k \in DOMAIN tiles : k # Len(tiles) => tiles'[k] = tiles[k]
          /\ tiles'[Len(tiles)] = U
      BY <1>1, <1>4, <2>1, WrittenTile
    <2>3. ASSUME NEW k \in DOMAIN tiles
          PROVE  tiles'[k].start = tiles[k].start /\ tiles'[k].end = tiles[k].end
      <3>1. U.start = T.start /\ U.end = T.end OBVIOUS
      <3> HIDE DEF U
      <3>2. CASE k = Len(tiles) BY <2>2, <3>1, <3>2
      <3>3. CASE k # Len(tiles) BY <2>2, <3>3
      <3> QED BY <3>2, <3>3
    <2> HIDE DEF U
    <2>4. pc' # "cut" BY <1>4 DEF Write
    <2> QED BY <1>2, <2>2, <2>3, <2>4 DEF CutInv, TilesCut
  <1>5. TilesCut' /\ pc' # "cut"
    BY <1>3, <1>4 DEF AddRequest, AddLogit, AddAttend, AddGemv, AddGemvSoftmax, AddGemvAdd, AddKeys, AddValues
  <1>6. (op = "LogitSoftmax" /\ AllFit => CutSums)' BY <1>1, <1>2, <1>5, CutsStay DEF CutInv
  <1> QED BY <1>5, <1>6 DEF CutInv

LEMMA CutOther == ASSUME MhaInv, CutInv, OneTile \/ UNCHANGED vars PROVE CutInv'
  <1>1. Given /\ Cuts BY DEF MhaInv
  <1>2. CASE OneTile
    <2>1. UNCHANGED <<op, tiles>> /\ op # "LogitSoftmax" /\ pc = "cut" BY <1>2 DEF OneTile, Fused
    <2>2. DOMAIN tiles = {} BY <1>1, <2>1 DEF Cuts
    <2> QED BY <2>1, <2>2 DEF CutInv, TilesCut
  <1>3. CASE UNCHANGED vars
    <2>1. UNCHANGED <<op, n_tp, seq_len, req_idxs, tiles, i, sram_needs, pc>> BY <1>3 DEF vars
    <2>2. NeedsUpTo' = NeedsUpTo /\ (AllFit' <=> AllFit) BY <1>1, <2>1, SameSums
    <2>3. \A k : LastCut(k)' = LastCut(k) BY <2>1 DEF LastCut
    <2> QED BY <2>1, <2>2, <2>3 DEF CutInv, CutSums, TilesCut
  <1> QED BY <1>2, <1>3

LEMMA CutInit == ASSUME Init PROVE CutInv
  <1>1. MhaInv BY MhaInit
  <1>2. Given BY <1>1 DEF MhaInv
  <1>3. /\ tiles = <<>> /\ req_idxs = <<>> /\ i = 0 /\ sram_needs = 0 BY DEF Init
  <1>4. TilesCut BY <1>3 DEF TilesCut
  <1>5. ASSUME op = "LogitSoftmax" PROVE CutSums
    <2>1. LastCut(Len(req_idxs)) = -1 /\ DOMAIN req_idxs = {} BY <1>3 DEF LastCut
    <2>2. NeedsUpTo[-1] = 0 BY <1>2, <1>5, NeedSums
    <2>3. i - 1 = -1 BY <1>3
    <2>4. 0 <= SpadSize BY MhaAssumption
    <2> QED BY <1>3, <2>1, <2>2, <2>3, <2>4 DEF CutSums
  <1> QED BY <1>4, <1>5 DEF CutInv

\* A division without a remainder.
LEMMA CeilExact == ASSUME NEW k \in Nat, NEW n \in Nat \ {0} PROVE ceil(k * n, n) = k
  <1>1. n - 1 \in Nat /\ n - 1 < n /\ n \in Nat BY n - 1 >= 0
  <1>2. (k * n + (n - 1)) \div n = k BY <1>1, Digits
  <1>3. k * n + n - 1 = k * n + (n - 1) BY k * n \in Nat
  <1> QED BY <1>2, <1>3 DEF ceil

\* The chunks of the whole model hold each of its heads once at most.
LEMMA ChunkHeads == ASSUME Given, ~Fused
  PROVE  /\ NumEmbd \div Dk \in Nat /\ chunks \in Nat \ {0}
         /\ (chunks - 1) * heads_per_tile + heads_in_tile(chunks - 1) <= NumEmbd \div Dk
  <1> DEFINE m == NumEmbd \div Dk
             p == PageSize \div Dk
             q == NumEmbd \div PageSize
             z == NumEmbd % PageSize
  <1>1. /\ NumEmbd \in Nat /\ NumEmbd > 0 /\ Dk \in Nat /\ Dk > 0 /\ PageSize \in Nat /\ PageSize > 0
    BY Positive
  <1>2. m \in Nat /\ NumEmbd = m * Dk
    <2>1. n_tp \in Nat /\ n_tp > 0 /\ NumEmbd % (n_tp * Dk) = 0 BY MhaAssumption DEF Given
    <2>2. n_tp * Dk \in Nat /\ n_tp * Dk > 0
      <3>1. 1 * Dk <= n_tp * Dk BY <1>1, <2>1, TimesMono
      <3>2. n_tp * Dk \in Nat BY <1>1, <2>1
      <3> QED BY <1>1, <3>1, <3>2
    <2> DEFINE w == n_tp * Dk
               k == NumEmbd \div w
    <2>3. NumEmbd = w * k + (NumEmbd % w) /\ k \in Nat
      <3> HIDE DEF w
      <3>1. w \in Nat /\ w > 0 BY <2>2 DEF w
      <3> QED BY <1>1, <3>1, DivMod
    <2> HIDE DEF k
    <2>4. NumEmbd = w * k /\ k \in Nat BY <1>1, <2>1, <2>2, <2>3
    <2>5. NumEmbd = (n_tp * k) * Dk /\ n_tp * k \in Nat BY <1>1, <2>1, <2>4
    <2>6. ((n_tp * k) * Dk) \div Dk = n_tp * k BY <1>1, <2>5, DivExact
    <2> QED BY <2>5, <2>6
  <1>3. p \in Nat /\ p > 0 /\ PageSize = p * Dk
    <2>1. PageSize = Dk * p + (PageSize % Dk) /\ p \in Nat BY <1>1, DivMod
    <2>2. PageSize % Dk = 0 BY MhaAssumption
    <2> HIDE DEF p
    <2>3. PageSize = Dk * p /\ Dk * p = p * Dk BY <1>1, <2>1, <2>2
    <2>4. p # 0 BY <1>1, <2>3
    <2> QED BY <2>1, <2>3, <2>4
  <1>4. NumEmbd = PageSize * q + z /\ z \in Nat /\ z < PageSize /\ q \in Nat BY <1>1, DivMod
  <1>6. chunks = ceil(NumEmbd, PageSize) BY DEF chunks
  <1> HIDE DEF m, p, q, z
  <1>5. heads_per_tile = p
    <2>1. Dk \in Nat \ {0} BY <1>1
    <2>2. ceil(p * Dk, Dk) = p BY <1>3, <2>1, CeilExact
    <2> QED BY <1>3, <2>2 DEF heads_per_tile
  <1>7. PageSize * q = (q * p) * Dk /\ q * p \in Nat BY <1>1, <1>3, <1>4
  <1>8. CASE z = 0
    <2>1. NumEmbd = q * PageSize BY <1>1, <1>4, <1>8
    <2>2. q # 0 BY <1>1, <1>4, <1>8
    <2>3. chunks = q
      <3>1. PageSize \in Nat \ {0} BY <1>1
      <3>2. ceil(q * PageSize, PageSize) = q BY <1>4, <3>1, CeilExact
      <3> QED BY <1>6, <2>1, <3>2
    <2>4. heads_in_tile(chunks - 1) = ceil(0, Dk)
      BY <1>4, <1>8, <2>3 DEF heads_in_tile, gemv_heads_in_last_chunk, z
    <2>5. ceil(0 * Dk, Dk) = 0 /\ 0 * Dk = 0 BY <1>1, CeilExact
    <2>6. m = q * p
      <3>1. m * Dk + 0 = (q * p) * Dk + 0
        BY <1>1, <1>2, <1>4, <1>7, <1>8
      <3>2. PICK u \in Nat : u = q * p BY <1>7
      <3>3. m * Dk + 0 = u * Dk + 0 /\ 0 \in Nat /\ 0 < Dk BY <1>1, <3>1, <3>2
      <3>4. m = u BY <1>1, <1>2, <3>3, TwoDigits
      <3> QED BY <3>2, <3>4
    <2>7. (q - 1) * p <= q * p
      <3>1. q - 1 \in Nat /\ q - 1 <= q BY <1>4, <2>2
      <3> QED BY <1>3, <1>4, <3>1, TimesMono
    <2>8. (q - 1) * p \in Int BY <1>3, <1>4
    <2>9. (chunks - 1) * heads_per_tile + heads_in_tile(chunks - 1) = (q - 1) * p
      BY <1>5, <2>3, <2>4, <2>5, <2>8
    <2>10. (chunks - 1) * heads_per_tile + heads_in_tile(chunks - 1) <= m BY <2>6, <2>7, <2>9
    <2>11. chunks \in Nat \ {0} BY <1>4, <2>2, <2>3
    <2> QED BY <1>2, <2>10, <2>11 DEF m
  <1>9. CASE z # 0
    <2>1. chunks = q + 1
      <3>1. NumEmbd + PageSize - 1 = (q + 1) * PageSize + (z - 1)
        <4>1. (q + 1) * PageSize = PageSize * q + PageSize /\ PageSize * q \in Nat BY <1>1, <1>4
        <4>2. PICK u : u = PageSize * q OBVIOUS
        <4>3. PICK v : v = (q + 1) * PageSize OBVIOUS
        <4>4. u \in Nat /\ v = u + PageSize /\ NumEmbd = u + z BY <1>4, <4>1, <4>2, <4>3
        <4>5. NumEmbd + PageSize - 1 = v + (z - 1) BY <1>1, <1>4, <4>4
        <4> QED BY <4>3, <4>5
      <3>2. z - 1 \in Nat /\ z - 1 < PageSize /\ q + 1 \in Nat BY <1>1, <1>4, <1>9
      <3>3. ((q + 1) * PageSize + (z - 1)) \div PageSize = q + 1 BY <1>1, <3>2, Digits
      <3> QED BY <1>6, <3>1, <3>3 DEF ceil
    <2>2. heads_in_tile(chunks - 1) = ceil(z, Dk)
      BY <1>4, <2>1 DEF heads_in_tile, gemv_heads_in_last_chunk, z
    <2>3. z = (m - q * p) * Dk /\ m - q * p \in Nat
      <3>1. m * Dk = (q * p) * Dk + z BY <1>2, <1>4, <1>7
      <3>2. (m - q * p) * Dk = m * Dk - (q * p) * Dk BY <1>1, <1>2, <1>7
      <3>3. m * Dk \in Nat /\ (q * p) * Dk \in Nat BY <1>1, <1>2, <1>7
      <3>4. z = (m - q * p) * Dk BY <1>4, <3>1, <3>2, <3>3
      <3>5. ASSUME m < q * p PROVE FALSE
        <4>1. m * Dk <= (q * p) * Dk BY <1>1, <1>2, <1>7, <3>5, TimesMono
        <4> QED BY <1>4, <1>9, <3>1, <3>3, <4>1
      <3> QED BY <1>2, <1>7, <3>4, <3>5
    <2>4. ceil(z, Dk) = m - q * p BY <1>1, <2>3, CeilExact
    <2>5. chunks - 1 = q BY <1>4, <2>1
    <2>6. (chunks - 1) * heads_per_tile + heads_in_tile(chunks - 1) = m
      BY <1>2, <1>5, <1>7, <2>2, <2>4, <2>5
    <2>7. chunks \in Nat \ {0} /\ m <= m BY <1>2, <1>4, <2>1
    <2> QED BY <1>2, <2>6, <2>7 DEF m
  <1> QED BY <1>8, <1>9

\* The results of a request take no more than was counted for its length.
LEMMA KeySpace ==
  ASSUME Given, OfKeys, ~Fused, NEW r \in DOMAIN seq_len, seq_len[r] % Banks = 0
  PROVE  /\ KeyCount(r) * readres_size <= seq_len[r] * PerToken
         /\ KeyCount(r) * readres_size \in Nat /\ seq_len[r] * PerToken \in Nat /\ PerToken \in Nat
  <1> DEFINE m == NumEmbd \div Dk
             tp == tiles_per_chunk(r)
             last == heads_in_tile(chunks - 1)
             n == (chunks - 1) * heads_per_tile + last
             s == seq_len[r]
  <1>1. /\ m \in Nat /\ chunks \in Nat \ {0} /\ n <= m BY ChunkHeads
  <1>2. /\ tp \in Nat /\ s \in Nat /\ heads_per_tile \in Nat BY RequestSizes, LoopSizes
  <1>3. last \in Nat /\ chunks - 1 \in Nat
    <2>1. chunks - 1 \in Nat BY <1>1
    <2> QED BY <2>1, LoopSizes
  <1>4. Banks \in Nat /\ Banks > 0 /\ FixedBanks \in Nat /\ FixedBanks > 0 /\ Precision \in Nat BY Positive
  <1>5. s = (s \div Banks) * Banks /\ s \div Banks \in Nat
    <2>1. s = Banks * (s \div Banks) + (s % Banks) /\ s \div Banks \in Nat BY <1>2, <1>4, DivMod
    <2> DEFINE k == s \div Banks
    <2> HIDE DEF k
    <2>2. s = Banks * k + (s % Banks) /\ k \in Nat /\ s % Banks = 0 BY <2>1 DEF k
    <2>3. s = k * Banks BY <1>2, <1>4, <2>2
    <2> QED BY <2>2, <2>3 DEF k
  <1>6. allocated_seq_len(r) = s
    <2>1. PICK k \in Nat : s = k * Banks BY <1>5
    <2>2. ceil(s, Banks) = k BY <1>4, <2>1, CeilExact
    <2> QED BY <2>1, <2>2 DEF allocated_seq_len
  <1>7. tp * FixedBanks <= s
    <2>1. tp = s \div FixedBanks BY <1>6 DEF tiles_per_chunk
    <2>2. s = FixedBanks * (s \div FixedBanks) + (s % FixedBanks) /\ s % FixedBanks \in Nat
      BY <1>2, <1>4, DivMod
    <2> HIDE DEF tp, s
    <2>3. s = FixedBanks * tp + (s % FixedBanks) BY <2>1, <2>2
    <2>4. FixedBanks * tp = tp * FixedBanks /\ tp * FixedBanks \in Nat BY <1>2, <1>4
    <2> QED BY <1>2, <2>2, <2>3, <2>4
  <1>8. KeyCount(r) = tp * n /\ n \in Nat
    <2>1. KeyCount(r) = (chunks - 1) * (tp * heads_per_tile) + tp * last BY <1>1 DEF KeyCount
    <2>2. PICK c \in Nat : c = chunks - 1 BY <1>3
    <2> HIDE DEF last, tp
    <2>3. c * (tp * heads_per_tile) + tp * last = tp * (c * heads_per_tile + last)
          /\ c * heads_per_tile + last \in Nat
      BY <1>2, <1>3
    <2> QED BY <2>1, <2>2, <2>3
  <1>9. readres_size = FixedBanks * Precision BY DEF readres_size
  <1>10. PerToken = m * Precision BY DEF PerToken
  <1> HIDE DEF m, tp, n, s
  <1>11. (tp * n) * (FixedBanks * Precision) = (tp * FixedBanks) * (n * Precision)
    BY <1>2, <1>4, <1>8
  <1>12. n * Precision <= m * Precision /\ n * Precision \in Nat /\ m * Precision \in Nat
    <2>1. n * Precision <= m * Precision BY <1>1, <1>4, <1>8, TimesMono
    <2> QED BY <1>1, <1>4, <1>8, <2>1
  <1>13. tp * FixedBanks \in Nat BY <1>2, <1>4
  <1> DEFINE a == tp * FixedBanks
             b == n * Precision
             d == m * Precision
  <1>14. a \in Nat /\ b \in Nat /\ d \in Nat /\ a <= s /\ b <= d BY <1>7, <1>12, <1>13
  <1>15. KeyCount(r) * readres_size = a * b BY <1>8, <1>9, <1>11
  <1>16. seq_len[r] * PerToken = s * d BY <1>10 DEF s
  <1> HIDE DEF a, b, d
  <1>17. a * b <= s * b BY <1>2, <1>14, TimesMono
  <1>18. b * s <= d * s /\ b * s = s * b /\ d * s = s * d
    <2>1. b * s <= d * s BY <1>2, <1>14, TimesMono
    <2> QED BY <1>2, <1>14, <2>1
  <1>19. a * b \in Nat /\ s * b \in Nat /\ s * d \in Nat BY <1>2, <1>14
  <1>20. a * b <= s * d BY <1>17, <1>18, <1>19
  <1>21. PerToken \in Nat BY <1>10, <1>14 DEF d
  <1> QED BY <1>15, <1>16, <1>19, <1>20, <1>21

LEMMA GemvCounted == ASSUME Given, OfKeys, ~Fused
  PROVE  /\ sram_size_needed = LengthsUpTo[batch_size - 1] * PerToken
         /\ sram_limit = half_spad /\ half_spad \in Nat /\ PerToken \in Nat
  <1> DEFINE m == NumEmbd \div Dk
             t == LengthsUpTo[batch_size - 1]
  <1>1. m \in Nat /\ Precision \in Nat BY ChunkHeads, Positive
  <1>2. t \in Nat
    <2>1. batch_size - 1 \in -1..(batch_size - 1) BY DEF Given
    <2> QED BY <2>1, LengthSums
  <1>3. sram_size_needed = t * m * Precision BY TotalLength DEF sram_size_needed, LengthsUpTo
  <1>4. PerToken = m * Precision BY DEF PerToken
  <1> HIDE DEF m, t
  <1>5. t * m * Precision = t * (m * Precision) /\ m * Precision \in Nat BY <1>1, <1>2
  <1>6. half_spad \in Nat
    <2>1. SpadSize \in Nat BY MhaAssumption
    <2>2. SpadSize * Precision \in Nat BY <1>1, <2>1
    <2> QED BY <2>2, DivBelow, 2 > 0 DEF half_spad
  <1> QED BY <1>3, <1>4, <1>5, <1>6 DEF sram_limit, t

\* A step that writes no instruction.
LEMMA GemvAlone ==
  ASSUME Given, GemvSpace, OfKeys, ~Fused, UNCHANGED <<op, n_tp, seq_len, spad_addr, next>>,
         pc' \in {"tile", "request", "done"} =>
           req_idxs' = <<batch_size - 1>> /\ sram_size_needed < half_spad,
         pc' \in {"cut", "tile"} => spad_addr = 0 /\ next = 0
  PROVE  GemvSpace'
  <1>1. /\ batch_size' = batch_size /\ LengthsUpTo' = LengthsUpTo
        /\ sram_size_needed' = sram_size_needed
    BY SameRequests, SameSums
  <1>2. half_spad' = half_spad /\ PerToken' = PerToken BY DEF half_spad, PerToken
  <1>3. LengthsUpTo'[next' - 1] * PerToken' = LengthsUpTo[next - 1] * PerToken BY <1>1, <1>2
  <1> HIDE DEF LengthsUpTo
  <1>4. next' <= batch_size' /\ spad_addr' <= (LengthsUpTo[next - 1] * PerToken)'
    BY <1>1, <1>3 DEF GemvSpace
  <1>5. spad_addr' # 0 \/ pc' \in {"tile", "request", "done"} => sram_size_needed' < half_spad'
    BY <1>1, <1>2 DEF GemvSpace
  <1> QED BY <1>1, <1>4, <1>5 DEF GemvSpace

LEMMA GemvAdd ==
  ASSUME MhaInv, GemvSpace, OfKeys, ~Fused, Multiples, pc = "request", NEW H, AddKeys(H),
         UNCHANGED <<op, n_tp, seq_len, req_idxs>>
  PROVE  GemvSpace'
  <1>1. Given /\ Numbers /\ Cuts BY DEF MhaInv
  <1>2. /\ sram_size_needed < half_spad /\ req_idxs = <<batch_size - 1>>
        /\ spad_addr <= LengthsUpTo[next - 1] * PerToken
    BY DEF GemvSpace
  <1>3. CASE Abort
    <2>1. pc' = "aborted" /\ UNCHANGED <<spad_addr, next>> BY <1>3 DEF Abort
    <2> QED BY <1>1, <2>1, GemvAlone
  <1>4. CASE ~Abort
    <2>1. PICK G, S : G = logit_gemvs(next) /\ Write(H, G, S) BY <1>4 DEF AddKeys
    <2>2. next \in DOMAIN seq_len BY NextIsRequest
    <2>3. DOMAIN seq_len = 0..(batch_size - 1) /\ batch_size \in Nat /\ next \in Nat /\ spad_addr \in Nat
      BY <1>1 DEF Given, Numbers
    <2>4. Cardinality(G) = KeyCount(next) BY <1>1, <2>1, <2>2, <2>3, KeyCounted
    <2>5. spad_addr' = spad_addr + KeyCount(next) * readres_size /\ next' = next + 1
      BY <2>1, <2>4 DEF Write, nth
    <2>6. /\ KeyCount(next) * readres_size <= seq_len[next] * PerToken
          /\ KeyCount(next) * readres_size \in Nat /\ seq_len[next] * PerToken \in Nat /\ PerToken \in Nat
      BY <1>1, <2>2, KeySpace DEF Multiples
    <2>7. /\ LengthsUpTo[next] = LengthsUpTo[next - 1] + seq_len[next]
          /\ LengthsUpTo[next - 1] \in Nat /\ seq_len[next] \in Nat
      <3>1. next - 1 \in -1..(batch_size - 1) BY <2>2, <2>3
      <3>2. seq_len[next] \in Nat BY <1>1, <2>2, RequestSizes
      <3> QED BY <1>1, <2>2, <2>3, <3>1, <3>2, LengthSums
    <2>8. spad_addr' <= LengthsUpTo[next] * PerToken
      <3> DEFINE a == LengthsUpTo[next - 1]
                 b == seq_len[next]
                 x == KeyCount(next) * readres_size
      <3>1. a \in Nat /\ b \in Nat /\ x \in Nat /\ x <= b * PerToken /\ PerToken \in Nat
            /\ spad_addr <= a * PerToken /\ LengthsUpTo[next] = a + b /\ spad_addr' = spad_addr + x
        BY <1>2, <2>5, <2>6, <2>7
      <3> HIDE DEF a, b, x
      <3>2. (a + b) * PerToken = a * PerToken + b * PerToken /\ a * PerToken \in Nat /\ b * PerToken \in Nat
        BY <3>1
      <3>3. PICK y \in Nat : y = a * PerToken BY <3>2
      <3>4. PICK z \in Nat : z = b * PerToken BY <3>2
      <3>5. spad_addr + x <= y + z BY <2>3, <3>1, <3>3, <3>4
      <3> QED BY <3>1, <3>2, <3>3, <3>4, <3>5
    <2>9. /\ batch_size' = batch_size /\ LengthsUpTo' = LengthsUpTo
          /\ sram_size_needed' = sram_size_needed /\ half_spad' = half_spad /\ PerToken' = PerToken
      BY <1>1, SameRequests, SameSums DEF half_spad, PerToken
    <2>10. next' <= batch_size /\ next' - 1 = next BY <2>2, <2>3, <2>5
    <2>11. pc' \in {"request", "done"}
      <3>1. pc' = IF next < tiles[Len(tiles)].end THEN "request"
                  ELSE IF Len(tiles) < Len(req_idxs) THEN "tile" ELSE "done"
        BY <2>1 DEF Write
      <3>2. Len(tiles) > 0 /\ Len(tiles) \in Nat BY <1>1, TilesSeq DEF Cuts
      <3>3. Len(req_idxs) = 1 BY <1>2
      <3>4. ~(Len(tiles) < Len(req_idxs)) BY <3>2, <3>3
      <3> QED BY <3>1, <3>4
    <2>12. spad_addr' <= LengthsUpTo'[next' - 1] * PerToken' BY <2>8, <2>9, <2>10
    <2> QED BY <1>2, <2>9, <2>10, <2>11, <2>12 DEF GemvSpace
  <1> QED BY <1>3, <1>4

LEMMA GemvInit == ASSUME Init PROVE GemvInv
  <1> SUFFICES ASSUME OfKeys, ~Fused PROVE GemvSpace BY DEF GemvInv
  <1>1. Given
    <2>1. MhaInv BY MhaInit
    <2> QED BY <2>1 DEF MhaInv
  <1>2. next = 0 /\ spad_addr = 0 /\ pc = "cut" BY DEF Init
  <1>3. LengthsUpTo[next - 1] = 0
    <2>1. next - 1 = -1 BY <1>2
    <2> QED BY <1>1, <2>1, LengthSums
  <1>4. PerToken \in Nat BY <1>1, GemvCounted
  <1>5. 0 * PerToken = 0 BY <1>4
  <1>6. spad_addr <= LengthsUpTo[next - 1] * PerToken BY <1>2, <1>3, <1>5
  <1>7. next <= batch_size BY <1>1, <1>2 DEF Given
  <1> QED BY <1>2, <1>6, <1>7 DEF GemvSpace

LEMMA GemvStep == ASSUME MhaInv, GemvInv, [Next \/ Done]_vars PROVE GemvInv'
  <1>1. Given /\ Numbers /\ Cuts BY DEF MhaInv
  <1>2. UNCHANGED <<op, n_tp, seq_len>>
    BY DEF Next, Done, vars, CountRequest, EndOfRequests, OneTile, NewTile, AddRequest
  <1> SUFFICES ASSUME OfKeys', ~Fused', Multiples' PROVE GemvSpace' BY DEF GemvInv
  <1>3. OfKeys /\ ~Fused /\ Multiples BY <1>1, <1>2, SameRequests, SameSums
  <1>4. GemvSpace BY <1>3 DEF GemvInv
  <1>5. CASE OneTile
    <2>1. pc = "cut" /\ UNCHANGED <<spad_addr, next>> BY <1>5 DEF OneTile
    <2>2. \/ req_idxs' = <<batch_size - 1>> /\ pc' = "tile" /\ sram_size_needed < half_spad
          \/ pc' = "aborted"
      BY <1>1, <1>3, <1>5, GemvCounted DEF OneTile
    <2>3. spad_addr = 0 /\ next = 0 BY <1>4, <2>1 DEF GemvSpace
    <2> QED BY <1>1, <1>2, <1>3, <1>4, <2>1, <2>2, <2>3, GemvAlone
  <1>6. CASE NewTile
    <2>1. UNCHANGED <<spad_addr, req_idxs>> /\ pc = "tile" /\ pc' \in {"aborted", "request"}
      BY <1>6 DEF NewTile
    <2>2. /\ spad_addr = 0 /\ next = 0 /\ req_idxs = <<batch_size - 1>> /\ sram_size_needed < half_spad
      BY <1>4, <2>1 DEF GemvSpace
    <2>3. next' = next
      <3>1. next' = next \/ next' = prev_idx BY <1>6 DEF NewTile
      <3>2. prev_idx = 0
        <4>1. Len(tiles) < Len(req_idxs) /\ prev_idx = IF tiles = <<>> THEN 0 ELSE req_idxs[Len(tiles)]
          BY <1>1, <2>1 DEF Cuts
        <4>2. Len(req_idxs) = 1 BY <2>2
        <4>3. Len(tiles) = 0 /\ tiles = <<>> BY <1>1, <4>1, <4>2, TilesSeq
        <4> QED BY <4>1, <4>3
      <3> QED BY <2>2, <3>1, <3>2
    <2> QED BY <1>1, <1>2, <1>3, <1>4, <2>1, <2>2, <2>3, GemvAlone
  <1>7. CASE AddRequest
    <2>1. pc = "request" /\ UNCHANGED req_idxs BY <1>7 DEF AddRequest
    <2>2. PICK H : AddKeys(H)
      BY <1>3, <1>7 DEF AddRequest, AddLogit, AddAttend, AddGemv, AddGemvSoftmax, AddGemvAdd, OfKeys, Fused
    <2> QED BY <1>2, <1>3, <1>4, <2>1, <2>2, GemvAdd
  <1>8. CASE UNCHANGED vars
    <2>1. UNCHANGED <<spad_addr, next, pc, req_idxs>> BY <1>8 DEF vars
    <2>2. pc \in {"tile", "request", "done"} =>
            req_idxs = <<batch_size - 1>> /\ sram_size_needed < half_spad
      BY <1>4 DEF GemvSpace
    <2>3. pc \in {"cut", "tile"} => spad_addr = 0 /\ next = 0 BY <1>4 DEF GemvSpace
    <2> QED BY <1>1, <1>2, <1>3, <1>4, <2>1, <2>2, <2>3, GemvAlone
  <1>9. ~CountRequest /\ ~EndOfRequests BY <1>3 DEF CountRequest, EndOfRequests
  <1> QED BY <1>5, <1>6, <1>7, <1>8, <1>9 DEF Next, Done

\* The sums of the needs are what the tiles of LogitSoftmax fit by, and those of
\* the lengths what the tile of PIMGEMV and PIMGEMVSoftmax fits by.
LEMMA CutsFit == ASSUME MhaInv, CutInv, GemvInv PROVE CutFits
  <1>1. Given /\ Numbers /\ Cuts BY DEF MhaInv
  <1>2. ASSUME op = "LogitSoftmax", \A r \in DOMAIN seq_len : need_sram_for_req(r) <= SpadSize,
               NEW k \in DOMAIN tiles
        PROVE  NeedsOf(tiles[k].start + (IF k = 1 THEN 0 ELSE 1), tiles[k].end) <= SpadSize
    <2>1. CutSums BY <1>2 DEF CutInv, AllFit
    <2>2. /\ tiles[k].end = req_idxs[k] /\ tiles[k].start = IF k = 1 THEN 0 ELSE req_idxs[k - 1]
      BY DEF CutInv, TilesCut
    <2>3. req_idxs \in Seq(Nat) /\ k \in DOMAIN req_idxs /\ k \in Nat /\ k > 0
      <3>1. req_idxs \in Seq(Nat) BY <1>1 DEF Numbers
      <3>2. Len(tiles) \in Nat /\ DOMAIN tiles = 1..Len(tiles) BY <1>1, TilesSeq
      <3>3. Len(tiles) <= Len(req_idxs) BY <1>1 DEF Cuts
      <3> QED BY <3>1, <3>2, <3>3
    <2>4. req_idxs[k] \in -1..(batch_size - 1) /\ req_idxs[k] \in Nat
      <3>1. req_idxs[k] \in Nat /\ req_idxs[k] < batch_size BY <1>1, <2>3 DEF Cuts
      <3> QED BY <1>1, <3>1 DEF Given
    <2>5. PICK a : a = tiles[k].start + (IF k = 1 THEN 0 ELSE 1) OBVIOUS
    <2>6. a \in Nat /\ a - 1 = LastCut(k - 1) /\ a - 1 <= req_idxs[k]
      <3>1. CASE k = 1
        <4>1. a = 0 /\ k - 1 = 0 BY <2>2, <2>5, <3>1
        <4> QED BY <2>4, <4>1 DEF LastCut
      <3>2. CASE k # 1
        <4>1. k - 1 \in DOMAIN req_idxs /\ k - 1 # 0 /\ k - 1 <= k BY <2>3, <3>2
        <4>2. req_idxs[k - 1] \in Nat /\ req_idxs[k - 1] <= req_idxs[k] BY <1>1, <2>3, <4>1 DEF Cuts
        <4>3. a = req_idxs[k - 1] + 1 BY <2>2, <2>5, <3>2
        <4>4. LastCut(k - 1) = req_idxs[k - 1] BY <4>1 DEF LastCut
        <4> QED BY <2>4, <4>2, <4>3, <4>4
      <3> QED BY <3>1, <3>2
    <2>7. Needs \in [DOMAIN seq_len -> Nat] BY <1>1, <1>2, NeedsTyped
    <2>8. NeedsOf(a, req_idxs[k]) = NeedsUpTo[req_idxs[k]] - NeedsUpTo[a - 1]
      BY <1>1, <2>4, <2>6, <2>7, NeedsAre
    <2>9. NeedsUpTo[req_idxs[k]] - NeedsUpTo[LastCut(k - 1)] <= SpadSize BY <2>1, <2>3 DEF CutSums
    <2>10. NeedsOf(a, req_idxs[k]) <= SpadSize BY <2>6, <2>8, <2>9
    <2> QED BY <2>2, <2>5, <2>10
  <1>3. ASSUME OfKeys, ~Fused, Multiples PROVE spad_addr <= half_spad
    <2>1. GemvSpace BY <1>3 DEF GemvInv
    <2>2. spad_addr \in Nat /\ half_spad \in Nat /\ PerToken \in Nat
          /\ sram_size_needed = LengthsUpTo[batch_size - 1] * PerToken
      BY <1>1, <1>3, GemvCounted DEF Numbers
    <2>3. CASE spad_addr = 0 BY <2>2, <2>3
    <2>4. CASE spad_addr # 0
      <3>1. sram_size_needed < half_spad /\ spad_addr <= LengthsUpTo[next - 1] * PerToken
            /\ next <= batch_size
        BY <2>1, <2>4 DEF GemvSpace
      <3>2. batch_size \in Nat /\ next \in Nat BY <1>1 DEF Given, Numbers
      <3>3. next - 1 \in -1..(batch_size - 1) /\ batch_size - 1 \in -1..(batch_size - 1) BY <3>1, <3>2
      <3>4. /\ LengthsUpTo[next - 1] \in Nat /\ LengthsUpTo[batch_size - 1] \in Nat
            /\ LengthsUpTo[next - 1] <= LengthsUpTo[batch_size - 1]
        BY <1>1, <3>3, LengthSums
      <3>5. LengthsUpTo[next - 1] * PerToken <= LengthsUpTo[batch_size - 1] * PerToken
        BY <2>2, <3>4, TimesMono
      <3>6. PICK x \in Nat : x = LengthsUpTo[next - 1] * PerToken BY <2>2, <3>4
      <3>7. PICK y \in Nat : y = LengthsUpTo[batch_size - 1] * PerToken BY <2>2, <3>4
      <3> QED BY <2>2, <3>1, <3>5, <3>6, <3>7
    <2> QED BY <2>3, <2>4
  <1>4. OfKeys /\ ~Fused => GemvsFit BY <1>3 DEF GemvsFit, Multiples
  <1> QED BY <1>2, <1>4 DEF CutFits

\* The requests between two cuts of LogitSoftmax fit the scratchpad when each of
\* them does, and what PIMGEMV and PIMGEMVSoftmax read out of the banks fits the
\* half that they asserted (sram_size_needed), for lengths that fill the banks.
THEOREM AlwaysCutFits == Spec => []CutFits
  <1>1. Init => CutInv /\ GemvInv BY CutInit, GemvInit
  <1>2. MhaInv /\ CutInv /\ GemvInv /\ [Next \/ Done]_vars => CutInv' /\ GemvInv'
    BY CutCount, CutEnd, CutNewTile, CutAdd, CutOther, GemvStep DEF Next, Done
  <1>3. MhaInv /\ CutInv /\ GemvInv => CutFits BY CutsFit
  <1> QED BY <1>1, <1>2, <1>3, MhaInvariant, PTL DEF Spec
=============================================================================
