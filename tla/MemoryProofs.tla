----------------------------- MODULE MemoryProofs -----------------------------
(***************************************************************************)
(* No address of the HBM has two owners, for every layout of the memory,   *)
(* every set of weights, activations and requests.  At the end: what the   *)
(* operations put into an address is what the memory reads out of it.      *)
(***************************************************************************)
EXTENDS Memory, AddressConfig, TLAPS

\* What is needed of the addresses besides the properties: the blocks of a
\* region end below its top, and nothing is placed before the layout is made.
Tops ==
  /\ Below(wgt, wgt_top) /\ Below(act, act_top)
  /\ act_base <= act_top
  /\ ~ready => act = <<>> /\ (\A ch \in Channels : rows[ch] = <<>>)
                          /\ (\A t \in Tensors : tensor[t].rows = <<>>)

\* The inductive invariant.
MemInv == TypeOK /\ Tops /\ RegionsDisjoint /\ RowsExclusive

USE DEF npu

-----------------------------------------------------------------------------
\* Division: the aligned addresses of the allocators.
LEMMA DivMod == ASSUME NEW a \in Nat, NEW n \in Nat, n > 0
  PROVE a = n * (a \div n) + (a % n) /\ a % n \in Nat /\ a % n < n /\ a \div n \in Nat
  BY Z3

LEMMA NextAligned == ASSUME NEW a \in Nat
  PROVE get_next_aligned_addr(a) \in Nat /\ get_next_aligned_addr(a) > a
  <1>1. Alignment \in Nat /\ Alignment > 0 BY MemoryAssumption
  <1>2. a % Alignment \in Nat /\ a % Alignment < Alignment BY <1>1, DivMod
  <1>3. a - (a % Alignment) + Alignment \in Nat /\ a - (a % Alignment) + Alignment > a
    <2> DEFINE r == a % Alignment
    <2>1. r \in Nat /\ r < Alignment /\ r <= a BY <1>1, <1>2, DivMod
    <2> HIDE DEF r
    <2>2. a - r + Alignment \in Nat /\ a - r + Alignment > a BY <1>1, <2>1
    <2> QED BY <2>2 DEF r
  <1> QED BY <1>3 DEF get_next_aligned_addr

LEMMA NextTop == ASSUME NEW top \in Nat, NEW size \in Nat
  PROVE next_top(top, size) \in Nat /\ next_top(top, size) >= top + size
  <1>1. top + size + Alignment - 1 \in Nat /\ Alignment \in Nat /\ Alignment > 0
    BY MemoryAssumption
  <1>2. QED BY <1>1, DivMod DEF next_top, ceil

LEMMA BaseRow == ASSUME NEW a \in Nat
  PROVE base_row(a) \in Nat /\ base_row(a) * RowBytes > a
  <1>1. RowBytes \in Nat /\ RowBytes > 0 BY MemoryAssumption
  <1> DEFINE q == a \div RowBytes
  <1>2. q \in Nat /\ a < RowBytes * q + RowBytes BY <1>1, DivMod
  <1>3. (q + 1) * RowBytes = RowBytes * q + RowBytes BY <1>1, <1>2
  <1>4. QED BY <1>2, <1>3 DEF base_row

\* Rows above the first one start above it.
LEMMA RowsAbove == ASSUME NEW r \in Nat, NEW q \in Nat, q >= r
  PROVE q * RowBytes >= r * RowBytes
  <1>1. RowBytes \in Nat BY MemoryAssumption
  <1>2. PICK d \in Nat : q = r + d BY q - r \in Nat, q = r + (q - r)
  <1>3. q * RowBytes = r * RowBytes + d * RowBytes BY <1>1, <1>2
  <1>4. d * RowBytes \in Nat BY <1>1
  <1>5. QED BY <1>1, <1>3, <1>4

\* A block at the top of a region.
LEMMA AppendBlock == ASSUME NEW s \in Blocks, NEW top \in Nat, NEW size \in Nat \ {0},
                            NEW x \in Nat, x >= top + size, Ordered(s), Below(s, top)
  PROVE LET u == Append(s, <<top, size>>)
        IN  /\ u \in Blocks /\ Ordered(u) /\ Below(u, x)
            /\ \A b \in Nat : top >= b /\ Above(s, b) => Above(u, b)
  <1> DEFINE u == Append(s, <<top, size>>)
  <1>1. u \in Blocks /\ Len(u) = Len(s) + 1 /\ DOMAIN u = 1..(Len(s) + 1)
        /\ u[Len(s) + 1] = <<top, size>> /\ \A i \in 1..Len(s) : u[i] = s[i]
    BY DEF Blocks
  <1>2. \A i \in 1..Len(s) : s[i] \in Nat \X (Nat \ {0}) BY DEF Blocks
  <1>3. DOMAIN s = 1..Len(s) /\ Len(s) \in Nat BY DEF Blocks
  <1> HIDE DEF u
  <1>4. Ordered(u) BY <1>1, <1>2, <1>3 DEF Ordered, Below
  <1>5. Below(u, x) BY <1>1, <1>2, <1>3 DEF Below
  <1>6. \A b \in Nat : top >= b /\ Above(s, b) => Above(u, b) BY <1>1, <1>2, <1>3 DEF Above
  <1>7. QED BY <1>1, <1>4, <1>5, <1>6 DEF u

\* What is left of a sequence and what is taken from it.
LEMMA Taken == ASSUME NEW s \in Seq(Nat), NEW n \in Nat, n <= Len(s)
  PROVE LET a == SubSeq(s, 1, n)   b == SubSeq(s, n + 1, Len(s))
        IN  /\ a \in Seq(Nat) /\ b \in Seq(Nat)
            /\ Len(a) = n /\ (\A i \in 1..n : a[i] = s[i])
            /\ Len(b) = Len(s) - n /\ (\A i \in 1..(Len(s) - n) : b[i] = s[i + n])
  <1> DEFINE a == SubSeq(s, 1, n)
             b == SubSeq(s, n + 1, Len(s))
  <1>1. a \in Seq(Nat) /\ Len(a) = n OBVIOUS
  <1>2. b \in Seq(Nat) /\ Len(b) = Len(s) - n OBVIOUS
  <1>3. \A i \in 1..n : a[i] = s[i] OBVIOUS
  <1>4. \A i \in 1..(Len(s) - n) : b[i] = s[i + n] OBVIOUS
  <1> QED BY <1>1, <1>2, <1>3, <1>4

LEMMA Concat == ASSUME NEW s \in Seq(Nat), NEW u \in Seq(Nat)
  PROVE /\ s \o u \in Seq(Nat) /\ Len(s \o u) = Len(s) + Len(u)
        /\ \A i \in 1..Len(s) : (s \o u)[i] = s[i]
        /\ \A i \in (Len(s) + 1)..(Len(s) + Len(u)) : (s \o u)[i] = u[i - Len(s)]
  OBVIOUS

-----------------------------------------------------------------------------
LEMMA ChanType == ASSUME NEW t \in Tensors PROVE Chan(t) \in Channels
  <1>1. t[1] \in DOMAIN Requests BY DEF Tensors
  <1>2. Requests \in Seq(Request) BY MemoryAssumption
  <1>3. Requests[t[1]] \in Request BY <1>1, <1>2
  <1>4. QED BY <1>3 DEF Chan, Request

LEMMA MemInit == Init => MemInv
  <1> SUFFICES ASSUME Init PROVE MemInv OBVIOUS
  <1>1. TypeOK
    <2>1. wgt \in Blocks /\ act \in Blocks BY DEF Init, Blocks
    <2>2. rows \in [Channels -> Seq(Nat)] BY DEF Init
    <2>3. [rows |-> <<>>, seq_len |-> 0] \in [rows : Seq(Nat), seq_len : Nat] OBVIOUS
    <2>4. tensor \in [Tensors -> [rows : Seq(Nat), seq_len : Nat]] BY <2>3 DEF Init
    <2>5. [bases |-> [h \in Heads |-> <<>>], seq_len |-> 0] \in [bases : [Heads -> Seq(Nat)], seq_len : Nat]
      OBVIOUS
    <2>6. kv \in [Tensors -> [bases : [Heads -> Seq(Nat)], seq_len : Nat]] BY <2>5 DEF Init
    <2>7. wgt_top \in Nat /\ act_base \in Nat /\ act_top \in Nat /\ kv_cache \in Seq(Nat)
      BY DEF Init
    <2>8. mode \in RunModes /\ max_active_reqs \in ActiveReqs BY DEF Init
    <2>9. done \subseteq DOMAIN Requests /\ ready \in BOOLEAN /\ aborted \in BOOLEAN BY DEF Init
    <2>10. QED BY <2>1, <2>2, <2>4, <2>6, <2>7, <2>8, <2>9 DEF TypeOK
  <1>2. Tops BY DEF Init, Tops, Below
  <1>3. RegionsDisjoint
    BY DEF Init, RegionsDisjoint, Ordered, Above, Below
  <1>4. RowsExclusive BY ChanType DEF Init, RowsExclusive, Distinct, Apart
  <1>5. QED BY <1>1, <1>2, <1>3, <1>4 DEF MemInv

\* The caches are as they were.
LEMMA SameRows == ASSUME MemInv, UNCHANGED <<rows, tensor>> PROVE RowsExclusive'
  BY DEF MemInv, RowsExclusive

LEMMA CreateWeightStep == MemInv /\ CreateWeight => MemInv'
  <1> SUFFICES ASSUME MemInv, CreateWeight PROVE MemInv' OBVIOUS
  <1> USE DEF CreateWeight
  <1> DEFINE size == Weights[Len(wgt) + 1]
  <1>1. wgt \in Blocks /\ wgt_top \in Nat /\ size \in Nat \ {0}
    BY MemoryAssumption DEF MemInv, TypeOK, Blocks
  <1>2. wgt' = Append(wgt, <<wgt_top, size>>) /\ wgt_top' \in Nat /\ wgt_top' >= wgt_top + size
    BY <1>1, NextTop
  <1>3. Ordered(wgt) /\ Below(wgt, wgt_top) BY DEF MemInv, RegionsDisjoint, Tops
  <1> HIDE DEF size
  <1>4. wgt' \in Blocks /\ Ordered(wgt') /\ Below(wgt', wgt_top')
    BY <1>1, <1>2, <1>3, AppendBlock
  <1>5. TypeOK' BY <1>2, <1>4 DEF MemInv, TypeOK
  <1>6. Tops' BY <1>4 DEF MemInv, Tops
  <1>7. RegionsDisjoint' BY <1>4 DEF MemInv, RegionsDisjoint, RowOK, act_limit
  <1>8. QED BY <1>5, <1>6, <1>7, SameRows DEF MemInv

\* The free entries are addresses.
LEMMA EntriesType == ASSUME NEW base \in Nat, max_active_reqs \in ActiveReqs
  PROVE FreeEntries(base) \in Seq(Nat)
  <1>1. /\ {MaxSeqLen, NumHeads, HeadDim, Precision, EntrySize, WordSize} \subseteq Nat \ {0}
        /\ max_active_reqs \in Nat
    BY NpuLayoutAssumption
  <1>2. num_tokens \in Nat /\ entry_bytes \in Nat BY <1>1 DEF num_tokens, entry_bytes
  <1>3. num_tokens % WordSize \in Nat BY <1>1, <1>2, DivMod
  <1>4. num_entries \in Nat
    <2>1. EntrySize \in Nat /\ EntrySize > 0 BY <1>1
    <2>2. QED BY <1>3, <2>1, DivMod DEF num_entries
  <1>5. \A k \in 1..num_entries : base + (k - 1) * entry_bytes \in Nat
    <2>1. TAKE k \in 1..num_entries
    <2>2. k - 1 \in Nat BY <1>4
    <2> HIDE DEF entry_bytes
    <2>3. (k - 1) * entry_bytes \in Nat BY <1>2, <2>2
    <2>4. QED BY <2>3
  <1>6. QED BY <1>4, <1>5 DEF FreeEntries

LEMMA InitAllocatorsStep == MemInv /\ InitAllocators => MemInv'
  <1> SUFFICES ASSUME MemInv, InitAllocators PROVE MemInv' OBVIOUS
  <1> DEFINE first == base_row(kv_base')
  <1>1. ActBufSize \in Nat /\ RowsPerBank \in Nat /\ RowBytes \in Nat BY MemoryAssumption
  <1>2. wgt_top \in Nat /\ act_base' \in Nat /\ act_base' > wgt_top /\ act_top' = act_base'
    BY NextAligned DEF MemInv, TypeOK, InitAllocators
  <1>3. kv_base' \in Nat /\ kv_base' > act_base' + ActBufSize
    BY <1>1, <1>2, NextAligned DEF kv_base, act_limit
  <1>4. first \in Nat /\ first * RowBytes > act_base' + ActBufSize
    <2>1. first \in Nat /\ first * RowBytes > kv_base' BY <1>3, BaseRow
    <2> HIDE DEF first
    <2>2. \A x, y, z \in Nat : x > y /\ y > z => x > z OBVIOUS
    <2>3. first * RowBytes \in Nat BY <1>1, <2>1
    <2>4. act_base' + ActBufSize \in Nat
      <3>1. \A x, y \in Nat : x + y \in Nat OBVIOUS
      <3>2. act_base' \in Nat /\ ActBufSize \in Nat BY <1>1, <1>2
      <3>3. QED BY <3>1, <3>2
    <2>5. QED BY <1>3, <2>1, <2>2, <2>3, <2>4
  <1>5. /\ FreeRows(first) \in Seq(Nat) /\ Distinct(FreeRows(first))
        /\ \A k \in DOMAIN FreeRows(first) : /\ FreeRows(first)[k] \in Nat
                                             /\ FreeRows(first)[k] >= first
                                             /\ FreeRows(first)[k] < RowsPerBank
    <2> HIDE DEF first
    <2>1. CASE RowsPerBank - first \in Nat
      BY <1>1, <1>4, <2>1 DEF FreeRows, Distinct
    <2>2. CASE RowsPerBank - first \notin Nat
      <3>1. 1..(RowsPerBank - first) = {} BY <1>1, <1>4, <2>2
      <3>2. FreeRows(first) = <<>> BY <3>1 DEF FreeRows
      <3>3. QED BY <3>2 DEF Distinct
    <2>3. QED BY <2>1, <2>2
  \* In both layouts, a channel has the rows above the region, or none.
  <1>6. /\ rows' \in [Channels -> Seq(Nat)]
        /\ \A ch \in Channels : rows'[ch] = FreeRows(first) \/ rows'[ch] = <<>>
    <2>1. CASE UNCHANGED rows BY <2>1 DEF MemInv, TypeOK, Tops, InitAllocators
    <2>2. CASE rows' = [ch \in Channels |-> FreeRows(first)]
      <3> HIDE DEF first
      <3>1. QED BY <1>5, <2>2
    <2>3. QED BY <2>1, <2>2 DEF InitAllocators
  <1>7. kv_cache' \in Seq(Nat) /\ aborted' \in BOOLEAN
    BY <1>3, EntriesType DEF MemInv, TypeOK, InitAllocators
  <1> HIDE DEF first
  <1>8. UNCHANGED <<wgt, wgt_top, act, tensor, done, mode, max_active_reqs, kv>> /\ ready' = TRUE /\ ~ready
    BY DEF InitAllocators
  <1>9. TypeOK' BY <1>2, <1>6, <1>7, <1>8 DEF MemInv, TypeOK
  <1>10. act = <<>> /\ \A t \in Tensors : tensor[t].rows = <<>> BY <1>8 DEF MemInv, Tops
  <1>11. Tops' BY <1>2, <1>8, <1>10 DEF MemInv, Tops, Below, TypeOK
  <1>12. RegionsDisjoint'
    <2>1. Below(wgt, act_base')
      BY <1>2 DEF MemInv, Tops, TypeOK, Blocks, Below
    <2>2. \A k \in DOMAIN FreeRows(first) : (FreeRows(first)[k] * RowBytes >= act_base' + ActBufSize)
      <3>1. TAKE k \in DOMAIN FreeRows(first)
      <3>2. FreeRows(first)[k] * RowBytes >= first * RowBytes BY <1>4, <1>5, RowsAbove
      <3>3. FreeRows(first)[k] * RowBytes \in Nat /\ first * RowBytes \in Nat
        BY <1>1, <1>4, <1>5
      <3>4. first * RowBytes > act_base' + ActBufSize BY <1>4
      <3>5. QED BY <1>1, <1>2, <3>2, <3>3, <3>4
    <2>3. \A ch \in Channels : \A k \in DOMAIN rows'[ch] : RowOK(rows[ch][k])'
      BY <1>1, <1>2, <1>5, <1>6, <2>2 DEF RowOK, act_limit
    <2>4. QED BY <1>8, <1>10, <2>1, <2>3 DEF MemInv, RegionsDisjoint, Ordered, Above, Below
  <1>13. RowsExclusive'
    <2>1. \A ch \in Channels : Distinct(rows'[ch]) BY <1>5, <1>6 DEF Distinct
    <2>2. QED BY <1>8, <1>10, <2>1, ChanType DEF RowsExclusive, Distinct, Apart
  <1>14. QED BY <1>9, <1>11, <1>12, <1>13 DEF MemInv

LEMMA AllocateActivationStep ==
  ASSUME NEW size \in ActSizes, MemInv, AllocateActivation(size) PROVE MemInv'
  <1> USE DEF AllocateActivation
  <1>1. size \in Nat \ {0} /\ ActBufSize \in Nat BY MemoryAssumption
  <1>2. act \in Blocks /\ act_top \in Nat /\ act_base \in Nat
    BY DEF MemInv, TypeOK
  <1>3. CASE ~fits(size) /\ UNCHANGED <<act, act_top>>
    <2>1. TypeOK' BY <1>3 DEF MemInv, TypeOK
    <2>2. Tops' BY <1>3 DEF MemInv, Tops
    <2>3. RegionsDisjoint' BY <1>3 DEF MemInv, RegionsDisjoint, RowOK, act_limit
    <2>4. QED BY <2>1, <2>2, <2>3, SameRows DEF MemInv
  <1>4. CASE fits(size) /\ act' = Append(act, <<act_top, size>>) /\ act_top' = next_top(act_top, size)
                        /\ UNCHANGED aborted
    <2>1. act_top' \in Nat /\ act_top' >= act_top + size BY <1>1, <1>2, <1>4, NextTop
    <2>2. Ordered(act) /\ Below(act, act_top) /\ Above(act, act_base) /\ act_base <= act_top
      BY DEF MemInv, RegionsDisjoint, Tops
    <2>3. act_limit \in Nat /\ act_limit >= act_top + size /\ act_limit' = act_limit
      BY <1>1, <1>2, <1>4 DEF fits, act_limit
    <2>4. act' \in Blocks /\ Ordered(act') /\ Below(act', act_top') /\ Above(act', act_base)
      BY <1>1, <1>2, <1>4, <2>1, <2>2, AppendBlock
    <2>5. Below(act', act_limit) BY <1>1, <1>2, <1>4, <2>2, <2>3, AppendBlock
    <2>6. TypeOK' BY <2>1, <2>4 DEF MemInv, TypeOK
    <2>7. Tops' BY <1>1, <1>2, <2>1, <2>2, <2>4 DEF MemInv, Tops
    <2>8. RegionsDisjoint' BY <2>3, <2>4, <2>5 DEF MemInv, RegionsDisjoint, RowOK
    <2>9. QED BY <2>6, <2>7, <2>8, SameRows DEF MemInv
  <1>5. QED BY <1>3, <1>4

\* KVCacheAlloc::allocate, for a new tensor or for a token.
LEMMA AllocateStep ==
  ASSUME NEW t \in Tensors, NEW n \in Nat, NEW len \in Nat, MemInv, ready, allocate(t, n, len),
         UNCHANGED <<wgt, wgt_top, act, act_base, act_top, done, npu, ready>>
  PROVE MemInv'
  <1> DEFINE ch == Chan(t)
             a == SubSeq(rows[ch], 1, n)
             b == SubSeq(rows[ch], n + 1, Len(rows[ch]))
             c == tensor[t].rows
  <1>1. ch \in Channels BY ChanType
  <1>2. rows \in [Channels -> Seq(Nat)] /\ tensor \in [Tensors -> [rows : Seq(Nat), seq_len : Nat]]
    BY DEF MemInv, TypeOK
  <1>3. CASE aborted' = TRUE /\ UNCHANGED <<rows, tensor>>
    <2>1. TypeOK' BY <1>3 DEF MemInv, TypeOK
    <2>2. Tops' BY <1>3 DEF MemInv, Tops
    <2>3. RegionsDisjoint' BY <1>3 DEF MemInv, RegionsDisjoint, RowOK, act_limit
    <2>4. QED BY <1>3, <2>1, <2>2, <2>3, SameRows DEF MemInv
  <1>4. CASE /\ n <= Len(rows[ch])
             /\ tensor' = [tensor EXCEPT ![t] = [rows |-> c \o a, seq_len |-> len]]
             /\ rows' = [rows EXCEPT ![ch] = b]
             /\ UNCHANGED aborted
    <2>1. rows[ch] \in Seq(Nat) /\ c \in Seq(Nat) BY <1>1, <1>2
    <2>2. /\ a \in Seq(Nat) /\ b \in Seq(Nat)
          /\ Len(a) = n /\ (\A i \in 1..n : a[i] = rows[ch][i])
          /\ Len(b) = Len(rows[ch]) - n /\ (\A i \in 1..(Len(rows[ch]) - n) : b[i] = rows[ch][i + n])
      BY <1>4, <2>1, Taken
    <2>3. /\ c \o a \in Seq(Nat) /\ Len(c \o a) = Len(c) + n
          /\ \A i \in 1..Len(c) : (c \o a)[i] = c[i]
          /\ \A i \in (Len(c) + 1)..(Len(c) + n) : (c \o a)[i] = a[i - Len(c)]
      <3>1. a \in Seq(Nat) /\ c \in Seq(Nat) /\ Len(a) = n BY <2>1, <2>2
      <3> HIDE DEF a, c
      <3>2. QED BY <3>1, Concat
    <2> DEFINE e == c \o a
               f == rows[ch]
    <2>4. /\ rows' \in [Channels -> Seq(Nat)] /\ rows'[ch] = b
          /\ \A x \in Channels \ {ch} : rows'[x] = rows[x]
      BY <1>1, <1>2, <1>4, <2>2
    <2>5. /\ tensor' \in [Tensors -> [rows : Seq(Nat), seq_len : Nat]] /\ tensor'[t].rows = e
          /\ \A u \in Tensors \ {t} : tensor'[u].rows = tensor[u].rows
      BY <1>2, <1>4, <2>3
    <2>6. /\ f \in Seq(Nat) /\ c \in Seq(Nat) /\ e \in Seq(Nat) /\ b \in Seq(Nat)
          /\ DOMAIN f = 1..Len(f) /\ DOMAIN c = 1..Len(c) /\ DOMAIN e = 1..Len(e) /\ DOMAIN b = 1..Len(b)
      BY <2>1, <2>2, <2>3
    \* The rows of the tensor are the ones it had and the first n of the
    \* free ones; the free ones are the rest.
    <2>7. /\ \A i \in DOMAIN e : \/ i \in DOMAIN c /\ e[i] = c[i]
                                \/ /\ i \notin DOMAIN c /\ i - Len(c) \in 1..n
                                   /\ i - Len(c) \in DOMAIN f /\ e[i] = f[i - Len(c)]
          /\ \A i \in DOMAIN b : i + n \in DOMAIN f /\ b[i] = f[i + n] /\ i + n \notin 1..n
      <3>1. /\ n <= Len(f) /\ (\A i \in 1..n : a[i] = f[i]) /\ Len(b) = Len(f) - n
            /\ (\A i \in 1..(Len(f) - n) : b[i] = f[i + n])
            /\ Len(e) = Len(c) + n /\ (\A i \in 1..Len(c) : e[i] = c[i])
            /\ \A i \in (Len(c) + 1)..(Len(c) + n) : e[i] = a[i - Len(c)]
        BY <1>4, <2>2, <2>3
      <3>2. Len(c) \in Nat /\ Len(f) \in Nat BY <2>6
      <3> HIDE DEF a, b, c, e, f
      <3>3. ASSUME NEW i \in DOMAIN e
            PROVE \/ i \in DOMAIN c /\ e[i] = c[i]
                  \/ /\ i \notin DOMAIN c /\ i - Len(c) \in 1..n
                     /\ i - Len(c) \in DOMAIN f /\ e[i] = f[i - Len(c)]
        <4>1. i \in 1..(Len(c) + n) BY <2>6, <3>1
        <4>2. CASE i \in 1..Len(c) BY <2>6, <3>1, <4>2
        <4>3. CASE i \in (Len(c) + 1)..(Len(c) + n)
          <5>1. i - Len(c) \in 1..n /\ i - Len(c) \in 1..Len(f) /\ i \notin 1..Len(c)
            BY <3>1, <3>2, <4>3
          <5>2. e[i] = a[i - Len(c)] /\ a[i - Len(c)] = f[i - Len(c)] BY <3>1, <4>3, <5>1
          <5>3. QED BY <2>6, <5>1, <5>2
        <4>4. QED BY <3>2, <4>1, <4>2, <4>3
      <3>4. ASSUME NEW i \in DOMAIN b
            PROVE i + n \in DOMAIN f /\ b[i] = f[i + n] /\ i + n \notin 1..n
        <4>1. i \in 1..(Len(f) - n) BY <2>6, <3>1
        <4>2. i + n \in 1..Len(f) /\ i + n \notin 1..n BY <3>1, <3>2, <4>1
        <4>3. QED BY <2>6, <3>1, <4>1, <4>2
      <3>5. QED BY <3>3, <3>4
    <2>8. Len(c) \in Nat BY <2>6
    <2> HIDE DEF a, b, c, e, f
    <2>9. Distinct(f) /\ Distinct(c) /\ Apart(c, f) BY <1>1 DEF MemInv, RowsExclusive, c, f
    <2>10. Distinct(b) BY <2>6, <2>7, <2>9 DEF Distinct
    <2>11. Distinct(e)
      <3> SUFFICES ASSUME NEW i \in DOMAIN e, NEW j \in DOMAIN e, e[i] = e[j] PROVE i = j
        BY DEF Distinct
      <3>1. i \in Nat /\ j \in Nat BY <2>6
      <3>2. CASE i \in DOMAIN c /\ j \in DOMAIN c BY <2>7, <2>9, <3>2 DEF Distinct
      <3>3. CASE i \in DOMAIN c /\ j \notin DOMAIN c BY <2>7, <2>9, <3>3 DEF Apart
      <3>4. CASE i \notin DOMAIN c /\ j \in DOMAIN c BY <2>7, <2>9, <3>4 DEF Apart
      <3>5. CASE i \notin DOMAIN c /\ j \notin DOMAIN c
        <4>1. i - Len(c) = j - Len(c) BY <2>7, <2>9, <3>5 DEF Distinct
        <4>2. QED BY <2>8, <3>1, <4>1
      <3>6. QED BY <3>2, <3>3, <3>4, <3>5
    <2>12. Apart(e, b)
      <3> SUFFICES ASSUME NEW i \in DOMAIN e, NEW j \in DOMAIN b PROVE e[i] # b[j]
        BY DEF Apart
      <3>1. j + n \in DOMAIN f /\ b[j] = f[j + n] /\ j + n \notin 1..n BY <2>7
      <3>2. CASE i \in DOMAIN c /\ e[i] = c[i] BY <2>9, <3>1, <3>2 DEF Apart
      <3>3. CASE i - Len(c) \in 1..n /\ i - Len(c) \in DOMAIN f /\ e[i] = f[i - Len(c)]
        BY <2>9, <3>1, <3>3 DEF Distinct
      <3>4. QED BY <2>7, <3>2, <3>3
    <2>13. ASSUME NEW s, Apart(s, f) PROVE Apart(s, b)
      BY <2>7, <2>13 DEF Apart
    <2>14. ASSUME NEW s, Apart(s, f), Apart(s, c) PROVE Apart(s, e) /\ Apart(e, s)
      BY <2>7, <2>14 DEF Apart
    <2>15. RowsExclusive'
      <3>1. \A x \in Channels : Distinct(rows'[x])
        BY <2>4, <2>10 DEF MemInv, RowsExclusive
      <3>2. \A u \in Tensors : Distinct(tensor'[u].rows)
        BY <2>5, <2>11 DEF MemInv, RowsExclusive
      <3>3. ASSUME NEW u \in Tensors PROVE Apart(tensor'[u].rows, rows'[Chan(u)])
        <4>1. CASE u = t BY <2>4, <2>5, <2>12, <4>1
        <4>2. CASE u # t /\ Chan(u) = ch
          <5>1. Apart(tensor[u].rows, f) BY <4>2 DEF MemInv, RowsExclusive, f
          <5>2. QED BY <2>4, <2>5, <2>13, <4>2, <5>1
        <4>3. CASE u # t /\ Chan(u) # ch
          BY <2>4, <2>5, <4>3, ChanType DEF MemInv, RowsExclusive
        <4>4. QED BY <4>1, <4>2, <4>3
      <3>4. ASSUME NEW u \in Tensors, u # t, Chan(u) = ch
            PROVE Apart(tensor'[u].rows, tensor'[t].rows) /\ Apart(tensor'[t].rows, tensor'[u].rows)
        <4>1. Apart(tensor[u].rows, f) /\ Apart(tensor[u].rows, c)
          BY <3>4 DEF MemInv, RowsExclusive, f, c
        <4>2. QED BY <2>5, <2>14, <3>4, <4>1
      <3>5. ASSUME NEW u \in Tensors, NEW w \in Tensors, u # w, Chan(u) = Chan(w)
            PROVE Apart(tensor'[u].rows, tensor'[w].rows)
        <4>1. CASE u # t /\ w # t BY <2>5, <3>5, <4>1 DEF MemInv, RowsExclusive
        <4>2. CASE u = t BY <3>4, <3>5, <4>2
        <4>3. CASE w = t BY <3>4, <3>5, <4>3
        <4>4. QED BY <4>1, <4>2, <4>3
      <3>6. QED BY <3>1, <3>2, <3>3, <3>5 DEF RowsExclusive, Chan
    <2>16. RegionsDisjoint'
      <3>1. \A k \in DOMAIN f : RowOK(f[k]) BY <1>1 DEF MemInv, RegionsDisjoint, f
      <3>2. \A k \in DOMAIN c : RowOK(c[k]) BY DEF MemInv, RegionsDisjoint, c
      <3>3. \A r : RowOK(r)' <=> RowOK(r) BY DEF RowOK, act_limit
      <3>4. (\A k \in DOMAIN b : RowOK(b[k])) /\ (\A k \in DOMAIN e : RowOK(e[k]))
        BY <2>7, <3>1, <3>2
      <3>5. \A x \in Channels : \A k \in DOMAIN rows'[x] : RowOK(rows'[x][k])
        BY <2>4, <3>4 DEF MemInv, RegionsDisjoint
      <3>6. \A u \in Tensors : \A k \in DOMAIN tensor'[u].rows : RowOK(tensor'[u].rows[k])
        BY <2>5, <3>4 DEF MemInv, RegionsDisjoint
      <3>7. QED BY <3>3, <3>5, <3>6 DEF MemInv, RegionsDisjoint, act_limit, RowOK
    <2>17. TypeOK' BY <1>4, <2>4, <2>5 DEF MemInv, TypeOK
    <2>18. Tops' BY DEF MemInv, Tops
    <2>19. QED BY <2>15, <2>16, <2>17, <2>18 DEF MemInv
  <1>5. QED BY <1>3, <1>4 DEF allocate, left

\* The number of rows is a natural number.
LEMMA CeilType == ASSUME NEW a \in Nat, NEW n \in Nat \ {0} PROVE ceil(a, n) \in Nat
  <1>1. a + n - 1 \in Nat OBVIOUS
  <1>2. QED BY <1>1, DivMod DEF ceil

LEMMA RowsType == ASSUME NEW kind \in Kinds, NEW len \in Nat
  PROVE num_rows_per_alloc(kind) \in Nat /\ num_required_alloc(kind, len) \in Nat
  <1>1. num_rows_per_alloc(kind) \in Nat
    BY MemoryAssumption, CeilType DEF num_rows_per_alloc
  <1>2. ceil(len, tokens_per_alloc(kind)) \in Nat
    BY MemoryAssumption, CeilType DEF tokens_per_alloc
  <1>3. QED BY <1>1, <1>2 DEF num_required_alloc

LEMMA NewTensorStep == ASSUME NEW t \in Tensors, MemInv, NewTensor(t) PROVE MemInv'
  <1>1. t[1] \in DOMAIN Requests /\ t[2] \in Kinds BY DEF Tensors
  <1>2. Requests \in Seq(Request) BY MemoryAssumption
  <1>3. Requests[t[1]].seq_len \in Nat
    <2>1. Requests[t[1]] \in Request BY <1>1, <1>2
    <2>2. QED BY <2>1 DEF Request
  <1>4. num_required_alloc(t[2], Requests[t[1]].seq_len) \in Nat BY <1>1, <1>3, RowsType
  <1>5. QED BY <1>3, <1>4, AllocateStep DEF NewTensor

LEMMA AddTokenStep == ASSUME NEW t \in Tensors, MemInv, add_token(t) PROVE MemInv'
  <1> DEFINE len == tensor[t].seq_len + 1
  <1>1. t[2] \in Kinds BY DEF Tensors
  <1>2. len \in Nat BY DEF MemInv, TypeOK
  <1>3. num_rows_per_alloc(t[2]) \in Nat BY <1>1, RowsType
  <1>4. CASE tensor' = [tensor EXCEPT ![t].seq_len = len] /\ UNCHANGED <<rows, aborted>>
    <2>1. tensor' \in [Tensors -> [rows : Seq(Nat), seq_len : Nat]]
          /\ \A u \in Tensors : tensor'[u].rows = tensor[u].rows
      BY <1>2, <1>4 DEF MemInv, TypeOK
    <2>2. TypeOK' BY <1>4, <2>1 DEF MemInv, TypeOK, add_token
    <2>3. Tops' BY <1>4, <2>1 DEF MemInv, Tops, add_token
    <2>4. RegionsDisjoint'
      BY <1>4, <2>1 DEF MemInv, RegionsDisjoint, RowOK, act_limit, add_token
    <2>5. RowsExclusive' BY <1>4, <2>1 DEF MemInv, RowsExclusive
    <2>6. QED BY <2>2, <2>3, <2>4, <2>5 DEF MemInv
  <1>5. CASE allocate(t, num_rows_per_alloc(t[2]), len)
    BY <1>2, <1>3, <1>5, AllocateStep DEF add_token
  <1>6. QED BY <1>4, <1>5 DEF add_token

\* Entries of the layout without PIM go to a tensor, which leaves the rest alone.
LEMMA EntriesStep ==
  ASSUME NEW t \in Tensors, NEW n \in Nat, NEW len \in Nat, MemInv, allocate_entries(t, n, len),
         UNCHANGED <<wgt, wgt_top, act, act_base, act_top, rows, tensor, done, mode, max_active_reqs, ready>>
  PROVE MemInv'
  <1> DEFINE part(h) == SubSeq(kv_cache, (h - 1) * n + 1, h * n)
             all == [h \in Heads |-> kv[t].bases[h] \o part(h)]
  <1>1. kv_cache \in Seq(Nat) /\ kv \in [Tensors -> [bases : [Heads -> Seq(Nat)], seq_len : Nat]]
    BY DEF MemInv, TypeOK
  <1>2. NumHeads \in Nat BY NpuLayoutAssumption
  <1>3. kv_cache' \in Seq(Nat) /\ kv' \in [Tensors -> [bases : [Heads -> Seq(Nat)], seq_len : Nat]]
        /\ aborted' \in BOOLEAN
    <2>1. CASE UNCHANGED <<kv, kv_cache>> /\ aborted' = TRUE BY <1>1, <2>1
    <2>2. CASE /\ NumHeads * n <= Len(kv_cache)
               /\ kv' = [kv EXCEPT ![t] = [bases |-> all, seq_len |-> len]]
               /\ kv_cache' = SubSeq(kv_cache, NumHeads * n + 1, Len(kv_cache))
               /\ UNCHANGED aborted
      <3>1. NumHeads * n \in Nat BY <1>2
      <3>2. kv_cache' \in Seq(Nat) BY <1>1, <2>2, <3>1, Taken
      <3>3. ASSUME NEW h \in Heads PROVE part(h) \in Seq(Nat)
        <4>1. h \in Nat /\ h - 1 \in Nat /\ NumHeads - h \in Nat BY <1>2 DEF Heads
        <4>2. (h - 1) * n \in Nat /\ h * n \in Nat /\ (NumHeads - h) * n \in Nat BY <4>1
        <4>3. NumHeads * n = h * n + (NumHeads - h) * n BY <1>2, <4>1
        <4>4. h * n <= Len(kv_cache) BY <2>2, <3>1, <4>2, <4>3, <1>1
        <4>5. QED BY <1>1, <4>2, <4>4
      <3>4. \A h \in Heads : kv[t].bases[h] \in Seq(Nat) BY <1>1
      <3> HIDE DEF part
      <3>5. all \in [Heads -> Seq(Nat)] BY <3>3, <3>4, Concat
      <3> HIDE DEF all
      <3>6. kv' \in [Tensors -> [bases : [Heads -> Seq(Nat)], seq_len : Nat]] BY <1>1, <2>2, <3>5
      <3>7. QED BY <2>2, <3>2, <3>6 DEF MemInv, TypeOK
    <2>3. QED BY <2>1, <2>2 DEF allocate_entries
  <1>4. TypeOK' BY <1>3 DEF MemInv, TypeOK
  <1>5. Tops' BY DEF MemInv, Tops
  <1>6. RegionsDisjoint' BY DEF MemInv, RegionsDisjoint, RowOK, act_limit
  <1>7. QED BY <1>4, <1>5, <1>6, SameRows DEF MemInv

LEMMA NewTensorKVStep == ASSUME NEW t \in Tensors, MemInv, NewTensorKV(t) PROVE MemInv'
  <1>1. t[1] \in DOMAIN Requests BY DEF Tensors
  <1>2. Requests \in Seq(Request) /\ EntrySize \in Nat \ {0}
    BY MemoryAssumption, NpuLayoutAssumption
  <1>3. Requests[t[1]].seq_len \in Nat
    <2>1. Requests[t[1]] \in Request BY <1>1, <1>2
    <2>2. QED BY <2>1 DEF Request
  <1>4. ceil(Requests[t[1]].seq_len, EntrySize) \in Nat BY <1>2, <1>3, CeilType
  <1>5. QED BY <1>3, <1>4, EntriesStep DEF NewTensorKV

LEMMA AddTokenKVStep == ASSUME NEW t \in Tensors, MemInv, AddTokenKV(t) PROVE MemInv'
  <1>1. kv[t].seq_len + 1 \in Nat BY DEF MemInv, TypeOK
  <1>2. entries_for_token(t) \in Nat BY DEF entries_for_token
  <1>3. QED BY <1>1, <1>2, EntriesStep DEF AddTokenKV

LEMMA CompleteStep == ASSUME NEW r \in DOMAIN Requests, MemInv, Complete(r) PROVE MemInv'
  <1>1. TypeOK' BY DEF MemInv, TypeOK, Complete
  <1>2. Tops' BY DEF MemInv, Tops, Complete
  <1>3. RegionsDisjoint' BY DEF MemInv, RegionsDisjoint, RowOK, act_limit, Complete
  <1>4. QED BY <1>1, <1>2, <1>3, SameRows DEF MemInv, Complete

LEMMA StutterStep == ASSUME MemInv, UNCHANGED vars PROVE MemInv'
  <1>1. TypeOK' BY DEF MemInv, TypeOK, vars
  <1>2. Tops' BY DEF MemInv, Tops, vars
  <1>3. RegionsDisjoint' BY DEF MemInv, RegionsDisjoint, RowOK, act_limit, vars
  <1>4. QED BY <1>1, <1>2, <1>3, SameRows DEF MemInv, vars

LEMMA MemStep == MemInv /\ [Next]_vars => MemInv'
  BY CreateWeightStep, InitAllocatorsStep, AllocateActivationStep, NewTensorStep, AddTokenStep,
     NewTensorKVStep, AddTokenKVStep, CompleteStep, StutterStep DEF Next

\* The weights, the activations and the rows of the caches lie apart from one
\* another, however many there are and whatever their sizes (the layout that
\* main_lib makes, and the tests of ActAlloc::allocate).
THEOREM Apartness == Spec => []RegionsDisjoint
  <1>1. MemInv => RegionsDisjoint BY DEF MemInv
  <1>2. QED BY <1>1, MemInit, MemStep, PTL DEF Spec

\* No row of a channel is free and in use, or in use twice, for every set of
\* requests and any number of added tokens (KVCacheAlloc::allocate).
THEOREM Exclusion == Spec => []RowsExclusive
  <1>1. MemInv => RowsExclusive BY DEF MemInv
  <1>2. QED BY <1>1, MemInit, MemStep, PTL DEF Spec

-----------------------------------------------------------------------------
(* The entries of the layout without PIM.                                   *)

\* An entry of the region of the caches, which lies inside the HBM.
Entry(e) == /\ kv_base + kv_cache_size < HbmSize
            /\ \E j \in 0..(num_entries - 1) : e = kv_base + j * entry_bytes

NothingYet == ~ready => kv_cache = <<>> /\ \A t \in Tensors, h \in Heads : kv[t].bases[h] = <<>>
EntriesOK ==
  /\ \A k \in DOMAIN kv_cache : Entry(kv_cache[k])
  /\ \A t \in Tensors, h \in Heads : \A k \in DOMAIN kv[t].bases[h] : Entry(kv[t].bases[h][k])

\* An entry is free once or belongs to one head of one tensor once.
EntriesExclusive ==
  /\ Distinct(kv_cache)
  /\ \A t \in Tensors, h \in Heads : Distinct(kv[t].bases[h]) /\ Apart(kv[t].bases[h], kv_cache)
  /\ \A t, u \in Tensors, h, g \in Heads :
       t # u \/ h # g => Apart(kv[t].bases[h], kv[u].bases[g])

\* The heads of a tensor have as many entries as each other, and enough.
EntriesEnough == \A t \in Tensors, h \in Heads :
  /\ Len(kv[t].bases[h]) = Len(kv[t].bases[1])
  /\ Len(kv[t].bases[h]) * EntrySize >= kv[t].seq_len

KvInv == NothingYet /\ EntriesOK /\ EntriesExclusive /\ EntriesEnough

LEMMA NpuNumbers == ASSUME TypeOK
  PROVE /\ EntrySize \in Nat /\ EntrySize > 0 /\ HeadDim * Precision \in Nat
        /\ HeadDim * Precision > 0 /\ HeadDim \in Nat /\ Precision \in Nat
        /\ WordSize \in Nat /\ WordSize > 0 /\ HbmSize \in Nat
        /\ NumHeads \in Nat /\ NumHeads > 0 /\ num_tokens \in Nat
        /\ entry_bytes \in Nat /\ entry_bytes > 0 /\ entry_bytes = EntrySize * (HeadDim * Precision)
        /\ num_entries \in Nat /\ kv_cache_size \in Nat
        /\ act_limit \in Nat /\ kv_base \in Nat /\ kv_base > act_limit
  <1>1. /\ {MaxSeqLen, NumHeads, HeadDim, Precision, EntrySize, HbmSize, WordSize} \subseteq Nat \ {0}
        /\ max_active_reqs \in Nat
    BY NpuLayoutAssumption DEF TypeOK
  <1>2. HeadDim * Precision \in Nat /\ HeadDim * Precision > 0 BY <1>1
  <1>3. max_active_reqs * MaxSeqLen \in Nat BY <1>1
  <1>4. num_tokens \in Nat BY <1>1, <1>3 DEF num_tokens
  <1>5. entry_bytes = EntrySize * (HeadDim * Precision) BY <1>1 DEF entry_bytes
  <1>6. entry_bytes \in Nat /\ entry_bytes > 0
    <2> DEFINE b == HeadDim * Precision
    <2>1. b \in Nat /\ b > 0 BY <1>2
    <2> HIDE DEF b
    <2>2. EntrySize * b \in Nat /\ EntrySize * b > 0 BY <1>1, <2>1
    <2> QED BY <1>5, <2>2 DEF b
  <1>7. num_entries \in Nat
    <2>1. num_tokens % WordSize \in Nat BY <1>1, <1>4, DivMod
    <2> QED BY <1>1, <2>1, DivMod DEF num_entries
  <1>8. kv_cache_size \in Nat
    <2>1. num_tokens * HeadDim \in Nat BY <1>1, <1>4
    <2>2. num_tokens * HeadDim * Precision \in Nat BY <1>1, <2>1
    <2> QED BY <1>1, <2>2, DivMod DEF kv_cache_size
  <1>9. act_limit \in Nat BY MemoryAssumption DEF TypeOK, act_limit
  <1>10. kv_base \in Nat /\ kv_base > act_limit BY <1>9, NextAligned DEF kv_base
  <1> QED BY <1>1, <1>2, <1>4, <1>5, <1>6, <1>7, <1>8, <1>9, <1>10

LEMMA KvInit == Init => KvInv
  <1> SUFFICES ASSUME Init PROVE KvInv OBVIOUS
  <1>1. NumHeads \in Nat /\ NumHeads > 0 /\ EntrySize \in Nat BY NpuLayoutAssumption
  <1>2. \A t \in Tensors : kv[t].seq_len = 0 /\ \A h \in Heads : kv[t].bases[h] = <<>> BY DEF Init
  <1>3. 1 \in Heads BY <1>1 DEF Heads
  <1>4. kv_cache = <<>> BY DEF Init
  <1>5. NothingYet BY <1>2, <1>4 DEF NothingYet
  <1>6. EntriesOK BY <1>2, <1>4 DEF EntriesOK
  <1>7. EntriesExclusive BY <1>2, <1>4 DEF EntriesExclusive, Distinct, Apart
  <1>8. EntriesEnough BY <1>1, <1>2, <1>3 DEF EntriesEnough
  <1> QED BY <1>5, <1>6, <1>7, <1>8 DEF KvInv

LEMMA SameEntries == ASSUME KvInv, UNCHANGED <<kv, kv_cache, act_base, max_active_reqs, ready>>
  PROVE KvInv'
  <1>1. NothingYet' BY DEF KvInv, NothingYet
  <1>2. \A e : Entry(e)' <=> Entry(e)
    BY DEF Entry, kv_base, kv_cache_size, num_entries, num_tokens, act_limit
  <1>3. EntriesOK' BY <1>2 DEF KvInv, EntriesOK
  <1>4. EntriesExclusive' BY DEF KvInv, EntriesExclusive
  <1>5. EntriesEnough' BY DEF KvInv, EntriesEnough
  <1> QED BY <1>1, <1>3, <1>4, <1>5 DEF KvInv

\* The entries that KVCacheAlloc::init_npu_layout makes.
LEMMA KvInitAllocators == ASSUME MemInv, KvInv, InitAllocators PROVE KvInv'
  <1>1. TypeOK' BY InitAllocatorsStep DEF MemInv
  <1>2. /\ num_entries' \in Nat /\ entry_bytes \in Nat /\ entry_bytes > 0 /\ kv_base' \in Nat
    <2>1. (num_entries \in Nat)' /\ (entry_bytes \in Nat /\ entry_bytes > 0)' /\ (kv_base \in Nat)'
      BY <1>1, NpuNumbers, PTL
    <2> QED BY <2>1 DEF entry_bytes
  <1>3. /\ \A t \in Tensors, h \in Heads : kv[t].bases[h] = <<>>
        /\ kv' = kv /\ ready' = TRUE /\ max_active_reqs' = max_active_reqs
        /\ kv_cache = <<>>
    BY DEF InitAllocators, KvInv, NothingYet
  <1>4. NothingYet' BY <1>3 DEF NothingYet
  <1>5. EntriesEnough' BY <1>3 DEF KvInv, EntriesEnough
  <1>6. CASE kv_cache' = kv_cache
    <2>1. kv_cache' = <<>> BY <1>3, <1>6
    <2>2. EntriesOK' BY <1>3, <2>1 DEF EntriesOK
    <2>3. EntriesExclusive' BY <1>3, <2>1 DEF EntriesExclusive, Distinct, Apart
    <2> QED BY <1>4, <1>5, <2>2, <2>3 DEF KvInv
  <1>7. CASE kv_cache' = FreeEntries(kv_base') /\ kv_base' + kv_cache_size < HbmSize
    <2> DEFINE N == num_entries'
               b == kv_base'
               w == entry_bytes
    <2>1. N = num_entries /\ kv_cache_size' = kv_cache_size
      BY <1>3 DEF num_entries, kv_cache_size, num_tokens
    <2>2. DOMAIN kv_cache' = 1..N /\ \A k \in 1..N : kv_cache'[k] = b + (k - 1) * w
      BY <1>7, <2>1 DEF FreeEntries
    <2>3. N \in Nat /\ w \in Nat /\ w > 0 /\ b \in Nat BY <1>2
    <2> HIDE DEF N, b, w
    <2>4. ASSUME NEW k \in 1..N, NEW l \in 1..N, k < l PROVE kv_cache'[k] # kv_cache'[l]
      <3>1. l - k - 1 \in Nat /\ k - 1 \in Nat BY <2>3, <2>4
      <3>2. (l - k - 1) * w \in Nat /\ (k - 1) * w \in Nat BY <2>3, <3>1
      <3>3. (l - 1) * w = (k - 1) * w + (l - k - 1) * w + w BY <2>3, <3>1
      <3> DEFINE x == (k - 1) * w
                 y == (l - 1) * w
      <3>4. x # y /\ x \in Nat /\ y \in Nat BY <2>3, <3>2, <3>3
      <3>5. kv_cache'[k] = b + x /\ kv_cache'[l] = b + y BY <2>2
      <3> HIDE DEF x, y
      <3>6. b + x # b + y BY <2>3, <3>4
      <3> QED BY <3>5, <3>6
    <2>5. Distinct(kv_cache')
      <3>1. \A i, j \in 1..N : i < j \/ j < i \/ i = j BY <2>3
      <3> QED BY <2>2, <2>4, <3>1 DEF Distinct
    <2>6. ASSUME NEW k \in 1..N PROVE Entry(kv_cache[k])'
      <3>1. k - 1 \in 0..(N - 1) BY <2>3
      <3>2. kv_cache'[k] = b + (k - 1) * w BY <2>2
      <3>3. (\E j \in 0..(N - 1) : kv_cache'[k] = b + j * w) BY <3>1, <3>2
      <3>4. entry_bytes' = w BY DEF entry_bytes, w
      <3> QED BY <1>7, <2>1, <3>3, <3>4 DEF Entry, N, b
    <2>7. EntriesOK' BY <1>3, <2>2, <2>6 DEF EntriesOK
    <2>8. EntriesExclusive' BY <1>3, <2>5 DEF EntriesExclusive, Distinct, Apart
    <2> QED BY <1>4, <1>5, <2>7, <2>8 DEF KvInv
  <1> QED BY <1>6, <1>7 DEF InitAllocators

\* A head gets the h-th of NumHeads parts of n free entries each.
LEMMA Part == ASSUME NEW h \in Nat, NEW m \in Nat, NEW n \in Nat, NEW L \in Nat, 1 <= h, h <= m, m * n <= L
  PROVE /\ (h - 1) * n \in Nat /\ h * n = (h - 1) * n + n /\ h * n \in Nat
        /\ h * n <= m * n /\ m * n \in Nat /\ h * n <= L
  <1>1. h - 1 \in Nat /\ m - h \in Nat OBVIOUS
  <1>2. (h - 1) * n \in Nat /\ (m - h) * n \in Nat /\ h * n \in Nat /\ m * n \in Nat BY <1>1
  <1>3. h * n = (h - 1) * n + n BY <1>1
  <1>4. m * n = h * n + (m - h) * n BY <1>1
  <1> QED BY <1>2, <1>3, <1>4

LEMMA PartsApart == ASSUME NEW h \in Nat, NEW g \in Nat, NEW n \in Nat, 1 <= h, h < g
  PROVE h * n <= (g - 1) * n
  <1>1. g - 1 - h \in Nat BY 1 <= h, h < g
  <1>2. (g - 1 - h) * n \in Nat /\ h * n \in Nat BY <1>1
  <1>3. (g - 1) * n = h * n + (g - 1 - h) * n BY <1>1
  <1> QED BY <1>2, <1>3

\* What c becomes when part of the free list f, above lo and up to hi, is appended.
Extended(e, c, f, lo, hi) == \A i \in DOMAIN e :
  \/ i \in DOMAIN c /\ e[i] = c[i]
  \/ /\ i \notin DOMAIN c /\ i - Len(c) + lo \in (lo + 1)..hi
     /\ i - Len(c) + lo \in DOMAIN f /\ e[i] = f[i - Len(c) + lo]

LEMMA AppendPart ==
  ASSUME NEW c \in Seq(Nat), NEW f \in Seq(Nat), NEW lo \in Nat, NEW n \in Nat, lo + n <= Len(f)
  PROVE  LET e == c \o SubSeq(f, lo + 1, lo + n)
         IN  e \in Seq(Nat) /\ Len(e) = Len(c) + n /\ Extended(e, c, f, lo, lo + n)
  <1> DEFINE a == SubSeq(f, lo + 1, lo + n)
             e == c \o a
  <1>1. Len(f) \in Nat /\ DOMAIN f = 1..Len(f) /\ Len(c) \in Nat /\ DOMAIN c = 1..Len(c) OBVIOUS
  <1>2. a \in Seq(Nat) /\ Len(a) = n /\ \A i \in 1..n : a[i] = f[i + lo]
    <2>1. a \in Seq(Nat) BY <1>1
    <2>2. Len(a) = n BY <1>1
    <2>3. \A i \in 1..n : a[i] = f[i + lo] BY <1>1
    <2> QED BY <2>1, <2>2, <2>3
  <1> HIDE DEF a
  <1>3. /\ e \in Seq(Nat) /\ Len(e) = Len(c) + n /\ DOMAIN e = 1..(Len(c) + n)
        /\ \A i \in 1..Len(c) : e[i] = c[i]
        /\ \A i \in (Len(c) + 1)..(Len(c) + n) : e[i] = a[i - Len(c)]
    <2>1. /\ e \in Seq(Nat) /\ Len(e) = Len(c) + Len(a)
          /\ \A i \in 1..Len(c) : e[i] = c[i]
          /\ \A i \in (Len(c) + 1)..(Len(c) + Len(a)) : e[i] = a[i - Len(c)]
      BY <1>2, Concat
    <2> HIDE DEF e
    <2> QED BY <1>2, <2>1
  <1> HIDE DEF e
  <1>4. ASSUME NEW i \in DOMAIN e
        PROVE  \/ i \in DOMAIN c /\ e[i] = c[i]
               \/ /\ i \notin DOMAIN c /\ i - Len(c) + lo \in (lo + 1)..(lo + n)
                  /\ i - Len(c) + lo \in DOMAIN f /\ e[i] = f[i - Len(c) + lo]
    <2>1. CASE i \in 1..Len(c) BY <1>1, <1>3, <2>1
    <2>2. CASE i \in (Len(c) + 1)..(Len(c) + n)
      <3>1. i - Len(c) \in 1..n /\ i \notin 1..Len(c) BY <1>1, <2>2
      <3>2. e[i] = f[i - Len(c) + lo] BY <1>2, <1>3, <2>2, <3>1
      <3>3. i - Len(c) + lo \in (lo + 1)..(lo + n) /\ i - Len(c) + lo \in 1..Len(f) BY <1>1, <3>1
      <3> QED BY <1>1, <3>1, <3>2, <3>3
    <2> QED BY <1>1, <1>3, <2>1, <2>2
  <1>5. Extended(e, c, f, lo, lo + n) BY <1>4 DEF Extended
  <1> QED BY <1>3, <1>5 DEF e, a

LEMMA ExtendedFacts ==
  ASSUME NEW c \in Seq(Nat), NEW f \in Seq(Nat), NEW e \in Seq(Nat), NEW lo \in Nat, NEW hi \in Nat,
         Extended(e, c, f, lo, hi), Distinct(c), Distinct(f), Apart(c, f)
  PROVE  /\ Distinct(e)
         /\ \A s : Apart(s, f) /\ Apart(s, c) => Apart(s, e) /\ Apart(e, s)
         /\ \A d \in Seq(Nat), x \in Seq(Nat), l \in Nat, m \in Nat :
              Extended(x, d, f, l, m) /\ hi <= l /\ Apart(d, f) /\ Apart(c, d)
              => Apart(e, x) /\ Apart(x, e)
         /\ \A b : (\A i \in DOMAIN b : \E k \in DOMAIN f : b[i] = f[k] /\ k > hi) => Apart(e, b)
  <1>1. DOMAIN e \subseteq Nat /\ DOMAIN f \subseteq Nat /\ Len(c) \in Nat OBVIOUS
  <1>2. ASSUME NEW i \in DOMAIN e, NEW j \in DOMAIN e, e[i] = e[j] PROVE i = j
    <2>1. i \in Nat /\ j \in Nat BY <1>1
    <2>2. CASE i \in DOMAIN c /\ j \in DOMAIN c BY <1>2, <2>2 DEF Extended, Distinct
    <2>3. CASE i \in DOMAIN c /\ j \notin DOMAIN c BY <1>2, <2>3 DEF Extended, Apart
    <2>4. CASE i \notin DOMAIN c /\ j \in DOMAIN c BY <1>2, <2>4 DEF Extended, Apart
    <2>5. CASE i \notin DOMAIN c /\ j \notin DOMAIN c
      <3>1. i - Len(c) + lo = j - Len(c) + lo BY <1>2, <2>5 DEF Extended, Distinct
      <3> QED BY <1>1, <2>1, <3>1
    <2> QED BY <2>2, <2>3, <2>4, <2>5
  <1>3. ASSUME NEW s, Apart(s, f), Apart(s, c) PROVE Apart(s, e) /\ Apart(e, s)
    BY <1>3 DEF Extended, Apart
  <1>4. ASSUME NEW d \in Seq(Nat), NEW x \in Seq(Nat), NEW l \in Nat, NEW m \in Nat,
               Extended(x, d, f, l, m), hi <= l, Apart(d, f), Apart(c, d)
        PROVE  Apart(e, x) /\ Apart(x, e)
    <2>1. ASSUME NEW i \in DOMAIN e, NEW j \in DOMAIN x PROVE e[i] # x[j]
      <3>1. \/ i \in DOMAIN c /\ e[i] = c[i]
            \/ \E k \in DOMAIN f : e[i] = f[k] /\ k \in (lo + 1)..hi
        BY DEF Extended
      <3>2. \/ j \in DOMAIN d /\ x[j] = d[j]
            \/ \E k \in DOMAIN f : x[j] = f[k] /\ k \in (l + 1)..m
        BY <1>4 DEF Extended
      <3>3. CASE i \in DOMAIN c /\ e[i] = c[i] BY <1>4, <3>2, <3>3 DEF Apart
      <3>4. CASE j \in DOMAIN d /\ x[j] = d[j] BY <1>4, <3>1, <3>4 DEF Apart
      <3>5. ASSUME NEW k \in DOMAIN f, e[i] = f[k], k \in (lo + 1)..hi,
                   NEW n \in DOMAIN f, x[j] = f[n], n \in (l + 1)..m
            PROVE  e[i] # x[j]
        <4>1. k # n BY <1>4, <3>5
        <4> QED BY <3>5, <4>1 DEF Distinct
      <3> QED BY <3>1, <3>2, <3>3, <3>4, <3>5
    <2> QED BY <2>1 DEF Apart
  <1>5. ASSUME NEW b, \A i \in DOMAIN b : \E k \in DOMAIN f : b[i] = f[k] /\ k > hi
        PROVE  Apart(e, b)
    <2>1. ASSUME NEW i \in DOMAIN e, NEW j \in DOMAIN b PROVE e[i] # b[j]
      <3>1. PICK k \in DOMAIN f : b[j] = f[k] /\ k > hi BY <1>5
      <3>2. CASE i \in DOMAIN c /\ e[i] = c[i] BY <3>1, <3>2 DEF Apart
      <3>3. ASSUME NEW n \in DOMAIN f, e[i] = f[n], n \in (lo + 1)..hi PROVE e[i] # b[j]
        <4>1. k # n BY <1>1, <3>1, <3>3
        <4> QED BY <3>1, <3>3, <4>1 DEF Distinct
      <3> QED BY <3>2, <3>3 DEF Extended
    <2> QED BY <2>1 DEF Apart
  <1> QED BY <1>2, <1>3, <1>4, <1>5 DEF Distinct

\* KVCacheAlloc::allocate for every head of a tensor.
LEMMA KvAllocate ==
  ASSUME NEW t \in Tensors, NEW n \in Nat, NEW len \in Nat, MemInv, KvInv, ready,
         allocate_entries(t, n, len), UNCHANGED <<act_base, max_active_reqs, ready>>,
         (Len(kv[t].bases[1]) + n) * EntrySize >= len
  PROVE  KvInv'
  <1> DEFINE f == kv_cache
             H == NumHeads
             b == SubSeq(f, H * n + 1, Len(f))
             c(h) == kv[t].bases[h]
             e(h) == c(h) \o SubSeq(f, (h - 1) * n + 1, h * n)
             all == [h \in Heads |-> e(h)]
  <1>1. TypeOK /\ EntriesOK /\ EntriesExclusive /\ EntriesEnough BY DEF MemInv, KvInv
  <1>2. f \in Seq(Nat) /\ kv \in [Tensors -> [bases : [Heads -> Seq(Nat)], seq_len : Nat]]
    BY <1>1 DEF TypeOK
  <1>3. H \in Nat /\ H > 0 /\ Heads = 1..H /\ EntrySize \in Nat BY <1>1, NpuNumbers DEF Heads
  <1>4. Len(f) \in Nat /\ DOMAIN f = 1..Len(f) BY <1>2
  <1>5. CASE aborted' = TRUE /\ UNCHANGED <<kv, kv_cache>> BY <1>5, SameEntries
  <1>6. CASE /\ H * n <= Len(f)
             /\ kv' = [kv EXCEPT ![t] = [bases |-> all, seq_len |-> len]]
             /\ kv_cache' = b
    <2>1. ASSUME NEW h \in Heads
          PROVE  /\ e(h) \in Seq(Nat) /\ Len(e(h)) = Len(c(h)) + n
                 /\ Extended(e(h), c(h), f, (h - 1) * n, h * n)
                 /\ (h - 1) * n \in Nat /\ h * n \in Nat /\ h * n <= H * n /\ h \in Nat /\ 1 <= h
      <3>1. h \in Nat /\ 1 <= h /\ h <= H BY <1>3
      <3>2. /\ (h - 1) * n \in Nat /\ h * n = (h - 1) * n + n /\ h * n \in Nat
            /\ h * n <= H * n /\ h * n <= Len(f)
        BY <1>3, <1>4, <1>6, <3>1, Part
      <3>3. c(h) \in Seq(Nat) BY <1>2
      <3> DEFINE lo == (h - 1) * n
      <3>4. lo \in Nat /\ h * n = lo + n /\ lo + n <= Len(f) BY <3>2
      <3> HIDE DEF lo, f, c
      <3>5. LET x == c(h) \o SubSeq(f, lo + 1, lo + n)
            IN  x \in Seq(Nat) /\ Len(x) = Len(c(h)) + n /\ Extended(x, c(h), f, lo, lo + n)
        BY <1>2, <3>3, <3>4, AppendPart DEF f
      <3>6. e(h) = c(h) \o SubSeq(f, lo + 1, lo + n) BY <3>4 DEF lo
      <3> HIDE DEF e
      <3>7. e(h) \in Seq(Nat) /\ Len(e(h)) = Len(c(h)) + n /\ Extended(e(h), c(h), f, lo, h * n)
        BY <3>4, <3>5, <3>6
      <3> QED BY <3>1, <3>2, <3>7 DEF lo
    <2>2. /\ Distinct(f) /\ \A h \in Heads : Distinct(c(h)) /\ Apart(c(h), f)
          /\ \A h, g \in Heads : h # g => Apart(c(h), c(g))
      BY <1>1 DEF EntriesExclusive
    <2>3. H * n \in Nat BY <1>3
    <2>4. /\ b \in Seq(Nat) /\ DOMAIN b = 1..(Len(f) - H * n)
          /\ \A i \in DOMAIN b : i + H * n \in DOMAIN f /\ b[i] = f[i + H * n] /\ i + H * n > H * n
      <3> DEFINE m == H * n
      <3>1. m \in Nat /\ m <= Len(f) /\ f \in Seq(Nat) BY <1>2, <1>6, <2>3
      <3> HIDE DEF m, f
      <3>2. LET z == SubSeq(f, m + 1, Len(f))
            IN  z \in Seq(Nat) /\ Len(z) = Len(f) - m /\ \A i \in 1..(Len(f) - m) : z[i] = f[i + m]
        BY <3>1, Taken
      <3>3. b = SubSeq(f, m + 1, Len(f)) BY DEF m
      <3> HIDE DEF b
      <3>4. b \in Seq(Nat) /\ Len(b) = Len(f) - m /\ \A i \in 1..(Len(f) - m) : b[i] = f[i + m]
        BY <3>2, <3>3
      <3>5. DOMAIN b = 1..(Len(f) - m) BY <3>4
      <3>6. \A i \in 1..(Len(f) - m) : i + m \in 1..Len(f) /\ i + m > m BY <1>4, <3>1 DEF f
      <3> QED BY <1>4, <3>4, <3>5, <3>6 DEF m, f
    <2> HIDE DEF b, c, e, f
    <2>5. /\ \A h \in Heads : kv'[t].bases[h] = e(h)
          /\ kv'[t].seq_len = len
          /\ \A u \in Tensors : u # t => kv'[u] = kv[u]
          /\ kv' \in [Tensors -> [bases : [Heads -> Seq(Nat)], seq_len : Nat]]
      <3>1. all \in [Heads -> Seq(Nat)] /\ \A h \in Heads : all[h] = e(h) BY <2>1
      <3> HIDE DEF all
      <3> QED BY <1>2, <1>6, <3>1
    <2>6. /\ \A h \in Heads : c(h) \in Seq(Nat) /\ kv[t].bases[h] = c(h)
          /\ f \in Seq(Nat) /\ kv_cache = f /\ kv_cache' = b
      BY <1>2, <1>6 DEF c, f
    <2>7. ASSUME NEW h \in Heads
          PROVE  /\ Distinct(e(h)) /\ Apart(e(h), b)
                 /\ \A s : Apart(s, f) /\ Apart(s, c(h)) => Apart(s, e(h)) /\ Apart(e(h), s)
                 /\ \A g \in Heads : h < g => Apart(e(h), e(g)) /\ Apart(e(g), e(h))
      <3>1. /\ c(h) \in Seq(Nat) /\ e(h) \in Seq(Nat) /\ (h - 1) * n \in Nat /\ h * n \in Nat
            /\ Extended(e(h), c(h), f, (h - 1) * n, h * n)
            /\ Distinct(c(h)) /\ Distinct(f) /\ Apart(c(h), f) /\ f \in Seq(Nat)
        BY <2>1, <2>2, <2>6
      <3>2. \A i \in DOMAIN b : \E k \in DOMAIN f : b[i] = f[k] /\ k > h * n
        <4>1. TAKE i \in DOMAIN b
        <4> DEFINE m == H * n
                   k == i + m
                   x == h * n
        <4>2. k \in DOMAIN f /\ b[i] = f[k] /\ k > m BY <2>4
        <4>3. m \in Nat /\ x \in Nat /\ x <= m /\ k \in Nat BY <1>4, <2>1, <2>3, <4>2 DEF f
        <4> HIDE DEF m, k, x
        <4>4. k > x BY <4>2, <4>3
        <4> QED BY <4>2, <4>4 DEF x
      <3> DEFINE lo == (h - 1) * n
                 hi == h * n
      <3>3. lo \in Nat /\ hi \in Nat /\ Extended(e(h), c(h), f, lo, hi) BY <3>1
      <3>4. \A i \in DOMAIN b : \E k \in DOMAIN f : b[i] = f[k] /\ k > hi BY <3>2
      <3>5. ASSUME NEW g \in Heads, h < g
            PROVE  \E l \in Nat, m \in Nat : Extended(e(g), c(g), f, l, m) /\ hi <= l
        <4>1. hi <= (g - 1) * n BY <2>1, <3>5, PartsApart
        <4> QED BY <2>1, <4>1
      <3> HIDE DEF lo, hi
      <3>6. /\ Distinct(e(h)) /\ Apart(e(h), b)
            /\ \A s : Apart(s, f) /\ Apart(s, c(h)) => Apart(s, e(h)) /\ Apart(e(h), s)
        BY <3>1, <3>3, <3>4, ExtendedFacts
      <3>7. ASSUME NEW g \in Heads, h < g PROVE Apart(e(h), e(g)) /\ Apart(e(g), e(h))
        <4>1. PICK l \in Nat, m \in Nat : Extended(e(g), c(g), f, l, m) /\ hi <= l BY <3>5, <3>7
        <4>2. c(g) \in Seq(Nat) /\ e(g) \in Seq(Nat) /\ Apart(c(g), f) /\ Apart(c(h), c(g))
          <5>1. h # g BY <2>1, <3>7
          <5> QED BY <2>1, <2>2, <2>6, <5>1
        <4> QED BY <3>1, <3>3, <4>1, <4>2, ExtendedFacts
      <3> QED BY <3>6, <3>7
    <2>8. EntriesExclusive'
      <3>1. Distinct(b)
        <4>1. ASSUME NEW i \in DOMAIN b, NEW j \in DOMAIN b, b[i] = b[j] PROVE i = j
          <5> DEFINE m == H * n
          <5>1. i + m \in DOMAIN f /\ b[i] = f[i + m] /\ j + m \in DOMAIN f /\ b[j] = f[j + m]
            BY <2>4
          <5>2. i + m = j + m BY <2>2, <4>1, <5>1 DEF Distinct
          <5>3. m \in Nat /\ i \in Nat /\ j \in Nat BY <2>3, <2>4
          <5> HIDE DEF m
          <5> QED BY <5>2, <5>3
        <4> QED BY <4>1 DEF Distinct
      <3>2. ASSUME NEW s, Apart(s, f) PROVE Apart(s, b) BY <2>4, <3>2 DEF Apart
      <3>3. ASSUME NEW u \in Tensors, NEW h \in Heads
            PROVE  Distinct(kv'[u].bases[h]) /\ Apart(kv'[u].bases[h], b)
        <4>1. CASE u = t BY <2>5, <2>7, <4>1
        <4>2. CASE u # t
          <5>1. kv'[u].bases[h] = kv[u].bases[h] BY <2>5, <4>2
          <5>2. Distinct(kv[u].bases[h]) /\ Apart(kv[u].bases[h], f)
            BY <1>1, <2>6 DEF EntriesExclusive
          <5> QED BY <3>2, <5>1, <5>2
        <4> QED BY <4>1, <4>2
      <3>4. ASSUME NEW u \in Tensors, NEW g \in Heads, NEW h \in Heads, u # t
            PROVE  Apart(kv'[u].bases[g], e(h)) /\ Apart(e(h), kv'[u].bases[g])
        <4>1. kv'[u].bases[g] = kv[u].bases[g] BY <2>5, <3>4
        <4>2. Apart(kv[u].bases[g], f) /\ Apart(kv[u].bases[g], c(h))
          BY <1>1, <2>6, <3>4 DEF EntriesExclusive
        <4> QED BY <2>7, <4>1, <4>2
      <3>5. ASSUME NEW h \in Heads, NEW g \in Heads, h # g PROVE Apart(e(h), e(g))
        <4>1. h < g \/ g < h BY <2>1, <3>5
        <4> QED BY <2>7, <4>1
      <3>6. ASSUME NEW u \in Tensors, NEW v \in Tensors, NEW h \in Heads, NEW g \in Heads,
                   u # v \/ h # g
            PROVE  Apart(kv'[u].bases[h], kv'[v].bases[g])
        <4>1. CASE u = t /\ v = t BY <2>5, <3>5, <3>6, <4>1
        <4>2. CASE u = t /\ v # t BY <2>5, <3>4, <4>2
        <4>3. CASE u # t /\ v = t BY <2>5, <3>4, <4>3
        <4>4. CASE u # t /\ v # t BY <1>1, <2>5, <3>6, <4>4 DEF EntriesExclusive
        <4> QED BY <4>1, <4>2, <4>3, <4>4
      <3> QED BY <2>6, <3>1, <3>3, <3>6 DEF EntriesExclusive
    <2>9. EntriesOK'
      <3>1. \A x : Entry(x)' <=> Entry(x)
        BY DEF Entry, kv_base, kv_cache_size, num_entries, num_tokens, act_limit
      <3>2. \A k \in DOMAIN f : Entry(f[k]) BY <1>1, <2>6 DEF EntriesOK
      <3>3. \A h \in Heads : \A k \in DOMAIN c(h) : Entry(c(h)[k]) BY <1>1, <2>6 DEF EntriesOK
      <3>4. \A k \in DOMAIN b : Entry(b[k]) BY <2>4, <3>2
      <3>5. \A h \in Heads : \A k \in DOMAIN e(h) : Entry(e(h)[k]) BY <2>1, <3>2, <3>3 DEF Extended
      <3>6. ASSUME NEW u \in Tensors, NEW h \in Heads
            PROVE  \A k \in DOMAIN kv'[u].bases[h] : Entry(kv'[u].bases[h][k])
        <4>1. CASE u = t BY <2>5, <3>5, <4>1
        <4>2. CASE u # t BY <1>1, <2>5, <4>2 DEF EntriesOK
        <4> QED BY <4>1, <4>2
      <3> QED BY <2>6, <3>1, <3>4, <3>6 DEF EntriesOK
    <2>10. EntriesEnough'
      <3>1. 1 \in Heads BY <1>3
      <3>2. \A h \in Heads : Len(c(h)) = Len(c(1)) BY <1>1, <2>6, <3>1 DEF EntriesEnough
      <3>3. \A h \in Heads : Len(e(h)) = Len(c(1)) + n BY <2>1, <3>2
      <3>4. (Len(c(1)) + n) * EntrySize >= len BY <2>6, <3>1
      <3>5. ASSUME NEW u \in Tensors, NEW h \in Heads
            PROVE  /\ Len(kv'[u].bases[h]) = Len(kv'[u].bases[1])
                   /\ Len(kv'[u].bases[h]) * EntrySize >= kv'[u].seq_len
        <4>1. CASE u = t BY <2>5, <3>1, <3>3, <3>4, <4>1
        <4>2. CASE u # t BY <1>1, <2>5, <4>2 DEF EntriesEnough
        <4> QED BY <4>1, <4>2
      <3> QED BY <3>5 DEF EntriesEnough
    <2>11. NothingYet' BY DEF NothingYet
    <2> QED BY <2>8, <2>9, <2>10, <2>11 DEF KvInv
  <1> QED BY <1>5, <1>6 DEF allocate_entries

LEMMA CeilEnough == ASSUME NEW a \in Nat, NEW n \in Nat, n > 0 PROVE ceil(a, n) \in Nat /\ ceil(a, n) * n >= a
  <1> DEFINE x == a + n - 1
             q == x \div n
  <1>1. x \in Nat OBVIOUS
  <1>2. x = n * q + (x % n) /\ x % n \in Nat /\ x % n < n /\ q \in Nat BY <1>1, DivMod
  <1> DEFINE r == x % n
             m == n * q
  <1>3. x = m + r /\ r \in Nat /\ r < n /\ m \in Nat /\ q * n = m BY <1>2
  <1> HIDE DEF q, r, m
  <1>4. m >= a BY <1>3
  <1> QED BY <1>2, <1>3, <1>4 DEF ceil, q

LEMMA KvStep == ASSUME MemInv, KvInv, [Next]_vars PROVE KvInv'
  <1>1. TypeOK /\ EntriesEnough BY DEF MemInv, KvInv
  <1>2. 1 \in Heads /\ EntrySize \in Nat /\ EntrySize > 0 BY <1>1, NpuNumbers DEF Heads
  <1>3. \A t \in Tensors : Len(kv[t].bases[1]) \in Nat /\ kv[t].seq_len \in Nat
    BY <1>1, <1>2 DEF TypeOK
  <1>4. CASE InitAllocators BY <1>4, KvInitAllocators
  <1>5. ASSUME NEW t \in Tensors, NewTensorKV(t) PROVE KvInv'
    <2> DEFINE len == Requests[t[1]].seq_len
               n == ceil(len, EntrySize)
               L == Len(kv[t].bases[1])
    <2>1. len \in Nat
      <3>1. t[1] \in DOMAIN Requests BY DEF Tensors
      <3>2. Requests[t[1]] \in Request BY <3>1, MemoryAssumption
      <3> QED BY <3>2 DEF Request
    <2>2. n \in Nat /\ n * EntrySize >= len BY <1>2, <2>1, CeilEnough
    <2>3. L \in Nat BY <1>3
    <2>4. ready /\ allocate_entries(t, n, len) /\ UNCHANGED <<act_base, max_active_reqs, ready>>
      BY <1>5 DEF NewTensorKV
    <2> HIDE DEF len, n, L
    <2>5. (L + n) * EntrySize = L * EntrySize + n * EntrySize /\ L * EntrySize \in Nat
          /\ n * EntrySize \in Nat
      BY <1>2, <2>2, <2>3
    <2>6. (L + n) * EntrySize >= len BY <2>1, <2>2, <2>5
    <2> QED BY <2>1, <2>2, <2>4, <2>6, KvAllocate DEF L
  <1>6. ASSUME NEW t \in Tensors, AddTokenKV(t) PROVE KvInv'
    <2> DEFINE len == kv[t].seq_len + 1
               n == entries_for_token(t)
               L == Len(kv[t].bases[1])
    <2>1. len \in Nat /\ L \in Nat /\ L * EntrySize >= len - 1 BY <1>1, <1>2, <1>3 DEF EntriesEnough
    <2>2. n = IF len > L * EntrySize THEN 1 ELSE 0 BY DEF entries_for_token
    <2>3. ready /\ allocate_entries(t, n, len) /\ UNCHANGED <<act_base, max_active_reqs, ready>>
      BY <1>6 DEF AddTokenKV
    <2> HIDE DEF len, n, L
    <2>4. L * EntrySize \in Nat /\ (L + 1) * EntrySize = L * EntrySize + EntrySize BY <1>2, <2>1
    <2>5. n \in Nat /\ (L + n) * EntrySize >= len
      <3>1. CASE len > L * EntrySize BY <1>2, <2>1, <2>2, <2>4, <3>1
      <3>2. CASE ~(len > L * EntrySize)
        <4>1. n = 0 /\ L + n = L BY <2>1, <2>2, <3>2
        <4> QED BY <2>1, <2>4, <3>2, <4>1
      <3> QED BY <3>1, <3>2
    <2> QED BY <2>1, <2>3, <2>5, KvAllocate DEF L
  <1>7. CASE UNCHANGED <<kv, kv_cache, act_base, max_active_reqs, ready>> BY <1>7, SameEntries
  <1>8. ASSUME NEW t \in Tensors, NewTensor(t) \/ add_token(t)
        PROVE  UNCHANGED <<kv, kv_cache, act_base, max_active_reqs, ready>>
    BY <1>8 DEF NewTensor, add_token
  <1>9. ASSUME CreateWeight \/ (\E size \in ActSizes : AllocateActivation(size))
               \/ (\E r \in DOMAIN Requests : Complete(r)) \/ UNCHANGED vars
        PROVE  UNCHANGED <<kv, kv_cache, act_base, max_active_reqs, ready>>
    BY <1>9 DEF CreateWeight, AllocateActivation, Complete, vars
  <1> QED BY <1>4, <1>5, <1>6, <1>7, <1>8, <1>9 DEF Next

\* No wrap-around: the entries lie in a region of the size that is compared with the HBM's.
LEMMA RegionSize == ASSUME TypeOK, num_tokens * (HeadDim * Precision) < WordSize
  PROVE num_entries * entry_bytes <= kv_cache_size
  <1> DEFINE b == HeadDim * Precision
             T == num_tokens
             N == num_entries
             S == T * b
  <1>1. b \in Nat /\ b > 0 /\ T \in Nat /\ N \in Nat /\ EntrySize \in Nat /\ EntrySize > 0
        /\ WordSize \in Nat /\ WordSize > 0 /\ HeadDim \in Nat /\ Precision \in Nat
        /\ entry_bytes = EntrySize * b
    BY NpuNumbers
  <1>2. T * HeadDim * Precision = S
    <2> HIDE DEF T
    <2> QED BY <1>1
  <1>3. \A x \in Nat : x < WordSize => x % WordSize = x
    <2>1. ASSUME NEW x \in Nat, x < WordSize PROVE x % WordSize = x
      <3> DEFINE q == x \div WordSize
                 r == x % WordSize
      <3>1. x = WordSize * q + r /\ r \in Nat /\ q \in Nat BY <1>1, DivMod
      <3> HIDE DEF q, r
      <3>2. q = 0
        <4>1. ASSUME q >= 1 PROVE FALSE
          <5>1. q - 1 \in Nat BY <3>1, <4>1
          <5>2. WordSize * (q - 1) \in Nat BY <1>1, <5>1
          <5>3. WordSize * q = WordSize * (q - 1) + WordSize BY <1>1, <3>1, <5>1
          <5> QED BY <1>1, <2>1, <3>1, <5>2, <5>3
        <4> QED BY <3>1, <4>1
      <3>3. WordSize * 0 = 0 BY <1>1
      <3>4. x = r BY <3>1, <3>2, <3>3
      <3> QED BY <3>4 DEF r
    <2> QED BY <2>1
  <1> HIDE DEF b, T
  <1>4. S \in Nat /\ T <= S
    <2>1. b - 1 \in Nat BY <1>1
    <2>2. T * (b - 1) \in Nat BY <1>1, <2>1
    <2>3. T * b = T * (b - 1) + T BY <1>1, <2>1
    <2> QED BY <1>1, <2>2, <2>3
  <1>5. S < WordSize BY DEF b, T
  <1> HIDE DEF S
  <1>6. kv_cache_size = S BY <1>2, <1>3, <1>4, <1>5 DEF kv_cache_size, T
  <1>7. T % WordSize = T BY <1>1, <1>3, <1>4, <1>5
  <1>8. N = T \div EntrySize BY <1>7 DEF num_entries, T
  <1>9. EntrySize * N <= T
    <2>1. T = EntrySize * (T \div EntrySize) + (T % EntrySize) /\ T % EntrySize \in Nat
      BY <1>1, DivMod
    <2> HIDE DEF N
    <2>2. EntrySize * N \in Nat BY <1>1
    <2> QED BY <1>1, <1>8, <2>1, <2>2
  <1> HIDE DEF N
  <1>10. N * (EntrySize * b) <= T * b
    <2> DEFINE m == EntrySize * N
    <2>1. m \in Nat /\ T - m \in Nat BY <1>1, <1>9
    <2>2. N * (EntrySize * b) = m * b BY <1>1
    <2> HIDE DEF m
    <2>3. (T - m) * b \in Nat /\ m * b \in Nat BY <1>1, <2>1
    <2>4. T * b = m * b + (T - m) * b BY <1>1, <2>1
    <2> QED BY <2>2, <2>3, <2>4
  <1> QED BY <1>1, <1>6, <1>10 DEF N, S

\* Multiples of w lie w apart.
LEMMA Multiples == ASSUME NEW r \in Nat, NEW m \in Nat, NEW w \in Nat, r < m
  PROVE r * w \in Nat /\ m * w \in Nat /\ r * w + w <= m * w
  <1>1. m - r - 1 \in Nat OBVIOUS
  <1>2. (m - r - 1) * w \in Nat /\ r * w \in Nat /\ m * w \in Nat BY <1>1
  <1>3. m * w = r * w + w + (m - r - 1) * w BY <1>1
  <1> QED BY <1>2, <1>3

\* Where the vector of a token is: in an entry of its head.
LEMMA TokenPlace ==
  ASSUME TypeOK, EntriesEnough, NEW t \in Tensors, NEW h \in Heads, NEW i \in 0..(kv[t].seq_len - 1)
  PROVE  /\ i \in Nat /\ i \div EntrySize \in Nat /\ i % EntrySize \in Nat
         /\ i = EntrySize * (i \div EntrySize) + (i % EntrySize) /\ i % EntrySize < EntrySize
         /\ Len(kv[t].bases[h]) * EntrySize > i
         /\ i \div EntrySize + 1 \in DOMAIN kv[t].bases[h]
         /\ kv[t].bases[h][i \div EntrySize + 1] \in Nat
         /\ token_addr(t, h, i) =
              kv[t].bases[h][i \div EntrySize + 1] + (i % EntrySize) * (HeadDim * Precision)
  <1> DEFINE E == EntrySize
             L == Len(kv[t].bases[h])
             q == i \div E
             r == i % E
  <1>1. E \in Nat /\ E > 0 /\ HeadDim \in Nat /\ Precision \in Nat BY NpuNumbers
  <1>2. kv[t].seq_len \in Nat /\ kv[t].bases[h] \in Seq(Nat) BY DEF TypeOK
  <1>3. L \in Nat /\ DOMAIN kv[t].bases[h] = 1..L BY <1>2
  <1>4. i \in Nat /\ i < kv[t].seq_len /\ L * E >= kv[t].seq_len BY <1>2 DEF EntriesEnough
  <1>5. i = E * q + r /\ q \in Nat /\ r \in Nat /\ r < E BY <1>1, <1>4, DivMod
  <1> HIDE DEF L, q, r
  <1> HIDE DEF E
  <1>6. L * E \in Nat /\ L * E > i
    <2>1. L * E \in Nat BY <1>1, <1>3
    <2> DEFINE p == L * E
    <2>2. p \in Nat /\ p >= kv[t].seq_len BY <2>1, <1>4
    <2> HIDE DEF p
    <2>3. p > i BY <1>2, <1>4, <2>2
    <2> QED BY <2>2, <2>3 DEF p
  <1>7. ASSUME L <= q PROVE FALSE
    <2>1. q - L \in Nat BY <1>3, <1>5, <1>7
    <2>2. E * (q - L) \in Nat BY <1>1, <2>1
    <2>3. E * q = L * E + E * (q - L)
      <3>1. q \in Nat BY <1>5
      <3> QED BY <1>1, <1>3, <3>1
    <2> QED BY <1>5, <1>6, <2>2, <2>3
  <1>8. q + 1 \in 1..L BY <1>3, <1>5, <1>7
  <1>9. kv[t].bases[h][q + 1] \in Nat BY <1>2, <1>3, <1>8
  <1>10. r * HeadDim * Precision = r * (HeadDim * Precision) BY <1>1, <1>5
  <1> QED BY <1>3, <1>4, <1>5, <1>6, <1>8, <1>9, <1>10 DEF token_addr, E, L, q, r

\* Tokens in different entries.
LEMMA EntriesFar ==
  ASSUME NEW j \in Nat, NEW k \in Nat, NEW r \in Nat, NEW s \in Nat, NEW n \in Nat, NEW b \in Nat,
         NEW base \in Nat, j < k, r < n
  PROVE  (base + j * (n * b) + r * b) + b <= base + k * (n * b) + s * b
  <1> DEFINE w == n * b
  <1>1. r * b \in Nat /\ w \in Nat /\ r * b + b <= w BY Multiples
  <1> HIDE DEF w
  <1>2. j * w \in Nat /\ k * w \in Nat /\ j * w + w <= k * w BY <1>1, Multiples
  <1>3. s * b \in Nat OBVIOUS
  <1> DEFINE u == r * b
             v == s * b
             x == j * w
             y == k * w
  <1>4. u \in Nat /\ v \in Nat /\ x \in Nat /\ y \in Nat /\ u + b <= w /\ x + w <= y
    BY <1>1, <1>2, <1>3
  <1> HIDE DEF u, v, x, y
  <1>5. (base + x + u) + b <= base + y + v BY <1>1, <1>4
  <1> QED BY <1>5 DEF u, v, x, y, w

LEMMA TokensApartHolds == ASSUME MemInv, KvInv PROVE TokensApart
  <1> DEFINE b == HeadDim * Precision
             toks == UNION {{t} \X Heads \X (0..(kv[t].seq_len - 1)) : t \in Tensors}
             N == num_entries
             E == EntrySize
  <1>1. TypeOK /\ EntriesOK /\ EntriesExclusive /\ EntriesEnough BY DEF MemInv, KvInv
  <1>2. /\ E \in Nat /\ E > 0 /\ b \in Nat /\ b > 0 /\ entry_bytes = E * b /\ N \in Nat
        /\ kv_base \in Nat /\ act_limit \in Nat /\ kv_base > act_limit
        /\ kv_cache_size \in Nat /\ HbmSize \in Nat
    BY <1>1, NpuNumbers
  <1>3. ASSUME NEW x \in toks
        PROVE  x[1] \in Tensors /\ x[2] \in Heads /\ x[3] \in 0..(kv[x[1]].seq_len - 1)
               /\ x = <<x[1], x[2], x[3]>>
    <2>1. PICK t \in Tensors : x \in {t} \X Heads \X (0..(kv[t].seq_len - 1)) OBVIOUS
    <2> QED BY <2>1
  <1> HIDE DEF toks
  <1> SUFFICES ASSUME num_tokens * b < WordSize
               PROVE  /\ \A x \in toks : Len(kv[x[1]].bases[x[2]]) * EntrySize > x[3]
                      /\ \A x \in toks : LET a == token_addr(x[1], x[2], x[3])
                                         IN  act_limit <= a /\ a + b <= HbmSize
                      /\ \A x, y \in toks : x # y =>
                           LET a == token_addr(x[1], x[2], x[3])  c == token_addr(y[1], y[2], y[3])
                           IN  a + b <= c \/ c + b <= a
    BY DEF TokensApart, toks
  <1>4. \A x \in toks : Len(kv[x[1]].bases[x[2]]) * EntrySize > x[3] BY <1>1, <1>3, TokenPlace
  \* The entry and the place in it.
  <1>5. ASSUME NEW t \in Tensors, NEW h \in Heads, NEW i \in 0..(kv[t].seq_len - 1)
        PROVE  \E j \in 0..(N - 1) : \E r \in 0..(E - 1) :
                 /\ kv[t].bases[h][i \div E + 1] = kv_base + j * (E * b)
                 /\ r = i % E /\ token_addr(t, h, i) = kv_base + j * (E * b) + r * b
                 /\ kv_base + kv_cache_size < HbmSize
    <2> DEFINE e == kv[t].bases[h][i \div E + 1]
               r == i % E
    <2>0. /\ i \div E + 1 \in DOMAIN kv[t].bases[h] /\ r \in Nat /\ r < E
          /\ token_addr(t, h, i) = e + r * b
      BY <1>1, TokenPlace
    <2> HIDE DEF r, b
    <2>1. i \div E + 1 \in DOMAIN kv[t].bases[h] /\ r \in 0..(E - 1) /\ token_addr(t, h, i) = e + r * b
      BY <1>2, <2>0
    <2>2. Entry(e) BY <1>1, <2>1 DEF EntriesOK
    <2> HIDE DEF e
    <2>3. kv_base + kv_cache_size < HbmSize /\ \E j \in 0..(N - 1) : e = kv_base + j * (E * b)
      BY <1>2, <2>2 DEF Entry
    <2>4. PICK j \in 0..(N - 1) : e = kv_base + j * (E * b) BY <2>3
    <2> QED BY <2>1, <2>3, <2>4 DEF e, r
  <1>6. N * (E * b) <= kv_cache_size BY <1>1, <1>2, RegionSize
  <1>7. ASSUME NEW x \in toks
        PROVE  LET a == token_addr(x[1], x[2], x[3]) IN act_limit <= a /\ a + b <= HbmSize
    <2> DEFINE a == token_addr(x[1], x[2], x[3])
    <2>1. PICK j \in 0..(N - 1), r \in 0..(E - 1) : a = kv_base + j * (E * b) + r * b
                 /\ kv_base + kv_cache_size < HbmSize
      BY <1>3, <1>5
    <2> HIDE DEF a, b
    <2>2. j \in Nat /\ j < N /\ r \in Nat /\ r < E BY <1>2
    <2> DEFINE w == E * b
               u == r * b
               v == j * w
               z == N * w
    <2>3. u \in Nat /\ w \in Nat /\ u + b <= w BY <1>2, <2>2, Multiples
    <2> HIDE DEF w
    <2>4. v \in Nat /\ z \in Nat /\ v + w <= z BY <1>2, <2>2, <2>3, Multiples
    <2>5. a = kv_base + v + u /\ kv_base + kv_cache_size < HbmSize /\ z <= kv_cache_size
      BY <1>6, <2>1 DEF w
    <2> HIDE DEF u, v, z
    <2>6. act_limit <= a /\ a + b <= HbmSize BY <1>2, <2>3, <2>4, <2>5
    <2> QED BY <2>6 DEF a, b
  <1>8. ASSUME NEW x \in toks, NEW y \in toks, x # y
        PROVE  LET a == token_addr(x[1], x[2], x[3])  c == token_addr(y[1], y[2], y[3])
               IN  a + b <= c \/ c + b <= a
    <2> DEFINE a == token_addr(x[1], x[2], x[3])
               c == token_addr(y[1], y[2], y[3])
               p == x[3] \div E
               q == y[3] \div E
               B == kv[x[1]].bases[x[2]]
               C == kv[y[1]].bases[y[2]]
    <2>1. PICK j \in 0..(N - 1), r \in 0..(E - 1) :
            /\ B[p + 1] = kv_base + j * (E * b)
            /\ r = x[3] % E /\ a = kv_base + j * (E * b) + r * b
      BY <1>3, <1>5
    <2>2. PICK k \in 0..(N - 1), s \in 0..(E - 1) :
            /\ C[q + 1] = kv_base + k * (E * b)
            /\ s = y[3] % E /\ c = kv_base + k * (E * b) + s * b
      BY <1>3, <1>5
    <2>3. /\ p \in Nat /\ p + 1 \in DOMAIN B /\ x[3] = E * p + r
          /\ q \in Nat /\ q + 1 \in DOMAIN C /\ y[3] = E * q + s
      BY <1>1, <1>3, <2>1, <2>2, TokenPlace
    <2>4. j \in Nat /\ k \in Nat /\ r \in Nat /\ s \in Nat /\ r < E /\ s < E BY <1>2
    <2>5. j # k \/ r # s
      <3>1. ASSUME j = k, r = s PROVE FALSE
        <4>1. B[p + 1] = C[q + 1] BY <2>1, <2>2, <3>1
        <4>2. x[1] = y[1] /\ x[2] = y[2]
          BY <1>1, <1>3, <2>3, <4>1 DEF EntriesExclusive, Apart
        <4>3. p + 1 = q + 1
          BY <1>1, <1>3, <2>3, <4>1, <4>2 DEF EntriesExclusive, Distinct
        <4>4. p = q BY <2>3, <4>3
        <4>5. x[3] = y[3] BY <2>3, <3>1, <4>4
        <4> QED BY <1>3, <1>8, <4>2, <4>5
      <3> QED BY <3>1
    <2> HIDE DEF a, c, b
    <2>6. CASE j < k
      <3>1. a + b <= c BY <1>2, <2>1, <2>2, <2>4, <2>6, EntriesFar
      <3> QED BY <3>1 DEF a, b, c
    <2>7. CASE k < j
      <3>1. c + b <= a BY <1>2, <2>1, <2>2, <2>4, <2>7, EntriesFar
      <3> QED BY <3>1 DEF a, b, c
    <2>8. CASE j = k
      <3> DEFINE z == kv_base + j * (E * b)
                 u == r * b
                 v == s * b
      <3>1. z \in Nat
        <4>1. E * b \in Nat BY <1>2
        <4>2. j * (E * b) \in Nat BY <2>4, <4>1
        <4> QED BY <1>2, <4>2
      <3>2. a = z + u /\ c = z + v BY <2>1, <2>2, <2>8
      <3>3. u \in Nat /\ v \in Nat /\ (u + b <= v \/ v + b <= u)
        <4>1. r < s \/ s < r BY <2>4, <2>5, <2>8
        <4> QED BY <1>2, <2>4, <4>1, Multiples
      <3> HIDE DEF z, u, v
      <3>4. a + b <= c \/ c + b <= a BY <1>2, <3>1, <3>2, <3>3
      <3> QED BY <3>4 DEF a, b, c
    <2> QED BY <2>4, <2>6, <2>7, <2>8
  <1> QED BY <1>4, <1>7, <1>8

\* Without PIM, every token of every head of every cache has its own bytes, inside the
\* region of the caches and the HBM, for every number of requests and added tokens, as long
\* as KVCacheAlloc::init_npu_layout computes the size of the region without overflow.
THEOREM AlwaysTokensApart == Spec => []TokensApart
  <1>1. MemInv /\ KvInv /\ [Next]_vars => (MemInv /\ KvInv)' BY MemStep, KvStep
  <1>2. MemInv /\ KvInv => TokensApart BY TokensApartHolds
  <1> QED BY <1>1, <1>2, MemInit, KvInit, PTL DEF Spec

-----------------------------------------------------------------------------
\* The addresses themselves, as AddressConfig has them: what the operations put
\* into an address is what the memory reads out of it.

\* The powers of two that the fields of an address need.
LEMMA Powers ==
  /\ pow2[0] = 1 /\ pow2[1] = 2 /\ pow2[2] = 4 /\ pow2[3] = 8
  /\ pow2[4] = 16 /\ pow2[5] = 32 /\ pow2[6] = 64 /\ pow2[7] = 128
  /\ pow2[8] = 256 /\ pow2[9] = 512 /\ pow2[10] = 1024 
  /\ pow2[11] = 2048 /\ pow2[12] = 4096 /\ pow2[13] = 8192
  /\ pow2[14] = 16384 /\ pow2[15] = 32768
<1> DEFINE table == <<1, 2, 4, 8, 16, 32, 64, 128, 256, 512, 1024, 2048, 4096, 8192, 16384, 32768,
                      65536, 131072, 262144, 524288, 1048576, 2097152, 4194304, 8388608, 16777216,
                      33554432, 67108864, 134217728, 268435456, 536870912, 1073741824>>
           g == [n \in 0..30 |-> table[n + 1]]
           p == pow2
<1>1. g = [n \in 0..30 |-> IF n = 0 THEN 1 ELSE 2 * g[n - 1]]
  <2>1. ASSUME NEW n \in 0..30 PROVE g[n] = IF n = 0 THEN 1 ELSE 2 * g[n - 1]
    OBVIOUS
  <2> QED BY <2>1
<1> HIDE DEF g, p
<1>2. \E f : f = [n \in 0..30 |-> IF n = 0 THEN 1 ELSE 2 * f[n - 1]] BY <1>1, Zenon
<1>3. p = [n \in 0..30 |-> IF n = 0 THEN 1 ELSE 2 * p[n - 1]] BY <1>2, Zenon DEF pow2, p
<1>4. p[0] = 1 /\ \A n \in 1..30 : p[n] = 2 * p[n - 1]
  BY <1>3
<1>5. p[1] = 2 /\ p[2] = 4 /\ p[3] = 8 /\ p[4] = 16
  <2>1. p[1] = 2 * p[0] /\ p[2] = 2 * p[1] /\ p[3] = 2 * p[2] /\ p[4] = 2 * p[3] BY <1>4
  <2> QED BY <1>4, <2>1
<1>6. p[5] = 32 /\ p[6] = 64 /\ p[7] = 128 /\ p[8] = 256
  <2>1. p[5] = 2 * p[4] /\ p[6] = 2 * p[5] /\ p[7] = 2 * p[6] /\ p[8] = 2 * p[7] BY <1>4
  <2> QED BY <1>5, <2>1
<1>7. p[9] = 512 /\ p[10] = 1024 /\ p[11] = 2048 /\ p[12] = 4096
  <2>1. p[9] = 2 * p[8] /\ p[10] = 2 * p[9] /\ p[11] = 2 * p[10] /\ p[12] = 2 * p[11] BY <1>4
  <2> QED BY <1>6, <2>1
<1>8. p[13] = 8192 /\ p[14] = 16384 /\ p[15] = 32768
  <2>1. p[13] = 2 * p[12] /\ p[14] = 2 * p[13] /\ p[15] = 2 * p[14] BY <1>4
  <2> QED BY <1>7, <2>1
<1> QED BY <1>4, <1>5, <1>6, <1>7, <1>8 DEF p

\* The memory that is shipped with the simulator, which switch_co_ch and
\* init_pim_layout are written for.
Shipped == dram_channels = 32

LEMMA ChannelBits == Shipped => channel_bits = 5
<1> DEFINE p == pow2
<1>1. ASSUME NEW k \in 1..15, p[k] <= 32, 32 < 2 * p[k] PROVE k = 5
  BY <1>1, Powers
<1>2. 5 \in 1..15 /\ p[5] <= 32 /\ 32 < 2 * p[5] BY Powers
<1> HIDE DEF p
<1>3. (CHOOSE k \in 1..15 : p[k] <= 32 /\ 32 < 2 * p[k]) = 5 BY <1>1, <1>2
<1> QED BY <1>3 DEF channel_bits, LogBase2, p, Shipped

\* The fields are what is read back from address a, and the row is where
\* init_pim_layout expects it.
ReadAs(a, ch, rank, bg, bank, row, col) ==
  LET m == AddressMapping(a)
  IN  /\ a \in Nat /\ a \div 16384 = row
      /\ m.ch = ch /\ m.rank = rank /\ m.bg = bg /\ m.bank = bank /\ m.row = row
      /\ m.col = col

RowNumbers == {row \in Nat : row < 32768}

LEMMA FieldsBack ==
  ASSUME Shipped, NEW ch \in 0..31, NEW rank \in 0..1, NEW bg \in 0..3, NEW bank \in 0..3,
         NEW row \in RowNumbers, NEW col \in 0..15
  PROVE  ReadAs(make_address(ch, rank, bg, bank, row, col), ch, rank, bg, bank, row, col)
<1> row \in Nat /\ row < 32768 BY DEF RowNumbers
<1> DEFINE a == ((((row * 2 + rank) * 4 + bg) * 4 + bank) * 32 + ch) * 16 + col
<1>1. col % 16 = col OBVIOUS
<1>2. channel_bits = 5 BY ChannelBits
<1>3. make_address(ch, rank, bg, bank, row, col) = a
  BY <1>1, <1>2, Powers DEF make_address, shift_in, rank_bits,
     bankgroup_bits, bank_bits, col_bits
<1>4. AddressMapping(a) =
        [ch |-> (a \div 16) % 32, bank |-> (a \div 512) % 4, bg |-> (a \div 2048) % 4,
         rank |-> (a \div 8192) % 2, row |-> (a \div 16384) % 32768, col |-> (a \div 1) % 16]
  <2> HIDE DEF a
  <2> QED
    BY <1>2, Powers DEF AddressMapping, field, rank_bits, row_bits,
       bankgroup_bits, bank_bits, col_bits
<1>5. a \in Nat /\ a % 16 = col /\ a \div 1 = a OBVIOUS
<1>6. a \div 16 = (((row * 2 + rank) * 4 + bg) * 4 + bank) * 32 + ch OBVIOUS
<1>7. a \div 512 = ((row * 2 + rank) * 4 + bg) * 4 + bank OBVIOUS
<1>8. a \div 2048 = (row * 2 + rank) * 4 + bg OBVIOUS
<1>9. a \div 8192 = row * 2 + rank OBVIOUS
<1>10. a \div 16384 = row OBVIOUS
<1> HIDE DEF a
<1>11. (a \div 16) % 32 = ch /\ (a \div 512) % 4 = bank BY <1>6, <1>7
<1>12. ((row * 2 + rank) * 4 + bg) % 4 = bg
  <2>1. ((row * 2 + rank) * 4 + bg) % 4 = ((row * 2 + rank) * 4 + bg) - 4 * (row * 2 + rank)
    OBVIOUS
  <2> QED BY <2>1
<1>13. (row * 2 + rank) % 2 = rank OBVIOUS
<1>14. row % 32768 = row OBVIOUS
<1>15. (a \div 2048) % 4 = bg BY <1>8, <1>12
<1>16. (a \div 8192) % 2 = rank BY <1>9, <1>13
<1>17. (a \div 16384) % 32768 = row BY <1>10, <1>14
<1> QED BY <1>3, <1>4, <1>5, <1>10, <1>11, <1>15, <1>16, <1>17 DEF ReadAs

\* The fields are numbers of their widths.
Fields(ch, rank, bg, bank, row, col) ==
  /\ ch \in 0..31 /\ rank \in 0..1 /\ bg \in 0..3 /\ bank \in 0..3 /\ row \in RowNumbers
  /\ col \in 0..15

LEMMA PlaceRead ==
  ASSUME Shipped, NEW ch, NEW rank, NEW bg, NEW bank, NEW row, NEW col,
         Fields(ch, rank, bg, bank, row, col)
  PROVE  ReadAs(make_address(ch, rank, bg, bank, row, col), ch, rank, bg, bank, row, col)
BY FieldsBack DEF Fields

\* The logarithm k of the number n in a header is rounded down.
LogAs(n, k) == k \in 0..7 /\ pow2[k] <= n /\ n < 2 * pow2[k]

LEMMA LogRead ==
  ASSUME NEW n \in 1..128
  PROVE  LogAs(n, LogBase2(n))
<1> DEFINE p == pow2
           Fits(k) == p[k] <= n /\ n < 2 * p[k]
<1>1. CASE n = 1
  <2>1. LogBase2(n) = 0 BY <1>1 DEF LogBase2
  <2> QED BY <1>1, <2>1, Powers DEF LogAs
<1>2. CASE n # 1
  <2>1. \E k \in 1..15 : Fits(k)
    <3>1. CASE n < 16
      <4>1. Fits(1) \/ Fits(2) \/ Fits(3) BY <1>2, <3>1, Powers
      <4> QED BY <4>1
    <3>2. CASE ~(n < 16)
      <4>1. Fits(4) \/ Fits(5) \/ Fits(6) \/ Fits(7) BY <3>2, Powers
      <4> QED BY <4>1
    <3> QED BY <3>1, <3>2
  <2>2. \A k \in 1..15 : Fits(k) => k \in 1..7
    <3> SUFFICES ASSUME NEW k \in 1..15, Fits(k), k > 7 PROVE FALSE OBVIOUS
    <3>1. k \in 8..15 OBVIOUS
    <3>2. p[k] \in Nat /\ p[k] > 128 BY <3>1, Powers
    <3> QED BY <3>2
  <2>3. LogBase2(n) = CHOOSE k \in 1..15 : Fits(k) BY <1>2 DEF LogBase2
  <2> HIDE DEF Fits
  <2>4. LogBase2(n) \in 1..15 /\ Fits(LogBase2(n)) BY <2>1, <2>3
  <2> QED BY <2>2, <2>4 DEF Fits, LogAs
<1> QED BY <1>1, <1>2

\* The kind of a request tells which fields it has.
LEMMA KindOf ==
  ASSUME NEW r \in Sent
  PROVE  /\ r.kind = "place" => r \in Places
         /\ r.kind = "header" => r \in Prepares
         /\ r.kind = "comps_readres" => r \in Commands
         /\ r.kind = "block" => r \in Accesses
         /\ r.kind \in {"place", "header", "comps_readres", "block"}
<1>1. r \in Places => r.kind = "place" BY DEF Places
<1>2. r \in Prepares => r.kind = "header" BY DEF Prepares
<1>3. r \in Commands => r.kind = "comps_readres" BY DEF Commands
<1>4. r \in Accesses => r.kind = "block" BY DEF Accesses
<1> QED BY <1>1, <1>2, <1>3, <1>4 DEF Sent

\* A number of banks is carried by the bits of rank, bank group and bank.
LEMMA BankDigits ==
  ASSUME NEW n \in 0..31
  PROVE  /\ n \div 16 \in 0..1 /\ (n \div 4) % 4 \in 0..3 /\ n % 4 \in 0..3
         /\ (n \div 16) * 16 + ((n \div 4) % 4) * 4 + (n % 4) = n
<1>1. n \div 16 \in 0..1 OBVIOUS
<1>2. (n \div 4) % 4 \in 0..3 OBVIOUS
<1>3. n % 4 \in 0..3 OBVIOUS
<1>4. (n \div 16) * 16 + ((n \div 4) % 4) * 4 + (n % 4) = n OBVIOUS
<1> QED BY <1>1, <1>2, <1>3, <1>4

\* What a flag says when it is read from a number.
LEMMA Flags ==
  /\ \A f, p : f = (p = 1) /\ p # 1 => ~f
  /\ \A f, p : \A b \in BOOLEAN : f = (p = 1) /\ p = (IF b THEN 1 ELSE 0) => f = b
<1>1. \A f, p : f = (p = 1) /\ p # 1 => ~f BY Zenon
<1>2. ASSUME NEW f, NEW p, NEW b \in BOOLEAN, f = (p = 1), p = (IF b THEN 1 ELSE 0) PROVE f = b
  <2>1. CASE b = TRUE
    <3>1. p = 1 BY <1>2, <2>1
    <3>2. (p = 1) = TRUE BY <3>1
    <3> QED BY <1>2, <2>1, <3>2, Zenon
  <2>2. CASE b = FALSE
    <3>1. p = 0 BY <1>2, <2>2
    <3>2. (p = 1) = FALSE BY <3>1
    <3> QED BY <1>2, <2>2, <3>2, Zenon
  <2> QED BY <1>2, <2>1, <2>2
<1> QED BY <1>1, <1>2, Zenon

\* A header is read as the powers of two next below its numbers.
HeaderReadAs(a, d, ch, row, x, y) ==
  /\ a \in Nat /\ a \div 16384 = row /\ d.ch = ch /\ d.row = row /\ ~d.for_gwrite
  /\ d.num_comps <= x /\ x < 2 * d.num_comps
  /\ d.num_readres <= y /\ y < 2 * d.num_readres

LEMMA HeaderRead ==
  ASSUME Shipped, NEW ch \in 0..31, NEW row \in RowNumbers,
         NEW x \in 1..128, NEW y \in 1..128
  PROVE  LET a == encode_pim_header(ch, row, FALSE, x, y)
         IN  HeaderReadAs(a, DecodePIMHeader(AddressMapping(a)), ch, row, x, y)
<1>1. PICK k \in 0..7 : k = LogBase2(x) /\ LogAs(x, k) 
  <2>1. LogAs(x, LogBase2(x)) BY LogRead
  <2> QED BY <2>1 DEF LogAs
<1>2. PICK l \in 0..7 : l = LogBase2(y) /\ LogAs(y, l)
  <2>1. LogAs(y, LogBase2(y)) BY LogRead
  <2> QED BY <2>1 DEF LogAs
<1> DEFINE a == make_address(ch, l \div 16, (l \div 4) % 4, l % 4, row, k)
           m == AddressMapping(a)
           d == DecodePIMHeader(m)
<1>3. encode_pim_header(ch, row, FALSE, x, y) = a
  BY <1>1, <1>2 DEF encode_pim_header
<1>4. l \in 0..31 OBVIOUS
<1>5. l \div 16 \in 0..1 /\ (l \div 4) % 4 \in 0..3 /\ l % 4 \in 0..3 BY <1>4, BankDigits
<1>6. (l \div 16) * 16 + ((l \div 4) % 4) * 4 + (l % 4) = l BY <1>4, BankDigits
<1>7. k % 8 = k OBVIOUS
<1>8. ReadAs(a, ch, l \div 16, (l \div 4) % 4, l % 4, row, k)
  <2> HIDE DEF a, m, d
  <2>1. PICK b \in 0..1 : b = l \div 16 BY <1>5
  <2>2. PICK c \in 0..3 : c = (l \div 4) % 4 BY <1>5
  <2>3. PICK e \in 0..3 : e = l % 4 BY <1>5
  <2>4. Fields(ch, b, c, e, row, k) BY DEF Fields
  <2>5. ReadAs(make_address(ch, b, c, e, row, k), ch, b, c, e, row, k)
    BY <2>4, PlaceRead
  <2> QED BY <2>1, <2>2, <2>3, <2>5 DEF a
<1> HIDE DEF a
<1>9. a \in Nat /\ a \div 16384 = row BY <1>8 DEF ReadAs
<1>10. /\ m.ch = ch /\ m.rank = l \div 16 /\ m.bg = (l \div 4) % 4 /\ m.bank = l % 4
       /\ m.row = row /\ m.col = k
  BY <1>8 DEF ReadAs
<1> HIDE DEF m
<1>11. bank_index(m) = l BY <1>6, <1>10 DEF bank_index
<1>12. d.ch = ch /\ d.row = row /\ d.num_readres = pow2[l]
  BY <1>10, <1>11 DEF DecodePIMHeader
<1>13. d.num_comps = pow2[k] BY <1>7, <1>10 DEF DecodePIMHeader
<1>14. ~d.for_gwrite
  <2>1. d.for_gwrite = (m.col \div 8 = 1) BY DEF DecodePIMHeader
  <2>2. m.col = k BY <1>10
  <2>3. ~(k \div 8 = 1) OBVIOUS
  <2> HIDE DEF d
  <2> QED BY <2>1, <2>2, <2>3, Flags
<1> HIDE DEF d
<1>15. HeaderReadAs(a, d, ch, row, x, y)
  BY <1>1, <1>2, <1>9, <1>12, <1>13, <1>14 DEF HeaderReadAs, LogAs
<1>16. HeaderReadAs(a, DecodePIMHeader(AddressMapping(a)), ch, row, x, y)
  BY <1>15 DEF d, m
<1> QED BY <1>3, <1>16

\* The two other commands carry their numbers exactly.
CommandReadAs(a, d, ch, row, num_comps, last) ==
  /\ a \in Nat /\ a \div 16384 = row /\ d.ch = ch /\ d.row = row
  /\ d.num_comps = num_comps /\ d.last = last

LEMMA CommandRead ==
  ASSUME Shipped, NEW ch \in 0..31, NEW row \in RowNumbers,
         NEW num_comps \in 1..32, NEW last \in BOOLEAN
  PROVE  LET a == encode_pim_comps_readres(ch, row, num_comps, last)
         IN  CommandReadAs(a, DecodePIMTransaction(AddressMapping(a)),
                           ch, row, num_comps, last)
<1>1. PICK n \in 0..31 : n = num_comps - 1 OBVIOUS
<1>2. PICK c \in 0..1 : c = IF last THEN 1 ELSE 0 OBVIOUS
<1> DEFINE a == make_address(ch, n \div 16, (n \div 4) % 4, n % 4, row, c)
           m == AddressMapping(a)
           d == DecodePIMTransaction(m)
<1>3. encode_pim_comps_readres(ch, row, num_comps, last) = a
  BY <1>1, <1>2 DEF encode_pim_comps_readres
<1>4. n \div 16 \in 0..1 /\ (n \div 4) % 4 \in 0..3 /\ n % 4 \in 0..3 BY BankDigits
<1>5. (n \div 16) * 16 + ((n \div 4) % 4) * 4 + (n % 4) = n BY BankDigits
<1>6. ReadAs(a, ch, n \div 16, (n \div 4) % 4, n % 4, row, c)
  <2> HIDE DEF a, m, d
  <2>1. PICK b \in 0..1 : b = n \div 16 BY <1>4
  <2>2. PICK g \in 0..3 : g = (n \div 4) % 4 BY <1>4
  <2>3. PICK e \in 0..3 : e = n % 4 BY <1>4
  <2>4. Fields(ch, b, g, e, row, c) BY DEF Fields
  <2>5. ReadAs(make_address(ch, b, g, e, row, c), ch, b, g, e, row, c)
    BY <2>4, PlaceRead
  <2> QED BY <2>1, <2>2, <2>3, <2>5 DEF a
<1> HIDE DEF a
<1>7. a \in Nat /\ a \div 16384 = row BY <1>6 DEF ReadAs
<1>8. /\ m.ch = ch /\ m.rank = n \div 16 /\ m.bg = (n \div 4) % 4 /\ m.bank = n % 4
      /\ m.row = row /\ m.col = c
  BY <1>6 DEF ReadAs
<1> HIDE DEF m
<1>9. bank_index(m) = n BY <1>5, <1>8 DEF bank_index
<1>10. d.ch = ch /\ d.row = row /\ d.num_comps = num_comps
  BY <1>1, <1>8, <1>9 DEF DecodePIMTransaction
<1>11. d.last = (c = 1) BY <1>8 DEF DecodePIMTransaction
<1> HIDE DEF d
<1>12. d.last = last BY <1>2, <1>11, Flags
<1>13. CommandReadAs(a, d, ch, row, num_comps, last)
  BY <1>7, <1>10, <1>12 DEF CommandReadAs
<1> QED BY <1>3, <1>13 DEF d, m

\* The number of an access as digits, and what switch_co_ch makes of it.
LEMMA Switched ==
  ASSUME NEW n \in Nat
  PROVE  /\ switch_co_ch(n) = ((n \div 512) * 32 + (n % 32)) * 16 + ((n \div 32) % 16)
         /\ switch_co_ch(n) \in Nat
<1>1. pow2[5] = 32 /\ pow2[4] = 16 /\ pow2[5 + 4] = 512 BY Powers
<1>2. switch_co_ch(n) = ((n \div 512) * 32 + (n % 32)) * 16 + ((n \div 32) % 16)
  BY <1>1, Zenon DEF switch_co_ch, num_ch_bits, col_bits
<1>3. n \div 512 \in Nat /\ n % 32 \in Nat /\ (n \div 32) % 16 \in Nat OBVIOUS
<1> QED BY <1>2, <1>3

\* The shipped memory, and what AddressConfig assumes of its other constants.
AddressesGiven ==
  /\ Shipped /\ Rows \subseteq RowNumbers
  /\ Headers \subseteq (1..128) \X (1..128) /\ AccessNumbers \subseteq Nat

LEMMA Given == Shipped => AddressesGiven
<1>1. pow2[row_bits] = 32768 BY Powers DEF row_bits
<1>2. \A n \in 0..(pow2[row_bits] - 1) : n \in RowNumbers BY <1>1 DEF RowNumbers
<1>3. Rows \subseteq RowNumbers BY <1>2, AddressAssumption
<1> QED BY <1>3, AddressAssumption DEF AddressesGiven

\* What the memory makes of a request is what was meant: RequestUnderstood for
\* request r, its address a and what is seen, m.
Understood(r, a, m) ==
  /\ r.kind # "block" => a \div 16384 = r.row
  /\ r.kind = "place" => /\ m.ch = r.ch /\ m.rank = r.rank /\ m.bg = r.bg /\ m.bank = r.bank
                         /\ m.row = r.row /\ m.col = r.col
  /\ r.kind = "header" =>
       /\ m.ch = r.ch /\ m.row = r.row /\ ~m.for_gwrite
       /\ m.num_comps <= r.header[1] /\ r.header[1] < 2 * m.num_comps
       /\ m.num_readres <= r.header[2] /\ r.header[2] < 2 * m.num_readres
  /\ r.kind = "comps_readres" => /\ m.ch = r.ch /\ m.row = r.row
                                 /\ m.num_comps = r.num_comps /\ m.last = r.last

LEMMA Meaning ==
  ASSUME AddressesGiven, NEW r \in Sent
  PROVE  LET a == address_of(r)
         IN  a \in Nat /\ Understood(r, a, meaning_of(r, a))
<1> DEFINE a == address_of(r)
           m == meaning_of(r, a)
<1>1. CASE r.kind = "place"
  <2>1. r \in Places BY <1>1, KindOf
  <2>2. /\ r.ch \in 0..31 /\ r.rank \in 0..1 /\ r.bg \in 0..3 /\ r.bank \in 0..3
        /\ r.row \in RowNumbers /\ r.col \in 0..15
    BY <2>1 DEF Places, AddressesGiven, Shipped
  <2>3. Fields(r.ch, r.rank, r.bg, r.bank, r.row, r.col) BY <2>2 DEF Fields
  <2>4. a = make_address(r.ch, r.rank, r.bg, r.bank, r.row, r.col)
    BY <1>1 DEF address_of
  <2>5. m = AddressMapping(a) BY <1>1 DEF meaning_of
  <2> HIDE DEF a, m
  <2>6. ReadAs(a, r.ch, r.rank, r.bg, r.bank, r.row, r.col)
    BY <2>3, <2>4, PlaceRead DEF AddressesGiven
  <2>7. a \in Nat /\ Understood(r, a, m) BY <1>1, <2>5, <2>6 DEF ReadAs, Understood
  <2> QED BY <2>7 DEF a, m
<1>2. CASE r.kind = "header"
  <2>1. r \in Prepares BY <1>2, KindOf
  <2>2. r.ch \in 0..31 /\ r.row \in RowNumbers /\ r.header \in (1..128) \X (1..128)
    BY <2>1 DEF Prepares, AddressesGiven, Shipped
  <2>3. r.header[1] \in 1..128 /\ r.header[2] \in 1..128 BY <2>2
  <2>4. a = encode_pim_header(r.ch, r.row, FALSE, r.header[1], r.header[2])
    BY <1>2 DEF address_of
  <2>5. m = DecodePIMHeader(AddressMapping(a)) BY <1>2 DEF meaning_of
  <2> HIDE DEF a, m
  <2>6. HeaderReadAs(a, m, r.ch, r.row, r.header[1], r.header[2])
    BY <2>2, <2>3, <2>4, <2>5, HeaderRead DEF AddressesGiven
  <2>7. a \in Nat /\ Understood(r, a, m) BY <1>2, <2>6 DEF HeaderReadAs, Understood
  <2> QED BY <2>7 DEF a, m
<1>3. CASE r.kind = "comps_readres"
  <2>1. r \in Commands BY <1>3, KindOf
  <2>2. r.ch \in 0..31 /\ r.row \in RowNumbers /\ r.num_comps \in 1..32 /\ r.last \in BOOLEAN
    BY <2>1 DEF Commands, AddressesGiven, Shipped
  <2>4. a = encode_pim_comps_readres(r.ch, r.row, r.num_comps, r.last)
    BY <1>3 DEF address_of
  <2>5. m = DecodePIMTransaction(AddressMapping(a))
    BY <1>3 DEF meaning_of
  <2> HIDE DEF a, m
  <2>6. CommandReadAs(a, m, r.ch, r.row, r.num_comps, r.last)
    BY <2>2, <2>4, <2>5, CommandRead DEF AddressesGiven
  <2>7. a \in Nat /\ Understood(r, a, m) BY <1>3, <2>6 DEF CommandReadAs, Understood
  <2> QED BY <2>7 DEF a, m
<1>4. CASE r.kind = "block"
  <2>1. r.number \in Nat BY <1>4, KindOf DEF Accesses, AddressesGiven
  <2>2. a = switch_co_ch(r.number) BY <1>4 DEF address_of
  <2> HIDE DEF a, m
  <2>3. a \in Nat BY <2>1, <2>2, Switched
  <2>4. Understood(r, a, m) BY <1>4 DEF Understood
  <2> QED BY <2>3, <2>4 DEF a, m
<1> QED BY <1>1, <1>2, <1>3, <1>4, KindOf

-----------------------------------------------------------------------------
\* What is known of every state: an address is the one of the request, and what
\* is seen is its meaning.
AddressInv ==
  /\ request \in Sent
  /\ addr # -1 => addr = address_of(request)
  /\ seen # None => addr # -1 /\ seen = meaning_of(request, addr)

LEMMA AddressInvHolds == AddressSpec => []AddressInv
<1>1. AddressInit => AddressInv BY DEF AddressInit, AddressInv
<1>2. ASSUME AddressInv, [AddressNext \/ Done]_address_vars PROVE AddressInv'
  <2>1. CASE Encode BY <1>2, <2>1 DEF AddressInv, Encode
  <2>2. CASE Decode BY <1>2, <2>2 DEF AddressInv, Decode
  <2>3. CASE UNCHANGED address_vars BY <1>2, <2>3 DEF AddressInv, address_vars
  <2> QED BY <1>2, <2>1, <2>2, <2>3 DEF AddressNext, Done
<1> QED BY <1>1, <1>2, PTL DEF AddressSpec

\* RequestUnderstood: what the memory makes of the address of a request is the
\* request, for the 32 channels of the shipped memory and every set of rows,
\* headers and accesses.
THEOREM AlwaysRequestUnderstood ==
  ASSUME Shipped PROVE AddressSpec => []RequestUnderstood
<1> USE Given
<1>1. ASSUME AddressInv PROVE RequestUnderstood
  <2> SUFFICES ASSUME seen # None PROVE RequestUnderstood
    BY DEF RequestUnderstood
  <2>1. request \in Sent /\ Understood(request, addr, seen)
    <3>1. /\ request \in Sent
          /\ addr = address_of(request) /\ seen = meaning_of(request, addr)
      BY <1>1 DEF AddressInv
    <3> QED BY <3>1, Meaning
  <2>2. pow2[20 - 6] = 16384 BY Powers
  <2>3. request.kind # "block" => addr \div pow2[20 - 6] = request.row
    BY <2>1, <2>2 DEF Understood
  <2>4. CASE request.kind = "place"
    <3>1. /\ seen["ch"] = request["ch"] /\ seen["rank"] = request["rank"]
          /\ seen["bg"] = request["bg"] /\ seen["bank"] = request["bank"]
          /\ seen["row"] = request["row"] /\ seen["col"] = request["col"]
      BY <2>1, <2>4 DEF Understood
    <3>2. \A f \in {"ch", "rank", "bg", "bank", "row", "col"} : seen[f] = request[f] BY <3>1
    <3> QED BY <2>3, <2>4, <3>2 DEF RequestUnderstood
  <2>5. CASE request.kind = "header"
    BY <2>1, <2>3, <2>5 DEF Understood, RequestUnderstood
  <2>6. CASE request.kind = "comps_readres"
    <3>1. /\ seen["ch"] = request["ch"] /\ seen["row"] = request["row"]
          /\ seen["num_comps"] = request["num_comps"] /\ seen["last"] = request["last"]
      BY <2>1, <2>6 DEF Understood
    <3>2. \A f \in {"ch", "row", "num_comps", "last"} : seen[f] = request[f] BY <3>1
    <3> QED BY <2>3, <2>6, <3>2 DEF RequestUnderstood
  <2>7. CASE request.kind = "block" BY <2>3, <2>7 DEF RequestUnderstood
  <2> QED BY <2>1, <2>4, <2>5, <2>6, <2>7, KindOf
<1> QED BY <1>1, AddressInvHolds, PTL

-----------------------------------------------------------------------------
\* The number of an access in digits: its channel, its column and the rest.
LEMMA AccessDigits ==
  ASSUME NEW n \in Nat
  PROVE  /\ n \div 512 \in Nat /\ n % 32 \in 0..31 /\ (n \div 32) % 16 \in 0..15
         /\ n = (n \div 512) * 512 + ((n \div 32) % 16) * 32 + (n % 32)
  OBVIOUS

\* Digits: a consists of h, the channel l and the column x, from the top down.
Digits(a, h, l, x) == a % 16 = x /\ (a \div 16) % 32 = l /\ a \div 512 = h

\* The digits can be read back from the address that switch_co_ch gives.
LEMMA DigitsBack ==
  ASSUME NEW h \in Nat, NEW l \in 0..31, NEW x \in 0..15
  PROVE  Digits((h * 32 + l) * 16 + x, h, l, x)
  BY DEF Digits

LEMMA SwitchedDigits ==
  ASSUME NEW n \in Nat
  PROVE  Digits(switch_co_ch(n), n \div 512, n % 32, (n \div 32) % 16)
<1>1. PICK h \in Nat : h = n \div 512 BY AccessDigits
<1>2. PICK l \in 0..31 : l = n % 32 BY AccessDigits
<1>3. PICK x \in 0..15 : x = (n \div 32) % 16 BY AccessDigits
<1>4. Digits((h * 32 + l) * 16 + x, h, l, x) BY DigitsBack
<1>5. switch_co_ch(n) = (h * 32 + l) * 16 + x
  <2>1. switch_co_ch(n) = ((n \div 512) * 32 + (n % 32)) * 16 + ((n \div 32) % 16)
    BY Switched
  <2> QED BY <1>1, <1>2, <1>3, <2>1, Zenon
<1>6. Digits(switch_co_ch(n), h, l, x) BY <1>4, <1>5
<1> QED BY <1>1, <1>2, <1>3, <1>6

\* The channel of an access is the one its number names.
LEMMA ChannelOfAccess ==
  ASSUME Shipped, NEW n \in Nat
  PROVE  AddressMapping(switch_co_ch(n)).ch = n % 32
<1> DEFINE a == switch_co_ch(n)
<1>1. (a \div 16) % 32 = n % 32 BY SwitchedDigits DEF Digits
<1>2. pow2[4] = 16 /\ pow2[5] = 32 /\ channel_bits = 5
  BY Powers, ChannelBits
<1> HIDE DEF a
<1>3. AddressMapping(a).ch = (a \div 16) % 32
  BY <1>2 DEF AddressMapping, field, col_bits
<1> QED BY <1>1, <1>3 DEF a

\* No two accesses get the same address.
LEMMA AccessesApart ==
  ASSUME NEW n \in Nat, NEW b \in Nat, switch_co_ch(n) = switch_co_ch(b)
  PROVE  n = b
<1> DEFINE a == switch_co_ch(n)
<1>1. /\ Digits(a, n \div 512, n % 32, (n \div 32) % 16)
      /\ Digits(a, b \div 512, b % 32, (b \div 32) % 16)
  BY SwitchedDigits
<1> HIDE DEF a
<1>2. n \div 512 = b \div 512 /\ (n \div 32) % 16 = (b \div 32) % 16 /\ n % 32 = b % 32
  BY <1>1 DEF Digits
<1> QED BY <1>2, AccessDigits

\* BlocksSpread: the accesses of a tensor of the NPU go round the 32 channels,
\* and no two of them share an address, whatever the accesses are.
THEOREM AlwaysBlocksSpread ==
  ASSUME Shipped PROVE AddressSpec => []BlocksSpread
<1> USE Given
<1>1. ASSUME AddressInv PROVE BlocksSpread
  <2> SUFFICES ASSUME request.kind = "block", seen # None PROVE BlocksSpread
    BY DEF BlocksSpread
  <2>1. PICK n \in Nat : n = request.number
    BY <1>1, KindOf DEF AddressInv, Accesses, AddressesGiven
  <2>2. addr = switch_co_ch(n) /\ seen = AddressMapping(addr)
    BY <1>1, <2>1 DEF AddressInv, address_of, meaning_of
  <2>3. seen.ch = n % 32 BY <2>2, ChannelOfAccess DEF AddressesGiven
  <2>4. ASSUME NEW d \in 1..(dram_channels - 1), (n % dram_channels) + d < dram_channels
        PROVE  AddressMapping(switch_co_ch(n + d)).ch # seen.ch
    <3>1. dram_channels = 32 BY DEF AddressesGiven, Shipped
    <3>2. d \in 1..31 /\ (n % 32) + d < 32 BY <2>4, <3>1
    <3>3. n + d \in Nat /\ (n + d) % 32 = (n % 32) + d BY <3>2
    <3>4. AddressMapping(switch_co_ch(n + d)).ch = (n + d) % 32
      BY <3>3, ChannelOfAccess DEF AddressesGiven
    <3>5. n % 32 \in Int BY <2>1
    <3> QED BY <2>3, <3>2, <3>3, <3>4, <3>5
  <2>5. ASSUME NEW b \in AccessNumbers, switch_co_ch(b) = addr PROVE b = n
    <3>1. b \in Nat BY DEF AddressesGiven
    <3> QED BY <2>2, <2>5, <3>1, AccessesApart
  <2> QED BY <2>1, <2>4, <2>5 DEF BlocksSpread
<1> QED BY <1>1, AddressInvHolds, PTL
==============================================================================
