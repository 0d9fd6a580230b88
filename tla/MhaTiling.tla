------------------------------ MODULE MhaTiling ------------------------------
(***************************************************************************)
(* The operations that multi-head attention gives to the PIM banks.  With  *)
(* kernel fusion NeuPIMSLogitSoftmax (query * keys, softmax) and           *)
(* NeuPIMSAttend (logits * values); without it PIMGEMV or PIMGEMVSoftmax   *)
(* for the keys, and PIMGEMVAdd for the values.                            *)
(*                                                                         *)
(* The fused ones cut a sub-batch into tiles by what they expect a request *)
(* to need in the scratchpad, the others write one tile and assert that it *)
(* fits.  The instructions of a tile are written request by request: a     *)
(* GWRITE of the vector, then a header and the products of a row           *)
(* (COMPS_READRES, or COMP ... READRES), then a SOFTMAX, DUMMY or ADD over *)
(* the results and a MOVOUT.  Requests are 0 .. batch_size - 1, all of     *)
(* them past their prompt (q_len = 1); the other branch of the fused code  *)
(* ends in assert(false).  Addresses are counted from SPAD_BASE and        *)
(* ACCUM_SPAD_BASE.                                                        *)
(***************************************************************************)
EXTENDS Integers, Sequences, FiniteSets

CONSTANTS
  Operations,     \* a subset of AllOperations
  SeqLens, MaxBatch,    \* the lengths of requests, the size of a sub-batch
  NumEmbd, Dk,    \* model_n_embd, the width of a head
  TpSizes,        \* the values of n_tp
  PageSize,       \* elements of a DRAM row (dram_page_size / precision)
  Banks,          \* dram_banks_per_ch
  FixedBanks,     \* the 32 banks that PIMGEMV and PIMGEMVSoftmax are written for
  CompCoverage,   \* pim_comp_coverage: elements of one COMP
  Precision,      \* bytes of an element
  SpadSize,       \* spad_size KB / precision
  AddLimit        \* the 3000 KB that PIMGEMVAdd allows

AllOperations == {"LogitSoftmax", "Attend", "PIMGEMV", "PIMGEMVSoftmax", "PIMGEMVAdd"}

ASSUME MhaAssumption ==
  /\ Operations \subseteq AllOperations /\ SeqLens \subseteq Nat \ {0}
  /\ {MaxBatch, NumEmbd, Dk, PageSize, Banks, FixedBanks, CompCoverage, Precision, SpadSize, AddLimit}
       \subseteq Nat \ {0}
  /\ TpSizes \subseteq Nat \ {0} /\ \A n \in TpSizes : NumEmbd % (n * Dk) = 0
  /\ PageSize % Dk = 0        \* a row of keys holds whole heads

VARIABLES
  op, n_tp, seq_len,   \* the operation, the devices, and the length of each request
  i, sram_needs,    \* the request looked at, and the needs since the last cut
  req_idxs,         \* _req_idxs: the last request of each tile
  tiles, prev_idx,  \* the tiles, the last with the requests so far
  next,             \* the request to be written next
  spad_addr, acc_spad_addr,
  pc                \* "cut", "tile", "request", "done"; "aborted": a failed assert

vars == <<op, n_tp, seq_len, i, sram_needs, req_idxs, tiles, prev_idx, next, spad_addr, acc_spad_addr, pc>>

E  == NumEmbd \div n_tp
Nh == E \div Dk
Heads == 0..(Nh - 1)
Fused   == op \in {"LogitSoftmax", "Attend"}
OfKeys  == op \in {"LogitSoftmax", "PIMGEMV", "PIMGEMVSoftmax"}

ceil(a, b) == (a + b - 1) \div b
batch_size == Cardinality(DOMAIN seq_len)

Init ==
  /\ op \in Operations /\ n_tp \in TpSizes
  /\ seq_len \in UNION {[0..(n - 1) -> SeqLens] : n \in 1..MaxBatch}
  /\ i = 0 /\ sram_needs = 0 /\ req_idxs = <<>>
  /\ tiles = <<>> /\ prev_idx = 0 /\ next = 0
  /\ spad_addr = 0 /\ acc_spad_addr = 0 /\ pc = "cut"

-----------------------------------------------------------------------------
\* What a request is expected to need.  For Attend "seq_len" is the last
\* dimension of the values, which is the width of a head.
heads_space_in_page == (PageSize \div Dk) * Dk
need_sram_for_req(r) ==
  IF op = "LogitSoftmax" THEN (2 * seq_len[r] + Dk) * Nh * Precision
                         ELSE (Dk + ceil(E, heads_space_in_page) * Dk) * Nh * Precision

fresh_needs_zero(need) == 0    \* mutant: the first request of a tile is not counted
fresh_needs(need) == need

\* One turn of the loop of sram_size_needed (LogitSoftmax) or calculate_loops
\* (Attend): the tile ends before a request that does not fit.
CountRequest ==
  /\ pc = "cut" /\ Fused /\ i < batch_size
  /\ LET need == need_sram_for_req(i)
     IN  IF sram_needs + need <= SpadSize
         THEN sram_needs' = sram_needs + need /\ i' = i + 1 /\ UNCHANGED <<req_idxs, pc>>
         ELSE IF i = 0
         THEN pc' = "aborted" /\ UNCHANGED <<sram_needs, i, req_idxs>>
         ELSE /\ req_idxs' = Append(req_idxs, i - 1)
              /\ sram_needs' = fresh_needs(need) /\ i' = i + 1 /\ UNCHANGED pc
  /\ UNCHANGED <<op, n_tp, seq_len, tiles, prev_idx, next, spad_addr, acc_spad_addr>>

last_idx == i - 1
EndOfRequests ==
  /\ pc = "cut" /\ Fused /\ i = batch_size
  /\ req_idxs' = Append(req_idxs, last_idx) /\ pc' = "tile"
  /\ UNCHANGED <<op, n_tp, seq_len, i, sram_needs, tiles, prev_idx, next, spad_addr, acc_spad_addr>>

\* PIMGEMV, PIMGEMVSoftmax and PIMGEMVAdd: what sram_size_needed counts, in
\* bytes.  calculate_loops asserts that it is there, and all requests are one
\* tile.
total_seq_len == LET sum[r \in -1..(batch_size - 1)] == IF r < 0 THEN 0 ELSE sum[r - 1] + seq_len[r]
                 IN  sum[batch_size - 1]
sram_size_needed == (IF OfKeys THEN total_seq_len ELSE batch_size * Dk) * (NumEmbd \div Dk) * Precision
half_spad == (SpadSize * Precision) \div 2
sram_limit == IF OfKeys THEN half_spad ELSE AddLimit

OneTile ==
  /\ pc = "cut" /\ ~Fused
  /\ IF sram_size_needed < sram_limit
     THEN req_idxs' = <<batch_size - 1>> /\ pc' = "tile"
     ELSE pc' = "aborted" /\ UNCHANGED req_idxs
  /\ UNCHANGED <<op, n_tp, seq_len, i, sram_needs, tiles, prev_idx, next, spad_addr, acc_spad_addr>>

-----------------------------------------------------------------------------
\* LogBase2 rounds down; a header carries the logarithm of its two numbers.
PowersOfTwo == {1, 2, 4, 8, 16, 32, 64, 128}
encoded(n) == IF n = 0 THEN 1 ELSE CHOOSE p \in PowersOfTwo : p <= n /\ n < 2 * p
decoded_down(n) == encoded(n)     \* mutant: not rounded up
decoded_up(n) == IF encoded(n) < n THEN 2 * encoded(n) ELSE encoded(n)

\* The rows of the keys.  A chunk of the query (GWRITE) meets one row for each
\* group of `Banks` tokens, and the heads in this row.  PIMGEMV and
\* PIMGEMVSoftmax take the chunks of the whole model, and do not ask whether
\* the last one is full.
chunks == ceil(IF Fused THEN E ELSE NumEmbd, PageSize)
heads_per_tile == ceil(PageSize, Dk)
heads_in_last_chunk == IF E % PageSize = 0 THEN heads_per_tile ELSE ceil(E % PageSize, Dk)
gemv_heads_in_last_chunk == ceil(NumEmbd % PageSize, Dk)
heads_in_tile(c) ==
  IF c < chunks - 1 THEN heads_per_tile
  ELSE IF Fused THEN heads_in_last_chunk ELSE gemv_heads_in_last_chunk
comps_per_head == ceil(Dk, CompCoverage)
allocated_seq_len(r) == ceil(seq_len[r], Banks) * Banks
tiles_per_chunk(r) == allocated_seq_len(r) \div (IF Fused THEN Banks ELSE FixedBanks)
key_row(c, t) == t * chunks + c

\* Attend, PIMGEMVAdd: a chunk of the logits meets the rows of one head.
value_chunks(r) == ceil(seq_len[r], PageSize)
value_tiles == ceil(Dk, Banks)
num_comps(r, c) == IF c = value_chunks(r) - 1 /\ seq_len[r] % PageSize > 0
                   THEN ceil(seq_len[r] % PageSize, CompCoverage)
                   ELSE PageSize \div CompCoverage
value_row_by_page(r, c, t) == (t * value_chunks(r) + c) \div 2    \* mutant: two chunks in a row
value_row(r, c, t) == t * value_chunks(r) + c

\* The instructions of a request, as sets.  `at` is the place in the program:
\* request, then the loops.  The results of products follow one another in the
\* scratchpad; GWRITE and headers take no space.
readres_size == (IF OfKeys /\ ~Fused THEN FixedBanks ELSE Banks) * Precision
nth_same(n) == spad_addr + (n \div 2) * readres_size    \* mutant: two results, one place
nth(n) == spad_addr + n * readres_size

\* LogitSoftmax; PIMGEMV and PIMGEMVSoftmax write the same with their numbers of
\* chunks, tiles and heads.
logit_headers(r) ==
  {[at |-> <<r, 0, c, t, 0, 0>>, for_gwrite |-> FALSE, row |-> key_row(c, t),
    comps |-> encoded(comps_per_head * heads_in_tile(c)), readres |-> encoded(heads_in_tile(c))] :
     c \in 0..(chunks - 1), t \in 0..(tiles_per_chunk(r) - 1)}
logit_gemvs(r) == UNION
  {{[at |-> <<r, 0, c, t, 1, h>>, row |-> key_row(c, t), comps |-> comps_per_head,
     req |-> r, head |-> heads_per_tile * c + h, part |-> t,
     dest |-> nth(c * tiles_per_chunk(r) * heads_per_tile + t * heads_in_tile(c) + h)] :
      t \in 0..(tiles_per_chunk(r) - 1), h \in 0..(heads_in_tile(c) - 1)} : c \in 0..(chunks - 1)}
logit_sums(r, gemvs) ==
  {[at |-> <<r, 1, h, 0, 0, 0>>, req |-> r, head |-> h,
    dest |-> acc_spad_addr + h * seq_len[r] * Precision, size |-> seq_len[r] * Precision,
    srcs |-> {g.dest : g \in {x \in gemvs : x.head = h}}] : h \in Heads}

\* PIMGEMV announces a GWRITE with a header of its own.
gwrite_headers(r) ==
  {[at |-> <<r, 0, c, -1, 0, 0>>, for_gwrite |-> TRUE, row |-> 0, comps |-> encoded(0), readres |-> encoded(0)] :
     c \in 0..(chunks - 1)}

\* sram_readres_addrs[hi].size() == tiles_per_chunk
logit_asserts(r, gemvs) ==
  \A h \in Heads : Cardinality({g \in gemvs : g.head = h}) = tiles_per_chunk(r)

attend_headers(r) ==
  {[at |-> <<r, h, 0, c, t, 0>>, for_gwrite |-> FALSE, row |-> value_row(r, c, t),
    comps |-> encoded(decoded_up(num_comps(r, c))), readres |-> encoded(1)] :
     h \in Heads, c \in 0..(value_chunks(r) - 1), t \in 0..(value_tiles - 1)}
attend_gemvs(r) ==
  {[at |-> <<r, h, 0, c, t, 1>>, row |-> value_row(r, c, t), comps |-> num_comps(r, c),
    req |-> r, head |-> h, part |-> c,
    dest |-> nth((h * value_chunks(r) + c) * value_tiles + t)] :
     h \in Heads, c \in 0..(value_chunks(r) - 1), t \in 0..(value_tiles - 1)}
\* One ADD for each group of columns, and only if there is more than a chunk.
attend_sums(r, gemvs) ==
  IF value_chunks(r) = 1 THEN {} ELSE
  {[at |-> <<r, h, 1, t, 0, 0>>, req |-> r, head |-> h,
    dest |-> acc_spad_addr + (h * value_tiles + t) * value_tiles * readres_size,
    size |-> value_tiles * readres_size,
    srcs |-> {g.dest : g \in {x \in gemvs : x.head = h /\ x.at[5] = t}}] :
     h \in Heads, t \in 0..(value_tiles - 1)}

\* One turn of the loop over the requests of a tile.  Every SOFTMAX, DUMMY or
\* ADD is followed by the MOVOUT of what it computed.
Write(headers, gemvs, sums) ==
  LET n == Len(tiles)
  IN  /\ tiles' = [tiles EXCEPT
           ![n].headers = @ \cup headers, ![n].gemvs = @ \cup gemvs, ![n].sums = @ \cup sums,
           ![n].stores = @ \cup {[at |-> [s.at EXCEPT ![5] = 1], src |-> s.dest,
                                  req |-> s.req, head |-> s.head] : s \in sums}]
      /\ spad_addr' = nth(Cardinality(gemvs))
      /\ acc_spad_addr' = acc_spad_addr +
           (IF sums = {} THEN 0 ELSE Cardinality(sums) * (CHOOSE s \in sums : TRUE).size)
      /\ next' = next + 1
      /\ pc' = IF next < tiles[n].end THEN "request"
               ELSE IF n < Len(req_idxs) THEN "tile" ELSE "done"

Abort == pc' = "aborted" /\ UNCHANGED <<tiles, spad_addr, acc_spad_addr, next>>

\* initialize_instructions of the operations on keys, and of those on values.
AddKeys(headers) ==
  LET gemvs == logit_gemvs(next)
  IN  IF logit_asserts(next, gemvs) THEN Write(headers, gemvs, logit_sums(next, gemvs)) ELSE Abort
AddValues ==
  LET gemvs == attend_gemvs(next)
  IN  Write(attend_headers(next), gemvs, attend_sums(next, gemvs))

AddLogit  == op = "LogitSoftmax" /\ AddKeys(logit_headers(next))
AddAttend == op = "Attend" /\ AddValues
AddGemv   == op = "PIMGEMV" /\ AddKeys(logit_headers(next) \cup gwrite_headers(next))
AddGemvSoftmax == op = "PIMGEMVSoftmax" /\ AddKeys(logit_headers(next))
AddGemvAdd     == op = "PIMGEMVAdd" /\ AddValues

AddRequest ==
  /\ pc = "request"
  /\ AddLogit \/ AddAttend \/ AddGemv \/ AddGemvSoftmax \/ AddGemvAdd
  /\ UNCHANGED <<op, n_tp, seq_len, i, sram_needs, req_idxs, prev_idx>>

\* mutant: the next tile starts after the request that follows a cut
NewTile_skip ==
  /\ pc = "tile"
  /\ LET n == Len(tiles) + 1
     IN  /\ tiles' = Append(tiles, [start |-> prev_idx, end |-> req_idxs[n],
                            headers |-> {}, gemvs |-> {}, sums |-> {}, stores |-> {}])
         /\ prev_idx' = IF n < Len(req_idxs) THEN req_idxs[n + 1] ELSE req_idxs[n]
         /\ next' = prev_idx /\ pc' = "request"
  /\ UNCHANGED <<op, n_tp, seq_len, i, sram_needs, req_idxs, spad_addr, acc_spad_addr>>

\* initialize_tiles: tile number n, from the last request of the tile before.
NewTile ==
  /\ pc = "tile"
  /\ LET n == Len(tiles) + 1
     IN  IF n = Len(req_idxs) /\ req_idxs[n] # batch_size - 1
         THEN pc' = "aborted" /\ UNCHANGED <<tiles, prev_idx, next>>
         ELSE /\ tiles' = Append(tiles, [start |-> prev_idx, end |-> req_idxs[n],
                                 headers |-> {}, gemvs |-> {}, sums |-> {}, stores |-> {}])
              /\ prev_idx' = req_idxs[n] /\ next' = prev_idx /\ pc' = "request"
  /\ UNCHANGED <<op, n_tp, seq_len, i, sram_needs, req_idxs, spad_addr, acc_spad_addr>>

Next == CountRequest \/ EndOfRequests \/ OneTile \/ NewTile \/ AddRequest
Done == pc \in {"done", "aborted"} /\ UNCHANGED vars
Spec == Init /\ [][Next \/ Done]_vars

-----------------------------------------------------------------------------
Before(p, q) == \E k \in 1..6 : p[k] < q[k] /\ \A j \in 1..(k - 1) : p[j] = q[j]

\* A result is the only one with its address in its tile, and the addresses
\* that a SOFTMAX or ADD reads are results of its own request and head, one
\* for each part of them, computed before it; two sums do not share space.  The
\* core runs an instruction as soon as its sources are there, whosever they
\* are (Sram::check_hit).  The places of size 0 that GWRITE and headers take are
\* left out: they are the key of the result that follows, and the core makes no
\* entry for them (FillsAreExpected of NeuPIMSCore has such a tile).
SourcesLoaded == \A k \in DOMAIN tiles : LET T == tiles[k] IN
  /\ \A g, h \in T.gemvs : g.dest = h.dest => g = h
  /\ \A s \in T.sums :
       LET from == {g \in T.gemvs : g.dest \in s.srcs}
           parts == IF OfKeys THEN tiles_per_chunk(s.req) ELSE value_chunks(s.req)
       IN  /\ \A g \in from : g.req = s.req /\ g.head = s.head /\ Before(g.at, s.at)
           /\ {g.part : g \in from} = 0..(parts - 1)
           /\ Cardinality(from) = parts
  /\ \A s, u \in T.sums : s # u => s.dest + s.size <= u.dest \/ u.dest + u.size <= s.dest

\* When all tiles are written, every head of every request is stored from a
\* sum that was computed before in the same tile: no request is lost at a
\* cut.  (A request whose values are a single chunk has no sum.)
OutputsStored == pc = "done" =>
  \A r \in DOMAIN seq_len, h \in Heads :
    OfKeys \/ value_chunks(r) > 1 =>
      \E k \in DOMAIN tiles : \E m \in tiles[k].stores, s \in tiles[k].sums :
        /\ m.req = r /\ m.head = h /\ s.req = r /\ s.head = h
        /\ m.src = s.dest /\ Before(s.at, m.at)

\* The memory is told by a header how long a row is in use: the commands that
\* follow a header, up to the next one, are for the row of this header, and
\* need no more COMPs and READRESs than it announces.  No product follows the
\* header of a GWRITE.  (The header of a row of keys is not rounded up as that
\* of values is: it announces too little when its numbers are not powers of
\* two.  No header announces more than 128.)
HeadersAnnounce ==
  (IF OfKeys THEN \A c \in 0..(chunks - 1) :
                    {heads_in_tile(c), comps_per_head * heads_in_tile(c)} \subseteq PowersOfTwo
             ELSE PageSize <= 128 * CompCoverage) =>
  \A k \in DOMAIN tiles : LET T == tiles[k] IN \A h \in T.headers :
    LET later == {x \in T.headers : Before(h.at, x.at)}
        under == {g \in T.gemvs : Before(h.at, g.at) /\ \A x \in later : Before(g.at, x.at)}
    IN  IF h.for_gwrite THEN under = {} ELSE
        /\ under # {} /\ \A g \in under : g.row = h.row
        /\ Cardinality(under) <= h.readres
        /\ \A g \in under : Cardinality(under) * g.comps <= h.comps

\* The rows of a tensor, as PIMTensor allocates them, with the embedding of the
\* whole model.
num_rows(r) == IF OfKeys
               THEN ceil(NumEmbd, PageSize) * ceil(seq_len[r], Banks)
               ELSE ceil(NumEmbd, Banks) * ceil(seq_len[r], PageSize)

\* The rows a request is computed from exist in its tensor (_rows[...] is not
\* checked), and the products of one head are of different rows.
RowsInTensor == \A k \in DOMAIN tiles : \A g \in tiles[k].gemvs :
  /\ g.row < num_rows(g.req)
  /\ \A h \in tiles[k].gemvs : h.req = g.req /\ h.head = g.head /\ h.row = g.row => h = g

\* The cut of LogitSoftmax: when each request fits the scratchpad alone, the
\* requests of a tile fit it together.  This leaves out the request that a
\* tile repeats from the end of the tile before it: with that one a tile may
\* need more than there is.  The single tile of PIMGEMV and PIMGEMVSoftmax: what
\* is read out of the banks fits half of the scratchpad, for lengths that are
\* multiples of the banks (the rest of a group of banks is not counted).
NeedsOf(a, b) == LET sum[r \in (a - 1)..b] == IF r < a THEN 0 ELSE sum[r - 1] + need_sram_for_req(r)
                 IN  sum[b]
GemvsFit == (\A r \in DOMAIN seq_len : seq_len[r] % Banks = 0) => spad_addr <= half_spad
CutFits ==
  /\ op = "LogitSoftmax" /\ (\A r \in DOMAIN seq_len : need_sram_for_req(r) <= SpadSize) =>
       \A k \in DOMAIN tiles :
         NeedsOf(tiles[k].start + (IF k = 1 THEN 0 ELSE 1), tiles[k].end) <= SpadSize
  /\ OfKeys /\ ~Fused => GemvsFit
=============================================================================
