------------------------------- MODULE Memory -------------------------------
(***************************************************************************)
(* Who owns the addresses of the HBM: the allocators of weights,           *)
(* activations and key/value caches, and the tensors of a request's cache. *)
(*                                                                         *)
(* main_lib lays the three regions out one after the other.  A weight or   *)
(* an activation is a block of bytes.  The layout of the caches depends on *)
(* run_mode.  With PIM a PIMTensor holds whole DRAM rows: row r of a       *)
(* channel lies between the addresses r * RowBytes and (r + 1) * RowBytes, *)
(* which all channels share.  Without, the region is cut into entries of   *)
(* EntrySize vectors of one head, and an NPUTensorKV for each head holds a *)
(* list of them.                                                           *)
(*                                                                         *)
(* A failed `ast` raises a signal and ends the program: `aborted`.         *)
(***************************************************************************)
EXTENDS Integers, Sequences, FiniteSets

CONSTANTS
  Alignment,     \* dram_req_size * dram_channels
  RowBytes,      \* 1 << row_offset
  RowsPerBank,   \* row_per_bank
  ActBufSize,    \* HBM_act_buf_size
  NumChannels,   \* dram_channels
  BanksPerCh,    \* dram_banks_per_ch
  ElePerRow,     \* dram_page_size / precision
  NumEmbd,       \* model_n_embd
  Weights,       \* the sizes of the weights, in the order of init_params
  ActSizes,      \* the sizes of activations
  Requests,      \* Requests[r]: the channel and input_size of a request
  RunModes,      \* run_mode
  ActiveReqs,    \* max_active_reqs
  MaxSeqLen,     \* max_seq_len
  NumHeads, HeadDim, Precision,   \* h, d_k and the bytes of an element
  EntrySize,     \* _kv_cache_entry_size
  HbmSize,       \* HBM_size
  WordSize,      \* 2^32: the factors of the size of the caches are uint32_t
  MaxTokens      \* bound: calls of add_token for each tensor

Channels == 0..(NumChannels - 1)
Kinds    == {"KEY", "VALUE"}
Request  == [channel : Channels, seq_len : Nat \ {0}]
Tensors  == (DOMAIN Requests) \X Kinds
Heads    == 1..NumHeads

ASSUME MemoryAssumption ==
  /\ {Alignment, RowBytes, RowsPerBank, ActBufSize, NumChannels, BanksPerCh, ElePerRow,
      NumEmbd} \subseteq Nat \ {0}
  /\ Weights \in Seq(Nat \ {0}) /\ Weights # <<>>
  /\ ActSizes \subseteq Nat \ {0}
  /\ Requests \in Seq(Request)
  /\ MaxTokens \in Nat

ASSUME NpuLayoutAssumption ==
  /\ RunModes \subseteq {"NPU_ONLY", "NPU_PIM"} /\ ActiveReqs \subseteq Nat \ {0}
  /\ {MaxSeqLen, NumHeads, HeadDim, Precision, EntrySize, HbmSize, WordSize} \subseteq Nat \ {0}

VARIABLES
  wgt, wgt_top,                     \* WgtAlloc: weights <<base, size>>, _top_addr
  act, act_base, act_top,           \* ActAlloc: activations <<base, size>>
  rows,                             \* KVCacheAlloc: rows[ch], the free rows
  tensor,                           \* tensor[t]: the rows and _seq_len of a PIMTensor
  done,                             \* completed requests
  mode, max_active_reqs,            \* KVCacheAlloc::_mode, and the requests it has space for
  kv_cache,                         \* KVCacheAlloc: the free entries
  kv,                               \* kv[t]: _bases of each head, and _seq_len
  ready, aborted

npu == <<mode, max_active_reqs, kv_cache, kv>>
vars == <<wgt, wgt_top, act, act_base, act_top, rows, tensor, done, npu, ready, aborted>>

Init ==
  /\ wgt = <<>> /\ wgt_top = 0
  /\ act = <<>> /\ act_base = 0 /\ act_top = 0
  /\ rows = [ch \in Channels |-> <<>>]
  /\ tensor = [t \in Tensors |-> [rows |-> <<>>, seq_len |-> 0]]
  /\ mode \in RunModes /\ max_active_reqs \in ActiveReqs /\ kv_cache = <<>>
  /\ kv = [t \in Tensors |-> [bases |-> [h \in Heads |-> <<>>], seq_len |-> 0]]
  /\ done = {} /\ ready = FALSE /\ aborted = FALSE

ceil(a, b) == (a + b - 1) \div b

-----------------------------------------------------------------------------
\* The address above a block of `size` bytes at `top`, aligned (WgtAlloc and
\* ActAlloc::allocate), and the start of the region above `top`.
next_top(top, size) == Alignment * ceil(top + size, Alignment)
get_next_aligned_addr(a) == a - (a % Alignment) + Alignment

act_limit == act_base + ActBufSize

\* Model::init_params: one weight after the other.
CreateWeight ==
  /\ ~ready /\ Len(wgt) < Len(Weights)
  /\ LET size == Weights[Len(wgt) + 1]
     IN  /\ wgt' = Append(wgt, <<wgt_top, size>>)
         /\ wgt_top' = next_top(wgt_top, size)
  /\ UNCHANGED <<act, act_base, act_top, rows, tensor, done, npu, ready, aborted>>

\* KVCacheAlloc::init_pim_layout: the first row of the caches, and all rows
\* from there on, in every channel.
base_row(addr) == addr \div RowBytes + 1
FreeRows(first) == [k \in 1..(RowsPerBank - first) |-> first + k - 1]

\* KVCacheAlloc::init_npu_layout: entries of EntrySize vectors, of which there
\* are as many as the longest requests need.
num_tokens    == max_active_reqs * MaxSeqLen * NumHeads
kv_cache_size == (num_tokens * HeadDim * Precision) % WordSize
num_entries   == (num_tokens % WordSize) \div EntrySize
entry_bytes   == EntrySize * HeadDim * Precision
FreeEntries(base) == [k \in 1..num_entries |-> base + (k - 1) * entry_bytes]

\* main_lib, when the model has its weights, and KVCacheAlloc::init.
kv_base == get_next_aligned_addr(act_limit)
InitAllocators ==
  /\ ~ready /\ Len(wgt) = Len(Weights)
  /\ act_base' = get_next_aligned_addr(wgt_top)
  /\ act_top' = act_base'
  /\ \/ /\ mode = "NPU_PIM"
        /\ rows' = [ch \in Channels |-> FreeRows(base_row(kv_base'))]
        /\ UNCHANGED <<kv_cache, aborted>>
     \/ /\ mode = "NPU_ONLY" /\ kv_base' + kv_cache_size < HbmSize
        /\ kv_cache' = FreeEntries(kv_base')
        /\ UNCHANGED <<rows, aborted>>
     \/ /\ mode = "NPU_ONLY" /\ kv_base' + kv_cache_size >= HbmSize
        /\ aborted' = TRUE
        /\ UNCHANGED <<rows, kv_cache>>
  /\ ready' = TRUE
  /\ UNCHANGED <<wgt, wgt_top, act, tensor, done, mode, max_active_reqs, kv>>

-----------------------------------------------------------------------------
\* An activation (NPUTensor2D).  Nothing calls ActAlloc::flush.
fits_before_limit(size) == act_top < act_limit     \* mutant: the size is forgotten
fits(size) == act_top + size < act_limit
AllocateActivation(size) ==
  /\ ready /\ ~aborted
  /\ \/ /\ fits(size)
        /\ act' = Append(act, <<act_top, size>>)
        /\ act_top' = next_top(act_top, size)
        /\ UNCHANGED aborted
     \/ ~fits(size) /\ aborted' = TRUE /\ UNCHANGED <<act, act_top>>
  /\ UNCHANGED <<wgt, wgt_top, act_base, rows, tensor, done, npu, ready>>

\* The tokens that one allocation of a tensor has space for, its rows, and
\* the rows of all allocations for a number of tokens.
tokens_per_alloc(kind)   == IF kind = "KEY" THEN BanksPerCh ELSE ElePerRow
num_rows_per_alloc(kind) == IF kind = "KEY" THEN ceil(NumEmbd, ElePerRow) ELSE ceil(NumEmbd, BanksPerCh)
num_required_alloc(kind, seq_len) ==
  ceil(seq_len, tokens_per_alloc(kind)) * num_rows_per_alloc(kind)

\* The first n free rows of a channel go to tensor t (KVCacheAlloc::allocate).
Chan(t) == Requests[t[1]].channel
left_all(ch, n) == rows[ch]                        \* mutant: no pop_front
left(ch, n) == SubSeq(rows[ch], n + 1, Len(rows[ch]))
allocate(t, n, seq_len) ==
  LET ch == Chan(t)
  IN  \/ /\ n <= Len(rows[ch])
         /\ tensor' = [tensor EXCEPT ![t] = [rows |-> @.rows \o SubSeq(rows[ch], 1, n),
                                             seq_len |-> seq_len]]
         /\ rows' = [rows EXCEPT ![ch] = left(ch, n)]
         /\ UNCHANGED aborted
      \/ n > Len(rows[ch]) /\ aborted' = TRUE /\ UNCHANGED <<rows, tensor>>

Made(t) == tensor[t].seq_len > 0

\* A PIMTensor of a request: its key, then its value (allocate_requests).  In
\* mode NPU_ONLY there are no rows, and the assert on the mode fails.
NewTensor(t) ==
  LET len == Requests[t[1]].seq_len
  IN  /\ ready /\ ~aborted /\ ~Made(t)
      /\ t[2] = "VALUE" => Made(<<t[1], "KEY">>)
      /\ allocate(t, num_required_alloc(t[2], len), len)
      /\ UNCHANGED <<wgt, wgt_top, act, act_base, act_top, done, npu, ready>>

\* PIMTensor::get_allocated_seq_len and add_token: _seq_len is one more when
\* the allocated length is computed from it.
get_allocated_seq_len(kind, seq_len) == tokens_per_alloc(kind) * ceil(seq_len, tokens_per_alloc(kind))
add_token(t) ==
  LET len == tensor[t].seq_len + 1
  IN  /\ ready /\ ~aborted /\ Made(t) /\ t[1] \notin done
      /\ len <= Requests[t[1]].seq_len + MaxTokens
      /\ IF len <= get_allocated_seq_len(t[2], len)
         THEN tensor' = [tensor EXCEPT ![t].seq_len = len] /\ UNCHANGED <<rows, aborted>>
         ELSE allocate(t, num_rows_per_alloc(t[2]), len)
      /\ UNCHANGED <<wgt, wgt_top, act, act_base, act_top, done, npu, ready>>

\* cleanup_sub_batch completes a request; nothing calls KVCacheAlloc::free.
Complete(r) ==
  /\ ~aborted /\ r \notin done /\ \A k \in Kinds : Made(<<r, k>>)
  /\ done' = done \cup {r}
  /\ UNCHANGED <<wgt, wgt_top, act, act_base, act_top, rows, tensor, npu, ready, aborted>>

-----------------------------------------------------------------------------
\* The cache of a request without PIM: n entries for each head, head after head
\* (NPUTensor with NPUTensorKVs, KVCacheAlloc::allocate without a channel).
allocate_entries(t, n, seq_len) ==
  \/ /\ NumHeads * n <= Len(kv_cache)
     /\ kv' = [kv EXCEPT ![t] =
          [bases |-> [h \in Heads |-> @.bases[h] \o SubSeq(kv_cache, (h - 1) * n + 1, h * n)],
           seq_len |-> seq_len]]
     /\ kv_cache' = SubSeq(kv_cache, NumHeads * n + 1, Len(kv_cache))
     /\ UNCHANGED aborted
  \/ /\ NumHeads * n > Len(kv_cache)
     /\ aborted' = TRUE /\ UNCHANGED <<kv, kv_cache>>

NewTensorKV(t) ==
  LET len == Requests[t[1]].seq_len
  IN  /\ ready /\ ~aborted /\ mode = "NPU_ONLY" /\ kv[t].seq_len = 0
      /\ t[2] = "VALUE" => kv[<<t[1], "KEY">>].seq_len > 0
      /\ allocate_entries(t, ceil(len, EntrySize), len)
      /\ UNCHANGED <<wgt, wgt_top, act, act_base, act_top, rows, tensor, done, mode, max_active_reqs, ready>>

\* NPUTensor::add_token and NPUTensorKV::add_token: the allocated length is the
\* one of the entries the head has.
entries_for_token_late(t) == IF kv[t].seq_len > Len(kv[t].bases[1]) * EntrySize THEN 1 ELSE 0  \* mutant
entries_for_token(t) == IF kv[t].seq_len + 1 > Len(kv[t].bases[1]) * EntrySize THEN 1 ELSE 0
AddTokenKV(t) ==
  /\ ready /\ ~aborted /\ kv[t].seq_len > 0
  /\ kv[t].seq_len < Requests[t[1]].seq_len + MaxTokens
  /\ allocate_entries(t, entries_for_token(t), kv[t].seq_len + 1)
  /\ UNCHANGED <<wgt, wgt_top, act, act_base, act_top, rows, tensor, done, mode, max_active_reqs, ready>>

Next ==
  \/ CreateWeight \/ InitAllocators
  \/ \E size \in ActSizes : AllocateActivation(size)
  \/ \E t \in Tensors : NewTensor(t) \/ add_token(t) \/ NewTensorKV(t) \/ AddTokenKV(t)
  \/ \E r \in DOMAIN Requests : Complete(r)

Spec == Init /\ [][Next]_vars

-----------------------------------------------------------------------------
\* The values the state ranges over.
Blocks == Seq(Nat \X (Nat \ {0}))
TypeOK ==
  /\ wgt \in Blocks /\ act \in Blocks
  /\ wgt_top \in Nat /\ act_base \in Nat /\ act_top \in Nat
  /\ rows \in [Channels -> Seq(Nat)]
  /\ tensor \in [Tensors -> [rows : Seq(Nat), seq_len : Nat]]
  /\ mode \in RunModes /\ max_active_reqs \in ActiveReqs /\ kv_cache \in Seq(Nat)
  /\ kv \in [Tensors -> [bases : [Heads -> Seq(Nat)], seq_len : Nat]]
  /\ done \subseteq DOMAIN Requests
  /\ ready \in BOOLEAN /\ aborted \in BOOLEAN

\* No address belongs to two owners: the blocks of each region follow one
\* another, the activations start above the weights and end below the limit,
\* and the rows of the caches lie above that and inside the banks.
Ordered(s) == \A i, j \in DOMAIN s : i < j => s[i][1] + s[i][2] <= s[j][1]
Above(s, addr) == \A i \in DOMAIN s : s[i][1] >= addr
Below(s, addr) == \A i \in DOMAIN s : s[i][1] + s[i][2] <= addr
RowOK(r) == act_limit <= r * RowBytes /\ r < RowsPerBank
RegionsDisjoint ==
  /\ Ordered(wgt) /\ Ordered(act)
  /\ ready => Below(wgt, act_base)
  /\ Above(act, act_base) /\ Below(act, act_limit)
  /\ \A ch \in Channels : \A k \in DOMAIN rows[ch] : RowOK(rows[ch][k])
  /\ \A t \in Tensors : \A k \in DOMAIN tensor[t].rows : RowOK(tensor[t].rows[k])

\* A row of a channel is free once, or belongs to one tensor once: two
\* requests on a channel never share a row.
Distinct(s) == \A i, j \in DOMAIN s : s[i] = s[j] => i = j
Apart(s, u) == \A i \in DOMAIN s, j \in DOMAIN u : s[i] # u[j]
RowsExclusive ==
  /\ \A ch \in Channels : Distinct(rows[ch])
  /\ \A t \in Tensors : Distinct(tensor[t].rows) /\ Apart(tensor[t].rows, rows[Chan(t)])
  /\ \A t, u \in Tensors : t # u /\ Chan(t) = Chan(u) => Apart(tensor[t].rows, tensor[u].rows)

\* NPUTensorKV::get_addr of token i (from 0) of a head.
token_addr(t, h, i) ==
  kv[t].bases[h][i \div EntrySize + 1] + (i % EntrySize) * HeadDim * Precision

\* Without PIM, every token of a cache has an entry, however many were added,
\* and no byte of its vector belongs to another token, head, tensor or region:
\* as long as the size of the caches does not wrap around.
TokensApart ==
  LET tokens == UNION {{t} \X Heads \X (0..(kv[t].seq_len - 1)) : t \in Tensors}
      bytes  == HeadDim * Precision
  IN  num_tokens * bytes < WordSize =>
        /\ \A x \in tokens : Len(kv[x[1]].bases[x[2]]) * EntrySize > x[3]
        /\ \A x \in tokens : LET a == token_addr(x[1], x[2], x[3])
                             IN  act_limit <= a /\ a + bytes <= HbmSize
        /\ \A x, y \in tokens : x # y =>
             LET a == token_addr(x[1], x[2], x[3])  b == token_addr(y[1], y[2], y[3])
             IN  a + bytes <= b \/ b + bytes <= a
=============================================================================
