---------------------------- MODULE AddressConfig ----------------------------
(***************************************************************************)
(* The addresses that operations give to the memory: a place in a channel, *)
(* and the two commands of the PIM banks that carry numbers in the bits of *)
(* an address.  The decoding is the one of the memory simulator, with the  *)
(* mapping "rorabgbachco" of its configuration.                            *)
(*                                                                         *)
(* Addresses are counted in accesses of 2^offset bytes, so the six offset  *)
(* bits, which are zero, are left out.                                     *)
(*                                                                         *)
(* The names do not clash with those of Memory: MemoryProofs extends both. *)
(***************************************************************************)
EXTENDS Integers

CONSTANTS
  dram_channels,
  Rows,              \* rows of a bank used in requests
  Headers,           \* <<num_comps, num_readres>> of headers
  AccessNumbers      \* numbers of consecutive accesses of NPU tensors

\* The widths of the fields.
col_bits == 4
bank_bits == 2
bankgroup_bits == 2
rank_bits == 1
row_bits == 15
num_ch_bits == 5     \* in switch_co_ch, whatever dram_channels is

pow2[n \in 0..30] == IF n = 0 THEN 1 ELSE 2 * pow2[n - 1]
LogBase2(n) == IF n <= 1 THEN 0 ELSE CHOOSE k \in 1..15 : pow2[k] <= n /\ n < 2 * pow2[k]
channel_bits == LogBase2(dram_channels)

ASSUME AddressAssumption ==
  /\ dram_channels \in Nat \ {0} /\ dram_channels = pow2[channel_bits]
  /\ Rows \subseteq 0..(pow2[row_bits] - 1)
  /\ Headers \subseteq (1..128) \X (1..128) /\ AccessNumbers \subseteq Nat

VARIABLES request, addr, seen     \* what is sent, as an address, and what is understood

address_vars == <<request, addr, seen>>

Places   == [kind : {"place"}, ch : 0..(dram_channels - 1), rank : 0..1, bg : 0..3, bank : 0..3,
             row : Rows, col : {0, 5, 15}]
Prepares == [kind : {"header"}, ch : {0, dram_channels - 1}, row : Rows, header : Headers]
Commands == [kind : {"comps_readres"}, ch : {0, dram_channels - 1}, row : Rows, num_comps : 1..32,
             last : BOOLEAN]
Accesses == [kind : {"block"}, number : AccessNumbers]
Sent == Places \cup Prepares \cup Commands \cup Accesses

None == [kind |-> "none"]
AddressInit == request \in Sent /\ addr = -1 /\ seen = None

-----------------------------------------------------------------------------
\* x shifted left by n bits, with y in the bits that become free.  (The code
\* does not mask y: a field that is too large spills into the next one.)
shift_in(x, n, y) == x * pow2[n] + y
make_address(ch, rank, bg, bank, row, col) ==
  shift_in(shift_in(shift_in(shift_in(shift_in(row, rank_bits, rank), bankgroup_bits, bg),
    bank_bits, bank), channel_bits, ch), col_bits, col % 16)

encode_pim_header(ch, row, for_gwrite, num_comps, num_readres) ==
  LET log_comps   == (IF for_gwrite THEN 8 ELSE 0) + LogBase2(num_comps)
      log_readres == LogBase2(num_readres)
  IN  make_address(ch, log_readres \div 16, (log_readres \div 4) % 4, log_readres % 4, row, log_comps)

encode_pim_comps_readres_full(ch, row, num_comps, last_cmd) ==     \* mutant: num_comps, not one less
  make_address(ch, num_comps \div 16, (num_comps \div 4) % 4, num_comps % 4, row, IF last_cmd THEN 1 ELSE 0)
encode_pim_comps_readres(ch, row, num_comps, last_cmd) ==
  LET n == num_comps - 1
  IN  make_address(ch, n \div 16, (n \div 4) % 4, n % 4, row, IF last_cmd THEN 1 ELSE 0)

\* The five bits above the offset become the channel, the four above them the
\* column.
switch_co_ch_short(a) ==      \* mutant: four channel bits
  (a \div 512) * 512 + (a % 16) * 16 + ((a \div 16) % 16)
switch_co_ch(a) ==
  LET low  == a % pow2[num_ch_bits]
      next == (a \div pow2[num_ch_bits]) % pow2[col_bits]
      high == a \div pow2[num_ch_bits + col_bits]
  IN  (high * pow2[num_ch_bits] + low) * pow2[col_bits] + next

-----------------------------------------------------------------------------
\* The memory simulator: AddressMapping, DecodePIMHeader, DecodePIMTransaction.
field(a, pos, bits) == (a \div pow2[pos]) % pow2[bits]
AddressMapping(a) ==
  LET ch_pos == col_bits
      ba_pos == ch_pos + channel_bits
      bg_pos == ba_pos + bank_bits
      ra_pos == bg_pos + bankgroup_bits
      ro_pos == ra_pos + rank_bits
  IN  [ch |-> field(a, ch_pos, channel_bits), bank |-> field(a, ba_pos, bank_bits),
       bg |-> field(a, bg_pos, bankgroup_bits), rank |-> field(a, ra_pos, rank_bits),
       row |-> field(a, ro_pos, row_bits), col |-> field(a, 0, col_bits)]
bank_index(m) == m.rank * 16 + m.bg * 4 + m.bank
DecodePIMHeader(m) ==
  [ch |-> m.ch, row |-> m.row, for_gwrite |-> m.col \div 8 = 1,
   num_comps |-> pow2[m.col % 8], num_readres |-> pow2[bank_index(m)]]
DecodePIMTransaction(m) ==
  [ch |-> m.ch, row |-> m.row, num_comps |-> bank_index(m) + 1, last |-> m.col = 1]

\* The address an operation gives for request r.
address_of(r) ==
  CASE r.kind = "place"         -> make_address(r.ch, r.rank, r.bg, r.bank, r.row, r.col)
    [] r.kind = "header"        -> encode_pim_header(r.ch, r.row, FALSE, r.header[1], r.header[2])
    [] r.kind = "comps_readres" -> encode_pim_comps_readres(r.ch, r.row, r.num_comps, r.last)
    [] r.kind = "block"         -> switch_co_ch(r.number)

\* What the memory takes the address a of request r for.
meaning_of(r, a) ==
  CASE r.kind = "header"        -> DecodePIMHeader(AddressMapping(a))
    [] r.kind = "comps_readres" -> DecodePIMTransaction(AddressMapping(a))
    [] OTHER                    -> AddressMapping(a)

Encode == addr = -1 /\ addr' = address_of(request) /\ UNCHANGED <<request, seen>>

Decode ==
  /\ addr # -1 /\ seen = None
  /\ seen' = meaning_of(request, addr)
  /\ UNCHANGED <<request, addr>>

AddressNext == Encode \/ Decode
Done == seen # None /\ UNCHANGED address_vars
AddressSpec == AddressInit /\ [][AddressNext \/ Done]_address_vars

-----------------------------------------------------------------------------
\* The memory acts on what the operation meant: the place of an access; the
\* channel and the row of a command, and its numbers, which the header rounds
\* down to powers of two and the command carries exactly.  No header is taken
\* for the deprecated one of a GWRITE.  The row is where the allocator of the
\* caches (init_pim_layout) expects it: it divides an address by 2^20 bytes.
RequestUnderstood == seen # None =>
  /\ request.kind # "block" => addr \div pow2[20 - 6] = request.row
  /\ CASE request.kind = "place" ->
            \A f \in {"ch", "rank", "bg", "bank", "row", "col"} : seen[f] = request[f]
       [] request.kind = "header" ->
            /\ seen.ch = request.ch /\ seen.row = request.row /\ ~seen.for_gwrite
            /\ seen.num_comps <= request.header[1] /\ request.header[1] < 2 * seen.num_comps
            /\ seen.num_readres <= request.header[2] /\ request.header[2] < 2 * seen.num_readres
       [] request.kind = "comps_readres" ->
            \A f \in {"ch", "row", "num_comps", "last"} : seen[f] = request[f]
       [] OTHER -> TRUE

\* Neighbouring accesses of a tensor of the NPU go to different channels (all
\* channels take part before one is used again), and no two accesses have the
\* same address.
BlocksSpread == request.kind = "block" /\ seen # None =>
  /\ \A d \in 1..(dram_channels - 1) :
       (request.number % dram_channels) + d < dram_channels =>
         AddressMapping(switch_co_ch(request.number + d)).ch # seen.ch
  /\ \A b \in AccessNumbers : switch_co_ch(b) = addr => b = request.number
=============================================================================
