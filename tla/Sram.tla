-------------------------------- MODULE Sram --------------------------------
(***************************************************************************)
(* One side of an on-chip buffer (class Sram).  `entry` is _cache_table:   *)
(* an address is in its domain when it is allocated, and its entry counts  *)
(* the memory answers and computations that still have to arrive.  The     *)
(* assert() of each operation is an operator of its own, a condition that  *)
(* the callers have to meet.                                               *)
(***************************************************************************)
EXTENDS Integers

Entry(ok, n) == [valid |-> ok, remain |-> n]

NoEntry == [a \in {} |-> Entry(FALSE, 0)]
Flushed == [used |-> 0, entry |-> NoEntry]

flush_keeps_size(s) == [s EXCEPT !.entry = NoEntry]   \* mutant: _current_size is kept
flush(s) == Flushed

check_allocated(s, a) == a \in DOMAIN s.entry
check_hit(s, a)       == check_allocated(s, a) /\ s.entry[a].valid
check_remain(s, size, capacity) == s.used + size <= capacity

SetEntry(s, a, e) == [x \in DOMAIN s.entry \cup {a} |-> IF x = a THEN e ELSE s.entry[x]]

reserve_asserts(s, a, size, capacity) ==
  ~check_allocated(s, a) /\ check_remain(s, size, capacity)
reserve(s, a, size, count) ==
  [used |-> s.used + size, entry |-> SetEntry(s, a, Entry(FALSE, count))]

fill_asserts(s, a) ==
  check_allocated(s, a) /\ s.entry[a].remain > 0 /\ ~s.entry[a].valid
fill(s, a) ==
  LET n == s.entry[a].remain - 1
  IN  [s EXCEPT !.entry = SetEntry(s, a, Entry(n = 0 \/ s.entry[a].valid, n))]

\* Mutant: the entry is no longer valid, but one computation is not awaited.
count_up_forgotten(s, a) ==
  [s EXCEPT !.entry = SetEntry(s, a, Entry(FALSE, s.entry[a].remain))]
count_up(s, a) ==
  [s EXCEPT !.entry = SetEntry(s, a, Entry(FALSE, s.entry[a].remain + 1))]
=============================================================================
