---------------------------- MODULE Interconnect ----------------------------
(***************************************************************************)
(* The way of a memory access from a core through SimpleInterconnect to    *)
(* its DRAM channel and back (the interconnect part of Simulator::cycle).  *)
(*                                                                         *)
(* Core c owns one node of the network per channel, every channel one more.*)
(* A node sends one access per cycle from its in-buffer, a node receives   *)
(* at most one per cycle; the order in which nodes are served rotates.     *)
(* The DRAM itself (NewtonSim) is outside the repository's own code: here  *)
(* it accepts an access or is full, and answers what it has accepted in    *)
(* any order.                                                              *)
(*                                                                         *)
(* `pc` and `port` are the place in Simulator::cycle: one step per turn of *)
(* its two loops.  Cores make requests and the DRAM answers in between.    *)
(***************************************************************************)
EXTENDS Integers, Sequences, FiniteSets

CONSTANTS
  NumCores,       \* num_cores
  NumMemories,    \* dram_channels
  Latency,        \* icnt_latency
  Access          \* the accesses to be made, in the order each core makes them

Cores    == 0..(NumCores - 1)
Channels == 0..(NumMemories - 1)
SA  == 1          \* also: _memory_request_queues1, _mem_req_queue1
PIM == 2
Queues == {SA, PIM}

\* `responds` is FALSE for a P_HEADER, which the memory swallows.
AccessRecord == [core : Cores, channel : Channels, platform : Queues, responds : BOOLEAN]

ASSUME InterconnectAssumption ==
  /\ NumCores \in Nat \ {0} /\ NumMemories \in Nat \ {0}
  /\ Latency \in Nat
  /\ Access \in Seq(AccessRecord)

Accesses == DOMAIN Access
dram_offset == NumCores * NumMemories
n_nodes     == dram_offset + NumMemories
Nodes       == 0..(n_nodes - 1)
OutNodes    == 0..(dram_offset - 1)

VARIABLES
  sub_batch_mode,  \* _config.sub_batch_mode, which nothing changes
  made,            \* the accesses that cores have made
  request_queues,  \* request_queues[c][ch][q]: waiting in core c
  in_buffers,      \* in_buffers[n]: <<wait, dest, access>> entities
  out_buffers,     \* out_buffers[n]: answers for the core that owns n
  mem_req_queue,   \* mem_req_queue[q][ch]: waiting for the DRAM
  dram,            \* dram[ch]: accepted, not answered
  answered,        \* answered[ch]: answers that wait for the network
  delivered,       \* delivered[c]: the answers core c was given
  rr_start, pc, port

vars == <<sub_batch_mode, made, request_queues, in_buffers, out_buffers, mem_req_queue, dram,
          answered, delivered, rr_start, pc, port>>

\* _rr_start has no initial value in the code.
Init ==
  /\ sub_batch_mode \in BOOLEAN
  /\ made = {}
  /\ request_queues = [c \in Cores |-> [ch \in Channels |-> [q \in Queues |-> <<>>]]]
  /\ in_buffers  = [n \in Nodes |-> <<>>]
  /\ out_buffers = [n \in OutNodes |-> <<>>]
  /\ mem_req_queue = [q \in Queues |-> [ch \in Channels |-> <<>>]]
  /\ dram = [ch \in Channels |-> {}]
  /\ answered  = [ch \in Channels |-> <<>>]
  /\ delivered = [c \in Cores |-> {}]
  /\ rr_start \in Nodes
  /\ pc = "idle" /\ port = 0

Rest(s) == IF s = <<>> THEN s ELSE Tail(s)

-----------------------------------------------------------------------------
\* The node that Simulator::cycle uses for a channel of a core, and where
\* get_dest_node sends a request and an answer.
core_ind_channel_only(c, ch) == ch      \* mutant: the cores share their nodes
core_ind(c, ch) == c * NumCores + ch
mem_ind(ch)     == NumCores * NumMemories + ch
request_dest(a) == NumCores * NumMemories + Access[a].channel
answer_dest(a)  == Access[a].core * NumMemories + Access[a].channel

\* SimpleInterconnect::push.  `wait` is finish_cycle relative to _cycles, and
\* stays at 0 when it is due.
push(b, d, a) ==
  Append(b, [wait |-> IF b = <<>> THEN Latency ELSE b[Len(b)].wait + 1,
             dest |-> d, access |-> a])

push_front(b, q) == IF q = <<>> THEN b ELSE push(b, request_dest(Head(q)), Head(q))

-----------------------------------------------------------------------------
\* push_memory_request1 and 2: a core makes its accesses in the order of Access.
MakeRequest(a) ==
  LET r == Access[a]
  IN  /\ pc = "idle" /\ a \in Accesses \ made
      /\ \A b \in Accesses \ made : Access[b].core = r.core => a <= b
      /\ made' = made \cup {a}
      /\ request_queues' =
           [request_queues EXCEPT ![r.core][r.channel][r.platform] = Append(@, a)]
      /\ UNCHANGED <<sub_batch_mode, in_buffers, out_buffers, mem_req_queue, dram, answered,
                     delivered, rr_start, pc, port>>

\* The memory has finished an access.
DramAnswer(ch, a) ==
  /\ pc = "idle" /\ a \in dram[ch]
  /\ dram' = [dram EXCEPT ![ch] = @ \ {a}]
  /\ answered' = IF Access[a].responds THEN [answered EXCEPT ![ch] = Append(@, a)] ELSE answered
  /\ UNCHANGED <<sub_batch_mode, made, request_queues, in_buffers, out_buffers, mem_req_queue,
                 delivered, rr_start, pc, port>>

StartIcnt ==
  /\ pc = "idle" /\ pc' = "cores" /\ port' = 0
  /\ UNCHANGED <<sub_batch_mode, made, request_queues, in_buffers, out_buffers, mem_req_queue,
                 dram, answered, delivered, rr_start>>

\* One turn of the loop over cores and channels: at most one request of each
\* queue goes to the network, at most one answer comes back.
CorePort ==
  LET c  == port \div NumMemories
      ch == port % NumMemories
      n  == core_ind(c, ch)
      q  == request_queues[c][ch]
  IN  /\ pc = "cores"
      /\ in_buffers' = [in_buffers EXCEPT ![n] = push_front(push_front(@, q[SA]), q[PIM])]
      /\ request_queues' = [request_queues EXCEPT ![c][ch] = [x \in Queues |-> Rest(@[x])]]
      /\ out_buffers' = [out_buffers EXCEPT ![n] = Rest(@)]
      /\ delivered' = [delivered EXCEPT ![c] =
                         @ \cup {out_buffers[n][k] : k \in 1..Len(out_buffers[n]) \cap {1}}]
      /\ IF port = dram_offset - 1 THEN pc' = "memories" /\ port' = 0
                                   ELSE pc' = "cores" /\ port' = port + 1
      /\ UNCHANGED <<sub_batch_mode, made, mem_req_queue, dram, answered, rr_start>>

\* One turn of the loop over channels: each of the two queues hands its front
\* to the DRAM unless that is full, and one answer goes to the network.
accepted(ch, full) ==
  {q \in Queues \ full : mem_req_queue[q][ch] # <<>>}

memreq_pop_first_only(taken) == taken \cap {SA}    \* mutant: memreq_pop2 is forgotten
memreq_pop(taken) == taken

MemoryPort(full) ==
  LET ch == port
      taken == accepted(ch, full)
  IN  /\ pc = "memories"
      /\ dram' = [dram EXCEPT ![ch] = @ \cup {Head(mem_req_queue[q][ch]) : q \in taken}]
      /\ mem_req_queue' = [q \in Queues |->
            IF q \in memreq_pop(taken) THEN [mem_req_queue[q] EXCEPT ![ch] = Tail(@)]
                                          ELSE mem_req_queue[q]]
      /\ answered' = [answered EXCEPT ![ch] = Rest(@)]
      /\ in_buffers' = IF answered[ch] = <<>> THEN in_buffers
                       ELSE [in_buffers EXCEPT ![mem_ind(ch)] =
                               push(@, answer_dest(Head(answered[ch])), Head(answered[ch]))]
      /\ IF port = NumMemories - 1 THEN pc' = "icnt" /\ port' = 0
                                   ELSE pc' = "memories" /\ port' = port + 1
      /\ UNCHANGED <<sub_batch_mode, made, request_queues, out_buffers, delivered, rr_start>>

-----------------------------------------------------------------------------
\* SimpleInterconnect::cycle.  Of the nodes with a due access for the same
\* destination, the first one after rr_start sends it.
Due   == {n \in Nodes : in_buffers[n] # <<>> /\ Head(in_buffers[n]).wait = 0}
rank(n) == (n - rr_start) % n_nodes
Moves == {n \in Due : \A m \in Due :
            Head(in_buffers[m]).dest = Head(in_buffers[n]).dest => rank(n) <= rank(m)}

\* Without sub-batches every request is sent as one of the systolic array.
queue_of_turn(a) == IF rr_start % 2 = 0 THEN SA ELSE PIM    \* mutant: the queues in turn
queue_of(a) == IF sub_batch_mode THEN Access[a].platform ELSE SA

Arrive(s, dest, for) ==
  LET from == {n \in Moves : Head(in_buffers[n]).dest = dest /\ Head(in_buffers[n]).access \in for}
  IN  IF from = {} THEN s ELSE Append(s, Head(in_buffers[CHOOSE n \in from : TRUE]).access)

Aged(b) == [k \in DOMAIN b |-> [wait |-> IF b[k].wait = 0 THEN 0 ELSE b[k].wait - 1,
                                dest |-> b[k].dest, access |-> b[k].access]]

IcntCycle ==
  /\ pc = "icnt" /\ pc' = "idle" /\ port' = 0
  /\ out_buffers' = [n \in OutNodes |-> Arrive(out_buffers[n], n, Accesses)]
  /\ mem_req_queue' = [q \in Queues |-> [ch \in Channels |->
        Arrive(mem_req_queue[q][ch], mem_ind(ch), {a \in Accesses : queue_of(a) = q})]]
  /\ in_buffers' = [n \in Nodes |-> Aged(IF n \in Moves THEN Tail(in_buffers[n])
                                                        ELSE in_buffers[n])]
  /\ rr_start' = (rr_start + 1) % n_nodes
  /\ UNCHANGED <<sub_batch_mode, made, request_queues, dram, answered, delivered>>

Next ==
  \/ \E a \in Accesses : MakeRequest(a)
  \/ \E ch \in Channels : \E a \in dram[ch] : DramAnswer(ch, a)
  \/ StartIcnt \/ CorePort \/ IcntCycle
  \/ \E full \in SUBSET Queues : MemoryPort(full)

Spec == Init /\ [][Next]_vars

\* The simulation loop goes on, the DRAM answers what it has accepted and is
\* not full for ever.  There are finitely many accesses, so it is enough that
\* some of them are answered and accepted again and again.
Fairness ==
  /\ WF_vars(Next)
  /\ SF_vars(\E ch \in Channels : \E a \in dram[ch] : DramAnswer(ch, a))
  /\ SF_vars(pc = "memories" /\ accepted(port, {}) # {} /\ MemoryPort({}))
FairSpec == Spec /\ Fairness

-----------------------------------------------------------------------------
\* The values the state ranges over.
TypeOK ==
  /\ sub_batch_mode \in BOOLEAN
  /\ made \subseteq Accesses
  /\ \A c \in Cores, ch \in Channels, q \in Queues : request_queues[c][ch][q] \in Seq(Accesses)
  /\ \A n \in Nodes : \A k \in DOMAIN in_buffers[n] :
       in_buffers[n][k] \in [wait : Nat, dest : Nodes, access : Accesses]
  /\ \A n \in OutNodes : out_buffers[n] \in Seq(Accesses)
  /\ \A q \in Queues, ch \in Channels : mem_req_queue[q][ch] \in Seq(Accesses)
  /\ \A ch \in Channels : dram[ch] \subseteq Accesses /\ answered[ch] \in Seq(Accesses)
  /\ \A c \in Cores : delivered[c] \subseteq Accesses
  /\ rr_start \in Nodes /\ pc \in {"idle", "cores", "memories", "icnt"}
  /\ port \in Nat

\* The places where an access is, with its position there.
At(a, s) == {k \in DOMAIN s : s[k] = a}
Where(a) ==
  UNION {
    UNION {{<<"request", c, ch, q, k>> : k \in At(a, request_queues[c][ch][q])} :
             c \in Cores, ch \in Channels, q \in Queues},
    UNION {{<<IF in_buffers[n][k].dest < dram_offset THEN "answer" ELSE "request", n, 0, 0, k>> :
             k \in {i \in DOMAIN in_buffers[n] : in_buffers[n][i].access = a}} : n \in Nodes},
    UNION {{<<"request", q, ch, -1, k>> : k \in At(a, mem_req_queue[q][ch])} :
             q \in Queues, ch \in Channels},
    {<<"dram", ch, 0, 0, 0>> : ch \in {x \in Channels : a \in dram[x]}},
    UNION {{<<"answer", ch, 0, -1, k>> : k \in At(a, answered[ch])} : ch \in Channels},
    UNION {{<<"answer", n, 0, -2, k>> : k \in At(a, out_buffers[n])} : n \in OutNodes},
    {<<"delivered", c, 0, 0, 0>> : c \in {x \in Cores : a \in delivered[x]}}}

\* No access is lost or doubled on its way through five kinds of queues: the
\* counters of its tile (which wait for every answer) depend on it.  Only a
\* P_HEADER disappears, in the memory.  An answer is given to the core that
\* made the access: that core has its tile and its buffer, and
\* push_memory_response asserts in any other.
AccessesConserved ==
  /\ \A a \in Accesses :
       IF a \in made
       THEN Cardinality(Where(a)) = 1 \/ (~Access[a].responds /\ Where(a) = {})
       ELSE Where(a) = {}
  /\ \A c \in Cores : \A a \in delivered[c] : Access[a].core = c

PastDram(a) == a \in made /\ \A w \in Where(a) : w[1] # "request"

\* The accesses of a core to a channel reach the memory in the order in which
\* the core made them, for each of its two queues: a PIM computation is a
\* P_HEADER, GWRITE, COMP and READRES in this order.
DramOrder == \A a, b \in Accesses :
  /\ a < b /\ PastDram(b)
  /\ Access[a].core = Access[b].core /\ Access[a].channel = Access[b].channel
  /\ Access[a].platform = Access[b].platform
  => PastDram(a)

\* Every access is answered.
EveryAccessAnswered == \A a \in Accesses :
  Access[a].responds => (a \in made ~> a \in delivered[Access[a].core])

=============================================================================
