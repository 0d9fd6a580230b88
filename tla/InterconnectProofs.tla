-------------------------- MODULE InterconnectProofs --------------------------
(***************************************************************************)
(* No access is lost, doubled, misdelivered or overtaken on its way, for   *)
(* every number of cores and channels whose nodes agree, every latency and *)
(* every list of accesses.                                                 *)
(*                                                                         *)
(* The way of an access is fixed by its core, channel and platform, so     *)
(* there is one queue for it at each of eight stages.  The invariant says  *)
(* that queues hold only accesses they are for, each of them once and at   *)
(* one stage, and that of two accesses of one flow the earlier one is      *)
(* ahead until they reach the memory.                                      *)
(***************************************************************************)
EXTENDS Interconnect, FiniteSetTheorems, TLAPS

\* Simulator::cycle numbers the nodes of a core with NumCores, get_dest_node with
\* NumMemories.  They agree for one core, and for as many cores as channels.
NodesAgree == NumCores \in {1, NumMemories}

SameFlow(a, b) ==
  /\ Access[a].core = Access[b].core /\ Access[a].channel = Access[b].channel
  /\ Access[a].platform = Access[b].platform

In(x, s)    == \E k \in DOMAIN s : s[k] = x
Distinct(s) == \A i, j \in DOMAIN s : i < j => s[i] # s[j]
Ordered(s)  == \A i, j \in DOMAIN s : i < j /\ SameFlow(s[i], s[j]) => s[i] < s[j]

\* The accesses in an in-buffer, and their destinations.
Entity == [wait : Nat, dest : Nodes, access : Accesses]
accs(b) == [k \in DOMAIN b |-> b[k].access]
ToMemory(b) == \A k \in DOMAIN b : b[k].dest = request_dest(b[k].access)
ToCore(b)   == \A k \in DOMAIN b : b[k].dest = answer_dest(b[k].access)

\* The eight stages of an access.
Waiting(a)   == In(a, request_queues[Access[a].core][Access[a].channel][Access[a].platform])
Sent(a)      == In(a, accs(in_buffers[answer_dest(a)]))
Queued(a)    == In(a, mem_req_queue[queue_of(a)][Access[a].channel])
InDram(a)    == a \in dram[Access[a].channel]
Finished(a)  == In(a, answered[Access[a].channel])
Returning(a) == In(a, accs(in_buffers[mem_ind(Access[a].channel)]))
Arrived(a)   == In(a, out_buffers[answer_dest(a)])
Delivered(a) == a \in delivered[Access[a].core]

-----------------------------------------------------------------------------
(* The invariant.                                                           *)

Types ==
  /\ sub_batch_mode \in BOOLEAN /\ made \subseteq Accesses
  /\ request_queues \in [Cores -> [Channels -> [Queues -> Seq(Accesses)]]]
  /\ in_buffers \in [Nodes -> Seq(Entity)]
  /\ out_buffers \in [OutNodes -> Seq(Accesses)]
  /\ mem_req_queue \in [Queues -> [Channels -> Seq(Accesses)]]
  /\ dram \in [Channels -> SUBSET Accesses]
  /\ answered \in [Channels -> Seq(Accesses)]
  /\ delivered \in [Cores -> SUBSET Accesses]
  /\ rr_start \in Nodes /\ pc \in {"idle", "cores", "memories", "icnt"} /\ port \in Nat
  /\ pc = "cores" => port < dram_offset
  /\ pc = "memories" => port < NumMemories

\* A queue holds accesses that are for it.
RequestHome == \A c \in Cores, ch \in Channels, q \in Queues, a \in Accesses :
  In(a, request_queues[c][ch][q]) =>
    Access[a].core = c /\ Access[a].channel = ch /\ Access[a].platform = q
NodeHome ==
  /\ \A n \in OutNodes : ToMemory(in_buffers[n])
  /\ \A ch \in Channels : ToCore(in_buffers[mem_ind(ch)])
  /\ \A n \in OutNodes, a \in Accesses :
       In(a, accs(in_buffers[n])) \/ In(a, out_buffers[n]) => answer_dest(a) = n
  /\ \A ch \in Channels, a \in Accesses :
       In(a, accs(in_buffers[mem_ind(ch)])) => Access[a].channel = ch
MemoryHome == \A ch \in Channels, a \in Accesses :
  /\ \A q \in Queues : In(a, mem_req_queue[q][ch]) => queue_of(a) = q /\ Access[a].channel = ch
  /\ a \in dram[ch] \/ In(a, answered[ch]) => Access[a].channel = ch
DeliveredHome == \A c \in Cores : \A a \in delivered[c] : Access[a].core = c

\* A queue holds an access once, and those of one flow in their order.
EachOnce ==
  /\ \A c \in Cores, ch \in Channels, q \in Queues :
       Distinct(request_queues[c][ch][q]) /\ Ordered(request_queues[c][ch][q])
  /\ \A n \in Nodes : Distinct(accs(in_buffers[n]))
  /\ \A n \in OutNodes : Ordered(accs(in_buffers[n])) /\ Distinct(out_buffers[n])
  /\ \A ch \in Channels :
       /\ \A q \in Queues : Distinct(mem_req_queue[q][ch]) /\ Ordered(mem_req_queue[q][ch])
       /\ Distinct(answered[ch])

\* An access is at one stage at most, and at one if it has to be answered.
OneStage(a) ==
  /\ Waiting(a)   => ~(Sent(a) \/ Queued(a) \/ InDram(a) \/ Finished(a) \/ Returning(a) \/ Arrived(a) \/ Delivered(a))
  /\ Sent(a)      => ~(Queued(a) \/ InDram(a) \/ Finished(a) \/ Returning(a) \/ Arrived(a) \/ Delivered(a))
  /\ Queued(a)    => ~(InDram(a) \/ Finished(a) \/ Returning(a) \/ Arrived(a) \/ Delivered(a))
  /\ InDram(a)    => ~(Finished(a) \/ Returning(a) \/ Arrived(a) \/ Delivered(a))
  /\ Finished(a)  => ~(Returning(a) \/ Arrived(a) \/ Delivered(a))
  /\ Returning(a) => ~(Arrived(a) \/ Delivered(a))
  /\ Arrived(a)   => ~Delivered(a)
Somewhere(a) == \/ Waiting(a) \/ Sent(a) \/ Queued(a) \/ InDram(a)
                \/ Finished(a) \/ Returning(a) \/ Arrived(a) \/ Delivered(a)
Stages == \A a \in Accesses :
  /\ OneStage(a)
  /\ Somewhere(a) => a \in made
  /\ a \in made /\ Access[a].responds => Somewhere(a)

\* Of two accesses of a flow the earlier one is not behind.
Ahead == \A a, b \in Accesses : a < b /\ SameFlow(a, b) /\ b \in made =>
  /\ a \in made
  /\ Waiting(a) => Waiting(b)
  /\ Sent(a) => Waiting(b) \/ Sent(b)
  /\ Queued(a) => Waiting(b) \/ Sent(b) \/ Queued(b)

IcntInv ==
  /\ Types /\ RequestHome /\ NodeHome /\ MemoryHome /\ DeliveredHome
  /\ EachOnce /\ Stages /\ Ahead

-----------------------------------------------------------------------------
(* Nodes.                                                                   *)

LEMMA Numbers ==
  /\ NumCores \in Nat /\ NumCores > 0 /\ NumMemories \in Nat /\ NumMemories > 0
  /\ dram_offset \in Nat /\ dram_offset > 0 /\ n_nodes = dram_offset + NumMemories
  /\ dram_offset = NumCores * NumMemories
<1>1. NumCores \in Nat /\ NumCores > 0 /\ NumMemories \in Nat /\ NumMemories > 0
  BY InterconnectAssumption
<1>2. NumCores * NumMemories \in Nat /\ NumCores * NumMemories > 0 BY <1>1
<1> QED BY <1>1, <1>2 DEF dram_offset, n_nodes

LEMMA IntDivMod == ASSUME NEW a \in Int, NEW n \in Nat, n > 0
  PROVE a = n * (a \div n) + (a % n) /\ a % n \in Nat /\ a % n < n /\ a \div n \in Int
  BY Z3

\* A pair of a core and a channel has one number.
LEMMA PairNumber ==
  ASSUME NEW c \in Nat, NEW d \in Nat, NEW x \in Nat, NEW y \in Nat, NEW n \in Nat,
         x < n, y < n, c * n + x = d * n + y
  PROVE  c = d /\ x = y
<1>1. ASSUME NEW e \in Nat, NEW f \in Nat, NEW u \in Nat, NEW v \in Nat, u < n, v < n, e < f
      PROVE  e * n + u < f * n + v
  <2>1. f - e - 1 \in Nat BY <1>1
  <2>2. (f - e - 1) * n \in Nat BY <2>1
  <2>3. f * n = e * n + n + (f - e - 1) * n BY <2>1
  <2>4. e * n \in Nat /\ f * n \in Nat OBVIOUS
  <2> QED BY <1>1, <2>2, <2>3, <2>4
<1>2. c * n + x \in Nat /\ d * n + y \in Nat OBVIOUS
<1>3. ~(c < d) BY <1>1, <1>2
<1>4. ~(d < c) BY <1>1, <1>2
<1>5. c = d BY <1>3, <1>4
<1>6. c * n \in Nat OBVIOUS
<1> QED BY <1>5, <1>6

LEMMA PairBelow ==
  ASSUME NEW c \in Nat, NEW k \in Nat, NEW x \in Nat, NEW n \in Nat, c < k, x < n
  PROVE  c * n + x \in Nat /\ c * n + x < k * n
<1>1. k - c - 1 \in Nat OBVIOUS
<1>2. (k - c - 1) * n \in Nat BY <1>1
<1>3. k * n = c * n + n + (k - c - 1) * n BY <1>1
<1>4. c * n \in Nat OBVIOUS
<1> QED BY <1>2, <1>3, <1>4

\* What an access is, and the nodes on its way.
LEMMA AccessFacts == ASSUME NEW a \in Accesses
  PROVE /\ a \in Nat
        /\ Access[a].core \in Cores /\ Access[a].channel \in Channels
        /\ Access[a].platform \in Queues /\ Access[a].responds \in BOOLEAN
        /\ answer_dest(a) \in OutNodes /\ request_dest(a) = mem_ind(Access[a].channel)
<1>1. a \in Nat /\ Access[a] \in AccessRecord BY InterconnectAssumption DEF Accesses
<1>2. /\ Access[a].core \in Cores /\ Access[a].channel \in Channels
      /\ Access[a].platform \in Queues /\ Access[a].responds \in BOOLEAN
  BY <1>1 DEF AccessRecord
<1>3. /\ Access[a].core \in Nat /\ Access[a].core < NumCores
      /\ Access[a].channel \in Nat /\ Access[a].channel < NumMemories
  BY <1>2, Numbers DEF Cores, Channels
<1>4. answer_dest(a) \in Nat /\ answer_dest(a) < dram_offset
  BY <1>3, Numbers, PairBelow DEF answer_dest
<1>5. answer_dest(a) \in OutNodes BY <1>4, Numbers DEF OutNodes
<1>6. request_dest(a) = mem_ind(Access[a].channel) BY DEF request_dest, mem_ind
<1> QED BY <1>1, <1>2, <1>5, <1>6

LEMMA QueueOfType == ASSUME Types, NEW a \in Accesses PROVE queue_of(a) \in Queues
  BY AccessFacts DEF queue_of, Queues

LEMMA NodeFacts ==
  /\ OutNodes \subseteq Nodes
  /\ \A ch \in Channels : mem_ind(ch) \in Nodes /\ mem_ind(ch) \notin OutNodes
  /\ \A ch, dh \in Channels : mem_ind(ch) = mem_ind(dh) => ch = dh
  /\ \A n \in Nodes \ OutNodes : \E ch \in Channels : n = mem_ind(ch)
<1>1. /\ OutNodes = 0..(dram_offset - 1) /\ Nodes = 0..(dram_offset + NumMemories - 1)
      /\ Channels = 0..(NumMemories - 1) /\ \A ch : mem_ind(ch) = dram_offset + ch
  BY Numbers DEF OutNodes, Nodes, Channels, mem_ind
<1>2. OutNodes \subseteq Nodes BY <1>1, Numbers
<1>3. \A ch \in Channels : mem_ind(ch) \in Nodes /\ mem_ind(ch) \notin OutNodes BY <1>1, Numbers
<1>4. \A ch, dh \in Channels : mem_ind(ch) = mem_ind(dh) => ch = dh BY <1>1, Numbers
<1>5. ASSUME NEW n \in Nodes \ OutNodes PROVE \E ch \in Channels : n = mem_ind(ch)
  <2>1. n - dram_offset \in Channels /\ n = dram_offset + (n - dram_offset) BY <1>1, <1>5, Numbers
  <2> QED BY <2>1, <1>1
<1> QED BY <1>2, <1>3, <1>4, <1>5

\* Two accesses have the same node if and only if they have core and channel in common.
LEMMA NodeOfAccess == ASSUME NEW a \in Accesses, NEW c \in Cores, NEW ch \in Channels
  PROVE answer_dest(a) = c * NumMemories + ch <=> Access[a].core = c /\ Access[a].channel = ch
<1>1. /\ Access[a].core \in Nat /\ Access[a].channel \in Nat /\ Access[a].channel < NumMemories
      /\ c \in Nat /\ ch \in Nat /\ ch < NumMemories
  BY AccessFacts, Numbers DEF Cores, Channels
<1>2. ASSUME Access[a].core * NumMemories + Access[a].channel = c * NumMemories + ch
      PROVE  Access[a].core = c /\ Access[a].channel = ch
  <2> DEFINE d == Access[a].core
             y == Access[a].channel
  <2>1. d \in Nat /\ y \in Nat /\ y < NumMemories /\ d * NumMemories + y = c * NumMemories + ch
    BY <1>1, <1>2
  <2> HIDE DEF d, y
  <2>2. d = c /\ y = ch BY <1>1, <2>1, Numbers, PairNumber
  <2> QED BY <2>2 DEF d, y
<1> QED BY <1>2 DEF answer_dest

\* A turn of the loop over cores and channels is about one of them and its node.
LEMMA PortFacts == ASSUME NodesAgree, NEW p \in Nat, p < dram_offset
  PROVE /\ p \div NumMemories \in Cores /\ p % NumMemories \in Channels
        /\ core_ind(p \div NumMemories, p % NumMemories) = p
        /\ (p \div NumMemories) * NumMemories + (p % NumMemories) = p
<1> DEFINE c == p \div NumMemories
           x == p % NumMemories
<1>1. p = NumMemories * c + x /\ x \in Nat /\ x < NumMemories /\ c \in Int BY Numbers, IntDivMod
<1> HIDE DEF c, x
<1>2. c * NumMemories = NumMemories * c /\ NumMemories * c \in Int BY <1>1, Numbers
<1>3. ASSUME c < 0 PROVE FALSE
  <2>1. -c - 1 \in Nat BY <1>1, <1>3
  <2>2. (-c - 1) * NumMemories \in Nat BY <2>1, Numbers
  <2>3. NumMemories * c = -((-c - 1) * NumMemories) - NumMemories BY <1>1, <2>1, Numbers
  <2> QED BY <1>1, <1>2, <2>2, <2>3, Numbers
<1>4. ASSUME c >= NumCores PROVE FALSE
  <2>1. c - NumCores \in Nat BY <1>1, <1>4, Numbers
  <2>2. (c - NumCores) * NumMemories \in Nat BY <2>1, Numbers
  <2>3. NumMemories * c = (c - NumCores) * NumMemories + NumCores * NumMemories
    BY <1>1, <2>1, Numbers
  <2> QED BY <1>1, <2>2, <2>3, Numbers
<1>5. c \in Nat /\ c < NumCores BY <1>1, <1>3, <1>4, Numbers
<1>6. c \in Cores /\ x \in Channels BY <1>1, <1>5, Numbers DEF Cores, Channels
<1>7. c * NumCores + x = p
  <2>1. CASE NumCores = 1
    <3>1. c = 0 BY <1>5, <2>1
    <3>2. NumMemories * 0 = 0 BY Numbers
    <3> QED BY <1>1, <2>1, <3>1, <3>2
  <2>2. CASE NumCores = NumMemories BY <1>1, <1>2, <2>2
  <2> QED BY <2>1, <2>2 DEF NodesAgree
<1>8. c * NumMemories + x = p BY <1>1, <1>2
<1> QED BY <1>6, <1>7, <1>8 DEF c, x, core_ind

-----------------------------------------------------------------------------
(* Queues.                                                                  *)

LEMMA SeqEq ==
  ASSUME NEW s \in Seq(Accesses), NEW u \in Seq(Accesses), Len(s) = Len(u),
         \A k \in 1..Len(s) : s[k] = u[k]
  PROVE  s = u
  OBVIOUS

LEMMA TailFacts == ASSUME NEW s \in Seq(Accesses), s # <<>>, Distinct(s)
  PROVE /\ Tail(s) \in Seq(Accesses) /\ Head(s) \in Accesses
        /\ In(Head(s), s) /\ Distinct(Tail(s))
        /\ \A x : In(x, Tail(s)) <=> In(x, s) /\ x # Head(s)
<1>1. /\ Tail(s) \in Seq(Accesses) /\ Head(s) \in Accesses /\ Len(s) \in Nat \ {0}
      /\ DOMAIN s = 1..Len(s) /\ DOMAIN Tail(s) = 1..(Len(s) - 1)
      /\ (\A k \in 1..(Len(s) - 1) : Tail(s)[k] = s[k + 1]) /\ Head(s) = s[1]
  OBVIOUS
<1>2. Distinct(Tail(s)) BY <1>1 DEF Distinct
<1>3. In(Head(s), s) BY <1>1 DEF In
<1>4. ASSUME NEW x PROVE In(x, Tail(s)) <=> In(x, s) /\ x # Head(s)
  <2>1. ASSUME In(x, Tail(s)) PROVE In(x, s) /\ x # Head(s) BY <1>1, <2>1 DEF In, Distinct
  <2>2. ASSUME In(x, s), x # Head(s) PROVE In(x, Tail(s))
    <3>1. PICK k \in 1..Len(s) : s[k] = x BY <1>1, <2>2 DEF In
    <3>2. k # 1 /\ k - 1 \in 1..(Len(s) - 1) /\ Tail(s)[k - 1] = x BY <1>1, <2>2, <3>1
    <3> QED BY <3>2, <1>1 DEF In
  <2> QED BY <2>1, <2>2
<1> QED BY <1>1, <1>2, <1>3, <1>4

LEMMA TailOrder == ASSUME NEW s \in Seq(Accesses), s # <<>>, Ordered(s)
  PROVE /\ Ordered(Tail(s))
        /\ \A x : In(x, s) /\ SameFlow(x, Head(s)) => Head(s) <= x
<1>1. /\ Len(s) \in Nat \ {0} /\ DOMAIN s = 1..Len(s) /\ DOMAIN Tail(s) = 1..(Len(s) - 1)
      /\ (\A k \in 1..(Len(s) - 1) : Tail(s)[k] = s[k + 1]) /\ Head(s) = s[1]
      /\ \A k \in 1..Len(s) : s[k] \in Accesses
  OBVIOUS
<1>2. Ordered(Tail(s)) BY <1>1 DEF Ordered
<1>3. ASSUME NEW x, In(x, s), SameFlow(x, Head(s)) PROVE Head(s) <= x
  <2>1. PICK k \in 1..Len(s) : s[k] = x BY <1>1, <1>3 DEF In
  <2>2. s[1] \in Nat /\ s[k] \in Nat BY <1>1, <2>1, AccessFacts
  <2>3. CASE k = 1 BY <1>1, <2>1, <2>2, <2>3
  <2>4. CASE k # 1
    <3>1. SameFlow(s[1], s[k]) BY <1>1, <1>3, <2>1 DEF SameFlow
    <3>2. 1 < k BY <2>1, <2>4
    <3>3. s[1] < s[k] BY <1>1, <2>1, <3>1, <3>2 DEF Ordered
    <3> QED BY <1>1, <2>1, <2>2, <3>3
  <2> QED BY <2>3, <2>4
<1> QED BY <1>2, <1>3

LEMMA AppendFacts == ASSUME NEW s \in Seq(Accesses), NEW a \in Accesses, Distinct(s), ~In(a, s)
  PROVE /\ Append(s, a) \in Seq(Accesses) /\ Distinct(Append(s, a))
        /\ \A x : In(x, Append(s, a)) <=> In(x, s) \/ x = a
<1> DEFINE u == Append(s, a)
<1>1. /\ u \in Seq(Accesses) /\ Len(s) \in Nat /\ DOMAIN s = 1..Len(s)
      /\ DOMAIN u = 1..(Len(s) + 1) /\ (\A k \in 1..Len(s) : u[k] = s[k]) /\ u[Len(s) + 1] = a
  OBVIOUS
<1> HIDE DEF u
<1>2. Distinct(u) BY <1>1 DEF Distinct, In
<1>3. \A x : In(x, u) <=> In(x, s) \/ x = a BY <1>1 DEF In
<1> QED BY <1>1, <1>2, <1>3 DEF u

LEMMA AppendOrder ==
  ASSUME NEW s \in Seq(Accesses), NEW a \in Accesses, Ordered(s),
         \A b \in Accesses : In(b, s) /\ SameFlow(b, a) => b < a
  PROVE  Ordered(Append(s, a))
<1> DEFINE u == Append(s, a)
<1>1. /\ Len(s) \in Nat /\ DOMAIN s = 1..Len(s) /\ DOMAIN u = 1..(Len(s) + 1)
      /\ (\A k \in 1..Len(s) : u[k] = s[k] /\ s[k] \in Accesses) /\ u[Len(s) + 1] = a
  OBVIOUS
<1> HIDE DEF u
<1>2. ASSUME NEW i \in 1..(Len(s) + 1), NEW j \in 1..(Len(s) + 1), i < j, SameFlow(u[i], u[j])
      PROVE  u[i] < u[j]
  <2>1. i \in 1..Len(s) BY <1>1, <1>2
  <2>2. CASE j \in 1..Len(s) BY <1>1, <1>2, <2>1, <2>2 DEF Ordered
  <2>3. CASE j = Len(s) + 1
    <3>1. u[i] = s[i] /\ s[i] \in Accesses /\ u[j] = a BY <1>1, <2>1, <2>3
    <3>2. In(s[i], s) BY <1>1, <2>1 DEF In
    <3> QED BY <1>2, <3>1, <3>2
  <2> QED BY <1>1, <1>2, <2>2, <2>3
<1>3. Ordered(u) BY <1>1, <1>2 DEF Ordered
<1> QED BY <1>3 DEF u

\* The accesses of an in-buffer.
LEMMA AccsFacts == ASSUME NEW b \in Seq(Entity)
  PROVE /\ accs(b) \in Seq(Accesses) /\ Len(accs(b)) = Len(b) /\ Len(b) \in Nat
        /\ DOMAIN accs(b) = 1..Len(b) /\ DOMAIN b = 1..Len(b)
        /\ \A k \in 1..Len(b) : accs(b)[k] = b[k].access /\ b[k] \in Entity
<1>1. \A k \in 1..Len(b) : b[k] \in Entity OBVIOUS
<1>2. \A e \in Entity : e.access \in Accesses BY DEF Entity
<1>3. DOMAIN b = 1..Len(b) /\ Len(b) \in Nat OBVIOUS
<1>4. accs(b) \in [1..Len(b) -> Accesses] BY <1>1, <1>2, <1>3 DEF accs
<1>5. accs(b) \in Seq(Accesses) BY <1>3, <1>4
<1>6. Len(accs(b)) = Len(b) BY <1>3, <1>4, <1>5
<1> QED BY <1>1, <1>3, <1>4, <1>5, <1>6 DEF accs

LEMMA AccsAppend == ASSUME NEW b \in Seq(Entity), NEW e \in Entity
  PROVE /\ Append(b, e) \in Seq(Entity) /\ accs(Append(b, e)) = Append(accs(b), e.access)
        /\ ToMemory(b) /\ e.dest = request_dest(e.access) => ToMemory(Append(b, e))
        /\ ToCore(b) /\ e.dest = answer_dest(e.access) => ToCore(Append(b, e))
<1> DEFINE v == Append(b, e)
           u == Append(accs(b), e.access)
<1>1. /\ v \in Seq(Entity) /\ Len(v) = Len(b) + 1 /\ (\A k \in 1..Len(b) : v[k] = b[k])
      /\ v[Len(b) + 1] = e /\ DOMAIN v = 1..(Len(b) + 1)
  OBVIOUS
<1>2. e.access \in Accesses BY DEF Entity
<1>3. /\ accs(b) \in Seq(Accesses) /\ Len(accs(b)) = Len(b) /\ Len(b) \in Nat
      /\ (\A k \in 1..Len(b) : accs(b)[k] = b[k].access) /\ DOMAIN b = 1..Len(b)
  BY AccsFacts
<1>4. /\ u \in Seq(Accesses) /\ Len(u) = Len(b) + 1
      /\ (\A k \in 1..Len(b) : u[k] = b[k].access) /\ u[Len(b) + 1] = e.access
  BY <1>2, <1>3
<1> HIDE DEF u, v
<1>5. accs(v) \in Seq(Accesses) /\ Len(accs(v)) = Len(v)
      /\ \A k \in 1..Len(v) : accs(v)[k] = v[k].access
  BY <1>1, AccsFacts
<1>6. \A k \in 1..Len(v) : accs(v)[k] = u[k] BY <1>1, <1>3, <1>4, <1>5
<1>7. accs(v) = u BY <1>1, <1>4, <1>5, <1>6, SeqEq
<1>8. ToMemory(b) /\ e.dest = request_dest(e.access) => ToMemory(v) BY <1>1, <1>3 DEF ToMemory
<1>9. ToCore(b) /\ e.dest = answer_dest(e.access) => ToCore(v) BY <1>1, <1>3 DEF ToCore
<1> QED BY <1>1, <1>7, <1>8, <1>9 DEF u, v

LEMMA AccsTail == ASSUME NEW b \in Seq(Entity), b # <<>>
  PROVE /\ Tail(b) \in Seq(Entity) /\ Head(b) \in Entity /\ accs(b) # <<>>
        /\ accs(Tail(b)) = Tail(accs(b)) /\ Head(accs(b)) = Head(b).access
        /\ ToMemory(b) => ToMemory(Tail(b)) /\ Head(b).dest = request_dest(Head(b).access)
        /\ ToCore(b) => ToCore(Tail(b)) /\ Head(b).dest = answer_dest(Head(b).access)
<1> DEFINE v == Tail(b)
<1>1. /\ v \in Seq(Entity) /\ Len(v) = Len(b) - 1 /\ (\A k \in 1..(Len(b) - 1) : v[k] = b[k + 1])
      /\ Head(b) = b[1] /\ Head(b) \in Entity /\ Len(b) \in Nat \ {0}
      /\ DOMAIN v = 1..(Len(b) - 1)
  OBVIOUS
<1> HIDE DEF v
<1>2. /\ accs(v) \in Seq(Accesses) /\ Len(accs(v)) = Len(b) - 1
      /\ \A k \in 1..(Len(b) - 1) : accs(v)[k] = b[k + 1].access
  BY <1>1, AccsFacts
<1>3. /\ accs(b) \in Seq(Accesses) /\ Len(accs(b)) = Len(b) /\ DOMAIN b = 1..Len(b)
      /\ \A k \in 1..Len(b) : accs(b)[k] = b[k].access
  BY AccsFacts
<1>4. /\ accs(b) # <<>> /\ Tail(accs(b)) \in Seq(Accesses) /\ Len(Tail(accs(b))) = Len(b) - 1
      /\ (\A k \in 1..(Len(b) - 1) : Tail(accs(b))[k] = b[k + 1].access)
      /\ Head(accs(b)) = b[1].access
  BY <1>1, <1>3
<1>5. accs(v) = Tail(accs(b)) BY <1>1, <1>2, <1>4, SeqEq
<1>6. \A k \in DOMAIN v : k + 1 \in DOMAIN b /\ v[k] = b[k + 1] BY <1>1, <1>3
<1>7. 1 \in DOMAIN b /\ Head(b) = b[1] BY <1>1, <1>3
<1>8. ASSUME ToMemory(b) PROVE ToMemory(v) /\ Head(b).dest = request_dest(Head(b).access)
  <2>1. ToMemory(v) BY <1>6, <1>8 DEF ToMemory
  <2>2. Head(b).dest = request_dest(Head(b).access) BY <1>7, <1>8 DEF ToMemory
  <2> QED BY <2>1, <2>2
<1>9. ASSUME ToCore(b) PROVE ToCore(v) /\ Head(b).dest = answer_dest(Head(b).access)
  <2>1. ToCore(v) BY <1>6, <1>9 DEF ToCore
  <2>2. Head(b).dest = answer_dest(Head(b).access) BY <1>7, <1>9 DEF ToCore
  <2> QED BY <2>1, <2>2
<1> QED BY <1>1, <1>4, <1>5, <1>8, <1>9 DEF v

LEMMA AccsAged == ASSUME NEW b \in Seq(Entity)
  PROVE /\ Aged(b) \in Seq(Entity) /\ accs(Aged(b)) = accs(b)
        /\ ToMemory(b) => ToMemory(Aged(b))
        /\ ToCore(b) => ToCore(Aged(b))
<1>1. \A k \in 1..Len(b) : b[k] \in Entity OBVIOUS
<1>2. DOMAIN b = 1..Len(b) /\ Len(b) \in Nat OBVIOUS
<1>3. \A k \in 1..Len(b) : [wait |-> IF b[k].wait = 0 THEN 0 ELSE b[k].wait - 1,
                            dest |-> b[k].dest, access |-> b[k].access] \in Entity
  BY <1>1 DEF Entity
<1> DEFINE v == Aged(b)
<1>4. v \in [1..Len(b) -> Entity] BY <1>2, <1>3 DEF Aged
<1>5. \A k \in 1..Len(b) : v[k].dest = b[k].dest /\ v[k].access = b[k].access
  BY <1>2 DEF Aged
<1> HIDE DEF v
<1>6. v \in Seq(Entity) /\ Len(v) = Len(b) /\ DOMAIN v = 1..Len(b) BY <1>2, <1>4
<1>7. accs(v) = accs(b) BY <1>5, <1>6, AccsFacts, SeqEq
<1>8. (ToMemory(b) => ToMemory(v)) /\ (ToCore(b) => ToCore(v))
  BY <1>2, <1>5, <1>6 DEF ToMemory, ToCore
<1> QED BY <1>6, <1>7, <1>8 DEF v

\* SimpleInterconnect::push.
LEMMA PushFacts == ASSUME NEW b \in Seq(Entity), NEW d \in Nodes, NEW a \in Accesses
  PROVE /\ push(b, d, a) \in Seq(Entity) /\ accs(push(b, d, a)) = Append(accs(b), a)
        /\ ToMemory(b) /\ d = request_dest(a) => ToMemory(push(b, d, a))
        /\ ToCore(b) /\ d = answer_dest(a) => ToCore(push(b, d, a))
<1> DEFINE w == IF b = <<>> THEN Latency ELSE b[Len(b)].wait + 1
           e == [wait |-> w, dest |-> d, access |-> a]
<1>1. w \in Nat
  <2>1. ASSUME b # <<>> PROVE b[Len(b)] \in Entity BY <2>1
  <2>2. \A x \in Entity : x.wait \in Nat BY DEF Entity
  <2> QED BY <2>1, <2>2, InterconnectAssumption
<1> HIDE DEF w
<1>2. e \in Entity /\ e.dest = d /\ e.access = a BY <1>1 DEF Entity
<1>3. push(b, d, a) = Append(b, e) BY DEF push, w
<1> HIDE DEF e
<1> QED BY <1>2, <1>3, AccsAppend

LEMMA PushFront ==
  ASSUME NEW b \in Seq(Entity), NEW q \in Seq(Accesses), ToMemory(b)
  PROVE  /\ push_front(b, q) \in Seq(Entity) /\ ToMemory(push_front(b, q))
         /\ accs(push_front(b, q)) = IF q = <<>> THEN accs(b) ELSE Append(accs(b), Head(q))
<1>1. CASE q = <<>> BY <1>1 DEF push_front
<1>2. CASE q # <<>>
  <2>1. Head(q) \in Accesses BY <1>2
  <2>2. request_dest(Head(q)) \in Nodes BY <2>1, AccessFacts, NodeFacts
  <2>3. push_front(b, q) = push(b, request_dest(Head(q)), Head(q)) BY <1>2 DEF push_front
  <2> QED BY <1>2, <2>1, <2>2, <2>3, PushFacts
<1> QED BY <1>1, <1>2

\* What a turn takes from a queue.
Front(s) == IF s = <<>> THEN {} ELSE {Head(s)}

LEMMA RestFacts == ASSUME NEW s \in Seq(Accesses), Distinct(s)
  PROVE /\ Rest(s) \in Seq(Accesses) /\ Distinct(Rest(s))
        /\ \A x : In(x, Rest(s)) <=> In(x, s) /\ x \notin Front(s)
        /\ Front(s) \subseteq Accesses /\ \A x \in Front(s) : In(x, s)
        /\ Ordered(s) => Ordered(Rest(s)) /\
             \A x : \A h \in Front(s) : In(x, s) /\ SameFlow(x, h) => h <= x
<1>1. CASE s = <<>> BY <1>1 DEF Rest, Front
<1>2. CASE s # <<>>
  <2>1. Rest(s) = Tail(s) /\ Front(s) = {Head(s)} BY <1>2 DEF Rest, Front
  <2> QED BY <1>2, <2>1, TailFacts, TailOrder
<1> QED BY <1>1, <1>2

LEMMA PushFrontOrder ==
  ASSUME NEW b \in Seq(Entity), NEW q \in Seq(Accesses), ToMemory(b),
         Distinct(accs(b)), Ordered(accs(b)),
         \A h \in Front(q) : /\ ~In(h, accs(b))
                             /\ \A y \in Accesses : In(y, accs(b)) /\ SameFlow(y, h) => y < h
  PROVE  /\ Distinct(accs(push_front(b, q))) /\ Ordered(accs(push_front(b, q)))
         /\ \A x : In(x, accs(push_front(b, q))) <=> In(x, accs(b)) \/ x \in Front(q)
<1> DEFINE s == accs(b)
<1>0. s \in Seq(Accesses) BY AccsFacts
<1>1. CASE q = <<>> BY <1>1, PushFront DEF Front
<1>2. CASE q # <<>>
  <2>1. Head(q) \in Accesses /\ Front(q) = {Head(q)} BY <1>2 DEF Front
  <2>2. accs(push_front(b, q)) = Append(s, Head(q)) BY <1>2, PushFront
  <2>3. ~In(Head(q), s) /\ \A y \in Accesses : In(y, s) /\ SameFlow(y, Head(q)) => y < Head(q)
    BY <2>1
  <2> HIDE DEF s
  <2>4. Distinct(s) /\ Ordered(s) BY DEF s
  <2>5. Distinct(Append(s, Head(q))) /\ \A x : In(x, Append(s, Head(q))) <=> In(x, s) \/ x = Head(q)
    BY <1>0, <2>1, <2>3, <2>4, AppendFacts
  <2>6. Ordered(Append(s, Head(q))) BY <1>0, <2>1, <2>3, <2>4, AppendOrder
  <2> QED BY <2>1, <2>2, <2>5, <2>6 DEF s
<1> QED BY <1>1, <1>2

-----------------------------------------------------------------------------
(* The stages of the accesses in a step.                                    *)

\* The accesses of M1..M7 go on to the next stage.
Moved(M1, M2, M3, M4, M5, M6, M7) == \A a \in Accesses :
  /\ Waiting(a)'   <=> (Waiting(a) /\ a \notin M1)
  /\ Sent(a)'      <=> ((Sent(a) /\ a \notin M2) \/ a \in M1)
  /\ Queued(a)'    <=> ((Queued(a) /\ a \notin M3) \/ a \in M2)
  /\ InDram(a)'    <=> ((InDram(a) /\ a \notin M4) \/ a \in M3)
  /\ Finished(a)'  <=> ((Finished(a) /\ a \notin M5) \/ (a \in M4 /\ Access[a].responds))
  /\ Returning(a)' <=> ((Returning(a) /\ a \notin M6) \/ a \in M5)
  /\ Arrived(a)'   <=> ((Arrived(a) /\ a \notin M7) \/ a \in M6)
  /\ Delivered(a)' <=> (Delivered(a) \/ a \in M7)

LEMMA StageMoves ==
  ASSUME Stages, Ahead, made' = made, NEW M1, NEW M2, NEW M3, NEW M4, NEW M5, NEW M6, NEW M7,
         Moved(M1, M2, M3, M4, M5, M6, M7),
         \A a \in Accesses :
           /\ a \in M1 => Waiting(a)
           /\ a \in M2 => Sent(a)
           /\ a \in M3 => Queued(a)
           /\ a \in M4 => InDram(a)
           /\ a \in M5 => Finished(a)
           /\ a \in M6 => Returning(a)
           /\ a \in M7 => Arrived(a),
         \A a, b \in Accesses : SameFlow(a, b) =>
           /\ a \in M1 /\ Waiting(b) => a <= b
           /\ a \in M2 /\ Sent(b)    => a <= b
           /\ a \in M3 /\ Queued(b)  => a <= b
  PROVE  Stages' /\ Ahead'
<1>1. ASSUME NEW a \in Accesses
      PROVE  /\ OneStage(a)' /\ (Somewhere(a)' => a \in made')
             /\ a \in made' /\ Access[a].responds => Somewhere(a)'
  <2>1. OneStage(a) /\ (Somewhere(a) => a \in made)
        /\ (a \in made /\ Access[a].responds => Somewhere(a))
    BY DEF Stages
  <2>2. OneStage(a)' BY <2>1 DEF Moved, OneStage
  <2>3. Somewhere(a)' => a \in made' BY <2>1 DEF Moved, Somewhere
  <2>4. a \in made' /\ Access[a].responds => Somewhere(a)' BY <2>1 DEF Moved, Somewhere
  <2> QED BY <2>2, <2>3, <2>4
<1>2. Stages' BY <1>1 DEF Stages
<1>3. ASSUME NEW a \in Accesses, NEW b \in Accesses, a < b, SameFlow(a, b), b \in made'
      PROVE  /\ a \in made'
             /\ Waiting(a)' => Waiting(b)'
             /\ Sent(a)' => Waiting(b)' \/ Sent(b)'
             /\ Queued(a)' => Waiting(b)' \/ Sent(b)' \/ Queued(b)'
  <2>1. a \in made /\ (Waiting(a) => Waiting(b)) /\ (Sent(a) => Waiting(b) \/ Sent(b))
        /\ (Queued(a) => Waiting(b) \/ Sent(b) \/ Queued(b))
    BY <1>3 DEF Ahead
  <2>2. SameFlow(b, a) /\ ~(b <= a) BY <1>3, AccessFacts DEF SameFlow
  <2>3. (b \in M1 => ~Waiting(a)) /\ (b \in M2 => ~Sent(a)) /\ (b \in M3 => ~Queued(a))
    BY <2>2
  <2> QED BY <2>1, <2>3 DEF Moved
<1>4. Ahead' BY <1>3 DEF Ahead, SameFlow
<1> QED BY <1>2, <1>4

queues == <<sub_batch_mode, made, request_queues, in_buffers, out_buffers, mem_req_queue, dram,
            answered, delivered>>

LEMMA SameQueues == ASSUME IcntInv, UNCHANGED queues, Types' PROVE IcntInv'
<1> USE DEF queues
<1>1. RequestHome' BY DEF IcntInv, RequestHome, In
<1>2. NodeHome' BY DEF IcntInv, NodeHome, In, accs, ToMemory, ToCore
<1>3. MemoryHome' BY DEF IcntInv, MemoryHome, In, queue_of
<1>4. DeliveredHome' BY DEF IcntInv, DeliveredHome
<1>5. EachOnce' BY DEF IcntInv, EachOnce, accs
<1>6. Moved({}, {}, {}, {}, {}, {}, {})
  BY DEF Moved, Waiting, Sent, Queued, InDram, Finished, Returning, Arrived, Delivered, accs, queue_of
<1>7. Stages /\ Ahead BY DEF IcntInv
<1>8. Stages' /\ Ahead' BY <1>6, <1>7, StageMoves
<1> QED BY <1>1, <1>2, <1>3, <1>4, <1>5, <1>8 DEF IcntInv

-----------------------------------------------------------------------------
(* The actions.                                                             *)

LEMMA MakeRequestInv == ASSUME IcntInv, NEW x \in Accesses, MakeRequest(x) PROVE IcntInv'
<1> DEFINE c0 == Access[x].core
           ch0 == Access[x].channel
           q0 == Access[x].platform
           s == request_queues[c0][ch0][q0]
<1>1. Types /\ RequestHome /\ EachOnce /\ Stages /\ Ahead BY DEF IcntInv
<1>2. c0 \in Cores /\ ch0 \in Channels /\ q0 \in Queues /\ x \in Nat BY AccessFacts
<1>3. s \in Seq(Accesses) /\ Distinct(s) /\ Ordered(s) BY <1>1, <1>2 DEF Types, EachOnce
<1>4. /\ x \notin made /\ made' = made \cup {x}
      /\ \A b \in Accesses \ made : Access[b].core = c0 => x <= b
  BY DEF MakeRequest
<1>5. ~Somewhere(x) BY <1>1, <1>4 DEF Stages
<1>6. ~In(x, s) BY <1>5 DEF Somewhere, Waiting
<1>7. ASSUME NEW b \in Accesses, In(b, s), SameFlow(b, x) PROVE b < x
  <2>1. Waiting(b) BY <1>7 DEF Waiting, SameFlow
  <2>2. b \in made /\ b \in Nat BY <1>1, <2>1, AccessFacts DEF Stages, Somewhere
  <2>3. SameFlow(x, b) BY <1>7 DEF SameFlow
  <2>4. ~(x < b) BY <1>1, <1>4, <2>2, <2>3 DEF Ahead
  <2> QED BY <1>2, <1>4, <2>2, <2>4
<1> DEFINE u == Append(s, x)
<1>8. /\ u \in Seq(Accesses) /\ Distinct(u) /\ Ordered(u)
      /\ \A y : In(y, u) <=> In(y, s) \/ y = x
  BY <1>3, <1>6, <1>7, AppendFacts, AppendOrder
<1>9. request_queues' = [request_queues EXCEPT ![c0][ch0][q0] = u] BY DEF MakeRequest
<1> HIDE DEF c0, ch0, q0, u
<1>10. /\ request_queues' \in [Cores -> [Channels -> [Queues -> Seq(Accesses)]]]
       /\ request_queues'[c0][ch0][q0] = u
       /\ \A c \in Cores, ch \in Channels, q \in Queues : ~(c = c0 /\ ch = ch0 /\ q = q0) =>
            request_queues'[c][ch][q] = request_queues[c][ch][q]
  BY <1>1, <1>2, <1>8, <1>9 DEF Types
<1> HIDE DEF s
<1>11. UNCHANGED <<sub_batch_mode, in_buffers, out_buffers, mem_req_queue, dram, answered,
                   delivered, rr_start, pc, port>>
  BY DEF MakeRequest
<1>12. Types' BY <1>1, <1>4, <1>10, <1>11 DEF Types
<1>13. ASSUME NEW c \in Cores, NEW ch \in Channels, NEW q \in Queues
       PROVE  /\ Distinct(request_queues'[c][ch][q]) /\ Ordered(request_queues'[c][ch][q])
              /\ \A a \in Accesses : In(a, request_queues'[c][ch][q]) <=>
                   \/ In(a, request_queues[c][ch][q])
                   \/ a = x /\ c = c0 /\ ch = ch0 /\ q = q0
  <2>1. CASE c = c0 /\ ch = ch0 /\ q = q0 BY <1>8, <1>10, <2>1 DEF s
  <2>2. CASE ~(c = c0 /\ ch = ch0 /\ q = q0)
    <3>1. request_queues'[c][ch][q] = request_queues[c][ch][q] BY <1>10, <2>2
    <3> QED BY <1>1, <2>2, <3>1 DEF EachOnce
  <2> QED BY <2>1, <2>2
<1>14. RequestHome' BY <1>1, <1>13 DEF RequestHome, c0, ch0, q0
<1>15. NodeHome' /\ MemoryHome' /\ DeliveredHome'
  <2>1. NodeHome' BY <1>11 DEF IcntInv, NodeHome, accs, ToMemory, ToCore
  <2>2. MemoryHome' BY <1>11 DEF IcntInv, MemoryHome, queue_of
  <2>3. DeliveredHome' BY <1>11 DEF IcntInv, DeliveredHome
  <2> QED BY <2>1, <2>2, <2>3
<1>16. EachOnce' BY <1>1, <1>11, <1>13 DEF EachOnce, accs
<1>17. ASSUME NEW a \in Accesses
       PROVE  /\ Waiting(a)' <=> Waiting(a) \/ a = x
              /\ Sent(a)' <=> Sent(a)
              /\ Queued(a)' <=> Queued(a)
              /\ InDram(a)' <=> InDram(a)
              /\ Finished(a)' <=> Finished(a)
              /\ Returning(a)' <=> Returning(a)
              /\ Arrived(a)' <=> Arrived(a)
              /\ Delivered(a)' <=> Delivered(a)
  <2>1. Waiting(a)' <=> Waiting(a) \/ a = x BY <1>13, AccessFacts DEF Waiting, c0, ch0, q0
  <2> QED BY <1>11, <2>1
          DEF Sent, Queued, InDram, Finished, Returning, Arrived, Delivered, accs, queue_of
<1>18. Stages'
  <2>1. ASSUME NEW a \in Accesses
        PROVE  /\ OneStage(a)' /\ (Somewhere(a)' => a \in made')
               /\ a \in made' /\ Access[a].responds => Somewhere(a)'
    <3>1. OneStage(a)' BY <1>1, <1>5, <1>17 DEF Stages, OneStage, Somewhere
    <3>2. Somewhere(a)' <=> Somewhere(a) \/ a = x BY <1>17 DEF Somewhere
    <3> QED BY <1>1, <1>4, <3>1, <3>2 DEF Stages
  <2> QED BY <2>1 DEF Stages
<1>19. ASSUME NEW a \in Accesses, NEW b \in Accesses, a < b, SameFlow(a, b), b \in made'
       PROVE  /\ a \in made'
              /\ Waiting(a)' => Waiting(b)'
              /\ Sent(a)' => Waiting(b)' \/ Sent(b)'
              /\ Queued(a)' => Waiting(b)' \/ Sent(b)' \/ Queued(b)'
  <2>1. CASE b \in made
    <3>1. a # x BY <1>1, <1>4, <1>19, <2>1 DEF Ahead
    <3> QED BY <1>1, <1>4, <1>17, <1>19, <2>1, <3>1 DEF Ahead
  <2>2. CASE b = x
    <3>1. a \in Nat /\ Access[a].core = c0 BY <1>19, <2>2, AccessFacts DEF SameFlow, c0
    <3>2. a \in made BY <1>2, <1>4, <1>19, <2>2, <3>1
    <3> QED BY <1>4, <1>17, <2>2, <3>2
  <2> QED BY <1>4, <1>19, <2>1, <2>2
<1>20. Ahead' BY <1>19 DEF Ahead, SameFlow
<1> QED BY <1>12, <1>14, <1>15, <1>16, <1>18, <1>20 DEF IcntInv

LEMMA DramAnswerInv ==
  ASSUME IcntInv, NEW ch \in Channels, NEW x \in dram[ch], DramAnswer(ch, x)
  PROVE  IcntInv'
<1> DEFINE s == answered[ch]
           u == Append(s, x)
<1>1. Types /\ MemoryHome /\ EachOnce /\ Stages /\ Ahead BY DEF IcntInv
<1>2. x \in Accesses BY <1>1 DEF Types
<1>3. Access[x].channel = ch BY <1>1, <1>2 DEF MemoryHome
<1>4. InDram(x) /\ ~Finished(x) BY <1>1, <1>2, <1>3 DEF InDram, Stages, OneStage
<1>5. s \in Seq(Accesses) /\ Distinct(s) /\ ~In(x, s)
  BY <1>1, <1>3, <1>4 DEF Types, EachOnce, Finished
<1>6. u \in Seq(Accesses) /\ Distinct(u) /\ \A y : In(y, u) <=> In(y, s) \/ y = x
  BY <1>2, <1>5, AppendFacts
<1>7. /\ dram' = [dram EXCEPT ![ch] = @ \ {x}]
      /\ answered' = IF Access[x].responds THEN [answered EXCEPT ![ch] = u] ELSE answered
      /\ UNCHANGED <<sub_batch_mode, made, request_queues, in_buffers, out_buffers,
                     mem_req_queue, delivered, rr_start, pc, port>>
  BY DEF DramAnswer
<1> HIDE DEF u
<1>8. /\ dram' \in [Channels -> SUBSET Accesses] /\ answered' \in [Channels -> Seq(Accesses)]
      /\ \A d \in Channels : dram'[d] = IF d = ch THEN dram[d] \ {x} ELSE dram[d]
      /\ \A d \in Channels :
           answered'[d] = IF d = ch /\ Access[x].responds THEN u ELSE answered[d]
  <2>1. /\ dram' \in [Channels -> SUBSET Accesses]
        /\ \A d \in Channels : dram'[d] = IF d = ch THEN dram[d] \ {x} ELSE dram[d]
    BY <1>1, <1>7 DEF Types
  <2>2. CASE Access[x].responds BY <1>1, <1>6, <1>7, <2>1, <2>2 DEF Types
  <2>3. CASE ~Access[x].responds BY <1>1, <1>6, <1>7, <2>1, <2>3 DEF Types
  <2> QED BY <2>1, <2>2, <2>3
<1>9. Types' BY <1>1, <1>7, <1>8 DEF Types
<1>10. ASSUME NEW d \in Channels
       PROVE  /\ Distinct(answered'[d])
              /\ \A a \in Accesses : In(a, answered'[d]) <=>
                   In(a, answered[d]) \/ (a = x /\ d = ch /\ Access[x].responds)
              /\ \A a \in Accesses : a \in dram'[d] <=> a \in dram[d] /\ ~(a = x /\ d = ch)
  <2>1. CASE d = ch /\ Access[x].responds BY <1>6, <1>8, <2>1
  <2>2. CASE ~(d = ch /\ Access[x].responds)
    <3>1. answered'[d] = answered[d] BY <1>8, <2>2
    <3> QED BY <1>1, <1>8, <2>2, <3>1 DEF EachOnce
  <2> QED BY <2>1, <2>2
<1> HIDE DEF s
<1>11. RequestHome' BY <1>7 DEF IcntInv, RequestHome
<1>12. NodeHome' BY <1>7 DEF IcntInv, NodeHome, accs, ToMemory, ToCore
<1>13. MemoryHome' BY <1>1, <1>3, <1>7, <1>10 DEF MemoryHome, queue_of
<1>14. DeliveredHome' BY <1>7 DEF IcntInv, DeliveredHome
<1>15. EachOnce' BY <1>1, <1>7, <1>10 DEF EachOnce, accs
<1>16. Moved({}, {}, {}, {x}, {}, {}, {})
  <2>1. ASSUME NEW a \in Accesses
        PROVE  /\ Waiting(a)' <=> Waiting(a)
               /\ Sent(a)' <=> Sent(a)
               /\ Queued(a)' <=> Queued(a)
               /\ Returning(a)' <=> Returning(a)
               /\ Arrived(a)' <=> Arrived(a)
               /\ Delivered(a)' <=> Delivered(a)
    BY <1>7 DEF Waiting, Sent, Queued, Returning, Arrived, Delivered, accs, queue_of
  <2>2. ASSUME NEW a \in Accesses
        PROVE  /\ InDram(a)' <=> InDram(a) /\ a # x
               /\ Finished(a)' <=> Finished(a) \/ (a = x /\ Access[a].responds)
    BY <1>3, <1>10, AccessFacts DEF InDram, Finished
  <2> QED BY <2>1, <2>2 DEF Moved
<1>17. Stages' /\ Ahead' BY <1>1, <1>4, <1>7, <1>16, StageMoves
<1> QED BY <1>9, <1>11, <1>12, <1>13, <1>14, <1>15, <1>17 DEF IcntInv

LEMMA CorePortInv == ASSUME NodesAgree, IcntInv, CorePort PROVE IcntInv'
<1> DEFINE p == port
           c0 == port \div NumMemories
           ch0 == port % NumMemories
           q == request_queues[c0][ch0]
           b0 == in_buffers[p]
           b1 == push_front(b0, q[SA])
           b2 == push_front(b1, q[PIM])
           o == out_buffers[p]
           M1 == Front(q[SA]) \cup Front(q[PIM])
<1>1. Types /\ RequestHome /\ NodeHome /\ DeliveredHome /\ EachOnce /\ Stages /\ Ahead
  BY DEF IcntInv
<1>2. /\ pc = "cores" /\ p \in Nat /\ p < dram_offset /\ p \in OutNodes /\ p \in Nodes
      /\ p \notin {mem_ind(ch) : ch \in Channels}
  <2>1. pc = "cores" /\ p \in Nat /\ p < dram_offset BY <1>1 DEF CorePort, Types
  <2>2. p \in OutNodes BY <2>1, Numbers DEF OutNodes
  <2> QED BY <2>1, <2>2, NodeFacts
<1>3. c0 \in Cores /\ ch0 \in Channels /\ core_ind(c0, ch0) = p /\ c0 * NumMemories + ch0 = p
  BY <1>2, PortFacts
<1>4. \A a \in Accesses : answer_dest(a) = p <=> Access[a].core = c0 /\ Access[a].channel = ch0
  BY <1>3, NodeOfAccess
<1>5. /\ in_buffers' = [in_buffers EXCEPT ![p] = b2]
      /\ request_queues' = [request_queues EXCEPT ![c0][ch0] = [x \in Queues |-> Rest(q[x])]]
      /\ out_buffers' = [out_buffers EXCEPT ![p] = Rest(o)]
      /\ delivered' = [delivered EXCEPT ![c0] = @ \cup {o[k] : k \in 1..Len(o) \cap {1}}]
      /\ IF port = dram_offset - 1 THEN pc' = "memories" /\ port' = 0
                                   ELSE pc' = "cores" /\ port' = port + 1
      /\ UNCHANGED <<sub_batch_mode, made, mem_req_queue, dram, answered, rr_start>>
  BY <1>3 DEF CorePort
<1> HIDE DEF p, c0, ch0
<1>6. /\ q \in [Queues -> Seq(Accesses)] /\ b0 \in Seq(Entity) /\ o \in Seq(Accesses)
      /\ (\A x \in Queues : Distinct(q[x]) /\ Ordered(q[x])) /\ Distinct(o)
      /\ ToMemory(b0) /\ Distinct(accs(b0)) /\ Ordered(accs(b0))
  BY <1>1, <1>2, <1>3 DEF Types, EachOnce, NodeHome
<1>7. \A x \in Queues :
        /\ Rest(q[x]) \in Seq(Accesses) /\ Distinct(Rest(q[x])) /\ Ordered(Rest(q[x]))
        /\ \A a : In(a, Rest(q[x])) <=> In(a, q[x]) /\ a \notin Front(q[x])
        /\ Front(q[x]) \subseteq Accesses /\ \A a \in Front(q[x]) : In(a, q[x])
        /\ \A a : \A h \in Front(q[x]) : In(a, q[x]) /\ SameFlow(a, h) => h <= a
  BY <1>6, RestFacts
<1>8. SA \in Queues /\ PIM \in Queues /\ SA # PIM /\ \A x \in Queues : x = SA \/ x = PIM
  BY DEF SA, PIM, Queues
<1>9. ASSUME NEW x \in Queues, NEW h \in Accesses
      PROVE  In(h, q[x]) <=> Waiting(h) /\ answer_dest(h) = p /\ Access[h].platform = x
  <2>1. In(h, q[x]) => Access[h].core = c0 /\ Access[h].channel = ch0 /\ Access[h].platform = x
    BY <1>1, <1>3 DEF RequestHome
  <2> QED BY <1>4, <2>1 DEF Waiting
<1>10. ASSUME NEW h \in Accesses
       PROVE  h \in M1 <=> \E x \in Queues : h \in Front(q[x])
  BY <1>8
<1>11. ASSUME NEW x \in Queues, NEW h \in Front(q[x])
       PROVE  /\ h \in Accesses /\ Waiting(h) /\ answer_dest(h) = p /\ Access[h].platform = x
              /\ ~In(h, accs(b0))
              /\ \A y \in Accesses : In(y, accs(b0)) /\ SameFlow(y, h) => y < h
  <2>1. h \in Accesses /\ Waiting(h) /\ answer_dest(h) = p /\ Access[h].platform = x
    BY <1>7, <1>9
  <2>2. ~Sent(h) BY <1>1, <2>1 DEF Stages, OneStage
  <2>3. ASSUME NEW y \in Accesses, In(y, accs(b0)), SameFlow(y, h) PROVE y < h
    <3>1. Sent(y) BY <1>1, <1>2, <2>3 DEF NodeHome, Sent
    <3>2. y \in made /\ ~Waiting(y) BY <1>1, <3>1 DEF Stages, OneStage, Somewhere
    <3>3. SameFlow(h, y) BY <2>3 DEF SameFlow
    <3>4. ~(h < y) BY <1>1, <2>1, <3>2, <3>3 DEF Ahead
    <3>5. h # y /\ h \in Nat /\ y \in Nat BY <2>1, <3>2, AccessFacts
    <3> QED BY <3>4, <3>5
  <2> QED BY <2>1, <2>2, <2>3 DEF Sent
<1> HIDE DEF q, b0, o
<1>12. /\ b1 \in Seq(Entity) /\ ToMemory(b1) /\ Distinct(accs(b1)) /\ Ordered(accs(b1))
       /\ \A y : In(y, accs(b1)) <=> In(y, accs(b0)) \/ y \in Front(q[SA])
  <2>1. q[SA] \in Seq(Accesses) BY <1>6, <1>8
  <2>2. \A h \in Front(q[SA]) : /\ ~In(h, accs(b0))
                                /\ \A y \in Accesses : In(y, accs(b0)) /\ SameFlow(y, h) => y < h
    BY <1>8, <1>11
  <2> QED BY <1>6, <2>1, <2>2, PushFront, PushFrontOrder
<1> HIDE DEF b1
<1>13. /\ b2 \in Seq(Entity) /\ ToMemory(b2) /\ Distinct(accs(b2)) /\ Ordered(accs(b2))
       /\ \A y : In(y, accs(b2)) <=> In(y, accs(b0)) \/ y \in M1
  <2>1. q[PIM] \in Seq(Accesses) BY <1>6, <1>8
  <2>2. ASSUME NEW h \in Front(q[PIM])
        PROVE  /\ ~In(h, accs(b1))
               /\ \A y \in Accesses : In(y, accs(b1)) /\ SameFlow(y, h) => y < h
    <3>1. /\ Access[h].platform = PIM /\ ~In(h, accs(b0))
          /\ \A y \in Accesses : In(y, accs(b0)) /\ SameFlow(y, h) => y < h
      BY <1>8, <1>11
    <3>2. \A y \in Front(q[SA]) : Access[y].platform = SA BY <1>8, <1>11
    <3> QED BY <1>8, <1>12, <3>1, <3>2 DEF SameFlow
  <2>3. \A y : In(y, accs(b2)) <=> In(y, accs(b1)) \/ y \in Front(q[PIM])
    BY <1>12, <2>1, <2>2, PushFrontOrder
  <2>4. b2 \in Seq(Entity) /\ ToMemory(b2) /\ Distinct(accs(b2)) /\ Ordered(accs(b2))
    BY <1>12, <2>1, <2>2, PushFront, PushFrontOrder
  <2> QED BY <1>12, <2>3, <2>4
<1>14. /\ Rest(o) \in Seq(Accesses) /\ Distinct(Rest(o))
       /\ \A a : In(a, Rest(o)) <=> In(a, o) /\ a \notin Front(o)
       /\ Front(o) \subseteq Accesses /\ \A a \in Front(o) : In(a, o)
  BY <1>6, RestFacts
<1>15. {o[k] : k \in 1..Len(o) \cap {1}} = Front(o)
  <2>1. CASE o = <<>> BY <2>1 DEF Front
  <2>2. CASE o # <<>>
    <3>1. Len(o) \in Nat /\ Len(o) > 0 /\ Head(o) = o[1] BY <1>6, <2>2
    <3>2. 1..Len(o) \cap {1} = {1} BY <3>1
    <3> QED BY <2>2, <3>1, <3>2 DEF Front
  <2> QED BY <2>1, <2>2
<1> HIDE DEF b2, M1
<1>16. /\ request_queues' \in [Cores -> [Channels -> [Queues -> Seq(Accesses)]]]
       /\ \A x \in Queues : request_queues'[c0][ch0][x] = Rest(q[x])
       /\ \A c \in Cores, ch \in Channels, x \in Queues : ~(c = c0 /\ ch = ch0) =>
            request_queues'[c][ch][x] = request_queues[c][ch][x]
  <2>1. [x \in Queues |-> Rest(q[x])] \in [Queues -> Seq(Accesses)] BY <1>7
  <2> QED BY <1>1, <1>3, <1>5, <2>1 DEF Types
<1>17. /\ in_buffers' \in [Nodes -> Seq(Entity)] /\ in_buffers'[p] = b2
       /\ \A n \in Nodes : n # p => in_buffers'[n] = in_buffers[n]
  BY <1>1, <1>2, <1>5, <1>13 DEF Types
<1>18. /\ out_buffers' \in [OutNodes -> Seq(Accesses)] /\ out_buffers'[p] = Rest(o)
       /\ \A n \in OutNodes : n # p => out_buffers'[n] = out_buffers[n]
  BY <1>1, <1>2, <1>5, <1>14 DEF Types
<1>19. /\ delivered' \in [Cores -> SUBSET Accesses]
       /\ \A c \in Cores : delivered'[c] = IF c = c0 THEN delivered[c] \cup Front(o) ELSE delivered[c]
  BY <1>1, <1>3, <1>5, <1>14, <1>15 DEF Types
<1>20. Types'
  <2>1. /\ pc' \in {"idle", "cores", "memories", "icnt"} /\ port' \in Nat
        /\ pc' = "cores" => port' < dram_offset
        /\ pc' = "memories" => port' < NumMemories
    BY <1>2, <1>5, Numbers DEF p
  <2> QED BY <1>1, <1>5, <1>16, <1>17, <1>18, <1>19, <2>1 DEF Types
<1>21. ASSUME NEW c \in Cores, NEW ch \in Channels, NEW x \in Queues
       PROVE  /\ Distinct(request_queues'[c][ch][x]) /\ Ordered(request_queues'[c][ch][x])
              /\ \A a \in Accesses : In(a, request_queues'[c][ch][x]) <=>
                   In(a, request_queues[c][ch][x]) /\ a \notin M1
  <2>1. CASE c = c0 /\ ch = ch0
    <3>1. request_queues'[c][ch][x] = Rest(q[x]) /\ request_queues[c][ch][x] = q[x]
      BY <1>16, <2>1 DEF q
    <3>2. ASSUME NEW a \in Accesses, In(a, q[x]) PROVE a \in M1 <=> a \in Front(q[x])
      BY <1>9, <1>10, <1>11, <3>2
    <3> QED BY <1>7, <3>1, <3>2
  <2>2. CASE ~(c = c0 /\ ch = ch0)
    <3>1. request_queues'[c][ch][x] = request_queues[c][ch][x] BY <1>16, <2>2
    <3>2. ASSUME NEW a \in Accesses, In(a, request_queues[c][ch][x]) PROVE a \notin M1
      <4>1. Access[a].core = c /\ Access[a].channel = ch BY <1>1, <3>2 DEF RequestHome
      <4> QED BY <1>4, <1>10, <1>11, <2>2, <4>1
    <3> QED BY <1>1, <3>1, <3>2 DEF EachOnce
  <2> QED BY <2>1, <2>2
<1>22. ASSUME NEW n \in OutNodes
       PROVE  /\ ToMemory(in_buffers'[n]) /\ Distinct(accs(in_buffers'[n]))
              /\ Ordered(accs(in_buffers'[n])) /\ Distinct(out_buffers'[n])
              /\ \A a \in Accesses : In(a, accs(in_buffers'[n])) <=>
                   In(a, accs(in_buffers[n])) \/ (a \in M1 /\ n = p)
              /\ \A a \in Accesses : In(a, out_buffers'[n]) <=>
                   In(a, out_buffers[n]) /\ ~(a \in Front(o) /\ n = p)
  <2>1. CASE n = p
    <3>1. /\ in_buffers'[n] = b2 /\ out_buffers'[n] = Rest(o)
          /\ in_buffers[n] = b0 /\ out_buffers[n] = o
      BY <1>17, <1>18, <2>1 DEF b0, o
    <3> QED BY <1>13, <1>14, <2>1, <3>1
  <2>2. CASE n # p
    <3>1. n \in Nodes /\ in_buffers'[n] = in_buffers[n] /\ out_buffers'[n] = out_buffers[n]
      BY <1>17, <1>18, <2>2, NodeFacts
    <3> QED BY <1>1, <2>2, <3>1 DEF NodeHome, EachOnce
  <2> QED BY <2>1, <2>2
<1>23. \A ch \in Channels : in_buffers'[mem_ind(ch)] = in_buffers[mem_ind(ch)]
  BY <1>2, <1>17, NodeFacts
<1>24. ASSUME NEW a \in Accesses
       PROVE  /\ a \in M1 => Waiting(a) /\ answer_dest(a) = p
              /\ a \in Front(o) => Arrived(a) /\ answer_dest(a) = p
  <2>1. a \in M1 => Waiting(a) /\ answer_dest(a) = p BY <1>10, <1>11
  <2>2. ASSUME a \in Front(o) PROVE Arrived(a) /\ answer_dest(a) = p
    <3>1. In(a, out_buffers[p]) BY <1>14, <2>2 DEF o
    <3>2. answer_dest(a) = p BY <1>1, <1>2, <3>1 DEF NodeHome
    <3> QED BY <3>1, <3>2 DEF Arrived
  <2> QED BY <2>1, <2>2
<1>25. RequestHome' BY <1>1, <1>21 DEF RequestHome
<1>26. NodeHome'
  <2>1. \A n \in OutNodes : ToMemory(in_buffers'[n]) BY <1>22
  <2>2. \A ch \in Channels : ToCore(in_buffers'[mem_ind(ch)]) BY <1>1, <1>23 DEF NodeHome
  <2>3. \A n \in OutNodes, a \in Accesses :
          In(a, accs(in_buffers'[n])) \/ In(a, out_buffers'[n]) => answer_dest(a) = n
    BY <1>1, <1>22, <1>24 DEF NodeHome
  <2>4. \A ch \in Channels, a \in Accesses :
          In(a, accs(in_buffers'[mem_ind(ch)])) => Access[a].channel = ch
    BY <1>1, <1>23 DEF NodeHome
  <2> QED BY <2>1, <2>2, <2>3, <2>4 DEF NodeHome, ToMemory, ToCore, request_dest, answer_dest,
             accs, mem_ind
<1>27. MemoryHome' BY <1>5 DEF IcntInv, MemoryHome, queue_of
<1>28. DeliveredHome'
  <2>1. \A a \in Front(o) : Access[a].core = c0 BY <1>4, <1>14, <1>24
  <2> QED BY <1>1, <1>19, <2>1 DEF DeliveredHome
<1>29. EachOnce'
  <2>1. \A n \in Nodes : Distinct(accs(in_buffers'[n]))
    BY <1>1, <1>2, <1>17, <1>22 DEF EachOnce
  <2> QED BY <1>1, <1>5, <1>21, <1>22, <2>1 DEF EachOnce, accs
<1>30. Moved(M1, {}, {}, {}, {}, {}, Front(o))
  <2> SUFFICES ASSUME NEW a \in Accesses
               PROVE  /\ Waiting(a)'   <=> (Waiting(a) /\ a \notin M1)
                      /\ Sent(a)'      <=> (Sent(a) \/ a \in M1)
                      /\ Queued(a)'    <=> Queued(a)
                      /\ InDram(a)'    <=> InDram(a)
                      /\ Finished(a)'  <=> Finished(a)
                      /\ Returning(a)' <=> Returning(a)
                      /\ Arrived(a)'   <=> (Arrived(a) /\ a \notin Front(o))
                      /\ Delivered(a)' <=> (Delivered(a) \/ a \in Front(o))
    BY DEF Moved
  <2>1. /\ Access[a].core \in Cores /\ Access[a].channel \in Channels
        /\ Access[a].platform \in Queues /\ answer_dest(a) \in OutNodes
    BY AccessFacts
  <2>2. Waiting(a)' <=> Waiting(a) /\ a \notin M1 BY <1>21, <2>1 DEF Waiting
  <2>3. Sent(a)' <=> Sent(a) \/ a \in M1 BY <1>22, <1>24, <2>1 DEF Sent, accs, answer_dest
  <2>4. Arrived(a)' <=> Arrived(a) /\ a \notin Front(o)
    BY <1>22, <1>24, <2>1 DEF Arrived, answer_dest
  <2>5. Returning(a)' <=> Returning(a) BY <1>23, <2>1 DEF Returning, accs, mem_ind
  <2>6. Delivered(a)' <=> Delivered(a) \/ a \in Front(o)
    BY <1>4, <1>19, <1>24, <2>1 DEF Delivered
  <2>7. (Queued(a)' <=> Queued(a)) /\ (InDram(a)' <=> InDram(a)) /\ (Finished(a)' <=> Finished(a))
    BY <1>5 DEF Queued, InDram, Finished, queue_of
  <2> QED BY <2>2, <2>3, <2>4, <2>5, <2>6, <2>7
<1>31. ASSUME NEW a \in Accesses, NEW b \in Accesses, SameFlow(a, b), a \in M1, Waiting(b)
       PROVE  a <= b
  <2>1. PICK x \in Queues : a \in Front(q[x]) BY <1>10, <1>31
  <2>2. answer_dest(a) = p /\ Access[a].platform = x BY <1>11, <2>1
  <2>3. answer_dest(b) = p /\ Access[b].platform = x /\ SameFlow(b, a)
    BY <1>31, <2>2 DEF SameFlow, answer_dest
  <2>4. In(b, q[x]) BY <1>9, <1>31, <2>3
  <2> QED BY <1>7, <2>1, <2>3, <2>4
<1>32. made' = made BY <1>5
<1> HIDE DEF M1
<1>33. Stages' /\ Ahead' BY <1>1, <1>24, <1>30, <1>31, <1>32, StageMoves
<1> QED BY <1>20, <1>25, <1>26, <1>27, <1>28, <1>29, <1>33 DEF IcntInv

LEMMA MemoryPortInv == ASSUME IcntInv, NEW full \in SUBSET Queues, MemoryPort(full) PROVE IcntInv'
<1> DEFINE p == port
           taken == accepted(p, full)
           M3 == {Head(mem_req_queue[q][p]) : q \in taken}
           s == answered[p]
           b0 == in_buffers[mem_ind(p)]
           b1 == IF s = <<>> THEN b0 ELSE push(b0, answer_dest(Head(s)), Head(s))
<1>1. Types /\ NodeHome /\ MemoryHome /\ EachOnce /\ Stages /\ Ahead BY DEF IcntInv
<1>2. pc = "memories" /\ p \in Nat /\ p < NumMemories /\ p \in Channels
  <2>1. pc = "memories" /\ p \in Nat /\ p < NumMemories BY <1>1 DEF MemoryPort, Types
  <2> QED BY <2>1, Numbers DEF Channels
<1>3. mem_ind(p) \in Nodes /\ mem_ind(p) \notin OutNodes BY <1>2, NodeFacts
<1>4. /\ dram' = [dram EXCEPT ![p] = @ \cup M3]
      /\ mem_req_queue' = [q \in Queues |->
            IF q \in taken THEN [mem_req_queue[q] EXCEPT ![p] = Tail(@)] ELSE mem_req_queue[q]]
      /\ answered' = [answered EXCEPT ![p] = Rest(@)]
      /\ in_buffers' = IF s = <<>> THEN in_buffers
                       ELSE [in_buffers EXCEPT ![mem_ind(p)] =
                               push(@, answer_dest(Head(s)), Head(s))]
      /\ IF port = NumMemories - 1 THEN pc' = "icnt" /\ port' = 0
                                   ELSE pc' = "memories" /\ port' = port + 1
      /\ UNCHANGED <<sub_batch_mode, made, request_queues, out_buffers, delivered, rr_start>>
  BY DEF MemoryPort, memreq_pop
<1>5. \A q : q \in taken => q \in Queues /\ mem_req_queue[q][p] # <<>> BY DEF accepted
<1> HIDE DEF p, taken
<1>6. /\ \A q \in Queues : /\ mem_req_queue[q][p] \in Seq(Accesses)
                           /\ Distinct(mem_req_queue[q][p]) /\ Ordered(mem_req_queue[q][p])
      /\ s \in Seq(Accesses) /\ Distinct(s)
      /\ b0 \in Seq(Entity) /\ ToCore(b0) /\ Distinct(accs(b0))
  BY <1>1, <1>2, <1>3 DEF Types, EachOnce, NodeHome
<1>7. ASSUME NEW q \in taken
      PROVE  /\ Head(mem_req_queue[q][p]) \in Accesses
             /\ Tail(mem_req_queue[q][p]) \in Seq(Accesses)
             /\ Distinct(Tail(mem_req_queue[q][p])) /\ Ordered(Tail(mem_req_queue[q][p]))
             /\ In(Head(mem_req_queue[q][p]), mem_req_queue[q][p])
             /\ \A x : In(x, Tail(mem_req_queue[q][p])) <=>
                  In(x, mem_req_queue[q][p]) /\ x # Head(mem_req_queue[q][p])
             /\ \A x : In(x, mem_req_queue[q][p]) /\ SameFlow(x, Head(mem_req_queue[q][p]))
                  => Head(mem_req_queue[q][p]) <= x
  BY <1>5, <1>6, TailFacts, TailOrder
<1>8. ASSUME NEW q \in Queues, NEW a \in Accesses
      PROVE  In(a, mem_req_queue[q][p]) <=>
               Queued(a) /\ Access[a].channel = p /\ queue_of(a) = q
  BY <1>1, <1>2 DEF MemoryHome, Queued
<1>9. ASSUME NEW a \in M3
      PROVE  /\ a \in Accesses /\ Queued(a) /\ Access[a].channel = p
             /\ queue_of(a) \in taken /\ a = Head(mem_req_queue[queue_of(a)][p])
  <2>1. PICK q \in taken : a = Head(mem_req_queue[q][p]) OBVIOUS
  <2>2. q \in Queues /\ a \in Accesses /\ In(a, mem_req_queue[q][p]) BY <1>5, <1>7, <2>1
  <2> QED BY <1>8, <2>1, <2>2
<1>10. /\ Rest(s) \in Seq(Accesses) /\ Distinct(Rest(s))
       /\ \A a : In(a, Rest(s)) <=> In(a, s) /\ a \notin Front(s)
       /\ Front(s) \subseteq Accesses /\ \A a \in Front(s) : In(a, s)
  BY <1>6, RestFacts
<1>11. ASSUME NEW a \in Front(s)
       PROVE  a \in Accesses /\ Finished(a) /\ Access[a].channel = p /\ ~In(a, accs(b0))
  <2>1. a \in Accesses /\ In(a, answered[p]) BY <1>10
  <2>2. Access[a].channel = p BY <1>1, <1>2, <2>1 DEF MemoryHome
  <2>3. Finished(a) BY <2>1, <2>2 DEF Finished
  <2>4. ~Returning(a) BY <1>1, <2>1, <2>3 DEF Stages, OneStage
  <2> QED BY <2>1, <2>2, <2>3, <2>4 DEF Returning
<1> HIDE DEF b0, s
<1>12. /\ b1 \in Seq(Entity) /\ ToCore(b1) /\ Distinct(accs(b1))
       /\ \A y : In(y, accs(b1)) <=> In(y, accs(b0)) \/ y \in Front(s)
  <2>1. CASE s = <<>> BY <1>6, <2>1 DEF Front
  <2>2. CASE s # <<>>
    <3>1. Front(s) = {Head(s)} /\ Head(s) \in Accesses BY <1>6, <2>2 DEF Front
    <3>2. answer_dest(Head(s)) \in Nodes BY <3>1, AccessFacts, NodeFacts
    <3>3. b1 = push(b0, answer_dest(Head(s)), Head(s)) BY <2>2
    <3> HIDE DEF b1
    <3>4. b1 \in Seq(Entity) /\ ToCore(b1) /\ accs(b1) = Append(accs(b0), Head(s))
      BY <1>6, <3>1, <3>2, <3>3, PushFacts
    <3>5. accs(b0) \in Seq(Accesses) /\ ~In(Head(s), accs(b0)) BY <1>6, <1>11, <3>1, AccsFacts
    <3>6. /\ Distinct(Append(accs(b0), Head(s)))
          /\ \A y : In(y, Append(accs(b0), Head(s))) <=> In(y, accs(b0)) \/ y = Head(s)
      BY <1>6, <3>1, <3>5, AppendFacts
    <3> QED BY <3>1, <3>4, <3>6
  <2> QED BY <2>1, <2>2
<1>13. /\ in_buffers' \in [Nodes -> Seq(Entity)] /\ in_buffers'[mem_ind(p)] = b1
       /\ \A n \in Nodes : n # mem_ind(p) => in_buffers'[n] = in_buffers[n]
  <2>1. CASE s = <<>> BY <1>1, <1>4, <2>1 DEF Types, b0
  <2>2. CASE s # <<>>
    <3>1. in_buffers' = [in_buffers EXCEPT ![mem_ind(p)] = b1] BY <1>4, <2>2 DEF b0
    <3> HIDE DEF b1
    <3> QED BY <1>1, <1>3, <1>12, <3>1 DEF Types
  <2> QED BY <2>1, <2>2
<1> HIDE DEF b1, M3
<1>14. M3 \subseteq Accesses BY <1>9
<1>15. /\ dram' \in [Channels -> SUBSET Accesses]
       /\ \A ch \in Channels : dram'[ch] = IF ch = p THEN dram[ch] \cup M3 ELSE dram[ch]
  BY <1>1, <1>2, <1>4, <1>14 DEF Types
<1>16. /\ answered' \in [Channels -> Seq(Accesses)] /\ answered'[p] = Rest(s)
       /\ \A ch \in Channels : ch # p => answered'[ch] = answered[ch]
  BY <1>1, <1>2, <1>4, <1>10 DEF Types, s
<1>17. /\ \A q \in Queues, ch \in Channels : mem_req_queue'[q][ch] =
            IF q \in taken /\ ch = p THEN Tail(mem_req_queue[q][p]) ELSE mem_req_queue[q][ch]
       /\ mem_req_queue' \in [Queues -> [Channels -> Seq(Accesses)]]
  <2> DEFINE f(q) == IF q \in taken THEN [mem_req_queue[q] EXCEPT ![p] = Tail(@)]
                                    ELSE mem_req_queue[q]
  <2>1. \A q \in Queues : mem_req_queue[q] \in [Channels -> Seq(Accesses)] BY <1>1 DEF Types
  <2>2. ASSUME NEW q \in Queues
        PROVE  /\ f(q) \in [Channels -> Seq(Accesses)]
               /\ \A ch \in Channels : f(q)[ch] =
                    IF q \in taken /\ ch = p THEN Tail(mem_req_queue[q][p]) ELSE mem_req_queue[q][ch]
    <3>1. CASE q \in taken BY <1>2, <1>7, <2>1, <3>1
    <3>2. CASE q \notin taken BY <2>1, <3>2
    <3> QED BY <3>1, <3>2
  <2>3. mem_req_queue' = [q \in Queues |-> f(q)] BY <1>4
  <2> HIDE DEF f
  <2> QED BY <2>2, <2>3
<1>18. Types'
  <2>1. /\ pc' \in {"idle", "cores", "memories", "icnt"} /\ port' \in Nat
        /\ pc' = "cores" => port' < dram_offset
        /\ pc' = "memories" => port' < NumMemories
    BY <1>2, <1>4, Numbers DEF p
  <2> QED BY <1>1, <1>4, <1>13, <1>15, <1>16, <1>17, <2>1 DEF Types
<1>19. ASSUME NEW q \in Queues, NEW ch \in Channels
       PROVE  /\ Distinct(mem_req_queue'[q][ch]) /\ Ordered(mem_req_queue'[q][ch])
              /\ \A a \in Accesses : In(a, mem_req_queue'[q][ch]) <=>
                   In(a, mem_req_queue[q][ch]) /\ a \notin M3
  <2>1. CASE q \in taken /\ ch = p
    <3>1. mem_req_queue'[q][ch] = Tail(mem_req_queue[q][p]) BY <1>17, <2>1
    <3>2. ASSUME NEW a \in Accesses, In(a, mem_req_queue[q][p])
          PROVE  a \in M3 <=> a = Head(mem_req_queue[q][p])
      BY <1>8, <1>9, <2>1, <3>2 DEF M3
    <3> QED BY <1>7, <2>1, <3>1, <3>2
  <2>2. CASE ~(q \in taken /\ ch = p)
    <3>1. mem_req_queue'[q][ch] = mem_req_queue[q][ch] BY <1>17, <2>2
    <3>2. ASSUME NEW a \in Accesses, In(a, mem_req_queue[q][ch]) PROVE a \notin M3
      <4>1. queue_of(a) = q /\ Access[a].channel = ch BY <1>1, <3>2 DEF MemoryHome
      <4> QED BY <1>9, <2>2, <4>1
    <3> QED BY <1>1, <3>1, <3>2 DEF EachOnce
  <2> QED BY <2>1, <2>2
<1>20. ASSUME NEW ch \in Channels
       PROVE  /\ Distinct(answered'[ch]) /\ Distinct(accs(in_buffers'[mem_ind(ch)]))
              /\ ToCore(in_buffers'[mem_ind(ch)])
              /\ \A a \in Accesses : In(a, answered'[ch]) <=>
                   In(a, answered[ch]) /\ a \notin Front(s)
              /\ \A a \in Accesses : In(a, accs(in_buffers'[mem_ind(ch)])) <=>
                   In(a, accs(in_buffers[mem_ind(ch)])) \/ (a \in Front(s) /\ ch = p)
  <2>1. CASE ch = p
    <3>1. /\ answered'[ch] = Rest(s) /\ answered[ch] = s
          /\ in_buffers'[mem_ind(ch)] = b1 /\ in_buffers[mem_ind(ch)] = b0
      BY <1>13, <1>16, <2>1 DEF s, b0
    <3> QED BY <1>10, <1>12, <2>1, <3>1
  <2>2. CASE ch # p
    <3>1. /\ answered'[ch] = answered[ch] /\ mem_ind(ch) \in Nodes
          /\ in_buffers'[mem_ind(ch)] = in_buffers[mem_ind(ch)]
      BY <1>2, <1>13, <1>16, <2>2, NodeFacts
    <3>2. \A a \in Accesses : In(a, answered[ch]) => a \notin Front(s)
      BY <1>1, <1>11, <2>2 DEF MemoryHome
    <3> QED BY <1>1, <2>2, <3>1, <3>2 DEF NodeHome, EachOnce
  <2> QED BY <2>1, <2>2
<1>21. \A n \in OutNodes : in_buffers'[n] = in_buffers[n] BY <1>3, <1>13, NodeFacts
<1>22. RequestHome' BY <1>4 DEF IcntInv, RequestHome
<1>23. NodeHome'
  <2>1. \A ch \in Channels, a \in Accesses :
          In(a, accs(in_buffers'[mem_ind(ch)])) => Access[a].channel = ch
    BY <1>1, <1>11, <1>20 DEF NodeHome
  <2>2. \A n \in OutNodes : ToMemory(in_buffers'[n]) BY <1>1, <1>21 DEF NodeHome
  <2>3. \A n \in OutNodes, a \in Accesses :
          In(a, accs(in_buffers'[n])) \/ In(a, out_buffers'[n]) => answer_dest(a) = n
    BY <1>1, <1>4, <1>21 DEF NodeHome
  <2> QED BY <1>20, <2>1, <2>2, <2>3
          DEF NodeHome, ToMemory, ToCore, request_dest, answer_dest, accs, mem_ind
<1>24. MemoryHome'
  <2>1. \A ch \in Channels, a \in Accesses :
          a \in dram'[ch] \/ In(a, answered'[ch]) => Access[a].channel = ch
    BY <1>1, <1>9, <1>15, <1>20 DEF MemoryHome
  <2>2. \A q \in Queues, ch \in Channels, a \in Accesses : In(a, mem_req_queue'[q][ch]) =>
          queue_of(a) = q /\ Access[a].channel = ch
    BY <1>1, <1>19 DEF MemoryHome
  <2> QED BY <1>4, <2>1, <2>2 DEF MemoryHome, queue_of
<1>25. DeliveredHome' BY <1>4 DEF IcntInv, DeliveredHome
<1>26. EachOnce'
  <2>1. \A n \in Nodes : Distinct(accs(in_buffers'[n])) BY <1>1, <1>2, <1>13, <1>20 DEF EachOnce
  <2>2. \A n \in OutNodes : Ordered(accs(in_buffers'[n])) BY <1>1, <1>21 DEF EachOnce
  <2> QED BY <1>1, <1>4, <1>19, <1>20, <2>1, <2>2 DEF EachOnce, accs
<1>27. Moved({}, {}, M3, {}, Front(s), {}, {})
  <2> SUFFICES ASSUME NEW a \in Accesses
               PROVE  /\ Waiting(a)'   <=> Waiting(a)
                      /\ Sent(a)'      <=> Sent(a)
                      /\ Queued(a)'    <=> (Queued(a) /\ a \notin M3)
                      /\ InDram(a)'    <=> (InDram(a) \/ a \in M3)
                      /\ Finished(a)'  <=> (Finished(a) /\ a \notin Front(s))
                      /\ Returning(a)' <=> (Returning(a) \/ a \in Front(s))
                      /\ Arrived(a)'   <=> Arrived(a)
                      /\ Delivered(a)' <=> Delivered(a)
    BY DEF Moved
  <2>1. Access[a].channel \in Channels /\ queue_of(a) \in Queues /\ answer_dest(a) \in OutNodes
    BY <1>1, AccessFacts, QueueOfType
  <2>2. Queued(a)' <=> Queued(a) /\ a \notin M3 BY <1>4, <1>19, <2>1 DEF Queued, queue_of
  <2>3. InDram(a)' <=> InDram(a) \/ a \in M3 BY <1>9, <1>15, <2>1 DEF InDram
  <2>4. Finished(a)' <=> Finished(a) /\ a \notin Front(s) BY <1>20, <2>1 DEF Finished
  <2>5. Returning(a)' <=> Returning(a) \/ a \in Front(s)
    BY <1>11, <1>20, <2>1 DEF Returning, accs, mem_ind
  <2>6. Sent(a)' <=> Sent(a) BY <1>21, <2>1 DEF Sent, accs, answer_dest
  <2>7. (Waiting(a)' <=> Waiting(a)) /\ (Arrived(a)' <=> Arrived(a))
        /\ (Delivered(a)' <=> Delivered(a))
    BY <1>4 DEF Waiting, Arrived, Delivered
  <2> QED BY <2>2, <2>3, <2>4, <2>5, <2>6, <2>7
<1>28. ASSUME NEW a \in Accesses, NEW b \in Accesses, SameFlow(a, b), a \in M3, Queued(b)
       PROVE  a <= b
  <2> DEFINE q == queue_of(a)
  <2>1. Access[a].channel = p /\ q \in taken /\ a = Head(mem_req_queue[q][p]) BY <1>9, <1>28
  <2>2. Access[b].channel = p /\ queue_of(b) = q /\ SameFlow(b, a)
    BY <1>28, <2>1 DEF SameFlow, queue_of
  <2> HIDE DEF q
  <2>3. In(b, mem_req_queue[q][p]) BY <1>5, <1>8, <1>28, <2>1, <2>2
  <2> QED BY <1>7, <2>1, <2>2, <2>3
<1>29. made' = made BY <1>4
<1>30. \A a \in Accesses : (a \in M3 => Queued(a)) /\ (a \in Front(s) => Finished(a))
  BY <1>9, <1>11
<1>31. Stages' /\ Ahead' BY <1>1, <1>27, <1>28, <1>29, <1>30, StageMoves
<1> QED BY <1>18, <1>22, <1>23, <1>24, <1>25, <1>26, <1>31 DEF IcntInv

\* The turns of two nodes differ, so at most one access moves to a destination.
LEMMA RankOne == ASSUME Types, NEW n \in Nodes, NEW m \in Nodes, rank(n) = rank(m) PROVE n = m
<1> DEFINE N == n_nodes
           j == (n - rr_start) \div N
           k == (m - rr_start) \div N
           r == rank(n)
<1>1. N \in Nat /\ N > 0 BY Numbers
<1>2. n \in 0..(N - 1) /\ m \in 0..(N - 1) /\ rr_start \in 0..(N - 1) BY DEF Types, Nodes
<1> HIDE DEF N
<1>3. n - rr_start \in Int /\ m - rr_start \in Int BY <1>1, <1>2
<1>4. n - rr_start = N * j + r /\ r \in Nat /\ j \in Int BY <1>1, <1>3, IntDivMod DEF rank, N
<1>5. m - rr_start = N * k + r /\ k \in Int BY <1>1, <1>3, IntDivMod DEF rank, N
<1> HIDE DEF j, k, r
<1>6. N * j \in Int /\ N * k \in Int /\ n - m = N * j - N * k BY <1>1, <1>2, <1>4, <1>5
<1>7. ASSUME NEW u \in Int, NEW v \in Int, u < v PROVE N * v - N * u >= N
  <2>1. v - u - 1 \in Nat BY <1>7
  <2>2. N * (v - u - 1) \in Nat BY <1>1, <2>1
  <2>3. N * v - N * u = N * (v - u - 1) + N BY <1>1, <2>1
  <2> QED BY <1>1, <2>2, <2>3
<1>8. ~(j < k) BY <1>1, <1>2, <1>4, <1>5, <1>6, <1>7
<1>9. ~(k < j) BY <1>1, <1>2, <1>4, <1>5, <1>6, <1>7
<1>10. j = k BY <1>4, <1>5, <1>8, <1>9
<1> QED BY <1>2, <1>6, <1>10

LEMMA MoveFacts == ASSUME Types
  PROVE /\ \A n \in Moves : /\ n \in Nodes /\ in_buffers[n] \in Seq(Entity) /\ in_buffers[n] # <<>>
                            /\ Head(in_buffers[n]).access \in Accesses
        /\ \A m, n \in Moves : Head(in_buffers[m]).dest = Head(in_buffers[n]).dest => m = n
<1>1. \A n \in Moves : n \in Nodes /\ in_buffers[n] # <<>> BY DEF Moves, Due
<1>2. \A n \in Moves : in_buffers[n] \in Seq(Entity) BY <1>1 DEF Types
<1>3. \A n \in Moves : Head(in_buffers[n]) \in Entity BY <1>1, <1>2
<1>4. \A n \in Moves : Head(in_buffers[n]).access \in Accesses BY <1>3 DEF Entity
<1>5. ASSUME NEW m \in Moves, NEW n \in Moves, Head(in_buffers[m]).dest = Head(in_buffers[n]).dest
      PROVE  m = n
  <2>1. rank(n) <= rank(m) /\ rank(m) <= rank(n) BY <1>5 DEF Moves
  <2>2. m - rr_start \in Int /\ n - rr_start \in Int BY <1>1, Numbers DEF Types, Nodes
  <2>3. rank(n) \in Nat /\ rank(m) \in Nat BY <2>2, Numbers, IntDivMod DEF rank
  <2>4. rank(n) = rank(m) BY <2>1, <2>3
  <2> QED BY <1>1, <2>4, RankOne
<1> QED BY <1>1, <1>2, <1>4, <1>5

LEMMA ArriveFacts ==
  ASSUME Types, NEW s \in Seq(Accesses), Distinct(s), NEW d, NEW for,
         \A n \in Moves : Head(in_buffers[n]).dest = d /\ Head(in_buffers[n]).access \in for
                          => ~In(Head(in_buffers[n]).access, s)
  PROVE  /\ Arrive(s, d, for) \in Seq(Accesses) /\ Distinct(Arrive(s, d, for))
         /\ \A x : In(x, Arrive(s, d, for)) <=>
              \/ In(x, s)
              \/ \E n \in Moves : /\ Head(in_buffers[n]).dest = d /\ Head(in_buffers[n]).access = x
                                  /\ x \in for
         /\ (/\ Ordered(s)
             /\ \A n \in Moves : Head(in_buffers[n]).dest = d /\ Head(in_buffers[n]).access \in for
                  => \A b \in Accesses : In(b, s) /\ SameFlow(b, Head(in_buffers[n]).access)
                       => b < Head(in_buffers[n]).access)
            => Ordered(Arrive(s, d, for))
<1> DEFINE from == {n \in Moves : Head(in_buffers[n]).dest = d /\ Head(in_buffers[n]).access \in for}
<1>1. CASE from = {}
  <2>1. Arrive(s, d, for) = s BY <1>1 DEF Arrive
  <2> QED BY <1>1, <2>1
<1>2. CASE from # {}
  <2> DEFINE m == CHOOSE n \in from : TRUE
             a == Head(in_buffers[m]).access
  <2>1. m \in from BY <1>2
  <2>2. Arrive(s, d, for) = Append(s, a) BY <1>2 DEF Arrive
  <2> HIDE DEF m
  <2>3. m \in Moves /\ Head(in_buffers[m]).dest = d /\ a \in for /\ a \in Accesses
    BY <2>1, MoveFacts
  <2>4. \A n \in Moves : Head(in_buffers[n]).dest = d => n = m BY <2>3, MoveFacts
  <2>5. ~In(a, s) BY <2>3
  <2>6. /\ Append(s, a) \in Seq(Accesses) /\ Distinct(Append(s, a))
        /\ \A x : In(x, Append(s, a)) <=> In(x, s) \/ x = a
    BY <2>3, <2>5, AppendFacts
  <2>7. ASSUME NEW x PROVE In(x, Arrive(s, d, for)) <=>
              \/ In(x, s)
              \/ \E n \in Moves : /\ Head(in_buffers[n]).dest = d /\ Head(in_buffers[n]).access = x
                                  /\ x \in for
    BY <2>2, <2>3, <2>4, <2>6
  <2>8. ASSUME Ordered(s), \A b \in Accesses : In(b, s) /\ SameFlow(b, a) => b < a
        PROVE  Ordered(Append(s, a))
    BY <2>3, <2>8, AppendOrder
  <2> QED BY <2>2, <2>3, <2>6, <2>7, <2>8
<1> QED BY <1>1, <1>2

LEMMA IcntCycleInv == ASSUME IcntInv, IcntCycle PROVE IcntInv'
<1> DEFINE acc(n) == Head(in_buffers[n]).access
           M2 == {acc(n) : n \in Moves \cap OutNodes}
           M6 == {acc(n) : n \in Moves \ OutNodes}
           rest(n) == IF n \in Moves THEN Tail(in_buffers[n]) ELSE in_buffers[n]
<1>1. Types /\ NodeHome /\ MemoryHome /\ EachOnce /\ Stages /\ Ahead BY DEF IcntInv
<1>2. /\ pc' = "idle" /\ port' = 0
      /\ out_buffers' = [n \in OutNodes |-> Arrive(out_buffers[n], n, Accesses)]
      /\ mem_req_queue' = [q \in Queues |-> [ch \in Channels |->
            Arrive(mem_req_queue[q][ch], mem_ind(ch), {a \in Accesses : queue_of(a) = q})]]
      /\ in_buffers' = [n \in Nodes |-> Aged(rest(n))]
      /\ rr_start' = (rr_start + 1) % n_nodes
      /\ UNCHANGED <<sub_batch_mode, made, request_queues, dram, answered, delivered>>
  BY DEF IcntCycle
<1>3. \A n \in Nodes : in_buffers[n] \in Seq(Entity) /\ Distinct(accs(in_buffers[n]))
  BY <1>1 DEF Types, EachOnce
<1>4. ASSUME NEW n \in Moves
      PROVE  /\ n \in Nodes /\ in_buffers[n] # <<>> /\ acc(n) \in Accesses
             /\ rest(n) = Tail(in_buffers[n]) /\ rest(n) \in Seq(Entity)
             /\ accs(rest(n)) = Tail(accs(in_buffers[n])) /\ accs(in_buffers[n]) # <<>>
             /\ accs(in_buffers[n]) \in Seq(Accesses) /\ Head(accs(in_buffers[n])) = acc(n)
             /\ ToMemory(in_buffers[n]) =>
                  ToMemory(rest(n)) /\ Head(in_buffers[n]).dest = request_dest(acc(n))
             /\ ToCore(in_buffers[n]) =>
                  ToCore(rest(n)) /\ Head(in_buffers[n]).dest = answer_dest(acc(n))
  <2>1. n \in Nodes /\ in_buffers[n] \in Seq(Entity) /\ in_buffers[n] # <<>> /\ acc(n) \in Accesses
    BY <1>1, MoveFacts
  <2>2. accs(in_buffers[n]) \in Seq(Accesses) BY <2>1, AccsFacts
  <2>3. rest(n) = Tail(in_buffers[n]) OBVIOUS
  <2> QED BY <2>1, <2>2, <2>3, AccsTail
<1> HIDE DEF acc, rest
<1>5. ASSUME NEW n \in Moves
      PROVE  /\ In(acc(n), accs(in_buffers[n])) /\ Distinct(accs(rest(n)))
             /\ \A x : In(x, accs(rest(n))) <=> In(x, accs(in_buffers[n])) /\ x # acc(n)
             /\ Ordered(accs(in_buffers[n])) => Ordered(accs(rest(n))) /\
                  \A x : In(x, accs(in_buffers[n])) /\ SameFlow(x, acc(n)) => acc(n) <= x
  <2> DEFINE t == accs(in_buffers[n])
  <2>1. /\ t \in Seq(Accesses) /\ t # <<>> /\ Distinct(t) /\ Head(t) = acc(n)
        /\ accs(rest(n)) = Tail(t)
    BY <1>3, <1>4
  <2> HIDE DEF t
  <2>2. /\ In(Head(t), t) /\ Distinct(Tail(t)) /\ \A x : In(x, Tail(t)) <=> In(x, t) /\ x # Head(t)
    BY <2>1, TailFacts
  <2>3. Ordered(t) =>
          Ordered(Tail(t)) /\ \A x : In(x, t) /\ SameFlow(x, Head(t)) => Head(t) <= x
    BY <2>1, TailOrder
  <2> QED BY <2>1, <2>2, <2>3 DEF t
<1>6. ASSUME NEW n \in Nodes
      PROVE  /\ Aged(rest(n)) \in Seq(Entity) /\ accs(Aged(rest(n))) = accs(rest(n))
             /\ in_buffers'[n] = Aged(rest(n))
             /\ n \notin Moves => rest(n) = in_buffers[n]
             /\ ToMemory(in_buffers[n]) => ToMemory(in_buffers'[n])
             /\ ToCore(in_buffers[n]) => ToCore(in_buffers'[n])
  <2>1. n \notin Moves => rest(n) = in_buffers[n] BY DEF rest
  <2>2. rest(n) \in Seq(Entity) BY <1>3, <1>4, <2>1
  <2>3. in_buffers'[n] = Aged(rest(n)) BY <1>2
  <2>4. ToMemory(in_buffers[n]) => ToMemory(rest(n)) BY <1>4, <2>1
  <2>5. ToCore(in_buffers[n]) => ToCore(rest(n)) BY <1>4, <2>1
  <2> QED BY <2>1, <2>2, <2>3, <2>4, <2>5, AccsAged
\* Which accesses move.
<1>7. ASSUME NEW n \in Moves, n \in OutNodes
      PROVE  /\ Sent(acc(n)) /\ answer_dest(acc(n)) = n
             /\ Head(in_buffers[n]).dest = mem_ind(Access[acc(n)].channel)
  <2>1. answer_dest(acc(n)) = n BY <1>1, <1>4, <1>5, <1>7 DEF NodeHome
  <2>2. Sent(acc(n)) BY <1>5, <2>1 DEF Sent
  <2>3. Head(in_buffers[n]).dest = request_dest(acc(n)) BY <1>1, <1>4, <1>7 DEF NodeHome
  <2> QED BY <1>4, <2>1, <2>2, <2>3, AccessFacts
<1>8. ASSUME NEW n \in Moves, n \notin OutNodes
      PROVE  /\ Returning(acc(n)) /\ mem_ind(Access[acc(n)].channel) = n
             /\ Head(in_buffers[n]).dest = answer_dest(acc(n))
             /\ answer_dest(acc(n)) \in OutNodes
  <2>1. PICK ch \in Channels : n = mem_ind(ch) BY <1>4, <1>8, NodeFacts
  <2>2. Access[acc(n)].channel = ch BY <1>1, <1>4, <1>5, <2>1 DEF NodeHome
  <2>3. Returning(acc(n)) BY <1>5, <2>1, <2>2 DEF Returning
  <2>4. Head(in_buffers[n]).dest = answer_dest(acc(n)) BY <1>1, <1>4, <2>1 DEF NodeHome
  <2> QED BY <1>4, <2>1, <2>2, <2>3, <2>4, AccessFacts
<1>9. ASSUME NEW a \in Accesses
      PROVE  /\ a \in M2 <=> answer_dest(a) \in Moves /\ acc(answer_dest(a)) = a
             /\ a \in M6 <=> /\ mem_ind(Access[a].channel) \in Moves
                             /\ acc(mem_ind(Access[a].channel)) = a
             /\ a \in M2 => Sent(a)
             /\ a \in M6 => Returning(a)
  <2>1. /\ answer_dest(a) \in OutNodes /\ mem_ind(Access[a].channel) \notin OutNodes
    BY AccessFacts, NodeFacts
  <2>2. ASSUME a \in M2 PROVE Sent(a) /\ answer_dest(a) \in Moves /\ acc(answer_dest(a)) = a
    BY <1>7, <2>2
  <2>3. ASSUME a \in M6
        PROVE  /\ Returning(a) /\ mem_ind(Access[a].channel) \in Moves
               /\ acc(mem_ind(Access[a].channel)) = a
    BY <1>8, <2>3
  <2> QED BY <2>1, <2>2, <2>3
\* The queues of the memory and the out-buffers.
<1>10. ASSUME NEW q \in Queues, NEW ch \in Channels
       PROVE  /\ mem_req_queue'[q][ch] \in Seq(Accesses)
              /\ Distinct(mem_req_queue'[q][ch]) /\ Ordered(mem_req_queue'[q][ch])
              /\ \A a \in Accesses : In(a, mem_req_queue'[q][ch]) <=>
                   \/ In(a, mem_req_queue[q][ch])
                   \/ a \in M2 /\ Access[a].channel = ch /\ queue_of(a) = q
  <2> DEFINE s == mem_req_queue[q][ch]
             f == {a \in Accesses : queue_of(a) = q}
             d == mem_ind(ch)
  <2>1. mem_req_queue'[q][ch] = Arrive(s, d, f) BY <1>2
  <2>2. s \in Seq(Accesses) /\ Distinct(s) /\ Ordered(s) BY <1>1 DEF Types, EachOnce
  <2>3. ASSUME NEW n \in Moves, Head(in_buffers[n]).dest = d
        PROVE  /\ n \in OutNodes /\ Access[acc(n)].channel = ch /\ Sent(acc(n))
               /\ acc(n) \in Accesses /\ acc(n) \in M2
    <3>1. n \in OutNodes BY <1>8, <2>3, NodeFacts
    <3>2. acc(n) \in Accesses /\ acc(n) \in M2 BY <1>4, <3>1
    <3>3. Access[acc(n)].channel \in Channels BY <3>2, AccessFacts
    <3> QED BY <1>7, <2>3, <3>1, <3>2, <3>3, NodeFacts
  <2>4. ASSUME NEW b \in Accesses, In(b, s)
        PROVE  /\ Queued(b) /\ b \in made /\ ~Sent(b) /\ ~Waiting(b)
    <3>1. Queued(b) BY <1>1, <2>4 DEF MemoryHome, Queued
    <3> QED BY <1>1, <3>1 DEF Stages, OneStage, Somewhere
  <2>5. ASSUME NEW n \in Moves, Head(in_buffers[n]).dest = d
        PROVE  /\ ~In(acc(n), s)
               /\ \A b \in Accesses : In(b, s) /\ SameFlow(b, acc(n)) => b < acc(n)
    <3>1. acc(n) \in Accesses /\ Sent(acc(n)) BY <2>3, <2>5
    <3>2. ~In(acc(n), s) BY <2>4, <3>1
    <3>3. ASSUME NEW b \in Accesses, In(b, s), SameFlow(b, acc(n)) PROVE b < acc(n)
      <4>1. SameFlow(acc(n), b) BY <3>3 DEF SameFlow
      <4>2. ~(acc(n) < b) BY <1>1, <2>4, <3>1, <3>3, <4>1 DEF Ahead
      <4>3. b # acc(n) /\ b \in Nat /\ acc(n) \in Nat BY <3>1, <3>2, <3>3, AccessFacts
      <4> QED BY <4>2, <4>3
    <3> QED BY <3>2, <3>3
  <2>6. ASSUME NEW a \in Accesses
        PROVE  (\E n \in Moves : Head(in_buffers[n]).dest = d /\ acc(n) = a /\ a \in f) <=>
                  a \in M2 /\ Access[a].channel = ch /\ queue_of(a) = q
    <3>1. ASSUME a \in M2, Access[a].channel = ch
          PROVE  \E n \in Moves : Head(in_buffers[n]).dest = d /\ acc(n) = a
      BY <1>7, <3>1
    <3> QED BY <2>3, <3>1
  <2> HIDE DEF s, f, d
  <2>7. /\ Arrive(s, d, f) \in Seq(Accesses) /\ Distinct(Arrive(s, d, f))
        /\ \A a : In(a, Arrive(s, d, f)) <=>
             \/ In(a, s)
             \/ \E n \in Moves : Head(in_buffers[n]).dest = d /\ acc(n) = a /\ a \in f
        /\ Ordered(Arrive(s, d, f))
    BY <1>1, <2>2, <2>5, ArriveFacts DEF acc
  <2> QED BY <2>1, <2>6, <2>7 DEF s
<1>11. ASSUME NEW m \in OutNodes
       PROVE  /\ out_buffers'[m] \in Seq(Accesses) /\ Distinct(out_buffers'[m])
              /\ \A a \in Accesses : In(a, out_buffers'[m]) <=>
                   In(a, out_buffers[m]) \/ (a \in M6 /\ answer_dest(a) = m)
  <2> DEFINE s == out_buffers[m]
  <2>1. out_buffers'[m] = Arrive(s, m, Accesses) BY <1>2
  <2>2. s \in Seq(Accesses) /\ Distinct(s) BY <1>1 DEF Types, EachOnce
  <2>3. ASSUME NEW n \in Moves, Head(in_buffers[n]).dest = m
        PROVE  /\ n \notin OutNodes /\ acc(n) \in Accesses /\ acc(n) \in M6
               /\ answer_dest(acc(n)) = m /\ ~In(acc(n), s)
    <3>1. acc(n) \in Accesses BY <1>4
    <3>2. Access[acc(n)].channel \in Channels BY <3>1, AccessFacts
    <3>3. n \notin OutNodes BY <1>7, <2>3, <3>2, NodeFacts
    <3>4. acc(n) \in M6 BY <3>3
    <3>5. answer_dest(acc(n)) = m /\ Returning(acc(n)) BY <1>8, <2>3, <3>3
    <3>6. ~Arrived(acc(n)) BY <1>1, <3>1, <3>5 DEF Stages, OneStage
    <3> QED BY <3>1, <3>3, <3>4, <3>5, <3>6 DEF Arrived
  <2>4. ASSUME NEW a \in Accesses
        PROVE  (\E n \in Moves : Head(in_buffers[n]).dest = m /\ acc(n) = a /\ a \in Accesses) <=>
                 a \in M6 /\ answer_dest(a) = m
    <3>1. ASSUME a \in M6, answer_dest(a) = m
          PROVE  \E n \in Moves : Head(in_buffers[n]).dest = m /\ acc(n) = a
      BY <1>8, <3>1
    <3> QED BY <2>3, <3>1
  <2> HIDE DEF s
  <2>5. /\ Arrive(s, m, Accesses) \in Seq(Accesses) /\ Distinct(Arrive(s, m, Accesses))
        /\ \A a : In(a, Arrive(s, m, Accesses)) <=>
             \/ In(a, s)
             \/ \E n \in Moves : Head(in_buffers[n]).dest = m /\ acc(n) = a /\ a \in Accesses
    BY <1>1, <2>2, <2>3, ArriveFacts DEF acc
  <2> QED BY <2>1, <2>4, <2>5 DEF s
\* The in-buffers.
<1>12. ASSUME NEW n \in Nodes
       PROVE  /\ in_buffers'[n] \in Seq(Entity) /\ Distinct(accs(in_buffers'[n]))
              /\ Ordered(accs(in_buffers[n])) => Ordered(accs(in_buffers'[n]))
              /\ \A x : In(x, accs(in_buffers'[n])) <=>
                   In(x, accs(in_buffers[n])) /\ ~(n \in Moves /\ x = acc(n))
  <2>1. in_buffers'[n] \in Seq(Entity) /\ accs(in_buffers'[n]) = accs(rest(n)) BY <1>6
  <2>2. CASE n \in Moves BY <1>5, <2>1, <2>2
  <2>3. CASE n \notin Moves BY <1>3, <1>6, <2>1, <2>3
  <2> QED BY <2>2, <2>3
<1> HIDE DEF M2, M6
<1>13. Types'
  <2>1. in_buffers' \in [Nodes -> Seq(Entity)]
    <3>1. \A n \in Nodes : Aged(rest(n)) \in Seq(Entity) BY <1>6
    <3> QED BY <1>2, <3>1
  <2>2. out_buffers' \in [OutNodes -> Seq(Accesses)]
    <3> DEFINE g(n) == Arrive(out_buffers[n], n, Accesses)
    <3>1. out_buffers' = [n \in OutNodes |-> g(n)] BY <1>2
    <3> HIDE DEF g
    <3> QED BY <1>11, <3>1
  <2>3. mem_req_queue' \in [Queues -> [Channels -> Seq(Accesses)]]
    <3> DEFINE g(q, ch) == Arrive(mem_req_queue[q][ch], mem_ind(ch), {a \in Accesses : queue_of(a) = q})
    <3>1. mem_req_queue' = [q \in Queues |-> [ch \in Channels |-> g(q, ch)]] BY <1>2
    <3> HIDE DEF g
    <3>2. \A q \in Queues, ch \in Channels : g(q, ch) \in Seq(Accesses) BY <1>10, <3>1
    <3> QED BY <3>1, <3>2
  <2>4. rr_start' \in Nodes
    <3>1. rr_start + 1 \in Int BY <1>1 DEF Types, Nodes
    <3>2. rr_start' \in Nat /\ rr_start' < n_nodes BY <1>2, <3>1, Numbers, IntDivMod
    <3> QED BY <3>2, Numbers DEF Nodes
  <2> QED BY <1>1, <1>2, <2>1, <2>2, <2>3, <2>4 DEF Types
<1>14. RequestHome' BY <1>2 DEF IcntInv, RequestHome
<1>15. NodeHome'
  <2>1. \A n \in OutNodes : ToMemory(in_buffers'[n]) BY <1>1, <1>6, NodeFacts DEF NodeHome
  <2>2. \A ch \in Channels : ToCore(in_buffers'[mem_ind(ch)]) BY <1>1, <1>6, NodeFacts DEF NodeHome
  <2>3. \A n \in OutNodes, a \in Accesses :
          In(a, accs(in_buffers'[n])) \/ In(a, out_buffers'[n]) => answer_dest(a) = n
    BY <1>1, <1>11, <1>12, NodeFacts DEF NodeHome
  <2>4. \A ch \in Channels, a \in Accesses :
          In(a, accs(in_buffers'[mem_ind(ch)])) => Access[a].channel = ch
    BY <1>1, <1>12, NodeFacts DEF NodeHome
  <2> QED BY <2>1, <2>2, <2>3, <2>4 DEF NodeHome, ToMemory, ToCore, request_dest, answer_dest,
             accs, mem_ind
<1>16. MemoryHome'
  <2>1. \A q \in Queues, ch \in Channels, a \in Accesses : In(a, mem_req_queue'[q][ch]) =>
          queue_of(a) = q /\ Access[a].channel = ch
    BY <1>1, <1>10 DEF MemoryHome
  <2>2. UNCHANGED <<sub_batch_mode, dram, answered>> BY <1>2
  <2> QED BY <1>1, <2>1, <2>2 DEF MemoryHome, queue_of
<1>17. DeliveredHome' BY <1>2 DEF IcntInv, DeliveredHome
<1>18. EachOnce'
  <2>1. \A n \in OutNodes : Ordered(accs(in_buffers'[n])) BY <1>1, <1>12, NodeFacts DEF EachOnce
  <2> QED BY <1>1, <1>2, <1>10, <1>11, <1>12, <2>1 DEF EachOnce, accs
<1>19. Moved({}, M2, {}, {}, {}, M6, {})
  <2> SUFFICES ASSUME NEW a \in Accesses
               PROVE  /\ Waiting(a)'   <=> Waiting(a)
                      /\ Sent(a)'      <=> (Sent(a) /\ a \notin M2)
                      /\ Queued(a)'    <=> (Queued(a) \/ a \in M2)
                      /\ InDram(a)'    <=> InDram(a)
                      /\ Finished(a)'  <=> Finished(a)
                      /\ Returning(a)' <=> (Returning(a) /\ a \notin M6)
                      /\ Arrived(a)'   <=> (Arrived(a) \/ a \in M6)
                      /\ Delivered(a)' <=> Delivered(a)
    BY DEF Moved
  <2>1. /\ Access[a].channel \in Channels /\ queue_of(a) \in Queues
        /\ answer_dest(a) \in OutNodes /\ answer_dest(a) \in Nodes
        /\ mem_ind(Access[a].channel) \in Nodes
    BY <1>1, AccessFacts, QueueOfType, NodeFacts
  <2>2. Sent(a)' <=> Sent(a) /\ a \notin M2 BY <1>9, <1>12, <2>1 DEF Sent, accs, answer_dest
  <2>3. Queued(a)' <=> Queued(a) \/ a \in M2 BY <1>2, <1>10, <2>1 DEF Queued, queue_of
  <2>4. Returning(a)' <=> Returning(a) /\ a \notin M6
    BY <1>9, <1>12, <2>1 DEF Returning, accs, mem_ind
  <2>5. Arrived(a)' <=> Arrived(a) \/ a \in M6 BY <1>11, <2>1 DEF Arrived, answer_dest
  <2>6. /\ Waiting(a)' <=> Waiting(a)
        /\ InDram(a)' <=> InDram(a)
        /\ Finished(a)' <=> Finished(a)
        /\ Delivered(a)' <=> Delivered(a)
    BY <1>2 DEF Waiting, InDram, Finished, Delivered
  <2> QED BY <2>2, <2>3, <2>4, <2>5, <2>6
<1>20. ASSUME NEW a \in Accesses, NEW b \in Accesses, SameFlow(a, b), a \in M2, Sent(b)
       PROVE  a <= b
  <2> DEFINE n == answer_dest(a)
  <2>1. n \in Moves /\ acc(n) = a /\ n \in OutNodes BY <1>9, <1>20, AccessFacts
  <2>2. answer_dest(b) = n /\ SameFlow(b, a) BY <1>20 DEF SameFlow, answer_dest
  <2> HIDE DEF n
  <2>3. In(b, accs(in_buffers[n])) BY <1>20, <2>2 DEF Sent
  <2>4. Ordered(accs(in_buffers[n])) BY <1>1, <2>1 DEF EachOnce
  <2> QED BY <1>5, <2>1, <2>2, <2>3, <2>4
<1>21. made' = made BY <1>2
<1>22. Stages' /\ Ahead' BY <1>1, <1>9, <1>19, <1>20, <1>21, StageMoves
<1> QED BY <1>13, <1>14, <1>15, <1>16, <1>17, <1>18, <1>22 DEF IcntInv

-----------------------------------------------------------------------------
(* The invariant holds.                                                     *)

LEMMA IcntInitial == Init => IcntInv
<1> SUFFICES ASSUME Init PROVE IcntInv OBVIOUS
<1> USE DEF Init
<1>1. \A x : ~In(x, <<>>) BY DEF In
<1>2. Distinct(<<>>) /\ Ordered(<<>>) BY DEF Distinct, Ordered
<1>3. accs(<<>>) = <<>> /\ ToMemory(<<>>) /\ ToCore(<<>>) BY DEF accs, ToMemory, ToCore
<1>4. \A ch \in Channels : in_buffers[mem_ind(ch)] = <<>> BY NodeFacts
<1>5. \A n \in OutNodes : in_buffers[n] = <<>> /\ out_buffers[n] = <<>> BY NodeFacts
<1>6. Types BY Numbers DEF Types
<1>7. RequestHome BY <1>1 DEF RequestHome
<1>8. NodeHome BY <1>1, <1>3, <1>4, <1>5 DEF NodeHome
<1>9. MemoryHome BY <1>1 DEF MemoryHome
<1>10. DeliveredHome BY DEF DeliveredHome
<1>11. EachOnce BY <1>2, <1>3, <1>5 DEF EachOnce
<1>12. ASSUME NEW a \in Accesses PROVE OneStage(a) /\ ~Somewhere(a)
  <2>1. /\ Access[a].core \in Cores /\ Access[a].channel \in Channels
        /\ Access[a].platform \in Queues /\ answer_dest(a) \in OutNodes /\ queue_of(a) \in Queues
    BY <1>6, AccessFacts, QueueOfType
  <2>2. ~Waiting(a) BY <1>1, <2>1 DEF Waiting
  <2>3. ~Sent(a) /\ ~Arrived(a) BY <1>1, <1>3, <1>5, <2>1 DEF Sent, Arrived
  <2>4. ~Queued(a) BY <1>1, <2>1 DEF Queued
  <2>5. ~InDram(a) /\ ~Delivered(a) BY <2>1 DEF InDram, Delivered
  <2>6. ~Finished(a) BY <1>1, <2>1 DEF Finished
  <2>7. ~Returning(a) BY <1>1, <1>3, <1>4, <2>1 DEF Returning
  <2> QED BY <2>2, <2>3, <2>4, <2>5, <2>6, <2>7 DEF OneStage, Somewhere
<1>13. Stages BY <1>12 DEF Stages
<1>14. Ahead BY DEF Ahead
<1> QED BY <1>6, <1>7, <1>8, <1>9, <1>10, <1>11, <1>13, <1>14 DEF IcntInv

LEMMA IcntStep == ASSUME NodesAgree, IcntInv, [Next]_vars PROVE IcntInv'
<1>1. ASSUME NEW a \in Accesses, MakeRequest(a) PROVE IcntInv' BY <1>1, MakeRequestInv
<1>2. ASSUME NEW ch \in Channels, NEW a \in dram[ch], DramAnswer(ch, a) PROVE IcntInv'
  BY <1>2, DramAnswerInv
<1>3. CASE StartIcnt
  <2>1. UNCHANGED queues BY <1>3 DEF StartIcnt, queues
  <2>2. Types' BY <1>3, Numbers DEF StartIcnt, IcntInv, Types
  <2> QED BY <2>1, <2>2, SameQueues
<1>4. CASE CorePort BY <1>4, CorePortInv
<1>5. CASE IcntCycle BY <1>5, IcntCycleInv
<1>6. ASSUME NEW full \in SUBSET Queues, MemoryPort(full) PROVE IcntInv' BY <1>6, MemoryPortInv
<1>7. CASE UNCHANGED vars
  <2>1. UNCHANGED queues BY <1>7 DEF vars, queues
  <2>2. Types' BY <1>7 DEF vars, IcntInv, Types
  <2> QED BY <2>1, <2>2, SameQueues
<1> QED BY <1>1, <1>2, <1>3, <1>4, <1>5, <1>6, <1>7 DEF Next

\* Every queue, node and answer of every instance whose nodes agree is as the parts of
\* IcntInv say, at every step of Simulator::cycle.
THEOREM IcntInvariant == ASSUME NodesAgree PROVE Spec => []IcntInv
<1>1. Init => IcntInv BY IcntInitial
<1>2. IcntInv /\ [Next]_vars => IcntInv' BY IcntStep
<1> QED BY <1>1, <1>2, PTL DEF Spec

-----------------------------------------------------------------------------
(* What the runs check follows from the invariant.                          *)

\* The places of Where, queue by queue.
InRequest(a) == UNION {{<<"request", c, ch, q, k>> : k \in At(a, request_queues[c][ch][q])} :
                         c \in Cores, ch \in Channels, q \in Queues}
InNodes(a) == UNION {{<<IF in_buffers[n][k].dest < dram_offset THEN "answer" ELSE "request", n, 0, 0, k>> :
                k \in {i \in DOMAIN in_buffers[n] : in_buffers[n][i].access = a}} : n \in Nodes}
InQueue(a) == UNION {{<<"request", q, ch, -1, k>> : k \in At(a, mem_req_queue[q][ch])} :
                       q \in Queues, ch \in Channels}
InMemory(a) == {<<"dram", ch, 0, 0, 0>> : ch \in {x \in Channels : a \in dram[x]}}
InAnswered(a) == UNION {{<<"answer", ch, 0, -1, k>> : k \in At(a, answered[ch])} : ch \in Channels}
InOut(a) == UNION {{<<"answer", n, 0, -2, k>> : k \in At(a, out_buffers[n])} : n \in OutNodes}
InCore(a) == {<<"delivered", c, 0, 0, 0>> : c \in {x \in Cores : a \in delivered[x]}}

Single(S, kind) == \E w : S = {w} /\ w[1] = kind

LEMMA TupleSet ==
  ASSUME NEW kind, NEW x, NEW y, NEW z, NEW K, NEW S,
         \A w : w \in S <=> \E k \in K : w = <<kind, x, y, z, k>>
  PROVE  /\ K = {} => S = {}
         /\ (\E k : K = {k}) => Single(S, kind)
<1>1. ASSUME K = {} PROVE S = {} BY <1>1
<1>2. ASSUME NEW k, K = {k} PROVE Single(S, kind)
  <2> DEFINE t == <<kind, x, y, z, k>>
  <2>1. t[1] = kind OBVIOUS
  <2>2. \A w : w \in S <=> w = t BY <1>2
  <2> HIDE DEF t
  <2>3. S = {t} BY <2>2
  <2> QED BY <2>1, <2>3 DEF Single
<1> QED BY <1>1, <1>2

\* A queue of distinct accesses holds one at one position.
LEMMA AtOne == ASSUME NEW s \in Seq(Accesses), Distinct(s), NEW a
  PROVE (In(a, s) => \E k \in DOMAIN s : At(a, s) = {k}) /\ (~In(a, s) => At(a, s) = {})
<1>1. ASSUME In(a, s) PROVE \E k \in DOMAIN s : At(a, s) = {k}
  <2>1. PICK k \in DOMAIN s : s[k] = a BY <1>1 DEF In
  <2>2. DOMAIN s \subseteq Nat OBVIOUS
  <2>3. ASSUME NEW i \in DOMAIN s, s[i] = a PROVE i = k BY <2>1, <2>2, <2>3 DEF Distinct
  <2> QED BY <2>1, <2>3 DEF At
<1>2. ASSUME ~In(a, s) PROVE At(a, s) = {} BY <1>2 DEF In, At
<1> QED BY <1>1, <1>2

LEMMA Places == ASSUME IcntInv, NEW a \in Accesses
  PROVE /\ Waiting(a) => Single(InRequest(a), "request")
        /\ ~Waiting(a) => InRequest(a) = {}
        /\ Queued(a) => Single(InQueue(a), "request")
        /\ ~Queued(a) => InQueue(a) = {}
        /\ InDram(a) => Single(InMemory(a), "dram")
        /\ ~InDram(a) => InMemory(a) = {}
        /\ Finished(a) => Single(InAnswered(a), "answer")
        /\ ~Finished(a) => InAnswered(a) = {}
        /\ Arrived(a) => Single(InOut(a), "answer")
        /\ ~Arrived(a) => InOut(a) = {}
        /\ Delivered(a) => Single(InCore(a), "delivered")
        /\ ~Delivered(a) => InCore(a) = {}
<1> DEFINE c0 == Access[a].core
           ch0 == Access[a].channel
           p0 == Access[a].platform
           q0 == queue_of(a)
           n0 == answer_dest(a)
<1>1. Types /\ RequestHome /\ NodeHome /\ MemoryHome /\ DeliveredHome /\ EachOnce BY DEF IcntInv
<1>2. /\ c0 \in Cores /\ ch0 \in Channels /\ p0 \in Queues /\ q0 \in Queues /\ n0 \in OutNodes
  BY <1>1, AccessFacts, QueueOfType
<1>3. (Waiting(a) => Single(InRequest(a), "request")) /\ (~Waiting(a) => InRequest(a) = {})
  <2> DEFINE s == request_queues[c0][ch0][p0]
  <2>1. s \in Seq(Accesses) /\ Distinct(s) BY <1>1, <1>2 DEF Types, EachOnce
  <2>2. ASSUME NEW c \in Cores, NEW ch \in Channels, NEW q \in Queues,
               ~(c = c0 /\ ch = ch0 /\ q = p0)
        PROVE  At(a, request_queues[c][ch][q]) = {}
    BY <1>1, <2>2 DEF RequestHome, At, In
  <2> DEFINE g(c, ch, q) == {<<"request", c, ch, q, k>> : k \in At(a, request_queues[c][ch][q])}
             G == {g(c, ch, q) : c \in Cores, ch \in Channels, q \in Queues}
  <2>3. \A w : w \in g(c0, ch0, p0) <=> \E k \in At(a, s) : w = <<"request", c0, ch0, p0, k>>
    OBVIOUS
  <2>4. \A c \in Cores, ch \in Channels, q \in Queues :
          ~(c = c0 /\ ch = ch0 /\ q = p0) => g(c, ch, q) = {}
    BY <2>2
  <2>5. InRequest(a) = UNION G BY DEF InRequest
  <2> HIDE DEF g, s, c0, ch0, p0
  <2>6. \A u : u \in G <=> \E c \in Cores, ch \in Channels, q \in Queues : u = g(c, ch, q)
    OBVIOUS
  <2> HIDE DEF G
  <2>7. \A w : w \in InRequest(a) <=> \E k \in At(a, s) : w = <<"request", c0, ch0, p0, k>>
    <3>1. \A w : w \in UNION G <=> \E c \in Cores, ch \in Channels, q \in Queues : w \in g(c, ch, q)
      BY <2>6
    <3>2. \A w : w \in UNION G <=> w \in g(c0, ch0, p0) BY <1>2, <2>4, <3>1
    <3> QED BY <2>3, <2>5, <3>2
  <2>8. (Waiting(a) => \E k \in DOMAIN s : At(a, s) = {k}) /\ (~Waiting(a) => At(a, s) = {})
    BY <2>1, AtOne DEF Waiting, s, c0, ch0, p0
  <2> QED BY <2>7, <2>8, TupleSet
<1>4. (Queued(a) => Single(InQueue(a), "request")) /\ (~Queued(a) => InQueue(a) = {})
  <2> DEFINE s == mem_req_queue[q0][ch0]
  <2>1. s \in Seq(Accesses) /\ Distinct(s) BY <1>1, <1>2 DEF Types, EachOnce
  <2>2. ASSUME NEW ch \in Channels, NEW q \in Queues, ~(ch = ch0 /\ q = q0)
        PROVE  At(a, mem_req_queue[q][ch]) = {}
    BY <1>1, <2>2 DEF MemoryHome, At, In
  <2> DEFINE g(q, ch) == {<<"request", q, ch, -1, k>> : k \in At(a, mem_req_queue[q][ch])}
             G == {g(q, ch) : q \in Queues, ch \in Channels}
  <2>3. \A w : w \in g(q0, ch0) <=> \E k \in At(a, s) : w = <<"request", q0, ch0, -1, k>>
    OBVIOUS
  <2>4. \A q \in Queues, ch \in Channels : ~(ch = ch0 /\ q = q0) => g(q, ch) = {} BY <2>2
  <2>5. InQueue(a) = UNION G BY DEF InQueue
  <2> HIDE DEF g, s, q0, ch0
  <2>6. \A u : u \in G <=> \E q \in Queues, ch \in Channels : u = g(q, ch) OBVIOUS
  <2> HIDE DEF G
  <2>7. \A w : w \in InQueue(a) <=> \E k \in At(a, s) : w = <<"request", q0, ch0, -1, k>>
    <3>1. \A w : w \in UNION G <=> \E q \in Queues, ch \in Channels : w \in g(q, ch) BY <2>6
    <3>2. \A w : w \in UNION G <=> w \in g(q0, ch0) BY <1>2, <2>4, <3>1
    <3> QED BY <2>3, <2>5, <3>2
  <2>8. (Queued(a) => \E k \in DOMAIN s : At(a, s) = {k}) /\ (~Queued(a) => At(a, s) = {})
    BY <2>1, AtOne DEF Queued, s, q0, ch0
  <2> QED BY <2>7, <2>8, TupleSet
<1>5. (InDram(a) => Single(InMemory(a), "dram")) /\ (~InDram(a) => InMemory(a) = {})
  <2>1. {x \in Channels : a \in dram[x]} = IF InDram(a) THEN {ch0} ELSE {}
    BY <1>1, <1>2 DEF InDram, MemoryHome
  <2>2. ASSUME InDram(a) PROVE InMemory(a) = {<<"dram", ch0, 0, 0, 0>>} BY <2>1, <2>2 DEF InMemory
  <2>3. <<"dram", ch0, 0, 0, 0>>[1] = "dram" OBVIOUS
  <2>4. ASSUME ~InDram(a) PROVE InMemory(a) = {} BY <2>1, <2>4 DEF InMemory
  <2> QED BY <2>2, <2>3, <2>4 DEF Single
<1>6. (Finished(a) => Single(InAnswered(a), "answer")) /\ (~Finished(a) => InAnswered(a) = {})
  <2> DEFINE s == answered[ch0]
  <2>1. s \in Seq(Accesses) /\ Distinct(s) BY <1>1, <1>2 DEF Types, EachOnce
  <2>2. ASSUME NEW ch \in Channels, ch # ch0
        PROVE  At(a, answered[ch]) = {}
    BY <1>1, <2>2 DEF MemoryHome, At, In
  <2>3. \A w : w \in InAnswered(a) <=> \E ch \in Channels :
          \E k \in At(a, answered[ch]) : w = <<"answer", ch, 0, -1, k>>
    BY DEF InAnswered
  <2>4. \A w : w \in InAnswered(a) <=> \E k \in At(a, s) : w = <<"answer", ch0, 0, -1, k>>
    BY <1>2, <2>2, <2>3
  <2>5. (Finished(a) => \E k \in DOMAIN s : At(a, s) = {k}) /\ (~Finished(a) => At(a, s) = {})
    BY <2>1, AtOne DEF Finished
  <2> HIDE DEF s, ch0
  <2> QED BY <2>4, <2>5, TupleSet
<1>7. (Arrived(a) => Single(InOut(a), "answer")) /\ (~Arrived(a) => InOut(a) = {})
  <2> DEFINE s == out_buffers[n0]
  <2>1. s \in Seq(Accesses) /\ Distinct(s) BY <1>1, <1>2 DEF Types, EachOnce
  <2>2. ASSUME NEW n \in OutNodes, n # n0
        PROVE  At(a, out_buffers[n]) = {}
    BY <1>1, <2>2 DEF NodeHome, At, In
  <2>3. \A w : w \in InOut(a) <=> \E n \in OutNodes :
          \E k \in At(a, out_buffers[n]) : w = <<"answer", n, 0, -2, k>>
    BY DEF InOut
  <2>4. \A w : w \in InOut(a) <=> \E k \in At(a, s) : w = <<"answer", n0, 0, -2, k>>
    BY <1>2, <2>2, <2>3
  <2>5. (Arrived(a) => \E k \in DOMAIN s : At(a, s) = {k}) /\ (~Arrived(a) => At(a, s) = {})
    BY <2>1, AtOne DEF Arrived
  <2> HIDE DEF s, n0
  <2> QED BY <2>4, <2>5, TupleSet
<1>8. (Delivered(a) => Single(InCore(a), "delivered")) /\ (~Delivered(a) => InCore(a) = {})
  <2>1. {x \in Cores : a \in delivered[x]} = IF Delivered(a) THEN {c0} ELSE {}
    BY <1>1, <1>2 DEF Delivered, DeliveredHome
  <2>2. ASSUME Delivered(a) PROVE InCore(a) = {<<"delivered", c0, 0, 0, 0>>} BY <2>1, <2>2 DEF InCore
  <2>3. <<"delivered", c0, 0, 0, 0>>[1] = "delivered" OBVIOUS
  <2>4. ASSUME ~Delivered(a) PROVE InCore(a) = {} BY <2>1, <2>4 DEF InCore
  <2> QED BY <2>2, <2>3, <2>4 DEF Single
<1> QED BY <1>3, <1>4, <1>5, <1>6, <1>7, <1>8

\* A node of a core holds requests, a node of a channel answers.
LEMMA NodePlaces == ASSUME IcntInv, NEW a \in Accesses
  PROVE /\ Sent(a) => Single(InNodes(a), "request")
        /\ Returning(a) => Single(InNodes(a), "answer")
        /\ ~Sent(a) /\ ~Returning(a) => InNodes(a) = {}
<1> DEFINE n0 == answer_dest(a)
           n1 == mem_ind(Access[a].channel)
           pos(n) == {i \in DOMAIN in_buffers[n] : in_buffers[n][i].access = a}
           kind(n, k) == IF in_buffers[n][k].dest < dram_offset THEN "answer" ELSE "request"
<1>1. Types /\ NodeHome /\ EachOnce /\ Stages BY DEF IcntInv
<1>2. /\ n0 \in OutNodes /\ n0 \in Nodes /\ n1 \in Nodes /\ n1 \notin OutNodes
      /\ Access[a].channel \in Channels
  BY AccessFacts, NodeFacts
<1>3. ASSUME NEW n \in Nodes PROVE pos(n) = At(a, accs(in_buffers[n]))
  <2>1. in_buffers[n] \in Seq(Entity) BY <1>1 DEF Types
  <2> QED BY <2>1, AccsFacts DEF At
<1>4. ASSUME NEW n \in Nodes
      PROVE  (In(a, accs(in_buffers[n])) => \E k \in DOMAIN in_buffers[n] : pos(n) = {k})
             /\ (~In(a, accs(in_buffers[n])) => pos(n) = {})
  <2>1. /\ accs(in_buffers[n]) \in Seq(Accesses) /\ Distinct(accs(in_buffers[n]))
        /\ DOMAIN accs(in_buffers[n]) = DOMAIN in_buffers[n]
    BY <1>1, AccsFacts DEF Types, EachOnce
  <2> QED BY <1>3, <2>1, AtOne
<1>5. ASSUME NEW n \in Nodes, In(a, accs(in_buffers[n])) PROVE (n = n0 /\ Sent(a)) \/ (n = n1 /\ Returning(a))
  <2>1. CASE n \in OutNodes BY <1>1, <1>5, <2>1 DEF NodeHome, Sent
  <2>2. CASE n \notin OutNodes
    <3>1. PICK ch \in Channels : n = mem_ind(ch) BY <2>2, NodeFacts
    <3> QED BY <1>1, <1>5, <3>1 DEF NodeHome, Returning
  <2> QED BY <2>1, <2>2
<1>6. ASSUME NEW k \in pos(n0) PROVE kind(n0, k) = "request"
  <2>1. in_buffers[n0][k].dest = request_dest(a) BY <1>1, <1>2, <1>6 DEF NodeHome, ToMemory
  <2>2. ~(request_dest(a) < dram_offset)
    BY <1>2, Numbers, AccessFacts DEF mem_ind, Channels
  <2> QED BY <2>1, <2>2
<1>7. ASSUME NEW k \in pos(n1) PROVE kind(n1, k) = "answer"
  <2>1. in_buffers[n1][k].dest = answer_dest(a) BY <1>1, <1>2, <1>7 DEF NodeHome, ToCore
  <2>2. answer_dest(a) < dram_offset BY <1>2, Numbers DEF OutNodes
  <2> QED BY <2>1, <2>2
<1>8. \A w : w \in InNodes(a) <=> \E n \in Nodes : \E k \in pos(n) : w = <<kind(n, k), n, 0, 0, k>>
  BY DEF InNodes
<1> HIDE DEF kind, pos
<1>9. ASSUME Sent(a) PROVE Single(InNodes(a), "request") /\ ~Returning(a)
  <2>1. ~Returning(a) /\ In(a, accs(in_buffers[n0])) BY <1>1, <1>9 DEF Sent, Stages, OneStage
  <2>2. \A n \in Nodes : n # n0 => pos(n) = {} BY <1>4, <1>5, <2>1
  <2>3. \A w : w \in InNodes(a) <=> \E k \in pos(n0) : w = <<"request", n0, 0, 0, k>>
    BY <1>2, <1>6, <1>8, <2>2
  <2>4. \E k : pos(n0) = {k} BY <1>2, <1>4, <2>1
  <2> HIDE DEF n0
  <2> QED BY <2>1, <2>3, <2>4, TupleSet
<1>10. ASSUME Returning(a) PROVE Single(InNodes(a), "answer")
  <2>1. ~Sent(a) /\ In(a, accs(in_buffers[n1])) BY <1>9, <1>10 DEF Returning
  <2>2. \A n \in Nodes : n # n1 => pos(n) = {} BY <1>4, <1>5, <2>1
  <2>3. \A w : w \in InNodes(a) <=> \E k \in pos(n1) : w = <<"answer", n1, 0, 0, k>>
    BY <1>2, <1>7, <1>8, <2>2
  <2>4. \E k : pos(n1) = {k} BY <1>2, <1>4, <2>1
  <2> HIDE DEF n1
  <2> QED BY <2>3, <2>4, TupleSet
<1>11. ASSUME ~Sent(a), ~Returning(a) PROVE InNodes(a) = {}
  <2>1. \A n \in Nodes : pos(n) = {} BY <1>4, <1>5, <1>11
  <2> QED BY <1>8, <2>1
<1> QED BY <1>9, <1>10, <1>11

LEMMA WhereFacts == ASSUME IcntInv, NEW a \in Accesses
  PROVE /\ Waiting(a) \/ Sent(a) \/ Queued(a) => Single(Where(a), "request")
        /\ InDram(a) => Single(Where(a), "dram")
        /\ Finished(a) \/ Returning(a) \/ Arrived(a) => Single(Where(a), "answer")
        /\ Delivered(a) => Single(Where(a), "delivered")
        /\ ~Somewhere(a) => Where(a) = {}
<1>1. Where(a) = InRequest(a) \cup InNodes(a) \cup InQueue(a) \cup InMemory(a) \cup InAnswered(a)
                   \cup InOut(a) \cup InCore(a)
  BY DEF Where, InRequest, InNodes, InQueue, InMemory, InAnswered, InOut, InCore
<1>2. OneStage(a) BY DEF IcntInv, Stages
<1>3. ASSUME Waiting(a) PROVE Where(a) = InRequest(a)
  BY <1>1, <1>2, <1>3, Places, NodePlaces DEF OneStage
<1>4. ASSUME Sent(a) \/ Returning(a) PROVE Where(a) = InNodes(a)
  BY <1>1, <1>2, <1>4, Places DEF OneStage
<1>5. ASSUME Queued(a) PROVE Where(a) = InQueue(a)
  BY <1>1, <1>2, <1>5, Places, NodePlaces DEF OneStage
<1>6. ASSUME InDram(a) PROVE Where(a) = InMemory(a)
  BY <1>1, <1>2, <1>6, Places, NodePlaces DEF OneStage
<1>7. ASSUME Finished(a) PROVE Where(a) = InAnswered(a)
  BY <1>1, <1>2, <1>7, Places, NodePlaces DEF OneStage
<1>8. ASSUME Arrived(a) PROVE Where(a) = InOut(a)
  BY <1>1, <1>2, <1>8, Places, NodePlaces DEF OneStage
<1>9. ASSUME Delivered(a) PROVE Where(a) = InCore(a)
  BY <1>1, <1>2, <1>9, Places, NodePlaces DEF OneStage
<1>10. ASSUME ~Somewhere(a) PROVE Where(a) = {}
  BY <1>1, <1>10, Places, NodePlaces DEF Somewhere
<1> QED BY <1>3, <1>4, <1>5, <1>6, <1>7, <1>8, <1>9, <1>10, Places, NodePlaces

\* No access is lost or doubled on its way between cores and memory, only a P_HEADER ends
\* there, and an answer is given to the core that made the access: push_memory_response
\* finds the tile.
THEOREM AlwaysAccessesConserved == ASSUME NodesAgree PROVE Spec => []AccessesConserved
<1>1. ASSUME IcntInv PROVE AccessesConserved
  <2>1. Stages /\ DeliveredHome BY <1>1 DEF IcntInv
  <2>2. ASSUME NEW a \in Accesses
        PROVE  IF a \in made
               THEN Cardinality(Where(a)) = 1 \/ (~Access[a].responds /\ Where(a) = {})
               ELSE Where(a) = {}
    <3>1. CASE Somewhere(a)
      <4>1. PICK w : Where(a) = {w} BY <1>1, <3>1, WhereFacts DEF Somewhere, Single
      <4>2. Cardinality(Where(a)) = 1 BY <4>1, FS_Singleton
      <4> QED BY <2>1, <3>1, <4>2 DEF Stages
    <3>2. CASE ~Somewhere(a)
      <4>1. Where(a) = {} BY <1>1, <3>2, WhereFacts
      <4> QED BY <2>1, <3>2, <4>1 DEF Stages
    <3> QED BY <3>1, <3>2
  <2> QED BY <2>1, <2>2 DEF AccessesConserved, DeliveredHome
<1> QED BY <1>1, IcntInvariant, PTL

\* The accesses of a core to a channel and a queue reach the memory in the order the core
\* made them, so that a PIM computation keeps its P_HEADER, GWRITE, COMP, READRES.
THEOREM AlwaysDramOrder == ASSUME NodesAgree PROVE Spec => []DramOrder
<1>1. ASSUME IcntInv PROVE DramOrder
  <2>1. ASSUME NEW a \in Accesses
        PROVE  PastDram(a) <=> a \in made /\ ~Waiting(a) /\ ~Sent(a) /\ ~Queued(a)
    <3>1. ASSUME NEW kind, Single(Where(a), kind), kind # "request"
          PROVE  \A w \in Where(a) : w[1] # "request"
      BY <3>1 DEF Single
    <3>2. ASSUME Single(Where(a), "request") PROVE \E w \in Where(a) : w[1] = "request"
      BY <3>2 DEF Single
    <3>3. CASE Waiting(a) \/ Sent(a) \/ Queued(a)
      <4>1. \E w \in Where(a) : w[1] = "request" BY <1>1, <3>2, <3>3, WhereFacts
      <4> QED BY <3>3, <4>1 DEF PastDram
    <3>4. CASE ~(Waiting(a) \/ Sent(a) \/ Queued(a))
      <4>1. \A w \in Where(a) : w[1] # "request"
        BY <1>1, <3>1, <3>4, WhereFacts DEF Somewhere
      <4> QED BY <3>4, <4>1 DEF PastDram
    <3> QED BY <3>3, <3>4
  <2>2. ASSUME NEW a \in Accesses, NEW b \in Accesses, a < b, PastDram(b), SameFlow(a, b)
        PROVE  PastDram(a)
    BY <1>1, <2>1, <2>2 DEF IcntInv, Ahead
  <2> QED BY <2>2 DEF DramOrder, SameFlow
<1> QED BY <1>1, IcntInvariant, PTL
=============================================================================
