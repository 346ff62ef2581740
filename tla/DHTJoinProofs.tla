--------------------------- MODULE DHTJoinProofs ----------------------------
(***************************************************************************)
(* What DHTRing promises while nodes only join: RangesPartition, QuietRing *)
(* and NoErrorExit are invariants, and no step loses an entry (NoDataLoss),*)
(* for any number of nodes, keys and requests, with joins and requests that*)
(* overlap at will.                                                        *)
(***************************************************************************)
EXTENDS DHTRingProofs

(* Nobody leaves and nothing fails; the first two nodes do not start at the
   same moment (each would be told that it is alone); there is a range to
   split (HASH_SIZE is 256 in the code). *)
JoinOnly == Leavers = {} /\ Faults = {} /\ "first" \notin Overlap /\ HASH_SIZE > 1

(***************************************************************************)
(* The inductive invariant, of memories sd and a kernel nt.                *)
(***************************************************************************)
Inside(s) == s.pc \in {"q6", "accept"}

Whole(s) == s.range_start = 0 /\ s.range_end = HASH_SIZE - 1

(* The range of a node that was the largest when NET_JOIN came by.  It may
   have been split since, down to one hash, which is then not the last one:
   the next part begins at a hash that exists. *)
Divisible(s) ==
  s.range_start <= s.range_end /\ (s.range_start < s.range_end \/ s.range_end < HASH_SIZE - 1)

(* Both neighbours or none, except between JoinAlone or NET_CLOSE_CONNECTION
   and the next accept. *)
Seat(s) ==
  /\ s.pc \in {"off", "q3", "q7", "q6", "accept"}
  /\ ~Inside(s) => ~s.succ_socket /\ ~s.pred_socket
  /\ s.pc = "accept" => s.succ_socket /\ ~s.pred_socket
  /\ s.pc = "q6" => (s.succ_socket <=> s.pred_socket)
  /\ s.pred_socket => s.pred_fd # NULL
  /\ Inside(s) => (s.succ_socket <=> ~Whole(s))
  /\ Inside(s) /\ ~s.succ_socket => s.succ_fd = NULL

(* A node somebody may be told to connect to, and where its range begins: it
   has one, or NET_JOIN_RESPONSE is on its way to it. *)
Expected(sd, nt, m) == Inside(sd[m]) \/ (sd[m].pc = "q7" /\ nt.backlog[m] # <<>>)

StartOf(sd, nt, m) ==
  IF Inside(sd[m]) THEN sd[m].range_start ELSE Head(nt.fwd[Head(nt.backlog[m])]).range_start

Follows(sd, nt, m, e) == m \in Node /\ Expected(sd, nt, m) /\ StartOf(sd, nt, m) = u8(e + 1)

(* The successor of a node holds its end of the connection and begins where
   the node ends; the connector of an open connection is inside. *)
Link(sd, nt, s) ==
  s.succ_socket =>
      /\ s.succ_fd # NULL /\ s.succ_addr = s.succ_fd.to /\ Holds(sd, nt, s.succ_fd)
      /\ Follows(sd, nt, s.succ_addr, s.range_end)

Alone(sd, nt, n) ==
  Inside(sd[n]) /\ ~sd[n].succ_socket =>
      /\ \A m \in Node : m # n => ~Inside(sd[m])
      /\ \A c \in Conn : nt.fwd[c] = <<>>

(* What is on the streams. *)
Traffic == {"VAL_INSERT", "VAL_REMOVE", "VAL_LOOKUP", "NET_JOIN", "NET_JOIN_RESPONSE", "NET_CLOSE_CONNECTION"}

OnlyTraffic(nt, c) == nt.bwd[c] = <<>> /\ \A pdu \in Range(nt.fwd[c]) : pdu.type \in Traffic

(* NET_JOIN_RESPONSE is the first PDU on the first connection of a node that
   waits for it. *)
Response(sd, nt, c, i) ==
  nt.fwd[c][i].type = "NET_JOIN_RESPONSE" =>
      /\ i = 1 /\ sd[c.to].pc = "q7" /\ nt.backlog[c.to] # <<>> /\ Head(nt.backlog[c.to]) = c
      /\ nt.fwd[c][i].range_start > 0
      /\ Follows(sd, nt, nt.fwd[c][i].next, nt.fwd[c][i].range_end)

(* NET_JOIN: its source waits, with no connection yet; the largest node found
   so far can still be split. *)
JoinOf(pdu, n) == pdu.type = "NET_JOIN" /\ pdu.src = n

Asking(sd, nt, pdu) ==
  pdu.type = "NET_JOIN" =>
      /\ sd[pdu.src].pc = "q7" /\ nt.backlog[pdu.src] = <<>>
      /\ pdu.max # NULL => Inside(sd[pdu.max]) /\ Divisible(sd[pdu.max])

(* There is one NET_JOIN of a node at most. *)
Asks(q, n) == \E i \in DOMAIN q : JoinOf(q[i], n)

AsksOnce(q, n) == \A i, j \in DOMAIN q : JoinOf(q[i], n) /\ JoinOf(q[j], n) => i = j

Once(nt, n) ==
  /\ \A c \in Conn : AsksOnce(nt.fwd[c], n)
  /\ \A c, d \in Conn : Asks(nt.fwd[c], n) /\ Asks(nt.fwd[d], n) => c = d
  /\ \A d, e \in nt.udp : JoinOf(d.pdu, n) /\ JoinOf(e.pdu, n) => d = e
  /\ \A c \in Conn, d \in nt.udp : ~(Asks(nt.fwd[c], n) /\ JoinOf(d.pdu, n))

(* Datagrams. *)
Letters == {"VAL_INSERT", "VAL_REMOVE", "VAL_LOOKUP", "VAL_LOOKUP_RESPONSE", "NET_JOIN", "NET_GET_NODE_RESPONSE"}

Letter(sd, d) ==
  /\ d.pdu.type \in Letters
  /\ d.dst \in Node => sd[d.dst].pc # "off"
  /\ d.dst \in Node /\ ~Inside(sd[d.dst]) => d.pdu.type = "NET_GET_NODE_RESPONSE"

Order(sd, nt) ==
  /\ \A n \in Node : Seat(sd[n])
  /\ \A n \in Node : Link(sd, nt, sd[n])
  /\ \A n \in Node : Alone(sd, nt, n)
  /\ \A c \in Conn : Holds(sd, nt, c) => Inside(sd[c.from])
  /\ \A c \in Conn : OnlyTraffic(nt, c)
  /\ \A c \in Conn : \A i \in DOMAIN nt.fwd[c] : Response(sd, nt, c, i)
  /\ \A c \in Conn : \A pdu \in Range(nt.fwd[c]) : Asking(sd, nt, pdu)
  /\ \A d \in nt.udp : Asking(sd, nt, d.pdu) /\ Letter(sd, d)
  /\ \A n \in Node : Once(nt, n)

(* The tracker: as long as its table is empty there is one node at most. *)
Table(sd, nt, T) ==
  /\ \A n \in T : Inside(sd[n])
  /\ T = {} => \A n, m \in Node : sd[n].pc # "off" /\ sd[m].pc # "off" => n = m
  /\ \A n \in Node : sd[n].pc = "q7" => T # {}
  /\ \A d \in nt.udp : d.pdu.type = "NET_GET_NODE_RESPONSE" =>
        /\ d.pdu.node # NULL => d.pdu.node \in T
        /\ d.pdu.node = NULL /\ d.dst \in Node => (sd[d.dst].pc = "q3" => T = {})

(* Every hash has one holder: a node inside, or the response to a node that
   will be. *)
Owns(sd, h, n) == Inside(sd[n]) /\ InRange(h, sd[n].range_start, sd[n].range_end)

Brings(nt, h, c) ==
  /\ nt.fwd[c] # <<>> /\ Head(nt.fwd[c]).type = "NET_JOIN_RESPONSE"
  /\ InRange(h, Head(nt.fwd[c]).range_start, Head(nt.fwd[c]).range_end)

OneHolder(sd, nt, h) ==
  /\ (\E n \in Node : Owns(sd, h, n)) \/ (\E c \in Conn : Brings(nt, h, c))
  /\ \A n, m \in Node : Owns(sd, h, n) /\ Owns(sd, h, m) => n = m
  /\ \A c, d \in Conn : Brings(nt, h, c) /\ Brings(nt, h, d) => c = d
  /\ \A n \in Node, c \in Conn : ~(Owns(sd, h, n) /\ Brings(nt, h, c))

Shares(sd, nt) == (\E n \in Node : Inside(sd[n])) => \A h \in Byte : OneHolder(sd, nt, h)

JoinInv ==
  /\ Order(self_data, net)
  /\ Table(self_data, net, nodes)
  /\ Shares(self_data, net)

(***************************************************************************)
(* Streams and ranges.                                                     *)
(***************************************************************************)

(* NET_JOINs in a stream that is read from. *)
LEMMA AsksTail ==
  ASSUME NEW q \in Seq(PDU), q # <<>>, NEW n
  PROVE  /\ Asks(Tail(q), n) => Asks(q, n)
         /\ AsksOnce(q, n) => AsksOnce(Tail(q), n)
         /\ AsksOnce(q, n) /\ JoinOf(Head(q), n) => ~Asks(Tail(q), n)
<1>1. /\ Len(q) \in Nat \ {0} /\ DOMAIN q = 1 .. Len(q) /\ DOMAIN Tail(q) = 1 .. Len(q) - 1
      /\ Head(q) = q[1] /\ \A i \in 1 .. Len(q) - 1 : Tail(q)[i] = q[i + 1] /\ i + 1 \in 1 .. Len(q)
      /\ 1 \in 1 .. Len(q)
  OBVIOUS
<1>2. Asks(Tail(q), n) => Asks(q, n)
  BY <1>1 DEF Asks
<1>3. ASSUME AsksOnce(q, n), NEW i \in 1 .. Len(q) - 1, NEW j \in 1 .. Len(q) - 1,
             JoinOf(Tail(q)[i], n), JoinOf(Tail(q)[j], n)
      PROVE  i = j
  <2>1. i + 1 = j + 1
    BY <1>1, <1>3 DEF AsksOnce
  <2> QED
    BY <1>1, <2>1
<1>4. ASSUME AsksOnce(q, n), JoinOf(Head(q), n), NEW i \in 1 .. Len(q) - 1, JoinOf(Tail(q)[i], n)
      PROVE  FALSE
  <2>1. i + 1 = 1
    BY <1>1, <1>4 DEF AsksOnce
  <2> QED
    BY <1>1, <2>1
<1> QED
  BY <1>1, <1>2, <1>3, <1>4 DEF Asks, AsksOnce

(* NET_JOINs in a stream that is written to. *)
LEMMA AsksConcat ==
  ASSUME NEW q \in Seq(PDU), NEW p \in Seq(PDU), NEW n
  PROVE  /\ Asks(q \o p, n) => Asks(q, n) \/ Asks(p, n)
         /\ AsksOnce(q, n) /\ AsksOnce(p, n) /\ ~(Asks(q, n) /\ Asks(p, n)) => AsksOnce(q \o p, n)
<1>1. /\ Len(q) \in Nat /\ Len(p) \in Nat /\ DOMAIN q = 1 .. Len(q) /\ DOMAIN p = 1 .. Len(p)
      /\ DOMAIN (q \o p) = 1 .. Len(q) + Len(p)
      /\ \A i \in 1 .. Len(q) + Len(p) : (q \o p)[i] = IF i <= Len(q) THEN q[i] ELSE p[i - Len(q)]
  OBVIOUS
<1>2. ASSUME NEW i \in 1 .. Len(q) + Len(p), JoinOf((q \o p)[i], n)
      PROVE  \/ i \in DOMAIN q /\ JoinOf(q[i], n)
             \/ i > Len(q) /\ i - Len(q) \in DOMAIN p /\ JoinOf(p[i - Len(q)], n)
  <2>1. CASE i <= Len(q)
    BY <1>1, <1>2, <2>1
  <2>2. CASE ~(i <= Len(q))
    BY <1>1, <1>2, <2>2
  <2> QED
    BY <2>1, <2>2
<1>3. Asks(q \o p, n) => Asks(q, n) \/ Asks(p, n)
  BY <1>1, <1>2 DEF Asks
<1>4. ASSUME AsksOnce(q, n), AsksOnce(p, n), ~(Asks(q, n) /\ Asks(p, n)),
             NEW i \in 1 .. Len(q) + Len(p), NEW j \in 1 .. Len(q) + Len(p),
             JoinOf((q \o p)[i], n), JoinOf((q \o p)[j], n)
      PROVE  i = j
  <2>1. /\ \/ i \in DOMAIN q /\ JoinOf(q[i], n)
           \/ i > Len(q) /\ i - Len(q) \in DOMAIN p /\ JoinOf(p[i - Len(q)], n)
        /\ \/ j \in DOMAIN q /\ JoinOf(q[j], n)
           \/ j > Len(q) /\ j - Len(q) \in DOMAIN p /\ JoinOf(p[j - Len(q)], n)
    BY <1>2, <1>4
  <2>2. CASE Asks(q, n)
    BY <1>4, <2>1, <2>2 DEF AsksOnce, Asks
  <2>3. CASE ~Asks(q, n)
    <3>1. i - Len(q) = j - Len(q)
      BY <1>4, <2>1, <2>3 DEF AsksOnce, Asks
    <3> QED
      BY <1>1, <3>1
  <2> QED
    BY <2>2, <2>3
<1> QED
  BY <1>1, <1>3, <1>4 DEF AsksOnce

(* A stream without NET_JOIN, and one NET_JOIN. *)
LEMMA AsksSimple ==
  ASSUME NEW n
  PROVE  /\ \A q \in Seq(PDU) : Without(q, "NET_JOIN") => ~Asks(q, n) /\ AsksOnce(q, n)
         /\ \A pdu \in PDU : AsksOnce(<<pdu>>, n) /\ (Asks(<<pdu>>, n) => JoinOf(pdu, n))
         /\ ~Asks(<<>>, n) /\ AsksOnce(<<>>, n)
  BY DEF Asks, AsksOnce, JoinOf, Without, Range

(* A range that is Divisible is split without loss and overlap; what is kept
   can be split again, and is not the whole; what is handed over begins where
   the kept part ends, and not at 0. *)
LEMMA SplitDivisible ==
  ASSUME NEW a \in Byte, NEW b \in Byte, a <= b, a < b \/ b < HASH_SIZE - 1
  PROVE  /\ \A h \in Byte :
               /\ InRange(h, a, b) <=> \/ InRange(h, a, middle_point(a, b))
                                      \/ InRange(h, handover_start(a, b), b)
               /\ ~(InRange(h, a, middle_point(a, b)) /\ InRange(h, handover_start(a, b), b))
         /\ handover_start(a, b) > 0 /\ a <= middle_point(a, b) /\ middle_point(a, b) < HASH_SIZE - 1
         /\ handover_start(a, b) = u8(middle_point(a, b) + 1)
<1>0. a \in Int /\ b \in Int /\ 0 <= a /\ b <= HASH_SIZE - 1 /\ HASH_SIZE \in Int
  BY HashSizeAssumption DEF Byte
<1>1. CASE a < b
  <2> DEFINE m == (b - a) \div 2 + a
  <2>1. m \in Int /\ a <= m /\ m < b
    BY <1>0, <1>1
  <2>2. Half(b - a) + a = m
    BY <1>0, <1>1 DEF Half
  <2> HIDE DEF m
  <2>3. m \in Byte /\ m + 1 \in Byte
    BY <1>0, <2>1 DEF Byte
  <2>4. middle_point(a, b) = m /\ handover_start(a, b) = m + 1 /\ u8(m + 1) = m + 1
    BY <2>2, <2>3, u8Fits DEF middle_point, handover_start
  <2> QED
    BY <1>0, <1>1, <2>1, <2>4, SplitPartitions
<1>2. CASE a = b
  <2>1. Half(b - a) + a = a
    BY <1>0, <1>2 DEF Half
  <2>2. a \in Byte /\ a + 1 \in Byte
    BY <1>0, <1>2 DEF Byte
  <2>3. middle_point(a, b) = a /\ handover_start(a, b) = a + 1 /\ u8(a + 1) = a + 1
    BY <2>1, <2>2, u8Fits DEF middle_point, handover_start
  <2> QED
    BY <1>0, <1>2, <2>3, ByteFacts DEF InRange
<1> QED
  BY <1>0, <1>1, <1>2

(***************************************************************************)
(* Operations on the kernel.                                               *)
(***************************************************************************)
Good(sd, nt) == World(sd, nt) /\ Order(sd, nt) /\ Shares(sd, nt)

(* Where the range of a node begins is settled when NET_JOIN_RESPONSE is sent. *)
Steady(sd, nt, new, k) ==
  \A m \in Node : Expected(sd, nt, m) => Expected(new, k, m) /\ StartOf(new, k, m) = StartOf(sd, nt, m)

LEMMA FollowsKept ==
  ASSUME NEW sd, NEW nt, NEW new, NEW k, Steady(sd, nt, new, k)
  PROVE  \A m, e : Follows(sd, nt, m, e) => Follows(new, k, m, e)
  BY DEF Steady, Follows

(* The datagrams change. *)
LEMMA DatagramsGood ==
  ASSUME NEW sd, NEW nt, Good(sd, nt), NEW D \in SUBSET [dst : Node \cup {Client}, pdu : PDU],
         \A d \in D : Asking(sd, nt, d.pdu) /\ Letter(sd, d),
         \A n \in Node : /\ \A d, e \in D : JoinOf(d.pdu, n) /\ JoinOf(e.pdu, n) => d = e
                         /\ \A c \in Conn, d \in D : ~(Asks(nt.fwd[c], n) /\ JoinOf(d.pdu, n))
  PROVE  Good(sd, [nt EXCEPT !.udp = D])
<1> DEFINE u == [nt EXCEPT !.udp = D]
<1>1. u \in Net /\ u.fwd = nt.fwd /\ u.bwd = nt.bwd /\ u.backlog = nt.backlog /\ u.udp = D
  BY DEF Good, World, Net
<1> HIDE DEF u
<1>2. \A m \in Node : Expected(sd, u, m) = Expected(sd, nt, m) /\ StartOf(sd, u, m) = StartOf(sd, nt, m)
  BY <1>1 DEF Expected, StartOf
<1>3. \A m, e : Follows(sd, u, m, e) <=> Follows(sd, nt, m, e)
  BY <1>2 DEF Follows
<1>4. /\ \A n \in Node : Seat(sd[n])
      /\ \A c \in Conn : Holds(sd, nt, c) => Inside(sd[c.from])
      /\ \A n \in Node : Link(sd, nt, sd[n]) /\ Alone(sd, nt, n)
      /\ \A c \in Conn : OnlyTraffic(nt, c)
      /\ \A c \in Conn : \A i \in DOMAIN nt.fwd[c] : Response(sd, nt, c, i)
      /\ \A c \in Conn : \A pdu \in Range(nt.fwd[c]) : Asking(sd, nt, pdu)
      /\ \A n \in Node : Once(nt, n)
  BY DEF Good, Order
<1>5. \A c : Holds(sd, u, c) <=> Holds(sd, nt, c)
  BY <1>1 DEF Holds
<1>6. \A n \in Node : Link(sd, u, sd[n]) /\ Alone(sd, u, n)
  BY <1>1, <1>3, <1>4, <1>5 DEF Link, Alone
<1>7. \A c \in Conn : OnlyTraffic(u, c) /\ \A i \in DOMAIN u.fwd[c] : Response(sd, u, c, i)
  BY <1>1, <1>3, <1>4 DEF OnlyTraffic, Response
<1>8. \A pdu : Asking(sd, u, pdu) <=> Asking(sd, nt, pdu)
  BY <1>1 DEF Asking
<1>9. \A n \in Node : Once(u, n)
  BY <1>1, <1>4 DEF Once
<1>10. Order(sd, u)
  BY <1>1, <1>4, <1>5, <1>6, <1>7, <1>8, <1>9 DEF Order
<1>11. Shares(sd, u)
  <2>1. \A h, c : Brings(u, h, c) <=> Brings(nt, h, c)
    BY <1>1 DEF Brings
  <2> QED
    BY <2>1 DEF Good, Shares, OneHolder
<1> QED
  BY <1>1, <1>10, <1>11 DEF Good, World, u

(* Nobody asks for n to be let in. *)
Silent(nt, n) == (\A c \in Conn : ~Asks(nt.fwd[c], n)) /\ (\A d \in nt.udp : ~JoinOf(d.pdu, n))

(* What has been written to c and not yet read changes, without touching the
   response to a node that waits for it. *)
LEMMA StreamGood ==
  ASSUME NEW sd, NEW nt, Good(sd, nt), NEW x, Ends(sd, nt, x, NULL), NEW c \in Conn, NEW q \in Seq(PDU),
         \A pdu \in Range(q) : pdu.type \in Traffic /\ Asking(sd, nt, pdu),
         \A i \in DOMAIN q : q[i].type = "NET_JOIN_RESPONSE" =>
             i \in DOMAIN nt.fwd[c] /\ q[i] = nt.fwd[c][i],
         nt.fwd[c] # <<>> /\ Head(nt.fwd[c]).type = "NET_JOIN_RESPONSE" => q # <<>> /\ Head(q) = Head(nt.fwd[c]),
         sd[c.to].pc = "q7" /\ nt.backlog[c.to] # <<>> /\ Head(nt.backlog[c.to]) = c =>
             q # <<>> /\ Head(q) = Head(nt.fwd[c]),
         \A n \in Node : AsksOnce(q, n) /\ (Asks(q, n) => Asks(nt.fwd[c], n) \/ Silent(nt, n)),
         q = <<>> \/ nt.fwd[c] # <<>> \/ \E n \in Node : Inside(sd[n]) /\ sd[n].succ_socket
  PROVE  Good(sd, [nt EXCEPT !.fwd[c] = q])
<1> DEFINE k == [nt EXCEPT !.fwd[c] = q]
<1>0. nt \in Net /\ sd \in [Node -> SelfData] /\ nt.fwd \in [Conn -> Seq(PDU)]
  BY NetFields DEF Good, World
<1>1. /\ k \in Net /\ k.bwd = nt.bwd /\ k.backlog = nt.backlog /\ k.udp = nt.udp
      /\ k.fwd[c] = q /\ \A d \in Conn : d # c => k.fwd[d] = nt.fwd[d]
  <2>1. k.fwd = [nt.fwd EXCEPT ![c] = q] /\ k.fwd \in [Conn -> Seq(PDU)]
    BY <1>0 DEF Net
  <2> QED
    BY <1>0, <2>1 DEF Net
<1> HIDE DEF k
<1>2. /\ \A n \in Node : Seat(sd[n])
      /\ \A d \in Conn : Holds(sd, nt, d) => Inside(sd[d.from])
      /\ \A n \in Node : Link(sd, nt, sd[n]) /\ Alone(sd, nt, n)
      /\ \A d \in Conn : OnlyTraffic(nt, d)
      /\ \A d \in Conn : \A i \in DOMAIN nt.fwd[d] : Response(sd, nt, d, i)
      /\ \A d \in Conn : \A pdu \in Range(nt.fwd[d]) : Asking(sd, nt, pdu)
      /\ \A d \in nt.udp : Asking(sd, nt, d.pdu) /\ Letter(sd, d)
      /\ \A n \in Node : Once(nt, n)
  BY DEF Good, Order
<1>3. ASSUME NEW m \in Node
      PROVE  /\ Expected(sd, nt, m) => Expected(sd, k, m) /\ StartOf(sd, k, m) = StartOf(sd, nt, m)
  <2>1. Expected(sd, k, m) <=> Expected(sd, nt, m)
    BY <1>1 DEF Expected
  <2>2. CASE Inside(sd[m])
    BY <2>1, <2>2 DEF StartOf
  <2>3. CASE ~Inside(sd[m]) /\ Expected(sd, nt, m)
    <3>1. sd[m].pc = "q7" /\ nt.backlog[m] # <<>> /\ nt.backlog[m] \in Seq(Conn)
      BY <1>0, <2>3, NetFields DEF Expected
    <3>2. Head(nt.backlog[m]) \in Conn /\ Head(nt.backlog[m]) \in Range(nt.backlog[m])
      BY <3>1, StreamRange
    <3>3. Head(nt.backlog[m]).to = m
      BY <3>2 DEF Ends
    <3>4. Head(k.fwd[Head(nt.backlog[m])]) = Head(nt.fwd[Head(nt.backlog[m])])
      BY <1>1, <3>1, <3>2, <3>3
    <3> QED
      BY <1>1, <2>1, <2>3, <3>4 DEF StartOf
  <2> QED
    BY <2>2, <2>3
<1>4. \A m, e : Follows(sd, nt, m, e) => Follows(sd, k, m, e)
  BY <1>3, FollowsKept DEF Steady
<1>5. \A d : Holds(sd, k, d) <=> Holds(sd, nt, d)
  BY <1>1 DEF Holds
<1>6. \A n \in Node : Link(sd, k, sd[n])
  BY <1>2, <1>4, <1>5 DEF Link
<1>7. \A n \in Node : Alone(sd, k, n)
  <2> SUFFICES ASSUME NEW n \in Node, Inside(sd[n]), ~sd[n].succ_socket
               PROVE  /\ \A m \in Node : m # n => ~Inside(sd[m])
                      /\ \A d \in Conn : k.fwd[d] = <<>>
    BY DEF Alone
  <2>1. (\A m \in Node : m # n => ~Inside(sd[m])) /\ \A d \in Conn : nt.fwd[d] = <<>>
    BY <1>2 DEF Alone
  <2>2. q = <<>>
    BY <2>1
  <2> QED
    BY <1>1, <2>1, <2>2
<1>8. \A d \in Conn : OnlyTraffic(k, d)
  BY <1>1, <1>2 DEF OnlyTraffic
<1>9. \A d \in Conn : \A i \in DOMAIN k.fwd[d] : Response(sd, k, d, i)
  <2> SUFFICES ASSUME NEW d \in Conn, NEW i \in DOMAIN k.fwd[d], k.fwd[d][i].type = "NET_JOIN_RESPONSE"
               PROVE  Response(sd, k, d, i)
    BY DEF Response
  <2>1. i \in DOMAIN nt.fwd[d] /\ k.fwd[d][i] = nt.fwd[d][i]
    BY <1>1
  <2>2. Response(sd, nt, d, i)
    BY <1>2, <2>1
  <2> QED
    BY <1>1, <1>4, <2>1, <2>2 DEF Response
<1>10. \A pdu : Asking(sd, k, pdu) <=> Asking(sd, nt, pdu)
  BY <1>1 DEF Asking
<1>11. \A n \in Node : Once(k, n)
  <2> SUFFICES ASSUME NEW n \in Node PROVE Once(k, n)
    OBVIOUS
  <2>1. Once(nt, n) /\ AsksOnce(q, n) /\ (Asks(q, n) => Asks(nt.fwd[c], n) \/ Silent(nt, n))
    BY <1>2
  <2> QED
    BY <1>1, <2>1 DEF Once, Silent
<1>12. \A d \in Conn : \A pdu \in Range(k.fwd[d]) : Asking(sd, k, pdu)
  BY <1>1, <1>2, <1>10
<1>13. Order(sd, k)
  BY <1>1, <1>2, <1>5, <1>6, <1>7, <1>8, <1>9, <1>10, <1>11, <1>12 DEF Order
<1>14. Shares(sd, k)
  <2>1. ASSUME q # <<>>, Head(q).type = "NET_JOIN_RESPONSE"
        PROVE  nt.fwd[c] # <<>> /\ Head(nt.fwd[c]) = Head(q)
    <3>1. 1 \in DOMAIN q /\ Head(q) = q[1]
      BY <2>1
    <3>2. 1 \in DOMAIN nt.fwd[c] /\ q[1] = nt.fwd[c][1]
      BY <2>1, <3>1
    <3> QED
      BY <1>0, <3>1, <3>2
  <2>2. \A h, d : d \in Conn => (Brings(k, h, d) <=> Brings(nt, h, d))
    BY <1>1, <2>1 DEF Brings
  <2> QED
    BY <2>2 DEF Good, Shares, OneHolder
<1> QED
  BY <1>0, <1>1, <1>13, <1>14 DEF Good, World, k

(* The parts of NET_JOIN. *)
LEMMA JoinFields ==
  ASSUME NEW pdu \in PDU, pdu.type = "NET_JOIN"
  PROVE  pdu.src \in Node /\ pdu.max \in Node \cup {NULL} /\ pdu.max_span \in Byte
  BY DEF PDU

(* A node whose table changes stays where it was. *)
LEMMA MemoryGood ==
  ASSUME NEW sd, NEW nt, Good(sd, nt), NEW n \in Node, NEW t \in SelfData, SameEnds(t, sd[n]),
         t.range_start = sd[n].range_start, t.range_end = sd[n].range_end
  PROVE  Good([sd EXCEPT ![n] = t], nt)
<1> DEFINE new == [sd EXCEPT ![n] = t]
<1>0. sd \in [Node -> SelfData] /\ nt \in Net
  BY DEF Good, World
<1>1. new \in [Node -> SelfData] /\ new[n] = t /\ \A m \in Node : m # n => new[m] = sd[m]
  BY <1>0
<1> HIDE DEF new
<1>2. \A m \in Node : /\ SameEnds(new[m], sd[m])
                      /\ new[m].range_start = sd[m].range_start /\ new[m].range_end = sd[m].range_end
  BY <1>1 DEF SameEnds
<1>3. \A m \in Node : /\ Inside(new[m]) <=> Inside(sd[m])
                      /\ Whole(new[m]) <=> Whole(sd[m])
                      /\ Divisible(new[m]) <=> Divisible(sd[m])
                      /\ Seat(new[m]) <=> Seat(sd[m])
  BY <1>2 DEF SameEnds, Inside, Whole, Divisible, Seat
<1>4. \A m \in Node : Expected(sd, nt, m) => Expected(new, nt, m) /\ StartOf(new, nt, m) = StartOf(sd, nt, m)
  BY <1>2, <1>3 DEF Expected, StartOf, SameEnds
<1>5. \A m, e : Follows(sd, nt, m, e) => Follows(new, nt, m, e)
  BY <1>4, FollowsKept DEF Steady
<1>6. \A d \in Conn : Holds(new, nt, d) <=> Holds(sd, nt, d)
  BY <1>2, ConnFields DEF Holds, SameEnds
<1>7. \A m \in Node : Link(new, nt, new[m])
  <2> SUFFICES ASSUME NEW m \in Node, new[m].succ_socket
               PROVE  Link(new, nt, new[m])
    BY DEF Link
  <2>1. Link(sd, nt, sd[m]) /\ SameEnds(new[m], sd[m]) /\ new[m].range_end = sd[m].range_end
    BY <1>2 DEF Good, Order
  <2>2. sd[m].succ_fd \in Conn \cup {NULL}
    BY <1>0, SelfDataFields
  <2> QED
    BY <1>5, <1>6, <2>1, <2>2 DEF Link, SameEnds
<1>8. \A m \in Node : Alone(new, nt, m)
  BY <1>2, <1>3 DEF Good, Order, Alone, SameEnds
<1>9. \A c \in Conn : \A i \in DOMAIN nt.fwd[c] : Response(new, nt, c, i)
  BY <1>2, <1>5, ConnFields DEF Good, Order, Response, SameEnds
<1>10. \A pdu \in PDU : Asking(sd, nt, pdu) => Asking(new, nt, pdu)
  <2> SUFFICES ASSUME NEW pdu \in PDU, pdu.type = "NET_JOIN", Asking(sd, nt, pdu) PROVE Asking(new, nt, pdu)
    BY DEF Asking
  <2>1. pdu.src \in Node /\ pdu.max \in Node \cup {NULL}
    BY JoinFields
  <2> QED
    BY <1>2, <1>3, <2>1 DEF Asking, SameEnds
<1>11. (\A c \in Conn : Range(nt.fwd[c]) \subseteq PDU) /\ \A d \in nt.udp : d.pdu \in PDU
  BY <1>0, NetFields DEF Range
<1>12. \A d \in nt.udp : Letter(new, d)
  BY <1>2, <1>3 DEF Good, Order, Letter, SameEnds
<1>13. Order(new, nt)
  BY <1>3, <1>6, <1>7, <1>8, <1>9, <1>10, <1>11, <1>12, ConnFields DEF Good, Order
<1>14. Shares(new, nt)
  <2>1. \A h : \A m \in Node : Owns(new, h, m) <=> Owns(sd, h, m)
    BY <1>2, <1>3 DEF Owns
  <2> QED
    BY <1>3, <2>1 DEF Good, Shares, OneHolder
<1> QED
  BY <1>0, <1>1, <1>13, <1>14 DEF Good, World, new

(* The tracker's table, after a step that starts no node, answers none and
   takes none back. *)
LEMMA TableKept ==
  ASSUME NEW sd, NEW nt, NEW new, NEW k, NEW T \in SUBSET Node, Table(sd, nt, T),
         \A m \in Node : /\ Inside(sd[m]) => Inside(new[m])
                         /\ new[m].pc # "off" => sd[m].pc # "off"
                         /\ new[m].pc \in {"q3", "q7"} => sd[m].pc = new[m].pc,
         \A d \in k.udp : d \in nt.udp \/ d.pdu.type # "NET_GET_NODE_RESPONSE"
  PROVE  Table(new, k, T)
<1>1. /\ \A n \in T : Inside(new[n])
      /\ T = {} => \A n, m \in Node : new[n].pc # "off" /\ new[m].pc # "off" => n = m
      /\ \A n \in Node : new[n].pc = "q7" => T # {}
  BY DEF Table
<1>2. ASSUME NEW d \in k.udp, d.pdu.type = "NET_GET_NODE_RESPONSE"
      PROVE  /\ d.pdu.node # NULL => d.pdu.node \in T
             /\ d.pdu.node = NULL /\ d.dst \in Node => (new[d.dst].pc = "q3" => T = {})
  BY <1>2 DEF Table
<1> QED
  BY <1>1, <1>2 DEF Table

(* A node makes room: it keeps the lower half of its range, and the upper half
   is on its way to the joining node m. *)
Splits(sd, nt, n, m, c, q, t, k) ==
  /\ Inside(sd[n]) /\ Divisible(sd[n])
  /\ sd[m].pc = "q7" /\ nt.backlog[m] = <<>> /\ Silent(nt, m)
  /\ c.from = n /\ c.to = m /\ nt.fwd[c] = <<>>
  /\ q # <<>> /\ Head(q).type = "NET_JOIN_RESPONSE"
  /\ Head(q).range_start = handover_start(sd[n].range_start, sd[n].range_end)
  /\ Head(q).range_end = sd[n].range_end /\ Follows(sd, nt, Head(q).next, sd[n].range_end)
  /\ \A i \in DOMAIN q : i # 1 => q[i].type = "VAL_INSERT"
  /\ Seat(t) /\ Inside(t) /\ t.succ_socket /\ t.succ_fd = c /\ t.succ_addr = m
  /\ t.pred_fd = sd[n].pred_fd /\ t.range_start = sd[n].range_start
  /\ t.range_end = middle_point(sd[n].range_start, sd[n].range_end)
  /\ k.bwd = nt.bwd /\ k.udp = nt.udp /\ k.backlog = [nt.backlog EXCEPT ![m] = <<c>>]
  /\ k.fwd[c] = q /\ \A d \in Conn : d # c => k.fwd[d] = nt.fwd[d]

LEMMA SplitGood ==
  ASSUME NEW sd, NEW nt, Good(sd, nt), NEW x, Ends(sd, nt, x, NULL),
         NEW n \in Node, NEW m \in Node, NEW c \in Conn, NEW q \in Seq(PDU), NEW t \in SelfData, NEW k \in Net,
         Splits(sd, nt, n, m, c, q, t, k)
  PROVE  Good([sd EXCEPT ![n] = t], k)
<1> USE DEF Splits
<1> DEFINE new == [sd EXCEPT ![n] = t]
<1>0. sd \in [Node -> SelfData] /\ nt \in Net /\ nt.backlog \in [Node -> Seq(Conn)] /\ nt.fwd \in [Conn -> Seq(PDU)]
  BY NetFields DEF Good, World
<1>1. new \in [Node -> SelfData] /\ new[n] = t /\ \A p \in Node : p # n => new[p] = sd[p]
  BY <1>0
<1> HIDE DEF new
<1>2. /\ \A p \in Node : Seat(sd[p])
      /\ \A d \in Conn : Holds(sd, nt, d) => Inside(sd[d.from])
      /\ \A p \in Node : Link(sd, nt, sd[p]) /\ Alone(sd, nt, p)
      /\ \A d \in Conn : OnlyTraffic(nt, d)
      /\ \A d \in Conn : \A i \in DOMAIN nt.fwd[d] : Response(sd, nt, d, i)
      /\ \A d \in Conn : \A pdu \in Range(nt.fwd[d]) : Asking(sd, nt, pdu)
      /\ \A d \in nt.udp : Asking(sd, nt, d.pdu) /\ Letter(sd, d)
      /\ \A p \in Node : Once(nt, p)
  BY DEF Good, Order
<1>3. m # n /\ new[m].pc = "q7" /\ k.backlog[m] = <<c>> /\ \A p \in Node : p # m => k.backlog[p] = nt.backlog[p]
  BY <1>0, <1>1 DEF Inside
<1>4. \A p \in Node : /\ Inside(new[p]) <=> Inside(sd[p])
                      /\ new[p].range_start = sd[p].range_start
                      /\ ~Inside(sd[p]) => new[p] = sd[p]
  BY <1>1
<1>5. Head(q) = q[1] /\ 1 \in DOMAIN q
  OBVIOUS
<1>6. ASSUME NEW p \in Node, Expected(sd, nt, p)
      PROVE  Expected(new, k, p) /\ StartOf(new, k, p) = StartOf(sd, nt, p)
  <2>1. CASE Inside(sd[p])
    BY <1>4, <2>1 DEF Expected, StartOf
  <2>2. CASE ~Inside(sd[p])
    <3>1. sd[p].pc = "q7" /\ nt.backlog[p] # <<>> /\ p # m
      BY <1>6, <2>2 DEF Expected
    <3>2. Head(nt.backlog[p]) \in Conn /\ Head(nt.backlog[p]) \in Range(nt.backlog[p])
      <4>1. nt.backlog[p] \in Seq(Conn)
        BY <1>0
      <4> QED
        BY <3>1, <4>1, StreamRange
    <3>3. Head(nt.backlog[p]) # c
      BY <3>1, <3>2 DEF Ends
    <3>4. k.backlog[p] = nt.backlog[p] /\ k.fwd[Head(k.backlog[p])] = nt.fwd[Head(nt.backlog[p])]
      BY <1>3, <3>1, <3>2, <3>3
    <3> QED
      BY <1>4, <2>2, <3>1, <3>4 DEF Expected, StartOf
  <2> QED
    BY <2>1, <2>2
<1>7. \A p, e : Follows(sd, nt, p, e) => Follows(new, k, p, e)
  BY <1>6, FollowsKept DEF Steady
<1>8. sd[n] \in SelfData /\ sd[n].range_start \in Byte /\ sd[n].range_end \in Byte
  BY <1>0, SelfDataFields
<1>9. Range(k.backlog[m]) = {c}
  BY <1>3 DEF Range
<1>10. \A d \in Conn : Holds(sd, nt, d) => Holds(new, k, d)
  <2> SUFFICES ASSUME NEW d \in Conn, Holds(sd, nt, d) PROVE Holds(new, k, d)
    OBVIOUS
  <2>1. d.to \in Node /\ new[d.to].pred_fd = sd[d.to].pred_fd
    BY <1>1, ConnFields
  <2>2. CASE d.to = m
    <3>1. Range(nt.backlog[m]) = {}
      BY DEF Range
    <3> QED
      BY <2>1, <2>2, <3>1 DEF Holds
  <2>3. CASE d.to # m
    BY <1>3, <2>1, <2>3 DEF Holds
  <2> QED
    BY <2>2, <2>3
<1>11. \A d \in Conn : Holds(new, k, d) => Inside(new[d.from])
  <2> SUFFICES ASSUME NEW d \in Conn, Holds(new, k, d) PROVE Inside(new[d.from])
    OBVIOUS
  <2>1. d.to \in Node /\ d.from \in Node /\ new[d.to].pred_fd = sd[d.to].pred_fd
    BY <1>1, ConnFields
  <2>2. d = c \/ Holds(sd, nt, d)
    <3>1. d \in Range(k.backlog[d.to]) => d = c \/ d \in Range(nt.backlog[d.to])
      BY <1>3, <1>9, <2>1, SMTT(40)
    <3> QED
      BY <2>1, <3>1 DEF Holds
  <2>3. Inside(sd[d.from])
    BY <1>2, <2>2
  <2> QED
    BY <1>4, <2>1, <2>3
<1>12. \A p \in Node : Seat(new[p])
  BY <1>1, <1>2
<1>13. \A p \in Node : Link(new, k, new[p])
  <2> SUFFICES ASSUME NEW p \in Node, new[p].succ_socket PROVE Link(new, k, new[p])
    BY DEF Link
  <2>1. CASE p = n
    <3>1. Holds(new, k, c)
      BY <1>9 DEF Holds
    <3>2. ~Inside(new[m]) /\ Expected(new, k, m)
      <4>1. <<c>> # <<>>
        OBVIOUS
      <4> QED
        BY <1>3, <4>1 DEF Expected, Inside
    <3>3. StartOf(new, k, m) = handover_start(sd[n].range_start, sd[n].range_end)
      BY <1>3, <3>2 DEF StartOf
    <3>4. Follows(new, k, m, t.range_end)
      BY <3>2, <3>3 DEF Follows, handover_start
    <3> QED
      BY <1>1, <2>1, <3>1, <3>4, ConnFields DEF Link
  <2>2. CASE p # n
    <3>1. Link(sd, nt, sd[p]) /\ new[p] = sd[p] /\ sd[p].succ_fd \in Conn \cup {NULL}
      BY <1>0, <1>1, <1>2, <2>2, SelfDataFields
    <3> QED
      BY <1>7, <1>10, <3>1 DEF Link
  <2> QED
    BY <2>1, <2>2
<1>14. \A p \in Node : Alone(new, k, p)
  <2> SUFFICES ASSUME NEW p \in Node, Inside(new[p]), ~new[p].succ_socket PROVE FALSE
    BY DEF Alone
  <2>1. p # n /\ new[p] = sd[p]
    BY <1>1
  <2> QED
    BY <1>2, <2>1 DEF Alone
<1>15. \A d \in Conn : OnlyTraffic(k, d)
  <2>1. \A pdu \in Range(q) : pdu.type \in Traffic
    BY <1>5 DEF Range, Traffic
  <2> QED
    BY <1>2, <2>1 DEF OnlyTraffic
<1>16. \A d \in Conn : \A i \in DOMAIN k.fwd[d] : Response(new, k, d, i)
  <2> SUFFICES ASSUME NEW d \in Conn, NEW i \in DOMAIN k.fwd[d], k.fwd[d][i].type = "NET_JOIN_RESPONSE"
               PROVE  Response(new, k, d, i)
    BY DEF Response
  <2>1. CASE d = c
    <3>1. i = 1 /\ k.fwd[d][i] = Head(q)
      BY <1>5, <2>1
    <3>2. Head(q).range_start > 0
      BY <1>8, SplitDivisible DEF Divisible
    <3>3. Follows(new, k, Head(q).next, Head(q).range_end)
      BY <1>7
    <3>4. c.to = m /\ k.backlog[m] # <<>> /\ Head(k.backlog[m]) = c
      BY <1>3
    <3> HIDE DEF Splits
    <3> QED
      BY <1>3, <2>1, <3>1, <3>2, <3>3, <3>4 DEF Response
  <2>2. CASE d # c
    <3>1. k.fwd[d] = nt.fwd[d] /\ Response(sd, nt, d, i)
      BY <1>2, <2>2
    <3>2. d.to \in Node /\ d.to # m
      BY <3>1, ConnFields DEF Response
    <3>3. new[d.to] = sd[d.to] /\ k.backlog[d.to] = nt.backlog[d.to]
      BY <1>3, <1>4, <3>1, <3>2 DEF Response, Inside
    <3> QED
      BY <1>7, <3>1, <3>3 DEF Response
  <2> QED
    BY <2>1, <2>2
<1>17. \A pdu \in PDU : Asking(sd, nt, pdu) /\ ~JoinOf(pdu, m) => Asking(new, k, pdu)
  <2> SUFFICES ASSUME NEW pdu \in PDU, pdu.type = "NET_JOIN", Asking(sd, nt, pdu), ~JoinOf(pdu, m)
               PROVE  Asking(new, k, pdu)
    BY DEF Asking
  <2>1. pdu.src \in Node /\ pdu.max \in Node \cup {NULL} /\ pdu.src # m
    BY JoinFields DEF JoinOf
  <2>2. new[pdu.src].pc = "q7" /\ k.backlog[pdu.src] = <<>>
    BY <1>3, <1>4, <2>1 DEF Asking, Inside
  <2>3. Divisible(t)
    <3>1. /\ sd[n].range_start <= middle_point(sd[n].range_start, sd[n].range_end)
          /\ middle_point(sd[n].range_start, sd[n].range_end) < HASH_SIZE - 1
      BY <1>8, SplitDivisible DEF Divisible
    <3> QED
      BY <3>1 DEF Divisible
  <2>4. pdu.max # NULL => Inside(new[pdu.max]) /\ Divisible(new[pdu.max])
    BY <1>1, <1>4, <2>1, <2>3 DEF Asking
  <2> QED
    BY <2>2, <2>4 DEF Asking
<1>18. \A d \in Conn : \A pdu \in Range(k.fwd[d]) : Asking(new, k, pdu)
  <2> SUFFICES ASSUME NEW d \in Conn, NEW i \in DOMAIN k.fwd[d] PROVE Asking(new, k, k.fwd[d][i])
    BY DEF Range
  <2>1. CASE d = c
    BY <1>5, <2>1 DEF Asking
  <2>2. CASE d # c
    <3>1. k.fwd[d] = nt.fwd[d] /\ nt.fwd[d][i] \in Range(nt.fwd[d]) /\ nt.fwd[d][i] \in PDU
      BY <1>0, <2>2 DEF Range
    <3>2. ~JoinOf(nt.fwd[d][i], m)
      BY <3>1 DEF Silent, Asks
    <3> QED
      BY <1>2, <1>17, <3>1, <3>2
  <2> QED
    BY <2>1, <2>2
<1>19. \A d \in k.udp : Asking(new, k, d.pdu) /\ Letter(new, d)
  <2> SUFFICES ASSUME NEW d \in nt.udp PROVE Asking(new, k, d.pdu) /\ Letter(new, d)
    OBVIOUS
  <2>1. d.pdu \in PDU /\ ~JoinOf(d.pdu, m) /\ Asking(sd, nt, d.pdu) /\ Letter(sd, d)
    BY <1>0, <1>2, NetFields DEF Silent
  <2>2. Letter(new, d)
    BY <1>1, <1>4, <2>1 DEF Letter, Inside
  <2> QED
    BY <1>17, <2>1, <2>2
<1>20. \A p \in Node : Once(k, p)
  <2> SUFFICES ASSUME NEW p \in Node PROVE Once(k, p)
    OBVIOUS
  <2>1. Without(q, "NET_JOIN")
    BY <1>5 DEF Without, Range
  <2>2. ~Asks(q, p) /\ AsksOnce(q, p)
    BY <2>1, AsksSimple
  <2>3. Once(nt, p)
    BY <1>2
  <2>4. \A d \in Conn : AsksOnce(k.fwd[d], p) /\ (Asks(k.fwd[d], p) => d # c /\ Asks(nt.fwd[d], p))
    BY <2>2, <2>3 DEF Once
  <2> QED
    BY <2>3, <2>4 DEF Once
<1>21. Order(new, k)
  BY <1>11, <1>12, <1>13, <1>14, <1>15, <1>16, <1>18, <1>19, <1>20 DEF Order
<1>22. Shares(new, k)
  <2> SUFFICES ASSUME NEW h \in Byte PROVE OneHolder(new, k, h)
    BY DEF Shares
  <2>1. OneHolder(sd, nt, h)
    BY DEF Good, Shares
  <2>2. /\ Owns(sd, h, n) <=> Owns(new, h, n) \/ Brings(k, h, c)
        /\ ~(Owns(new, h, n) /\ Brings(k, h, c))
    <3>1. /\ InRange(h, sd[n].range_start, sd[n].range_end) <=>
                 \/ InRange(h, t.range_start, t.range_end)
                 \/ InRange(h, Head(q).range_start, Head(q).range_end)
          /\ ~(InRange(h, t.range_start, t.range_end) /\ InRange(h, Head(q).range_start, Head(q).range_end))
      BY <1>8, SplitDivisible DEF Divisible
    <3>2. Owns(sd, h, n) <=> InRange(h, sd[n].range_start, sd[n].range_end)
      BY DEF Owns
    <3>3. Owns(new, h, n) <=> InRange(h, t.range_start, t.range_end)
      BY <1>1 DEF Owns
    <3>4. Brings(k, h, c) <=> InRange(h, Head(q).range_start, Head(q).range_end)
      BY DEF Brings
    <3> QED
      BY <3>1, <3>2, <3>3, <3>4
  <2>3. \A p \in Node : p # n => (Owns(new, h, p) <=> Owns(sd, h, p))
    BY <1>1 DEF Owns
  <2>4. ~Brings(nt, h, c) /\ \A d \in Conn : d # c => (Brings(k, h, d) <=> Brings(nt, h, d))
    BY DEF Brings
  <2> QED
    BY <2>1, <2>2, <2>3, <2>4 DEF OneHolder
<1> QED
  BY <1>0, <1>1, <1>21, <1>22 DEF Good, World, new

(***************************************************************************)
(* The handlers.  Calm is what they find: the invariant, of the kernel nt  *)
(* after the PDU was read.                                                 *)
(***************************************************************************)
Calm(nt) == Kernel(nt) /\ Good(self_data, nt) /\ Table(self_data, nt, nodes)

(* The parts of the invariant at a node. *)
LEMMA CalmNode ==
  ASSUME NEW nt, Calm(nt), NEW n \in Node
  PROVE  /\ self_data[n] \in SelfData /\ Seat(self_data[n]) /\ Own(n, self_data[n])
         /\ Link(self_data, nt, self_data[n]) /\ Alone(self_data, nt, n)
         /\ self_data[n].succ_fd \in Conn \cup {NULL} /\ self_data[n].pred_fd \in Conn \cup {NULL}
         /\ nt \in Net /\ nt.backlog[n] \in Seq(Conn)
<1>1. Kernel(nt) /\ Order(self_data, nt)
  BY DEF Calm, Good
<1> QED
  BY <1>1, HeldConns, NetFields DEF Order

(* Nothing but the table of the node changes. *)
LEMMA StayGood ==
  ASSUME NEW nt, Good(self_data, nt), NEW T \in SUBSET Node, Table(self_data, nt, T), T = nodes',
         NEW n \in Node, NEW t \in SelfData, SameEnds(t, self_data[n]),
         t.range_start = self_data[n].range_start, t.range_end = self_data[n].range_end,
         Continue(n, t, nt)
  PROVE  JoinInv'
<1> DEFINE new == [self_data EXCEPT ![n] = t]
<1>1. Good(new, nt)
  BY MemoryGood
<1>2. \A m \in Node : new[m].pc = self_data[m].pc
  BY DEF SameEnds, Good, World
<1> HIDE DEF new
<1>3. Table(new, nt, T)
  BY <1>2, TableKept DEF Inside
<1>4. self_data' = new /\ net' = nt
  BY DEF Continue, new
<1> QED
  BY <1>1, <1>3, <1>4 DEF JoinInv, Good

(* Something is written to the successor. *)
LEMMA ForwardGood ==
  ASSUME NEW nt, Calm(nt), NEW n \in Node, Inside(self_data[n]), NEW c, c = self_data[n].succ_fd,
         NEW p \in Seq(PDU),
         \A pdu \in Range(p) : /\ pdu.type \in Traffic \ {"NET_JOIN_RESPONSE"}
                               /\ Asking(self_data, nt, pdu),
         \A m \in Node : AsksOnce(p, m) /\ (Asks(p, m) => Silent(nt, m))
  PROVE  LET o == SendForward(nt, c, p)
         IN  Good(self_data, o) /\ (nodes \in SUBSET Node => Table(self_data, o, nodes))
<1> DEFINE o == SendForward(nt, c, p)
<1>0. /\ Kernel(nt) /\ Good(self_data, nt) /\ Table(self_data, nt, nodes) /\ nt \in Net
      /\ Ends(self_data, nt, NULL, NULL) /\ Greets(self_data, nt)
  BY CalmNode DEF Calm, Kernel
<1>1. CASE ~(c # NULL /\ AcceptorHolds(nt, c))
  BY <1>0, <1>1 DEF SendForward
<1>2. CASE c # NULL /\ AcceptorHolds(nt, c)
  <2> DEFINE q == nt.fwd[c] \o p
             k == [nt EXCEPT !.fwd[c] = q]
  <2>1. c \in Conn /\ self_data[n].succ_socket
    BY <1>2, CalmNode DEF Own
  <2>2. nt.fwd[c] \in Seq(PDU)
    BY <1>0, <2>1, NetFields
  <2>3. Range(q) = Range(nt.fwd[c]) \cup Range(p) /\ q \in Seq(PDU)
    BY <2>2, StreamRange
  <2>4. \A pdu \in Range(q) : pdu.type \in Traffic /\ Asking(self_data, nt, pdu)
    BY <1>0, <2>1, <2>3 DEF Good, Order, OnlyTraffic
  <2>5. ASSUME NEW i \in DOMAIN q, q[i].type = "NET_JOIN_RESPONSE"
        PROVE  i \in DOMAIN nt.fwd[c] /\ q[i] = nt.fwd[c][i]
    <3>1. /\ Len(nt.fwd[c]) \in Nat /\ Len(p) \in Nat
          /\ i \in 1 .. Len(nt.fwd[c]) + Len(p) /\ DOMAIN nt.fwd[c] = 1 .. Len(nt.fwd[c]) /\ DOMAIN p = 1 .. Len(p)
          /\ q[i] = IF i <= Len(nt.fwd[c]) THEN nt.fwd[c][i] ELSE p[i - Len(nt.fwd[c])]
      BY <2>2
    <3>2. CASE i <= Len(nt.fwd[c])
      BY <3>1, <3>2
    <3>3. CASE ~(i <= Len(nt.fwd[c]))
      <4>1. i - Len(nt.fwd[c]) \in DOMAIN p /\ q[i] = p[i - Len(nt.fwd[c])]
        BY <3>1, <3>3
      <4>2. q[i] \in Range(p)
        BY <4>1 DEF Range
      <4> QED
        BY <2>5, <4>2
    <3> QED
      BY <3>2, <3>3
  <2>6. nt.fwd[c] # <<>> => q # <<>> /\ Head(q) = Head(nt.fwd[c])
    BY <2>2, HeadConcat
  <2>7. ASSUME self_data[c.to].pc = "q7", nt.backlog[c.to] # <<>>, Head(nt.backlog[c.to]) = c
        PROVE  nt.fwd[c] # <<>>
    BY <1>0, <2>1, <2>7, ConnFields DEF Greets, Greeted, Young
  <2>8. ASSUME NEW m \in Node
        PROVE  AsksOnce(q, m) /\ (Asks(q, m) => Asks(nt.fwd[c], m) \/ Silent(nt, m))
    <3>1. AsksOnce(p, m) /\ (Asks(p, m) => Silent(nt, m)) /\ AsksOnce(nt.fwd[c], m)
      BY <1>0, <2>1 DEF Good, Order, Once
    <3>2. ~(Asks(nt.fwd[c], m) /\ Asks(p, m))
      BY <2>1, <3>1 DEF Silent
    <3> QED
      BY <2>2, <3>1, <3>2, AsksConcat
  <2>9. o = k
    BY <1>2 DEF SendForward
  <2>10. k.udp = nt.udp
    BY <1>0 DEF Net
  <2> HIDE DEF q, o
  <2>11. Good(self_data, k)
    BY <1>0, <2>1, <2>3, <2>4, <2>5, <2>6, <2>7, <2>8, StreamGood
  <2> HIDE DEF k
  <2>12. nodes \in SUBSET Node => Table(self_data, k, nodes)
    BY <1>0, <2>10, TableKept
  <2> QED
    BY <2>9, <2>11, <2>12 DEF o
<1> QED
  BY <1>1, <1>2

(* The handler ends with one PDU written to the successor. *)
LEMMA PassOnGood ==
  ASSUME NEW nt, Calm(nt), nodes \in SUBSET Node, nodes' = nodes, NEW n \in Node, Inside(self_data[n]),
         NEW pdu \in PDU, pdu.type \in Traffic \ {"NET_JOIN_RESPONSE"}, Asking(self_data, nt, pdu),
         pdu.type = "NET_JOIN" => Silent(nt, pdu.src),
         Continue(n, self_data[n], SendForward(nt, self_data[n].succ_fd, <<pdu>>))
  PROVE  JoinInv'
<1> DEFINE p == <<pdu>>
           c == self_data[n].succ_fd
           o == SendForward(nt, c, p)
<1>1. p \in Seq(PDU) /\ Range(p) = {pdu}
  BY DEF Range
<1>2. \A m \in Node : AsksOnce(p, m) /\ (Asks(p, m) => Silent(nt, m))
  BY AsksSimple DEF JoinOf
<1> HIDE DEF p, c
<1>3. Good(self_data, o) /\ Table(self_data, o, nodes)
  BY <1>1, <1>2, ForwardGood DEF c
<1>4. Continue(n, self_data[n], o) /\ self_data[n] \in SelfData
  BY CalmNode DEF p, c
<1> HIDE DEF o
<1> QED
  BY <1>3, <1>4, StayGood DEF SameEnds

(* A node that does not have the whole range has a successor. *)
LEMMA OutOfRange ==
  ASSUME NEW nt, Calm(nt), NEW n \in Node, Inside(self_data[n]),
         NEW k \in Key, ~check_range(self_data[n], k)
  PROVE  self_data[n].succ_fd # NULL
<1>1. hash_ssn[k] \in Byte
  BY SocketsAssumption
<1>2. ~Whole(self_data[n])
  BY <1>1, HashSizeAssumption DEF Whole, check_range, InRange, Byte
<1> QED
  BY <1>2, CalmNode DEF Seat, Link

(* handle_val_insert, handle_val_remove, handle_val_lookup. *)
LEMMA ValGood ==
  ASSUME NEW nt, Calm(nt), nodes \in SUBSET Node, nodes' = nodes,
         NEW n \in Node, NEW s, s = self_data[n], s.pc = "q6", NEW pdu \in PDU,
         \/ pdu.type = "VAL_INSERT" /\ handle_val_insert(n, s, pdu, nt)
         \/ pdu.type = "VAL_REMOVE" /\ handle_val_remove(n, s, pdu, nt)
         \/ pdu.type = "VAL_LOOKUP" /\ handle_val_lookup(n, s, pdu, nt)
  PROVE  JoinInv'
<1>1. s \in SelfData /\ Inside(s) /\ ~ShuttingDown(s) /\ pdu.key \in Key
  BY CalmNode, PDUFields DEF Inside, ShuttingDown
<1>2. CASE ~check_range(s, pdu.key)
  <2>1. Continue(n, s, SendForward(nt, s.succ_fd, <<pdu>>))
    BY <1>1, <1>2, OutOfRange
       DEF handle_val_insert, handle_val_remove, handle_val_lookup,
           handle_ht_insert, handle_ht_remove, handle_ht_lookup
  <2>2. pdu.type \in Traffic \ {"NET_JOIN_RESPONSE"} /\ Asking(self_data, nt, pdu) /\ pdu.type # "NET_JOIN"
    BY DEF Traffic, Asking
  <2> QED
    BY <1>1, <2>1, <2>2, PassOnGood
<1>3. CASE check_range(s, pdu.key)
  <2>1. \/ pdu.type = "VAL_INSERT" /\ Continue(n, [s EXCEPT !.hash_table[pdu.key] = pdu.val], nt)
        \/ Continue(n, [s EXCEPT !.hash_table[pdu.key] = NULL], nt)
        \/ Continue(n, s, nt)
        \/ s.hash_table[pdu.key] # NULL /\ Continue(n, s, SendUdp(nt, Client, LookupResponse(s, pdu.key)))
    BY <1>1, <1>3 DEF handle_val_insert, handle_val_remove, handle_val_lookup,
                      handle_ht_insert, handle_ht_remove, handle_ht_lookup
  <2>2. Good(self_data, nt) /\ Table(self_data, nt, nodes) /\ nt \in Net
    BY CalmNode DEF Calm
  <2>3. ASSUME NEW v \in Value \cup {NULL}, Continue(n, [s EXCEPT !.hash_table[pdu.key] = v], nt)
        PROVE  JoinInv'
    <3> DEFINE t == [s EXCEPT !.hash_table[pdu.key] = v]
    <3>1. /\ t \in SelfData /\ SameEnds(t, s) /\ t.range_start = s.range_start /\ t.range_end = s.range_end
      BY <1>1, <2>3 DEF SelfData, SameEnds
    <3> HIDE DEF t
    <3> QED
      BY <2>2, <2>3, <3>1, StayGood DEF t
  <2>4. CASE s.hash_table[pdu.key] # NULL /\ Continue(n, s, SendUdp(nt, Client, LookupResponse(s, pdu.key)))
    <3> DEFINE a == LookupResponse(s, pdu.key)
               D == nt.udp \cup {[dst |-> Client, pdu |-> a]}
               u == [nt EXCEPT !.udp = D]
    <3>1. a \in PDU /\ a.type = "VAL_LOOKUP_RESPONSE"
      BY <1>1, <2>4, SelfDataFields DEF LookupResponse, PDU
    <3>2. SendUdp(nt, Client, a) = u
      BY DEF SendUdp
    <3> HIDE DEF a
    <3>3. D \in SUBSET [dst : Node \cup {Client}, pdu : PDU]
      BY <2>2, <3>1, NetFields
    <3>4. \A d \in D : \/ d \in nt.udp
                       \/ d.dst = Client /\ d.pdu.type = "VAL_LOOKUP_RESPONSE"
      BY <3>1
    <3>5. \A d \in nt.udp : Asking(self_data, nt, d.pdu) /\ Letter(self_data, d)
      BY <2>2 DEF Good, Order
    <3>6. \A d \in D : Asking(self_data, nt, d.pdu) /\ Letter(self_data, d)
      BY <3>4, <3>5, SocketsAssumption DEF Asking, Letter, Letters
    <3>7. \A m \in Node : /\ \A d, e \in D : JoinOf(d.pdu, m) /\ JoinOf(e.pdu, m) => d = e
                          /\ \A c \in Conn, d \in D : ~(Asks(nt.fwd[c], m) /\ JoinOf(d.pdu, m))
      BY <2>2, <3>4 DEF JoinOf, Good, Order, Once
    <3>8. u.udp = D
      BY <2>2 DEF Net
    <3> HIDE DEF D
    <3>9. Good(self_data, u)
      BY <2>2, <3>3, <3>6, <3>7, DatagramsGood
    <3>10. Table(self_data, u, nodes)
      BY <2>2, <3>4, <3>8, TableKept
    <3> HIDE DEF u
    <3> QED
      BY <1>1, <2>4, <3>2, <3>9, <3>10, StayGood DEF SameEnds, a
  <2>5. CASE Continue(n, s, nt)
    BY <1>1, <2>2, <2>5, StayGood DEF SameEnds
  <2>6. pdu.type = "VAL_INSERT" => pdu.val \in Value
    BY PDUFields
  <2> QED
    BY <2>1, <2>3, <2>4, <2>5, <2>6
<1> QED
  BY <1>2, <1>3

(* What is in hand when a node handles NET_JOIN: the only one of its source. *)
InHand(nt, pdu) == Asking(self_data, nt, pdu) /\ (pdu.type = "NET_JOIN" => Silent(nt, pdu.src))

(* A join is passed on. *)
LEMMA ForwardJoinOrderly ==
  ASSUME NEW nt, Calm(nt), nodes \in SUBSET Node, nodes' = nodes,
         NEW n \in Node, NEW s, s = self_data[n], s.pc = "q6",
         NEW pdu \in PDU, pdu.type = "NET_JOIN", InHand(nt, pdu), ForwardJoin(n, s, pdu, nt)
  PROVE  JoinInv'
<1> DEFINE span == self_range(s.range_start, s.range_end)
           larger == [pdu EXCEPT !.max = n, !.max_span = u8(span)]
           sent == IF pdu.max_span < span THEN larger ELSE pdu
<1>1. Continue(n, s, SendForward(nt, s.succ_fd, <<sent>>))
  BY DEF ForwardJoin
<1>2. /\ s \in SelfData /\ Inside(s) /\ s.range_start \in Int /\ s.range_end \in Int
      /\ span \in Int /\ u8(span) \in Byte /\ pdu.max_span \in Byte /\ pdu.src \in Node
  <2>1. s \in SelfData /\ s.range_start \in Int /\ s.range_end \in Int
    BY CalmNode, SelfDataFields
  <2>2. span \in Int
    BY <2>1 DEF self_range
  <2> QED
    BY <2>1, <2>2, u8Type, JoinFields DEF Inside
<1>3. larger \in PDU /\ larger.type = "NET_JOIN" /\ larger.src = pdu.src /\ larger.max = n
  <2>1. pdu \in [type : {"NET_JOIN"}, src : Node, max_span : Byte, max : Node \cup {NULL}]
    BY DEF PDU
  <2>2. larger \in [type : {"NET_JOIN"}, src : Node, max_span : Byte, max : Node \cup {NULL}]
    BY <1>2, <2>1
  <2> QED
    BY <2>1, <2>2 DEF PDU
<1>4. ASSUME pdu.max_span < span PROVE Divisible(s)
  BY <1>2, <1>4, HashSizeAssumption DEF self_range, Divisible, Byte
<1> HIDE DEF larger, span
<1>5. sent \in PDU /\ sent.type = "NET_JOIN" /\ sent.src = pdu.src /\ Asking(self_data, nt, sent)
  <2>1. CASE pdu.max_span < span
    BY <1>2, <1>3, <1>4, <2>1 DEF InHand, Asking
  <2>2. CASE ~(pdu.max_span < span)
    BY <2>2 DEF InHand
  <2> QED
    BY <2>1, <2>2
<1> HIDE DEF sent
<1>6. "NET_JOIN" \in Traffic \ {"NET_JOIN_RESPONSE"}
  BY DEF Traffic
<1>7. Inside(self_data[n]) /\ Continue(n, self_data[n], SendForward(nt, self_data[n].succ_fd, <<sent>>))
  BY <1>1, <1>2
<1>8. sent.type \in Traffic \ {"NET_JOIN_RESPONSE"} /\ Silent(nt, sent.src)
  BY <1>5, <1>6 DEF InHand
<1> QED
  BY <1>5, <1>7, <1>8, PassOnGood

(* send_new_range_and_entries: the response, and then nothing but entries. *)
LEMMA HandoverShape ==
  ASSUME NEW s, Ready(s), NEW next \in Node
  PROVE  LET q == Handover(s, next)
         IN  /\ q \in Seq(PDU) /\ q # <<>> /\ Head(q).type = "NET_JOIN_RESPONSE" /\ Head(q).next = next
             /\ Head(q).range_start = handover_start(s.range_start, s.range_end)
             /\ Head(q).range_end = s.range_end
             /\ \A i \in DOMAIN q : i # 1 => q[i].type = "VAL_INSERT"
<1> DEFINE r == [type |-> "NET_JOIN_RESPONSE", next |-> next,
                 range_start |-> handover_start(s.range_start, s.range_end), range_end |-> s.range_end]
           rest == Inserts(s, HandedOver(s))
           q == <<r>> \o rest
<1>1. Handover(s, next) = q /\ q \in Seq(PDU)
  BY HandoverType DEF Handover
<1>2. rest \in Seq(PDU) /\ \A i \in DOMAIN rest : rest[i].type = "VAL_INSERT"
  <2>1. rest \in Seq(PDU)
    BY ReadyFields, InsertsType DEF HandedOver
  <2> QED
    BY <2>1 DEF Inserts, InsertPDU
<1>3. /\ r.type = "NET_JOIN_RESPONSE" /\ r.next = next /\ r.range_end = s.range_end
      /\ r.range_start = handover_start(s.range_start, s.range_end)
  OBVIOUS
<1> HIDE DEF r, rest
<1>4. /\ Len(rest) \in Nat /\ DOMAIN rest = 1 .. Len(rest) /\ DOMAIN q = 1 .. Len(rest) + 1
      /\ q # <<>> /\ Head(q) = r
      /\ \A i \in 1 .. Len(rest) + 1 : i # 1 => q[i] = rest[i - 1] /\ i - 1 \in 1 .. Len(rest)
  BY <1>2
<1>5. \A i \in DOMAIN q : i # 1 => q[i].type = "VAL_INSERT"
  BY <1>2, <1>4
<1> HIDE DEF q
<1> QED
  BY <1>1, <1>3, <1>4, <1>5

(* A node opens a connection to the joining node m and hands over half of its
   range. *)
LEMMA RoomMade ==
  ASSUME NEW nt, Good(self_data, nt), NEW x, Ends(self_data, nt, x, NULL),
         Table(self_data, nt, nodes), nodes \in SUBSET Node, nodes' = nodes,
         NEW n \in Node, Ready(self_data[n]), Inside(self_data[n]), Divisible(self_data[n]),
         NEW m \in Node, self_data[m].pc = "q7", nt.backlog[m] = <<>>, Silent(nt, m),
         NEW c \in Conn, c.from = n, c.to = m, ~Holds(self_data, nt, c),
         NEW next \in Node, Follows(self_data, nt, next, self_data[n].range_end),
         NEW t \in SelfData, Seat(t), Inside(t), t.succ_socket, t.succ_fd = c, t.succ_addr = m,
         t.pred_fd = self_data[n].pred_fd, t.range_start = self_data[n].range_start,
         t.range_end = middle_point(self_data[n].range_start, self_data[n].range_end),
         Continue(n, t, SendForward(Connect(nt, c), c, Handover(self_data[n], next)))
  PROVE  JoinInv'
<1> DEFINE s == self_data[n]
           q == Handover(s, next)
           k == Connect(nt, c)
           o == SendForward(k, c, q)
           new == [self_data EXCEPT ![n] = t]
<1>1. /\ nt \in Net /\ k \in Net /\ c # NULL /\ self_data \in [Node -> SelfData]
      /\ nt.fwd \in [Conn -> Seq(PDU)] /\ nt.backlog \in [Node -> Seq(Conn)]
  BY ConnectType, ConnFields, NetFields DEF Good, World
<1>2. /\ k.fwd = nt.fwd /\ k.bwd = nt.bwd /\ k.udp = nt.udp
      /\ k.backlog = [nt.backlog EXCEPT ![m] = Append(@, c)]
  BY <1>1 DEF Connect, Net
<1>3. k.backlog = [nt.backlog EXCEPT ![m] = <<c>>] /\ k.backlog[m] = <<c>>
  BY <1>1, <1>2
<1>4. c \in Range(k.backlog[m])
  BY <1>3 DEF Range
<1>5. nt.fwd[c] = <<>>
  BY DEF Ends, FwdOK
<1> HIDE DEF k
<1>6. /\ q \in Seq(PDU) /\ q # <<>> /\ Head(q).type = "NET_JOIN_RESPONSE" /\ Head(q).next = next
      /\ Head(q).range_start = handover_start(s.range_start, s.range_end)
      /\ Head(q).range_end = s.range_end
      /\ \A i \in DOMAIN q : i # 1 => q[i].type = "VAL_INSERT"
  BY HandoverShape
<1> HIDE DEF q
<1>7. o = [k EXCEPT !.fwd[c] = @ \o q] /\ k.fwd[c] \o q = q
  BY <1>1, <1>2, <1>4, <1>5, <1>6 DEF SendForward, AcceptorHolds
<1>8. o = [k EXCEPT !.fwd[c] = q]
  BY <1>7
<1>9. [nt.fwd EXCEPT ![c] = q] \in [Conn -> Seq(PDU)]
  BY <1>1, <1>6
<1> HIDE DEF o
<1>10. /\ o \in Net /\ o.fwd = [nt.fwd EXCEPT ![c] = q] /\ o.bwd = nt.bwd /\ o.udp = nt.udp
       /\ o.backlog = [nt.backlog EXCEPT ![m] = <<c>>]
  BY <1>1, <1>2, <1>3, <1>8, <1>9 DEF Net
<1>11. o.fwd[c] = q /\ \A d \in Conn : d # c => o.fwd[d] = nt.fwd[d]
  BY <1>1, <1>10
<1>12. Good(new, o)
  <2>1. Follows(self_data, nt, Head(q).next, self_data[n].range_end)
    BY <1>6
  <2>2. /\ Head(q).range_start = handover_start(self_data[n].range_start, self_data[n].range_end)
        /\ Head(q).range_end = self_data[n].range_end
    BY <1>6
  <2>3. Splits(self_data, nt, n, m, c, q, t, o)
    BY <1>5, <1>6, <1>10, <1>11, <2>1, <2>2 DEF Splits
  <2> QED
    BY <1>6, <1>10, <2>3, SplitGood
<1>13. Table(new, o, nodes)
  <2>1. \A p \in Node : new[p] = IF p = n THEN t ELSE self_data[p]
    BY <1>1
  <2> HIDE DEF new
  <2>2. \A p \in Node : /\ Inside(self_data[p]) => Inside(new[p])
                        /\ new[p].pc # "off" => self_data[p].pc # "off"
                        /\ new[p].pc \in {"q3", "q7"} => self_data[p].pc = new[p].pc
    BY <2>1 DEF Inside
  <2> QED
    BY <1>10, <2>2, TableKept
<1>14. self_data' = new /\ net' = o
  BY DEF Continue, o, k, q
<1> HIDE DEF new
<1> QED
  BY <1>12, <1>13, <1>14 DEF JoinInv, Good

(* The range a node keeps is not the whole. *)
LEMMA JoinedRange ==
  ASSUME NEW s, Ready(s), Divisible(s), NEW m \in Node, NEW c \in Conn
  PROVE  LET t == ConnectedTo(AfterHandover(s), m, c)
         IN  /\ t.range_start = s.range_start /\ t.range_end = middle_point(s.range_start, s.range_end)
             /\ ~Whole(t)
<1> DEFINE a == AfterHandover(s)
           t == ConnectedTo(a, m, c)
<1>1. s \in SelfData /\ a \in SelfData /\ s.range_start \in Byte /\ s.range_end \in Byte
  BY AfterHandoverReady, ReadyFields, SelfDataFields
<1>2. a.range_start = s.range_start /\ a.range_end = middle_point(s.range_start, s.range_end)
  BY <1>1 DEF AfterHandover, KeptHalf, SelfData
<1> HIDE DEF a
<1>3. t.range_start = a.range_start /\ t.range_end = a.range_end
  BY <1>1 DEF ConnectedTo, SelfData
<1> HIDE DEF t
<1>4. middle_point(s.range_start, s.range_end) \in Byte /\ middle_point(s.range_start, s.range_end) < HASH_SIZE - 1
  BY <1>1, SplitDivisible, SplitType DEF Divisible
<1>5. ~Whole(t)
  BY <1>2, <1>3, <1>4, HashSizeAssumption DEF Whole, Byte
<1> QED
  BY <1>2, <1>3, <1>5 DEF t, a

(* Nobody that is running refuses a connection. *)
LEMMA Connects ==
  ASSUME JoinOnly, NEW nt, NEW n, NEW pred, NEW m \in Node,
         self_data[m].pc \in {"q3", "q7", "q6", "accept"}
  PROVE  ConnectSucceeds(nt, n, pred, m) = {TRUE}
  BY ConnFields DEF JoinOnly, ConnectSucceeds, Running

(* The connection that connect_to_tcp opens. *)
LEMMA Opened ==
  ASSUME NEW nt, nt.backlog = net.backlog, NEW n \in Node, NEW m \in Node, Unused(n, m) # {},
         NEW c, c = NewConn(n, m)
  PROVE  c \in Conn /\ c.from = n /\ c.to = m /\ ~Holds(self_data, nt, c)
<1>1. \E d : d \in Unused(n, m)
  OBVIOUS
<1>2. c \in Unused(n, m)
  BY <1>1 DEF NewConn
<1> QED
  BY <1>2 DEF Unused, Holds, AcceptorHolds

(* handle_net_join of a node that is alone: it has everything, and becomes its
   own successor's successor. *)
LEMMA JoinAloneOrderly ==
  ASSUME JoinOnly, NEW nt, Calm(nt), nt.backlog = net.backlog, nodes \in SUBSET Node, nodes' = nodes,
         NEW n \in Node, NEW s, s = self_data[n], Ready(s), s.pc = "q6",
         NEW pdu \in PDU, pdu.type = "NET_JOIN", InHand(nt, pdu),
         ~s.pred_socket, ~s.succ_socket, JoinAlone(n, s, pdu, nt)
  PROVE  JoinInv'
<1> DEFINE m == pdu.src
           c == NewConn(n, m)
           b == ConnectedTo(AfterHandover(s), m, c)
           t == [b EXCEPT !.pc = Awaiting(s)]
<1>1. m \in Node /\ self_data[m].pc = "q7" /\ nt.backlog[m] = <<>> /\ Silent(nt, m)
  BY JoinFields DEF InHand, Asking
<1>2. Unused(n, m) # {} /\ Continue(n, t, SendForward(Connect(nt, c), c, Handover(s, n)))
  <2>1. ConnectSucceeds(nt, n, s.pred_fd, m) = {TRUE}
    BY <1>1, Connects
  <2> QED
    BY <2>1, Zenon DEF JoinAlone
<1>3. Awaiting(s) = "accept"
  BY DEF Awaiting, ShuttingDown
<1>4. c \in Conn /\ c.from = n /\ c.to = m /\ ~Holds(self_data, nt, c)
  <2>1. m \in Node /\ Unused(n, m) # {}
    BY <1>1, <1>2
  <2> QED
    BY <2>1, Opened
<1> HIDE DEF m, c
<1>5. /\ s \in SelfData /\ Inside(s) /\ Whole(s) /\ Seat(s)
      /\ s.pred_fd = NULL /\ s.range_start \in Byte /\ s.range_end \in Byte
  BY CalmNode, SelfDataFields DEF Inside, Seat, Own
<1>6. Divisible(s)
  BY <1>5, HashSizeAssumption DEF JoinOnly, Whole, Divisible, Byte
<1>7. Follows(self_data, nt, n, s.range_end)
  <2>1. u8(s.range_end + 1) = 0
    BY <1>5, HashSizeAssumption DEF Whole, u8
  <2> QED
    BY <1>5, <2>1 DEF Follows, Expected, StartOf, Whole
<1>8. /\ b \in SelfData /\ b.succ_fd = c /\ b.succ_addr = m /\ b.succ_socket
      /\ b.pred_fd = NULL /\ ~b.pred_socket
      /\ b.range_start = s.range_start /\ b.range_end = middle_point(s.range_start, s.range_end)
      /\ ~(b.range_start = 0 /\ b.range_end = HASH_SIZE - 1)
  BY <1>1, <1>4, <1>5, <1>6, JoinedFields, JoinedRange DEF Whole
<1> HIDE DEF b
<1>9. /\ t \in SelfData /\ t.succ_fd = c /\ t.succ_addr = m /\ t.succ_socket /\ t.pc = "accept"
      /\ t.pred_fd = NULL /\ ~t.pred_socket
      /\ t.range_start = s.range_start /\ t.range_end = middle_point(s.range_start, s.range_end)
      /\ ~Whole(t)
  <2>1. "accept" \in PC
    BY DEF PC
  <2> QED
    BY <1>3, <1>8, <2>1 DEF SelfData, Whole
<1> HIDE DEF t
<1>10. Seat(t) /\ Inside(t)
  BY <1>9 DEF Seat, Inside
<1>11. Good(self_data, nt) /\ Ends(self_data, nt, NULL, NULL) /\ Table(self_data, nt, nodes)
  BY DEF Calm, Kernel
<1> QED
  BY <1>1, <1>2, <1>4, <1>5, <1>6, <1>7, <1>9, <1>10, <1>11, RoomMade

(* What the node with the largest range says to its old successor. *)
LEMMA FarewellGood ==
  ASSUME NEW nt, Calm(nt), nodes \in SUBSET Node, NEW n \in Node, Inside(self_data[n]),
         NEW d, d = self_data[n].succ_fd, NEW m \in Node, Silent(nt, m)
  PROVE  LET said == SendForward(nt, d, <<[type |-> "NET_CLOSE_CONNECTION"]>>)
         IN  /\ Good(self_data, said) /\ Table(self_data, said, nodes) /\ Ends(self_data, said, d, NULL)
             /\ said.backlog = nt.backlog /\ Silent(said, m) /\ CloseConnector(said, d) = said
<1> DEFINE word == [type |-> "NET_CLOSE_CONNECTION"]
           p == <<word>>
           said == SendForward(nt, d, p)
<1>0. Kernel(nt) /\ nt \in Net /\ d \in Conn \cup {NULL} /\ nt.fwd \in [Conn -> Seq(PDU)]
  BY CalmNode, NetFields DEF Calm
<1>1. Ends(self_data, said, d, NULL) /\ said.backlog = nt.backlog /\ said \in Net
  BY <1>0, CloseSent DEF World
<1>2. word \in PDU /\ word.type = "NET_CLOSE_CONNECTION" /\ Asking(self_data, nt, word)
  BY PDUTypes DEF Asking
<1> HIDE DEF word
<1>3. p \in Seq(PDU) /\ Range(p) = {word} /\ \A i \in Node : AsksOnce(p, i) /\ ~Asks(p, i)
  BY <1>2, AsksSimple, SMTT(40) DEF Range, JoinOf
<1>4. \A pdu \in Range(p) : pdu.type \in Traffic \ {"NET_JOIN_RESPONSE"} /\ Asking(self_data, nt, pdu)
  BY <1>2, <1>3 DEF Traffic
<1> HIDE DEF p
<1>5. Good(self_data, said) /\ Table(self_data, said, nodes)
  BY <1>3, <1>4, ForwardGood
<1>6. \A c \in Conn : said.fwd[c] \in {nt.fwd[c], nt.fwd[c] \o p}
  BY <1>0 DEF SendForward, Net
<1>7. said.udp = nt.udp
  BY <1>0 DEF SendForward, Net
<1> HIDE DEF said
<1>8. Silent(said, m)
  <2>1. \A c \in Conn : ~Asks(said.fwd[c], m)
    <3> SUFFICES ASSUME NEW c \in Conn PROVE ~Asks(said.fwd[c], m)
      OBVIOUS
    <3>1. nt.fwd[c] \in Seq(PDU) /\ ~Asks(nt.fwd[c], m)
      BY <1>0 DEF Silent
    <3>2. ~Asks(nt.fwd[c] \o p, m)
      BY <1>3, <3>1, AsksConcat
    <3> QED
      BY <1>6, <3>1, <3>2
  <2> QED
    BY <1>7, <2>1 DEF Silent
<1>9. CloseConnector(said, d) = said
  <2>1. CASE d = NULL
    BY <2>1 DEF CloseConnector
  <2>2. CASE d \in Conn
    <3>1. said.bwd[d] = <<>> /\ said.bwd \in [Conn -> Seq(PDU)]
      BY <1>1, <1>5, <2>2, NetFields DEF Good, Order, OnlyTraffic
    <3>2. [said EXCEPT !.bwd[d] = <<>>] = said
      BY <1>1, <3>1 DEF Net
    <3> QED
      BY <3>2 DEF CloseConnector
  <2> QED
    BY <1>0, <2>1, <2>2
<1> QED
  BY <1>1, <1>5, <1>8, <1>9 DEF said, p, word

(* handle_net_join of the node with the largest range. *)
LEMMA JoinAtLargestOrderly ==
  ASSUME JoinOnly, NEW nt, Calm(nt), nt.backlog = net.backlog, nodes \in SUBSET Node, nodes' = nodes,
         NEW n \in Node, NEW s, s = self_data[n], Ready(s), s.pc = "q6",
         NEW pdu \in PDU, pdu.type = "NET_JOIN", InHand(nt, pdu),
         s.pred_socket, s.succ_socket, pdu.max = n, JoinAtLargest(n, s, pdu, nt)
  PROVE  JoinInv'
<1> DEFINE m == pdu.src
           d == s.succ_fd
           said == SendForward(nt, d, <<[type |-> "NET_CLOSE_CONNECTION"]>>)
           closed == CloseConnector(said, d)
           c == NewConn(n, m)
           t == ConnectedTo(AfterHandover(s), m, c)
<1>1. m \in Node /\ self_data[m].pc = "q7" /\ nt.backlog[m] = <<>> /\ Silent(nt, m) /\ Divisible(s)
  BY JoinFields, ConnFields DEF InHand, Asking
<1>2. Unused(n, m) # {} /\ Continue(n, t, SendForward(Connect(closed, c), c, Handover(s, s.succ_addr)))
  <2>1. ConnectSucceeds(closed, n, s.pred_fd, m) = {TRUE}
    <3> HIDE DEF closed, m
    <3> QED
      BY <1>1, Connects
  <2> QED
    BY <2>1, Zenon DEF JoinAtLargest
<1>3. /\ s \in SelfData /\ Inside(s) /\ s.range_start \in Byte /\ s.range_end \in Byte /\ Seat(s)
  BY CalmNode, SelfDataFields DEF Inside
<1>4. /\ Good(self_data, said) /\ Table(self_data, said, nodes) /\ Ends(self_data, said, d, NULL)
      /\ said.backlog = nt.backlog /\ Silent(said, m) /\ closed = said
  BY <1>1, <1>3, FarewellGood
<1> HIDE DEF said, closed
<1>5. c \in Conn /\ c.from = n /\ c.to = m /\ ~Holds(self_data, said, c)
  <2>1. m \in Node /\ Unused(n, m) # {} /\ said.backlog = net.backlog
    BY <1>1, <1>2, <1>4
  <2> QED
    BY <2>1, Opened
<1> HIDE DEF m, c
<1>6. Link(self_data, said, s)
  BY <1>4 DEF Good, Order
<1>7. s.succ_addr \in Node /\ Follows(self_data, said, s.succ_addr, s.range_end)
  BY <1>6 DEF Link, Follows
<1>8. /\ t \in SelfData /\ t.succ_fd = c /\ t.succ_addr = m /\ t.succ_socket /\ t.pc = "q6"
      /\ t.pred_fd = s.pred_fd /\ t.pred_socket
      /\ t.range_start = s.range_start /\ t.range_end = middle_point(s.range_start, s.range_end)
      /\ ~Whole(t)
  <2>1. m \in Node /\ c \in Conn /\ Ready(s) /\ Divisible(s)
    BY <1>1, <1>5
  <2>2. /\ t \in SelfData /\ t.succ_fd = c /\ t.succ_addr = m /\ t.succ_socket /\ t.pc = s.pc
        /\ t.pred_fd = s.pred_fd /\ t.pred_socket
    BY <2>1, JoinedFields
  <2>3. /\ t.range_start = s.range_start /\ t.range_end = middle_point(s.range_start, s.range_end)
        /\ ~Whole(t)
    BY <2>1, JoinedRange
  <2> QED
    BY <2>2, <2>3
<1> HIDE DEF t
<1>9. Seat(t) /\ Inside(t)
  BY <1>3, <1>8 DEF Seat, Inside
<1>10. said.backlog[m] = <<>>
  BY <1>1, <1>4
<1>11. Continue(n, t, SendForward(Connect(said, c), c, Handover(self_data[n], s.succ_addr)))
  BY <1>2, <1>4
<1> QED
  BY <1>1, <1>3, <1>4, <1>5, <1>7, <1>8, <1>9, <1>10, <1>11, RoomMade

(* A node inside loses or gets its predecessor, which nobody relies on or which
   was in its listen queue. *)
LEMMA PredGood ==
  ASSUME NEW sd, NEW nt, Good(sd, nt), NEW n \in Node, Inside(sd[n]),
         NEW t \in SelfData, Seat(t), Inside(t), t.succ_fd = sd[n].succ_fd, t.succ_addr = sd[n].succ_addr,
         t.succ_socket <=> sd[n].succ_socket, t.range_start = sd[n].range_start, t.range_end = sd[n].range_end,
         NEW k \in Net, k.fwd = nt.fwd, k.bwd = nt.bwd, k.udp = nt.udp,
         \A p \in Node : p # n => k.backlog[p] = nt.backlog[p],
         NEW new, new = [sd EXCEPT ![n] = t],
         \A d \in Conn : Holds(new, k, d) => Holds(sd, nt, d),
         \A d \in Conn : sd[d.from].succ_fd = d /\ Holds(sd, nt, d) => Holds(new, k, d),
         \A p \in Node : Own(p, sd[p])
  PROVE  Good(new, k)
<1>0. sd \in [Node -> SelfData] /\ nt \in Net
  BY DEF Good, World
<1>1. new \in [Node -> SelfData] /\ new[n] = t /\ \A p \in Node : p # n => new[p] = sd[p]
  BY <1>0
<1>2. /\ \A p \in Node : Seat(sd[p])
      /\ \A d \in Conn : Holds(sd, nt, d) => Inside(sd[d.from])
      /\ \A p \in Node : Link(sd, nt, sd[p]) /\ Alone(sd, nt, p)
      /\ \A d \in Conn : OnlyTraffic(nt, d)
      /\ \A d \in Conn : \A i \in DOMAIN nt.fwd[d] : Response(sd, nt, d, i)
      /\ \A d \in Conn : \A pdu \in Range(nt.fwd[d]) : Asking(sd, nt, pdu)
      /\ \A d \in nt.udp : Asking(sd, nt, d.pdu) /\ Letter(sd, d)
      /\ \A p \in Node : Once(nt, p)
  BY DEF Good, Order
<1>3. \A p \in Node : /\ Inside(new[p]) <=> Inside(sd[p])
                      /\ ~Inside(sd[p]) => new[p] = sd[p] /\ k.backlog[p] = nt.backlog[p]
                      /\ new[p].succ_socket <=> sd[p].succ_socket
                      /\ new[p].range_start = sd[p].range_start /\ new[p].range_end = sd[p].range_end
                      /\ new[p].succ_fd = sd[p].succ_fd /\ new[p].succ_addr = sd[p].succ_addr
  BY <1>1
<1>4. \A p \in Node : new[p].pc = "q7" <=> sd[p].pc = "q7"
  BY <1>3 DEF Inside
<1>5. ASSUME NEW p \in Node, Expected(sd, nt, p)
      PROVE  Expected(new, k, p) /\ StartOf(new, k, p) = StartOf(sd, nt, p)
  <2>1. CASE Inside(sd[p])
    BY <1>3, <2>1 DEF Expected, StartOf
  <2>2. CASE ~Inside(sd[p])
    BY <1>3, <1>5, <2>2 DEF Expected, StartOf
  <2> QED
    BY <2>1, <2>2
<1>6. \A p, e : Follows(sd, nt, p, e) => Follows(new, k, p, e)
  BY <1>5, FollowsKept DEF Steady
<1>7. \A p \in Node : Link(new, k, new[p])
  <2> SUFFICES ASSUME NEW p \in Node, new[p].succ_socket PROVE Link(new, k, new[p])
    BY DEF Link
  <2> DEFINE d == sd[p].succ_fd
  <2>1. /\ d # NULL /\ sd[p].succ_addr = d.to /\ Holds(sd, nt, d) /\ Own(p, sd[p])
        /\ Follows(sd, nt, sd[p].succ_addr, sd[p].range_end) /\ d \in Conn \cup {NULL}
    BY <1>0, <1>2, <1>3, SelfDataFields DEF Link
  <2>2. d \in Conn /\ d.from = p
    BY <2>1 DEF Own
  <2>3. Holds(new, k, d)
    BY <2>1, <2>2
  <2>4. new[p].succ_fd = d /\ new[p].succ_addr = d.to /\ Follows(new, k, new[p].succ_addr, new[p].range_end)
    BY <1>3, <1>6, <2>1
  <2> QED
    BY <2>1, <2>3, <2>4 DEF Link
<1>8. \A p \in Node : Seat(new[p]) /\ Alone(new, k, p)
  BY <1>1, <1>2, <1>3 DEF Alone
<1>9. \A d \in Conn : Holds(new, k, d) => Inside(new[d.from])
  BY <1>2, <1>3, ConnFields
<1>10. \A d \in Conn : OnlyTraffic(k, d)
  BY <1>2 DEF OnlyTraffic
<1>11. \A d \in Conn : \A i \in DOMAIN k.fwd[d] : Response(new, k, d, i)
  <2> SUFFICES ASSUME NEW d \in Conn, NEW i \in DOMAIN nt.fwd[d] PROVE Response(new, k, d, i)
    OBVIOUS
  <2>1. Response(sd, nt, d, i) /\ d.to \in Node
    BY <1>2, ConnFields
  <2>2. sd[d.to].pc = "q7" => new[d.to].pc = "q7" /\ k.backlog[d.to] = nt.backlog[d.to]
    BY <1>3, <2>1 DEF Inside
  <2> QED
    BY <1>6, <2>1, <2>2 DEF Response
<1>12. ASSUME NEW pdu \in PDU, Asking(sd, nt, pdu) PROVE Asking(new, k, pdu)
  <2> SUFFICES ASSUME pdu.type = "NET_JOIN" PROVE Asking(new, k, pdu)
    BY DEF Asking
  <2>1. pdu.src \in Node /\ pdu.max \in Node \cup {NULL}
    BY JoinFields
  <2>2. sd[pdu.src].pc = "q7" => new[pdu.src].pc = "q7" /\ k.backlog[pdu.src] = nt.backlog[pdu.src]
    BY <1>3, <2>1 DEF Inside
  <2> QED
    BY <1>3, <1>12, <2>1, <2>2 DEF Asking, Divisible
<1>13. (\A d \in Conn : Range(nt.fwd[d]) \subseteq PDU) /\ \A d \in nt.udp : d.pdu \in PDU
  BY <1>0, NetFields DEF Range
<1>14. \A d \in nt.udp : Letter(new, d)
  BY <1>1, <1>2, <1>3 DEF Letter, Inside
<1>15. \A p \in Node : Once(k, p)
  BY <1>2 DEF Once
<1>16. Order(new, k)
  BY <1>2, <1>7, <1>8, <1>9, <1>10, <1>11, <1>12, <1>13, <1>14, <1>15 DEF Order
<1>17. Shares(new, k)
  <2>1. \A h : /\ \A p \in Node : Owns(new, h, p) <=> Owns(sd, h, p)
               /\ \A c \in Conn : Brings(k, h, c) <=> Brings(nt, h, c)
    BY <1>3 DEF Owns, Brings
  <2> QED
    BY <1>3, <2>1, ZenonT(60) DEF Good, Shares, OneHolder
<1> QED
  BY <1>1, <1>16, <1>17 DEF Good, World

(* What is known when a node handles NET_CLOSE_CONNECTION: it was the last word
   of a predecessor that has let go of the connection. *)
LastWord(nt, n, pdu) ==
  pdu.type = "NET_CLOSE_CONNECTION" =>
      LET c == self_data[n].pred_fd
      IN  c # NULL /\ nt.fwd[c] = <<>> /\ self_data[c.from].succ_fd # c

(* handle_net_close_connection: a node with a predecessor has a successor, so
   it does not have the whole range and waits for the next predecessor. *)
LEMMA NetCloseConnectionOrderly ==
  ASSUME NEW nt, Calm(nt), nodes \in SUBSET Node, nodes' = nodes,
         NEW n \in Node, NEW s, s = self_data[n], s.pc = "q6",
         NEW pdu, pdu.type = "NET_CLOSE_CONNECTION", LastWord(nt, n, pdu),
         handle_net_close_connection(n, s, nt)
  PROVE  JoinInv'
<1> DEFINE c == s.pred_fd
           a == [s EXCEPT !.pred_socket = FALSE, !.pred_fd = NULL]
           t == [a EXCEPT !.pc = Awaiting(s)]
           new == [self_data EXCEPT ![n] = t]
<1>1. /\ s \in SelfData /\ Seat(s) /\ Own(n, s) /\ c \in Conn /\ c.to = n /\ Inside(s)
      /\ nt.fwd[c] = <<>> /\ self_data[c.from].succ_fd # c /\ nt \in Net
  BY CalmNode DEF LastWord, Own, Inside
<1>2. s.pred_socket /\ s.succ_socket /\ ~Whole(s)
  BY <1>1, ConnFields DEF Seat, Own
<1>3. CloseAcceptor(nt, c) = nt
  <2>1. [nt EXCEPT !.fwd[c] = <<>>] = nt
    BY <1>1 DEF Net
  <2> QED
    BY <2>1 DEF CloseAcceptor
<1>4. Continue(n, t, nt)
  BY <1>2, <1>3 DEF handle_net_close_connection, Whole
<1>5. Awaiting(s) = "accept" /\ "accept" \in PC
  BY DEF Awaiting, ShuttingDown, PC
<1>6. /\ a \in SelfData /\ ~a.pred_socket /\ a.pred_fd = NULL /\ a.succ_socket
      /\ a.succ_fd = s.succ_fd /\ a.succ_addr = s.succ_addr
      /\ a.range_start = s.range_start /\ a.range_end = s.range_end
  BY <1>1, <1>2 DEF SelfData
<1> HIDE DEF a
<1>7. /\ t \in SelfData /\ t.pc = "accept" /\ ~t.pred_socket /\ t.pred_fd = NULL /\ t.succ_socket
      /\ t.succ_fd = s.succ_fd /\ t.succ_addr = s.succ_addr
      /\ t.range_start = s.range_start /\ t.range_end = s.range_end
  BY <1>5, <1>6 DEF SelfData
<1> HIDE DEF t
<1>8. Seat(t) /\ Inside(t)
  BY <1>2, <1>7 DEF Seat, Inside, Whole
<1>9. Good(self_data, nt) /\ Table(self_data, nt, nodes) /\ \A p \in Node : Own(p, self_data[p])
  BY DEF Calm, Kernel, Ends
<1>10. new[n] = t /\ \A p \in Node : p # n => new[p] = self_data[p]
  BY <1>9 DEF Good, World
<1>11. new = [self_data EXCEPT ![n] = t]
  OBVIOUS
<1> HIDE DEF new
<1>12. \A d \in Conn : Holds(new, nt, d) => Holds(self_data, nt, d)
  BY <1>7, <1>10, ConnFields DEF Holds
<1>13. \A d \in Conn : self_data[d.from].succ_fd = d /\ Holds(self_data, nt, d) => Holds(new, nt, d)
  <2> SUFFICES ASSUME NEW d \in Conn, self_data[d.from].succ_fd = d, Holds(self_data, nt, d)
               PROVE  Holds(new, nt, d)
    OBVIOUS
  <2>1. d # c /\ d.to \in Node
    BY <1>1, ConnFields
  <2> QED
    BY <1>10, <2>1 DEF Holds
<1>14. Good(new, nt)
  <2>1. t.succ_socket <=> self_data[n].succ_socket
    BY <1>2, <1>7
  <2> QED
    BY <1>1, <1>7, <1>8, <1>9, <1>11, <1>12, <1>13, <2>1, PredGood
<1>15. Table(new, nt, nodes)
  BY <1>7, <1>9, <1>10, TableKept DEF Inside
<1>16. self_data' = new /\ net' = nt
  BY <1>4, <1>11 DEF Continue
<1> QED
  BY <1>14, <1>15, <1>16 DEF JoinInv, Good

(* The switch in poll_for_incoming_data: what reaches a node in q6. *)
Readable == (Traffic \ {"NET_JOIN_RESPONSE"}) \cup Letters

LEMMA HandlePDUOrderly ==
  ASSUME JoinOnly, NEW nt, Calm(nt), nt.backlog = net.backlog, nodes \in SUBSET Node, nodes' = nodes,
         NEW n \in Node, NEW s, s = self_data[n], Ready(s), s.pc = "q6",
         NEW pdu \in PDU, pdu.type \in Readable, InHand(nt, pdu), LastWord(nt, n, pdu),
         HandlePDU(n, s, pdu, nt)
  PROVE  JoinInv'
<1>1. \/ pdu.type = "VAL_INSERT" /\ handle_val_insert(n, s, pdu, nt)
      \/ pdu.type = "VAL_REMOVE" /\ handle_val_remove(n, s, pdu, nt)
      \/ pdu.type = "VAL_LOOKUP" /\ handle_val_lookup(n, s, pdu, nt)
      \/ pdu.type = "NET_JOIN" /\ handle_net_join(n, s, pdu, nt)
      \/ pdu.type = "NET_NEW_RANGE" \/ pdu.type = "NET_LEAVING"
      \/ pdu.type = "NET_CLOSE_CONNECTION" /\ handle_net_close_connection(n, s, nt)
      \/ Continue(n, s, nt)
  BY Zenon DEF HandlePDU
<1>2. pdu.type # "NET_NEW_RANGE" /\ pdu.type # "NET_LEAVING"
  BY DEF Readable, Traffic, Letters
<1>3. ASSUME pdu.type = "NET_JOIN", handle_net_join(n, s, pdu, nt) PROVE JoinInv'
  <2>1. s.succ_socket <=> s.pred_socket
    BY CalmNode DEF Seat
  <2>2. CASE ~s.pred_socket
    <3>1. JoinAlone(n, s, pdu, nt)
      BY <1>3, <2>1, <2>2 DEF handle_net_join
    <3> QED
      BY <1>3, <2>1, <2>2, <3>1, JoinAloneOrderly
  <2>3. CASE s.pred_socket /\ pdu.max = n
    <3>1. JoinAtLargest(n, s, pdu, nt)
      BY <1>3, <2>1, <2>3 DEF handle_net_join
    <3> QED
      BY <1>3, <2>1, <2>3, <3>1, JoinAtLargestOrderly
  <2>4. CASE s.pred_socket /\ pdu.max # n
    <3>1. ForwardJoin(n, s, pdu, nt)
      BY <1>3, <2>1, <2>4 DEF handle_net_join
    <3> QED
      BY <1>3, <3>1, ForwardJoinOrderly
  <2> QED
    BY <2>2, <2>3, <2>4
<1>4. ASSUME Continue(n, s, nt) PROVE JoinInv'
  <2>1. Good(self_data, nt) /\ Table(self_data, nt, nodes) /\ s \in SelfData
    BY CalmNode DEF Calm
  <2> QED
    BY <1>4, <2>1, StayGood DEF SameEnds
<1> QED
  BY <1>1, <1>2, <1>3, <1>4, ValGood, NetCloseConnectionOrderly

(***************************************************************************)
(* The steps of a process.                                                 *)
(***************************************************************************)

(* Between two steps. *)
LEMMA CalmAtRest == ASSUME NodeInv, ConnInv, JoinInv PROVE Calm(net)
  BY AtRest DEF Calm, JoinInv, Good, Kernel

(* A datagram is read: a NET_JOIN is the only one of its source. *)
LEMMA DatagramRead ==
  ASSUME NEW nt, Calm(nt), nodes \in SUBSET Node, NEW d \in nt.udp
  PROVE  LET u == [nt EXCEPT !.udp = @ \ {d}]
         IN  /\ Calm(u) /\ u.backlog = nt.backlog /\ u.fwd = nt.fwd /\ u.udp = nt.udp \ {d}
             /\ InHand(u, d.pdu) /\ Letter(self_data, d) /\ d.pdu \in PDU
<1> DEFINE D == nt.udp \ {d}
           u == [nt EXCEPT !.udp = D]
<1>1. nt \in Net /\ Kernel(nt) /\ Good(self_data, nt) /\ Table(self_data, nt, nodes)
  BY DEF Calm, Kernel, World
<1>2. D \in SUBSET [dst : Node \cup {Client}, pdu : PDU] /\ D \subseteq nt.udp /\ d.pdu \in PDU
  BY <1>1, NetFields
<1>3. u.backlog = nt.backlog /\ u.fwd = nt.fwd /\ u.udp = D
  BY <1>1 DEF Net
<1>4. /\ \A e \in nt.udp : Asking(self_data, nt, e.pdu) /\ Letter(self_data, e)
      /\ \A m \in Node : Once(nt, m)
  BY <1>1 DEF Good, Order
<1>5. \A m \in Node : /\ \A e, f \in D : JoinOf(e.pdu, m) /\ JoinOf(f.pdu, m) => e = f
                      /\ \A c \in Conn, e \in D : ~(Asks(nt.fwd[c], m) /\ JoinOf(e.pdu, m))
  BY <1>2, <1>4 DEF Once
<1>6. ASSUME d.pdu.type = "NET_JOIN" PROVE Silent(u, d.pdu.src)
  <2>1. d.pdu.src \in Node /\ JoinOf(d.pdu, d.pdu.src)
    BY <1>2, <1>6, JoinFields DEF JoinOf
  <2> QED
    BY <1>3, <1>4, <2>1 DEF Silent, Once
<1>7. Asking(self_data, u, d.pdu)
  BY <1>3, <1>4 DEF Asking
<1>8. Kernel(u)
  <2>1. \A e \in D : e \in nt.udp
    BY <1>2
  <2> HIDE DEF D
  <2> QED
    BY <1>1, <1>2, <2>1, UdpChange DEF Kernel
<1> HIDE DEF D
<1>9. Good(self_data, u)
  BY <1>1, <1>2, <1>4, <1>5, DatagramsGood
<1>10. Table(self_data, u, nodes)
  BY <1>1, <1>2, <1>3, TableKept
<1> HIDE DEF u
<1> QED
  BY <1>2, <1>3, <1>4, <1>6, <1>7, <1>8, <1>9, <1>10 DEF u, D, InHand, Calm

(* A PDU of the predecessor is read. *)
LEMMA PredecessorRead ==
  ASSUME NEW nt, Calm(nt), nodes \in SUBSET Node, NEW n \in Node, self_data[n].pc = "q6",
         NEW c \in Conn, c = self_data[n].pred_fd, nt.fwd[c] # <<>>
  PROVE  LET k == [nt EXCEPT !.fwd[c] = Tail(@)]
             pdu == Head(nt.fwd[c])
         IN  /\ Calm(k) /\ k.backlog = nt.backlog /\ pdu \in PDU /\ pdu.type \in Readable
             /\ InHand(k, pdu) /\ LastWord(k, n, pdu)
<1> DEFINE w == nt.fwd[c]
           q == Tail(w)
           k == [nt EXCEPT !.fwd[c] = q]
           pdu == Head(w)
<1>1. /\ nt \in Net /\ Kernel(nt) /\ Good(self_data, nt) /\ Table(self_data, nt, nodes) /\ c.to = n
      /\ Ends(self_data, nt, NULL, NULL)
  BY CalmNode, ConnFields DEF Calm, Kernel, Own
<1>2. w \in Seq(PDU) /\ q \in Seq(PDU) /\ w # <<>> /\ pdu \in PDU
  BY <1>1, NetFields
<1>3. pdu \in Range(w) /\ Range(q) \subseteq Range(w)
  <2> HIDE DEF w
  <2> QED
    BY <1>2, StreamRange
<1>4. /\ \A p \in Range(w) : p.type \in Traffic /\ Asking(self_data, nt, p)
      /\ \A m \in Node : Once(nt, m) /\ \A i \in DOMAIN w : w[i].type # "NET_JOIN_RESPONSE"
  BY <1>1 DEF Good, Order, OnlyTraffic, Response
<1>5. \A p \in Range(w) : p.type # "NET_JOIN_RESPONSE"
  BY <1>1, <1>4 DEF Range
<1>6. \A m \in Node : /\ AsksOnce(q, m) /\ (Asks(q, m) => Asks(w, m))
                      /\ JoinOf(pdu, m) => ~Asks(q, m) /\ Asks(w, m)
  <2> SUFFICES ASSUME NEW m \in Node
               PROVE  /\ AsksOnce(q, m) /\ (Asks(q, m) => Asks(w, m))
                      /\ JoinOf(pdu, m) => ~Asks(q, m) /\ Asks(w, m)
    OBVIOUS
  <2>1. AsksOnce(w, m)
    BY <1>4 DEF Once
  <2>2. 1 \in DOMAIN w /\ w[1] = pdu
    BY <1>2
  <2> HIDE DEF w
  <2> QED
    BY <1>2, <2>1, <2>2, AsksTail DEF Asks
<1>7. k.backlog = nt.backlog /\ k.udp = nt.udp /\ k.fwd[c] = q /\ \A d \in Conn : d # c => k.fwd[d] = nt.fwd[d]
  BY <1>1 DEF Net
<1>8. Kernel(k)
  BY <1>1, TakeKeeps DEF Young
<1>9. \A i \in DOMAIN q : q[i].type # "NET_JOIN_RESPONSE"
  BY <1>2, <1>3, <1>5 DEF Range
<1>10. ASSUME pdu.type = "NET_CLOSE_CONNECTION" PROVE q = <<>> /\ self_data[c.from].succ_fd # c
  <2>1. Ending(w, "NET_CLOSE_CONNECTION") /\ (self_data[c.from].succ_fd # c \/ Without(w, "NET_CLOSE_CONNECTION"))
    BY <1>1, ConnFields DEF Ends, FwdOK
  <2>2. 1 \in DOMAIN w /\ w[1] = pdu
    BY <1>2
  <2>3. Len(w) = 1
    BY <1>2, <1>10, <2>1, <2>2 DEF Ending
  <2>4. ~Without(w, "NET_CLOSE_CONNECTION")
    BY <1>3, <1>10 DEF Without
  <2>5. Len(q) = 0
    BY <1>2, <2>3
  <2> HIDE DEF q
  <2>6. q = <<>>
    BY <1>2, <2>5
  <2> QED
    BY <2>1, <2>4, <2>6
<1>11. ASSUME pdu.type = "NET_JOIN" PROVE Silent(k, pdu.src)
  <2>1. pdu.src \in Node /\ JoinOf(pdu, pdu.src)
    BY <1>2, <1>11, JoinFields DEF JoinOf
  <2>2. Once(nt, pdu.src) /\ Asks(w, pdu.src) /\ ~Asks(q, pdu.src)
    BY <1>4, <1>6, <2>1
  <2> HIDE DEF q, pdu, k
  <2>3. ASSUME NEW d \in Conn PROVE ~Asks(k.fwd[d], pdu.src)
    BY <1>7, <2>2 DEF Once
  <2>4. \A d \in k.udp : ~JoinOf(d.pdu, pdu.src)
    BY <1>7, <2>2 DEF Once
  <2> QED
    BY <2>3, <2>4 DEF Silent
<1>12. Asking(self_data, k, pdu)
  BY <1>3, <1>4, <1>7 DEF Asking
<1>13. Good(self_data, k)
  <2>1. \A p \in Range(q) : p.type \in Traffic /\ Asking(self_data, nt, p)
    BY <1>3, <1>4
  <2>2. Head(w).type # "NET_JOIN_RESPONSE" /\ self_data[c.to].pc # "q7"
    BY <1>1, <1>3, <1>5
  <2> HIDE DEF q
  <2> QED
    BY <1>1, <1>2, <1>6, <1>9, <2>1, <2>2, StreamGood
<1> HIDE DEF k
<1>14. Table(self_data, k, nodes)
  BY <1>1, <1>7, TableKept
<1>15. pdu.type \in Readable
  BY <1>3, <1>4, <1>5 DEF Readable
<1>16. LastWord(k, n, pdu) /\ InHand(k, pdu) /\ Calm(k)
  BY <1>7, <1>8, <1>10, <1>11, <1>12, <1>13, <1>14, ConnFields DEF LastWord, InHand, Calm
<1> QED
  BY <1>2, <1>7, <1>15, <1>16 DEF k

(* The states of the processes, and what those that run find. *)
LEMMA RestFacts ==
  ASSUME NodeInv, ConnInv, JoinInv, NEW n \in Node
  PROVE  /\ Calm(net) /\ Seat(self_data[n]) /\ Own(n, self_data[n]) /\ Sound(self_data[n])
         /\ Link(self_data, net, self_data[n]) /\ self_data[n] \in SelfData
         /\ self_data[n].succ_fd \in Conn \cup {NULL} /\ self_data[n].pred_fd \in Conn \cup {NULL}
         /\ \A p, pos : Polls(n, p) => self_data[n].pc = "q6" /\ Polled(n, pos) = self_data[n] /\ Ready(self_data[n])
<1>1. Calm(net)
  BY CalmAtRest
<1>2. /\ Seat(self_data[n]) /\ Own(n, self_data[n]) /\ Link(self_data, net, self_data[n])
      /\ self_data[n] \in SelfData
      /\ self_data[n].succ_fd \in Conn \cup {NULL} /\ self_data[n].pred_fd \in Conn \cup {NULL}
  BY <1>1, CalmNode
<1>3. Sound(self_data[n])
  BY DEF NodeInv
<1>4. \A p, pos : Polls(n, p) => self_data[n].pc = "q6" /\ Polled(n, pos) = self_data[n] /\ Ready(self_data[n])
  BY <1>2, <1>3 DEF Seat, Polls, Polled, Ready
<1> QED
  BY <1>1, <1>2, <1>3, <1>4

(* poll_for_incoming_data with a PDU to read; nobody writes to a predecessor. *)
LEMMA PollOrderly ==
  ASSUME JoinOnly, NodeInv, ConnInv, JoinInv, nodes \in SUBSET Node, nodes' = nodes, NEW n \in Node,
         PollUdp(n) \/ PollSuccessor(n) \/ PollPredecessor(n)
  PROVE  JoinInv'
<1> DEFINE s == self_data[n]
<1>1. /\ Calm(net) /\ Ready(s) /\ s.pc = "q6" /\ \A pos : Polled(n, pos) = s
      /\ s.succ_fd \in Conn \cup {NULL} /\ s.pred_fd \in Conn \cup {NULL}
  BY RestFacts DEF PollUdp, PollSuccessor, PollPredecessor
<1>2. CASE PollUdp(n)
  <2>1. PICK d \in net.udp : d.dst = n /\ HandlePDU(n, Polled(n, 1), d.pdu, [net EXCEPT !.udp = @ \ {d}])
    BY <1>2 DEF PollUdp
  <2> DEFINE nt == [net EXCEPT !.udp = @ \ {d}]
             pdu == d.pdu
  <2>2. /\ Calm(nt) /\ nt.backlog = net.backlog /\ InHand(nt, pdu)
        /\ Letter(self_data, d) /\ pdu \in PDU
    BY <1>1, DatagramRead
  <2>3. HandlePDU(n, s, pdu, nt)
    BY <1>1, <2>1
  <2> HIDE DEF nt
  <2>4. pdu.type \in Readable /\ LastWord(nt, n, pdu)
    BY <2>2 DEF Letter, Letters, Readable, LastWord
  <2> HIDE DEF pdu
  <2> QED
    BY <1>1, <2>2, <2>3, <2>4, HandlePDUOrderly
<1>3. CASE PollSuccessor(n)
  <2>1. s.succ_fd \in Conn /\ net.bwd[s.succ_fd] # <<>>
    BY <1>1, <1>3 DEF PollSuccessor
  <2> QED
    BY <2>1 DEF JoinInv, Order, OnlyTraffic
<1>4. CASE PollPredecessor(n)
  <2> DEFINE c == s.pred_fd
             nt == [net EXCEPT !.fwd[c] = Tail(@)]
             pdu == Head(net.fwd[c])
  <2>1. c \in Conn /\ net.fwd[c] # <<>> /\ HandlePDU(n, s, pdu, nt)
    BY <1>1, <1>4 DEF PollPredecessor
  <2>2. /\ Calm(nt) /\ nt.backlog = net.backlog /\ pdu \in PDU /\ pdu.type \in Readable
        /\ InHand(nt, pdu) /\ LastWord(nt, n, pdu)
    BY <1>1, <2>1, PredecessorRead
  <2> HIDE DEF nt, pdu
  <2> QED
    BY <1>1, <2>1, <2>2, HandlePDUOrderly
<1> QED
  BY <1>2, <1>3, <1>4

(* Both peers of a node run, so no connection ends; nobody shuts down. *)
LEMMA NeverEnds ==
  ASSUME NodeInv, ConnInv, JoinInv, NEW n \in Node
  PROVE  /\ ~SuccessorEnded(n) /\ ~PredecessorEnded(n)
         /\ ~ReceiveNewRangeResponse(n) /\ ~NewRangeConnectionEnded(n) /\ ~Leave(n)
<1> DEFINE s == self_data[n]
<1>1. /\ Seat(s) /\ Own(n, s) /\ Link(self_data, net, s)
      /\ s.succ_fd \in Conn \cup {NULL} /\ s.pred_fd \in Conn \cup {NULL}
  BY RestFacts
<1>2. ASSUME s.succ_fd # NULL PROVE Running(s.succ_fd.to)
  <2>1. s.succ_socket
    BY <1>1, <1>2 DEF Own
  <2>2. Expected(self_data, net, s.succ_fd.to)
    BY <1>1, <2>1 DEF Link, Follows
  <2> QED
    BY <2>2 DEF Expected, Inside, Running
<1>3. ASSUME s.pred_fd # NULL PROVE Running(s.pred_fd.from)
  <2>1. s.pred_fd \in Conn /\ Holds(self_data, net, s.pred_fd)
    BY <1>1, <1>3 DEF Own, Holds
  <2>2. Inside(self_data[s.pred_fd.from])
    BY <2>1 DEF JoinInv, Order
  <2> QED
    BY <2>2 DEF Inside, Running
<1>4. ~SuccessorEnded(n) /\ ~PredecessorEnded(n)
  BY <1>2, <1>3 DEF SuccessorEnded, PredecessorEnded, ConnectorAtEnd, AcceptorAtEnd
<1>5. ~ReceiveNewRangeResponse(n) /\ ~NewRangeConnectionEnded(n) /\ ~Leave(n)
  BY <1>1 DEF Seat, ReceiveNewRangeResponse, NewRangeConnectionEnded, Leave
<1> QED
  BY <1>4, <1>5

(* accept_predecessor_connection: a connection moves from the listen queue to
   the node. *)
LEMMA AcceptOrderly ==
  ASSUME NodeInv, ConnInv, JoinInv, nodes \in SUBSET Node, nodes' = nodes, NEW n \in Node,
         accept_predecessor_connection(n)
  PROVE  JoinInv'
<1> DEFINE s == self_data[n]
           w == net.backlog[n]
           c == Head(w)
           t == [s EXCEPT !.pc = "q6", !.pollPos = 0, !.pred_socket = TRUE, !.pred_fd = c]
           k == [net EXCEPT !.backlog[n] = Tail(@)]
           new == [self_data EXCEPT ![n] = t]
<1>1. /\ Calm(net) /\ Seat(s) /\ Own(n, s) /\ s \in SelfData /\ net \in Net
  BY RestFacts DEF NodeInv
<1>2. s.pc = "accept" /\ w # <<>>
  BY <1>1 DEF accept_predecessor_connection, Seat
<1>3. Continue(n, t, k)
  BY <1>2 DEF accept_predecessor_connection
<1>4. w \in Seq(Conn) /\ net.backlog \in [Node -> Seq(Conn)] /\ Tail(w) \in Seq(Conn)
  BY <1>1, <1>2, NetFields
<1>5. c \in Conn /\ Range(w) = Range(Tail(w)) \cup {c}
  <2> HIDE DEF w
  <2> QED
    BY <1>2, <1>4, StreamRange
<1>6. /\ k \in Net /\ k.fwd = net.fwd /\ k.bwd = net.bwd /\ k.udp = net.udp
      /\ k.backlog[n] = Tail(w) /\ \A p \in Node : p # n => k.backlog[p] = net.backlog[p]
  <2>1. k.backlog = [net.backlog EXCEPT ![n] = Tail(w)] /\ k.backlog \in [Node -> Seq(Conn)]
    BY <1>1, <1>4 DEF Net
  <2> QED
    BY <1>1, <1>4, <2>1 DEF Net
<1>7. /\ t \in SelfData /\ t.pc = "q6" /\ t.pred_socket /\ t.pred_fd = c
      /\ t.succ_fd = s.succ_fd /\ t.succ_addr = s.succ_addr /\ t.succ_socket /\ s.succ_socket
      /\ t.range_start = s.range_start /\ t.range_end = s.range_end
  <2>1. "q6" \in PC /\ 0 \in 0 .. 3 /\ s.succ_socket
    BY <1>1, <1>2 DEF PC, Seat
  <2> HIDE DEF c
  <2> QED
    BY <1>1, <1>5, <2>1 DEF SelfData
<1>8. \A p \in Node : Own(p, self_data[p]) /\ \A d \in Range(net.backlog[p]) : d.to = p
  BY DEF ConnInv, Ends
<1>9. c.to = n /\ s.pred_fd = NULL
  BY <1>1, <1>2, <1>5, <1>8 DEF Own
<1>10. new = [self_data EXCEPT ![n] = t] /\ new[n] = t /\ \A p \in Node : p # n => new[p] = self_data[p]
  BY DEF NodeInv
<1> HIDE DEF w, c, t, k, new
<1>11. Seat(t) /\ Inside(t) /\ Inside(s)
  BY <1>1, <1>2, <1>5, <1>7, ConnFields DEF Seat, Inside, Whole
<1>12. \A d \in Conn : Holds(new, k, d) <=> Holds(self_data, net, d)
  <2> SUFFICES ASSUME NEW d \in Conn PROVE Holds(new, k, d) <=> Holds(self_data, net, d)
    OBVIOUS
  <2>1. CASE d.to = n
    <3>1. Holds(new, k, d) <=> d = c \/ d \in Range(Tail(w))
      BY <1>6, <1>7, <1>10, <2>1 DEF Holds
    <3>2. Holds(self_data, net, d) <=> d \in Range(w)
      BY <1>9, <2>1, ConnFields DEF Holds, w
    <3> QED
      BY <1>5, <3>1, <3>2
  <2>2. CASE d.to # n
    BY <1>6, <1>10, <2>2, ConnFields DEF Holds
  <2> QED
    BY <2>1, <2>2
<1>13. Good(self_data, net) /\ Table(self_data, net, nodes)
  BY <1>1 DEF Calm
<1>14. Good(new, k)
  <2>1. t.succ_socket <=> self_data[n].succ_socket
    BY <1>7
  <2> QED
    BY <1>6, <1>7, <1>8, <1>10, <1>11, <1>12, <1>13, <2>1, PredGood
<1>15. Table(new, k, nodes)
  <2>1. \A p \in Node : /\ Inside(self_data[p]) => Inside(new[p])
                        /\ new[p].pc # "off" => self_data[p].pc # "off"
                        /\ new[p].pc \in {"q3", "q7"} => self_data[p].pc = new[p].pc
    BY <1>2, <1>7, <1>10 DEF Inside
  <2> QED
    BY <1>6, <1>13, <2>1, TableKept
<1>16. self_data' = new /\ net' = k
  BY <1>3, <1>10 DEF Continue
<1> QED
  BY <1>14, <1>15, <1>16 DEF JoinInv, Good

(* A node that is not inside goes on to ask for the tracker or to be let in. *)
LEMMA OutsideGood ==
  ASSUME NEW sd, NEW nt, Good(sd, nt), NEW n \in Node, ~Inside(sd[n]), sd[n].pc # "q7",
         NEW t \in SelfData, t.pc \in {"q3", "q7"}, ~t.succ_socket, ~t.pred_socket, t.pred_fd = sd[n].pred_fd
  PROVE  Good([sd EXCEPT ![n] = t], nt)
<1> DEFINE new == [sd EXCEPT ![n] = t]
<1>0. sd \in [Node -> SelfData] /\ nt \in Net
  BY DEF Good, World
<1>1. new \in [Node -> SelfData] /\ new[n] = t /\ \A p \in Node : p # n => new[p] = sd[p]
  BY <1>0
<1> HIDE DEF new
<1>2. /\ \A p \in Node : Seat(sd[p])
      /\ \A d \in Conn : Holds(sd, nt, d) => Inside(sd[d.from])
      /\ \A p \in Node : Link(sd, nt, sd[p]) /\ Alone(sd, nt, p)
      /\ \A d \in Conn : OnlyTraffic(nt, d)
      /\ \A d \in Conn : \A i \in DOMAIN nt.fwd[d] : Response(sd, nt, d, i)
      /\ \A d \in Conn : \A pdu \in Range(nt.fwd[d]) : Asking(sd, nt, pdu)
      /\ \A d \in nt.udp : Asking(sd, nt, d.pdu) /\ Letter(sd, d)
      /\ \A p \in Node : Once(nt, p)
  BY DEF Good, Order
<1>3. \A p \in Node : /\ Inside(new[p]) <=> Inside(sd[p])
                      /\ Inside(sd[p]) \/ sd[p].pc = "q7" => new[p] = sd[p]
                      /\ new[p].pred_fd = sd[p].pred_fd
  BY <1>1 DEF Inside
<1>4. \A p \in Node : Expected(sd, nt, p) => Expected(new, nt, p) /\ StartOf(new, nt, p) = StartOf(sd, nt, p)
  BY <1>3 DEF Expected, StartOf
<1>5. \A p, e : Follows(sd, nt, p, e) => Follows(new, nt, p, e)
  BY <1>4, FollowsKept DEF Steady
<1>6. \A d \in Conn : Holds(new, nt, d) <=> Holds(sd, nt, d)
  BY <1>3, ConnFields DEF Holds
<1>7. \A p \in Node : Link(new, nt, new[p])
  <2> SUFFICES ASSUME NEW p \in Node, new[p].succ_socket PROVE Link(new, nt, new[p])
    BY DEF Link
  <2>1. p # n /\ new[p] = sd[p] /\ Link(sd, nt, sd[p]) /\ sd[p].succ_fd \in Conn \cup {NULL}
    BY <1>0, <1>1, <1>2, SelfDataFields
  <2> QED
    BY <1>5, <1>6, <2>1 DEF Link
<1>8. \A p \in Node : Seat(new[p])
  <2>1. Seat(t)
    BY DEF Seat, Inside
  <2> QED
    BY <1>1, <1>2, <2>1
<1>9. \A p \in Node : Alone(new, nt, p)
  BY <1>2, <1>3 DEF Alone
<1>10. \A d \in Conn : Holds(new, nt, d) => Inside(new[d.from])
  BY <1>2, <1>3, <1>6, ConnFields
<1>11. \A d \in Conn : \A i \in DOMAIN nt.fwd[d] : Response(new, nt, d, i)
  BY <1>2, <1>3, <1>5, ConnFields DEF Response
<1>12. ASSUME NEW pdu \in PDU, Asking(sd, nt, pdu) PROVE Asking(new, nt, pdu)
  <2> SUFFICES ASSUME pdu.type = "NET_JOIN" PROVE Asking(new, nt, pdu)
    BY DEF Asking
  <2>1. pdu.src \in Node /\ pdu.max \in Node \cup {NULL}
    BY JoinFields
  <2> QED
    BY <1>3, <1>12, <2>1 DEF Asking
<1>13. (\A d \in Conn : Range(nt.fwd[d]) \subseteq PDU) /\ \A d \in nt.udp : d.pdu \in PDU
  BY <1>0, NetFields DEF Range
<1>14. \A d \in nt.udp : Letter(new, d)
  BY <1>1, <1>2, <1>3 DEF Letter
<1>15. Order(new, nt)
  BY <1>2, <1>7, <1>8, <1>9, <1>10, <1>11, <1>12, <1>13, <1>14 DEF Order
<1>16. Shares(new, nt)
  <2>1. \A h : \A p \in Node : Owns(new, h, p) <=> Owns(sd, h, p)
    BY <1>3 DEF Owns
  <2> QED
    BY <1>3, <2>1 DEF Good, Shares, OneHolder
<1> QED
  BY <1>0, <1>1, <1>15, <1>16 DEF Good, World, new

(* main, q1, q2: the first node starts when everything is off. *)
LEMMA StartOrderly ==
  ASSUME JoinOnly, NodeInv, ConnInv, JoinInv, nodes \in SUBSET Node, NEW n \in Node, StartNode(n)
  PROVE  JoinInv'
<1> DEFINE t == Blank("q3")
           new == [self_data EXCEPT ![n] = t]
<1>1. /\ self_data[n].pc = "off" /\ self_data' = new /\ net' = net /\ nodes' = nodes
      /\ Admitted(IF nodes = {} THEN "first" ELSE "join")
  BY DEF StartNode, Start, Continue
<1>2. t \in SelfData
  BY BlankSound DEF PC, Sound
<1>3. t.pc = "q3" /\ ~t.succ_socket /\ ~t.pred_socket /\ t.pred_fd = NULL
  BY DEF Blank
<1> HIDE DEF t
<1>4. Calm(net) /\ Own(n, self_data[n]) /\ \A p \in Node : Seat(self_data[p])
  BY RestFacts
<1>5. Good(self_data, net) /\ self_data[n].pred_fd = NULL /\ Table(self_data, net, nodes)
  BY <1>1, <1>4 DEF Calm, Own, Young
<1>6. Good(new, net)
  BY <1>1, <1>2, <1>3, <1>5, OutsideGood DEF Inside
<1>7. new[n] = t /\ \A p \in Node : p # n => new[p] = self_data[p]
  BY DEF NodeInv
<1> HIDE DEF new
<1>8. ASSUME nodes = {} PROVE \A p \in Node : self_data[p].pc = "off"
  <2>1. Quiet
    BY <1>1, <1>8 DEF Admitted, JoinOnly
  <2> QED
    BY <1>4, <1>8, <2>1 DEF Quiet, Members, Seat
<1>9. \A d \in net.udp : d.dst # n
  BY <1>1, <1>5 DEF Good, Order, Letter
<1>10. Table(new, net, nodes)
  <2>1. /\ \A p \in nodes : Inside(new[p])
        /\ nodes = {} => \A p, q \in Node : new[p].pc # "off" /\ new[q].pc # "off" => p = q
        /\ \A p \in Node : new[p].pc = "q7" => nodes # {}
    <3>1. nodes \subseteq Node
      OBVIOUS
    <3> QED
      BY <1>1, <1>3, <1>5, <1>7, <1>8, <3>1 DEF Table, Inside
  <2>2. ASSUME NEW d \in net.udp, d.pdu.type = "NET_GET_NODE_RESPONSE"
        PROVE  /\ d.pdu.node # NULL => d.pdu.node \in nodes
               /\ d.pdu.node = NULL /\ d.dst \in Node => (new[d.dst].pc = "q3" => nodes = {})
    BY <1>5, <1>7, <1>9, <2>2 DEF Table
  <2> QED
    BY <2>1, <2>2 DEF Table
<1> QED
  BY <1>1, <1>6, <1>10 DEF JoinInv, Good

(* q3, q4: a node that the tracker knows nobody for is the only one, and takes
   everything. *)
LEMMA FirstGood ==
  ASSUME NEW sd, NEW nt, Good(sd, nt), Ends(sd, nt, NULL, NULL), Table(sd, nt, {}),
         NEW n \in Node, sd[n].pc = "q3",
         NEW t \in SelfData, t.pc = "q6", Whole(t), ~t.succ_socket, ~t.pred_socket,
         t.succ_fd = NULL, t.pred_fd = NULL, sd[n].pred_fd = NULL
  PROVE  Good([sd EXCEPT ![n] = t], nt) /\ Table([sd EXCEPT ![n] = t], nt, {})
<1> DEFINE new == [sd EXCEPT ![n] = t]
<1>0. sd \in [Node -> SelfData] /\ nt \in Net
  BY DEF Good, World
<1>1. new \in [Node -> SelfData] /\ new[n] = t /\ \A p \in Node : p # n => new[p] = sd[p]
  BY <1>0
<1> HIDE DEF new
<1>2. \A p \in Node : p # n => sd[p].pc = "off"
  BY DEF Table
<1>3. \A p \in Node : ~Inside(sd[p]) /\ sd[p].pc # "q7" /\ Seat(sd[p])
  BY <1>2 DEF Inside, Good, Order
<1>4. \A d \in Conn : ~Holds(sd, nt, d) /\ nt.fwd[d] = <<>> /\ nt.bwd[d] = <<>>
  <2>1. \A d \in Conn : ~Holds(sd, nt, d)
    BY <1>3, ConnFields DEF Good, Order
  <2> QED
    BY <2>1 DEF Good, Order, OnlyTraffic, Ends, FwdOK
<1>5. \A d \in Conn : ~Holds(new, nt, d)
  <2> SUFFICES ASSUME NEW d \in Conn PROVE ~Holds(new, nt, d)
    OBVIOUS
  <2>1. new[d.to].pred_fd = sd[d.to].pred_fd
    BY <1>1, ConnFields
  <2> QED
    BY <1>4, <2>1 DEF Holds
<1>6. Inside(t) /\ Seat(t) /\ \A p \in Node : p # n => ~Inside(new[p]) /\ Seat(new[p]) /\ ~new[p].succ_socket
  BY <1>1, <1>3 DEF Inside, Seat
<1>7. \A p \in Node : Seat(new[p]) /\ Link(new, nt, new[p]) /\ Alone(new, nt, p)
  BY <1>1, <1>4, <1>6 DEF Link, Alone
<1>8. Range(<<>>) = {} /\ DOMAIN <<>> = {}
  BY DEF Range
<1>9. ASSUME NEW d \in nt.udp PROVE Asking(new, nt, d.pdu) /\ Letter(new, d)
  <2>1. Asking(sd, nt, d.pdu) /\ Letter(sd, d) /\ d.pdu \in PDU
    BY <1>0, NetFields DEF Good, Order
  <2>2. d.pdu.type # "NET_JOIN"
    BY <1>3, <2>1, JoinFields DEF Asking
  <2>3. Letter(new, d)
    BY <1>1, <1>6, <2>1 DEF Letter, Inside
  <2> QED
    BY <2>2, <2>3 DEF Asking
<1>10. Order(new, nt)
  BY <1>4, <1>5, <1>7, <1>8, <1>9 DEF Order, OnlyTraffic, Good
<1>11. Shares(new, nt)
  <2> SUFFICES ASSUME NEW h \in Byte PROVE OneHolder(new, nt, h)
    BY DEF Shares
  <2>1. Owns(new, h, n)
    BY <1>1, <1>6, HashSizeAssumption DEF Owns, Whole, InRange, Byte
  <2>2. \A p \in Node : p # n => ~Owns(new, h, p)
    BY <1>6 DEF Owns
  <2>3. \A d \in Conn : ~Brings(nt, h, d)
    BY <1>4 DEF Brings
  <2> QED
    BY <2>1, <2>2, <2>3 DEF OneHolder
<1>12. Table(new, nt, {})
  BY <1>1, <1>2 DEF Table
<1> QED
  BY <1>0, <1>1, <1>10, <1>11, <1>12 DEF Good, World, new

(* q3 and the first part of q7. *)
LEMMA Q3Orderly ==
  ASSUME NodeInv, ConnInv, JoinInv, nodes \in SUBSET Node, nodes' = nodes, NEW n \in Node, q3(n)
  PROVE  JoinInv'
<1> DEFINE s == self_data[n]
           first == [s EXCEPT !.pc = "q6", !.range_start = 0, !.range_end = HASH_SIZE - 1]
           other == [s EXCEPT !.pc = "q7"]
           join == [type |-> "NET_JOIN", src |-> n, max_span |-> 0, max |-> NULL]
<1>1. PICK d \in net.udp :
        /\ d.dst = n /\ s.pc = "q3"
        /\ LET nt == [net EXCEPT !.udp = @ \ {d}]
           IN  IF d.pdu.type # "NET_GET_NODE_RESPONSE" THEN exit_with_error(n, nt)
               ELSE IF d.pdu.node = NULL THEN Continue(n, first, nt)
               ELSE Continue(n, other, SendUdp(nt, d.pdu.node, join))
  BY DEF q3
<1> DEFINE nt == [net EXCEPT !.udp = @ \ {d}]
<1>2. Calm(net) /\ s \in SelfData /\ Seat(s) /\ Own(n, s)
  BY RestFacts
<1>3. Calm(nt) /\ nt.fwd = net.fwd /\ nt.backlog = net.backlog /\ nt.udp = net.udp \ {d} /\ Letter(self_data, d)
  BY <1>2, DatagramRead
<1>4. d.pdu.type = "NET_GET_NODE_RESPONSE"
  BY <1>1, <1>3 DEF Letter, Inside
<1>5. /\ d.pdu.node # NULL => d.pdu.node \in nodes
      /\ d.pdu.node = NULL => nodes = {}
  BY <1>1, <1>2, <1>4 DEF Calm, Table
<1>6. /\ ~s.succ_socket /\ ~s.pred_socket /\ s.succ_fd = NULL /\ s.pred_fd = NULL
  BY <1>1, <1>2 DEF Seat, Own, Young, Inside
<1>7. /\ Good(self_data, nt) /\ Ends(self_data, nt, NULL, NULL) /\ Table(self_data, nt, nodes) /\ nt \in Net
      /\ self_data \in [Node -> SelfData]
  BY <1>3 DEF Calm, Kernel, World
<1>8. CASE d.pdu.node = NULL
  <2> DEFINE new == [self_data EXCEPT ![n] = first]
  <2>1. Continue(n, first, nt)
    BY <1>1, <1>4, <1>8
  <2>2. /\ first \in SelfData /\ first.pc = "q6" /\ first.range_start = 0 /\ first.range_end = HASH_SIZE - 1
        /\ ~first.succ_socket /\ ~first.pred_socket /\ first.succ_fd = NULL /\ first.pred_fd = NULL
    BY <1>2, <1>6, ByteFacts DEF SelfData, PC
  <2> HIDE DEF first, nt
  <2>3. Good(new, nt) /\ Table(new, nt, {})
    BY <1>1, <1>5, <1>6, <1>7, <1>8, <2>2, FirstGood DEF Whole
  <2>4. self_data' = new /\ net' = nt /\ nodes' = {}
    BY <1>5, <1>8, <2>1 DEF Continue
  <2> HIDE DEF new
  <2> QED
    BY <2>3, <2>4 DEF JoinInv, Good
<1>9. CASE d.pdu.node # NULL
  <2> DEFINE m == d.pdu.node
             new == [self_data EXCEPT ![n] = other]
             D == nt.udp \cup {[dst |-> m, pdu |-> join]}
             k == [nt EXCEPT !.udp = D]
  <2>1. Continue(n, other, SendUdp(nt, m, join)) /\ m \in nodes /\ m \in Node
    BY <1>1, <1>4, <1>5, <1>9
  <2>2. Inside(self_data[m]) /\ nodes # {}
    BY <1>7, <2>1 DEF Table
  <2>3. SendUdp(nt, m, join) = k
    BY <2>2 DEF SendUdp, Running, Inside
  <2>4. /\ other \in SelfData /\ other.pc = "q7" /\ ~other.succ_socket /\ ~other.pred_socket
        /\ other.pred_fd = s.pred_fd
    BY <1>2, <1>6 DEF SelfData, PC
  <2>5. /\ join \in PDU /\ join.type = "NET_JOIN" /\ join.src = n /\ join.max = NULL
    BY ByteFacts DEF PDU
  <2> HIDE DEF other, join, nt
  <2>6. Good(new, nt)
    BY <1>1, <1>7, <2>4, OutsideGood DEF Inside
  <2>7. new[n] = other /\ \A p \in Node : p # n => new[p] = self_data[p]
    BY <1>7
  <2> HIDE DEF new
  <2>8. nt.backlog[n] = <<>>
    <3>1. ASSUME nt.backlog[n] # <<>> PROVE FALSE
      <4> DEFINE w == nt.backlog[n]
                 c == Head(w)
      <4>1. w \in Seq(Conn) /\ w # <<>>
        BY <1>7, <3>1, NetFields
      <4> HIDE DEF w
      <4>2. c \in Conn /\ c \in Range(w)
        BY <4>1, StreamRange
      <4>3. c.to = n
        BY <1>7, <4>2 DEF Ends, w
      <4>4. nt.fwd[c] \in Seq(PDU) /\ nt.fwd[c] # <<>> /\ Head(nt.fwd[c]).type = "NET_JOIN_RESPONSE"
        BY <1>1, <1>3, <1>7, <3>1, <4>2, NetFields DEF w, Calm, Kernel, Greets, Greeted, Young
      <4>5. 1 \in DOMAIN nt.fwd[c] /\ nt.fwd[c][1].type = "NET_JOIN_RESPONSE"
        BY <4>4
      <4>6. self_data[c.to].pc = "q7"
        BY <1>7, <4>2, <4>5 DEF Good, Order, Response
      <4> QED
        BY <1>1, <4>3, <4>6
    <3> QED
      BY <3>1
  <2>9. Silent(nt, n)
    <3>1. \A c \in Conn : ~Asks(nt.fwd[c], n)
      <4> SUFFICES ASSUME NEW c \in Conn, NEW i \in DOMAIN nt.fwd[c], JoinOf(nt.fwd[c][i], n) PROVE FALSE
        BY DEF Asks
      <4>1. nt.fwd[c][i] \in Range(nt.fwd[c])
        BY DEF Range
      <4>2. Asking(self_data, nt, nt.fwd[c][i])
        BY <1>7, <4>1 DEF Good, Order
      <4> QED
        BY <1>1, <4>2 DEF Asking, JoinOf
    <3>2. \A e \in nt.udp : ~JoinOf(e.pdu, n)
      BY <1>1, <1>7 DEF Good, Order, Asking, JoinOf
    <3> QED
      BY <3>1, <3>2 DEF Silent
  <2>10. D \in SUBSET [dst : Node \cup {Client}, pdu : PDU]
    BY <1>7, <2>1, <2>5, NetFields
  <2>11. \A e \in D : e \in nt.udp \/ (e.dst = m /\ e.pdu = join)
    OBVIOUS
  <2>12. Asking(new, nt, join) /\ Inside(new[m])
    <3>1. m # n
      BY <1>1, <2>2 DEF Inside
    <3> QED
      BY <2>1, <2>2, <2>4, <2>5, <2>7, <2>8, <3>1 DEF Asking
  <2>13. \A e \in D : Asking(new, nt, e.pdu) /\ Letter(new, e)
    <3>1. \A e \in nt.udp : Asking(new, nt, e.pdu) /\ Letter(new, e)
      BY <2>6 DEF Good, Order
    <3>2. ASSUME NEW e \in D, e.dst = m, e.pdu = join PROVE Letter(new, e)
      BY <2>5, <2>12, <3>2 DEF Letter, Letters, Inside
    <3> QED
      BY <2>11, <2>12, <3>1, <3>2
  <2>14. \A p \in Node : /\ \A e, f \in D : JoinOf(e.pdu, p) /\ JoinOf(f.pdu, p) => e = f
                         /\ \A c \in Conn, e \in D : ~(Asks(nt.fwd[c], p) /\ JoinOf(e.pdu, p))
    <3> SUFFICES ASSUME NEW p \in Node
                 PROVE  /\ \A e, f \in D : JoinOf(e.pdu, p) /\ JoinOf(f.pdu, p) => e = f
                        /\ \A c \in Conn, e \in D : ~(Asks(nt.fwd[c], p) /\ JoinOf(e.pdu, p))
      OBVIOUS
    <3>1. Once(nt, p)
      BY <1>7 DEF Good, Order
    <3>2. JoinOf(join, p) => p = n
      BY <2>5 DEF JoinOf
    <3>3. CASE p = n
      BY <2>9, <2>11, <3>3 DEF Silent
    <3>4. CASE p # n
      BY <2>11, <3>1, <3>2, <3>4 DEF Once
    <3> QED
      BY <3>3, <3>4
  <2>15. k.udp = D
    BY <1>7 DEF Net
  <2> HIDE DEF D
  <2>16. Good(new, k)
    BY <2>6, <2>10, <2>13, <2>14, DatagramsGood
  <2>17. Table(new, k, nodes)
    <3>1. /\ \A p \in nodes : Inside(new[p])
          /\ \A p \in Node : new[p].pc = "q7" => nodes # {}
      BY <1>1, <1>7, <2>2, <2>7 DEF Table, Inside
    <3>2. ASSUME NEW e \in D, e.pdu.type = "NET_GET_NODE_RESPONSE"
          PROVE  /\ e.pdu.node # NULL => e.pdu.node \in nodes
                 /\ e.pdu.node = NULL /\ e.dst \in Node => (new[e.dst].pc = "q3" => nodes = {})
      <4>1. e \in nt.udp
        BY <2>5, <2>11, <3>2
      <4> QED
        BY <1>7, <2>4, <2>7, <3>2, <4>1 DEF Table
    <3> QED
      BY <2>2, <2>15, <3>1, <3>2 DEF Table
  <2>18. self_data' = new /\ net' = k
    BY <2>1, <2>3 DEF Continue, new
  <2> HIDE DEF k
  <2> QED
    BY <2>16, <2>17, <2>18 DEF JoinInv, Good
<1> QED
  BY <1>8, <1>9

(* The second part of q7 and q8: the range that was on its way to n has
   arrived, and n connects to the node that follows it. *)
Enters(sd, nt, n, c, d, pdu, t, k) ==
  /\ sd[n].pc = "q7" /\ nt.backlog[n] # <<>> /\ Head(nt.backlog[n]) = c
  /\ nt.fwd[c] # <<>> /\ Head(nt.fwd[c]) = pdu /\ pdu.type = "NET_JOIN_RESPONSE"
  /\ d.from = n /\ d.to = pdu.next
  /\ t.pc = "q6" /\ t.succ_socket /\ t.pred_socket
  /\ t.pred_fd = c /\ t.succ_fd = d /\ t.succ_addr = pdu.next
  /\ t.range_start = pdu.range_start /\ t.range_end = pdu.range_end
  /\ k.bwd = nt.bwd /\ k.udp = nt.udp
  /\ k.backlog[n] = Tail(nt.backlog[n]) /\ k.backlog[d.to] = Append(nt.backlog[d.to], d)
  /\ \A p \in Node : p # n /\ p # d.to => k.backlog[p] = nt.backlog[p]
  /\ k.fwd[c] = Tail(nt.fwd[c]) /\ \A e \in Conn : e # c => k.fwd[e] = nt.fwd[e]

LEMMA EnterGood ==
  ASSUME NEW sd, NEW nt, Good(sd, nt), NEW x, Ends(sd, nt, x, NULL),
         NEW n \in Node, NEW c \in Conn, NEW d \in Conn, NEW pdu \in PDU, NEW t \in SelfData, NEW k \in Net,
         Enters(sd, nt, n, c, d, pdu, t, k)
  PROVE  Good([sd EXCEPT ![n] = t], k)
<1> USE DEF Enters
<1> DEFINE new == [sd EXCEPT ![n] = t]
           m == pdu.next
<1>0. sd \in [Node -> SelfData] /\ nt \in Net /\ nt.backlog \in [Node -> Seq(Conn)] /\ nt.fwd \in [Conn -> Seq(PDU)]
  BY NetFields DEF Good, World
<1>1. new \in [Node -> SelfData] /\ new[n] = t /\ \A p \in Node : p # n => new[p] = sd[p]
  BY <1>0
<1> HIDE DEF new
<1>2. /\ \A p \in Node : Seat(sd[p])
      /\ \A e \in Conn : Holds(sd, nt, e) => Inside(sd[e.from])
      /\ \A p \in Node : Link(sd, nt, sd[p]) /\ Alone(sd, nt, p)
      /\ \A e \in Conn : OnlyTraffic(nt, e)
      /\ \A e \in Conn : \A i \in DOMAIN nt.fwd[e] : Response(sd, nt, e, i)
      /\ \A e \in Conn : \A p \in Range(nt.fwd[e]) : Asking(sd, nt, p)
      /\ \A e \in nt.udp : Asking(sd, nt, e.pdu) /\ Letter(sd, e)
      /\ \A p \in Node : Once(nt, p)
  BY DEF Good, Order
<1>3. /\ nt.backlog[n] \in Seq(Conn) /\ nt.fwd[c] \in Seq(PDU) /\ m \in Node /\ m # n
      /\ nt.backlog[m] \in Seq(Conn)
  BY <1>0, ConnFields
<1>4. /\ Range(nt.backlog[n]) = Range(k.backlog[n]) \cup {c} /\ c.to = n /\ c # d
      /\ Range(nt.fwd[c]) = Range(k.fwd[c]) \cup {pdu}
  <2>1. Range(nt.backlog[n]) = Range(k.backlog[n]) \cup {c}
    BY <1>3, StreamRange
  <2>2. c.to = n
    BY <2>1 DEF Ends
  <2>3. Range(nt.fwd[c]) = Range(k.fwd[c]) \cup {pdu}
    BY <1>3, StreamRange
  <2> QED
    BY <1>3, <2>1, <2>2, <2>3
<1>5. Range(k.backlog[m]) = Range(nt.backlog[m]) \cup {d}
  BY <1>3, QueueAppend
<1>6. ASSUME NEW p \in Node, p # n, nt.backlog[p] # <<>>
      PROVE  /\ Head(nt.backlog[p]) \in Conn /\ Head(nt.backlog[p]).to = p
             /\ k.backlog[p] # <<>> /\ Head(k.backlog[p]) = Head(nt.backlog[p])
  <2>1. nt.backlog[p] \in Seq(Conn)
    BY <1>0
  <2>2. Head(nt.backlog[p]) \in Range(nt.backlog[p]) /\ Head(nt.backlog[p]) \in Conn
    BY <1>6, <2>1, StreamRange
  <2>3. Head(nt.backlog[p]).to = p
    BY <2>2 DEF Ends
  <2>4. CASE p = m
    <3>1. Append(nt.backlog[p], d) # <<>> /\ Head(Append(nt.backlog[p], d)) = Head(nt.backlog[p])
      BY <1>6, <2>1, QueueAppend
    <3>2. k.backlog[p] = Append(nt.backlog[p], d)
      BY <2>4
    <3> QED
      BY <2>2, <2>3, <3>1, <3>2
  <2>5. CASE p # m
    BY <1>6, <2>2, <2>3, <2>5
  <2> QED
    BY <2>4, <2>5
<1>7. /\ Len(nt.fwd[c]) \in Nat \ {0} /\ DOMAIN nt.fwd[c] = 1 .. Len(nt.fwd[c]) /\ nt.fwd[c][1] = pdu
      /\ DOMAIN Tail(nt.fwd[c]) = 1 .. Len(nt.fwd[c]) - 1
      /\ \A i \in 1 .. Len(nt.fwd[c]) - 1 : Tail(nt.fwd[c])[i] = nt.fwd[c][i + 1] /\ i + 1 \in DOMAIN nt.fwd[c]
  BY <1>3
<1>8. pdu.range_start > 0 /\ Follows(sd, nt, m, pdu.range_end)
  <2>1. 1 \in DOMAIN nt.fwd[c]
    BY <1>7
  <2>2. Response(sd, nt, c, 1)
    BY <1>2, <2>1
  <2> QED
    BY <1>7, <2>2 DEF Response
<1>9. \A i \in DOMAIN k.fwd[c] : k.fwd[c][i].type # "NET_JOIN_RESPONSE"
  <2> SUFFICES ASSUME NEW i \in 1 .. Len(nt.fwd[c]) - 1, nt.fwd[c][i + 1].type = "NET_JOIN_RESPONSE" PROVE FALSE
    BY <1>7
  <2>1. Response(sd, nt, c, i + 1)
    BY <1>2, <1>7
  <2>2. i + 1 = 1 /\ i \in Nat /\ i >= 1
    BY <1>7, <2>1 DEF Response
  <2> QED
    BY <2>2
<1>10. /\ ~Inside(sd[n]) /\ Inside(t) /\ sd[n].pred_fd = NULL
       /\ pdu.range_start \in Byte /\ pdu.range_end \in Byte /\ t.pred_fd # NULL
  <2>1. Own(n, sd[n])
    BY DEF Ends
  <2>2. t.range_start \in Byte /\ t.range_end \in Byte
    BY SelfDataFields
  <2>3. c # NULL
    BY SocketsAssumption
  <2> QED
    BY <2>1, <2>2, <2>3 DEF Own, Young, Inside
<1>11. \A p \in Node : p # n => (Inside(new[p]) <=> Inside(sd[p]))
  BY <1>1
<1>12. ASSUME NEW p \in Node, Expected(sd, nt, p)
       PROVE  Expected(new, k, p) /\ StartOf(new, k, p) = StartOf(sd, nt, p)
  <2>1. CASE p = n
    BY <1>1, <1>10, <2>1 DEF Expected, StartOf
  <2>2. CASE p # n /\ Inside(sd[p])
    BY <1>1, <2>2 DEF Expected, StartOf
  <2>3. CASE p # n /\ ~Inside(sd[p])
    <3>1. sd[p].pc = "q7" /\ nt.backlog[p] # <<>> /\ new[p] = sd[p]
      BY <1>1, <1>12, <2>3 DEF Expected
    <3>2. /\ k.backlog[p] # <<>> /\ Head(k.backlog[p]) = Head(nt.backlog[p])
          /\ k.fwd[Head(k.backlog[p])] = nt.fwd[Head(nt.backlog[p])]
      BY <1>4, <1>6, <2>3, <3>1
    <3> QED
      BY <2>3, <3>1, <3>2 DEF Expected, StartOf
  <2> QED
    BY <2>1, <2>2, <2>3
<1>13. \A p, e : Follows(sd, nt, p, e) => Follows(new, k, p, e)
  BY <1>12, FollowsKept DEF Steady
<1>14. \A e \in Conn : Holds(new, k, e) <=> Holds(sd, nt, e) \/ e = d
  <2> SUFFICES ASSUME NEW e \in Conn PROVE Holds(new, k, e) <=> Holds(sd, nt, e) \/ e = d
    OBVIOUS
  <2>0. e.to \in Node /\ e # NULL
    BY ConnFields, SocketsAssumption
  <2>1. CASE e.to = n
    <3>1. e # d /\ new[n].pred_fd = c /\ sd[n].pred_fd # e
      BY <1>1, <1>3, <1>10, <2>0, <2>1
    <3>2. e \in Range(nt.backlog[n]) <=> e \in Range(k.backlog[n]) \/ e = c
      BY <1>4
    <3> QED
      BY <2>1, <3>1, <3>2 DEF Holds
  <2>2. CASE e.to = m
    <3>1. new[m].pred_fd = sd[m].pred_fd
      BY <1>1, <1>3
    <3>2. e \in Range(k.backlog[m]) <=> e \in Range(nt.backlog[m]) \/ e = d
      BY <1>5
    <3>3. Holds(new, k, e) <=> new[m].pred_fd = e \/ e \in Range(k.backlog[m])
      BY ONLY <2>2 DEF Holds
    <3>4. Holds(sd, nt, e) <=> sd[m].pred_fd = e \/ e \in Range(nt.backlog[m])
      BY ONLY <2>2 DEF Holds
    <3> QED
      BY ONLY <3>1, <3>2, <3>3, <3>4
  <2>3. CASE e.to # n /\ e.to # m
    BY <1>1, <2>0, <2>3 DEF Holds
  <2> QED
    BY <2>1, <2>2, <2>3
<1>15. \A e \in Conn : Holds(new, k, e) => Inside(new[e.from])
  <2> SUFFICES ASSUME NEW e \in Conn, Holds(new, k, e) PROVE Inside(new[e.from])
    OBVIOUS
  <2>1. e.from = n \/ Inside(sd[e.from])
    BY <1>2, <1>14
  <2> QED
    BY <1>1, <1>10, <1>11, <2>1, ConnFields
<1>16. \A p \in Node : Seat(new[p])
  <2>1. ~Whole(t)
    BY <1>8, <1>10, ByteFacts DEF Whole
  <2>2. Seat(t)
    BY <1>10, <2>1 DEF Seat, Inside
  <2> QED
    BY <1>1, <1>2, <2>2
<1>17. \A p \in Node : Link(new, k, new[p])
  <2> SUFFICES ASSUME NEW p \in Node, new[p].succ_socket PROVE Link(new, k, new[p])
    BY DEF Link
  <2>1. CASE p = n
    <3>1. Holds(new, k, d) /\ d # NULL
      BY <1>14, SocketsAssumption
    <3>2. Follows(new, k, m, t.range_end)
      BY <1>8, <1>13
    <3> QED
      BY <1>1, <2>1, <3>1, <3>2 DEF Link
  <2>2. CASE p # n
    <3>1. Link(sd, nt, sd[p]) /\ new[p] = sd[p] /\ sd[p].succ_fd \in Conn \cup {NULL}
      BY <1>0, <1>1, <1>2, <2>2, SelfDataFields
    <3> QED
      BY <1>13, <1>14, <3>1 DEF Link
  <2> QED
    BY <2>1, <2>2
<1>18. \A p \in Node : Alone(new, k, p)
  <2> SUFFICES ASSUME NEW p \in Node, Inside(new[p]), ~new[p].succ_socket PROVE FALSE
    BY DEF Alone
  <2>1. p # n /\ new[p] = sd[p]
    BY <1>1
  <2> QED
    BY <1>2, <2>1 DEF Alone
<1>19. \A e \in Conn : OnlyTraffic(k, e)
  BY <1>2, <1>4 DEF OnlyTraffic
<1>20. \A e \in Conn : \A i \in DOMAIN k.fwd[e] : Response(new, k, e, i)
  <2> SUFFICES ASSUME NEW e \in Conn, NEW i \in DOMAIN k.fwd[e], k.fwd[e][i].type = "NET_JOIN_RESPONSE"
               PROVE  Response(new, k, e, i)
    BY DEF Response
  <2>1. e # c
    BY <1>9
  <2>2. k.fwd[e] = nt.fwd[e] /\ Response(sd, nt, e, i) /\ e.to \in Node
    BY <1>2, <2>1, ConnFields
  <2>3. e.to # n /\ nt.backlog[e.to] # <<>> /\ Head(nt.backlog[e.to]) = e
    BY <2>1, <2>2 DEF Response
  <2>4. new[e.to] = sd[e.to] /\ k.backlog[e.to] # <<>> /\ Head(k.backlog[e.to]) = e
    BY <1>1, <1>6, <2>2, <2>3
  <2> QED
    BY <1>13, <2>2, <2>4 DEF Response
<1>21. \A p \in PDU : Asking(sd, nt, p) => Asking(new, k, p)
  <2> SUFFICES ASSUME NEW p \in PDU, p.type = "NET_JOIN", Asking(sd, nt, p) PROVE Asking(new, k, p)
    BY DEF Asking
  <2>1. p.src \in Node /\ p.max \in Node \cup {NULL} /\ sd[p.src].pc = "q7" /\ nt.backlog[p.src] = <<>>
    BY JoinFields DEF Asking
  <2>2. p.src # n /\ p.src # m
    BY <1>8, <2>1 DEF Follows, Expected, Inside
  <2>3. p.max # NULL => p.max # n /\ Inside(sd[p.max]) /\ Divisible(sd[p.max])
    BY <1>10 DEF Asking
  <2>4. new[p.src].pc = "q7" /\ k.backlog[p.src] = <<>>
    BY <1>1, <2>1, <2>2
  <2>5. p.max # NULL => Inside(new[p.max]) /\ Divisible(new[p.max])
    BY <1>1, <2>1, <2>3
  <2> QED
    BY <2>4, <2>5 DEF Asking
<1>22. (\A e \in Conn : Range(nt.fwd[e]) \subseteq PDU) /\ \A e \in nt.udp : e.pdu \in PDU
  BY ONLY <1>0, NetFields DEF Range
<1>23. \A e \in Conn : \A p \in Range(k.fwd[e]) : Asking(new, k, p)
  <2> SUFFICES ASSUME NEW e \in Conn, NEW p \in Range(k.fwd[e]) PROVE Asking(new, k, p)
    OBVIOUS
  <2>1. p \in Range(nt.fwd[e])
    BY <1>4
  <2> QED
    BY <1>2, <1>21, <1>22, <2>1
<1>24. \A e \in k.udp : Asking(new, k, e.pdu) /\ Letter(new, e)
  <2> SUFFICES ASSUME NEW e \in nt.udp PROVE Asking(new, k, e.pdu) /\ Letter(new, e)
    OBVIOUS
  <2>1. Asking(sd, nt, e.pdu) /\ Letter(sd, e)
    BY <1>2
  <2>2. Letter(new, e)
    BY <1>1, <1>10, <2>1 DEF Letter
  <2> QED
    BY <1>21, <1>22, <2>1, <2>2
<1>25. \A p \in Node : Once(k, p)
  <2> SUFFICES ASSUME NEW p \in Node PROVE Once(k, p)
    OBVIOUS
  <2>1. Once(nt, p)
    BY <1>2
  <2>2. /\ Asks(k.fwd[c], p) => Asks(nt.fwd[c], p)
        /\ AsksOnce(nt.fwd[c], p) => AsksOnce(k.fwd[c], p)
    BY <1>3, AsksTail
  <2>3. \A e \in Conn : AsksOnce(k.fwd[e], p) /\ (Asks(k.fwd[e], p) => Asks(nt.fwd[e], p))
    BY <2>1, <2>2 DEF Once
  <2> QED
    BY <2>1, <2>3 DEF Once
<1>26. Order(new, k)
  BY <1>15, <1>16, <1>17, <1>18, <1>19, <1>20, <1>23, <1>24, <1>25 DEF Order
<1>27. Shares(new, k)
  <2> SUFFICES ASSUME NEW h \in Byte PROVE OneHolder(new, k, h)
    BY DEF Shares
  <2>1. OneHolder(sd, nt, h)
    <3>1. Inside(sd[c.from]) /\ c.from \in Node
      BY <1>2, <1>4, ConnFields DEF Holds
    <3> QED
      BY <3>1 DEF Good, Shares
  <2>2. (Owns(new, h, n) <=> Brings(nt, h, c)) /\ ~Owns(sd, h, n)
    BY <1>1, <1>10 DEF Owns, Brings
  <2>3. \A p \in Node : p # n => (Owns(new, h, p) <=> Owns(sd, h, p))
    BY <1>1 DEF Owns
  <2>4. ~Brings(k, h, c)
    <3>1. ASSUME k.fwd[c] # <<>> PROVE Head(k.fwd[c]).type # "NET_JOIN_RESPONSE"
      <4>1. k.fwd[c] \in Seq(PDU)
        BY NetFields
      <4>2. 1 \in DOMAIN k.fwd[c] /\ Head(k.fwd[c]) = k.fwd[c][1]
        BY <3>1, <4>1
      <4> QED
        BY <1>9, <4>2
    <3> QED
      BY <3>1 DEF Brings
  <2>5. \A e \in Conn : e # c => (Brings(k, h, e) <=> Brings(nt, h, e))
    BY DEF Brings
  <2> QED
    BY <2>1, <2>2, <2>3, <2>4, <2>5 DEF OneHolder
<1> QED
  BY <1>0, <1>1, <1>26, <1>27 DEF Good, World, new

LEMMA Q7Orderly ==
  ASSUME JoinOnly, NodeInv, ConnInv, JoinInv, nodes \in SUBSET Node, nodes' = nodes, NEW n \in Node, q7(n)
  PROVE  JoinInv'
<1> DEFINE c == Head(net.backlog[n])
           pdu == Head(net.fwd[c])
           nt == [net EXCEPT !.backlog[n] = Tail(@), !.fwd[c] = Tail(@)]
           d == NewConn(n, pdu.next)
           s == [self_data[n] EXCEPT
                    !.pc = "q6", !.pred_socket = TRUE, !.pred_fd = c,
                    !.range_start = pdu.range_start, !.range_end = pdu.range_end]
           t == ConnectedTo(s, pdu.next, d)
           k == Connect(nt, d)
           new == [self_data EXCEPT ![n] = t]
<1>1. self_data[n].pc = "q7" /\ net.backlog[n] # <<>> /\ net.fwd[c] # <<>>
  BY DEF q7
<1>2. /\ Calm(net) /\ self_data[n] \in SelfData /\ net \in Net /\ self_data \in [Node -> SelfData]
      /\ net.backlog \in [Node -> Seq(Conn)] /\ net.fwd \in [Conn -> Seq(PDU)]
  BY RestFacts, NetFields DEF NodeInv
<1>3. c \in Conn /\ c \in Range(net.backlog[n]) /\ Tail(net.backlog[n]) \in Seq(Conn)
  <2>1. net.backlog[n] \in Seq(Conn)
    BY <1>2
  <2> QED
    BY <1>1, <2>1, StreamRange
<1>4. net.fwd[c] \in Seq(PDU) /\ pdu \in PDU /\ Tail(net.fwd[c]) \in Seq(PDU)
  BY <1>1, <1>2, <1>3
<1>5. pdu.type = "NET_JOIN_RESPONSE"
  BY <1>1 DEF ConnInv, Greets, Greeted, Young
<1>6. Follows(self_data, net, pdu.next, pdu.range_end)
  <2>1. 1 \in DOMAIN net.fwd[c] /\ net.fwd[c][1] = pdu
    BY <1>1, <1>4
  <2>2. Response(self_data, net, c, 1)
    BY <1>3, <2>1 DEF JoinInv, Order
  <2> QED
    BY <1>5, <2>1, <2>2 DEF Response
<1>7. pdu.next \in Node /\ self_data[pdu.next].pc \in {"q3", "q7", "q6", "accept"}
  BY <1>6 DEF Follows, Expected, Inside
<1>8. ConnectSucceeds(nt, n, c, pdu.next) = {TRUE}
  BY <1>7, Connects
<1>9. Unused(n, pdu.next) # {} /\ Continue(n, t, k)
  <2>1. \E connected \in ConnectSucceeds(nt, n, c, pdu.next) :
            IF ~connected THEN exit_with_error(n, nt)
            ELSE Unused(n, pdu.next) # {} /\ Continue(n, t, k)
    BY <1>5 DEF q7
  <2> QED
    BY <1>8, <2>1
<1>10. /\ nt.fwd = [net.fwd EXCEPT ![c] = Tail(@)] /\ nt.bwd = net.bwd /\ nt.udp = net.udp
       /\ nt.backlog = [net.backlog EXCEPT ![n] = Tail(@)] /\ nt \in Net
  BY <1>2, <1>3, <1>4 DEF Net
<1>11. d = NewConn(n, pdu.next)
  OBVIOUS
<1> HIDE DEF c, pdu, nt, d
<1>12. d \in Conn /\ d.from = n /\ d.to = pdu.next
  BY <1>7, <1>9, <1>11, Opened
<1>13. d.to # n /\ d.to \in Node
  BY <1>12, ConnFields
<1>14. /\ k.fwd = nt.fwd /\ k.bwd = net.bwd /\ k.udp = net.udp
       /\ k.backlog = [nt.backlog EXCEPT ![d.to] = Append(@, d)] /\ k \in Net
  <2>1. k \in Net
    BY <1>10, <1>12, ConnectType
  <2> QED
    BY <1>10, <2>1 DEF Connect, Net
<1> HIDE DEF k
<1>15. /\ k.fwd[c] = Tail(net.fwd[c]) /\ \A e \in Conn : e # c => k.fwd[e] = net.fwd[e]
  BY <1>2, <1>3, <1>10, <1>14
<1>16. /\ k.backlog[n] = Tail(net.backlog[n]) /\ k.backlog[d.to] = Append(net.backlog[d.to], d)
       /\ \A p \in Node : p # n /\ p # d.to => k.backlog[p] = net.backlog[p]
  BY <1>2, <1>10, <1>13, <1>14
<1>17. pdu.range_start \in Byte /\ pdu.range_end \in Byte
  BY <1>4, <1>5, PDUFields
<1>18. /\ s \in SelfData /\ s.pc = "q6" /\ s.pred_fd = c /\ s.pred_socket
       /\ s.range_start = pdu.range_start /\ s.range_end = pdu.range_end
  <2>1. "q6" \in PC
    BY DEF PC
  <2> QED
    BY <1>2, <1>3, <1>17, <2>1 DEF SelfData
<1> HIDE DEF s
<1>19. /\ t \in SelfData /\ t.succ_fd = d /\ t.succ_addr = pdu.next /\ t.succ_socket
       /\ t.pred_fd = c /\ t.pred_socket /\ t.pc = "q6"
       /\ t.range_start = pdu.range_start /\ t.range_end = pdu.range_end
  BY <1>7, <1>12, <1>18 DEF ConnectedTo, SelfData
<1> HIDE DEF t
<1>20. c = Head(net.backlog[n]) /\ pdu = Head(net.fwd[c])
  BY DEF c, pdu
<1>21. Enters(self_data, net, n, c, d, pdu, t, k)
  BY <1>1, <1>5, <1>12, <1>14, <1>15, <1>16, <1>19, <1>20 DEF Enters
<1>22. Good(self_data, net) /\ Ends(self_data, net, NULL, NULL) /\ Table(self_data, net, nodes)
  BY <1>2 DEF Calm, Kernel
<1>23. Good(new, k)
  BY <1>3, <1>4, <1>12, <1>14, <1>19, <1>21, <1>22, EnterGood
<1>24. new[n] = t /\ \A p \in Node : p # n => new[p] = self_data[p]
  BY <1>2
<1>25. self_data' = new /\ net' = k
  BY <1>9 DEF Continue
<1> HIDE DEF new
<1>26. \A p \in Node : /\ Inside(self_data[p]) => Inside(new[p])
                       /\ new[p].pc # "off" => self_data[p].pc # "off"
                       /\ new[p].pc \in {"q3", "q7"} => self_data[p].pc = new[p].pc
  BY <1>1, <1>19, <1>24 DEF Inside
<1>27. Table(new, k, nodes)
  BY <1>14, <1>22, <1>26, TableKept
<1> QED
  BY <1>23, <1>25, <1>27 DEF JoinInv, Good

(* A step of a process. *)
LEMMA NodeStepOrderly ==
  ASSUME JoinOnly, NodeInv, ConnInv, JoinInv, nodes \in SUBSET Node, nodes' = nodes, NEW n \in Node, NodeStep(n)
  PROVE  JoinInv'
  BY Q3Orderly, Q7Orderly, AcceptOrderly, PollOrderly, NeverEnds DEF NodeStep

(***************************************************************************)
(* The tracker and the client.                                             *)
(***************************************************************************)

(* The tracker hears of a node, which is inside. *)
LEMMA NetAliveOrderly ==
  ASSUME NodeInv, ConnInv, JoinInv, nodes \in SUBSET Node, NEW n \in Node, NetAlive(n)
  PROVE  JoinInv'
<1> DEFINE T == nodes \cup {n}
<1>1. self_data' = self_data /\ net' = net /\ nodes' = T /\ Calm(net) /\ Seat(self_data[n])
  BY RestFacts DEF NetAlive
<1>2. Inside(self_data[n])
  BY <1>1 DEF NetAlive, Seat, Inside
<1>3. Table(self_data, net, nodes)
  BY DEF JoinInv
<1>4. ASSUME NEW d \in net.udp, d.pdu.type = "NET_GET_NODE_RESPONSE"
      PROVE  /\ d.pdu.node # NULL => d.pdu.node \in T
             /\ d.pdu.node = NULL /\ d.dst \in Node => (self_data[d.dst].pc = "q3" => T = {})
  <2>1. d.pdu.node # NULL => d.pdu.node \in T
    BY <1>3, <1>4 DEF Table
  <2>2. ASSUME d.pdu.node = NULL, d.dst \in Node, self_data[d.dst].pc = "q3" PROVE FALSE
    <3>1. nodes = {}
      BY <1>3, <1>4, <2>2 DEF Table
    <3>2. d.dst = n
      BY <1>2, <1>3, <2>2, <3>1 DEF Table, Inside
    <3> QED
      BY <1>2, <2>2, <3>2 DEF Inside
  <2> QED
    BY <2>1, <2>2
<1>5. Table(self_data, net, T)
  BY <1>2, <1>3, <1>4 DEF Table
<1> HIDE DEF T
<1> QED
  BY <1>1, <1>5 DEF JoinInv

(* A datagram other than NET_JOIN is sent. *)
LEMMA MailOrderly ==
  ASSUME NodeInv, ConnInv, JoinInv, nodes \in SUBSET Node, UNCHANGED <<self_data, nodes>>,
         NEW m \in Node \cup {Client}, NEW pdu \in PDU, pdu.type # "NET_JOIN", net' = SendUdp(net, m, pdu),
         Letter(self_data, [dst |-> m, pdu |-> pdu]),
         pdu.type = "NET_GET_NODE_RESPONSE" => IF nodes = {} THEN pdu.node = NULL ELSE pdu.node \in nodes
  PROVE  JoinInv'
<1> DEFINE e == [dst |-> m, pdu |-> pdu]
           D == net.udp \cup {e}
           k == [net EXCEPT !.udp = D]
<1>1. Calm(net) /\ net \in Net
  BY CalmAtRest DEF NodeInv
<1>2. Good(self_data, net) /\ Table(self_data, net, nodes)
  BY <1>1 DEF Calm
<1>3. D \in SUBSET [dst : Node \cup {Client}, pdu : PDU] /\ e.pdu = pdu /\ e.dst = m
  BY <1>1, NetFields
<1>4. Good(self_data, k)
  <2>1. \A d \in D : d \in net.udp \/ d = e
    OBVIOUS
  <2>2. \A d \in net.udp : Asking(self_data, net, d.pdu) /\ Letter(self_data, d)
    BY <1>2 DEF Good, Order
  <2>3. \A d \in D : Asking(self_data, net, d.pdu) /\ Letter(self_data, d)
    <3>1. Asking(self_data, net, pdu)
      BY DEF Asking
    <3> QED
      BY <1>3, <2>1, <2>2, <3>1
  <2>4. \A n \in Node : ~JoinOf(pdu, n)
    BY DEF JoinOf
  <2>5. \A n \in Node : /\ \A d, f \in D : JoinOf(d.pdu, n) /\ JoinOf(f.pdu, n) => d = f
                        /\ \A c \in Conn, d \in D : ~(Asks(net.fwd[c], n) /\ JoinOf(d.pdu, n))
    BY <1>2, <1>3, <2>1, <2>4 DEF Good, Order, Once
  <2> HIDE DEF D
  <2> QED
    BY <1>2, <1>3, <2>3, <2>5, DatagramsGood
<1>5. Table(self_data, k, nodes)
  <2>1. k.udp = D
    BY <1>1 DEF Net
  <2>2. ASSUME NEW d \in D, d.pdu.type = "NET_GET_NODE_RESPONSE"
        PROVE  /\ d.pdu.node # NULL => d.pdu.node \in nodes
               /\ d.pdu.node = NULL /\ d.dst \in Node => (self_data[d.dst].pc = "q3" => nodes = {})
    <3>1. CASE d \in net.udp
      BY <1>2, <2>2, <3>1 DEF Table
    <3>2. CASE d = e
      <4>1. NULL \notin nodes
        BY ConnFields
      <4> QED
        BY <1>3, <2>2, <3>2, <4>1
    <3> QED
      BY <3>1, <3>2
  <2> QED
    BY <1>2, <2>1, <2>2 DEF Table
<1>6. net' = k \/ net' = net
  BY DEF SendUdp
<1> HIDE DEF k
<1>7. self_data' = self_data /\ nodes' = nodes
  OBVIOUS
<1> QED
  BY <1>2, <1>4, <1>5, <1>6, <1>7 DEF JoinInv, Good

(***************************************************************************)
(* The inductive invariant is one.                                         *)
(***************************************************************************)
LEMMA InitOrderly == Init => JoinInv
<1> SUFFICES ASSUME Init PROVE JoinInv
  OBVIOUS
<1>1. /\ \A n \in Node : self_data[n] = Blank("off")
      /\ \A c \in Conn : net.fwd[c] = <<>> /\ net.bwd[c] = <<>>
      /\ \A n \in Node : net.backlog[n] = <<>>
      /\ net.udp = {} /\ nodes = {}
  BY DEF Init, QuietNet
<1>2. /\ Blank("off").pc = "off" /\ ~Blank("off").succ_socket /\ ~Blank("off").pred_socket
      /\ Blank("off").pred_fd = NULL
  BY DEF Blank
<1>3. Range(<<>>) = {} /\ DOMAIN <<>> = {}
  BY DEF Range
<1>4. \A n \in Node : Seat(self_data[n]) /\ ~Inside(self_data[n]) /\ Link(self_data, net, self_data[n])
  BY <1>1, <1>2 DEF Seat, Inside, Link
<1>5. \A n \in Node : Alone(self_data, net, n)
  BY <1>4 DEF Alone
<1>6. \A c \in Conn : ~Holds(self_data, net, c)
  BY <1>1, <1>2, <1>3, ConnFields DEF Holds
<1>7. \A n \in Node : Once(net, n)
  BY <1>1, AsksSimple DEF Once
<1>8. Order(self_data, net)
  BY <1>1, <1>3, <1>4, <1>5, <1>6, <1>7 DEF Order, OnlyTraffic
<1>9. Table(self_data, net, nodes)
  BY <1>1, <1>2 DEF Table
<1> QED
  BY <1>4, <1>8, <1>9 DEF JoinInv, Shares

LEMMA NextOrderly == JoinOnly /\ NodeInv /\ OthersInv /\ ConnInv /\ JoinInv /\ [Next]_vars => JoinInv'
<1> SUFFICES ASSUME JoinOnly, NodeInv, OthersInv, ConnInv, JoinInv, [Next]_vars PROVE JoinInv'
  OBVIOUS
<1>0. nodes \in SUBSET Node
  BY DEF OthersInv
<1>1. ASSUME NEW n \in Node, StartNode(n) PROVE JoinInv'
  BY <1>0, <1>1, StartOrderly
<1>2. ASSUME NEW n \in Node, set_shutdown(n) PROVE FALSE
  BY <1>2 DEF set_shutdown, JoinOnly
<1>3. ASSUME NEW n \in Node, RunNode(n) PROVE JoinInv'
  BY <1>0, <1>3, NodeStepOrderly DEF RunNode
<1>4. ASSUME NEW n \in Node, NodeFault(n) PROVE FALSE
  BY <1>4 DEF NodeFault, Timeout, Interrupted, SuccessorReset, PredecessorReset, JoinOnly
<1>5. ASSUME NEW n \in Node, NetAlive(n) PROVE JoinInv'
  BY <1>0, <1>5, NetAliveOrderly
<1>6. ASSUME NEW n \in Node, NodeTimeout(n) PROVE FALSE
  BY <1>6, RestFacts DEF NodeTimeout, Seat, JoinOnly
<1>7. ASSUME NEW n \in Node, NetGetNode(n) PROVE JoinInv'
  <2>1. PICK m \in IF nodes = {} THEN {NULL} ELSE nodes :
          net' = SendUdp(net, n, [type |-> "NET_GET_NODE_RESPONSE", node |-> m])
    BY <1>7 DEF NetGetNode
  <2> DEFINE pdu == [type |-> "NET_GET_NODE_RESPONSE", node |-> m]
             d == [dst |-> n, pdu |-> pdu]
  <2>2. m \in Node \cup {NULL} /\ (IF nodes = {} THEN m = NULL ELSE m \in nodes)
    BY <1>0
  <2>3. pdu \in PDU /\ pdu.type = "NET_GET_NODE_RESPONSE" /\ pdu.node = m
    BY <2>2, PDUTypes
  <2>4. net' = SendUdp(net, n, pdu) /\ UNCHANGED <<self_data, nodes>> /\ self_data[n].pc = "q3"
    BY <1>7, <2>1 DEF NetGetNode
  <2>5. Letter(self_data, d)
    BY <2>3, <2>4, SocketsAssumption DEF Letter, Letters
  <2> HIDE DEF pdu
  <2> QED
    BY <1>0, <2>2, <2>3, <2>4, <2>5, MailOrderly
<1>8. ASSUME NEW pdu \in PDU, pdu.type \in {"VAL_INSERT", "VAL_REMOVE", "VAL_LOOKUP"}, ClientSend(pdu)
      PROVE  JoinInv'
  <2>1. PICK n \in nodes : net' = SendUdp(net, n, pdu)
    BY <1>8 DEF ClientSend
  <2>2. n \in Node /\ Inside(self_data[n]) /\ UNCHANGED <<self_data, nodes>>
    BY <1>0, <1>8, <2>1 DEF ClientSend, JoinInv, Table
  <2>3. Letter(self_data, [dst |-> n, pdu |-> pdu])
    BY <1>8, <2>2 DEF Letter, Letters, Inside
  <2> QED
    BY <1>0, <1>8, <2>1, <2>2, <2>3, MailOrderly
<1>9. ASSUME ClientInsert \/ ClientRemove \/ ClientLookup PROVE JoinInv'
  <2>1. /\ \A k \in Key, v \in Value : [type |-> "VAL_INSERT", key |-> k, val |-> v] \in PDU
        /\ \A k \in Key : [type |-> "VAL_REMOVE", key |-> k] \in PDU
        /\ \A k \in Key : [type |-> "VAL_LOOKUP", key |-> k] \in PDU
    BY DEF PDU
  <2> QED
    BY <1>8, <1>9, <2>1 DEF ClientInsert, ClientRemove, ClientLookup
<1>10. ASSUME LoseDatagram PROVE FALSE
  BY <1>10 DEF LoseDatagram, JoinOnly
<1>11. ASSUME ClientReceive PROVE JoinInv'
  <2>1. PICK d \in net.udp : net' = [net EXCEPT !.udp = @ \ {d}]
    BY <1>11 DEF ClientReceive
  <2> DEFINE u == [net EXCEPT !.udp = @ \ {d}]
  <2>2. Calm(u)
    BY <1>0, CalmAtRest, DatagramRead
  <2>3. self_data' = self_data /\ nodes' = nodes /\ net' = u
    BY <1>11, <2>1 DEF ClientReceive
  <2> HIDE DEF u
  <2> QED
    BY <2>2, <2>3 DEF Calm, Good, JoinInv
<1>12. CASE UNCHANGED vars
  <2>1. self_data' = self_data /\ net' = net /\ nodes' = nodes
    BY <1>12 DEF vars
  <2> QED
    BY <2>1 DEF JoinInv
<1> QED
  BY <1>1, <1>2, <1>3, <1>4, <1>5, <1>6, <1>7, <1>9, <1>10, <1>11, <1>12 DEF Next

LEMMA JoinInvariance == JoinOnly => (Spec => [](NodeInv /\ OthersInv /\ ConnInv /\ JoinInv))
<1> SUFFICES ASSUME JoinOnly PROVE Spec => [](NodeInv /\ OthersInv /\ ConnInv /\ JoinInv)
  OBVIOUS
<1>1. Init => JoinInv
  BY InitOrderly
<1>2. NodeInv /\ OthersInv /\ ConnInv /\ JoinInv /\ [Next]_vars => JoinInv'
  BY NextOrderly
<1> QED
  BY <1>1, <1>2, InitGood, NextGood, InitKeeps, NextKeeps, PTL DEF Spec

(***************************************************************************)
(* What the invariant says about the network.                              *)
(***************************************************************************)

(* The offers of a range on a stream. *)
LEMMA OffersElement ==
  ASSUME NEW queues, NEW h, NEW x
  PROVE  x \in Offers(queues, h) <=>
           \E c \in Conn : \E j \in DOMAIN queues[c] :
               /\ queues[c][j].type \in {"NET_JOIN_RESPONSE", "NET_NEW_RANGE"}
               /\ InRange(h, queues[c][j].range_start, queues[c][j].range_end)
               /\ x = <<c, j>>
  BY DEF Offers

(* While nodes only join, every hash has exactly one holder at every moment:
   a node that serves it or the NET_JOIN_RESPONSE that hands it over, with any
   number of joins under way at any distance from each other.  That holds
   because handle_net_join splits a range only where it can be split: the node
   that NET_JOIN names as the largest still has a range of two hashes, or one
   that does not end at the last hash. *)
THEOREM RangesPartitioned == JoinOnly => (Spec => []RangesPartition)
<1>1. ASSUME NodeInv, JoinInv PROVE RangesPartition
  <2> SUFFICES ASSUME Serving # {}, NEW h \in Byte
               PROVE  Cardinality(Owners(h)) + Cardinality(Offers(net.fwd, h))
                          + Cardinality(Offers(net.bwd, h)) = 1
    BY DEF RangesPartition
  <2>1. OneHolder(self_data, net, h)
    BY <1>1 DEF JoinInv, Shares, Serving, Inside
  <2>2. \A n : n \in Owners(h) <=> n \in Node /\ Owns(self_data, h, n)
    BY DEF Owners, Serving, Owns, Inside
  <2>3. \A x : x \notin Offers(net.bwd, h)
    BY <1>1, OffersElement DEF JoinInv, Order, OnlyTraffic
  <2>4. \A x : x \in Offers(net.fwd, h) <=> \E c \in Conn : Brings(net, h, c) /\ x = <<c, 1>>
    <3>1. ASSUME NEW c \in Conn, NEW j \in DOMAIN net.fwd[c],
                 net.fwd[c][j].type \in {"NET_JOIN_RESPONSE", "NET_NEW_RANGE"},
                 InRange(h, net.fwd[c][j].range_start, net.fwd[c][j].range_end)
          PROVE  j = 1 /\ Brings(net, h, c)
      <4>1. net.fwd[c] \in Seq(PDU) /\ net.fwd[c][j] \in Range(net.fwd[c])
        BY <1>1, NetFields DEF NodeInv, Range
      <4>2. net.fwd[c][j].type = "NET_JOIN_RESPONSE" /\ j = 1
        BY <1>1, <3>1, <4>1 DEF JoinInv, Order, OnlyTraffic, Traffic, Response
      <4> QED
        BY <3>1, <4>1, <4>2 DEF Brings
    <3>2. ASSUME NEW c \in Conn, Brings(net, h, c)
          PROVE  /\ 1 \in DOMAIN net.fwd[c] /\ net.fwd[c][1].type = "NET_JOIN_RESPONSE"
                 /\ InRange(h, net.fwd[c][1].range_start, net.fwd[c][1].range_end)
      <4>1. net.fwd[c] \in Seq(PDU) /\ net.fwd[c] # <<>>
        BY <1>1, <3>2, NetFields DEF NodeInv, Brings
      <4>2. 1 \in DOMAIN net.fwd[c] /\ Head(net.fwd[c]) = net.fwd[c][1]
        BY <4>1
      <4> QED
        BY <3>2, <4>2 DEF Brings
    <3> QED
      BY <3>1, <3>2, OffersElement
  <2>5. Offers(net.bwd, h) = {} /\ Cardinality({}) = 0
    BY <2>3, FS_EmptySet
  <2>6. CASE \E n \in Node : Owns(self_data, h, n)
    <3>1. PICK n \in Node : Owns(self_data, h, n)
      BY <2>6
    <3>2. Owners(h) = {n} /\ Offers(net.fwd, h) = {}
      BY <2>1, <2>2, <2>4, <3>1 DEF OneHolder
    <3>3. /\ Cardinality(Owners(h)) = 1 /\ Cardinality(Offers(net.fwd, h)) = 0
          /\ Cardinality(Offers(net.bwd, h)) = 0
      BY <2>5, <3>2, FS_Singleton, Zenon
    <3> QED
      BY <3>3
  <2>7. CASE ~\E n \in Node : Owns(self_data, h, n)
    <3>1. PICK c \in Conn : Brings(net, h, c)
      BY <2>1, <2>7 DEF OneHolder
    <3>2. Owners(h) = {} /\ Offers(net.fwd, h) = {<<c, 1>>}
      BY <2>1, <2>2, <2>4, <2>7, <3>1 DEF OneHolder
    <3>3. /\ Cardinality(Owners(h)) = 0 /\ Cardinality(Offers(net.fwd, h)) = 1
          /\ Cardinality(Offers(net.bwd, h)) = 0
      BY <2>5, <3>2, FS_Singleton, Zenon
    <3> QED
      BY <3>3
  <2> QED
    BY <2>6, <2>7
<1> QED
  BY <1>1, JoinInvariance, PTL

(* While nodes only join, no process ends in exit_with_error: whoever is
   connected to runs, whoever must send has a successor, and q3 and q7 find
   the PDU they expect. *)
THEOREM NobodyFails == JoinOnly => (Spec => []NoErrorExit)
<1>1. JoinInv => NoErrorExit
  BY DEF JoinInv, Order, Seat, NoErrorExit
<1> QED
  BY <1>1, JoinInvariance, PTL

(* Whenever all joins have been handled, the members form a ring: each one's
   connection is the one its successor has accepted, and the ranges follow one
   another. *)
THEOREM RingCloses == JoinOnly => (Spec => []QuietRing)
<1>1. ASSUME NodeInv, ConnInv, JoinInv PROVE QuietRing
  <2> SUFFICES ASSUME Quiet, NEW n \in Members
               PROVE  LET s == self_data[n]
                      IN  IF Members = {n} THEN ~s.succ_socket /\ ~s.pred_socket
                          ELSE /\ s.succ_fd # NULL
                               /\ LET m == s.succ_fd.to
                                  IN  /\ m \in Members /\ m = s.succ_addr
                                      /\ self_data[m].pred_fd = s.succ_fd
                                      /\ self_data[m].range_start = u8(s.range_end + 1)
    BY DEF QuietRing
  <2> DEFINE s == self_data[n]
             c == s.succ_fd
  <2>1. n \in Node /\ s.pc = "q6"
    BY DEF Members
  <2>2. /\ Seat(s) /\ Own(n, s) /\ Link(self_data, net, s) /\ Alone(self_data, net, n)
        /\ s.succ_fd \in Conn \cup {NULL}
    BY <1>1, <2>1, RestFacts DEF JoinInv, Order
  <2>3. \A m \in Node : Inside(self_data[m]) => m \in Members
    BY DEF Quiet, Inside, Members
  <2>4. \A m \in Node : self_data[m].pc # "q7" /\ Range(net.backlog[m]) = {}
    BY DEF Quiet, QuietNet, Range
  <2>5. ASSUME s.succ_socket
        PROVE  /\ c # NULL /\ c.to = s.succ_addr /\ c.to \in Members /\ c.to # n
               /\ self_data[c.to].pred_fd = c /\ self_data[c.to].range_start = u8(s.range_end + 1)
    <3>1. /\ c \in Conn /\ c.from = n /\ c # NULL /\ s.succ_addr = c.to /\ Holds(self_data, net, c)
          /\ Follows(self_data, net, s.succ_addr, s.range_end)
      BY <2>2, <2>5 DEF Link, Own
    <3>2. c.to \in Node /\ c.to # n
      BY <3>1, ConnFields
    <3>3. Inside(self_data[c.to]) /\ self_data[c.to].range_start = u8(s.range_end + 1)
      BY <2>4, <3>1, <3>2 DEF Follows, Expected, StartOf
    <3>4. self_data[c.to].pred_fd = c
      BY <2>4, <3>1, <3>2 DEF Holds
    <3> QED
      BY <2>3, <3>1, <3>2, <3>3, <3>4
  <2>6. CASE Members = {n}
    <3>1. ~s.succ_socket
      BY <2>5, <2>6
    <3> QED
      BY <2>1, <2>2, <2>6, <3>1 DEF Seat
  <2>7. CASE Members # {n}
    <3>1. PICK m \in Node : m # n /\ Inside(self_data[m])
      BY <2>7 DEF Members, Inside
    <3>2. s.succ_socket
      BY <2>1, <2>2, <3>1 DEF Alone, Inside
    <3> QED
      BY <2>5, <2>7, <3>2
  <2> QED
    BY <2>6, <2>7
<1> QED
  BY <1>1, JoinInvariance, PTL

(***************************************************************************)
(* The entries.  An entry is in a table or on a stream that somebody will  *)
(* read, through every handover.  The invariant says where a stream leads; *)
(* this part adds what each operation does to one key.                     *)
(***************************************************************************)

(* What keeps key k: an entry of a table, or a VAL_INSERT on its way. *)
Carries(pdu, k) == pdu.type = "VAL_INSERT" /\ pdu.key = k

OnStream(nt, k) == \E c \in Conn : \E pdu \in Range(nt.fwd[c]) : Carries(pdu, k)

Safe(sd, nt, k) == (\E n \in Node : sd[n].hash_table[k] # NULL) \/ OnStream(nt, k)

(***************************************************************************)
(* What is handed over.                                                    *)
(***************************************************************************)

(* SetToSeq leaves no key out. *)
LEMMA KeyListed ==
  ASSUME NEW K \in SUBSET Key, NEW k \in K
  PROVE  \E i \in DOMAIN SetToSeq(K) : SetToSeq(K)[i] = k
<1> DEFINE N == Cardinality(K)
           q == SetToSeq(K)
<1>1. IsFiniteSet(K) /\ N \in Nat
  BY FS_Subset, FS_CardinalityType, SocketsAssumption
<1>2. PICK f : f \in Bijection(1 .. N, K)
  BY <1>1, FS_CardinalityType DEF ExistsBijection
<1>3. f \in [1 .. N -> K] /\ IsInjective(f)
  BY <1>2 DEF IsInjective, Bijection, Injection
<1>4. q \in [1 .. N -> K] /\ IsInjective(q)
  BY <1>3 DEF SetToSeq
<1> HIDE DEF q
<1>5. ASSUME \A i \in 1 .. N : q[i] # k PROVE FALSE
  <2>1. q \in [1 .. N -> K \ {k}]
    BY <1>4, <1>5
  <2>2. IsFiniteSet(K \ {k}) /\ Cardinality(K \ {k}) = N - 1
    BY <1>1, FS_RemoveElement
  <2>3. IsFiniteSet(1 .. N) /\ Cardinality(1 .. N) = N
    <3>1. IsFiniteSet(1 .. N) /\ Cardinality(1 .. N) = IF 1 > N THEN 0 ELSE N - 1 + 1
      BY <1>1, FS_Interval
    <3> QED
      BY <1>1, <3>1
  <2>4. Cardinality(K \ {k}) < Cardinality(1 .. N)
    BY <1>1, <2>2, <2>3
  <2>5. \E i, j \in 1 .. N : i # j /\ q[i] = q[j]
    <3> DEFINE I == 1 .. N
               T == K \ {k}
    <3>1. IsFiniteSet(I) /\ IsFiniteSet(T) /\ Cardinality(T) < Cardinality(I) /\ q \in [I -> T]
      BY <2>1, <2>2, <2>3, <2>4
    <3> HIDE DEF I, T
    <3>2. \E i, j \in I : i # j /\ q[i] = q[j]
      BY ONLY <3>1, FS_PigeonHole
    <3> QED
      BY <3>2 DEF I
  <2> QED
    BY <1>4, <2>5 DEF IsInjective
<1> QED
  BY <1>4, <1>5 DEF q

(* send_new_range_and_entries keeps an entry or sends it. *)
LEMMA HandoverSafe ==
  ASSUME NEW s, Ready(s), NEW next \in Node, NEW k \in Key, s.hash_table[k] # NULL
  PROVE  \/ AfterHandover(s).hash_table[k] # NULL
         \/ \E pdu \in Range(Handover(s, next)) : Carries(pdu, k)
<1> DEFINE K == HandedOver(s)
           order == SetToSeq(K)
           rest == Inserts(s, K)
           r == [type |-> "NET_JOIN_RESPONSE", next |-> next,
                 range_start |-> handover_start(s.range_start, s.range_end), range_end |-> s.range_end]
<1>1. s \in SelfData /\ s.hash_table \in [Key -> Value \cup {NULL}]
  BY ReadyFields, SelfDataFields
<1>2. CASE k \notin K
  <2>1. KeptHalf(s) \in SelfData
    BY <1>1, SplitType, SelfDataFields DEF KeptHalf, SelfData
  <2>2. AfterHandover(s).hash_table[k] = s.hash_table[k]
    BY <1>2, <2>1 DEF AfterHandover, SelfData
  <2> QED
    BY <2>2
<1>3. CASE k \in K
  <2>1. K \in SUBSET Key
    BY DEF HandedOver, Entries
  <2>2. PICK i \in DOMAIN order : order[i] = k
    BY <1>3, <2>1, KeyListed
  <2>3. i \in DOMAIN rest /\ rest[i] = InsertPDU(s, k)
    BY <2>2 DEF Inserts
  <2>4. InsertPDU(s, k) \in Range(rest) /\ Carries(InsertPDU(s, k), k)
    BY <2>3 DEF Range, InsertPDU, Carries
  <2>5. rest \in Seq(PDU)
    BY <1>1, InsertsType DEF HandedOver
  <2>6. Handover(s, next) = <<r>> \o rest /\ r \in PDU
    BY <1>1, SelfDataFields, SplitType DEF Handover, PDU
  <2> HIDE DEF r, rest
  <2>7. Range(<<r>> \o rest) = Range(<<r>>) \cup Range(rest)
    <3>1. <<r>> \in Seq(PDU)
      BY <2>6
    <3> DEFINE one == <<r>>
    <3>2. one \in Seq(PDU)
      BY <3>1
    <3> HIDE DEF one
    <3>3. Range(one \o rest) = Range(one) \cup Range(rest)
      BY <2>5, <3>2, StreamRange
    <3> QED
      BY <3>3 DEF one
  <2> QED
    BY <2>4, <2>6, <2>7
<1> QED
  BY <1>2, <1>3

(***************************************************************************)
(* Operations on the kernel.                                               *)
(***************************************************************************)

(* Writing takes nothing from a stream; what is written to a connection whose
   other end is held is on it. *)
LEMMA ForwardSafe ==
  ASSUME NEW nt \in Net, NEW c \in Conn \cup {NULL}, NEW q \in Seq(PDU), NEW k
  PROVE  /\ OnStream(nt, k) => OnStream(SendForward(nt, c, q), k)
         /\ c # NULL /\ AcceptorHolds(nt, c) /\ (\E pdu \in Range(q) : Carries(pdu, k)) =>
               OnStream(SendForward(nt, c, q), k)
<1> DEFINE o == SendForward(nt, c, q)
<1>1. CASE ~(c # NULL /\ AcceptorHolds(nt, c))
  BY <1>1 DEF SendForward
<1>2. CASE c # NULL /\ AcceptorHolds(nt, c)
  <2>1. c \in Conn /\ nt.fwd \in [Conn -> Seq(PDU)] /\ nt.fwd[c] \in Seq(PDU)
    BY <1>2, NetFields
  <2>2. o.fwd[c] = nt.fwd[c] \o q /\ \A d \in Conn : d # c => o.fwd[d] = nt.fwd[d]
    BY <1>2, <2>1 DEF SendForward, Net
  <2> HIDE DEF o
  <2>3. Range(o.fwd[c]) = Range(nt.fwd[c]) \cup Range(q)
    BY <2>1, <2>2, StreamRange
  <2>4. \A d \in Conn : Range(nt.fwd[d]) \subseteq Range(o.fwd[d])
    BY <2>2, <2>3
  <2>5. OnStream(nt, k) => OnStream(o, k)
    BY <2>4 DEF OnStream
  <2>6. (\E pdu \in Range(q) : Carries(pdu, k)) => OnStream(o, k)
    BY <2>1, <2>3 DEF OnStream
  <2> QED
    BY <2>5, <2>6 DEF o
<1> QED
  BY <1>1, <1>2

(* A handler ends: what the table of the node has lost is on a stream. *)
LEMMA ContinueSafe ==
  ASSUME self_data \in [Node -> SelfData], NEW n \in Node, NEW t, NEW nt, Continue(n, t, nt), NEW k,
         \/ t.hash_table[k] # NULL
         \/ OnStream(nt, k)
         \/ \E m \in Node : m # n /\ self_data[m].hash_table[k] # NULL
  PROVE  Safe(self_data, net, k)'
<1>1. self_data' = [self_data EXCEPT ![n] = t] /\ net' = nt
  BY DEF Continue
<1>2. self_data'[n] = t /\ \A m \in Node : m # n => self_data'[m] = self_data[m]
  BY <1>1
<1>3. OnStream(nt, k) => OnStream(net, k)'
  BY <1>1 DEF OnStream, Carries
<1>4. (\E m \in Node : self_data'[m].hash_table[k] # NULL) \/ OnStream(net, k)'
  BY <1>2, <1>3
<1> QED
  BY <1>4 DEF Safe

(* connect_to_tcp touches no stream. *)
LEMMA ConnectSafe ==
  ASSUME NEW nt \in Net, NEW c \in Conn, NEW k
  PROVE  /\ Connect(nt, c) \in Net /\ AcceptorHolds(Connect(nt, c), c)
         /\ OnStream(nt, k) => OnStream(Connect(nt, c), k)
<1>1. Connect(nt, c) \in Net /\ Connect(nt, c).fwd = nt.fwd
  BY ConnectType DEF Connect, Net
<1>2. nt.backlog \in [Node -> Seq(Conn)] /\ c.to \in Node
  BY NetFields, ConnFields
<1>3. Connect(nt, c).backlog[c.to] = Append(nt.backlog[c.to], c)
  BY <1>2 DEF Connect, Net
<1>4. c \in Range(Append(nt.backlog[c.to], c))
  <2>1. nt.backlog[c.to] \in Seq(Conn)
    BY <1>2
  <2> QED
    BY <2>1, QueueAppend
<1> QED
  BY <1>1, <1>3, <1>4 DEF AcceptorHolds, OnStream

(***************************************************************************)
(* Handlers.  A key is safe in a table or on a stream before the handler,  *)
(* or it is the one in hand.                                               *)
(***************************************************************************)

(* A node makes room for another one. *)
LEMMA RoomSafe ==
  ASSUME self_data \in [Node -> SelfData], NEW nt \in Net, NEW n \in Node, NEW s, s = self_data[n], Ready(s),
         NEW c \in Conn, NEW next \in Node, NEW t, t.hash_table = AfterHandover(s).hash_table,
         Continue(n, t, SendForward(Connect(nt, c), c, Handover(s, next))),
         NEW k \in Key, Safe(self_data, nt, k)
  PROVE  Safe(self_data, net, k)'
<1> DEFINE q == Handover(s, next)
           o == Connect(nt, c)
           u == SendForward(o, c, q)
<1>1. q \in Seq(PDU) /\ c # NULL
  BY HandoverShape, ConnFields
<1>2. o \in Net /\ AcceptorHolds(o, c) /\ (OnStream(nt, k) => OnStream(o, k))
  BY ConnectSafe
<1>3. s.hash_table[k] # NULL => t.hash_table[k] # NULL \/ \E pdu \in Range(q) : Carries(pdu, k)
  BY HandoverSafe
<1> HIDE DEF q, o
<1>4. /\ OnStream(o, k) => OnStream(u, k)
      /\ (\E pdu \in Range(q) : Carries(pdu, k)) => OnStream(u, k)
  BY <1>1, <1>2, ForwardSafe
<1>5. Continue(n, t, u)
  BY DEF u, o, q
<1> HIDE DEF u
<1>6. \/ t.hash_table[k] # NULL
      \/ OnStream(u, k)
      \/ \E m \in Node : m # n /\ self_data[m].hash_table[k] # NULL
  BY <1>2, <1>3, <1>4 DEF Safe
<1> QED
  BY <1>5, <1>6, ContinueSafe

(* Nothing but a PDU to the successor. *)
LEMMA PassOnSafe ==
  ASSUME self_data \in [Node -> SelfData], NEW nt \in Net, NEW n \in Node, NEW c \in Conn \cup {NULL},
         NEW pdu \in PDU, Continue(n, self_data[n], SendForward(nt, c, <<pdu>>)),
         NEW k, Safe(self_data, nt, k) \/ (Carries(pdu, k) /\ c # NULL /\ AcceptorHolds(nt, c))
  PROVE  Safe(self_data, net, k)'
<1> DEFINE q == <<pdu>>
           u == SendForward(nt, c, q)
<1>1. q \in Seq(PDU) /\ Range(q) = {pdu}
  BY DEF Range
<1>2. Continue(n, self_data[n], u)
  OBVIOUS
<1> HIDE DEF q
<1>3. /\ OnStream(nt, k) => OnStream(u, k)
      /\ c # NULL /\ AcceptorHolds(nt, c) /\ Carries(pdu, k) => OnStream(u, k)
  BY <1>1, ForwardSafe
<1> HIDE DEF u
<1>4. \/ self_data[n].hash_table[k] # NULL
      \/ OnStream(u, k)
      \/ \E m \in Node : m # n /\ self_data[m].hash_table[k] # NULL
  BY <1>3 DEF Safe
<1> QED
  BY <1>2, <1>4, ContinueSafe

(* handle_val_insert, handle_val_remove, handle_val_lookup. *)
LEMMA ValSafe ==
  ASSUME NEW nt, Calm(nt), NEW n \in Node, NEW s, s = self_data[n], s.pc = "q6", NEW pdu \in PDU,
         \/ pdu.type = "VAL_INSERT" /\ handle_val_insert(n, s, pdu, nt)
         \/ pdu.type = "VAL_REMOVE" /\ handle_val_remove(n, s, pdu, nt)
         \/ pdu.type = "VAL_LOOKUP" /\ handle_val_lookup(n, s, pdu, nt),
         NEW k \in Key, Safe(self_data, nt, k) \/ Carries(pdu, k),
         ~(pdu.type = "VAL_REMOVE" /\ pdu.key = k)
  PROVE  Safe(self_data, net, k)'
<1>1. /\ s \in SelfData /\ Inside(s) /\ ~ShuttingDown(s) /\ pdu.key \in Key /\ nt \in Net
      /\ self_data \in [Node -> SelfData] /\ s.hash_table \in [Key -> Value \cup {NULL}]
      /\ s.succ_fd \in Conn \cup {NULL} /\ Link(self_data, nt, s) /\ Seat(s)
  BY CalmNode, PDUFields, SelfDataFields DEF Inside, ShuttingDown, Calm, Kernel, World
<1>2. CASE ~check_range(s, pdu.key)
  <2>1. s.succ_fd # NULL
    BY <1>1, <1>2, OutOfRange
  <2>2. Continue(n, self_data[n], SendForward(nt, s.succ_fd, <<pdu>>))
    BY <1>1, <1>2, <2>1
       DEF handle_val_insert, handle_val_remove, handle_val_lookup,
           handle_ht_insert, handle_ht_remove, handle_ht_lookup
  <2>3. AcceptorHolds(nt, s.succ_fd)
    <3>1. s.succ_socket
      BY <1>1, <2>1 DEF Seat
    <3> QED
      BY <1>1, <3>1 DEF Link, Holds, AcceptorHolds
  <2> QED
    BY <1>1, <2>1, <2>2, <2>3, PassOnSafe
<1>3. CASE check_range(s, pdu.key)
  <2>1. \/ pdu.type = "VAL_INSERT" /\ Continue(n, [s EXCEPT !.hash_table[pdu.key] = pdu.val], nt)
        \/ pdu.type = "VAL_REMOVE" /\ Continue(n, [s EXCEPT !.hash_table[pdu.key] = NULL], nt)
        \/ pdu.type = "VAL_LOOKUP" /\ Continue(n, s, nt)
        \/ pdu.type = "VAL_LOOKUP" /\ Continue(n, s, SendUdp(nt, Client, LookupResponse(s, pdu.key)))
    BY <1>1, <1>3 DEF handle_val_insert, handle_val_remove, handle_val_lookup,
                      handle_ht_insert, handle_ht_remove, handle_ht_lookup
  <2>2. CASE pdu.type = "VAL_INSERT" /\ Continue(n, [s EXCEPT !.hash_table[pdu.key] = pdu.val], nt)
    <3> DEFINE t == [s EXCEPT !.hash_table[pdu.key] = pdu.val]
    <3>1. pdu.val # NULL
      BY <2>2, PDUFields, SocketsAssumption
    <3>2. t.hash_table[k] # NULL <=> (s.hash_table[k] # NULL \/ k = pdu.key)
      BY <1>1, <3>1 DEF SelfData
    <3> HIDE DEF t
    <3> QED
      BY <1>1, <2>2, <3>2, ContinueSafe, ZenonT(60) DEF t, Safe, Carries
  <2>3. CASE pdu.type = "VAL_REMOVE" /\ Continue(n, [s EXCEPT !.hash_table[pdu.key] = NULL], nt)
    <3> DEFINE t == [s EXCEPT !.hash_table[pdu.key] = NULL]
    <3>1. t.hash_table[k] = s.hash_table[k]
      BY <1>1, <2>3 DEF SelfData
    <3> HIDE DEF t
    <3> QED
      BY <1>1, <2>3, <3>1, ContinueSafe DEF t, Safe, Carries
  <2>4. ASSUME pdu.type = "VAL_LOOKUP", NEW u, OnStream(nt, k) => OnStream(u, k), Continue(n, s, u)
        PROVE  Safe(self_data, net, k)'
    BY <1>1, <2>4, ContinueSafe DEF Safe, Carries
  <2>5. OnStream(nt, k) => OnStream(SendUdp(nt, Client, LookupResponse(s, pdu.key)), k)
    BY <1>1 DEF SendUdp, Net, OnStream
  <2> QED
    BY <2>1, <2>2, <2>3, <2>4, <2>5
<1> QED
  BY <1>2, <1>3

(* The table of a node that has made room. *)
LEMMA JoinedTable ==
  ASSUME NEW s, Ready(s), NEW m, NEW c
  PROVE  /\ ConnectedTo(AfterHandover(s), m, c).hash_table = AfterHandover(s).hash_table
         /\ \A p : [ConnectedTo(AfterHandover(s), m, c) EXCEPT !.pc = p].hash_table = AfterHandover(s).hash_table
<1>1. AfterHandover(s) \in SelfData
  BY AfterHandoverReady, ReadyFields
<1> QED
  BY <1>1 DEF ConnectedTo, SelfData

(* handle_net_join. *)
LEMMA NetJoinSafe ==
  ASSUME JoinOnly, NEW nt, Calm(nt), nt.backlog = net.backlog, nodes \in SUBSET Node,
         NEW n \in Node, NEW s, s = self_data[n], Ready(s), s.pc = "q6",
         NEW pdu \in PDU, pdu.type = "NET_JOIN", InHand(nt, pdu), handle_net_join(n, s, pdu, nt),
         NEW k \in Key, Safe(self_data, nt, k)
  PROVE  Safe(self_data, net, k)'
<1> DEFINE m == pdu.src
           c == NewConn(n, m)
<1>1. /\ m \in Node /\ self_data[m].pc = "q7" /\ Silent(nt, m)
      /\ nt \in Net /\ self_data \in [Node -> SelfData]
      /\ s.succ_fd \in Conn \cup {NULL} /\ Inside(s) /\ Link(self_data, nt, s)
  BY JoinFields, CalmNode DEF InHand, Asking, Calm, Kernel, World, Inside
<1>2. s.succ_socket <=> s.pred_socket
  BY CalmNode DEF Seat
<1>3. CASE ~s.pred_socket
  <2>1. JoinAlone(n, s, pdu, nt)
    BY <1>2, <1>3 DEF handle_net_join
  <2> DEFINE t == [ConnectedTo(AfterHandover(s), m, c) EXCEPT !.pc = Awaiting(s)]
  <2>2. Unused(n, m) # {} /\ Continue(n, t, SendForward(Connect(nt, c), c, Handover(s, n)))
    <3>1. ConnectSucceeds(nt, n, s.pred_fd, m) = {TRUE}
      <4> HIDE DEF m
      <4> QED
        BY <1>1, Connects
    <3> QED
      BY <2>1, <3>1, Zenon DEF JoinAlone
  <2>3. c \in Conn
    BY <1>1, <2>2, Opened
  <2>4. t.hash_table = AfterHandover(s).hash_table
    BY JoinedTable
  <2> HIDE DEF t, c
  <2> QED
    BY <1>1, <2>2, <2>3, <2>4, RoomSafe
<1>4. CASE s.pred_socket /\ pdu.max = n
  <2>1. JoinAtLargest(n, s, pdu, nt)
    BY <1>2, <1>4 DEF handle_net_join
  <2> DEFINE d == s.succ_fd
             word == <<[type |-> "NET_CLOSE_CONNECTION"]>>
             said == SendForward(nt, d, word)
             closed == CloseConnector(said, d)
             t == ConnectedTo(AfterHandover(s), m, c)
  <2>2. Unused(n, m) # {} /\ Continue(n, t, SendForward(Connect(closed, c), c, Handover(s, s.succ_addr)))
    <3>1. ConnectSucceeds(closed, n, s.pred_fd, m) = {TRUE}
      <4> HIDE DEF closed, m
      <4> QED
        BY <1>1, Connects
    <3> QED
      BY <2>1, <3>1, Zenon DEF JoinAtLargest
  <2>3. closed = said
    BY <1>1, FarewellGood
  <2>4. c \in Conn
    BY <1>1, <2>2, Opened
  <2>5. t.hash_table = AfterHandover(s).hash_table
    BY JoinedTable
  <2>6. word \in Seq(PDU)
    BY PDUTypes
  <2>7. s.succ_addr \in Node
    BY <1>1, <1>2, <1>4, ConnFields DEF Link, Follows
  <2> HIDE DEF t, c, word
  <2>8. said \in Net /\ (OnStream(nt, k) => OnStream(said, k))
    BY <1>1, <2>6, ForwardSafe, SendForwardType
  <2> HIDE DEF said, closed
  <2>9. Safe(self_data, said, k)
    BY <2>8 DEF Safe
  <2> QED
    BY <1>1, <2>2, <2>3, <2>4, <2>5, <2>7, <2>8, <2>9, RoomSafe
<1>5. CASE s.pred_socket /\ pdu.max # n
  <2>1. ForwardJoin(n, s, pdu, nt)
    BY <1>2, <1>5 DEF handle_net_join
  <2> DEFINE span == self_range(s.range_start, s.range_end)
             sent == IF pdu.max_span < span THEN [pdu EXCEPT !.max = n, !.max_span = u8(span)] ELSE pdu
  <2>2. Continue(n, self_data[n], SendForward(nt, s.succ_fd, <<sent>>))
    BY <2>1 DEF ForwardJoin
  <2>3. sent \in PDU
    <3>1. s.range_start \in Int /\ s.range_end \in Int
      BY ReadyFields, SelfDataFields
    <3>2. u8(span) \in Byte
      BY <3>1, u8Type DEF self_range
    <3>3. pdu \in [type : {"NET_JOIN"}, src : Node, max_span : Byte, max : Node \cup {NULL}]
      BY DEF PDU
    <3>4. [pdu EXCEPT !.max = n, !.max_span = u8(span)] \in PDU
      BY <3>2, <3>3 DEF PDU
    <3> QED
      BY <3>4
  <2> HIDE DEF sent
  <2> QED
    BY <1>1, <2>2, <2>3, PassOnSafe
<1> QED
  BY <1>3, <1>4, <1>5

(* The switch in poll_for_incoming_data. *)
LEMMA HandlePDUSafe ==
  ASSUME JoinOnly, NEW nt, Calm(nt), nt.backlog = net.backlog, nodes \in SUBSET Node,
         NEW n \in Node, NEW s, s = self_data[n], Ready(s), s.pc = "q6",
         NEW pdu \in PDU, pdu.type \in Readable, InHand(nt, pdu), LastWord(nt, n, pdu),
         HandlePDU(n, s, pdu, nt),
         NEW k \in Key, Safe(self_data, nt, k) \/ Carries(pdu, k),
         ~(pdu.type = "VAL_REMOVE" /\ pdu.key = k)
  PROVE  Safe(self_data, net, k)'
<1>1. \/ pdu.type = "VAL_INSERT" /\ handle_val_insert(n, s, pdu, nt)
      \/ pdu.type = "VAL_REMOVE" /\ handle_val_remove(n, s, pdu, nt)
      \/ pdu.type = "VAL_LOOKUP" /\ handle_val_lookup(n, s, pdu, nt)
      \/ pdu.type = "NET_JOIN" /\ handle_net_join(n, s, pdu, nt)
      \/ pdu.type = "NET_NEW_RANGE" \/ pdu.type = "NET_LEAVING"
      \/ pdu.type = "NET_CLOSE_CONNECTION" /\ handle_net_close_connection(n, s, nt)
      \/ pdu.type # "VAL_INSERT" /\ Continue(n, s, nt)
  BY Zenon DEF HandlePDU
<1>2. pdu.type # "NET_NEW_RANGE" /\ pdu.type # "NET_LEAVING"
  BY DEF Readable, Traffic, Letters
<1>3. /\ s \in SelfData /\ nt \in Net /\ self_data \in [Node -> SelfData]
  BY CalmNode DEF Calm, Kernel, World
<1>4. CASE pdu.type = "NET_CLOSE_CONNECTION" /\ handle_net_close_connection(n, s, nt)
  <2> DEFINE c == s.pred_fd
             a == [s EXCEPT !.pred_socket = FALSE, !.pred_fd = NULL]
             t == IF s.range_start = 0 /\ s.range_end = HASH_SIZE - 1 THEN a ELSE [a EXCEPT !.pc = Awaiting(s)]
  <2>1. c \in Conn /\ nt.fwd[c] = <<>>
    BY <1>3, <1>4, SelfDataFields DEF LastWord
  <2>2. CloseAcceptor(nt, c) = nt
    <3>1. [nt EXCEPT !.fwd[c] = <<>>] = nt
      BY <1>3, <2>1 DEF Net
    <3> QED
      BY <3>1 DEF CloseAcceptor
  <2>3. Continue(n, t, nt)
    BY <1>4, <2>2 DEF handle_net_close_connection
  <2>4. t.hash_table = s.hash_table
    BY <1>3 DEF SelfData
  <2> HIDE DEF t
  <2> QED
    BY <1>3, <1>4, <2>3, <2>4, ContinueSafe DEF Safe, Carries
<1>5. CASE pdu.type # "VAL_INSERT" /\ Continue(n, s, nt)
  BY <1>3, <1>5, ContinueSafe DEF Safe, Carries
<1>6. CASE pdu.type = "NET_JOIN" /\ handle_net_join(n, s, pdu, nt)
  BY <1>6, NetJoinSafe DEF Carries
<1> QED
  BY <1>1, <1>2, <1>4, <1>5, <1>6, ValSafe

(***************************************************************************)
(* The steps of a process.                                                 *)
(***************************************************************************)

(* A PDU is taken from a stream. *)
LEMMA TakeSafe ==
  ASSUME NEW nt \in Net, NEW c \in Conn, nt.fwd[c] # <<>>, NEW u,
         u.fwd[c] = Tail(nt.fwd[c]), \A d \in Conn : d # c => u.fwd[d] = nt.fwd[d],
         NEW k, OnStream(nt, k)
  PROVE  OnStream(u, k) \/ Carries(Head(nt.fwd[c]), k)
<1> DEFINE w == nt.fwd[c]
<1>1. w \in Seq(PDU) /\ w # <<>>
  BY NetFields
<1>2. u.fwd[c] = Tail(w)
  OBVIOUS
<1>3. PICK d \in Conn : \E pdu \in Range(nt.fwd[d]) : Carries(pdu, k)
  BY DEF OnStream
<1>4. CASE d # c
  BY <1>3, <1>4 DEF OnStream
<1>5. CASE d = c
  <2>1. \E pdu \in Range(w) : Carries(pdu, k)
    BY <1>3, <1>5
  <2> HIDE DEF w
  <2>2. Range(w) = Range(Tail(w)) \cup {Head(w)}
    BY <1>1, StreamRange
  <2> QED
    BY <1>2, <2>1, <2>2 DEF OnStream, w
<1> QED
  BY <1>4, <1>5

(* Nobody has asked to remove the key. *)
Wanted(k) ==
  /\ \A c \in Conn : \A pdu \in Range(net.fwd[c]) : ~(pdu.type = "VAL_REMOVE" /\ pdu.key = k)
  /\ \A d \in net.udp : ~(d.pdu.type = "VAL_REMOVE" /\ d.pdu.key = k)

(* poll_for_incoming_data with a PDU to read. *)
LEMMA PollSafe ==
  ASSUME JoinOnly, NodeInv, ConnInv, JoinInv, nodes \in SUBSET Node, NEW n \in Node,
         PollUdp(n) \/ PollSuccessor(n) \/ PollPredecessor(n),
         NEW k \in Key, Safe(self_data, net, k), Wanted(k)
  PROVE  Safe(self_data, net, k)'
<1> DEFINE s == self_data[n]
<1>1. /\ Calm(net) /\ Ready(s) /\ s.pc = "q6" /\ \A pos : Polled(n, pos) = s
      /\ s.succ_fd \in Conn \cup {NULL} /\ s.pred_fd \in Conn \cup {NULL} /\ net \in Net
  BY RestFacts DEF PollUdp, PollSuccessor, PollPredecessor, NodeInv
<1>2. CASE PollUdp(n)
  <2>1. PICK d \in net.udp : d.dst = n /\ HandlePDU(n, Polled(n, 1), d.pdu, [net EXCEPT !.udp = @ \ {d}])
    BY <1>2 DEF PollUdp
  <2> DEFINE nt == [net EXCEPT !.udp = @ \ {d}]
             pdu == d.pdu
  <2>2. /\ Calm(nt) /\ nt.backlog = net.backlog /\ InHand(nt, pdu) /\ nt.fwd = net.fwd
        /\ Letter(self_data, d) /\ pdu \in PDU
    BY <1>1, DatagramRead
  <2>3. HandlePDU(n, s, pdu, nt)
    BY <1>1, <2>1
  <2> HIDE DEF nt
  <2>4. pdu.type \in Readable /\ LastWord(nt, n, pdu)
    BY <2>2 DEF Letter, Letters, Readable, LastWord
  <2>5. Safe(self_data, nt, k) /\ ~(pdu.type = "VAL_REMOVE" /\ pdu.key = k)
    BY <2>2 DEF Safe, OnStream, Wanted
  <2> HIDE DEF pdu
  <2> QED
    BY <1>1, <2>2, <2>3, <2>4, <2>5, HandlePDUSafe
<1>3. CASE PollSuccessor(n)
  <2>1. s.succ_fd \in Conn /\ net.bwd[s.succ_fd] # <<>>
    BY <1>1, <1>3 DEF PollSuccessor
  <2> QED
    BY <2>1 DEF JoinInv, Order, OnlyTraffic
<1>4. CASE PollPredecessor(n)
  <2> DEFINE c == s.pred_fd
             nt == [net EXCEPT !.fwd[c] = Tail(@)]
             pdu == Head(net.fwd[c])
  <2>1. c \in Conn /\ net.fwd[c] # <<>> /\ HandlePDU(n, s, pdu, nt)
    BY <1>1, <1>4 DEF PollPredecessor
  <2>2. /\ Calm(nt) /\ nt.backlog = net.backlog /\ pdu \in PDU /\ pdu.type \in Readable
        /\ InHand(nt, pdu) /\ LastWord(nt, n, pdu)
    BY <1>1, <2>1, PredecessorRead
  <2>3. nt.fwd[c] = Tail(net.fwd[c]) /\ \A d \in Conn : d # c => nt.fwd[d] = net.fwd[d]
    BY <1>1, <2>1 DEF Net
  <2>4. pdu \in Range(net.fwd[c])
    <3> DEFINE w == net.fwd[c]
    <3>1. w \in Seq(PDU) /\ w # <<>>
      BY <1>1, <2>1, NetFields
    <3> HIDE DEF w
    <3>2. Head(w) \in Range(w)
      BY <3>1, StreamRange
    <3> QED
      BY <3>2 DEF w
  <2>5. ~(pdu.type = "VAL_REMOVE" /\ pdu.key = k)
    BY <2>1, <2>4 DEF Wanted
  <2> HIDE DEF nt
  <2>6. OnStream(net, k) => OnStream(nt, k) \/ Carries(pdu, k)
    BY <1>1, <2>1, <2>3, TakeSafe
  <2> HIDE DEF pdu
  <2>7. Safe(self_data, nt, k) \/ Carries(pdu, k)
    BY <2>6 DEF Safe
  <2> QED
    BY <1>1, <2>1, <2>2, <2>5, <2>7, HandlePDUSafe
<1> QED
  BY <1>2, <1>3, <1>4

(* accept_predecessor_connection. *)
LEMMA AcceptSafe ==
  ASSUME NodeInv, NEW n \in Node, accept_predecessor_connection(n), NEW k \in Key, Safe(self_data, net, k)
  PROVE  Safe(self_data, net, k)'
<1> DEFINE s == self_data[n]
           t == [s EXCEPT !.pc = IF @ = "accept" THEN "q6" ELSE "q18",
                          !.pollPos = IF s.pc = "accept" THEN 0 ELSE 3,
                          !.pred_socket = TRUE, !.pred_fd = Head(net.backlog[n])]
           u == [net EXCEPT !.backlog[n] = Tail(@)]
<1>1. Continue(n, t, u) /\ self_data \in [Node -> SelfData] /\ net \in Net
  BY DEF accept_predecessor_connection, NodeInv
<1>2. t.hash_table = s.hash_table /\ u.fwd = net.fwd
  BY <1>1 DEF SelfData, Net
<1> HIDE DEF t, u
<1>3. \/ t.hash_table[k] # NULL
      \/ OnStream(u, k)
      \/ \E m \in Node : m # n /\ self_data[m].hash_table[k] # NULL
  BY <1>2 DEF Safe, OnStream
<1> QED
  BY <1>1, <1>3, ContinueSafe

(* q3 and the first part of q7. *)
LEMMA Q3Safe ==
  ASSUME NodeInv, ConnInv, JoinInv, NEW n \in Node, q3(n), NEW k \in Key, Safe(self_data, net, k)
  PROVE  Safe(self_data, net, k)'
<1> DEFINE s == self_data[n]
<1>1. self_data \in [Node -> SelfData] /\ net \in Net /\ s \in SelfData
  BY DEF NodeInv
<1>2. PICK d \in net.udp :
        /\ d.dst = n /\ s.pc = "q3"
        /\ LET nt == [net EXCEPT !.udp = @ \ {d}]
           IN  IF d.pdu.type # "NET_GET_NODE_RESPONSE" THEN exit_with_error(n, nt)
               ELSE IF d.pdu.node = NULL
               THEN Continue(n, [s EXCEPT !.pc = "q6", !.range_start = 0, !.range_end = HASH_SIZE - 1], nt)
               ELSE Continue(n, [s EXCEPT !.pc = "q7"],
                        SendUdp(nt, d.pdu.node,
                                [type |-> "NET_JOIN", src |-> n, max_span |-> 0, max |-> NULL]))
  BY DEF q3
<1>3. d.pdu.type = "NET_GET_NODE_RESPONSE"
  BY <1>2 DEF JoinInv, Order, Letter, Inside
<1> DEFINE nt == [net EXCEPT !.udp = @ \ {d}]
           first == [s EXCEPT !.pc = "q6", !.range_start = 0, !.range_end = HASH_SIZE - 1]
           next == [s EXCEPT !.pc = "q7"]
           sent == SendUdp(nt, d.pdu.node, [type |-> "NET_JOIN", src |-> n, max_span |-> 0, max |-> NULL])
<1>4. Continue(n, first, nt) \/ Continue(n, next, sent)
  BY <1>2, <1>3
<1>5. first.hash_table = s.hash_table /\ next.hash_table = s.hash_table
  BY <1>1 DEF SelfData
<1>6. nt.fwd = net.fwd /\ sent.fwd = net.fwd
  BY <1>1 DEF Net, SendUdp
<1> HIDE DEF first, next, nt, sent
<1>7. ASSUME NEW t, NEW u, Continue(n, t, u), t.hash_table = s.hash_table, u.fwd = net.fwd
      PROVE  Safe(self_data, net, k)'
  <2>1. \/ t.hash_table[k] # NULL
        \/ OnStream(u, k)
        \/ \E m \in Node : m # n /\ self_data[m].hash_table[k] # NULL
    BY <1>7 DEF Safe, OnStream
  <2> QED
    BY <1>1, <1>7, <2>1, ContinueSafe
<1> QED
  BY <1>4, <1>5, <1>6, <1>7

(* The second part of q7 and q8: the joining node takes NET_JOIN_RESPONSE, and
   leaves the entries behind it on the stream. *)
LEMMA Q7Safe ==
  ASSUME JoinOnly, NodeInv, ConnInv, JoinInv, NEW n \in Node, q7(n), NEW k \in Key, Safe(self_data, net, k)
  PROVE  Safe(self_data, net, k)'
<1> DEFINE c == Head(net.backlog[n])
           pdu == Head(net.fwd[c])
           nt == [net EXCEPT !.backlog[n] = Tail(@), !.fwd[c] = Tail(@)]
           d == NewConn(n, pdu.next)
           s == [self_data[n] EXCEPT
                    !.pc = "q6", !.pred_socket = TRUE, !.pred_fd = c,
                    !.range_start = pdu.range_start, !.range_end = pdu.range_end]
           t == ConnectedTo(s, pdu.next, d)
           o == Connect(nt, d)
<1>1. self_data[n].pc = "q7" /\ net.backlog[n] # <<>> /\ net.fwd[c] # <<>>
  BY DEF q7
<1>2. /\ self_data[n] \in SelfData /\ net \in Net /\ self_data \in [Node -> SelfData]
      /\ net.backlog \in [Node -> Seq(Conn)] /\ net.fwd \in [Conn -> Seq(PDU)]
  BY NetFields DEF NodeInv
<1>3. c \in Conn
  <2>1. net.backlog[n] \in Seq(Conn)
    BY <1>2
  <2> QED
    BY <1>1, <2>1
<1>4. pdu.type = "NET_JOIN_RESPONSE"
  BY <1>1 DEF ConnInv, Greets, Greeted, Young
<1>5. Follows(self_data, net, pdu.next, pdu.range_end)
  <2>1. 1 \in DOMAIN net.fwd[c] /\ net.fwd[c][1] = pdu
    BY <1>1, <1>2, <1>3
  <2>2. Response(self_data, net, c, 1)
    BY <1>3, <2>1 DEF JoinInv, Order
  <2> QED
    BY <1>4, <2>1, <2>2 DEF Response
<1>6. ConnectSucceeds(nt, n, c, pdu.next) = {TRUE}
  BY <1>5, Connects DEF Follows, Expected, Inside
<1>7. Continue(n, t, o)
  <2>1. \E connected \in ConnectSucceeds(nt, n, c, pdu.next) :
            IF ~connected THEN exit_with_error(n, nt)
            ELSE Unused(n, pdu.next) # {} /\ Continue(n, t, o)
    BY <1>4 DEF q7
  <2> QED
    BY <1>6, <2>1
<1>8. t.hash_table = self_data[n].hash_table
  <2>1. /\ DOMAIN s = DOMAIN self_data[n] /\ s.hash_table = self_data[n].hash_table
    BY <1>2 DEF SelfData
  <2> HIDE DEF s
  <2> QED
    BY <1>2, <2>1 DEF ConnectedTo, SelfData
<1>9. o.fwd = [net.fwd EXCEPT ![c] = Tail(@)]
  BY <1>2 DEF Connect, Net
<1>10. o.fwd[c] = Tail(net.fwd[c]) /\ \A e \in Conn : e # c => o.fwd[e] = net.fwd[e]
  BY <1>2, <1>3, <1>9
<1> HIDE DEF t, o, c
<1>11. OnStream(net, k) => OnStream(o, k)
  BY <1>1, <1>2, <1>3, <1>4, <1>10, TakeSafe DEF Carries
<1>12. \/ t.hash_table[k] # NULL
       \/ OnStream(o, k)
       \/ \E m \in Node : m # n /\ self_data[m].hash_table[k] # NULL
  BY <1>8, <1>11 DEF Safe
<1> QED
  BY <1>2, <1>7, <1>12, ContinueSafe

(* Any step: the processes, the tracker and the client. *)
LEMMA NextSafe ==
  ASSUME JoinOnly, NodeInv, OthersInv, ConnInv, JoinInv, Next, NEW k \in Key, Safe(self_data, net, k), Wanted(k)
  PROVE  Safe(self_data, net, k)'
<1>0. nodes \in SUBSET Node /\ self_data \in [Node -> SelfData] /\ net \in Net
  BY DEF OthersInv, NodeInv
<1>1. ASSUME NEW n \in Node, StartNode(n) PROVE Safe(self_data, net, k)'
  <2>1. Continue(n, Blank("q3"), net) /\ self_data[n].pc = "off"
    BY <1>1 DEF StartNode, Start
  <2>2. self_data[n].hash_table[k] = NULL
    BY <2>1 DEF NodeInv, Sound, Entries
  <2> QED
    BY <1>0, <2>1, <2>2, ContinueSafe DEF Safe
<1>2. ASSUME NEW n \in Node, set_shutdown(n) PROVE FALSE
  BY <1>2 DEF set_shutdown, JoinOnly
<1>3. ASSUME NEW n \in Node, RunNode(n) PROVE Safe(self_data, net, k)'
  BY <1>0, <1>3, Q3Safe, Q7Safe, AcceptSafe, PollSafe, NeverEnds DEF RunNode, NodeStep
<1>4. ASSUME NEW n \in Node, NodeFault(n) PROVE FALSE
  BY <1>4 DEF NodeFault, Timeout, Interrupted, SuccessorReset, PredecessorReset, JoinOnly
<1>5. ASSUME NEW n \in Node, NodeTimeout(n) PROVE FALSE
  BY <1>5, RestFacts DEF NodeTimeout, Seat, JoinOnly
<1>6. ASSUME LoseDatagram PROVE FALSE
  BY <1>6 DEF LoseDatagram, JoinOnly
<1>7. ASSUME self_data' = self_data, net'.fwd = net.fwd PROVE Safe(self_data, net, k)'
  BY <1>7 DEF Safe, OnStream, Carries
<1>8. ASSUME NEW n \in Node, NetAlive(n) PROVE Safe(self_data, net, k)'
  BY <1>7, <1>8 DEF NetAlive
<1>9. \A dst, pdu : SendUdp(net, dst, pdu).fwd = net.fwd
  BY <1>0 DEF SendUdp, Net
<1>10. ASSUME NEW n \in Node, NetGetNode(n) PROVE Safe(self_data, net, k)'
  BY <1>7, <1>9, <1>10 DEF NetGetNode
<1>11. ASSUME NEW pdu, ClientSend(pdu) PROVE Safe(self_data, net, k)'
  BY <1>7, <1>9, <1>11 DEF ClientSend
<1>12. ASSUME ClientInsert \/ ClientRemove \/ ClientLookup PROVE Safe(self_data, net, k)'
  BY <1>11, <1>12 DEF ClientInsert, ClientRemove, ClientLookup
<1>13. ASSUME ClientReceive PROVE Safe(self_data, net, k)'
  <2>1. PICK d \in net.udp : net' = [net EXCEPT !.udp = @ \ {d}]
    BY <1>13 DEF ClientReceive
  <2>2. net'.fwd = net.fwd
    BY <1>0, <2>1 DEF Net
  <2> QED
    BY <1>7, <1>13, <2>2 DEF ClientReceive
<1> QED
  BY <1>1, <1>2, <1>3, <1>4, <1>5, <1>6, <1>8, <1>10, <1>12, <1>13 DEF Next

(* README: the network "ensures no data loss as nodes join or leave".  While
   nodes only join, no step makes a key disappear that nobody asked to remove:
   send_new_range_and_entries keeps an entry or sends it, the joining node
   reads everything that was sent to it, and what is passed on reaches a node
   that will read it, because the successor of every node holds its end of the
   connection. *)
THEOREM NothingLost == JoinOnly => (Spec => NoDataLoss)
<1> SUFFICES ASSUME JoinOnly PROVE Spec => NoDataLoss
  OBVIOUS
<1>1. NodeInv /\ OthersInv /\ ConnInv /\ JoinInv /\ [Next]_vars => [KeepsData]_vars
  <2> SUFFICES ASSUME NodeInv, OthersInv, ConnInv, JoinInv, Next PROVE KeepsData
    BY DEF vars
  <2> SUFFICES ASSUME NEW k \in Key, Present(k), ~RemoveAsked(k) PROVE Present(k)'
    BY DEF KeepsData
  <2>1. \A c \in Conn : net.bwd[c] = <<>>
    BY DEF JoinInv, Order, OnlyTraffic
  <2>2. Range(<<>>) = {}
    BY DEF Range
  <2>3. Safe(self_data, net, k)
    BY <2>1, <2>2 DEF Present, Held, InStream, Safe, OnStream, Carries
  <2>4. Wanted(k)
    BY DEF RemoveAsked, InStream, Wanted
  <2>5. Safe(self_data, net, k)'
    BY <2>3, <2>4, NextSafe
  <2> QED
    BY <2>5 DEF Present, Held, InStream, Safe, OnStream, Carries
<1>2. Spec => [](NodeInv /\ OthersInv /\ ConnInv /\ JoinInv)
  BY JoinInvariance
<1> QED
  BY <1>1, <1>2, PTL DEF Spec, NoDataLoss
=============================================================================
