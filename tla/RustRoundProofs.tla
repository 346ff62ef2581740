-------------------------- MODULE RustRoundProofs ---------------------------
(***************************************************************************)
(* The network of RustRing while nodes only join: the inductive invariant, *)
(* and the steps that let nobody in: a round of q6, a NET_JOIN that is     *)
(* passed on, a predecessor that is dropped or accepted, datagrams, and    *)
(* the tracker.  RustJoinProofs has the others, and the theorems.          *)
(*                                                                         *)
(* Joins may overlap, as long as no node is asked to split a range of one  *)
(* hash: split_range would hand over a range that ends before it begins,   *)
(* and the span of such a range is, in u8 arithmetic, the largest of all.  *)
(* Splittable excludes it; it is shown to hold if joins do not overlap.    *)
(***************************************************************************)
EXTENDS RustRingProofs, SequenceTheorems

(* Nobody leaves and nothing but datagrams is lost; the first two nodes do not
   start at the same moment; there is a range to split (HASH_SIZE is 256). *)
JoinOnly ==
  Leavers = {} /\ Faults \subseteq {"udp_loss"} /\ Overlap \subseteq {"join", "value"} /\ HASH_SIZE > 1

Splittable == \A n \in Node : node[n].state = "Q13" => node[n].start < node[n].end

(***************************************************************************)
(* The inductive invariant, of memories sd and a kernel nt.                *)
(***************************************************************************)
Outer == {"Q1", "Q2", "Q3", "Q4", "Q7", "Q8"}

Inner == {"Q5", "Q6", "Q12", "Q13", "Q14", "Q17"}

Inside(s) == s.state \in Inner

(* Waits for the connection on which NET_JOIN_RESPONSE comes; for that PDU. *)
Asked(s) == s.state = "Q7" /\ s.at = "accept"

Told(s) == s.state = "Q8"

(* last_pdu holds a NET_JOIN that is still to be handled; the connection of the
   predecessor is to be dropped. *)
Live(s) == s.state \in {"Q12", "Q13", "Q14"} \/ (s.state = "Q5" /\ s.at = "run")

Closing(s) == s.state = "Q17" /\ s.at # "accept"

Whole(s) == s.start = 0 /\ s.end = HASH_SIZE - 1

(* Both neighbours or none, except where a node waits for its predecessor. *)
Places(s) ==
  /\ s.process \in {"off", "running"} /\ ~s.should_close /\ s.state \in Outer \cup Inner
  /\ s.process = "off" => s.state = "Q1"
  /\ s.at = "accept" => s.state \in {"Q5", "Q7", "Q17"}
  /\ s.at = "await" => s.state \in {"Q2", "Q3", "Q8"}
  /\ s.state = "Q8" => s.at = "await"
  /\ s.at \in {"read", "handle"} => \A i \in DOMAIN s.events : s.events[i] # "SUCCESSOR"
  /\ ~Inside(s) => s.alive_due

Neighbours(s) ==
  /\ ~Inside(s) => s.successor = NULL /\ (s.predecessor # NULL <=> Told(s))
  /\ Inside(s) =>
        /\ s.start <= s.end /\ (s.successor # NULL <=> ~Whole(s))
        /\ s.at = "accept" => s.successor # NULL /\ s.predecessor = NULL
        /\ s.at # "accept" => (s.predecessor # NULL <=> s.successor # NULL)
  /\ s.state \in {"Q13", "Q14", "Q17"} => s.successor # NULL
  /\ s.state = "Q5" /\ s.at = "run" => s.successor = NULL

Queued(s) ==
  /\ ~Inside(s) => s.queue = NoQueue
  /\ s.queue["SUCCESSOR"] = <<>>
  /\ s.predecessor = NULL => s.queue["PREDECESSOR"] = <<>>

Seat(s) == Places(s) /\ Neighbours(s) /\ Queued(s)

(* What was sent on a connection and not yet handled, read or not. *)
Pipe(sd, nt, c) ==
  IF sd[c.to].predecessor = c THEN sd[c.to].queue["PREDECESSOR"] \o nt.fwd[c] ELSE nt.fwd[c]

Holds(sd, nt, c) == sd[c.to].predecessor = c \/ c \in Range(nt.backlog[c.to])

Dials(sd, c) == sd[c.from].successor = c

(* The ends of a connection are at its nodes; nobody connects to a node that
   has no range and has not been given one. *)
First(sd, nt, m) == IF Told(sd[m]) THEN sd[m].predecessor ELSE Head(nt.backlog[m])

Waits(sd, nt, m) == Told(sd[m]) \/ (Asked(sd[m]) /\ nt.backlog[m] # <<>>)

Expected(sd, nt, m) == Inside(sd[m]) \/ Waits(sd, nt, m)

Ends(sd, nt, n) ==
  /\ sd[n].successor # NULL => sd[n].successor.from = n
  /\ sd[n].predecessor # NULL => sd[n].predecessor.to = n
  /\ \A c \in Range(nt.backlog[n]) : c.to = n
  /\ nt.backlog[n] # <<>> => Expected(sd, nt, n)

(* Where the range of a node begins. *)
StartOf(sd, nt, m) ==
  IF Inside(sd[m]) THEN sd[m].start ELSE Head(Pipe(sd, nt, First(sd, nt, m))).range_start

Follows(sd, nt, m, e) == m \in Node /\ Expected(sd, nt, m) /\ StartOf(sd, nt, m) = u8(e + 1)

Link(sd, nt, s) ==
  s.successor # NULL =>
      /\ s.successor_listen = s.successor.to /\ Holds(sd, nt, s.successor)
      /\ Follows(sd, nt, s.successor.to, s.end)

Alone(sd, nt, n) ==
  Inside(sd[n]) /\ sd[n].successor = NULL =>
      /\ \A m \in Node : m # n => ~Inside(sd[m])
      /\ \A c \in Conn : Pipe(sd, nt, c) = <<>>

(* The connections: what is on them, and in which order. *)
Traffic == {"VAL_INSERT", "VAL_REMOVE", "VAL_LOOKUP", "NET_JOIN", "NET_JOIN_RESPONSE", "NET_CLOSE_CONNECTION"}

Response(sd, nt, c, i) ==
  LET q == Pipe(sd, nt, c)
  IN  q[i].type = "NET_JOIN_RESPONSE" =>
          /\ i = 1 /\ Waits(sd, nt, c.to) /\ First(sd, nt, c.to) = c
          /\ q[i].range_start > 0 /\ q[i].range_start <= q[i].range_end
          /\ Follows(sd, nt, q[i].next, q[i].range_end)

Line(sd, nt, c) ==
  LET q == Pipe(sd, nt, c)
  IN  /\ nt.bwd[c] = <<>>
      /\ Holds(sd, nt, c) => Inside(sd[c.from])
      /\ q # <<>> => Holds(sd, nt, c)
      /\ \A i \in DOMAIN q : q[i].type \in Traffic /\ Response(sd, nt, c, i)
      /\ \A i \in DOMAIN q : q[i].type = "NET_CLOSE_CONNECTION" => i = Len(q) /\ ~Dials(sd, c)

Welcome(sd, nt, m) ==
  Waits(sd, nt, m) =>
      LET q == Pipe(sd, nt, First(sd, nt, m)) IN q # <<>> /\ Head(q).type = "NET_JOIN_RESPONSE"

Dropping(sd, nt, s) ==
  Closing(s) => Pipe(sd, nt, s.predecessor) = <<>> /\ ~Dials(sd, s.predecessor)

Wires(sd, nt) ==
  /\ nt.rst = {}
  /\ \A n \in Node : /\ Seat(sd[n]) /\ Ends(sd, nt, n) /\ Link(sd, nt, sd[n]) /\ Alone(sd, nt, n)
                     /\ Welcome(sd, nt, n) /\ Dropping(sd, nt, sd[n])
  /\ \A c \in Conn : Line(sd, nt, c)

(* NET_JOIN is in one place at a time: on a connection, among the PDUs read from
   the UDP socket, in last_pdu, or in a datagram.  Its source waits for somebody
   to connect. *)
JoinNoted(s) == IF Live(s) THEN <<s.last_pdu>> ELSE <<>>

BoxId == ({"conn"} \X Conn) \cup ({"queue", "noted"} \X Node)

Box(sd, nt, x) ==
  CASE x[1] = "conn" -> Pipe(sd, nt, x[2])
    [] x[1] = "queue" -> sd[x[2]].queue["UDP"]
    [] x[1] = "noted" -> JoinNoted(sd[x[2]])

JoinOf(pdu, n) == pdu.type = "NET_JOIN" /\ pdu.src = n

Asks(q, n) == \E i \in DOMAIN q : JoinOf(q[i], n)

AsksOnce(q, n) == \A i, j \in DOMAIN q : JoinOf(q[i], n) /\ JoinOf(q[j], n) => i = j

Once(b, U, n) ==
  /\ \A x \in BoxId : AsksOnce(b[x], n)
  /\ \A x, y \in BoxId : Asks(b[x], n) /\ Asks(b[y], n) => x = y
  /\ \A d, e \in U : JoinOf(d.pdu, n) /\ JoinOf(e.pdu, n) => d = e
  /\ \A x \in BoxId, d \in U : ~(Asks(b[x], n) /\ JoinOf(d.pdu, n))

Sought(b, U, n) == (\E x \in BoxId : Asks(b[x], n)) \/ (\E d \in U : JoinOf(d.pdu, n))

Applicant(sd, nt, n) == Asked(sd[n]) /\ nt.backlog[n] = <<>>

Boxes(sd, nt) == [x \in BoxId |-> Box(sd, nt, x)]

Requests(sd, nt) ==
  \A n \in Node : /\ Once(Boxes(sd, nt), nt.udp, n)
                  /\ Sought(Boxes(sd, nt), nt.udp, n) => Applicant(sd, nt, n)

(* Datagrams: a node that is not inside has one question to the tracker, or one
   answer, under way. *)
Values == {"VAL_INSERT", "VAL_REMOVE", "VAL_LOOKUP"}

Reply(d) == d.dst \in Node /\ d.pdu.type \in {"STUN_RESPONSE", "NET_GET_NODE_RESPONSE"}

Letter(sd, d) ==
  /\ d.dst \in Node => d.pdu.type \in Values \cup {"NET_JOIN", "STUN_RESPONSE", "NET_GET_NODE_RESPONSE"}
  /\ d.dst \in Node /\ ~Reply(d) => Inside(sd[d.dst])
  /\ Reply(d) => d.src = Tracker
  /\ Reply(d) /\ d.pdu.type = "STUN_RESPONSE" => sd[d.dst].state = "Q2"
  /\ Reply(d) /\ d.pdu.type = "NET_GET_NODE_RESPONSE" => sd[d.dst].state = "Q3" /\ sd[d.dst].at = "await"
  /\ d.dst = Tracker => d.src \in Node /\ d.pdu.type \in {"STUN_LOOKUP", "NET_GET_NODE", "NET_ALIVE"}
  /\ d.dst = Tracker /\ d.pdu.type = "STUN_LOOKUP" => sd[d.src].state = "Q2"
  /\ d.dst = Tracker /\ d.pdu.type = "NET_GET_NODE" => sd[d.src].state = "Q3" /\ sd[d.src].at = "await"
  /\ d.dst = Tracker /\ d.pdu.type = "NET_ALIVE" => Inside(sd[d.src])

Mail(sd, U) ==
  /\ \A d \in U : Letter(sd, d)
  /\ \A d, e \in U : Reply(d) /\ Reply(e) /\ d.dst = e.dst => d = e
  /\ \A d, e \in U : ~(Reply(d) /\ e.dst = Tracker /\ e.src = d.dst)
  /\ \A n \in Node : \A i \in DOMAIN sd[n].queue["UDP"] : sd[n].queue["UDP"][i].type \in Values \cup {"NET_JOIN"}

(* The tracker: as long as its table is empty there is one node at most. *)
Table(sd, U, T) ==
  /\ \A n \in T : Inside(sd[n])
  /\ T = {} => \A n, m \in Node : sd[n].process = "running" /\ sd[m].process = "running" => n = m
  /\ \A n \in Node : sd[n].state = "Q4" => T = {}
  /\ \A n \in Node : sd[n].state = "Q7" /\ sd[n].at = "run" => sd[n].last_pdu.node \in T
  /\ \A d \in U : Reply(d) /\ d.pdu.type = "NET_GET_NODE_RESPONSE" =>
        IF d.pdu.node = NULL THEN T = {} ELSE d.pdu.node \in T

(* Every hash has one holder: a node inside, or the response to a node that
   will be. *)
Owns(sd, h, n) == Inside(sd[n]) /\ InRange(h, sd[n].start, sd[n].end)

Brings(sd, nt, h, c) ==
  LET q == Pipe(sd, nt, c)
  IN  q # <<>> /\ Head(q).type = "NET_JOIN_RESPONSE" /\ InRange(h, Head(q).range_start, Head(q).range_end)

OneHolder(sd, nt, h) ==
  /\ (\E n \in Node : Owns(sd, h, n)) \/ (\E c \in Conn : Brings(sd, nt, h, c))
  /\ \A n, m \in Node : Owns(sd, h, n) /\ Owns(sd, h, m) => n = m
  /\ \A c, d \in Conn : Brings(sd, nt, h, c) /\ Brings(sd, nt, h, d) => c = d
  /\ \A n \in Node, c \in Conn : ~(Owns(sd, h, n) /\ Brings(sd, nt, h, c))

Shares(sd, nt) == (\E n \in Node : Inside(sd[n])) => \A h \in Byte : OneHolder(sd, nt, h)

Good(sd, nt, T) ==
  /\ Wires(sd, nt)
  /\ Requests(sd, nt)
  /\ Mail(sd, nt.udp)
  /\ Table(sd, nt.udp, T)
  /\ Shares(sd, nt)

JoinInv == Good(node, net, nodes)

(* Joins that do not overlap: one node at most is on its way in, so that there
   is one NET_JOIN at most, and the range of the node that it names as the
   largest is not split before it comes back to that node. *)
Arriving(s) == s.process = "running" /\ ~Inside(s)

Underway(sd, nt, p) ==
  /\ p.type = "NET_JOIN"
  /\ \/ \E n \in Node : \E t \in Token : p \in Range(sd[n].queue[t])
     \/ \E n \in Node : Live(sd[n]) /\ p = sd[n].last_pdu
     \/ \E c \in Conn : p \in Range(nt.fwd[c])
     \/ \E d \in nt.udp : p = d.pdu

Marked(sd, p) == p.max # NULL => sd[p.max].start < sd[p.max].end

Chosen(sd, n) == sd[n].state = "Q13" => sd[n].last_pdu.max = n

Serial(sd, nt) ==
  /\ \A n, m \in Node : Arriving(sd[n]) /\ Arriving(sd[m]) => n = m
  /\ \A p \in PDU : Underway(sd, nt, p) => Marked(sd, p)
  /\ \A n \in Node : Chosen(sd, n)

SerialInv == Serial(node, net)

(* A step that moves no border, lets no node in, and brings up no NET_JOIN but
   those of X. *)
Steady(X) ==
  /\ \A m \in Node : /\ node'[m].start = node[m].start /\ node'[m].end = node[m].end
                     /\ Inside(node'[m]) <=> Inside(node[m])
                     /\ node'[m].process = node[m].process
                     /\ Chosen(node, m) => Chosen(node', m)
  /\ \A p \in PDU : Underway(node', net', p) => Underway(node, net, p) \/ p \in X

(* A step of n alone, on its way in; its NET_JOIN, if it sends one, is in a
   datagram and names no node yet. *)
Advances(n) ==
  /\ \A m \in Node : m # n => node'[m] = node[m]
  /\ node'[n].state # "Q13"
  /\ Asked(node'[n]) => \E d \in net'.udp : JoinOf(d.pdu, n) /\ d.pdu.max = NULL

(* A step of n alone, in the ring: it lets a node in that waited for that. *)
Admits(n) ==
  /\ \A m \in Node : m # n => node'[m] = node[m]
  /\ node'[n].state # "Q13" /\ (Inside(node'[n]) <=> Inside(node[n])) /\ node'[n].process = node[n].process
  /\ \E m \in Node : m # n /\ Applicant(node, net, m) /\ Running(m) /\ ~Applicant(node', net', m)

(***************************************************************************)
(* A state of the network.                                                 *)
(***************************************************************************)
World(sd, nt) == sd \in [Node -> Memory] /\ nt \in Kernel /\ \A n \in Node : Sound(sd[n])

(* The types of its parts. *)
LEMMA WorldFacts ==
  ASSUME NEW sd, NEW nt, World(sd, nt)
  PROVE  /\ \A n \in Node :
               /\ sd[n] \in Memory
               /\ sd[n].successor \in Conn \cup {NULL} /\ sd[n].predecessor \in Conn \cup {NULL}
               /\ sd[n].start \in Byte /\ sd[n].end \in Byte
               /\ sd[n].queue["PREDECESSOR"] \in Seq(PDU) /\ sd[n].queue["UDP"] \in Seq(PDU)
               /\ nt.backlog[n] \in Seq(Conn)
         /\ \A c \in Conn :
               /\ c.from \in Node /\ c.to \in Node /\ c.from # c.to
               /\ nt.fwd[c] \in Seq(PDU) /\ nt.bwd[c] \in Seq(PDU) /\ Pipe(sd, nt, c) \in Seq(PDU)
<1>1. ASSUME NEW n \in Node
      PROVE  /\ sd[n] \in Memory
             /\ sd[n].successor \in Conn \cup {NULL} /\ sd[n].predecessor \in Conn \cup {NULL}
             /\ sd[n].start \in Byte /\ sd[n].end \in Byte
             /\ sd[n].queue["PREDECESSOR"] \in Seq(PDU) /\ sd[n].queue["UDP"] \in Seq(PDU)
             /\ nt.backlog[n] \in Seq(Conn)
  <2>1. sd[n] \in Memory
    BY DEF World
  <2>2. "PREDECESSOR" \in Token /\ "UDP" \in Token
    BY DEF Token
  <2>3. nt.backlog[n] \in Seq(Conn)
    BY DEF World, Kernel
  <2> QED
    BY <2>1, <2>2, <2>3, MemoryFields
<1>2. ASSUME NEW c \in Conn
      PROVE  /\ c.from \in Node /\ c.to \in Node /\ c.from # c.to
             /\ nt.fwd[c] \in Seq(PDU) /\ nt.bwd[c] \in Seq(PDU) /\ Pipe(sd, nt, c) \in Seq(PDU)
  <2>1. c.from \in Node /\ c.to \in Node /\ c.from # c.to
    BY ConnFields
  <2>2. nt.fwd[c] \in Seq(PDU) /\ nt.bwd[c] \in Seq(PDU)
    BY DEF World, Kernel
  <2>3. sd[c.to].queue["PREDECESSOR"] \in Seq(PDU)
    BY <1>1, <2>1
  <2>4. sd[c.to].queue["PREDECESSOR"] \o nt.fwd[c] \in Seq(PDU)
    BY <2>2, <2>3
  <2> QED
    BY <2>1, <2>2, <2>4 DEF Pipe
<1> QED
  BY <1>1, <1>2

(* A node that waits, or expects an answer, has no range yet. *)
LEMMA Apart ==
  ASSUME NEW s
  PROVE  /\ Told(s) \/ Asked(s) => ~Inside(s)
         /\ ~(Told(s) /\ Asked(s))
  BY DEF Told, Asked, Inside, Inner

(* The connection a waiting node will be given its range on. *)
LEMMA WaitsFacts ==
  ASSUME NEW sd, NEW nt, World(sd, nt), Wires(sd, nt), NEW m \in Node, Waits(sd, nt, m)
  PROVE  /\ First(sd, nt, m) \in Conn /\ First(sd, nt, m).to = m /\ Holds(sd, nt, First(sd, nt, m))
         /\ Pipe(sd, nt, First(sd, nt, m)) # <<>>
         /\ Head(Pipe(sd, nt, First(sd, nt, m))).type = "NET_JOIN_RESPONSE"
         /\ ~Inside(sd[m])
<1>1. Ends(sd, nt, m) /\ Welcome(sd, nt, m) /\ Seat(sd[m])
  BY DEF Wires
<1>2. CASE Told(sd[m])
  <2>1. ~Inside(sd[m])
    BY <1>2, Apart
  <2>2. sd[m].predecessor # NULL
    BY <1>1, <1>2, <2>1 DEF Seat, Neighbours
  <2>3. sd[m].predecessor \in Conn
    BY <2>2, WorldFacts
  <2>4. First(sd, nt, m) = sd[m].predecessor
    BY <1>2 DEF First
  <2> QED
    BY <1>1, <2>1, <2>2, <2>3, <2>4 DEF Ends, Welcome, Holds
<1>3. CASE ~Told(sd[m])
  <2>1. Asked(sd[m]) /\ nt.backlog[m] # <<>>
    BY <1>3 DEF Waits
  <2>2. First(sd, nt, m) = Head(nt.backlog[m])
    BY <1>3 DEF First
  <2>3. nt.backlog[m] \in Seq(Conn)
    BY WorldFacts
  <2>4. Head(nt.backlog[m]) \in Conn /\ Head(nt.backlog[m]) \in Range(nt.backlog[m])
    BY <2>1, <2>3 DEF Range
  <2>5. Head(nt.backlog[m]).to = m
    BY <1>1, <2>4 DEF Ends
  <2>6. Holds(sd, nt, Head(nt.backlog[m]))
    BY <2>4, <2>5 DEF Holds
  <2> QED
    BY <1>1, <2>1, <2>2, <2>4, <2>5, <2>6, Apart DEF Welcome
<1> QED
  BY <1>2, <1>3

(***************************************************************************)
(* Steps that leave the ring as it is: what waits on the connections       *)
(* changes at most at an end.                                              *)
(***************************************************************************)
SameRing(sd, nt, td, mt) ==
  /\ \A m \in Node :
        /\ Inside(td[m]) <=> Inside(sd[m])
        /\ td[m].successor = sd[m].successor
        /\ Inside(sd[m]) => /\ td[m].start = sd[m].start /\ td[m].end = sd[m].end
                            /\ td[m].successor_listen = sd[m].successor_listen
        /\ Waits(td, mt, m) <=> Waits(sd, nt, m)
        /\ Waits(sd, nt, m) => First(td, mt, m) = First(sd, nt, m)
  /\ \A c \in Conn :
        /\ mt.bwd[c] = nt.bwd[c]
        /\ Holds(td, mt, c) => Holds(sd, nt, c)
        /\ Holds(sd, nt, c) /\ (Dials(sd, c) \/ Pipe(td, mt, c) # <<>>) => Holds(td, mt, c)

Handled(sd, c, p, q) == Inside(sd[c.to]) /\ p # <<>> /\ q = Tail(p)

Passed(sd, c, p, q) ==
  /\ Dials(sd, c) /\ Inside(sd[c.from])
  /\ \E pdu \in PDU : pdu.type \in Values \cup {"NET_JOIN"} /\ q = Append(p, pdu)

Moved(sd, c, p, q) == q = p \/ Handled(sd, c, p, q) \/ Passed(sd, c, p, q)

(* What a waiting node will read first stays. *)
LEMMA MovedHead ==
  ASSUME NEW sd, NEW c, NEW p \in Seq(PDU), NEW q \in Seq(PDU), Moved(sd, c, p, q),
         ~Inside(sd[c.to]), p # <<>>
  PROVE  q # <<>> /\ Head(q) = Head(p)
<1>1. CASE Passed(sd, c, p, q)
  <2>1. PICK pdu \in PDU : q = Append(p, pdu)
    BY <1>1 DEF Passed
  <2> QED
    BY <2>1
<1> QED
  BY <1>1 DEF Moved, Handled

(* Such steps change neither who can follow a range nor what a waiting node reads first. *)
LEMMA SameFollows ==
  ASSUME NEW sd, NEW nt, World(sd, nt), Wires(sd, nt), NEW td, NEW mt, World(td, mt),
         SameRing(sd, nt, td, mt), \A c \in Conn : Moved(sd, c, Pipe(sd, nt, c), Pipe(td, mt, c))
  PROVE  /\ \A m \in Node : Welcome(td, mt, m)
         /\ \A m, e : Follows(td, mt, m, e) <=> Follows(sd, nt, m, e)
<1>1. ASSUME NEW m \in Node, Waits(sd, nt, m)
      PROVE  /\ Pipe(td, mt, First(td, mt, m)) # <<>>
             /\ Head(Pipe(td, mt, First(td, mt, m))) = Head(Pipe(sd, nt, First(sd, nt, m)))
             /\ Head(Pipe(sd, nt, First(sd, nt, m))).type = "NET_JOIN_RESPONSE"
             /\ Waits(td, mt, m)
  <2>1. First(td, mt, m) = First(sd, nt, m) /\ Waits(td, mt, m)
    BY <1>1 DEF SameRing
  <2>2. PICK c : c = First(sd, nt, m)
    OBVIOUS
  <2>3. /\ c \in Conn /\ c.to = m /\ ~Inside(sd[m]) /\ Pipe(sd, nt, c) # <<>>
        /\ Head(Pipe(sd, nt, c)).type = "NET_JOIN_RESPONSE"
    BY <1>1, <2>2, WaitsFacts
  <2>4. Pipe(sd, nt, c) \in Seq(PDU) /\ Pipe(td, mt, c) \in Seq(PDU) /\ Moved(sd, c, Pipe(sd, nt, c), Pipe(td, mt, c))
    BY <2>3, WorldFacts
  <2>5. Pipe(td, mt, c) # <<>> /\ Head(Pipe(td, mt, c)) = Head(Pipe(sd, nt, c))
    BY <2>3, <2>4, MovedHead
  <2> QED
    BY <2>1, <2>2, <2>3, <2>5
<1>2. \A m \in Node : Waits(td, mt, m) <=> Waits(sd, nt, m)
  BY DEF SameRing
<1>3. \A m \in Node : Welcome(td, mt, m)
  BY <1>1, <1>2 DEF Welcome
<1>4. \A m \in Node : Expected(td, mt, m) <=> Expected(sd, nt, m)
  BY <1>2 DEF Expected, SameRing
<1>5. \A m \in Node : Expected(sd, nt, m) => StartOf(td, mt, m) = StartOf(sd, nt, m)
  BY <1>1 DEF Expected, StartOf, SameRing
<1> QED
  BY <1>3, <1>4, <1>5 DEF Follows

(* What is on one connection. *)
Orderly(sd, nt, c, q) ==
  /\ \A i \in DOMAIN q : q[i].type \in Traffic
  /\ \A i \in DOMAIN q : q[i].type = "NET_JOIN_RESPONSE" =>
        /\ i = 1 /\ Waits(sd, nt, c.to) /\ First(sd, nt, c.to) = c
        /\ q[i].range_start > 0 /\ q[i].range_start <= q[i].range_end
        /\ Follows(sd, nt, q[i].next, q[i].range_end)
  /\ \A i \in DOMAIN q : q[i].type = "NET_CLOSE_CONNECTION" => i = Len(q) /\ ~Dials(sd, c)

(* A connection is in order if its ends are and what is on it is. *)
LEMMA LineOrderly ==
  ASSUME NEW sd, NEW nt, NEW c
  PROVE  Line(sd, nt, c) <=> /\ nt.bwd[c] = <<>>
                             /\ Holds(sd, nt, c) => Inside(sd[c.from])
                             /\ Pipe(sd, nt, c) # <<>> => Holds(sd, nt, c)
                             /\ Orderly(sd, nt, c, Pipe(sd, nt, c))
  BY DEF Line, Response, Orderly

(* What is on a connection stays in order when an end of it moves. *)
LEMMA MovedOrderly ==
  ASSUME NEW sd, NEW nt, NEW c, NEW p \in Seq(PDU), NEW q \in Seq(PDU), Moved(sd, c, p, q), Orderly(sd, nt, c, p)
  PROVE  Orderly(sd, nt, c, q)
<1>1. CASE Handled(sd, c, p, q)
  <2>1. /\ Len(p) \in Nat \ {0} /\ DOMAIN p = 1 .. Len(p) /\ DOMAIN q = 1 .. Len(p) - 1 /\ Len(q) = Len(p) - 1
        /\ \A i \in 1 .. Len(p) - 1 : q[i] = p[i + 1] /\ i + 1 \in 1 .. Len(p)
    BY <1>1 DEF Handled
  <2>2. ASSUME NEW i \in DOMAIN q
        PROVE  /\ q[i].type \in Traffic /\ q[i].type # "NET_JOIN_RESPONSE"
               /\ q[i].type = "NET_CLOSE_CONNECTION" => i = Len(q) /\ ~Dials(sd, c)
    <3>1. i \in Int /\ i + 1 # 1 /\ i + 1 \in DOMAIN p /\ q[i] = p[i + 1]
      BY <2>1
    <3>2. i + 1 = Len(p) => i = Len(q)
      BY <2>1, <3>1
    <3> QED
      BY <3>1, <3>2 DEF Orderly
  <2> QED
    BY <2>2 DEF Orderly
<1>2. CASE Passed(sd, c, p, q)
  <2>1. PICK pdu \in PDU : pdu.type \in Values \cup {"NET_JOIN"} /\ q = Append(p, pdu)
    BY <1>2 DEF Passed
  <2>2. /\ Len(p) \in Nat /\ DOMAIN p = 1 .. Len(p) /\ DOMAIN q = 1 .. Len(p) + 1 /\ Len(q) = Len(p) + 1
        /\ \A i \in 1 .. Len(p) : q[i] = p[i]
        /\ q[Len(p) + 1] = pdu
    BY <2>1
  <2>3. \A i \in DOMAIN q : i \in DOMAIN p \/ i = Len(p) + 1
    BY <2>2
  <2>4. pdu.type \in Traffic /\ pdu.type # "NET_JOIN_RESPONSE" /\ pdu.type # "NET_CLOSE_CONNECTION"
    BY <2>1 DEF Traffic, Values
  <2>5. \A i \in DOMAIN p : p[i].type # "NET_CLOSE_CONNECTION"
    BY <1>2 DEF Passed, Orderly
  <2> QED
    BY <2>2, <2>3, <2>4, <2>5 DEF Orderly
<1> QED
  BY <1>1, <1>2 DEF Moved

(* A range that is on its way stays there. *)
LEMMA MovedBrings ==
  ASSUME NEW sd, NEW nt, World(sd, nt), Wires(sd, nt), NEW c \in Conn, NEW p, NEW q \in Seq(PDU),
         p = Pipe(sd, nt, c), Moved(sd, c, p, q)
  PROVE  \/ q # <<>> /\ p # <<>> /\ Head(q) = Head(p)
         \/ /\ q = <<>> \/ Head(q).type # "NET_JOIN_RESPONSE"
            /\ p = <<>> \/ Head(p).type # "NET_JOIN_RESPONSE"
<1>0. p \in Seq(PDU) /\ c.to \in Node
  BY WorldFacts
<1>1. CASE q = p
  BY <1>1
<1>2. CASE Passed(sd, c, p, q)
  <2>1. PICK pdu \in PDU : pdu.type \in Values \cup {"NET_JOIN"} /\ q = Append(p, pdu)
    BY <1>2 DEF Passed
  <2>2. p # <<>> => q # <<>> /\ Head(q) = Head(p)
    BY <1>0, <2>1
  <2>3. p = <<>> => Head(q) = pdu
    BY <1>0, <2>1
  <2> QED
    BY <2>1, <2>2, <2>3 DEF Values
<1>3. CASE Handled(sd, c, p, q)
  <2>1. Inside(sd[c.to]) /\ p # <<>> /\ q = Tail(p)
    BY <1>3 DEF Handled
  <2>2. ~Waits(sd, nt, c.to)
    BY <2>1, Apart DEF Waits
  <2>3. \A i \in DOMAIN p : p[i].type # "NET_JOIN_RESPONSE"
    BY <2>2, LineOrderly DEF Wires, Orderly
  <2>4. 1 \in DOMAIN p /\ Head(p) = p[1]
    BY <1>0, <2>1
  <2>5. q # <<>> => 2 \in DOMAIN p /\ Head(q) = p[2]
    BY <1>0, <2>1
  <2> QED
    BY <2>3, <2>4, <2>5
<1> QED
  BY <1>1, <1>2, <1>3 DEF Moved

(* Such a step keeps the connections in order, *)
LEMMA WiresMoved ==
  ASSUME NEW sd, NEW nt, World(sd, nt), Wires(sd, nt), NEW td, NEW mt, World(td, mt),
         SameRing(sd, nt, td, mt), \A c \in Conn : Moved(sd, c, Pipe(sd, nt, c), Pipe(td, mt, c)),
         mt.rst = {}, \A n \in Node : Seat(td[n]) /\ Ends(td, mt, n) /\ Dropping(td, mt, td[n])
  PROVE  Wires(td, mt)
<1>1. /\ \A m \in Node : Welcome(td, mt, m)
      /\ \A m, e : Follows(td, mt, m, e) <=> Follows(sd, nt, m, e)
  BY SameFollows
<1>2. \A c \in Conn : Dials(td, c) <=> Dials(sd, c)
  BY WorldFacts DEF Dials, SameRing
<1>3. ASSUME NEW c \in Conn
      PROVE  Line(td, mt, c)
  <2>0. c.from \in Node /\ c.to \in Node /\ Pipe(sd, nt, c) \in Seq(PDU) /\ Pipe(td, mt, c) \in Seq(PDU)
    BY WorldFacts
  <2>1. /\ nt.bwd[c] = <<>> /\ (Holds(sd, nt, c) => Inside(sd[c.from]))
        /\ Pipe(sd, nt, c) # <<>> => Holds(sd, nt, c)
        /\ Orderly(sd, nt, c, Pipe(sd, nt, c))
    BY LineOrderly DEF Wires
  <2>2. mt.bwd[c] = <<>> /\ (Holds(td, mt, c) => Inside(td[c.from]))
    BY <2>0, <2>1 DEF SameRing
  <2>3. Dials(sd, c) => Holds(sd, nt, c)
    <3>1. Link(sd, nt, sd[c.from])
      BY <2>0 DEF Wires
    <3> QED
      BY <3>1, NullFacts DEF Link, Dials
  <2>4. Pipe(td, mt, c) # <<>> => Holds(td, mt, c)
    <3>1. CASE Pipe(td, mt, c) = Pipe(sd, nt, c)
      BY <2>1, <3>1 DEF SameRing
    <3>2. CASE Handled(sd, c, Pipe(sd, nt, c), Pipe(td, mt, c))
      BY <2>1, <3>2 DEF SameRing, Handled
    <3>3. CASE Passed(sd, c, Pipe(sd, nt, c), Pipe(td, mt, c))
      BY <2>3, <3>3 DEF SameRing, Passed
    <3> QED
      BY <3>1, <3>2, <3>3 DEF Moved
  <2>5. Orderly(sd, nt, c, Pipe(td, mt, c))
    BY <2>0, <2>1, MovedOrderly
  <2>6. Orderly(td, mt, c, Pipe(td, mt, c))
    <3>1. Waits(sd, nt, c.to) => Waits(td, mt, c.to) /\ First(td, mt, c.to) = First(sd, nt, c.to)
      BY <2>0 DEF SameRing
    <3> QED
      BY ONLY <1>1, <1>2, <2>5, <3>1, c \in Conn DEF Orderly
  <2> QED
    BY <2>2, <2>4, <2>6, LineOrderly
<1>4. ASSUME NEW n \in Node
      PROVE  Link(td, mt, td[n])
  <2>1. Link(sd, nt, sd[n])
    BY DEF Wires
  <2>2. td[n].successor = sd[n].successor
    BY DEF SameRing
  <2>4. sd[n].successor # NULL => td[n].successor_listen = sd[n].successor_listen /\ td[n].end = sd[n].end
    BY DEF SameRing, Wires, Seat, Neighbours
  <2>3. ASSUME td[n].successor # NULL
        PROVE  Holds(td, mt, td[n].successor)
    <3>1. sd[n].successor \in Conn /\ sd[n].successor.from = n
      BY <2>2, <2>3, WorldFacts DEF Wires, Ends
    <3> QED
      BY <2>1, <2>2, <2>3, <3>1 DEF SameRing, Link, Dials
  <2> QED
    BY <1>1, <2>1, <2>2, <2>3, <2>4 DEF Link
<1>5. ASSUME NEW n \in Node
      PROVE  Alone(td, mt, n)
  <2> SUFFICES ASSUME Inside(td[n]), td[n].successor = NULL
               PROVE  /\ \A m \in Node : m # n => ~Inside(td[m])
                      /\ \A c \in Conn : Pipe(td, mt, c) = <<>>
    BY DEF Alone
  <2>1. Inside(sd[n]) /\ sd[n].successor = NULL
    BY DEF SameRing
  <2>2. /\ \A m \in Node : m # n => ~Inside(sd[m])
        /\ \A c \in Conn : Pipe(sd, nt, c) = <<>>
    BY <2>1 DEF Alone, Wires
  <2>3. ASSUME NEW c \in Conn
        PROVE  ~Passed(sd, c, Pipe(sd, nt, c), Pipe(td, mt, c))
    BY <2>1, <2>2, WorldFacts, NullFacts DEF Passed, Dials
  <2> QED
    BY <2>2, <2>3 DEF SameRing, Moved, Handled
<1> QED
  BY <1>1, <1>3, <1>4, <1>5 DEF Wires

(* and every hash with its holder. *)
LEMMA SharesMoved ==
  ASSUME NEW sd, NEW nt, World(sd, nt), Wires(sd, nt), Shares(sd, nt), NEW td, NEW mt, World(td, mt),
         SameRing(sd, nt, td, mt), \A c \in Conn : Moved(sd, c, Pipe(sd, nt, c), Pipe(td, mt, c))
  PROVE  Shares(td, mt)
<1>1. \A n \in Node : Inside(td[n]) <=> Inside(sd[n])
  BY DEF SameRing
<1>2. \A n \in Node, h \in Byte : Owns(td, h, n) <=> Owns(sd, h, n)
  BY DEF SameRing, Owns
<1>3. ASSUME NEW c \in Conn, NEW h \in Byte
      PROVE  Brings(td, mt, h, c) <=> Brings(sd, nt, h, c)
  <2> DEFINE p == Pipe(sd, nt, c)
             q == Pipe(td, mt, c)
  <2>1. q \in Seq(PDU) /\ Moved(sd, c, p, q)
    BY WorldFacts
  <2>2. \/ q # <<>> /\ p # <<>> /\ Head(q) = Head(p)
        \/ /\ q = <<>> \/ Head(q).type # "NET_JOIN_RESPONSE"
           /\ p = <<>> \/ Head(p).type # "NET_JOIN_RESPONSE"
    BY <2>1, MovedBrings
  <2> QED
    BY <2>2 DEF Brings
<1> QED
  BY <1>1, <1>2, <1>3 DEF Shares, OneHolder

(***************************************************************************)
(* NET_JOINs under way.                                                    *)
(***************************************************************************)

(* NET_JOINs in a stream that is read from. *)
LEMMA AsksTail ==
  ASSUME NEW q \in Seq(PDU), q # <<>>, NEW n
  PROVE  /\ Asks(Tail(q), n) => Asks(q, n)
         /\ AsksOnce(q, n) => AsksOnce(Tail(q), n)
         /\ AsksOnce(q, n) /\ JoinOf(Head(q), n) => ~Asks(Tail(q), n)
<1>1. /\ Len(q) \in Nat \ {0} /\ DOMAIN q = 1 .. Len(q) /\ DOMAIN Tail(q) = 1 .. Len(q) - 1
      /\ Head(q) = q[1] /\ \A i \in 1 .. Len(q) - 1 : Tail(q)[i] = q[i + 1] /\ i + 1 \in 1 .. Len(q)
      /\ 1 \in 1 .. Len(q)
  OBVIOUS
<1>2. Asks(Tail(q), n) => Asks(q, n)
  BY <1>1 DEF Asks
<1>3. ASSUME AsksOnce(q, n), NEW i \in 1 .. Len(q) - 1, NEW j \in 1 .. Len(q) - 1,
             JoinOf(Tail(q)[i], n), JoinOf(Tail(q)[j], n)
      PROVE  i = j
  <2>1. i + 1 = j + 1
    BY <1>1, <1>3 DEF AsksOnce
  <2> QED
    BY <1>1, <2>1
<1>4. ASSUME AsksOnce(q, n), JoinOf(Head(q), n), NEW i \in 1 .. Len(q) - 1, JoinOf(Tail(q)[i], n)
      PROVE  FALSE
  <2>1. i + 1 = 1
    BY <1>1, <1>4 DEF AsksOnce
  <2> QED
    BY <1>1, <2>1
<1> QED
  BY <1>1, <1>2, <1>3, <1>4 DEF Asks, AsksOnce

(* NET_JOINs in a stream that is written to. *)
LEMMA AsksConcat ==
  ASSUME NEW q \in Seq(PDU), NEW p \in Seq(PDU), NEW n
  PROVE  /\ Asks(q \o p, n) => Asks(q, n) \/ Asks(p, n)
         /\ AsksOnce(q, n) /\ AsksOnce(p, n) /\ ~(Asks(q, n) /\ Asks(p, n)) => AsksOnce(q \o p, n)
<1>1. /\ Len(q) \in Nat /\ Len(p) \in Nat /\ DOMAIN q = 1 .. Len(q) /\ DOMAIN p = 1 .. Len(p)
      /\ DOMAIN (q \o p) = 1 .. Len(q) + Len(p)
      /\ \A i \in 1 .. Len(q) + Len(p) : (q \o p)[i] = IF i <= Len(q) THEN q[i] ELSE p[i - Len(q)]
  OBVIOUS
<1>2. ASSUME NEW i \in 1 .. Len(q) + Len(p), JoinOf((q \o p)[i], n)
      PROVE  \/ i \in DOMAIN q /\ JoinOf(q[i], n)
             \/ i > Len(q) /\ i - Len(q) \in DOMAIN p /\ JoinOf(p[i - Len(q)], n)
  <2>1. CASE i <= Len(q)
    BY <1>1, <1>2, <2>1
  <2>2. CASE ~(i <= Len(q))
    BY <1>1, <1>2, <2>2
  <2> QED
    BY <2>1, <2>2
<1>3. Asks(q \o p, n) => Asks(q, n) \/ Asks(p, n)
  BY <1>1, <1>2 DEF Asks
<1>4. ASSUME AsksOnce(q, n), AsksOnce(p, n), ~(Asks(q, n) /\ Asks(p, n)),
             NEW i \in 1 .. Len(q) + Len(p), NEW j \in 1 .. Len(q) + Len(p),
             JoinOf((q \o p)[i], n), JoinOf((q \o p)[j], n)
      PROVE  i = j
  <2>1. /\ \/ i \in DOMAIN q /\ JoinOf(q[i], n)
           \/ i > Len(q) /\ i - Len(q) \in DOMAIN p /\ JoinOf(p[i - Len(q)], n)
        /\ \/ j \in DOMAIN q /\ JoinOf(q[j], n)
           \/ j > Len(q) /\ j - Len(q) \in DOMAIN p /\ JoinOf(p[j - Len(q)], n)
    BY <1>2, <1>4
  <2>2. CASE Asks(q, n)
    BY <1>4, <2>1, <2>2 DEF AsksOnce, Asks
  <2>3. CASE ~Asks(q, n)
    <3>1. i - Len(q) = j - Len(q)
      BY <1>4, <2>1, <2>3 DEF AsksOnce, Asks
    <3> QED
      BY <1>1, <3>1
  <2> QED
    BY <2>2, <2>3
<1> QED
  BY <1>1, <1>3, <1>4 DEF AsksOnce

(* A stream without NET_JOIN, and one NET_JOIN. *)
LEMMA AsksSimple ==
  ASSUME NEW n
  PROVE  /\ \A q \in Seq(PDU) : (\A i \in DOMAIN q : q[i].type # "NET_JOIN") => ~Asks(q, n) /\ AsksOnce(q, n)
         /\ \A pdu \in PDU : AsksOnce(<<pdu>>, n) /\ (Asks(<<pdu>>, n) <=> JoinOf(pdu, n))
         /\ ~Asks(<<>>, n) /\ AsksOnce(<<>>, n)
  BY DEF Asks, AsksOnce, JoinOf

(* A box in which there is no NET_JOIN that was not there. *)
Less(p, q, n) == (Asks(q, n) => Asks(p, n)) /\ (AsksOnce(p, n) => AsksOnce(q, n))

(* Nothing, a tail, and PDUs other than NET_JOIN bring no NET_JOIN up. *)
LEMMA LessSimple ==
  ASSUME NEW n, NEW p \in Seq(PDU)
  PROVE  /\ Less(p, p, n) /\ Less(p, <<>>, n)
         /\ p # <<>> => Less(p, Tail(p), n)
         /\ \A q \in Seq(PDU) : (\A i \in DOMAIN q : q[i].type # "NET_JOIN") => Less(p, p \o q, n) /\ Less(p, q, n)
         /\ \A pdu \in PDU : ~JoinOf(pdu, n) => Less(p, Append(p, pdu), n) /\ Less(p, <<pdu>>, n)
<1>1. Less(p, p, n) /\ Less(p, <<>>, n)
  BY AsksSimple DEF Less
<1>2. p # <<>> => Less(p, Tail(p), n)
  BY AsksTail DEF Less
<1>3. ASSUME NEW q \in Seq(PDU), ~Asks(q, n), AsksOnce(q, n)
      PROVE  Less(p, p \o q, n) /\ Less(p, q, n)
  BY <1>3, AsksConcat DEF Less
<1>4. ASSUME NEW pdu \in PDU, ~JoinOf(pdu, n)
      PROVE  Less(p, Append(p, pdu), n) /\ Less(p, <<pdu>>, n)
  <2>1. Append(p, pdu) = p \o <<pdu>> /\ <<pdu>> \in Seq(PDU)
    OBVIOUS
  <2> QED
    BY <1>3, <1>4, <2>1, AsksSimple
<1> QED
  BY <1>1, <1>2, <1>3, <1>4, AsksSimple

(* Fewer NET_JOINs of n than before. *)
LEMMA OnceLess ==
  ASSUME NEW b, NEW U, NEW d, NEW V, NEW n, Once(b, U, n), \A x \in BoxId : Less(b[x], d[x], n),
         \A e \in V : JoinOf(e.pdu, n) => e \in U
  PROVE  Once(d, V, n) /\ (Sought(d, V, n) => Sought(b, U, n))
  BY DEF Once, Less, Sought

(* The NET_JOIN of n moves from one box to another. *)
LEMMA OnceMove ==
  ASSUME NEW b, NEW U, NEW d, NEW n, Once(b, U, n), NEW x \in BoxId, NEW y \in BoxId, x # y, Asks(b[x], n),
         ~Asks(d[x], n), AsksOnce(d[y], n), AsksOnce(d[x], n), \A z \in BoxId \ {x, y} : Less(b[z], d[z], n)
  PROVE  Once(d, U, n) /\ Sought(b, U, n)
  BY DEF Once, Less, Sought

(* Nobody asks for a node to be let in that has not asked for it. *)
LEMMA NotSought ==
  ASSUME NEW sd, NEW nt, Requests(sd, nt), NEW n \in Node, ~Applicant(sd, nt, n)
  PROVE  ~Sought(Boxes(sd, nt), nt.udp, n)
  BY DEF Requests

(* Nothing new is asked. *)
LEMMA RequestsLess ==
  ASSUME NEW sd, NEW nt, Requests(sd, nt), NEW td, NEW mt,
         \A n \in Node, x \in BoxId : Less(Boxes(sd, nt)[x], Boxes(td, mt)[x], n),
         \A e \in mt.udp : e.pdu.type = "NET_JOIN" => e \in nt.udp,
         \A n \in Node : Applicant(sd, nt, n) => Applicant(td, mt, n)
  PROVE  Requests(td, mt)
<1> SUFFICES ASSUME NEW n \in Node
             PROVE  /\ Once(Boxes(td, mt), mt.udp, n)
                    /\ Sought(Boxes(td, mt), mt.udp, n) => Applicant(td, mt, n)
  BY DEF Requests
<1>1. Once(Boxes(sd, nt), nt.udp, n) /\ (Sought(Boxes(sd, nt), nt.udp, n) => Applicant(sd, nt, n))
  BY DEF Requests
<1>2. \A e \in mt.udp : JoinOf(e.pdu, n) => e \in nt.udp
  BY DEF JoinOf
<1>3. \A x \in BoxId : Less(Boxes(sd, nt)[x], Boxes(td, mt)[x], n)
  OBVIOUS
<1>4. Once(Boxes(td, mt), mt.udp, n) /\ (Sought(Boxes(td, mt), mt.udp, n) => Sought(Boxes(sd, nt), nt.udp, n))
  BY ONLY <1>1, <1>2, <1>3, OnceLess
<1> QED
  BY <1>1, <1>4

(* The boxes. *)
LEMMA ConnBox ==
  ASSUME NEW sd, NEW nt, NEW c \in Conn
  PROVE  <<"conn", c>> \in BoxId /\ Boxes(sd, nt)[<<"conn", c>>] = Pipe(sd, nt, c)
  BY DEF BoxId, Boxes, Box

(* The places at a node are among the places a NET_JOIN can be in, *)
LEMMA NodeBox ==
  ASSUME NEW sd, NEW nt, NEW n \in Node
  PROVE  /\ <<"queue", n>> \in BoxId /\ Boxes(sd, nt)[<<"queue", n>>] = sd[n].queue["UDP"]
         /\ <<"noted", n>> \in BoxId /\ Boxes(sd, nt)[<<"noted", n>>] = JoinNoted(sd[n])
  BY DEF BoxId, Boxes, Box

(* there are no others than those three kinds, *)
LEMMA BoxForms ==
  ASSUME NEW x \in BoxId
  PROVE  \/ \E c \in Conn : x = <<"conn", c>>
         \/ \E n \in Node : x = <<"queue", n>>
         \/ \E n \in Node : x = <<"noted", n>>
  BY DEF BoxId

(* last_pdu is a NET_JOIN while one is being handled, *)
LEMMA JoinNotedType ==
  ASSUME NEW sd, NEW nt, World(sd, nt), NEW n \in Node
  PROVE  /\ JoinNoted(sd[n]) \in Seq(PDU)
         /\ Live(sd[n]) => sd[n].last_pdu \in PDU /\ sd[n].last_pdu.type = "NET_JOIN"
<1>1. Live(sd[n]) => sd[n].last_pdu \in PDU /\ sd[n].last_pdu.type = "NET_JOIN"
  BY DEF World, Sound, Noted, Named, Live, Memory
<1> QED
  BY <1>1 DEF JoinNoted

(* and each place holds PDUs in their order. *)
LEMMA BoxType ==
  ASSUME NEW sd, NEW nt, World(sd, nt)
  PROVE  \A x \in BoxId : Boxes(sd, nt)[x] \in Seq(PDU)
<1>1. SUFFICES ASSUME NEW x \in BoxId PROVE Boxes(sd, nt)[x] \in Seq(PDU)
  OBVIOUS
<1>2. CASE \E c \in Conn : x = <<"conn", c>>
  <2>1. PICK c \in Conn : x = <<"conn", c>>
    BY <1>2
  <2>2. Pipe(sd, nt, c) \in Seq(PDU)
    BY WorldFacts
  <2> QED
    BY <2>1, <2>2, ConnBox
<1>3. CASE \E n \in Node : x = <<"queue", n>>
  <2>1. PICK n \in Node : x = <<"queue", n>>
    BY <1>3
  <2>2. sd[n].queue["UDP"] \in Seq(PDU)
    BY WorldFacts
  <2> QED
    BY <1>1, <2>1, <2>2 DEF Boxes, Box
<1>4. CASE \E n \in Node : x = <<"noted", n>>
  <2>1. PICK n \in Node : x = <<"noted", n>>
    BY <1>4
  <2>2. JoinNoted(sd[n]) \in Seq(PDU)
    BY JoinNotedType
  <2> QED
    BY <1>1, <2>1, <2>2 DEF Boxes, Box
<1> QED
  BY <1>2, <1>3, <1>4, BoxForms

(***************************************************************************)
(* One node changes.                                                       *)
(***************************************************************************)
Peers(sd, td, n) == \A m \in Node : m # n => td[m] = sd[m]

(* A step of one node adds no NET_JOIN to a place that it does not touch. *)
LEMMA BoxesLess ==
  ASSUME NEW sd, NEW nt, World(sd, nt), NEW td, NEW mt, NEW n \in Node, Peers(sd, td, n), NEW k,
         \A c \in Conn : Less(Pipe(sd, nt, c), Pipe(td, mt, c), k),
         Less(sd[n].queue["UDP"], td[n].queue["UDP"], k), Less(JoinNoted(sd[n]), JoinNoted(td[n]), k)
  PROVE  \A x \in BoxId : Less(Boxes(sd, nt)[x], Boxes(td, mt)[x], k)
<1> SUFFICES ASSUME NEW x \in BoxId
             PROVE  Less(Boxes(sd, nt)[x], Boxes(td, mt)[x], k)
  OBVIOUS
<1>1. ASSUME NEW c \in Conn, x = <<"conn", c>>
      PROVE  Less(Boxes(sd, nt)[x], Boxes(td, mt)[x], k)
  BY <1>1, ConnBox
<1>2. ASSUME NEW m \in Node
      PROVE  Less(sd[m].queue["UDP"], td[m].queue["UDP"], k) /\ Less(JoinNoted(sd[m]), JoinNoted(td[m]), k)
  <2>1. CASE m = n
    BY <2>1
  <2>2. CASE m # n
    BY <2>2, LessSimple, WorldFacts, JoinNotedType DEF Peers
  <2> QED
    BY <2>1, <2>2
<1>3. ASSUME NEW m \in Node, x = <<"queue", m>>
      PROVE  Less(Boxes(sd, nt)[x], Boxes(td, mt)[x], k)
  <2>1. Boxes(sd, nt)[x] = sd[m].queue["UDP"] /\ Boxes(td, mt)[x] = td[m].queue["UDP"]
    BY <1>3 DEF Boxes, Box
  <2>2. Less(sd[m].queue["UDP"], td[m].queue["UDP"], k)
    BY <1>2
  <2> QED
    BY ONLY <2>1, <2>2
<1>4. ASSUME NEW m \in Node, x = <<"noted", m>>
      PROVE  Less(Boxes(sd, nt)[x], Boxes(td, mt)[x], k)
  <2>1. Boxes(sd, nt)[x] = JoinNoted(sd[m]) /\ Boxes(td, mt)[x] = JoinNoted(td[m])
    BY <1>4 DEF Boxes, Box
  <2>2. Less(JoinNoted(sd[m]), JoinNoted(td[m]), k)
    BY <1>2
  <2> QED
    BY ONLY <2>1, <2>2
<1> QED
  BY <1>1, <1>3, <1>4, BoxForms

(* Its place in the ring stays. *)
Kin(s, t) ==
  /\ Inside(t) <=> Inside(s)
  /\ Asked(t) <=> Asked(s)
  /\ Told(t) <=> Told(s)
  /\ t.start = s.start /\ t.end = s.end
  /\ t.successor = s.successor /\ t.successor_listen = s.successor_listen /\ t.predecessor = s.predecessor

(* A node that keeps its range and its neighbours keeps the ring. *)
LEMMA KinRing ==
  ASSUME NEW sd, NEW nt, World(sd, nt), Wires(sd, nt), NEW td, NEW mt, World(td, mt), NEW n \in Node,
         Peers(sd, td, n), Kin(sd[n], td[n]), mt.backlog = nt.backlog, mt.bwd = nt.bwd
  PROVE  /\ SameRing(sd, nt, td, mt) /\ \A m \in Node : Ends(td, mt, m)
         /\ \A m \in Node : Applicant(sd, nt, m) <=> Applicant(td, mt, m)
<1>1. \A m \in Node : Kin(sd[m], td[m])
  BY DEF Peers, Kin
<1>2. \A m \in Node : Waits(td, mt, m) <=> Waits(sd, nt, m)
  BY <1>1 DEF Kin, Waits
<1>3. \A m \in Node : First(td, mt, m) = First(sd, nt, m)
  BY <1>1 DEF Kin, First
<1>4. \A c \in Conn : Holds(td, mt, c) <=> Holds(sd, nt, c)
  BY <1>1, WorldFacts DEF Kin, Holds
<1>5. \A m \in Node : Ends(sd, nt, m)
  BY DEF Wires
<1>6. \A m \in Node : Ends(td, mt, m)
  BY <1>1, <1>2, <1>5 DEF Kin, Ends, Expected
<1> QED
  BY <1>1, <1>2, <1>3, <1>4, <1>6 DEF SameRing, Kin, Applicant

(* With it, all that WiresMoved and SharesMoved ask of the others. *)
LEMMA KinStep ==
  ASSUME NEW sd, NEW nt, World(sd, nt), Wires(sd, nt), Shares(sd, nt), NEW td, NEW mt, World(td, mt),
         NEW n \in Node, Peers(sd, td, n), Kin(sd[n], td[n]),
         mt.backlog = nt.backlog, mt.bwd = nt.bwd, mt.rst = {},
         \A c \in Conn : Moved(sd, c, Pipe(sd, nt, c), Pipe(td, mt, c)),
         Seat(td[n]), Closing(sd[n]) \/ Dropping(td, mt, td[n])
  PROVE  Wires(td, mt) /\ Shares(td, mt)
<1>1. SameRing(sd, nt, td, mt) /\ \A m \in Node : Ends(td, mt, m)
  BY KinRing
<1>2. \A m \in Node : Seat(td[m])
  BY DEF Peers, Wires
<1>3. \A m \in Node : td[m].predecessor = sd[m].predecessor
  BY DEF Peers, Kin
<1>4. ASSUME NEW m \in Node, Closing(sd[m])
      PROVE  Dropping(td, mt, td[m])
  <2>1. Seat(sd[m]) /\ Dropping(sd, nt, sd[m])
    BY DEF Wires
  <2>2. sd[m].predecessor # NULL
    BY <1>4, <2>1 DEF Seat, Neighbours, Closing, Inside, Inner
  <2>3. PICK c \in Conn : c = sd[m].predecessor
    BY <2>2, WorldFacts
  <2>4. Pipe(sd, nt, c) = <<>> /\ ~Dials(sd, c)
    BY <1>4, <2>1, <2>3 DEF Dropping
  <2>5. Moved(sd, c, Pipe(sd, nt, c), Pipe(td, mt, c))
    BY <2>3
  <2>6. Pipe(td, mt, c) = <<>>
    BY <2>4, <2>5 DEF Moved, Handled, Passed
  <2>7. ~Dials(td, c)
    BY <1>1, <2>4, WorldFacts DEF Dials, SameRing
  <2> QED
    BY <1>3, <2>3, <2>6, <2>7 DEF Dropping
<1>5. \A m \in Node : Dropping(td, mt, td[m])
  <2> SUFFICES ASSUME NEW m \in Node
               PROVE  Dropping(td, mt, td[m])
    OBVIOUS
  <2>1. CASE Closing(sd[m])
    BY <1>4, <2>1
  <2>2. CASE ~Closing(sd[m]) /\ m # n
    BY <2>2 DEF Dropping, Peers
  <2> QED
    BY <2>1, <2>2
<1> QED
  BY <1>1, <1>2, <1>5, WiresMoved, SharesMoved

(***************************************************************************)
(* Datagrams and the table of the tracker.                                 *)
(***************************************************************************)
NodeReply(d) == Reply(d) /\ d.pdu.type = "NET_GET_NODE_RESPONSE"

(* Nothing is on its way between n and the tracker that n waits for. *)
NoMail(U, n) ==
  \A d \in U : /\ ~(Reply(d) /\ d.dst = n)
               /\ ~(d.dst = Tracker /\ d.src = n /\ d.pdu.type # "NET_ALIVE")

Requested(q) == \A i \in DOMAIN q : q[i].type \in Values \cup {"NET_JOIN"}

(* A node inside has none. *)
LEMMA InsideNoMail ==
  ASSUME NEW sd, NEW U, Mail(sd, U), NEW n, Inside(sd[n]) \/ sd[n].state \in {"Q1", "Q4", "Q7", "Q8"}
  PROVE  NoMail(U, n)
  BY DEF Mail, Letter, NoMail, Inside, Inner, Reply

(* A node changes and datagrams are taken. *)
LEMMA MailKept ==
  ASSUME NEW sd, NEW U, Mail(sd, U), NEW td, NEW V \in SUBSET U, NEW n \in Node, Peers(sd, td, n),
         Inside(sd[n]) => Inside(td[n]), Requested(td[n].queue["UDP"]),
         (td[n].state = sd[n].state /\ td[n].at = sd[n].at) \/ NoMail(V, n)
  PROVE  Mail(td, V)
<1>1. ASSUME NEW d \in V
      PROVE  Letter(td, d)
  <2>1. Letter(sd, d)
    BY DEF Mail
  <2>2. d.dst \in Node => d.dst = n \/ td[d.dst] = sd[d.dst]
    BY DEF Peers
  <2>3. d.dst = Tracker => d.src = n \/ td[d.src] = sd[d.src]
    BY <2>1 DEF Peers, Letter
  <2> QED
    BY <2>1, <2>2, <2>3 DEF Letter, Reply, NoMail, Values
<1>2. \A m \in Node : Requested(td[m].queue["UDP"])
  BY DEF Mail, Peers, Requested
<1> QED
  BY <1>1, <1>2 DEF Mail, Requested

(* A datagram is sent. *)
LEMMA MailAdd ==
  ASSUME NEW sd, NEW U, Mail(sd, U), NEW d, Letter(sd, d), Tracker \notin Node,
         Reply(d) => \A e \in U : ~(Reply(e) /\ e.dst = d.dst) /\ ~(e.dst = Tracker /\ e.src = d.dst),
         d.dst = Tracker => \A e \in U : ~(Reply(e) /\ e.dst = d.src)
  PROVE  Mail(sd, U \cup {d})
<1>1. \A e \in U \cup {d} : Letter(sd, e)
  BY DEF Mail
<1>2. \A e, f \in U \cup {d} : Reply(e) /\ Reply(f) /\ e.dst = f.dst => e = f
  BY DEF Mail
<1>3. Reply(d) => d.dst # Tracker
  BY DEF Reply
<1>4. \A e, f \in U \cup {d} : ~(Reply(e) /\ f.dst = Tracker /\ f.src = e.dst)
  BY <1>3 DEF Mail
<1> QED
  BY <1>1, <1>2, <1>4 DEF Mail

(* A node changes, and what the tracker has said of its table stays true. *)
LEMMA TableKept ==
  ASSUME NEW sd, NEW U, NEW T, Table(sd, U, T), NEW td, NEW V, NEW n \in Node, Peers(sd, td, n), T \subseteq Node,
         \A d \in V : NodeReply(d) => d \in U,
         Inside(sd[n]) => Inside(td[n]), td[n].process = sd[n].process,
         td[n].state = "Q4" => sd[n].state = "Q4" \/ T = {},
         td[n].state = "Q7" /\ td[n].at = "run" =>
            \/ sd[n].state = "Q7" /\ sd[n].at = "run" /\ td[n].last_pdu = sd[n].last_pdu
            \/ td[n].last_pdu.node \in T
  PROVE  Table(td, V, T)
<1>1. \A m \in T : Inside(td[m])
  BY DEF Table, Peers
<1>2. \A m \in Node : td[m].process = sd[m].process
  BY DEF Peers
<1>3. \A m \in Node : td[m].state = "Q4" => T = {}
  BY DEF Table, Peers
<1>4. \A m \in Node : td[m].state = "Q7" /\ td[m].at = "run" => td[m].last_pdu.node \in T
  BY DEF Table, Peers
<1> QED
  BY <1>1, <1>2, <1>3, <1>4 DEF Table, NodeReply

(* Datagrams are lost or read; a node says that it is alive or answers a lookup,
   the client sends a request. *)
Posted(sd, d) ==
  /\ Letter(sd, d) /\ ~Reply(d) /\ d.pdu.type # "NET_JOIN"
  /\ d.dst = Tracker => d.pdu.type = "NET_ALIVE"

(* Datagrams to the tracker and requests may be added, any may be lost. *)
LEMMA MailPosted ==
  ASSUME NEW sd, NEW U, Mail(sd, U), NEW V, \A d \in V : d \in U \/ Posted(sd, d)
  PROVE  Mail(sd, V)
<1>1. \A d \in V : Letter(sd, d)
  BY DEF Mail, Posted
<1>2. \A d \in V : Reply(d) => d \in U
  BY DEF Posted
<1>3. ASSUME NEW d \in V, NEW e \in V, Reply(d), e.dst = Tracker, e.src = d.dst
      PROVE  FALSE
  <2>1. d \in U
    BY <1>2, <1>3
  <2>2. CASE e \in U
    BY <1>3, <2>1, <2>2 DEF Mail
  <2>3. CASE Posted(sd, e)
    <3>1. Inside(sd[d.dst])
      BY <1>1, <1>3, <2>3 DEF Posted, Letter
    <3>2. sd[d.dst].state \in {"Q2", "Q3"}
      BY <1>1, <1>3 DEF Letter, Reply
    <3> QED
      BY <3>1, <3>2 DEF Inside, Inner
  <2> QED
    BY <2>2, <2>3
<1> QED
  BY <1>1, <1>2, <1>3 DEF Mail

(* A node in the ring does something that concerns nobody else's place. *)
LEMMA InnerGood ==
  ASSUME NEW sd, NEW nt, World(sd, nt), NEW T \in SUBSET Node, Good(sd, nt, T), NEW td, NEW mt, World(td, mt),
         NEW n \in Node, Peers(sd, td, n), Kin(sd[n], td[n]), Inside(sd[n]), td[n].process = sd[n].process,
         mt.backlog = nt.backlog, mt.bwd = nt.bwd, mt.rst = {},
         \A c \in Conn : Moved(sd, c, Pipe(sd, nt, c), Pipe(td, mt, c)),
         Seat(td[n]), Closing(sd[n]) \/ Dropping(td, mt, td[n]),
         \A d \in mt.udp : d \in nt.udp \/ Posted(td, d),
         Requested(td[n].queue["UDP"]), Requests(td, mt)
  PROVE  Good(td, mt, T)
<1>1. Wires(sd, nt) /\ Mail(sd, nt.udp) /\ Table(sd, nt.udp, T) /\ Shares(sd, nt)
  BY DEF Good
<1>2. Wires(td, mt) /\ Shares(td, mt)
  BY <1>1, KinStep
<1>3. NoMail(nt.udp, n)
  BY <1>1, InsideNoMail
<1>4. Inside(td[n])
  BY DEF Kin
<1>5. Mail(td, nt.udp)
  BY <1>1, <1>3, <1>4, MailKept
<1>6. Mail(td, mt.udp)
  BY <1>5, MailPosted
<1>7. \A d \in mt.udp : NodeReply(d) => d \in nt.udp
  BY DEF Posted, NodeReply
<1>8. td[n].state # "Q4" /\ td[n].state # "Q7"
  BY <1>4 DEF Inside, Inner
<1>9. Table(td, mt.udp, T)
  BY <1>1, <1>4, <1>7, <1>8, TableKept
<1> QED
  BY <1>2, <1>6, <1>9 DEF Good

(***************************************************************************)
(* How a step ends.                                                        *)
(***************************************************************************)

(* q6 goes on to the next event. *)
LEMMA SettleFields ==
  ASSUME NEW s \in Memory, ~s.should_close, NEW t, t = Settle(s)
  PROVE  /\ t.process = s.process /\ t.state = s.state /\ t.start = s.start /\ t.end = s.end
         /\ t.values = s.values /\ t.last_pdu = s.last_pdu /\ t.successor = s.successor
         /\ t.successor_listen = s.successor_listen /\ t.predecessor = s.predecessor
         /\ t.queue = s.queue /\ ~t.should_close /\ t.alive_due = s.alive_due
         /\ (t.at = s.at /\ t.events = s.events) \/ (s.at = "handle" /\ t.at = "run")
               \/ (s.at = "handle" /\ t.at = "read" /\ Len(s.events) > 1 /\ t.events = Tail(s.events))
<1>1. CASE s.at # "handle" \/ s.queue[Head(s.events)] # <<>>
  BY <1>1 DEF Settle
<1>2. CASE s.at = "handle" /\ s.queue[Head(s.events)] = <<>> /\ Len(s.events) > 1
  BY <1>2 DEF Settle, Memory
<1>3. CASE s.at = "handle" /\ s.queue[Head(s.events)] = <<>> /\ ~(Len(s.events) > 1)
  BY <1>3 DEF Settle, Memory
<1> QED
  BY <1>1, <1>2, <1>3

(* Nothing is reset here, so that a step has the effect that its action names. *)
LEMMA BecomeIs ==
  ASSUME NodeInv, NEW n \in Node, NEW s, NEW nt, NetSound(nt), nt.rst = {}, Become(n, s, nt)
  PROVE  net' = nt /\ node'[n] = Settle(s) /\ Peers(node, node', n)
<1>1. node' = [node EXCEPT ![n] = Settle(s)]
  BY DEF Become
<1>2. net' = [nt EXCEPT !.rst = {}]
  BY DEF Become, NetSound, Kernel
<1>3. net' = nt
  BY <1>2 DEF NetSound, Kernel
<1> QED
  BY <1>1, <1>3 DEF NodeInv, Peers

(* The invariant of RustRingProofs makes a state of the network, *)
LEMMA InvWorld ==
  ASSUME NodeInv
  PROVE  World(node, net)
  BY DEF NodeInv, World, NetSound

(* also of the state that a step leads to. *)
LEMMA InvWorldNext ==
  ASSUME NodeInv'
  PROVE  World(node', net')
<1>1. node' \in [Node -> Memory] /\ net' \in Kernel
  BY DEF NodeInv, NetSound
<1>2. \A n \in Node : Sound(node'[n])
  BY DEF NodeInv, Sound, Noted, Attached, Watching, Connected, Named
<1> QED
  BY <1>1, <1>2 DEF World

(* The invariant, of the state that a step leads to. *)
LEMMA GoodNext ==
  ASSUME Good(node', net', nodes')
  PROVE  JoinInv'
  BY DEF JoinInv

(* A node inside the ring changes, and its range does not. *)
LEMMA SteadyStep ==
  ASSUME NodeInv, NEW n \in Node, NEW s \in Memory, NEW nt, Become(n, s, nt), NetSound(nt), nt.rst = {},
         ~s.should_close, NEW X,
         s.process = node[n].process, s.start = node[n].start, s.end = node[n].end,
         Inside(s) <=> Inside(node[n]), s.at = "handle" => s.state # "Q5",
         s.state = "Q13" => s.last_pdu.max = n \/ (node[n].state = "Q13" /\ s.last_pdu = node[n].last_pdu),
         Live(s) => Underway(node, net, s.last_pdu),
         \A t \in Token : \A p \in Range(s.queue[t]) : p.type = "NET_JOIN" => Underway(node, net, p),
         \A c \in Conn : \A p \in Range(nt.fwd[c]) : p.type = "NET_JOIN" => Underway(node, net, p) \/ p \in X,
         \A d \in nt.udp : d.pdu.type = "NET_JOIN" => d \in net.udp
  PROVE  Steady(X)
<1>1. PICK td : td = node' /\ td = [node EXCEPT ![n] = Settle(s)]
  BY DEF Become
<1>2. PICK mt : mt = net' /\ mt.fwd = nt.fwd /\ mt.udp = nt.udp
  BY BecomeIs
<1>3. PICK t : t = Settle(s)
  OBVIOUS
<1>4. /\ t.process = s.process /\ t.state = s.state /\ t.start = s.start /\ t.end = s.end
      /\ t.last_pdu = s.last_pdu /\ t.queue = s.queue
      /\ t.at = s.at \/ s.at = "handle"
  BY <1>3, SettleFields
<1>5. td[n] = t /\ \A m \in Node : m # n => td[m] = node[m]
  BY <1>1, <1>3 DEF NodeInv
<1>6. Live(t) => Live(s)
  BY <1>4 DEF Live
<1>7. ASSUME NEW m \in Node
      PROVE  /\ td[m].start = node[m].start /\ td[m].end = node[m].end
             /\ Inside(td[m]) <=> Inside(node[m])
             /\ td[m].process = node[m].process
             /\ Chosen(node, m) => Chosen(td, m)
  <2>1. CASE m # n
    BY <1>5, <2>1 DEF Chosen
  <2>2. CASE m = n
    BY <1>4, <1>5, <2>2 DEF Chosen, Inside
  <2> QED
    BY <2>1, <2>2
<1>8. ASSUME NEW p \in PDU, Underway(td, mt, p) PROVE Underway(node, net, p) \/ p \in X
  <2>1. p.type = "NET_JOIN"
    BY <1>8 DEF Underway
  <2>2. ASSUME NEW m \in Node, NEW k \in Token, p \in Range(td[m].queue[k]) PROVE Underway(node, net, p)
    <3>1. CASE m # n
      BY <1>5, <2>1, <2>2, <3>1 DEF Underway
    <3>2. CASE m = n
      BY <1>4, <1>5, <2>1, <2>2, <3>2
    <3> QED
      BY <3>1, <3>2
  <2>3. ASSUME NEW m \in Node, Live(td[m]), p = td[m].last_pdu PROVE Underway(node, net, p)
    <3>1. CASE m # n
      BY <1>5, <2>1, <2>3, <3>1 DEF Underway
    <3>2. CASE m = n
      BY <1>4, <1>5, <1>6, <2>1, <2>3, <3>2
    <3> QED
      BY <3>1, <3>2
  <2>4. ASSUME NEW c \in Conn, p \in Range(mt.fwd[c]) PROVE Underway(node, net, p) \/ p \in X
    BY <1>2, <2>1, <2>4
  <2>5. ASSUME NEW d \in mt.udp, p = d.pdu PROVE Underway(node, net, p)
    BY <1>2, <2>1, <2>5 DEF Underway
  <2> QED
    BY <1>8, <2>2, <2>3, <2>4, <2>5 DEF Underway
<1> QED
  BY <1>1, <1>2, <1>7, <1>8 DEF Steady

(* Nothing happens but that datagrams come and go. *)
LEMMA SteadyPost ==
  ASSUME node' = node, net'.fwd = net.fwd, \A d \in net'.udp : d.pdu.type = "NET_JOIN" => d \in net.udp
  PROVE  Steady({})
<1>1. PICK td, mt : td = node' /\ mt = net' /\ td = node /\ mt.fwd = net.fwd
                    /\ \A d \in mt.udp : d.pdu.type = "NET_JOIN" => d \in net.udp
  OBVIOUS
<1>2. \A p \in PDU : Underway(td, mt, p) => Underway(node, net, p)
  BY <1>1 DEF Underway
<1>3. \A m \in Node : Chosen(node, m) => Chosen(td, m)
  BY <1>1
<1> QED
  BY <1>1, <1>2, <1>3 DEF Steady

(* What is in the queues of a node was underway. *)
LEMMA QueueUnderway ==
  ASSUME NEW sd, NEW nt, NEW n \in Node
  PROVE  /\ \A t \in Token : \A p \in Range(sd[n].queue[t]) : p.type = "NET_JOIN" => Underway(sd, nt, p)
         /\ \A c \in Conn : \A p \in Range(nt.fwd[c]) : p.type = "NET_JOIN" => Underway(sd, nt, p)
         /\ Live(sd[n]) /\ sd[n].last_pdu.type = "NET_JOIN" => Underway(sd, nt, sd[n].last_pdu)
  BY DEF Underway

(***************************************************************************)
(* Steps inside the ring that move nothing.                                *)
(***************************************************************************)
(* Nothing is read or written on a connection, and no NET_JOIN comes or goes. *)
LEMMA CalmGood ==
  ASSUME NEW sd, NEW nt, World(sd, nt), NEW T \in SUBSET Node, Good(sd, nt, T), NEW td, NEW mt, World(td, mt),
         NEW n \in Node, Peers(sd, td, n), Kin(sd[n], td[n]), Inside(sd[n]), td[n].process = sd[n].process,
         mt.backlog = nt.backlog, mt.bwd = nt.bwd, mt.rst = {},
         \A c \in Conn : Pipe(td, mt, c) = Pipe(sd, nt, c),
         Seat(td[n]), Closing(td[n]) => Closing(sd[n]),
         \A d \in mt.udp : d \in nt.udp \/ Posted(td, d),
         td[n].queue["UDP"] = sd[n].queue["UDP"], JoinNoted(td[n]) = JoinNoted(sd[n])
  PROVE  Good(td, mt, T)
<1>1. Wires(sd, nt) /\ Mail(sd, nt.udp) /\ Requests(sd, nt)
  BY DEF Good
<1>2. \A c \in Conn : Moved(sd, c, Pipe(sd, nt, c), Pipe(td, mt, c))
  BY DEF Moved
<1>3. Requested(td[n].queue["UDP"])
  BY <1>1 DEF Mail, Requested
<1>4. Closing(sd[n]) \/ Dropping(td, mt, td[n])
  BY DEF Dropping
<1>5. ASSUME NEW k \in Node
      PROVE  \A x \in BoxId : Less(Boxes(sd, nt)[x], Boxes(td, mt)[x], k)
  <2>1. \A c \in Conn : Less(Pipe(sd, nt, c), Pipe(td, mt, c), k)
    BY WorldFacts, LessSimple
  <2>2. /\ Less(sd[n].queue["UDP"], td[n].queue["UDP"], k)
        /\ Less(JoinNoted(sd[n]), JoinNoted(td[n]), k)
    BY WorldFacts, JoinNotedType, LessSimple
  <2> QED
    BY <2>1, <2>2, BoxesLess
<1>6. \A e \in mt.udp : e.pdu.type = "NET_JOIN" => e \in nt.udp
  BY DEF Posted
<1>7. \A m \in Node : Applicant(sd, nt, m) => Applicant(td, mt, m)
  BY <1>1, KinRing
<1>8. Requests(td, mt)
  BY <1>1, <1>5, <1>6, <1>7, RequestsLess
<1> QED
  BY <1>2, <1>3, <1>4, <1>8, InnerGood

(* A node of the ring. *)
LEMMA Seated ==
  ASSUME JoinInv, NodeInv, NEW n \in Node
  PROVE  /\ Seat(node[n]) /\ Sound(node[n]) /\ node[n] \in Memory
         /\ net.rst = {} /\ NetSound(net) /\ World(node, net)
  BY InvWorld DEF JoinInv, Good, Wires, NodeInv, World

(* The kernel is as it was, or one datagram was sent. *)
LEMMA CalmStep ==
  ASSUME NodeInv, NodeInv', JoinInv, nodes \in SUBSET Node, nodes' = nodes, NEW n \in Node, NEW s, NEW nt,
         NetSound(nt), Become(n, s, nt), s \in Memory, Inside(node[n]), Kin(node[n], s),
         s.process = node[n].process, s.queue = node[n].queue, s.should_close = node[n].should_close,
         nt.backlog = net.backlog, nt.bwd = net.bwd, nt.rst = net.rst, nt.fwd = net.fwd,
         Seat(s), Settled(s), Closing(s) => Closing(node[n]),
         \A d \in nt.udp : d \in net.udp \/ Posted(node, d), JoinNoted(s) = JoinNoted(node[n]),
         s.at = "handle" => s.state # "Q5",
         s.state = "Q13" => s.last_pdu.max = n \/ (node[n].state = "Q13" /\ s.last_pdu = node[n].last_pdu)
  PROVE  JoinInv' /\ Steady({})
<1>1. /\ Seat(node[n]) /\ net.rst = {} /\ World(node, net) /\ World(node', net')
  BY Seated, InvWorldNext
<1>2. Settle(s) = s
  BY DEF Settle, Settled
<1>3. net' = nt /\ node'[n] = s /\ Peers(node, node', n)
  BY <1>1, <1>2, BecomeIs
<1>4. ASSUME NEW c \in Conn
      PROVE  Pipe(node', net', c) = Pipe(node, net, c)
  <2>1. c.to \in Node
    BY ConnFields
  <2> QED
    BY <1>3, <2>1 DEF Pipe, Peers, Kin
<1>5. \A d : Posted(node, d) => Posted(node', d)
  <2>1. ASSUME NEW d, Posted(node, d)
        PROVE  Letter(node', d)
    <3>1. \A m \in Node : Inside(node[m]) => Inside(node'[m])
      BY <1>3 DEF Peers, Kin
    <3> QED
      BY <2>1, <3>1 DEF Posted, Letter, Reply
  <2> QED
    BY <2>1 DEF Posted
<1>6. Good(node', net', nodes)
  BY <1>1, <1>3, <1>4, <1>5, CalmGood DEF JoinInv
<1>7. JoinInv'
  BY <1>6, GoodNext
<1>8. Steady({})
  <2>1. Live(s) => Underway(node, net, s.last_pdu)
    <3>1. SUFFICES ASSUME Live(s) PROVE Underway(node, net, s.last_pdu)
      OBVIOUS
    <3>2. JoinNoted(node[n]) = <<s.last_pdu>>
      BY <3>1 DEF JoinNoted
    <3>3. Live(node[n]) /\ node[n].last_pdu = s.last_pdu
      BY <3>2 DEF JoinNoted
    <3> QED
      BY <1>1, <3>3, JoinNotedType, QueueUnderway
  <2>2. \A t \in Token : \A p \in Range(s.queue[t]) : p.type = "NET_JOIN" => Underway(node, net, p)
    BY QueueUnderway
  <2>3. \A c \in Conn : \A p \in Range(nt.fwd[c]) : p.type = "NET_JOIN" => Underway(node, net, p) \/ p \in {}
    BY QueueUnderway
  <2>4. \A d \in nt.udp : d.pdu.type = "NET_JOIN" => d \in net.udp
    BY DEF Posted
  <2>5. ~s.should_close /\ nt.rst = {}
    BY <1>1 DEF Seat, Places
  <2>6. s.start = node[n].start /\ s.end = node[n].end /\ Inside(s) <=> Inside(node[n])
    BY DEF Kin
  <2> QED
    BY <2>1, <2>2, <2>3, <2>4, <2>5, <2>6, SteadyStep
<1> QED
  BY <1>7, <1>8

(* q12 (node.rs:464) only chooses the next state. *)
LEMMA q12Good ==
  ASSUME NodeInv, NodeInv', JoinInv, nodes \in SUBSET Node, nodes' = nodes, NEW n \in Node, q12(n)
  PROVE  JoinInv' /\ Steady({})
<1>1. /\ Seat(node[n]) /\ Sound(node[n]) /\ node[n] \in Memory
      /\ net.rst = {} /\ NetSound(net) /\ World(node, net)
  BY Seated
<1>2. PICK x \in {"Q5", "Q13", "Q14"} : /\ Become(n, Goto(node[n], x), net)
                                        /\ x = "Q5" <=> node[n].successor = NULL
                                        /\ x = "Q13" => node[n].last_pdu.max = n
  BY DEF q12
<1> DEFINE s == Goto(node[n], x)
<1>3. node[n].state = "Q12" /\ node[n].at = "run" /\ Running(n)
  BY DEF q12, At
<1>4. /\ s \in Memory /\ s.state = x /\ s.at = "run" /\ s.process = node[n].process
      /\ s.queue = node[n].queue /\ s.should_close = node[n].should_close /\ s.last_pdu = node[n].last_pdu
      /\ s.start = node[n].start /\ s.end = node[n].end /\ s.successor = node[n].successor
      /\ s.successor_listen = node[n].successor_listen /\ s.predecessor = node[n].predecessor
  BY <1>1 DEF Goto, Memory, State
<1> HIDE DEF s
<1>5. Inside(node[n]) /\ Inside(s) /\ Kin(node[n], s) /\ ~Closing(s)
  BY <1>3, <1>4 DEF Kin, Inside, Inner, Asked, Told, Closing
<1>6. JoinNoted(s) = JoinNoted(node[n])
  BY <1>3, <1>4 DEF JoinNoted, Live
<1>7. Places(s)
  BY <1>1, <1>3, <1>4, <1>5 DEF Seat, Places, Inner, Running
<1>8. Neighbours(s)
  BY <1>1, <1>2, <1>3, <1>4, <1>5 DEF Seat, Neighbours, Whole
<1>9. Queued(s)
  BY <1>1, <1>4, <1>5 DEF Seat, Queued
<1>10. s.state = "Q13" => s.last_pdu.max = n
  BY <1>2, <1>4
<1> QED
  BY <1>1, <1>2, <1>4, <1>5, <1>6, <1>7, <1>8, <1>9, <1>10, CalmStep DEF Seat, Settled, s

(* NET_ALIVE is sent to the tracker (node.rs:780). *)
LEMMA SendAliveGood ==
  ASSUME NodeInv, NodeInv', JoinInv, nodes \in SUBSET Node, nodes' = nodes, NEW n \in Node, send_alive(n)
  PROVE  JoinInv' /\ Steady({})
<1> DEFINE s == [node[n] EXCEPT !.alive_due = FALSE]
           pdu == [type |-> "NET_ALIVE"]
           d == [src |-> n, dst |-> Tracker, pdu |-> pdu]
           nt == SendUdp(net, n, Tracker, pdu)
<1>1. /\ Seat(node[n]) /\ Sound(node[n]) /\ node[n] \in Memory
      /\ net.rst = {} /\ NetSound(net) /\ World(node, net)
  BY Seated
<1>2. node[n].state = "Q6" /\ node[n].at = "run" /\ Become(n, s, nt)
  BY DEF send_alive, At
<1>3. Tracker \notin Node /\ Tracker # Client /\ pdu \in PDU
  BY RustNodeAssumption, PDUTypes
<1>4. NetSound(nt)
  BY <1>1, <1>3, SendUdpSound
<1>5. /\ nt.backlog = net.backlog /\ nt.bwd = net.bwd /\ nt.rst = net.rst /\ nt.fwd = net.fwd
      /\ nt.udp = net.udp \cup {d}
  BY <1>1 DEF SendUdp, NetSound, Kernel
<1>6. Inside(node[n])
  BY <1>2 DEF Inside, Inner
<1>7. Posted(node, d)
  BY <1>3, <1>6 DEF Posted, Letter, Reply
<1>8. /\ s \in Memory /\ s.state = "Q6" /\ s.at = "run" /\ s.process = node[n].process
      /\ s.queue = node[n].queue /\ s.should_close = node[n].should_close
      /\ s.start = node[n].start /\ s.end = node[n].end /\ s.successor = node[n].successor
      /\ s.successor_listen = node[n].successor_listen /\ s.predecessor = node[n].predecessor
  BY <1>1, <1>2 DEF Memory
<1> HIDE DEF s, nt, d
<1>9. Kin(node[n], s) /\ ~Closing(s)
  BY <1>2, <1>6, <1>8 DEF Kin, Inside, Inner, Asked, Told, Closing
<1>10. JoinNoted(s) = JoinNoted(node[n])
  BY <1>2, <1>8 DEF JoinNoted, Live
<1>11. Seat(s)
  BY <1>1, <1>2, <1>6, <1>8 DEF Seat, Places, Neighbours, Whole, Queued, Inside
<1> QED
  BY <1>1, <1>2, <1>4, <1>5, <1>6, <1>7, <1>8, <1>9, <1>10, <1>11, CalmStep DEF Settled

(* The successor has nothing to say, and is there. *)
LEMMA SuccessorQuiet ==
  ASSUME NodeInv, JoinInv, NEW n \in Node
  PROVE  "SUCCESSOR" \notin Ready(n)
<1>1. Link(node, net, node[n]) /\ Ends(node, net, n)
  BY DEF JoinInv, Good, Wires
<1>2. CASE node[n].successor = NULL
  BY <1>2 DEF Ready, Socket
<1>3. CASE node[n].successor # NULL
  <2>1. PICK c \in Conn : c = node[n].successor
    BY <1>3, InvWorld, WorldFacts
  <2>2. Holds(node, net, c) /\ Line(node, net, c)
    BY <1>1, <1>3, <2>1 DEF Link, JoinInv, Good, Wires
  <2>3. net.bwd[c] = <<>> /\ AcceptorHolds(net, c)
    BY <2>2 DEF Line, Holds, AcceptorHolds
  <2> QED
    BY <2>1, <2>3 DEF Ready, Stream, PeerClosed
<1> QED
  BY <1>2, <1>3

(* poll reports what can be read (node.rs:299). *)
LEMMA q6pollGood ==
  ASSUME NodeInv, NodeInv', JoinInv, nodes \in SUBSET Node, nodes' = nodes, NEW n \in Node, q6poll(n)
  PROVE  JoinInv' /\ Steady({})
<1>1. /\ Seat(node[n]) /\ Sound(node[n]) /\ node[n] \in Memory
      /\ net.rst = {} /\ NetSound(net) /\ World(node, net)
  BY Seated
<1>2. node[n].state = "Q6" /\ node[n].at = "run" /\ Inside(node[n])
  BY DEF q6poll, At, Inside, Inner
<1>3. ~node[n].should_close
  BY <1>1 DEF Seat, Places
<1>4. PICK ready \in (SUBSET Ready(n)) \ {{}} : \E events \in SetToSeqs(ready) :
         Become(n, [node[n] EXCEPT !.events = events, !.at = "read"], net)
  BY <1>3 DEF q6poll
<1>5. PICK events \in SetToSeqs(ready) : Become(n, [node[n] EXCEPT !.events = events, !.at = "read"], net)
  BY <1>4
<1>6. events \in Seq(Token) /\ \A i \in DOMAIN events : events[i] \in Ready(n)
  BY PollEvents
<1>7. \A i \in DOMAIN events : events[i] # "SUCCESSOR"
  BY <1>6, SuccessorQuiet
<1> DEFINE s == [node[n] EXCEPT !.events = events, !.at = "read"]
<1>8. /\ s \in Memory /\ s.state = "Q6" /\ s.at = "read" /\ s.process = node[n].process /\ s.events = events
      /\ s.queue = node[n].queue /\ s.should_close = node[n].should_close
      /\ s.start = node[n].start /\ s.end = node[n].end /\ s.successor = node[n].successor
      /\ s.successor_listen = node[n].successor_listen /\ s.predecessor = node[n].predecessor
  BY <1>1, <1>2, <1>6 DEF Memory
<1> HIDE DEF s
<1>9. Kin(node[n], s) /\ ~Closing(s)
  BY <1>2, <1>8 DEF Kin, Inside, Inner, Asked, Told, Closing
<1>10. JoinNoted(s) = JoinNoted(node[n])
  BY <1>2, <1>8 DEF JoinNoted, Live
<1>11. Seat(s)
  BY <1>1, <1>2, <1>7, <1>8 DEF Seat, Places, Neighbours, Whole, Queued, Inside
<1> QED
  BY <1>1, <1>2, <1>5, <1>8, <1>9, <1>10, <1>11, CalmStep DEF Settled, s

(* The interval of NET_ALIVE has passed. *)
LEMMA AliveDueGood ==
  ASSUME NodeInv, NodeInv', JoinInv, nodes \in SUBSET Node, NEW n \in Node, AliveDue(n)
  PROVE  JoinInv' /\ Steady({})
<1> DEFINE s == [node[n] EXCEPT !.alive_due = TRUE]
<1>1. /\ Seat(node[n]) /\ Sound(node[n]) /\ node[n] \in Memory
      /\ net.rst = {} /\ NetSound(net) /\ World(node, net)
  BY Seated
<1>2. ~node[n].alive_due /\ Become(n, s, net) /\ nodes' = nodes
  BY DEF AliveDue
<1>3. Inside(node[n])
  BY <1>1, <1>2 DEF Seat, Places
<1>4. /\ s \in Memory /\ s.state = node[n].state /\ s.at = node[n].at /\ s.process = node[n].process
      /\ s.queue = node[n].queue /\ s.should_close = node[n].should_close /\ s.events = node[n].events
      /\ s.start = node[n].start /\ s.end = node[n].end /\ s.successor = node[n].successor
      /\ s.successor_listen = node[n].successor_listen /\ s.predecessor = node[n].predecessor
      /\ s.last_pdu = node[n].last_pdu
  BY <1>1 DEF Memory
<1> HIDE DEF s
<1>5. /\ Kin(node[n], s) /\ (Closing(s) => Closing(node[n])) /\ Inside(s)
      /\ JoinNoted(s) = JoinNoted(node[n])
  BY <1>3, <1>4 DEF Kin, Inside, Asked, Told, Closing, JoinNoted, Live
<1>6. Seat(s)
  BY <1>1, <1>3, <1>4, <1>5 DEF Seat, Places, Neighbours, Whole, Queued
<1>7. Settled(s)
  BY <1>4 DEF NodeInv, Settled
<1>8. s.at = "handle" => s.state # "Q5"
  BY <1>1, <1>4 DEF Sound, Watching
<1> QED
  BY <1>1, <1>2, <1>3, <1>4, <1>5, <1>6, <1>7, <1>8, CalmStep

(***************************************************************************)
(* A step of the round of q6.                                              *)
(***************************************************************************)
(* Nothing but last_pdu, the queues and the state of the node changes, and no NET_JOIN is lost or copied. *)
LEMMA RoundStep ==
  ASSUME NodeInv, NodeInv', JoinInv, nodes \in SUBSET Node, nodes' = nodes, NEW n \in Node, NEW s \in Memory, NEW nt,
         NetSound(nt), nt.rst = {}, nt.backlog = net.backlog, nt.bwd = net.bwd, Become(n, s, nt),
         s.at = "handle", node[n].at \in {"read", "handle"}, s.events = node[n].events,
         Inside(node[n]), Kin(node[n], s), s.process = node[n].process, ~s.should_close,
         s.state \in {"Q6", "Q12", "Q17"}, s.state = "Q17" => s.successor # NULL,
         s.queue["SUCCESSOR"] = <<>>, s.predecessor = NULL => s.queue["PREDECESSOR"] = <<>>,
         NEW td, td = [node EXCEPT ![n] = s],
         \A c \in Conn : Moved(node, c, Pipe(node, net, c), Pipe(td, nt, c)),
         Closing(node[n]) \/ Dropping(td, nt, s),
         \A d \in nt.udp : d \in net.udp \/ Posted(node, d),
         Requested(s.queue["UDP"]), Requests(td, nt)
  PROVE  JoinInv'
<1>1. /\ Seat(node[n]) /\ node[n] \in Memory /\ net.rst = {} /\ World(node, net) /\ World(node', net')
  BY Seated, InvWorldNext
<1>2. net' = nt /\ node'[n] = Settle(s) /\ Peers(node, node', n)
  BY <1>1, BecomeIs
<1>3. PICK t : t = node'[n]
  OBVIOUS
<1>4. /\ t.process = s.process /\ t.state = s.state /\ t.start = s.start /\ t.end = s.end
      /\ t.last_pdu = s.last_pdu /\ t.successor = s.successor
      /\ t.successor_listen = s.successor_listen /\ t.predecessor = s.predecessor
      /\ t.queue = s.queue /\ ~t.should_close
      /\ \/ t.at = "handle" /\ t.events = s.events
         \/ t.at = "run"
         \/ t.at = "read" /\ Len(s.events) > 1 /\ t.events = Tail(s.events)
  BY <1>2, <1>3, SettleFields
<1>5. Inside(t) /\ Kin(node[n], t) /\ JoinNoted(t) = JoinNoted(s)
      /\ (Asked(t) <=> Asked(s)) /\ (Closing(t) <=> Closing(s))
  BY <1>4 DEF Kin, Inside, Inner, Asked, Told, JoinNoted, Live, Closing
<1>6. td[n] = s /\ \A m \in Node : m # n => td[m] = node'[m]
  BY <1>1, <1>2 DEF World, Peers
<1>7. ASSUME NEW c \in Conn
      PROVE  Pipe(node', net', c) = Pipe(td, nt, c)
  <2>1. c.to \in Node
    BY ConnFields
  <2> QED
    BY <1>2, <1>3, <1>4, <1>6, <2>1 DEF Pipe
<1>8. Requests(node', net')
  <2>1. ASSUME NEW x \in BoxId
        PROVE  Boxes(node', net')[x] = Boxes(td, nt)[x]
    <3>1. \A m \in Node : node'[m].queue = td[m].queue /\ JoinNoted(node'[m]) = JoinNoted(td[m])
      BY <1>3, <1>4, <1>5, <1>6
    <3>2. CASE \E c \in Conn : x = <<"conn", c>>
      <4>1. PICK c \in Conn : x = <<"conn", c>>
        BY <3>2
      <4>2. Boxes(node', net')[x] = Pipe(node', net', c) /\ Boxes(td, nt)[x] = Pipe(td, nt, c)
        BY <4>1, ConnBox
      <4> QED
        BY <1>7, <4>2
    <3>3. CASE \E m \in Node : x = <<"queue", m>>
      BY <3>1, <3>3 DEF Boxes, Box
    <3>4. CASE \E m \in Node : x = <<"noted", m>>
      BY <3>1, <3>4 DEF Boxes, Box
    <3> QED
      BY <3>2, <3>3, <3>4, BoxForms
  <2>2. Boxes(node', net') = Boxes(td, nt)
    BY <2>1 DEF Boxes
  <2>3. \A m \in Node : Applicant(td, nt, m) <=> Applicant(node', net', m)
    BY <1>2, <1>3, <1>5, <1>6 DEF Applicant
  <2> QED
    BY <1>2, <2>2, <2>3 DEF Requests
<1>9. Seat(t)
  <2>1. \A i \in DOMAIN s.events : s.events[i] # "SUCCESSOR"
    BY <1>1 DEF Seat, Places
  <2>2. s.events \in Seq(Token)
    BY MemoryFields
  <2>3. t.at \in {"handle", "read"} => \A i \in DOMAIN t.events : t.events[i] # "SUCCESSOR"
    <3>1. CASE t.events = s.events
      BY <2>1, <3>1
    <3>2. CASE t.at = "read" /\ Len(s.events) > 1 /\ t.events = Tail(s.events)
      BY ONLY <2>1, <2>2, <3>2, EventsTail
    <3> QED
      BY <1>4, <3>1, <3>2
  <2>4. Places(t)
    <3>1. t.process = "running" /\ t.state \in {"Q6", "Q12", "Q17"} /\ t.at \in {"run", "read", "handle"}
      BY <1>1, <1>4 DEF Seat, Places, Inside, Inner
    <3> QED
      BY ONLY <1>4, <1>5, <2>3, <3>1 DEF Places, Inner
  <2>5. Neighbours(t)
    BY <1>1, <1>4, <1>5 DEF Seat, Neighbours, Whole, Kin
  <2>6. Queued(t)
    BY <1>4, <1>5 DEF Queued
  <2> QED
    BY <2>4, <2>5, <2>6 DEF Seat
<1>10. Closing(node[n]) \/ Dropping(node', net', t)
  <2>1. SUFFICES ASSUME Dropping(td, nt, s), Closing(t)
                 PROVE  Pipe(node', net', t.predecessor) = <<>> /\ ~Dials(node', t.predecessor)
    BY DEF Dropping
  <2>2. Closing(s)
    BY <1>5, <2>1
  <2>3. t.predecessor \in Conn
    <3>1. t.predecessor # NULL
      BY <1>4, <1>9, <2>2, <1>5 DEF Seat, Neighbours, Closing
    <3> QED
      BY <1>1, <1>3, <3>1, WorldFacts
  <2>4. Pipe(td, nt, t.predecessor) = <<>> /\ ~Dials(td, t.predecessor)
    BY <1>4, <2>1, <2>2 DEF Dropping
  <2>5. t.predecessor.from \in Node
    BY <2>3, ConnFields
  <2> QED
    BY <1>3, <1>4, <1>6, <1>7, <2>3, <2>4, <2>5 DEF Dials
<1>11. \A d : Posted(node, d) => Posted(node', d)
  <2>1. ASSUME NEW d, Posted(node, d)
        PROVE  Letter(node', d)
    <3>1. \A m \in Node : Inside(node[m]) => Inside(node'[m])
      BY <1>2, <1>3, <1>5 DEF Peers
    <3> QED
      BY <2>1, <3>1 DEF Posted, Letter, Reply
  <2> QED
    BY <2>1 DEF Posted
<1>12. \A c \in Conn : Moved(node, c, Pipe(node, net, c), Pipe(node', net', c))
  BY <1>7
<1>13. /\ node'[n].process = node[n].process /\ Kin(node[n], node'[n]) /\ Seat(node'[n])
       /\ Closing(node[n]) \/ Dropping(node', net', node'[n])
       /\ Requested(node'[n].queue["UDP"])
  BY <1>3, <1>4, <1>5, <1>9, <1>10
<1>14. /\ net'.backlog = net.backlog /\ net'.bwd = net.bwd /\ net'.rst = {}
       /\ \A d \in net'.udp : d \in net.udp \/ Posted(node', d)
  BY <1>2, <1>11
<1>15. Good(node, net, nodes)
  BY DEF JoinInv
<1>16. Good(node', net', nodes)
  BY <1>1, <1>2, <1>8, <1>12, <1>13, <1>14, <1>15, InnerGood
<1> QED
  BY <1>16, GoodNext

(* A NET_JOIN that comes from nowhere else is in one place still. *)
LEMMA RequestsKept ==
  ASSUME NEW sd, NEW nt, World(sd, nt), Requests(sd, nt), NEW td, NEW mt, NEW n \in Node, Peers(sd, td, n),
         \A k \in Node, c \in Conn : Less(Pipe(sd, nt, c), Pipe(td, mt, c), k),
         \A k \in Node : /\ Less(sd[n].queue["UDP"], td[n].queue["UDP"], k)
                         /\ Less(JoinNoted(sd[n]), JoinNoted(td[n]), k),
         \A e \in mt.udp : e.pdu.type = "NET_JOIN" => e \in nt.udp,
         \A m \in Node : Applicant(sd, nt, m) => Applicant(td, mt, m)
  PROVE  Requests(td, mt)
<1>1. ASSUME NEW k \in Node
      PROVE  \A x \in BoxId : Less(Boxes(sd, nt)[x], Boxes(td, mt)[x], k)
  BY BoxesLess
<1> QED
  BY <1>1, RequestsLess

(* A node that is in the round of q6. *)
LEMMA InRound ==
  ASSUME NodeInv, JoinInv, NEW n \in Node, Running(n), node[n].at \in {"read", "handle"}
  PROVE  /\ node[n].state \in {"Q6", "Q12", "Q17"} /\ Inside(node[n])
         /\ node[n].events \in Seq(Token) /\ node[n].events # <<>>
         /\ Head(node[n].events) \in {"UDP", "PREDECESSOR"}
         /\ node[n].at = "read" => Connected(node[n], Head(node[n].events))
         /\ ~node[n].should_close
         /\ node[n].state = "Q17" => node[n].successor # NULL
<1>1. Seat(node[n]) /\ Sound(node[n]) /\ node[n] \in Memory
  BY Seated
<1>2. /\ node[n].state \in {"Q6", "Q12", "Q15", "Q16", "Q17"} /\ node[n].events # <<>>
      /\ node[n].state \in Outer \cup Inner /\ ~node[n].should_close
  BY <1>1 DEF Sound, Watching, Seat, Places
<1>3. node[n].state \in {"Q6", "Q12", "Q17"} /\ Inside(node[n])
  BY <1>2 DEF Outer, Inner, Inside
<1>4. node[n].events \in Seq(Token)
  BY <1>1, MemoryFields
<1>5. 1 \in DOMAIN node[n].events /\ Head(node[n].events) = node[n].events[1] /\ node[n].events[1] \in Token
  BY <1>2, <1>4
<1>6. Head(node[n].events) \in {"UDP", "PREDECESSOR"}
  BY <1>1, <1>5 DEF Seat, Places, Token
<1> QED
  BY <1>1, <1>2, <1>3, <1>4, <1>5, <1>6 DEF Sound, Watching, Seat, Neighbours

(* The parts of a stream. *)
LEMMA PDUAssociative == \A a, b, c \in Seq(PDU) : (a \o b) \o c = a \o (b \o c)
  BY ConcatAssociative

(* What is read and what is left of a stream are the stream. *)
LEMMA SplitStream ==
  ASSUME NEW q \in Seq(PDU), NEW f \in Seq(PDU), NEW k \in 0 .. Len(f)
  PROVE  /\ SubSeq(f, 1, k) \in Seq(PDU) /\ SubSeq(f, k + 1, Len(f)) \in Seq(PDU)
         /\ (q \o SubSeq(f, 1, k)) \o SubSeq(f, k + 1, Len(f)) = q \o f
<1>1. Len(f) \in Nat /\ 1 \in 1 .. Len(f) + 1 /\ k \in 1 - 1 .. Len(f) /\ Len(f) \in k .. Len(f)
  OBVIOUS
<1>2. SubSeq(f, 1, k) \o SubSeq(f, k + 1, Len(f)) = SubSeq(f, 1, Len(f))
  BY ONLY <1>1, f \in Seq(PDU), ConcatAdjacentSubSeq
<1>3. SubSeq(f, 1, Len(f)) = f
  BY SubSeqFull
<1>4. SubSeq(f, 1, k) \in Seq(PDU) /\ SubSeq(f, k + 1, Len(f)) \in Seq(PDU)
  BY <1>1
<1> DEFINE a == SubSeq(f, 1, k)
           b == SubSeq(f, k + 1, Len(f))
<1> HIDE DEF a, b
<1>5. a \in Seq(PDU) /\ b \in Seq(PDU) /\ a \o b = f
  BY <1>2, <1>3, <1>4 DEF a, b
<1>6. (q \o a) \o b = q \o (a \o b)
  BY <1>5, PDUAssociative
<1> QED
  BY <1>4, <1>5, <1>6 DEF a, b

(* What is in a sequence that was put together, or in a part of one. *)
LEMMA RangeConcat ==
  ASSUME NEW p \in Seq(PDU), NEW q \in Seq(PDU), NEW x, x \in Range(p \o q)
  PROVE  x \in Range(p) \/ x \in Range(q)
<1>1. PICK i \in DOMAIN (p \o q) : x = (p \o q)[i]
  BY DEF Range
<1>2. i \in 1 .. Len(p) + Len(q) /\ Len(p) \in Nat /\ Len(q) \in Nat /\ DOMAIN p = 1 .. Len(p) /\ DOMAIN q = 1 .. Len(q)
  BY <1>1
<1>3. CASE i <= Len(p)
  <2>1. i \in DOMAIN p /\ x = p[i]
    BY <1>1, <1>2, <1>3
  <2> QED
    BY <2>1 DEF Range
<1>4. CASE ~(i <= Len(p))
  <2>1. i - Len(p) \in DOMAIN q /\ x = q[i - Len(p)]
    BY <1>1, <1>2, <1>4
  <2> QED
    BY <2>1 DEF Range
<1> QED
  BY <1>3, <1>4

(* What is read or left was on the stream. *)
LEMMA RangePart ==
  ASSUME NEW f \in Seq(PDU), NEW k \in 0 .. Len(f), NEW x, x \in Range(SubSeq(f, 1, k)) \/ x \in Range(SubSeq(f, k + 1, Len(f)))
  PROVE  x \in Range(f)
<1>1. CASE x \in Range(SubSeq(f, 1, k))
  <2>1. PICK i \in DOMAIN SubSeq(f, 1, k) : x = SubSeq(f, 1, k)[i]
    BY <1>1 DEF Range
  <2>2. i \in DOMAIN f /\ x = f[i]
    BY <2>1
  <2> QED
    BY <2>2 DEF Range
<1>2. CASE x \in Range(SubSeq(f, k + 1, Len(f)))
  <2>1. PICK i \in DOMAIN SubSeq(f, k + 1, Len(f)) : x = SubSeq(f, k + 1, Len(f))[i]
    BY <1>2 DEF Range
  <2>2. i + k \in DOMAIN f /\ x = f[i + k]
    BY <2>1
  <2> QED
    BY <2>2 DEF Range
<1> QED
  BY <1>1, <1>2

(* What was read from the predecessor has not been handled yet. *)
LEMMA ReadPredecessorGood ==
  ASSUME NodeInv, NodeInv', JoinInv, nodes \in SUBSET Node, nodes' = nodes, NEW n \in Node, Running(n),
         node[n].at = "read", Connected(node[n], "PREDECESSOR"), NEW r \in try_read(n, "PREDECESSOR"),
         Become(n, [Filled(n, "PREDECESSOR", r) EXCEPT !.at = "handle"], Drained(n, "PREDECESSOR", r))
  PROVE  JoinInv' /\ Steady({})
<1> DEFINE token == "PREDECESSOR"
           s == [Filled(n, token, r) EXCEPT !.at = "handle"]
           nt == Drained(n, token, r)
           td == [node EXCEPT ![n] = s]
<1>1. /\ Seat(node[n]) /\ Sound(node[n]) /\ node[n] \in Memory
      /\ net.rst = {} /\ NetSound(net) /\ World(node, net)
  BY Seated
<1>2. /\ node[n].state \in {"Q6", "Q12", "Q17"} /\ Inside(node[n]) /\ ~node[n].should_close
      /\ node[n].state = "Q17" => node[n].successor # NULL
  BY InRound
<1>3. PICK p \in Conn : p = node[n].predecessor /\ Socket(n, token) = p /\ Stream(n, token) = net.fwd[p]
  BY <1>1, WorldFacts DEF Connected, Socket, Stream
<1>4. r.count \in 0 .. Len(net.fwd[p]) /\ NetSound(nt)
  BY <1>3, FilledType
<1>5. net.fwd[p] \in Seq(PDU) /\ node[n].queue[token] \in Seq(PDU) /\ token \in Token
  BY <1>1, WorldFacts DEF Token
<1> DEFINE a == SubSeq(net.fwd[p], 1, r.count)
           b == SubSeq(net.fwd[p], r.count + 1, Len(net.fwd[p]))
<1>6. a \in Seq(PDU) /\ b \in Seq(PDU) /\ (node[n].queue[token] \o a) \o b = node[n].queue[token] \o net.fwd[p]
  BY <1>4, <1>5, SplitStream
<1>7. s = [[node[n] EXCEPT !.queue[token] = @ \o a] EXCEPT !.at = "handle"]
  BY <1>3 DEF Filled
<1>8. /\ nt.fwd = [net.fwd EXCEPT ![p] = b] /\ nt.bwd = net.bwd /\ nt.backlog = net.backlog
      /\ nt.udp = net.udp /\ nt.rst = {}
  BY <1>1, <1>3 DEF Drained, NetSound, Kernel
<1>9. Become(n, s, nt)
  OBVIOUS
<1>10. td = [node EXCEPT ![n] = s] /\ td[n] = s /\ Peers(node, td, n)
  BY <1>1 DEF World, Peers
<1> HIDE DEF a, b, s, nt, td
<1>11. /\ s \in Memory /\ s.at = "handle" /\ s.state = node[n].state /\ s.events = node[n].events
       /\ s.process = node[n].process /\ s.start = node[n].start /\ s.end = node[n].end
       /\ s.last_pdu = node[n].last_pdu
       /\ s.successor = node[n].successor /\ s.successor_listen = node[n].successor_listen
       /\ s.predecessor = node[n].predecessor /\ (s.should_close <=> node[n].should_close)
       /\ s.queue[token] = node[n].queue[token] \o a
       /\ s.queue["UDP"] = node[n].queue["UDP"] /\ s.queue["SUCCESSOR"] = node[n].queue["SUCCESSOR"]
  <2>1. "UDP" \in Token /\ "SUCCESSOR" \in Token /\ "UDP" # token /\ "SUCCESSOR" # token
    BY DEF Token
  <2>2. PICK q : q = [node[n].queue EXCEPT ![token] = @ \o a]
    OBVIOUS
  <2>3. node[n].queue \in [Token -> Seq(PDU)]
    BY <1>1, MemoryFields
  <2>4. /\ q \in [Token -> Seq(PDU)] /\ q[token] = node[n].queue[token] \o a
        /\ q["UDP"] = node[n].queue["UDP"] /\ q["SUCCESSOR"] = node[n].queue["SUCCESSOR"]
    BY <1>5, <1>6, <2>1, <2>2, <2>3
  <2>5. s = [[node[n] EXCEPT !.queue = q] EXCEPT !.at = "handle"]
    BY <1>7, <2>2
  <2> HIDE DEF token
  <2>6. PICK m \in Memory : m = node[n]
    BY <1>1
  <2>7. s = [[m EXCEPT !.queue = q] EXCEPT !.at = "handle"]
    BY <2>5, <2>6
  <2>8. /\ s \in Memory /\ s.at = "handle" /\ s.state = m.state /\ s.events = m.events
        /\ s.process = m.process /\ s.start = m.start /\ s.end = m.end /\ s.last_pdu = m.last_pdu
        /\ s.successor = m.successor /\ s.successor_listen = m.successor_listen
        /\ s.predecessor = m.predecessor /\ (s.should_close <=> m.should_close)
        /\ s.values = m.values /\ s.queue = q
    BY ONLY <2>4, <2>7, m \in Memory DEF Memory
  <2> QED
    BY ONLY <2>4, <2>6, <2>8
<1>12. ASSUME NEW c \in Conn
       PROVE  Pipe(td, nt, c) = Pipe(node, net, c)
  <2>1. c.to \in Node /\ p.to = n
    BY <1>1, <1>3, ConnFields DEF JoinInv, Good, Wires, Ends, Connected
  <2>2. CASE c = p
    <3>1. nt.fwd[p] = b
      <4>1. net.fwd \in [Conn -> Seq(PDU)]
        BY <1>1, NetFields
      <4> QED
        BY <1>8, <4>1
    <3>2. td[c.to] = s /\ td[c.to].predecessor = c /\ node[c.to].predecessor = c /\ c.to = n
      BY <1>3, <1>10, <1>11, <2>1, <2>2
    <3>3. Pipe(td, nt, c) = s.queue[token] \o b /\ Pipe(node, net, c) = node[n].queue[token] \o net.fwd[p]
      BY ONLY <2>2, <3>1, <3>2 DEF Pipe
    <3> QED
      BY <1>6, <1>11, <3>3
  <2>3. CASE c # p
    <3>1. nt.fwd[c] = net.fwd[c]
      BY <1>1, <1>8, <2>3, NetFields
    <3>2. td[c.to].predecessor = node[c.to].predecessor
      BY <1>10, <1>11, <2>1 DEF Peers
    <3>3. td[c.to].predecessor = c => td[c.to] = node[c.to]
      BY <1>3, <1>10, <2>1, <2>3, <3>2 DEF Peers
    <3> QED
      BY <3>1, <3>2, <3>3 DEF Pipe
  <2> QED
    BY <2>2, <2>3
<1>13. Kin(node[n], s) /\ (Closing(s) <=> Closing(node[n])) /\ JoinNoted(s) = JoinNoted(node[n])
  BY <1>2, <1>11 DEF Kin, Inside, Inner, Asked, Told, Closing, JoinNoted, Live
<1>14. Requests(td, nt)
  <2>1. \A k \in Node, c \in Conn : Less(Pipe(node, net, c), Pipe(td, nt, c), k)
    BY <1>1, <1>12, WorldFacts, LessSimple
  <2>2. \A k \in Node : /\ Less(node[n].queue["UDP"], td[n].queue["UDP"], k)
                        /\ Less(JoinNoted(node[n]), JoinNoted(td[n]), k)
    BY <1>1, <1>10, <1>11, <1>13, WorldFacts, JoinNotedType, LessSimple
  <2>3. \A m \in Node : Applicant(node, net, m) => Applicant(td, nt, m)
    BY <1>8, <1>10, <1>13 DEF Applicant, Peers, Kin
  <2>4. Requests(node, net)
    BY DEF JoinInv, Good
  <2> QED
    BY <1>1, <1>8, <1>10, <2>1, <2>2, <2>3, <2>4, RequestsKept
<1>15. \A c \in Conn : Moved(node, c, Pipe(node, net, c), Pipe(td, nt, c))
  BY <1>12 DEF Moved
<1>16. Closing(node[n]) \/ Dropping(td, nt, s)
  BY <1>13 DEF Dropping
<1>17. Requested(s.queue["UDP"]) /\ s.queue["SUCCESSOR"] = <<>> /\ s.predecessor # NULL
  BY <1>1, <1>3, <1>11, NullFacts DEF JoinInv, Good, Mail, Requested, Seat, Queued
<1>18. JoinInv'
  BY <1>2, <1>4, <1>8, <1>9, <1>10, <1>11, <1>13, <1>14, <1>15, <1>16, <1>17, RoundStep DEF td
<1>19. Steady({})
  <2>1. ASSUME NEW x \in Range(net.fwd[p]), x.type = "NET_JOIN" PROVE Underway(node, net, x)
    BY <2>1, QueueUnderway
  <2>2. ASSUME NEW t \in Token, NEW x \in Range(s.queue[t]), x.type = "NET_JOIN" PROVE Underway(node, net, x)
    <3>1. CASE t # token
      <4>1. s.queue[t] = node[n].queue[t]
        BY <1>11, <3>1 DEF Token
      <4> QED
        BY <2>2, <4>1, QueueUnderway
    <3>2. CASE t = token
      <4>1. x \in Range(node[n].queue[token]) \/ x \in Range(a)
        BY <1>5, <1>6, <1>11, <2>2, <3>2, RangeConcat
      <4>2. x \in Range(a) => x \in Range(net.fwd[p])
        BY <1>4, <1>5, RangePart DEF a
      <4> QED
        BY <1>5, <2>1, <2>2, <4>1, <4>2, QueueUnderway
    <3> QED
      BY <3>1, <3>2
  <2>3. ASSUME NEW c \in Conn, NEW x \in Range(nt.fwd[c]), x.type = "NET_JOIN" PROVE Underway(node, net, x)
    <3>1. net.fwd \in [Conn -> Seq(PDU)]
      BY <1>1, NetFields
    <3>2. CASE c # p
      BY <1>8, <2>3, <3>1, <3>2, QueueUnderway
    <3>3. CASE c = p
      <4>1. x \in Range(b)
        BY <1>8, <2>3, <3>1, <3>3
      <4>2. x \in Range(net.fwd[p])
        BY <1>4, <1>5, <4>1, RangePart DEF b
      <4> QED
        BY <2>1, <2>3, <4>2
    <3> QED
      BY <3>2, <3>3
  <2>4. Live(s) => Underway(node, net, s.last_pdu)
    <3>1. Live(s) => Live(node[n])
      BY <1>2, <1>11 DEF Live
    <3> QED
      BY <1>1, <1>11, <3>1, JoinNotedType, QueueUnderway
  <2>5. s.state # "Q5" /\ s.state # "Q13" /\ ~s.should_close /\ (Inside(s) <=> Inside(node[n]))
    BY <1>2, <1>11 DEF Inside
  <2> QED
    BY <1>4, <1>8, <1>9, <1>11, <2>2, <2>3, <2>4, <2>5, SteadyStep
<1> QED
  BY <1>18, <1>19

(* The datagrams that were read are different ones, all of them to n. *)
LEMMA BatchFacts ==
  ASSUME NodeInv, NEW n \in Node, NEW batch \in Batches(n) \cup {<<>>}
  PROVE  /\ batch \in Seq(net.udp) /\ \A i \in DOMAIN batch : batch[i] \in net.udp /\ batch[i].dst = n
         /\ \A i, j \in DOMAIN batch : batch[i] = batch[j] => i = j
         /\ [i \in DOMAIN batch |-> batch[i].pdu] \in Seq(PDU)
         /\ DrainedUdp(batch).udp = {d \in net.udp : \A i \in DOMAIN batch : d # batch[i]}
<1>0. DrainedUdp(batch).udp = {d \in net.udp : \A i \in DOMAIN batch : d # batch[i]}
  BY NodeFacts DEF DrainedUdp, Range, NetSound, Kernel
<1>1. CASE batch \in Batches(n)
  <2>1. PICK D \in (SUBSET Datagrams(n)) \ {{}} : batch \in SetToSeqs(D)
    BY <1>1 DEF Batches
  <2>2. D \subseteq net.udp /\ IsFiniteSet(net.udp) /\ \A d \in D : d.dst = n
    BY <2>1 DEF Datagrams, NodeInv, NetSound
  <2>3. IsFiniteSet(D)
    BY <2>2, FS_Subset
  <2>4. batch \in Seq(D) /\ \A i, j \in DOMAIN batch : i # j => batch[i] # batch[j]
    BY <2>1, <2>3, OrdersType
  <2>5. \A i \in DOMAIN batch : batch[i] \in D
    BY <2>4
  <2> QED
    BY <1>0, <1>1, <2>2, <2>4, <2>5, BatchType
<1>2. CASE batch = <<>>
  <2>1. DOMAIN batch = {}
    BY <1>2
  <2>2. [i \in DOMAIN batch |-> batch[i].pdu] = <<>>
    BY <1>2
  <2> QED
    BY <1>0, <1>2, <2>1, <2>2
<1> QED
  BY <1>1, <1>2

(* A NET_JOIN goes from a datagram to a box. *)
LEMMA OnceRead ==
  ASSUME NEW b, NEW U, NEW d, NEW V \in SUBSET U, NEW n, Once(b, U, n), NEW y \in BoxId,
         \A x \in BoxId \ {y} : Less(b[x], d[x], n), AsksOnce(d[y], n),
         Asks(d[y], n) => Asks(b[y], n) \/ \E e \in U \ V : JoinOf(e.pdu, n)
  PROVE  Once(d, V, n) /\ (Sought(d, V, n) => Sought(b, U, n))
  BY DEF Once, Less, Sought

(* What was read from the UDP socket: a NET_JOIN goes from a datagram to the queue. *)
LEMMA ReadUdpGood ==
  ASSUME NodeInv, NodeInv', JoinInv, nodes \in SUBSET Node, nodes' = nodes, NEW n \in Node, Running(n),
         node[n].at = "read", NEW batch \in Batches(n) \cup {<<>>},
         Become(n, [FilledUdp(n, batch) EXCEPT !.at = "handle"], DrainedUdp(batch))
  PROVE  JoinInv' /\ Steady({})
<1> DEFINE s == [FilledUdp(n, batch) EXCEPT !.at = "handle"]
           nt == DrainedUdp(batch)
           td == [node EXCEPT ![n] = s]
           a == [i \in DOMAIN batch |-> batch[i].pdu]
<1>1. /\ Seat(node[n]) /\ Sound(node[n]) /\ node[n] \in Memory
      /\ net.rst = {} /\ NetSound(net) /\ World(node, net)
  BY Seated
<1>2. /\ node[n].state \in {"Q6", "Q12", "Q17"} /\ Inside(node[n]) /\ ~node[n].should_close
      /\ node[n].state = "Q17" => node[n].successor # NULL
  BY InRound
<1>3. NetSound(nt)
  BY FilledUdpType
<1>4. /\ nt.fwd = net.fwd /\ nt.bwd = net.bwd /\ nt.backlog = net.backlog /\ nt.rst = {}
  BY <1>1 DEF DrainedUdp, NetSound, Kernel
<1>5. /\ a \in Seq(PDU) /\ DOMAIN a = DOMAIN batch /\ \A i \in DOMAIN batch : a[i] = batch[i].pdu
      /\ \A i \in DOMAIN batch : batch[i] \in net.udp /\ batch[i].dst = n
      /\ \A i, j \in DOMAIN batch : batch[i] = batch[j] => i = j
      /\ nt.udp = {d \in net.udp : \A i \in DOMAIN batch : d # batch[i]}
  BY BatchFacts
<1>6. s = [[node[n] EXCEPT !.queue["UDP"] = @ \o a] EXCEPT !.at = "handle"]
  BY DEF FilledUdp
<1>7. Become(n, s, nt)
  OBVIOUS
<1>8. td = [node EXCEPT ![n] = s] /\ td[n] = s /\ Peers(node, td, n)
  BY <1>1 DEF World, Peers
<1> HIDE DEF a, s, nt, td
<1>9. /\ s \in Memory /\ s.at = "handle" /\ s.state = node[n].state /\ s.events = node[n].events
      /\ s.process = node[n].process /\ s.start = node[n].start /\ s.end = node[n].end
      /\ s.last_pdu = node[n].last_pdu
      /\ s.successor = node[n].successor /\ s.successor_listen = node[n].successor_listen
      /\ s.predecessor = node[n].predecessor /\ (s.should_close <=> node[n].should_close)
      /\ s.queue["UDP"] = node[n].queue["UDP"] \o a
      /\ s.queue["PREDECESSOR"] = node[n].queue["PREDECESSOR"]
      /\ s.queue["SUCCESSOR"] = node[n].queue["SUCCESSOR"]
  <2>1. "UDP" \in Token /\ "SUCCESSOR" \in Token /\ "PREDECESSOR" \in Token
    BY DEF Token
  <2>2. PICK q : q = [node[n].queue EXCEPT !["UDP"] = @ \o a]
    OBVIOUS
  <2>3. node[n].queue \in [Token -> Seq(PDU)]
    BY <1>1, MemoryFields
  <2>4. /\ q \in [Token -> Seq(PDU)] /\ q["UDP"] = node[n].queue["UDP"] \o a
        /\ q["PREDECESSOR"] = node[n].queue["PREDECESSOR"] /\ q["SUCCESSOR"] = node[n].queue["SUCCESSOR"]
    BY <1>5, <2>1, <2>2, <2>3
  <2>5. s = [[node[n] EXCEPT !.queue = q] EXCEPT !.at = "handle"]
    BY <1>6, <2>2
  <2>6. PICK m \in Memory : m = node[n]
    BY <1>1
  <2>7. s = [[m EXCEPT !.queue = q] EXCEPT !.at = "handle"]
    BY <2>5, <2>6
  <2>8. /\ s \in Memory /\ s.at = "handle" /\ s.state = m.state /\ s.events = m.events
        /\ s.process = m.process /\ s.start = m.start /\ s.end = m.end /\ s.last_pdu = m.last_pdu
        /\ s.successor = m.successor /\ s.successor_listen = m.successor_listen
        /\ s.predecessor = m.predecessor /\ (s.should_close <=> m.should_close)
        /\ s.values = m.values /\ s.queue = q
    BY ONLY <2>4, <2>7, m \in Memory DEF Memory
  <2> QED
    BY ONLY <2>4, <2>6, <2>8
<1>10. ASSUME NEW c \in Conn
       PROVE  Pipe(td, nt, c) = Pipe(node, net, c)
  <2>1. c.to \in Node
    BY ConnFields
  <2>2. /\ td[c.to].predecessor = node[c.to].predecessor
        /\ td[c.to].queue["PREDECESSOR"] = node[c.to].queue["PREDECESSOR"]
    BY <1>8, <1>9, <2>1 DEF Peers
  <2> QED
    BY <1>4, <2>2 DEF Pipe
<1>11. Kin(node[n], s) /\ (Closing(s) <=> Closing(node[n])) /\ JoinNoted(s) = JoinNoted(node[n])
  BY <1>2, <1>9 DEF Kin, Inside, Inner, Asked, Told, Closing, JoinNoted, Live
<1>12. Requests(td, nt)
  <2>1. Requests(node, net)
    BY DEF JoinInv, Good
  <2>2. ASSUME NEW x \in BoxId \ {<<"queue", n>>}
        PROVE  Boxes(td, nt)[x] = Boxes(node, net)[x]
    <3>1. CASE \E c \in Conn : x = <<"conn", c>>
      <4>1. PICK c \in Conn : x = <<"conn", c>>
        BY <3>1
      <4> QED
        BY <1>10, <4>1, ConnBox
    <3>2. CASE \E m \in Node : x = <<"queue", m>>
      <4>1. PICK m \in Node : x = <<"queue", m>>
        BY <3>2
      <4>2. td[m] = node[m]
        BY <1>8, <2>2, <4>1 DEF Peers
      <4> QED
        BY <2>2, <4>1, <4>2 DEF Boxes, Box
    <3>3. CASE \E m \in Node : x = <<"noted", m>>
      <4>1. PICK m \in Node : x = <<"noted", m>>
        BY <3>3
      <4>2. JoinNoted(td[m]) = JoinNoted(node[m])
        BY <1>8, <1>11 DEF Peers
      <4> QED
        BY <2>2, <4>1, <4>2 DEF Boxes, Box
    <3> QED
      BY <3>1, <3>2, <3>3, BoxForms
  <2>3. \A x \in BoxId : Boxes(node, net)[x] \in Seq(PDU)
    BY <1>1, BoxType
  <2>4. /\ <<"queue", n>> \in BoxId /\ Boxes(node, net)[<<"queue", n>>] = node[n].queue["UDP"]
        /\ Boxes(td, nt)[<<"queue", n>>] = node[n].queue["UDP"] \o a
        /\ node[n].queue["UDP"] \in Seq(PDU)
    <3>1. td[n].queue["UDP"] = node[n].queue["UDP"] \o a /\ node[n].queue["UDP"] \in Seq(PDU)
      BY <1>1, <1>8, <1>9, WorldFacts
    <3>2. <<"queue", n>> \in BoxId
      BY DEF BoxId
    <3> QED
      BY <3>1, <3>2 DEF Boxes, Box
  <2>5. nt.udp \in SUBSET net.udp
    BY <1>5
  <2>6. ASSUME NEW k \in Node
        PROVE  /\ Once(Boxes(td, nt), nt.udp, k)
               /\ Sought(Boxes(td, nt), nt.udp, k) => Sought(Boxes(node, net), net.udp, k)
    <3>1. Once(Boxes(node, net), net.udp, k)
      BY <2>1 DEF Requests
    <3>2. \A x \in BoxId \ {<<"queue", n>>} : Less(Boxes(node, net)[x], Boxes(td, nt)[x], k)
      BY <2>2, <2>3, LessSimple
    <3>3. AsksOnce(a, k)
      <4>1. SUFFICES ASSUME NEW i \in DOMAIN a, NEW j \in DOMAIN a, JoinOf(a[i], k), JoinOf(a[j], k)
                     PROVE  i = j
        BY DEF AsksOnce
      <4>2. batch[i] \in net.udp /\ batch[j] \in net.udp /\ JoinOf(batch[i].pdu, k) /\ JoinOf(batch[j].pdu, k)
        BY <1>5, <4>1
      <4>3. batch[i] = batch[j]
        BY <3>1, <4>2 DEF Once
      <4> QED
        BY <1>5, <4>3
    <3>4. Asks(a, k) => \E e \in net.udp \ nt.udp : JoinOf(e.pdu, k)
      <4>1. SUFFICES ASSUME NEW i \in DOMAIN a, JoinOf(a[i], k)
                     PROVE  \E e \in net.udp \ nt.udp : JoinOf(e.pdu, k)
        BY DEF Asks
      <4>2. batch[i] \in net.udp \ nt.udp /\ JoinOf(batch[i].pdu, k)
        BY <1>5, <4>1
      <4> QED
        BY <4>2
    <3>5. AsksOnce(node[n].queue["UDP"], k) /\ ~(Asks(node[n].queue["UDP"], k) /\ Asks(a, k))
      BY <2>4, <3>1, <3>4 DEF Once
    <3>6. /\ AsksOnce(Boxes(td, nt)[<<"queue", n>>], k)
          /\ Asks(Boxes(td, nt)[<<"queue", n>>], k) =>
                Asks(Boxes(node, net)[<<"queue", n>>], k) \/ \E e \in net.udp \ nt.udp : JoinOf(e.pdu, k)
      <4>1. PICK q \in Seq(PDU) : q = node[n].queue["UDP"]
        BY <2>4
      <4>2. AsksOnce(q, k) /\ ~(Asks(q, k) /\ Asks(a, k)) /\ a \in Seq(PDU)
        BY <1>5, <3>5, <4>1
      <4>3. AsksOnce(q \o a, k) /\ (Asks(q \o a, k) => Asks(q, k) \/ Asks(a, k))
        BY ONLY <3>3, <4>2, q \in Seq(PDU), AsksConcat
      <4> QED
        BY <2>4, <3>4, <4>1, <4>3
    <3> QED
      BY <2>4, <2>5, <3>1, <3>2, <3>6, OnceRead
  <2>7. \A m \in Node : Applicant(node, net, m) => Applicant(td, nt, m)
    BY <1>4, <1>8, <1>11 DEF Applicant, Peers, Kin
  <2> QED
    BY <2>1, <2>6, <2>7 DEF Requests
<1>13. \A c \in Conn : Moved(node, c, Pipe(node, net, c), Pipe(td, nt, c))
  BY <1>10 DEF Moved
<1>14. Closing(node[n]) \/ Dropping(td, nt, s)
  BY <1>11 DEF Dropping
<1>15. Requested(s.queue["UDP"])
  <2>1. Requested(node[n].queue["UDP"]) /\ node[n].queue["UDP"] \in Seq(PDU)
    BY <1>1, WorldFacts DEF JoinInv, Good, Mail, Requested
  <2>2. Requested(a)
    <3>1. ASSUME NEW i \in DOMAIN a PROVE a[i].type \in Values \cup {"NET_JOIN"}
      <4>1. batch[i] \in net.udp /\ batch[i].dst = n /\ a[i] = batch[i].pdu
        BY <1>5
      <4>2. Letter(node, batch[i]) /\ NoMail(net.udp, n)
        BY <1>2, <4>1, InsideNoMail DEF JoinInv, Good, Mail
      <4>3. ~Reply(batch[i])
        BY <4>1, <4>2 DEF NoMail
      <4> QED
        BY <4>1, <4>2, <4>3 DEF Letter, Reply
    <3> QED
      BY <3>1 DEF Requested
  <2> QED
    BY <1>5, <1>9, <2>1, <2>2, SMTT(40) DEF Requested
<1>16. s.queue["SUCCESSOR"] = <<>> /\ (s.predecessor = NULL => s.queue["PREDECESSOR"] = <<>>)
  BY <1>1, <1>9 DEF Seat, Queued
<1>17. \A d \in nt.udp : d \in net.udp
  BY <1>5
<1>18. JoinInv'
  BY <1>2, <1>3, <1>4, <1>7, <1>8, <1>9, <1>11, <1>12, <1>13, <1>14, <1>15, <1>16, <1>17, RoundStep
<1>19. Steady({})
  <2>1. ASSUME NEW x \in Range(a), x.type = "NET_JOIN" PROVE Underway(node, net, x)
    <3>1. PICK i \in DOMAIN batch : x = batch[i].pdu /\ batch[i] \in net.udp
      BY <1>5 DEF Range
    <3> QED
      BY <2>1, <3>1 DEF Underway
  <2>2. ASSUME NEW t \in Token, NEW x \in Range(s.queue[t]), x.type = "NET_JOIN" PROVE Underway(node, net, x)
    <3>1. CASE t # "UDP"
      <4>1. s.queue[t] = node[n].queue[t]
        BY <1>9, <3>1 DEF Token
      <4> QED
        BY <2>2, <4>1, QueueUnderway
    <3>2. CASE t = "UDP"
      <4>1. node[n].queue["UDP"] \in Seq(PDU)
        BY <1>1, WorldFacts
      <4>2. x \in Range(node[n].queue["UDP"]) \/ x \in Range(a)
        BY <1>5, <1>9, <2>2, <3>2, <4>1, RangeConcat
      <4> QED
        BY <2>1, <2>2, <3>2, <4>2, QueueUnderway
    <3> QED
      BY <3>1, <3>2
  <2>3. \A c \in Conn : \A x \in Range(nt.fwd[c]) : x.type = "NET_JOIN" => Underway(node, net, x)
    BY <1>4, QueueUnderway
  <2>4. Live(s) => Underway(node, net, s.last_pdu)
    <3>1. Live(s) => Live(node[n])
      BY <1>2, <1>9 DEF Live
    <3> QED
      BY <1>1, <1>9, <3>1, JoinNotedType, QueueUnderway
  <2>5. s.state # "Q5" /\ s.state # "Q13" /\ ~s.should_close /\ (Inside(s) <=> Inside(node[n]))
    BY <1>2, <1>9 DEF Inside
  <2> QED
    BY <1>3, <1>4, <1>7, <1>9, <1>17, <2>2, <2>3, <2>4, <2>5, SteadyStep
<1> QED
  BY <1>18, <1>19

(* A read empties the socket into the queue of its token (node.rs:304, 312, 322). *)
LEMMA q6readGood ==
  ASSUME NodeInv, NodeInv', JoinInv, nodes \in SUBSET Node, nodes' = nodes, NEW n \in Node, q6read(n)
  PROVE  JoinInv' /\ Steady({})
<1>1. Running(n) /\ node[n].at = "read"
  BY DEF q6read
<1>2. Head(node[n].events) \in {"UDP", "PREDECESSOR"} /\ Connected(node[n], Head(node[n].events))
  BY <1>1, InRound
<1>3. net.rst = {}
  BY Seated
<1>4. CASE Head(node[n].events) = "UDP"
  <2>1. PICK batch \in IF Datagrams(n) = {} THEN {<<>>} ELSE Batches(n) :
              Become(n, [FilledUdp(n, batch) EXCEPT !.at = "handle"], DrainedUdp(batch))
    BY <1>4 DEF q6read
  <2>2. batch \in Batches(n) \cup {<<>>}
    BY <2>1
  <2> QED
    BY <1>1, <2>1, <2>2, ReadUdpGood
<1>5. CASE Head(node[n].events) = "PREDECESSOR"
  <2>1. PICK r \in try_read(n, "PREDECESSOR"), failed \in Fails(net, Socket(n, "PREDECESSOR")) :
              IF failed THEN Panic(n, Drained(n, "PREDECESSOR", r))
              ELSE Become(n, [Filled(n, "PREDECESSOR", r) EXCEPT !.at = "handle"], Drained(n, "PREDECESSOR", r))
    <3> DEFINE token == Head(node[n].events)
               Result(r, failed) ==
                 IF failed THEN Panic(n, Drained(n, token, r))
                 ELSE IF token = "SUCCESSOR" /\ r.closed
                 THEN Become(n, [[Filled(n, token, r) EXCEPT !.at = "handle"] EXCEPT !.successor = NULL], Drained(n, token, r))
                 ELSE Become(n, [Filled(n, token, r) EXCEPT !.at = "handle"], Drained(n, token, r))
    <3>1. token # "UDP"
      BY <1>5
    <3>2. \E r \in try_read(n, token), failed \in Fails(net, Socket(n, token)) : Result(r, failed)
      BY <3>1 DEF q6read
    <3>3. PICK r \in try_read(n, token), failed \in Fails(net, Socket(n, token)) : Result(r, failed)
      BY <3>2
    <3>4. IF failed THEN Panic(n, Drained(n, token, r))
          ELSE Become(n, [Filled(n, token, r) EXCEPT !.at = "handle"], Drained(n, token, r))
      BY <1>5, <3>3
    <3>5. token = "PREDECESSOR"
      BY <1>5
    <3> HIDE DEF token
    <3> QED
      BY <3>3, <3>4, <3>5
  <2>2. ~failed
    BY <1>3, <2>1 DEF Fails
  <2> QED
    BY <1>1, <1>2, <1>5, <2>1, <2>2, ReadPredecessorGood
<1> QED
  BY <1>2, <1>4, <1>5

(***************************************************************************)
(* A PDU is handled.                                                       *)
(***************************************************************************)
(* The first of a queue is the first of what was sent on its connection. *)
LEMMA TailConcat ==
  \A q, f \in Seq(PDU) : q # <<>> => /\ q \o f # <<>> /\ Head(q \o f) = Head(q)
                                     /\ Tail(q \o f) = Tail(q) \o f /\ Tail(q) \in Seq(PDU)
<1>1. SUFFICES ASSUME NEW q \in Seq(PDU), NEW f \in Seq(PDU), q # <<>>
               PROVE  /\ q \o f # <<>> /\ Head(q \o f) = Head(q)
                      /\ Tail(q \o f) = Tail(q) \o f /\ Tail(q) \in Seq(PDU)
  OBVIOUS
<1>2. /\ Len(q) \in Nat /\ Len(q) > 0 /\ Len(f) \in Nat /\ Tail(q) \in Seq(PDU) /\ Len(Tail(q)) = Len(q) - 1
      /\ q \o f \in Seq(PDU) /\ Len(q \o f) = Len(q) + Len(f)
  BY <1>1
<1>3. /\ Tail(q \o f) \in Seq(PDU) /\ Tail(q) \o f \in Seq(PDU) /\ q \o f # <<>>
      /\ Len(Tail(q \o f)) = Len(q) + Len(f) - 1 /\ Len(Tail(q) \o f) = Len(q) + Len(f) - 1
  BY <1>2
<1>4. ASSUME NEW i \in 1 .. Len(q) + Len(f) - 1 PROVE Tail(q \o f)[i] = (Tail(q) \o f)[i]
  BY <1>2
<1>5. Tail(q \o f) = Tail(q) \o f
  BY <1>3, <1>4, SeqEqual
<1> QED
  BY <1>2, <1>3, <1>5

(* What is written last is behind all that was read. *)
LEMMA AppendConcat ==
  \A q, f \in Seq(PDU) : \A x \in PDU : q \o Append(f, x) = Append(q \o f, x)
<1>1. SUFFICES ASSUME NEW q \in Seq(PDU), NEW f \in Seq(PDU), NEW x \in PDU
               PROVE  q \o Append(f, x) = Append(q \o f, x)
  OBVIOUS
<1>2. q \o f \in Seq(PDU) /\ Append(f, x) = f \o <<x>> /\ <<x>> \in Seq(PDU)
  OBVIOUS
<1>3. Append(q \o f, x) = (q \o f) \o <<x>>
  BY <1>2
<1> QED
  BY <1>2, <1>3, PDUAssociative

(* The NET_JOIN of k moves from x to y. *)
LEMMA RequestsMove ==
  ASSUME NEW sd, NEW nt, Requests(sd, nt), NEW td, NEW mt, NEW x \in BoxId, NEW y \in BoxId, x # y, NEW k \in Node,
         Asks(Boxes(sd, nt)[x], k), ~Asks(Boxes(td, mt)[x], k),
         AsksOnce(Boxes(td, mt)[x], k), AsksOnce(Boxes(td, mt)[y], k),
         \A z \in BoxId \ {x, y}, m \in Node : Less(Boxes(sd, nt)[z], Boxes(td, mt)[z], m),
         \A m \in Node : m # k => /\ Less(Boxes(sd, nt)[x], Boxes(td, mt)[x], m)
                                  /\ Less(Boxes(sd, nt)[y], Boxes(td, mt)[y], m),
         mt.udp = nt.udp, \A m \in Node : Applicant(sd, nt, m) => Applicant(td, mt, m)
  PROVE  Requests(td, mt)
<1> DEFINE b == Boxes(sd, nt)
           d == Boxes(td, mt)
           U == nt.udp
<1>1. \A m \in Node : Once(b, U, m) /\ (Sought(b, U, m) => Applicant(sd, nt, m))
  BY DEF Requests
<1>2. /\ Asks(b[x], k) /\ ~Asks(d[x], k) /\ AsksOnce(d[x], k) /\ AsksOnce(d[y], k)
      /\ \A z \in BoxId \ {x, y}, m \in Node : Less(b[z], d[z], m)
      /\ \A m \in Node : m # k => Less(b[x], d[x], m) /\ Less(b[y], d[y], m)
  OBVIOUS
<1> HIDE DEF b, d, U
<1>3. Once(d, U, k) /\ Sought(b, U, k)
  BY <1>1, <1>2, OnceMove
<1>4. ASSUME NEW m \in Node, m # k
      PROVE  Once(d, U, m) /\ (Sought(d, U, m) => Sought(b, U, m))
  <2>1. \A z \in BoxId : Less(b[z], d[z], m)
    BY <1>2, <1>4
  <2> QED
    BY <1>1, <2>1, OnceLess
<1>5. \A m \in Node : Once(d, U, m) /\ (Sought(d, U, m) => Applicant(td, mt, m))
  BY <1>1, <1>3, <1>4
<1> QED
  BY <1>5 DEF Requests, d, U

(* The memory after the PDU was taken from the queue. *)
Taken(m, s, token) ==
  /\ s \in Memory /\ s.at = "handle" /\ s.events = m.events
  /\ s.process = m.process /\ s.start = m.start /\ s.end = m.end
  /\ s.successor = m.successor /\ s.successor_listen = m.successor_listen
  /\ s.predecessor = m.predecessor /\ ~s.should_close
  /\ s.queue[token] = Tail(m.queue[token]) /\ \A t \in Token : t # token => s.queue[t] = m.queue[t]

(* A request may be passed on to the successor. *)
Onward(nt, mt, n, c) ==
  \/ mt.fwd[c] = nt.fwd[c]
  \/ c.from = n /\ Dials(node, c) /\ \E x \in PDU : x.type \in Values /\ mt.fwd[c] = Append(nt.fwd[c], x)

(* What happens on a connection: one PDU is gone, or one more is there. *)
Flow(td, nt, n, token, c) ==
  /\ token = "PREDECESSOR" /\ node[n].predecessor = c =>
        /\ Pipe(node, net, c) # <<>> /\ Head(Pipe(node, net, c)) = Head(node[n].queue[token])
        /\ Pipe(td, nt, c) = Tail(Pipe(node, net, c)) /\ c.to = n
  /\ ~(token = "PREDECESSOR" /\ node[n].predecessor = c) =>
        \/ Pipe(td, nt, c) = Pipe(node, net, c)
        \/ /\ Dials(node, c) /\ c.from = n
           /\ \E x \in PDU : x.type \in Values /\ Pipe(td, nt, c) = Append(Pipe(node, net, c), x)

(* The PDU is taken off one connection, and at most one that answers it is put on another. *)
LEMMA HandlePipes ==
  ASSUME NodeInv, JoinInv, NEW n \in Node, Running(n), node[n].at = "handle",
         NEW token, token = Head(node[n].events), NEW s, Taken(node[n], s, token),
         NEW nt, NetSound(nt), \A c \in Conn : Onward(net, nt, n, c), NEW td, td = [node EXCEPT ![n] = s]
  PROVE  \A c \in Conn : Flow(td, nt, n, token, c)
<1> SUFFICES ASSUME NEW c \in Conn PROVE Flow(td, nt, n, token, c)
  OBVIOUS
<1> USE DEF Flow
<1>1. World(node, net) /\ Settled(node[n]) /\ Wires(node, net)
  BY Seated DEF NodeInv, JoinInv, Good
<1>2. token \in {"UDP", "PREDECESSOR"} /\ token \in Token /\ "PREDECESSOR" \in Token
  BY InRound DEF Token
<1>3. /\ c.to \in Node /\ c.from # c.to /\ nt.fwd[c] \in Seq(PDU) /\ net.fwd[c] \in Seq(PDU)
      /\ node[n].queue["PREDECESSOR"] \in Seq(PDU) /\ node[c.to].queue["PREDECESSOR"] \in Seq(PDU)
  BY <1>1, NetFields, WorldFacts
<1>4. node[n].queue[token] # <<>>
  BY <1>1 DEF Settled
<1>5. td[n] = s /\ \A m \in Node : m # n => td[m] = node[m]
  BY <1>1 DEF World
<1>6. td[c.to].predecessor = node[c.to].predecessor
  BY <1>3, <1>5 DEF Taken
<1>7. CASE token = "PREDECESSOR" /\ node[n].predecessor = c
  <2>1. c.to = n
    BY <1>1, <1>7, NullFacts DEF Wires, Ends
  <2>2. nt.fwd[c] = net.fwd[c]
    BY <1>3, <2>1 DEF Onward
  <2>3. s.queue["PREDECESSOR"] = Tail(node[n].queue["PREDECESSOR"])
    BY <1>7 DEF Taken
  <2>4. PICK q, f \in Seq(PDU) : q = node[n].queue["PREDECESSOR"] /\ f = net.fwd[c]
    BY <1>3
  <2>5. Pipe(node, net, c) = q \o f /\ Pipe(td, nt, c) = Tail(q) \o f
    BY <1>5, <1>6, <1>7, <2>1, <2>2, <2>3, <2>4 DEF Pipe
  <2>6. q # <<>>
    BY <1>4, <1>7, <2>4
  <2>7. q \o f # <<>> /\ Head(q \o f) = Head(q) /\ Tail(q \o f) = Tail(q) \o f
    BY ONLY <2>6, q \in Seq(PDU), f \in Seq(PDU), TailConcat
  <2> QED
    BY <1>7, <2>1, <2>4, <2>5, <2>7
<1>8. CASE ~(token = "PREDECESSOR" /\ node[n].predecessor = c)
  <2>1. node[c.to].predecessor = c => td[c.to].queue["PREDECESSOR"] = node[c.to].queue["PREDECESSOR"]
    <3>1. CASE c.to # n
      BY <1>3, <1>5, <3>1
    <3>2. CASE c.to = n /\ token # "PREDECESSOR"
      BY <1>2, <1>5, <3>2 DEF Taken
    <3>3. CASE c.to = n /\ node[n].predecessor # c
      BY <3>3
    <3> QED
      BY <1>8, <3>1, <3>2, <3>3
  <2>2. CASE nt.fwd[c] = net.fwd[c]
    <3>1. Pipe(td, nt, c) = Pipe(node, net, c)
      BY ONLY <1>6, <2>1, <2>2 DEF Pipe
    <3> QED
      BY <1>8, <3>1
  <2>3. CASE c.from = n /\ Dials(node, c) /\ \E x \in PDU : x.type \in Values /\ nt.fwd[c] = Append(net.fwd[c], x)
    <3>1. PICK x \in PDU : x.type \in Values /\ nt.fwd[c] = Append(net.fwd[c], x)
      BY <2>3
    <3>2. Pipe(td, nt, c) = Append(Pipe(node, net, c), x)
      <4>1. PICK q \in Seq(PDU), f \in Seq(PDU) : q = node[c.to].queue["PREDECESSOR"] /\ f = net.fwd[c]
        BY <1>3
      <4>2. q \o Append(f, x) = Append(q \o f, x)
        BY <4>1, AppendConcat
      <4> QED
        BY ONLY <1>6, <2>1, <3>1, <4>1, <4>2 DEF Pipe
    <3> QED
      BY <1>8, <2>3, <3>1, <3>2
  <2> QED
    BY <2>2, <2>3 DEF Onward
<1> QED
  BY <1>7, <1>8

Noting(m, token, x, l) == [Popped(m, token) EXCEPT !.state = x, !.last_pdu = l]

Keeping(s, v) == [s EXCEPT !.values = v]

(* pop_front takes the PDU that is handled off the queue of its token (node.rs:305, 316, 326). *)
LEMMA PoppedTaken ==
  ASSUME NodeInv, JoinInv, NEW n \in Node, Running(n), node[n].at = "handle", NEW token, token = Head(node[n].events),
         NEW x \in State, NEW l \in PDU \cup {NULL}, NEW s, s = Noting(node[n], token, x, l)
  PROVE  /\ Taken(node[n], s, token) /\ s.state = x /\ s.last_pdu = l /\ s.values = node[n].values
         /\ node[n].queue[token] # <<>> /\ Head(node[n].queue[token]) \in PDU
<1>1. node[n] \in Memory /\ Settled(node[n])
  BY NodeFacts DEF NodeInv
<1>2. token \in {"UDP", "PREDECESSOR"} /\ token \in Token /\ ~node[n].should_close
  BY InRound DEF Token
<1>3. node[n].queue \in [Token -> Seq(PDU)] /\ node[n].queue[token] # <<>>
  BY <1>1, MemoryFields DEF Settled
<1>4. PICK q : q = [node[n].queue EXCEPT ![token] = Tail(@)]
  OBVIOUS
<1>5. Tail(node[n].queue[token]) \in Seq(PDU) /\ Head(node[n].queue[token]) \in PDU
  BY <1>2, <1>3
<1>6. /\ q \in [Token -> Seq(PDU)] /\ q[token] = Tail(node[n].queue[token])
      /\ \A t \in Token : t # token => q[t] = node[n].queue[t]
  BY <1>2, <1>3, <1>4, <1>5
<1>7. s = [[node[n] EXCEPT !.queue = q] EXCEPT !.state = x, !.last_pdu = l]
  BY <1>4 DEF Popped, Noting
<1>8. PICK m \in Memory : m = node[n]
  BY <1>1
<1>9. s = [[m EXCEPT !.queue = q] EXCEPT !.state = x, !.last_pdu = l]
  BY <1>7, <1>8
<1>10. /\ s \in Memory /\ s.at = m.at /\ s.state = x /\ s.events = m.events
       /\ s.process = m.process /\ s.start = m.start /\ s.end = m.end /\ s.last_pdu = l
       /\ s.successor = m.successor /\ s.successor_listen = m.successor_listen
       /\ s.predecessor = m.predecessor /\ (s.should_close <=> m.should_close)
       /\ s.values = m.values /\ s.queue = q
  BY ONLY <1>6, <1>9, m \in Memory, x \in State, l \in PDU \cup {NULL} DEF Memory
<1>11. Taken(node[n], s, token)
  BY ONLY <1>2, <1>6, <1>8, <1>10, node[n].at = "handle" DEF Taken
<1> QED
  BY <1>3, <1>5, <1>8, <1>10, <1>11

(* So it does if the table changes too. *)
LEMMA ValuesTaken ==
  ASSUME NEW m, NEW s, NEW token, Taken(m, s, token), NEW v \in [Key -> Seq(Value)],
         NEW t, t = Keeping(s, v)
  PROVE  Taken(m, t, token) /\ t.state = s.state /\ t.last_pdu = s.last_pdu
<1>1. s \in Memory
  BY DEF Taken
<1>2. /\ t \in Memory /\ t.at = s.at /\ t.state = s.state /\ t.events = s.events
      /\ t.process = s.process /\ t.start = s.start /\ t.end = s.end /\ t.last_pdu = s.last_pdu
      /\ t.successor = s.successor /\ t.successor_listen = s.successor_listen
      /\ t.predecessor = s.predecessor /\ (t.should_close <=> s.should_close)
      /\ t.queue = s.queue
  BY <1>1 DEF Memory, Keeping
<1> QED
  BY <1>2 DEF Taken

(* The cases of handle_pdu have this form in common (node.rs:681). *)
LEMMA HandleStep ==
  ASSUME NodeInv, NodeInv', JoinInv, nodes \in SUBSET Node, nodes' = nodes, NEW n \in Node, Running(n), node[n].at = "handle",
         NEW token, token = Head(node[n].events), NEW s, Taken(node[n], s, token),
         s.state \in {"Q6", "Q12", "Q17"}, s.state = "Q17" => s.successor # NULL,
         NEW nt, NetSound(nt), nt.rst = {}, nt.backlog = net.backlog, nt.bwd = net.bwd,
         \A c \in Conn : Onward(net, nt, n, c), Become(n, s, nt),
         NEW td, td = [node EXCEPT ![n] = s], Closing(node[n]) \/ Dropping(td, nt, s),
         \A d \in nt.udp : d \in net.udp \/ Posted(node, d), Requests(td, nt),
         Live(s) => s.last_pdu = Head(node[n].queue[token]) \/ (Live(node[n]) /\ s.last_pdu = node[n].last_pdu)
  PROVE  JoinInv' /\ Steady({})
<1>1. /\ Seat(node[n]) /\ World(node, net) /\ Inside(node[n]) /\ Settled(node[n])
      /\ token \in {"UDP", "PREDECESSOR"} /\ {"UDP", "PREDECESSOR", "SUCCESSOR"} = Token
  BY Seated, InRound DEF NodeInv, Token
<1>2. Inside(s) /\ Kin(node[n], s) /\ s.process = node[n].process /\ ~s.should_close
  BY <1>1, InRound DEF Taken, Kin, Inside, Inner, Asked, Told
<1>3. s \in Memory /\ s.at = "handle" /\ s.events = node[n].events /\ s.predecessor = node[n].predecessor
  BY DEF Taken
<1>4. s.queue["SUCCESSOR"] = node[n].queue["SUCCESSOR"]
  BY <1>1 DEF Taken
<1>5. s.queue["SUCCESSOR"] = <<>>
  BY <1>1, <1>4 DEF Seat, Queued
<1>6. s.predecessor = NULL => s.queue["PREDECESSOR"] = <<>>
  <2>1. SUFFICES ASSUME s.predecessor = NULL PROVE s.queue["PREDECESSOR"] = <<>>
    OBVIOUS
  <2>2. node[n].queue["PREDECESSOR"] = <<>>
    BY <1>1, <1>3, <2>1 DEF Seat, Queued
  <2>3. token # "PREDECESSOR"
    BY <1>1, <2>2 DEF Settled
  <2> QED
    BY <1>1, <2>2, <2>3 DEF Taken
<1>7. Requested(s.queue["UDP"])
  <2>1. Requested(node[n].queue["UDP"]) /\ node[n].queue["UDP"] \in Seq(PDU)
    BY <1>1, WorldFacts DEF JoinInv, Good, Mail, Requested
  <2>2. CASE token = "UDP"
    <3>1. s.queue["UDP"] = Tail(node[n].queue["UDP"]) /\ node[n].queue["UDP"] # <<>>
      BY <1>1, <2>2 DEF Taken, Settled
    <3> QED
      BY <2>1, <3>1 DEF Requested
  <2>3. CASE token # "UDP"
    BY <1>1, <2>1, <2>3 DEF Taken
  <2> QED
    BY <2>2, <2>3
<1>8. ASSUME NEW c \in Conn
      PROVE  Moved(node, c, Pipe(node, net, c), Pipe(td, nt, c))
  <2>1. \A e \in Conn : Flow(td, nt, n, token, e)
    BY HandlePipes
  <2>2. Flow(td, nt, n, token, c)
    BY <2>1
  <2> QED
    BY <1>1, <2>2 DEF Flow, Moved, Handled, Passed
<1>9. \A c \in Conn : Moved(node, c, Pipe(node, net, c), Pipe(td, nt, c))
  BY <1>8
<1>10. node[n].at \in {"read", "handle"}
  OBVIOUS
<1>11. JoinInv'
  BY <1>1, <1>2, <1>3, <1>5, <1>6, <1>7, <1>9, <1>10, RoundStep
<1>12. Steady({})
  <2>1. /\ node[n].queue \in [Token -> Seq(PDU)] /\ node[n].queue[token] \in Seq(PDU)
        /\ node[n].queue[token] # <<>>
    BY <1>1, MemoryFields DEF Settled, World
  <2>2. PICK q \in Seq(PDU) : q = node[n].queue[token]
    BY <2>1
  <2>3. Head(q) \in Range(q) /\ \A x \in Range(Tail(q)) : x \in Range(q)
    BY ONLY <2>1, <2>2, q \in Seq(PDU) DEF Range
  <2>4. ASSUME NEW t \in Token, NEW x \in Range(s.queue[t]), x.type = "NET_JOIN" PROVE Underway(node, net, x)
    <3>1. x \in Range(node[n].queue[t])
      BY <2>2, <2>3, <2>4 DEF Taken
    <3> QED
      BY <2>4, <3>1, QueueUnderway
  <2>5. ASSUME NEW c \in Conn, NEW x \in Range(nt.fwd[c]), x.type = "NET_JOIN" PROVE Underway(node, net, x)
    <3>1. Onward(net, nt, n, c) /\ net.fwd[c] \in Seq(PDU)
      BY <1>1, WorldFacts
    <3>2. CASE nt.fwd[c] = net.fwd[c]
      BY <2>5, <3>2, QueueUnderway
    <3>3. CASE nt.fwd[c] # net.fwd[c]
      <4>1. PICK y \in PDU : y.type \in Values /\ nt.fwd[c] = Append(net.fwd[c], y)
        BY <3>1, <3>3 DEF Onward
      <4>2. PICK f \in Seq(PDU) : f = net.fwd[c]
        BY <3>1
      <4>3. x \in Range(f) \/ x = y
        BY <2>5, <4>1, <4>2 DEF Range
      <4> QED
        BY <2>5, <4>1, <4>2, <4>3, QueueUnderway DEF Values
    <3> QED
      BY <3>2, <3>3
  <2>6. Live(s) => Underway(node, net, s.last_pdu)
    <3>1. SUFFICES ASSUME Live(s) PROVE Underway(node, net, s.last_pdu)
      OBVIOUS
    <3>2. PICK sd, mt : sd = node' /\ mt = net' /\ sd[n] = Settle(s) /\ World(sd, mt)
      BY BecomeIs, InvWorldNext
    <3>3. s.state = "Q12"
      BY <3>1 DEF Live
    <3>4. PICK t : t = Settle(s)
      OBVIOUS
    <3>5. t.state = "Q12" /\ t.last_pdu = s.last_pdu
      BY <1>2, <1>3, <3>3, <3>4, SettleFields
    <3>6. Live(t) /\ t = sd[n]
      BY <3>2, <3>4, <3>5 DEF Live
    <3>7. s.last_pdu.type = "NET_JOIN"
      BY <3>2, <3>5, <3>6, JoinNotedType
    <3> QED
      BY <1>1, <2>2, <2>3, <3>1, <3>7, QueueUnderway
  <2>7. /\ s.start = node[n].start /\ s.end = node[n].end /\ (Inside(s) <=> Inside(node[n]))
        /\ s.state # "Q5" /\ s.state # "Q13"
    BY <1>2 DEF Kin
  <2> QED
    BY <1>2, <1>3, <2>4, <2>5, <2>6, <2>7, SteadyStep DEF Posted
<1> QED
  BY <1>11, <1>12

(* No NET_JOIN is noted. *)
LEMMA HandleRequests ==
  ASSUME NodeInv, JoinInv, NEW n \in Node, Running(n), node[n].at = "handle",
         NEW token, token = Head(node[n].events), NEW s, Taken(node[n], s, token), s.state \in {"Q6", "Q17"},
         NEW nt, NetSound(nt), nt.backlog = net.backlog, \A c \in Conn : Onward(net, nt, n, c),
         NEW td, td = [node EXCEPT ![n] = s], \A e \in nt.udp : e.pdu.type = "NET_JOIN" => e \in net.udp
  PROVE  Requests(td, nt)
<1>1. /\ World(node, net) /\ Settled(node[n]) /\ Requests(node, net) /\ node[n] \in Memory
      /\ token \in {"UDP", "PREDECESSOR"} /\ {"UDP", "PREDECESSOR", "SUCCESSOR"} = Token
  BY Seated, InRound DEF NodeInv, Token, JoinInv, Good
<1>2. td[n] = s /\ Peers(node, td, n)
  BY <1>1 DEF World, Peers
<1>3. \A c \in Conn : Flow(td, nt, n, token, c)
  BY HandlePipes
<1>4. ASSUME NEW k \in Node, NEW c \in Conn
      PROVE  Less(Pipe(node, net, c), Pipe(td, nt, c), k)
  <2>1. Flow(td, nt, n, token, c) /\ Pipe(node, net, c) \in Seq(PDU)
    BY <1>1, <1>3, WorldFacts
  <2>2. PICK p \in Seq(PDU) : p = Pipe(node, net, c)
    BY <2>1
  <2>3. \/ Pipe(td, nt, c) = p
        \/ p # <<>> /\ Pipe(td, nt, c) = Tail(p)
        \/ \E x \in PDU : x.type \in Values /\ Pipe(td, nt, c) = Append(p, x)
    BY <2>1, <2>2 DEF Flow
  <2>4. \A x \in PDU : x.type \in Values => ~JoinOf(x, k)
    BY DEF Values, JoinOf
  <2>5. /\ Less(p, p, k) /\ (p # <<>> => Less(p, Tail(p), k))
        /\ \A x \in PDU : ~JoinOf(x, k) => Less(p, Append(p, x), k)
    BY LessSimple
  <2> QED
    BY <2>2, <2>3, <2>4, <2>5
<1>5. ASSUME NEW k \in Node
      PROVE  /\ Less(node[n].queue["UDP"], td[n].queue["UDP"], k)
             /\ Less(JoinNoted(node[n]), JoinNoted(td[n]), k)
  <2>1. JoinNoted(node[n]) \in Seq(PDU) /\ JoinNoted(td[n]) = <<>>
    BY <1>1, <1>2, JoinNotedType DEF JoinNoted, Live
  <2>2. PICK q \in Seq(PDU) : q = node[n].queue["UDP"]
    BY <1>1, WorldFacts
  <2>3. s.queue["UDP"] = q \/ (q # <<>> /\ s.queue["UDP"] = Tail(q))
    BY <1>1, <2>2 DEF Taken, Settled
  <2>4. Less(q, q, k) /\ (q # <<>> => Less(q, Tail(q), k))
    BY LessSimple
  <2> QED
    BY <1>2, <2>1, <2>2, <2>3, <2>4, LessSimple
<1>6. \A m \in Node : Applicant(node, net, m) => Applicant(td, nt, m)
  <2>1. ~Asked(node[n])
    BY InRound, Apart
  <2> QED
    BY <1>2, <2>1 DEF Applicant, Peers
<1> QED
  BY <1>1, <1>2, <1>4, <1>5, <1>6, RequestsKept

(* A NET_JOIN is noted. *)
LEMMA HandleJoinRequests ==
  ASSUME NodeInv, JoinInv, NEW n \in Node, Running(n), node[n].at = "handle",
         NEW token, token = Head(node[n].events), NEW s, Taken(node[n], s, token), s.state = "Q12",
         s.last_pdu = Head(node[n].queue[token]), s.last_pdu \in PDU, s.last_pdu.type = "NET_JOIN",
         NEW td, td = [node EXCEPT ![n] = s]
  PROVE  Requests(td, net)
<1>1. /\ World(node, net) /\ Settled(node[n]) /\ Requests(node, net) /\ node[n] \in Memory /\ NetSound(net)
      /\ token \in {"UDP", "PREDECESSOR"} /\ {"UDP", "PREDECESSOR", "SUCCESSOR"} = Token /\ Seat(node[n])
  BY Seated, InRound DEF NodeInv, Token, JoinInv, Good
<1>2. td[n] = s /\ Peers(node, td, n)
  BY <1>1 DEF World, Peers
<1>3. \A c \in Conn : Onward(net, net, n, c)
  BY DEF Onward
<1>4. \A c \in Conn : Flow(td, net, n, token, c)
  BY <1>1, <1>3, HandlePipes
<1>5. ASSUME NEW c \in Conn, ~(token = "PREDECESSOR" /\ node[n].predecessor = c)
      PROVE  Pipe(td, net, c) = Pipe(node, net, c)
  <2>1. c.to \in Node
    BY ConnFields
  <2>2. td[c.to].predecessor = node[c.to].predecessor
    BY <1>2, <2>1 DEF Peers, Taken
  <2>3. node[c.to].predecessor = c => td[c.to].queue["PREDECESSOR"] = node[c.to].queue["PREDECESSOR"]
    BY <1>1, <1>2, <1>5, <2>1 DEF Peers, Taken
  <2> QED
    BY <2>2, <2>3 DEF Pipe
<1>6. PICK k \in Node : k = s.last_pdu.src
  BY PDUFields
<1>7. JoinOf(s.last_pdu, k) /\ \A m \in Node : m # k => ~JoinOf(s.last_pdu, m)
  BY <1>6 DEF JoinOf
<1>8. PICK y \in BoxId : y = <<"noted", n>>
  BY NodeBox
<1>9. Boxes(td, net)[y] = <<s.last_pdu>>
  <2>1. JoinNoted(td[n]) = <<s.last_pdu>>
    BY <1>2 DEF JoinNoted, Live
  <2> QED
    BY <1>8, <2>1 DEF Boxes, Box
<1>10. \A m \in Node : Applicant(node, net, m) => Applicant(td, net, m)
  <2>1. ~Asked(node[n])
    BY InRound, Apart
  <2> QED
    BY <1>2, <2>1 DEF Applicant, Peers
<1>11. PICK q \in Seq(PDU) : q = node[n].queue[token] /\ q # <<>> /\ Head(q) = s.last_pdu
  BY <1>1, MemoryFields DEF Settled
<1>12. \E x \in BoxId : /\ x # y /\ Boxes(node, net)[x] \in Seq(PDU) /\ Boxes(node, net)[x] # <<>>
                        /\ Head(Boxes(node, net)[x]) = s.last_pdu
                        /\ Boxes(td, net)[x] = Tail(Boxes(node, net)[x])
                        /\ \A z \in BoxId \ {x, y} : Boxes(td, net)[z] = Boxes(node, net)[z]
  <2>1. CASE token = "UDP"
    <3>1. PICK x \in BoxId : x = <<"queue", n>>
      BY NodeBox
    <3>2. Boxes(node, net)[x] = q /\ Boxes(td, net)[x] = Tail(q) /\ x # y
      <4>1. node[n].queue["UDP"] = q /\ td[n].queue["UDP"] = Tail(q)
        BY <1>2, <1>11, <2>1 DEF Taken
      <4> QED
        BY <1>8, <3>1, <4>1 DEF Boxes, Box
    <3>3. ASSUME NEW z \in BoxId \ {x, y}
          PROVE  Boxes(td, net)[z] = Boxes(node, net)[z]
      <4>1. CASE \E c \in Conn : z = <<"conn", c>>
        BY <1>5, <2>1, <4>1, ConnBox
      <4>2. CASE \E m \in Node : z = <<"queue", m>>
        <5>1. PICK m \in Node : z = <<"queue", m>>
          BY <4>2
        <5>2. td[m] = node[m]
          BY <1>2, <3>1, <3>3, <5>1 DEF Peers
        <5> QED
          BY <3>3, <5>1, <5>2 DEF Boxes, Box
      <4>3. CASE \E m \in Node : z = <<"noted", m>>
        <5>1. PICK m \in Node : z = <<"noted", m>>
          BY <4>3
        <5>2. td[m] = node[m]
          BY <1>2, <1>8, <3>3, <5>1 DEF Peers
        <5> QED
          BY <3>3, <5>1, <5>2 DEF Boxes, Box
      <4> QED
        BY <3>3, <4>1, <4>2, <4>3, BoxForms
    <3> QED
      BY <1>11, <3>2, <3>3
  <2>2. CASE token = "PREDECESSOR"
    <3>0. node[n].predecessor # NULL
      BY <1>1, <1>11, <2>2 DEF Seat, Queued
    <3>1. PICK p \in Conn : p = node[n].predecessor
      BY <1>1, <3>0, WorldFacts
    <3>2. PICK x \in BoxId : x = <<"conn", p>>
      BY ConnBox
    <3>3. /\ Pipe(node, net, p) # <<>> /\ Head(Pipe(node, net, p)) = s.last_pdu
          /\ Pipe(td, net, p) = Tail(Pipe(node, net, p)) /\ Pipe(node, net, p) \in Seq(PDU)
      BY <1>1, <1>4, <2>2, <3>1, WorldFacts DEF Flow
    <3>4. Boxes(node, net)[x] = Pipe(node, net, p) /\ Boxes(td, net)[x] = Pipe(td, net, p) /\ x # y
      BY <1>8, <3>2, ConnBox
    <3>5. ASSUME NEW z \in BoxId \ {x, y}
          PROVE  Boxes(td, net)[z] = Boxes(node, net)[z]
      <4>1. CASE \E c \in Conn : z = <<"conn", c>>
        <5>1. PICK c \in Conn : z = <<"conn", c>>
          BY <4>1
        <5>2. c # p
          BY <3>2, <3>5, <5>1
        <5>3. Pipe(td, net, c) = Pipe(node, net, c)
          BY <1>5, <3>1, <5>2
        <5> QED
          BY <5>1, <5>3, ConnBox
      <4>2. CASE \E m \in Node : z = <<"queue", m>>
        <5>1. PICK m \in Node : z = <<"queue", m>>
          BY <4>2
        <5>2. td[m].queue["UDP"] = node[m].queue["UDP"]
          BY <1>1, <1>2, <2>2 DEF Peers, Taken
        <5> QED
          BY <3>5, <5>1, <5>2 DEF Boxes, Box
      <4>3. CASE \E m \in Node : z = <<"noted", m>>
        <5>1. PICK m \in Node : z = <<"noted", m>>
          BY <4>3
        <5>2. td[m] = node[m]
          BY <1>2, <1>8, <3>5, <5>1 DEF Peers
        <5> QED
          BY <3>5, <5>1, <5>2 DEF Boxes, Box
      <4> QED
        BY <3>5, <4>1, <4>2, <4>3, BoxForms
    <3> QED
      BY <3>3, <3>4, <3>5
  <2> QED
    BY <1>1, <2>1, <2>2
<1>13. PICK x \in BoxId : /\ x # y /\ Boxes(node, net)[x] \in Seq(PDU) /\ Boxes(node, net)[x] # <<>>
                          /\ Head(Boxes(node, net)[x]) = s.last_pdu
                          /\ Boxes(td, net)[x] = Tail(Boxes(node, net)[x])
                          /\ \A z \in BoxId \ {x, y} : Boxes(td, net)[z] = Boxes(node, net)[z]
  BY <1>12
<1> DEFINE b == Boxes(node, net)
           d == Boxes(td, net)
<1> HIDE DEF b, d
<1>14. /\ b[x] \in Seq(PDU) /\ b[x] # <<>> /\ JoinOf(Head(b[x]), k) /\ d[x] = Tail(b[x]) /\ AsksOnce(b[x], k)
       /\ d[y] = <<s.last_pdu>> /\ \A z \in BoxId \ {x, y} : d[z] = b[z]
       /\ \A z \in BoxId : b[z] \in Seq(PDU)
  BY <1>1, <1>7, <1>9, <1>13, BoxType DEF b, d, Requests, Once
<1>15. Asks(b[x], k)
  BY <1>14 DEF Asks
<1>16. ~Asks(d[x], k) /\ AsksOnce(d[x], k)
  BY <1>14, AsksTail
<1>17. AsksOnce(d[y], k)
  BY <1>14, AsksSimple
<1>18. \A z \in BoxId \ {x, y}, m \in Node : Less(b[z], d[z], m)
  BY <1>14, LessSimple
<1>19. \A m \in Node : m # k => Less(b[x], d[x], m) /\ Less(b[y], d[y], m)
  BY <1>7, <1>14, LessSimple
<1> QED
  BY <1>1, <1>10, <1>13, <1>15, <1>16, <1>17, <1>18, <1>19, RequestsMove, ZenonT(60) DEF b, d

(* What a node of the ring can be asked. *)
LEMMA HandledType ==
  ASSUME NodeInv, JoinInv, NEW n \in Node, Running(n), node[n].at = "handle",
         NEW token, token = Head(node[n].events), NEW pdu, pdu = Head(node[n].queue[token])
  PROVE  /\ pdu \in PDU
         /\ \/ pdu.type \in Values \cup {"NET_JOIN"}
            \/ /\ token = "PREDECESSOR" /\ pdu.type = "NET_CLOSE_CONNECTION" /\ node[n].predecessor \in Conn
               /\ node[n].successor # NULL /\ ~Dials(node, node[n].predecessor)
               /\ Pipe(node, net, node[n].predecessor) # <<>> /\ Tail(Pipe(node, net, node[n].predecessor)) = <<>>
<1>1. /\ World(node, net) /\ Settled(node[n]) /\ Seat(node[n]) /\ node[n] \in Memory /\ Wires(node, net)
      /\ Mail(node, net.udp)
      /\ token \in {"UDP", "PREDECESSOR"} /\ {"UDP", "PREDECESSOR", "SUCCESSOR"} = Token /\ Inside(node[n])
  BY Seated, InRound DEF NodeInv, Token, JoinInv, Good
<1>2. PICK q \in Seq(PDU) : q = node[n].queue[token] /\ q # <<>>
  BY <1>1, MemoryFields DEF Settled
<1>3. pdu \in PDU /\ pdu = q[1] /\ 1 \in DOMAIN q
  BY <1>2
<1>4. CASE token = "UDP"
  BY <1>1, <1>2, <1>3, <1>4 DEF Mail
<1>5. CASE token = "PREDECESSOR"
  <2>1. node[n].predecessor # NULL
    BY <1>1, <1>2, <1>5 DEF Seat, Queued
  <2>2. PICK p \in Conn : p = node[n].predecessor /\ p.to = n
    BY <1>1, <2>1, WorldFacts DEF Wires, Ends
  <2>3. PICK f \in Seq(PDU) : f = net.fwd[p]
    BY <1>1, WorldFacts
  <2>4. Pipe(node, net, p) = q \o f
    BY <1>2, <1>5, <2>2, <2>3 DEF Pipe
  <2>5. PICK r \in Seq(PDU) : r = Pipe(node, net, p)
    BY <1>1, WorldFacts
  <2>6. r # <<>> /\ Head(r) = pdu
    <3>1. q \o f # <<>> /\ Head(q \o f) = Head(q)
      BY ONLY <1>2, q \in Seq(PDU), f \in Seq(PDU), TailConcat
    <3> QED
      BY <1>2, <2>4, <2>5, <3>1
  <2>7. 1 \in DOMAIN r /\ r[1] = pdu
    BY <2>6
  <2>8. Line(node, net, p)
    BY <1>1 DEF Wires
  <2>9. /\ pdu.type \in Traffic /\ (pdu.type = "NET_JOIN_RESPONSE" => Waits(node, net, n))
        /\ (pdu.type = "NET_CLOSE_CONNECTION" => 1 = Len(r) /\ ~Dials(node, p))
    BY <2>2, <2>5, <2>7, <2>8 DEF Line, Response
  <2>10. pdu.type # "NET_JOIN_RESPONSE"
    BY <1>1, <2>9, WaitsFacts
  <2>11. node[n].successor # NULL
    <3>1. node[n].at # "accept"
      OBVIOUS
    <3> QED
      BY <1>1, <2>1, <3>1 DEF Seat, Neighbours
  <2>12. CASE pdu.type = "NET_CLOSE_CONNECTION"
    <3>1. Tail(r) = <<>>
      <4>1. Tail(r) \in Seq(PDU) /\ Len(Tail(r)) = 0
        BY <2>6, <2>9, <2>12
      <4> QED
        BY ONLY <4>1, EmptySeq
    <3>2. ~Dials(node, p) /\ Pipe(node, net, p) # <<>> /\ Tail(Pipe(node, net, p)) = <<>>
      BY <2>5, <2>6, <2>9, <2>12, <3>1
    <3>3. /\ node[n].predecessor \in Conn /\ ~Dials(node, node[n].predecessor)
          /\ Pipe(node, net, node[n].predecessor) # <<>> /\ Tail(Pipe(node, net, node[n].predecessor)) = <<>>
      BY ONLY <2>2, <3>2, p \in Conn
    <3> QED
      BY ONLY <1>3, <1>5, <2>11, <2>12, <3>3
  <2>13. CASE pdu.type # "NET_CLOSE_CONNECTION"
    BY <1>3, <2>9, <2>10, <2>13 DEF Traffic, Values
  <2> QED
    BY <2>12, <2>13
<1> QED
  BY <1>1, <1>4, <1>5

(* A request for an entry. *)
LEMMA ValueStep ==
  ASSUME NodeInv, NodeInv', JoinInv, nodes \in SUBSET Node, nodes' = nodes, NEW n \in Node, Running(n), node[n].at = "handle",
         NEW token, token = Head(node[n].events), NEW s, Taken(node[n], s, token), s.state = "Q6",
         NEW nt, NetSound(nt), nt.rst = {}, nt.backlog = net.backlog, nt.bwd = net.bwd,
         \A c \in Conn : Onward(net, nt, n, c), Become(n, s, nt),
         \A d \in nt.udp : d \in net.udp \/ Posted(node, d)
  PROVE  JoinInv' /\ Steady({})
<1>1. PICK td : td = [node EXCEPT ![n] = s]
  OBVIOUS
<1>2. \A e \in nt.udp : e.pdu.type = "NET_JOIN" => e \in net.udp
  BY DEF Posted
<1>3. Requests(td, nt)
  BY <1>1, <1>2, HandleRequests
<1>4. Dropping(td, nt, s)
  BY DEF Dropping, Closing
<1>5. ~Live(s)
  BY DEF Live
<1> QED
  BY <1>1, <1>3, <1>4, <1>5, HandleStep

(* The kernel as it is. *)
LEMMA QuietOnward ==
  ASSUME NodeInv, JoinInv, NEW n \in Node
  PROVE  /\ NetSound(net) /\ net.rst = {} /\ \A c \in Conn : Onward(net, net, n, c)
         /\ \A d \in net.udp : d \in net.udp \/ Posted(node, d)
  BY Seated DEF Onward

(* A node that does not hold a hash has a successor to ask. *)
LEMMA ForwardGood ==
  ASSUME NodeInv, NodeInv', JoinInv, nodes \in SUBSET Node, nodes' = nodes, NEW n \in Node, Running(n), node[n].at = "handle",
         NEW token, token = Head(node[n].events), NEW s, Taken(node[n], s, token), s.state = "Q6",
         NEW pdu \in PDU, pdu.type \in Values, ~in_my_range(s, pdu.key), Forward(n, s, pdu, net)
  PROVE  JoinInv' /\ Steady({})
<1>1. /\ World(node, net) /\ Seat(node[n]) /\ NetSound(net) /\ net.rst = {} /\ Inside(node[n]) /\ Wires(node, net)
  BY Seated, InRound DEF JoinInv, Good
<1>2. s.successor # NULL
  <2>1. SUFFICES ASSUME s.successor = NULL PROVE FALSE
    OBVIOUS
  <2>2. s.start = 0 /\ s.end = HASH_SIZE - 1
    BY <1>1, <2>1 DEF Taken, Seat, Neighbours, Whole
  <2>3. pdu.key \in Key
    BY PDUFields DEF Values
  <2>4. hash_ssn[pdu.key] \in Byte
    BY <2>3, RustNodeAssumption
  <2> QED
    BY <2>2, <2>4, HashSizeAssumption DEF in_my_range, InRange, Byte
<1>3. PICK c \in Conn : c = s.successor /\ c = node[n].successor
  BY <1>1, <1>2, WorldFacts DEF Taken
<1>4. AcceptorHolds(net, c) /\ c.from = n /\ Dials(node, c)
  BY <1>1, <1>2, <1>3 DEF Wires, Link, Ends, Holds, AcceptorHolds, Dials
<1>5. Become(n, s, SendForward(net, c, <<pdu>>))
  BY <1>1, <1>2, <1>3 DEF Forward, Fails
<1>6. PICK nt : nt = SendForward(net, c, <<pdu>>)
  OBVIOUS
<1>7. <<pdu>> \in Seq(PDU)
  OBVIOUS
<1>8. NetSound(nt)
  BY <1>1, <1>6, <1>7, SendForwardSound
<1>9. /\ nt.fwd = [net.fwd EXCEPT ![c] = @ \o <<pdu>>] /\ nt.bwd = net.bwd /\ nt.backlog = net.backlog
      /\ nt.udp = net.udp /\ nt.rst = net.rst
  BY <1>1, <1>4, <1>6 DEF SendForward, NetSound, Kernel
<1>10. ASSUME NEW e \in Conn PROVE Onward(net, nt, n, e)
  <2>1. net.fwd \in [Conn -> Seq(PDU)]
    BY <1>1, NetFields
  <2>2. CASE e # c
    BY <1>9, <2>1, <2>2 DEF Onward
  <2>3. CASE e = c
    <3>1. nt.fwd[e] = Append(net.fwd[e], pdu)
      BY <1>9, <2>1, <2>3
    <3> QED
      BY <1>4, <2>3, <3>1 DEF Onward
  <2> QED
    BY <2>2, <2>3
<1> QED
  BY <1>1, <1>5, <1>6, <1>8, <1>9, <1>10, ValueStep

(* q9 handles or forwards a request (node.rs:400). *)
LEMMA q9Good ==
  ASSUME NodeInv, NodeInv', JoinInv, nodes \in SUBSET Node, nodes' = nodes, NEW n \in Node, Running(n), node[n].at = "handle",
         NEW token, token = Head(node[n].events), NEW s, s = Noting(node[n], token, "Q6", NULL),
         NEW pdu \in PDU, pdu.type \in Values, q9(n, Popped(node[n], token), pdu, net)
  PROVE  JoinInv' /\ Steady({})
<1>1. "Q6" \in State /\ NULL \in PDU \cup {NULL}
  BY DEF State
<1>2. Taken(node[n], s, token) /\ s.state = "Q6" /\ s.values = node[n].values
  <2>1. PICK x \in State, l \in PDU \cup {NULL} : x = "Q6" /\ l = NULL
    BY <1>1
  <2>2. s = Noting(node[n], token, x, l)
    BY <2>1
  <2>3. Taken(node[n], s, token) /\ s.state = x /\ s.values = node[n].values
    BY <2>2, PoppedTaken
  <2> QED
    BY <2>1, <2>3
<1>3. s \in Memory /\ s.values \in [Key -> Seq(Value)] /\ pdu.key \in Key
  BY <1>2, MemoryFields, PDUFields DEF Taken, Values
<1>4. /\ NetSound(net) /\ net.rst = {} /\ \A c \in Conn : Onward(net, net, n, c)
      /\ \A d \in net.udp : d \in net.udp \/ Posted(node, d)
  BY QuietOnward
<1>5. CASE ~in_my_range(s, pdu.key)
  <2>1. Forward(n, s, pdu, net)
    BY <1>5 DEF q9, handle_val_insert, handle_val_remove, handle_val_lookup, Values, Noting
  <2> QED
    BY <1>2, <1>5, <2>1, ForwardGood
<1>6. ASSUME NEW v \in [Key -> Seq(Value)], Become(n, [s EXCEPT !.values = v], net)
      PROVE  JoinInv' /\ Steady({})
  <2>1. PICK t : t = Keeping(s, v)
    OBVIOUS
  <2>2. Taken(node[n], t, token) /\ t.state = "Q6"
    BY <1>2, <2>1, ValuesTaken
  <2> QED
    BY <1>4, <1>6, <2>1, <2>2, ValueStep DEF Keeping
<1>7. CASE in_my_range(s, pdu.key) /\ pdu.type = "VAL_INSERT"
  <2>1. Become(n, [s EXCEPT !.values[pdu.key] = Append(@, pdu.val)], net)
    BY <1>7 DEF q9, handle_val_insert, Noting
  <2>2. PICK v : v = [s.values EXCEPT ![pdu.key] = Append(@, pdu.val)]
    OBVIOUS
  <2>3. pdu.val \in Value
    BY <1>7, PDUFields
  <2>4. v \in [Key -> Seq(Value)]
    BY <1>3, <2>2, <2>3
  <2>5. [s EXCEPT !.values[pdu.key] = Append(@, pdu.val)] = [s EXCEPT !.values = v]
    BY <2>2
  <2> QED
    BY <1>6, <2>1, <2>4, <2>5
<1>8. CASE in_my_range(s, pdu.key) /\ pdu.type = "VAL_REMOVE"
  <2>1. Become(n, [s EXCEPT !.values[pdu.key] = <<>>], net)
    BY <1>8 DEF q9, handle_val_remove, Noting
  <2>2. PICK v : v = [s.values EXCEPT ![pdu.key] = <<>>]
    OBVIOUS
  <2>3. <<>> \in Seq(Value)
    OBVIOUS
  <2>4. v \in [Key -> Seq(Value)]
    BY <1>3, <2>2, <2>3
  <2>5. [s EXCEPT !.values[pdu.key] = <<>>] = [s EXCEPT !.values = v]
    BY <2>2
  <2> QED
    BY <1>6, <2>1, <2>4, <2>5
<1>9. CASE in_my_range(s, pdu.key) /\ pdu.type = "VAL_LOOKUP"
  <2>1. PICK a : a = [type |-> "VAL_LOOKUP_RESPONSE", val |-> Found(s.values[pdu.key])]
    OBVIOUS
  <2>2. PICK nt : nt = SendUdp(net, n, Client, a)
    OBVIOUS
  <2>3. Become(n, s, nt)
    BY <1>9, <2>1, <2>2 DEF q9, handle_val_lookup, Noting
  <2>4. s.values[pdu.key] \in Seq(Value)
    BY <1>3
  <2>5. Found(s.values[pdu.key]) \in Value \cup {NULL}
    BY <2>4 DEF Found
  <2>6. a \in PDU /\ a.type = "VAL_LOOKUP_RESPONSE"
    BY <2>1, <2>5, PDUTypes
  <2>7. Client \in Node \cup {Client, Tracker} /\ n \in Node \cup {Client, Tracker} /\ Client # Tracker /\ Client \notin Node
    BY RustNodeAssumption
  <2>8. NetSound(nt)
    BY <1>4, <2>2, <2>6, <2>7, SendUdpSound
  <2>9. /\ nt.fwd = net.fwd /\ nt.bwd = net.bwd /\ nt.backlog = net.backlog /\ nt.rst = net.rst
        /\ nt.udp = net.udp \cup {[src |-> n, dst |-> Client, pdu |-> a]}
    BY <1>4, <2>2 DEF SendUdp, NetSound, Kernel
  <2>10. Posted(node, [src |-> n, dst |-> Client, pdu |-> a])
    BY <2>6, <2>7 DEF Posted, Letter, Reply
  <2>11. \A d \in nt.udp : d \in net.udp \/ Posted(node, d)
    BY <2>9, <2>10
  <2>12. \A c \in Conn : Onward(net, nt, n, c)
    BY <2>9 DEF Onward
  <2> QED
    BY <1>2, <1>4, <2>3, <2>8, <2>9, <2>11, <2>12, ValueStep
<1> QED
  BY <1>5, <1>7, <1>8, <1>9 DEF Values

(* Every PDU that can arrive is handled without a panic (node.rs:301). *)
LEMMA q6handleGood ==
  ASSUME NodeInv, NodeInv', JoinInv, nodes \in SUBSET Node, nodes' = nodes, NEW n \in Node, q6handle(n)
  PROVE  JoinInv' /\ Steady({})
<1>1. Running(n) /\ node[n].at = "handle"
  BY DEF q6handle
<1>2. PICK token, pdu : token = Head(node[n].events) /\ pdu = Head(node[n].queue[token])
  OBVIOUS
<1>3. handle_pdu(n, Popped(node[n], token), token, pdu, net)
  BY <1>2 DEF q6handle
<1>4. /\ NetSound(net) /\ net.rst = {} /\ \A c \in Conn : Onward(net, net, n, c)
      /\ \A d \in net.udp : d \in net.udp \/ Posted(node, d)
  BY QuietOnward
<1>5. /\ pdu \in PDU
      /\ \/ pdu.type \in Values \cup {"NET_JOIN"}
         \/ /\ token = "PREDECESSOR" /\ pdu.type = "NET_CLOSE_CONNECTION" /\ node[n].predecessor \in Conn
            /\ node[n].successor # NULL /\ ~Dials(node, node[n].predecessor)
            /\ Pipe(node, net, node[n].predecessor) # <<>> /\ Tail(Pipe(node, net, node[n].predecessor)) = <<>>
  BY <1>1, <1>2, HandledType
<1>6. CASE pdu.type \in Values
  <2>1. q9(n, Popped(node[n], token), pdu, net)
    BY <1>3, <1>6 DEF handle_pdu, Values
  <2> QED
    BY <1>1, <1>2, <1>5, <1>6, <2>1, q9Good
<1>7. CASE pdu.type = "NET_JOIN"
  <2>1. PICK s : s = [Popped(node[n], token) EXCEPT !.state = "Q12", !.last_pdu = pdu]
    OBVIOUS
  <2>2. Become(n, s, net)
    BY <1>3, <1>7, <2>1 DEF handle_pdu, Note
  <2>3. "Q12" \in State /\ pdu \in PDU \cup {NULL}
    BY <1>5 DEF State
  <2>4. Taken(node[n], s, token) /\ s.state = "Q12" /\ s.last_pdu = pdu
    <3>1. s = Noting(node[n], token, "Q12", pdu)
      BY <2>1 DEF Noting
    <3> QED
      BY <1>1, <1>2, <2>3, <3>1, PoppedTaken, SMTT(40)
  <2>5. PICK td : td = [node EXCEPT ![n] = s]
    OBVIOUS
  <2>6. Requests(td, net)
    BY <1>1, <1>2, <1>5, <1>7, <2>4, <2>5, HandleJoinRequests
  <2>7. Dropping(td, net, s)
    BY <2>4 DEF Dropping, Closing
  <2>8. Live(s) => s.last_pdu = Head(node[n].queue[token])
    BY <1>2, <2>4
  <2> QED
    BY <1>1, <1>2, <1>4, <2>2, <2>4, <2>5, <2>6, <2>7, <2>8, HandleStep
<1>8. CASE pdu.type = "NET_CLOSE_CONNECTION"
  <2>1. /\ token = "PREDECESSOR" /\ node[n].predecessor \in Conn
        /\ node[n].successor # NULL /\ ~Dials(node, node[n].predecessor)
        /\ Pipe(node, net, node[n].predecessor) # <<>> /\ Tail(Pipe(node, net, node[n].predecessor)) = <<>>
    BY <1>5, <1>8 DEF Values
  <2>2. PICK l : l = Popped(node[n], token).last_pdu
    OBVIOUS
  <2>3. PICK s : s = [Popped(node[n], token) EXCEPT !.state = "Q17", !.last_pdu = l]
    OBVIOUS
  <2>4. Become(n, s, net)
    BY <1>3, <1>8, <2>1, <2>2, <2>3 DEF handle_pdu, Note
  <2>5. l = node[n].last_pdu
    BY <1>4, <2>2, NodeFacts DEF Popped, Memory
  <2>6. "Q17" \in State /\ l \in PDU \cup {NULL}
    BY <2>5, NodeFacts, MemoryFields DEF State
  <2>7. Taken(node[n], s, token) /\ s.state = "Q17" /\ s.successor # NULL
    <3>1. s = Noting(node[n], token, "Q17", l)
      BY <2>3 DEF Noting
    <3>2. Taken(node[n], s, token) /\ s.state = "Q17"
      BY <1>1, <1>2, <2>6, <3>1, PoppedTaken
    <3> QED
      BY <2>1, <3>2 DEF Taken
  <2>8. PICK td : td = [node EXCEPT ![n] = s]
    OBVIOUS
  <2>9. Requests(td, net)
    BY <1>1, <1>2, <1>4, <2>7, <2>8, HandleRequests
  <2>10. Dropping(td, net, s)
    <3>1. \A c \in Conn : Flow(td, net, n, token, c)
      BY <1>1, <1>2, <1>4, <2>7, <2>8, HandlePipes
    <3>2. PICK p \in Conn : p = node[n].predecessor /\ s.predecessor = p
      BY <2>1, <2>7 DEF Taken
    <3>3. Pipe(td, net, p) = <<>>
      BY <2>1, <3>1, <3>2 DEF Flow
    <3>4. ~Dials(td, p)
      <4>1. p.from \in Node /\ node \in [Node -> Memory]
        BY ConnFields DEF NodeInv
      <4>2. td[p.from].successor = node[p.from].successor
        BY <2>7, <2>8, <4>1 DEF Taken
      <4> QED
        BY <2>1, <3>2, <4>2 DEF Dials
    <3> QED
      BY <3>2, <3>3, <3>4 DEF Dropping
  <2>11. ~Live(s)
    BY <2>7 DEF Live
  <2> QED
    BY <1>1, <1>2, <1>4, <2>4, <2>7, <2>8, <2>9, <2>10, <2>11, HandleStep
<1> QED
  BY <1>5, <1>6, <1>7, <1>8

(***************************************************************************)
(* NET_JOIN is passed on.                                                  *)
(***************************************************************************)
(* A PDU written to a connection is the last that was sent on it. *)
LEMMA PipeAppend ==
  ASSUME NEW sd, NEW nt, World(sd, nt), NEW td, NEW mt, NEW n \in Node, Peers(sd, td, n),
         td[n].predecessor = sd[n].predecessor, td[n].queue["PREDECESSOR"] = sd[n].queue["PREDECESSOR"],
         NEW c \in Conn, NEW x \in PDU, mt.fwd[c] = Append(nt.fwd[c], x),
         \A e \in Conn : e # c => mt.fwd[e] = nt.fwd[e]
  PROVE  /\ Pipe(td, mt, c) = Append(Pipe(sd, nt, c), x)
         /\ \A e \in Conn : e # c => Pipe(td, mt, e) = Pipe(sd, nt, e)
<1>1. ASSUME NEW e \in Conn
      PROVE  /\ td[e.to].predecessor = sd[e.to].predecessor
             /\ td[e.to].queue["PREDECESSOR"] = sd[e.to].queue["PREDECESSOR"]
  BY ConnFields DEF Peers
<1>2. PICK q \in Seq(PDU), f \in Seq(PDU) : q = sd[c.to].queue["PREDECESSOR"] /\ f = nt.fwd[c]
  BY WorldFacts
<1>3. q \o Append(f, x) = Append(q \o f, x)
  BY AppendConcat
<1>4. Pipe(td, mt, c) = Append(Pipe(sd, nt, c), x)
  BY <1>1, <1>2, <1>3 DEF Pipe
<1>5. ASSUME NEW e \in Conn, e # c PROVE Pipe(td, mt, e) = Pipe(sd, nt, e)
  BY <1>1, <1>5 DEF Pipe
<1> QED
  BY <1>4, <1>5

Passing(m) == [Goto(m, "Q6") EXCEPT !.last_pdu = NULL]

(* What q14 changes at the node itself. *)
LEMMA PassingFields ==
  ASSUME NEW m \in Memory, NEW s, s = Passing(m)
  PROVE  /\ s \in Memory /\ s.state = "Q6" /\ s.at = "run" /\ s.process = m.process
         /\ s.queue = m.queue /\ (s.should_close <=> m.should_close)
         /\ s.start = m.start /\ s.end = m.end /\ s.successor = m.successor
         /\ s.successor_listen = m.successor_listen /\ s.predecessor = m.predecessor /\ s.values = m.values
  BY DEF Passing, Goto, Memory, State

(* q14 marks the node with the largest range and passes NET_JOIN on (node.rs:540): the one NET_JOIN
   that comes up is last_pdu, or it names n, whose range can be split. *)
LEMMA q14Good ==
  ASSUME NodeInv, NodeInv', JoinInv, nodes \in SUBSET Node, nodes' = nodes, NEW n \in Node, q14(n)
  PROVE  /\ JoinInv'
         /\ \E x \in PDU : Steady({x}) /\ (x = node[n].last_pdu \/ (x.max = n /\ node[n].start < node[n].end))
<1>1. /\ Seat(node[n]) /\ Sound(node[n]) /\ node[n] \in Memory
      /\ net.rst = {} /\ NetSound(net) /\ World(node, net) /\ World(node', net') /\ Wires(node, net) /\ Requests(node, net)
  BY Seated, InvWorldNext DEF JoinInv, Good
<1>2. node[n].state = "Q14" /\ node[n].at = "run" /\ Running(n)
  BY DEF q14, At
<1>3. PICK l \in PDU : l = node[n].last_pdu /\ l.type = "NET_JOIN"
  BY <1>1, <1>2, JoinNotedType DEF Live
<1>4. PICK x : x = IF Span(node[n]) > l.max_span THEN [l EXCEPT !.max_span = Span(node[n]), !.max = n] ELSE l
  OBVIOUS
<1>5. x \in PDU /\ x.type = "NET_JOIN" /\ x.src = l.src
  <2>1. Span(node[n]) \in Byte
    BY <1>1, WorldFacts, SplitType
  <2>2. [l EXCEPT !.max_span = Span(node[n]), !.max = n] \in PDU
    BY <1>3, <2>1, PDUFields
  <2>3. [l EXCEPT !.max_span = Span(node[n]), !.max = n].type = "NET_JOIN"
        /\ [l EXCEPT !.max_span = Span(node[n]), !.max = n].src = l.src
    BY <1>3 DEF PDU
  <2> QED
    BY <1>3, <1>4, <2>2, <2>3
<1>6. PICK s : s = Passing(node[n])
  OBVIOUS
<1>7. Forward(n, s, x, net)
  BY <1>3, <1>4, <1>6 DEF q14, Passing
<1>8. /\ s \in Memory /\ s.state = "Q6" /\ s.at = "run" /\ s.process = node[n].process
      /\ s.queue = node[n].queue /\ (s.should_close <=> node[n].should_close)
      /\ s.start = node[n].start /\ s.end = node[n].end /\ s.successor = node[n].successor
      /\ s.successor_listen = node[n].successor_listen /\ s.predecessor = node[n].predecessor
  BY <1>1, <1>6, PassingFields
<1>9. PICK c \in Conn : c = s.successor /\ c = node[n].successor
  <2>1. node[n].successor # NULL
    BY <1>1, <1>2 DEF Seat, Neighbours
  <2> QED
    BY <1>1, <1>8, <2>1, WorldFacts
<1>10. AcceptorHolds(net, c) /\ c.from = n /\ Dials(node, c)
  BY <1>1, <1>9, NullFacts DEF Wires, Link, Ends, Holds, AcceptorHolds, Dials
<1>11. PICK nt : nt = SendForward(net, c, <<x>>)
  OBVIOUS
<1>12. Become(n, s, nt)
  BY <1>1, <1>7, <1>9, <1>11, NullFacts DEF Forward, Fails
<1>13. NetSound(nt)
  <2>1. <<x>> \in Seq(PDU)
    BY <1>5
  <2> QED
    BY <1>1, <1>11, <2>1, SendForwardSound
<1>14. /\ nt.fwd = [net.fwd EXCEPT ![c] = @ \o <<x>>] /\ nt.bwd = net.bwd /\ nt.backlog = net.backlog
       /\ nt.udp = net.udp /\ nt.rst = net.rst
  BY <1>1, <1>10, <1>11 DEF SendForward, NetSound, Kernel
<1>15. nt.fwd[c] = Append(net.fwd[c], x) /\ \A e \in Conn : e # c => nt.fwd[e] = net.fwd[e]
  <2>1. net.fwd \in [Conn -> Seq(PDU)]
    BY <1>1, NetFields
  <2>2. net.fwd[c] \in Seq(PDU)
    BY <2>1
  <2>3. nt.fwd[c] = net.fwd[c] \o <<x>>
    BY <1>14, <2>1
  <2>4. nt.fwd[c] = Append(net.fwd[c], x)
    BY <1>5, <2>2, <2>3
  <2>5. \A e \in Conn : e # c => nt.fwd[e] = net.fwd[e]
    BY <1>14, <2>1
  <2> QED
    BY <2>4, <2>5
<1>16. Settle(s) = s
  BY <1>8 DEF Settle
<1>17. net' = nt /\ node'[n] = s /\ Peers(node, node', n)
  BY <1>1, <1>12, <1>13, <1>14, <1>16, BecomeIs
<1>18. /\ Pipe(node', net', c) = Append(Pipe(node, net, c), x)
       /\ \A e \in Conn : e # c => Pipe(node', net', e) = Pipe(node, net, e)
  <2>1. node'[n].predecessor = node[n].predecessor /\ node'[n].queue["PREDECESSOR"] = node[n].queue["PREDECESSOR"]
    BY <1>8, <1>17
  <2>2. World(node, net) /\ Peers(node, node', n)
    BY <1>1, <1>17
  <2>3. net'.fwd[c] = Append(net.fwd[c], x) /\ \A e \in Conn : e # c => net'.fwd[e] = net.fwd[e]
    BY <1>15, <1>17
  <2> QED
    BY ONLY n \in Node, c \in Conn, <1>5, <2>1, <2>2, <2>3, PipeAppend
<1>19. Inside(node[n]) /\ Kin(node[n], s) /\ ~Closing(s) /\ JoinNoted(s) = <<>> /\ JoinNoted(node[n]) = <<l>>
  BY <1>2, <1>3, <1>8 DEF Kin, Inside, Inner, Asked, Told, Closing, JoinNoted, Live
<1>20. Seat(s)
  BY <1>1, <1>2, <1>8, <1>19 DEF Seat, Places, Neighbours, Whole, Queued, Inside, Inner, Running
<1>21. \A e \in Conn : Moved(node, e, Pipe(node, net, e), Pipe(node', net', e))
  BY <1>5, <1>10, <1>18, <1>19 DEF Moved, Passed
<1>22. Requests(node', net')
  <2> DEFINE b == Boxes(node, net)
             d == Boxes(node', net')
  <2>1. PICK u \in BoxId, y \in BoxId : u = <<"noted", n>> /\ y = <<"conn", c>> /\ u # y
    BY NodeBox, ConnBox
  <2>2. PICK k \in Node : k = l.src
    BY <1>3, PDUFields
  <2>3. /\ JoinOf(l, k) /\ JoinOf(x, k) /\ \A m \in Node : m # k => ~JoinOf(x, m)
    BY <1>3, <1>5, <2>2 DEF JoinOf
  <2>4. b[u] = <<l>> /\ d[u] = <<>>
    BY <1>17, <1>19, <2>1 DEF Boxes, Box
  <2>5. b[y] = Pipe(node, net, c) /\ d[y] = Append(b[y], x)
    BY <1>18, <2>1, ConnBox
  <2>6. ASSUME NEW z \in BoxId \ {u, y} PROVE d[z] = b[z]
    <3>1. CASE \E e \in Conn : z = <<"conn", e>>
      <4>1. PICK e \in Conn : z = <<"conn", e>>
        BY <3>1
      <4>2. Pipe(node', net', e) = Pipe(node, net, e)
        BY <1>18, <2>1, <2>6, <4>1
      <4> QED
        BY <4>1, <4>2, ConnBox
    <3>2. CASE \E m \in Node : z = <<"queue", m>>
      <4>1. PICK m \in Node : z = <<"queue", m>>
        BY <3>2
      <4>2. node'[m].queue = node[m].queue
        BY <1>8, <1>17 DEF Peers
      <4> QED
        BY <2>6, <4>1, <4>2 DEF Boxes, Box
    <3>3. CASE \E m \in Node : z = <<"noted", m>>
      <4>1. PICK m \in Node : z = <<"noted", m>>
        BY <3>3
      <4>2. node'[m] = node[m]
        BY <1>17, <2>1, <2>6, <4>1 DEF Peers
      <4> QED
        BY <2>6, <4>1, <4>2 DEF Boxes, Box
    <3> QED
      BY <2>6, <3>1, <3>2, <3>3, BoxForms
  <2>7. (\A z \in BoxId : b[z] \in Seq(PDU)) /\ Once(b, net.udp, k)
    BY <1>1, BoxType DEF Requests
  <2> HIDE DEF b, d
  <2>8. Asks(b[u], k) /\ ~Asks(d[u], k) /\ AsksOnce(d[u], k)
    BY <2>3, <2>4, AsksSimple
  <2>9. PICK p \in Seq(PDU) : p = b[y] /\ ~Asks(p, k) /\ AsksOnce(p, k)
    BY <2>1, <2>7, <2>8 DEF Once
  <2>10. AsksOnce(d[y], k)
    <3>0. AsksOnce(<<x>>, k)
      BY ONLY <1>5, AsksSimple
    <3>1. <<x>> \in Seq(PDU) /\ AsksOnce(<<x>>, k)
      BY <1>5, <3>0
    <3>2. AsksOnce(p \o <<x>>, k)
      BY ONLY <2>9, <3>1, p \in Seq(PDU), AsksConcat
    <3>3. Append(p, x) = p \o <<x>>
      BY <1>5
    <3> QED
      BY <2>5, <2>9, <3>2, <3>3
  <2>11. \A z \in BoxId \ {u, y}, m \in Node : Less(b[z], d[z], m)
    BY <2>6, <2>7, LessSimple
  <2>12. ASSUME NEW m \in Node, m # k PROVE Less(b[u], d[u], m) /\ Less(b[y], d[y], m)
    <3>1. Less(p, Append(p, x), m)
      BY <1>5, <2>3, <2>12, LessSimple
    <3>2. PICK r \in Seq(PDU) : r = b[u]
      BY <2>7
    <3>3. Less(r, <<>>, m)
      BY LessSimple
    <3> QED
      BY <2>4, <2>5, <2>9, <3>1, <3>2, <3>3
  <2>13. \A m \in Node : Applicant(node, net, m) => Applicant(node', net', m)
    BY <1>14, <1>17, <1>19 DEF Applicant, Peers, Kin
  <2>14. net'.udp = net.udp
    BY <1>14, <1>17
  <2> QED
    BY <1>1, <2>1, <2>8, <2>10, <2>11, <2>12, <2>13, <2>14, RequestsMove DEF b, d
<1>23. Requested(node'[n].queue["UDP"])
  BY <1>8, <1>17 DEF JoinInv, Good, Mail, Requested
<1>24. Dropping(node', net', node'[n])
  BY <1>17, <1>19 DEF Dropping
<1>25. Good(node, net, nodes)
  BY DEF JoinInv
<1>26. Good(node', net', nodes)
  BY <1>1, <1>8, <1>14, <1>17, <1>19, <1>20, <1>21, <1>22, <1>23, <1>24, <1>25, InnerGood
<1>27. Steady({x})
  <2>1. ASSUME NEW e \in Conn, NEW y \in Range(nt.fwd[e]), y.type = "NET_JOIN"
        PROVE  Underway(node, net, y) \/ y \in {x}
    <3>1. CASE e # c
      BY <1>15, <2>1, <3>1, QueueUnderway
    <3>2. CASE e = c
      <4>1. PICK f \in Seq(PDU) : f = net.fwd[c]
        BY <1>1, WorldFacts
      <4>2. nt.fwd[e] = Append(f, x)
        BY <1>15, <3>2, <4>1
      <4>3. y \in Range(f) \/ y = x
        BY <1>5, <2>1, <4>2 DEF Range
      <4> QED
        BY <2>1, <4>1, <4>3, QueueUnderway
    <3> QED
      BY <3>1, <3>2
  <2>2. \A t \in Token : \A y \in Range(s.queue[t]) : y.type = "NET_JOIN" => Underway(node, net, y)
    BY <1>8, QueueUnderway
  <2>3. ~Live(s) /\ ~s.should_close /\ (Inside(s) <=> Inside(node[n]))
    BY <1>1, <1>8, <1>19 DEF Live, Seat, Places, Kin
  <2> QED
    BY <1>1, <1>8, <1>12, <1>13, <1>14, <2>1, <2>2, <2>3, SteadyStep
<1>28. x = l \/ (x.max = n /\ node[n].start < node[n].end)
  <2>1. SUFFICES ASSUME Span(node[n]) > l.max_span PROVE x.max = n /\ node[n].start < node[n].end
    BY <1>4
  <2>2. x.max = n
    <3>1. x = [l EXCEPT !.max_span = Span(node[n]), !.max = n]
      BY <1>4, <2>1
    <3> QED
      BY <1>3, <3>1 DEF PDU
  <2>3. l.max_span \in Byte
    BY <1>3, PDUFields
  <2>4. node[n].start \in Byte /\ node[n].end \in Byte /\ node[n].start <= node[n].end
    BY <1>1, <1>19, WorldFacts DEF Seat, Neighbours
  <2>5. node[n].start # node[n].end
    <3>1. SUFFICES ASSUME node[n].start = node[n].end PROVE FALSE
      OBVIOUS
    <3>2. Span(node[n]) = 0 % HASH_SIZE
      BY <2>4, <3>1 DEF Span, u8, Byte
    <3>3. Span(node[n]) = 0
      BY <3>2, HashSizeAssumption
    <3> QED
      BY <2>1, <2>3, <3>3 DEF Byte
  <2> QED
    BY <2>2, <2>4, <2>5 DEF Byte
<1> QED
  BY <1>3, <1>5, <1>26, <1>27, <1>28, GoodNext

(***************************************************************************)
(* A node drops the connection of its predecessor, or accepts the next.    *)
(***************************************************************************)
(* A node changes its predecessor, and nothing is on the connection it had or gets. *)
LEMMA RingStep ==
  ASSUME NEW sd, NEW nt, World(sd, nt), NEW T \in SUBSET Node, Good(sd, nt, T), NEW td, NEW mt, World(td, mt),
         NEW n \in Node, Peers(sd, td, n), SameRing(sd, nt, td, mt),
         \A c \in Conn : Pipe(td, mt, c) = Pipe(sd, nt, c), mt.rst = {}, mt.udp = nt.udp,
         Seat(td[n]), \A m \in Node : Ends(td, mt, m), ~Closing(td[n]),
         td[n].queue["UDP"] = sd[n].queue["UDP"], JoinNoted(td[n]) = JoinNoted(sd[n]),
         \A m \in Node : Applicant(sd, nt, m) => Applicant(td, mt, m),
         td[n].process = sd[n].process, NoMail(nt.udp, n),
         td[n].state # "Q4", ~(td[n].state = "Q7" /\ td[n].at = "run")
  PROVE  Good(td, mt, T)
<1>1. Wires(sd, nt) /\ Requests(sd, nt) /\ Mail(sd, nt.udp) /\ Table(sd, nt.udp, T) /\ Shares(sd, nt)
  BY DEF Good
<1>2. \A c \in Conn : Moved(sd, c, Pipe(sd, nt, c), Pipe(td, mt, c))
  BY DEF Moved
<1>3. Inside(sd[n]) => Inside(td[n])
  BY DEF SameRing
<1>4. ASSUME NEW m \in Node
      PROVE  Seat(td[m]) /\ Ends(td, mt, m) /\ Dropping(td, mt, td[m])
  <2>1. CASE m = n
    BY <2>1 DEF Dropping
  <2>2. CASE m # n
    <3>1. td[m] = sd[m] /\ Seat(sd[m]) /\ Dropping(sd, nt, sd[m])
      BY <1>1, <2>2 DEF Peers, Wires
    <3>2. ASSUME Closing(td[m])
          PROVE  Pipe(td, mt, td[m].predecessor) = <<>> /\ ~Dials(td, td[m].predecessor)
      <4>1. sd[m].predecessor # NULL
        BY <3>1, <3>2 DEF Seat, Neighbours, Closing, Inside, Inner
      <4>2. PICK p \in Conn : p = sd[m].predecessor
        BY <4>1, WorldFacts
      <4>3. Pipe(sd, nt, p) = <<>> /\ ~Dials(sd, p) /\ p.from \in Node
        BY <3>1, <3>2, <4>2, ConnFields DEF Dropping
      <4>4. td[p.from].successor = sd[p.from].successor
        BY <4>3 DEF SameRing
      <4> QED
        BY <3>1, <4>2, <4>3, <4>4 DEF Dials
    <3> QED
      BY <3>1, <3>2 DEF Dropping
  <2> QED
    BY <2>1, <2>2
<1>5. Wires(td, mt) /\ Shares(td, mt)
  BY <1>1, <1>2, <1>4, WiresMoved, SharesMoved
<1>6. Requests(td, mt)
  <2>1. \A k \in Node, c \in Conn : Less(Pipe(sd, nt, c), Pipe(td, mt, c), k)
    BY WorldFacts, LessSimple
  <2>2. \A k \in Node : /\ Less(sd[n].queue["UDP"], td[n].queue["UDP"], k)
                        /\ Less(JoinNoted(sd[n]), JoinNoted(td[n]), k)
    BY WorldFacts, JoinNotedType, LessSimple
  <2> QED
    BY <1>1, <2>1, <2>2, RequestsKept
<1>7. Mail(td, mt.udp)
  <2>1. Requested(td[n].queue["UDP"])
    BY <1>1 DEF Mail, Requested
  <2>2. nt.udp \in SUBSET nt.udp
    OBVIOUS
  <2> QED
    BY <1>1, <1>3, <2>1, <2>2, MailKept
<1>8. Table(td, mt.udp, T)
  BY <1>1, <1>3, TableKept
<1> QED
  BY <1>5, <1>6, <1>7, <1>8 DEF Good

(* q17 drops the connection of the old predecessor: nothing is on it any more (node.rs:618). *)
LEMMA DropGood ==
  ASSUME NodeInv, NodeInv', JoinInv, nodes \in SUBSET Node, nodes' = nodes, NEW n \in Node, At(n, "Q17", "run"), q17(n)
  PROVE  JoinInv' /\ Steady({})
<1>1. /\ Seat(node[n]) /\ Sound(node[n]) /\ node[n] \in Memory
      /\ net.rst = {} /\ NetSound(net) /\ World(node, net) /\ World(node', net') /\ Wires(node, net)
  BY Seated, InvWorldNext DEF JoinInv, Good
<1>2. /\ node[n].state = "Q17" /\ node[n].at = "run" /\ Inside(node[n]) /\ Closing(node[n])
      /\ node[n].process = "running"
  BY DEF At, Inside, Inner, Closing, Running
<1>3. node[n].successor # NULL /\ node[n].predecessor # NULL /\ ~Whole(node[n])
  BY <1>1, <1>2 DEF Seat, Neighbours
<1>4. PICK p \in Conn : p = node[n].predecessor /\ p.to = n
  BY <1>1, <1>3, WorldFacts DEF Wires, Ends
<1>5. Pipe(node, net, p) = <<>> /\ ~Dials(node, p)
  BY <1>1, <1>2, <1>4 DEF Wires, Dropping
<1>6. net.fwd[p] = <<>> /\ node[n].queue["PREDECESSOR"] = <<>>
  <2>1. PICK q \in Seq(PDU), f \in Seq(PDU) : q = node[n].queue["PREDECESSOR"] /\ f = net.fwd[p]
    BY <1>1, WorldFacts
  <2>2. q \o f = <<>>
    BY <1>4, <1>5, <2>1 DEF Pipe
  <2>3. Len(q \o f) = Len(q) + Len(f) /\ Len(q) \in Nat /\ Len(f) \in Nat
    OBVIOUS
  <2>4. Len(q) = 0 /\ Len(f) = 0
    BY <2>2, <2>3
  <2> QED
    BY ONLY <2>1, <2>4, q \in Seq(PDU), f \in Seq(PDU), EmptySeq
<1>7. PICK s : s = [[node[n] EXCEPT !.predecessor = NULL] EXCEPT !.at = "accept"]
  OBVIOUS
<1>8. PICK nt : nt = CloseAcceptor(net, p)
  OBVIOUS
<1>9. Become(n, s, nt)
  <2>1. [node[n] EXCEPT !.predecessor = NULL].start = node[n].start /\ [node[n] EXCEPT !.predecessor = NULL].end = node[n].end
    BY <1>1 DEF Memory
  <2>2. ~([node[n] EXCEPT !.predecessor = NULL].start = 0 /\ [node[n] EXCEPT !.predecessor = NULL].end = HASH_SIZE - 1)
    BY <1>3, <2>1 DEF Whole
  <2>3. node[n].at # "accept" /\ Fails(net, p) = {FALSE} /\ p # NULL
    BY <1>1, <1>2, <1>3, <1>4 DEF Fails
  <2> QED
    BY <1>4, <1>7, <1>8, <2>2, <2>3 DEF q17, accept_predecessor, At
<1>10. /\ nt.fwd = [net.fwd EXCEPT ![p] = <<>>] /\ nt.bwd = net.bwd /\ nt.backlog = net.backlog
       /\ nt.udp = net.udp /\ nt.rst = {}
  BY <1>1, <1>4, <1>6, <1>8, NullFacts DEF CloseAcceptor, NetSound, Kernel
<1>11. \A c \in Conn : nt.fwd[c] = net.fwd[c]
  <2>1. net.fwd \in [Conn -> Seq(PDU)]
    BY <1>1, NetFields
  <2> QED
    BY <1>6, <1>10, <2>1
<1>12. NetSound(nt)
  BY <1>1, <1>8, CloseSound
<1>13. PICK m \in Memory : m = node[n]
  BY <1>1
<1>14. /\ s \in Memory /\ s.state = m.state /\ s.at = "accept" /\ s.process = m.process /\ s.queue = m.queue
       /\ (s.should_close <=> m.should_close) /\ s.start = m.start /\ s.end = m.end /\ s.successor = m.successor
       /\ s.successor_listen = m.successor_listen /\ s.predecessor = NULL /\ s.last_pdu = m.last_pdu
       /\ s.events = m.events /\ (s.alive_due <=> m.alive_due)
  <2>1. s = [[m EXCEPT !.predecessor = NULL] EXCEPT !.at = "accept"]
    BY <1>7, <1>13
  <2> QED
    BY ONLY <2>1, m \in Memory DEF Memory
<1>15. Settle(s) = s
  BY <1>14 DEF Settle
<1>16. net' = nt /\ node'[n] = s /\ Peers(node, node', n)
  BY <1>1, <1>9, <1>10, <1>12, <1>15, BecomeIs
<1>17. ASSUME NEW c \in Conn
       PROVE  Pipe(node', net', c) = Pipe(node, net, c)
  <2>0. c.to \in Node
    BY ConnFields
  <2>1. CASE c = p
    <3>1. node'[c.to].predecessor # c
      BY <1>4, <1>14, <1>16, <2>1, NullFacts
    <3> QED
      BY <1>5, <1>6, <1>11, <1>16, <2>1, <3>1 DEF Pipe
  <2>2. CASE c # p /\ c.to = n
    <3>1. node'[c.to].predecessor # c /\ node[c.to].predecessor # c
      BY <1>4, <1>14, <1>16, <2>2, NullFacts
    <3> QED
      BY <1>11, <1>16, <3>1 DEF Pipe
  <2>3. CASE c.to # n
    <3>1. node'[c.to] = node[c.to]
      BY <1>16, <2>0, <2>3 DEF Peers
    <3> QED
      BY <1>11, <1>16, <3>1 DEF Pipe
  <2> QED
    BY <2>1, <2>2, <2>3
<1>18. Inside(s) /\ ~Asked(s) /\ ~Told(s) /\ ~Asked(node[n]) /\ ~Told(node[n]) /\ ~Closing(s)
  BY <1>2, <1>13, <1>14 DEF Inside, Inner, Asked, Told, Closing
<1>19. SameRing(node, net, node', net')
  <2>1. ASSUME NEW k \in Node
        PROVE  /\ Inside(node'[k]) <=> Inside(node[k])
               /\ node'[k].start = node[k].start /\ node'[k].end = node[k].end
               /\ node'[k].successor = node[k].successor /\ node'[k].successor_listen = node[k].successor_listen
               /\ Waits(node', net', k) <=> Waits(node, net, k)
               /\ Waits(node, net, k) => First(node', net', k) = First(node, net, k)
    <3>1. CASE k = n
      BY <1>2, <1>13, <1>14, <1>16, <1>18, <3>1 DEF Waits
    <3>2. CASE k # n
      BY <1>10, <1>16, <3>2 DEF Waits, First, Peers
    <3> QED
      BY <3>1, <3>2
  <2>2. ASSUME NEW c \in Conn
        PROVE  /\ net'.bwd[c] = net.bwd[c]
               /\ Holds(node', net', c) => Holds(node, net, c)
               /\ Holds(node, net, c) /\ (Dials(node, c) \/ Pipe(node', net', c) # <<>>) => Holds(node', net', c)
    <3>1. c.to \in Node
      BY ConnFields
    <3>2. CASE c.to # n
      BY <1>10, <1>16, <3>1, <3>2 DEF Holds, Peers
    <3>3. CASE c.to = n
      BY <1>4, <1>5, <1>10, <1>14, <1>16, <1>17, <3>3, NullFacts DEF Holds
    <3> QED
      BY <1>10, <1>16, <3>2, <3>3
  <2> QED
    BY <2>1, <2>2 DEF SameRing
<1>20. \A k \in Node : Ends(node', net', k)
  <2>1. ASSUME NEW k \in Node PROVE Ends(node', net', k)
    <3>1. Ends(node, net, k)
      BY <1>1 DEF Wires
    <3>2. Expected(node, net, k) <=> Expected(node', net', k)
      BY <1>19 DEF Expected, SameRing
    <3>3. /\ node'[k].successor = node[k].successor
          /\ node'[k].predecessor = node[k].predecessor \/ node'[k].predecessor = NULL
      BY <1>13, <1>14, <1>16 DEF Peers
    <3> QED
      BY <1>10, <1>16, <3>1, <3>2, <3>3 DEF Ends
  <2> QED
    BY <2>1
<1>21. Seat(s)
  <2>1. Places(s)
    BY <1>1, <1>2, <1>13, <1>14, <1>18 DEF Seat, Places
  <2>2. Neighbours(s)
    BY <1>1, <1>2, <1>3, <1>13, <1>14, <1>18 DEF Seat, Neighbours, Whole
  <2>3. Queued(s)
    BY <1>1, <1>6, <1>13, <1>14, <1>18 DEF Seat, Queued
  <2> QED
    BY <2>1, <2>2, <2>3 DEF Seat
<1>22. JoinNoted(s) = JoinNoted(node[n])
  BY <1>2, <1>13, <1>14 DEF JoinNoted, Live
<1>23. \A k \in Node : Applicant(node, net, k) => Applicant(node', net', k)
  BY <1>10, <1>16, <1>18 DEF Applicant, Peers
<1>24. NoMail(net.udp, n)
  BY <1>2, InsideNoMail DEF JoinInv, Good
<1>25. Good(node, net, nodes)
  BY DEF JoinInv
<1>26. Good(node', net', nodes)
  BY <1>1, <1>2, <1>10, <1>13, <1>14, <1>16, <1>17, <1>18, <1>19, <1>20, <1>21, <1>22, <1>23, <1>24, <1>25, RingStep
<1>27. Steady({})
  <2>1. /\ \A t \in Token : \A x \in Range(s.queue[t]) : x.type = "NET_JOIN" => Underway(node, net, x)
        /\ \A c \in Conn : \A x \in Range(nt.fwd[c]) : x.type = "NET_JOIN" => Underway(node, net, x)
    BY <1>11, <1>13, <1>14, QueueUnderway
  <2>2. ~Live(s) /\ s.state = "Q17" /\ s.at = "accept"
    BY <1>2, <1>13, <1>14 DEF Live
  <2>3. s \in Memory /\ s.process = node[n].process /\ s.start = node[n].start /\ s.end = node[n].end /\ ~s.should_close
    BY <1>1, <1>13, <1>14 DEF Seat, Places
  <2> QED
    BY <1>2, <1>9, <1>10, <1>12, <1>18, <2>1, <2>2, <2>3, SteadyStep
<1> QED
  BY <1>26, <1>27, GoodNext

(* A node that accepts has no predecessor, so accept drops none (node.rs:867). *)
LEMMA AcceptNoneBefore ==
  ASSUME JoinInv, NodeInv, NEW n \in Node, NEW x \in {"Q5", "Q7", "Q17"}, NEW y, accept_predecessor(n, x, y)
  PROVE  node[n].predecessor = NULL /\ CloseAcceptor(net, node[n].predecessor) = net
<1>1. Seat(node[n])
  BY Seated DEF JoinInv
<1>2. node[n].state = x /\ node[n].at = "accept" /\ node[n].process = "running"
  BY DEF accept_predecessor, At, Running
<1>3. node[n].predecessor = NULL
  BY <1>1, <1>2 DEF Seat, Neighbours, Queued, Inside, Inner, Told
<1> QED
  BY <1>3 DEF CloseAcceptor

(* accept takes the first of the backlog as the predecessor (node.rs:856). *)
LEMMA AcceptGood ==
  ASSUME NodeInv, NodeInv', JoinInv, nodes \in SUBSET Node, nodes' = nodes, NEW n \in Node,
         NEW x, NEW y, <<x, y>> \in {<<"Q5", "Q6">>, <<"Q17", "Q6">>, <<"Q7", "Q8">>}, accept_predecessor(n, x, y)
  PROVE  JoinInv' /\ (x = "Q7" => Advances(n)) /\ (x # "Q7" => Steady({}))
<1>1. /\ Seat(node[n]) /\ Sound(node[n]) /\ node[n] \in Memory
      /\ net.rst = {} /\ NetSound(net) /\ World(node, net) /\ World(node', net') /\ Wires(node, net)
  BY Seated, InvWorldNext DEF JoinInv, Good
<1>2. /\ node[n].state = x /\ node[n].at = "accept" /\ node[n].process = "running" /\ net.backlog[n] # <<>>
      /\ x \in {"Q5", "Q17", "Q7"} /\ y = IF x = "Q7" THEN "Q8" ELSE "Q6"
  BY DEF accept_predecessor, At, Running
<1>3. net.backlog[n] \in Seq(Conn) /\ net.backlog \in [Node -> Seq(Conn)]
  BY <1>1, NetFields
<1>4. PICK p \in Conn : p = Head(net.backlog[n]) /\ p \in Range(net.backlog[n]) /\ p.to = n
  <2>1. Head(net.backlog[n]) \in Conn /\ Head(net.backlog[n]) \in Range(net.backlog[n])
    BY <1>2, <1>3 DEF Range
  <2>2. Head(net.backlog[n]).to = n
    BY <1>1, <2>1 DEF Wires, Ends
  <2> QED
    BY <2>1, <2>2
<1>5. node[n].predecessor = NULL /\ node[n].queue["PREDECESSOR"] = <<>>
  BY <1>1, <1>2 DEF Seat, Neighbours, Queued, Inside, Inner, Told
<1>6. PICK at : at = IF y = "Q8" THEN "await" ELSE "run"
  OBVIOUS
<1>7. PICK s : s = [node[n] EXCEPT !.predecessor = p, !.state = y, !.at = at]
  OBVIOUS
<1>8. PICK nt : nt = [net EXCEPT !.backlog[n] = Tail(@)]
  OBVIOUS
<1>9. Become(n, s, nt)
  <2>1. CloseAcceptor(net, node[n].predecessor) = net
    BY <1>2, AcceptNoneBefore
  <2> QED
    BY <1>4, <1>6, <1>7, <1>8, <2>1 DEF accept_predecessor
<1>10. /\ nt.fwd = net.fwd /\ nt.bwd = net.bwd /\ nt.backlog = [net.backlog EXCEPT ![n] = Tail(@)]
       /\ nt.udp = net.udp /\ nt.rst = {}
  BY <1>1, <1>8 DEF NetSound, Kernel
<1>11. /\ nt.backlog[n] = Tail(net.backlog[n]) /\ \A k \in Node : k # n => nt.backlog[k] = net.backlog[k]
       /\ nt.backlog \in [Node -> Seq(Conn)]
       /\ Range(net.backlog[n]) = {p} \cup Range(nt.backlog[n])
  <2>1. Tail(net.backlog[n]) \in Seq(Conn)
    BY <1>2, <1>3
  <2>2. PICK b \in Seq(Conn) : b = net.backlog[n] /\ b # <<>>
    BY <1>2, <1>3
  <2>3. Range(b) = {Head(b)} \cup Range(Tail(b))
    <3>1. Len(b) \in Nat /\ Len(b) > 0 /\ DOMAIN b = 1 .. Len(b) /\ DOMAIN Tail(b) = 1 .. (Len(b) - 1)
          /\ \A i \in 1 .. (Len(b) - 1) : Tail(b)[i] = b[i + 1]
      BY <2>2
    <3>2. ASSUME NEW i \in DOMAIN b PROVE b[i] \in {Head(b)} \cup Range(Tail(b))
      <4>1. CASE i = 1
        BY <2>2, <4>1
      <4>2. CASE i # 1
        <5>1. i - 1 \in DOMAIN Tail(b) /\ Tail(b)[i - 1] = b[i]
          BY <3>1, <4>2
        <5> QED
          BY <5>1 DEF Range
      <4> QED
        BY <4>1, <4>2
    <3>3. ASSUME NEW i \in DOMAIN Tail(b) PROVE Tail(b)[i] \in Range(b)
      <4>1. i + 1 \in DOMAIN b /\ Tail(b)[i] = b[i + 1]
        BY <3>1
      <4> QED
        BY <4>1 DEF Range
    <3>4. Head(b) \in Range(b)
      BY <2>2 DEF Range
    <3> QED
      BY <3>2, <3>3, <3>4 DEF Range
  <2> QED
    BY <1>3, <1>4, <1>10, <2>1, <2>2, <2>3
<1>12. NetSound(nt)
  <2>1. [net.backlog EXCEPT ![n] = Tail(@)] \in [Node -> Seq(Conn)]
    BY <1>10, <1>11
  <2>2. nt = [net EXCEPT !.backlog = [net.backlog EXCEPT ![n] = Tail(@)]]
    BY <1>8
  <2> QED
    BY <1>1, <2>1, <2>2, NetUpdate
<1>13. PICK m \in Memory : m = node[n]
  BY <1>1
<1>14. /\ s.state = y /\ s.at = at /\ s.process = m.process /\ s.queue = m.queue
       /\ (s.should_close <=> m.should_close) /\ s.start = m.start /\ s.end = m.end /\ s.successor = m.successor
       /\ s.successor_listen = m.successor_listen /\ s.predecessor = p /\ s.last_pdu = m.last_pdu
       /\ s.events = m.events /\ (s.alive_due <=> m.alive_due)
  <2>1. s = [m EXCEPT !.predecessor = p, !.state = y, !.at = at]
    BY <1>7, <1>13
  <2> QED
    BY ONLY <2>1, m \in Memory DEF Memory
<1>15. Settle(s) = s
  BY <1>6, <1>14 DEF Settle
<1>16. net' = nt /\ node'[n] = s /\ Peers(node, node', n)
  BY <1>1, <1>9, <1>10, <1>12, <1>15, BecomeIs
<1>17. ASSUME NEW c \in Conn
       PROVE  Pipe(node', net', c) = Pipe(node, net, c)
  <2>0. c.to \in Node /\ net.fwd[c] \in Seq(PDU)
    BY <1>1, WorldFacts
  <2>1. CASE c = p
    <3>1. node'[c.to].queue["PREDECESSOR"] = <<>> /\ node[c.to].predecessor # c
      BY <1>4, <1>5, <1>13, <1>14, <1>16, <2>1, NullFacts
    <3>2. <<>> \o net.fwd[c] = net.fwd[c]
      BY <2>0
    <3>3. Pipe(node, net, c) = net.fwd[c] /\ Pipe(node', net', c) = net.fwd[c]
      BY <1>4, <1>10, <1>14, <1>16, <2>1, <3>1, <3>2 DEF Pipe
    <3> QED
      BY <3>3
  <2>2. CASE c # p /\ c.to = n
    <3>1. node'[c.to].predecessor # c /\ node[c.to].predecessor # c
      BY <1>5, <1>14, <1>16, <2>2, NullFacts
    <3> QED
      BY <1>10, <1>16, <3>1 DEF Pipe
  <2>3. CASE c.to # n
    <3>1. node'[c.to] = node[c.to]
      BY <1>16, <2>0, <2>3 DEF Peers
    <3> QED
      BY <1>10, <1>16, <3>1 DEF Pipe
  <2> QED
    BY <2>1, <2>2, <2>3
<1>18. /\ Inside(s) <=> Inside(node[n])
       /\ x = "Q7" => ~Inside(node[n]) /\ Asked(node[n]) /\ Told(s) /\ ~Asked(s) /\ ~Told(node[n])
       /\ x # "Q7" => Inside(node[n]) /\ ~Asked(node[n]) /\ ~Told(s) /\ ~Asked(s) /\ ~Told(node[n])
       /\ ~Closing(s)
  BY <1>2, <1>14 DEF Inside, Inner, Asked, Told, Closing
<1>19. SameRing(node, net, node', net')
  <2>1. ASSUME NEW k \in Node
        PROVE  /\ Inside(node'[k]) <=> Inside(node[k])
               /\ node'[k].start = node[k].start /\ node'[k].end = node[k].end
               /\ node'[k].successor = node[k].successor /\ node'[k].successor_listen = node[k].successor_listen
               /\ Waits(node', net', k) <=> Waits(node, net, k)
               /\ Waits(node, net, k) => First(node', net', k) = First(node, net, k)
    <3>1. CASE k = n
      <4>1. Waits(node', net', n) <=> Waits(node, net, n)
        BY <1>2, <1>16, <1>18 DEF Waits
      <4>2. Waits(node, net, n) => First(node', net', n) = First(node, net, n)
        BY <1>4, <1>14, <1>16, <1>18 DEF Waits, First
      <4> QED
        BY <1>13, <1>14, <1>16, <1>18, <3>1, <4>1, <4>2
    <3>2. CASE k # n
      BY <1>11, <1>16, <3>2 DEF Waits, First, Peers
    <3> QED
      BY <3>1, <3>2
  <2>2. ASSUME NEW c \in Conn
        PROVE  net'.bwd[c] = net.bwd[c] /\ (Holds(node', net', c) <=> Holds(node, net, c))
    <3>1. c.to \in Node
      BY ConnFields
    <3>2. CASE c.to # n
      BY <1>11, <1>10, <1>16, <3>1, <3>2 DEF Holds, Peers
    <3>3. CASE c.to = n
      BY <1>5, <1>10, <1>11, <1>14, <1>16, <3>3, NullFacts DEF Holds
    <3> QED
      BY <3>2, <3>3
  <2> QED
    BY <2>1, <2>2 DEF SameRing
<1>20. \A k \in Node : Ends(node', net', k)
  <2>1. ASSUME NEW k \in Node PROVE Ends(node', net', k)
    <3>1. Ends(node, net, k)
      BY <1>1 DEF Wires
    <3>2. Expected(node, net, k) <=> Expected(node', net', k)
      BY <1>19 DEF Expected, SameRing
    <3>3. node'[k].successor = node[k].successor
      BY <1>13, <1>14, <1>16 DEF Peers
    <3>4. CASE k = n
      BY <1>2, <1>4, <1>11, <1>14, <1>16, <3>1, <3>2, <3>3, <3>4 DEF Ends
    <3>5. CASE k # n
      BY <1>11, <1>16, <3>1, <3>2, <3>5 DEF Ends, Peers
    <3> QED
      BY <3>4, <3>5
  <2> QED
    BY <2>1
<1>21. Seat(s)
  <2>1. Places(s)
    BY <1>1, <1>2, <1>6, <1>13, <1>14, <1>18 DEF Seat, Places, Outer, Inner
  <2>2. Neighbours(s)
    BY <1>1, <1>2, <1>4, <1>6, <1>13, <1>14, <1>18, NullFacts DEF Seat, Neighbours, Whole
  <2>3. Queued(s)
    BY <1>1, <1>13, <1>14, <1>4, <1>18, NullFacts DEF Seat, Queued
  <2> QED
    BY <2>1, <2>2, <2>3 DEF Seat
<1>22. JoinNoted(s) = JoinNoted(node[n])
  BY <1>2, <1>14 DEF JoinNoted, Live
<1>23. \A k \in Node : Applicant(node, net, k) => Applicant(node', net', k)
  BY <1>2, <1>11, <1>16 DEF Applicant, Peers
<1>24. NoMail(net.udp, n)
  BY <1>2, <1>18, InsideNoMail DEF JoinInv, Good
<1>25. Good(node, net, nodes)
  BY DEF JoinInv
<1>26. s.state # "Q4" /\ s.state # "Q7"
  BY <1>2, <1>14
<1>27. Good(node', net', nodes)
  BY <1>1, <1>2, <1>10, <1>13, <1>14, <1>16, <1>17, <1>18, <1>19, <1>20, <1>21, <1>22, <1>23, <1>24, <1>25, <1>26, RingStep
<1>28. ASSUME x # "Q7" PROVE Steady({})
  <2>1. /\ \A t \in Token : \A p1 \in Range(s.queue[t]) : p1.type = "NET_JOIN" => Underway(node, net, p1)
        /\ \A c \in Conn : \A p1 \in Range(nt.fwd[c]) : p1.type = "NET_JOIN" => Underway(node, net, p1)
    BY <1>10, <1>13, <1>14, QueueUnderway
  <2>2. ~Live(s) /\ s.state = "Q6" /\ s.at = "run"
    BY <1>2, <1>6, <1>14, <1>28 DEF Live
  <2>3. s \in Memory /\ s.process = node[n].process /\ s.start = node[n].start /\ s.end = node[n].end /\ ~s.should_close
    <3>1. s \in Memory
      BY <1>1, <1>16 DEF World
    <3> QED
      BY <1>1, <1>13, <1>14, <3>1 DEF Seat, Places
  <2> QED
    BY <1>9, <1>10, <1>12, <1>18, <2>1, <2>2, <2>3, SteadyStep
<1>29. ASSUME x = "Q7" PROVE Advances(n)
  BY <1>2, <1>14, <1>16, <1>29 DEF Advances, Asked, Peers
<1> QED
  BY <1>27, <1>28, <1>29, GoodNext

(***************************************************************************)
(* Datagrams come and go.                                                  *)
(***************************************************************************)
(* Only datagrams and the table of the tracker change. *)
LEMMA PostGood ==
  ASSUME NEW sd, NEW nt, World(sd, nt), NEW T \in SUBSET Node, Good(sd, nt, T), NEW mt, World(sd, mt),
         mt.fwd = nt.fwd, mt.bwd = nt.bwd, mt.backlog = nt.backlog, mt.rst = nt.rst,
         Mail(sd, mt.udp), NEW S, Table(sd, mt.udp, S),
         \A e \in mt.udp : e.pdu.type = "NET_JOIN" => e \in nt.udp
  PROVE  Good(sd, mt, S)
<1>1. Wires(sd, nt) /\ Requests(sd, nt) /\ Shares(sd, nt)
  BY DEF Good
<1>2. \A c \in Conn : Pipe(sd, mt, c) = Pipe(sd, nt, c) /\ (Holds(sd, mt, c) <=> Holds(sd, nt, c))
  BY DEF Pipe, Holds
<1>3. SameRing(sd, nt, sd, mt)
  BY <1>2 DEF SameRing, Waits, First
<1>4. \A c \in Conn : Moved(sd, c, Pipe(sd, nt, c), Pipe(sd, mt, c))
  BY <1>2 DEF Moved
<1>5. ASSUME NEW n \in Node PROVE Seat(sd[n]) /\ Ends(sd, mt, n) /\ Dropping(sd, mt, sd[n])
  <2>1. Seat(sd[n]) /\ Ends(sd, nt, n) /\ Dropping(sd, nt, sd[n])
    BY <1>1 DEF Wires
  <2>2. Ends(sd, mt, n)
    BY <2>1 DEF Ends, Expected, Waits
  <2>3. Closing(sd[n]) => sd[n].predecessor \in Conn
    BY <2>1, WorldFacts DEF Seat, Neighbours, Closing, Inside, Inner
  <2> QED
    BY <1>2, <2>1, <2>2, <2>3 DEF Dropping
<1>6. mt.rst = {}
  BY <1>1 DEF Wires
<1>7. Wires(sd, mt) /\ Shares(sd, mt)
  BY <1>1, <1>3, <1>4, <1>5, <1>6, WiresMoved, SharesMoved
<1>8. Requests(sd, mt)
  <2>1. \A x \in BoxId : Boxes(sd, mt)[x] = Boxes(sd, nt)[x] /\ Boxes(sd, nt)[x] \in Seq(PDU)
    <3>1. ASSUME NEW x \in BoxId PROVE Boxes(sd, mt)[x] = Boxes(sd, nt)[x]
      <4>1. CASE \E c \in Conn : x = <<"conn", c>>
        BY <1>2, <4>1, ConnBox
      <4>2. CASE \E n \in Node : x = <<"queue", n>> \/ x = <<"noted", n>>
        BY <3>1, <4>2 DEF Boxes, Box
      <4> QED
        BY <3>1, <4>1, <4>2, BoxForms
    <3> QED
      BY <3>1, BoxType
  <2>2. \A n \in Node, x \in BoxId : Less(Boxes(sd, nt)[x], Boxes(sd, mt)[x], n)
    BY <2>1, LessSimple
  <2>3. \A n \in Node : Applicant(sd, nt, n) => Applicant(sd, mt, n)
    BY DEF Applicant
  <2> QED
    BY <1>1, <2>2, <2>3, RequestsLess
<1> QED
  BY <1>7, <1>8 DEF Good

(* The tracker's table is as it was, and no answer is new. *)
LEMMA PostedGood ==
  ASSUME NodeInv, NodeInv', JoinInv, nodes \in SUBSET Node, nodes' = nodes, node' = node,
         net'.fwd = net.fwd, net'.bwd = net.bwd, net'.backlog = net.backlog, net'.rst = net.rst,
         \A d \in net'.udp : d \in net.udp \/ Posted(node, d)
  PROVE  JoinInv' /\ Steady({})
<1>1. World(node, net) /\ World(node, net')
  BY InvWorld, InvWorldNext
<1>2. Good(node, net, nodes)
  BY DEF JoinInv
<1>3. Mail(node, net'.udp)
  BY <1>2, MailPosted DEF Good
<1>4. Table(node, net'.udp, nodes)
  BY <1>2 DEF Good, Table, Posted
<1>5. \A e \in net'.udp : e.pdu.type = "NET_JOIN" => e \in net.udp
  BY DEF Posted
<1>6. Good(node, net', nodes)
  BY <1>1, <1>2, <1>3, <1>4, <1>5, PostGood
<1>7. Good(node', net', nodes')
  BY <1>6
<1>8. Steady({})
  BY <1>5, SteadyPost
<1> QED
  BY <1>7, <1>8, GoodNext

(* A datagram is lost. *)
LEMMA LoseDatagramGood ==
  ASSUME NodeInv, NodeInv', JoinInv, nodes \in SUBSET Node, LoseDatagram
  PROVE  JoinInv' /\ Steady({})
<1>1. PICK d \in net.udp : net' = [net EXCEPT !.udp = @ \ {d}]
  BY DEF LoseDatagram
<1>2. net \in Kernel
  BY NodeFacts DEF NodeInv, NetSound
<1>3. /\ net'.fwd = net.fwd /\ net'.bwd = net.bwd /\ net'.backlog = net.backlog /\ net'.rst = net.rst
      /\ net'.udp = net.udp \ {d}
  BY <1>1, <1>2 DEF Kernel
<1> QED
  BY <1>3, PostedGood DEF LoseDatagram

(* The client reads its answer. *)
LEMMA ClientReceiveGood ==
  ASSUME NodeInv, NodeInv', JoinInv, nodes \in SUBSET Node, ClientReceive
  PROVE  JoinInv' /\ Steady({})
<1>1. PICK d \in net.udp : net' = [net EXCEPT !.udp = @ \ {d}] /\ UNCHANGED <<node, nodes, ops>>
  BY DEF ClientReceive
<1>2. net \in Kernel
  BY DEF NodeInv, NetSound
<1>3. /\ net'.fwd = net.fwd /\ net'.bwd = net.bwd /\ net'.backlog = net.backlog /\ net'.rst = net.rst
      /\ net'.udp = net.udp \ {d}
  BY <1>1, <1>2 DEF Kernel
<1> QED
  BY <1>1, <1>3, PostedGood

(* The client sends a request to a node that the tracker named (client.rs). *)
LEMMA ClientSendGood ==
  ASSUME NodeInv, NodeInv', JoinInv, nodes \in SUBSET Node, NEW pdu \in PDU, pdu.type \in Values, ClientSend(pdu)
  PROVE  JoinInv' /\ Steady({})
<1>1. PICK n \in nodes : net' = SendUdp(net, Client, n, pdu)
  BY DEF ClientSend, get_node
<1>2. net \in Kernel
  BY DEF NodeInv, NetSound
<1>3. PICK d : d = [src |-> Client, dst |-> n, pdu |-> pdu]
  OBVIOUS
<1>4. /\ net'.fwd = net.fwd /\ net'.bwd = net.bwd /\ net'.backlog = net.backlog /\ net'.rst = net.rst
      /\ net'.udp \subseteq net.udp \cup {d}
  BY <1>1, <1>2, <1>3 DEF SendUdp, Kernel
<1>5. n \in Node /\ Inside(node[n]) /\ n # Tracker
  BY RustNodeAssumption DEF JoinInv, Good, Table
<1>6. Posted(node, d)
  BY <1>3, <1>5 DEF Posted, Letter, Reply, Values
<1> QED
  BY <1>4, <1>6, PostedGood DEF ClientSend

(***************************************************************************)
(* The tracker answers.                                                    *)
(***************************************************************************)
(* These two have no contents. *)
LEMMA PlainPDU ==
  ASSUME NEW a \in PDU, a.type \in {"STUN_LOOKUP", "NET_GET_NODE"}
  PROVE  a = [type |-> a.type]
  BY DEF PDU

(* A node asks the tracker one thing at a time. *)
LEMMA OneQuestion ==
  ASSUME NEW sd, NEW U \in SUBSET Datagram, Mail(sd, U), NEW d \in U, NEW e \in U, d.dst = Tracker, e.dst = Tracker,
         e.src = d.src, d.pdu.type # "NET_ALIVE"
  PROVE  e = d
<1>1. Letter(sd, d) /\ Letter(sd, e)
  BY DEF Mail
<1>2. e.pdu.type = d.pdu.type /\ d.pdu.type \in {"STUN_LOOKUP", "NET_GET_NODE"}
  BY <1>1 DEF Letter, Inside, Inner
<1>3. e.pdu \in PDU /\ d.pdu \in PDU
  BY DEF Datagram
<1>4. e.pdu = d.pdu
  BY <1>2, <1>3, PlainPDU
<1> QED
  BY <1>4 DEF Datagram

(* The answer takes the place of the question. *)
LEMMA AnswerMail ==
  ASSUME NEW sd, NEW U \in SUBSET Datagram, Mail(sd, U), NEW d \in U, d.dst = Tracker, NEW r, r.src = Tracker, r.dst = d.src,
         \/ d.pdu.type = "STUN_LOOKUP" /\ r.pdu.type = "STUN_RESPONSE"
         \/ d.pdu.type = "NET_GET_NODE" /\ r.pdu.type = "NET_GET_NODE_RESPONSE"
  PROVE  Mail(sd, (U \ {d}) \cup {r})
<1>1. Letter(sd, d) /\ Tracker \notin Node
  BY RustNodeAssumption DEF Mail
<1>2. Mail(sd, U \ {d})
  BY DEF Mail
<1>3. Reply(r) /\ r.dst \in Node /\ r.dst # Tracker
  BY <1>1 DEF Letter, Reply
<1>4. Letter(sd, r)
  BY <1>1, <1>3 DEF Letter, Reply
<1>5. ASSUME NEW e \in U \ {d}
      PROVE  ~(Reply(e) /\ e.dst = r.dst) /\ ~(e.dst = Tracker /\ e.src = r.dst)
  <2>1. ~(Reply(e) /\ e.dst = r.dst)
    BY DEF Mail
  <2>2. ~(e.dst = Tracker /\ e.src = r.dst)
    BY OneQuestion
  <2> QED
    BY <2>1, <2>2
<1> QED
  BY <1>1, <1>2, <1>3, <1>4, <1>5, MailAdd

(* Who is asked about is waiting for it. *)
LEMMA AskerRuns ==
  ASSUME NodeInv, JoinInv, NEW d \in net.udp, d.dst = Tracker
  PROVE  d.src \in Node /\ Running(d.src)
<1>1. Letter(node, d)
  BY DEF JoinInv, Good, Mail
<1>2. d.src \in Node /\ node[d.src].state # "Q1"
  BY <1>1 DEF Letter, Inside, Inner
<1>3. Seat(node[d.src])
  BY <1>2, Seated
<1> QED
  BY <1>2, <1>3 DEF Seat, Places, Running

(* The tracker tells a node its address (tracker.rs). *)
LEMMA StunLookupGood ==
  ASSUME NodeInv, NodeInv', JoinInv, nodes \in SUBSET Node, NEW d \in net.udp, d.dst = Tracker, StunLookup(d), node' = node
  PROVE  JoinInv' /\ Steady({})
<1>1. net \in Kernel /\ World(node, net) /\ World(node, net') /\ Good(node, net, nodes) /\ net.udp \in SUBSET Datagram
  BY InvWorld, InvWorldNext, NetFields DEF NodeInv, NetSound, JoinInv
<1>2. d.src \in Node /\ Running(d.src) /\ Tracker \notin Node
  BY AskerRuns, RustNodeAssumption
<1>3. PICK r : r = [src |-> Tracker, dst |-> d.src, pdu |-> [type |-> "STUN_RESPONSE"]]
  OBVIOUS
<1>4. r # d
  BY <1>2, <1>3
<1>5. /\ net'.fwd = net.fwd /\ net'.bwd = net.bwd /\ net'.backlog = net.backlog /\ net'.rst = net.rst
      /\ net'.udp = (net.udp \cup {r}) \ {d}
  BY <1>1, <1>2, <1>3 DEF StunLookup, SendUdp, Kernel
<1>6. net'.udp = (net.udp \ {d}) \cup {r}
  BY <1>4, <1>5
<1>7. Mail(node, net'.udp)
  <2>1. d.pdu.type = "STUN_LOOKUP" /\ r.pdu.type = "STUN_RESPONSE" /\ r.src = Tracker /\ r.dst = d.src
    BY <1>3 DEF StunLookup
  <2>2. Mail(node, net.udp)
    BY <1>1 DEF Good
  <2> QED
    BY <1>1, <1>6, <2>1, <2>2, AnswerMail
<1>8. Table(node, net'.udp, nodes)
  BY <1>1, <1>3, <1>6 DEF Good, Table
<1>9. \A e \in net'.udp : e.pdu.type = "NET_JOIN" => e \in net.udp
  BY <1>3, <1>6
<1>10. Good(node, net', nodes)
  BY <1>1, <1>5, <1>7, <1>8, <1>9, PostGood
<1>11. Good(node', net', nodes')
  BY <1>10 DEF StunLookup
<1>12. Steady({})
  BY <1>5, <1>9, SteadyPost
<1> QED
  BY <1>11, <1>12, GoodNext

(* The tracker names a node of its table, or none (tracker.rs). *)
LEMMA NetGetNodeGood ==
  ASSUME NodeInv, NodeInv', JoinInv, nodes \in SUBSET Node, NEW d \in net.udp, d.dst = Tracker, NetGetNode(d), node' = node
  PROVE  JoinInv' /\ Steady({})
<1>1. net \in Kernel /\ World(node, net) /\ World(node, net') /\ Good(node, net, nodes) /\ net.udp \in SUBSET Datagram
  BY InvWorld, InvWorldNext, NetFields DEF NodeInv, NetSound, JoinInv
<1>2. d.src \in Node /\ Running(d.src) /\ Tracker \notin Node
  BY AskerRuns, RustNodeAssumption
<1>3. PICK m \in IF nodes = {} THEN {NULL} ELSE nodes :
            net' = [SendUdp(net, Tracker, d.src, [type |-> "NET_GET_NODE_RESPONSE", node |-> m]) EXCEPT !.udp = @ \ {d}]
  BY DEF NetGetNode
<1>4. PICK r : r = [src |-> Tracker, dst |-> d.src, pdu |-> [type |-> "NET_GET_NODE_RESPONSE", node |-> m]]
  OBVIOUS
<1>5. r # d
  BY <1>2, <1>4
<1>6. /\ net'.fwd = net.fwd /\ net'.bwd = net.bwd /\ net'.backlog = net.backlog /\ net'.rst = net.rst
      /\ net'.udp = (net.udp \cup {r}) \ {d}
  BY <1>1, <1>2, <1>3, <1>4 DEF SendUdp, Kernel
<1>7. net'.udp = (net.udp \ {d}) \cup {r}
  BY <1>5, <1>6
<1>8. Mail(node, net'.udp)
  <2>1. d.pdu.type = "NET_GET_NODE" /\ r.pdu.type = "NET_GET_NODE_RESPONSE" /\ r.src = Tracker /\ r.dst = d.src
    BY <1>4 DEF NetGetNode
  <2>2. Mail(node, net.udp)
    BY <1>1 DEF Good
  <2> QED
    BY <1>1, <1>7, <2>1, <2>2, AnswerMail
<1>9. Table(node, net'.udp, nodes)
  <2>1. IF r.pdu.node = NULL THEN nodes = {} ELSE r.pdu.node \in nodes
    <3>1. r.pdu.node = m
      BY <1>4
    <3>2. CASE nodes = {}
      BY <1>3, <3>1, <3>2
    <3>3. CASE nodes # {}
      BY <1>3, <3>1, <3>3, NullFacts
    <3> QED
      BY <3>2, <3>3
  <2>2. Table(node, net.udp, nodes)
    BY <1>1 DEF Good
  <2> QED
    BY <1>7, <2>1, <2>2 DEF Table
<1>10. \A e \in net'.udp : e.pdu.type = "NET_JOIN" => e \in net.udp
  BY <1>4, <1>7
<1>11. Good(node, net', nodes)
  BY <1>1, <1>6, <1>8, <1>9, <1>10, PostGood
<1>12. Good(node', net', nodes')
  BY <1>11 DEF NetGetNode
<1>13. Steady({})
  BY <1>6, <1>10, SteadyPost
<1> QED
  BY <1>12, <1>13, GoodNext

(* The tracker puts the node into its table (tracker.rs). *)
LEMMA NetAliveGood ==
  ASSUME NodeInv, NodeInv', JoinInv, nodes \in SUBSET Node, NEW d \in net.udp, d.dst = Tracker, NetAlive(d), node' = node
  PROVE  JoinInv' /\ Steady({})
<1>1. net \in Kernel /\ World(node, net) /\ World(node, net') /\ Good(node, net, nodes) /\ net.udp \in SUBSET Datagram
  BY InvWorld, InvWorldNext, NetFields DEF NodeInv, NetSound, JoinInv
<1>2. d.src \in Node /\ Running(d.src)
  BY AskerRuns
<1>3. /\ net'.fwd = net.fwd /\ net'.bwd = net.bwd /\ net'.backlog = net.backlog /\ net'.rst = net.rst
      /\ net'.udp = net.udp \ {d} /\ nodes' = nodes \cup {d.src} /\ d.pdu.type = "NET_ALIVE"
  BY <1>1 DEF NetAlive, Kernel
<1>4. Mail(node, net.udp) /\ Table(node, net.udp, nodes)
  BY <1>1 DEF Good
<1>5. Mail(node, net'.udp)
  BY <1>3, <1>4 DEF Mail
<1>6. Inside(node[d.src])
  BY <1>2, <1>3, <1>4 DEF Mail, Letter
<1>7. ASSUME NEW n \in Node, node[n].state \in {"Q3", "Q4"} PROVE nodes # {}
  <2>1. node[n].process = "running"
    BY <1>7, Seated DEF Seat, Places
  <2>2. n # d.src
    BY <1>6, <1>7 DEF Inside, Inner
  <2> QED
    BY <1>2, <1>4, <2>1, <2>2 DEF Table, Running
<1>8. Table(node, net'.udp, nodes')
  <2>1. \A n \in nodes' : Inside(node[n])
    BY <1>3, <1>4, <1>6 DEF Table
  <2>2. \A n \in Node : node[n].state # "Q4"
    BY <1>4, <1>7 DEF Table
  <2>3. \A n \in Node : node[n].state = "Q7" /\ node[n].at = "run" => node[n].last_pdu.node \in nodes'
    BY <1>3, <1>4 DEF Table
  <2>4. ASSUME NEW e \in net'.udp, Reply(e), e.pdu.type = "NET_GET_NODE_RESPONSE"
        PROVE  e.pdu.node # NULL /\ e.pdu.node \in nodes'
    <3>1. e \in net.udp /\ Letter(node, e)
      BY <1>3, <1>4, <2>4 DEF Mail
    <3>2. e.dst \in Node /\ node[e.dst].state = "Q3"
      BY <2>4, <3>1 DEF Letter, Reply
    <3>3. nodes # {}
      BY <1>7, <3>2
    <3> QED
      BY <1>3, <1>4, <2>4, <3>1, <3>3 DEF Table
  <2> QED
    BY <1>3, <2>1, <2>2, <2>3, <2>4 DEF Table
<1>9. \A e \in net'.udp : e.pdu.type = "NET_JOIN" => e \in net.udp
  BY <1>3
<1>10. Good(node, net', nodes')
  BY <1>1, <1>3, <1>5, <1>8, <1>9, PostGood
<1>11. Good(node', net', nodes')
  BY <1>10
<1>12. Steady({})
  BY <1>3, <1>9, SteadyPost
<1> QED
  BY <1>11, <1>12, GoodNext

(* The tracker handles a datagram (tracker.rs). *)
LEMMA RunTrackerGood ==
  ASSUME NodeInv, NodeInv', JoinInv, nodes \in SUBSET Node, RunTracker
  PROVE  JoinInv' /\ Steady({})
<1>1. PICK d \in net.udp : d.dst = Tracker /\ (StunLookup(d) \/ NetAlive(d) \/ NetGetNode(d)) /\ node' = node
  BY DEF RunTracker
<1> QED
  BY <1>1, StunLookupGood, NetAliveGood, NetGetNodeGood
=============================================================================
