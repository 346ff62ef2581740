--------------------------- MODULE RustJoinProofs ---------------------------
(***************************************************************************)
(* What RustRing promises while nodes only join: RangesPartition, QuietRing*)
(* and NoPanic, for any number of nodes, keys and requests, with requests  *)
(* that overlap at will and datagrams that are lost.                       *)
(*                                                                         *)
(* RustRoundProofs has the invariant and the steps that let nobody in.     *)
(* Here a node comes in: it asks the tracker, sends NET_JOIN, waits for    *)
(* the answer, and another one makes room for it.                          *)
(***************************************************************************)
EXTENDS RustRoundProofs

(***************************************************************************)
(* A node on its way in: it has no range, nobody is connected to it, and   *)
(* it exchanges datagrams with the tracker.                                *)
(***************************************************************************)

(* n moves on; its neighbours, its queues and the streams are as they were. *)
LEMMA OuterStep ==
  ASSUME NEW sd, NEW nt, World(sd, nt), NEW T \in SUBSET Node, Good(sd, nt, T), NEW td, NEW mt, World(td, mt),
         NEW n \in Node, Peers(sd, td, n), ~Inside(sd[n]), ~Asked(sd[n]), ~Told(sd[n]), ~Inside(td[n]), ~Told(td[n]),
         mt.fwd = nt.fwd, mt.bwd = nt.bwd, mt.backlog = nt.backlog, mt.rst = {},
         Seat(td[n]), Requests(td, mt), Mail(td, mt.udp), Table(td, mt.udp, T)
  PROVE  Good(td, mt, T)
<1>1. Wires(sd, nt) /\ Shares(sd, nt)
  BY DEF Good
<1>2. /\ sd[n].successor = NULL /\ sd[n].predecessor = NULL
      /\ td[n].successor = NULL /\ td[n].predecessor = NULL /\ nt.backlog[n] = <<>>
  <2>1. Seat(sd[n]) /\ Ends(sd, nt, n)
    BY <1>1 DEF Wires
  <2> QED
    BY <2>1 DEF Seat, Neighbours, Ends, Expected, Waits
<1>3. ~Waits(sd, nt, n) /\ ~Waits(td, mt, n)
  BY <1>2 DEF Waits
<1>4. ASSUME NEW c \in Conn
      PROVE  Pipe(td, mt, c) = Pipe(sd, nt, c) /\ (Holds(td, mt, c) <=> Holds(sd, nt, c))
  <2>1. c.to \in Node /\ c # NULL
    BY ConnFields, NullFacts
  <2>2. td[c.to].predecessor = sd[c.to].predecessor
    BY <1>2, <2>1 DEF Peers
  <2>3. sd[c.to].predecessor = c => td[c.to] = sd[c.to]
    BY <1>2, <2>1 DEF Peers
  <2> QED
    BY <2>2, <2>3 DEF Pipe, Holds
<1>5. SameRing(sd, nt, td, mt)
  <2>1. ASSUME NEW m \in Node
        PROVE  /\ Inside(td[m]) <=> Inside(sd[m])
               /\ td[m].successor = sd[m].successor
               /\ Inside(sd[m]) => /\ td[m].start = sd[m].start /\ td[m].end = sd[m].end
                                   /\ td[m].successor_listen = sd[m].successor_listen
               /\ Waits(td, mt, m) <=> Waits(sd, nt, m)
               /\ Waits(sd, nt, m) => First(td, mt, m) = First(sd, nt, m)
    <3>1. CASE m = n
      BY <1>2, <1>3, <3>1
    <3>2. CASE m # n
      BY <3>2 DEF Peers, Waits, First
    <3> QED
      BY <3>1, <3>2
  <2> QED
    BY <1>4, <2>1 DEF SameRing
<1>6. \A c \in Conn : Moved(sd, c, Pipe(sd, nt, c), Pipe(td, mt, c))
  BY <1>4 DEF Moved
<1>7. ASSUME NEW m \in Node PROVE Seat(td[m]) /\ Ends(td, mt, m) /\ Dropping(td, mt, td[m])
  <2>1. Seat(sd[m]) /\ Ends(sd, nt, m) /\ Dropping(sd, nt, sd[m])
    BY <1>1 DEF Wires
  <2>2. Expected(td, mt, m) <=> Expected(sd, nt, m)
    BY <1>5 DEF Expected, SameRing
  <2>3. CASE m = n
    BY <1>2, <2>3 DEF Ends, Dropping, Closing, Inside, Inner, Range
  <2>4. CASE m # n
    <3>1. td[m] = sd[m]
      BY <2>4 DEF Peers
    <3>2. Ends(td, mt, m)
      BY <2>1, <2>2, <3>1 DEF Ends
    <3>3. ASSUME Closing(td[m])
          PROVE  Pipe(td, mt, td[m].predecessor) = <<>> /\ ~Dials(td, td[m].predecessor)
      <4>1. sd[m].predecessor \in Conn
        BY <2>1, <3>1, <3>3, WorldFacts DEF Seat, Neighbours, Closing, Inside, Inner
      <4>2. td[sd[m].predecessor.from].successor = sd[sd[m].predecessor.from].successor
        BY <1>5, <4>1, ConnFields DEF SameRing
      <4> QED
        BY <1>4, <2>1, <3>1, <3>3, <4>1, <4>2 DEF Dropping, Dials
    <3> QED
      BY <2>1, <3>1, <3>2, <3>3 DEF Dropping
  <2> QED
    BY <2>3, <2>4
<1> QED
  BY <1>1, <1>5, <1>6, <1>7, WiresMoved, SharesMoved DEF Good

(* The same, as a step. *)
LEMMA OuterBecome ==
  ASSUME NodeInv, NodeInv', JoinInv, nodes \in SUBSET Node, nodes' = nodes, NEW n \in Node, NEW s \in Memory, NEW nt,
         NetSound(nt), Become(n, s, nt), ~Inside(node[n]), ~Asked(node[n]), ~Told(node[n]),
         s.state \in {"Q1", "Q2", "Q3", "Q4", "Q7"}, s.at \in {"run", "await", "accept"},
         s.at = "await" => s.state \in {"Q2", "Q3"}, s.at = "accept" => s.state = "Q7",
         s.process = "running", s.successor = NULL, s.predecessor = NULL, s.queue = NoQueue,
         ~s.should_close, s.alive_due,
         nt.fwd = net.fwd, nt.bwd = net.bwd, nt.backlog = net.backlog, nt.rst = net.rst,
         NEW td, td = [node EXCEPT ![n] = s],
         Requests(td, nt), Mail(td, nt.udp), Table(td, nt.udp, nodes)
  PROVE  JoinInv' /\ node'[n] = s /\ (\A m \in Node : m # n => node'[m] = node[m]) /\ net' = nt
<1>1. /\ Seat(node[n]) /\ net.rst = {} /\ World(node, net) /\ World(node', net') /\ Good(node, net, nodes)
  BY Seated, InvWorldNext DEF JoinInv
<1>2. Settle(s) = s
  BY DEF Settle
<1>3. net' = nt /\ node'[n] = s /\ Peers(node, node', n)
  BY <1>1, <1>2, BecomeIs
<1>4. node' = td
  BY <1>2 DEF Become
<1>5. ~Inside(s) /\ ~Told(s)
  BY DEF Inside, Inner, Told
<1>6. Seat(s)
  <2>1. Places(s)
    BY <1>5 DEF Places, Outer
  <2>2. Neighbours(s)
    BY <1>5 DEF Neighbours
  <2>3. Queued(s)
    BY DEF Queued, NoQueue, Token
  <2> QED
    BY <2>1, <2>2, <2>3 DEF Seat
<1>7. Good(node', net', nodes)
  BY <1>1, <1>3, <1>4, <1>5, <1>6, OuterStep
<1> QED
  BY <1>3, <1>7, GoodNext DEF Peers

(* No NET_JOIN is new. *)
LEMMA OuterRequests ==
  ASSUME NodeInv, JoinInv, NEW n \in Node, NEW s \in Memory, ~Inside(node[n]), ~Asked(node[n]), ~Told(node[n]),
         s.state \in {"Q1", "Q2", "Q3", "Q4", "Q6", "Q7"}, s.predecessor = NULL, s.queue = NoQueue, NEW nt,
         nt.fwd = net.fwd, nt.backlog = net.backlog, NEW td, td = [node EXCEPT ![n] = s]
  PROVE  /\ Peers(node, td, n)
         /\ \A k \in Node, c \in Conn : Less(Pipe(node, net, c), Pipe(td, nt, c), k)
         /\ \A k \in Node : /\ Less(node[n].queue["UDP"], td[n].queue["UDP"], k)
                            /\ Less(JoinNoted(node[n]), JoinNoted(td[n]), k)
         /\ \A m \in Node : Applicant(node, net, m) => Applicant(td, nt, m)
         /\ (\A e \in nt.udp : e.pdu.type = "NET_JOIN" => e \in net.udp) => Requests(td, nt)
<1>1. node \in [Node -> Memory] /\ World(node, net) /\ Requests(node, net) /\ Seat(node[n])
  BY InvWorld, Seated DEF NodeInv, JoinInv, Good
<1>2. td[n] = s /\ Peers(node, td, n)
  BY <1>1 DEF Peers
<1>3. node[n].predecessor = NULL /\ node[n].queue = NoQueue
  BY <1>1 DEF Seat, Neighbours, Queued
<1>4. ASSUME NEW c \in Conn PROVE Pipe(td, nt, c) = Pipe(node, net, c)
  <2>1. c.to \in Node /\ c # NULL
    BY ConnFields, NullFacts
  <2> QED
    BY <1>2, <1>3, <2>1 DEF Pipe, Peers
<1>5. \A k \in Node, c \in Conn : Less(Pipe(node, net, c), Pipe(td, nt, c), k)
  BY <1>1, <1>4, WorldFacts, LessSimple
<1>6. JoinNoted(s) = <<>> /\ JoinNoted(node[n]) \in Seq(PDU) /\ node[n].queue["UDP"] \in Seq(PDU)
  BY <1>1, JoinNotedType, WorldFacts DEF JoinNoted, Live
<1>7. \A k \in Node : /\ Less(node[n].queue["UDP"], td[n].queue["UDP"], k)
                      /\ Less(JoinNoted(node[n]), JoinNoted(td[n]), k)
  BY <1>2, <1>3, <1>6, LessSimple
<1>8. \A m \in Node : Applicant(node, net, m) => Applicant(td, nt, m)
  BY <1>2 DEF Applicant, Peers
<1> QED
  BY <1>1, <1>2, <1>5, <1>7, <1>8, RequestsKept

(* What a node on its way in reads from its UDP socket is one answer. *)
LEMMA OuterAnswer ==
  ASSUME NodeInv, JoinInv, NEW n \in Node, ~Inside(node[n]), NEW a \in await_pdu_udp(n)
  PROVE  /\ a.memory = node[n] /\ NetSound(a.kernel)
         /\ \E d \in net.udp : /\ Reply(d) /\ d.dst = n /\ a.pdu = d.pdu
                               /\ a.kernel = [net EXCEPT !.udp = net.udp \ {d}]
<1>1. PICK batch \in Batches(n) :
         a = [pdu |-> Head(FilledUdp(n, batch).queue["UDP"]), memory |-> Popped(FilledUdp(n, batch), "UDP"),
              kernel |-> DrainedUdp(batch)]
  BY DEF await_pdu_udp
<1>2. /\ batch \in Seq(net.udp) /\ \A i \in DOMAIN batch : batch[i] \in net.udp /\ batch[i].dst = n
      /\ \A i, j \in DOMAIN batch : batch[i] = batch[j] => i = j
      /\ [i \in DOMAIN batch |-> batch[i].pdu] \in Seq(PDU) /\ batch # <<>>
  BY BatchFacts, BatchType
<1>3. Seat(node[n]) /\ Mail(node, net.udp) /\ node[n] \in Memory /\ NetSound(net)
  BY Seated DEF JoinInv, Good
<1>4. node[n].queue = NoQueue
  BY <1>3 DEF Seat, Queued
<1>5. \A i \in DOMAIN batch : Reply(batch[i])
  BY <1>2, <1>3 DEF Mail, Letter
<1>6. \A i, j \in DOMAIN batch : i = j
  BY <1>2, <1>3, <1>5 DEF Mail
<1>7. Len(batch) = 1 /\ DOMAIN batch = {1}
  <2>1. DOMAIN batch = 1 .. Len(batch) /\ Len(batch) \in Nat /\ Len(batch) # 0
    BY <1>2
  <2>2. 1 \in DOMAIN batch /\ Len(batch) \in DOMAIN batch
    BY <2>1
  <2>3. 1 = Len(batch)
    BY <1>6, <2>2
  <2>4. 1 .. 1 = {1}
    OBVIOUS
  <2> QED
    BY ONLY <2>1, <2>3, <2>4
<1>8. PICK d : d = batch[1] /\ d \in net.udp /\ Reply(d) /\ d.dst = n /\ d.pdu \in PDU
  <2>1. batch[1] \in net.udp /\ Reply(batch[1]) /\ batch[1].dst = n
    BY <1>2, <1>5, <1>7
  <2>2. batch[1] \in Datagram
    BY <1>3, <2>1, NetFields
  <2> QED
    BY <2>1, <2>2 DEF Datagram
<1>9. PICK x \in Seq(PDU) : x = [i \in DOMAIN batch |-> batch[i].pdu] /\ Len(x) = 1 /\ x[1] = d.pdu
  BY <1>2, <1>7, <1>8
<1>10. x = <<d.pdu>> /\ <<>> \o x = x /\ Head(x) = d.pdu /\ Tail(x) = <<>>
  BY <1>8, <1>9
<1>11. PICK m \in Memory : m = node[n] /\ m.queue = NoQueue
  BY <1>3, <1>4
<1>12. FilledUdp(n, batch) = [m EXCEPT !.queue["UDP"] = @ \o x]
  BY <1>9, <1>11 DEF FilledUdp
<1>13. "UDP" \in Token /\ NoQueue = [t \in Token |-> <<>>]
  BY DEF NoQueue, Token
<1>14. PICK f : f = FilledUdp(n, batch)
  OBVIOUS
<1>15. f = [m EXCEPT !.queue = [NoQueue EXCEPT !["UDP"] = x]]
  <2>1. m.queue["UDP"] = <<>>
    BY <1>11, <1>13
  <2>2. f = [m EXCEPT !.queue = [m.queue EXCEPT !["UDP"] = m.queue["UDP"] \o x]]
    BY <1>11, <1>12, <1>14 DEF Memory
  <2> QED
    BY ONLY <1>10, <1>11, <2>1, <2>2
<1>16. f.queue = [NoQueue EXCEPT !["UDP"] = x] /\ f.queue["UDP"] = x
  BY <1>13, <1>15 DEF Memory
<1>17. [f EXCEPT !.queue["UDP"] = Tail(@)] = [m EXCEPT !.queue = [f.queue EXCEPT !["UDP"] = <<>>]]
  <2>1. [f EXCEPT !.queue["UDP"] = Tail(@)] = [f EXCEPT !.queue = [f.queue EXCEPT !["UDP"] = Tail(f.queue["UDP"])]]
    BY <1>15 DEF Memory
  <2>2. Tail(f.queue["UDP"]) = <<>>
    BY ONLY <1>10, <1>16
  <2>3. PICK g : g = [f.queue EXCEPT !["UDP"] = <<>>]
    OBVIOUS
  <2>4. PICK h : h = [NoQueue EXCEPT !["UDP"] = x]
    OBVIOUS
  <2>5. [f EXCEPT !.queue = g] = [m EXCEPT !.queue = g]
    <3>1. f = [m EXCEPT !.queue = h]
      BY <1>15, <2>4
    <3> QED
      BY ONLY <3>1, m \in Memory DEF Memory
  <2> QED
    BY ONLY <2>1, <2>2, <2>3, <2>5
<1>18. [f.queue EXCEPT !["UDP"] = <<>>] = NoQueue
  BY <1>13, <1>16
<1>19. Popped(f, "UDP") = m
  <2>1. [m EXCEPT !.queue = NoQueue] = m
    BY <1>11 DEF Memory
  <2> QED
    BY <1>17, <1>18, <2>1 DEF Popped
<1>20. a.pdu = d.pdu /\ a.memory = node[n] /\ a.kernel = DrainedUdp(batch)
  <2>1. a.pdu = Head(f.queue["UDP"]) /\ a.memory = Popped(f, "UDP") /\ a.kernel = DrainedUdp(batch)
    BY <1>1, <1>14
  <2> QED
    BY <1>10, <1>11, <1>16, <1>19, <2>1
<1>21. Range(batch) = {d}
  BY <1>7, <1>8 DEF Range
<1>22. a.kernel = [net EXCEPT !.udp = net.udp \ {d}]
  BY <1>20, <1>21 DEF DrainedUdp
<1>23. NetSound(a.kernel)
  BY AwaitUdpType
<1> QED
  BY <1>8, <1>20, <1>22, <1>23

(* A process starts. *)
LEMMA StartNodeGood ==
  ASSUME JoinOnly, NodeInv, NodeInv', JoinInv, nodes \in SUBSET Node, NEW n \in Node, StartNode(n)
  PROVE  JoinInv' /\ Advances(n)
<1>1. /\ Seat(node[n]) /\ node[n] \in Memory /\ NetSound(net) /\ Good(node, net, nodes)
      /\ node \in [Node -> Memory]
  BY Seated DEF JoinInv, NodeInv
<1>2. node[n].process = "off" /\ Become(n, new("running"), net) /\ nodes' = nodes
  BY DEF StartNode
<1>3. node[n].state = "Q1" /\ ~Inside(node[n]) /\ ~Asked(node[n]) /\ ~Told(node[n])
  BY <1>1, <1>2 DEF Seat, Places, Inside, Inner, Asked, Told
<1>4. PICK s \in Memory : s = new("running")
  BY NewSound DEF Sound
<1>5. /\ s.process = "running" /\ s.state = "Q1" /\ s.at = "run" /\ s.successor = NULL /\ s.predecessor = NULL
      /\ s.queue = NoQueue /\ ~s.should_close /\ s.alive_due
  BY <1>4 DEF new
<1>6. PICK td : td = [node EXCEPT ![n] = s]
  OBVIOUS
<1>7. Requests(td, net) /\ Peers(node, td, n) /\ td[n] = s
  BY <1>1, <1>3, <1>5, <1>6, OuterRequests
<1>8. Mail(td, net.udp)
  <2>1. Requested(td[n].queue["UDP"])
    BY <1>5, <1>7 DEF Requested, NoQueue, Token
  <2>2. Mail(node, net.udp)
    BY <1>1 DEF Good
  <2>3. NoMail(net.udp, n)
    BY <1>3, <2>2, InsideNoMail
  <2>4. net.udp \in SUBSET net.udp
    OBVIOUS
  <2> QED
    BY ONLY <1>3, <1>7, <2>1, <2>2, <2>3, <2>4, n \in Node, MailKept
<1>9. Table(td, net.udp, nodes)
  <2>0. Table(node, net.udp, nodes)
    BY <1>1 DEF Good
  <2>1. nodes = {} => \A m \in Node : ~Running(m)
    BY <1>2 DEF StartNode, Admitted, Quiet, JoinOnly
  <2>2. \A m \in nodes : Inside(td[m])
    BY <1>3, <1>7, <2>0 DEF Table, Peers
  <2>3. nodes = {} => \A k, m \in Node : td[k].process = "running" /\ td[m].process = "running" => k = m
    BY <1>7, <2>1 DEF Peers, Running
  <2>4. \A m \in Node : td[m].state \in {"Q4", "Q7"} => m # n /\ td[m] = node[m]
    BY <1>5, <1>7 DEF Peers
  <2> QED
    BY <2>0, <2>2, <2>3, <2>4 DEF Table
<1>10. Become(n, s, net)
  BY <1>2, <1>4
<1>11. JoinInv' /\ node'[n] = s /\ (\A m \in Node : m # n => node'[m] = node[m])
  BY <1>1, <1>2, <1>3, <1>5, <1>6, <1>7, <1>8, <1>9, <1>10, OuterBecome
<1> QED
  BY <1>5, <1>11 DEF Advances, Asked

(* A question to the tracker. *)
LEMMA AskGood ==
  ASSUME NodeInv, NodeInv', JoinInv, nodes \in SUBSET Node, nodes' = nodes, NEW n \in Node, Running(n),
         NEW type, \/ type = "STUN_LOOKUP" /\ node[n].state = "Q1"
                   \/ type = "NET_GET_NODE" /\ node[n].state = "Q3" /\ node[n].at = "run",
         NEW s \in Memory, s.state = IF type = "STUN_LOOKUP" THEN "Q2" ELSE "Q3", s.at = "await",
         s.process = node[n].process, s.successor = node[n].successor, s.predecessor = node[n].predecessor,
         s.queue = node[n].queue, s.should_close <=> node[n].should_close, s.alive_due <=> node[n].alive_due,
         Become(n, s, SendUdp(net, n, Tracker, [type |-> type]))
  PROVE  JoinInv' /\ Advances(n)
<1>1. /\ Seat(node[n]) /\ node[n] \in Memory /\ NetSound(net) /\ Good(node, net, nodes)
      /\ node \in [Node -> Memory] /\ Tracker # Client /\ Tracker \notin Node
  BY Seated, NodeFacts DEF JoinInv, NodeInv
<1>2. ~Inside(node[n]) /\ ~Asked(node[n]) /\ ~Told(node[n]) /\ node[n].process = "running"
  BY DEF Inside, Inner, Asked, Told, Running
<1>3. /\ s.successor = NULL /\ s.predecessor = NULL /\ s.queue = NoQueue /\ ~s.should_close /\ s.alive_due
      /\ s.process = "running" /\ s.state \in {"Q2", "Q3"}
  BY <1>1, <1>2 DEF Seat, Places, Neighbours, Queued
<1>4. PICK d : d = [src |-> n, dst |-> Tracker, pdu |-> [type |-> type]]
  OBVIOUS
<1>5. PICK nt : nt = SendUdp(net, n, Tracker, [type |-> type])
  OBVIOUS
<1>6. /\ nt.fwd = net.fwd /\ nt.bwd = net.bwd /\ nt.backlog = net.backlog /\ nt.rst = net.rst
      /\ nt.udp = net.udp \cup {d}
  BY <1>1, <1>4, <1>5 DEF SendUdp, NetSound, Kernel
<1>7. NetSound(nt)
  <2>1. [type |-> type] \in PDU
    BY PDUTypes
  <2> QED
    BY <1>1, <1>5, <2>1, SendUdpSound
<1>8. PICK td : td = [node EXCEPT ![n] = s]
  OBVIOUS
<1>9. Requests(td, nt) /\ Peers(node, td, n) /\ td[n] = s
  <2>1. \A e \in nt.udp : e.pdu.type = "NET_JOIN" => e \in net.udp
    BY <1>4, <1>6
  <2> QED
    BY <1>1, <1>2, <1>3, <1>6, <1>8, <2>1, OuterRequests
<1>10. Mail(td, nt.udp)
  <2>1. Requested(td[n].queue["UDP"])
    BY <1>3, <1>9 DEF Requested, NoQueue, Token
  <2>2. Mail(node, net.udp)
    BY <1>1 DEF Good
  <2>3. NoMail(net.udp, n)
    BY <2>2 DEF NoMail, Mail, Letter, Reply
  <2>4. net.udp \in SUBSET net.udp
    OBVIOUS
  <2>5. Mail(td, net.udp)
    BY ONLY <1>2, <1>9, <2>1, <2>2, <2>3, <2>4, n \in Node, MailKept
  <2>6. Letter(td, d) /\ ~Reply(d)
    BY <1>1, <1>4, <1>9 DEF Letter, Reply
  <2>7. \A e \in net.udp : ~(Reply(e) /\ e.dst = d.src)
    BY <1>4, <2>3 DEF NoMail
  <2> QED
    BY <1>1, <1>6, <2>5, <2>6, <2>7, MailAdd
<1>11. Table(td, nt.udp, nodes)
  <2>1. Table(node, net.udp, nodes)
    BY <1>1 DEF Good
  <2>2. \A e \in nt.udp : NodeReply(e) => e \in net.udp
    BY <1>1, <1>4, <1>6 DEF NodeReply, Reply
  <2> QED
    BY <1>2, <1>3, <1>9, <2>1, <2>2, TableKept
<1>12. JoinInv' /\ node'[n] = s /\ (\A m \in Node : m # n => node'[m] = node[m])
  BY <1>1, <1>2, <1>3, <1>5, <1>6, <1>7, <1>8, <1>9, <1>10, <1>11, OuterBecome
<1> QED
  BY <1>3, <1>12 DEF Advances, Asked

(* q1 asks the tracker for the address (node.rs:196). *)
LEMMA q1Good ==
  ASSUME NodeInv, NodeInv', JoinInv, nodes \in SUBSET Node, nodes' = nodes, NEW n \in Node, q1(n)
  PROVE  JoinInv' /\ Advances(n)
<1>1. PICK m \in Memory : m = node[n]
  BY Seated
<1>2. PICK s : s = [m EXCEPT !.state = "Q2", !.at = "await"]
  OBVIOUS
<1>3. /\ s \in Memory /\ s.state = "Q2" /\ s.at = "await" /\ s.process = m.process /\ s.successor = m.successor
      /\ s.predecessor = m.predecessor /\ s.queue = m.queue /\ (s.should_close <=> m.should_close)
      /\ (s.alive_due <=> m.alive_due)
  BY ONLY <1>2, m \in Memory DEF Memory, State
<1>4. /\ Running(n) /\ node[n].state = "Q1"
      /\ Become(n, s, SendUdp(net, n, Tracker, [type |-> "STUN_LOOKUP"]))
  BY <1>1, <1>2 DEF q1, At
<1> QED
  BY <1>1, <1>3, <1>4, AskGood

(* The tracker's answer. *)
LEMMA AnsweredGood ==
  ASSUME NodeInv, NodeInv', JoinInv, nodes \in SUBSET Node, nodes' = nodes, NEW n \in Node, Running(n),
         NEW d \in net.udp, Reply(d), d.dst = n, node[n].state \in {"Q2", "Q3"},
         NEW s \in Memory, s.at = "run",
         \/ s.state = "Q3"
         \/ NodeReply(d) /\ d.pdu.node = NULL /\ s.state = "Q4"
         \/ NodeReply(d) /\ d.pdu.node # NULL /\ s.state = "Q7" /\ s.last_pdu = d.pdu,
         s.process = node[n].process, s.successor = node[n].successor, s.predecessor = node[n].predecessor,
         s.queue = node[n].queue, s.should_close <=> node[n].should_close, s.alive_due <=> node[n].alive_due,
         NEW nt, nt = [net EXCEPT !.udp = net.udp \ {d}], NetSound(nt), Become(n, s, nt)
  PROVE  JoinInv' /\ Advances(n)
<1>1. /\ Seat(node[n]) /\ node[n] \in Memory /\ NetSound(net) /\ Good(node, net, nodes)
      /\ node \in [Node -> Memory]
  BY Seated DEF JoinInv, NodeInv
<1>2. ~Inside(node[n]) /\ ~Asked(node[n]) /\ ~Told(node[n]) /\ node[n].process = "running"
  BY DEF Inside, Inner, Asked, Told, Running
<1>3. /\ s.successor = NULL /\ s.predecessor = NULL /\ s.queue = NoQueue /\ ~s.should_close /\ s.alive_due
      /\ s.process = "running" /\ s.state \in {"Q3", "Q4", "Q7"}
  BY <1>1, <1>2 DEF Seat, Places, Neighbours, Queued
<1>4. /\ nt.fwd = net.fwd /\ nt.bwd = net.bwd /\ nt.backlog = net.backlog /\ nt.rst = net.rst
      /\ nt.udp = net.udp \ {d}
  BY <1>1 DEF NetSound, Kernel
<1>5. PICK td : td = [node EXCEPT ![n] = s]
  OBVIOUS
<1>6. Requests(td, nt) /\ Peers(node, td, n) /\ td[n] = s
  BY <1>1, <1>2, <1>3, <1>4, <1>5, OuterRequests
<1>7. Mail(td, nt.udp)
  <2>1. Requested(td[n].queue["UDP"])
    BY <1>3, <1>6 DEF Requested, NoQueue, Token
  <2>2. Mail(node, net.udp)
    BY <1>1 DEF Good
  <2>3. NoMail(nt.udp, n)
    BY <1>4, <2>2 DEF NoMail, Mail
  <2>4. nt.udp \in SUBSET net.udp
    BY <1>4
  <2> QED
    BY ONLY <1>2, <1>6, <2>1, <2>2, <2>3, <2>4, n \in Node, MailKept
<1>8. Table(td, nt.udp, nodes)
  <2>1. Table(node, net.udp, nodes)
    BY <1>1 DEF Good
  <2>2. \A e \in nt.udp : NodeReply(e) => e \in net.udp
    BY <1>4
  <2>3. NodeReply(d) => IF d.pdu.node = NULL THEN nodes = {} ELSE d.pdu.node \in nodes
    BY <2>1 DEF Table, NodeReply
  <2>4. td[n].state = "Q4" => nodes = {}
    BY <1>6, <2>3
  <2>5. td[n].state = "Q7" => td[n].last_pdu.node \in nodes
    BY <1>6, <2>3
  <2> QED
    BY <1>2, <1>3, <1>6, <2>1, <2>2, <2>4, <2>5, TableKept
<1>9. JoinInv' /\ node'[n] = s /\ (\A m \in Node : m # n => node'[m] = node[m])
  BY <1>1, <1>2, <1>3, <1>4, <1>5, <1>6, <1>7, <1>8, OuterBecome
<1> QED
  BY <1>3, <1>9 DEF Advances, Asked

(* q2 reads the address and asks for a node (node.rs:208). *)
LEMMA q2Good ==
  ASSUME NodeInv, NodeInv', JoinInv, nodes \in SUBSET Node, nodes' = nodes, NEW n \in Node, q2(n)
  PROVE  JoinInv' /\ Advances(n)
<1>1. PICK a \in await_pdu_udp(n) :
         IF a.pdu.type # "STUN_RESPONSE" THEN Panic(n, a.kernel)
         ELSE Become(n, Goto(a.memory, "Q3"), a.kernel)
  BY DEF q2
<1>2. Running(n) /\ node[n].state = "Q2" /\ ~Inside(node[n])
  BY DEF q2, At, Inside, Inner
<1>3. a.memory = node[n] /\ NetSound(a.kernel)
  BY <1>2, OuterAnswer
<1>4. PICK d \in net.udp : /\ Reply(d) /\ d.dst = n /\ a.pdu = d.pdu
                           /\ a.kernel = [net EXCEPT !.udp = net.udp \ {d}]
  BY <1>2, OuterAnswer
<1>5. d.pdu.type = "STUN_RESPONSE"
  <2>1. Letter(node, d)
    BY DEF JoinInv, Good, Mail
  <2> QED
    BY <1>2, <1>4, <2>1 DEF Letter, Reply
<1>6. PICK m \in Memory : m = node[n]
  BY Seated
<1>7. PICK s : s = Goto(m, "Q3")
  OBVIOUS
<1>8. /\ s \in Memory /\ s.state = "Q3" /\ s.at = "run" /\ s.process = m.process /\ s.successor = m.successor
      /\ s.predecessor = m.predecessor /\ s.queue = m.queue /\ (s.should_close <=> m.should_close)
      /\ (s.alive_due <=> m.alive_due)
  BY ONLY <1>7, m \in Memory DEF Memory, State, Goto
<1>9. Become(n, s, a.kernel)
  BY <1>1, <1>3, <1>4, <1>5, <1>6, <1>7
<1> QED
  BY <1>2, <1>3, <1>4, <1>6, <1>8, <1>9, AnsweredGood

(* q3 reads the answer: the node is the first, or goes to the one it names (node.rs:222). *)
LEMMA q3Good ==
  ASSUME NodeInv, NodeInv', JoinInv, nodes \in SUBSET Node, nodes' = nodes, NEW n \in Node, q3(n)
  PROVE  JoinInv' /\ Advances(n)
<1>0. PICK m \in Memory : m = node[n]
  BY Seated
<1>1. CASE /\ At(n, "Q3", "run")
           /\ Become(n, [node[n] EXCEPT !.at = "await"], SendUdp(net, n, Tracker, [type |-> "NET_GET_NODE"]))
  <2>1. PICK s : s = [m EXCEPT !.at = "await"]
    OBVIOUS
  <2>2. /\ s \in Memory /\ s.state = m.state /\ s.at = "await" /\ s.process = m.process /\ s.successor = m.successor
        /\ s.predecessor = m.predecessor /\ s.queue = m.queue /\ (s.should_close <=> m.should_close)
        /\ (s.alive_due <=> m.alive_due)
    BY ONLY <2>1, m \in Memory DEF Memory
  <2>3. /\ Running(n) /\ node[n].state = "Q3" /\ node[n].at = "run"
        /\ Become(n, s, SendUdp(net, n, Tracker, [type |-> "NET_GET_NODE"]))
    BY <1>0, <1>1, <2>1 DEF At
  <2> QED
    BY <1>0, <2>2, <2>3, AskGood
<1>2. CASE /\ At(n, "Q3", "await")
           /\ \E a \in await_pdu_udp(n) :
                IF a.pdu.type # "NET_GET_NODE_RESPONSE" THEN Panic(n, a.kernel)
                ELSE IF a.pdu.node = NULL THEN Become(n, Goto(a.memory, "Q4"), a.kernel)
                ELSE Become(n, [Goto(a.memory, "Q7") EXCEPT !.last_pdu = a.pdu], a.kernel)
  <2>1. PICK a \in await_pdu_udp(n) :
             IF a.pdu.type # "NET_GET_NODE_RESPONSE" THEN Panic(n, a.kernel)
             ELSE IF a.pdu.node = NULL THEN Become(n, Goto(a.memory, "Q4"), a.kernel)
             ELSE Become(n, [Goto(a.memory, "Q7") EXCEPT !.last_pdu = a.pdu], a.kernel)
    BY <1>2
  <2>2. Running(n) /\ node[n].state = "Q3" /\ ~Inside(node[n])
    BY <1>2 DEF At, Inside, Inner
  <2>3. a.memory = node[n] /\ NetSound(a.kernel) /\ a.pdu \in PDU
    BY <2>2, OuterAnswer, AwaitUdpType
  <2>4. PICK d \in net.udp : /\ Reply(d) /\ d.dst = n /\ a.pdu = d.pdu
                             /\ a.kernel = [net EXCEPT !.udp = net.udp \ {d}]
    BY <2>2, OuterAnswer
  <2>5. d.pdu.type = "NET_GET_NODE_RESPONSE" /\ NodeReply(d)
    <3>1. Letter(node, d)
      BY DEF JoinInv, Good, Mail
    <3> QED
      BY <2>2, <2>4, <3>1 DEF Letter, Reply, NodeReply
  <2>6. CASE d.pdu.node = NULL
    <3>1. PICK s : s = Goto(m, "Q4")
      OBVIOUS
    <3>2. /\ s \in Memory /\ s.state = "Q4" /\ s.at = "run" /\ s.process = m.process /\ s.successor = m.successor
          /\ s.predecessor = m.predecessor /\ s.queue = m.queue /\ (s.should_close <=> m.should_close)
          /\ (s.alive_due <=> m.alive_due)
      BY ONLY <3>1, m \in Memory DEF Memory, State, Goto
    <3>3. Become(n, s, a.kernel)
      BY <1>0, <2>1, <2>3, <2>4, <2>5, <2>6, <3>1
    <3> QED
      BY <1>0, <2>2, <2>3, <2>4, <2>5, <2>6, <3>2, <3>3, AnsweredGood
  <2>7. CASE d.pdu.node # NULL
    <3>1. PICK s : s = [Goto(m, "Q7") EXCEPT !.last_pdu = d.pdu]
      OBVIOUS
    <3>2. PICK l \in PDU : l = d.pdu
      BY <2>3, <2>4
    <3>3. /\ s \in Memory /\ s.state = "Q7" /\ s.at = "run" /\ s.process = m.process /\ s.successor = m.successor
          /\ s.predecessor = m.predecessor /\ s.queue = m.queue /\ (s.should_close <=> m.should_close)
          /\ (s.alive_due <=> m.alive_due) /\ s.last_pdu = l
      <4>1. s = [Goto(m, "Q7") EXCEPT !.last_pdu = l]
        BY <3>1, <3>2
      <4> QED
        BY ONLY <4>1, m \in Memory, l \in PDU DEF Memory, State, Goto
    <3>4. Become(n, s, a.kernel)
      BY <1>0, <2>1, <2>3, <2>4, <2>5, <2>7, <3>1
    <3> QED
      BY <1>0, <2>2, <2>3, <2>4, <2>5, <2>7, <3>2, <3>3, <3>4, AnsweredGood
  <2> QED
    BY <2>6, <2>7
<1> QED
  BY <1>1, <1>2 DEF q3

(* NET_JOIN goes to the node that the tracker named. *)
LEMMA q7askGood ==
  ASSUME NodeInv, NodeInv', JoinInv, nodes \in SUBSET Node, nodes' = nodes, NEW n \in Node, At(n, "Q7", "run"), q7(n)
  PROVE  JoinInv' /\ Advances(n)
<1>1. /\ Seat(node[n]) /\ node[n] \in Memory /\ NetSound(net) /\ Good(node, net, nodes)
      /\ node \in [Node -> Memory] /\ Tracker \notin Node /\ World(node, net)
  BY Seated, NodeFacts DEF JoinInv, NodeInv
<1>2. /\ ~Inside(node[n]) /\ ~Asked(node[n]) /\ ~Told(node[n]) /\ node[n].process = "running"
      /\ node[n].state = "Q7" /\ node[n].at = "run"
  BY DEF At, Inside, Inner, Asked, Told, Running
<1>3. PICK k : k = node[n].last_pdu.node
  OBVIOUS
<1>4. k \in nodes /\ k \in Node /\ Inside(node[k]) /\ k # n
  BY <1>1, <1>2, <1>3 DEF Good, Table
<1>5. Running(k)
  <2>1. Seat(node[k])
    BY <1>4, Seated
  <2> QED
    BY <1>4, <2>1 DEF Seat, Places, Inside, Inner, Running
<1>6. PICK x \in PDU : x = [type |-> "NET_JOIN", src |-> n, max_span |-> 0, max |-> NULL]
  BY PDUTypes, ByteFacts
<1>7. PICK d : d = [src |-> n, dst |-> k, pdu |-> x]
  OBVIOUS
<1>8. PICK nt : nt = SendUdp(net, n, k, x)
  OBVIOUS
<1>9. /\ nt.fwd = net.fwd /\ nt.bwd = net.bwd /\ nt.backlog = net.backlog /\ nt.rst = net.rst
      /\ nt.udp = net.udp \cup {d}
  BY <1>1, <1>5, <1>7, <1>8 DEF SendUdp, NetSound, Kernel
<1>10. NetSound(nt)
  BY <1>1, <1>4, <1>8, NodeFacts, SendUdpSound
<1>11. PICK m \in Memory : m = node[n]
  BY <1>1
<1>12. PICK s : s = [m EXCEPT !.last_pdu = NULL, !.at = "accept"]
  OBVIOUS
<1>13. /\ s \in Memory /\ s.state = m.state /\ s.at = "accept" /\ s.process = m.process /\ s.successor = m.successor
       /\ s.predecessor = m.predecessor /\ s.queue = m.queue /\ (s.should_close <=> m.should_close)
       /\ (s.alive_due <=> m.alive_due)
  BY ONLY <1>12, m \in Memory DEF Memory
<1>14. Become(n, s, nt)
  <2>1. ~accept_predecessor(n, "Q7", "Q8")
    BY <1>2 DEF accept_predecessor, At
  <2>2. Become(n, [node[n] EXCEPT !.last_pdu = NULL, !.at = "accept"],
               SendUdp(net, n, node[n].last_pdu.node,
                       [type |-> "NET_JOIN", src |-> n, max_span |-> 0, max |-> NULL]))
    BY <2>1 DEF q7
  <2> QED
    BY ONLY <1>3, <1>6, <1>8, <1>11, <1>12, <2>2
<1>15. /\ s.successor = NULL /\ s.predecessor = NULL /\ s.queue = NoQueue /\ ~s.should_close /\ s.alive_due
       /\ s.process = "running" /\ s.state = "Q7"
  BY <1>1, <1>2, <1>11, <1>13 DEF Seat, Places, Neighbours, Queued
<1>16. PICK td : td = [node EXCEPT ![n] = s]
  OBVIOUS
<1>17. /\ Peers(node, td, n) /\ td[n] = s
       /\ \A j \in Node, c \in Conn : Less(Pipe(node, net, c), Pipe(td, nt, c), j)
       /\ \A j \in Node : /\ Less(node[n].queue["UDP"], td[n].queue["UDP"], j)
                          /\ Less(JoinNoted(node[n]), JoinNoted(td[n]), j)
       /\ \A j \in Node : Applicant(node, net, j) => Applicant(td, nt, j)
  <2>1. /\ s \in Memory /\ s.state \in {"Q1", "Q2", "Q3", "Q4", "Q6", "Q7"} /\ s.predecessor = NULL
        /\ s.queue = NoQueue /\ td[n] = s
    BY <1>1, <1>13, <1>15, <1>16
  <2> QED
    BY ONLY <1>2, <1>9, <1>16, <2>1, NodeInv, JoinInv, n \in Node, OuterRequests
<1>18. Requests(td, nt)
  <2>1. \A j \in Node, b \in BoxId : Less(Boxes(node, net)[b], Boxes(td, nt)[b], j)
    BY <1>1, <1>17, BoxesLess
  <2>2. Requests(node, net)
    BY <1>1 DEF Good
  <2>3. ASSUME NEW j \in Node
        PROVE  /\ Once(Boxes(td, nt), net.udp, j)
               /\ Sought(Boxes(td, nt), net.udp, j) => Sought(Boxes(node, net), net.udp, j)
    <3>1. Once(Boxes(node, net), net.udp, j)
      BY <2>2 DEF Requests
    <3> QED
      BY <2>1, <3>1, OnceLess
  <2>4. ASSUME NEW j \in Node, j # n
        PROVE  Once(Boxes(td, nt), nt.udp, j) /\ (Sought(Boxes(td, nt), nt.udp, j) => Applicant(td, nt, j))
    <3>1. ~JoinOf(d.pdu, j)
      BY <1>6, <1>7, <2>4 DEF JoinOf
    <3>2. Sought(Boxes(td, nt), nt.udp, j) => Sought(Boxes(node, net), net.udp, j)
      BY <1>9, <2>3, <3>1 DEF Sought
    <3>3. Once(Boxes(td, nt), nt.udp, j)
      <4>1. Once(Boxes(td, nt), net.udp, j)
        BY <2>3
      <4> QED
        BY ONLY <1>9, <3>1, <4>1 DEF Once
    <3> QED
      BY <1>17, <2>2, <3>2, <3>3 DEF Requests
  <2>5. ~Sought(Boxes(node, net), net.udp, n)
    BY <1>2, <2>2, NotSought DEF Applicant
  <2>6. ~Sought(Boxes(td, nt), net.udp, n)
    BY <2>3, <2>5
  <2>7. Once(Boxes(td, nt), nt.udp, n)
    <3>1. Once(Boxes(td, nt), net.udp, n)
      BY <2>3
    <3> QED
      BY ONLY <1>9, <2>6, <3>1 DEF Once, Sought
  <2>8. Applicant(td, nt, n)
    <3>1. Ends(node, net, n)
      BY <1>1 DEF Good, Wires
    <3> QED
      BY <1>2, <1>9, <1>13, <1>15, <1>17, <3>1 DEF Applicant, Asked, Ends, Expected, Waits
  <2> QED
    BY <2>4, <2>7, <2>8 DEF Requests
<1>19. Mail(td, nt.udp)
  <2>1. Requested(td[n].queue["UDP"])
    BY <1>15, <1>17 DEF Requested, NoQueue, Token
  <2>2. Mail(node, net.udp)
    BY <1>1 DEF Good
  <2>3. NoMail(net.udp, n)
    BY <1>2, <2>2, InsideNoMail
  <2>4. net.udp \in SUBSET net.udp
    OBVIOUS
  <2>5. Mail(td, net.udp)
    BY ONLY <1>2, <1>17, <2>1, <2>2, <2>3, <2>4, n \in Node, MailKept
  <2>6. Letter(td, d) /\ ~Reply(d) /\ d.dst # Tracker
    BY <1>1, <1>4, <1>6, <1>7, <1>17 DEF Letter, Reply, Peers
  <2> QED
    BY <1>1, <1>9, <2>5, <2>6, MailAdd
<1>20. Table(td, nt.udp, nodes)
  <2>1. Table(node, net.udp, nodes)
    BY <1>1 DEF Good
  <2>2. \A e \in nt.udp : NodeReply(e) => e \in net.udp
    BY <1>6, <1>7, <1>9 DEF NodeReply
  <2>3. td[n].state # "Q4" /\ td[n].at # "run" /\ td[n].process = node[n].process
    BY <1>2, <1>13, <1>15, <1>17
  <2> QED
    BY <1>2, <1>17, <2>1, <2>2, <2>3, TableKept
<1>21. JoinInv' /\ node'[n] = s /\ (\A j \in Node : j # n => node'[j] = node[j]) /\ net' = nt
  BY <1>1, <1>2, <1>9, <1>10, <1>13, <1>14, <1>15, <1>16, <1>18, <1>19, <1>20, OuterBecome, ZenonT(60)
<1>22. d \in net'.udp /\ JoinOf(d.pdu, n) /\ d.pdu.max = NULL
  BY <1>6, <1>7, <1>9, <1>21 DEF JoinOf
<1> QED
  BY <1>15, <1>21, <1>22 DEF Advances

(* q7 sends NET_JOIN and accepts the connection of the predecessor (node.rs:347). *)
LEMMA q7Good ==
  ASSUME NodeInv, NodeInv', JoinInv, nodes \in SUBSET Node, nodes' = nodes, NEW n \in Node, q7(n)
  PROVE  JoinInv' /\ Advances(n)
<1>1. CASE At(n, "Q7", "run")
  BY <1>1, q7askGood
<1>2. CASE accept_predecessor(n, "Q7", "Q8")
  <2>1. PICK x, y : x = "Q7" /\ y = "Q8"
    OBVIOUS
  <2>2. <<x, y>> \in {<<"Q5", "Q6">>, <<"Q17", "Q6">>, <<"Q7", "Q8">>} /\ accept_predecessor(n, x, y)
    BY <1>2, <2>1
  <2> QED
    BY <2>1, <2>2, AcceptGood
<1> QED
  BY <1>1, <1>2 DEF q7

(* The first node takes the whole range: nobody else is running. *)
LEMMA q4Good ==
  ASSUME NodeInv, NodeInv', JoinInv, nodes \in SUBSET Node, nodes' = nodes, NEW n \in Node, q4(n)
  PROVE  JoinInv' /\ Advances(n)
<1>1. /\ Seat(node[n]) /\ node[n] \in Memory /\ NetSound(net) /\ Good(node, net, nodes)
      /\ node \in [Node -> Memory] /\ World(node, net) /\ World(node', net') /\ Wires(node, net) /\ net.rst = {}
  BY Seated, InvWorldNext DEF JoinInv, NodeInv, Good
<1>2. /\ ~Inside(node[n]) /\ ~Asked(node[n]) /\ ~Told(node[n]) /\ node[n].process = "running"
      /\ node[n].state = "Q4"
  BY DEF q4, At, Inside, Inner, Asked, Told, Running
<1>3. ASSUME NEW k \in Node, k # n
      PROVE  node[k].state = "Q1"
  <2>1. nodes = {}
    BY <1>1, <1>2 DEF Good, Table
  <2>2. node[k].process # "running"
    BY <1>1, <1>2, <1>3, <2>1 DEF Good, Table
  <2>3. Seat(node[k])
    BY Seated
  <2> QED
    BY <2>2, <2>3 DEF Seat, Places
<1>4. \A k \in Node : /\ ~Inside(node[k]) /\ ~Waits(node, net, k)
                      /\ node[k].successor = NULL /\ node[k].predecessor = NULL
  <2>1. \A k \in Node : Seat(node[k]) /\ node[k].state \in {"Q1", "Q4"}
    BY <1>2, <1>3, Seated
  <2> QED
    BY <2>1 DEF Inside, Inner, Waits, Told, Asked, Seat, Neighbours
<1>5. ASSUME NEW c \in Conn
      PROVE  ~Holds(node, net, c) /\ Pipe(node, net, c) = <<>> /\ net.bwd[c] = <<>>
  <2>1. Line(node, net, c) /\ c.from \in Node
    BY <1>1, ConnFields DEF Wires
  <2> QED
    BY <1>4, <2>1 DEF Line
<1>6. \A k \in Node : net.backlog[k] = <<>>
  <2>1. \A k \in Node : Ends(node, net, k)
    BY <1>1 DEF Wires
  <2> QED
    BY <1>4, <2>1 DEF Ends, Expected
<1>7. PICK m \in Memory : m = node[n]
  BY <1>1
<1>8. PICK s : s = [Goto(m, "Q6") EXCEPT !.start = 0, !.end = HASH_SIZE - 1]
  OBVIOUS
<1>9. PICK top \in Byte : top = HASH_SIZE - 1
  BY ByteFacts
<1>10. /\ s \in Memory /\ s.state = "Q6" /\ s.at = "run" /\ s.start = 0 /\ s.end = top /\ s.process = m.process
       /\ s.successor = m.successor /\ s.predecessor = m.predecessor /\ s.queue = m.queue
       /\ (s.should_close <=> m.should_close) /\ (s.alive_due <=> m.alive_due)
  <2>1. s = [Goto(m, "Q6") EXCEPT !.start = 0, !.end = top]
    BY <1>8, <1>9
  <2> QED
    BY ONLY <2>1, m \in Memory, top \in Byte, ByteFacts DEF Memory, State, Goto
<1>11. Settle(s) = s
  BY <1>10 DEF Settle
<1>12. Become(n, s, net)
  BY <1>7, <1>8 DEF q4
<1>13. net' = net /\ node'[n] = s /\ Peers(node, node', n) /\ node' = [node EXCEPT ![n] = s]
  <2>1. net' = net /\ node'[n] = s /\ Peers(node, node', n)
    BY <1>1, <1>11, <1>12, BecomeIs
  <2> QED
    BY <1>11, <1>12, <2>1 DEF Become
<1>14. /\ Inside(s) /\ ~Asked(s) /\ ~Told(s) /\ ~Closing(s) /\ ~Live(s) /\ Whole(s)
       /\ s.successor = NULL /\ s.predecessor = NULL /\ s.queue = NoQueue /\ ~s.should_close
  BY <1>1, <1>2, <1>4, <1>7, <1>9, <1>10 DEF Inside, Inner, Asked, Told, Closing, Live, Whole, Seat, Queued, Places
<1>15. /\ \A k \in Node : /\ node'[k].predecessor = NULL /\ node'[k].successor = NULL
                          /\ ~Waits(node', net', k) /\ (Inside(node'[k]) <=> k = n) /\ ~Closing(node'[k])
       /\ \A c \in Conn : ~Holds(node', net', c) /\ Pipe(node', net', c) = <<>>
  <2>1. \A k \in Node : node'[k].predecessor = NULL /\ node'[k].successor = NULL /\ (Inside(node'[k]) <=> k = n)
    BY <1>4, <1>13, <1>14 DEF Peers
  <2>2. \A k \in Node : ~Waits(node', net', k)
    BY <1>4, <1>13, <1>14 DEF Peers, Waits
  <2>3. \A k \in Node : ~Closing(node'[k])
    BY <1>4, <1>13, <1>14 DEF Peers, Closing, Inside, Inner
  <2>4. ASSUME NEW c \in Conn
        PROVE  ~Holds(node', net', c) /\ Pipe(node', net', c) = <<>>
    <3>1. c.to \in Node /\ c # NULL
      BY ConnFields, NullFacts
    <3> QED
      BY <1>4, <1>5, <1>13, <2>1, <3>1 DEF Holds, Pipe
  <2> QED
    BY <2>1, <2>2, <2>3, <2>4
<1>16. Wires(node', net')
  <2>1. ASSUME NEW k \in Node
        PROVE  /\ Seat(node'[k]) /\ Ends(node', net', k) /\ Link(node', net', node'[k])
               /\ Alone(node', net', k) /\ Welcome(node', net', k) /\ Dropping(node', net', node'[k])
    <3>1. Seat(node'[k])
      <4>1. CASE k = n
        <5>1. Places(s)
          BY <1>2, <1>7, <1>10, <1>14 DEF Places, Inner
        <5>2. Neighbours(s)
          <6>1. s.start <= s.end
            BY <1>9, <1>10, HashSizeAssumption
          <6> QED
            BY <1>10, <1>14, <6>1 DEF Neighbours
        <5>3. Queued(s)
          BY <1>14 DEF Queued, NoQueue, Token
        <5> QED
          BY <1>13, <4>1, <5>1, <5>2, <5>3 DEF Seat
      <4>2. CASE k # n
        BY <1>13, <4>2, Seated DEF Peers
      <4> QED
        BY <4>1, <4>2
    <3>2. Ends(node', net', k)
      BY <1>6, <1>13, <1>15 DEF Ends, Range
    <3>3. Link(node', net', node'[k]) /\ Alone(node', net', k)
      BY <1>15 DEF Link, Alone
    <3>4. Welcome(node', net', k) /\ Dropping(node', net', node'[k])
      BY <1>15 DEF Welcome, Dropping
    <3> QED
      BY <3>1, <3>2, <3>3, <3>4
  <2>2. ASSUME NEW c \in Conn
        PROVE  Line(node', net', c)
    <3>1. Pipe(node', net', c) = <<>> /\ DOMAIN Pipe(node', net', c) = {} /\ ~Holds(node', net', c)
      BY <1>15
    <3>2. net'.bwd[c] = <<>>
      BY <1>5, <1>13
    <3> QED
      BY <3>1, <3>2 DEF Line
  <2> QED
    BY <1>1, <1>13, <2>1, <2>2 DEF Wires
<1>17. Requests(node', net')
  <2>1. s \in Memory /\ s.state \in {"Q1", "Q2", "Q3", "Q4", "Q6", "Q7"}
    BY <1>10
  <2>2. PICK td : td = node'
    OBVIOUS
  <2>3. td = [node EXCEPT ![n] = s]
    BY <1>13, <2>2
  <2>4. Requests(td, net)
    BY ONLY <1>2, <1>14, <2>1, <2>3, NodeInv, JoinInv, n \in Node, OuterRequests
  <2> QED
    BY <1>13, <2>2, <2>4
<1>18. Mail(node', net'.udp) /\ Table(node', net'.udp, nodes)
  <2>1. Mail(node, net.udp) /\ Table(node, net.udp, nodes)
    BY <1>1 DEF Good
  <2>2. NoMail(net.udp, n)
    BY <1>2, <2>1, InsideNoMail
  <2>3. Requested(node'[n].queue["UDP"])
    BY <1>13, <1>14 DEF Requested, NoQueue, Token
  <2>4. net.udp \in SUBSET net.udp
    OBVIOUS
  <2>5. Mail(node', net'.udp)
    BY <1>2, <1>13, <2>1, <2>2, <2>3, <2>4, MailKept
  <2>6. Table(node', net'.udp, nodes)
    BY <1>2, <1>7, <1>10, <1>13, <2>1, TableKept
  <2> QED
    BY <2>5, <2>6
<1>19. Shares(node', net')
  <2>1. ASSUME NEW h \in Byte PROVE Owns(node', h, n)
    BY <1>9, <1>10, <1>13, <1>14, ByteFacts DEF Owns, InRange, Byte
  <2> QED
    BY <1>15, <2>1 DEF Shares, OneHolder, Owns, Brings
<1>20. Good(node', net', nodes)
  BY <1>16, <1>17, <1>18, <1>19 DEF Good
<1>21. Advances(n)
  BY <1>10, <1>13, <1>14 DEF Advances, Peers
<1> QED
  BY <1>20, <1>21, GoodNext

(***************************************************************************)
(* A node connects to its new successor, at the end of q5, q8 and q13.     *)
(***************************************************************************)

(* The connection waits in the backlog of its acceptor, behind those that
   came before. *)
Dialed(sd, nt, td, mt, n, c) ==
  /\ Peers(sd, td, n) /\ td[n].predecessor = sd[n].predecessor /\ c.from = n
  /\ mt.backlog = [nt.backlog EXCEPT ![c.to] = Append(@, c)]

Behind(sd, nt, td, mt, c) ==
  /\ \A d \in Conn : Holds(td, mt, d) <=> Holds(sd, nt, d) \/ d = c
  /\ \A k \in Node : k # c.to => mt.backlog[k] = nt.backlog[k]
  /\ \A k \in Node : Range(mt.backlog[k]) \subseteq Range(nt.backlog[k]) \cup {c}
  /\ mt.backlog[c.to] # <<>>
  /\ Head(mt.backlog[c.to]) = IF nt.backlog[c.to] = <<>> THEN c ELSE Head(nt.backlog[c.to])

(* The connection waits behind what the node it goes to has accepted or not. *)
LEMMA DialHolds ==
  ASSUME NEW sd, NEW nt, World(sd, nt), NEW td, NEW mt, NEW n \in Node, NEW c \in Conn, Dialed(sd, nt, td, mt, n, c)
  PROVE  Behind(sd, nt, td, mt, c)
<1>1. nt.backlog \in [Node -> Seq(Conn)] /\ c.to \in Node
  BY ConnFields DEF World, Kernel
<1>2. PICK b \in Seq(Conn) : b = nt.backlog[c.to]
  BY <1>1
<1>3. mt.backlog[c.to] = Append(b, c) /\ \A k \in Node : k # c.to => mt.backlog[k] = nt.backlog[k]
  BY <1>1, <1>2 DEF Dialed
<1>4. /\ Append(b, c) # <<>> /\ Head(Append(b, c)) = IF b = <<>> THEN c ELSE Head(b)
      /\ DOMAIN Append(b, c) = 1 .. Len(b) + 1 /\ DOMAIN b = 1 .. Len(b) /\ Len(b) \in Nat
      /\ \A i \in DOMAIN b : Append(b, c)[i] = b[i]
      /\ Append(b, c)[Len(b) + 1] = c
  <2>1. b = <<>> => Head(Append(b, c)) = c
    OBVIOUS
  <2>2. b # <<>> => Head(Append(b, c)) = Head(b)
    OBVIOUS
  <2>3. Append(b, c) # <<>>
    <3>1. Len(Append(b, c)) = Len(b) + 1 /\ Len(b) \in Nat
      OBVIOUS
    <3>2. Len(<<>>) = 0
      OBVIOUS
    <3> QED
      BY <3>1, <3>2
  <2> QED
    BY <2>1, <2>2, <2>3
<1>5. Range(Append(b, c)) = Range(b) \cup {c}
  BY <1>4 DEF Range
<1>6. ASSUME NEW d \in Conn PROVE Holds(td, mt, d) <=> Holds(sd, nt, d) \/ d = c
  <2>1. d.to \in Node
    BY ConnFields
  <2>2. td[d.to].predecessor = sd[d.to].predecessor
    BY <2>1 DEF Dialed, Peers
  <2>3. CASE d.to = c.to
    <3>1. Range(mt.backlog[d.to]) = Range(b) \cup {c} /\ Range(nt.backlog[d.to]) = Range(b)
      BY <1>2, <1>3, <1>5, <2>3
    <3> QED
      BY <2>2, <3>1 DEF Holds
  <2>4. CASE d.to # c.to
    BY <1>3, <2>1, <2>2, <2>4 DEF Holds
  <2> QED
    BY <2>3, <2>4
<1>7. \A k \in Node : Range(mt.backlog[k]) \subseteq Range(nt.backlog[k]) \cup {c}
  BY <1>2, <1>3, <1>5
<1> QED
  BY <1>2, <1>3, <1>4, <1>6, <1>7 DEF Behind

(* A node connects to its new successor, and the ring is in order. *)
LEMMA DialWires ==
  ASSUME NEW sd, NEW nt, World(sd, nt), Wires(sd, nt), NEW td, NEW mt, World(td, mt),
         NEW n \in Node, NEW c \in Conn, Dialed(sd, nt, td, mt, n, c), ~Holds(sd, nt, c),
         td[n].successor = c, td[n].successor_listen = c.to,
         Seat(td[n]), Inside(td[n]), ~Closing(td[n]), mt.bwd = nt.bwd, mt.rst = {},
         \A k, e : Follows(sd, nt, k, e) => Follows(td, mt, k, e),
         \A k \in Node : Expected(sd, nt, k) => Expected(td, mt, k),
         Follows(td, mt, c.to, td[n].end),
         \A k \in Node : Welcome(td, mt, k),
         \A k \in Node : Inside(sd[k]) /\ k # n => sd[k].successor # NULL,
         \A d \in Conn : Orderly(td, mt, d, Pipe(td, mt, d)) /\ (Pipe(td, mt, d) # <<>> => Holds(td, mt, d)),
         \A d \in Conn : d.to = n \/ Dials(sd, d) \/ d = c \/ Pipe(td, mt, d) = Pipe(sd, nt, d)
  PROVE  Wires(td, mt)
<1>1. /\ Peers(sd, td, n) /\ td[n].predecessor = sd[n].predecessor /\ c.from = n /\ c # NULL /\ c.to \in Node
      /\ n \in Node
  BY ConnFields, NullFacts DEF Dialed
<1>2. /\ \A d \in Conn : Holds(td, mt, d) <=> Holds(sd, nt, d) \/ d = c
      /\ \A k \in Node : k # c.to => mt.backlog[k] = nt.backlog[k]
      /\ \A k \in Node : Range(mt.backlog[k]) \subseteq Range(nt.backlog[k]) \cup {c}
  <2>1. Behind(sd, nt, td, mt, c)
    BY DialHolds
  <2> QED
    BY <2>1 DEF Behind
<1>3. ASSUME NEW d \in Conn, Dials(td, d) PROVE Dials(sd, d) \/ d = c
  <2>1. d.from \in Node
    BY ConnFields
  <2>2. CASE d.from = n
    BY <1>3, <2>2 DEF Dials
  <2>3. CASE d.from # n
    BY <1>1, <1>3, <2>1, <2>3 DEF Dials, Peers
  <2> QED
    BY <2>2, <2>3
<1>4. ASSUME NEW k \in Node
      PROVE  /\ Seat(td[k]) /\ Ends(td, mt, k) /\ Link(td, mt, td[k]) /\ Alone(td, mt, k)
             /\ Welcome(td, mt, k) /\ Dropping(td, mt, td[k])
  <2>1. /\ Seat(sd[k]) /\ Ends(sd, nt, k) /\ Link(sd, nt, sd[k]) /\ Alone(sd, nt, k) /\ Dropping(sd, nt, sd[k])
    BY DEF Wires
  <2>2. k # n => td[k] = sd[k]
    BY <1>1 DEF Peers
  <2>3. Seat(td[k])
    BY <2>1, <2>2
  <2>4. Ends(td, mt, k)
    <3>1. td[k].predecessor = sd[k].predecessor /\ (td[k].successor = sd[k].successor \/ (k = n /\ td[k].successor = c))
      BY <1>1, <2>2
    <3>2. \A d \in Range(mt.backlog[k]) : d.to = k
      <4>1. k = c.to \/ mt.backlog[k] = nt.backlog[k]
        BY <1>2
      <4> QED
        BY <1>2, <2>1, <4>1 DEF Ends
    <3>3. mt.backlog[k] # <<>> => Expected(td, mt, k)
      <4>1. CASE k = c.to
        BY <4>1 DEF Follows
      <4>2. CASE k # c.to
        BY <1>2, <2>1, <4>2 DEF Ends
      <4> QED
        BY <4>1, <4>2
    <3> QED
      BY <1>1, <2>1, <3>1, <3>2, <3>3 DEF Ends
  <2>5. Link(td, mt, td[k])
    <3>1. CASE k = n
      BY <1>2, <3>1 DEF Link
    <3>2. CASE k # n /\ sd[k].successor # NULL
      <4>1. sd[k].successor \in Conn
        BY <3>2, WorldFacts
      <4> QED
        BY <1>2, <2>1, <2>2, <3>2, <4>1 DEF Link
    <3>3. CASE k # n /\ sd[k].successor = NULL
      BY <2>2, <3>3 DEF Link
    <3> QED
      BY <3>1, <3>2, <3>3
  <2>6. Alone(td, mt, k)
    BY <1>1, <2>2 DEF Alone
  <2>7. Dropping(td, mt, td[k])
    <3>1. ASSUME Closing(td[k]), k # n
          PROVE  Pipe(td, mt, td[k].predecessor) = <<>> /\ ~Dials(td, td[k].predecessor)
      <4>1. Closing(sd[k]) /\ sd[k].predecessor # NULL
        BY <2>1, <2>2, <3>1 DEF Seat, Neighbours, Closing, Inside, Inner
      <4>2. PICK d \in Conn : d = sd[k].predecessor /\ d.to = k
        BY <2>1, <4>1, WorldFacts DEF Ends
      <4>3. Pipe(sd, nt, d) = <<>> /\ ~Dials(sd, d) /\ Holds(sd, nt, d)
        BY <2>1, <4>1, <4>2 DEF Dropping, Holds
      <4>4. d # c
        BY <4>3
      <4>5. ~Dials(td, d)
        BY <1>3, <4>3, <4>4
      <4>6. Pipe(td, mt, d) = <<>>
        BY <3>1, <4>2, <4>3, <4>4
      <4> QED
        BY <2>2, <3>1, <4>2, <4>5, <4>6
    <3> QED
      BY <3>1 DEF Dropping
  <2> QED
    BY <2>3, <2>4, <2>5, <2>6, <2>7
<1>5. ASSUME NEW d \in Conn
      PROVE  Line(td, mt, d)
  <2>1. Line(sd, nt, d) /\ d.from \in Node
    BY ConnFields DEF Wires
  <2>2. mt.bwd[d] = <<>>
    BY <2>1 DEF Line
  <2>3. Holds(td, mt, d) => Inside(td[d.from])
    <3>1. CASE d.from = n
      BY <3>1
    <3>2. CASE d.from # n
      BY <1>1, <1>2, <2>1, <3>2 DEF Line, Peers
    <3> QED
      BY <3>1, <3>2
  <2> QED
    BY <2>2, <2>3, LineOrderly
<1> QED
  BY <1>4, <1>5 DEF Wires

(* A node that waits for its range reads NET_JOIN_RESPONSE first, and maybe
   some of what came behind it. *)
ReadFirst(m, nt, p, a) ==
  \E g, rest \in Seq(PDU) :
     /\ g # <<>> /\ g \o rest = nt.fwd[p]
     /\ a.memory = [m EXCEPT !.queue = [NoQueue EXCEPT !["PREDECESSOR"] = Tail(g)]]
     /\ a.kernel = [nt EXCEPT !.fwd = [nt.fwd EXCEPT ![p] = rest]]

(* What await_pdu returns to a node in q8 is the first that was sent to it (node.rs:809). *)
LEMMA ReadResponse ==
  ASSUME NodeInv, JoinInv, NEW n \in Node, Told(node[n]), NEW p \in Conn, p = node[n].predecessor,
         NEW a \in await_pdu(n, "PREDECESSOR")
  PROVE  a.pdu = Head(net.fwd[p]) /\ NetSound(a.kernel) /\ ReadFirst(node[n], net, p, a)
<1>1. /\ Seat(node[n]) /\ node[n] \in Memory /\ NetSound(net) /\ net.rst = {} /\ ~Inside(node[n])
      /\ net.fwd[p] \in Seq(PDU) /\ p # NULL
  BY Seated, WorldFacts, NullFacts, Apart
<1>2. PICK m \in Memory : m = node[n] /\ m.queue = NoQueue /\ m.predecessor = p
  BY <1>1 DEF Seat, Queued
<1>3. PICK f \in Seq(PDU) : f = net.fwd[p]
  BY <1>1
<1>4. Socket(n, "PREDECESSOR") = p /\ Stream(n, "PREDECESSOR") = f
  BY <1>2, <1>3 DEF Socket, Stream
<1>5. PICK r \in try_read(n, "PREDECESSOR") :
         /\ Filled(n, "PREDECESSOR", r).queue["PREDECESSOR"] # <<>>
         /\ a = [pdu |-> Head(Filled(n, "PREDECESSOR", r).queue["PREDECESSOR"]),
                 memory |-> Popped(Filled(n, "PREDECESSOR", r), "PREDECESSOR"),
                 kernel |-> Drained(n, "PREDECESSOR", r)]
  <2>1. Fails(net, Socket(n, "PREDECESSOR")) = {FALSE}
    BY <1>1 DEF Fails
  <2> QED
    BY <2>1 DEF await_pdu
<1>6. r.count \in 0 .. Len(f)
  BY <1>4 DEF try_read
<1>7. PICK g, rest \in Seq(PDU) : /\ g = SubSeq(f, 1, r.count) /\ rest = SubSeq(f, r.count + 1, Len(f))
                                  /\ g \o rest = f
  <2>1. <<>> \in Seq(PDU)
    OBVIOUS
  <2>2. /\ SubSeq(f, 1, r.count) \in Seq(PDU) /\ SubSeq(f, r.count + 1, Len(f)) \in Seq(PDU)
        /\ (<<>> \o SubSeq(f, 1, r.count)) \o SubSeq(f, r.count + 1, Len(f)) = <<>> \o f
    BY <1>6, <2>1, SplitStream
  <2>3. <<>> \o SubSeq(f, 1, r.count) = SubSeq(f, 1, r.count) /\ <<>> \o f = f
    BY <2>2
  <2> QED
    BY <2>2, <2>3
<1>8. "PREDECESSOR" \in Token /\ NoQueue = [t \in Token |-> <<>>] /\ <<>> \o g = g
  BY DEF NoQueue, Token
<1>9. PICK s : s = Filled(n, "PREDECESSOR", r)
  OBVIOUS
<1>10. PICK h : h = [NoQueue EXCEPT !["PREDECESSOR"] = g]
  OBVIOUS
<1>11. s = [m EXCEPT !.queue = h]
  <2>1. s = [m EXCEPT !.queue["PREDECESSOR"] = @ \o g]
    BY <1>2, <1>4, <1>7, <1>9 DEF Filled
  <2>2. s = [m EXCEPT !.queue = [m.queue EXCEPT !["PREDECESSOR"] = m.queue["PREDECESSOR"] \o g]]
    BY ONLY <2>1, m \in Memory DEF Memory
  <2>3. [m.queue EXCEPT !["PREDECESSOR"] = m.queue["PREDECESSOR"] \o g] = h
    BY <1>2, <1>8, <1>10
  <2> QED
    BY ONLY <2>2, <2>3
<1>12. s.queue = h /\ s.queue["PREDECESSOR"] = g
  BY <1>8, <1>10, <1>11 DEF Memory
<1>13. g # <<>> /\ Head(g) = Head(f)
  <2>1. g # <<>>
    BY <1>5, <1>9, <1>12
  <2> QED
    BY ONLY <1>7, <2>1, TailConcat
<1>14. PICK e : e = [h EXCEPT !["PREDECESSOR"] = Tail(g)]
  OBVIOUS
<1>15. Popped(s, "PREDECESSOR") = [m EXCEPT !.queue = e]
  <2>1. [s EXCEPT !.queue["PREDECESSOR"] = Tail(@)] = [s EXCEPT !.queue = [s.queue EXCEPT !["PREDECESSOR"] = Tail(s.queue["PREDECESSOR"])]]
    BY <1>11 DEF Memory
  <2>2. [s.queue EXCEPT !["PREDECESSOR"] = Tail(s.queue["PREDECESSOR"])] = e
    BY <1>12, <1>14
  <2>3. [s EXCEPT !.queue = e] = [m EXCEPT !.queue = e]
    BY ONLY <1>11, m \in Memory DEF Memory
  <2> QED
    BY ONLY <2>1, <2>2, <2>3 DEF Popped
<1>16. e = [NoQueue EXCEPT !["PREDECESSOR"] = Tail(g)]
  BY <1>8, <1>10, <1>14
<1>17. Drained(n, "PREDECESSOR", r) = [net EXCEPT !.fwd = [net.fwd EXCEPT ![p] = rest]]
  BY <1>4, <1>7 DEF Drained
<1>18. a.pdu = Head(net.fwd[p]) /\ a.memory = [node[n] EXCEPT !.queue = [NoQueue EXCEPT !["PREDECESSOR"] = Tail(g)]]
       /\ a.kernel = [net EXCEPT !.fwd = [net.fwd EXCEPT ![p] = rest]]
  <2>1. a.pdu = Head(s.queue["PREDECESSOR"]) /\ a.memory = Popped(s, "PREDECESSOR")
        /\ a.kernel = Drained(n, "PREDECESSOR", r)
    BY <1>5, <1>9
  <2> QED
    BY <1>2, <1>3, <1>12, <1>13, <1>15, <1>16, <1>17, <2>1
<1>19. NetSound(a.kernel)
  BY <1>1, AwaitType DEF Connected
<1> QED
  <2>1. ReadFirst(node[n], net, p, a)
    BY <1>3, <1>7, <1>13, <1>18 DEF ReadFirst
  <2> QED
    BY <1>18, <1>19, <2>1

(* Its predecessor is an inside node, and the range it is given ends where
   that of the node it is told to connect to begins. *)
LEMMA ToldFacts ==
  ASSUME NEW sd, NEW nt, World(sd, nt), Wires(sd, nt), NEW n \in Node, Told(sd[n]), NEW p, p = sd[n].predecessor,
         NEW f, f = Pipe(sd, nt, p), NEW r, r = Head(f)
  PROVE  /\ p \in Conn /\ p.to = n /\ Holds(sd, nt, p) /\ Inside(sd[p.from]) /\ First(sd, nt, n) = p /\ Waits(sd, nt, n)
         /\ f \in Seq(PDU) /\ f # <<>> /\ r \in PDU /\ r.type = "NET_JOIN_RESPONSE"
         /\ r.range_start > 0 /\ r.range_start <= r.range_end /\ Follows(sd, nt, r.next, r.range_end)
         /\ ~Inside(sd[n]) /\ ~Asked(sd[n]) /\ Orderly(sd, nt, p, f)
         /\ \A k \in Node : Inside(sd[k]) => sd[k].successor # NULL
<1>1. Waits(sd, nt, n) /\ First(sd, nt, n) = p /\ ~Inside(sd[n]) /\ ~Asked(sd[n])
  BY Apart DEF Waits, First
<1>2. p \in Conn /\ p.to = n /\ Holds(sd, nt, p) /\ f # <<>> /\ r.type = "NET_JOIN_RESPONSE"
  BY <1>1, WaitsFacts
<1>3. f \in Seq(PDU)
  BY <1>2, WorldFacts
<1>4. r \in PDU /\ 1 \in DOMAIN f /\ f[1] = r
  BY <1>2, <1>3
<1>5. Line(sd, nt, p) /\ Orderly(sd, nt, p, f)
  BY <1>2, LineOrderly DEF Wires
<1>6. r.range_start > 0 /\ r.range_start <= r.range_end /\ Follows(sd, nt, r.next, r.range_end)
  BY <1>2, <1>4, <1>5 DEF Orderly
<1>7. Inside(sd[p.from])
  BY <1>2, <1>5 DEF Line
<1>8. ASSUME NEW k \in Node, Inside(sd[k]) PROVE sd[k].successor # NULL
  <2>1. Alone(sd, nt, k)
    BY DEF Wires
  <2> QED
    BY <1>2, <1>8, <2>1 DEF Alone
<1> QED
  BY <1>1, <1>2, <1>3, <1>4, <1>5, <1>6, <1>7, <1>8

(* What is changed when a node that was told its range takes it over. *)
Seats(sd, nt, td, mt, n, c, p) ==
  LET r == Head(Pipe(sd, nt, p))
  IN  /\ Dialed(sd, nt, td, mt, n, c) /\ ~Holds(sd, nt, c) /\ c.to = r.next
      /\ td[n].successor = c /\ td[n].successor_listen = c.to
      /\ td[n].start = r.range_start /\ td[n].end = r.range_end
      /\ td[n].state = "Q6" /\ td[n].at = "run" /\ Seat(td[n])
      /\ mt.bwd = nt.bwd /\ mt.rst = {} /\ mt.udp = nt.udp
      /\ Pipe(td, mt, p) = Tail(Pipe(sd, nt, p)) /\ \A d \in Conn : d # p => Pipe(td, mt, d) = Pipe(sd, nt, d)

(* Everybody else waits as before, and for the same. *)
LEMMA SeatsWaits ==
  ASSUME NEW sd, NEW nt, World(sd, nt), Wires(sd, nt), NEW td, NEW mt, World(td, mt),
         NEW n \in Node, NEW c \in Conn, Told(sd[n]), NEW p, p = sd[n].predecessor, Seats(sd, nt, td, mt, n, c, p)
  PROVE  /\ Inside(td[n]) /\ ~Told(td[n]) /\ ~Asked(td[n])
         /\ \A k \in Node : k # n => /\ Waits(td, mt, k) <=> Waits(sd, nt, k)
                                     /\ Waits(sd, nt, k) => First(td, mt, k) = First(sd, nt, k) /\ First(sd, nt, k) # p
         /\ \A k \in Node : Expected(sd, nt, k) => Expected(td, mt, k)
         /\ \A k, e : Follows(sd, nt, k, e) => Follows(td, mt, k, e)
         /\ \A k \in Node : Applicant(sd, nt, k) => Applicant(td, mt, k)
<1>1. Behind(sd, nt, td, mt, c) /\ Peers(sd, td, n)
  BY DialHolds DEF Seats, Dialed
<1>2. PICK f : f = Pipe(sd, nt, p)
  OBVIOUS
<1>3. PICK r : r = Head(f)
  OBVIOUS
<1>4. /\ p \in Conn /\ p.to = n /\ First(sd, nt, n) = p /\ Follows(sd, nt, r.next, r.range_end)
      /\ ~Inside(sd[n]) /\ ~Asked(sd[n])
  BY <1>2, <1>3, ToldFacts
<1>5. c.to = r.next /\ Expected(sd, nt, c.to)
  BY <1>2, <1>3, <1>4 DEF Seats, Follows
<1>6. Inside(td[n]) /\ ~Told(td[n]) /\ ~Asked(td[n])
  BY DEF Seats, Inside, Inner, Told, Asked
<1>7. ASSUME NEW k \in Node, k # n
      PROVE  /\ Waits(td, mt, k) <=> Waits(sd, nt, k)
             /\ Waits(sd, nt, k) => First(td, mt, k) = First(sd, nt, k) /\ First(sd, nt, k) # p
             /\ Applicant(sd, nt, k) => Applicant(td, mt, k)
  <2>1. td[k] = sd[k]
    BY <1>1, <1>7 DEF Peers
  <2>2. ASSUME Waits(sd, nt, k) PROVE First(sd, nt, k) # p
    BY <1>4, <1>7, <2>2, WaitsFacts
  <2>3. CASE k # c.to
    <3>1. mt.backlog[k] = nt.backlog[k]
      BY <1>1, <2>3 DEF Behind
    <3> QED
      BY <2>1, <2>2, <3>1 DEF Waits, First, Applicant
  <2>4. CASE k = c.to
    <3>1. Asked(sd[k]) => nt.backlog[k] # <<>>
      BY <1>5, <2>4, Apart DEF Expected, Waits
    <3>2. mt.backlog[k] # <<>> /\ (nt.backlog[k] # <<>> => Head(mt.backlog[k]) = Head(nt.backlog[k]))
      BY <1>1, <2>4 DEF Behind
    <3> QED
      BY <2>1, <2>2, <3>1, <3>2 DEF Waits, First, Applicant
  <2> QED
    BY <2>3, <2>4
<1>8. ASSUME NEW k \in Node, Expected(sd, nt, k)
      PROVE  Expected(td, mt, k) /\ StartOf(td, mt, k) = StartOf(sd, nt, k)
  <2>1. CASE k = n
    <3>1. StartOf(sd, nt, n) = r.range_start
      BY <1>2, <1>3, <1>4 DEF StartOf
    <3>2. StartOf(td, mt, n) = r.range_start
      BY <1>2, <1>3, <1>6 DEF StartOf, Seats
    <3> QED
      BY <1>6, <2>1, <3>1, <3>2 DEF Expected
  <2>2. CASE k # n /\ Inside(sd[k])
    BY <1>1, <2>2 DEF Peers, Expected, StartOf
  <2>3. CASE k # n /\ ~Inside(sd[k])
    <3>1. Waits(sd, nt, k) /\ ~Inside(td[k])
      BY <1>1, <1>8, <2>3 DEF Expected, Peers
    <3>2. First(sd, nt, k) \in Conn
      BY <3>1, WaitsFacts
    <3>3. Pipe(td, mt, First(sd, nt, k)) = Pipe(sd, nt, First(sd, nt, k))
      BY <1>7, <2>3, <3>1, <3>2 DEF Seats
    <3> QED
      BY <1>7, <2>3, <3>1, <3>3 DEF Expected, StartOf
  <2> QED
    BY <2>1, <2>2, <2>3
<1>9. ASSUME NEW k, NEW e, Follows(sd, nt, k, e) PROVE Follows(td, mt, k, e)
  BY <1>8, <1>9 DEF Follows
<1>10. ASSUME NEW k \in Node, Applicant(sd, nt, k) PROVE Applicant(td, mt, k)
  BY <1>4, <1>7, <1>10 DEF Applicant
<1> QED
  BY <1>6, <1>7, <1>8, <1>9, <1>10

(* The rest of what is on its connection is requests. *)
LEMMA SeatsWires ==
  ASSUME NEW sd, NEW nt, World(sd, nt), Wires(sd, nt), NEW td, NEW mt, World(td, mt),
         NEW n \in Node, NEW c \in Conn, Told(sd[n]), NEW p, p = sd[n].predecessor, Seats(sd, nt, td, mt, n, c, p)
  PROVE  Wires(td, mt)
<1>1. Behind(sd, nt, td, mt, c) /\ Dialed(sd, nt, td, mt, n, c) /\ Peers(sd, td, n) /\ ~Holds(sd, nt, c)
  BY DialHolds DEF Seats, Dialed
<1>2. PICK f : f = Pipe(sd, nt, p)
  OBVIOUS
<1>3. PICK r : r = Head(f)
  OBVIOUS
<1>4. /\ p \in Conn /\ p.to = n /\ Holds(sd, nt, p) /\ First(sd, nt, n) = p /\ f \in Seq(PDU) /\ f # <<>>
      /\ Follows(sd, nt, r.next, r.range_end) /\ Orderly(sd, nt, p, f)
      /\ \A k \in Node : Inside(sd[k]) => sd[k].successor # NULL
  BY <1>2, <1>3, ToldFacts
<1>5. /\ Inside(td[n]) /\ ~Told(td[n]) /\ ~Asked(td[n])
      /\ \A k \in Node : k # n => /\ Waits(td, mt, k) <=> Waits(sd, nt, k)
                                  /\ Waits(sd, nt, k) => First(td, mt, k) = First(sd, nt, k) /\ First(sd, nt, k) # p
      /\ \A k \in Node : Expected(sd, nt, k) => Expected(td, mt, k)
      /\ \A k, e : Follows(sd, nt, k, e) => Follows(td, mt, k, e)
  BY SeatsWaits
<1>6. Pipe(td, mt, p) = Tail(f) /\ \A d \in Conn : d # p => Pipe(td, mt, d) = Pipe(sd, nt, d)
  BY <1>2 DEF Seats
<1>7. Follows(td, mt, c.to, td[n].end)
  BY <1>2, <1>3, <1>4, <1>5 DEF Seats
<1>8. ASSUME NEW k \in Node PROVE Welcome(td, mt, k)
  <2>1. CASE k = n
    BY <1>5, <2>1, Apart DEF Welcome, Waits
  <2>2. CASE k # n
    <3>1. ASSUME Waits(td, mt, k)
          PROVE  Pipe(td, mt, First(td, mt, k)) # <<>> /\ Head(Pipe(td, mt, First(td, mt, k))).type = "NET_JOIN_RESPONSE"
      <4>1. Waits(sd, nt, k) /\ First(td, mt, k) = First(sd, nt, k) /\ First(sd, nt, k) # p
        BY <1>5, <2>2, <3>1
      <4>2. /\ First(sd, nt, k) \in Conn /\ Pipe(sd, nt, First(sd, nt, k)) # <<>>
            /\ Head(Pipe(sd, nt, First(sd, nt, k))).type = "NET_JOIN_RESPONSE"
        BY <4>1, WaitsFacts
      <4> QED
        BY <1>6, <4>1, <4>2
    <3> QED
      BY <3>1 DEF Welcome
  <2> QED
    BY <2>1, <2>2
<1>9. ASSUME NEW d \in Conn, Dials(td, d) PROVE Dials(sd, d) \/ d = c
  <2>1. d.from \in Node
    BY ConnFields
  <2>2. CASE d.from = n
    BY <1>9, <2>2 DEF Dials, Seats
  <2>3. CASE d.from # n
    BY <1>1, <1>9, <2>1, <2>3 DEF Dials, Peers
  <2> QED
    BY <2>2, <2>3
<1>10. ASSUME NEW d \in Conn
       PROVE  Line(sd, nt, d) /\ Orderly(sd, nt, d, Pipe(sd, nt, d)) /\ (Pipe(sd, nt, d) # <<>> => Holds(sd, nt, d) /\ d # c)
  BY <1>1, LineOrderly DEF Wires, Line
<1>11. ASSUME NEW d \in Conn
       PROVE  Orderly(td, mt, d, Pipe(td, mt, d)) /\ (Pipe(td, mt, d) # <<>> => Holds(td, mt, d))
  <2>1. CASE d = p
    <3>1. /\ Tail(f) \in Seq(PDU) /\ Len(Tail(f)) = Len(f) - 1 /\ Len(f) \in Nat
          /\ \A i \in DOMAIN Tail(f) : i \in Nat /\ i >= 1 /\ Tail(f)[i] = f[i + 1] /\ i + 1 \in DOMAIN f
      BY <1>4
    <3>2. p # c
      BY <1>2, <1>4, <1>10
    <3>3. \A i \in DOMAIN Tail(f) : Tail(f)[i].type \in Traffic /\ Tail(f)[i].type # "NET_JOIN_RESPONSE"
      BY <1>4, <3>1 DEF Orderly
    <3>4. \A i \in DOMAIN Tail(f) : Tail(f)[i].type = "NET_CLOSE_CONNECTION" => i = Len(Tail(f)) /\ ~Dials(sd, p)
      BY <1>4, <3>1 DEF Orderly
    <3>5. Orderly(td, mt, p, Tail(f))
      BY <1>4, <1>9, <3>2, <3>3, <3>4 DEF Orderly
    <3>6. Holds(td, mt, p)
      BY <1>1, <1>4 DEF Behind
    <3> QED
      BY <1>6, <2>1, <3>5, <3>6
  <2>2. CASE d # p
    <3>1. PICK q : q = Pipe(sd, nt, d)
      OBVIOUS
    <3>2. Pipe(td, mt, d) = q /\ Orderly(sd, nt, d, q) /\ d.to \in Node
      BY <1>6, <1>10, <2>2, <3>1, ConnFields
    <3>3. ASSUME NEW i \in DOMAIN q, q[i].type = "NET_JOIN_RESPONSE"
          PROVE  /\ i = 1 /\ Waits(td, mt, d.to) /\ First(td, mt, d.to) = d
                 /\ q[i].range_start > 0 /\ q[i].range_start <= q[i].range_end
                 /\ Follows(td, mt, q[i].next, q[i].range_end)
      <4>1. /\ i = 1 /\ Waits(sd, nt, d.to) /\ First(sd, nt, d.to) = d
            /\ q[i].range_start > 0 /\ q[i].range_start <= q[i].range_end
            /\ Follows(sd, nt, q[i].next, q[i].range_end)
        BY <3>2, <3>3 DEF Orderly
      <4>2. d.to # n
        BY <1>4, <2>2, <4>1
      <4> QED
        BY <1>5, <3>2, <4>1, <4>2
    <3>4. ASSUME NEW i \in DOMAIN q, q[i].type = "NET_CLOSE_CONNECTION"
          PROVE  i = Len(q) /\ ~Dials(td, d)
      <4>1. i = Len(q) /\ ~Dials(sd, d)
        BY <3>2, <3>4 DEF Orderly
      <4>2. q # <<>>
        BY <3>4
      <4> QED
        BY <1>9, <1>10, <3>1, <4>1, <4>2
    <3>5. Orderly(td, mt, d, q)
      BY <3>2, <3>3, <3>4 DEF Orderly
    <3>6. q # <<>> => Holds(td, mt, d)
      BY <1>1, <1>10, <3>1 DEF Behind
    <3> QED
      BY <3>2, <3>5, <3>6
  <2> QED
    BY <2>1, <2>2
<1>12. ASSUME NEW d \in Conn PROVE d.to = n \/ Dials(sd, d) \/ d = c \/ Pipe(td, mt, d) = Pipe(sd, nt, d)
  BY <1>4, <1>6
<1>13. /\ td[n].successor = c /\ td[n].successor_listen = c.to /\ Seat(td[n]) /\ ~Closing(td[n])
       /\ mt.bwd = nt.bwd /\ mt.rst = {}
  BY DEF Seats, Closing
<1> QED
  BY <1>1, <1>4, <1>5, <1>7, <1>8, <1>11, <1>12, <1>13, DialWires

(* What the response brought is the range of the node now. *)
LEMMA SeatsShares ==
  ASSUME NEW sd, NEW nt, World(sd, nt), Wires(sd, nt), Shares(sd, nt), NEW td, NEW mt, World(td, mt),
         NEW n \in Node, NEW c \in Conn, Told(sd[n]), NEW p, p = sd[n].predecessor, Seats(sd, nt, td, mt, n, c, p)
  PROVE  Shares(td, mt)
<1>1. PICK f : f = Pipe(sd, nt, p)
  OBVIOUS
<1>2. PICK r : r = Head(f)
  OBVIOUS
<1>3. /\ p \in Conn /\ f \in Seq(PDU) /\ f # <<>> /\ r.type = "NET_JOIN_RESPONSE"
      /\ Orderly(sd, nt, p, f) /\ Inside(sd[p.from]) /\ p.from \in Node /\ ~Inside(sd[n])
  BY <1>1, <1>2, ToldFacts, ConnFields
<1>4. Inside(td[n]) /\ td[n].start = r.range_start /\ td[n].end = r.range_end /\ Peers(sd, td, n)
  <2>1. Inside(td[n])
    BY SeatsWaits
  <2> QED
    BY <1>1, <1>2, <2>1 DEF Seats, Dialed
<1>5. Pipe(td, mt, p) = Tail(f) /\ \A d \in Conn : d # p => Pipe(td, mt, d) = Pipe(sd, nt, d)
  BY <1>1 DEF Seats
<1>6. Tail(f) = <<>> \/ Head(Tail(f)).type # "NET_JOIN_RESPONSE"
  <2>1. Tail(f) # <<>> => 2 \in DOMAIN f /\ Head(Tail(f)) = f[2]
    BY <1>3
  <2> QED
    BY <1>3, <2>1 DEF Orderly
<1>7. ASSUME NEW h \in Byte
      PROVE  OneHolder(td, mt, h)
  <2>1. OneHolder(sd, nt, h)
    BY <1>3 DEF Shares
  <2>2. Owns(td, h, n) <=> Brings(sd, nt, h, p)
    BY <1>1, <1>2, <1>3, <1>4 DEF Owns, Brings
  <2>3. ~Owns(sd, h, n) /\ ~Brings(td, mt, h, p)
    BY <1>3, <1>5, <1>6 DEF Owns, Brings
  <2>4. \A k \in Node : k # n => (Owns(td, h, k) <=> Owns(sd, h, k))
    BY <1>4 DEF Owns, Peers
  <2>5. \A d \in Conn : d # p => (Brings(td, mt, h, d) <=> Brings(sd, nt, h, d))
    BY <1>5 DEF Brings
  <2> QED
    BY <1>3, <2>1, <2>2, <2>3, <2>4, <2>5 DEF OneHolder
<1> QED
  BY <1>7 DEF Shares

(* Nothing is asked any more than before. *)
LEMMA SeatsGood ==
  ASSUME NEW sd, NEW nt, World(sd, nt), NEW T \in SUBSET Node, Good(sd, nt, T), NEW td, NEW mt, World(td, mt),
         NEW n \in Node, NEW c \in Conn, Told(sd[n]), NEW p, p = sd[n].predecessor, Seats(sd, nt, td, mt, n, c, p),
         td[n].queue["UDP"] = <<>>, td[n].process = sd[n].process
  PROVE  Good(td, mt, T)
<1>1. Wires(sd, nt) /\ Requests(sd, nt) /\ Mail(sd, nt.udp) /\ Table(sd, nt.udp, T) /\ Shares(sd, nt)
  BY DEF Good
<1>2. Wires(td, mt)
  BY <1>1, SeatsWires
<1>3. Shares(td, mt)
  BY <1>1, SeatsShares
<1>4. Peers(sd, td, n) /\ mt.udp = nt.udp /\ td[n].state = "Q6" /\ td[n].at = "run"
  BY DEF Seats, Dialed
<1>5. Inside(td[n]) /\ \A k \in Node : Applicant(sd, nt, k) => Applicant(td, mt, k)
  BY <1>1, SeatsWaits
<1>6. Requests(td, mt)
  <2>1. ASSUME NEW k \in Node, NEW d \in Conn PROVE Less(Pipe(sd, nt, d), Pipe(td, mt, d), k)
    <3>1. Pipe(sd, nt, d) \in Seq(PDU)
      BY WorldFacts
    <3>2. CASE d = p
      <4>1. Pipe(sd, nt, d) # <<>>
        BY <1>1, <3>2, ToldFacts
      <4>2. Pipe(td, mt, d) = Tail(Pipe(sd, nt, d))
        BY <3>2 DEF Seats
      <4> QED
        BY <3>1, <4>1, <4>2, LessSimple
    <3>3. CASE d # p
      <4>1. Pipe(td, mt, d) = Pipe(sd, nt, d)
        BY <3>3 DEF Seats
      <4> QED
        BY <3>1, <4>1, LessSimple
    <3> QED
      BY <3>2, <3>3
  <2>2. ASSUME NEW k \in Node
        PROVE  Less(sd[n].queue["UDP"], td[n].queue["UDP"], k) /\ Less(JoinNoted(sd[n]), JoinNoted(td[n]), k)
    <3>1. sd[n].queue["UDP"] \in Seq(PDU) /\ JoinNoted(sd[n]) \in Seq(PDU)
      BY WorldFacts, JoinNotedType
    <3>2. JoinNoted(td[n]) = <<>>
      BY <1>4 DEF JoinNoted, Live
    <3> QED
      BY <3>1, <3>2, LessSimple
  <2> QED
    BY <1>1, <1>4, <1>5, <2>1, <2>2, RequestsKept
<1>7. NoMail(nt.udp, n) /\ Requested(td[n].queue["UDP"])
  <2>1. sd[n].state = "Q8"
    BY DEF Told
  <2> QED
    BY <1>1, <2>1, InsideNoMail DEF Requested
<1>8. Mail(td, mt.udp)
  <2>1. nt.udp \in SUBSET nt.udp
    OBVIOUS
  <2> QED
    BY <1>1, <1>4, <1>5, <1>7, <2>1, MailKept
<1>9. Table(td, mt.udp, T)
  <2>1. T \subseteq Node /\ \A d \in mt.udp : NodeReply(d) => d \in nt.udp
    BY <1>4
  <2> QED
    BY <1>1, <1>4, <1>5, <2>1, TableKept
<1> QED
  BY <1>2, <1>3, <1>6, <1>8, <1>9 DEF Good

(* A node that can be named as the next one has not ended. *)
LEMMA ExpectedRuns ==
  ASSUME NodeInv, JoinInv, NEW k \in Node, Expected(node, net, k)
  PROVE  Running(k)
<1>1. Seat(node[k])
  BY Seated
<1>2. node[k].state # "Q1"
  BY DEF Expected, Inside, Inner, Waits, Told, Asked
<1> QED
  BY <1>1, <1>2 DEF Seat, Places, Running

Seating(m, r, c) == ConnectedTo([Goto(m, "Q6") EXCEPT !.start = r.range_start, !.end = r.range_end], c)

Refilled(m, g) == [m EXCEPT !.queue = [NoQueue EXCEPT !["PREDECESSOR"] = g]]

(* What the node is once it has read NET_JOIN_RESPONSE. *)
LEMMA SeatingFields ==
  ASSUME NEW m \in Memory, NEW g \in Seq(PDU), NEW v, v = Refilled(m, g),
         NEW r \in PDU, r.type = "NET_JOIN_RESPONSE", NEW c \in Conn, NEW s, s = Seating(v, r, c)
  PROVE  /\ s.state = "Q6" /\ s.at = "run" /\ s.start = r.range_start /\ s.end = r.range_end
         /\ s.successor = c /\ s.successor_listen = c.to /\ s.predecessor = m.predecessor
         /\ s.process = m.process /\ (s.should_close <=> m.should_close)
         /\ s.queue["UDP"] = <<>> /\ s.queue["SUCCESSOR"] = <<>> /\ s.queue["PREDECESSOR"] = g
<1>1. PICK q : q = [NoQueue EXCEPT !["PREDECESSOR"] = g]
  OBVIOUS
<1>2. q["UDP"] = <<>> /\ q["SUCCESSOR"] = <<>> /\ q["PREDECESSOR"] = g
  BY <1>1 DEF NoQueue, Token
<1>3. v = [m EXCEPT !.queue = q]
  BY <1>1 DEF Refilled
<1>4. s = ConnectedTo([Goto(v, "Q6") EXCEPT !.start = r.range_start, !.end = r.range_end], c)
  BY DEF Seating
<1>5. /\ s.state = "Q6" /\ s.at = "run" /\ s.start = r.range_start /\ s.end = r.range_end
      /\ s.successor = c /\ s.successor_listen = c.to /\ s.predecessor = m.predecessor
      /\ s.process = m.process /\ (s.should_close <=> m.should_close) /\ s.queue = q
  BY ONLY <1>3, <1>4, m \in Memory DEF Memory, Goto, ConnectedTo
<1> QED
  BY <1>2, <1>5

(* q8 takes the range over and connects to the successor that it was given (node.rs:377). *)
LEMMA q8Good ==
  ASSUME NodeInv, NodeInv', JoinInv, nodes \in SUBSET Node, nodes' = nodes, NEW n \in Node, q8(n)
  PROVE  JoinInv' /\ Advances(n)
<1>1. /\ Seat(node[n]) /\ node[n] \in Memory /\ NetSound(net) /\ Good(node, net, nodes)
      /\ node \in [Node -> Memory] /\ World(node, net) /\ World(node', net') /\ Wires(node, net) /\ net.rst = {}
  BY Seated, InvWorldNext DEF JoinInv, NodeInv, Good
<1>2. Told(node[n])
  BY DEF q8, At, Told
<1>3. PICK a \in await_pdu(n, "PREDECESSOR") :
        IF a.pdu = NULL THEN Panic(n, a.kernel)
        ELSE IF a.pdu.type # "NET_JOIN_RESPONSE" THEN Panic(n, a.kernel)
        ELSE IF ~Running(a.pdu.next) THEN Panic(n, a.kernel)
        ELSE /\ Unused(n, a.pdu.next) # {}
             /\ Become(n, Seating(a.memory, a.pdu, NewConn(n, a.pdu.next)), Connect(a.kernel, NewConn(n, a.pdu.next)))
  BY DEF q8, Seating
<1>4. PICK p : p = node[n].predecessor
  OBVIOUS
<1>5. PICK f : f = Pipe(node, net, p)
  OBVIOUS
<1>6. PICK r : r = Head(f)
  OBVIOUS
<1>7. /\ p \in Conn /\ p.to = n /\ Holds(node, net, p) /\ f \in Seq(PDU) /\ f # <<>> /\ r \in PDU
      /\ r.type = "NET_JOIN_RESPONSE" /\ r.range_start > 0 /\ r.range_start <= r.range_end
      /\ Follows(node, net, r.next, r.range_end) /\ ~Inside(node[n])
  BY <1>1, <1>2, <1>4, <1>5, <1>6, ToldFacts
<1>8. net.fwd[p] = f
  <2>1. node[n].queue["PREDECESSOR"] = <<>> /\ net.fwd[p] \in Seq(PDU)
    BY <1>1, <1>7, WorldFacts DEF Seat, Queued, NoQueue, Token
  <2>2. f = node[n].queue["PREDECESSOR"] \o net.fwd[p]
    BY <1>4, <1>5, <1>7 DEF Pipe
  <2> QED
    BY <2>1, <2>2
<1>9. a.pdu = r /\ NetSound(a.kernel)
  BY <1>2, <1>4, <1>6, <1>7, <1>8, ReadResponse
<1>10. PICK g, rest \in Seq(PDU) :
         /\ g # <<>> /\ g \o rest = net.fwd[p]
         /\ a.memory = [node[n] EXCEPT !.queue = [NoQueue EXCEPT !["PREDECESSOR"] = Tail(g)]]
         /\ a.kernel = [net EXCEPT !.fwd = [net.fwd EXCEPT ![p] = rest]]
  <2>1. ReadFirst(node[n], net, p, a)
    BY <1>2, <1>4, <1>7, ReadResponse
  <2> QED
    BY <2>1 DEF ReadFirst
<1>11. r \in PDU /\ r # NULL /\ r.next \in Node /\ Running(r.next)
  BY <1>7, NullFacts, ExpectedRuns DEF Follows
<1>12. PICK c : c = NewConn(n, r.next)
  OBVIOUS
<1>13. Unused(n, r.next) # {} /\ Become(n, Seating(a.memory, r, c), Connect(a.kernel, c))
  BY <1>3, <1>7, <1>9, <1>11, <1>12
<1>14. c \in Conn /\ c.from = n /\ c.to = r.next /\ ~Holds(node, net, c)
  BY <1>12, <1>13, NewConnType DEF Unused, AcceptorHolds, Holds
<1>15. PICK s : s = Seating(a.memory, r, c)
  OBVIOUS
<1>16. PICK nt : nt = Connect(a.kernel, c)
  OBVIOUS
<1>17. Tail(g) \in Seq(PDU) /\ Tail(g) \o rest = Tail(f)
  BY <1>8, <1>10, TailConcat
<1>18. /\ s.state = "Q6" /\ s.at = "run" /\ s.start = r.range_start /\ s.end = r.range_end
       /\ s.successor = c /\ s.successor_listen = c.to /\ s.predecessor = p
       /\ s.process = node[n].process /\ (s.should_close <=> node[n].should_close)
       /\ s.queue["UDP"] = <<>> /\ s.queue["SUCCESSOR"] = <<>> /\ s.queue["PREDECESSOR"] = Tail(g)
  <2>1. PICK m \in Memory : m = node[n]
    BY <1>1
  <2>2. PICK h \in Seq(PDU) : h = Tail(g)
    BY <1>17
  <2>3. PICK v : v = a.memory
    OBVIOUS
  <2>4. v = Refilled(m, h)
    BY <1>10, <2>1, <2>2, <2>3 DEF Refilled
  <2>5. s = Seating(v, r, c)
    BY <1>15, <2>3
  <2>6. /\ s.state = "Q6" /\ s.at = "run" /\ s.start = r.range_start /\ s.end = r.range_end
        /\ s.successor = c /\ s.successor_listen = c.to /\ s.predecessor = m.predecessor
        /\ s.process = m.process /\ (s.should_close <=> m.should_close)
        /\ s.queue["UDP"] = <<>> /\ s.queue["SUCCESSOR"] = <<>> /\ s.queue["PREDECESSOR"] = h
    BY ONLY <1>7, <1>14, <2>4, <2>5, m \in Memory, h \in Seq(PDU), SeatingFields
  <2> QED
    BY <1>4, <2>1, <2>2, <2>6
<1>19. Settle(s) = s
  BY <1>18 DEF Settle
<1>20. /\ NetSound(nt) /\ nt.rst = {} /\ nt.udp = net.udp /\ nt.bwd = net.bwd
       /\ nt.backlog = [net.backlog EXCEPT ![c.to] = Append(@, c)]
       /\ nt.fwd[p] = rest /\ \A d \in Conn : d # p => nt.fwd[d] = net.fwd[d]
  <2>1. NetSound(nt)
    BY <1>9, <1>14, <1>16, ConnectSound
  <2>2. nt = [a.kernel EXCEPT !.backlog[c.to] = Append(@, c), !.rst = @ \ {c}]
    BY <1>16 DEF Connect
  <2>3. net \in Kernel
    BY <1>1 DEF NetSound
  <2>4. PICK h : h = [net.fwd EXCEPT ![p] = rest]
    OBVIOUS
  <2>5. a.kernel = [net EXCEPT !.fwd = h]
    BY <1>10, <2>4
  <2>6. /\ nt.rst = net.rst \ {c} /\ nt.udp = net.udp /\ nt.bwd = net.bwd /\ nt.fwd = h
        /\ nt.backlog = [net.backlog EXCEPT ![c.to] = Append(@, c)]
    BY ONLY <2>2, <2>3, <2>5 DEF Kernel
  <2>7. h[p] = rest /\ \A d \in Conn : d # p => h[d] = net.fwd[d]
    BY <1>1, <1>7, <2>4, NetFields
  <2> QED
    BY <1>1, <2>1, <2>6, <2>7
<1>21. net' = nt /\ node'[n] = s /\ Peers(node, node', n)
  BY <1>13, <1>15, <1>16, <1>19, <1>20, BecomeIs
<1>22. Seat(s)
  <2>1. Places(s)
    <3>1. node[n].process = "running" /\ ~node[n].should_close
      BY <1>1, <1>2 DEF Seat, Places, Told
    <3> QED
      BY <1>18, <3>1 DEF Places, Inner, Inside
  <2>2. Inside(s)
    BY <1>18 DEF Inside, Inner
  <2>3. c # NULL /\ p # NULL
    BY <1>7, <1>14, NullFacts
  <2>4. ~Whole(s) /\ s.start <= s.end
    BY <1>7, <1>18 DEF Whole
  <2>5. Neighbours(s)
    BY <1>18, <2>2, <2>3, <2>4 DEF Neighbours
  <2>6. Queued(s)
    BY <1>18, <2>2, <2>3 DEF Queued
  <2> QED
    BY <2>1, <2>5, <2>6 DEF Seat
<1>23. /\ Pipe(node', net', p) = Tail(f)
       /\ \A d \in Conn : d # p => Pipe(node', net', d) = Pipe(node, net, d)
  <2>1. Pipe(node', net', p) = Tail(f)
    <3>1. node'[p.to].predecessor = p /\ node'[p.to].queue["PREDECESSOR"] = Tail(g) /\ net'.fwd[p] = rest
      BY <1>7, <1>18, <1>20, <1>21
    <3> QED
      BY <1>17, <3>1 DEF Pipe
  <2>2. ASSUME NEW d \in Conn, d # p PROVE Pipe(node', net', d) = Pipe(node, net, d)
    <3>1. net'.fwd[d] = net.fwd[d] /\ d.to \in Node
      BY <1>20, <1>21, <2>2, ConnFields
    <3>2. CASE d.to = n
      BY <1>4, <1>18, <1>21, <2>2, <3>1, <3>2 DEF Pipe
    <3>3. CASE d.to # n
      BY <1>21, <3>1, <3>3 DEF Pipe, Peers
    <3> QED
      BY <3>2, <3>3
  <2> QED
    BY <2>1, <2>2
<1>24. PICK td : td = node'
  OBVIOUS
<1>25. PICK mt : mt = net'
  OBVIOUS
<1>26. Seats(node, net, td, mt, n, c, p)
  <2>1. Dialed(node, net, td, mt, n, c)
    BY <1>4, <1>14, <1>18, <1>20, <1>21, <1>24, <1>25 DEF Dialed
  <2>2. /\ td[n] = s /\ mt = nt /\ Pipe(td, mt, p) = Tail(f)
        /\ \A d \in Conn : d # p => Pipe(td, mt, d) = Pipe(node, net, d)
    BY <1>21, <1>23, <1>24, <1>25
  <2> QED
    BY <1>5, <1>6, <1>14, <1>18, <1>20, <1>22, <2>1, <2>2 DEF Seats
<1>27. Good(td, mt, nodes)
  <2>1. td[n].queue["UDP"] = <<>> /\ td[n].process = node[n].process /\ World(td, mt)
    BY <1>1, <1>18, <1>21, <1>24, <1>25
  <2> QED
    BY <1>1, <1>2, <1>4, <1>14, <1>26, <2>1, SeatsGood
<1>28. Advances(n)
  BY <1>18, <1>21 DEF Advances, Asked, Peers
<1> QED
  BY <1>24, <1>25, <1>27, <1>28, GoodNext

(***************************************************************************)
(* A node makes room for one that joins: the lower half of its range stays,*)
(* the upper half is on the new connection.                                *)
(***************************************************************************)

(* NET_JOIN_RESPONSE, and the entries behind it. *)
Offered(q, next, a, b) ==
  /\ q \in Seq(PDU) /\ q # <<>> /\ Head(q).type = "NET_JOIN_RESPONSE"
  /\ Head(q).next = next /\ Head(q).range_start = a /\ Head(q).range_end = b
  /\ \A i \in DOMAIN q : i # 1 => q[i].type = "VAL_INSERT"

Closed(sd, n, d, p, q) ==
  Dials(sd, d) /\ d.from = n /\ \E x \in PDU : x.type = "NET_CLOSE_CONNECTION" /\ q = Append(p, x)

Splits(sd, nt, td, mt, n, c, next) ==
  /\ Dialed(sd, nt, td, mt, n, c) /\ ~Holds(sd, nt, c)
  /\ Inside(sd[n]) /\ Applicant(sd, nt, c.to) /\ Follows(sd, nt, next, sd[n].end)
  /\ td[n].successor = c /\ td[n].successor_listen = c.to
  /\ td[n].start = sd[n].start /\ sd[n].start <= td[n].end /\ td[n].end < sd[n].end
  /\ Seat(td[n]) /\ Inside(td[n]) /\ ~Closing(td[n]) /\ ~Live(td[n])
  /\ mt.bwd = nt.bwd /\ mt.rst = {} /\ mt.udp = nt.udp
  /\ Offered(Pipe(td, mt, c), next, td[n].end + 1, sd[n].end)
  /\ \A d \in Conn : d # c => \/ Pipe(td, mt, d) = Pipe(sd, nt, d)
                              \/ Closed(sd, n, d, Pipe(sd, nt, d), Pipe(td, mt, d))

(* NET_CLOSE_CONNECTION is the last on a connection, and what was on it stays. *)
LEMMA ClosedHead ==
  ASSUME NEW sd, NEW n, NEW d, NEW p \in Seq(PDU), NEW q, Closed(sd, n, d, p, q)
  PROVE  /\ q \in Seq(PDU) /\ q # <<>> /\ Len(q) = Len(p) + 1 /\ q[Len(q)].type = "NET_CLOSE_CONNECTION"
         /\ p # <<>> => Head(q) = Head(p)
         /\ p = <<>> => Head(q).type = "NET_CLOSE_CONNECTION"
         /\ \A i \in DOMAIN q : (i \in DOMAIN p /\ q[i] = p[i]) \/ i = Len(q)
         /\ DOMAIN p = 1 .. Len(p) /\ Len(p) \in Nat
<1>1. PICK x \in PDU : x.type = "NET_CLOSE_CONNECTION" /\ q = Append(p, x)
  BY DEF Closed
<1>2. /\ q \in Seq(PDU) /\ Len(q) = Len(p) + 1 /\ q[Len(q)] = x /\ Len(p) \in Nat /\ DOMAIN p = 1 .. Len(p)
      /\ \A i \in 1 .. Len(p) : q[i] = p[i]
      /\ DOMAIN q = 1 .. Len(p) + 1
  BY <1>1
<1>3. q # <<>> /\ Head(q) = q[1]
  BY <1>2
<1>4. p # <<>> => 1 \in 1 .. Len(p) /\ Head(p) = p[1]
  BY <1>2
<1>5. p = <<>> => Len(q) = 1
  BY <1>2
<1> QED
  BY <1>1, <1>2, <1>3, <1>4, <1>5

(* Everybody else waits as before; the new node waits for its range now. *)
LEMMA SplitsWaits ==
  ASSUME NEW sd, NEW nt, World(sd, nt), Wires(sd, nt), NEW td, NEW mt, World(td, mt),
         NEW n \in Node, NEW c \in Conn, NEW next, Splits(sd, nt, td, mt, n, c, next)
  PROVE  /\ c.to \in Node /\ c.to # n /\ ~Expected(sd, nt, c.to) /\ ~Inside(td[c.to])
         /\ Waits(td, mt, c.to) /\ First(td, mt, c.to) = c
         /\ \A k \in Node : k # c.to => /\ Waits(td, mt, k) <=> Waits(sd, nt, k)
                                        /\ Waits(sd, nt, k) => First(td, mt, k) = First(sd, nt, k) /\ First(sd, nt, k) # c
                                        /\ Applicant(sd, nt, k) => Applicant(td, mt, k)
         /\ \A k \in Node : Expected(sd, nt, k) => Expected(td, mt, k)
         /\ \A k, e : Follows(sd, nt, k, e) => Follows(td, mt, k, e)
         /\ Follows(td, mt, c.to, td[n].end)
<1>1. Behind(sd, nt, td, mt, c) /\ Peers(sd, td, n)
  BY DialHolds DEF Splits, Dialed
<1>2. c.to \in Node /\ Inside(sd[n]) /\ Inside(td[n]) /\ Asked(sd[c.to]) /\ nt.backlog[c.to] = <<>>
  BY ConnFields DEF Splits, Applicant
<1>3. ~Inside(sd[c.to]) /\ ~Told(sd[c.to]) /\ c.to # n
  BY <1>2, Apart
<1>4. td[c.to] = sd[c.to]
  BY <1>1, <1>2, <1>3 DEF Peers
<1>5. ~Expected(sd, nt, c.to) /\ ~Inside(td[c.to])
  BY <1>2, <1>3, <1>4 DEF Expected, Waits
<1>6. Waits(td, mt, c.to) /\ First(td, mt, c.to) = c
  BY <1>1, <1>2, <1>3, <1>4 DEF Waits, First, Behind
<1>7. ASSUME NEW k \in Node, k # c.to
      PROVE  /\ Waits(td, mt, k) <=> Waits(sd, nt, k)
             /\ Waits(sd, nt, k) => First(td, mt, k) = First(sd, nt, k) /\ First(sd, nt, k) # c
             /\ Applicant(sd, nt, k) => Applicant(td, mt, k)
  <2>1. mt.backlog[k] = nt.backlog[k]
    BY <1>1, <1>7 DEF Behind
  <2>2. ASSUME Waits(sd, nt, k) PROVE First(sd, nt, k) # c
    BY <1>7, <2>2, WaitsFacts
  <2>3. CASE k = n
    <3>1. ~Waits(sd, nt, k) /\ ~Waits(td, mt, k) /\ ~Applicant(sd, nt, k)
      BY <1>2, <2>3, Apart DEF Waits, Applicant
    <3> QED
      BY <3>1
  <2>4. CASE k # n
    <3>1. td[k] = sd[k]
      BY <1>1, <2>4 DEF Peers
    <3> QED
      BY <2>1, <2>2, <3>1 DEF Waits, First, Applicant
  <2> QED
    BY <2>3, <2>4
<1>8. ASSUME NEW k \in Node, Expected(sd, nt, k)
      PROVE  Expected(td, mt, k) /\ StartOf(td, mt, k) = StartOf(sd, nt, k)
  <2>1. CASE k = n
    BY <1>2, <2>1 DEF Expected, StartOf, Splits
  <2>2. CASE k # n /\ Inside(sd[k])
    BY <1>1, <2>2 DEF Peers, Expected, StartOf
  <2>3. CASE k # n /\ ~Inside(sd[k])
    <3>1. Waits(sd, nt, k) /\ ~Inside(td[k]) /\ k # c.to
      BY <1>1, <1>5, <1>8, <2>3 DEF Expected, Peers
    <3>2. PICK e : e = First(sd, nt, k)
      OBVIOUS
    <3>3. e \in Conn /\ e # c /\ Pipe(sd, nt, e) # <<>> /\ First(td, mt, k) = e
      BY <1>7, <3>1, <3>2, WaitsFacts
    <3>4. Pipe(sd, nt, e) \in Seq(PDU)
      BY <3>3, WorldFacts
    <3>5. Head(Pipe(td, mt, e)) = Head(Pipe(sd, nt, e))
      <4>1. CASE Pipe(td, mt, e) = Pipe(sd, nt, e)
        BY <4>1
      <4>2. CASE Closed(sd, n, e, Pipe(sd, nt, e), Pipe(td, mt, e))
        BY <3>3, <3>4, <4>2, ClosedHead
      <4> QED
        BY <3>3, <4>1, <4>2 DEF Splits
    <3> QED
      BY <1>7, <2>3, <3>1, <3>2, <3>3, <3>5 DEF Expected, StartOf
  <2> QED
    BY <2>1, <2>2, <2>3
<1>9. ASSUME NEW k, NEW e, Follows(sd, nt, k, e) PROVE Follows(td, mt, k, e)
  BY <1>8, <1>9 DEF Follows
<1>10. Follows(td, mt, c.to, td[n].end)
  <2>1. Head(Pipe(td, mt, c)).range_start = td[n].end + 1 /\ sd[n].start <= td[n].end /\ td[n].end < sd[n].end
    BY DEF Splits, Offered
  <2>2. StartOf(td, mt, c.to) = td[n].end + 1
    BY <1>5, <1>6, <2>1 DEF StartOf
  <2>3. sd[n].end \in Byte /\ td[n].end \in Byte
    BY WorldFacts
  <2>4. u8(td[n].end + 1) = td[n].end + 1
    BY <2>1, <2>3, HashSizeAssumption DEF u8, Byte
  <2> QED
    BY <1>2, <1>6, <2>2, <2>4 DEF Follows, Expected
<1> QED
  BY <1>2, <1>3, <1>5, <1>6, <1>7, <1>8, <1>9, <1>10

(* The response comes first on the new connection, NET_CLOSE_CONNECTION last
   on the old one. *)
LEMMA SplitsWires ==
  ASSUME NEW sd, NEW nt, World(sd, nt), Wires(sd, nt), NEW td, NEW mt, World(td, mt),
         NEW n \in Node, NEW c \in Conn, NEW next, Splits(sd, nt, td, mt, n, c, next)
  PROVE  Wires(td, mt)
<1>1. Behind(sd, nt, td, mt, c) /\ Dialed(sd, nt, td, mt, n, c) /\ Peers(sd, td, n) /\ ~Holds(sd, nt, c)
  BY DialHolds DEF Splits, Dialed
<1>2. /\ c.to \in Node /\ c.to # n /\ ~Expected(sd, nt, c.to) /\ ~Inside(td[c.to])
      /\ Waits(td, mt, c.to) /\ First(td, mt, c.to) = c
      /\ \A k \in Node : k # c.to => /\ Waits(td, mt, k) <=> Waits(sd, nt, k)
                                     /\ Waits(sd, nt, k) => First(td, mt, k) = First(sd, nt, k) /\ First(sd, nt, k) # c
  BY SplitsWaits
<1>3. /\ \A k \in Node : Expected(sd, nt, k) => Expected(td, mt, k)
      /\ \A k, e : Follows(sd, nt, k, e) => Follows(td, mt, k, e)
      /\ Follows(td, mt, c.to, td[n].end)
  BY SplitsWaits
<1>4. \A d \in Conn : d # c => \/ Pipe(td, mt, d) = Pipe(sd, nt, d)
                               \/ Closed(sd, n, d, Pipe(sd, nt, d), Pipe(td, mt, d))
  BY DEF Splits
<1>5. PICK q \in Seq(PDU) : q = Pipe(td, mt, c) /\ Offered(q, next, td[n].end + 1, sd[n].end)
  BY DEF Splits, Offered
<1>6. q # <<>> /\ Head(q) = q[1] /\ 1 \in DOMAIN q /\ q[1].type = "NET_JOIN_RESPONSE"
  <2>1. q # <<>> /\ Head(q).type = "NET_JOIN_RESPONSE"
    BY <1>5 DEF Offered
  <2> QED
    BY <1>5, <2>1
<1>7. ASSUME NEW k \in Node PROVE Welcome(td, mt, k)
  <2>1. CASE k = c.to
    BY <1>2, <1>5, <1>6, <2>1 DEF Welcome
  <2>2. CASE k # c.to
    <3>1. ASSUME Waits(td, mt, k)
          PROVE  Pipe(td, mt, First(td, mt, k)) # <<>> /\ Head(Pipe(td, mt, First(td, mt, k))).type = "NET_JOIN_RESPONSE"
      <4>1. PICK e : e = First(sd, nt, k)
        OBVIOUS
      <4>2. Waits(sd, nt, k) /\ First(td, mt, k) = e /\ e # c
        BY <1>2, <2>2, <3>1, <4>1
      <4>3. e \in Conn /\ Pipe(sd, nt, e) # <<>> /\ Head(Pipe(sd, nt, e)).type = "NET_JOIN_RESPONSE"
        BY <4>1, <4>2, WaitsFacts
      <4>4. Pipe(sd, nt, e) \in Seq(PDU)
        BY <4>3, WorldFacts
      <4>5. CASE Pipe(td, mt, e) = Pipe(sd, nt, e)
        BY <4>2, <4>3, <4>5
      <4>6. CASE Closed(sd, n, e, Pipe(sd, nt, e), Pipe(td, mt, e))
        <5>1. Pipe(td, mt, e) # <<>> /\ Head(Pipe(td, mt, e)) = Head(Pipe(sd, nt, e))
          BY <4>3, <4>4, <4>6, ClosedHead
        <5> QED
          BY <4>2, <4>3, <5>1
      <4> QED
        BY <1>4, <4>2, <4>3, <4>5, <4>6
    <3> QED
      BY <3>1 DEF Welcome
  <2> QED
    BY <2>1, <2>2
<1>8. ASSUME NEW k \in Node, Inside(sd[k]), k # n PROVE sd[k].successor # NULL
  <2>1. Alone(sd, nt, k)
    BY DEF Wires
  <2>2. Inside(sd[n])
    BY DEF Splits
  <2> QED
    BY <1>8, <2>1, <2>2 DEF Alone
<1>9. ASSUME NEW d \in Conn, Dials(td, d) PROVE d = c \/ (Dials(sd, d) /\ d.from # n)
  <2>1. d.from \in Node
    BY ConnFields
  <2>2. CASE d.from = n
    BY <1>9, <2>2 DEF Dials, Splits
  <2>3. CASE d.from # n
    BY <1>1, <1>9, <2>1, <2>3 DEF Dials, Peers
  <2> QED
    BY <2>2, <2>3
<1>10. ASSUME NEW d \in Conn
       PROVE  Line(sd, nt, d) /\ Orderly(sd, nt, d, Pipe(sd, nt, d)) /\ (Pipe(sd, nt, d) # <<>> => Holds(sd, nt, d) /\ d # c)
  BY <1>1, LineOrderly DEF Wires, Line
<1>11. ASSUME NEW d \in Conn, d # c, NEW p \in Seq(PDU), p = Pipe(sd, nt, d), NEW i \in DOMAIN p
       PROVE  /\ p[i].type \in Traffic
              /\ p[i].type = "NET_JOIN_RESPONSE" =>
                    /\ i = 1 /\ Waits(td, mt, d.to) /\ First(td, mt, d.to) = d
                    /\ p[i].range_start > 0 /\ p[i].range_start <= p[i].range_end
                    /\ Follows(td, mt, p[i].next, p[i].range_end)
              /\ p[i].type = "NET_CLOSE_CONNECTION" => i = Len(p) /\ ~Dials(sd, d)
  <2>1. Orderly(sd, nt, d, p) /\ d.to \in Node
    BY <1>10, <1>11, ConnFields
  <2>2. ASSUME p[i].type = "NET_JOIN_RESPONSE"
        PROVE  /\ i = 1 /\ Waits(td, mt, d.to) /\ First(td, mt, d.to) = d
               /\ p[i].range_start > 0 /\ p[i].range_start <= p[i].range_end
               /\ Follows(td, mt, p[i].next, p[i].range_end)
    <3>1. /\ i = 1 /\ Waits(sd, nt, d.to) /\ First(sd, nt, d.to) = d
          /\ p[i].range_start > 0 /\ p[i].range_start <= p[i].range_end
          /\ Follows(sd, nt, p[i].next, p[i].range_end)
      BY <2>1, <2>2 DEF Orderly
    <3>2. d.to # c.to
      BY <1>2, <3>1 DEF Expected
    <3> QED
      BY <1>2, <1>3, <2>1, <3>1, <3>2
  <2> QED
    BY <2>1, <2>2 DEF Orderly
<1>12. ASSUME NEW d \in Conn
       PROVE  Orderly(td, mt, d, Pipe(td, mt, d)) /\ (Pipe(td, mt, d) # <<>> => Holds(td, mt, d))
  <2>1. CASE d = c
    <3>1. Holds(td, mt, c)
      BY <1>1 DEF Behind
    <3>2. \A i \in DOMAIN q : i # 1 => q[i].type = "VAL_INSERT"
      BY <1>5 DEF Offered
    <3>3. /\ q[1].range_start > 0 /\ q[1].range_start <= q[1].range_end
          /\ Follows(td, mt, q[1].next, q[1].range_end)
      <4>1. /\ Head(q).next = next /\ Head(q).range_start = td[n].end + 1 /\ Head(q).range_end = sd[n].end
            /\ td[n].end < sd[n].end /\ Follows(sd, nt, next, sd[n].end)
        BY <1>5 DEF Offered, Splits
      <4>2. sd[n].end \in Nat /\ td[n].end \in Nat
        BY WorldFacts, HashSizeAssumption DEF Byte
      <4> QED
        BY <1>3, <1>6, <4>1, <4>2
    <3>4. Orderly(td, mt, c, q)
      BY <1>2, <1>6, <3>2, <3>3 DEF Orderly, Traffic
    <3> QED
      BY <1>5, <2>1, <3>1, <3>4
  <2>2. CASE d # c
    <3>1. PICK p \in Seq(PDU) : p = Pipe(sd, nt, d)
      BY WorldFacts
    <3>2. CASE Pipe(td, mt, d) = p
      <4>1. p # <<>> => Holds(td, mt, d)
        BY <1>1, <1>10, <3>1 DEF Behind
      <4>2. Orderly(td, mt, d, p)
        BY <1>9, <1>11, <2>2, <3>1 DEF Orderly
      <4> QED
        BY <3>2, <4>1, <4>2
    <3>3. CASE Closed(sd, n, d, p, Pipe(td, mt, d))
      <4>1. PICK r : r = Pipe(td, mt, d)
        OBVIOUS
      <4>2. /\ r \in Seq(PDU) /\ r # <<>> /\ r[Len(r)].type = "NET_CLOSE_CONNECTION"
            /\ \A i \in DOMAIN r : (i \in DOMAIN p /\ r[i] = p[i]) \/ i = Len(r)
        <5>1. Closed(sd, n, d, p, r)
          BY <3>3, <4>1
        <5> QED
          BY <5>1, ClosedHead
      <4>3. Dials(sd, d) /\ d.from = n /\ d # NULL
        BY <3>3, NullFacts DEF Closed
      <4>4. ~Dials(td, d)
        BY <1>9, <2>2, <4>3
      <4>5. Holds(td, mt, d)
        <5>1. Link(sd, nt, sd[n])
          BY DEF Wires
        <5>2. Holds(sd, nt, d)
          BY <4>3, <5>1 DEF Link, Dials
        <5> QED
          BY <1>1, <5>2 DEF Behind
      <4>6. ASSUME NEW i \in DOMAIN r
            PROVE  /\ r[i].type \in Traffic
                   /\ r[i].type = "NET_JOIN_RESPONSE" =>
                         /\ i = 1 /\ Waits(td, mt, d.to) /\ First(td, mt, d.to) = d
                         /\ r[i].range_start > 0 /\ r[i].range_start <= r[i].range_end
                         /\ Follows(td, mt, r[i].next, r[i].range_end)
                   /\ r[i].type = "NET_CLOSE_CONNECTION" => i = Len(r)
        <5>1. CASE i = Len(r)
          BY <4>2, <5>1 DEF Traffic
        <5>2. CASE i # Len(r)
          <6>1. i \in DOMAIN p /\ r[i] = p[i]
            BY <4>2, <5>2
          <6>2. p[i].type # "NET_CLOSE_CONNECTION"
            BY <1>11, <2>2, <3>1, <4>3, <6>1
          <6> QED
            BY <1>11, <2>2, <3>1, <6>1, <6>2
        <5> QED
          BY <5>1, <5>2
      <4>7. Orderly(td, mt, d, r)
        BY <4>4, <4>6 DEF Orderly
      <4> QED
        BY <4>1, <4>5, <4>7
    <3> QED
      BY <1>4, <2>2, <3>1, <3>2, <3>3
  <2> QED
    BY <2>1, <2>2
<1>13. ASSUME NEW d \in Conn PROVE d.to = n \/ Dials(sd, d) \/ d = c \/ Pipe(td, mt, d) = Pipe(sd, nt, d)
  BY <1>4 DEF Closed
<1>14. /\ td[n].successor = c /\ td[n].successor_listen = c.to /\ Seat(td[n]) /\ ~Closing(td[n]) /\ Inside(td[n])
       /\ mt.bwd = nt.bwd /\ mt.rst = {}
  BY DEF Splits
<1> QED
  BY <1>1, <1>3, <1>7, <1>8, <1>12, <1>13, <1>14, DialWires

(* What the node gave up is in the response. *)
LEMMA SplitsShares ==
  ASSUME NEW sd, NEW nt, World(sd, nt), Wires(sd, nt), Shares(sd, nt), NEW td, NEW mt, World(td, mt),
         NEW n \in Node, NEW c \in Conn, NEW next, Splits(sd, nt, td, mt, n, c, next)
  PROVE  Shares(td, mt)
<1>1. Inside(sd[n]) /\ Inside(td[n]) /\ Peers(sd, td, n) /\ ~Holds(sd, nt, c)
  BY DEF Splits, Dialed
<1>2. Pipe(sd, nt, c) = <<>>
  BY <1>1 DEF Wires, Line
<1>3. /\ Pipe(td, mt, c) # <<>> /\ Head(Pipe(td, mt, c)).type = "NET_JOIN_RESPONSE"
      /\ Head(Pipe(td, mt, c)).range_start = td[n].end + 1 /\ Head(Pipe(td, mt, c)).range_end = sd[n].end
      /\ td[n].start = sd[n].start /\ sd[n].start <= td[n].end /\ td[n].end < sd[n].end
  BY DEF Splits, Offered
<1>4. sd[n].start \in Int /\ sd[n].end \in Int /\ td[n].end \in Int
  BY WorldFacts DEF Byte
<1>5. ASSUME NEW h \in Byte
      PROVE  OneHolder(td, mt, h)
  <2>1. OneHolder(sd, nt, h)
    BY <1>1 DEF Shares
  <2>2. h \in Int
    BY DEF Byte
  <2>3. /\ Owns(sd, h, n) <=> Owns(td, h, n) \/ Brings(td, mt, h, c)
        /\ ~(Owns(td, h, n) /\ Brings(td, mt, h, c))
    <3>1. Owns(td, h, n) <=> sd[n].start <= h /\ h <= td[n].end
      BY <1>1, <1>3 DEF Owns, InRange
    <3>2. Brings(td, mt, h, c) <=> td[n].end + 1 <= h /\ h <= sd[n].end
      BY <1>3 DEF Brings, InRange
    <3>3. Owns(sd, h, n) <=> sd[n].start <= h /\ h <= sd[n].end
      BY <1>1 DEF Owns, InRange
    <3>4. sd[n].start <= td[n].end /\ td[n].end < sd[n].end
      BY <1>3
    <3> QED
      BY ONLY <1>4, <2>2, <3>1, <3>2, <3>3, <3>4
  <2>4. ~Brings(sd, nt, h, c)
    BY <1>2 DEF Brings
  <2>5. \A k \in Node : k # n => (Owns(td, h, k) <=> Owns(sd, h, k))
    BY <1>1 DEF Owns, Peers
  <2>6. ASSUME NEW d \in Conn, d # c
        PROVE  Brings(td, mt, h, d) <=> Brings(sd, nt, h, d)
    <3>1. Pipe(sd, nt, d) \in Seq(PDU)
      BY WorldFacts
    <3>2. CASE Pipe(td, mt, d) = Pipe(sd, nt, d)
      BY <3>2 DEF Brings
    <3>3. CASE Closed(sd, n, d, Pipe(sd, nt, d), Pipe(td, mt, d))
      <4>1. /\ Pipe(td, mt, d) # <<>>
            /\ Pipe(sd, nt, d) # <<>> => Head(Pipe(td, mt, d)) = Head(Pipe(sd, nt, d))
            /\ Pipe(sd, nt, d) = <<>> => Head(Pipe(td, mt, d)).type = "NET_CLOSE_CONNECTION"
        BY <3>1, <3>3, ClosedHead
      <4> QED
        BY <4>1 DEF Brings
    <3> QED
      BY <2>6, <3>2, <3>3 DEF Splits
  <2> QED
    BY <2>1, <2>3, <2>4, <2>5, <2>6 DEF OneHolder
<1> QED
  BY <1>1, <1>5 DEF Shares

(* The request of k has been answered: nobody else has it. *)
LEMMA RequestsGone ==
  ASSUME NEW sd, NEW nt, Requests(sd, nt), NEW td, NEW mt, NEW x \in BoxId, NEW k \in Node,
         Asks(Boxes(sd, nt)[x], k), ~Asks(Boxes(td, mt)[x], k),
         \A n \in Node, y \in BoxId : Less(Boxes(sd, nt)[y], Boxes(td, mt)[y], n),
         mt.udp = nt.udp, \A n \in Node : n # k /\ Applicant(sd, nt, n) => Applicant(td, mt, n)
  PROVE  Requests(td, mt)
<1>1. ASSUME NEW n \in Node
      PROVE  /\ Once(Boxes(td, mt), mt.udp, n)
             /\ Sought(Boxes(td, mt), mt.udp, n) => Applicant(td, mt, n)
  <2>1. PICK b : b = Boxes(sd, nt)
    OBVIOUS
  <2>2. PICK d : d = Boxes(td, mt)
    OBVIOUS
  <2>3. Once(b, nt.udp, n) /\ (Sought(b, nt.udp, n) => Applicant(sd, nt, n))
    BY <2>1 DEF Requests
  <2>4. \A y \in BoxId : Less(b[y], d[y], n)
    BY <2>1, <2>2
  <2>5. \A e \in mt.udp : JoinOf(e.pdu, n) => e \in nt.udp
    OBVIOUS
  <2>6. Once(d, mt.udp, n) /\ (Sought(d, mt.udp, n) => Sought(b, nt.udp, n))
    BY <2>3, <2>4, <2>5, OnceLess
  <2>7. n = k => ~Sought(d, mt.udp, n)
    <3>1. n = k => Asks(b[x], n) /\ ~Asks(d[x], n)
      BY <2>1, <2>2
    <3> QED
      BY <2>3, <2>4, <3>1 DEF Sought, Once, Less
  <2> QED
    BY <2>2, <2>3, <2>6, <2>7
<1> QED
  BY <1>1 DEF Requests

(* The range is split, and the upper half is on its way to the node that joins. *)
LEMMA SplitsGood ==
  ASSUME NEW sd, NEW nt, World(sd, nt), NEW T \in SUBSET Node, Good(sd, nt, T), NEW td, NEW mt, World(td, mt),
         NEW n \in Node, NEW c \in Conn, NEW next, Splits(sd, nt, td, mt, n, c, next),
         Live(sd[n]), sd[n].last_pdu.src = c.to, td[n].queue = sd[n].queue, td[n].process = sd[n].process,
         td[n].state \in {"Q5", "Q6"}
  PROVE  Good(td, mt, T)
<1>1. Wires(sd, nt) /\ Requests(sd, nt) /\ Mail(sd, nt.udp) /\ Table(sd, nt.udp, T) /\ Shares(sd, nt)
  BY DEF Good
<1>2. Wires(td, mt)
  BY <1>1, SplitsWires
<1>3. Shares(td, mt)
  BY <1>1, SplitsShares
<1>4. Peers(sd, td, n) /\ mt.udp = nt.udp /\ Inside(sd[n]) /\ Inside(td[n]) /\ ~Live(td[n]) /\ ~Holds(sd, nt, c)
  BY DEF Splits, Dialed
<1>5. c.to \in Node /\ \A k \in Node : k # c.to /\ Applicant(sd, nt, k) => Applicant(td, mt, k)
  BY <1>1, SplitsWaits
<1>6. JoinNoted(sd[n]) \in Seq(PDU) /\ JoinNoted(td[n]) = <<>> /\ Asks(JoinNoted(sd[n]), c.to)
  <2>1. JoinNoted(sd[n]) \in Seq(PDU) /\ sd[n].last_pdu \in PDU /\ sd[n].last_pdu.type = "NET_JOIN"
    BY JoinNotedType
  <2>2. JoinNoted(sd[n]) = <<sd[n].last_pdu>> /\ JoinOf(sd[n].last_pdu, c.to)
    BY <2>1 DEF JoinNoted, JoinOf
  <2> QED
    BY <1>4, <2>1, <2>2, AsksSimple DEF JoinNoted
<1>7. ASSUME NEW k \in Node, NEW d \in Conn PROVE Less(Pipe(sd, nt, d), Pipe(td, mt, d), k)
  <2>1. Pipe(sd, nt, d) \in Seq(PDU) /\ Pipe(td, mt, d) \in Seq(PDU)
    BY WorldFacts
  <2>2. CASE d = c
    <3>1. \A i \in DOMAIN Pipe(td, mt, c) : Pipe(td, mt, c)[i].type # "NET_JOIN"
      <4>1. PICK q \in Seq(PDU) : q = Pipe(td, mt, c)
        BY <2>1, <2>2
      <4>2. q # <<>> /\ Head(q).type = "NET_JOIN_RESPONSE" /\ \A i \in DOMAIN q : i # 1 => q[i].type = "VAL_INSERT"
        BY <4>1 DEF Splits, Offered
      <4>3. Head(q) = q[1]
        BY <4>1, <4>2
      <4> QED
        BY <4>1, <4>2, <4>3
    <3> QED
      BY <2>1, <2>2, <3>1, LessSimple
  <2>3. CASE Pipe(td, mt, d) = Pipe(sd, nt, d)
    BY <2>1, <2>3, LessSimple
  <2>4. CASE Closed(sd, n, d, Pipe(sd, nt, d), Pipe(td, mt, d))
    <3>1. PICK x \in PDU : x.type = "NET_CLOSE_CONNECTION" /\ Pipe(td, mt, d) = Append(Pipe(sd, nt, d), x)
      BY <2>4 DEF Closed
    <3>2. ~JoinOf(x, k)
      BY <3>1 DEF JoinOf
    <3> QED
      BY <2>1, <3>1, <3>2, LessSimple
  <2> QED
    BY <2>2, <2>3, <2>4 DEF Splits
<1>8. Requests(td, mt)
  <2>1. ASSUME NEW k \in Node, NEW y \in BoxId PROVE Less(Boxes(sd, nt)[y], Boxes(td, mt)[y], k)
    <3>1. sd[n].queue["UDP"] \in Seq(PDU)
      BY WorldFacts
    <3>2. Less(sd[n].queue["UDP"], td[n].queue["UDP"], k) /\ Less(JoinNoted(sd[n]), JoinNoted(td[n]), k)
      BY <1>6, <3>1, LessSimple
    <3> QED
      BY <1>4, <1>7, <3>2, BoxesLess
  <2>2. PICK x : x = <<"noted", n>>
    OBVIOUS
  <2>3. x \in BoxId /\ Boxes(sd, nt)[x] = JoinNoted(sd[n]) /\ Boxes(td, mt)[x] = JoinNoted(td[n])
    BY <2>2, NodeBox
  <2>4. Asks(Boxes(sd, nt)[x], c.to) /\ ~Asks(Boxes(td, mt)[x], c.to)
    BY <1>6, <2>3, AsksSimple
  <2> QED
    BY <1>1, <1>4, <1>5, <2>1, <2>3, <2>4, RequestsGone
<1>9. NoMail(nt.udp, n) /\ Requested(td[n].queue["UDP"])
  BY <1>1, <1>4, InsideNoMail DEF Mail, Requested
<1>10. Mail(td, mt.udp)
  <2>1. nt.udp \in SUBSET nt.udp
    OBVIOUS
  <2> QED
    BY <1>1, <1>4, <1>9, <2>1, MailKept
<1>11. Table(td, mt.udp, T)
  <2>1. T \subseteq Node /\ \A d \in mt.udp : NodeReply(d) => d \in nt.udp
    BY <1>4
  <2> QED
    BY <1>1, <1>4, <2>1, TableKept
<1> QED
  BY <1>2, <1>3, <1>8, <1>10, <1>11 DEF Good

(* split_range cuts a range of two hashes or more in two. *)
LEMMA SplitRange ==
  ASSUME NEW s, s.start \in Byte, s.end \in Byte, s.start < s.end
  PROVE  s.start <= Middle(s) /\ Middle(s) < s.end /\ SplitStart(s) = Middle(s) + 1 /\ Middle(s) \in Byte
<1>1. PICK a \in Int, b \in Int, h \in Int :
        a = s.start /\ b = s.end /\ h = HASH_SIZE /\ 0 <= a /\ a < b /\ b < h
  BY HashSizeAssumption DEF Byte
<1>2. Span(s) = b - a
  BY <1>1, HashSizeAssumption DEF Span, u8
<1>3. a <= (b - a) \div 2 + a /\ (b - a) \div 2 + a < b
  BY ONLY <1>1
<1>4. Middle(s) = (b - a) \div 2 + a
  <2>1. Middle(s) = ((b - a) \div 2 + a) % h
    BY <1>1, <1>2 DEF Middle, u8
  <2> QED
    BY ONLY <1>1, <1>3, <2>1
<1>5. SplitStart(s) = Middle(s) + 1
  <2>1. SplitStart(s) = (Middle(s) + 1) % h
    BY <1>1 DEF SplitStart, u8
  <2>2. Middle(s) \in Int /\ 0 <= Middle(s) /\ Middle(s) + 1 < h
    BY ONLY <1>1, <1>3, <1>4
  <2> QED
    BY ONLY <2>1, <2>2, h \in Int
<1>6. Middle(s) \in Byte
  BY SplitType
<1> QED
  BY <1>1, <1>3, <1>4, <1>5, <1>6

(* The memory of a node that has made room. *)
Room(m, e, f, c, x, y) ==
  [ConnectedTo([[m EXCEPT !.end = e] EXCEPT !.values = f], c) EXCEPT !.last_pdu = NULL, !.state = x, !.at = y]

(* What MakeRoom changes at the node itself. *)
LEMMA RoomFields ==
  ASSUME NEW m \in Memory, NEW e \in Byte, NEW f \in [Key -> Seq(Value)], NEW c \in Conn,
         NEW x, NEW y, (x = "Q5" /\ y = "accept") \/ (x = "Q6" /\ y = "run"), NEW s, s = Room(m, e, f, c, x, y)
  PROVE  /\ s.state = x /\ s.at = y /\ s.start = m.start /\ s.end = e /\ s.successor = c /\ s.successor_listen = c.to
         /\ s.predecessor = m.predecessor /\ s.queue = m.queue /\ s.process = m.process
         /\ (s.should_close <=> m.should_close) /\ s.events = m.events
<1>1. PICK v : v = [m EXCEPT !.end = e]
  OBVIOUS
<1>2. /\ v \in Memory /\ v.start = m.start /\ v.end = e /\ v.predecessor = m.predecessor /\ v.queue = m.queue
      /\ v.process = m.process /\ (v.should_close <=> m.should_close) /\ v.events = m.events
  BY ONLY <1>1, m \in Memory, e \in Byte DEF Memory
<1>3. PICK w : w = [v EXCEPT !.values = f]
  OBVIOUS
<1>4. /\ w \in Memory /\ w.start = v.start /\ w.end = v.end /\ w.predecessor = v.predecessor /\ w.queue = v.queue
      /\ w.process = v.process /\ (w.should_close <=> v.should_close) /\ w.events = v.events
  BY ONLY <1>2, <1>3, f \in [Key -> Seq(Value)] DEF Memory
<1>5. s = [ConnectedTo(w, c) EXCEPT !.last_pdu = NULL, !.state = x, !.at = y]
  BY <1>1, <1>3 DEF Room
<1>6. /\ s.state = x /\ s.at = y /\ s.start = w.start /\ s.end = w.end /\ s.successor = c /\ s.successor_listen = c.to
      /\ s.predecessor = w.predecessor /\ s.queue = w.queue /\ s.process = w.process
      /\ (s.should_close <=> w.should_close) /\ s.events = w.events
  BY ONLY <1>4, <1>5 DEF Memory, ConnectedTo
<1> QED
  BY <1>2, <1>4, <1>6

(* What is written right after connecting waits on the connection. *)
Offering(nt, mt, c, pdus) ==
  /\ NetSound(mt) /\ mt.rst = {} /\ mt.udp = nt.udp /\ mt.bwd = nt.bwd
  /\ mt.backlog = [nt.backlog EXCEPT ![c.to] = Append(@, c)]
  /\ mt.fwd[c] = pdus /\ \A d \in Conn : d # c => mt.fwd[d] = nt.fwd[d]

(* NET_JOIN_RESPONSE and the entries go out on the new connection. *)
LEMMA OfferSent ==
  ASSUME NEW nt, NetSound(nt), nt.rst = {}, NEW c \in Conn, nt.fwd[c] = <<>>, NEW pdus \in Seq(PDU),
         NEW mt, mt = SendForward(Connect(nt, c), c, pdus)
  PROVE  Offering(nt, mt, c, pdus)
<1>1. PICK kt : kt = Connect(nt, c)
  OBVIOUS
<1>2. NetSound(kt)
  BY <1>1, ConnectSound
<1>3. /\ kt.rst = {} /\ kt.udp = nt.udp /\ kt.bwd = nt.bwd /\ kt.fwd = nt.fwd
      /\ kt.backlog = [nt.backlog EXCEPT ![c.to] = Append(@, c)]
  <2>1. nt \in Kernel
    BY DEF NetSound
  <2>2. /\ kt.rst = nt.rst \ {c} /\ kt.udp = nt.udp /\ kt.bwd = nt.bwd /\ kt.fwd = nt.fwd
        /\ kt.backlog = [nt.backlog EXCEPT ![c.to] = Append(@, c)]
    BY ONLY <1>1, <2>1 DEF Kernel, Connect
  <2> QED
    BY <2>2
<1>4. c \in Range(kt.backlog[c.to])
  <2>1. c.to \in Node /\ nt.backlog \in [Node -> Seq(Conn)]
    BY ConnFields, NetFields
  <2>2. nt.backlog[c.to] \in Seq(Conn) /\ kt.backlog[c.to] = Append(nt.backlog[c.to], c)
    BY <1>3, <2>1
  <2>3. PICK b \in Seq(Conn) : b = nt.backlog[c.to]
    BY <2>2
  <2>4. Len(b) + 1 \in DOMAIN Append(b, c) /\ Append(b, c)[Len(b) + 1] = c
    OBVIOUS
  <2> QED
    BY <2>2, <2>3, <2>4 DEF Range
<1>5. mt = [kt EXCEPT !.fwd[c] = @ \o pdus]
  BY <1>1, <1>4 DEF SendForward, AcceptorHolds
<1>6. /\ mt.rst = {} /\ mt.udp = nt.udp /\ mt.bwd = nt.bwd /\ mt.backlog = kt.backlog
      /\ mt.fwd = [nt.fwd EXCEPT ![c] = nt.fwd[c] \o pdus]
  BY <1>2, <1>3, <1>5 DEF NetSound, Kernel
<1>7. mt.fwd[c] = pdus /\ \A d \in Conn : d # c => mt.fwd[d] = nt.fwd[d]
  <2>1. nt.fwd \in [Conn -> Seq(PDU)] /\ <<>> \o pdus = pdus
    BY NetFields
  <2> QED
    BY <1>6, <2>1
<1>8. NetSound(mt)
  BY <1>1, <1>2, SendForwardSound
<1> QED
  BY <1>3, <1>6, <1>7, <1>8 DEF Offering

(* A node that was asked to make room was asked by one that waits for it. *)
LEMMA LiveApplicant ==
  ASSUME NodeInv, JoinInv, NEW n \in Node, Live(node[n]), NEW src, src = node[n].last_pdu.src
  PROVE  src \in Node /\ Applicant(node, net, src) /\ Running(src) /\ src # n
<1>1. World(node, net) /\ Requests(node, net)
  BY InvWorld DEF JoinInv, Good
<1>2. JoinNoted(node[n]) = <<node[n].last_pdu>> /\ node[n].last_pdu \in PDU /\ node[n].last_pdu.type = "NET_JOIN"
  BY <1>1, JoinNotedType DEF JoinNoted
<1>3. src \in Node /\ JoinOf(node[n].last_pdu, src)
  BY <1>2, PDUFields DEF JoinOf
<1>4. PICK x : x = <<"noted", n>>
  OBVIOUS
<1>5. x \in BoxId /\ Boxes(node, net)[x] = JoinNoted(node[n])
  BY <1>4, NodeBox
<1>6. Asks(Boxes(node, net)[x], src)
  BY <1>2, <1>3, <1>5, AsksSimple
<1>7. Applicant(node, net, src)
  BY <1>1, <1>3, <1>5, <1>6 DEF Requests, Sought
<1>8. node[src].state = "Q7" /\ Seat(node[src])
  BY <1>3, <1>7, Seated DEF Applicant, Asked
<1> QED
  BY <1>3, <1>7, <1>8 DEF Seat, Places, Running, Live

(* The kernel before the new connection: what was written on the old one. *)
Parted(n, nt) ==
  /\ NetSound(nt) /\ nt.bwd = net.bwd /\ nt.backlog = net.backlog /\ nt.rst = {} /\ nt.udp = net.udp
  /\ \A d \in Conn : nt.fwd[d] = net.fwd[d] \/ Closed(node, n, d, net.fwd[d], nt.fwd[d])

(* q5 and q13 give the upper half of the range away (node.rs:246, 493). *)
LEMMA MakeRoomGood ==
  ASSUME NodeInv, NodeInv', JoinInv, nodes \in SUBSET Node, nodes' = nodes, NEW n \in Node, Running(n), Live(node[n]),
         node[n].start < node[n].end, NEW next \in Node, Follows(node, net, next, node[n].end),
         NEW nt, Parted(n, nt), NEW x, NEW y,
         \/ x = "Q5" /\ y = "accept" /\ node[n].predecessor = NULL
         \/ x = "Q6" /\ y = "run" /\ node[n].predecessor # NULL,
         MakeRoom(n, node[n], next, nt, x, y)
  PROVE  JoinInv' /\ Admits(n)
<1>1. /\ Seat(node[n]) /\ NetSound(net) /\ Good(node, net, nodes) /\ node[n] \in Memory
      /\ World(node, net) /\ World(node', net') /\ Wires(node, net) /\ net.rst = {}
  BY Seated, InvWorldNext DEF JoinInv, NodeInv, Good
<1>2. PICK m \in Memory : m = node[n]
  BY <1>1
<1>3. PICK src \in Node : src = m.last_pdu.src /\ Applicant(node, net, src) /\ Running(src) /\ src # n
  BY <1>2, LiveApplicant
<1>4. PICK c : c = NewConn(n, src)
  OBVIOUS
<1>5. /\ Unused(n, src) # {}
      /\ \E sent \in Transferred(m, SplitStart(m), m.end) :
            Become(n, [ConnectedTo(Retained(split_range(m), SplitStart(m), m.end), c)
                         EXCEPT !.last_pdu = NULL, !.state = x, !.at = y],
                   SendForward(Connect(nt, c), c, <<JoinResponse(m, next)>> \o sent))
  BY <1>2, <1>3, <1>4 DEF MakeRoom
<1>6. c \in Conn /\ c.from = n /\ c.to = src /\ ~Holds(node, net, c) /\ ~Dials(node, c)
  BY <1>4, <1>5, NewConnType DEF Unused, AcceptorHolds, ConnectorHolds, Holds, Dials
<1>7. PICK sent \in Transferred(m, SplitStart(m), m.end) :
            Become(n, [ConnectedTo(Retained(split_range(m), SplitStart(m), m.end), c)
                         EXCEPT !.last_pdu = NULL, !.state = x, !.at = y],
                   SendForward(Connect(nt, c), c, <<JoinResponse(m, next)>> \o sent))
  BY <1>5
<1>8. PICK e \in Byte : e = Middle(m) /\ m.start <= e /\ e < m.end /\ SplitStart(m) = e + 1 /\ e + 1 \in Byte
  <2>1. m.start \in Byte /\ m.end \in Byte /\ m.start < m.end
    BY <1>2, MemoryFields
  <2>2. SplitStart(m) \in Byte
    BY <2>1, SplitType
  <2> QED
    BY <2>1, <2>2, SplitRange
<1>9. PICK f \in [Key -> Seq(Value)] :
         Retained(split_range(m), SplitStart(m), m.end) = [[m EXCEPT !.end = e] EXCEPT !.values = f]
  <2>1. split_range(m) = [m EXCEPT !.end = e] /\ split_range(m) \in Memory
    BY <1>8 DEF split_range, Memory
  <2>2. PICK v \in Memory : v = split_range(m)
    BY <2>1
  <2>3. PICK a, b : a = SplitStart(m) /\ b = m.end
    OBVIOUS
  <2>4. \E g \in [Key -> Seq(Value)] : Retained(v, a, b) = [v EXCEPT !.values = g]
    BY ONLY v \in Memory, RetainedType
  <2> QED
    BY <2>1, <2>2, <2>3, <2>4
<1>10. PICK r : r = JoinResponse(m, next)
  OBVIOUS
<1>11. r \in PDU /\ r.type = "NET_JOIN_RESPONSE" /\ r.next = next /\ r.range_start = e + 1 /\ r.range_end = m.end
  <2>1. m.end \in Byte
    BY MemoryFields
  <2>2. r = [type |-> "NET_JOIN_RESPONSE", next |-> next, range_start |-> e + 1, range_end |-> m.end]
    BY <1>8, <1>10 DEF JoinResponse
  <2> QED
    BY <1>8, <2>1, <2>2, PDUTypes
<1>12. sent \in Seq(PDU) /\ \A i \in DOMAIN sent : sent[i].type = "VAL_INSERT"
  BY TransferredType
<1>13. PICK q \in Seq(PDU) : q = <<r>> \o sent
  <2>1. <<r>> \in Seq(PDU)
    BY <1>11
  <2>2. \A a, b \in Seq(PDU) : a \o b \in Seq(PDU)
    OBVIOUS
  <2> QED
    BY ONLY <1>12, <2>1, <2>2
<1>14. Offered(q, next, e + 1, m.end)
  <2>1. <<r>> \in Seq(PDU) /\ Len(<<r>>) = 1 /\ <<r>>[1] = r
    BY <1>11
  <2>2. q # <<>> /\ Head(q) = r
    BY <1>13, <1>12, <2>1
  <2>3. \A i \in DOMAIN q : i # 1 => q[i].type = "VAL_INSERT"
    <3>1. \A i \in DOMAIN q : i # 1 => i - 1 \in DOMAIN sent /\ q[i] = sent[i - 1]
      BY <1>12, <1>13, <2>1
    <3> QED
      BY <1>12, <3>1
  <2> QED
    BY <1>11, <2>2, <2>3 DEF Offered
<1>15. PICK s : s = Room(m, e, f, c, x, y)
  OBVIOUS
<1>16. PICK mt : mt = SendForward(Connect(nt, c), c, q)
  OBVIOUS
<1>17. Become(n, s, mt)
  BY <1>7, <1>9, <1>10, <1>13, <1>15, <1>16 DEF Room
<1>18. /\ s.state = x /\ s.at = y /\ s.start = m.start /\ s.end = e /\ s.successor = c /\ s.successor_listen = c.to
       /\ s.predecessor = m.predecessor /\ s.queue = m.queue /\ s.process = m.process
       /\ (s.should_close <=> m.should_close) /\ s.events = m.events
  <2>1. (x = "Q5" /\ y = "accept") \/ (x = "Q6" /\ y = "run")
    OBVIOUS
  <2> QED
    BY ONLY <1>6, <1>15, <2>1, m \in Memory, e \in Byte, f \in [Key -> Seq(Value)], RoomFields
<1>19. Settle(s) = s
  BY <1>18 DEF Settle
<1>20. Pipe(node, net, c) = <<>> /\ nt.fwd[c] = <<>>
  <2>1. Pipe(node, net, c) = <<>>
    BY <1>1, <1>6 DEF Wires, Line
  <2>2. nt.fwd[c] = net.fwd[c]
    BY <1>6 DEF Parted, Closed
  <2> QED
    BY <1>6, <2>1, <2>2 DEF Pipe, Holds
<1>21. /\ NetSound(mt) /\ mt.rst = {} /\ mt.udp = nt.udp /\ mt.bwd = nt.bwd
       /\ mt.backlog = [nt.backlog EXCEPT ![c.to] = Append(@, c)]
       /\ mt.fwd[c] = q /\ \A d \in Conn : d # c => mt.fwd[d] = nt.fwd[d]
  <2>1. NetSound(nt) /\ nt.rst = {}
    BY DEF Parted
  <2>2. Offering(nt, mt, c, q)
    BY <1>6, <1>16, <1>20, <2>1, OfferSent
  <2> QED
    BY <2>2 DEF Offering
<1>22. net' = mt /\ node'[n] = s /\ Peers(node, node', n)
  BY <1>17, <1>19, <1>21, BecomeIs
<1>23. PICK td : td = node'
  OBVIOUS
<1>24. td[n] = s /\ Peers(node, td, n) /\ World(td, mt) /\ s \in Memory
  <2>1. td[n] = s /\ Peers(node, td, n) /\ World(td, mt)
    BY <1>1, <1>22, <1>23
  <2> QED
    BY <2>1 DEF World
<1>25. /\ Pipe(td, mt, c) = q
       /\ \A d \in Conn : d # c => \/ Pipe(td, mt, d) = Pipe(node, net, d)
                                   \/ Closed(node, n, d, Pipe(node, net, d), Pipe(td, mt, d))
  <2>1. \A k \in Node : td[k].predecessor = node[k].predecessor /\ td[k].queue = node[k].queue
    BY <1>2, <1>18, <1>24 DEF Peers
  <2>2. Pipe(td, mt, c) = q
    BY <1>3, <1>6, <1>21, <2>1 DEF Pipe, Holds
  <2>3. ASSUME NEW d \in Conn, d # c
        PROVE  \/ Pipe(td, mt, d) = Pipe(node, net, d)
               \/ Closed(node, n, d, Pipe(node, net, d), Pipe(td, mt, d))
    <3>1. d.to \in Node /\ mt.fwd[d] = nt.fwd[d]
      BY <1>21, <2>3, ConnFields
    <3>2. CASE nt.fwd[d] = net.fwd[d]
      BY <2>1, <3>1, <3>2 DEF Pipe
    <3>3. CASE Closed(node, n, d, net.fwd[d], nt.fwd[d])
      <4>1. PICK z \in PDU : /\ Dials(node, d) /\ d.from = n /\ z.type = "NET_CLOSE_CONNECTION"
                             /\ mt.fwd[d] = Append(net.fwd[d], z)
        BY <3>1, <3>3 DEF Closed
      <4>2. /\ net.fwd[d] \in Seq(PDU) /\ node[d.to].queue["PREDECESSOR"] \in Seq(PDU)
        BY <1>1, <3>1, WorldFacts
      <4>3. node[d.to].queue["PREDECESSOR"] \o Append(net.fwd[d], z) = Append(node[d.to].queue["PREDECESSOR"] \o net.fwd[d], z)
        BY <4>2, AppendConcat
      <4>4. Pipe(td, mt, d) = Append(Pipe(node, net, d), z)
        BY <2>1, <3>1, <4>1, <4>3 DEF Pipe
      <4> QED
        BY <4>1, <4>4 DEF Closed
    <3> QED
      BY <3>2, <3>3 DEF Parted
  <2> QED
    BY <2>2, <2>3
<1>26. Seat(s) /\ Inside(s) /\ ~Closing(s) /\ ~Live(s) /\ Inside(m)
  <2>1. (x = "Q5" /\ y = "accept" /\ m.predecessor = NULL) \/ (x = "Q6" /\ y = "run" /\ m.predecessor # NULL)
    BY <1>2
  <2>2. Inside(s) /\ Inside(m) /\ ~Closing(s) /\ ~Live(s)
    BY <1>2, <1>18, <2>1 DEF Inside, Inner, Live, Closing
  <2>3. Places(s)
    <3>1. m.process \in {"off", "running"} /\ ~m.should_close /\ m.process # "off"
      BY <1>1, <1>2 DEF Seat, Places, Running
    <3> QED
      BY <1>18, <2>1, <2>2, <3>1 DEF Places, Inner
  <2>4. Neighbours(s)
    <3>1. c # NULL
      BY <1>6, NullFacts
    <3>2. ~Whole(s)
      <4>1. m.end \in Byte
        BY MemoryFields
      <4> QED
        BY <1>8, <1>18, <4>1, HashSizeAssumption DEF Whole, Byte
    <3> QED
      BY <1>8, <1>18, <2>1, <2>2, <3>1, <3>2 DEF Neighbours
  <2>5. Queued(s)
    <3>1. Queued(m)
      BY <1>1, <1>2 DEF Seat
    <3> QED
      BY <1>18, <2>2, <3>1 DEF Queued
  <2> QED
    BY <2>2, <2>3, <2>4, <2>5 DEF Seat
<1>27. Dialed(node, net, td, mt, n, c)
  BY <1>2, <1>6, <1>18, <1>21, <1>24 DEF Dialed, Parted
<1>28. Splits(node, net, td, mt, n, c, next)
  <2>1. mt.bwd = net.bwd /\ mt.udp = net.udp /\ mt.rst = {}
    BY <1>21 DEF Parted
  <2>2. Offered(Pipe(td, mt, c), next, td[n].end + 1, node[n].end)
    BY <1>2, <1>14, <1>18, <1>24, <1>25
  <2> QED
    BY <1>2, <1>3, <1>6, <1>8, <1>18, <1>24, <1>25, <1>26, <1>27, <2>1, <2>2 DEF Splits
<1>29. Good(td, mt, nodes)
  <2>1. node[n].last_pdu.src = c.to /\ td[n].queue = node[n].queue /\ td[n].process = node[n].process
        /\ td[n].state \in {"Q5", "Q6"}
    BY <1>2, <1>3, <1>6, <1>18, <1>24
  <2> QED
    BY <1>1, <1>6, <1>24, <1>28, <2>1, SplitsGood
<1>30. Admits(n)
  <2>1. ~Applicant(node', net', src)
    <3>1. net'.backlog = [net.backlog EXCEPT ![src] = Append(@, c)] /\ net.backlog[src] \in Seq(Conn)
      BY <1>1, <1>6, <1>21, <1>22, WorldFacts DEF Parted
    <3>2. net.backlog \in [Node -> Seq(Conn)]
      BY <1>1, NetFields
    <3>3. net'.backlog[src] # <<>>
      <4>1. PICK b \in Seq(Conn) : b = net.backlog[src]
        BY <3>1
      <4>2. net'.backlog[src] = Append(b, c)
        BY <3>1, <3>2, <4>1
      <4>3. Append(b, c) # <<>>
        <5>1. c \in Conn
          BY <1>6
        <5>2. Len(Append(b, c)) = Len(b) + 1 /\ Len(b) \in Nat
          BY ONLY <5>1, b \in Seq(Conn)
        <5>3. Len(Append(b, c)) # 0
          BY ONLY <5>2
        <5> QED
          BY ONLY <5>3, Len(<<>>) = 0
      <4> QED
        BY <4>2, <4>3
    <3> QED
      BY <3>3 DEF Applicant
  <2>2. node'[n].state # "Q13" /\ node'[n].process = node[n].process
    BY <1>2, <1>18, <1>22
  <2> QED
    BY <1>2, <1>3, <1>22, <1>26, <2>1, <2>2 DEF Admits, Peers
<1> QED
  BY <1>22, <1>23, <1>29, <1>30, GoodNext

(* q5 makes room for the second node, or accepts its connection (node.rs:246). *)
LEMMA q5Good ==
  ASSUME JoinOnly, NodeInv, NodeInv', JoinInv, nodes \in SUBSET Node, nodes' = nodes, NEW n \in Node, q5(n)
  PROVE  JoinInv' /\ (Admits(n) \/ Steady({}))
<1>1. CASE At(n, "Q5", "run") /\ MakeRoom(n, node[n], n, net, "Q5", "accept")
  <2>1. Seat(node[n]) /\ node[n] \in Memory /\ NetSound(net) /\ net.rst = {}
    BY Seated
  <2>2. Running(n) /\ node[n].state = "Q5" /\ node[n].at = "run" /\ Live(node[n]) /\ Inside(node[n])
    BY <1>1 DEF At, Live, Inside, Inner
  <2>3. Whole(node[n]) /\ node[n].predecessor = NULL
    BY <2>1, <2>2 DEF Seat, Neighbours
  <2>4. node[n].start < node[n].end
    BY <2>3, HashSizeAssumption DEF JoinOnly, Whole
  <2>5. Follows(node, net, n, node[n].end)
    <3>1. u8(node[n].end + 1) = 0
      BY <2>3, HashSizeAssumption DEF Whole, u8
    <3> QED
      BY <2>2, <2>3, <3>1 DEF Follows, Expected, StartOf, Whole
  <2>6. Parted(n, net)
    BY <2>1 DEF Parted
  <2>7. PICK x, y : x = "Q5" /\ y = "accept"
    OBVIOUS
  <2>8. MakeRoom(n, node[n], n, net, x, y)
    BY <1>1, <2>7
  <2>9. \/ x = "Q5" /\ y = "accept" /\ node[n].predecessor = NULL
        \/ x = "Q6" /\ y = "run" /\ node[n].predecessor # NULL
    BY <2>3, <2>7
  <2> QED
    BY <2>2, <2>4, <2>5, <2>6, <2>8, <2>9, MakeRoomGood
<1>2. CASE accept_predecessor(n, "Q5", "Q6")
  <2>1. PICK x, y : x = "Q5" /\ y = "Q6"
    OBVIOUS
  <2>2. <<x, y>> \in {<<"Q5", "Q6">>, <<"Q17", "Q6">>, <<"Q7", "Q8">>} /\ accept_predecessor(n, x, y)
    BY <1>2, <2>1
  <2> QED
    BY <2>1, <2>2, AcceptGood
<1> QED
  BY <1>1, <1>2 DEF q5

(* The old connection gets NET_CLOSE_CONNECTION, and nothing is lost on it. *)
LEMMA PartedFromOld ==
  ASSUME NodeInv, JoinInv, NEW n \in Node, NEW old \in Conn, old = node[n].successor,
         NEW closing, closing = SendForward(net, old, <<[type |-> "NET_CLOSE_CONNECTION"]>>),
         NEW nt, nt = CloseConnector(closing, old)
  PROVE  Fails(closing, old) = {FALSE} /\ Parted(n, nt)
<1>1. NetSound(net) /\ net.rst = {} /\ Wires(node, net) /\ World(node, net)
  BY Seated DEF JoinInv, Good
<1>2. PICK x \in PDU : x = [type |-> "NET_CLOSE_CONNECTION"] /\ x.type = "NET_CLOSE_CONNECTION"
  BY PDUTypes
<1>3. old # NULL /\ Holds(node, net, old) /\ old.from = n /\ net.bwd[old] = <<>>
  BY <1>1, NullFacts DEF Wires, Link, Ends, Line
<1>4. <<x>> \in Seq(PDU) /\ net.fwd[old] \in Seq(PDU)
  BY <1>1, WorldFacts
<1>5. closing = [net EXCEPT !.fwd[old] = @ \o <<x>>]
  BY <1>2, <1>3 DEF SendForward, AcceptorHolds, Holds
<1>6. NetSound(closing)
  BY <1>1, <1>2, <1>4, SendForwardSound
<1>7. /\ closing.fwd = [net.fwd EXCEPT ![old] = net.fwd[old] \o <<x>>] /\ closing.bwd = net.bwd
      /\ closing.backlog = net.backlog /\ closing.rst = {} /\ closing.udp = net.udp
  BY <1>1, <1>5 DEF NetSound, Kernel
<1>8. Fails(closing, old) = {FALSE}
  BY <1>7 DEF Fails
<1>9. NetSound(nt)
  BY <1>6, CloseSound
<1>10. nt = [closing EXCEPT !.bwd[old] = <<>>, !.rst = closing.rst]
  BY <1>3, <1>7 DEF CloseConnector
<1>11. /\ nt.fwd = closing.fwd /\ nt.bwd = [net.bwd EXCEPT ![old] = <<>>]
       /\ nt.backlog = net.backlog /\ nt.rst = {} /\ nt.udp = net.udp
  <2>1. closing \in Kernel
    BY <1>6 DEF NetSound
  <2>2. PICK b : b = [closing.bwd EXCEPT ![old] = <<>>]
    OBVIOUS
  <2>3. nt = [closing EXCEPT !.bwd = b, !.rst = closing.rst]
    BY <1>10, <2>2
  <2>4. nt.fwd = closing.fwd /\ nt.bwd = b /\ nt.backlog = closing.backlog /\ nt.rst = closing.rst /\ nt.udp = closing.udp
    BY ONLY <2>1, <2>3 DEF Kernel
  <2> QED
    BY <1>7, <2>2, <2>4
<1>12. nt.bwd = net.bwd
  BY <1>1, <1>3, <1>11, NetFields
<1>13. ASSUME NEW d \in Conn
       PROVE  nt.fwd[d] = net.fwd[d] \/ Closed(node, n, d, net.fwd[d], nt.fwd[d])
  <2>1. CASE d # old
    BY <1>1, <1>7, <1>11, <2>1, NetFields
  <2>2. CASE d = old
    <3>1. nt.fwd[d] = net.fwd[d] \o <<x>>
      <4>1. net.fwd \in [Conn -> Seq(PDU)]
        BY <1>1, NetFields
      <4> QED
        BY ONLY <1>7, <1>11, <2>2, <4>1, old \in Conn
    <3>2. nt.fwd[d] = Append(net.fwd[d], x)
      <4>1. PICK f \in Seq(PDU) : f = net.fwd[d]
        BY <1>4, <2>2
      <4>2. f \o <<x>> = Append(f, x)
        BY ONLY f \in Seq(PDU), x \in PDU
      <4> QED
        BY <3>1, <4>1, <4>2
    <3> QED
      BY <1>2, <1>3, <2>2, <3>2 DEF Closed, Dials
  <2> QED
    BY <2>1, <2>2
<1> QED
  BY <1>8, <1>9, <1>11, <1>12, <1>13 DEF Parted

(* q13 makes room for a node that joins (node.rs:493). *)
LEMMA q13Good ==
  ASSUME Splittable, NodeInv, NodeInv', JoinInv, nodes \in SUBSET Node, nodes' = nodes, NEW n \in Node, q13(n)
  PROVE  JoinInv' /\ Admits(n)
<1>1. Seat(node[n]) /\ node[n] \in Memory /\ Wires(node, net)
  BY Seated DEF JoinInv, Good
<1>2. Running(n) /\ node[n].state = "Q13" /\ node[n].at = "run" /\ Live(node[n]) /\ Inside(node[n])
  BY DEF q13, At, Live, Inside, Inner
<1>3. node[n].successor # NULL /\ node[n].predecessor # NULL
  BY <1>1, <1>2 DEF Seat, Neighbours
<1>4. PICK old \in Conn : old = node[n].successor
  BY <1>1, <1>3, MemoryFields
<1>5. PICK closing : closing = SendForward(net, old, <<[type |-> "NET_CLOSE_CONNECTION"]>>)
  OBVIOUS
<1>6. PICK nt : nt = CloseConnector(closing, old)
  OBVIOUS
<1>7. Fails(closing, old) = {FALSE} /\ Parted(n, nt)
  BY <1>4, <1>5, <1>6, PartedFromOld
<1>8. PICK x, y : x = "Q6" /\ y = "run"
  OBVIOUS
<1>9. MakeRoom(n, node[n], old.to, nt, x, y)
  BY <1>4, <1>5, <1>6, <1>7, <1>8 DEF q13
<1>10. node[n].start < node[n].end
  BY <1>2 DEF Splittable
<1>11. old.to \in Node /\ Follows(node, net, old.to, node[n].end)
  BY <1>1, <1>3, <1>4, ConnFields DEF Wires, Link
<1>12. \/ x = "Q5" /\ y = "accept" /\ node[n].predecessor = NULL
       \/ x = "Q6" /\ y = "run" /\ node[n].predecessor # NULL
  BY <1>3, <1>8
<1> QED
  BY <1>2, <1>7, <1>9, <1>10, <1>11, <1>12, MakeRoomGood

(* q17 drops the old predecessor and accepts the next (node.rs:618). *)
LEMMA q17Good ==
  ASSUME NodeInv, NodeInv', JoinInv, nodes \in SUBSET Node, nodes' = nodes, NEW n \in Node, q17(n)
  PROVE  JoinInv' /\ Steady({})
<1>1. CASE At(n, "Q17", "run")
  BY <1>1, DropGood
<1>2. CASE accept_predecessor(n, "Q17", "Q6")
  <2>1. PICK x, y : x = "Q17" /\ y = "Q6"
    OBVIOUS
  <2>2. <<x, y>> \in {<<"Q5", "Q6">>, <<"Q17", "Q6">>, <<"Q7", "Q8">>} /\ accept_predecessor(n, x, y)
    BY <1>2, <2>1
  <2> QED
    BY <2>1, <2>2, AcceptGood
<1> QED
  BY <1>1, <1>2 DEF q17

(* Nobody is leaving, and nobody is told that somebody is. *)
LEMMA NobodyLeaves ==
  ASSUME NodeInv, JoinInv, NEW n \in Node
  PROVE  ~q10(n) /\ ~q11(n) /\ ~q15(n) /\ ~q16(n) /\ ~q18(n)
<1>1. node[n].state \in Outer \cup Inner
  BY Seated DEF Seat, Places
<1>2. \A x \in {"Q10", "Q11", "Q15", "Q16", "Q18"} : node[n].state # x
  BY <1>1 DEF Outer, Inner
<1>3. ~q10(n)
  BY <1>2 DEF q10, At
<1>4. ~q11(n)
  BY <1>2 DEF q11, At
<1>5. ~q15(n) /\ ~q16(n)
  BY <1>2 DEF q15, q16, At
<1>6. ~q18(n)
  BY <1>2 DEF q18, At
<1> QED
  BY <1>3, <1>4, <1>5, <1>6

(* Every step of a node keeps the invariant. *)
LEMMA RunGood ==
  ASSUME JoinOnly, Splittable, NodeInv, NodeInv', JoinInv, nodes \in SUBSET Node, nodes' = nodes, NEW n \in Node, run(n)
  PROVE  JoinInv'
<1>1. CASE q1(n) \/ q2(n) \/ q3(n) \/ q4(n)
  BY <1>1, q1Good, q2Good, q3Good, q4Good
<1>2. CASE q5(n) \/ q7(n) \/ q8(n)
  BY <1>2, q5Good, q7Good, q8Good
<1>3. CASE send_alive(n) \/ q6poll(n) \/ q6read(n) \/ q6handle(n)
  BY <1>3, SendAliveGood, q6pollGood, q6readGood, q6handleGood
<1>4. CASE q12(n) \/ q13(n) \/ q14(n) \/ q17(n)
  BY <1>4, q12Good, q13Good, q14Good, q17Good
<1> QED
  BY <1>1, <1>2, <1>3, <1>4, NobodyLeaves DEF run

(* At the start nobody runs and nothing was sent. *)
LEMMA InitGood == ASSUME Init PROVE JoinInv
<1>1. PICK off : off = new("off")
  OBVIOUS
<1>2. /\ off.process = "off" /\ off.state = "Q1" /\ off.at = "run" /\ off.last_pdu = NULL
      /\ off.successor = NULL /\ off.predecessor = NULL /\ off.queue = NoQueue /\ off.events = <<>>
      /\ ~off.should_close /\ off.alive_due
  BY <1>1 DEF new
<1>3. \A n \in Node : node[n] = off
  BY <1>1 DEF Init
<1>4. /\ \A c \in Conn : net.fwd[c] = <<>> /\ net.bwd[c] = <<>>
      /\ \A n \in Node : net.backlog[n] = <<>>
      /\ net.udp = {} /\ net.rst = {}
  BY DEF Init, QuietKernel
<1>5. ~Inside(off) /\ ~Told(off) /\ ~Asked(off) /\ ~Live(off) /\ ~Closing(off)
  BY <1>2 DEF Inside, Inner, Told, Asked, Live, Closing
<1>6. ASSUME NEW c \in Conn PROVE ~Holds(node, net, c) /\ Pipe(node, net, c) = <<>> /\ ~Dials(node, c)
  <2>1. c.to \in Node /\ c.from \in Node /\ c # NULL
    BY ConnFields, NullFacts
  <2> QED
    BY <1>2, <1>3, <1>4, <2>1 DEF Holds, Pipe, Dials, Range
<1>7. Wires(node, net)
  <2>1. ASSUME NEW n \in Node
        PROVE  /\ Seat(node[n]) /\ Ends(node, net, n) /\ Link(node, net, node[n]) /\ Alone(node, net, n)
               /\ Welcome(node, net, n) /\ Dropping(node, net, node[n])
    <3>1. Places(off)
      BY <1>2, <1>5 DEF Places, Outer
    <3>2. Neighbours(off) /\ Queued(off)
      BY <1>2, <1>5 DEF Neighbours, Queued, NoQueue, Token
    <3>3. Ends(node, net, n) /\ Link(node, net, node[n])
      BY <1>2, <1>3, <1>4 DEF Ends, Link, Range
    <3>4. Alone(node, net, n) /\ Welcome(node, net, n) /\ Dropping(node, net, node[n])
      BY <1>3, <1>5 DEF Alone, Welcome, Waits, Dropping
    <3> QED
      BY <1>3, <3>1, <3>2, <3>3, <3>4 DEF Seat
  <2>2. ASSUME NEW c \in Conn PROVE Line(node, net, c)
    <3>1. DOMAIN Pipe(node, net, c) = {}
      BY <1>6
    <3> QED
      BY <1>4, <1>6, <3>1 DEF Line
  <2> QED
    BY <1>4, <2>1, <2>2 DEF Wires
<1>8. Requests(node, net)
  <2>1. ASSUME NEW x \in BoxId PROVE Boxes(node, net)[x] = <<>>
    <3>1. CASE \E c \in Conn : x = <<"conn", c>>
      BY <1>6, <3>1, ConnBox
    <3>2. CASE \E n \in Node : x = <<"queue", n>>
      <4>1. NoQueue["UDP"] = <<>>
        BY DEF NoQueue, Token
      <4> QED
        BY <1>2, <1>3, <3>2, <4>1 DEF Boxes, Box
    <3>3. CASE \E n \in Node : x = <<"noted", n>>
      <4>1. PICK n \in Node : x = <<"noted", n>>
        BY <3>3
      <4>2. Boxes(node, net)[x] = JoinNoted(node[n])
        BY <4>1 DEF Boxes, Box
      <4> QED
        BY <1>3, <1>5, <4>2 DEF JoinNoted
    <3> QED
      BY <3>1, <3>2, <3>3, BoxForms
  <2>2. PICK b : b = Boxes(node, net)
    OBVIOUS
  <2>3. ASSUME NEW n \in Node PROVE Once(b, {}, n) /\ ~Sought(b, {}, n)
    BY <2>1, <2>2, AsksSimple DEF Once, Sought
  <2> QED
    BY <1>4, <2>2, <2>3 DEF Requests
<1>9. Mail(node, net.udp)
  <2>1. \A n \in Node : DOMAIN node[n].queue["UDP"] = {}
    BY <1>2, <1>3 DEF NoQueue, Token
  <2> QED
    BY <1>4, <2>1 DEF Mail
<1>10. Table(node, net.udp, nodes)
  <2>1. nodes = {}
    BY DEF Init
  <2> QED
    BY <1>2, <1>3, <1>4, <2>1 DEF Table
<1>11. Shares(node, net)
  BY <1>3, <1>5 DEF Shares
<1> QED
  BY <1>7, <1>8, <1>9, <1>10, <1>11 DEF JoinInv, Good

(* What the client sends. *)
LEMMA AnyRequest ==
  ASSUME ClientInsert \/ ClientRemove \/ ClientLookup
  PROVE  \E pdu \in PDU : pdu.type \in Values /\ ClientSend(pdu)
<1>1. CASE ClientInsert
  <2>1. PICK k \in Key, v \in Value : ClientSend([type |-> "VAL_INSERT", key |-> k, val |-> v])
    BY <1>1 DEF ClientInsert
  <2> QED
    BY <2>1, PDUTypes DEF Values
<1>2. CASE ClientRemove
  <2>1. PICK k \in Key : ClientSend([type |-> "VAL_REMOVE", key |-> k])
    BY <1>2 DEF ClientRemove
  <2> QED
    BY <2>1, PDUTypes DEF Values
<1>3. CASE ClientLookup
  <2>1. PICK k \in Key : ClientSend([type |-> "VAL_LOOKUP", key |-> k])
    BY <1>3 DEF ClientLookup
  <2> QED
    BY <2>1, PDUTypes DEF Values
<1> QED
  BY <1>1, <1>2, <1>3

(* Every step keeps the invariant. *)
LEMMA NextGood ==
  ASSUME JoinOnly, Splittable, RustInv, RustInv', JoinInv, [Next]_vars
  PROVE  JoinInv'
<1>1. NodeInv /\ NodeInv' /\ nodes \in SUBSET Node
  BY DEF RustInv, TypeOK
<1>2. CASE UNCHANGED vars
  BY <1>2 DEF vars, JoinInv
<1>3. ASSUME NEW n \in Node, StartNode(n) PROVE JoinInv'
  BY <1>1, <1>3, StartNodeGood
<1>4. ASSUME NEW n \in Node, CtrlC(n) PROVE JoinInv'
  BY <1>4 DEF CtrlC, JoinOnly
<1>5. ASSUME NEW n \in Node, RunNode(n) PROVE JoinInv'
  BY <1>1, <1>5, RunGood DEF RunNode
<1>6. ASSUME NEW n \in Node, NodeFault(n) PROVE JoinInv'
  BY <1>6 DEF NodeFault, Interrupted, JoinOnly
<1>7. ASSUME NEW n \in Node, NodeTimeout(n) PROVE JoinInv'
  <2>1. Inside(node[n]) /\ Seat(node[n])
    BY <1>1, <1>7, Seated DEF NodeTimeout, JoinInv, Good, Table
  <2>2. Running(n)
    BY <2>1 DEF Seat, Places, Inside, Inner, Running
  <2> QED
    BY <1>7, <2>2 DEF NodeTimeout, JoinOnly
<1>8. ASSUME NEW n \in Node, AliveDue(n) PROVE JoinInv'
  BY <1>1, <1>8, AliveDueGood
<1>9. CASE LoseDatagram \/ RunTracker
  BY <1>1, <1>9, LoseDatagramGood, RunTrackerGood
<1>10. CASE ClientReceive
  BY <1>1, <1>10, ClientReceiveGood
<1>11. CASE ClientInsert \/ ClientRemove \/ ClientLookup
  <2>1. PICK pdu \in PDU : pdu.type \in Values /\ ClientSend(pdu)
    BY <1>11, AnyRequest
  <2> QED
    BY <1>1, <2>1, ClientSendGood
<1> QED
  BY <1>2, <1>3, <1>4, <1>5, <1>6, <1>7, <1>8, <1>9, <1>10, <1>11 DEF Next

(***************************************************************************)
(* What the invariant says about the network.                              *)
(***************************************************************************)

(* A NET_JOIN_RESPONSE is the first PDU of a stream of which nothing was read. *)
LEMMA OfferPlaces ==
  ASSUME NodeInv, JoinInv, NEW c \in Conn
  PROVE  /\ \A j \in DOMAIN net.fwd[c] : /\ net.fwd[c][j].type # "NET_NEW_RANGE"
                                         /\ net.fwd[c][j].type = "NET_JOIN_RESPONSE" =>
                                               j = 1 /\ Pipe(node, net, c) = net.fwd[c]
         /\ \A h : Brings(node, net, h, c) => Pipe(node, net, c) = net.fwd[c]
<1>1. World(node, net) /\ Wires(node, net)
  BY InvWorld DEF JoinInv, Good
<1>2. c.to \in Node /\ net.fwd[c] \in Seq(PDU) /\ node[c.to].queue["PREDECESSOR"] \in Seq(PDU) /\ c # NULL
  BY <1>1, WorldFacts, ConnFields, NullFacts
<1>3. PICK f \in Seq(PDU), q \in Seq(PDU), p \in Seq(PDU) :
        f = net.fwd[c] /\ q = node[c.to].queue["PREDECESSOR"] /\ p = Pipe(node, net, c)
  BY <1>1, <1>2, WorldFacts
<1>4. Orderly(node, net, c, p)
  BY <1>1, <1>3, LineOrderly DEF Wires
<1>5. (node[c.to].predecessor = c /\ p = q \o f) \/ (node[c.to].predecessor # c /\ p = f)
  BY <1>3 DEF Pipe
<1>6. ASSUME NEW j \in DOMAIN f
      PROVE  /\ f[j].type # "NET_NEW_RANGE"
             /\ f[j].type = "NET_JOIN_RESPONSE" => j = 1 /\ p = f
  <2>1. CASE p = f
    BY <1>4, <2>1 DEF Orderly, Traffic
  <2>2. CASE p = q \o f
    <3>1. Len(q) + j \in DOMAIN p /\ p[Len(q) + j] = f[j] /\ j \in Nat /\ j >= 1 /\ Len(q) \in Nat
      BY <2>2
    <3>2. /\ f[j].type # "NET_NEW_RANGE"
          /\ f[j].type = "NET_JOIN_RESPONSE" => Len(q) + j = 1
      BY <1>4, <3>1 DEF Orderly, Traffic
    <3>3. f[j].type = "NET_JOIN_RESPONSE" => j = 1 /\ Len(q) = 0
      BY <3>1, <3>2
    <3>4. Len(q) = 0 => p = f
      BY <2>2
    <3> QED
      BY <3>2, <3>3, <3>4
  <2> QED
    BY <1>5, <2>1, <2>2
<1>7. ASSUME NEW h, Brings(node, net, h, c) PROVE p = f
  <2>1. p # <<>> /\ Head(p).type = "NET_JOIN_RESPONSE"
    BY <1>3, <1>7 DEF Brings
  <2>2. 1 \in DOMAIN p /\ p[1].type = "NET_JOIN_RESPONSE"
    BY <2>1
  <2>3. Waits(node, net, c.to)
    BY <1>4, <2>2 DEF Orderly
  <2>4. ~Inside(node[c.to])
    BY <2>3, Apart DEF Waits
  <2>5. q = <<>>
    BY <1>2, <1>3, <2>4, Seated DEF Seat, Queued, NoQueue, Token
  <2>6. <<>> \o f = f
    OBVIOUS
  <2> QED
    BY <1>5, <2>5, <2>6
<1> QED
  BY <1>3, <1>6, <1>7

(* Nothing that was read and is still to be handled offers a range. *)
LEMMA InboxOffersNothing ==
  ASSUME NodeInv, JoinInv, NEW n \in Node, NEW t \in Token, NEW i \in DOMAIN node[n].queue[t]
  PROVE  node[n].queue[t][i].type \notin {"NET_JOIN_RESPONSE", "NET_NEW_RANGE"}
<1>1. World(node, net) /\ Wires(node, net) /\ Mail(node, net.udp)
  BY InvWorld DEF JoinInv, Good
<1>2. Queued(node[n]) /\ Ends(node, net, n)
  BY <1>1 DEF Wires, Seat
<1>3. CASE t = "UDP"
  <2>1. node[n].queue[t][i].type \in Values \cup {"NET_JOIN"}
    BY <1>1, <1>3 DEF Mail
  <2> QED
    BY <2>1 DEF Values
<1>4. CASE t = "SUCCESSOR"
  BY <1>2, <1>4 DEF Queued
<1>5. CASE t = "PREDECESSOR"
  <2>1. node[n].predecessor # NULL /\ Inside(node[n])
    BY <1>2, <1>5 DEF Queued, NoQueue, Token
  <2>2. PICK c \in Conn : c = node[n].predecessor /\ c.to = n
    BY <1>1, <1>2, <2>1, WorldFacts DEF Ends
  <2>3. PICK f \in Seq(PDU), q \in Seq(PDU) : f = net.fwd[c] /\ q = node[n].queue["PREDECESSOR"]
    BY <1>1, <2>2, WorldFacts
  <2>8. Pipe(node, net, c) = q \o f
    BY <2>2, <2>3 DEF Pipe
  <2>9. Orderly(node, net, c, Pipe(node, net, c))
    BY <1>1, LineOrderly DEF Wires
  <2>4. Orderly(node, net, c, q \o f)
    BY <2>8, <2>9
  <2>10. i \in DOMAIN q
    BY <1>5, <2>3
  <2>5. i \in DOMAIN q /\ i \in DOMAIN (q \o f) /\ (q \o f)[i] = q[i]
    <3>1. i \in 1 .. Len(q) /\ Len(q) \in Nat /\ Len(f) \in Nat
      BY <2>10
    <3>2. DOMAIN (q \o f) = 1 .. Len(q) + Len(f)
      OBVIOUS
    <3>3. (q \o f)[i] = q[i]
      BY ONLY <3>1, q \in Seq(PDU), f \in Seq(PDU)
    <3> QED
      BY <2>10, <3>1, <3>2, <3>3
  <2>6. ~Waits(node, net, c.to)
    BY <2>1, <2>2, Apart DEF Waits
  <2>7. q[i].type # "NET_JOIN_RESPONSE" /\ q[i].type \in Traffic
    BY <2>4, <2>5, <2>6 DEF Orderly
  <2> QED
    BY <1>5, <2>3, <2>7 DEF Traffic
<1> QED
  BY <1>3, <1>4, <1>5 DEF Token

(* The elements of a set of offers. *)
LEMMA OffersElement ==
  ASSUME NEW queues, NEW h, NEW x
  PROVE  x \in Offers(queues, h) <=> \E c \in DOMAIN queues : \E j \in DOMAIN queues[c] : Gives(queues[c][j], h) /\ x = <<c, j>>
  BY DEF Offers

(* OneHolder, with Cardinality: RangesPartition. *)
LEMMA PartitionHolds == ASSUME NodeInv, JoinInv PROVE RangesPartition
<1> SUFFICES ASSUME Serving # {}, NEW h \in Byte
             PROVE  Cardinality(Owners(h)) + Cardinality(Offers(net.fwd, h)) + Cardinality(Offers(net.bwd, h))
                        + Cardinality(Offers(Inbox, h)) + Cardinality(Takers(h)) = 1
  BY DEF RangesPartition
<1>1. World(node, net) /\ Wires(node, net) /\ Shares(node, net) /\ NetSound(net)
  BY InvWorld DEF JoinInv, Good, NodeInv
<1>2. ASSUME NEW n \in Node PROVE n \in Serving <=> Inside(node[n])
  <2>1. Places(node[n])
    BY Seated DEF Seat
  <2>2. Inside(node[n]) => n \in Serving
    BY <2>1 DEF Inside, Inner, Places, Serving, Running, At
  <2>3. n \in Serving => Inside(node[n])
    BY <2>1 DEF Inside, Inner, Outer, Places, Serving
  <2> QED
    BY <2>2, <2>3
<1>3. OneHolder(node, net, h)
  <2>1. \E n \in Node : Inside(node[n])
    BY <1>2 DEF Serving
  <2> QED
    BY <1>1, <2>1 DEF Shares
<1>4. \A n : n \in Owners(h) <=> n \in Node /\ Owns(node, h, n)
  BY <1>2 DEF Owners, Owns, Serving
<1>5. Takers(h) = {}
  <2>1. \A n \in Node : node[n].state # "Q15"
    BY Seated DEF Seat, Places, Outer, Inner
  <2> QED
    BY <2>1 DEF Takers
<1>6. Offers(net.bwd, h) = {}
  <2>1. DOMAIN net.bwd = Conn /\ \A c \in Conn : DOMAIN net.bwd[c] = {}
    <3>1. \A c \in Conn : net.bwd[c] = <<>>
      BY <1>1 DEF Wires, Line
    <3> QED
      BY <1>1, <3>1, NetFields
  <2>2. \A x : x \notin Offers(net.bwd, h)
    BY <2>1, OffersElement
  <2> QED
    BY <2>2
<1>7. Offers(Inbox, h) = {}
  <2>1. ASSUME NEW x, x \in Offers(Inbox, h) PROVE FALSE
    <3>1. PICK a \in DOMAIN Inbox : \E j \in DOMAIN Inbox[a] : Gives(Inbox[a][j], h)
      BY <2>1, OffersElement
    <3>2. PICK n \in Node, t \in Token : a = <<n, t>> /\ Inbox[a] = node[n].queue[t]
      BY <3>1 DEF Inbox
    <3>3. PICK j \in DOMAIN node[n].queue[t] : Gives(node[n].queue[t][j], h)
      BY <3>1, <3>2
    <3> QED
      BY <3>3, InboxOffersNothing DEF Gives
  <2> QED
    BY <2>1
<1>8. \A x : x \in Offers(net.fwd, h) <=> \E c \in Conn : Brings(node, net, h, c) /\ x = <<c, 1>>
  <2>1. DOMAIN net.fwd = Conn
    BY <1>1, NetFields
  <2>2. ASSUME NEW c \in Conn, NEW j \in DOMAIN net.fwd[c], Gives(net.fwd[c][j], h)
        PROVE  j = 1 /\ Brings(node, net, h, c)
    <3>1. net.fwd[c][j].type = "NET_JOIN_RESPONSE" /\ j = 1 /\ Pipe(node, net, c) = net.fwd[c]
      BY <2>2, OfferPlaces DEF Gives
    <3>2. net.fwd[c] \in Seq(PDU) /\ net.fwd[c] # <<>> /\ Head(net.fwd[c]) = net.fwd[c][j]
      BY <1>1, <2>2, <3>1, WorldFacts
    <3> QED
      BY <2>2, <3>1, <3>2 DEF Brings, Gives
  <2>3. ASSUME NEW c \in Conn, Brings(node, net, h, c)
        PROVE  1 \in DOMAIN net.fwd[c] /\ Gives(net.fwd[c][1], h)
    <3>1. PICK f \in Seq(PDU) : f = net.fwd[c]
      BY <1>1, WorldFacts
    <3>2. Pipe(node, net, c) = f
      BY <2>3, <3>1, OfferPlaces
    <3>3. f # <<>> /\ Head(f).type = "NET_JOIN_RESPONSE" /\ InRange(h, Head(f).range_start, Head(f).range_end)
      BY <2>3, <3>2 DEF Brings
    <3>4. 1 \in DOMAIN f /\ Head(f) = f[1]
      BY <3>3
    <3> QED
      BY <3>1, <3>3, <3>4 DEF Gives
  <2> QED
    BY <2>1, <2>2, <2>3, OffersElement
<1>9. Cardinality({}) = 0
  BY FS_EmptySet
<1>10. CASE \E n \in Node : Owns(node, h, n)
  <2>1. PICK n \in Node : Owns(node, h, n)
    BY <1>10
  <2>2. Owners(h) = {n} /\ Offers(net.fwd, h) = {}
    BY <1>3, <1>4, <1>8, <2>1 DEF OneHolder
  <2>3. /\ Cardinality(Owners(h)) = 1 /\ Cardinality(Offers(net.fwd, h)) = 0 /\ Cardinality(Offers(net.bwd, h)) = 0
        /\ Cardinality(Offers(Inbox, h)) = 0 /\ Cardinality(Takers(h)) = 0
    BY <1>5, <1>6, <1>7, <1>9, <2>2, FS_Singleton, Zenon
  <2> QED
    BY <2>3
<1>11. CASE ~\E n \in Node : Owns(node, h, n)
  <2>1. PICK c \in Conn : Brings(node, net, h, c)
    BY <1>3, <1>11 DEF OneHolder
  <2>2. Owners(h) = {} /\ Offers(net.fwd, h) = {<<c, 1>>}
    BY <1>3, <1>4, <1>8, <1>11, <2>1 DEF OneHolder
  <2>3. /\ Cardinality(Owners(h)) = 0 /\ Cardinality(Offers(net.fwd, h)) = 1 /\ Cardinality(Offers(net.bwd, h)) = 0
        /\ Cardinality(Offers(Inbox, h)) = 0 /\ Cardinality(Takers(h)) = 0
    BY <1>5, <1>6, <1>7, <1>9, <2>2, FS_Singleton, Zenon
  <2> QED
    BY <2>3
<1> QED
  BY <1>10, <1>11

(* With nothing on the way, Link is QuietRing. *)
LEMMA RingHolds == ASSUME NodeInv, JoinInv PROVE QuietRing
<1> SUFFICES ASSUME Quiet, NEW n \in Members
             PROVE  LET s == node[n]
                    IN  IF Members = {n} THEN s.successor = NULL /\ s.predecessor = NULL
                        ELSE /\ s.successor # NULL
                             /\ LET m == s.successor.to
                                IN  /\ m \in Members /\ m = s.successor_listen
                                    /\ node[m].predecessor = s.successor
                                    /\ node[m].start = u8(s.end + 1)
  BY DEF QuietRing
<1>1. World(node, net) /\ Wires(node, net)
  BY InvWorld DEF JoinInv, Good
<1>2. n \in Node /\ Inside(node[n]) /\ node[n].at = "run"
  BY DEF Members, At, Inside, Inner
<1>3. /\ Seat(node[n]) /\ Ends(node, net, n) /\ Link(node, net, node[n]) /\ Alone(node, net, n)
  BY <1>1, <1>2 DEF Wires
<1>4. \A m \in Node : net.backlog[m] = <<>>
  BY DEF Quiet, QuietKernel
<1>5. ASSUME NEW m \in Node, Expected(node, net, m) PROVE m \in Members /\ Inside(node[m])
  <2>1. m \in Members
    BY <1>5, ExpectedRuns DEF Quiet
  <2> QED
    BY <2>1 DEF Members, At, Inside, Inner
<1>6. ASSUME node[n].successor # NULL
      PROVE  /\ node[n].successor.to \in Members /\ node[n].successor.to # n
             /\ node[n].successor.to = node[n].successor_listen
             /\ node[node[n].successor.to].predecessor = node[n].successor
             /\ node[node[n].successor.to].start = u8(node[n].end + 1)
  <2>1. PICK c \in Conn : c = node[n].successor
    BY <1>1, <1>2, <1>6, WorldFacts
  <2>2. /\ c.to \in Node /\ c.to # n /\ node[n].successor_listen = c.to /\ Holds(node, net, c)
        /\ Follows(node, net, c.to, node[n].end)
    BY <1>3, <1>6, <2>1, ConnFields DEF Link, Ends
  <2>3. c.to \in Members /\ Inside(node[c.to]) /\ node[c.to].start = u8(node[n].end + 1)
    BY <1>5, <2>2 DEF Follows, StartOf
  <2>4. node[c.to].predecessor = c
    BY <1>4, <2>2 DEF Holds, Range
  <2> QED
    BY <2>1, <2>2, <2>3, <2>4
<1>7. node[n].successor = NULL => node[n].predecessor = NULL
  BY <1>2, <1>3 DEF Seat, Neighbours
<1>8. CASE Members = {n}
  BY <1>6, <1>7, <1>8
<1>9. CASE Members # {n}
  <2>1. PICK m \in Node : m # n /\ Inside(node[m])
    BY <1>9 DEF Members, At, Inside, Inner
  <2>2. node[n].successor # NULL
    BY <1>2, <1>3, <2>1 DEF Alone
  <2> QED
    BY <1>6, <1>9, <2>2
<1> QED
  BY <1>8, <1>9

(* Places leaves out the panicked process. *)
LEMMA NoPanicHolds == ASSUME NodeInv, JoinInv PROVE NoPanic
  BY Seated DEF NoPanic, Seat, Places

(***************************************************************************)
(* Joins that do not overlap.                                              *)
(***************************************************************************)

(* A NET_JOIN that is under way comes from a node that waits for an answer;
   there is one of each node. *)
LEMMA UnderwayAsked ==
  ASSUME NEW sd, NEW nt, World(sd, nt), Wires(sd, nt), Requests(sd, nt), NEW p \in PDU, Underway(sd, nt, p)
  PROVE  /\ p.src \in Node /\ JoinOf(p, p.src) /\ p.max \in Node \cup {NULL}
         /\ Applicant(sd, nt, p.src)
         /\ \A d \in nt.udp : JoinOf(d.pdu, p.src) => p = d.pdu
<1>1. PICK k \in Node : k = p.src /\ JoinOf(p, k) /\ p.max \in Node \cup {NULL}
  BY PDUFields DEF Underway, JoinOf
<1>2. \A q \in Seq(PDU) : p \in Range(q) => Asks(q, k)
  BY <1>1 DEF Range, Asks
<1>3. ASSUME NEW c \in Conn, NEW q \in Seq(PDU), NEW r \in Seq(PDU), Pipe(sd, nt, c) = q \o r,
             p \in Range(q) \/ p \in Range(r)
      PROVE  \E x \in BoxId : Asks(Boxes(sd, nt)[x], k)
  <2>1. PICK i \in DOMAIN (q \o r) : (q \o r)[i] = p
    <3>1. CASE p \in Range(q)
      <4>1. PICK i \in DOMAIN q : q[i] = p
        BY <3>1 DEF Range
      <4>2. i \in DOMAIN (q \o r) /\ (q \o r)[i] = p
        BY <4>1
      <4> QED
        BY <4>2
    <3>2. CASE p \in Range(r)
      <4>1. PICK i \in DOMAIN r : r[i] = p
        BY <3>2 DEF Range
      <4>2. Len(q) + i \in DOMAIN (q \o r) /\ (q \o r)[Len(q) + i] = p
        BY <4>1
      <4> QED
        BY <4>2
    <3> QED
      BY <1>3, <3>1, <3>2
  <2>2. Asks(q \o r, k)
    BY <1>1, <2>1 DEF Asks
  <2> QED
    BY <1>3, <2>2, ConnBox
<1>4. ASSUME NEW n \in Node, NEW token \in Token, p \in Range(sd[n].queue[token])
      PROVE  \E x \in BoxId : Asks(Boxes(sd, nt)[x], k)
  <2>1. Seat(sd[n]) /\ Ends(sd, nt, n)
    BY DEF Wires
  <2>2. token # "SUCCESSOR"
    BY <1>4, <2>1 DEF Seat, Queued, Range
  <2>3. CASE token = "UDP"
    <3>1. PICK q \in Seq(PDU) : q = sd[n].queue["UDP"]
      BY WorldFacts
    <3>2. Asks(q, k)
      BY <1>2, <1>4, <2>3, <3>1
    <3>3. PICK x \in BoxId : x = <<"queue", n>>
      BY DEF BoxId
    <3>4. Boxes(sd, nt)[x] = q
      BY <3>1, <3>3 DEF Boxes, Box
    <3> QED
      BY <3>2, <3>4
  <2>4. CASE token = "PREDECESSOR"
    <3>1. sd[n].predecessor # NULL
      BY <1>4, <2>1, <2>4 DEF Seat, Queued, Range
    <3>2. PICK c \in Conn : c = sd[n].predecessor /\ c.to = n
      BY <2>1, <3>1, WorldFacts DEF Ends
    <3>3. PICK q \in Seq(PDU), r \in Seq(PDU) : q = sd[n].queue["PREDECESSOR"] /\ r = nt.fwd[c]
      BY WorldFacts
    <3>4. Pipe(sd, nt, c) = q \o r
      BY <3>2, <3>3 DEF Pipe
    <3> QED
      BY <1>3, <1>4, <2>4, <3>3, <3>4
  <2> QED
    BY <2>2, <2>3, <2>4 DEF Token
<1>5. ASSUME NEW n \in Node, Live(sd[n]), p = sd[n].last_pdu
      PROVE  \E x \in BoxId : Asks(Boxes(sd, nt)[x], k)
  <2>1. JoinNoted(sd[n]) = <<p>>
    BY <1>5 DEF JoinNoted
  <2>2. Asks(<<p>>, k)
    BY <1>1, AsksSimple
  <2>3. PICK x \in BoxId : x = <<"noted", n>>
    BY DEF BoxId
  <2>4. Boxes(sd, nt)[x] = <<p>>
    BY <2>1, <2>3 DEF Boxes, Box
  <2> QED
    BY <2>2, <2>4
<1>6. ASSUME NEW c \in Conn, p \in Range(nt.fwd[c])
      PROVE  \E x \in BoxId : Asks(Boxes(sd, nt)[x], k)
  <2>1. PICK q \in Seq(PDU), r \in Seq(PDU) : r = nt.fwd[c] /\ Pipe(sd, nt, c) = q \o r
    <3>1. PICK r \in Seq(PDU) : r = nt.fwd[c]
      BY WorldFacts
    <3>2. PICK q \in Seq(PDU) : q = sd[c.to].queue["PREDECESSOR"]
      BY WorldFacts
    <3>3. <<>> \o r = r /\ <<>> \in Seq(PDU)
      OBVIOUS
    <3> QED
      BY <3>1, <3>2, <3>3 DEF Pipe
  <2> QED
    BY <1>3, <1>6, <2>1
<1>7. (\E x \in BoxId : Asks(Boxes(sd, nt)[x], k)) \/ \E d \in nt.udp : p = d.pdu
  BY <1>4, <1>5, <1>6 DEF Underway
<1>8. Once(Boxes(sd, nt), nt.udp, k) /\ (Sought(Boxes(sd, nt), nt.udp, k) => Applicant(sd, nt, k))
  BY DEF Requests
<1>9. Sought(Boxes(sd, nt), nt.udp, k)
  BY <1>1, <1>7 DEF Sought
<1>10. ASSUME NEW d \in nt.udp, JoinOf(d.pdu, k) PROVE p = d.pdu
  BY <1>1, <1>7, <1>8, <1>10 DEF Once
<1> QED
  BY <1>1, <1>8, <1>9, <1>10

(* While one node at most is on its way in, its NET_JOIN is the only one. *)
LEMMA SerialFrom ==
  ASSUME NEW sd, NEW nt, NEW T, World(sd, nt), Good(sd, nt, T),
         \A n, m \in Node : Arriving(sd[n]) /\ Arriving(sd[m]) => n = m,
         \A n \in Node : Chosen(sd, n),
         \A n \in Node : Applicant(sd, nt, n) => \E d \in nt.udp : JoinOf(d.pdu, n) /\ d.pdu.max = NULL
  PROVE  Serial(sd, nt)
<1>1. Wires(sd, nt) /\ Requests(sd, nt)
  BY DEF Good
<1>2. ASSUME NEW p \in PDU, Underway(sd, nt, p) PROVE Marked(sd, p)
  <2>1. PICK k \in Node : k = p.src /\ Applicant(sd, nt, k) /\ \A d \in nt.udp : JoinOf(d.pdu, k) => p = d.pdu
    BY <1>1, <1>2, UnderwayAsked
  <2>2. p.max = NULL
    BY <2>1
  <2> QED
    BY <2>2 DEF Marked
<1> QED
  BY <1>2 DEF Serial

(* Who waits for an answer to NET_JOIN is on its way in. *)
LEMMA ApplicantArrives ==
  ASSUME NEW sd, NEW nt, Wires(sd, nt), NEW n \in Node, Applicant(sd, nt, n)
  PROVE  Arriving(sd[n])
<1>1. Seat(sd[n]) /\ sd[n].state = "Q7"
  BY DEF Wires, Applicant, Asked
<1> QED
  BY <1>1 DEF Seat, Places, Arriving, Inside, Inner

(* Nobody comes, nobody goes, and every NET_JOIN was there before or is one of
   X, which name nodes that have something to split. *)
LEMMA SteadySerial ==
  ASSUME SerialInv, NEW X, Steady(X), \A p \in X : Marked(node, p)
  PROVE  SerialInv'
<1>1. PICK sd, mt : sd = node' /\ mt = net'
  OBVIOUS
<1>2. /\ \A m \in Node : /\ sd[m].start = node[m].start /\ sd[m].end = node[m].end
                         /\ Arriving(sd[m]) <=> Arriving(node[m])
                         /\ Chosen(sd, m)
      /\ \A p \in PDU : Underway(sd, mt, p) => Underway(node, net, p) \/ p \in X
  BY <1>1 DEF Steady, SerialInv, Serial, Arriving
<1>3. ASSUME NEW p \in PDU, Underway(sd, mt, p) PROVE Marked(sd, p)
  <2>1. Marked(node, p)
    BY <1>2, <1>3 DEF SerialInv, Serial
  <2>2. p.max \in Node \cup {NULL}
    BY <1>3, PDUFields DEF Underway
  <2> QED
    BY <1>2, <2>1, <2>2 DEF Marked
<1>4. Serial(sd, mt)
  BY <1>2, <1>3 DEF SerialInv, Serial
<1> QED
  BY <1>1, <1>4 DEF SerialInv

(* n is the only node on its way in. *)
LEMMA AdvancesSerial ==
  ASSUME NodeInv', JoinInv', SerialInv, NEW n \in Node, Advances(n), \A m \in Node : Arriving(node[m]) => m = n
  PROVE  SerialInv'
<1>1. PICK sd, mt, T : sd = node' /\ mt = net' /\ Good(sd, mt, T) /\ World(sd, mt)
  BY InvWorldNext DEF JoinInv
<1>2. \A m \in Node : m # n => sd[m] = node[m]
  BY <1>1 DEF Advances
<1>3. \A m \in Node : Arriving(sd[m]) => m = n
  BY <1>2
<1>4. \A m \in Node : Chosen(sd, m)
  BY <1>1, <1>2 DEF Advances, Chosen, SerialInv, Serial
<1>5. ASSUME NEW m \in Node, Applicant(sd, mt, m)
      PROVE  \E d \in mt.udp : JoinOf(d.pdu, m) /\ d.pdu.max = NULL
  <2>1. Arriving(sd[m]) /\ Asked(sd[m])
    BY <1>1, <1>5, ApplicantArrives DEF Good, Applicant
  <2> QED
    BY <1>1, <1>3, <2>1 DEF Advances
<1>6. Serial(sd, mt)
  BY <1>1, <1>3, <1>4, <1>5, SerialFrom
<1> QED
  BY <1>1, <1>6 DEF SerialInv

(* Nobody waits for an answer any more. *)
LEMMA AdmitsSerial ==
  ASSUME NodeInv', JoinInv, JoinInv', SerialInv, NEW n \in Node, Admits(n)
  PROVE  SerialInv'
<1>1. PICK sd, mt, T : sd = node' /\ mt = net' /\ Good(sd, mt, T) /\ World(sd, mt)
  BY InvWorldNext DEF JoinInv
<1>2. /\ \A m \in Node : m # n => sd[m] = node[m]
      /\ sd[n].state # "Q13" /\ (Inside(sd[n]) <=> Inside(node[n])) /\ sd[n].process = node[n].process
  BY <1>1 DEF Admits
<1>3. PICK k \in Node : Applicant(node, net, k) /\ ~Applicant(sd, mt, k)
  BY <1>1 DEF Admits
<1>4. Arriving(node[k])
  BY <1>3, ApplicantArrives DEF JoinInv, Good
<1>5. \A m \in Node : Arriving(sd[m]) => m = k
  BY <1>2, <1>4 DEF Arriving, SerialInv, Serial
<1>6. \A m \in Node : Chosen(sd, m)
  BY <1>2 DEF Chosen, SerialInv, Serial
<1>7. \A m \in Node : ~Applicant(sd, mt, m)
  BY <1>1, <1>3, <1>5, ApplicantArrives DEF Good
<1>8. Serial(sd, mt)
  BY <1>1, <1>5, <1>6, <1>7, SerialFrom
<1> QED
  BY <1>1, <1>8 DEF SerialInv

(* The node that a NET_JOIN comes back to as the largest has a range to split. *)
LEMMA SerialSplittable ==
  ASSUME NodeInv, JoinInv, SerialInv
  PROVE  Splittable
<1>1. SUFFICES ASSUME NEW n \in Node, node[n].state = "Q13" PROVE node[n].start < node[n].end
  BY DEF Splittable
<1>2. Live(node[n])
  BY <1>1 DEF Live
<1>3. node[n].last_pdu \in PDU /\ node[n].last_pdu.type = "NET_JOIN"
  BY <1>2, InvWorld, JoinNotedType
<1>4. Marked(node, node[n].last_pdu)
  BY <1>2, <1>3, QueueUnderway DEF SerialInv, Serial
<1>5. node[n].last_pdu.max = n
  BY <1>1 DEF SerialInv, Serial, Chosen
<1> QED
  BY <1>4, <1>5, NullFacts DEF Marked

(* Nobody has started. *)
LEMMA SerialInit == ASSUME Init, NodeInv, JoinInv PROVE SerialInv
<1>1. \A n \in Node : node[n].process = "off" /\ node[n].state = "Q1"
  BY DEF Init, new
<1>2. \A n \in Node : ~Arriving(node[n]) /\ Chosen(node, n)
  BY <1>1 DEF Arriving, Chosen
<1>3. \A n \in Node : ~Applicant(node, net, n)
  BY <1>2, ApplicantArrives DEF JoinInv, Good
<1>4. World(node, net) /\ Good(node, net, nodes)
  BY InvWorld DEF JoinInv
<1> QED
  BY <1>2, <1>3, <1>4, SerialFrom DEF SerialInv

(* A process starts: nobody else is on its way in. *)
LEMMA StartSerial ==
  ASSUME JoinOnly, "join" \notin Overlap, NodeInv, NodeInv', JoinInv, SerialInv, nodes \in SUBSET Node,
         NEW n \in Node, StartNode(n)
  PROVE  SerialInv'
<1>1. JoinInv' /\ Advances(n)
  BY StartNodeGood
<1>2. Quiet
  BY DEF StartNode, Admitted, JoinOnly
<1>3. \A m \in Node : ~Arriving(node[m])
  BY <1>2 DEF Quiet, Arriving, Running, Members, At, Inside, Inner
<1> QED
  BY <1>1, <1>3, AdvancesSerial

(* A state function. *)
LEMMA RunSerial ==
  ASSUME JoinOnly, NodeInv, NodeInv', JoinInv, JoinInv', SerialInv, nodes \in SUBSET Node, nodes' = nodes,
         NEW n \in Node, run(n)
  PROVE  SerialInv'
<1>0. Splittable
  BY SerialSplittable
<1>1. CASE q1(n) \/ q2(n) \/ q3(n) \/ q4(n) \/ q7(n) \/ q8(n)
  <2>1. Advances(n)
    BY <1>1, q1Good, q2Good, q3Good, q4Good, q7Good, q8Good
  <2>2. Running(n) /\ node[n].state \in {"Q1", "Q2", "Q3", "Q4", "Q7", "Q8"}
    BY <1>1 DEF q1, q2, q3, q4, q7, q8, accept_predecessor, At
  <2>3. Arriving(node[n])
    BY <2>2 DEF Arriving, Running, Inside, Inner
  <2>4. \A m \in Node : Arriving(node[m]) => m = n
    BY <2>3 DEF SerialInv, Serial
  <2> QED
    BY <2>1, <2>4, AdvancesSerial
<1>2. CASE q5(n) \/ q13(n)
  <2>1. Admits(n) \/ Steady({})
    BY <1>0, <1>2, q5Good, q13Good
  <2> QED
    BY <2>1, AdmitsSerial, SteadySerial
<1>3. CASE send_alive(n) \/ q6poll(n) \/ q6read(n) \/ q6handle(n) \/ q12(n) \/ q17(n)
  <2>1. Steady({})
    BY <1>3, SendAliveGood, q6pollGood, q6readGood, q6handleGood, q12Good, q17Good
  <2> QED
    BY <2>1, SteadySerial
<1>4. CASE q14(n)
  <2>1. PICK x \in PDU : Steady({x}) /\ (x = node[n].last_pdu \/ (x.max = n /\ node[n].start < node[n].end))
    BY <1>4, q14Good
  <2>2. Live(node[n])
    BY <1>4 DEF q14, At, Live
  <2>3. Marked(node, node[n].last_pdu)
    <3>1. node[n].last_pdu \in PDU /\ node[n].last_pdu.type = "NET_JOIN"
      BY <2>2, InvWorld, JoinNotedType
    <3> QED
      BY <2>2, <3>1, QueueUnderway DEF SerialInv, Serial
  <2>4. Marked(node, x)
    BY <2>1, <2>3 DEF Marked
  <2> QED
    BY <2>1, <2>4, SteadySerial
<1> QED
  BY <1>1, <1>2, <1>3, <1>4, NobodyLeaves DEF run

(* Every step keeps the invariant. *)
LEMMA NextSerial ==
  ASSUME JoinOnly, "join" \notin Overlap, RustInv, RustInv', JoinInv, JoinInv', SerialInv, [Next]_vars
  PROVE  SerialInv'
<1>1. NodeInv /\ NodeInv' /\ nodes \in SUBSET Node
  BY DEF RustInv, TypeOK
<1>2. CASE UNCHANGED vars
  BY <1>2 DEF vars, SerialInv
<1>3. ASSUME NEW n \in Node, StartNode(n) PROVE SerialInv'
  BY <1>1, <1>3, StartSerial
<1>4. ASSUME NEW n \in Node, CtrlC(n) PROVE SerialInv'
  BY <1>4 DEF CtrlC, JoinOnly
<1>5. ASSUME NEW n \in Node, RunNode(n) PROVE SerialInv'
  BY <1>1, <1>5, RunSerial DEF RunNode
<1>6. ASSUME NEW n \in Node, NodeFault(n) PROVE SerialInv'
  BY <1>6 DEF NodeFault, Interrupted, JoinOnly
<1>7. ASSUME NEW n \in Node, NodeTimeout(n) PROVE SerialInv'
  <2>1. Inside(node[n]) /\ Seat(node[n])
    BY <1>1, <1>7, Seated DEF NodeTimeout, JoinInv, Good, Table
  <2>2. Running(n)
    BY <2>1 DEF Seat, Places, Inside, Inner, Running
  <2> QED
    BY <1>7, <2>2 DEF NodeTimeout, JoinOnly
<1>8. ASSUME NEW n \in Node, AliveDue(n) PROVE SerialInv'
  BY <1>1, <1>8, AliveDueGood, SteadySerial
<1>9. CASE LoseDatagram \/ RunTracker \/ ClientReceive
  BY <1>1, <1>9, LoseDatagramGood, RunTrackerGood, ClientReceiveGood, SteadySerial
<1>10. CASE ClientInsert \/ ClientRemove \/ ClientLookup
  <2>1. PICK pdu \in PDU : pdu.type \in Values /\ ClientSend(pdu)
    BY <1>10, AnyRequest
  <2> QED
    BY <1>1, <2>1, ClientSendGood, SteadySerial
<1> QED
  BY <1>2, <1>3, <1>4, <1>5, <1>6, <1>7, <1>8, <1>9, <1>10 DEF Next

(***************************************************************************)
(* Theorems.                                                               *)
(***************************************************************************)

(* The inductive invariant, where every range that is split has two hashes. *)
LEMMA JoinInvariance == JoinOnly => (Spec /\ []Splittable => [](RustInv /\ JoinInv))
<1> SUFFICES ASSUME JoinOnly PROVE Spec /\ []Splittable => [](RustInv /\ JoinInv)
  OBVIOUS
<1>1. Init => JoinInv
  BY InitGood
<1>2. Splittable /\ RustInv /\ RustInv' /\ JoinInv /\ [Next]_vars => JoinInv'
  BY NextGood
<1> QED
  BY <1>1, <1>2, RustInvariant, PTL DEF Spec

(* The same without that proviso, for joins that do not overlap. *)
LEMMA SerialInvariance == JoinOnly /\ "join" \notin Overlap => (Spec => [](RustInv /\ JoinInv /\ SerialInv))
<1> SUFFICES ASSUME JoinOnly, "join" \notin Overlap PROVE Spec => [](RustInv /\ JoinInv /\ SerialInv)
  OBVIOUS
<1>1. Init /\ RustInv => JoinInv /\ SerialInv
  BY InitGood, SerialInit DEF RustInv
<1>2. RustInv /\ RustInv' /\ JoinInv /\ SerialInv /\ [Next]_vars => JoinInv' /\ SerialInv'
  <2>1. SUFFICES ASSUME RustInv, RustInv', JoinInv, SerialInv, [Next]_vars PROVE JoinInv' /\ SerialInv'
    OBVIOUS
  <2>2. Splittable
    BY <2>1, SerialSplittable DEF RustInv
  <2>3. JoinInv'
    BY <2>1, <2>2, NextGood
  <2> QED
    BY <2>1, <2>3, NextSerial
<1> QED
  BY <1>1, <1>2, RustInvariant, PTL DEF Spec

(* Every hash has exactly one holder while nodes join, however their joins and
   the client's requests overlap and whatever datagrams are lost. *)
THEOREM JoinsPartition == JoinOnly => (Spec /\ []Splittable => []RangesPartition)
<1> SUFFICES ASSUME JoinOnly PROVE Spec /\ []Splittable => []RangesPartition
  OBVIOUS
<1>1. RustInv /\ JoinInv => RangesPartition
  BY PartitionHolds DEF RustInv
<1> QED
  BY <1>1, JoinInvariance, PTL

(* Once all joins are handled, the nodes form a ring in the order of their
   ranges, and each knows the address of its successor. *)
THEOREM JoinsRing == JoinOnly => (Spec /\ []Splittable => []QuietRing)
<1> SUFFICES ASSUME JoinOnly PROVE Spec /\ []Splittable => []QuietRing
  OBVIOUS
<1>1. RustInv /\ JoinInv => QuietRing
  BY RingHolds DEF RustInv
<1> QED
  BY <1>1, JoinInvariance, PTL

(* No process panics: whom a node is to connect to is there, what it waits for
   is what comes, and no connection of its is reset. *)
THEOREM JoinsNoPanic == JoinOnly => (Spec /\ []Splittable => []NoPanic)
<1> SUFFICES ASSUME JoinOnly PROVE Spec /\ []Splittable => []NoPanic
  OBVIOUS
<1>1. RustInv /\ JoinInv => NoPanic
  BY NoPanicHolds DEF RustInv
<1> QED
  BY <1>1, JoinInvariance, PTL

(* With joins one after the other, nothing more need be assumed: whatever the
   number of nodes, NET_JOIN comes back to no node whose range is one hash. *)
THEOREM SerialJoins ==
  JoinOnly /\ "join" \notin Overlap => (Spec => [](Splittable /\ RangesPartition /\ QuietRing /\ NoPanic))
<1> SUFFICES ASSUME JoinOnly, "join" \notin Overlap
             PROVE  Spec => [](Splittable /\ RangesPartition /\ QuietRing /\ NoPanic)
  OBVIOUS
<1>1. RustInv /\ JoinInv /\ SerialInv => Splittable /\ RangesPartition /\ QuietRing /\ NoPanic
  BY SerialSplittable, PartitionHolds, RingHolds, NoPanicHolds DEF RustInv
<1> QED
  BY <1>1, SerialInvariance, PTL
=============================================================================
