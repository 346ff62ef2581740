--------------------------- MODULE RustDataProofs ---------------------------
(***************************************************************************)
(* NoDataLoss and StoredInRange of RustRing while nodes only join: an      *)
(* entry is in a table, in a wrapper's queue or on a stream that somebody  *)
(* will read, through every handover, and a table holds only what hashes   *)
(* into the node's range.                                                  *)
(*                                                                         *)
(* The invariant of RustJoinProofs says which steps there are and where a  *)
(* stream leads; this module adds what each of them does to one key.       *)
(***************************************************************************)
EXTENDS RustJoinProofs

(* A table is empty until the node is in the ring, then it holds what hashes
   into the node's range. *)
Stocked(s) == \A k \in Key : s.values[k] # <<>> => Inside(s) /\ in_my_range(s, k)

DataInv == \A n \in Node : Stocked(node[n])

(* Where the entries of a key are: at a node, or on the streams. *)
Insert(q, k) == Carries(q, "VAL_INSERT", k)

Shelved(s, k) == s.values[k] # <<>> \/ \E t \in Token : Insert(s.queue[t], k)

Afloat(nt, k) == \E c \in Conn : Insert(nt.fwd[c], k) \/ Insert(nt.bwd[c], k)

(* A step of n from node[n] and net to s and nt loses no key. *)
Keeps(n, s, nt) ==
  \A k \in Key : (Shelved(node[n], k) \/ Afloat(net, k)) /\ ~RemoveAsked(k) => Shelved(s, k) \/ Afloat(nt, k)

(* Held or Moving, said of the places. *)
LEMMA SafePlaces ==
  ASSUME NEW k
  PROVE  /\ Held(k) \/ Moving(k) <=> (\E n \in Node : Shelved(node[n], k)) \/ Afloat(net, k)
         /\ (Held(k) \/ Moving(k))' <=> (\E n \in Node : Shelved(node'[n], k)) \/ Afloat(net', k)
<1>1. Moving(k) <=> (\E n \in Node, t \in Token : Insert(node[n].queue[t], k)) \/ Afloat(net, k)
  BY DEF Moving, Streams, Queues, Insert, Afloat
<1>2. Moving(k)' <=> (\E n \in Node, t \in Token : Insert(node'[n].queue[t], k)) \/ Afloat(net', k)
  BY DEF Moving, Streams, Queues, Insert, Afloat, Carries
<1>3. Held(k) <=> \E n \in Node : node[n].values[k] # <<>>
  BY DEF Held
<1>4. Held(k)' <=> \E n \in Node : node'[n].values[k] # <<>>
  BY DEF Held
<1> QED
  BY <1>1, <1>2, <1>3, <1>4 DEF Shelved

(* Settle moves no entry. *)
LEMMA SettleStocked ==
  ASSUME NodeInv', JoinInv', NEW n \in Node, NEW s \in Memory, node'[n] = Settle(s)
  PROVE  /\ node'[n].values = s.values /\ node'[n].queue = s.queue
         /\ Stocked(s) => Stocked(node'[n])
<1>1. Seat(node'[n])
  BY DEF JoinInv, Good, Wires
<1>2. node'[n].state # "Q10"
  BY <1>1 DEF Seat, Places, Inner, Outer
<1>3. PICK t : t = node'[n] /\ t = Settle(s) /\ t.state # "Q10"
  BY <1>2
<1>4. /\ t.values = s.values /\ t.queue = s.queue /\ t.start = s.start /\ t.end = s.end
      /\ t.state = s.state
  <2>1. CASE s.at # "handle" \/ s.queue[Head(s.events)] # <<>>
    BY <1>3, <2>1 DEF Settle
  <2>2. CASE s.at = "handle" /\ s.queue[Head(s.events)] = <<>> /\ Len(s.events) > 1
    BY <1>3, <2>2 DEF Settle, Memory
  <2>3. CASE s.at = "handle" /\ s.queue[Head(s.events)] = <<>> /\ ~(Len(s.events) > 1)
    BY <1>3, <2>3 DEF Settle, Memory
  <2> QED
    BY <2>1, <2>2, <2>3
<1>5. Stocked(s) => Stocked(t)
  BY <1>4 DEF Stocked, Inside, in_my_range
<1> QED
  BY <1>3, <1>4, <1>5

(* What is to be shown of the memory and the kernel a step builds. *)
LEMMA DataStep ==
  ASSUME NodeInv, NodeInv', JoinInv', DataInv, NEW n \in Node, NEW s \in Memory, NEW nt \in Kernel,
         Become(n, s, nt), Stocked(s), Keeps(n, s, nt)
  PROVE  KeepsData /\ DataInv'
<1>1. node' = [node EXCEPT ![n] = Settle(s)] /\ node \in [Node -> Memory]
  BY DEF Become, NodeInv
<1>2. node'[n] = Settle(s) /\ \A m \in Node : m # n => node'[m] = node[m]
  BY <1>1
<1>3. net'.fwd = nt.fwd /\ net'.bwd = nt.bwd
  BY DEF Become, Kernel
<1>4. node'[n].values = s.values /\ node'[n].queue = s.queue /\ Stocked(node'[n])
  BY <1>2, SettleStocked
<1>5. DataInv'
  BY <1>2, <1>4 DEF DataInv
<1>6. ASSUME NEW k \in Key, Held(k) \/ Moving(k), ~RemoveAsked(k)
      PROVE  (Held(k) \/ Moving(k))'
  <2>1. (\E m \in Node : Shelved(node[m], k)) \/ Afloat(net, k)
    BY <1>6, SafePlaces
  <2>2. Shelved(node'[n], k) <=> Shelved(s, k)
    BY <1>4 DEF Shelved
  <2>3. Afloat(net', k) <=> Afloat(nt, k)
    BY <1>3 DEF Afloat
  <2>4. CASE Shelved(node[n], k) \/ Afloat(net, k)
    <3>1. Shelved(s, k) \/ Afloat(nt, k)
      BY <1>6, <2>4 DEF Keeps
    <3>2. (\E m \in Node : Shelved(node'[m], k)) \/ Afloat(net', k)
      BY <2>2, <2>3, <3>1
    <3> QED
      BY <3>2, SafePlaces
  <2>5. CASE \E m \in Node : m # n /\ Shelved(node[m], k)
    <3>1. \E m \in Node : Shelved(node'[m], k)
      BY <1>2, <2>5
    <3> QED
      BY <3>1, SafePlaces
  <2> QED
    BY <2>1, <2>4, <2>5
<1> QED
  BY <1>5, <1>6 DEF KeepsData

(* Tables, queues and streams stay as they are, and the range of a node that
   is in the ring. *)
LEMMA CalmData ==
  ASSUME NodeInv, NodeInv', JoinInv, JoinInv', DataInv, NEW n \in Node, NEW s \in Memory, NEW nt \in Kernel,
         Become(n, s, nt), s.values = node[n].values, s.queue = node[n].queue, nt.fwd = net.fwd, nt.bwd = net.bwd,
         Inside(node[n]) => Inside(s) /\ s.start = node[n].start /\ s.end = node[n].end
  PROVE  KeepsData /\ DataInv'
<1>1. Stocked(s)
  BY DEF DataInv, Stocked, in_my_range
<1>2. Keeps(n, s, nt)
  BY DEF Keeps, Shelved, Afloat
<1> QED
  BY <1>1, <1>2, DataStep

(* Only datagrams and the table of the tracker change. *)
LEMMA PostData ==
  ASSUME DataInv, node' = node, net'.fwd = net.fwd, net'.bwd = net.bwd
  PROVE  KeepsData /\ DataInv'
<1>1. DataInv'
  BY DEF DataInv
<1>2. ASSUME NEW k \in Key, Held(k) \/ Moving(k)
      PROVE  (Held(k) \/ Moving(k))'
  <2>1. (\E m \in Node : Shelved(node[m], k)) \/ Afloat(net, k)
    BY <1>2, SafePlaces
  <2>2. (\E m \in Node : Shelved(node'[m], k)) \/ Afloat(net', k)
    BY <2>1 DEF Afloat
  <2> QED
    BY <2>2, SafePlaces
<1> QED
  BY <1>1, <1>2 DEF KeepsData

(* No process ends. *)
LEMMA NobodyPanics ==
  ASSUME NodeInv, JoinInv', NEW n \in Node, NEW nt
  PROVE  ~Panic(n, nt) /\ ~Finish(n, nt)
<1>1. Seat(node'[n])
  BY DEF JoinInv, Good, Wires
<1>2. node'[n].process \notin {"panicked", "ended"}
  BY <1>1 DEF Seat, Places
<1>3. ASSUME NEW p \in {"panicked", "ended"}, Become(n, new(p), CloseAll(nt, n))
      PROVE  FALSE
  <2>1. Settle(new(p)) = new(p)
    BY <1>3, NewSound
  <2>2. node'[n] = new(p)
    BY <1>3, <2>1 DEF Become, NodeInv
  <2>3. new(p).process = p
    BY DEF new
  <2> QED
    BY <1>2, <2>2, <2>3
<1> QED
  BY <1>3 DEF Panic, Finish

(* What the types of a node and its kernel are. *)
LEMMA Typed ==
  ASSUME NodeInv, JoinInv, NEW n \in Node
  PROVE  /\ node[n] \in Memory /\ Seat(node[n]) /\ net \in Kernel /\ NetSound(net) /\ net.rst = {}
         /\ \A dst, pdu, src : SendUdp(net, src, dst, pdu).fwd = net.fwd /\ SendUdp(net, src, dst, pdu).bwd = net.bwd
  BY Seated DEF NetSound, Kernel, SendUdp

(* The states of a node on its way in, and those of one that is in the ring. *)
LEMMA OutsideStates ==
  ASSUME NEW n
  PROVE  /\ \A x, y : At(n, x, y) /\ x \in Outer => ~Inside(node[n])
         /\ \A x, y : At(n, x, y) /\ x \in Inner => Inside(node[n])
  BY DEF At, Inside, Inner, Outer

(* A node on its way in has nothing yet. *)
LEMMA OutsideEmpty ==
  ASSUME NodeInv, JoinInv, DataInv, NEW n \in Node, ~Inside(node[n]), NEW k \in Key
  PROVE  node[n].values[k] = <<>> /\ ~Shelved(node[n], k)
<1>1. node[n].values[k] = <<>>
  BY DEF DataInv, Stocked
<1>2. node[n].queue = NoQueue
  BY Seated DEF Seat, Queued
<1> QED
  BY <1>1, <1>2 DEF Shelved, Insert, Carries, NoQueue, Range

(* So it can lose nothing, whatever it reads. *)
LEMMA OutsideData ==
  ASSUME NodeInv, NodeInv', JoinInv, JoinInv', DataInv, NEW n \in Node, NEW s \in Memory, NEW nt \in Kernel,
         Become(n, s, nt), s.values = node[n].values, nt.fwd = net.fwd, nt.bwd = net.bwd, ~Inside(node[n])
  PROVE  KeepsData /\ DataInv'
<1>1. Stocked(s)
  BY OutsideEmpty DEF Stocked
<1>2. Keeps(n, s, nt)
  BY OutsideEmpty DEF Keeps, Afloat
<1> QED
  BY <1>1, <1>2, DataStep

(* q1 (node.rs:196) and the first half of q3 (node.rs:222) ask the tracker. *)
LEMMA AskData ==
  ASSUME NodeInv, NodeInv', JoinInv, JoinInv', DataInv, NEW n \in Node, q1(n) \/ (q3(n) /\ At(n, "Q3", "run"))
  PROVE  KeepsData /\ DataInv'
<1>1. PICK x \in State, p \in PDU :
        Become(n, [node[n] EXCEPT !.state = x, !.at = "await"], SendUdp(net, n, Tracker, p))
  <2>1. CASE q1(n)
    <3>1. "Q2" \in State /\ [type |-> "STUN_LOOKUP"] \in PDU
      BY PDUTypes DEF State
    <3> QED
      BY <2>1, <3>1 DEF q1
  <2>2. CASE q3(n) /\ At(n, "Q3", "run")
    <3>1. "Q3" \in State /\ [type |-> "NET_GET_NODE"] \in PDU
      BY PDUTypes DEF State
    <3>2. Become(n, [node[n] EXCEPT !.at = "await"], SendUdp(net, n, Tracker, [type |-> "NET_GET_NODE"]))
      BY <2>2 DEF q3, At
    <3>3. [node[n] EXCEPT !.at = "await"] = [node[n] EXCEPT !.state = "Q3", !.at = "await"]
      <4>1. PICK m \in Memory : m = node[n]
        BY Typed
      <4>2. m.state = "Q3"
        BY <2>2, <4>1 DEF At
      <4>3. [m EXCEPT !.at = "await"] = [m EXCEPT !.state = "Q3", !.at = "await"]
        BY ONLY <4>2, m \in Memory DEF Memory
      <4> QED
        BY <4>1, <4>3
    <3> QED
      BY <3>1, <3>2, <3>3
  <2> QED
    BY <2>1, <2>2
<1>2. PICK s, nt : s = [node[n] EXCEPT !.state = x, !.at = "await"] /\ nt = SendUdp(net, n, Tracker, p)
  OBVIOUS
<1>3. s \in Memory /\ s.values = node[n].values
  <2>1. PICK m \in Memory : m = node[n]
    BY Typed
  <2>2. x \in State /\ s = [m EXCEPT !.state = x, !.at = "await"]
    BY ONLY <1>2, <2>1, x \in State
  <2> QED
    BY ONLY <2>1, <2>2 DEF Memory
<1>4. nt \in Kernel /\ nt.fwd = net.fwd /\ nt.bwd = net.bwd
  BY <1>2, Typed, NodeFacts, SendUdpSound DEF NetSound
<1>5. ~Inside(node[n])
  BY OutsideStates DEF q1, q3, Outer
<1> QED
  BY <1>1, <1>2, <1>3, <1>4, <1>5, OutsideData

(* What was read from the UDP socket, and the streams as they were. *)
LEMMA AnswerTaken ==
  ASSUME NodeInv, JoinInv, NEW n \in Node, NEW a \in await_pdu_udp(n), NEW x \in {"Q3", "Q4", "Q7"}, NEW l \in PDU \cup {NULL}
  PROVE  /\ a.kernel \in Kernel /\ a.kernel.fwd = net.fwd /\ a.kernel.bwd = net.bwd
         /\ Goto(a.memory, x) \in Memory /\ Goto(a.memory, x).values = node[n].values
         /\ [Goto(a.memory, x) EXCEPT !.last_pdu = l] \in Memory
         /\ [Goto(a.memory, x) EXCEPT !.last_pdu = l].values = node[n].values
<1>1. PICK m \in Memory : m = node[n]
  BY Typed
<1>2. PICK q \in [Token -> Seq(PDU)] : a.memory = [m EXCEPT !.queue = q] /\ NetSound(a.kernel)
  BY <1>1, AwaitUdpType
<1>3. a.kernel.fwd = net.fwd /\ a.kernel.bwd = net.bwd
  BY Typed DEF await_pdu_udp, DrainedUdp, Kernel
<1>4. PICK g : g = Goto(a.memory, x)
  OBVIOUS
<1>5. x \in State
  BY DEF State
<1>6. g \in Memory /\ g.values = m.values
  BY <1>2, <1>4, <1>5 DEF Goto, Memory
<1>7. [g EXCEPT !.last_pdu = l] \in Memory /\ [g EXCEPT !.last_pdu = l].values = g.values
  BY <1>6 DEF Memory
<1> QED
  BY <1>1, <1>2, <1>3, <1>4, <1>6, <1>7 DEF NetSound

(* q2 (node.rs:208) and the second half of q3 (node.rs:222) read the answer. *)
LEMMA AnsweredData ==
  ASSUME NodeInv, NodeInv', JoinInv, JoinInv', DataInv, NEW n \in Node, q2(n) \/ (q3(n) /\ At(n, "Q3", "await"))
  PROVE  KeepsData /\ DataInv'
<1>1. PICK a \in await_pdu_udp(n), s \in Memory, nt \in Kernel :
         Become(n, s, nt) /\ s.values = node[n].values /\ nt.fwd = net.fwd /\ nt.bwd = net.bwd
  <2>1. CASE q2(n)
    <3>1. PICK a \in await_pdu_udp(n) : Become(n, Goto(a.memory, "Q3"), a.kernel)
      BY <2>1, NobodyPanics DEF q2
    <3> QED
      BY <3>1, AnswerTaken
  <2>2. CASE q3(n) /\ At(n, "Q3", "await")
    <3>1. PICK a \in await_pdu_udp(n) :
             \/ Become(n, Goto(a.memory, "Q4"), a.kernel)
             \/ Become(n, [Goto(a.memory, "Q7") EXCEPT !.last_pdu = a.pdu], a.kernel)
      BY <2>2, NobodyPanics DEF q3, At
    <3>2. a.pdu \in PDU
      BY AwaitUdpType
    <3> QED
      BY <3>1, <3>2, AnswerTaken
  <2> QED
    BY <2>1, <2>2
<1>2. ~Inside(node[n])
  BY OutsideStates DEF q2, q3, Outer
<1> QED
  BY <1>1, <1>2, OutsideData

(* q4 (node.rs:240) takes the whole range, with an empty table. *)
LEMMA q4Data ==
  ASSUME NodeInv, NodeInv', JoinInv, JoinInv', DataInv, NEW n \in Node, q4(n)
  PROVE  KeepsData /\ DataInv'
<1>1. PICK m \in Memory : m = node[n]
  BY Typed
<1>2. PICK s : s = [Goto(m, "Q6") EXCEPT !.start = 0, !.end = HASH_SIZE - 1]
  OBVIOUS
<1>3. s \in Memory /\ s.values = m.values
  <2>1. PICK top \in Byte : top = HASH_SIZE - 1
    BY ByteFacts
  <2>2. "Q6" \in State /\ 0 \in Byte
    BY ByteFacts DEF State
  <2> QED
    BY ONLY <1>2, <2>1, <2>2, m \in Memory DEF Goto, Memory
<1>4. Become(n, s, net)
  BY <1>1, <1>2 DEF q4
<1>5. ~Inside(node[n])
  BY OutsideStates DEF q4, Outer
<1> QED
  BY <1>1, <1>3, <1>4, <1>5, Typed, OutsideData

(* A node accepts its predecessor, in q5, q7 or q17 (node.rs:856). *)
LEMMA AcceptData ==
  ASSUME NodeInv, NodeInv', JoinInv, JoinInv', DataInv, NEW n \in Node,
         NEW x, NEW y, <<x, y>> \in {<<"Q5", "Q6">>, <<"Q17", "Q6">>, <<"Q7", "Q8">>}, accept_predecessor(n, x, y)
  PROVE  KeepsData /\ DataInv'
<1>1. PICK m \in Memory : m = node[n]
  BY Typed
<1>2. PICK c \in Conn, at \in {"await", "run"} : c = Head(net.backlog[n]) /\ at = IF y = "Q8" THEN "await" ELSE "run"
  <2>1. net.backlog[n] \in Seq(Conn) /\ net.backlog[n] # <<>>
    BY Typed DEF accept_predecessor, Kernel
  <2> QED
    BY <2>1
<1>3. PICK s, nt : s = [m EXCEPT !.predecessor = c, !.state = y, !.at = at] /\ nt = [net EXCEPT !.backlog[n] = Tail(@)]
  OBVIOUS
<1>4. Become(n, s, nt)
  <2>1. CloseAcceptor(net, node[n].predecessor) = net
    BY AcceptNoneBefore
  <2> QED
    BY <1>1, <1>2, <1>3, <2>1 DEF accept_predecessor
<1>5. s \in Memory /\ s.values = m.values /\ s.queue = m.queue /\ s.start = m.start /\ s.end = m.end /\ s.state = y
  <2>1. y \in State
    BY DEF State
  <2> QED
    BY ONLY <1>3, <2>1, m \in Memory, c \in Conn, at \in {"await", "run"} DEF Memory
<1>6. nt \in Kernel /\ nt.fwd = net.fwd /\ nt.bwd = net.bwd
  <2>1. net.backlog[n] \in Seq(Conn) /\ net.backlog[n] # <<>>
    BY Typed DEF accept_predecessor, Kernel
  <2>2. Tail(net.backlog[n]) \in Seq(Conn)
    BY <2>1
  <2> QED
    BY <1>3, <2>2, Typed DEF Kernel
<1>7. Inside(node[n]) => Inside(s)
  BY <1>5 DEF accept_predecessor, At, Inside, Inner
<1> QED
  BY <1>1, <1>4, <1>5, <1>6, <1>7, CalmData

(* q7 (node.rs:347). *)
LEMMA q7Data ==
  ASSUME NodeInv, NodeInv', JoinInv, JoinInv', DataInv, NEW n \in Node, q7(n), nodes \in SUBSET Node
  PROVE  KeepsData /\ DataInv'
<1>1. CASE accept_predecessor(n, "Q7", "Q8")
  BY <1>1, AcceptData
<1>2. CASE ~accept_predecessor(n, "Q7", "Q8")
  <2>1. PICK m \in Memory : m = node[n]
    BY Typed
  <2>2. PICK x \in PDU : x = [type |-> "NET_JOIN", src |-> n, max_span |-> 0, max |-> NULL]
    BY PDUTypes, ByteFacts
  <2>3. m.last_pdu.node \in Node
    <3>1. m.state = "Q7" /\ m.at = "run"
      BY <1>2, <2>1 DEF q7, At
    <3>2. m.last_pdu.node \in nodes
      BY <2>1, <3>1 DEF JoinInv, Good, Table
    <3> QED
      BY <3>2
  <2>4. PICK s, nt : s = [m EXCEPT !.last_pdu = NULL, !.at = "accept"] /\ nt = SendUdp(net, n, m.last_pdu.node, x)
    OBVIOUS
  <2>5. Become(n, s, nt)
    BY <1>2, <2>1, <2>2, <2>4 DEF q7
  <2>6. s \in Memory /\ s.values = m.values
    BY ONLY <2>4, m \in Memory DEF Memory
  <2>7. nt \in Kernel /\ nt.fwd = net.fwd /\ nt.bwd = net.bwd
    BY <2>3, <2>4, Typed, NodeFacts, SendUdpSound DEF NetSound
  <2>8. ~Inside(node[n])
    BY <1>2, OutsideStates DEF q7, Outer
  <2> QED
    BY <2>1, <2>5, <2>6, <2>7, <2>8, OutsideData
<1> QED
  BY <1>1, <1>2

(* q12 (node.rs:464), NET_ALIVE (node.rs:780) and the poll (node.rs:299). *)
LEMMA TurnData ==
  ASSUME NodeInv, NodeInv', JoinInv, JoinInv', DataInv, NEW n \in Node, q12(n) \/ send_alive(n) \/ q6poll(n)
  PROVE  KeepsData /\ DataInv'
<1>1. PICK m \in Memory : m = node[n] /\ ~m.should_close
  BY Typed DEF Seat, Places
<1>2. Inside(node[n])
  BY OutsideStates DEF q12, send_alive, q6poll, Inner
<1>3. CASE q12(n)
  <2>1. PICK x \in {"Q5", "Q13", "Q14"} : Become(n, Goto(m, x), net)
    BY <1>1, <1>3 DEF q12
  <2>2. PICK s : s = Goto(m, x)
    OBVIOUS
  <2>3. /\ s \in Memory /\ s.values = m.values /\ s.queue = m.queue /\ s.start = m.start /\ s.end = m.end
        /\ Inside(s)
    BY <2>2 DEF Goto, Memory, State, Inside, Inner
  <2> QED
    BY <1>1, <2>1, <2>2, <2>3, Typed, CalmData
<1>4. CASE send_alive(n)
  <2>1. PICK s, nt : /\ s = [m EXCEPT !.alive_due = FALSE] /\ nt = SendUdp(net, n, Tracker, [type |-> "NET_ALIVE"])
                     /\ Become(n, s, nt)
    BY <1>1, <1>4 DEF send_alive
  <2>2. /\ s \in Memory /\ s.values = m.values /\ s.queue = m.queue /\ s.start = m.start /\ s.end = m.end
        /\ Inside(s)
    BY <1>1, <1>2, <2>1 DEF Memory, Inside
  <2>3. nt \in Kernel /\ nt.fwd = net.fwd /\ nt.bwd = net.bwd
    BY <2>1, PDUTypes, Typed, NodeFacts, SendUdpSound DEF NetSound
  <2> QED
    BY <1>1, <2>1, <2>2, <2>3, CalmData
<1>5. CASE q6poll(n)
  <2>0. PICK ready \in (SUBSET Ready(n)) \ {{}} :
           \E events \in SetToSeqs(ready) : Become(n, [m EXCEPT !.events = events, !.at = "read"], net)
    BY <1>1, <1>5 DEF q6poll
  <2>1. PICK events \in SetToSeqs(ready) : Become(n, [m EXCEPT !.events = events, !.at = "read"], net)
    BY <2>0
  <2>2. events \in Seq(Token)
    BY PollEvents
  <2>3. PICK s : s = [m EXCEPT !.events = events, !.at = "read"]
    OBVIOUS
  <2>4. /\ s \in Memory /\ s.values = m.values /\ s.queue = m.queue /\ s.start = m.start /\ s.end = m.end
        /\ Inside(s)
    BY <1>1, <1>2, <2>2, <2>3 DEF Memory, Inside
  <2> QED
    BY <1>1, <2>1, <2>3, <2>4, Typed, CalmData
<1> QED
  BY <1>3, <1>4, <1>5

(* The interval of NET_ALIVE has passed; a node starts. *)
LEMMA OutsideWorldData ==
  ASSUME NodeInv, NodeInv', JoinInv, JoinInv', DataInv, NEW n \in Node, AliveDue(n) \/ StartNode(n)
  PROVE  KeepsData /\ DataInv'
<1>1. CASE AliveDue(n)
  <2>1. PICK m \in Memory : m = node[n]
    BY Typed
  <2>2. PICK s : s = [m EXCEPT !.alive_due = TRUE] /\ Become(n, s, net)
    BY <1>1, <2>1 DEF AliveDue
  <2>3. /\ s \in Memory /\ s.values = m.values /\ s.queue = m.queue /\ s.start = m.start /\ s.end = m.end
        /\ s.state = m.state
    BY <2>2 DEF Memory
  <2>4. Inside(m) => Inside(s)
    BY <2>3 DEF Inside
  <2> QED
    BY <2>1, <2>2, <2>3, <2>4, Typed, CalmData
<1>2. CASE StartNode(n)
  <2>1. Become(n, new("running"), net) /\ node[n].process = "off"
    BY <1>2 DEF StartNode
  <2>2. ~Inside(node[n])
    BY <2>1, Typed DEF Seat, Places, Inside, Inner
  <2>3. new("running") \in Memory /\ new("running").values = NoValues
    BY NewSound DEF Sound, new
  <2>4. node[n].values = NoValues
    <3>1. \A k \in Key : node[n].values[k] = <<>>
      BY <2>2, OutsideEmpty
    <3>2. node[n].values \in [Key -> Seq(Value)]
      BY Typed, MemoryFields
    <3> QED
      BY <3>1, <3>2 DEF NoValues
  <2> QED
    BY <2>1, <2>2, <2>3, <2>4, Typed, OutsideData
<1> QED
  BY <1>1, <1>2

(* The entries of a sequence are those of its parts. *)
LEMMA InsertParts ==
  ASSUME NEW p \in Seq(PDU), NEW q \in Seq(PDU), NEW k
  PROVE  Insert(p \o q, k) <=> Insert(p, k) \/ Insert(q, k)
<1>1. ASSUME Insert(p \o q, k) PROVE Insert(p, k) \/ Insert(q, k)
  BY <1>1, RangeConcat DEF Insert, Carries
<1>2. ASSUME Insert(p, k) PROVE Insert(p \o q, k)
  <2>1. PICK i \in DOMAIN p : p[i].type = "VAL_INSERT" /\ p[i].key = k
    BY <1>2 DEF Insert, Carries, Range
  <2>2. i \in DOMAIN (p \o q) /\ (p \o q)[i] = p[i]
    BY <2>1
  <2> QED
    BY <2>1, <2>2 DEF Insert, Carries, Range
<1>3. ASSUME Insert(q, k) PROVE Insert(p \o q, k)
  <2>1. PICK i \in DOMAIN q : q[i].type = "VAL_INSERT" /\ q[i].key = k
    BY <1>3 DEF Insert, Carries, Range
  <2>2. i + Len(p) \in DOMAIN (p \o q) /\ (p \o q)[i + Len(p)] = q[i]
    BY <2>1
  <2> QED
    BY <2>1, <2>2 DEF Insert, Carries, Range
<1> QED
  BY <1>1, <1>2, <1>3

(* What pop_front leaves. *)
LEMMA InsertTail ==
  ASSUME NEW q \in Seq(PDU), q # <<>>, NEW k, Insert(q, k)
  PROVE  Insert(Tail(q), k) \/ (Head(q).type = "VAL_INSERT" /\ Head(q).key = k)
<1>1. PICK i \in DOMAIN q : q[i].type = "VAL_INSERT" /\ q[i].key = k
  BY DEF Insert, Carries, Range
<1>2. CASE i = 1
  BY <1>1, <1>2
<1>3. CASE i # 1
  <2>1. i - 1 \in DOMAIN Tail(q) /\ Tail(q)[i - 1] = q[i]
    BY <1>1, <1>3
  <2> QED
    BY <1>1, <2>1 DEF Insert, Carries, Range
<1> QED
  BY <1>2, <1>3

(* The table stays, and an entry goes on from a queue or a stream to another. *)
LEMMA MovedData ==
  ASSUME NodeInv, NodeInv', JoinInv, JoinInv', DataInv, NEW n \in Node, NEW s \in Memory, NEW nt \in Kernel,
         Become(n, s, nt), s.values = node[n].values,
         Inside(node[n]) => Inside(s) /\ s.start = node[n].start /\ s.end = node[n].end,
         \A k \in Key, t \in Token : Insert(node[n].queue[t], k) => Shelved(s, k) \/ Afloat(nt, k),
         \A k \in Key, c \in Conn : Insert(net.fwd[c], k) => Shelved(s, k) \/ Afloat(nt, k)
  PROVE  KeepsData /\ DataInv'
<1>1. Stocked(s)
  BY DEF DataInv, Stocked, in_my_range
<1>2. \A k \in Key, c \in Conn : ~Insert(net.bwd[c], k)
  BY DEF JoinInv, Good, Wires, Line, Insert, Carries, Range
<1>3. Keeps(n, s, nt)
  BY <1>2 DEF Keeps, Shelved, Afloat
<1> QED
  BY <1>1, <1>3, DataStep

(* What was read is appended to a queue. *)
Reading(m, t, a) == [[m EXCEPT !.queue[t] = @ \o a] EXCEPT !.at = "handle"]

Read(m, s, t, a) ==
  /\ s \in Memory /\ s.values = m.values /\ s.start = m.start /\ s.end = m.end /\ s.state = m.state
  /\ s.queue[t] = m.queue[t] \o a /\ \A u \in Token : u # t => s.queue[u] = m.queue[u]

(* Nothing else changes. *)
LEMMA ReadingFields ==
  ASSUME NEW m \in Memory, NEW t \in Token, NEW a \in Seq(PDU), NEW s, s = Reading(m, t, a)
  PROVE  Read(m, s, t, a)
<1>1. PICK q : q = [m.queue EXCEPT ![t] = @ \o a]
  OBVIOUS
<1>2. m.queue \in [Token -> Seq(PDU)]
  BY MemoryFields
<1>3. q \in [Token -> Seq(PDU)] /\ q[t] = m.queue[t] \o a /\ \A u \in Token : u # t => q[u] = m.queue[u]
  BY <1>1, <1>2
<1>4. s = [[m EXCEPT !.queue = q] EXCEPT !.at = "handle"]
  BY <1>1 DEF Reading
<1>5. /\ s \in Memory /\ s.values = m.values /\ s.start = m.start /\ s.end = m.end /\ s.state = m.state /\ s.queue = q
  BY ONLY <1>3, <1>4, m \in Memory DEF Memory
<1> QED
  BY <1>3, <1>5 DEF Read

(* The read of q6 (node.rs:303): what was on a stream is in the queue or still
   on the stream. *)
LEMMA q6readData ==
  ASSUME NodeInv, NodeInv', JoinInv, JoinInv', DataInv, NEW n \in Node, q6read(n)
  PROVE  KeepsData /\ DataInv'
<1>1. /\ Running(n) /\ node[n].at = "read" /\ Head(node[n].events) \in {"UDP", "PREDECESSOR"}
      /\ Connected(node[n], Head(node[n].events)) /\ Inside(node[n])
  BY InRound DEF q6read
<1>2. PICK m \in Memory : m = node[n]
  BY Typed
<1>3. \A t \in Token : m.queue[t] \in Seq(PDU)
  BY MemoryFields
<1>4. CASE Head(node[n].events) = "UDP"
  <2>1. PICK batch \in Batches(n) \cup {<<>>} :
           Become(n, [FilledUdp(n, batch) EXCEPT !.at = "handle"], DrainedUdp(batch))
    BY <1>4 DEF q6read
  <2>2. PICK a \in Seq(PDU) : a = [i \in DOMAIN batch |-> batch[i].pdu]
    BY <2>1, BatchFacts
  <2>5. PICK t \in Token : t = "UDP"
    BY DEF Token
  <2>3. PICK s, nt : s = Reading(m, t, a) /\ nt = DrainedUdp(batch)
    OBVIOUS
  <2>4. Become(n, s, nt)
    BY <1>2, <2>1, <2>2, <2>3, <2>5 DEF Reading, FilledUdp
  <2>6. /\ s \in Memory /\ s.values = m.values /\ s.start = m.start /\ s.end = m.end /\ s.state = m.state
        /\ s.queue[t] = m.queue[t] \o a /\ \A u \in Token : u # t => s.queue[u] = m.queue[u]
    BY <2>3, ReadingFields DEF Read
  <2>7. nt \in Kernel /\ nt.fwd = net.fwd
    BY <2>3, FilledUdpType, Typed DEF DrainedUdp, NetSound, Kernel
  <2>8. ASSUME NEW k \in Key, NEW u \in Token, Insert(m.queue[u], k)
        PROVE  Insert(s.queue[u], k)
    <3>1. PICK q \in Seq(PDU) : q = m.queue[t]
      BY <1>3
    <3>2. Insert(q, k) => Insert(q \o a, k)
      BY ONLY q \in Seq(PDU), a \in Seq(PDU), InsertParts
    <3> QED
      BY <2>6, <2>8, <3>1, <3>2
  <2>9. Inside(s)
    BY <1>1, <1>2, <2>6 DEF Inside
  <2>10. \A k \in Key, u \in Token : Insert(m.queue[u], k) => Shelved(s, k)
    BY <2>8 DEF Shelved
  <2>11. \A k \in Key, c \in Conn : Insert(net.fwd[c], k) => Afloat(nt, k)
    BY <2>7 DEF Afloat
  <2> QED
    BY <1>2, <2>4, <2>6, <2>7, <2>9, <2>10, <2>11, MovedData
<1>5. CASE Head(node[n].events) = "PREDECESSOR"
  <2>1. PICK token : token = Head(node[n].events) /\ token = "PREDECESSOR" /\ token \in Token
    BY <1>5 DEF Token
  <2>2. Fails(net, Socket(n, token)) = {FALSE}
    BY Typed DEF Fails
  <2>3. PICK r \in try_read(n, token) :
           Become(n, [Filled(n, token, r) EXCEPT !.at = "handle"], Drained(n, token, r))
    BY <2>1, <2>2 DEF q6read
  <2>4. PICK p \in Conn : p = node[n].predecessor /\ Socket(n, token) = p /\ Stream(n, token) = net.fwd[p]
    BY <1>1, <2>1, Typed, MemoryFields DEF Connected, Socket, Stream
  <2>5. r.count \in 0 .. Len(net.fwd[p]) /\ NetSound(Drained(n, token, r))
    BY <1>1, <2>1, <2>3, <2>4, FilledType
  <2>6. PICK f \in Seq(PDU), q \in Seq(PDU) : f = net.fwd[p] /\ q = m.queue[token]
    BY <1>3, <2>1, Typed, NetFields
  <2>7. PICK a \in Seq(PDU), b \in Seq(PDU) :
           /\ a = SubSeq(f, 1, r.count) /\ b = SubSeq(f, r.count + 1, Len(f)) /\ (q \o a) \o b = q \o f
    <3>1. PICK j \in 0 .. Len(f) : j = r.count
      BY <2>5, <2>6
    <3>2. /\ SubSeq(f, 1, j) \in Seq(PDU) /\ SubSeq(f, j + 1, Len(f)) \in Seq(PDU)
          /\ (q \o SubSeq(f, 1, j)) \o SubSeq(f, j + 1, Len(f)) = q \o f
      BY ONLY q \in Seq(PDU), f \in Seq(PDU), j \in 0 .. Len(f), SplitStream
    <3> QED
      BY <3>1, <3>2
  <2>8. PICK s, nt : s = Reading(m, token, a) /\ nt = Drained(n, token, r)
    OBVIOUS
  <2>9. Become(n, s, nt)
    BY <1>2, <2>3, <2>4, <2>6, <2>7, <2>8 DEF Reading, Filled
  <2>10. /\ s \in Memory /\ s.values = m.values /\ s.start = m.start /\ s.end = m.end /\ s.state = m.state
         /\ s.queue[token] = q \o a /\ \A u \in Token : u # token => s.queue[u] = m.queue[u]
    <3>1. PICK t \in Token : t = token
      BY <2>1
    <3>3. s = Reading(m, t, a)
      BY <2>8, <3>1
    <3>2. Read(m, s, t, a)
      BY <3>3, ReadingFields
    <3> QED
      BY <2>6, <3>1, <3>2 DEF Read
  <2>11. nt \in Kernel /\ nt.fwd = [net.fwd EXCEPT ![p] = b]
    BY <2>1, <2>4, <2>5, <2>6, <2>7, <2>8, Typed DEF Drained, NetSound, Kernel
  <2>12. nt.fwd[p] = b /\ \A c \in Conn : c # p => nt.fwd[c] = net.fwd[c]
    BY <2>11, Typed, NetFields
  <2>13. Inside(s)
    BY <1>1, <1>2, <2>10 DEF Inside
  <2>14. ASSUME NEW k \in Key, NEW u \in Token, Insert(m.queue[u], k) PROVE Shelved(s, k)
    <3>1. Insert(s.queue[u], k)
      <4>1. Insert(q, k) => Insert(q \o a, k)
        BY ONLY q \in Seq(PDU), a \in Seq(PDU), InsertParts
      <4> QED
        BY <2>6, <2>10, <2>14, <4>1
    <3> QED
      BY <3>1 DEF Shelved
  <2>15. ASSUME NEW k \in Key, NEW c \in Conn, Insert(net.fwd[c], k) PROVE Shelved(s, k) \/ Afloat(nt, k)
    <3>1. CASE c # p
      BY <2>12, <2>15, <3>1 DEF Afloat
    <3>2. CASE c = p
      <4>1. Insert((q \o a) \o b, k)
        <5>1. Insert(f, k) => Insert(q \o f, k)
        BY ONLY q \in Seq(PDU), f \in Seq(PDU), InsertParts
      <5> QED
        BY <2>6, <2>7, <2>15, <3>2, <5>1
      <4>2. q \o a \in Seq(PDU)
        OBVIOUS
      <4>3. Insert(q \o a, k) \/ Insert(b, k)
        BY <4>1, <4>2, InsertParts
      <4> QED
        BY <2>1, <2>10, <2>12, <4>3 DEF Shelved, Afloat
    <3> QED
      BY <3>1, <3>2
  <2> QED
    BY <1>2, <2>9, <2>10, <2>11, <2>13, <2>14, <2>15, MovedData
<1> QED
  BY <1>1, <1>4, <1>5

(* A PDU goes to the successor. *)
Relayed(nt, c, pdu) ==
  nt.fwd[c] = Append(net.fwd[c], pdu) /\ \A e \in Conn : e # c => nt.fwd[e] = net.fwd[e]

(* The successor is there to read it. *)
LEMMA ForwardKernel ==
  ASSUME NodeInv, JoinInv, NEW n \in Node, NEW s, s.successor = node[n].successor, node[n].successor # NULL,
         NEW pdu \in PDU, Forward(n, s, pdu, net)
  PROVE  \E c \in Conn, nt \in Kernel : Become(n, s, nt) /\ Relayed(nt, c, pdu)
<1>1. World(node, net) /\ NetSound(net) /\ net.rst = {} /\ Wires(node, net)
  BY Seated DEF JoinInv, Good
<1>2. PICK c \in Conn : c = s.successor /\ c = node[n].successor
  BY <1>1, WorldFacts
<1>3. AcceptorHolds(net, c)
  BY <1>1, <1>2 DEF Wires, Link, Holds, AcceptorHolds
<1>4. PICK nt : nt = SendForward(net, c, <<pdu>>)
  OBVIOUS
<1>5. Become(n, s, nt)
  BY <1>1, <1>2, <1>4 DEF Forward, Fails
<1>6. <<pdu>> \in Seq(PDU) /\ net.fwd[c] \in Seq(PDU)
  BY <1>1, WorldFacts
<1>7. NetSound(nt)
  BY <1>1, <1>4, <1>6, SendForwardSound
<1>8. nt.fwd = [net.fwd EXCEPT ![c] = @ \o <<pdu>>]
  BY <1>1, <1>3, <1>4 DEF SendForward, NetSound, Kernel
<1>9. Relayed(nt, c, pdu)
  <2>1. nt.fwd[c] = net.fwd[c] \o <<pdu>> /\ \A e \in Conn : e # c => nt.fwd[e] = net.fwd[e]
    BY <1>1, <1>8, NetFields
  <2>2. net.fwd[c] \o <<pdu>> = Append(net.fwd[c], pdu)
    BY <1>6
  <2> QED
    BY <2>1, <2>2 DEF Relayed
<1> QED
  BY <1>5, <1>7, <1>9 DEF NetSound

(* What was on the streams is there still, and the PDU with it. *)
LEMMA RelayedAfloat ==
  ASSUME NodeInv, NEW c \in Conn, NEW pdu \in PDU, NEW nt, Relayed(nt, c, pdu), NEW k
  PROVE  /\ \A e \in Conn : Insert(net.fwd[e], k) => Afloat(nt, k)
         /\ pdu.type = "VAL_INSERT" /\ pdu.key = k => Afloat(nt, k)
<1>1. PICK f \in Seq(PDU) : f = net.fwd[c]
  BY NodeInv DEF NodeInv, NetSound, Kernel
<1>2. nt.fwd[c] = Append(f, pdu)
  BY <1>1 DEF Relayed
<1>3. /\ \A i \in DOMAIN f : i \in DOMAIN Append(f, pdu) /\ Append(f, pdu)[i] = f[i]
      /\ Len(f) + 1 \in DOMAIN Append(f, pdu) /\ Append(f, pdu)[Len(f) + 1] = pdu
  BY ONLY f \in Seq(PDU), pdu \in PDU
<1>4. Insert(f, k) => Insert(nt.fwd[c], k)
  BY <1>2, <1>3 DEF Insert, Carries, Range
<1>5. pdu.type = "VAL_INSERT" /\ pdu.key = k => Insert(nt.fwd[c], k)
  BY <1>2, <1>3 DEF Insert, Carries, Range
<1> QED
  BY <1>1, <1>4, <1>5 DEF Relayed, Afloat

(* What q6 has popped is all that is missing in the queues. *)
LEMMA TakenInsert ==
  ASSUME NodeInv, JoinInv, NEW n \in Node, Running(n), node[n].at = "handle", NEW token, token = Head(node[n].events),
         NEW s, Taken(node[n], s, token), NEW k, NEW t \in Token, Insert(node[n].queue[t], k)
  PROVE  \/ Shelved(s, k)
         \/ Head(node[n].queue[token]).type = "VAL_INSERT" /\ Head(node[n].queue[token]).key = k
<1>1. PICK q \in Seq(PDU) : q = node[n].queue[t]
  BY Typed, MemoryFields
<1>2. CASE t # token
  BY <1>2 DEF Taken, Shelved
<1>3. CASE t = token
  <2>1. q # <<>>
    BY <1>1 DEF Insert, Carries, Range
  <2>2. Insert(Tail(q), k) \/ (Head(q).type = "VAL_INSERT" /\ Head(q).key = k)
    BY <1>1, <2>1, InsertTail
  <2>3. s.queue[t] = Tail(q)
    BY <1>1, <1>3 DEF Taken
  <2> QED
    BY <1>1, <1>3, <2>2, <2>3 DEF Shelved
<1> QED
  BY <1>2, <1>3

(* A PDU other than VAL_INSERT is handled, and the table stays. *)
LEMMA NotedData ==
  ASSUME NodeInv, NodeInv', JoinInv, JoinInv', DataInv, NEW n \in Node, Running(n), node[n].at = "handle",
         NEW token, token = Head(node[n].events), NEW s, Taken(node[n], s, token), s.state \in Inner,
         s.values = node[n].values, Head(node[n].queue[token]).type # "VAL_INSERT",
         NEW nt \in Kernel, nt.fwd = net.fwd, Become(n, s, nt)
  PROVE  KeepsData /\ DataInv'
<1>1. s \in Memory /\ s.start = node[n].start /\ s.end = node[n].end /\ Inside(s)
  BY DEF Taken, Inside
<1>2. \A k \in Key, t \in Token : Insert(node[n].queue[t], k) => Shelved(s, k)
  BY TakenInsert
<1>3. \A k \in Key, c \in Conn : Insert(net.fwd[c], k) => Afloat(nt, k)
  BY DEF Afloat
<1> QED
  BY <1>1, <1>2, <1>3, MovedData

(* A request that is not for the node goes on (node.rs:675). *)
LEMMA ForwardedData ==
  ASSUME NodeInv, NodeInv', JoinInv, JoinInv', DataInv, NEW n \in Node, Running(n), node[n].at = "handle",
         NEW token, token = Head(node[n].events), NEW s, Taken(node[n], s, token), s.state \in Inner,
         s.values = node[n].values, NEW pdu \in PDU, pdu = Head(node[n].queue[token]), pdu.type \in Values,
         ~in_my_range(s, pdu.key), Forward(n, s, pdu, net)
  PROVE  KeepsData /\ DataInv'
<1>1. s \in Memory /\ s.start = node[n].start /\ s.end = node[n].end /\ Inside(s) /\ s.successor = node[n].successor
  BY DEF Taken, Inside
<1>2. node[n].successor # NULL
  <2>1. SUFFICES ASSUME node[n].successor = NULL PROVE FALSE
    OBVIOUS
  <2>2. Seat(node[n]) /\ Inside(node[n])
    BY Typed, InRound
  <2>3. s.start = 0 /\ s.end = HASH_SIZE - 1
    BY <1>1, <2>1, <2>2 DEF Seat, Neighbours, Whole
  <2>4. PICK h \in Byte : h = hash_ssn[pdu.key]
    BY PDUFields, RustNodeAssumption DEF Values
  <2>5. ~InRange(h, 0, HASH_SIZE - 1)
    BY <2>3, <2>4 DEF in_my_range
  <2>6. h >= 0 /\ h <= HASH_SIZE - 1
    BY ONLY h \in Byte, HashSizeAssumption DEF Byte
  <2> QED
    BY ONLY <2>5, <2>6 DEF InRange
<1>3. PICK c \in Conn, nt \in Kernel : Become(n, s, nt) /\ Relayed(nt, c, pdu)
  BY <1>1, <1>2, ForwardKernel
<1>4. ASSUME NEW k \in Key, NEW t \in Token, Insert(node[n].queue[t], k) PROVE Shelved(s, k) \/ Afloat(nt, k)
  <2>1. Shelved(s, k) \/ (pdu.type = "VAL_INSERT" /\ pdu.key = k)
    BY <1>4, TakenInsert
  <2>2. pdu.type = "VAL_INSERT" /\ pdu.key = k => Afloat(nt, k)
    BY <1>3, RelayedAfloat
  <2> QED
    BY ONLY <2>1, <2>2
<1>5. \A k \in Key, e \in Conn : Insert(net.fwd[e], k) => Afloat(nt, k)
  BY <1>3, RelayedAfloat
<1> QED
  BY <1>1, <1>3, <1>4, <1>5, MovedData

(* The table changes at the key that is asked for. *)
LEMMA StoredData ==
  ASSUME NodeInv, NodeInv', JoinInv, JoinInv', DataInv, NEW n \in Node, Running(n), node[n].at = "handle",
         NEW token, token = Head(node[n].events), NEW s, Taken(node[n], s, token), s.state \in Inner, Become(n, s, net),
         \A k \in Key : s.values[k] # <<>> => node[n].values[k] # <<>> \/ in_my_range(s, k),
         \A k \in Key : node[n].values[k] # <<>> => s.values[k] # <<>> \/ RemoveAsked(k),
         Head(node[n].queue[token]).type = "VAL_INSERT" => s.values[Head(node[n].queue[token]).key] # <<>>
  PROVE  KeepsData /\ DataInv'
<1>1. s \in Memory /\ s.start = node[n].start /\ s.end = node[n].end /\ Inside(s)
  BY DEF Taken, Inside
<1>2. Stocked(s)
  BY <1>1 DEF DataInv, Stocked, in_my_range
<1>3. ASSUME NEW k \in Key, Shelved(node[n], k) \/ Afloat(net, k), ~RemoveAsked(k)
      PROVE  Shelved(s, k) \/ Afloat(net, k)
  <2>1. CASE node[n].values[k] # <<>>
    BY <1>3, <2>1 DEF Shelved
  <2>2. CASE \E t \in Token : Insert(node[n].queue[t], k)
    <3>1. PICK t \in Token : Insert(node[n].queue[t], k)
      BY <2>2
    <3>2. Shelved(s, k) \/ (Head(node[n].queue[token]).type = "VAL_INSERT" /\ Head(node[n].queue[token]).key = k)
      BY <3>1, TakenInsert
    <3>3. s.values[k] # <<>> => Shelved(s, k)
      BY DEF Shelved
    <3> QED
      BY <3>2, <3>3
  <2> QED
    BY <1>3, <2>1, <2>2 DEF Shelved
<1>4. Keeps(n, s, net)
  BY <1>3 DEF Keeps
<1> QED
  BY <1>1, <1>2, <1>4, Typed, DataStep

(* handle_val_insert, handle_val_remove and handle_val_lookup (node.rs:586). *)
LEMMA q9Data ==
  ASSUME NodeInv, NodeInv', JoinInv, JoinInv', DataInv, NEW n \in Node, Running(n), node[n].at = "handle",
         NEW token, token = Head(node[n].events), NEW s, s = Noting(node[n], token, "Q6", NULL),
         NEW pdu \in PDU, pdu.type \in Values, pdu = Head(node[n].queue[token]), q9(n, Popped(node[n], token), pdu, net)
  PROVE  KeepsData /\ DataInv'
<1>1. Taken(node[n], s, token) /\ s.state = "Q6" /\ s.values = node[n].values
  <2>1. PICK x \in State, l \in PDU \cup {NULL} : x = "Q6" /\ l = NULL
    BY DEF State
  <2>2. s = Noting(node[n], token, x, l)
    BY <2>1
  <2>3. Taken(node[n], s, token) /\ s.state = x /\ s.values = node[n].values
    BY <2>2, PoppedTaken
  <2> QED
    BY <2>1, <2>3
<1>2. s \in Memory /\ s.values \in [Key -> Seq(Value)] /\ pdu.key \in Key /\ s.state \in Inner
  BY <1>1, MemoryFields, PDUFields DEF Taken, Values, Inner
<1>3. CASE ~in_my_range(s, pdu.key)
  <2>1. Forward(n, s, pdu, net)
    BY <1>3 DEF q9, handle_val_insert, handle_val_remove, handle_val_lookup, Values, Noting
  <2> QED
    BY <1>1, <1>2, <1>3, <2>1, ForwardedData
<1>4. CASE in_my_range(s, pdu.key) /\ pdu.type = "VAL_INSERT"
  <2>1. Become(n, [s EXCEPT !.values[pdu.key] = Append(@, pdu.val)], net)
    BY <1>4 DEF q9, handle_val_insert, Noting
  <2>2. PICK v : v = [s.values EXCEPT ![pdu.key] = Append(@, pdu.val)]
    OBVIOUS
  <2>3. pdu.val \in Value
    BY <1>4, PDUFields
  <2>4. v \in [Key -> Seq(Value)]
    <3>1. PICK w \in [Key -> Seq(Value)], k \in Key, x \in Value : w = s.values /\ k = pdu.key /\ x = pdu.val
      BY <1>2, <2>3
    <3>2. PICK q \in Seq(Value) : q = w[k]
      OBVIOUS
    <3>3. Append(q, x) \in Seq(Value)
      BY ONLY q \in Seq(Value), x \in Value
    <3> QED
      BY <2>2, <3>1, <3>2, <3>3
  <2>5. PICK t : t = Keeping(s, v) /\ Become(n, t, net)
    BY <2>1, <2>2 DEF Keeping
  <2>6. Taken(node[n], t, token) /\ t.state = s.state /\ t.values = v
    BY <1>1, <1>2, <2>4, <2>5, ValuesTaken DEF Keeping, Memory
  <2>7. v[pdu.key] # <<>>
    <3>1. PICK q \in Seq(Value) : q = s.values[pdu.key]
      BY <1>2
    <3>2. v[pdu.key] = Append(q, pdu.val)
      BY <1>2, <2>2, <3>1
    <3>3. Len(Append(q, pdu.val)) = Len(q) + 1 /\ Len(q) \in Nat
      BY ONLY q \in Seq(Value), <2>3
    <3>4. Len(Append(q, pdu.val)) # 0
      BY ONLY <3>3
    <3> QED
      BY ONLY <3>2, <3>4, Len(<<>>) = 0
  <2>8. \A k \in Key : k # pdu.key => v[k] = s.values[k]
    BY <1>2, <2>2
  <2>9. in_my_range(t, pdu.key)
    BY <1>1, <1>4, <2>6 DEF Taken, in_my_range
  <2>10. \A k \in Key : t.values[k] # <<>> => node[n].values[k] # <<>> \/ in_my_range(t, k)
    BY <1>1, <2>6, <2>8, <2>9
  <2>11. \A k \in Key : node[n].values[k] # <<>> => t.values[k] # <<>> \/ RemoveAsked(k)
    BY <1>1, <2>6, <2>7, <2>8
  <2>12. Head(node[n].queue[token]).type = "VAL_INSERT" => t.values[Head(node[n].queue[token]).key] # <<>>
    BY <2>6, <2>7
  <2>13. t.state \in Inner
    BY <1>2, <2>6
  <2> QED
    BY <2>5, <2>6, <2>10, <2>11, <2>12, <2>13, StoredData
<1>5. CASE in_my_range(s, pdu.key) /\ pdu.type = "VAL_REMOVE"
  <2>1. Become(n, [s EXCEPT !.values[pdu.key] = <<>>], net)
    BY <1>5 DEF q9, handle_val_remove, Noting
  <2>2. PICK v : v = [s.values EXCEPT ![pdu.key] = <<>>]
    OBVIOUS
  <2>3. <<>> \in Seq(Value)
    OBVIOUS
  <2>4. v \in [Key -> Seq(Value)]
    BY ONLY <1>2, <2>2, <2>3
  <2>5. PICK t : t = Keeping(s, v) /\ Become(n, t, net)
    BY <2>1, <2>2 DEF Keeping
  <2>6. Taken(node[n], t, token) /\ t.state = s.state /\ t.values = v
    BY <1>1, <1>2, <2>4, <2>5, ValuesTaken DEF Keeping, Memory
  <2>7. RemoveAsked(pdu.key)
    <3>1. PICK q \in Seq(PDU) : q = node[n].queue[token] /\ q # <<>> /\ token \in Token
      <4>1. token \in Token
        BY InRound DEF Token
      <4>2. node[n].queue[token] # <<>>
        BY <1>2, <1>1, NodeFacts DEF NodeInv, Settled
      <4>3. node[n].queue[token] \in Seq(PDU)
        BY <4>1, Typed, MemoryFields
      <4> QED
        BY <4>1, <4>2, <4>3
    <3>2. 1 \in DOMAIN q /\ q[1] = pdu
      <4>1. 1 \in DOMAIN q /\ q[1] = Head(q)
        BY ONLY <3>1, q \in Seq(PDU)
      <4> QED
        BY <3>1, <4>1
    <3>3. Carries(q, "VAL_REMOVE", pdu.key)
      BY <1>5, <3>2 DEF Carries, Range
    <3>4. q \in Queues
      BY <3>1 DEF Queues
    <3> QED
      BY <3>3, <3>4 DEF RemoveAsked
  <2>8. v[pdu.key] = <<>> /\ \A k \in Key : k # pdu.key => v[k] = s.values[k]
    BY <1>2, <2>2
  <2>9. \A k \in Key : t.values[k] # <<>> => node[n].values[k] # <<>> \/ in_my_range(t, k)
    BY <1>1, <2>6, <2>8
  <2>10. \A k \in Key : node[n].values[k] # <<>> => t.values[k] # <<>> \/ RemoveAsked(k)
    BY <1>1, <2>6, <2>7, <2>8
  <2>11. Head(node[n].queue[token]).type # "VAL_INSERT" /\ t.state \in Inner
    BY <1>2, <1>5, <2>6
  <2> QED
    BY <2>5, <2>6, <2>9, <2>10, <2>11, StoredData
<1>6. CASE in_my_range(s, pdu.key) /\ pdu.type = "VAL_LOOKUP"
  <2>1. PICK a : a = [type |-> "VAL_LOOKUP_RESPONSE", val |-> Found(s.values[pdu.key])]
    OBVIOUS
  <2>2. PICK nt : nt = SendUdp(net, n, Client, a) /\ Become(n, s, nt)
    BY <1>6, <2>1 DEF q9, handle_val_lookup, Noting
  <2>3. PICK q \in Seq(Value) : q = s.values[pdu.key]
    BY <1>2
  <2>4. Found(s.values[pdu.key]) \in Value \cup {NULL}
    <3>1. q # <<>> => Head(q) \in Value
      BY ONLY q \in Seq(Value)
    <3> QED
      BY <2>3, <3>1 DEF Found
  <2>5. a \in PDU /\ a.type = "VAL_LOOKUP_RESPONSE"
    BY <2>1, <2>4, PDUTypes
  <2>6. NetSound(net) /\ Client \in Node \cup {Client, Tracker} /\ n \in Node \cup {Client, Tracker}
        /\ Client # Tracker /\ Client \notin Node
    BY NodeFacts
  <2>7. NetSound(nt)
    BY <2>2, <2>5, <2>6, SendUdpSound
  <2>8. nt \in Kernel /\ nt.fwd = net.fwd
    BY <2>2, <2>7, Typed DEF NetSound
  <2> QED
    BY <1>1, <1>2, <1>6, <2>2, <2>8, NotedData
<1> QED
  BY <1>3, <1>4, <1>5, <1>6 DEF Values

(* handle_pdu (node.rs:553). *)
LEMMA q6handleData ==
  ASSUME NodeInv, NodeInv', JoinInv, JoinInv', DataInv, NEW n \in Node, q6handle(n)
  PROVE  KeepsData /\ DataInv'
<1>1. Running(n) /\ node[n].at = "handle"
  BY DEF q6handle
<1>2. PICK token, pdu : token = Head(node[n].events) /\ pdu = Head(node[n].queue[token])
  OBVIOUS
<1>3. handle_pdu(n, Popped(node[n], token), token, pdu, net)
  BY <1>2 DEF q6handle
<1>4. /\ pdu \in PDU
      /\ pdu.type \in Values \cup {"NET_JOIN"} \/ (token = "PREDECESSOR" /\ pdu.type = "NET_CLOSE_CONNECTION")
  BY <1>1, <1>2, HandledType
<1>5. CASE pdu.type \in Values
  <2>1. q9(n, Popped(node[n], token), pdu, net)
    BY <1>3, <1>5 DEF handle_pdu, Values
  <2>2. PICK s : s = Noting(node[n], token, "Q6", NULL)
    OBVIOUS
  <2> QED
    BY <1>1, <1>2, <1>4, <1>5, <2>1, <2>2, q9Data
<1>6. CASE pdu.type \in {"NET_JOIN", "NET_CLOSE_CONNECTION"}
  <2>1. PICK x, l : /\ x \in State /\ x \in {"Q12", "Q17"} /\ (l = pdu \/ l = Popped(node[n], token).last_pdu)
                    /\ Become(n, [Popped(node[n], token) EXCEPT !.state = x, !.last_pdu = l], net)
    <3>1. "Q12" \in State /\ "Q17" \in State
      BY DEF State
    <3>2. CASE pdu.type = "NET_JOIN"
      BY <1>3, <3>1, <3>2 DEF handle_pdu, Note
    <3>3. CASE pdu.type = "NET_CLOSE_CONNECTION"
      <4>1. token = "PREDECESSOR"
        BY <1>4, <3>3 DEF Values
      <4> QED
        BY <1>3, <3>1, <3>3, <4>1 DEF handle_pdu, Note
    <3> QED
      BY <1>6, <3>2, <3>3
  <2>2. l \in PDU \cup {NULL}
    <3>1. PICK m \in Memory : m = node[n]
      BY Typed
    <3>2. Popped(m, token).last_pdu = m.last_pdu /\ m.last_pdu \in PDU \cup {NULL}
      BY ONLY m \in Memory DEF Popped, Memory
    <3> QED
      BY <1>4, <2>1, <3>1, <3>2
  <2>3. PICK s : s = Noting(node[n], token, x, l) /\ Become(n, s, net)
    BY <2>1 DEF Noting
  <2>4. Taken(node[n], s, token) /\ s.state = x /\ s.values = node[n].values
    <3>1. PICK y \in State, q \in PDU \cup {NULL} : y = x /\ q = l
      BY <2>1, <2>2
    <3>2. s = Noting(node[n], token, y, q) /\ token = Head(node[n].events)
      BY <1>2, <2>3, <3>1
    <3>3. Taken(node[n], s, token) /\ s.state = y /\ s.values = node[n].values
      BY <1>1, <3>2, PoppedTaken
    <3> QED
      BY <3>1, <3>3
  <2>5. s.state \in Inner
    BY <2>1, <2>4 DEF Inner
  <2>6. Head(node[n].queue[token]).type # "VAL_INSERT"
    BY <1>2, <1>6
  <2> QED
    BY <1>1, <1>2, <2>3, <2>4, <2>5, <2>6, Typed, NotedData
<1> QED
  BY <1>4, <1>5, <1>6

(* q14 (node.rs:543) passes a NET_JOIN on. *)
LEMMA q14Data ==
  ASSUME NodeInv, NodeInv', JoinInv, JoinInv', DataInv, NEW n \in Node, q14(n)
  PROVE  KeepsData /\ DataInv'
<1>1. /\ Seat(node[n]) /\ Sound(node[n]) /\ node[n] \in Memory /\ World(node, net)
      /\ node[n].state = "Q14" /\ node[n].at = "run" /\ Running(n)
  BY Seated DEF JoinInv, Good, q14, At
<1>2. PICK l \in PDU : l = node[n].last_pdu /\ l.type = "NET_JOIN"
  BY <1>1, JoinNotedType DEF Live
<1>3. PICK x : x = IF Span(node[n]) > l.max_span THEN [l EXCEPT !.max_span = Span(node[n]), !.max = n] ELSE l
  OBVIOUS
<1>4. x \in PDU
  <2>1. Span(node[n]) \in Byte
    BY <1>1, WorldFacts, SplitType
  <2>2. [l EXCEPT !.max_span = Span(node[n]), !.max = n] \in PDU
    BY <1>2, <2>1, PDUFields
  <2> QED
    BY <1>2, <1>3, <2>2
<1>5. PICK s : s = Passing(node[n])
  OBVIOUS
<1>6. Forward(n, s, x, net)
  BY <1>2, <1>3, <1>5 DEF q14, Passing
<1>7. /\ s \in Memory /\ s.state = "Q6" /\ s.queue = node[n].queue /\ s.values = node[n].values
      /\ s.start = node[n].start /\ s.end = node[n].end /\ s.successor = node[n].successor
  BY <1>1, <1>5, PassingFields
<1>8. node[n].successor # NULL
  BY <1>1 DEF Seat, Neighbours
<1>9. PICK c \in Conn, nt \in Kernel : Become(n, s, nt) /\ Relayed(nt, c, x)
  BY <1>4, <1>6, <1>7, <1>8, ForwardKernel
<1>10. \A k \in Key, e \in Conn : Insert(net.fwd[e], k) => Afloat(nt, k)
  BY <1>4, <1>9, RelayedAfloat
<1>11. \A k \in Key, t \in Token : Insert(node[n].queue[t], k) => Shelved(s, k)
  BY <1>7 DEF Shelved
<1>12. Inside(s)
  BY <1>7 DEF Inside, Inner
<1> QED
  BY <1>7, <1>9, <1>10, <1>11, <1>12, MovedData

(* q17 (node.rs:565) drops a connection on which nothing is left to read. *)
LEMMA q17Data ==
  ASSUME NodeInv, NodeInv', JoinInv, JoinInv', DataInv, NEW n \in Node, q17(n)
  PROVE  KeepsData /\ DataInv'
<1>1. CASE accept_predecessor(n, "Q17", "Q6")
  BY <1>1, AcceptData
<1>2. CASE ~accept_predecessor(n, "Q17", "Q6")
  <2>1. /\ Seat(node[n]) /\ node[n] \in Memory /\ net.rst = {} /\ NetSound(net) /\ World(node, net) /\ Wires(node, net)
        /\ node[n].state = "Q17" /\ node[n].at = "run" /\ Inside(node[n]) /\ Closing(node[n])
    BY <1>2, Seated DEF JoinInv, Good, q17, At, Inside, Inner, Closing
  <2>2. node[n].predecessor # NULL /\ ~Whole(node[n])
    BY <2>1 DEF Seat, Neighbours
  <2>3. PICK p \in Conn : p = node[n].predecessor /\ p.to = n
    BY <2>1, <2>2, WorldFacts DEF Wires, Ends
  <2>4. net.fwd[p] = <<>>
    <3>1. Pipe(node, net, p) = <<>>
      BY <2>1, <2>3 DEF Wires, Dropping
    <3>2. PICK q \in Seq(PDU), f \in Seq(PDU) : q = node[n].queue["PREDECESSOR"] /\ f = net.fwd[p]
      BY <2>1, WorldFacts
    <3>3. q \o f = <<>>
      BY <2>3, <3>1, <3>2 DEF Pipe
    <3>4. Len(q \o f) = Len(q) + Len(f) /\ Len(q) \in Nat /\ Len(f) \in Nat
      OBVIOUS
    <3>5. Len(f) = 0
      BY <3>3, <3>4
    <3> QED
      BY ONLY <3>2, <3>5, f \in Seq(PDU), EmptySeq
  <2>5. PICK m \in Memory : m = node[n]
    BY <2>1
  <2>6. PICK s : s = [[m EXCEPT !.predecessor = NULL] EXCEPT !.at = "accept"]
    OBVIOUS
  <2>7. PICK nt : nt = CloseAcceptor(net, p)
    OBVIOUS
  <2>8. Become(n, s, nt)
    <3>1. [m EXCEPT !.predecessor = NULL].start = m.start /\ [m EXCEPT !.predecessor = NULL].end = m.end
      BY <2>5 DEF Memory
    <3>2. ~([m EXCEPT !.predecessor = NULL].start = 0 /\ [m EXCEPT !.predecessor = NULL].end = HASH_SIZE - 1)
      BY <2>2, <2>5, <3>1 DEF Whole
    <3>3. Fails(net, p) = {FALSE} /\ p # NULL
      BY <2>1, <2>2, <2>3 DEF Fails
    <3> QED
      BY <1>2, <2>3, <2>5, <2>6, <2>7, <3>2, <3>3 DEF q17
  <2>9. /\ s \in Memory /\ s.values = m.values /\ s.queue = m.queue /\ s.start = m.start /\ s.end = m.end
        /\ s.state = m.state
    BY ONLY <2>6, m \in Memory DEF Memory
  <2>10. nt \in Kernel
    BY <2>1, <2>7, CloseSound DEF NetSound
  <2>11. \A c \in Conn : nt.fwd[c] = net.fwd[c]
    <3>1. net.fwd \in [Conn -> Seq(PDU)]
      BY <2>1, NetFields
    <3>2. nt.fwd = [net.fwd EXCEPT ![p] = <<>>]
      BY <2>1, <2>3, <2>7, NullFacts DEF CloseAcceptor, NetSound, Kernel
    <3> QED
      BY <2>4, <3>1, <3>2
  <2>12. Inside(s)
    BY <2>1, <2>5, <2>9 DEF Inside
  <2>13. \A k \in Key, t \in Token : Insert(node[n].queue[t], k) => Shelved(s, k)
    BY <2>5, <2>9 DEF Shelved
  <2>14. \A k \in Key, c \in Conn : Insert(net.fwd[c], k) => Afloat(nt, k)
    BY <2>11 DEF Afloat
  <2> QED
    BY <2>5, <2>8, <2>9, <2>10, <2>12, <2>13, <2>14, MovedData
<1> QED
  BY <1>1, <1>2

(* What a node that takes its seat keeps. *)
LEMMA SeatingKeeps ==
  ASSUME NEW m \in Memory, NEW g \in Seq(PDU), NEW v, v = Refilled(m, g),
         NEW r \in PDU, r.type = "NET_JOIN_RESPONSE", NEW c \in Conn, NEW s, s = Seating(v, r, c)
  PROVE  s \in Memory /\ s.values = m.values
<1>1. PICK q : q = [NoQueue EXCEPT !["PREDECESSOR"] = g]
  OBVIOUS
<1>2. q \in [Token -> Seq(PDU)]
  <2>1. \A t \in Token : <<>> \in Seq(PDU)
    OBVIOUS
  <2> QED
    BY <1>1, <2>1 DEF NoQueue
<1>3. v = [m EXCEPT !.queue = q]
  BY <1>1 DEF Refilled
<1>4. v \in Memory /\ v.values = m.values
  BY ONLY <1>2, <1>3, m \in Memory DEF Memory
<1>5. PICK a, b : a \in Byte /\ b \in Byte /\ a = r.range_start /\ b = r.range_end
  BY PDUFields
<1>6. PICK x \in Node : x = c.to
  BY ConnFields
<1>7. PICK w : w = [v EXCEPT !.state = "Q6", !.at = "run"]
  OBVIOUS
<1>8. w \in Memory /\ w.values = v.values
  <2>1. "Q6" \in State
    BY DEF State
  <2> QED
    BY ONLY <1>4, <1>7, <2>1 DEF Memory
<1>9. PICK z : z = [w EXCEPT !.start = a, !.end = b]
  OBVIOUS
<1>10. z \in Memory /\ z.values = w.values
  BY ONLY <1>5, <1>8, <1>9 DEF Memory
<1>11. s = [z EXCEPT !.successor = c, !.successor_listen = x]
  BY <1>5, <1>6, <1>7, <1>9 DEF Seating, ConnectedTo, Goto
<1>12. s \in Memory /\ s.values = z.values
  <2>1. c \in Conn \cup {NULL} /\ x \in Node \cup {NULL}
    BY ONLY <1>6, c \in Conn
  <2>2. PICK y : y = [z EXCEPT !.successor = c]
    OBVIOUS
  <2>3. y \in Memory /\ y.values = z.values
    BY ONLY <1>10, <2>1, <2>2 DEF Memory
  <2>4. s = [y EXCEPT !.successor_listen = x]
    BY ONLY <1>11, <2>2
  <2> QED
    BY ONLY <2>1, <2>3, <2>4 DEF Memory
<1> QED
  BY ONLY <1>4, <1>8, <1>10, <1>12

(* q8 (node.rs:357): what was read with the response stays in the queue. *)
LEMMA q8Data ==
  ASSUME NodeInv, NodeInv', JoinInv, JoinInv', DataInv, NEW n \in Node, q8(n)
  PROVE  KeepsData /\ DataInv'
<1>1. /\ Seat(node[n]) /\ node[n] \in Memory /\ NetSound(net)
      /\ node \in [Node -> Memory] /\ World(node, net) /\ Wires(node, net)
  BY Seated DEF JoinInv, NodeInv, Good
<1>2. Told(node[n])
  BY DEF q8, At, Told
<1>3. PICK a \in await_pdu(n, "PREDECESSOR") :
        /\ Unused(n, a.pdu.next) # {}
        /\ Become(n, Seating(a.memory, a.pdu, NewConn(n, a.pdu.next)), Connect(a.kernel, NewConn(n, a.pdu.next)))
  BY NobodyPanics DEF q8, Seating
<1>4. PICK p : p = node[n].predecessor
  OBVIOUS
<1>5. PICK f : f = Pipe(node, net, p)
  OBVIOUS
<1>6. PICK r : r = Head(f)
  OBVIOUS
<1>7. /\ p \in Conn /\ p.to = n /\ f \in Seq(PDU) /\ f # <<>> /\ r \in PDU
      /\ r.type = "NET_JOIN_RESPONSE" /\ Follows(node, net, r.next, r.range_end) /\ ~Inside(node[n])
  BY <1>1, <1>2, <1>4, <1>5, <1>6, ToldFacts
<1>8. net.fwd[p] = f
  <2>1. node[n].queue["PREDECESSOR"] = <<>> /\ net.fwd[p] \in Seq(PDU)
    BY <1>1, <1>7, WorldFacts DEF Seat, Queued, NoQueue, Token
  <2>2. f = node[n].queue["PREDECESSOR"] \o net.fwd[p]
    BY <1>4, <1>5, <1>7 DEF Pipe
  <2> QED
    BY <2>1, <2>2
<1>9. a.pdu = r /\ NetSound(a.kernel)
  BY <1>2, <1>4, <1>6, <1>7, <1>8, ReadResponse
<1>10. PICK g, rest \in Seq(PDU) :
         /\ g # <<>> /\ g \o rest = net.fwd[p]
         /\ a.memory = [node[n] EXCEPT !.queue = [NoQueue EXCEPT !["PREDECESSOR"] = Tail(g)]]
         /\ a.kernel = [net EXCEPT !.fwd = [net.fwd EXCEPT ![p] = rest]]
  <2>1. ReadFirst(node[n], net, p, a)
    BY <1>2, <1>4, <1>7, ReadResponse
  <2> QED
    BY <2>1 DEF ReadFirst
<1>11. r.next \in Node
  BY <1>7 DEF Follows
<1>12. PICK c : c = NewConn(n, r.next)
  OBVIOUS
<1>13. Unused(n, r.next) # {} /\ Become(n, Seating(a.memory, r, c), Connect(a.kernel, c))
  BY <1>3, <1>9, <1>12
<1>14. c \in Conn
  BY <1>12, <1>13, NewConnType DEF Unused
<1>15. PICK s, nt : s = Seating(a.memory, r, c) /\ nt = Connect(a.kernel, c)
  OBVIOUS
<1>16. PICK h \in Seq(PDU) : h = Tail(g) /\ h \o rest = Tail(f)
  <2>1. Tail(g) \in Seq(PDU) /\ Tail(g) \o rest = Tail(f)
    BY <1>8, <1>10, TailConcat
  <2> QED
    BY <2>1
<1>17. PICK m \in Memory : m = node[n]
  BY <1>1
<1>18. s \in Memory /\ s.values = m.values /\ s.queue["PREDECESSOR"] = h
  <2>1. PICK v : v = a.memory
    OBVIOUS
  <2>2. v = Refilled(m, h)
    BY <1>10, <1>16, <1>17, <2>1 DEF Refilled
  <2>3. s = Seating(v, r, c)
    BY <1>15, <2>1
  <2>4. s.queue["PREDECESSOR"] = h
    BY ONLY <1>7, <1>14, <2>2, <2>3, m \in Memory, h \in Seq(PDU), SeatingFields
  <2>5. s \in Memory /\ s.values = m.values
    BY ONLY <1>7, <1>14, <2>2, <2>3, m \in Memory, h \in Seq(PDU), SeatingKeeps
  <2> QED
    BY <2>4, <2>5
<1>19. nt \in Kernel /\ nt.fwd[p] = rest /\ \A d \in Conn : d # p => nt.fwd[d] = net.fwd[d]
  <2>1. NetSound(nt)
    BY <1>9, <1>14, <1>15, ConnectSound
  <2>2. net \in Kernel
    BY <1>1 DEF NetSound
  <2>3. PICK w : w = [net.fwd EXCEPT ![p] = rest]
    OBVIOUS
  <2>4. a.kernel = [net EXCEPT !.fwd = w] /\ nt = [a.kernel EXCEPT !.backlog[c.to] = Append(@, c), !.rst = @ \ {c}]
    BY <1>10, <1>15, <2>3 DEF Connect
  <2>5. nt.fwd = w
    BY ONLY <2>2, <2>4 DEF Kernel
  <2>6. w[p] = rest /\ \A d \in Conn : d # p => w[d] = net.fwd[d]
    BY <1>1, <1>7, <2>3, NetFields
  <2> QED
    BY <2>1, <2>5, <2>6 DEF NetSound
<1>20. ASSUME NEW k \in Key, NEW d \in Conn, Insert(net.fwd[d], k) PROVE Shelved(s, k) \/ Afloat(nt, k)
  <2>1. CASE d # p
    BY <1>19, <1>20, <2>1 DEF Afloat
  <2>2. CASE d = p
    <3>1. Insert(Tail(f), k)
      <4>1. Insert(f, k)
        BY <1>8, <1>20, <2>2
      <4> QED
        BY <1>6, <1>7, <4>1, InsertTail
    <3>2. Insert(h, k) \/ Insert(rest, k)
      <4>1. Insert(h \o rest, k)
        BY <1>16, <3>1
      <4> QED
        BY ONLY h \in Seq(PDU), rest \in Seq(PDU), <4>1, InsertParts
    <3>3. "PREDECESSOR" \in Token
      BY DEF Token
    <3> QED
      BY <1>7, <1>18, <1>19, <3>2, <3>3 DEF Shelved, Afloat
  <2> QED
    BY <2>1, <2>2
<1>21. \A k \in Key, t \in Token : ~Insert(node[n].queue[t], k)
  BY <1>7, OutsideEmpty DEF Shelved
<1>22. Become(n, s, nt)
  BY <1>13, <1>15
<1> QED
  BY <1>7, <1>17, <1>18, <1>19, <1>20, <1>21, <1>22, MovedData

(* transfer sends every entry of a key it takes out. *)
LEMMA SentAll ==
  ASSUME NEW m \in Memory, NEW a, NEW b, NEW sent \in Transferred(m, a, b), NEW k \in Between(m, a, b)
  PROVE  Insert(sent, k)
<1>1. PICK o \in SetToSeqs(Entries(m, a, b)) : sent = InsertsOf(m, o)
  BY DEF Transferred
<1>2. PICK S : S = Entries(m, a, b) /\ IsFiniteSet(S)
  BY EntriesFinite
<1>3. PICK D : D = 1 .. Cardinality(S)
  OBVIOUS
<1>4. IsFiniteSet(D) /\ Cardinality(D) = Cardinality(S)
  <2>1. PICK c \in Nat : c = Cardinality(S)
    BY <1>2, FS_CardinalityType
  <2>2. IsFiniteSet(1 .. c) /\ Cardinality(1 .. c) = IF 1 > c THEN 0 ELSE c - 1 + 1
    BY FS_Interval
  <2> QED
    BY <1>3, <2>1, <2>2
<1>5. o \in Injection(D, S)
  BY <1>1, <1>2, <1>3 DEF SetToSeqs, Injection, IsInjective
<1>6. o \in Surjection(D, S)
  BY <1>2, <1>4, <1>5, FS_Injection
<1>7. <<k, 1>> \in S
  <2>1. k \in Key /\ m.values[k] # <<>>
    BY DEF Between
  <2>2. PICK q \in Seq(Value) : q = m.values[k] /\ q # <<>>
    BY <2>1, MemoryFields
  <2>3. 1 \in DOMAIN m.values[k]
    BY <2>2
  <2> QED
    BY <1>2, <2>3 DEF Entries
<1>8. PICK i \in D : o[i] = <<k, 1>>
  BY <1>6, <1>7 DEF Surjection
<1>9. i \in DOMAIN o
  BY <1>5, <1>8 DEF Injection
<1>10. i \in DOMAIN sent /\ sent[i].type = "VAL_INSERT" /\ sent[i].key = k
  BY <1>1, <1>8, <1>9 DEF InsertsOf
<1> QED
  BY <1>10 DEF Insert, Carries, Range

(* What is left in the table, and in the range, of a node that makes room. *)
LEMMA RoomKeeps ==
  ASSUME NEW m \in Memory, NEW e \in Byte, NEW f \in [Key -> Seq(Value)], NEW c \in Conn,
         NEW x, NEW y, (x = "Q5" /\ y = "accept") \/ (x = "Q6" /\ y = "run"), NEW s, s = Room(m, e, f, c, x, y)
  PROVE  s \in Memory /\ s.values = f
<1>1. PICK v : v = [m EXCEPT !.end = e]
  OBVIOUS
<1>2. v \in Memory
  BY ONLY <1>1, m \in Memory, e \in Byte DEF Memory
<1>3. PICK w : w = [v EXCEPT !.values = f]
  OBVIOUS
<1>4. w \in Memory /\ w.values = f
  BY ONLY <1>2, <1>3, f \in [Key -> Seq(Value)] DEF Memory
<1>5. PICK z : z = ConnectedTo(w, c)
  OBVIOUS
<1>6. z \in Memory /\ z.values = f
  <2>1. PICK d \in Node : d = c.to
    BY ConnFields
  <2>2. z = [w EXCEPT !.successor = c, !.successor_listen = d]
    BY <1>5, <2>1 DEF ConnectedTo
  <2> QED
    BY ONLY <1>4, <2>2, c \in Conn, d \in Node DEF Memory
<1>7. s = [z EXCEPT !.last_pdu = NULL, !.state = x, !.at = y]
  BY <1>1, <1>3, <1>5 DEF Room
<1>8. x \in State /\ y \in {"run", "accept"}
  BY DEF State
<1> QED
  BY ONLY <1>6, <1>7, <1>8 DEF Memory

(* q5 (node.rs:266) and q13 (node.rs:478) make room: what is taken out of the
   table is sent, and what stays is in the lower half. *)
LEMMA MakeRoomData ==
  ASSUME NodeInv, NodeInv', JoinInv, JoinInv', DataInv, NEW n \in Node, Running(n), Live(node[n]),
         node[n].start < node[n].end, NEW next \in Node,
         NEW nt, Parted(n, nt), NEW x, NEW y,
         (x = "Q5" /\ y = "accept") \/ (x = "Q6" /\ y = "run"),
         MakeRoom(n, node[n], next, nt, x, y)
  PROVE  KeepsData /\ DataInv'
<1>1. /\ Seat(node[n]) /\ NetSound(net) /\ Good(node, net, nodes) /\ node[n] \in Memory
      /\ World(node, net) /\ Wires(node, net)
  BY Seated DEF JoinInv, NodeInv, Good
<1>2. PICK m \in Memory : m = node[n]
  BY <1>1
<1>3. PICK src \in Node : src = m.last_pdu.src /\ Running(src)
  BY <1>2, LiveApplicant
<1>4. PICK c : c = NewConn(n, src)
  OBVIOUS
<1>5. /\ Unused(n, src) # {}
      /\ \E sent \in Transferred(m, SplitStart(m), m.end) :
            Become(n, [ConnectedTo(Retained(split_range(m), SplitStart(m), m.end), c)
                         EXCEPT !.last_pdu = NULL, !.state = x, !.at = y],
                   SendForward(Connect(nt, c), c, <<JoinResponse(m, next)>> \o sent))
  BY <1>2, <1>3, <1>4 DEF MakeRoom
<1>6. c \in Conn /\ c.from = n /\ ~Holds(node, net, c) /\ ~Dials(node, c)
  BY <1>4, <1>5, NewConnType DEF Unused, AcceptorHolds, ConnectorHolds, Holds, Dials
<1>7. PICK sent \in Transferred(m, SplitStart(m), m.end) :
            Become(n, [ConnectedTo(Retained(split_range(m), SplitStart(m), m.end), c)
                         EXCEPT !.last_pdu = NULL, !.state = x, !.at = y],
                   SendForward(Connect(nt, c), c, <<JoinResponse(m, next)>> \o sent))
  BY <1>5
<1>8. PICK e \in Byte : e = Middle(m) /\ m.start <= e /\ e < m.end /\ SplitStart(m) = e + 1 /\ e + 1 \in Byte
  <2>1. m.start \in Byte /\ m.end \in Byte /\ m.start < m.end
    BY <1>2, MemoryFields
  <2>2. SplitStart(m) \in Byte
    BY <2>1, SplitType
  <2> QED
    BY <2>1, <2>2, SplitRange
<1>9. PICK f : f = [k \in Key |-> IF k \in Between(m, e + 1, m.end) THEN <<>> ELSE m.values[k]]
  OBVIOUS
<1>10. f \in [Key -> Seq(Value)]
  <2>1. <<>> \in Seq(Value)
    OBVIOUS
  <2> QED
    BY <1>9, <2>1, MemoryFields
<1>11. Retained(split_range(m), SplitStart(m), m.end) = [[m EXCEPT !.end = e] EXCEPT !.values = f]
  <2>1. PICK v : v = [m EXCEPT !.end = e] /\ v = split_range(m)
    BY <1>8 DEF split_range
  <2>2. v.values = m.values
    BY ONLY <2>1, m \in Memory DEF Memory
  <2>3. Between(v, e + 1, m.end) = Between(m, e + 1, m.end)
    BY <2>2 DEF Between
  <2>4. Retained(v, e + 1, m.end) = [v EXCEPT !.values = f]
    BY <1>9, <2>2, <2>3 DEF Retained
  <2> QED
    BY <1>8, <2>1, <2>4
<1>12. PICK r \in PDU : r = JoinResponse(m, next) /\ r.type = "NET_JOIN_RESPONSE"
  <2>1. m.end \in Byte
    BY MemoryFields
  <2>2. JoinResponse(m, next) = [type |-> "NET_JOIN_RESPONSE", next |-> next, range_start |-> e + 1, range_end |-> m.end]
    BY <1>8 DEF JoinResponse
  <2> QED
    BY <1>8, <2>1, <2>2, PDUTypes
<1>13. PICK w \in Seq(PDU) : w = sent
  BY TransferredType
<1>14. PICK o \in Seq(PDU) : o = <<r>>
  <2>1. <<r>> \in Seq(PDU)
    BY ONLY r \in PDU
  <2> QED
    BY <2>1
<1>15. PICK q \in Seq(PDU) : q = o \o w
  <2>1. o \o w \in Seq(PDU)
    BY ONLY o \in Seq(PDU), w \in Seq(PDU)
  <2> QED
    BY <2>1
<1>16. PICK s, mt : s = Room(m, e, f, c, x, y) /\ mt = SendForward(Connect(nt, c), c, q)
  OBVIOUS
<1>17. Become(n, s, mt)
  BY <1>7, <1>11, <1>12, <1>13, <1>14, <1>15, <1>16 DEF Room
<1>18. /\ s.state = x /\ s.start = m.start /\ s.end = e /\ s.queue = m.queue /\ s \in Memory /\ s.values = f
  <2>1. (x = "Q5" /\ y = "accept") \/ (x = "Q6" /\ y = "run")
    OBVIOUS
  <2>2. s = Room(m, e, f, c, x, y)
    BY <1>16
  <2>3. s.state = x /\ s.start = m.start /\ s.end = e /\ s.queue = m.queue
    BY ONLY <1>6, <2>1, <2>2, m \in Memory, e \in Byte, f \in [Key -> Seq(Value)], <1>10, RoomFields
  <2>4. s \in Memory /\ s.values = f
    BY ONLY <1>6, <2>1, <2>2, m \in Memory, e \in Byte, f \in [Key -> Seq(Value)], <1>10, RoomKeeps
  <2> QED
    BY <2>3, <2>4
<1>19. net.fwd[c] = <<>> /\ nt.fwd[c] = <<>>
  <2>1. Pipe(node, net, c) = <<>>
    BY <1>1, <1>6 DEF Wires, Line
  <2>2. nt.fwd[c] = net.fwd[c]
    BY <1>6 DEF Parted, Closed
  <2> QED
    BY <1>6, <2>1, <2>2 DEF Pipe, Holds
<1>20. mt \in Kernel /\ mt.fwd[c] = q /\ \A d \in Conn : d # c => mt.fwd[d] = nt.fwd[d]
  <2>1. NetSound(nt) /\ nt.rst = {}
    BY DEF Parted
  <2>2. Offering(nt, mt, c, q)
    BY <1>6, <1>16, <1>19, <2>1, OfferSent
  <2> QED
    BY <2>2 DEF Offering, NetSound
<1>21. Inside(s)
  BY <1>18 DEF Inside, Inner
<1>22. ASSUME NEW k \in Key, f[k] # <<>> PROVE in_my_range(s, k)
  <2>1. k \notin Between(m, e + 1, m.end) /\ f[k] = m.values[k]
    BY <1>9, <1>22
  <2>2. in_my_range(m, k)
    BY <1>2, <1>22, <2>1 DEF DataInv, Stocked
  <2>3. PICK h \in Byte, b \in Byte, a \in Byte : h = hash_ssn[k] /\ b = m.end /\ a = m.start
    BY RustNodeAssumption, MemoryFields
  <2>4. ~InRange(h, e + 1, b)
    BY <1>22, <2>1, <2>3 DEF Between
  <2>5. InRange(h, a, b)
    BY <2>2, <2>3 DEF in_my_range
  <2>6. InRange(h, a, e)
    BY ONLY <2>4, <2>5, h \in Byte, e \in Byte DEF InRange, Byte
  <2> QED
    BY <1>18, <2>3, <2>6 DEF in_my_range
<1>23. Stocked(s)
  BY <1>18, <1>21, <1>22 DEF Stocked
<1>24. ASSUME NEW k \in Key, m.values[k] # <<>> PROVE Shelved(s, k) \/ Afloat(mt, k)
  <2>1. CASE k \in Between(m, e + 1, m.end)
    <3>1. Insert(sent, k)
      BY <1>8, <2>1, SentAll
    <3>2. Insert(o \o w, k)
      <4>1. Insert(w, k)
        BY <1>13, <3>1
      <4> QED
        BY ONLY o \in Seq(PDU), w \in Seq(PDU), <4>1, InsertParts
    <3> QED
      BY <1>6, <1>15, <1>20, <3>2 DEF Afloat
  <2>2. CASE k \notin Between(m, e + 1, m.end)
    BY <1>9, <1>18, <1>24, <2>2 DEF Shelved
  <2> QED
    BY <2>1, <2>2
<1>25. ASSUME NEW k \in Key, NEW d \in Conn, Insert(net.fwd[d], k) PROVE Afloat(mt, k)
  <2>1. d # c /\ mt.fwd[d] = nt.fwd[d]
    BY <1>19, <1>20, <1>25 DEF Insert, Carries, Range
  <2>2. CASE nt.fwd[d] = net.fwd[d]
    BY <1>25, <2>1, <2>2 DEF Afloat
  <2>3. CASE Closed(node, n, d, net.fwd[d], nt.fwd[d])
    <3>1. PICK z \in PDU : nt.fwd[d] = Append(net.fwd[d], z)
      BY <2>3 DEF Closed
    <3>2. PICK p \in Seq(PDU), v \in Seq(PDU) : p = net.fwd[d] /\ v = <<z>>
      <4>1. <<z>> \in Seq(PDU)
        BY ONLY z \in PDU
      <4>2. net.fwd[d] \in Seq(PDU)
        BY <1>1, WorldFacts
      <4> QED
        BY <4>1, <4>2
    <3>3. nt.fwd[d] = p \o v
      <4>1. Append(p, z) = p \o <<z>>
        BY ONLY p \in Seq(PDU), z \in PDU
      <4> QED
        BY <3>1, <3>2, <4>1
    <3>4. Insert(p \o v, k)
      <4>1. Insert(p, k)
        BY <1>25, <3>2
      <4> QED
        BY ONLY p \in Seq(PDU), v \in Seq(PDU), <4>1, InsertParts
    <3> QED
      BY <2>1, <3>3, <3>4 DEF Afloat
  <2> QED
    BY <2>2, <2>3 DEF Parted
<1>26. \A k \in Key, d \in Conn : ~Insert(net.bwd[d], k)
  BY <1>1 DEF Wires, Line, Insert, Carries, Range
<1>27. Keeps(n, s, mt)
  <2>1. ASSUME NEW k \in Key, Shelved(node[n], k) \/ Afloat(net, k) PROVE Shelved(s, k) \/ Afloat(mt, k)
    <3>1. CASE m.values[k] # <<>>
      BY <1>24, <3>1
    <3>2. CASE \E t \in Token : Insert(m.queue[t], k)
      BY <1>18, <3>2 DEF Shelved
    <3>3. CASE Afloat(net, k)
      BY <1>25, <1>26, <3>3 DEF Afloat
    <3> QED
      BY <1>2, <2>1, <3>1, <3>2, <3>3 DEF Shelved
  <2> QED
    BY <2>1 DEF Keeps
<1> QED
  BY <1>17, <1>18, <1>20, <1>23, <1>27, DataStep

(* The two ways to make room. *)
LEMMA SplitData ==
  ASSUME JoinOnly, Splittable, NodeInv, NodeInv', JoinInv, JoinInv', DataInv, NEW n \in Node, q5(n) \/ q13(n)
  PROVE  KeepsData /\ DataInv'
<1>1. CASE q5(n) /\ At(n, "Q5", "run") /\ MakeRoom(n, node[n], n, net, "Q5", "accept")
  <2>1. Running(n) /\ node[n].state = "Q5" /\ node[n].at = "run" /\ Live(node[n]) /\ Inside(node[n])
    BY <1>1 DEF At, Live, Inside, Inner
  <2>2. Whole(node[n])
    BY <2>1, Typed DEF Seat, Neighbours
  <2>3. node[n].start < node[n].end
    BY <2>2, HashSizeAssumption DEF JoinOnly, Whole
  <2>4. Parted(n, net)
    BY Typed DEF Parted
  <2>5. PICK x, y : x = "Q5" /\ y = "accept"
    OBVIOUS
  <2>6. MakeRoom(n, node[n], n, net, x, y)
    BY <1>1, <2>5
  <2>7. (x = "Q5" /\ y = "accept") \/ (x = "Q6" /\ y = "run")
    BY <2>5
  <2> QED
    BY <2>1, <2>3, <2>4, <2>6, <2>7, MakeRoomData
<1>2. CASE accept_predecessor(n, "Q5", "Q6")
  BY <1>2, AcceptData
<1>3. CASE q13(n)
  <2>1. Running(n) /\ node[n].state = "Q13" /\ node[n].at = "run" /\ Live(node[n])
    BY <1>3 DEF q13, At, Live
  <2>2. node[n].successor # NULL /\ node[n] \in Memory
    BY <2>1, Typed DEF Seat, Neighbours
  <2>3. PICK old \in Conn : old = node[n].successor
    BY <2>2, MemoryFields
  <2>4. PICK closing : closing = SendForward(net, old, <<[type |-> "NET_CLOSE_CONNECTION"]>>)
    OBVIOUS
  <2>5. PICK nt : nt = CloseConnector(closing, old)
    OBVIOUS
  <2>6. Fails(closing, old) = {FALSE} /\ Parted(n, nt)
    BY <2>3, <2>4, <2>5, PartedFromOld
  <2>7. PICK x, y : x = "Q6" /\ y = "run"
    OBVIOUS
  <2>8. MakeRoom(n, node[n], old.to, nt, x, y)
    BY <1>3, <2>3, <2>4, <2>5, <2>6, <2>7 DEF q13
  <2>9. node[n].start < node[n].end
    BY <2>1 DEF Splittable
  <2>10. PICK next \in Node : next = old.to
    BY <2>3, ConnFields
  <2>11. MakeRoom(n, node[n], next, nt, x, y)
    BY <2>8, <2>10
  <2>12. (x = "Q5" /\ y = "accept") \/ (x = "Q6" /\ y = "run")
    BY <2>7
  <2> QED
    BY <2>1, <2>6, <2>9, <2>11, <2>12, MakeRoomData
<1> QED
  BY <1>1, <1>2, <1>3 DEF q5

(* What is not a step of a node leaves tables and streams alone. *)
LEMMA WorldData ==
  ASSUME NodeInv, JoinInv, DataInv,
         LoseDatagram \/ RunTracker \/ ClientReceive \/ (\E n \in Node : NodeTimeout(n)) \/ (\E p \in PDU : ClientSend(p))
  PROVE  KeepsData /\ DataInv'
<1>1. net \in Kernel
  BY NodeInv DEF NodeInv, NetSound
<1>2. ASSUME NEW src, NEW dst, NEW p, NEW nt, nt = SendUdp(net, src, dst, p)
      PROVE  nt.fwd = net.fwd /\ nt.bwd = net.bwd /\ DOMAIN nt = DOMAIN net
  BY <1>1, <1>2 DEF SendUdp, Kernel
<1>3. node' = node /\ net'.fwd = net.fwd /\ net'.bwd = net.bwd
  <2>1. CASE LoseDatagram
    <3>1. PICK d \in net.udp : net' = [net EXCEPT !.udp = @ \ {d}]
      BY <2>1 DEF LoseDatagram
    <3> QED
      BY <1>1, <2>1, <3>1 DEF LoseDatagram, Kernel
  <2>2. CASE RunTracker
    <3>1. PICK d \in net.udp : StunLookup(d) \/ NetAlive(d) \/ NetGetNode(d)
      BY <2>2 DEF RunTracker
    <3>2. PICK nt, U : net' = [nt EXCEPT !.udp = U] /\ nt.fwd = net.fwd /\ nt.bwd = net.bwd /\ DOMAIN nt = DOMAIN net
      <4>1. CASE StunLookup(d)
        <5>1. PICK nt : /\ nt = SendUdp(net, Tracker, d.src, [type |-> "STUN_RESPONSE"])
                        /\ net' = [nt EXCEPT !.udp = @ \ {d}]
          BY <4>1 DEF StunLookup
        <5>2. PICK U : net' = [nt EXCEPT !.udp = U]
          BY <5>1
        <5>3. nt.fwd = net.fwd /\ nt.bwd = net.bwd /\ DOMAIN nt = DOMAIN net
          BY <1>2, <5>1
        <5> QED
          BY <5>2, <5>3
      <4>2. CASE NetAlive(d)
        BY <4>2 DEF NetAlive
      <4>3. CASE NetGetNode(d)
        <5>1. PICK m : net' = [SendUdp(net, Tracker, d.src, [type |-> "NET_GET_NODE_RESPONSE", node |-> m])
                                 EXCEPT !.udp = @ \ {d}]
          BY <4>3 DEF NetGetNode
        <5>2. PICK nt : /\ nt = SendUdp(net, Tracker, d.src, [type |-> "NET_GET_NODE_RESPONSE", node |-> m])
                        /\ net' = [nt EXCEPT !.udp = @ \ {d}]
          BY <5>1
        <5>3. PICK U : net' = [nt EXCEPT !.udp = U]
          BY <5>2
        <5>4. nt.fwd = net.fwd /\ nt.bwd = net.bwd /\ DOMAIN nt = DOMAIN net
          BY <1>2, <5>2
        <5> QED
          BY <5>3, <5>4
      <4> QED
        BY <3>1, <4>1, <4>2, <4>3
    <3>3. net'.fwd = nt.fwd /\ net'.bwd = nt.bwd
      BY <1>1, <3>2 DEF Kernel
    <3> QED
      BY <2>2, <3>2, <3>3 DEF RunTracker
  <2>3. CASE ClientReceive
    <3>1. PICK d \in net.udp : net' = [net EXCEPT !.udp = @ \ {d}]
      BY <2>3 DEF ClientReceive
    <3> QED
      BY <1>1, <2>3, <3>1 DEF ClientReceive, Kernel
  <2>4. CASE \E n \in Node : NodeTimeout(n)
    BY <2>4 DEF NodeTimeout
  <2>5. CASE \E p \in PDU : ClientSend(p)
    BY <1>2, <2>5 DEF ClientSend
  <2> QED
    BY <2>1, <2>2, <2>3, <2>4, <2>5
<1> QED
  BY <1>3, PostData

(* Every step of the network. *)
LEMMA NextData ==
  ASSUME JoinOnly, Splittable, RustInv, RustInv', JoinInv, JoinInv', DataInv, Next
  PROVE  KeepsData /\ DataInv'
<1>1. NodeInv /\ NodeInv' /\ nodes \in SUBSET Node
  BY DEF RustInv, TypeOK
<1>2. CASE \E n \in Node : StartNode(n) \/ AliveDue(n)
  BY <1>1, <1>2, OutsideWorldData
<1>3. CASE \E n \in Node : CtrlC(n) \/ NodeFault(n)
  BY <1>3 DEF CtrlC, NodeFault, Interrupted, JoinOnly
<1>4. ASSUME NEW n \in Node, RunNode(n) PROVE KeepsData /\ DataInv'
  <2>1. run(n)
    BY <1>4 DEF RunNode
  <2>2. CASE q1(n) \/ q2(n) \/ q3(n)
    <3>1. q3(n) => At(n, "Q3", "run") \/ At(n, "Q3", "await")
      BY DEF q3
    <3> QED
      BY <1>1, <2>2, <3>1, AskData, AnsweredData
  <2>3. CASE q4(n) \/ q7(n) \/ q8(n)
    BY <1>1, <2>3, q4Data, q7Data, q8Data
  <2>4. CASE q5(n) \/ q13(n)
    BY <1>1, <2>4, SplitData
  <2>5. CASE send_alive(n) \/ q6poll(n) \/ q12(n)
    BY <1>1, <2>5, TurnData
  <2>6. CASE q6read(n) \/ q6handle(n)
    BY <1>1, <2>6, q6readData, q6handleData
  <2>7. CASE q14(n) \/ q17(n)
    BY <1>1, <2>7, q14Data, q17Data
  <2> QED
    BY <1>1, <2>1, <2>2, <2>3, <2>4, <2>5, <2>6, <2>7, NobodyLeaves DEF run
<1>5. CASE LoseDatagram \/ RunTracker \/ ClientReceive \/ \E n \in Node : NodeTimeout(n)
  BY <1>1, <1>5, WorldData
<1>6. CASE ClientInsert \/ ClientRemove \/ ClientLookup
  <2>1. PICK pdu \in PDU : ClientSend(pdu)
    BY <1>6, AnyRequest
  <2> QED
    BY <1>1, <2>1, WorldData
<1> QED
  BY <1>2, <1>3, <1>4, <1>5, <1>6 DEF Next

(* The tables are empty at first. *)
LEMMA InitData == ASSUME Init PROVE DataInv
<1>1. \A n \in Node, k \in Key : node[n].values[k] = <<>>
  BY DEF Init, new, NoValues
<1> QED
  BY <1>1 DEF DataInv, Stocked

(***************************************************************************)
(* Theorems.                                                               *)
(***************************************************************************)

(* The README's "ensures no data loss as nodes join": whatever joins, client
   requests and lost datagrams come between the steps of a handover, no key
   that nobody asked to remove disappears from all tables, queues and streams. *)
THEOREM JoinsLoseNothing == JoinOnly => (Spec /\ []Splittable => NoDataLoss)
<1> SUFFICES ASSUME JoinOnly PROVE Spec /\ []Splittable => NoDataLoss
  OBVIOUS
<1>1. Init => DataInv
  BY InitData
<1>2. Splittable /\ RustInv /\ RustInv' /\ JoinInv /\ JoinInv' /\ DataInv /\ [Next]_vars => DataInv' /\ [KeepsData]_vars
  <2>1. SUFFICES ASSUME Splittable, RustInv, RustInv', JoinInv, JoinInv', DataInv, [Next]_vars
                 PROVE  DataInv' /\ [KeepsData]_vars
    OBVIOUS
  <2>2. CASE Next
    BY <2>1, <2>2, NextData
  <2>3. CASE UNCHANGED vars
    BY <2>1, <2>3 DEF DataInv, vars
  <2> QED
    BY <2>1, <2>2, <2>3
<1> QED
  BY <1>1, <1>2, JoinInvariance, PTL DEF Spec, NoDataLoss

(* A table holds only keys of the node's range: the insert checks it, the split
   for a joining node (node.rs:501) takes out what no longer belongs, and what
   the joining node inserts is in the range it was given. *)
THEOREM JoinsStoreInRange == JoinOnly => (Spec /\ []Splittable => []StoredInRange)
<1> SUFFICES ASSUME JoinOnly PROVE Spec /\ []Splittable => []StoredInRange
  OBVIOUS
<1>1. Init => DataInv
  BY InitData
<1>2. Splittable /\ RustInv /\ RustInv' /\ JoinInv /\ JoinInv' /\ DataInv /\ [Next]_vars => DataInv'
  <2>1. SUFFICES ASSUME Splittable, RustInv, RustInv', JoinInv, JoinInv', DataInv, [Next]_vars PROVE DataInv'
    OBVIOUS
  <2>2. CASE Next
    BY <2>1, <2>2, NextData
  <2>3. CASE UNCHANGED vars
    BY <2>1, <2>3 DEF DataInv, vars
  <2> QED
    BY <2>1, <2>2, <2>3
<1>3. DataInv => StoredInRange
  BY DEF DataInv, Stocked, in_my_range, StoredInRange
<1> QED
  BY <1>1, <1>2, <1>3, JoinInvariance, PTL DEF Spec

(* Joins one after the other need no proviso. *)
THEOREM SerialJoinsData == JoinOnly /\ "join" \notin Overlap => (Spec => NoDataLoss /\ []StoredInRange)
<1> SUFFICES ASSUME JoinOnly, "join" \notin Overlap PROVE Spec => NoDataLoss /\ []StoredInRange
  OBVIOUS
<1>1. RustInv /\ JoinInv /\ SerialInv => Splittable
  BY SerialSplittable DEF RustInv
<1> QED
  BY <1>1, SerialInvariance, JoinsLoseNothing, JoinsStoreInRange, PTL
=============================================================================
