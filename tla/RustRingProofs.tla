--------------------------- MODULE RustRingProofs ---------------------------
(***************************************************************************)
(* TypeOK is an invariant of RustRing, for every set of nodes, keys and    *)
(* values and every environment: whatever overlaps, fails and is lost.     *)
(*                                                                         *)
(* The state functions read last_pdu, successor and predecessor without    *)
(* asking whether they are there (unwrap), so the types rest on which of   *)
(* them each state guarantees.  All steps of a node end in Become(n, s,    *)
(* nt): the proof is that every memory s a step builds is Sound and every  *)
(* kernel nt is NetSound.                                                  *)
(***************************************************************************)
EXTENDS RustRing, FiniteSetTheorems, TLAPS

Named(s, type) == s.last_pdu # NULL /\ s.last_pdu.type = type

(* last_pdu is the PDU the state is about. *)
Noted(s) ==
  /\ s.state \in {"Q12", "Q13", "Q14"} => Named(s, "NET_JOIN")
  /\ s.state = "Q5" /\ s.at = "run" => Named(s, "NET_JOIN")
  /\ s.state = "Q15" => Named(s, "NET_NEW_RANGE")
  /\ s.state = "Q16" => Named(s, "NET_LEAVING")
  /\ s.state = "Q7" /\ s.at = "run" => Named(s, "NET_GET_NODE_RESPONSE") /\ s.last_pdu.node # NULL

(* The connections that are used unasked are there. *)
Attached(s) ==
  /\ s.successor # NULL => s.successor_listen # NULL
  /\ s.state \in {"Q11", "Q13", "Q18"} => s.successor # NULL
  /\ s.state = "Q18" \/ (s.state \in {"Q8", "Q11"} /\ s.at = "await") => s.predecessor # NULL

(* In the round of q6: no event comes twice, and the connection of an event
   that was not read yet is still there. *)
Connected(s, token) ==
  /\ token = "SUCCESSOR" => s.successor # NULL
  /\ token = "PREDECESSOR" => s.predecessor # NULL

Watching(s) ==
  s.at \in {"read", "handle"} =>
      /\ s.state \in {"Q6", "Q12", "Q15", "Q16", "Q17"}
      /\ s.events # <<>>
      /\ \A i, j \in DOMAIN s.events : i # j => s.events[i] # s.events[j]
      /\ \A i \in DOMAIN s.events : s.at = "read" \/ i > 1 => Connected(s, s.events[i])

Sound(s) == s \in Memory /\ Noted(s) /\ Attached(s) /\ Watching(s)

(* A PDU is handled only if there is one. *)
Settled(s) == s.at = "handle" => s.queue[Head(s.events)] # <<>>

(* Only nodes write to the tracker, and the client is only sent answers. *)
Addressed(d) ==
  /\ d.dst = Tracker => d.src \in Node
  /\ d.dst = Client => d.pdu.type = "VAL_LOOKUP_RESPONSE"

NetSound(nt) == nt \in Kernel /\ IsFiniteSet(nt.udp) /\ \A d \in nt.udp : Addressed(d)

(* The inductive invariant. *)
NodeInv ==
  /\ node \in [Node -> Memory]
  /\ \A n \in Node : Sound(node[n]) /\ Settled(node[n])
  /\ NetSound(net)

RustInv == NodeInv /\ TypeOK

(***************************************************************************)
(* Arithmetic on ranges.                                                   *)
(***************************************************************************)

(* What is assigned to a u8 is one of its values. *)
LEMMA u8Type == ASSUME NEW x \in Int PROVE u8(x) \in Byte
  BY HashSizeAssumption DEF u8, Byte

(* Bytes are integers; the range of q4 is made of bytes. *)
LEMMA ByteFacts == Byte \subseteq Int /\ 0 \in Byte /\ HASH_SIZE - 1 \in Byte
  BY HashSizeAssumption DEF Byte

(* The parts of a split range are ranges. *)
LEMMA SplitType ==
  ASSUME NEW s, s.start \in Byte, s.end \in Byte
  PROVE  Span(s) \in Byte /\ Middle(s) \in Byte /\ SplitStart(s) \in Byte
<1>1. s.start \in Int /\ s.end \in Int
  BY ByteFacts
<1>2. s.end - s.start \in Int
  BY <1>1
<1>3. Span(s) \in Byte
  BY <1>2, u8Type DEF Span
<1>4. Span(s) \in Int
  BY <1>3, ByteFacts
<1>5. Span(s) \div 2 + s.start \in Int
  BY <1>1, <1>4
<1>6. Middle(s) \in Byte
  BY <1>5, u8Type DEF Middle
<1>7. Middle(s) \in Int
  BY <1>6, ByteFacts
<1>8. Middle(s) + 1 \in Int
  BY <1>7
<1> QED
  BY <1>3, <1>6, <1>8, u8Type DEF SplitStart

(***************************************************************************)
(* PDUs, by their type.                                                    *)
(***************************************************************************)

(* What the fields of a PDU are. *)
LEMMA PDUFields ==
  ASSUME NEW pdu \in PDU
  PROVE  /\ pdu.type = "VAL_INSERT" => pdu.key \in Key /\ pdu.val \in Value
         /\ pdu.type \in {"VAL_REMOVE", "VAL_LOOKUP"} => pdu.key \in Key
         /\ pdu.type = "VAL_LOOKUP_RESPONSE" => pdu.val \in Value \cup {NULL}
         /\ pdu.type = "NET_GET_NODE_RESPONSE" => pdu.node \in Node \cup {NULL}
         /\ pdu.type = "NET_JOIN" =>
               /\ pdu.src \in Node /\ pdu.max_span \in Byte /\ pdu.max \in Node \cup {NULL}
               /\ \A x \in Byte, m \in Node \cup {NULL} : [pdu EXCEPT !.max_span = x, !.max = m] \in PDU
         /\ pdu.type = "NET_JOIN_RESPONSE" =>
               pdu.next \in Node /\ pdu.range_start \in Byte /\ pdu.range_end \in Byte
         /\ pdu.type = "NET_NEW_RANGE" => pdu.range_start \in Byte /\ pdu.range_end \in Byte
         /\ pdu.type = "NET_LEAVING" => pdu.new \in Node
  BY DEF PDU

(* The PDUs that are sent. *)
LEMMA PDUTypes ==
  /\ \A k \in Key, v \in Value : [type |-> "VAL_INSERT", key |-> k, val |-> v] \in PDU
  /\ \A k \in Key : [type |-> "VAL_REMOVE", key |-> k] \in PDU /\ [type |-> "VAL_LOOKUP", key |-> k] \in PDU
  /\ \A v \in Value \cup {NULL} : [type |-> "VAL_LOOKUP_RESPONSE", val |-> v] \in PDU
  /\ \A m \in Node \cup {NULL} : [type |-> "NET_GET_NODE_RESPONSE", node |-> m] \in PDU
  /\ \A n \in Node, x \in Byte, m \in Node \cup {NULL} :
        [type |-> "NET_JOIN", src |-> n, max_span |-> x, max |-> m] \in PDU
  /\ \A n \in Node, a, b \in Byte :
        [type |-> "NET_JOIN_RESPONSE", next |-> n, range_start |-> a, range_end |-> b] \in PDU
  /\ \A a, b \in Byte : [type |-> "NET_NEW_RANGE", range_start |-> a, range_end |-> b] \in PDU
  /\ \A n \in Node : [type |-> "NET_LEAVING", new |-> n] \in PDU
  /\ \A t \in {"NET_NEW_RANGE_RESPONSE", "NET_CLOSE_CONNECTION", "NET_ALIVE",
               "NET_GET_NODE", "STUN_LOOKUP", "STUN_RESPONSE"} : [type |-> t] \in PDU
  BY DEF PDU

(* NULL is none of what it stands for. *)
LEMMA NullFacts == NULL \notin Node /\ NULL \notin Conn /\ NULL \notin Value /\ NULL \notin PDU
  BY RustNodeAssumption

(* The ends of a connection. *)
LEMMA ConnFields ==
  ASSUME NEW c \in Conn
  PROVE  c.from \in Node /\ c.to \in Node /\ c.from # c.to
  BY DEF Conn

(***************************************************************************)
(* The kernel operations keep the kernel sound.                            *)
(***************************************************************************)
Datagram == [src : Node \cup {Client, Tracker}, dst : Node \cup {Client, Tracker}, pdu : PDU]

(* The parts of a kernel state. *)
LEMMA NetFields ==
  ASSUME NEW nt, NetSound(nt)
  PROVE  /\ nt.fwd \in [Conn -> Seq(PDU)] /\ nt.bwd \in [Conn -> Seq(PDU)]
         /\ nt.backlog \in [Node -> Seq(Conn)]
         /\ nt.udp \in SUBSET Datagram /\ nt.rst \in SUBSET Conn
  BY DEF NetSound, Kernel, Datagram

(* A kernel state with one part replaced. *)
LEMMA NetUpdate ==
  ASSUME NEW nt, NetSound(nt)
  PROVE  /\ \A f \in [Conn -> Seq(PDU)] : NetSound([nt EXCEPT !.fwd = f])
         /\ \A f \in [Conn -> Seq(PDU)] : NetSound([nt EXCEPT !.bwd = f])
         /\ \A f \in [Node -> Seq(Conn)] : NetSound([nt EXCEPT !.backlog = f])
         /\ \A R \in SUBSET Conn : NetSound([nt EXCEPT !.rst = R])
         /\ \A D \in SUBSET Datagram :
               IsFiniteSet(D) /\ (\A d \in D : Addressed(d)) => NetSound([nt EXCEPT !.udp = D])
  BY DEF NetSound, Kernel, Datagram

(* UdpWrapper.send. *)
LEMMA SendUdpSound ==
  ASSUME NEW nt, NetSound(nt), NEW src \in Node \cup {Client, Tracker},
         NEW dst \in Node \cup {Client, Tracker}, NEW pdu \in PDU,
         dst = Tracker => src \in Node, dst = Client => pdu.type = "VAL_LOOKUP_RESPONSE"
  PROVE  NetSound(SendUdp(nt, src, dst, pdu))
<1> DEFINE d == [src |-> src, dst |-> dst, pdu |-> pdu]
<1>1. d \in Datagram /\ Addressed(d)
  BY DEF Datagram, Addressed
<1> HIDE DEF d
<1>2. nt.udp \cup {d} \in SUBSET Datagram /\ \A e \in nt.udp \cup {d} : Addressed(e)
  BY <1>1, NetFields DEF NetSound
<1>3. IsFiniteSet(nt.udp \cup {d})
  BY FS_AddElement DEF NetSound
<1> QED
  BY <1>2, <1>3, NetUpdate DEF SendUdp, d

(* Datagrams are taken. *)
LEMMA TakeUdpSound ==
  ASSUME NEW nt, NetSound(nt), NEW D
  PROVE  NetSound([nt EXCEPT !.udp = nt.udp \ D])
<1>1. nt.udp \ D \in SUBSET Datagram /\ \A e \in nt.udp \ D : Addressed(e)
  BY NetFields DEF NetSound
<1>2. IsFiniteSet(nt.udp \ D)
  BY FS_Difference DEF NetSound
<1> QED
  BY <1>1, <1>2, NetUpdate

(* TcpWrapper.send, to the successor and to the predecessor. *)
LEMMA SendForwardSound ==
  ASSUME NEW nt, NetSound(nt), NEW c \in Conn, NEW pdus \in Seq(PDU)
  PROVE  NetSound(SendForward(nt, c, pdus))
<1>1. nt.fwd[c] \o pdus \in Seq(PDU)
  BY NetFields
<1>2. [nt.fwd EXCEPT ![c] = @ \o pdus] \in [Conn -> Seq(PDU)] /\ nt.rst \cup {c} \in SUBSET Conn
  BY <1>1, NetFields
<1> QED
  BY <1>2, NetUpdate DEF SendForward

(* A write to the predecessor keeps the kernel well-formed. *)
LEMMA SendBackwardSound ==
  ASSUME NEW nt, NetSound(nt), NEW c \in Conn, NEW pdus \in Seq(PDU)
  PROVE  NetSound(SendBackward(nt, c, pdus))
<1>1. nt.bwd[c] \o pdus \in Seq(PDU)
  BY NetFields
<1>2. [nt.bwd EXCEPT ![c] = @ \o pdus] \in [Conn -> Seq(PDU)] /\ nt.rst \cup {c} \in SUBSET Conn
  BY <1>1, NetFields
<1> QED
  BY <1>2, NetUpdate DEF SendBackward

(* An end is closed. *)
LEMMA CloseSound ==
  ASSUME NEW nt, NetSound(nt), NEW c \in Conn \cup {NULL}
  PROVE  NetSound(CloseConnector(nt, c)) /\ NetSound(CloseAcceptor(nt, c))
<1>1. CASE c = NULL
  BY <1>1 DEF CloseConnector, CloseAcceptor
<1>2. CASE c # NULL
  <2>1. c \in Conn
    BY <1>2
  <2>2. <<>> \in Seq(PDU)
    OBVIOUS
  <2>3. [nt.bwd EXCEPT ![c] = <<>>] \in [Conn -> Seq(PDU)] /\ [nt.fwd EXCEPT ![c] = <<>>] \in [Conn -> Seq(PDU)]
    BY <2>1, <2>2, NetFields
  <2>4. \A R \in SUBSET Conn :
           /\ NetSound([[nt EXCEPT !.bwd = [nt.bwd EXCEPT ![c] = <<>>]] EXCEPT !.rst = R])
           /\ NetSound([[nt EXCEPT !.fwd = [nt.fwd EXCEPT ![c] = <<>>]] EXCEPT !.rst = R])
    BY <2>3, NetUpdate
  <2>5. \A R : /\ [[nt EXCEPT !.bwd = [nt.bwd EXCEPT ![c] = <<>>]] EXCEPT !.rst = R]
                     = [nt EXCEPT !.bwd[c] = <<>>, !.rst = R]
               /\ [[nt EXCEPT !.fwd = [nt.fwd EXCEPT ![c] = <<>>]] EXCEPT !.rst = R]
                     = [nt EXCEPT !.fwd[c] = <<>>, !.rst = R]
    BY DEF NetSound, Kernel
  <2>6. nt.rst \in SUBSET Conn /\ nt.rst \cup {c} \in SUBSET Conn
    BY <2>1, NetFields
  <2> DEFINE R == IF nt.bwd[c] = <<>> THEN nt.rst ELSE nt.rst \cup {c}
             Q == IF nt.fwd[c] = <<>> THEN nt.rst ELSE nt.rst \cup {c}
  <2>7. R \in SUBSET Conn /\ Q \in SUBSET Conn
    BY <2>6
  <2>8. CloseConnector(nt, c) = [nt EXCEPT !.bwd[c] = <<>>, !.rst = R]
        /\ CloseAcceptor(nt, c) = [nt EXCEPT !.fwd[c] = <<>>, !.rst = Q]
    BY <1>2 DEF CloseConnector, CloseAcceptor, NetSound, Kernel
  <2> HIDE DEF R, Q
  <2> QED
    BY <2>4, <2>5, <2>7, <2>8
<1> QED
  BY <1>1, <1>2

(* The end of a process. *)
LEMMA CloseAllSound ==
  ASSUME NEW nt, NetSound(nt), NEW n \in Node
  PROVE  NetSound(CloseAll(nt, n))
<1> DEFINE F == [c \in Conn |-> IF c.to = n THEN <<>> ELSE nt.fwd[c]]
           B == [c \in Conn |-> IF c.from = n THEN <<>> ELSE nt.bwd[c]]
           L == [nt.backlog EXCEPT ![n] = <<>>]
           D == {d \in nt.udp : d.dst # n}
           R == nt.rst \cup {c \in Conn : (c.to = n /\ nt.fwd[c] # <<>>) \/ (c.from = n /\ nt.bwd[c] # <<>>)}
                    \cup {c \in Conn : c \in Range(nt.backlog[n])}
<1>0. <<>> \in Seq(PDU) /\ <<>> \in Seq(Conn)
  OBVIOUS
<1>1. F \in [Conn -> Seq(PDU)] /\ B \in [Conn -> Seq(PDU)] /\ L \in [Node -> Seq(Conn)]
  BY <1>0, NetFields
<1>2. D \in SUBSET Datagram /\ R \in SUBSET Conn /\ \A d \in D : Addressed(d)
  BY NetFields DEF NetSound
<1>3. IsFiniteSet(D)
  BY FS_Subset DEF NetSound
<1>4. CloseAll(nt, n) = [nt EXCEPT !.fwd = F, !.bwd = B, !.backlog = L, !.udp = D, !.rst = R]
  BY DEF CloseAll, NetSound, Kernel
<1> HIDE DEF F, B, L, D, R
<1> QED
  BY <1>1, <1>2, <1>3, <1>4 DEF NetSound, Kernel, Datagram

(* A connection is made. *)
LEMMA ConnectSound ==
  ASSUME NEW nt, NetSound(nt), NEW c \in Conn
  PROVE  NetSound(Connect(nt, c))
<1>1. c.to \in Node
  BY ConnFields
<1>2. Append(nt.backlog[c.to], c) \in Seq(Conn)
  BY <1>1, NetFields
<1> DEFINE L == [nt.backlog EXCEPT ![c.to] = Append(@, c)]
           R == nt.rst \ {c}
<1>3. L \in [Node -> Seq(Conn)] /\ R \in SUBSET Conn
  BY <1>1, <1>2, NetFields
<1>4. Connect(nt, c) = [nt EXCEPT !.backlog = L, !.rst = R]
  BY DEF Connect, NetSound, Kernel
<1> HIDE DEF L, R
<1> QED
  BY <1>3, <1>4 DEF NetSound, Kernel

(* A new connection is one that nobody uses. *)
LEMMA NewConnType ==
  ASSUME NEW n, NEW m, Unused(n, m) # {}
  PROVE  /\ NewConn(n, m) \in Unused(n, m) /\ NewConn(n, m) \in Conn
         /\ NewConn(n, m).from = n /\ NewConn(n, m).to = m
  BY DEF NewConn, Unused

(***************************************************************************)
(* How a step ends.                                                        *)
(***************************************************************************)

(* The parts of a memory. *)
LEMMA MemoryFields ==
  ASSUME NEW s \in Memory
  PROVE  /\ s.process \in {"off", "running", "ended", "panicked"} /\ s.state \in State
         /\ s.at \in {"run", "accept", "await", "read", "handle"}
         /\ s.start \in Byte /\ s.end \in Byte /\ s.values \in [Key -> Seq(Value)]
         /\ s.last_pdu \in PDU \cup {NULL}
         /\ s.successor \in Conn \cup {NULL} /\ s.successor_listen \in Node \cup {NULL}
         /\ s.predecessor \in Conn \cup {NULL}
         /\ s.queue \in [Token -> Seq(PDU)] /\ s.events \in Seq(Token)
         /\ s.should_close \in BOOLEAN /\ s.alive_due \in BOOLEAN
  BY DEF Memory

(* A new process, and what is left of one that has ended. *)
LEMMA NewSound ==
  ASSUME NEW p \in {"off", "running", "ended", "panicked"}
  PROVE  Sound(new(p)) /\ Settled(new(p)) /\ Settle(new(p)) = new(p)
<1>1. <<>> \in Seq(Value) /\ <<>> \in Seq(PDU) /\ <<>> \in Seq(Token) /\ 0 \in Byte
  BY ByteFacts
<1>2. NoValues \in [Key -> Seq(Value)] /\ NoQueue \in [Token -> Seq(PDU)]
  BY <1>1 DEF NoValues, NoQueue
<1>3. new(p) \in Memory
  BY <1>1, <1>2 DEF new, Memory, State
<1> QED
  BY <1>3 DEF new, Sound, Noted, Attached, Watching, Settled, Settle

(* Heads and tails of the events. *)
LEMMA EventsTail ==
  ASSUME NEW ev \in Seq(Token), Len(ev) > 1
  PROVE  /\ Tail(ev) \in Seq(Token) /\ Tail(ev) # <<>> /\ DOMAIN Tail(ev) = 1 .. Len(ev) - 1
         /\ \A i \in 1 .. Len(ev) - 1 : i + 1 \in DOMAIN ev /\ i + 1 > 1 /\ Tail(ev)[i] = ev[i + 1]
  OBVIOUS

(* q6 goes on to the next event. *)
LEMMA SettleSound ==
  ASSUME NEW s, Sound(s)
  PROVE  Sound(Settle(s)) /\ Settled(Settle(s))
<1>1. CASE s.at # "handle" \/ s.queue[Head(s.events)] # <<>>
  BY <1>1 DEF Settle, Settled
<1>2. CASE s.at = "handle" /\ s.queue[Head(s.events)] = <<>> /\ Len(s.events) > 1
  <2> DEFINE t == [s EXCEPT !.at = "read", !.events = Tail(@)]
  <2>1. Settle(s) = t
    BY <1>2 DEF Settle
  <2>2. s \in Memory /\ s.events \in Seq(Token)
    BY MemoryFields DEF Sound
  <2>3. /\ Tail(s.events) \in Seq(Token) /\ Tail(s.events) # <<>> /\ DOMAIN Tail(s.events) = 1 .. Len(s.events) - 1
        /\ \A i \in 1 .. Len(s.events) - 1 :
              i + 1 \in DOMAIN s.events /\ i + 1 > 1 /\ Tail(s.events)[i] = s.events[i + 1]
    BY <1>2, <2>2, EventsTail
  <2>4. /\ t \in Memory /\ t.at = "read" /\ t.events = Tail(s.events) /\ t.state = s.state
        /\ t.last_pdu = s.last_pdu /\ t.successor = s.successor /\ t.predecessor = s.predecessor
        /\ t.successor_listen = s.successor_listen
    BY <2>2, <2>3 DEF Memory
  <2> HIDE DEF t
  <2>5. Noted(t) /\ Attached(t)
    BY <1>2, <2>4 DEF Sound, Noted, Attached, Watching, Named
  <2>6. s.state \in {"Q6", "Q12", "Q15", "Q16", "Q17"}
    BY <1>2 DEF Sound, Watching
  <2>7. \A i, j \in DOMAIN t.events : i # j => t.events[i] # t.events[j]
    <3>1. \A i, j \in DOMAIN s.events : i # j => s.events[i] # s.events[j]
      BY <1>2 DEF Sound, Watching
    <3>2. \A i, j \in 1 .. Len(s.events) - 1 : i # j => i + 1 # j + 1
      OBVIOUS
    <3> QED
      BY <2>3, <2>4, <3>1, <3>2
  <2>8. \A i \in DOMAIN t.events : Connected(t, t.events[i])
    <3>1. \A i \in DOMAIN s.events : i > 1 => Connected(s, s.events[i])
      BY <1>2 DEF Sound, Watching
    <3> QED
      BY <2>3, <2>4, <3>1 DEF Connected
  <2> QED
    BY <2>1, <2>3, <2>4, <2>5, <2>6, <2>7, <2>8 DEF Sound, Watching, Settled
<1>3. CASE s.at = "handle" /\ s.queue[Head(s.events)] = <<>> /\ ~(Len(s.events) > 1)
  <2> DEFINE x == IF s.should_close THEN "Q10" ELSE s.state
             t == [s EXCEPT !.at = "run", !.events = <<>>, !.state = x]
  <2>1. Settle(s) = t
    BY <1>3 DEF Settle, Sound, Memory
  <2>2. s \in Memory /\ s.state \in {"Q6", "Q12", "Q15", "Q16", "Q17"} /\ <<>> \in Seq(Token)
    BY <1>3 DEF Sound, Watching
  <2>3. x \in {"Q10", s.state} /\ x \in State
    BY <2>2 DEF State
  <2> HIDE DEF x
  <2>4. /\ t \in Memory /\ t.at = "run" /\ t.state = x
        /\ t.last_pdu = s.last_pdu /\ t.successor = s.successor /\ t.successor_listen = s.successor_listen
    BY <2>2, <2>3 DEF Memory
  <2> HIDE DEF t
  <2> QED
    BY <2>1, <2>2, <2>3, <2>4 DEF Sound, Noted, Attached, Watching, Named, Settled
<1> QED
  BY <1>1, <1>2, <1>3

(* A node becomes a well-formed memory, with what the kernel tells it of its sockets. *)
LEMMA BecomeSound ==
  ASSUME NodeInv, NEW n \in Node, NEW s, Sound(s), NEW nt, NetSound(nt), Become(n, s, nt)
  PROVE  NodeInv'
<1>1. Sound(Settle(s)) /\ Settled(Settle(s)) /\ Settle(s) \in Memory
  BY SettleSound DEF Sound
<1>2. node' = [node EXCEPT ![n] = Settle(s)]
  BY DEF Become
<1>3. node' \in [Node -> Memory] /\ \A m \in Node : Sound(node'[m]) /\ Settled(node'[m])
  BY <1>1, <1>2 DEF NodeInv
<1>4. PICK R : net' = [nt EXCEPT !.rst = {c \in @ : R[c]}] /\ nt.rst \in SUBSET Conn
  <2> DEFINE R == [c \in nt.rst |-> \/ node'[c.from].successor = c
                                    \/ node'[c.to].predecessor = c
                                    \/ c \in Range(nt.backlog[c.to])]
  <2>1. {c \in nt.rst : R[c]} = {c \in nt.rst : \/ node'[c.from].successor = c
                                               \/ node'[c.to].predecessor = c
                                               \/ c \in Range(nt.backlog[c.to])}
    OBVIOUS
  <2> HIDE DEF R
  <2>2. net' = [nt EXCEPT !.rst = {c \in nt.rst : R[c]}]
    BY <2>1 DEF Become, NetSound, Kernel
  <2> QED
    BY <2>2, NetFields DEF NetSound, Kernel
<1>5. {c \in nt.rst : R[c]} \in SUBSET Conn
  BY <1>4
<1>6. NetSound(net')
  BY <1>4, <1>5, NetUpdate DEF NetSound, Kernel
<1> QED
  BY <1>3, <1>6 DEF NodeInv, Sound, Settled, NetSound, Noted, Attached, Watching, Connected, Named, Addressed

(* A process panics, and the kernel closes its sockets. *)
LEMMA PanicSound ==
  ASSUME NodeInv, NEW n \in Node, NEW nt, NetSound(nt), Panic(n, nt)
  PROVE  NodeInv'
  BY NewSound, CloseAllSound, BecomeSound DEF Panic

(* A process returns, and its sockets are closed. *)
LEMMA FinishSound ==
  ASSUME NodeInv, NEW n \in Node, NEW nt, NetSound(nt), Finish(n, nt)
  PROVE  NodeInv'
  BY NewSound, CloseAllSound, BecomeSound DEF Finish

(***************************************************************************)
(* Values.                                                                 *)
(***************************************************************************)

(* The table changes. *)
LEMMA ValuesSound ==
  ASSUME NEW s, Sound(s), NEW f \in [Key -> Seq(Value)]
  PROVE  Sound([s EXCEPT !.values = f])
<1> DEFINE t == [s EXCEPT !.values = f]
<1>1. /\ t \in Memory /\ t.at = s.at /\ t.state = s.state /\ t.events = s.events /\ t.last_pdu = s.last_pdu
      /\ t.successor = s.successor /\ t.predecessor = s.predecessor /\ t.successor_listen = s.successor_listen
  BY DEF Sound, Memory
<1> HIDE DEF t
<1>2. Sound(t)
  BY <1>1 DEF Sound, Noted, Attached, Watching, Connected, Named
<1> QED
  BY <1>2 DEF t

(* An entry of the table is replaced. *)
LEMMA PutSound ==
  ASSUME NEW s, Sound(s), NEW k \in Key, NEW v \in Seq(Value)
  PROVE  Sound([s EXCEPT !.values[k] = v])
<1>1. [s.values EXCEPT ![k] = v] \in [Key -> Seq(Value)]
  BY MemoryFields DEF Sound
<1>2. [s EXCEPT !.values[k] = v] = [s EXCEPT !.values = [s.values EXCEPT ![k] = v]]
  OBVIOUS
<1> QED
  BY <1>1, <1>2, ValuesSound

(* A request is forwarded to the successor, or the node panics without one. *)
LEMMA ForwardSound ==
  ASSUME NodeInv, NEW n \in Node, NEW s, Sound(s), NEW pdu \in PDU, NEW nt, NetSound(nt),
         Forward(n, s, pdu, nt)
  PROVE  NodeInv'
<1>1. CASE s.successor = NULL
  BY <1>1, PanicSound DEF Forward
<1>2. CASE s.successor # NULL
  <2>1. s.successor \in Conn /\ <<pdu>> \in Seq(PDU)
    BY <1>2, MemoryFields DEF Sound
  <2>2. NetSound(SendForward(nt, s.successor, <<pdu>>))
    BY <2>1, SendForwardSound
  <2>3. PICK failed \in Fails(nt, s.successor) :
           IF failed THEN Panic(n, nt) ELSE Become(n, s, SendForward(nt, s.successor, <<pdu>>))
    BY <1>2 DEF Forward
  <2> QED
    BY <2>2, <2>3, PanicSound, BecomeSound
<1> QED
  BY <1>1, <1>2

(* handle_pdu notes what there is to do. *)
LEMMA NoteSound ==
  ASSUME NEW s, Sound(s), s.at = "handle", NEW x \in {"Q6", "Q12", "Q15", "Q16", "Q17"},
         NEW p \in PDU \cup {NULL},
         x = "Q12" => p # NULL /\ p.type = "NET_JOIN",
         x = "Q15" => p # NULL /\ p.type = "NET_NEW_RANGE",
         x = "Q16" => p # NULL /\ p.type = "NET_LEAVING"
  PROVE  Sound([s EXCEPT !.state = x, !.last_pdu = p])
<1> DEFINE t == [s EXCEPT !.state = x, !.last_pdu = p]
<1>1. x \in State
  BY DEF State
<1>2. /\ t \in Memory /\ t.at = s.at /\ t.state = x /\ t.events = s.events /\ t.last_pdu = p
      /\ t.successor = s.successor /\ t.predecessor = s.predecessor /\ t.successor_listen = s.successor_listen
  BY <1>1 DEF Sound, Memory
<1> HIDE DEF t
<1>3. Noted(t) /\ Attached(t)
  BY <1>2 DEF Sound, Noted, Attached, Named
<1>4. Watching(t)
  BY <1>2 DEF Sound, Watching, Connected
<1> QED
  BY <1>2, <1>3, <1>4 DEF Sound, t

(* handle_val_insert (node.rs:870). *)
LEMMA ValInsertSound ==
  ASSUME NodeInv, NEW n \in Node, NEW s, Sound(s), NEW pdu \in PDU, pdu.type = "VAL_INSERT",
         NEW nt, NetSound(nt), handle_val_insert(n, s, pdu, nt)
  PROVE  NodeInv'
<1>1. pdu.key \in Key /\ pdu.val \in Value
  BY PDUFields
<1>2. Append(s.values[pdu.key], pdu.val) \in Seq(Value)
  BY <1>1, MemoryFields DEF Sound
<1>3. Sound([s EXCEPT !.values[pdu.key] = Append(s.values[pdu.key], pdu.val)])
  BY <1>1, <1>2, PutSound
<1>4. [s EXCEPT !.values[pdu.key] = Append(@, pdu.val)]
         = [s EXCEPT !.values[pdu.key] = Append(s.values[pdu.key], pdu.val)]
  OBVIOUS
<1> QED
  BY <1>3, <1>4, ForwardSound, BecomeSound DEF handle_val_insert

(* handle_val_remove (node.rs:927). *)
LEMMA ValRemoveSound ==
  ASSUME NodeInv, NEW n \in Node, NEW s, Sound(s), NEW pdu \in PDU, pdu.type = "VAL_REMOVE",
         NEW nt, NetSound(nt), handle_val_remove(n, s, pdu, nt)
  PROVE  NodeInv'
<1>1. pdu.key \in Key
  BY PDUFields
<1>0. <<>> \in Seq(Value)
  OBVIOUS
<1>2. Sound([s EXCEPT !.values[pdu.key] = <<>>])
  BY <1>0, <1>1, PutSound
<1> QED
  BY <1>2, ForwardSound, BecomeSound DEF handle_val_remove

(* handle_val_lookup (node.rs:885). *)
LEMMA ValLookupSound ==
  ASSUME NodeInv, NEW n \in Node, NEW s, Sound(s), NEW pdu \in PDU, pdu.type = "VAL_LOOKUP",
         NEW nt, NetSound(nt), handle_val_lookup(n, s, pdu, nt)
  PROVE  NodeInv'
<1> DEFINE a == [type |-> "VAL_LOOKUP_RESPONSE", val |-> Found(s.values[pdu.key])]
<1>1. pdu.key \in Key
  BY PDUFields
<1>2. s.values[pdu.key] \in Seq(Value)
  BY <1>1, MemoryFields DEF Sound
<1>3. Found(s.values[pdu.key]) \in Value \cup {NULL}
  BY <1>2 DEF Found
<1>4. a \in PDU /\ a.type = "VAL_LOOKUP_RESPONSE" /\ Client # Tracker
  BY <1>3, PDUTypes, RustNodeAssumption
<1> HIDE DEF a
<1>5. NetSound(SendUdp(nt, n, Client, a))
  BY <1>4, SendUdpSound
<1> QED
  BY <1>5, ForwardSound, BecomeSound DEF handle_val_lookup, a

(* q9 (node.rs:400) handles a request of one of the three types. *)
LEMMA q9Sound ==
  ASSUME NodeInv, NEW n \in Node, NEW s, Sound(s), s.at = "handle", NEW pdu \in PDU,
         pdu.type \in {"VAL_INSERT", "VAL_REMOVE", "VAL_LOOKUP"}, NEW nt, NetSound(nt), q9(n, s, pdu, nt)
  PROVE  NodeInv'
<1> DEFINE done == [s EXCEPT !.state = "Q6", !.last_pdu = NULL]
<1>1. Sound(done)
  BY NoteSound
<1> HIDE DEF done
<1>2. CASE pdu.type = "VAL_INSERT"
  BY <1>1, <1>2, ValInsertSound DEF q9, done
<1>3. CASE pdu.type = "VAL_REMOVE"
  BY <1>1, <1>3, ValRemoveSound DEF q9, done
<1>4. CASE pdu.type = "VAL_LOOKUP"
  BY <1>1, <1>4, ValLookupSound DEF q9, done
<1> QED
  BY <1>2, <1>3, <1>4

(* handle_pdu (node.rs:681). *)
LEMMA HandlePduSound ==
  ASSUME NodeInv, NEW n \in Node, NEW s, Sound(s), s.at = "handle", NEW token, NEW pdu \in PDU,
         NEW nt, NetSound(nt), handle_pdu(n, s, token, pdu, nt)
  PROVE  NodeInv'
<1>0. s.last_pdu \in PDU \cup {NULL} /\ pdu # NULL
  BY MemoryFields, NullFacts DEF Sound
<1>1. CASE pdu.type = "NET_JOIN"
  <2>1. Sound([s EXCEPT !.state = "Q12", !.last_pdu = pdu])
    BY <1>0, <1>1, NoteSound
  <2> QED
    BY <1>1, <2>1, BecomeSound DEF handle_pdu, Note
<1>2. CASE pdu.type = "NET_CLOSE_CONNECTION"
  <2>1. Sound([s EXCEPT !.state = "Q17", !.last_pdu = s.last_pdu])
    BY <1>0, NoteSound
  <2> QED
    BY <1>2, <2>1, BecomeSound, PanicSound DEF handle_pdu, Note
<1>3. CASE pdu.type = "NET_NEW_RANGE"
  <2>1. Sound([s EXCEPT !.state = "Q15", !.last_pdu = pdu])
    BY <1>0, <1>3, NoteSound
  <2> QED
    BY <1>3, <2>1, BecomeSound DEF handle_pdu, Note
<1>4. CASE pdu.type = "NET_LEAVING"
  <2>1. Sound([s EXCEPT !.state = "Q16", !.last_pdu = pdu])
    BY <1>0, <1>4, NoteSound
  <2> QED
    BY <1>4, <2>1, BecomeSound DEF handle_pdu, Note
<1>5. CASE pdu.type \in {"VAL_INSERT", "VAL_REMOVE", "VAL_LOOKUP"}
  BY <1>5, q9Sound DEF handle_pdu
<1>6. CASE pdu.type \notin {"NET_JOIN", "NET_CLOSE_CONNECTION", "NET_NEW_RANGE", "NET_LEAVING",
                           "VAL_INSERT", "VAL_REMOVE", "VAL_LOOKUP"}
  <2>1. Become(n, s, nt)
    BY <1>6 DEF handle_pdu
  <2> QED
    BY <2>1, BecomeSound
<1> QED
  BY <1>1, <1>2, <1>3, <1>4, <1>5, <1>6

(***************************************************************************)
(* The hand-over.                                                          *)
(***************************************************************************)

(* The orders of a finite set. *)
LEMMA OrdersType ==
  ASSUME NEW S, IsFiniteSet(S), NEW o \in SetToSeqs(S)
  PROVE  /\ o \in Seq(S) /\ DOMAIN o = 1 .. Cardinality(S) /\ Cardinality(S) \in Nat
         /\ \A i, j \in DOMAIN o : i # j => o[i] # o[j]
<1>1. Cardinality(S) \in Nat
  BY FS_CardinalityType
<1>2. o \in [1 .. Cardinality(S) -> S] /\ \A i, j \in 1 .. Cardinality(S) : i # j => o[i] # o[j]
  BY DEF SetToSeqs
<1> QED
  BY <1>1, <1>2

(* There are finitely many entries to send. *)
LEMMA EntriesFinite ==
  ASSUME NEW s \in Memory, NEW a, NEW b
  PROVE  /\ IsFiniteSet(Entries(s, a, b))
         /\ \A e \in Entries(s, a, b) :
               e[1] \in Key /\ e[2] \in DOMAIN s.values[e[1]] /\ s.values[e[1]][e[2]] \in Value
<1> DEFINE P == {{k} \X DOMAIN s.values[k] : k \in Between(s, a, b)}
<1>1. Between(s, a, b) \subseteq Key /\ IsFiniteSet(Key)
  BY RustNodeAssumption DEF Between
<1>2. IsFiniteSet(Between(s, a, b))
  BY <1>1, FS_Subset
<1>3. IsFiniteSet(P)
  <2> DEFINE f == [k \in Between(s, a, b) |-> {k} \X DOMAIN s.values[k]]
  <2>1. f \in Surjection(Between(s, a, b), P)
    BY DEF Surjection
  <2> HIDE DEF f, P
  <2> QED
    BY <1>2, <2>1, FS_Surjection
<1>4. ASSUME NEW k \in Between(s, a, b)
      PROVE  IsFiniteSet({k} \X DOMAIN s.values[k])
  <2>1. s.values[k] \in Seq(Value)
    BY <1>1, MemoryFields
  <2>2. DOMAIN s.values[k] = 1 .. Len(s.values[k]) /\ Len(s.values[k]) \in Nat /\ 1 \in Int
    BY <2>1
  <2>3. Len(s.values[k]) \in Int
    BY <2>2
  <2>4. IsFiniteSet(DOMAIN s.values[k])
    BY <2>2, <2>3, FS_Interval
  <2>5. IsFiniteSet({k})
    BY FS_Singleton
  <2> QED
    BY <2>4, <2>5, FS_Product
<1>5. IsFiniteSet(UNION P)
  BY <1>3, <1>4, FS_UNION
<1>6. ASSUME NEW e \in Entries(s, a, b)
      PROVE  e[1] \in Key /\ e[2] \in DOMAIN s.values[e[1]] /\ s.values[e[1]][e[2]] \in Value
  <2>1. PICK k \in Between(s, a, b) : e \in {k} \X DOMAIN s.values[k]
    BY DEF Entries
  <2>2. e[1] = k /\ e[2] \in DOMAIN s.values[k]
    BY <2>1
  <2>3. s.values[k] \in Seq(Value)
    BY <1>1, MemoryFields
  <2> QED
    BY <1>1, <2>2, <2>3
<1> QED
  BY <1>5, <1>6 DEF Entries

(* Every order of them is a sequence of VAL_INSERTs. *)
LEMMA TransferredType ==
  ASSUME NEW s \in Memory, NEW a, NEW b, NEW sent \in Transferred(s, a, b)
  PROVE  sent \in Seq(PDU) /\ \A i \in DOMAIN sent : sent[i].type = "VAL_INSERT"
<1>1. PICK o \in SetToSeqs(Entries(s, a, b)) : sent = InsertsOf(s, o)
  BY DEF Transferred
<1>2. o \in Seq(Entries(s, a, b))
  BY <1>1, EntriesFinite, OrdersType
<1>3. Len(o) \in Nat /\ DOMAIN o = 1 .. Len(o)
  BY <1>2
<1>4. ASSUME NEW i \in DOMAIN o
      PROVE  /\ [type |-> "VAL_INSERT", key |-> o[i][1], val |-> s.values[o[i][1]][o[i][2]]] \in PDU
             /\ sent[i] = [type |-> "VAL_INSERT", key |-> o[i][1], val |-> s.values[o[i][1]][o[i][2]]]
  <2>1. o[i] \in Entries(s, a, b)
    BY <1>2
  <2>2. o[i][1] \in Key /\ s.values[o[i][1]][o[i][2]] \in Value
    BY <2>1, EntriesFinite
  <2> QED
    BY <1>1, <2>2, PDUTypes DEF InsertsOf
<1>5. sent = [i \in 1 .. Len(o) |-> sent[i]] /\ DOMAIN sent = DOMAIN o
  BY <1>1, <1>3 DEF InsertsOf
<1>6. \A i \in DOMAIN o : sent[i] \in PDU /\ sent[i].type = "VAL_INSERT"
  <2> SUFFICES ASSUME NEW i \in DOMAIN o
               PROVE  sent[i] \in PDU /\ sent[i].type = "VAL_INSERT"
    OBVIOUS
  <2>1. sent[i] = [type |-> "VAL_INSERT", key |-> o[i][1], val |-> s.values[o[i][1]][o[i][2]]]
    BY <1>4
  <2>2. sent[i] \in PDU
    BY <1>4
  <2> QED
    BY <2>1, <2>2
<1>7. sent \in Seq(PDU)
  BY <1>3, <1>5, <1>6
<1> QED
  BY <1>3, <1>5, <1>6, <1>7

(* What is kept of the table. *)
LEMMA RetainedType ==
  ASSUME NEW s \in Memory, NEW a, NEW b
  PROVE  /\ Retained(s, a, b) \in Memory
         /\ \E f \in [Key -> Seq(Value)] : Retained(s, a, b) = [s EXCEPT !.values = f]
<1> DEFINE f == [k \in Key |-> IF k \in Between(s, a, b) THEN <<>> ELSE s.values[k]]
<1>1. <<>> \in Seq(Value)
  OBVIOUS
<1>2. f \in [Key -> Seq(Value)]
  BY <1>1, MemoryFields
<1>3. Retained(s, a, b) = [s EXCEPT !.values = f]
  BY DEF Retained
<1> HIDE DEF f
<1>4. [s EXCEPT !.values = f] \in Memory
  BY <1>2 DEF Memory
<1> QED
  BY <1>2, <1>3, <1>4

(***************************************************************************)
(* Reading.                                                                *)
(***************************************************************************)

(* The queues change. *)
LEMMA QueueSound ==
  ASSUME NEW s, Sound(s), NEW q \in [Token -> Seq(PDU)]
  PROVE  Sound([s EXCEPT !.queue = q])
<1> DEFINE t == [s EXCEPT !.queue = q]
<1>1. /\ t \in Memory /\ t.at = s.at /\ t.state = s.state /\ t.events = s.events /\ t.last_pdu = s.last_pdu
      /\ t.successor = s.successor /\ t.predecessor = s.predecessor /\ t.successor_listen = s.successor_listen
  BY DEF Sound, Memory
<1> HIDE DEF t
<1>2. Sound(t)
  BY <1>1 DEF Sound, Noted, Attached, Watching, Connected, Named
<1> QED
  BY <1>2 DEF t

(* What has come in datagrams is a sequence of PDUs. *)
LEMMA BatchType ==
  ASSUME NodeInv, NEW n \in Node, NEW batch \in Batches(n)
  PROVE  /\ batch \in Seq(net.udp) /\ batch # <<>>
         /\ [i \in DOMAIN batch |-> batch[i].pdu] \in Seq(PDU)
         /\ [i \in DOMAIN batch |-> batch[i].pdu] # <<>>
<1>1. PICK D \in (SUBSET Datagrams(n)) \ {{}} : batch \in SetToSeqs(D)
  BY DEF Batches
<1>2. D \subseteq net.udp /\ IsFiniteSet(net.udp) /\ net.udp \subseteq Datagram
  BY <1>1, NetFields DEF Datagrams, NodeInv, NetSound
<1>3. IsFiniteSet(D) /\ D # {}
  BY <1>1, <1>2, FS_Subset
<1>4. batch \in Seq(D) /\ DOMAIN batch = 1 .. Cardinality(D) /\ Cardinality(D) \in Nat
  BY <1>1, <1>3, OrdersType
<1>5. Cardinality(D) # 0
  BY <1>3, FS_EmptySet
<1>6. 1 \in DOMAIN batch
  BY <1>4, <1>5
<1> DEFINE p == [i \in DOMAIN batch |-> batch[i].pdu]
<1>7. \A i \in DOMAIN batch : batch[i] \in net.udp /\ batch[i].pdu \in PDU
  BY <1>2, <1>4 DEF Datagram
<1>8. p \in Seq(PDU) /\ DOMAIN p = DOMAIN batch
  BY <1>4, <1>7
<1> HIDE DEF p
<1>9. batch \in Seq(net.udp) /\ batch # <<>> /\ p # <<>>
  BY <1>4, <1>6, <1>7, <1>8
<1> QED
  BY <1>8, <1>9 DEF p

(* The memory and the kernel after the datagrams were read. *)
LEMMA FilledUdpType ==
  ASSUME NodeInv, NEW n \in Node, NEW batch \in Batches(n) \cup {<<>>}
  PROVE  /\ \E q \in [Token -> Seq(PDU)] :
               /\ FilledUdp(n, batch) = [node[n] EXCEPT !.queue = q]
               /\ batch \in Batches(n) => q["UDP"] # <<>>
         /\ NetSound(DrainedUdp(batch))
<1> DEFINE p == [i \in DOMAIN batch |-> batch[i].pdu]
           q == [node[n].queue EXCEPT !["UDP"] = @ \o p]
<1>1. p \in Seq(PDU) /\ (batch \in Batches(n) => p # <<>>)
  <2>1. CASE batch \in Batches(n)
    BY <2>1, BatchType
  <2>2. CASE batch = <<>> /\ batch \notin Batches(n)
    <3>1. p = <<>>
      BY <2>2
    <3>2. <<>> \in Seq(PDU)
      OBVIOUS
    <3> QED
      BY <2>2, <3>1, <3>2
  <2> QED
    BY <2>1, <2>2
<1> HIDE DEF p
<1>2. node[n] \in Memory /\ node[n].queue \in [Token -> Seq(PDU)] /\ "UDP" \in Token
  BY MemoryFields DEF NodeInv, Token
<1>3. node[n].queue["UDP"] \in Seq(PDU)
  BY <1>2
<1>4. node[n].queue["UDP"] \o p \in Seq(PDU) /\ (p # <<>> => node[n].queue["UDP"] \o p # <<>>)
  BY <1>1, <1>3
<1>5. q \in [Token -> Seq(PDU)] /\ q["UDP"] = node[n].queue["UDP"] \o p
  BY <1>2, <1>4
<1>6. FilledUdp(n, batch) = [node[n] EXCEPT !.queue = q]
  BY DEF FilledUdp, p
<1>7. NetSound([net EXCEPT !.udp = net.udp \ Range(batch)])
  BY TakeUdpSound DEF NodeInv
<1>8. NetSound(DrainedUdp(batch))
  BY <1>7 DEF DrainedUdp
<1> HIDE DEF q
<1> QED
  BY <1>1, <1>4, <1>5, <1>6, <1>8

(* The connection of an event that was not read yet is there. *)
LEMMA StreamType ==
  ASSUME NodeInv, NEW n \in Node, NEW token \in {"SUCCESSOR", "PREDECESSOR"}, Connected(node[n], token)
  PROVE  Socket(n, token) \in Conn /\ Stream(n, token) \in Seq(PDU)
<1>1. node[n] \in Memory /\ NetSound(net)
  BY DEF NodeInv
<1>2. Socket(n, token) \in Conn
  BY <1>1, MemoryFields DEF Connected, Socket
<1> QED
  BY <1>1, <1>2, NetFields DEF Socket, Stream

(* The memory and the kernel after a stream was read. *)
LEMMA FilledType ==
  ASSUME NodeInv, NEW n \in Node, NEW token \in {"SUCCESSOR", "PREDECESSOR"}, Connected(node[n], token),
         NEW r \in try_read(n, token)
  PROVE  /\ \E q \in [Token -> Seq(PDU)] :
               /\ Filled(n, token, r) = [node[n] EXCEPT !.queue = q]
               /\ q[token] = node[n].queue[token] \o SubSeq(Stream(n, token), 1, r.count)
         /\ NetSound(Drained(n, token, r))
         /\ r.count \in 0 .. Len(Stream(n, token)) /\ r.closed \in BOOLEAN
<1> DEFINE S == Stream(n, token)
           p == SubSeq(S, 1, r.count)
           q == [node[n].queue EXCEPT ![token] = @ \o p]
           rest == SubSeq(S, r.count + 1, Len(S))
<1>1. Socket(n, token) \in Conn /\ S \in Seq(PDU)
  BY StreamType
<1>2. r.count \in 0 .. Len(S) /\ r.closed \in BOOLEAN
  BY DEF try_read
<1> HIDE DEF S
<1>3. Len(S) \in Nat
  BY <1>1
<1>4. p \in Seq(PDU) /\ rest \in Seq(PDU)
  BY <1>1, <1>2, <1>3
<1> HIDE DEF p, rest
<1>5. node[n] \in Memory /\ node[n].queue \in [Token -> Seq(PDU)] /\ token \in Token
  BY MemoryFields DEF NodeInv, Token
<1>6. node[n].queue[token] \o p \in Seq(PDU)
  BY <1>4, <1>5
<1>7. q \in [Token -> Seq(PDU)] /\ q[token] = node[n].queue[token] \o p
  BY <1>5, <1>6
<1>8. Filled(n, token, r) = [node[n] EXCEPT !.queue = q]
  BY DEF Filled, p, S
<1>9. NetSound(net) /\ net.bwd \in [Conn -> Seq(PDU)] /\ net.fwd \in [Conn -> Seq(PDU)]
  BY NetFields DEF NodeInv
<1>10. /\ [net.bwd EXCEPT ![Socket(n, token)] = rest] \in [Conn -> Seq(PDU)]
       /\ [net.fwd EXCEPT ![Socket(n, token)] = rest] \in [Conn -> Seq(PDU)]
  BY <1>1, <1>4, <1>9
<1>11. NetSound(Drained(n, token, r))
  BY <1>9, <1>10, NetUpdate DEF Drained, rest, S
<1> HIDE DEF q
<1> QED
  BY <1>2, <1>7, <1>8, <1>11 DEF p, S

(* The first PDU of a queue is taken. *)
LEMMA PoppedType ==
  ASSUME NEW s \in Memory, NEW token \in Token, s.queue[token] # <<>>
  PROVE  /\ \E p \in [Token -> Seq(PDU)] : Popped(s, token) = [s EXCEPT !.queue = p]
         /\ Head(s.queue[token]) \in PDU
<1>1. s.queue \in [Token -> Seq(PDU)]
  BY MemoryFields
<1>2. s.queue[token] \in Seq(PDU)
  BY <1>1
<1>3. Head(s.queue[token]) \in PDU /\ Tail(s.queue[token]) \in Seq(PDU)
  BY <1>2
<1>4. [s.queue EXCEPT ![token] = Tail(@)] \in [Token -> Seq(PDU)]
  BY <1>1, <1>3
<1>5. Popped(s, token) = [s EXCEPT !.queue = [s.queue EXCEPT ![token] = Tail(@)]]
  BY DEF Popped
<1> QED
  BY <1>3, <1>4, <1>5


(* await_pdu_udp and await_pdu. *)
LEMMA AwaitUdpType ==
  ASSUME NodeInv, NEW n \in Node, NEW a \in await_pdu_udp(n)
  PROVE  /\ a.pdu \in PDU /\ NetSound(a.kernel)
         /\ \E q \in [Token -> Seq(PDU)] : a.memory = [node[n] EXCEPT !.queue = q]
<1>1. PICK batch \in Batches(n) :
         a = [pdu |-> Head(FilledUdp(n, batch).queue["UDP"]), memory |-> Popped(FilledUdp(n, batch), "UDP"),
              kernel |-> DrainedUdp(batch)]
  BY DEF await_pdu_udp
<1>2. NetSound(DrainedUdp(batch))
  BY FilledUdpType
<1>3. PICK q \in [Token -> Seq(PDU)] : FilledUdp(n, batch) = [node[n] EXCEPT !.queue = q] /\ q["UDP"] # <<>>
  BY FilledUdpType
<1> DEFINE s == [node[n] EXCEPT !.queue = q]
<1>4. s \in Memory /\ s.queue = q /\ "UDP" \in Token
  <2>1. node[n] \in Memory
    BY DEF NodeInv
  <2>2. s \in Memory /\ s.queue = q
    BY <2>1 DEF Memory
  <2> QED
    BY <2>2 DEF Token
<1> HIDE DEF s
<1>5. s.queue["UDP"] # <<>>
  BY <1>3, <1>4
<1>6. PICK p \in [Token -> Seq(PDU)] : Popped(s, "UDP") = [s EXCEPT !.queue = p] /\ Head(s.queue["UDP"]) \in PDU
  BY <1>4, <1>5, PoppedType
<1>7. a.pdu = Head(s.queue["UDP"]) /\ a.memory = Popped(s, "UDP") /\ a.kernel = DrainedUdp(batch)
  <2>1. FilledUdp(n, batch) = s
    BY <1>3 DEF s
  <2> QED
    BY ONLY <1>1, <2>1
<1>8. [s EXCEPT !.queue = p] = [node[n] EXCEPT !.queue = p]
  <2>1. node[n] \in Memory
    BY DEF NodeInv
  <2> QED
    BY <2>1 DEF s, Memory
<1> QED
  BY <1>2, <1>6, <1>7, <1>8

(* What await_pdu (node.rs:809) returns, and what it leaves of the queues. *)
LEMMA AwaitType ==
  ASSUME NodeInv, NEW n \in Node, NEW token \in {"SUCCESSOR", "PREDECESSOR"}, Connected(node[n], token),
         NEW a \in await_pdu(n, token)
  PROVE  /\ a.pdu \in PDU \cup {NULL} /\ NetSound(a.kernel)
         /\ a.pdu # NULL => \E q \in [Token -> Seq(PDU)] : a.memory = [node[n] EXCEPT !.queue = q]
<1>1. CASE a.pdu = NULL /\ a.memory = node[n] /\ a.kernel = net
  BY <1>1 DEF NodeInv
<1>2. ASSUME NEW r \in try_read(n, token), Filled(n, token, r).queue[token] # <<>>,
             a = [pdu |-> Head(Filled(n, token, r).queue[token]), memory |-> Popped(Filled(n, token, r), token),
                  kernel |-> Drained(n, token, r)]
      PROVE  /\ a.pdu \in PDU /\ NetSound(a.kernel)
             /\ \E q \in [Token -> Seq(PDU)] : a.memory = [node[n] EXCEPT !.queue = q]
  <2>1. NetSound(Drained(n, token, r))
    BY FilledType
  <2>2. PICK q \in [Token -> Seq(PDU)] : Filled(n, token, r) = [node[n] EXCEPT !.queue = q]
    BY FilledType
  <2> DEFINE s == [node[n] EXCEPT !.queue = q]
  <2>3. s \in Memory /\ token \in Token
    <3>1. node[n] \in Memory
      BY DEF NodeInv
    <3>2. s \in Memory
      BY <3>1 DEF Memory
    <3> QED
      BY <3>2 DEF Token
  <2> HIDE DEF s
  <2>4. s.queue[token] # <<>>
    BY <1>2, <2>2 DEF s
  <2>5. PICK p \in [Token -> Seq(PDU)] : Popped(s, token) = [s EXCEPT !.queue = p] /\ Head(s.queue[token]) \in PDU
    BY <2>3, <2>4, PoppedType
  <2>6. a.pdu = Head(s.queue[token]) /\ a.memory = Popped(s, token) /\ a.kernel = Drained(n, token, r)
    <3>1. Filled(n, token, r) = s
      BY <2>2 DEF s
    <3> QED
      BY ONLY <1>2, <3>1
  <2>7. [s EXCEPT !.queue = p] = [node[n] EXCEPT !.queue = p]
    <3>1. node[n] \in Memory
      BY DEF NodeInv
    <3> QED
      BY <3>1 DEF s, Memory
  <2> QED
    BY <2>1, <2>5, <2>6, <2>7
<1>3. \/ a = [pdu |-> NULL, memory |-> node[n], kernel |-> net]
      \/ \E r \in try_read(n, token) :
            /\ Filled(n, token, r).queue[token] # <<>>
            /\ a = [pdu |-> Head(Filled(n, token, r).queue[token]), memory |-> Popped(Filled(n, token, r), token),
                    kernel |-> Drained(n, token, r)]
  BY DEF await_pdu
<1>4. a = [pdu |-> NULL, memory |-> node[n], kernel |-> net] => a.pdu = NULL /\ a.memory = node[n] /\ a.kernel = net
  OBVIOUS
<1> QED
  BY <1>1, <1>2, <1>3, <1>4

(* What is known of a running node. *)
LEMMA NodeFacts ==
  ASSUME NodeInv, NEW n \in Node
  PROVE  /\ node[n] \in Memory /\ Sound(node[n]) /\ NetSound(net)
         /\ Tracker # Client /\ Tracker \notin Node /\ Client \notin Node
  BY RustNodeAssumption DEF NodeInv

(***************************************************************************)
(* The states.                                                             *)
(***************************************************************************)
(* q1 keeps every node and the kernel well-formed. *)
LEMMA q1Sound == ASSUME NodeInv, NEW n \in Node, q1(n) PROVE NodeInv'
<1> DEFINE s == [node[n] EXCEPT !.state = "Q2", !.at = "await"]
           pdu == [type |-> "STUN_LOOKUP"]
<1>1. node[n] \in Memory /\ Sound(node[n]) /\ NetSound(net) /\ Tracker # Client
  BY NodeFacts
<1>2. pdu \in PDU
  BY PDUTypes
<1>3. NetSound(SendUdp(net, n, Tracker, pdu))
  BY <1>1, <1>2, SendUdpSound
<1>4. s \in Memory /\ s.at = "await" /\ s.state = "Q2" /\ s.successor = node[n].successor
      /\ s.successor_listen = node[n].successor_listen
  BY <1>1 DEF Memory, State
<1> HIDE DEF s, pdu
<1>5. Sound(s)
  BY <1>1, <1>4 DEF Sound, Noted, Attached, Watching
<1> QED
  BY <1>3, <1>5, BecomeSound DEF q1, s, pdu

(* A node goes on with what await_pdu_udp left, in a state that needs nothing. *)
LEMMA GotoSound ==
  ASSUME NEW s, Sound(s), NEW q \in [Token -> Seq(PDU)], NEW m, m = [s EXCEPT !.queue = q],
         NEW x \in {"Q3", "Q4", "Q6", "Q10"}
  PROVE  Sound(Goto(m, x))
<1> DEFINE t == Goto(m, x)
<1>0. x \in State /\ s \in Memory
  BY DEF State, Sound
<1>1. /\ t \in Memory /\ t.at = "run" /\ t.state = x
      /\ t.successor = s.successor /\ t.successor_listen = s.successor_listen
  BY <1>0 DEF Goto, Memory
<1> HIDE DEF t
<1>2. Sound(t)
  BY <1>1 DEF Sound, Noted, Attached, Watching
<1> QED
  BY <1>2 DEF t

(* q2 keeps every node and the kernel well-formed. *)
LEMMA q2Sound == ASSUME NodeInv, NEW n \in Node, q2(n) PROVE NodeInv'
<1>1. PICK a \in await_pdu_udp(n) :
         IF a.pdu.type # "STUN_RESPONSE" THEN Panic(n, a.kernel)
         ELSE Become(n, Goto(a.memory, "Q3"), a.kernel)
  BY DEF q2
<1>2. NetSound(a.kernel) /\ \E q \in [Token -> Seq(PDU)] : a.memory = [node[n] EXCEPT !.queue = q]
  BY AwaitUdpType
<1>3. Sound(Goto(a.memory, "Q3"))
  BY <1>2, NodeFacts, GotoSound
<1> QED
  BY <1>1, <1>2, <1>3, PanicSound, BecomeSound

(* q3 keeps every node and the kernel well-formed. *)
LEMMA q3Sound == ASSUME NodeInv, NEW n \in Node, q3(n) PROVE NodeInv'
<1>0. node[n] \in Memory /\ Sound(node[n]) /\ NetSound(net) /\ Tracker # Client
  BY NodeFacts
<1>1. CASE /\ At(n, "Q3", "run")
           /\ Become(n, [node[n] EXCEPT !.at = "await"], SendUdp(net, n, Tracker, [type |-> "NET_GET_NODE"]))
  <2> DEFINE s == [node[n] EXCEPT !.at = "await"]
             pdu == [type |-> "NET_GET_NODE"]
  <2>1. pdu \in PDU
    BY PDUTypes
  <2>2. NetSound(SendUdp(net, n, Tracker, pdu))
    BY <1>0, <2>1, SendUdpSound
  <2>3. s \in Memory /\ s.at = "await" /\ s.state = "Q3" /\ s.successor = node[n].successor
        /\ s.successor_listen = node[n].successor_listen
    BY <1>0, <1>1 DEF Memory, At
  <2> HIDE DEF s
  <2>4. Sound(s)
    BY <1>0, <2>3 DEF Sound, Noted, Attached, Watching
  <2> QED
    BY <1>1, <2>2, <2>4, BecomeSound DEF s
<1>2. CASE \E a \in await_pdu_udp(n) :
             IF a.pdu.type # "NET_GET_NODE_RESPONSE" THEN Panic(n, a.kernel)
             ELSE IF a.pdu.node = NULL THEN Become(n, Goto(a.memory, "Q4"), a.kernel)
             ELSE Become(n, [Goto(a.memory, "Q7") EXCEPT !.last_pdu = a.pdu], a.kernel)
  <2>1. PICK a \in await_pdu_udp(n) :
             IF a.pdu.type # "NET_GET_NODE_RESPONSE" THEN Panic(n, a.kernel)
             ELSE IF a.pdu.node = NULL THEN Become(n, Goto(a.memory, "Q4"), a.kernel)
             ELSE Become(n, [Goto(a.memory, "Q7") EXCEPT !.last_pdu = a.pdu], a.kernel)
    BY <1>2
  <2>2. a.pdu \in PDU /\ NetSound(a.kernel)
    BY AwaitUdpType
  <2>3. PICK q \in [Token -> Seq(PDU)] : a.memory = [node[n] EXCEPT !.queue = q]
    BY AwaitUdpType
  <2>4. Sound(Goto(a.memory, "Q4"))
    BY <1>0, <2>3, GotoSound
  <2>5. ASSUME a.pdu.type = "NET_GET_NODE_RESPONSE", a.pdu.node # NULL
        PROVE  Sound([Goto(a.memory, "Q7") EXCEPT !.last_pdu = a.pdu])
    <3> DEFINE s == [Goto(a.memory, "Q7") EXCEPT !.last_pdu = a.pdu]
    <3>1. "Q7" \in State /\ a.pdu \in PDU \cup {NULL} /\ a.pdu # NULL
      BY <2>2, NullFacts DEF State
    <3>2. s \in Memory /\ s.at = "run" /\ s.state = "Q7" /\ s.last_pdu = a.pdu
          /\ s.successor = node[n].successor /\ s.successor_listen = node[n].successor_listen
      BY <1>0, <2>3, <3>1 DEF Memory, Goto
    <3> HIDE DEF s
    <3>3. Sound(s)
      BY <1>0, <2>5, <3>1, <3>2 DEF Sound, Noted, Attached, Watching, Named
    <3> QED
      BY <3>3 DEF s
  <2> QED
    BY <2>1, <2>2, <2>4, <2>5, PanicSound, BecomeSound
<1> QED
  BY <1>1, <1>2 DEF q3

(* q4 keeps every node and the kernel well-formed. *)
LEMMA q4Sound == ASSUME NodeInv, NEW n \in Node, q4(n) PROVE NodeInv'
<1> DEFINE s == [Goto(node[n], "Q6") EXCEPT !.start = 0, !.end = HASH_SIZE - 1]
<1>1. node[n] \in Memory /\ Sound(node[n]) /\ NetSound(net)
  BY NodeFacts
<1>2. "Q6" \in State /\ 0 \in Byte /\ HASH_SIZE - 1 \in Byte
  BY ByteFacts DEF State
<1>3. s \in Memory /\ s.at = "run" /\ s.state = "Q6" /\ s.successor = node[n].successor
      /\ s.successor_listen = node[n].successor_listen
  BY <1>1, <1>2 DEF Memory, Goto
<1> HIDE DEF s
<1>4. Sound(s)
  BY <1>1, <1>3 DEF Sound, Noted, Attached, Watching
<1> QED
  BY <1>1, <1>4, BecomeSound DEF q4, s

(* accept_predecessor, in q5, q7 and q17. *)
LEMMA AcceptSound ==
  ASSUME NodeInv, NEW n \in Node, NEW x, NEW y \in {"Q6", "Q8"}, accept_predecessor(n, x, y)
  PROVE  NodeInv'
<1> DEFINE c == Head(net.backlog[n])
           at == IF y = "Q8" THEN "await" ELSE "run"
           s == [node[n] EXCEPT !.predecessor = c, !.state = y, !.at = at]
           nt == CloseAcceptor(net, node[n].predecessor)
           L == [nt.backlog EXCEPT ![n] = Tail(@)]
<1>1. node[n] \in Memory /\ Sound(node[n]) /\ NetSound(net) /\ NetSound(nt)
  <2>1. node[n] \in Memory /\ Sound(node[n]) /\ NetSound(net)
    BY NodeFacts
  <2>2. node[n].predecessor \in Conn \cup {NULL}
    BY <2>1 DEF Memory
  <2> QED
    BY <2>1, <2>2, CloseSound
<1>2. /\ net.backlog[n] \in Seq(Conn) /\ net.backlog[n] # <<>> /\ nt.backlog = net.backlog
      /\ nt.backlog \in [Node -> Seq(Conn)]
  BY <1>1, NetFields DEF accept_predecessor, CloseAcceptor, NetSound, Kernel
<1>3. c \in Conn /\ Tail(net.backlog[n]) \in Seq(Conn)
  BY <1>2
<1>4. L \in [Node -> Seq(Conn)]
  BY <1>2, <1>3
<1>5. NetSound([nt EXCEPT !.backlog = L])
  <2> HIDE DEF nt, L
  <2> QED
    BY <1>1, <1>4, NetUpdate
<1>6. [nt EXCEPT !.backlog[n] = Tail(@)] = [nt EXCEPT !.backlog = L]
  OBVIOUS
<1>7. c \in Conn \cup {NULL} /\ c # NULL /\ at \in {"run", "await"} /\ y \in State /\ (y = "Q8" <=> at = "await")
  BY <1>3, NullFacts DEF State
<1> HIDE DEF c, at, L, nt
<1>8. s \in Memory /\ s.at = at /\ s.state = y /\ s.predecessor = c /\ s.successor = node[n].successor
      /\ s.successor_listen = node[n].successor_listen
  BY <1>1, <1>7 DEF Memory
<1> HIDE DEF s
<1>9. Sound(s)
  BY <1>1, <1>7, <1>8 DEF Sound, Noted, Attached, Watching
<1>10. Become(n, s, [nt EXCEPT !.backlog = L])
  BY <1>6 DEF accept_predecessor, s, c, at, nt
<1> QED
  BY <1>5, <1>9, <1>10, BecomeSound

(* q7 keeps every node and the kernel well-formed. *)
LEMMA q7Sound == ASSUME NodeInv, NEW n \in Node, q7(n) PROVE NodeInv'
<1>1. CASE accept_predecessor(n, "Q7", "Q8")
  BY <1>1, AcceptSound
<1>2. CASE /\ At(n, "Q7", "run")
           /\ Become(n, [node[n] EXCEPT !.last_pdu = NULL, !.at = "accept"],
                     SendUdp(net, n, node[n].last_pdu.node,
                             [type |-> "NET_JOIN", src |-> n, max_span |-> 0, max |-> NULL]))
  <2> DEFINE s == [node[n] EXCEPT !.last_pdu = NULL, !.at = "accept"]
             pdu == [type |-> "NET_JOIN", src |-> n, max_span |-> 0, max |-> NULL]
             m == node[n].last_pdu.node
  <2>1. node[n] \in Memory /\ Sound(node[n]) /\ NetSound(net) /\ Tracker \notin Node /\ Client \notin Node
    BY NodeFacts
  <2>2. node[n].last_pdu \in PDU /\ node[n].last_pdu.type = "NET_GET_NODE_RESPONSE" /\ m # NULL
    BY <1>2, <2>1, MemoryFields DEF Sound, Noted, Named, At
  <2>3. m \in Node
    BY <2>2, PDUFields
  <2>4. pdu \in PDU
    BY PDUTypes, ByteFacts
  <2> HIDE DEF m, pdu
  <2>5. NetSound(SendUdp(net, n, m, pdu))
    BY <2>1, <2>3, <2>4, SendUdpSound
  <2>6. s \in Memory /\ s.at = "accept" /\ s.state = "Q7" /\ s.successor = node[n].successor
        /\ s.successor_listen = node[n].successor_listen
    BY <1>2, <2>1 DEF Memory, At
  <2> HIDE DEF s
  <2>7. Sound(s)
    BY <2>1, <2>6 DEF Sound, Noted, Attached, Watching
  <2> QED
    BY <1>2, <2>5, <2>7, BecomeSound DEF s, pdu, m
<1> QED
  BY <1>1, <1>2 DEF q7

(* connect_to_successor, at the end of q5, q8, q13 and q16. *)
LEMMA ConnectedSound ==
  ASSUME NEW s \in Memory, NEW c \in Conn, NEW x \in {"Q5", "Q6"}, NEW at \in {"run", "accept"},
         x = "Q5" => at = "accept"
  PROVE  Sound([ConnectedTo(s, c) EXCEPT !.last_pdu = NULL, !.state = x, !.at = at])
<1> DEFINE t == [ConnectedTo(s, c) EXCEPT !.last_pdu = NULL, !.state = x, !.at = at]
<1>1. c.to \in Node /\ c # NULL /\ c.to # NULL /\ x \in State
  BY ConnFields, NullFacts DEF State
<1>2. t \in Memory /\ t.at = at /\ t.state = x /\ t.successor = c /\ t.successor_listen = c.to
  BY <1>1 DEF Memory, ConnectedTo
<1> HIDE DEF t
<1>3. Sound(t)
  BY <1>1, <1>2 DEF Sound, Noted, Attached, Watching
<1> QED
  BY <1>3 DEF t

(* q8 keeps every node and the kernel well-formed. *)
LEMMA q8Sound == ASSUME NodeInv, NEW n \in Node, q8(n) PROVE NodeInv'
<1>0. node[n] \in Memory /\ Sound(node[n]) /\ NetSound(net)
  BY NodeFacts
<1>1. PICK a \in await_pdu(n, "PREDECESSOR") :
          IF a.pdu = NULL THEN Panic(n, a.kernel)
          ELSE IF a.pdu.type # "NET_JOIN_RESPONSE" THEN Panic(n, a.kernel)
          ELSE IF ~Running(a.pdu.next) THEN Panic(n, a.kernel)
          ELSE /\ Unused(n, a.pdu.next) # {}
               /\ LET c == NewConn(n, a.pdu.next)
                      s == [Goto(a.memory, "Q6") EXCEPT !.start = a.pdu.range_start, !.end = a.pdu.range_end]
                  IN  Become(n, ConnectedTo(s, c), Connect(a.kernel, c))
  BY DEF q8
<1>2. Connected(node[n], "PREDECESSOR")
  BY <1>0 DEF q8, At, Sound, Attached, Connected
<1>3. a.pdu \in PDU \cup {NULL} /\ NetSound(a.kernel)
  BY <1>2, AwaitType
<1>4. CASE ~Panic(n, a.kernel)
  <2> DEFINE c == NewConn(n, a.pdu.next)
             s == [Goto(a.memory, "Q6") EXCEPT !.start = a.pdu.range_start, !.end = a.pdu.range_end]
             t == ConnectedTo(s, c)
  <2>1. a.pdu # NULL /\ a.pdu.type = "NET_JOIN_RESPONSE" /\ Unused(n, a.pdu.next) # {}
        /\ Become(n, t, Connect(a.kernel, c))
    BY <1>1, <1>4
  <2>2. a.pdu.range_start \in Byte /\ a.pdu.range_end \in Byte /\ c \in Conn
    BY <1>3, <2>1, PDUFields, NewConnType
  <2>3. PICK q \in [Token -> Seq(PDU)] : a.memory = [node[n] EXCEPT !.queue = q]
    BY <1>2, <2>1, AwaitType
  <2>4. NetSound(Connect(a.kernel, c))
    BY <1>3, <2>2, ConnectSound
  <2>5. c.to \in Node /\ c # NULL /\ c.to # NULL /\ "Q6" \in State
    BY <2>2, ConnFields, NullFacts DEF State
  <2> HIDE DEF c
  <2>6. t \in Memory /\ t.at = "run" /\ t.state = "Q6" /\ t.successor = c /\ t.successor_listen = c.to
    BY <1>0, <2>2, <2>3, <2>5 DEF Memory, ConnectedTo, Goto
  <2> HIDE DEF t
  <2>7. Sound(t)
    BY <2>5, <2>6 DEF Sound, Noted, Attached, Watching
  <2> QED
    BY <2>1, <2>4, <2>7, BecomeSound
<1> QED
  BY <1>3, <1>4, PanicSound

(* send_alive keeps every node and the kernel well-formed. *)
LEMMA SendAliveSound == ASSUME NodeInv, NEW n \in Node, send_alive(n) PROVE NodeInv'
<1> DEFINE s == [node[n] EXCEPT !.alive_due = FALSE]
           pdu == [type |-> "NET_ALIVE"]
<1>1. node[n] \in Memory /\ Sound(node[n]) /\ NetSound(net) /\ Tracker # Client
  BY NodeFacts
<1>2. pdu \in PDU
  BY PDUTypes
<1>3. NetSound(SendUdp(net, n, Tracker, pdu))
  BY <1>1, <1>2, SendUdpSound
<1>4. s \in Memory /\ s.at = "run" /\ s.state = "Q6" /\ s.successor = node[n].successor
      /\ s.successor_listen = node[n].successor_listen
  BY <1>1 DEF Memory, send_alive, At
<1> HIDE DEF s, pdu
<1>5. Sound(s)
  BY <1>1, <1>4 DEF Sound, Noted, Attached, Watching
<1> QED
  BY <1>3, <1>5, BecomeSound DEF send_alive, s, pdu

(* The events of a round of q6. *)
LEMMA PollEvents ==
  ASSUME NEW n, NEW ready \in (SUBSET Ready(n)) \ {{}}, NEW events \in SetToSeqs(ready)
  PROVE  /\ events \in Seq(Token) /\ events # <<>>
         /\ \A i, j \in DOMAIN events : i # j => events[i] # events[j]
         /\ \A i \in DOMAIN events : events[i] \in Ready(n)
<1>1. ready \subseteq Token /\ ready # {}
  BY DEF Ready
<1>2. IsFiniteSet(Token)
  <2>1. Token = {"UDP", "SUCCESSOR", "PREDECESSOR"} /\ IsFiniteSet({}) 
    BY FS_EmptySet DEF Token
  <2>2. IsFiniteSet({} \cup {"UDP"})
    BY ONLY <2>1, FS_AddElement
  <2>3. IsFiniteSet(({} \cup {"UDP"}) \cup {"SUCCESSOR"})
    BY ONLY <2>2, FS_AddElement
  <2>4. IsFiniteSet((({} \cup {"UDP"}) \cup {"SUCCESSOR"}) \cup {"PREDECESSOR"})
    BY ONLY <2>3, FS_AddElement
  <2>5. Token = (({} \cup {"UDP"}) \cup {"SUCCESSOR"}) \cup {"PREDECESSOR"}
    BY <2>1
  <2> QED
    BY <2>4, <2>5
<1>3. IsFiniteSet(ready)
  BY <1>1, <1>2, FS_Subset
<1>4. /\ events \in Seq(ready) /\ DOMAIN events = 1 .. Cardinality(ready) /\ Cardinality(ready) \in Nat
      /\ \A i, j \in DOMAIN events : i # j => events[i] # events[j]
  BY <1>3, OrdersType
<1>5. Cardinality(ready) # 0
  BY <1>1, <1>3, FS_EmptySet
<1>6. events # <<>> /\ events \in Seq(Token) /\ \A i \in DOMAIN events : events[i] \in Ready(n)
  <2>1. 1 \in DOMAIN events
    BY <1>4, <1>5
  <2>2. \A i \in DOMAIN events : events[i] \in ready
    BY <1>4
  <2> QED
    BY <1>1, <1>4, <2>1, <2>2
<1> QED
  BY <1>4, <1>6

(* q6poll keeps every node and the kernel well-formed. *)
LEMMA q6pollSound == ASSUME NodeInv, NEW n \in Node, q6poll(n) PROVE NodeInv'
<1>1. node[n] \in Memory /\ Sound(node[n]) /\ NetSound(net) /\ node[n].state = "Q6"
  BY NodeFacts DEF q6poll, At
<1>2. CASE node[n].should_close /\ Become(n, Goto(node[n], "Q10"), net)
  <2> DEFINE s == Goto(node[n], "Q10")
  <2>1. "Q10" \in State
    BY DEF State
  <2>2. s \in Memory /\ s.at = "run" /\ s.state = "Q10" /\ s.successor = node[n].successor
        /\ s.successor_listen = node[n].successor_listen
    BY <1>1, <2>1 DEF Memory, Goto
  <2> HIDE DEF s
  <2>3. Sound(s)
    BY <1>1, <2>2 DEF Sound, Noted, Attached, Watching
  <2> QED
    BY <1>1, <1>2, <2>3, BecomeSound DEF s
<1>3. ASSUME NEW ready \in (SUBSET Ready(n)) \ {{}}, NEW events \in SetToSeqs(ready),
             Become(n, [node[n] EXCEPT !.events = events, !.at = "read"], net)
      PROVE  NodeInv'
  <2> DEFINE s == [node[n] EXCEPT !.events = events, !.at = "read"]
  <2>6. /\ events \in Seq(Token) /\ events # <<>>
        /\ \A i, j \in DOMAIN events : i # j => events[i] # events[j]
        /\ \A i \in DOMAIN events : events[i] \in Ready(n)
    BY PollEvents
  <2>7. /\ s \in Memory /\ s.at = "read" /\ s.state = "Q6" /\ s.events = events
        /\ s.successor = node[n].successor /\ s.predecessor = node[n].predecessor
        /\ s.successor_listen = node[n].successor_listen
    BY <1>1, <2>6 DEF Memory
  <2> HIDE DEF s
  <2>8. \A t \in Ready(n) : Connected(s, t)
    BY <2>7 DEF Ready, Socket, Connected
  <2>9. Sound(s)
    <3>1. Noted(s) /\ Attached(s)
      BY <1>1, <2>7 DEF Sound, Noted, Attached
    <3>2. Watching(s)
      BY <2>6, <2>7, <2>8 DEF Watching
    <3> QED
      BY <2>7, <3>1, <3>2 DEF Sound
  <2> QED
    BY <1>1, <1>3, <2>9, BecomeSound DEF s
<1> QED
  BY <1>2, <1>3 DEF q6poll

(* What has been read is there to be handled. *)
LEMMA ReadSound ==
  ASSUME NEW s, Sound(s), s.at = "read", NEW q \in [Token -> Seq(PDU)], NEW c \in Conn \cup {NULL},
         c = s.successor \/ (c = NULL /\ Head(s.events) = "SUCCESSOR")
  PROVE  Sound([s EXCEPT !.queue = q, !.at = "handle", !.successor = c])
<1> DEFINE t == [s EXCEPT !.queue = q, !.at = "handle", !.successor = c]
<1>1. /\ s \in Memory /\ s.events \in Seq(Token) /\ s.events # <<>>
      /\ s.state \in {"Q6", "Q12", "Q15", "Q16", "Q17"}
  BY MemoryFields DEF Sound, Watching
<1>2. /\ t \in Memory /\ t.at = "handle" /\ t.state = s.state /\ t.events = s.events /\ t.last_pdu = s.last_pdu
      /\ t.successor = c /\ t.predecessor = s.predecessor /\ t.successor_listen = s.successor_listen
  BY <1>1 DEF Memory
<1> HIDE DEF t
<1>3. 1 \in DOMAIN s.events /\ Head(s.events) = s.events[1]
  BY <1>1
<1>4. Noted(t) /\ Attached(t)
  BY <1>1, <1>2 DEF Sound, Noted, Attached, Named
<1>5. \A i, j \in DOMAIN s.events : i # j => s.events[i] # s.events[j]
  BY DEF Sound, Watching
<1>6. \A i \in DOMAIN t.events : i > 1 => Connected(t, t.events[i])
  <2> SUFFICES ASSUME NEW i \in DOMAIN s.events, i > 1
               PROVE  Connected(t, s.events[i])
    BY <1>2
  <2>1. Connected(s, s.events[i])
    BY DEF Sound, Watching
  <2>2. s.events[i] # s.events[1]
    BY <1>3, <1>5
  <2> QED
    BY <1>2, <1>3, <2>1, <2>2 DEF Connected
<1>7. Sound(t)
  BY <1>1, <1>2, <1>4, <1>5, <1>6 DEF Sound, Watching
<1> QED
  BY <1>7 DEF t

(* q6read keeps every node and the kernel well-formed. *)
LEMMA q6readSound == ASSUME NodeInv, NEW n \in Node, q6read(n) PROVE NodeInv'
<1> DEFINE token == Head(node[n].events)
<1>1. node[n] \in Memory /\ Sound(node[n]) /\ NetSound(net) /\ node[n].at = "read"
  BY NodeFacts DEF q6read
<1>2. node[n].events \in Seq(Token) /\ node[n].events # <<>>
  BY <1>1, MemoryFields DEF Sound, Watching
<1>3. token \in Token /\ 1 \in DOMAIN node[n].events /\ token = node[n].events[1]
  BY <1>2
<1>4. Connected(node[n], token)
  BY <1>1, <1>3 DEF Sound, Watching
<1>5. node[n].successor \in Conn \cup {NULL}
  BY <1>1, MemoryFields
<1> HIDE DEF token
<1>6. CASE token = "UDP"
  <2>1. PICK batch \in IF Datagrams(n) = {} THEN {<<>>} ELSE Batches(n) :
           Become(n, [FilledUdp(n, batch) EXCEPT !.at = "handle"], DrainedUdp(batch))
    BY <1>6 DEF q6read, token
  <2>2. batch \in Batches(n) \cup {<<>>}
    BY <2>1
  <2>3. NetSound(DrainedUdp(batch))
    BY <2>2, FilledUdpType
  <2>4. PICK q \in [Token -> Seq(PDU)] : FilledUdp(n, batch) = [node[n] EXCEPT !.queue = q]
    BY <2>2, FilledUdpType
  <2>5. Sound([node[n] EXCEPT !.queue = q, !.at = "handle", !.successor = node[n].successor])
    BY <1>1, <1>5, ReadSound
  <2>6. [[node[n] EXCEPT !.queue = q] EXCEPT !.at = "handle"]
           = [node[n] EXCEPT !.queue = q, !.at = "handle", !.successor = node[n].successor]
    BY <1>1 DEF Memory
  <2>7. Sound([FilledUdp(n, batch) EXCEPT !.at = "handle"])
    BY <2>4, <2>5, <2>6
  <2> QED
    BY <2>1, <2>3, <2>7, BecomeSound
<1>7. CASE token # "UDP"
  <2>1. token \in {"SUCCESSOR", "PREDECESSOR"}
    BY <1>3, <1>7 DEF Token
  <2>2. PICK r \in try_read(n, token), failed \in Fails(net, Socket(n, token)) :
           IF failed THEN Panic(n, Drained(n, token, r))
           ELSE IF token = "SUCCESSOR" /\ r.closed
           THEN Become(n, [[Filled(n, token, r) EXCEPT !.at = "handle"] EXCEPT !.successor = NULL],
                       Drained(n, token, r))
           ELSE Become(n, [Filled(n, token, r) EXCEPT !.at = "handle"], Drained(n, token, r))
    BY <1>7 DEF q6read, token
  <2>3. NetSound(Drained(n, token, r))
    BY <1>4, <2>1, FilledType
  <2>4. PICK q \in [Token -> Seq(PDU)] : Filled(n, token, r) = [node[n] EXCEPT !.queue = q]
    BY <1>4, <2>1, FilledType
  <2>5. Sound([node[n] EXCEPT !.queue = q, !.at = "handle", !.successor = node[n].successor])
    BY <1>1, <1>5, ReadSound
  <2>6. [[node[n] EXCEPT !.queue = q] EXCEPT !.at = "handle"]
           = [node[n] EXCEPT !.queue = q, !.at = "handle", !.successor = node[n].successor]
    BY <1>1 DEF Memory
  <2>7. Sound([Filled(n, token, r) EXCEPT !.at = "handle"])
    BY <2>4, <2>5, <2>6
  <2>8. token = "SUCCESSOR" => Sound([node[n] EXCEPT !.queue = q, !.at = "handle", !.successor = NULL])
    BY <1>1, ReadSound DEF token
  <2>9. [[[node[n] EXCEPT !.queue = q] EXCEPT !.at = "handle"] EXCEPT !.successor = NULL]
           = [node[n] EXCEPT !.queue = q, !.at = "handle", !.successor = NULL]
    BY <1>1 DEF Memory
  <2>10. token = "SUCCESSOR" => Sound([[Filled(n, token, r) EXCEPT !.at = "handle"] EXCEPT !.successor = NULL])
    BY <2>4, <2>8, <2>9
  <2> QED
    BY <2>2, <2>3, <2>7, <2>10, BecomeSound, PanicSound
<1> QED
  BY <1>6, <1>7

(* q6handle keeps every node and the kernel well-formed. *)
LEMMA q6handleSound == ASSUME NodeInv, NEW n \in Node, q6handle(n) PROVE NodeInv'
<1> DEFINE token == Head(node[n].events)
           s == Popped(node[n], token)
<1>1. node[n] \in Memory /\ Sound(node[n]) /\ NetSound(net) /\ node[n].at = "handle" /\ Settled(node[n])
  BY NodeFacts DEF q6handle, NodeInv
<1>2. node[n].events \in Seq(Token) /\ node[n].events # <<>>
  BY <1>1, MemoryFields DEF Sound, Watching
<1>3. token \in Token /\ node[n].queue[token] # <<>>
  BY <1>1, <1>2 DEF Settled
<1> HIDE DEF token
<1>4. Head(node[n].queue[token]) \in PDU
  BY <1>1, <1>3, PoppedType
<1>5. PICK p \in [Token -> Seq(PDU)] : s = [node[n] EXCEPT !.queue = p]
  BY <1>1, <1>3, PoppedType
<1>6. Sound(s) /\ s.at = "handle"
  <2>1. Sound([node[n] EXCEPT !.queue = p])
    BY <1>1, QueueSound
  <2>2. [node[n] EXCEPT !.queue = p].at = "handle"
    BY <1>1 DEF Memory
  <2> QED
    BY <1>5, <2>1, <2>2
<1> HIDE DEF s
<1>7. handle_pdu(n, s, token, Head(node[n].queue[token]), net)
  BY DEF q6handle, s, token
<1> QED
  BY <1>1, <1>4, <1>6, <1>7, HandlePduSound

(* q12 keeps every node and the kernel well-formed. *)
LEMMA q12Sound == ASSUME NodeInv, NEW n \in Node, q12(n) PROVE NodeInv'
<1> DEFINE x == IF node[n].successor = NULL THEN "Q5" ELSE IF node[n].last_pdu.max = n THEN "Q13" ELSE "Q14"
           s == Goto(node[n], x)
<1>1. node[n] \in Memory /\ Sound(node[n]) /\ NetSound(net) /\ node[n].state = "Q12"
  BY NodeFacts DEF q12, At
<1>2. x \in {"Q5", "Q13", "Q14"} /\ x \in State /\ (x = "Q13" => node[n].successor # NULL)
  BY DEF State
<1> HIDE DEF x
<1>3. /\ s \in Memory /\ s.at = "run" /\ s.state = x /\ s.last_pdu = node[n].last_pdu
      /\ s.successor = node[n].successor /\ s.successor_listen = node[n].successor_listen
  BY <1>1, <1>2 DEF Memory, Goto
<1> HIDE DEF s
<1>4. Sound(s)
  BY <1>1, <1>2, <1>3 DEF Sound, Noted, Attached, Watching, Named
<1> QED
  BY <1>1, <1>4, BecomeSound DEF q12, s, x

(* The range is split and the connection to the new node made. *)
LEMMA MakeRoomSound ==
  ASSUME NodeInv, NEW n \in Node, Named(node[n], "NET_JOIN"), NEW next \in Node, NEW nt, NetSound(nt),
         NEW x \in {"Q5", "Q6"}, NEW at \in {"run", "accept"}, x = "Q5" => at = "accept",
         MakeRoom(n, node[n], next, nt, x, at)
  PROVE  NodeInv'
<1> DEFINE s == node[n]
           src == s.last_pdu.src
           c == NewConn(n, src)
           kept == Retained(split_range(s), SplitStart(s), s.end)
<1>1. s \in Memory /\ Sound(s)
  BY NodeFacts
<1>2. CASE ~Running(src)
  BY <1>2, PanicSound DEF MakeRoom
<1>3. CASE Running(src)
  <2>1. PICK sent \in Transferred(s, SplitStart(s), s.end) :
           Become(n, [ConnectedTo(kept, c) EXCEPT !.last_pdu = NULL, !.state = x, !.at = at],
                  SendForward(Connect(nt, c), c, <<JoinResponse(s, next)>> \o sent))
    BY <1>3 DEF MakeRoom
  <2>2. Unused(n, src) # {}
    BY <1>3 DEF MakeRoom
  <2>3. c \in Conn
    BY <2>2, NewConnType
  <2>4. s.start \in Byte /\ s.end \in Byte /\ Middle(s) \in Byte /\ SplitStart(s) \in Byte
    BY <1>1, MemoryFields, SplitType
  <2>5. JoinResponse(s, next) \in PDU
    BY <2>4, PDUTypes DEF JoinResponse
  <2>6. sent \in Seq(PDU)
    BY <1>1, <2>1, TransferredType
  <2>7. <<JoinResponse(s, next)>> \o sent \in Seq(PDU)
    BY <2>5, <2>6
  <2>8. split_range(s) \in Memory
    BY <1>1, <2>4 DEF split_range, Memory
  <2>9. kept \in Memory
    BY <2>8, RetainedType
  <2> HIDE DEF kept, c, s, src
  <2>10. NetSound(SendForward(Connect(nt, c), c, <<JoinResponse(s, next)>> \o sent))
    BY <2>3, <2>7, ConnectSound, SendForwardSound
  <2>11. Sound([ConnectedTo(kept, c) EXCEPT !.last_pdu = NULL, !.state = x, !.at = at])
    BY <2>3, <2>9, ConnectedSound
  <2> QED
    BY <2>1, <2>10, <2>11, BecomeSound
<1> QED
  BY <1>2, <1>3

(* q5 keeps every node and the kernel well-formed. *)
LEMMA q5Sound == ASSUME NodeInv, NEW n \in Node, q5(n) PROVE NodeInv'
<1>1. CASE accept_predecessor(n, "Q5", "Q6")
  BY <1>1, AcceptSound
<1>2. CASE At(n, "Q5", "run") /\ MakeRoom(n, node[n], n, net, "Q5", "accept")
  <2>1. Sound(node[n]) /\ NetSound(net)
    BY NodeFacts
  <2>2. Named(node[n], "NET_JOIN")
    BY <1>2, <2>1 DEF At, Sound, Noted
  <2> QED
    BY <1>2, <2>1, <2>2, MakeRoomSound
<1> QED
  BY <1>1, <1>2 DEF q5

(* q13 keeps every node and the kernel well-formed. *)
LEMMA q13Sound == ASSUME NodeInv, NEW n \in Node, q13(n) PROVE NodeInv'
<1> DEFINE old == node[n].successor
           closing == SendForward(net, old, <<[type |-> "NET_CLOSE_CONNECTION"]>>)
<1>1. node[n] \in Memory /\ Sound(node[n]) /\ NetSound(net) /\ node[n].state = "Q13"
  BY NodeFacts DEF q13, At
<1>2. old \in Conn /\ Named(node[n], "NET_JOIN")
  BY <1>1, MemoryFields DEF Sound, Attached, Noted
<1>3. [type |-> "NET_CLOSE_CONNECTION"] \in PDU
  BY PDUTypes
<1>4. <<[type |-> "NET_CLOSE_CONNECTION"]>> \in Seq(PDU)
  BY <1>3
<1>5. PICK failed \in Fails(closing, old) :
         IF failed THEN Panic(n, net)
         ELSE MakeRoom(n, node[n], old.to, CloseConnector(closing, old), "Q6", "run")
  BY DEF q13
<1> HIDE DEF old
<1>6. NetSound(closing)
  BY <1>1, <1>2, <1>4, SendForwardSound
<1> HIDE DEF closing
<1>7. NetSound(CloseConnector(closing, old)) /\ old.to \in Node
  BY <1>2, <1>6, CloseSound, ConnFields
<1> QED
  BY <1>1, <1>2, <1>5, <1>7, PanicSound, MakeRoomSound

(* q14 keeps every node and the kernel well-formed. *)
LEMMA q14Sound == ASSUME NodeInv, NEW n \in Node, q14(n) PROVE NodeInv'
<1> DEFINE pdu == node[n].last_pdu
           sent == IF Span(node[n]) > pdu.max_span THEN [pdu EXCEPT !.max_span = Span(node[n]), !.max = n] ELSE pdu
           s == [Goto(node[n], "Q6") EXCEPT !.last_pdu = NULL]
<1>1. node[n] \in Memory /\ Sound(node[n]) /\ NetSound(net) /\ node[n].state = "Q14"
  BY NodeFacts DEF q14, At
<1>2. pdu \in PDU /\ pdu.type = "NET_JOIN"
  BY <1>1, MemoryFields DEF Sound, Noted, Named
<1>3. Span(node[n]) \in Byte
  BY <1>1, MemoryFields, SplitType
<1>4. [pdu EXCEPT !.max_span = Span(node[n]), !.max = n] \in PDU
  BY <1>2, <1>3, PDUFields
<1>5. sent \in PDU
  BY <1>2, <1>4
<1>6. s \in Memory /\ s.at = "run" /\ s.state = "Q6" /\ s.successor = node[n].successor
      /\ s.successor_listen = node[n].successor_listen
  BY <1>1 DEF Memory, Goto, State
<1> HIDE DEF s, sent
<1>7. Sound(s)
  BY <1>1, <1>6 DEF Sound, Noted, Attached, Watching
<1>8. Forward(n, s, sent, net)
  BY DEF q14, s, sent
<1> QED
  BY <1>1, <1>5, <1>7, <1>8, ForwardSound

(* q15 keeps every node and the kernel well-formed. *)
LEMMA q15Sound == ASSUME NodeInv, NEW n \in Node, q15(n) PROVE NodeInv'
<1> DEFINE pdu == node[n].last_pdu
           s == [Goto(node[n], "Q6") EXCEPT !.last_pdu = NULL]
           upwards == s.end # HASH_SIZE - 1 /\ pdu.range_start = s.end + 1
           c == IF upwards THEN s.successor ELSE s.predecessor
<1>1. node[n] \in Memory /\ Sound(node[n]) /\ NetSound(net) /\ node[n].state = "Q15"
  BY NodeFacts DEF q15, At
<1>2. pdu \in PDU /\ pdu.type = "NET_NEW_RANGE"
  BY <1>1, MemoryFields DEF Sound, Noted, Named
<1>3. pdu.range_start \in Byte /\ pdu.range_end \in Byte
  BY <1>2, PDUFields
<1>4. s \in Memory /\ s.at = "run" /\ s.state = "Q6" /\ s.successor = node[n].successor
      /\ s.successor_listen = node[n].successor_listen
  BY <1>1 DEF Memory, Goto, State
<1>5. \/ Panic(n, net)
      \/ c # NULL /\ Become(n, [s EXCEPT !.end = pdu.range_end], SendForward(net, c, NewRangeResponse))
      \/ c # NULL /\ Become(n, [s EXCEPT !.start = pdu.range_start], SendBackward(net, c, NewRangeResponse))
  BY DEF q15
<1>6. c \in Conn \cup {NULL}
  BY <1>4, MemoryFields
<1> HIDE DEF s, c, upwards, pdu
<1>7. [type |-> "NET_NEW_RANGE_RESPONSE"] \in PDU
  BY PDUTypes
<1>8. NewRangeResponse \in Seq(PDU)
  BY <1>7 DEF NewRangeResponse
<1>9. c # NULL => NetSound(SendForward(net, c, NewRangeResponse)) /\ NetSound(SendBackward(net, c, NewRangeResponse))
  BY <1>1, <1>6, <1>8, SendForwardSound, SendBackwardSound
<1>10. \A b \in Byte : Sound([s EXCEPT !.end = b]) /\ Sound([s EXCEPT !.start = b])
  <2> TAKE b \in Byte
  <2> DEFINE t == [s EXCEPT !.end = b]
             u == [s EXCEPT !.start = b]
  <2>1. t \in Memory /\ t.at = "run" /\ t.state = "Q6" /\ t.successor = s.successor
        /\ t.successor_listen = s.successor_listen
    BY <1>4 DEF Memory
  <2>2. u \in Memory /\ u.at = "run" /\ u.state = "Q6" /\ u.successor = s.successor
        /\ u.successor_listen = s.successor_listen
    BY <1>4 DEF Memory
  <2> HIDE DEF t, u
  <2>3. Sound(t) /\ Sound(u)
    BY <1>1, <1>4, <2>1, <2>2 DEF Sound, Noted, Attached, Watching
  <2> QED
    BY <2>3 DEF t, u
<1> QED
  BY <1>1, <1>3, <1>5, <1>9, <1>10, PanicSound, BecomeSound

(* q16 keeps every node and the kernel well-formed. *)
LEMMA q16Sound == ASSUME NodeInv, NEW n \in Node, q16(n) PROVE NodeInv'
<1> DEFINE s == [Goto(node[n], "Q6") EXCEPT !.last_pdu = NULL, !.successor = NULL]
           new_addr == node[n].last_pdu.new
           closed == CloseConnector(net, node[n].successor)
           c == NewConn(n, new_addr)
<1>1. node[n] \in Memory /\ Sound(node[n]) /\ NetSound(net) /\ node[n].state = "Q16"
  BY NodeFacts DEF q16, At
<1>2. node[n].successor \in Conn \cup {NULL} /\ node[n].predecessor \in Conn \cup {NULL}
  BY <1>1, MemoryFields
<1>3. NetSound(closed)
  BY <1>1, <1>2, CloseSound
<1>4. "Q6" \in State
  BY DEF State
<1>5. s \in Memory /\ s.at = "run" /\ s.state = "Q6" /\ s.successor = NULL /\ s.predecessor = node[n].predecessor
  BY <1>1, <1>4 DEF Memory, Goto
<1>6. \/ Become(n, [s EXCEPT !.predecessor = NULL], CloseAcceptor(closed, s.predecessor))
      \/ Panic(n, closed)
      \/ Unused(n, new_addr) # {} /\ Become(n, ConnectedTo(s, c), Connect(closed, c))
  BY DEF q16
<1> HIDE DEF s, closed
<1>7. ASSUME Become(n, [s EXCEPT !.predecessor = NULL], CloseAcceptor(closed, s.predecessor))
      PROVE  NodeInv'
  <2> DEFINE t == [s EXCEPT !.predecessor = NULL]
  <2>1. t \in Memory /\ t.at = "run" /\ t.state = "Q6" /\ t.successor = NULL
    BY <1>5 DEF Memory
  <2> HIDE DEF t
  <2>2. Sound(t)
    BY <2>1 DEF Sound, Noted, Attached, Watching
  <2>3. NetSound(CloseAcceptor(closed, s.predecessor))
    BY <1>2, <1>3, <1>5, CloseSound
  <2> QED
    BY <1>7, <2>2, <2>3, BecomeSound DEF t
<1>8. ASSUME Unused(n, new_addr) # {}, Become(n, ConnectedTo(s, c), Connect(closed, c))
      PROVE  NodeInv'
  <2> DEFINE t == ConnectedTo(s, c)
  <2>1. c \in Conn
    BY <1>8, NewConnType
  <2> HIDE DEF c
  <2>2. c.to \in Node /\ c # NULL /\ c.to # NULL
    BY <2>1, ConnFields, NullFacts
  <2>3. t \in Memory /\ t.at = "run" /\ t.state = "Q6" /\ t.successor = c /\ t.successor_listen = c.to
    BY <1>5, <2>1, <2>2 DEF Memory, ConnectedTo
  <2> HIDE DEF t
  <2>4. Sound(t)
    BY <2>2, <2>3 DEF Sound, Noted, Attached, Watching
  <2>5. NetSound(Connect(closed, c))
    BY <1>3, <2>1, ConnectSound
  <2> QED
    BY <1>8, <2>4, <2>5, BecomeSound DEF t
<1> QED
  BY <1>3, <1>6, <1>7, <1>8, PanicSound

(* q17 keeps every node and the kernel well-formed. *)
LEMMA q17Sound == ASSUME NodeInv, NEW n \in Node, q17(n) PROVE NodeInv'
<1> DEFINE s == [node[n] EXCEPT !.predecessor = NULL]
           old == node[n].predecessor
<1>0. node[n] \in Memory /\ Sound(node[n]) /\ NetSound(net) /\ old \in Conn \cup {NULL}
  BY NodeFacts, MemoryFields
<1>1. CASE accept_predecessor(n, "Q17", "Q6")
  BY <1>1, AcceptSound
<1>2. CASE /\ At(n, "Q17", "run")
           /\ \E failed \in IF old = NULL THEN {FALSE} ELSE Fails(net, old) :
                 IF failed THEN Panic(n, net)
                 ELSE Become(n, IF s.start = 0 /\ s.end = HASH_SIZE - 1 THEN Goto(s, "Q6")
                                ELSE [s EXCEPT !.at = "accept"], CloseAcceptor(net, old))
  <2> DEFINE t == IF s.start = 0 /\ s.end = HASH_SIZE - 1 THEN Goto(s, "Q6") ELSE [s EXCEPT !.at = "accept"]
  <2>1. Panic(n, net) \/ Become(n, t, CloseAcceptor(net, old))
    BY <1>2
  <2>2. NetSound(CloseAcceptor(net, old))
    BY <1>0, CloseSound
  <2>3. "Q6" \in State
    BY DEF State
  <2>4. s \in Memory /\ s.state = "Q17" /\ s.successor = node[n].successor
        /\ s.successor_listen = node[n].successor_listen
    BY <1>0, <1>2 DEF Memory, At
  <2> HIDE DEF s
  <2>5. t \in Memory /\ t.at \in {"run", "accept"} /\ t.state \in {"Q6", "Q17"} /\ t.successor = s.successor
        /\ t.successor_listen = s.successor_listen
    <3>1. CASE t = Goto(s, "Q6")
      BY <2>3, <2>4, <3>1 DEF Memory, Goto
    <3>2. CASE t = [s EXCEPT !.at = "accept"]
      BY <2>4, <3>2 DEF Memory
    <3> QED
      BY <3>1, <3>2
  <2> HIDE DEF t
  <2>6. Sound(t)
    BY <1>0, <2>4, <2>5 DEF Sound, Noted, Attached, Watching
  <2> QED
    BY <1>0, <2>1, <2>2, <2>6, PanicSound, BecomeSound
<1> QED
  BY <1>1, <1>2 DEF q17

(* q10 keeps every node and the kernel well-formed. *)
LEMMA q10Sound == ASSUME NodeInv, NEW n \in Node, q10(n) PROVE NodeInv'
<1> DEFINE s == Goto(node[n], "Q11")
<1>1. node[n] \in Memory /\ Sound(node[n]) /\ NetSound(net)
  BY NodeFacts
<1>2. CASE node[n].successor = NULL
  BY <1>1, <1>2, FinishSound DEF q10
<1>3. CASE node[n].successor # NULL
  <2>1. "Q11" \in State
    BY DEF State
  <2>2. s \in Memory /\ s.at = "run" /\ s.state = "Q11" /\ s.successor = node[n].successor
        /\ s.successor_listen = node[n].successor_listen
    BY <1>1, <2>1 DEF Memory, Goto
  <2> HIDE DEF s
  <2>3. Sound(s)
    BY <1>1, <1>3, <2>2 DEF Sound, Noted, Attached, Watching
  <2> QED
    BY <1>1, <1>3, <2>3, BecomeSound DEF q10, s
<1> QED
  BY <1>2, <1>3

(* Writing to the neighbour that takes over. *)
LEMMA SendToSound ==
  ASSUME NEW nt, NetSound(nt), NEW token \in {"SUCCESSOR", "PREDECESSOR"}, NEW c \in Conn, NEW pdus \in Seq(PDU)
  PROVE  NetSound(SendTo(nt, token, c, pdus))
  BY SendForwardSound, SendBackwardSound DEF SendTo

(* q11 keeps every node and the kernel well-formed. *)
LEMMA q11Sound == ASSUME NodeInv, NEW n \in Node, q11(n) PROVE NodeInv'
<1> DEFINE s == node[n]
           token == Neighbour(s)
           c == Socket(n, token)
           pdu == [type |-> "NET_NEW_RANGE", range_start |-> s.start, range_end |-> s.end]
<1>0. s \in Memory /\ Sound(s) /\ NetSound(net) /\ token \in {"SUCCESSOR", "PREDECESSOR"}
  BY NodeFacts DEF Neighbour
<1>1. CASE /\ At(n, "Q11", "run")
           /\ IF s.predecessor = NULL THEN Panic(n, net)
              ELSE \E failed \in Fails(net, c) :
                      IF failed THEN Panic(n, net)
                      ELSE Become(n, [s EXCEPT !.at = "await"], SendTo(net, token, c, <<pdu>>))
  <2>1. CASE Panic(n, net)
    BY <1>0, <2>1, PanicSound
  <2>2. CASE s.predecessor # NULL /\ Become(n, [s EXCEPT !.at = "await"], SendTo(net, token, c, <<pdu>>))
    <3>1. s.successor # NULL /\ s.state = "Q11"
      BY <1>0, <1>1 DEF At, Sound, Attached
    <3>2. c \in Conn
      BY <1>0, <2>2, <3>1, MemoryFields DEF Socket
    <3>3. s.start \in Byte /\ s.end \in Byte
      BY <1>0, MemoryFields
    <3>4. pdu \in PDU
      BY <3>3, PDUTypes
    <3>5. <<pdu>> \in Seq(PDU)
      BY <3>4
    <3>6. NetSound(SendTo(net, token, c, <<pdu>>))
      BY <1>0, <3>2, <3>5, SendToSound
    <3> DEFINE t == [s EXCEPT !.at = "await"]
    <3>7. t \in Memory /\ t.at = "await" /\ t.state = "Q11" /\ t.successor = s.successor
          /\ t.successor_listen = s.successor_listen /\ t.predecessor = s.predecessor
      BY <1>0, <3>1 DEF Memory
    <3> HIDE DEF t
    <3>8. Sound(t)
      BY <1>0, <2>2, <3>1, <3>7 DEF Sound, Noted, Attached, Watching
    <3> QED
      BY <2>2, <3>6, <3>8, BecomeSound DEF t
  <2> QED
    BY <1>1, <2>1, <2>2
<1>2. CASE /\ At(n, "Q11", "await")
           /\ \E a \in await_pdu(n, token) :
                 IF a.pdu = NULL THEN Panic(n, a.kernel)
                 ELSE IF a.pdu.type # "NET_NEW_RANGE_RESPONSE" THEN Panic(n, a.kernel)
                 ELSE Become(n, Goto(a.memory, "Q18"), a.kernel)
  <2>1. s.successor # NULL /\ s.predecessor # NULL
    BY <1>0, <1>2 DEF At, Sound, Attached
  <2>2. PICK a \in await_pdu(n, token) :
           IF a.pdu = NULL THEN Panic(n, a.kernel)
           ELSE IF a.pdu.type # "NET_NEW_RANGE_RESPONSE" THEN Panic(n, a.kernel)
           ELSE Become(n, Goto(a.memory, "Q18"), a.kernel)
    BY <1>2
  <2>3. Connected(s, token)
    BY <2>1 DEF Connected
  <2>4. NetSound(a.kernel)
    BY <1>0, <2>3, AwaitType
  <2>5. CASE a.pdu # NULL /\ Become(n, Goto(a.memory, "Q18"), a.kernel)
    <3>1. PICK q \in [Token -> Seq(PDU)] : a.memory = [s EXCEPT !.queue = q]
      BY <1>0, <2>3, <2>5, AwaitType
    <3> DEFINE t == Goto(a.memory, "Q18")
    <3>2. "Q18" \in State
      BY DEF State
    <3>3. t \in Memory /\ t.at = "run" /\ t.state = "Q18" /\ t.successor = s.successor
          /\ t.successor_listen = s.successor_listen /\ t.predecessor = s.predecessor
      BY <1>0, <3>1, <3>2 DEF Memory, Goto
    <3> HIDE DEF t
    <3>4. Sound(t)
      BY <1>0, <2>1, <3>3 DEF Sound, Noted, Attached, Watching
    <3> QED
      BY <2>4, <2>5, <3>4, BecomeSound DEF t
  <2> QED
    BY <2>2, <2>4, <2>5, PanicSound
<1> QED
  BY <1>1, <1>2 DEF q11

(* q18 keeps every node and the kernel well-formed. *)
LEMMA q18Sound == ASSUME NodeInv, NEW n \in Node, q18(n) PROVE NodeInv'
<1> DEFINE s == node[n]
           moved(sent) == SendTo(net, Neighbour(s), Socket(n, Neighbour(s)), sent)
           closing(sent) == SendForward(moved(sent), s.successor, <<[type |-> "NET_CLOSE_CONNECTION"]>>)
           leaving(sent) == SendBackward(closing(sent), s.predecessor,
                                         <<[type |-> "NET_LEAVING", new |-> s.successor_listen]>>)
<1>1. s \in Memory /\ Sound(s) /\ NetSound(net) /\ s.state = "Q18"
  BY NodeFacts DEF q18, At
<1>2. s.successor \in Conn /\ s.predecessor \in Conn /\ s.successor_listen \in Node
  BY <1>1, MemoryFields DEF Sound, Attached
<1>3. PICK sent \in Transferred(s, s.start, s.end) :
         Panic(n, moved(sent)) \/ Panic(n, closing(sent)) \/ Finish(n, leaving(sent))
  BY DEF q18
<1>4. sent \in Seq(PDU)
  BY <1>1, TransferredType
<1>5. [type |-> "NET_CLOSE_CONNECTION"] \in PDU /\ [type |-> "NET_LEAVING", new |-> s.successor_listen] \in PDU
  BY <1>2, PDUTypes
<1>6. /\ <<[type |-> "NET_CLOSE_CONNECTION"]>> \in Seq(PDU)
      /\ <<[type |-> "NET_LEAVING", new |-> s.successor_listen]>> \in Seq(PDU)
  BY <1>5
<1>7. Neighbour(s) \in {"SUCCESSOR", "PREDECESSOR"} /\ Socket(n, Neighbour(s)) \in Conn
  BY <1>2 DEF Neighbour, Socket
<1>8. NetSound(moved(sent))
  BY <1>1, <1>4, <1>7, SendToSound
<1>9. NetSound(closing(sent))
  BY <1>2, <1>6, <1>8, SendForwardSound
<1>10. NetSound(leaving(sent))
  BY <1>2, <1>6, <1>9, SendBackwardSound
<1> HIDE DEF moved, closing, leaving
<1> QED
  BY <1>3, <1>8, <1>9, <1>10, PanicSound, FinishSound

(* A signal ends a poll of await_pdu, and the process panics (node.rs:789, 809). *)
LEMMA InterruptedSound == ASSUME NodeInv, NEW n \in Node, Interrupted(n) PROVE NodeInv'
  BY NodeFacts, PanicSound DEF Interrupted

(* Every step of a node keeps it well-formed. *)
LEMMA RunSound == ASSUME NodeInv, NEW n \in Node, run(n) PROVE NodeInv'
  BY q1Sound, q2Sound, q3Sound, q4Sound, q5Sound, q7Sound, q8Sound, SendAliveSound, q6pollSound,
     q6readSound, q6handleSound, q10Sound, q11Sound, q12Sound, q13Sound, q14Sound, q15Sound, q16Sound,
     q17Sound, q18Sound DEF run

(***************************************************************************)
(* The environment, the tracker and the client.                            *)
(***************************************************************************)
(* Only the kernel changes. *)
LEMMA KernelSound ==
  ASSUME NodeInv, NetSound(net'), node' = node
  PROVE  NodeInv'
  BY DEF NodeInv, Sound, Settled, NetSound, Noted, Attached, Watching, Connected, Named, Addressed

(* A flag changes. *)
LEMMA FlagSound ==
  ASSUME NodeInv, NEW n \in Node,
         \/ Become(n, [node[n] EXCEPT !.should_close = TRUE], net)
         \/ Become(n, [node[n] EXCEPT !.alive_due = TRUE], net)
  PROVE  NodeInv'
<1>1. node[n] \in Memory /\ Sound(node[n]) /\ NetSound(net)
  BY NodeFacts
<1>2. ASSUME NEW t, t \in {[node[n] EXCEPT !.should_close = TRUE], [node[n] EXCEPT !.alive_due = TRUE]}
      PROVE  Sound(t)
  <2>1. /\ t \in Memory /\ t.at = node[n].at /\ t.state = node[n].state /\ t.events = node[n].events
        /\ t.last_pdu = node[n].last_pdu /\ t.successor = node[n].successor
        /\ t.predecessor = node[n].predecessor /\ t.successor_listen = node[n].successor_listen
    BY <1>1, <1>2 DEF Memory
  <2> QED
    BY <1>1, <2>1 DEF Sound, Noted, Attached, Watching, Connected, Named
<1> QED
  BY <1>1, <1>2, BecomeSound

(* A node starts with the memory of a new one. *)
LEMMA StartNodeSound == ASSUME NodeInv, NEW n \in Node, StartNode(n) PROVE NodeInv'
  BY NodeFacts, NewSound, BecomeSound DEF StartNode

(* The tracker answers a node. *)
LEMMA TrackerSound ==
  ASSUME RustInv, NEW d \in net.udp, d.dst = Tracker, StunLookup(d) \/ NetAlive(d) \/ NetGetNode(d)
  PROVE  NetSound(net') /\ nodes' \subseteq Node
<1>1. NetSound(net) /\ nodes \subseteq Node /\ d.src \in Node /\ Tracker \notin Node /\ Client \notin Node
  BY RustNodeAssumption DEF RustInv, NodeInv, TypeOK, NetSound, Addressed
<1>2. ASSUME NEW pdu \in PDU
      PROVE  NetSound([SendUdp(net, Tracker, d.src, pdu) EXCEPT !.udp = @ \ {d}])
  <2>1. NetSound(SendUdp(net, Tracker, d.src, pdu))
    BY <1>1, SendUdpSound
  <2> QED
    BY <2>1, TakeUdpSound
<1>3. CASE StunLookup(d)
  <2>1. [type |-> "STUN_RESPONSE"] \in PDU
    BY PDUTypes
  <2> QED
    BY <1>1, <1>2, <1>3, <2>1 DEF StunLookup
<1>4. CASE NetAlive(d)
  BY <1>1, <1>4, TakeUdpSound DEF NetAlive
<1>5. CASE NetGetNode(d)
  <2>1. PICK m \in IF nodes = {} THEN {NULL} ELSE nodes :
           net' = [SendUdp(net, Tracker, d.src, [type |-> "NET_GET_NODE_RESPONSE", node |-> m]) EXCEPT !.udp = @ \ {d}]
    BY <1>5 DEF NetGetNode
  <2>2. m \in Node \cup {NULL}
    BY <1>1, <2>1
  <2>3. [type |-> "NET_GET_NODE_RESPONSE", node |-> m] \in PDU
    BY <2>2, PDUTypes
  <2> QED
    BY <1>1, <1>2, <1>5, <2>1, <2>3 DEF NetGetNode
<1> QED
  BY <1>3, <1>4, <1>5

(* A request of the client is a datagram to a node. *)
LEMMA ClientSendSound ==
  ASSUME RustInv, NEW pdu \in Request, ClientSend(pdu)
  PROVE  RustInv'
<1>1. PICK n \in nodes : net' = SendUdp(net, Client, n, pdu)
  BY DEF ClientSend, get_node
<1>2. n \in Node /\ pdu \in PDU /\ Tracker \notin Node /\ Client \notin Node /\ NetSound(net)
  BY RustNodeAssumption DEF RustInv, NodeInv, TypeOK, Request
<1>3. NetSound(net')
  BY <1>1, <1>2, SendUdpSound
<1>4. NodeInv'
  BY <1>3, KernelSound DEF ClientSend, RustInv
<1>5. ops' \in 0 .. MaxOps /\ request' \in Request \cup {NULL} /\ answer' = answer /\ nodes' = nodes
  BY RustRingAssumption DEF ClientSend, RustInv, TypeOK
<1>6. answer' \in Value \cup {NULL} /\ nodes' \subseteq Node
  BY <1>5 DEF RustInv, TypeOK
<1> QED
  BY <1>4, <1>5, <1>6 DEF RustInv, TypeOK, NodeInv, NetSound

(* The client takes its answer. *)
LEMMA ClientReceiveSound == ASSUME RustInv, ClientReceive PROVE RustInv'
<1>1. PICK d \in net.udp :
         /\ d.dst = Client /\ net' = [net EXCEPT !.udp = @ \ {d}] /\ request' = NULL /\ answer' = d.pdu.val
         /\ UNCHANGED <<node, nodes, ops>>
  BY DEF ClientReceive
<1>2. NetSound(net)
  BY DEF RustInv, NodeInv
<1>3. d.pdu \in PDU /\ d.pdu.type = "VAL_LOOKUP_RESPONSE"
  BY <1>1, <1>2, NetFields DEF NetSound, Addressed, Datagram
<1>4. answer' \in Value \cup {NULL}
  BY <1>1, <1>3, PDUFields
<1>5. NetSound(net')
  BY <1>1, <1>2, TakeUdpSound
<1>6. NodeInv'
  BY <1>1, <1>5, KernelSound DEF RustInv
<1> QED
  BY <1>1, <1>4, <1>6 DEF RustInv, TypeOK, NodeInv, NetSound

(* The invariant holds initially and every step keeps it. *)
LEMMA InvInit == ASSUME Init PROVE RustInv
<1>1. node \in [Node -> Memory] /\ \A n \in Node : Sound(node[n]) /\ Settled(node[n])
  <2>1. Sound(new("off")) /\ Settled(new("off")) /\ new("off") \in Memory
    BY NewSound DEF Sound
  <2>2. node = [n \in Node |-> new("off")]
    BY DEF Init
  <2> HIDE DEF new
  <2> QED
    BY <2>1, <2>2
<1>2. QuietKernel \in Kernel /\ QuietKernel.udp = {}
  <2>1. <<>> \in Seq(PDU) /\ <<>> \in Seq(Conn)
    OBVIOUS
  <2>2. /\ [c \in Conn |-> <<>>] \in [Conn -> Seq(PDU)] /\ [n \in Node |-> <<>>] \in [Node -> Seq(Conn)]
    BY <2>1
  <2> QED
    BY <2>2 DEF QuietKernel, Kernel
<1>3. NetSound(net)
  BY <1>2, FS_EmptySet DEF Init, NetSound
<1> QED
  BY <1>1, <1>3, RustRingAssumption DEF Init, RustInv, NodeInv, NetSound, TypeOK

(* Every step keeps the invariant. *)
LEMMA InvNext == ASSUME RustInv, [Next]_vars PROVE RustInv'
<1>0. NodeInv /\ TypeOK
  BY DEF RustInv
<1>1. ASSUME NodeInv', UNCHANGED <<nodes, request, answer, ops>>
      PROVE  RustInv'
  BY <1>0, <1>1 DEF RustInv, TypeOK, NodeInv, NetSound
<1>2. CASE \E n \in Node : StartNode(n) \/ CtrlC(n) \/ RunNode(n) \/ NodeFault(n) \/ AliveDue(n)
  <2>1. PICK n \in Node : StartNode(n) \/ CtrlC(n) \/ RunNode(n) \/ NodeFault(n) \/ AliveDue(n)
    BY <1>2
  <2>2. CASE StartNode(n)
    BY <1>0, <1>1, <2>2, StartNodeSound DEF StartNode
  <2>3. CASE CtrlC(n) \/ AliveDue(n)
    BY <1>0, <1>1, <2>3, FlagSound DEF CtrlC, AliveDue
  <2>4. CASE RunNode(n)
    BY <1>0, <1>1, <2>4, RunSound DEF RunNode
  <2>5. CASE NodeFault(n)
    BY <1>0, <1>1, <2>5, InterruptedSound DEF NodeFault
  <2> QED
    BY <2>1, <2>2, <2>3, <2>4, <2>5
<1>3. CASE \E n \in Node : NodeTimeout(n)
  <2>1. NodeInv'
    BY <1>0, <1>3, KernelSound DEF NodeTimeout, NodeInv
  <2> QED
    BY <1>0, <1>3, <2>1 DEF NodeTimeout, RustInv, TypeOK, NodeInv, NetSound
<1>4. CASE LoseDatagram
  <2>0. PICK d \in net.udp : net' = [net EXCEPT !.udp = @ \ {d}]
    BY <1>4 DEF LoseDatagram
  <2>1. NodeInv'
    <3>1. NetSound(net)
      BY <1>0 DEF NodeInv
    <3>2. NetSound([net EXCEPT !.udp = net.udp \ {d}])
      BY <3>1, TakeUdpSound
    <3> QED
      BY <1>0, <1>4, <2>0, <3>2, KernelSound DEF LoseDatagram
  <2> QED
    BY <1>1, <1>4, <2>1 DEF LoseDatagram
<1>5. CASE RunTracker
  <2>1. NetSound(net') /\ nodes' \subseteq Node
    BY <1>5, TrackerSound DEF RunTracker
  <2>2. NodeInv'
    BY <1>0, <1>5, <2>1, KernelSound DEF RunTracker
  <2> QED
    BY <1>0, <1>5, <2>1, <2>2 DEF RunTracker, RustInv, TypeOK, NodeInv, NetSound
<1>6. CASE ClientInsert \/ ClientRemove \/ ClientLookup
  <2>1. PICK pdu \in Request : ClientSend(pdu)
    <3>1. /\ \A k \in Key, v \in Value : [type |-> "VAL_INSERT", key |-> k, val |-> v] \in Request
          /\ \A k \in Key : [type |-> "VAL_REMOVE", key |-> k] \in Request
          /\ \A k \in Key : [type |-> "VAL_LOOKUP", key |-> k] \in Request
      BY PDUTypes DEF Request
    <3> QED
      BY <1>6, <3>1 DEF ClientInsert, ClientRemove, ClientLookup
  <2> QED
    BY <2>1, ClientSendSound
<1>7. CASE ClientReceive
  BY <1>7, ClientReceiveSound
<1>8. CASE UNCHANGED vars
  BY <1>8 DEF vars, RustInv, TypeOK, NodeInv, Sound, Settled, NetSound, Noted, Attached, Watching, Connected,
              Named, Addressed
<1> QED
  BY <1>2, <1>3, <1>4, <1>5, <1>6, <1>7, <1>8 DEF Next

(* The inductive invariant, for the proofs that rest on it. *)
LEMMA RustInvariant == Spec => []RustInv
<1>1. Init => RustInv
  BY InvInit
<1>2. RustInv /\ [Next]_vars => RustInv'
  BY InvNext
<1> QED
  BY <1>1, <1>2, PTL DEF Spec

(* Every variable of the network of Rust nodes keeps its type, whatever the
   environment does: no state function takes a PDU, a connection or an address
   that is not there (the unwraps of q5, q7, q8, q11, q13, q14, q15, q16 and q18),
   and what the tracker and the client are sent is what they expect. *)
THEOREM RustTypeCorrect == Spec => []TypeOK
<1>1. RustInv => TypeOK
  BY DEF RustInv
<1> QED
  BY <1>1, RustInvariant, PTL
=============================================================================
