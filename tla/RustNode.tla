------------------------------ MODULE RustNode ------------------------------
(***************************************************************************)
(* The Rust node (node.rs) on its buffered sockets (socket_wrapper.rs):    *)
(* one action per state function, named as in the code.  A function that   *)
(* blocks (accept, await_pdu, the poll of q6) is split where it blocks.    *)
(* Arithmetic wraps, as in the release build the README asks for.          *)
(***************************************************************************)
EXTENDS HashRange, Sequences, FiniteSets, SequencesExt

CONSTANTS
    Node,      \* processes; a restarted one has new ports and is a new node
    Client,    \* the UDP address of the client
    Tracker,   \* the UDP address of the tracker
    Key,       \* SSNs
    Value,     \* name and email of a person
    hash_ssn,  \* the hash of every key
    NULL,      \* None
    MaxConns,  \* bound: connections open at a time from one node to another
    Faults     \* misbehaviour of the environment that is admitted

Conn == {c \in [from : Node, to : Node, id : 1 .. MaxConns] : c.from # c.to}

PDU == [type : {"VAL_INSERT"}, key : Key, val : Value]
    \cup [type : {"VAL_REMOVE", "VAL_LOOKUP"}, key : Key]
    \cup [type : {"VAL_LOOKUP_RESPONSE"}, val : Value \cup {NULL}]
    \cup [type : {"NET_GET_NODE_RESPONSE"}, node : Node \cup {NULL}]
    \cup [type : {"NET_JOIN"}, src : Node, max_span : Byte, max : Node \cup {NULL}]
    \cup [type : {"NET_JOIN_RESPONSE"}, next : Node, range_start : Byte, range_end : Byte]
    \cup [type : {"NET_NEW_RANGE"}, range_start : Byte, range_end : Byte]
    \cup [type : {"NET_LEAVING"}, new : Node]
    \cup [type : {"NET_NEW_RANGE_RESPONSE", "NET_CLOSE_CONNECTION", "NET_ALIVE",
                  "NET_GET_NODE", "STUN_LOOKUP", "STUN_RESPONSE"}]

ASSUME RustNodeAssumption ==
    /\ IsFiniteSet(Key)
    /\ hash_ssn \in [Key -> Byte]
    /\ MaxConns \in Nat \ {0}
    /\ Client \notin Node /\ Tracker \notin Node /\ Client # Tracker
    /\ NULL \notin Node \cup Conn \cup Value \cup PDU
    /\ Faults \subseteq {"udp_loss", "interrupt", "expiry"}

VARIABLES
    node,  \* struct Node of every process
    net    \* the kernel

(* The sources of events in the poll of q6. *)
Token == {"UDP", "SUCCESSOR", "PREDECESSOR"}

State == {"Q1", "Q2", "Q3", "Q4", "Q5", "Q6", "Q7", "Q8", "Q10", "Q11",
          "Q12", "Q13", "Q14", "Q15", "Q16", "Q17", "Q18"}

(***************************************************************************)
(* A process.  state is self.state; at says where in the function of that  *)
(* state it is: at its beginning ("run"), blocked in accept_predecessor or *)
(* await_pdu, or, in q6, before the read of an event or handling what was  *)
(* read (then state is already the one to run next).  queue is the         *)
(* incoming_queue of the three wrappers, events what q6 has still to look  *)
(* at, alive_due whether send_alive would send.                            *)
(***************************************************************************)
Memory == [process : {"off", "running", "ended", "panicked"}, state : State,
           at : {"run", "accept", "await", "read", "handle"},
           start : Byte, end : Byte, values : [Key -> Seq(Value)],
           last_pdu : PDU \cup {NULL},
           successor : Conn \cup {NULL}, successor_listen : Node \cup {NULL},
           predecessor : Conn \cup {NULL},
           queue : [Token -> Seq(PDU)], events : Seq(Token),
           should_close : BOOLEAN, alive_due : BOOLEAN]

Kernel == [fwd : [Conn -> Seq(PDU)], bwd : [Conn -> Seq(PDU)], backlog : [Node -> Seq(Conn)],
           udp : SUBSET [src : Node \cup {Client, Tracker}, dst : Node \cup {Client, Tracker}, pdu : PDU],
           rst : SUBSET Conn]

NoValues == [k \in Key |-> <<>>]

NoQueue == [t \in Token |-> <<>>]

(* Node::new, and what is left of a process that is not running. *)
new(process) ==
    [process |-> process, state |-> "Q1", at |-> "run", start |-> 0, end |-> 0,
     values |-> NoValues, last_pdu |-> NULL, successor |-> NULL, successor_listen |-> NULL,
     predecessor |-> NULL, queue |-> NoQueue, events |-> <<>>,
     should_close |-> FALSE, alive_due |-> TRUE]

QuietKernel == [fwd |-> [c \in Conn |-> <<>>], bwd |-> [c \in Conn |-> <<>>],
                backlog |-> [n \in Node |-> <<>>], udp |-> {}, rst |-> {}]

Running(n) == node[n].process = "running"

(***************************************************************************)
(* The kernel.  A connection runs from a node to its successor; fwd and    *)
(* bwd hold what was written and not yet read in each direction.           *)
(***************************************************************************)
ConnectorHolds(c) == node[c.from].successor = c

AcceptorHolds(nt, c) == node[c.to].predecessor = c \/ c \in Range(nt.backlog[c.to])

(* UdpWrapper.send; a datagram to a port nobody has open is lost. *)
SendUdp(nt, src, dst, pdu) ==
    IF dst \in {Client, Tracker} \/ Running(dst)
    THEN [nt EXCEPT !.udp = @ \cup {[src |-> src, dst |-> dst, pdu |-> pdu]}] ELSE nt

(* TcpWrapper.send.  What is written to a closed end is answered by a reset. *)
SendForward(nt, c, pdus) ==
    IF AcceptorHolds(nt, c) THEN [nt EXCEPT !.fwd[c] = @ \o pdus] ELSE [nt EXCEPT !.rst = @ \cup {c}]

SendBackward(nt, c, pdus) ==
    IF ConnectorHolds(c) THEN [nt EXCEPT !.bwd[c] = @ \o pdus] ELSE [nt EXCEPT !.rst = @ \cup {c}]

(* On a connection that was reset a read, a write and a shutdown fail, once
   the reset has arrived. *)
Fails(nt, c) == IF c \in nt.rst THEN BOOLEAN ELSE {FALSE}

(* An end that is closed with data unread resets the connection. *)
CloseConnector(nt, c) ==
    IF c = NULL THEN nt
    ELSE [nt EXCEPT !.bwd[c] = <<>>, !.rst = IF nt.bwd[c] = <<>> THEN @ ELSE @ \cup {c}]

CloseAcceptor(nt, c) ==
    IF c = NULL THEN nt
    ELSE [nt EXCEPT !.fwd[c] = <<>>, !.rst = IF nt.fwd[c] = <<>> THEN @ ELSE @ \cup {c}]

(* The end of a process closes everything it has open. *)
CloseAll(nt, n) ==
    LET unread == {c \in Conn : (c.to = n /\ nt.fwd[c] # <<>>) \/ (c.from = n /\ nt.bwd[c] # <<>>)}
    IN  [nt EXCEPT !.fwd = [c \in Conn |-> IF c.to = n THEN <<>> ELSE nt.fwd[c]],
                   !.bwd = [c \in Conn |-> IF c.from = n THEN <<>> ELSE nt.bwd[c]],
                   !.backlog[n] = <<>>,
                   !.udp = {d \in @ : d.dst # n},
                   !.rst = @ \cup unread \cup {c \in Conn : c \in Range(nt.backlog[n])}]

Unused(n, m) ==
    {c \in Conn : c.from = n /\ c.to = m /\ ~ConnectorHolds(c) /\ ~AcceptorHolds(net, c)}

NewConn(n, m) == CHOOSE c \in Unused(n, m) : TRUE

(* The kernel completes a connection without the acceptor's help. *)
Connect(nt, c) == [nt EXCEPT !.backlog[c.to] = Append(@, c), !.rst = @ \ {c}]

(***************************************************************************)
(* How a step ends.                                                        *)
(***************************************************************************)
(* q6 goes on to the next event when the queue of one is empty, and looks at
   should_close after the last. *)
Settle(s) ==
    IF s.at # "handle" \/ s.queue[Head(s.events)] # <<>> THEN s
    ELSE IF Len(s.events) > 1 THEN [s EXCEPT !.at = "read", !.events = Tail(@)]
    ELSE [s EXCEPT !.at = "run", !.events = <<>>,
                   !.state = IF s.should_close THEN "Q10" ELSE @]

Become(n, s, nt) ==
    /\ node' = [node EXCEPT ![n] = Settle(s)]
    /\ net' = [nt EXCEPT !.rst = {c \in @ : \/ node'[c.from].successor = c
                                           \/ node'[c.to].predecessor = c
                                           \/ c \in Range(nt.backlog[c.to])}]

Panic(n, nt) == Become(n, new("panicked"), CloseAll(nt, n))

Finish(n, nt) == Become(n, new("ended"), CloseAll(nt, n))

At(n, state, at) == Running(n) /\ node[n].state = state /\ node[n].at = at

Goto(s, state) == [s EXCEPT !.state = state, !.at = "run"]

(***************************************************************************)
(* Values.  Entry.hash_ssn is any function; values keeps the entries of a  *)
(* key in the order in which they were pushed.                             *)
(***************************************************************************)
in_my_range(s, k) == InRange(hash_ssn[k], s.start, s.end)

(* To a node without a successor, where the code panics with "Successor is
   not set, impossible!". *)
Forward(n, s, pdu, nt) ==
    IF s.successor = NULL THEN Panic(n, nt)
    ELSE \E failed \in Fails(nt, s.successor) :
            IF failed THEN Panic(n, nt)
            ELSE Become(n, s, SendForward(nt, s.successor, <<pdu>>))

(* Mutant of handle_val_insert: the range is not looked at. *)
Mutant_InsertsAlways(n, s, pdu, nt) ==
    Become(n, [s EXCEPT !.values[pdu.key] = Append(@, pdu.val)], nt)

handle_val_insert(n, s, pdu, nt) ==
    IF in_my_range(s, pdu.key)
    THEN Become(n, [s EXCEPT !.values[pdu.key] = Append(@, pdu.val)], nt)
    ELSE Forward(n, s, pdu, nt)

handle_val_remove(n, s, pdu, nt) ==
    IF in_my_range(s, pdu.key) THEN Become(n, [s EXCEPT !.values[pdu.key] = <<>>], nt)
    ELSE Forward(n, s, pdu, nt)

(* The first entry of the key, or an empty one. *)
Found(values) == IF values = <<>> THEN NULL ELSE Head(values)

(* Mutant of handle_val_lookup: no answer for a key that is not stored. *)
Mutant_SilentIfAbsent(n, s, pdu, nt) ==
    IF in_my_range(s, pdu.key)
    THEN Become(n, s, IF s.values[pdu.key] = <<>> THEN nt
                      ELSE SendUdp(nt, n, Client, [type |-> "VAL_LOOKUP_RESPONSE", val |-> Found(s.values[pdu.key])]))
    ELSE Forward(n, s, pdu, nt)

handle_val_lookup(n, s, pdu, nt) ==
    IF in_my_range(s, pdu.key)
    THEN Become(n, s, SendUdp(nt, n, Client, [type |-> "VAL_LOOKUP_RESPONSE", val |-> Found(s.values[pdu.key])]))
    ELSE Forward(n, s, pdu, nt)

(* q9 is called from handle_pdu, inside q6, and sets the state to Q6. *)
q9(n, s, pdu, nt) ==
    LET done == [s EXCEPT !.state = "Q6", !.last_pdu = NULL]
    IN  CASE pdu.type = "VAL_INSERT" -> handle_val_insert(n, done, pdu, nt)
          [] pdu.type = "VAL_REMOVE" -> handle_val_remove(n, done, pdu, nt)
          [] pdu.type = "VAL_LOOKUP" -> handle_val_lookup(n, done, pdu, nt)

(* split_range: what the node keeps, and where the rest begins. *)
Span(s) == u8(s.end - s.start)

Middle(s) == u8(Span(s) \div 2 + s.start)

(* Mutant of split_range: the node keeps its whole range. *)
Mutant_NoSplit(s) == s

split_range(s) == [s EXCEPT !.end = Middle(s)]

SplitStart(s) == u8(Middle(s) + 1)

(* transfer: the entries with these hashes, and what is left without them. *)
Between(s, first, last) == {k \in Key : s.values[k] # <<>> /\ InRange(hash_ssn[k], first, last)}

Entries(s, first, last) == UNION {{k} \X DOMAIN s.values[k] : k \in Between(s, first, last)}

InsertsOf(s, order) ==
    [i \in DOMAIN order |-> [type |-> "VAL_INSERT", key |-> order[i][1],
                             val |-> s.values[order[i][1]][order[i][2]]]]

(* Mutant of Transferred: the entries are taken out and not sent. *)
Mutant_NothingSent(s, first, last) == {<<>>}

(* Mutant of Transferred: the entries of a key are sent from the last one on. *)
Mutant_LastEntryFirst(s, first, last) ==
    {InsertsOf(s, order) : order \in
        {o \in SetToSeqs(Entries(s, first, last)) :
            \A i, j \in DOMAIN o : i < j /\ o[i][1] = o[j][1] => o[i][2] > o[j][2]}}

(* What may be sent: the entries of a key in their order; how those of several
   keys are mixed in the vector is not modelled. *)
Transferred(s, first, last) ==
    {InsertsOf(s, order) : order \in
        {o \in SetToSeqs(Entries(s, first, last)) :
            \A i, j \in DOMAIN o : i < j /\ o[i][1] = o[j][1] => o[i][2] < o[j][2]}}

(* Mutant of Retained: transfer does not take out what it sends. *)
Mutant_KeepsEntries(s, first, last) == s

Retained(s, first, last) ==
    [s EXCEPT !.values = [k \in Key |-> IF k \in Between(s, first, last) THEN <<>> ELSE s.values[k]]]

(***************************************************************************)
(* handle_pdu only notes what a PDU of the network asks for: the state to  *)
(* run when q6 is done, and last_pdu, of which there is one.               *)
(***************************************************************************)
Note(n, s, state, pdu, nt) == Become(n, [s EXCEPT !.state = state, !.last_pdu = pdu], nt)

handle_pdu(n, s, token, pdu, nt) ==
    CASE pdu.type = "NET_JOIN" -> Note(n, s, "Q12", pdu, nt)
      [] pdu.type = "NET_CLOSE_CONNECTION" ->
            IF token = "PREDECESSOR" THEN Note(n, s, "Q17", s.last_pdu, nt) ELSE Panic(n, nt)
      [] pdu.type = "NET_NEW_RANGE" -> Note(n, s, "Q15", pdu, nt)
      [] pdu.type = "NET_LEAVING" -> Note(n, s, "Q16", pdu, nt)
      [] pdu.type \in {"VAL_INSERT", "VAL_REMOVE", "VAL_LOOKUP"} -> q9(n, s, pdu, nt)
      [] OTHER -> Become(n, s, nt)

(***************************************************************************)
(* Reading.  What has arrived is some of the datagrams, in some order, or  *)
(* a prefix of a stream; try_read takes all of it into the queue.          *)
(***************************************************************************)
Datagrams(n) == {d \in net.udp : d.dst = n}

Batches(n) == UNION {SetToSeqs(D) : D \in (SUBSET Datagrams(n)) \ {{}}}

Stream(n, token) ==
    IF token = "SUCCESSOR" THEN net.bwd[node[n].successor] ELSE net.fwd[node[n].predecessor]

PeerClosed(n, token) ==
    IF token = "SUCCESSOR" THEN ~AcceptorHolds(net, node[n].successor)
    ELSE ~ConnectorHolds(node[n].predecessor)

Socket(n, token) == IF token = "SUCCESSOR" THEN node[n].successor ELSE node[n].predecessor

Ready(n) ==
    {t \in Token : IF t = "UDP" THEN Datagrams(n) # {}
                   ELSE Socket(n, t) # NULL /\ (Stream(n, t) # <<>> \/ PeerClosed(n, t))}

(* try_read: how much of a stream is there, and whether its end is. *)
try_read(n, token) ==
    LET length == Len(Stream(n, token))
    IN  {r \in [count : 0 .. length, closed : BOOLEAN] :
            /\ r.closed => r.count = length /\ PeerClosed(n, token)
            /\ r.count = 0 => r.closed}

(* The memory and the kernel after it. *)
Filled(n, token, r) ==
    [node[n] EXCEPT !.queue[token] = @ \o SubSeq(Stream(n, token), 1, r.count)]

Drained(n, token, r) ==
    LET rest == SubSeq(Stream(n, token), r.count + 1, Len(Stream(n, token)))
    IN  IF token = "SUCCESSOR" THEN [net EXCEPT !.bwd[Socket(n, token)] = rest]
        ELSE [net EXCEPT !.fwd[Socket(n, token)] = rest]

FilledUdp(n, batch) ==
    [node[n] EXCEPT !.queue["UDP"] = @ \o [i \in DOMAIN batch |-> batch[i].pdu]]

DrainedUdp(batch) == [net EXCEPT !.udp = @ \ Range(batch)]

Popped(s, token) == [s EXCEPT !.queue[token] = Tail(@)]

(***************************************************************************)
(* The two blocking reads: the first PDU of the queue once something was   *)
(* read, with the memory and the kernel after it; NULL if the read fails.  *)
(* What was read behind that PDU stays in the queue.                       *)
(***************************************************************************)
await_pdu_udp(n) ==
    {[pdu |-> Head(FilledUdp(n, batch).queue["UDP"]), memory |-> Popped(FilledUdp(n, batch), "UDP"),
      kernel |-> DrainedUdp(batch)] : batch \in Batches(n)}

await_pdu(n, token) ==
    {[pdu |-> Head(Filled(n, token, r).queue[token]), memory |-> Popped(Filled(n, token, r), token),
      kernel |-> Drained(n, token, r)] : r \in {x \in try_read(n, token) : Filled(n, token, x).queue[token] # <<>>}}
    \cup {[pdu |-> NULL, memory |-> node[n], kernel |-> net] : failed \in Fails(net, Socket(n, token)) \ {FALSE}}

(***************************************************************************)
(* Starting and joining.                                                   *)
(***************************************************************************)
q1(n) ==
    /\ At(n, "Q1", "run")
    /\ Become(n, [node[n] EXCEPT !.state = "Q2", !.at = "await"],
              SendUdp(net, n, Tracker, [type |-> "STUN_LOOKUP"]))

q2(n) ==
    /\ At(n, "Q2", "await")
    /\ \E a \in await_pdu_udp(n) :
          IF a.pdu.type # "STUN_RESPONSE" THEN Panic(n, a.kernel)
          ELSE Become(n, Goto(a.memory, "Q3"), a.kernel)

q3(n) ==
    \/ /\ At(n, "Q3", "run")
       /\ Become(n, [node[n] EXCEPT !.at = "await"], SendUdp(net, n, Tracker, [type |-> "NET_GET_NODE"]))
    \/ /\ At(n, "Q3", "await")
       /\ \E a \in await_pdu_udp(n) :
             IF a.pdu.type # "NET_GET_NODE_RESPONSE" THEN Panic(n, a.kernel)
             ELSE IF a.pdu.node = NULL THEN Become(n, Goto(a.memory, "Q4"), a.kernel)
             ELSE Become(n, [Goto(a.memory, "Q7") EXCEPT !.last_pdu = a.pdu], a.kernel)

(* Mutant of q4: the range ends behind the last hash. *)
Mutant_RangeTooLong(n) ==
    /\ At(n, "Q4", "run")
    /\ Become(n, [Goto(node[n], "Q6") EXCEPT !.start = 0, !.end = HASH_SIZE], net)

q4(n) ==
    /\ At(n, "Q4", "run")
    /\ Become(n, [Goto(node[n], "Q6") EXCEPT !.start = 0, !.end = HASH_SIZE - 1], net)

(* accept_predecessor, and the state after it.  A connection to an earlier
   predecessor is dropped. *)
accept_predecessor(n, state, next) ==
    /\ At(n, state, "accept") /\ net.backlog[n] # <<>>
    /\ Become(n, [node[n] EXCEPT !.predecessor = Head(net.backlog[n]), !.state = next,
                                 !.at = IF next = "Q8" THEN "await" ELSE "run"],
              [CloseAcceptor(net, node[n].predecessor) EXCEPT !.backlog[n] = Tail(@)])

q7(n) ==
    \/ /\ At(n, "Q7", "run")
       /\ Become(n, [node[n] EXCEPT !.last_pdu = NULL, !.at = "accept"],
                 SendUdp(net, n, node[n].last_pdu.node,
                         [type |-> "NET_JOIN", src |-> n, max_span |-> 0, max |-> NULL]))
    \/ accept_predecessor(n, "Q7", "Q8")

(* Mutant of ConnectedTo: the address of the successor is not noted. *)
Mutant_OldAddress(s, c) == [s EXCEPT !.successor = c]

(* connect_to_successor; it panics if the process at the address has ended. *)
ConnectedTo(s, c) == [s EXCEPT !.successor = c, !.successor_listen = c.to]

q8(n) ==
    /\ At(n, "Q8", "await")
    /\ \E a \in await_pdu(n, "PREDECESSOR") :
          IF a.pdu = NULL THEN Panic(n, a.kernel)
          ELSE IF a.pdu.type # "NET_JOIN_RESPONSE" THEN Panic(n, a.kernel)
          ELSE IF ~Running(a.pdu.next) THEN Panic(n, a.kernel)
          ELSE /\ Unused(n, a.pdu.next) # {}
               /\ LET c == NewConn(n, a.pdu.next)
                      s == [Goto(a.memory, "Q6") EXCEPT !.start = a.pdu.range_start, !.end = a.pdu.range_end]
                  IN  Become(n, ConnectedTo(s, c), Connect(a.kernel, c))

(***************************************************************************)
(* The loop of q6.  send_alive comes first in every round.  A signal, or   *)
(* 5 s without an event, end the poll; then only should_close is looked at.*)
(***************************************************************************)
send_alive(n) ==
    /\ At(n, "Q6", "run") /\ node[n].alive_due
    /\ Become(n, [node[n] EXCEPT !.alive_due = FALSE], SendUdp(net, n, Tracker, [type |-> "NET_ALIVE"]))

q6poll(n) ==
    /\ At(n, "Q6", "run") /\ ~node[n].alive_due
    /\ \/ \E ready \in (SUBSET Ready(n)) \ {{}} : \E events \in SetToSeqs(ready) :
             Become(n, [node[n] EXCEPT !.events = events, !.at = "read"], net)
       \/ node[n].should_close /\ Become(n, Goto(node[n], "Q10"), net)

(* Only the successor is removed when the end of the stream is read. *)
q6read(n) ==
    LET token == Head(node[n].events)
    IN  /\ Running(n) /\ node[n].at = "read"
        /\ IF token = "UDP"
           THEN \E batch \in IF Datagrams(n) = {} THEN {<<>>} ELSE Batches(n) :
                   Become(n, [FilledUdp(n, batch) EXCEPT !.at = "handle"], DrainedUdp(batch))
           ELSE \E r \in try_read(n, token), failed \in Fails(net, Socket(n, token)) :
                   LET s == [Filled(n, token, r) EXCEPT !.at = "handle"]
                       nt == Drained(n, token, r)
                   IN  IF failed THEN Panic(n, nt)
                       ELSE IF token = "SUCCESSOR" /\ r.closed
                       THEN Become(n, [s EXCEPT !.successor = NULL], nt)
                       ELSE Become(n, s, nt)

q6handle(n) ==
    LET token == Head(node[n].events)
    IN  /\ Running(n) /\ node[n].at = "handle"
        /\ handle_pdu(n, Popped(node[n], token), token, Head(node[n].queue[token]), net)

(***************************************************************************)
(* Joining nodes.  q5 and q13 make room: connect to the joining node, keep *)
(* the lower half and send the upper one.                                  *)
(***************************************************************************)
(* Mutant of q12: a node that is alone does not take a NET_JOIN itself. *)
Mutant_NeverFirst(n) ==
    /\ At(n, "Q12", "run")
    /\ Become(n, Goto(node[n], IF node[n].last_pdu.max = n THEN "Q13" ELSE "Q14"), net)

(* Mutant of q12: a NET_JOIN that comes back is sent round once more. *)
Mutant_NeverLargest(n) ==
    /\ At(n, "Q12", "run")
    /\ Become(n, Goto(node[n], IF node[n].successor = NULL THEN "Q5" ELSE "Q14"), net)

q12(n) ==
    LET s == node[n]
    IN  /\ At(n, "Q12", "run")
        /\ Become(n, Goto(s, IF s.successor = NULL THEN "Q5"
                             ELSE IF s.last_pdu.max = n THEN "Q13" ELSE "Q14"), net)

JoinResponse(s, next) ==
    [type |-> "NET_JOIN_RESPONSE", next |-> next, range_start |-> SplitStart(s), range_end |-> s.end]

MakeRoom(n, s, next, nt, state, at) ==
    LET src == node[n].last_pdu.src
        c == NewConn(n, src)
        kept == Retained(split_range(s), SplitStart(s), s.end)
    IN  IF ~Running(src) THEN Panic(n, nt)
        ELSE /\ Unused(n, src) # {}
             /\ \E sent \in Transferred(s, SplitStart(s), s.end) :
                   Become(n, [ConnectedTo(kept, c) EXCEPT !.last_pdu = NULL, !.state = state, !.at = at],
                          SendForward(Connect(nt, c), c, <<JoinResponse(s, next)>> \o sent))

q5(n) ==
    \/ At(n, "Q5", "run") /\ MakeRoom(n, node[n], n, net, "Q5", "accept")
    \/ accept_predecessor(n, "Q5", "Q6")

(* The old connection is shut down and dropped after NET_CLOSE_CONNECTION. *)
q13(n) ==
    LET old == node[n].successor
        closing == SendForward(net, old, <<[type |-> "NET_CLOSE_CONNECTION"]>>)
    IN  /\ At(n, "Q13", "run")
        /\ \E failed \in Fails(closing, old) :
              IF failed THEN Panic(n, net)
              ELSE MakeRoom(n, node[n], old.to, CloseConnector(closing, old), "Q6", "run")

q14(n) ==
    LET s == node[n]
        pdu == s.last_pdu
        sent == IF Span(s) > pdu.max_span THEN [pdu EXCEPT !.max_span = Span(s), !.max = n] ELSE pdu
    IN  /\ At(n, "Q14", "run")
        /\ Forward(n, [Goto(s, "Q6") EXCEPT !.last_pdu = NULL], sent, net)

(***************************************************************************)
(* Leaving neighbours.                                                     *)
(***************************************************************************)
(* Mutant of NewRangeResponse: the range is taken over without an answer. *)
Mutant_NoAnswer == <<>>

(* Nothing but the identifier: it is sent to whom the range was taken from. *)
NewRangeResponse == <<[type |-> "NET_NEW_RANGE_RESPONSE"]>>

q15(n) ==
    LET s == [Goto(node[n], "Q6") EXCEPT !.last_pdu = NULL]
        pdu == node[n].last_pdu
        upwards == s.end # HASH_SIZE - 1 /\ pdu.range_start = s.end + 1
        c == IF upwards THEN s.successor ELSE s.predecessor
    IN  /\ At(n, "Q15", "run")
        /\ IF c = NULL THEN Panic(n, net)
           ELSE \E failed \in Fails(net, c) :
                   IF failed THEN Panic(n, net)
                   ELSE IF upwards
                   THEN Become(n, [s EXCEPT !.end = pdu.range_end], SendForward(net, c, NewRangeResponse))
                   ELSE Become(n, [s EXCEPT !.start = pdu.range_start], SendBackward(net, c, NewRangeResponse))

q16(n) ==
    LET s == [Goto(node[n], "Q6") EXCEPT !.last_pdu = NULL, !.successor = NULL]
        new_addr == node[n].last_pdu.new
        closed == CloseConnector(net, node[n].successor)
        c == NewConn(n, new_addr)
    IN  /\ At(n, "Q16", "run")
        /\ IF new_addr = n
           THEN Become(n, [s EXCEPT !.predecessor = NULL], CloseAcceptor(closed, s.predecessor))
           ELSE IF ~Running(new_addr) THEN Panic(n, closed)
           ELSE Unused(n, new_addr) # {} /\ Become(n, ConnectedTo(s, c), Connect(closed, c))

(* Mutant of q17: the node waits for a predecessor even if it has the whole
   range. *)
Mutant_AlwaysAccepts(n) ==
    \/ /\ At(n, "Q17", "run")
       /\ Become(n, [node[n] EXCEPT !.predecessor = NULL, !.at = "accept"],
                 CloseAcceptor(net, node[n].predecessor))
    \/ accept_predecessor(n, "Q17", "Q6")

q17(n) ==
    LET s == [node[n] EXCEPT !.predecessor = NULL]
        old == node[n].predecessor
    IN  \/ /\ At(n, "Q17", "run")
           /\ \E failed \in IF old = NULL THEN {FALSE} ELSE Fails(net, old) :
                 IF failed THEN Panic(n, net)
                 ELSE Become(n, IF s.start = 0 /\ s.end = HASH_SIZE - 1 THEN Goto(s, "Q6")
                                ELSE [s EXCEPT !.at = "accept"], CloseAcceptor(net, old))
        \/ accept_predecessor(n, "Q17", "Q6")

(***************************************************************************)
(* Leaving.                                                                *)
(***************************************************************************)
ToSuccessor(s) == s.start = 0

Neighbour(s) == IF ToSuccessor(s) THEN "SUCCESSOR" ELSE "PREDECESSOR"

SendTo(nt, token, c, pdus) ==
    IF token = "SUCCESSOR" THEN SendForward(nt, c, pdus) ELSE SendBackward(nt, c, pdus)

(* Mutant of q10: a node that is alone looks for an heir. *)
Mutant_NeverAlone(n) == At(n, "Q10", "run") /\ Become(n, Goto(node[n], "Q11"), net)

q10(n) ==
    /\ At(n, "Q10", "run")
    /\ IF node[n].successor = NULL THEN Finish(n, net) ELSE Become(n, Goto(node[n], "Q11"), net)

q11(n) ==
    LET s == node[n]
        token == Neighbour(s)
        c == Socket(n, token)
    IN  \/ /\ At(n, "Q11", "run")
           /\ IF s.predecessor = NULL THEN Panic(n, net)
              ELSE \E failed \in Fails(net, c) :
                      IF failed THEN Panic(n, net)
                      ELSE Become(n, [s EXCEPT !.at = "await"],
                                  SendTo(net, token, c, <<[type |-> "NET_NEW_RANGE",
                                                           range_start |-> s.start, range_end |-> s.end]>>))
        \/ /\ At(n, "Q11", "await")
           /\ \E a \in await_pdu(n, token) :
                 IF a.pdu = NULL THEN Panic(n, a.kernel)
                 ELSE IF a.pdu.type # "NET_NEW_RANGE_RESPONSE" THEN Panic(n, a.kernel)
                 ELSE Become(n, Goto(a.memory, "Q18"), a.kernel)

q18(n) ==
    LET s == node[n]
        moved(sent) == SendTo(net, Neighbour(s), Socket(n, Neighbour(s)), sent)
        closing(sent) == SendForward(moved(sent), s.successor, <<[type |-> "NET_CLOSE_CONNECTION"]>>)
        leaving(sent) == SendBackward(closing(sent), s.predecessor,
                                      <<[type |-> "NET_LEAVING", new |-> s.successor_listen]>>)
    IN  /\ At(n, "Q18", "run")
        /\ \E sent \in Transferred(s, s.start, s.end) :
           \E lost \in Fails(closing(sent), s.successor), cut \in Fails(leaving(sent), s.predecessor) :
              IF lost THEN Panic(n, moved(sent))
              ELSE IF cut THEN Panic(n, closing(sent))
              ELSE Finish(n, leaving(sent))

(* poll(..).unwrap() in await_pdu and await_pdu_udp: a signal ends the poll
   with an error. *)
Interrupted(n) ==
    /\ "interrupt" \in Faults /\ Running(n) /\ node[n].at = "await"
    /\ Panic(n, net)

(* run: one iteration of the loop, up to where it blocks. *)
run(n) ==
    \/ q1(n) \/ q2(n) \/ q3(n) \/ q4(n) \/ q5(n) \/ q7(n) \/ q8(n)
    \/ send_alive(n) \/ q6poll(n) \/ q6read(n) \/ q6handle(n)
    \/ q10(n) \/ q11(n) \/ q12(n) \/ q13(n) \/ q14(n) \/ q15(n) \/ q16(n) \/ q17(n) \/ q18(n)
=============================================================================
