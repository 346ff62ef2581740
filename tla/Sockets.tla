------------------------------- MODULE Sockets -------------------------------
(***************************************************************************)
(* The memory of the C node processes (struct self_data) and the kernel    *)
(* they talk through: TCP streams, listen queues and UDP datagrams, with   *)
(* the operations of sockets.c on them.                                    *)
(*                                                                         *)
(* A connection runs from a node (its predecessor end, the connector) to   *)
(* its successor (the acceptor).  fwd carries what the connector wrote,    *)
(* bwd what the acceptor wrote.  A queue holds the PDUs that were written  *)
(* and not yet received, wherever in the network they are, so a reader may *)
(* be arbitrarily late; a queue nobody will read any more is empty.        *)
(***************************************************************************)
EXTENDS HashRange, Sequences, FiniteSets, SequencesExt

CONSTANTS
    Node,      \* processes; a restarted one has new ports and is a new node
    Client,    \* the UDP address of the client
    Key,       \* SSNs
    Value,     \* name and email of a person
    hash_ssn,  \* the hash of every key
    NULL,      \* no node, no connection (fd -1), no value
    MaxConns,  \* bound: connections open at a time from one node to another
    Faults     \* misbehaviour of the environment that is admitted

PC == {"off", "q3", "q7", "q6", "accept", "q11", "q18", "q18accept", "exit0", "exit1"}

Conn == {c \in [from : Node, to : Node, id : 1 .. MaxConns] : c.from # c.to}

PDU == [type : {"VAL_INSERT"}, key : Key, val : Value]
    \cup [type : {"VAL_REMOVE", "VAL_LOOKUP"}, key : Key]
    \cup [type : {"VAL_LOOKUP_RESPONSE"}, key : Key, val : Value]
    \cup [type : {"NET_GET_NODE_RESPONSE"}, node : Node \cup {NULL}]
    \cup [type : {"NET_JOIN"}, src : Node, max_span : Byte, max : Node \cup {NULL}]
    \cup [type : {"NET_JOIN_RESPONSE"}, next : Node \cup {NULL}, range_start : Byte, range_end : Byte]
    \cup [type : {"NET_NEW_RANGE"}, range_start : Byte, range_end : Byte]
    \cup [type : {"NET_LEAVING"}, new : Node \cup {NULL}]
    \cup [type : {"NET_NEW_RANGE_RESPONSE", "NET_CLOSE_CONNECTION"}]

ASSUME SocketsAssumption ==
    /\ IsFiniteSet(Key)
    /\ hash_ssn \in [Key -> Byte]
    /\ MaxConns \in Nat \ {0}
    /\ Client \notin Node
    /\ NULL \notin Node \cup Conn \cup Value \cup PDU
    /\ Faults \subseteq {"timeout", "interrupt", "udp_loss", "slow_connect", "reset", "expiry"}

VARIABLES
    self_data, \* node -> its process
    net        \* the kernel

(***************************************************************************)
(* A process: pc is the state it is blocked in (the names are those of     *)
(* print_state), pollPos the descriptor its last poll has come to (used in *)
(* q18), *_socket whether connection_point.socket is non-zero, *_fd the    *)
(* open connection in fds[] (NULL once it is closed), succ_addr            *)
(* successor.dest_addr and leaving_new the address prepared in leaving_pdu.*)
(***************************************************************************)
SelfData == [pc : PC, pollPos : 0 .. 3, range_start : Byte, range_end : Byte,
             hash_table : [Key -> Value \cup {NULL}],
             succ_socket : BOOLEAN, succ_fd : Conn \cup {NULL}, succ_addr : Node \cup {NULL},
             pred_socket : BOOLEAN, pred_fd : Conn \cup {NULL}, leaving_new : Node \cup {NULL}]

Net == [fwd : [Conn -> Seq(PDU)], bwd : [Conn -> Seq(PDU)], backlog : [Node -> Seq(Conn)],
        udp : SUBSET [dst : Node \cup {Client}, pdu : PDU]]

EmptyTable == [k \in Key |-> NULL]

(* A process before main (malloc and setup_data) and after its end: nothing
   of its memory matters. *)
Blank(pc) == [pc |-> pc, pollPos |-> 0, range_start |-> 0, range_end |-> 0,
              hash_table |-> EmptyTable,
              succ_socket |-> FALSE, succ_fd |-> NULL, succ_addr |-> NULL,
              pred_socket |-> FALSE, pred_fd |-> NULL, leaving_new |-> NULL]

QuietNet == [fwd |-> [c \in Conn |-> <<>>], bwd |-> [c \in Conn |-> <<>>],
             backlog |-> [n \in Node |-> <<>>], udp |-> {}]

(* The listening socket exists from setup_data to the end of the process. *)
Running(n) == self_data[n].pc \notin {"off", "exit0", "exit1"}

(***************************************************************************)
(* Operations on the kernel.  Each maps a kernel state nt to the next one. *)
(***************************************************************************)

(* Datagrams are unordered; one sent to a port nobody has open is lost. *)
SendUdp(nt, dst, pdu) ==
    IF dst = Client \/ Running(dst) THEN [nt EXCEPT !.udp = @ \cup {[dst |-> dst, pdu |-> pdu]}] ELSE nt

(* What is written to a connection whose other end is closed is discarded.  *)
AcceptorHolds(nt, c) == self_data[c.to].pred_fd = c \/ c \in Range(nt.backlog[c.to])

ConnectorHolds(c) == self_data[c.from].succ_fd = c

SendForward(nt, c, pdus) ==
    IF c # NULL /\ AcceptorHolds(nt, c) THEN [nt EXCEPT !.fwd[c] = @ \o pdus] ELSE nt

SendBackward(nt, c, pdus) ==
    IF c # NULL /\ ConnectorHolds(c) THEN [nt EXCEPT !.bwd[c] = @ \o pdus] ELSE nt

(* close() of the socket to the predecessor; close() or loss of the one to
   the successor (a joining node's new connection replaces it). *)
CloseAcceptor(nt, c) == IF c # NULL THEN [nt EXCEPT !.fwd[c] = <<>>] ELSE nt

CloseConnector(nt, c) == IF c # NULL THEN [nt EXCEPT !.bwd[c] = <<>>] ELSE nt

(* The end of a process closes everything it had open. *)
CloseAll(nt, n) ==
    [nt EXCEPT !.fwd = [c \in Conn |-> IF c.to = n THEN <<>> ELSE nt.fwd[c]],
               !.bwd = [c \in Conn |-> IF c.from = n THEN <<>> ELSE nt.bwd[c]],
               !.backlog[n] = <<>>,
               !.udp = {d \in @ : d.dst # n}]

(* The connections from n to m of which no end is in use. *)
Unused(n, m) ==
    {c \in Conn : /\ c.from = n /\ c.to = m
                  /\ ~ConnectorHolds(c) /\ ~AcceptorHolds(net, c)}

NewConn(n, m) == CHOOSE c \in Unused(n, m) : TRUE

(* The kernel completes a connection without the acceptor's help. *)
Connect(nt, c) == [nt EXCEPT !.backlog[c.to] = Append(@, c)]

(* connect_to_tcp waits for the new socket to become writable by polling all
   four descriptors, and fails if another one is ready first, as it can be
   when the connection is not completed at once: that of the predecessor also
   at the end of its stream, or when it stayed among the descriptors after it
   was closed for a reset (c_node.c:311). *)
OtherReady(nt, n, pred) ==
    \/ \E d \in nt.udp : d.dst = n
    \/ nt.backlog[n] # <<>>
    \/ pred # NULL /\ (nt.fwd[pred] # <<>> \/ ~Running(pred.from))
    \/ "reset" \in Faults /\ pred = NULL

(* n connects to m, while pred is its connection from the predecessor. *)
ConnectSucceeds(nt, n, pred, m) ==
    IF m = NULL \/ ~Running(m) THEN {FALSE}
    ELSE IF "slow_connect" \in Faults /\ OtherReady(nt, n, pred) THEN BOOLEAN
    ELSE {TRUE}

(* recv on an empty stream returns 0 or -1 once the peer has ended. *)
AcceptorAtEnd(c) == net.fwd[c] = <<>> /\ ~Running(c.from)

ConnectorAtEnd(c) == net.bwd[c] = <<>> /\ ~Running(c.to)
=============================================================================
