------------------------------- MODULE RustRing -------------------------------
(***************************************************************************)
(* Rust nodes, the tracker that introduces them (tracker.rs) and a client  *)
(* (client.rs).                                                            *)
(***************************************************************************)
EXTENDS RustNode

CONSTANTS
    Leavers,  \* the nodes that may get SIGINT
    Overlap,  \* what may happen while the network is not quiet
    MaxOps    \* bound: requests of the client

ASSUME RustRingAssumption ==
    /\ Leavers \subseteq Node
    /\ Overlap \subseteq {"first", "join", "leave", "pair", "value"}
    /\ MaxOps \in Nat

VARIABLES
    nodes,    \* the tracker's table
    request,  \* the client's last request
    answer,   \* the value in the last VAL_LOOKUP_RESPONSE it got
    ops       \* how many requests the client has made

vars == <<node, net, nodes, request, answer, ops>>

Request == {pdu \in PDU : pdu.type \in {"VAL_INSERT", "VAL_REMOVE", "VAL_LOOKUP"}}

Init ==
    /\ node = [n \in Node |-> new("off")]
    /\ net = QuietKernel
    /\ nodes = {} /\ request = NULL /\ answer = NULL /\ ops = 0

(* Nothing is under way: every node waits in the poll of q6, nothing is in
   flight or in a wrapper's queue, and the tracker knows exactly the nodes. *)
Members == {n \in Node : At(n, "Q6", "run")}

Idle(n) ==
    /\ Ready(n) = {} /\ node[n].queue = NoQueue
    /\ ~node[n].alive_due /\ ~node[n].should_close

Quiet ==
    /\ \A n \in Node : Running(n) => n \in Members /\ Idle(n)
    /\ net = QuietKernel
    /\ nodes = Members

Admitted(kind) == Quiet \/ kind \in Overlap

(***************************************************************************)
(* The environment.                                                        *)
(***************************************************************************)
StartNode(n) ==
    /\ node[n].process = "off" /\ Admitted(IF nodes = {} THEN "first" ELSE "join")
    /\ Become(n, new("running"), net)
    /\ UNCHANGED <<nodes, request, answer, ops>>

(* Of a pair of nodes, the one whose range begins at 0 hands its entries over
   on one connection and announces that it leaves on the other. *)
SplitHandover(n) == node[n].start = 0 /\ Cardinality(Members) = 2

(* SIGINT: the handler of ctrlc sets should_close, whatever the node does. *)
CtrlC(n) ==
    /\ n \in Leavers /\ Running(n) /\ ~node[n].should_close /\ Admitted("leave")
    /\ SplitHandover(n) => "pair" \in Overlap
    /\ Become(n, [node[n] EXCEPT !.should_close = TRUE], net)
    /\ UNCHANGED <<nodes, request, answer, ops>>

LoseDatagram ==
    /\ "udp_loss" \in Faults
    /\ \E d \in net.udp : net' = [net EXCEPT !.udp = @ \ {d}]
    /\ UNCHANGED <<node, nodes, request, answer, ops>>

NodeFault(n) == Interrupted(n) /\ UNCHANGED <<nodes, request, answer, ops>>

RunNode(n) == run(n) /\ UNCHANGED <<nodes, request, answer, ops>>

(***************************************************************************)
(* The tracker handles one datagram after the other.                       *)
(***************************************************************************)
StunLookup(d) ==
    /\ d.pdu.type = "STUN_LOOKUP"
    /\ net' = [SendUdp(net, Tracker, d.src, [type |-> "STUN_RESPONSE"]) EXCEPT !.udp = @ \ {d}]
    /\ UNCHANGED nodes

NetAlive(d) ==
    /\ d.pdu.type = "NET_ALIVE"
    /\ nodes' = nodes \cup {d.src}
    /\ net' = [net EXCEPT !.udp = @ \ {d}]

(* Any node of the table, or the zero address. *)
NetGetNode(d) ==
    /\ d.pdu.type = "NET_GET_NODE"
    /\ \E m \in IF nodes = {} THEN {NULL} ELSE nodes :
          net' = [SendUdp(net, Tracker, d.src, [type |-> "NET_GET_NODE_RESPONSE", node |-> m])
                    EXCEPT !.udp = @ \ {d}]
    /\ UNCHANGED nodes

RunTracker ==
    /\ \E d \in net.udp : d.dst = Tracker /\ (StunLookup(d) \/ NetAlive(d) \/ NetGetNode(d))
    /\ UNCHANGED <<node, request, answer, ops>>

(* nodes.retain: 30 s without NET_ALIVE, of a node that has ended or hangs
   outside q6. *)
NodeTimeout(n) ==
    /\ n \in nodes
    /\ ~Running(n) \/ ("expiry" \in Faults /\ node[n].at \in {"accept", "await"})
    /\ nodes' = nodes \ {n}
    /\ UNCHANGED <<node, net, request, answer, ops>>

(* More than 10 s since the last NET_ALIVE.  It matters only if that one was
   lost or the tracker has dropped the node; another one changes nothing. *)
AliveDue(n) ==
    /\ Running(n) /\ ~node[n].alive_due /\ n \notin nodes
    /\ \A d \in net.udp : d.src = n => d.pdu.type # "NET_ALIVE"
    /\ Become(n, [node[n] EXCEPT !.alive_due = TRUE], net)
    /\ UNCHANGED <<nodes, request, answer, ops>>

(***************************************************************************)
(* The client: sends a request to a node the tracker knows.  Only a lookup *)
(* waits for an answer.                                                    *)
(***************************************************************************)
WaitsForLookup == request # NULL /\ request.type = "VAL_LOOKUP"

(* The node the tracker names, if there is one. *)
get_node == nodes

ClientSend(pdu) ==
    /\ ops < MaxOps /\ ~WaitsForLookup /\ Admitted("value")
    /\ \E n \in get_node : net' = SendUdp(net, Client, n, pdu)
    /\ request' = pdu /\ ops' = ops + 1
    /\ UNCHANGED <<node, nodes, answer>>

ClientInsert == \E k \in Key, v \in Value : ClientSend([type |-> "VAL_INSERT", key |-> k, val |-> v])

ClientRemove == \E k \in Key : ClientSend([type |-> "VAL_REMOVE", key |-> k])

ClientLookup == \E k \in Key : ClientSend([type |-> "VAL_LOOKUP", key |-> k])

(* poll_response *)
ClientReceive ==
    \E d \in net.udp :
        /\ d.dst = Client /\ WaitsForLookup
        /\ net' = [net EXCEPT !.udp = @ \ {d}]
        /\ request' = NULL /\ answer' = d.pdu.val
        /\ UNCHANGED <<node, nodes, ops>>

Next ==
    \/ \E n \in Node : \/ StartNode(n) \/ CtrlC(n) \/ RunNode(n) \/ NodeFault(n)
                       \/ NodeTimeout(n) \/ AliveDue(n)
    \/ LoseDatagram \/ RunTracker
    \/ ClientInsert \/ ClientRemove \/ ClientLookup \/ ClientReceive

Spec == Init /\ [][Next]_vars

(* A process that can take a step takes it, the tracker answers what it gets
   and an answer reaches the client. *)
Fairness ==
    /\ \A n \in Node : WF_vars(RunNode(n)) /\ WF_vars(AliveDue(n))
    /\ WF_vars(RunTracker) /\ WF_vars(ClientReceive)

FairSpec == Spec /\ Fairness

(***************************************************************************)
(* Properties.                                                             *)
(***************************************************************************)

(* Every variable has its type. *)
TypeOK ==
    /\ node \in [Node -> Memory]
    /\ net \in Kernel
    /\ nodes \subseteq Node
    /\ request \in Request \cup {NULL}
    /\ answer \in Value \cup {NULL}
    /\ ops \in 0 .. MaxOps

(* The entries a node holds hash into its range, so that in_my_range sends
   every later request for them to the node they are in.  The insert, the
   split for a joining node and the range taken over in q15 have to keep
   this. *)
StoredInRange ==
    \A n \in Node, k \in Key :
        node[n].values[k] # <<>> => InRange(hash_ssn[k], node[n].start, node[n].end)

(* The holders of a range: nodes that have one and have not offered it, and
   the PDUs that offer one, in a stream, in a wrapper's queue or noted for
   q15. *)
Serving ==
    {n \in Node : /\ Running(n)
                  /\ node[n].state \notin {"Q1", "Q2", "Q3", "Q4", "Q7", "Q8", "Q18"}
                  /\ ~At(n, "Q11", "await")}

Owners(h) == {n \in Serving : InRange(h, node[n].start, node[n].end)}

Gives(pdu, h) ==
    /\ pdu.type \in {"NET_JOIN_RESPONSE", "NET_NEW_RANGE"}
    /\ InRange(h, pdu.range_start, pdu.range_end)

Offers(queues, h) ==
    UNION {{<<x, i>> : i \in {j \in DOMAIN queues[x] : Gives(queues[x][j], h)}} : x \in DOMAIN queues}

Inbox == [x \in Node \X Token |-> node[x[1]].queue[x[2]]]

Takers(h) == {n \in Node : node[n].state = "Q15" /\ Gives(node[n].last_pdu, h)}

(* Every hash belongs to exactly one holder at every moment of a join or an
   undisturbed leave: q5 and q13 split the range before anybody else can, and
   q15 takes over exactly the range that q11 gives up. *)
RangesPartition ==
    Serving # {} =>
        \A h \in Byte :
            Cardinality(Owners(h)) + Cardinality(Offers(net.fwd, h)) + Cardinality(Offers(net.bwd, h))
                + Cardinality(Offers(Inbox, h)) + Cardinality(Takers(h)) = 1

(* Once a join or a leave has been handled everywhere, the members form one
   ring in the order of their ranges, and every node's successor_listen, which
   NET_LEAVING will name, is the address of its successor. *)
QuietRing ==
    Quiet =>
        \A n \in Members :
            LET s == node[n]
            IN  IF Members = {n} THEN s.successor = NULL /\ s.predecessor = NULL
                ELSE /\ s.successor # NULL
                     /\ LET m == s.successor.to
                        IN  /\ m \in Members /\ m = s.successor_listen
                            /\ node[m].predecessor = s.successor
                            /\ node[m].start = u8(s.end + 1)

(* No process panics. *)
NoPanic == \A n \in Node : node[n].process # "panicked"

(* A key is safe while a table, a queue or a stream holds it. *)
Streams == {net.fwd[c] : c \in Conn} \cup {net.bwd[c] : c \in Conn}

Queues == {node[n].queue[t] : n \in Node, t \in Token}

Carries(q, type, k) == \E pdu \in Range(q) : pdu.type = type /\ pdu.key = k

Held(k) == \E n \in Node : node[n].values[k] # <<>>

Moving(k) == \E q \in Streams \cup Queues : Carries(q, "VAL_INSERT", k)

RemoveAsked(k) ==
    \/ \E q \in Streams \cup Queues : Carries(q, "VAL_REMOVE", k)
    \/ \E d \in net.udp : d.pdu.type = "VAL_REMOVE" /\ d.pdu.key = k

(* README: the network "ensures no data loss as nodes join or leave".  While
   nodes remain, no step makes a key disappear that nobody asked to remove. *)
KeepsData ==
    \A k \in Key : (Held(k) \/ Moving(k)) /\ ~RemoveAsked(k) /\ Serving' # {}
                        => (Held(k) \/ Moving(k))'

NoDataLoss == [][KeepsData]_vars

(* The values of a key: those in a table, then those on their way to it, read
   or not. *)
ValuesIn(q, k) ==
    LET inserts == SelectSeq(q, LAMBDA pdu : pdu.type = "VAL_INSERT" /\ pdu.key = k)
    IN  [i \in DOMAIN inserts |-> inserts[i].val]

Joined(S, Part(_)) ==
    FoldLeft(LAMBDA all, x : all \o Part(x), <<>>, SetToSeq({x \in S : Part(x) # <<>>}))

Copies(k) ==
    Joined(Node, LAMBDA n : node[n].values[k])
    \o Joined(Node \X Token, LAMBDA x : ValuesIn(node[x[1]].queue[x[2]], k))
    \o Joined(Conn, LAMBDA c : ValuesIn(net.fwd[c], k) \o ValuesIn(net.bwd[c], k))

(* However leaves, crashes and requests overlap, an entry is never in two places:
   transfer takes out of the table what it sends, and a request that is forwarded
   is not kept.  handle_val_insert pushes without a look at what is there, so a
   copy would stay for good and come back after the key's next hand-over. *)
NoDuplicate == \A k \in Key : Len(Copies(k)) <= ops

(* An insert is pending until a node reads it, a removal until it is carried
   out, a lookup until the client has the answer. *)
Pending ==
    IF \/ request = NULL
       \/ /\ request.type = "VAL_INSERT" /\ \A d \in net.udp : d.pdu # request
       \/ /\ request.type = "VAL_REMOVE" /\ \A d \in net.udp : d.pdu # request
          /\ \A q \in Streams \cup Queues : request \notin Range(q)
    THEN NULL ELSE request

Store == INSTANCE DHTStore WITH store <- [k \in Key |-> Copies(k)], pending <- Pending, up <- Serving # {}

(* The network implements the store: through every join and every leave the
   values of a key keep their order, each request takes effect once, and a
   lookup answers with the first value, or with none if there is none. *)
ImplementsStore == Store!StoreSpec

(* Every node that starts gets into the network.  (A node starts once, so that
   the last one to join is followed by no other.) *)
Joining == {n \in Node : Running(n) /\ node[n].state \in {"Q1", "Q2", "Q3", "Q4", "Q7", "Q8"}}

JoinCompletes == Joining # {} ~> Joining = {}

(* No node waits for a predecessor that never comes: whoever blocks in accept,
   in q5, q7 or q17, is connected to by another node's q5, q8, q13 or q16. *)
Accepting == {n \in Node : Running(n) /\ node[n].at = "accept"}

AcceptCompletes == Accepting # {} ~> Accepting = {}

(* Every node that was told to stop ends, after it has found somebody to take
   its range. *)
Leaving == {n \in Node : Running(n) /\ node[n].should_close}

LeaveCompletes == Leaving # {} ~> Leaving = {}

(* Every lookup is answered, also if the key is not stored. *)
EveryLookupAnswered == WaitsForLookup ~> ~WaitsForLookup

(* q13 (node.rs:534) "Transfer all between mins and maxs": an entry that is
   handed over arrives in a table. *)
HandoverArrives == \A k \in Key : Moving(k) ~> Held(k)
=============================================================================
