------------------------------- MODULE DHTRing -------------------------------
(***************************************************************************)
(* The whole system: C nodes, the tracker that introduces them (tracker.rs)*)
(* and a client (client.rs).                                               *)
(***************************************************************************)
EXTENDS CNode

CONSTANTS
    Leavers,  \* the nodes that may get SIGINT or SIGTERM
    Overlap,  \* what may happen while the network is not quiet
    MaxOps    \* bound: requests of the client

ASSUME RingAssumption ==
    /\ Leavers \subseteq Node
    /\ Overlap \subseteq {"first", "join", "leave", "value"}
    /\ MaxOps \in Nat

VARIABLES
    nodes,   \* the tracker's table
    request, \* the client's last request
    ops      \* how many requests the client has made

vars == <<self_data, net, nodes, request, ops>>

Request == {pdu \in PDU : pdu.type \in {"VAL_INSERT", "VAL_REMOVE", "VAL_LOOKUP"}}

Init ==
    /\ self_data = [n \in Node |-> Blank("off")]
    /\ net = QuietNet
    /\ nodes = {} /\ request = NULL /\ ops = 0

(* Nothing is under way: every node waits in the loop of q6, and the tracker
   knows exactly these nodes. *)
Members == {n \in Node : self_data[n].pc = "q6"}

Quiet ==
    /\ \A n \in Node : self_data[n].pc \in {"off", "q6", "exit0", "exit1"}
    /\ net = QuietNet
    /\ nodes = Members

Admitted(kind) == Quiet \/ kind \in Overlap

(***************************************************************************)
(* The environment: who starts a node and who stops one.                   *)
(***************************************************************************)
StartNode(n) ==
    /\ Admitted(IF nodes = {} THEN "first" ELSE "join")
    /\ Start(n)
    /\ UNCHANGED <<nodes, request, ops>>

(* SIGINT or SIGTERM in the loop of q6.  Outside a poll the signal only sets
   shutdown_requested, which is the same as its arrival at the next poll of
   q6; in another poll it is the fault Interrupted. *)
set_shutdown(n) ==
    /\ n \in Leavers /\ Admitted("leave")
    /\ shutdown_proceedure(n)
    /\ UNCHANGED <<nodes, request, ops>>

LoseDatagram ==
    /\ "udp_loss" \in Faults
    /\ \E d \in net.udp : net' = [net EXCEPT !.udp = @ \ {d}]
    /\ UNCHANGED <<self_data, nodes, request, ops>>

NodeFault(n) ==
    /\ Timeout(n) \/ Interrupted(n) \/ SuccessorReset(n) \/ PredecessorReset(n)
    /\ UNCHANGED <<nodes, request, ops>>

RunNode(n) == NodeStep(n) /\ UNCHANGED <<nodes, request, ops>>

(***************************************************************************)
(* The tracker.                                                            *)
(***************************************************************************)

(* NET_ALIVE is sent in every round of q6; it may arrive while the node is
   already blocked elsewhere. *)
NetAlive(n) ==
    /\ self_data[n].pc \in {"q6", "accept", "q11", "q18", "q18accept"} /\ n \notin nodes
    /\ nodes' = nodes \cup {n}
    /\ UNCHANGED <<self_data, net, request, ops>>

(* A node is forgotten after 30 s without NET_ALIVE: when it has ended, or if
   it hangs in accept for that long. *)
NodeTimeout(n) ==
    /\ n \in nodes
    /\ \/ self_data[n].pc \in {"exit0", "exit1"}
       \/ "expiry" \in Faults /\ self_data[n].pc \in {"accept", "q18accept"}
    /\ nodes' = nodes \ {n}
    /\ UNCHANGED <<self_data, net, request, ops>>

(* The answer is any node of the table, or the zero address. *)
NetGetNode(n) ==
    /\ self_data[n].pc = "q3" /\ \A d \in net.udp : d.dst # n
    /\ \E m \in IF nodes = {} THEN {NULL} ELSE nodes :
          net' = SendUdp(net, n, [type |-> "NET_GET_NODE_RESPONSE", node |-> m])
    /\ UNCHANGED <<self_data, nodes, request, ops>>

(***************************************************************************)
(* The client: asks the tracker for a node and sends it the request.  Only *)
(* a lookup waits for an answer.                                           *)
(***************************************************************************)
WaitsForLookup == request # NULL /\ request.type = "VAL_LOOKUP"

ClientSend(pdu) ==
    /\ ops < MaxOps /\ ~WaitsForLookup /\ Admitted("value")
    /\ \E n \in nodes : net' = SendUdp(net, n, pdu)
    /\ request' = pdu /\ ops' = ops + 1
    /\ UNCHANGED <<self_data, nodes>>

ClientInsert == \E k \in Key, v \in Value : ClientSend([type |-> "VAL_INSERT", key |-> k, val |-> v])

ClientRemove == \E k \in Key : ClientSend([type |-> "VAL_REMOVE", key |-> k])

ClientLookup == \E k \in Key : ClientSend([type |-> "VAL_LOOKUP", key |-> k])

ClientReceive ==
    \E d \in net.udp :
        /\ d.dst = Client /\ WaitsForLookup
        /\ net' = [net EXCEPT !.udp = @ \ {d}]
        /\ request' = NULL
        /\ UNCHANGED <<self_data, nodes, ops>>

Next ==
    \/ \E n \in Node : \/ StartNode(n) \/ set_shutdown(n) \/ RunNode(n) \/ NodeFault(n)
                       \/ NetAlive(n) \/ NodeTimeout(n) \/ NetGetNode(n)
    \/ LoseDatagram
    \/ ClientInsert \/ ClientRemove \/ ClientLookup \/ ClientReceive

Spec == Init /\ [][Next]_vars

(* A process that can take a step takes it, the tracker answers and hears
   NET_ALIVE, and an answer reaches the client.  Nothing makes a node start,
   a user press Ctrl-C or a client ask. *)
Fairness ==
    /\ \A n \in Node : WF_vars(RunNode(n)) /\ WF_vars(NetAlive(n)) /\ WF_vars(NetGetNode(n))
    /\ WF_vars(ClientReceive)

FairSpec == Spec /\ Fairness

(***************************************************************************)
(* Properties.                                                             *)
(***************************************************************************)

(* Every variable has its type. *)
TypeOK ==
    /\ self_data \in [Node -> SelfData]
    /\ net \in Net
    /\ nodes \subseteq Node
    /\ request \in Request \cup {NULL}
    /\ ops \in 0 .. MaxOps

(* The entries a node holds hash into its range, so that check_range sends
   every later request for them to the table they are in.  The insert, the
   split for a joining node, the range taken over from a leaving one and the
   shutdown all have to keep this. *)
StoredInRange ==
    \A n \in Node : \A k \in Entries(self_data[n]) : check_range(self_data[n], k)

(* The holders of a range: nodes that serve requests, and the PDUs that give
   a range to a joining node (NET_JOIN_RESPONSE) or to the neighbour of a
   leaving one (NET_NEW_RANGE). *)
Serving == {n \in Node : self_data[n].pc \in {"q6", "accept"}}

Owners(h) ==
    {n \in Serving : InRange(h, self_data[n].range_start, self_data[n].range_end)}

Offers(queues, h) ==
    UNION {{<<c, i>> : i \in {j \in DOMAIN queues[c] :
                /\ queues[c][j].type \in {"NET_JOIN_RESPONSE", "NET_NEW_RANGE"}
                /\ InRange(h, queues[c][j].range_start, queues[c][j].range_end)}} : c \in Conn}

(* Every hash belongs to exactly one holder at every moment of a join or an
   undisturbed leave: handle_net_join splits the range before anybody else
   can, and update_range takes over exactly the range that is given up. *)
RangesPartition ==
    Serving # {} =>
        \A h \in Byte :
            Cardinality(Owners(h)) + Cardinality(Offers(net.fwd, h)) + Cardinality(Offers(net.bwd, h)) = 1

(* Once a join or a leave has been handled everywhere, the members form one
   ring: the connection to the successor is the one the successor accepted,
   and the successor's range begins where the node's own ends.  A member that
   is alone has no connection. *)
QuietRing ==
    Quiet =>
        \A n \in Members :
            LET s == self_data[n]
            IN  IF Members = {n} THEN ~s.succ_socket /\ ~s.pred_socket
                ELSE /\ s.succ_fd # NULL
                     /\ LET m == s.succ_fd.to
                        IN  /\ m \in Members /\ m = s.succ_addr
                            /\ self_data[m].pred_fd = s.succ_fd
                            /\ self_data[m].range_start = u8(s.range_end + 1)

(* NET_CLOSE_CONNECTION and NET_LEAVING are the last PDUs of their streams:
   the receiver closes the connection when it handles one, and would lose
   whatever followed. *)
LastWords ==
    \A c \in Conn :
        /\ \A i \in DOMAIN net.fwd[c] :
              net.fwd[c][i].type = "NET_CLOSE_CONNECTION" => i = Len(net.fwd[c])
        /\ \A i \in DOMAIN net.bwd[c] :
              net.bwd[c][i].type = "NET_LEAVING" => i = Len(net.bwd[c])

(* The first connection a node in q7 accepts is that of the node that makes
   room for it, and NET_JOIN_RESPONSE is the first PDU on it: q7 reads nine
   bytes and exits if they are anything else. *)
JoinResponseFirst ==
    \A n \in Node :
        LET c == Head(net.backlog[n])
        IN  self_data[n].pc = "q7" /\ net.backlog[n] # <<>> =>
                net.fwd[c] # <<>> /\ Head(net.fwd[c]).type = "NET_JOIN_RESPONSE"

(* No process ends in exit_with_error. *)
NoErrorExit == \A n \in Node : self_data[n].pc # "exit1"

(* A key is safe while a table or a stream somebody will read holds it. *)
InStream(type, k) ==
    \E c \in Conn : \E pdu \in Range(net.fwd[c]) \cup Range(net.bwd[c]) :
        pdu.type = type /\ pdu.key = k

Held(k) == \E n \in Node : self_data[n].hash_table[k] # NULL

Present(k) == Held(k) \/ InStream("VAL_INSERT", k)

RemoveAsked(k) ==
    \/ InStream("VAL_REMOVE", k)
    \/ \E d \in net.udp : d.pdu.type = "VAL_REMOVE" /\ d.pdu.key = k

(* README: the network "ensures no data loss as nodes join or leave".  While
   nodes remain, no step makes a key disappear that nobody asked to remove. *)
KeepsData ==
    \A k \in Key : Present(k) /\ ~RemoveAsked(k) /\ Serving' # {} => Present(k)'

NoDataLoss == [][KeepsData]_vars

(* The map a client sees: the value in a table, else the one on its way to a
   table, which is not the last request unless that is all there is. *)
Carried(k) ==
    {pdu \in UNION {Range(net.fwd[c]) \cup Range(net.bwd[c]) : c \in Conn} :
        pdu.type = "VAL_INSERT" /\ pdu.key = k}

StoredValue(k) ==
    IF Held(k) THEN self_data[CHOOSE n \in Node : self_data[n].hash_table[k] # NULL].hash_table[k]
    ELSE IF Carried(k) \ {request} # {} THEN (CHOOSE pdu \in Carried(k) : pdu # request).val
    ELSE IF Carried(k) # {} THEN request.val
    ELSE NULL

Map == INSTANCE DHTMap WITH store <- [k \in Key |-> StoredValue(k)], asked <- request, up <- Serving # {}

(* The network implements the map: tables and streams change the value of a
   key only as the client asked, through every join and every leave. *)
ImplementsMap == Map!MapSpec

(* A node that starts gets into the network: the tracker, the node it names,
   the node with the largest range and its successor all play their part. *)
JoinCompletes == \A n \in Node : self_data[n].pc = "q3" ~> self_data[n].pc = "q6"

(* A node that waits for a new predecessor gets one. *)
AcceptCompletes == \A n \in Node : self_data[n].pc = "accept" ~> self_data[n].pc # "accept"

(* A node that was told to stop ends. *)
LeaveCompletes == \A n \in Node : self_data[n].pc = "q11" ~> self_data[n].pc = "exit0"

(* A lookup of a key that is stored is answered. *)
LookupAnswered ==
    (WaitsForLookup /\ Held(request.key)) ~> ~WaitsForLookup
=============================================================================
