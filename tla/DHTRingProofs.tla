--------------------------- MODULE DHTRingProofs ----------------------------
(***************************************************************************)
(* TypeOK, StoredInRange, LastWords and JoinResponseFirst are invariants of*)
(* DHTRing, for every set of nodes, keys and values, every hash function and*)
(* every environment: whatever overlaps, whatever fails and however often. *)
(*                                                                         *)
(* All handlers end in Continue(n, s, nt), so the proof is: every memory s *)
(* a handler builds is Sound, every kernel nt is in Net.  The second half  *)
(* adds what the two ends of a connection do to its streams.               *)
(***************************************************************************)
EXTENDS DHTRing, FiniteSetTheorems, TLAPS

(* A node's memory: typed, every entry in the range, and no entry before the
   node has its range, because q7 sets the range without looking at the table. *)
Sound(s) ==
  /\ s \in SelfData
  /\ \A k \in Entries(s) : check_range(s, k)
  /\ s.pc \in {"off", "q3", "q7"} => Entries(s) = {}

(* The inductive invariant. *)
NodeInv ==
  /\ self_data \in [Node -> SelfData]
  /\ net \in Net
  /\ \A n \in Node : Sound(self_data[n])

(***************************************************************************)
(* Arithmetic on ranges.                                                   *)
(***************************************************************************)

(* An int assigned to a uint8_t is one of its values. *)
LEMMA u8Type == ASSUME NEW x \in Int PROVE u8(x) \in Byte
  BY HashSizeAssumption DEF u8, Byte

(* Bytes are integers; the whole range 0 .. HASH_SIZE - 1 of q4 is made of bytes. *)
LEMMA ByteFacts == Byte \subseteq Int /\ 0 \in Byte /\ HASH_SIZE - 1 \in Byte
  BY HashSizeAssumption DEF Byte

(* The parts of a split range are ranges. *)
LEMMA SplitType ==
  ASSUME NEW a \in Byte, NEW b \in Byte
  PROVE  middle_point(a, b) \in Byte /\ handover_start(a, b) \in Byte
<1>1. a \in Int /\ b \in Int
  BY ByteFacts
<1>2. Half(b - a) \in Int
  BY <1>1 DEF Half
<1>3. middle_point(a, b) \in Byte
  BY <1>1, <1>2, u8Type DEF middle_point
<1>4. middle_point(a, b) \in Int
  BY <1>3, ByteFacts
<1>5. middle_point(a, b) + 1 \in Int
  BY <1>4
<1> QED
  BY <1>3, <1>5, u8Type DEF handover_start

(* A value that fits is not changed by the assignment. *)
LEMMA u8Fits == ASSUME NEW x \in Byte PROVE u8(x) = x
  BY HashSizeAssumption DEF u8, Byte

(* A range of at least two hashes is split without loss and without overlap:
   what send_new_range_and_entries keeps and what it hands over share no hash
   and together are the old range, and neither part is empty. *)
THEOREM SplitPartitions ==
  ASSUME NEW a \in Byte, NEW b \in Byte, a < b
  PROVE  /\ \A h \in Byte :
               /\ InRange(h, a, b) <=> \/ InRange(h, a, middle_point(a, b))
                                      \/ InRange(h, handover_start(a, b), b)
               /\ ~(InRange(h, a, middle_point(a, b)) /\ InRange(h, handover_start(a, b), b))
         /\ InRange(a, a, middle_point(a, b)) /\ InRange(b, handover_start(a, b), b)
<1> DEFINE m == (b - a) \div 2 + a
<1>1. a \in Int /\ b \in Int /\ 0 <= a /\ b <= HASH_SIZE - 1 /\ HASH_SIZE \in Int
  BY HashSizeAssumption DEF Byte
<1>2. m \in Int /\ a <= m /\ m < b
  BY <1>1
<1>3. Half(b - a) + a = m
  BY <1>1 DEF Half
<1> HIDE DEF m
<1>4. m \in Byte /\ m + 1 \in Byte
  BY <1>1, <1>2 DEF Byte
<1>5. middle_point(a, b) = m
  BY <1>3, <1>4, u8Fits DEF middle_point
<1>6. handover_start(a, b) = m + 1
  BY <1>4, <1>5, u8Fits DEF handover_start
<1>7. Byte \subseteq Int
  BY ByteFacts
<1> QED
  BY <1>1, <1>2, <1>5, <1>6, <1>7 DEF InRange

(***************************************************************************)
(* The kernel operations keep the kernel's type.                           *)
(***************************************************************************)

(* The parts of a kernel state. *)
LEMMA NetFields ==
  ASSUME NEW nt \in Net
  PROVE  /\ nt.fwd \in [Conn -> Seq(PDU)] /\ nt.bwd \in [Conn -> Seq(PDU)]
         /\ nt.backlog \in [Node -> Seq(Conn)]
         /\ nt.udp \in SUBSET [dst : Node \cup {Client}, pdu : PDU]
  BY DEF Net

(* A kernel state with one part replaced. *)
LEMMA NetUpdate ==
  ASSUME NEW nt \in Net
  PROVE  /\ \A f \in [Conn -> Seq(PDU)] : [nt EXCEPT !.fwd = f] \in Net
         /\ \A f \in [Conn -> Seq(PDU)] : [nt EXCEPT !.bwd = f] \in Net
         /\ \A f \in [Node -> Seq(Conn)] : [nt EXCEPT !.backlog = f] \in Net
         /\ \A D \in SUBSET [dst : Node \cup {Client}, pdu : PDU] : [nt EXCEPT !.udp = D] \in Net
  BY DEF Net

(* Writing to the successor (send_tcp_pdu). *)
LEMMA SendForwardType ==
  ASSUME NEW nt \in Net, NEW c \in Conn \cup {NULL}, NEW pdus \in Seq(PDU)
  PROVE  SendForward(nt, c, pdus) \in Net
<1>1. CASE c \in Conn
  <2>1. nt.fwd[c] \o pdus \in Seq(PDU)
    BY <1>1, NetFields
  <2>2. [nt.fwd EXCEPT ![c] = @ \o pdus] \in [Conn -> Seq(PDU)]
    BY <2>1, NetFields
  <2> QED
    BY <2>2, NetUpdate DEF SendForward
<1> QED
  BY <1>1 DEF SendForward

(* Writing to the predecessor (send_tcp_pdu). *)
LEMMA SendBackwardType ==
  ASSUME NEW nt \in Net, NEW c \in Conn \cup {NULL}, NEW pdus \in Seq(PDU)
  PROVE  SendBackward(nt, c, pdus) \in Net
<1>1. CASE c \in Conn
  <2>1. nt.bwd[c] \o pdus \in Seq(PDU)
    BY <1>1, NetFields
  <2>2. [nt.bwd EXCEPT ![c] = @ \o pdus] \in [Conn -> Seq(PDU)]
    BY <2>1, NetFields
  <2> QED
    BY <2>2, NetUpdate DEF SendBackward
<1> QED
  BY <1>1 DEF SendBackward

(* Sending a datagram (send_udp_pdu). *)
LEMMA SendUdpType ==
  ASSUME NEW nt \in Net, NEW dst \in Node \cup {Client}, NEW pdu \in PDU
  PROVE  SendUdp(nt, dst, pdu) \in Net
<1>1. nt.udp \cup {[dst |-> dst, pdu |-> pdu]} \in SUBSET [dst : Node \cup {Client}, pdu : PDU]
  BY NetFields
<1> QED
  BY <1>1, NetUpdate DEF SendUdp

(* Closing one end of a connection. *)
LEMMA CloseType ==
  ASSUME NEW nt \in Net, NEW c \in Conn \cup {NULL}
  PROVE  CloseAcceptor(nt, c) \in Net /\ CloseConnector(nt, c) \in Net
<1>1. CASE c \in Conn
  <2>1. /\ [nt.fwd EXCEPT ![c] = <<>>] \in [Conn -> Seq(PDU)]
        /\ [nt.bwd EXCEPT ![c] = <<>>] \in [Conn -> Seq(PDU)]
    BY <1>1, NetFields
  <2> QED
    BY <2>1, NetUpdate DEF CloseAcceptor, CloseConnector
<1> QED
  BY <1>1 DEF CloseAcceptor, CloseConnector

(* The end of a process (close_all_sockets). *)
LEMMA CloseAllType ==
  ASSUME NEW nt \in Net, NEW n \in Node
  PROVE  CloseAll(nt, n) \in Net
<1>1. [c \in Conn |-> IF c.to = n THEN <<>> ELSE nt.fwd[c]] \in [Conn -> Seq(PDU)]
  BY NetFields
<1>2. [c \in Conn |-> IF c.from = n THEN <<>> ELSE nt.bwd[c]] \in [Conn -> Seq(PDU)]
  BY NetFields
<1>3. [nt.backlog EXCEPT ![n] = <<>>] \in [Node -> Seq(Conn)]
  BY NetFields
<1>4. {d \in nt.udp : d.dst # n} \in SUBSET [dst : Node \cup {Client}, pdu : PDU]
  BY NetFields
<1> QED
  BY <1>1, <1>2, <1>3, <1>4 DEF CloseAll, Net

(* Taking a PDU off a stream, a connection off a listen queue, a datagram. *)
LEMMA TakeType ==
  ASSUME NEW nt \in Net
  PROVE  /\ \A c \in Conn : nt.fwd[c] # <<>> =>
               [nt EXCEPT !.fwd[c] = Tail(@)] \in Net /\ Head(nt.fwd[c]) \in PDU
         /\ \A c \in Conn : nt.bwd[c] # <<>> =>
               [nt EXCEPT !.bwd[c] = Tail(@)] \in Net /\ Head(nt.bwd[c]) \in PDU
         /\ \A n \in Node : nt.backlog[n] # <<>> =>
               [nt EXCEPT !.backlog[n] = Tail(@)] \in Net /\ Head(nt.backlog[n]) \in Conn
         /\ \A d \in nt.udp : [nt EXCEPT !.udp = @ \ {d}] \in Net /\ d.pdu \in PDU
<1>1. ASSUME NEW c \in Conn, nt.fwd[c] # <<>>
      PROVE  [nt EXCEPT !.fwd[c] = Tail(@)] \in Net /\ Head(nt.fwd[c]) \in PDU
  <2>1. Head(nt.fwd[c]) \in PDU /\ Tail(nt.fwd[c]) \in Seq(PDU)
    BY <1>1, NetFields
  <2>2. [nt.fwd EXCEPT ![c] = Tail(@)] \in [Conn -> Seq(PDU)]
    BY <2>1, NetFields
  <2> QED
    BY <2>1, <2>2, NetUpdate
<1>2. ASSUME NEW c \in Conn, nt.bwd[c] # <<>>
      PROVE  [nt EXCEPT !.bwd[c] = Tail(@)] \in Net /\ Head(nt.bwd[c]) \in PDU
  <2>1. Head(nt.bwd[c]) \in PDU /\ Tail(nt.bwd[c]) \in Seq(PDU)
    BY <1>2, NetFields
  <2>2. [nt.bwd EXCEPT ![c] = Tail(@)] \in [Conn -> Seq(PDU)]
    BY <2>1, NetFields
  <2> QED
    BY <2>1, <2>2, NetUpdate
<1>3. ASSUME NEW n \in Node, nt.backlog[n] # <<>>
      PROVE  [nt EXCEPT !.backlog[n] = Tail(@)] \in Net /\ Head(nt.backlog[n]) \in Conn
  <2>1. Head(nt.backlog[n]) \in Conn /\ Tail(nt.backlog[n]) \in Seq(Conn)
    BY <1>3, NetFields
  <2>2. [nt.backlog EXCEPT ![n] = Tail(@)] \in [Node -> Seq(Conn)]
    BY <2>1, NetFields
  <2> QED
    BY <2>1, <2>2, NetUpdate
<1>4. ASSUME NEW d \in nt.udp
      PROVE  [nt EXCEPT !.udp = @ \ {d}] \in Net /\ d.pdu \in PDU
  <2>1. nt.udp \ {d} \in SUBSET [dst : Node \cup {Client}, pdu : PDU] /\ d.pdu \in PDU
    BY NetFields
  <2> QED
    BY <2>1, NetUpdate
<1> QED
  BY <1>1, <1>2, <1>3, <1>4

(* A new connection enters the listen queue (connect_to_tcp). *)
LEMMA ConnectType ==
  ASSUME NEW nt \in Net, NEW c \in Conn
  PROVE  Connect(nt, c) \in Net
<1>1. c.to \in Node
  BY DEF Conn
<1>2. nt.backlog \in [Node -> Seq(Conn)]
  BY DEF Net
<1>3. Append(nt.backlog[c.to], c) \in Seq(Conn)
  BY <1>1, <1>2
<1> QED
  BY <1>1, <1>3 DEF Connect, Net

(* The connection connect_to_tcp opens is one. *)
LEMMA NewConnType ==
  ASSUME NEW n, NEW m, Unused(n, m) # {}
  PROVE  NewConn(n, m) \in Conn
<1>1. \E c : c \in Unused(n, m)
  OBVIOUS
<1>2. NewConn(n, m) \in Unused(n, m)
  BY <1>1 DEF NewConn
<1> QED
  BY <1>2 DEF Unused

(* The initial kernel. *)
LEMMA QuietNetType == QuietNet \in Net
  BY DEF QuietNet, Net

(***************************************************************************)
(* PDUs.                                                                   *)
(***************************************************************************)

(* A PDU has the fields of its type. *)
LEMMA PDUFields ==
  ASSUME NEW pdu \in PDU
  PROVE  /\ pdu.type = "VAL_INSERT" => pdu.key \in Key /\ pdu.val \in Value
         /\ pdu.type \in {"VAL_REMOVE", "VAL_LOOKUP"} => pdu.key \in Key
         /\ pdu.type = "NET_GET_NODE_RESPONSE" => pdu.node \in Node \cup {NULL}
         /\ pdu.type = "NET_JOIN" => pdu.src \in Node
         /\ pdu.type = "NET_JOIN_RESPONSE" =>
               /\ pdu.next \in Node \cup {NULL}
               /\ pdu.range_start \in Byte /\ pdu.range_end \in Byte
         /\ pdu.type = "NET_NEW_RANGE" => pdu.range_start \in Byte /\ pdu.range_end \in Byte
         /\ pdu.type = "NET_LEAVING" => pdu.new \in Node \cup {NULL}
  BY DEF PDU

(* The PDUs that the shutdown, update_range and the tracker send. *)
LEMMA PDUTypes ==
  /\ [type |-> "NET_NEW_RANGE_RESPONSE"] \in PDU
  /\ [type |-> "NET_CLOSE_CONNECTION"] \in PDU
  /\ \A m \in Node \cup {NULL} :
        /\ [type |-> "NET_LEAVING", new |-> m] \in PDU
        /\ [type |-> "NET_GET_NODE_RESPONSE", node |-> m] \in PDU
  /\ \A a, b \in Byte : [type |-> "NET_NEW_RANGE", range_start |-> a, range_end |-> b] \in PDU
  BY DEF PDU

(* The entries of a table are sent as VAL_INSERTs, in the order that
   SetToSeq gives to a finite set of keys. *)
LEMMA KeySequence ==
  ASSUME NEW K \in SUBSET Key
  PROVE  SetToSeq(K) \in Seq(Key) /\ \A i \in DOMAIN SetToSeq(K) : SetToSeq(K)[i] \in K
<1>1. IsFiniteSet(K)
  BY FS_Subset, SocketsAssumption
<1>2. PICK f : f \in Bijection(1 .. Cardinality(K), K)
  BY <1>1, FS_CardinalityType DEF ExistsBijection
<1>3. f \in [1 .. Cardinality(K) -> K] /\ IsInjective(f)
  BY <1>2 DEF IsInjective, Bijection, Injection
<1>4. SetToSeq(K) \in [1 .. Cardinality(K) -> K]
  BY <1>3 DEF SetToSeq
<1> QED
  BY <1>1, <1>4, FS_CardinalityType

(* The entries a node sends are PDUs: send_insert_pdu_tcp is only called for
   entries that have a value. *)
LEMMA InsertsType ==
  ASSUME NEW s \in SelfData, NEW K \in SUBSET Entries(s)
  PROVE  Inserts(s, K) \in Seq(PDU)
<1> DEFINE order == SetToSeq(K)
<1>1. K \in SUBSET Key
  BY DEF Entries
<1>2. order \in Seq(Key) /\ \A i \in DOMAIN order : order[i] \in K
  BY <1>1, KeySequence
<1>3. \A k \in K : k \in Key /\ s.hash_table[k] \in Value
  BY <1>1 DEF Entries, SelfData
<1>4. \A k \in K : InsertPDU(s, k) \in PDU
  BY <1>3 DEF InsertPDU, PDU
<1> HIDE DEF order
<1>5. \A i \in DOMAIN order : InsertPDU(s, order[i]) \in PDU
  BY <1>2, <1>4
<1>6. DOMAIN order = 1 .. Len(order) /\ Len(order) \in Nat
  BY <1>2
<1>7. [i \in DOMAIN order |-> InsertPDU(s, order[i])] \in Seq(PDU)
  BY <1>5, <1>6
<1> QED
  BY <1>7 DEF Inserts, order

(***************************************************************************)
(* Endings of a handler.                                                   *)
(***************************************************************************)

(* The memory of a process that starts or has ended. *)
LEMMA BlankSound ==
  ASSUME NEW pc \in PC
  PROVE  Sound(Blank(pc))
<1>1. Blank(pc) \in SelfData
  BY ByteFacts DEF Blank, SelfData, EmptyTable
<1>2. Entries(Blank(pc)) = {}
  BY DEF Blank, Entries, EmptyTable
<1> QED
  BY <1>1, <1>2 DEF Sound

(* A step of node n that ends with a sound memory and a typed kernel. *)
LEMMA ContinueGood ==
  ASSUME NodeInv, NEW n \in Node, NEW s, Sound(s), NEW nt \in Net, Continue(n, s, nt)
  PROVE  NodeInv'
<1>1. s \in SelfData
  BY DEF Sound
<1>2. self_data' = [self_data EXCEPT ![n] = s] /\ net' = nt
  BY DEF Continue
<1>3. self_data' \in [Node -> SelfData] /\ net' \in Net
  BY <1>1, <1>2 DEF NodeInv
<1>4. ASSUME NEW m \in Node PROVE Sound(self_data'[m])
  BY <1>2 DEF NodeInv
<1>5. ASSUME NEW m \in Node PROVE Sound(self_data[m])'
  BY <1>4 DEF Sound, Entries, check_range
<1> QED
  BY <1>3, <1>5 DEF NodeInv

(* exit_with_error and the regular end. *)
LEMMA ExitGood ==
  ASSUME NodeInv, NEW n \in Node, NEW nt \in Net,
         exit_with_error(n, nt) \/ exit_success(n, nt)
  PROVE  NodeInv'
<1>1. CloseAll(nt, n) \in Net
  BY CloseAllType
<1>2. Sound(Blank("exit0")) /\ Sound(Blank("exit1"))
  BY BlankSound DEF PC
<1> QED
  BY <1>1, <1>2, ContinueGood DEF exit_with_error, exit_success

(***************************************************************************)
(* Updates of a node's memory.                                             *)
(***************************************************************************)

(* A node past q7, as the handlers and the shutdown find it. *)
Ready(s) == Sound(s) /\ s.pc \notin {"off", "q3", "q7"}

(* The parts of a memory. *)
LEMMA SelfDataFields ==
  ASSUME NEW s \in SelfData
  PROVE  /\ s.pc \in PC /\ s.pollPos \in 0 .. 3
         /\ s.range_start \in Byte /\ s.range_end \in Byte
         /\ s.range_start \in Int /\ s.range_end \in Int
         /\ s.hash_table \in [Key -> Value \cup {NULL}]
         /\ s.succ_fd \in Conn \cup {NULL} /\ s.pred_fd \in Conn \cup {NULL}
         /\ s.succ_addr \in Node \cup {NULL} /\ s.leaving_new \in Node \cup {NULL}
  BY ByteFacts DEF SelfData

(* Whatever else changes: with the same table and a range that has not become
   smaller, every entry is still in range. *)
LEMMA SameTable ==
  ASSUME NEW s, Sound(s), NEW t \in SelfData, t.hash_table = s.hash_table,
         t.range_start <= s.range_start, s.range_end <= t.range_end, t.pc \notin {"off", "q3", "q7"}
  PROVE  Ready(t)
<1>1. s \in SelfData
  BY DEF Sound
<1>2. /\ s.range_start \in Int /\ s.range_end \in Int
      /\ t.range_start \in Int /\ t.range_end \in Int
  BY <1>1, SelfDataFields
<1>3. \A k \in Key : hash_ssn[k] \in Int
  BY SocketsAssumption, ByteFacts
<1>4. Entries(t) = Entries(s)
  BY DEF Entries
<1>5. ASSUME NEW k \in Entries(t) PROVE check_range(t, k)
  <2>1. k \in Key /\ check_range(s, k)
    BY <1>4 DEF Sound, Entries
  <2> QED
    BY <1>2, <1>3, <2>1 DEF check_range, InRange
<1> QED
  BY <1>5 DEF Sound, Ready

(* As SameTable, for the memories that the handlers build from s. *)
LEMMA SameTableUpdates ==
  ASSUME NEW s, Ready(s)
  PROVE  /\ \A pc \in PC \ {"off", "q3", "q7"} : Ready([s EXCEPT !.pc = pc])
         /\ \A pos \in 0 .. 3 : Ready([s EXCEPT !.pollPos = pos])
         /\ Ready([s EXCEPT !.succ_fd = NULL]) /\ Ready([s EXCEPT !.pred_fd = NULL])
         /\ Ready([s EXCEPT !.succ_fd = NULL, !.succ_socket = FALSE])
         /\ Ready([s EXCEPT !.succ_socket = FALSE, !.succ_fd = NULL])
         /\ Ready([s EXCEPT !.pred_fd = NULL, !.pred_socket = FALSE])
         /\ Ready([s EXCEPT !.pred_socket = FALSE, !.pred_fd = NULL])
         /\ \A m \in Node, c \in Conn : Ready(ConnectedTo(s, m, c))
         /\ \A a \in Byte : a <= s.range_start => Ready([s EXCEPT !.range_start = a])
         /\ \A b \in Byte : s.range_end <= b => Ready([s EXCEPT !.range_end = b])
<1>1. s \in SelfData /\ Sound(s) /\ s.pc \notin {"off", "q3", "q7"}
  BY DEF Ready, Sound
<1>2. s.range_start <= s.range_start /\ s.range_end <= s.range_end
  BY <1>1, SelfDataFields
<1>3. ASSUME NEW pc \in PC \ {"off", "q3", "q7"} PROVE Ready([s EXCEPT !.pc = pc])
  <2>1. [s EXCEPT !.pc = pc] \in SelfData
    BY <1>1 DEF SelfData
  <2> QED
    BY <1>1, <1>2, <2>1, SameTable DEF SelfData
<1>4. ASSUME NEW pos \in 0 .. 3 PROVE Ready([s EXCEPT !.pollPos = pos])
  <2>1. [s EXCEPT !.pollPos = pos] \in SelfData
    BY <1>1 DEF SelfData
  <2> QED
    BY <1>1, <1>2, <2>1, SameTable DEF SelfData
<1>5. Ready([s EXCEPT !.succ_fd = NULL]) /\ Ready([s EXCEPT !.pred_fd = NULL])
  <2>1. [s EXCEPT !.succ_fd = NULL] \in SelfData /\ [s EXCEPT !.pred_fd = NULL] \in SelfData
    BY <1>1 DEF SelfData
  <2> QED
    BY <1>1, <1>2, <2>1, SameTable DEF SelfData
<1>6. /\ Ready([s EXCEPT !.succ_fd = NULL, !.succ_socket = FALSE])
      /\ Ready([s EXCEPT !.succ_socket = FALSE, !.succ_fd = NULL])
  <2>1. /\ [s EXCEPT !.succ_fd = NULL, !.succ_socket = FALSE] \in SelfData
        /\ [s EXCEPT !.succ_socket = FALSE, !.succ_fd = NULL] \in SelfData
    BY <1>1 DEF SelfData
  <2> QED
    BY <1>1, <1>2, <2>1, SameTable DEF SelfData
<1>7. /\ Ready([s EXCEPT !.pred_fd = NULL, !.pred_socket = FALSE])
      /\ Ready([s EXCEPT !.pred_socket = FALSE, !.pred_fd = NULL])
  <2>1. /\ [s EXCEPT !.pred_fd = NULL, !.pred_socket = FALSE] \in SelfData
        /\ [s EXCEPT !.pred_socket = FALSE, !.pred_fd = NULL] \in SelfData
    BY <1>1 DEF SelfData
  <2> QED
    BY <1>1, <1>2, <2>1, SameTable DEF SelfData
<1>8. ASSUME NEW m \in Node, NEW c \in Conn PROVE Ready(ConnectedTo(s, m, c))
  <2>1. ConnectedTo(s, m, c) \in SelfData
    BY <1>1 DEF SelfData, ConnectedTo
  <2> QED
    BY <1>1, <1>2, <2>1, SameTable DEF SelfData, ConnectedTo
<1>9. ASSUME NEW a \in Byte, a <= s.range_start PROVE Ready([s EXCEPT !.range_start = a])
  <2>1. [s EXCEPT !.range_start = a] \in SelfData
    BY <1>1 DEF SelfData
  <2> QED
    BY <1>1, <1>2, <1>9, <2>1, SameTable DEF SelfData
<1>10. ASSUME NEW b \in Byte, s.range_end <= b PROVE Ready([s EXCEPT !.range_end = b])
  <2>1. [s EXCEPT !.range_end = b] \in SelfData
    BY <1>1 DEF SelfData
  <2> QED
    BY <1>1, <1>2, <1>10, <2>1, SameTable DEF SelfData
<1> QED
  BY <1>3, <1>4, <1>5, <1>6, <1>7, <1>8, <1>9, <1>10

(* handle_ht_remove. *)
LEMMA RemoveReady ==
  ASSUME NEW s, Ready(s), NEW k \in Key
  PROVE  Ready([s EXCEPT !.hash_table[k] = NULL])
<1> DEFINE t == [s EXCEPT !.hash_table[k] = NULL]
<1>1. s \in SelfData
  BY DEF Ready, Sound
<1>2. s.hash_table \in [Key -> Value \cup {NULL}]
  BY <1>1, SelfDataFields
<1>3. [s.hash_table EXCEPT ![k] = NULL] \in [Key -> Value \cup {NULL}]
  BY <1>2
<1>4. t \in SelfData /\ t.hash_table = [s.hash_table EXCEPT ![k] = NULL]
  BY <1>1, <1>3 DEF SelfData
<1>5. t.range_start = s.range_start /\ t.range_end = s.range_end /\ t.pc = s.pc
  BY <1>1 DEF SelfData
<1> HIDE DEF t
<1>6. Entries(t) \subseteq Entries(s)
  BY <1>2, <1>4 DEF Entries
<1>7. Ready(t)
  BY <1>4, <1>5, <1>6 DEF Ready, Sound, check_range
<1> QED
  BY <1>7 DEF t

(* handle_ht_insert stores only what check_range admits. *)
LEMMA InsertReady ==
  ASSUME NEW s, Ready(s), NEW k \in Key, NEW v \in Value, check_range(s, k)
  PROVE  Ready([s EXCEPT !.hash_table[k] = v])
<1> DEFINE t == [s EXCEPT !.hash_table[k] = v]
<1>1. s \in SelfData
  BY DEF Ready, Sound
<1>2. s.hash_table \in [Key -> Value \cup {NULL}]
  BY <1>1, SelfDataFields
<1>3. [s.hash_table EXCEPT ![k] = v] \in [Key -> Value \cup {NULL}]
  BY <1>2
<1>4. t \in SelfData /\ t.hash_table = [s.hash_table EXCEPT ![k] = v]
  BY <1>1, <1>3 DEF SelfData
<1>5. t.range_start = s.range_start /\ t.range_end = s.range_end /\ t.pc = s.pc
  BY <1>1 DEF SelfData
<1> HIDE DEF t
<1>6. Entries(t) \subseteq Entries(s) \cup {k}
  BY <1>2, <1>4 DEF Entries
<1>7. Ready(t)
  BY <1>4, <1>5, <1>6 DEF Ready, Sound, check_range
<1> QED
  BY <1>7 DEF t

(* send_new_range_and_entries: the entries outside the smaller range are the
   ones it removes. *)
LEMMA AfterHandoverReady ==
  ASSUME NEW s, Ready(s)
  PROVE  Ready(AfterHandover(s))
<1> DEFINE t == AfterHandover(s)
           kept == [k \in Key |-> IF k \in HandedOver(s) THEN NULL ELSE s.hash_table[k]]
<1>1. s \in SelfData /\ s.hash_table \in [Key -> Value \cup {NULL}]
  BY SelfDataFields DEF Ready, Sound
<1>2. middle_point(s.range_start, s.range_end) \in Byte
  BY <1>1, SelfDataFields, SplitType
<1>3. KeptHalf(s) \in SelfData /\ KeptHalf(s).pc = s.pc
  BY <1>1, <1>2 DEF KeptHalf, SelfData
<1>4. kept \in [Key -> Value \cup {NULL}]
  BY <1>1
<1>5. /\ t \in SelfData /\ t.hash_table = kept /\ t.pc = s.pc
      /\ t.range_start = KeptHalf(s).range_start /\ t.range_end = KeptHalf(s).range_end
  BY <1>3, <1>4 DEF AfterHandover, SelfData
<1> HIDE DEF t
<1>6. ASSUME NEW k \in Entries(t) PROVE check_range(t, k)
  <2>1. k \in Key /\ k \notin HandedOver(s) /\ k \in Entries(s)
    BY <1>5 DEF Entries
  <2>2. check_range(KeptHalf(s), k)
    BY <2>1 DEF HandedOver
  <2> QED
    BY <1>5, <2>2 DEF check_range
<1>7. Ready(t)
  BY <1>5, <1>6 DEF Ready, Sound
<1> QED
  BY <1>7 DEF t

(* What send_new_range_and_entries sends to the joining node. *)
LEMMA HandoverType ==
  ASSUME NEW s, Ready(s), NEW next \in Node \cup {NULL}
  PROVE  Handover(s, next) \in Seq(PDU)
<1>1. s \in SelfData
  BY DEF Ready, Sound
<1>2. s.range_start \in Byte /\ s.range_end \in Byte
  BY <1>1, SelfDataFields
<1>3. handover_start(s.range_start, s.range_end) \in Byte
  BY <1>2, SplitType
<1> DEFINE response == [type |-> "NET_JOIN_RESPONSE", next |-> next,
               range_start |-> handover_start(s.range_start, s.range_end), range_end |-> s.range_end]
<1>4. response \in PDU
  BY <1>2, <1>3 DEF PDU
<1>5. Inserts(s, HandedOver(s)) \in Seq(PDU)
  BY <1>1, InsertsType DEF HandedOver
<1> HIDE DEF response
<1>6. <<response>> \o Inserts(s, HandedOver(s)) \in Seq(PDU)
  BY <1>4, <1>5
<1> QED
  BY <1>6 DEF Handover, response

(* The range is given up together with the whole table. *)
LEMMA WithoutRangeReady ==
  ASSUME NEW s \in SelfData
  PROVE  Ready(WithoutRange(s))
<1> DEFINE t == WithoutRange(s)
<1>1. u8(-1) \in Byte
  BY u8Type
<1>2. EmptyTable \in [Key -> Value \cup {NULL}]
  BY DEF EmptyTable
<1>3. "q18" \in PC /\ 0 \in 0 .. 3 /\ s.succ_addr \in Node \cup {NULL}
  BY SelfDataFields DEF PC
<1>4. t \in SelfData /\ t.hash_table = EmptyTable /\ t.pc = "q18"
  BY <1>1, <1>2, <1>3 DEF WithoutRange, SelfData
<1> HIDE DEF t
<1>5. Entries(t) = {}
  BY <1>4 DEF Entries, EmptyTable
<1>6. Ready(t)
  BY <1>4, <1>5 DEF Ready, Sound
<1> QED
  BY <1>6 DEF t

(***************************************************************************)
(* The handlers.                                                           *)
(***************************************************************************)

(* The connections of a memory the handlers find. *)
LEMMA ReadyFields ==
  ASSUME NEW s, Ready(s)
  PROVE  /\ Sound(s) /\ s \in SelfData
         /\ s.succ_fd \in Conn \cup {NULL} /\ s.pred_fd \in Conn \cup {NULL}
  BY SelfDataFields DEF Ready, Sound

(* Sending one PDU either way. *)
LEMMA SendOne ==
  ASSUME NEW nt \in Net, NEW c \in Conn \cup {NULL}, NEW pdu \in PDU
  PROVE  SendForward(nt, c, <<pdu>>) \in Net /\ SendBackward(nt, c, <<pdu>>) \in Net
<1>1. <<pdu>> \in Seq(PDU)
  OBVIOUS
<1> QED
  BY <1>1, SendForwardType, SendBackwardType

(* ContinueGood for the memories the handlers build. *)
LEMMA ReadyContinue ==
  ASSUME NodeInv, NEW n \in Node, NEW s, Ready(s), NEW nt \in Net, Continue(n, s, nt)
  PROVE  NodeInv'
  BY ContinueGood DEF Ready

(* handle_val_insert: forwarded, stored in range, or lost in the freed table. *)
LEMMA ValInsertGood ==
  ASSUME NodeInv, NEW n \in Node, NEW s, Ready(s), NEW nt \in Net, NEW pdu \in PDU,
         pdu.type = "VAL_INSERT", handle_val_insert(n, s, pdu, nt)
  PROVE  NodeInv'
<1>1. pdu.key \in Key /\ pdu.val \in Value
  BY PDUFields
<1>2. SendForward(nt, s.succ_fd, <<pdu>>) \in Net
  BY ReadyFields, SendOne
<1>3. CASE ~check_range(s, pdu.key)
  BY <1>2, <1>3, ReadyContinue DEF handle_val_insert, handle_ht_insert
<1>4. CASE check_range(s, pdu.key) /\ ShuttingDown(s)
  BY <1>4, ReadyContinue, ExitGood DEF handle_val_insert, handle_ht_insert, UseFreedTable
<1>5. CASE check_range(s, pdu.key) /\ ~ShuttingDown(s)
  <2>1. Ready([s EXCEPT !.hash_table[pdu.key] = pdu.val])
    BY <1>1, <1>5, InsertReady
  <2> QED
    BY <1>5, <2>1, ReadyContinue DEF handle_val_insert, handle_ht_insert
<1> QED
  BY <1>3, <1>4, <1>5

(* handle_val_remove. *)
LEMMA ValRemoveGood ==
  ASSUME NodeInv, NEW n \in Node, NEW s, Ready(s), NEW nt \in Net, NEW pdu \in PDU,
         pdu.type = "VAL_REMOVE", handle_val_remove(n, s, pdu, nt)
  PROVE  NodeInv'
<1>1. pdu.key \in Key
  BY PDUFields
<1>2. SendForward(nt, s.succ_fd, <<pdu>>) \in Net
  BY ReadyFields, SendOne
<1>3. CASE ~check_range(s, pdu.key)
  BY <1>2, <1>3, ReadyContinue, ExitGood DEF handle_val_remove, handle_ht_remove
<1>4. CASE check_range(s, pdu.key) /\ ShuttingDown(s)
  BY <1>4, ReadyContinue, ExitGood DEF handle_val_remove, handle_ht_remove, UseFreedTable
<1>5. CASE check_range(s, pdu.key) /\ ~ShuttingDown(s)
  <2>1. Ready([s EXCEPT !.hash_table[pdu.key] = NULL])
    BY <1>1, RemoveReady
  <2> QED
    BY <1>5, <2>1, ReadyContinue DEF handle_val_remove, handle_ht_remove
<1> QED
  BY <1>3, <1>4, <1>5

(* handle_val_lookup answers with the value that was stored. *)
LEMMA ValLookupGood ==
  ASSUME NodeInv, NEW n \in Node, NEW s, Ready(s), NEW nt \in Net, NEW pdu \in PDU,
         pdu.type = "VAL_LOOKUP", handle_val_lookup(n, s, pdu, nt)
  PROVE  NodeInv'
<1>1. pdu.key \in Key
  BY PDUFields
<1>2. SendForward(nt, s.succ_fd, <<pdu>>) \in Net
  BY ReadyFields, SendOne
<1>3. CASE ~check_range(s, pdu.key)
  BY <1>2, <1>3, ReadyContinue, ExitGood DEF handle_val_lookup, handle_ht_lookup
<1>4. CASE check_range(s, pdu.key) /\ ShuttingDown(s)
  BY <1>4, ReadyContinue, ExitGood DEF handle_val_lookup, handle_ht_lookup, UseFreedTable
<1>5. CASE check_range(s, pdu.key) /\ ~ShuttingDown(s) /\ s.hash_table[pdu.key] = NULL
  BY <1>5, ReadyContinue DEF handle_val_lookup, handle_ht_lookup
<1>6. CASE check_range(s, pdu.key) /\ ~ShuttingDown(s) /\ s.hash_table[pdu.key] # NULL
  <2>1. s.hash_table[pdu.key] \in Value
    BY <1>1, <1>6, ReadyFields, SelfDataFields
  <2>2. LookupResponse(s, pdu.key) \in PDU
    BY <1>1, <2>1 DEF PDU, LookupResponse
  <2>3. SendUdp(nt, Client, LookupResponse(s, pdu.key)) \in Net
    BY <2>2, SendUdpType
  <2> QED
    BY <1>6, <2>3, ReadyContinue DEF handle_val_lookup, handle_ht_lookup
<1> QED
  BY <1>3, <1>4, <1>5, <1>6

(* accept_predecessor_connection blocks a node that has its range. *)
LEMMA AwaitingType == ASSUME NEW s PROVE Awaiting(s) \in PC \ {"off", "q3", "q7"}
  BY DEF Awaiting, PC

(* A connection that succeeds leads to a node. *)
LEMMA ConnectSucceedsNode ==
  ASSUME NEW nt, NEW n, NEW pred, NEW m \in Node \cup {NULL},
         NEW connected \in ConnectSucceeds(nt, n, pred, m), connected
  PROVE  m \in Node
  BY DEF ConnectSucceeds

(* handle_net_join of a node that is alone. *)
LEMMA JoinAloneGood ==
  ASSUME NodeInv, NEW n \in Node, NEW s, Ready(s), NEW nt \in Net, NEW pdu \in PDU,
         pdu.type = "NET_JOIN", JoinAlone(n, s, pdu, nt)
  PROVE  NodeInv'
<1>1. pdu.src \in Node
  BY PDUFields
<1> DEFINE c == NewConn(n, pdu.src)
           t == [ConnectedTo(AfterHandover(s), pdu.src, c) EXCEPT !.pc = Awaiting(s)]
           sent == SendForward(Connect(nt, c), c, Handover(s, n))
<1>2. CASE exit_with_error(n, nt)
  BY <1>2, ExitGood
<1>3. CASE Unused(n, pdu.src) # {} /\ Continue(n, t, sent)
  <2>1. c \in Conn
    BY <1>3, NewConnType
  <2>2. Ready(ConnectedTo(AfterHandover(s), pdu.src, c))
    BY <1>1, <2>1, AfterHandoverReady, SameTableUpdates
  <2>3. Ready(t)
    BY <2>2, AwaitingType, SameTableUpdates
  <2>4. Handover(s, n) \in Seq(PDU)
    BY HandoverType
  <2>5. sent \in Net
    BY <2>1, <2>4, ConnectType, SendForwardType
  <2> HIDE DEF t, sent
  <2> QED
    BY <1>3, <2>3, <2>5, ReadyContinue
<1> QED
  BY <1>2, <1>3 DEF JoinAlone

(* handle_net_join of the node with the largest range. *)
LEMMA JoinAtLargestGood ==
  ASSUME NodeInv, NEW n \in Node, NEW s, Ready(s), NEW nt \in Net, NEW pdu \in PDU,
         pdu.type = "NET_JOIN", JoinAtLargest(n, s, pdu, nt)
  PROVE  NodeInv'
<1>1. pdu.src \in Node
  BY PDUFields
<1> DEFINE closed == CloseConnector(
               SendForward(nt, s.succ_fd, <<[type |-> "NET_CLOSE_CONNECTION"]>>), s.succ_fd)
           c == NewConn(n, pdu.src)
           t == ConnectedTo(AfterHandover(s), pdu.src, c)
           sent == SendForward(Connect(closed, c), c, Handover(s, s.succ_addr))
<1>2. closed \in Net
  <2>1. SendForward(nt, s.succ_fd, <<[type |-> "NET_CLOSE_CONNECTION"]>>) \in Net
    BY ReadyFields, SendOne, PDUTypes
  <2> QED
    BY <2>1, ReadyFields, CloseType
<1>3. exit_with_error(n, closed) \/ (Unused(n, pdu.src) # {} /\ Continue(n, t, sent))
  BY DEF JoinAtLargest
<1> HIDE DEF closed
<1>4. CASE exit_with_error(n, closed)
  BY <1>2, <1>4, ExitGood
<1>5. CASE Unused(n, pdu.src) # {} /\ Continue(n, t, sent)
  <2>1. c \in Conn
    BY <1>5, NewConnType
  <2>2. Ready(t)
    BY <1>1, <2>1, AfterHandoverReady, SameTableUpdates
  <2>3. s.succ_addr \in Node \cup {NULL}
    BY ReadyFields, SelfDataFields
  <2>4. Handover(s, s.succ_addr) \in Seq(PDU)
    BY <2>3, HandoverType
  <2>5. sent \in Net
    BY <1>2, <2>1, <2>4, ConnectType, SendForwardType
  <2> HIDE DEF t, sent
  <2> QED
    BY <1>5, <2>2, <2>5, ReadyContinue
<1> QED
  BY <1>3, <1>4, <1>5

(* handle_net_join of any other node; the span is cut to a byte. *)
LEMMA ForwardJoinGood ==
  ASSUME NodeInv, NEW n \in Node, NEW s, Ready(s), NEW nt \in Net, NEW pdu \in PDU,
         pdu.type = "NET_JOIN", ForwardJoin(n, s, pdu, nt)
  PROVE  NodeInv'
<1> DEFINE span == self_range(s.range_start, s.range_end)
           sent == IF pdu.max_span < span THEN [pdu EXCEPT !.max = n, !.max_span = u8(span)] ELSE pdu
<1>1. span \in Int
  BY ReadyFields, SelfDataFields DEF self_range
<1>2. u8(span) \in Byte
  BY <1>1, u8Type
<1> HIDE DEF span
<1>3. pdu \in [type : {"NET_JOIN"}, src : Node, max_span : Byte, max : Node \cup {NULL}]
  BY DEF PDU
<1>4. [pdu EXCEPT !.max = n, !.max_span = u8(span)]
        \in [type : {"NET_JOIN"}, src : Node, max_span : Byte, max : Node \cup {NULL}]
  BY <1>2, <1>3
<1>5. sent \in PDU
  BY <1>4 DEF PDU
<1>6. Continue(n, s, SendForward(nt, s.succ_fd, <<sent>>))
  BY DEF ForwardJoin, span
<1> HIDE DEF sent
<1>7. SendForward(nt, s.succ_fd, <<sent>>) \in Net
  BY <1>5, ReadyFields, SendOne
<1> QED
  BY <1>6, <1>7, ReadyContinue

(* handle_net_join. *)
LEMMA NetJoinGood ==
  ASSUME NodeInv, NEW n \in Node, NEW s, Ready(s), NEW nt \in Net, NEW pdu \in PDU,
         pdu.type = "NET_JOIN", handle_net_join(n, s, pdu, nt)
  PROVE  NodeInv'
<1>1. \/ JoinAlone(n, s, pdu, nt) \/ exit_with_error(n, nt)
      \/ JoinAtLargest(n, s, pdu, nt) \/ ForwardJoin(n, s, pdu, nt)
  BY DEF handle_net_join
<1> QED
  BY <1>1, JoinAloneGood, ExitGood, JoinAtLargestGood, ForwardJoinGood

(* handle_net_new_range only widens the range. *)
LEMMA NetNewRangeGood ==
  ASSUME NodeInv, NEW n \in Node, NEW s, Ready(s), NEW nt \in Net, NEW pdu \in PDU,
         pdu.type = "NET_NEW_RANGE", handle_net_new_range(n, s, pdu, nt)
  PROVE  NodeInv'
<1>1. pdu.range_start \in Byte /\ pdu.range_end \in Byte
  BY PDUFields
<1>2. /\ pdu.range_start \in Int /\ pdu.range_end \in Int
      /\ s.range_start \in Int /\ s.range_end \in Int
  BY <1>1, ByteFacts, ReadyFields, SelfDataFields
<1>3. /\ SendBackward(nt, s.pred_fd, <<NewRangeResponse>>) \in Net
      /\ SendForward(nt, s.succ_fd, <<NewRangeResponse>>) \in Net
  BY ReadyFields, SendOne, PDUTypes DEF NewRangeResponse
<1>4. CASE pdu.range_start < s.range_start
  <2>1. pdu.range_start <= s.range_start
    BY <1>2, <1>4
  <2>2. Ready([s EXCEPT !.range_start = pdu.range_start])
    BY <1>1, <2>1, SameTableUpdates
  <2> QED
    BY <1>3, <1>4, <2>2, ReadyContinue, ExitGood DEF handle_net_new_range, update_range
<1>5. CASE ~(pdu.range_start < s.range_start) /\ pdu.range_end > s.range_end
  <2>1. s.range_end <= pdu.range_end
    BY <1>2, <1>5
  <2>2. Ready([s EXCEPT !.range_end = pdu.range_end])
    BY <1>1, <2>1, SameTableUpdates
  <2> QED
    BY <1>3, <1>5, <2>2, ReadyContinue, ExitGood DEF handle_net_new_range, update_range
<1>6. CASE ~(pdu.range_start < s.range_start) /\ ~(pdu.range_end > s.range_end)
  BY <1>6, ExitGood DEF handle_net_new_range, update_range
<1> QED
  BY <1>4, <1>5, <1>6

(* handle_net_leaving_pdu. *)
LEMMA NetLeavingGood ==
  ASSUME NodeInv, NEW n \in Node, NEW s, Ready(s), NEW nt \in Net, NEW pdu \in PDU,
         pdu.type = "NET_LEAVING", handle_net_leaving_pdu(n, s, pdu, nt)
  PROVE  NodeInv'
<1> DEFINE closed == CloseConnector(nt, s.succ_fd)
           c == NewConn(n, pdu.new)
           t == ConnectedTo(s, pdu.new, c)
<1>1. pdu.new \in Node \cup {NULL}
  BY PDUFields
<1>2. closed \in Net
  BY ReadyFields, CloseType
<1>3. CASE pdu.new = n
  <2>1. Ready([s EXCEPT !.succ_socket = FALSE, !.succ_fd = NULL])
    BY SameTableUpdates
  <2> QED
    BY <1>2, <1>3, <2>1, ReadyContinue DEF handle_net_leaving_pdu
<1>4. CASE pdu.new # n
  <2>1. \/ exit_with_error(n, closed)
        \/ pdu.new \in Node /\ Unused(n, pdu.new) # {} /\ Continue(n, t, Connect(closed, c))
    BY <1>1, <1>4, ConnectSucceedsNode DEF handle_net_leaving_pdu
  <2> HIDE DEF closed
  <2>2. CASE exit_with_error(n, closed)
    BY <1>2, <2>2, ExitGood
  <2>3. CASE pdu.new \in Node /\ Unused(n, pdu.new) # {} /\ Continue(n, t, Connect(closed, c))
    <3>1. c \in Conn
      BY <2>3, NewConnType
    <3>2. Ready(t)
      BY <2>3, <3>1, SameTableUpdates
    <3>3. Connect(closed, c) \in Net
      BY <1>2, <3>1, ConnectType
    <3> HIDE DEF t, c
    <3> QED
      BY <2>3, <3>2, <3>3, ReadyContinue
  <2> QED
    BY <2>1, <2>2, <2>3
<1> QED
  BY <1>3, <1>4

(* handle_net_close_connection. *)
LEMMA NetCloseConnectionGood ==
  ASSUME NodeInv, NEW n \in Node, NEW s, Ready(s), NEW nt \in Net,
         handle_net_close_connection(n, s, nt)
  PROVE  NodeInv'
<1> DEFINE closed == [s EXCEPT !.pred_socket = FALSE, !.pred_fd = NULL]
<1>1. CloseAcceptor(nt, s.pred_fd) \in Net
  BY ReadyFields, CloseType
<1>2. Ready(closed)
  BY SameTableUpdates
<1>3. \/ Continue(n, closed, CloseAcceptor(nt, s.pred_fd))
      \/ Continue(n, [closed EXCEPT !.pc = Awaiting(s)], CloseAcceptor(nt, s.pred_fd))
  BY DEF handle_net_close_connection
<1> HIDE DEF closed
<1>4. Ready([closed EXCEPT !.pc = Awaiting(s)])
  BY <1>2, AwaitingType, SameTableUpdates
<1> QED
  BY <1>1, <1>2, <1>3, <1>4, ReadyContinue

(* The switch in poll_for_incoming_data. *)
LEMMA HandlePDUGood ==
  ASSUME NodeInv, NEW n \in Node, NEW s, Ready(s), NEW nt \in Net, NEW pdu \in PDU,
         HandlePDU(n, s, pdu, nt)
  PROVE  NodeInv'
<1>1. \/ pdu.type = "VAL_INSERT" /\ handle_val_insert(n, s, pdu, nt)
      \/ pdu.type = "VAL_REMOVE" /\ handle_val_remove(n, s, pdu, nt)
      \/ pdu.type = "VAL_LOOKUP" /\ handle_val_lookup(n, s, pdu, nt)
      \/ pdu.type = "NET_JOIN" /\ handle_net_join(n, s, pdu, nt)
      \/ pdu.type = "NET_NEW_RANGE" /\ handle_net_new_range(n, s, pdu, nt)
      \/ pdu.type = "NET_LEAVING" /\ handle_net_leaving_pdu(n, s, pdu, nt)
      \/ pdu.type = "NET_CLOSE_CONNECTION" /\ handle_net_close_connection(n, s, nt)
      \/ Continue(n, s, nt)
  BY Zenon DEF HandlePDU
<1> QED
  BY <1>1, ValInsertGood, ValRemoveGood, ValLookupGood, NetJoinGood, NetNewRangeGood,
     NetLeavingGood, NetCloseConnectionGood, ReadyContinue

(***************************************************************************)
(* The steps of a process.                                                 *)
(***************************************************************************)

(* What the invariant says of one node. *)
LEMMA NodeFacts ==
  ASSUME NodeInv, NEW n \in Node
  PROVE  /\ Sound(self_data[n]) /\ self_data[n] \in SelfData /\ net \in Net
         /\ self_data[n].pc \notin {"off", "q3", "q7"} => Ready(self_data[n])
         /\ self_data[n].succ_fd \in Conn \cup {NULL} /\ self_data[n].pred_fd \in Conn \cup {NULL}
<1>1. Sound(self_data[n]) /\ self_data[n] \in SelfData /\ net \in Net
  BY DEF NodeInv
<1> QED
  BY <1>1, SelfDataFields DEF Ready

(* A memory without entries is sound whatever its range. *)
LEMMA NoEntriesSound ==
  ASSUME NEW s \in SelfData, Entries(s) = {}, NEW t \in SelfData, t.hash_table = s.hash_table
  PROVE  Sound(t)
  BY DEF Sound, Entries

(* main, q1, q2. *)
LEMMA StartGood == ASSUME NodeInv, NEW n \in Node, Start(n) PROVE NodeInv'
<1>1. Sound(Blank("q3"))
  BY BlankSound DEF PC
<1> QED
  BY <1>1, NodeFacts, ContinueGood DEF Start

(* q3 and q4: the whole range is taken with an empty table. *)
LEMMA Q3Good == ASSUME NodeInv, NEW n \in Node, q3(n) PROVE NodeInv'
<1> DEFINE s == self_data[n]
<1>1. PICK d \in net.udp :
        /\ d.dst = n /\ s.pc = "q3"
        /\ LET nt == [net EXCEPT !.udp = @ \ {d}]
           IN  IF d.pdu.type # "NET_GET_NODE_RESPONSE" THEN exit_with_error(n, nt)
               ELSE IF d.pdu.node = NULL
               THEN Continue(n, [s EXCEPT !.pc = "q6", !.range_start = 0, !.range_end = HASH_SIZE - 1], nt)
               ELSE Continue(n, [s EXCEPT !.pc = "q7"],
                        SendUdp(nt, d.pdu.node,
                                [type |-> "NET_JOIN", src |-> n, max_span |-> 0, max |-> NULL]))
  BY DEF q3
<1> DEFINE nt == [net EXCEPT !.udp = @ \ {d}]
           join == [type |-> "NET_JOIN", src |-> n, max_span |-> 0, max |-> NULL]
<1>2. s \in SelfData /\ Entries(s) = {}
  BY <1>1, NodeFacts DEF Sound
<1>3. nt \in Net /\ d.pdu \in PDU
  BY NodeFacts, TakeType
<1>4. join \in PDU
  BY ByteFacts DEF PDU
<1>5. Sound([s EXCEPT !.pc = "q6", !.range_start = 0, !.range_end = HASH_SIZE - 1])
  <2>1. "q6" \in PC
    BY DEF PC
  <2>2. [s EXCEPT !.pc = "q6", !.range_start = 0, !.range_end = HASH_SIZE - 1] \in SelfData
    BY <1>2, <2>1, ByteFacts DEF SelfData
  <2> QED
    BY <1>2, <2>2, NoEntriesSound DEF SelfData
<1>6. Sound([s EXCEPT !.pc = "q7"])
  <2>1. "q7" \in PC
    BY DEF PC
  <2>2. [s EXCEPT !.pc = "q7"] \in SelfData
    BY <1>2, <2>1 DEF SelfData
  <2> QED
    BY <1>2, <2>2, NoEntriesSound DEF SelfData
<1> HIDE DEF s, nt, join
<1>7. CASE exit_with_error(n, nt)
  BY <1>3, <1>7, ExitGood
<1>8. CASE Continue(n, [s EXCEPT !.pc = "q6", !.range_start = 0, !.range_end = HASH_SIZE - 1], nt)
  BY <1>3, <1>5, <1>8, ContinueGood
<1>9. CASE d.pdu.type = "NET_GET_NODE_RESPONSE" /\ d.pdu.node # NULL
           /\ Continue(n, [s EXCEPT !.pc = "q7"], SendUdp(nt, d.pdu.node, join))
  <2>1. d.pdu.node \in Node
    BY <1>3, <1>9, PDUFields
  <2>2. SendUdp(nt, d.pdu.node, join) \in Net
    BY <1>3, <1>4, <2>1, SendUdpType
  <2> QED
    BY <1>6, <1>9, <2>2, ContinueGood
<1> QED
  BY <1>1, <1>7, <1>8, <1>9 DEF nt, join

(* q7 and q8: the range in NET_JOIN_RESPONSE is taken with an empty table. *)
LEMMA Q7Good == ASSUME NodeInv, NEW n \in Node, q7(n) PROVE NodeInv'
<1> DEFINE c == Head(net.backlog[n])
           pdu == Head(net.fwd[c])
           nt == [net EXCEPT !.backlog[n] = Tail(@), !.fwd[c] = Tail(@)]
           d == NewConn(n, pdu.next)
           s == [self_data[n] EXCEPT
                    !.pc = "q6", !.pred_socket = TRUE, !.pred_fd = c,
                    !.range_start = pdu.range_start, !.range_end = pdu.range_end]
<1>1. self_data[n].pc = "q7" /\ net.backlog[n] # <<>> /\ net.fwd[c] # <<>>
  BY DEF q7
<1>2. self_data[n] \in SelfData /\ Entries(self_data[n]) = {} /\ net \in Net
  BY <1>1, NodeFacts DEF Sound
<1>3. c \in Conn /\ [net EXCEPT !.backlog[n] = Tail(@)] \in Net
  BY <1>1, <1>2, TakeType
<1>4. pdu \in PDU /\ nt \in Net
  <2>1. [net EXCEPT !.backlog[n] = Tail(@)].fwd = net.fwd
    BY <1>2 DEF Net
  <2> HIDE DEF c
  <2>2. pdu \in PDU
    BY <1>1, <1>2, <1>3, TakeType
  <2>3. nt \in Net
    BY <1>1, <1>3, <2>1, TakeType
  <2> QED
    BY <2>2, <2>3
<1>5. \/ exit_with_error(n, nt)
      \/ /\ pdu.type = "NET_JOIN_RESPONSE"
         /\ \E connected \in ConnectSucceeds(nt, n, c, pdu.next) : connected
         /\ Unused(n, pdu.next) # {}
         /\ Continue(n, ConnectedTo(s, pdu.next, d), Connect(nt, d))
  BY DEF q7
<1> HIDE DEF c, pdu, nt
<1>6. CASE exit_with_error(n, nt)
  BY <1>4, <1>6, ExitGood
<1>7. CASE /\ pdu.type = "NET_JOIN_RESPONSE"
           /\ \E connected \in ConnectSucceeds(nt, n, c, pdu.next) : connected
           /\ Unused(n, pdu.next) # {}
           /\ Continue(n, ConnectedTo(s, pdu.next, d), Connect(nt, d))
  <2>1. pdu.range_start \in Byte /\ pdu.range_end \in Byte /\ pdu.next \in Node \cup {NULL}
    BY <1>4, <1>7, PDUFields
  <2>2. pdu.next \in Node
    BY <1>7, <2>1, ConnectSucceedsNode
  <2>3. d \in Conn
    BY <1>7, NewConnType
  <2>4. "q6" \in PC
    BY DEF PC
  <2>5. s \in SelfData /\ s.hash_table = self_data[n].hash_table /\ s.pc = "q6"
    BY <1>2, <1>3, <2>1, <2>4 DEF SelfData
  <2> HIDE DEF s, d
  <2>6. Ready(s)
    BY <1>2, <2>5, NoEntriesSound DEF Ready
  <2>7. Ready(ConnectedTo(s, pdu.next, d))
    BY <2>2, <2>3, <2>6, SameTableUpdates
  <2>8. Connect(nt, d) \in Net
    BY <1>4, <2>3, ConnectType
  <2> QED
    BY <1>7, <2>7, <2>8, ReadyContinue
<1> QED
  BY <1>5, <1>6, <1>7

(* The return of a blocked accept_predecessor_connection. *)
LEMMA AcceptGood == ASSUME NodeInv, NEW n \in Node, accept_predecessor_connection(n) PROVE NodeInv'
<1> DEFINE s == self_data[n]
           c == Head(net.backlog[n])
           pc == IF s.pc = "accept" THEN "q6" ELSE "q18"
           pos == IF s.pc = "accept" THEN 0 ELSE 3
           t == [s EXCEPT !.pc = pc, !.pollPos = pos, !.pred_socket = TRUE, !.pred_fd = c]
<1>1. /\ s.pc \in {"accept", "q18accept"} /\ net.backlog[n] # <<>>
      /\ Continue(n, t, [net EXCEPT !.backlog[n] = Tail(@)])
  BY DEF accept_predecessor_connection
<1>2. s \in SelfData /\ Sound(s) /\ net \in Net
  BY NodeFacts
<1>3. c \in Conn /\ [net EXCEPT !.backlog[n] = Tail(@)] \in Net
  BY <1>1, <1>2, TakeType
<1>4. pc \in PC /\ pc \notin {"off", "q3", "q7"} /\ pos \in 0 .. 3
  BY DEF PC
<1>5. s.range_start <= s.range_start /\ s.range_end <= s.range_end
  BY <1>2, SelfDataFields
<1> HIDE DEF s, c, pc, pos
<1>6. t \in SelfData
  BY <1>2, <1>3, <1>4 DEF SelfData
<1>7. /\ t.hash_table = s.hash_table /\ t.pc = pc
      /\ t.range_start = s.range_start /\ t.range_end = s.range_end
  BY <1>2 DEF SelfData
<1> HIDE DEF t
<1>8. Ready(t)
  BY <1>2, <1>4, <1>5, <1>6, <1>7, SameTable
<1> QED
  BY <1>1, <1>3, <1>8, ReadyContinue

(* Coming to the next descriptor of the last poll. *)
LEMMA PolledReady ==
  ASSUME NodeInv, NEW n \in Node, NEW pos \in 0 .. 3, NEW p, Polls(n, p)
  PROVE  Ready(Polled(n, pos))
<1>1. Ready(self_data[n])
  BY NodeFacts DEF Polls
<1> QED
  BY <1>1, SameTableUpdates DEF Polled

(* poll_for_incoming_data with a PDU to read. *)
LEMMA PollGood ==
  ASSUME NodeInv, NEW n \in Node, PollUdp(n) \/ PollSuccessor(n) \/ PollPredecessor(n)
  PROVE  NodeInv'
<1>1. CASE PollUdp(n)
  <2>1. PICK d \in net.udp : HandlePDU(n, Polled(n, 1), d.pdu, [net EXCEPT !.udp = @ \ {d}])
    BY <1>1 DEF PollUdp
  <2>2. Ready(Polled(n, 1))
    BY <1>1, PolledReady DEF PollUdp
  <2>3. [net EXCEPT !.udp = @ \ {d}] \in Net /\ d.pdu \in PDU
    BY NodeFacts, TakeType
  <2> QED
    BY <2>1, <2>2, <2>3, HandlePDUGood
<1>2. CASE PollSuccessor(n)
  <2> DEFINE c == self_data[n].succ_fd
  <2>1. /\ Polls(n, 1) /\ c # NULL /\ net.bwd[c] # <<>>
        /\ HandlePDU(n, Polled(n, 1), Head(net.bwd[c]), [net EXCEPT !.bwd[c] = Tail(@)])
    BY <1>2 DEF PollSuccessor
  <2>2. Ready(Polled(n, 1))
    BY <2>1, PolledReady
  <2>3. [net EXCEPT !.bwd[c] = Tail(@)] \in Net /\ Head(net.bwd[c]) \in PDU
    BY <2>1, NodeFacts, TakeType
  <2> QED
    BY <2>1, <2>2, <2>3, HandlePDUGood
<1>3. CASE PollPredecessor(n)
  <2> DEFINE c == self_data[n].pred_fd
  <2>1. /\ Polls(n, 2) /\ c # NULL /\ net.fwd[c] # <<>>
        /\ HandlePDU(n, Polled(n, 2), Head(net.fwd[c]), [net EXCEPT !.fwd[c] = Tail(@)])
    BY <1>3 DEF PollPredecessor
  <2>2. Ready(Polled(n, 2))
    BY <2>1, PolledReady
  <2>3. [net EXCEPT !.fwd[c] = Tail(@)] \in Net /\ Head(net.fwd[c]) \in PDU
    BY <2>1, NodeFacts, TakeType
  <2> QED
    BY <2>1, <2>2, <2>3, HandlePDUGood
<1> QED
  BY <1>1, <1>2, <1>3

(* poll_for_incoming_data on a connection that has ended. *)
LEMMA EndedGood ==
  ASSUME NodeInv, NEW n \in Node,
         \/ SuccessorEnded(n) \/ PredecessorEnded(n)
         \/ SuccessorReset(n) \/ PredecessorReset(n)
  PROVE  NodeInv'
<1>1. net \in Net
  BY NodeFacts
<1>2. CASE SuccessorEnded(n)
  <2>1. Polls(n, 1) /\ Continue(n, [Polled(n, 2) EXCEPT !.succ_fd = NULL], net)
    BY <1>2 DEF SuccessorEnded
  <2>2. Ready(Polled(n, 2))
    BY <2>1, PolledReady
  <2>3. Ready([Polled(n, 2) EXCEPT !.succ_fd = NULL])
    BY <2>2, SameTableUpdates
  <2> QED
    BY <1>1, <2>1, <2>3, ReadyContinue
<1>3. CASE PredecessorEnded(n)
  <2>1. Polls(n, 2) /\ Continue(n, [Polled(n, 3) EXCEPT !.pred_fd = NULL], net)
    BY <1>3 DEF PredecessorEnded
  <2>2. Ready(Polled(n, 3))
    BY <2>1, PolledReady
  <2>3. Ready([Polled(n, 3) EXCEPT !.pred_fd = NULL])
    BY <2>2, SameTableUpdates
  <2> QED
    BY <1>1, <2>1, <2>3, ReadyContinue
<1>4. CASE SuccessorReset(n)
  <2>1. /\ Polls(n, 1)
        /\ Continue(n, [Polled(n, 2) EXCEPT !.succ_fd = NULL, !.succ_socket = FALSE], net)
    BY <1>4 DEF SuccessorReset
  <2>2. Ready(Polled(n, 2))
    BY <2>1, PolledReady
  <2>3. Ready([Polled(n, 2) EXCEPT !.succ_fd = NULL, !.succ_socket = FALSE])
    BY <2>2, SameTableUpdates
  <2> QED
    BY <1>1, <2>1, <2>3, ReadyContinue
<1>5. CASE PredecessorReset(n)
  <2>1. /\ Polls(n, 2)
        /\ Continue(n, [Polled(n, 3) EXCEPT !.pred_fd = NULL, !.pred_socket = FALSE], net)
    BY <1>5 DEF PredecessorReset
  <2>2. Ready(Polled(n, 3))
    BY <2>1, PolledReady
  <2>3. Ready([Polled(n, 3) EXCEPT !.pred_fd = NULL, !.pred_socket = FALSE])
    BY <2>2, SameTableUpdates
  <2> QED
    BY <1>1, <2>1, <2>3, ReadyContinue
<1> QED
  BY <1>2, <1>3, <1>4, <1>5

(* The first part of shutdown_proceedure. *)
LEMMA ShutdownGood == ASSUME NodeInv, NEW n \in Node, shutdown_proceedure(n) PROVE NodeInv'
<1> DEFINE s == self_data[n]
<1>1. s.pc = "q6"
  BY DEF shutdown_proceedure
<1>2. s \in SelfData /\ Ready(s) /\ net \in Net
  BY <1>1, NodeFacts
<1>3. Ready([s EXCEPT !.pc = "q11"])
  <2>1. "q11" \in PC \ {"off", "q3", "q7"}
    BY DEF PC
  <2> QED
    BY <1>2, <2>1, SameTableUpdates
<1>4. SendNewRange(s, net) \in Net
  <2>1. s.range_start \in Byte /\ s.range_end \in Byte
    BY <1>2, SelfDataFields
  <2> DEFINE pdu == [type |-> "NET_NEW_RANGE", range_start |-> s.range_start, range_end |-> s.range_end]
  <2>2. pdu \in PDU
    BY <2>1, PDUTypes
  <2> HIDE DEF pdu
  <2>3. SendForward(net, s.succ_fd, <<pdu>>) \in Net /\ SendBackward(net, s.pred_fd, <<pdu>>) \in Net
    BY <1>2, <2>2, ReadyFields, SendOne
  <2> QED
    BY <2>3 DEF SendNewRange, pdu
<1>5. \/ exit_success(n, net) \/ exit_with_error(n, net)
      \/ Continue(n, [s EXCEPT !.pc = "q11"], SendNewRange(s, net))
  BY DEF shutdown_proceedure
<1> QED
  BY <1>2, <1>3, <1>4, <1>5, ReadyContinue, ExitGood

(* send_all_entries. *)
LEMMA SendAllEntriesType ==
  ASSUME NEW s, Ready(s), NEW nt \in Net
  PROVE  SendAllEntries(s, nt) \in Net
<1>1. Inserts(s, Entries(s)) \in Seq(PDU)
  BY ReadyFields, InsertsType
<1> QED
  BY <1>1, ReadyFields, SendForwardType, SendBackwardType DEF SendAllEntries

(* The second part of shutdown_proceedure. *)
LEMMA ResponseGood ==
  ASSUME NodeInv, NEW n \in Node, ReceiveNewRangeResponse(n) \/ NewRangeConnectionEnded(n)
  PROVE  NodeInv'
<1> DEFINE s == self_data[n]
           c == NewRangeFd(s)
<1>1. s.pc = "q11"
  BY DEF ReceiveNewRangeResponse, NewRangeConnectionEnded
<1>2. s \in SelfData /\ Ready(s) /\ net \in Net
  BY <1>1, NodeFacts
<1>3. Ready(WithoutRange(s))
  BY <1>2, WithoutRangeReady
<1>4. c \in Conn \cup {NULL}
  BY <1>2, ReadyFields DEF NewRangeFd
<1>5. CASE NewRangeConnectionEnded(n)
  <2>1. Continue(n, WithoutRange(s), SendAllEntries(s, net))
    BY <1>5 DEF NewRangeConnectionEnded
  <2> QED
    BY <1>2, <1>3, <2>1, SendAllEntriesType, ReadyContinue
<1>6. CASE ReceiveNewRangeResponse(n)
  <2> DEFINE nt == IF ToSuccessor(s) THEN [net EXCEPT !.bwd[c] = Tail(@)]
                   ELSE [net EXCEPT !.fwd[c] = Tail(@)]
  <2>1. /\ c # NULL /\ IF ToSuccessor(s) THEN net.bwd[c] # <<>> ELSE net.fwd[c] # <<>>
        /\ \/ Continue(n, WithoutRange(s), SendAllEntries(s, nt))
           \/ exit_with_error(n, SendAllEntries(s, nt))
    BY <1>6 DEF ReceiveNewRangeResponse
  <2> HIDE DEF c, s
  <2>2. nt \in Net
    BY <1>2, <1>4, <2>1, TakeType
  <2> HIDE DEF nt
  <2>3. SendAllEntries(s, nt) \in Net
    BY <1>2, <2>2, SendAllEntriesType
  <2> QED
    BY <1>3, <2>1, <2>3, ReadyContinue, ExitGood
<1> QED
  BY <1>5, <1>6

(* The last part of shutdown_proceedure. *)
LEMMA LeaveGood == ASSUME NodeInv, NEW n \in Node, Leave(n) PROVE NodeInv'
<1> DEFINE s == self_data[n]
           closing == SendForward(net, s.succ_fd, <<[type |-> "NET_CLOSE_CONNECTION"]>>)
           leaving == SendBackward(closing, s.pred_fd, <<[type |-> "NET_LEAVING", new |-> s.leaving_new]>>)
<1>1. exit_success(n, leaving)
  BY DEF Leave
<1>2. s \in SelfData /\ net \in Net /\ s.succ_fd \in Conn \cup {NULL} /\ s.pred_fd \in Conn \cup {NULL}
  BY NodeFacts
<1>3. closing \in Net
  BY <1>2, SendOne, PDUTypes
<1>4. [type |-> "NET_LEAVING", new |-> s.leaving_new] \in PDU
  BY <1>2, SelfDataFields, PDUTypes
<1> HIDE DEF closing, s
<1>5. leaving \in Net
  BY <1>2, <1>3, <1>4, SendOne
<1> QED
  BY <1>1, <1>5, ExitGood

(* Timeouts and signals. *)
LEMMA FailureGood ==
  ASSUME NodeInv, NEW n \in Node, Timeout(n) \/ Interrupted(n)
  PROVE  NodeInv'
<1>1. exit_with_error(n, net)
  BY DEF Timeout, Interrupted
<1> QED
  BY <1>1, NodeFacts, ExitGood

(* Every step of a process. *)
LEMMA NodeStepGood == ASSUME NodeInv, NEW n \in Node, NodeStep(n) PROVE NodeInv'
<1>1. \/ q3(n) \/ q7(n) \/ accept_predecessor_connection(n)
      \/ PollUdp(n) \/ PollSuccessor(n) \/ PollPredecessor(n)
      \/ SuccessorEnded(n) \/ PredecessorEnded(n)
      \/ ReceiveNewRangeResponse(n) \/ NewRangeConnectionEnded(n) \/ Leave(n)
  BY DEF NodeStep
<1> QED
  BY <1>1, Q3Good, Q7Good, AcceptGood, PollGood, EndedGood, ResponseGood, LeaveGood

(***************************************************************************)
(* The whole system.                                                       *)
(***************************************************************************)

(* The rest of TypeOK: the tracker and the client. *)
OthersInv == nodes \subseteq Node /\ request \in Request \cup {NULL} /\ ops \in 0 .. MaxOps

(* Steps that change the kernel only. *)
LEMMA NetOnlyGood ==
  ASSUME NodeInv, UNCHANGED self_data, net' \in Net
  PROVE  NodeInv'
<1>1. \A n \in Node : Sound(self_data[n])'
  BY DEF NodeInv, Sound, Entries, check_range
<1> QED
  BY <1>1 DEF NodeInv

(* The requests of client.rs. *)
LEMMA ClientSendGood ==
  ASSUME NodeInv, OthersInv, NEW pdu \in Request, ClientSend(pdu)
  PROVE  NodeInv' /\ OthersInv'
<1>1. PICK n \in nodes : net' = SendUdp(net, n, pdu)
  BY DEF ClientSend
<1>2. n \in Node /\ pdu \in PDU
  BY DEF OthersInv, Request
<1>3. net' \in Net
  BY <1>1, <1>2, SendUdpType DEF NodeInv
<1>4. NodeInv'
  BY <1>3, NetOnlyGood DEF ClientSend
<1>5. OthersInv'
  BY RingAssumption DEF ClientSend, OthersInv
<1> QED
  BY <1>4, <1>5

(* The invariant holds initially. *)
LEMMA InitGood == Init => NodeInv /\ OthersInv
<1> SUFFICES ASSUME Init PROVE NodeInv /\ OthersInv
  OBVIOUS
<1>1. Sound(Blank("off")) /\ Blank("off") \in SelfData
  BY BlankSound DEF PC, Sound
<1>2. NodeInv
  BY <1>1, QuietNetType DEF Init, NodeInv
<1>3. OthersInv
  BY RingAssumption DEF Init, OthersInv
<1> QED
  BY <1>2, <1>3

(* Every step of the system keeps the invariant. *)
LEMMA NextGood == NodeInv /\ OthersInv /\ [Next]_vars => NodeInv' /\ OthersInv'
<1> SUFFICES ASSUME NodeInv, OthersInv, [Next]_vars PROVE NodeInv' /\ OthersInv'
  OBVIOUS
<1>1. ASSUME NEW n \in Node, StartNode(n) PROVE NodeInv' /\ OthersInv'
  BY <1>1, StartGood DEF StartNode, OthersInv
<1>2. ASSUME NEW n \in Node, set_shutdown(n) PROVE NodeInv' /\ OthersInv'
  BY <1>2, ShutdownGood DEF set_shutdown, OthersInv
<1>3. ASSUME NEW n \in Node, RunNode(n) PROVE NodeInv' /\ OthersInv'
  BY <1>3, NodeStepGood DEF RunNode, OthersInv
<1>4. ASSUME NEW n \in Node, NodeFault(n) PROVE NodeInv' /\ OthersInv'
  BY <1>4, FailureGood, EndedGood DEF NodeFault, OthersInv
<1>5. ASSUME NEW n \in Node, NetAlive(n) \/ NodeTimeout(n) PROVE NodeInv' /\ OthersInv'
  <2>1. NodeInv'
    BY <1>5, NetOnlyGood DEF NetAlive, NodeTimeout, NodeInv
  <2>2. OthersInv'
    BY <1>5 DEF NetAlive, NodeTimeout, OthersInv
  <2> QED
    BY <2>1, <2>2
<1>6. ASSUME NEW n \in Node, NetGetNode(n) PROVE NodeInv' /\ OthersInv'
  <2>1. PICK m \in Node \cup {NULL} :
          net' = SendUdp(net, n, [type |-> "NET_GET_NODE_RESPONSE", node |-> m])
    BY <1>6 DEF NetGetNode, OthersInv
  <2>2. net' \in Net
    BY <2>1, SendUdpType, PDUTypes DEF NodeInv
  <2>3. NodeInv'
    BY <1>6, <2>2, NetOnlyGood DEF NetGetNode
  <2>4. OthersInv'
    BY <1>6 DEF NetGetNode, OthersInv
  <2> QED
    BY <2>3, <2>4
<1>7. ASSUME LoseDatagram PROVE NodeInv' /\ OthersInv'
  <2>1. net' \in Net
    BY <1>7, TakeType DEF LoseDatagram, NodeInv
  <2>2. NodeInv'
    BY <1>7, <2>1, NetOnlyGood DEF LoseDatagram
  <2> QED
    BY <1>7, <2>2 DEF LoseDatagram, OthersInv
<1>8. ASSUME ClientInsert \/ ClientRemove \/ ClientLookup PROVE NodeInv' /\ OthersInv'
  <2>1. /\ \A k \in Key, v \in Value : [type |-> "VAL_INSERT", key |-> k, val |-> v] \in Request
        /\ \A k \in Key : [type |-> "VAL_REMOVE", key |-> k] \in Request
        /\ \A k \in Key : [type |-> "VAL_LOOKUP", key |-> k] \in Request
    BY DEF Request, PDU
  <2> QED
    BY <1>8, <2>1, ClientSendGood DEF ClientInsert, ClientRemove, ClientLookup
<1>9. ASSUME ClientReceive PROVE NodeInv' /\ OthersInv'
  <2>1. net' \in Net
    BY <1>9, TakeType DEF ClientReceive, NodeInv
  <2>2. NodeInv'
    BY <1>9, <2>1, NetOnlyGood DEF ClientReceive
  <2> QED
    BY <1>9, <2>2 DEF ClientReceive, OthersInv
<1>10. CASE UNCHANGED vars
  <2>1. NodeInv'
    BY <1>10, NetOnlyGood DEF vars, NodeInv
  <2> QED
    BY <1>10, <2>1 DEF vars, OthersInv
<1> QED
  BY <1>1, <1>2, <1>3, <1>4, <1>5, <1>6, <1>7, <1>8, <1>9, <1>10 DEF Next

(* The inductive invariant is an invariant. *)
LEMMA Invariance == Spec => [](NodeInv /\ OthersInv)
  BY InitGood, NextGood, PTL DEF Spec

(* Every variable keeps its type in every behaviour: the indices the handlers
   compute stay bytes, the streams carry only PDUs, and no descriptor, address
   or table entry is anything else, however the environment behaves. *)
THEOREM TypeCorrect == Spec => []TypeOK
<1>1. NodeInv /\ OthersInv => TypeOK
  BY DEF NodeInv, OthersInv, TypeOK
<1> QED
  BY <1>1, Invariance, PTL

(* Every entry of every node lies in the node's range, however joins, leaves,
   requests, signals, lost datagrams and timeouts interleave. *)
THEOREM EntriesInRange == Spec => []StoredInRange
<1>1. NodeInv => StoredInRange
  BY DEF NodeInv, Sound, StoredInRange
<1> QED
  BY <1>1, Invariance, PTL

(***************************************************************************)
(* The connections.  LastWords and JoinResponseFirst are about what the two*)
(* ends of a connection do to its streams, so the invariant speaks of      *)
(* memories sd and a kernel nt that a handler has changed in part.  The    *)
(* argument goes: every operation on the kernel and every change of a      *)
(* memory keeps Ends and Greets; every handler is a composition of these.  *)
(***************************************************************************)

(* A PDU of type t can only be the last one of a stream; it is not there. *)
Ending(q, t) == \A i \in DOMAIN q : q[i].type = t => i = Len(q)

Without(q, t) == \A pdu \in Range(q) : pdu.type # t

(* A node that has not been let into the network. *)
Young(s) == s.pc \in {"off", "q3", "q7"}

(* An address somebody connects to with nothing to say: not that of a node
   that still waits for its first connection. *)
Known(sd, nt, m) == m = NULL \/ (Young(sd[m]) => nt.backlog[m] # <<>>)

PduKnown(sd, nt, pdu) ==
  /\ pdu.type = "NET_JOIN_RESPONSE" => Known(sd, nt, pdu.next)
  /\ pdu.type = "NET_LEAVING" => Known(sd, nt, pdu.new)

(* The descriptors of a process: its own ends, none where the code has none. *)
Own(n, s) ==
  /\ s.succ_fd # NULL => s.succ_fd.from = n
  /\ s.pred_fd # NULL => s.pred_fd.to = n
  /\ ~s.succ_socket => s.succ_fd = NULL
  /\ ~s.pred_socket => s.pred_fd = NULL
  /\ s.pc \in {"accept", "q18accept"} => s.pred_fd = NULL
  /\ Young(s) => s.pred_fd = NULL /\ s.succ_fd = NULL

(* AcceptorHolds, of the memories sd. *)
Holds(sd, nt, c) == sd[c.to].pred_fd = c \/ c \in Range(nt.backlog[c.to])

(* Streams are read by whoever holds their end, else they are empty; and the
   writer of a last word has let go of the connection, but for x and y, on
   which it is about to. *)
FwdOK(sd, nt, x, c) ==
  /\ ~Holds(sd, nt, c) => nt.fwd[c] = <<>>
  /\ Ending(nt.fwd[c], "NET_CLOSE_CONNECTION")
  /\ c = x \/ sd[c.from].succ_fd # c \/ Without(nt.fwd[c], "NET_CLOSE_CONNECTION")

BwdOK(sd, nt, y, c) ==
  /\ sd[c.from].succ_fd # c => nt.bwd[c] = <<>>
  /\ Ending(nt.bwd[c], "NET_LEAVING")
  /\ c = y \/ ~Holds(sd, nt, c) \/ Without(nt.bwd[c], "NET_LEAVING")

Ends(sd, nt, x, y) ==
  /\ \A n \in Node : Own(n, sd[n])
  /\ \A n \in Node : \A c \in Range(nt.backlog[n]) : c.to = n
  /\ \A c \in Conn : FwdOK(sd, nt, x, c)
  /\ \A c \in Conn : BwdOK(sd, nt, y, c)

(* The first connection of a young node brings NET_JOIN_RESPONSE. *)
Greeted(sd, nt, n) ==
  Young(sd[n]) /\ nt.backlog[n] # <<>> =>
      /\ nt.fwd[Head(nt.backlog[n])] # <<>>
      /\ Head(nt.fwd[Head(nt.backlog[n])]).type = "NET_JOIN_RESPONSE"

Greets(sd, nt) ==
  /\ \A n \in Node : Known(sd, nt, sd[n].succ_addr) /\ Known(sd, nt, sd[n].leaving_new)
  /\ \A c \in Conn : \A pdu \in Range(nt.fwd[c]) : PduKnown(sd, nt, pdu)
  /\ \A c \in Conn : \A pdu \in Range(nt.bwd[c]) : PduKnown(sd, nt, pdu)
  /\ \A d \in nt.udp : PduKnown(sd, nt, d.pdu)
  /\ \A n \in Node : Greeted(sd, nt, n)

(* The inductive invariant. *)
ConnInv == Ends(self_data, net, NULL, NULL) /\ Greets(self_data, net)

(***************************************************************************)
(* Streams.                                                                *)
(***************************************************************************)

(* The PDUs of a stream after a read and after a write. *)
LEMMA StreamRange ==
  ASSUME NEW S, NEW q \in Seq(S)
  PROVE  /\ Range(<<>>) = {}
         /\ q # <<>> => Head(q) \in Range(q) /\ Range(Tail(q)) \subseteq Range(q)
         /\ q # <<>> => Range(q) = Range(Tail(q)) \cup {Head(q)}
         /\ \A p \in Seq(S) : Range(q \o p) = Range(q) \cup Range(p)
         /\ \A e \in S : Range(<<e>>) = {e}
<1>1. Range(<<>>) = {}
  BY DEF Range
<1>2. ASSUME q # <<>> PROVE Range(q) = Range(Tail(q)) \cup {Head(q)}
  <2>1. /\ Len(q) \in Nat \ {0} /\ Len(Tail(q)) = Len(q) - 1 /\ Head(q) = q[1]
        /\ Tail(q) \in Seq(S) /\ \A i \in 1 .. Len(q) - 1 : Tail(q)[i] = q[i + 1]
        /\ DOMAIN q = 1 .. Len(q) /\ DOMAIN Tail(q) = 1 .. Len(q) - 1
    BY <1>2
  <2>2. ASSUME NEW e \in Range(q) PROVE e \in Range(Tail(q)) \cup {Head(q)}
    <3>1. PICK i \in 1 .. Len(q) : e = q[i]
      BY <2>1 DEF Range
    <3>2. CASE i = 1
      BY <2>1, <3>1, <3>2
    <3>3. CASE i # 1
      <4>1. i - 1 \in 1 .. Len(q) - 1 /\ e = Tail(q)[i - 1]
        BY <2>1, <3>1, <3>3
      <4> QED
        BY <2>1, <4>1 DEF Range
    <3> QED
      BY <3>2, <3>3
  <2>3. ASSUME NEW e \in Range(Tail(q)) PROVE e \in Range(q)
    <3>1. PICK i \in 1 .. Len(q) - 1 : e = q[i + 1]
      BY <2>1 DEF Range
    <3>2. i + 1 \in 1 .. Len(q)
      BY <2>1
    <3> QED
      BY <2>1, <3>1, <3>2 DEF Range
  <2>4. Head(q) \in Range(q)
    BY <2>1 DEF Range
  <2> QED
    BY <2>2, <2>3, <2>4
<1>3. ASSUME NEW p \in Seq(S) PROVE Range(q \o p) = Range(q) \cup Range(p)
  <2>1. /\ Len(q) \in Nat /\ Len(p) \in Nat /\ q \o p \in Seq(S) /\ Len(q \o p) = Len(q) + Len(p)
        /\ DOMAIN q = 1 .. Len(q) /\ DOMAIN p = 1 .. Len(p)
        /\ DOMAIN (q \o p) = 1 .. Len(q) + Len(p)
        /\ \A i \in 1 .. Len(q) + Len(p) : (q \o p)[i] = IF i <= Len(q) THEN q[i] ELSE p[i - Len(q)]
    OBVIOUS
  <2>2. ASSUME NEW e \in Range(q \o p) PROVE e \in Range(q) \cup Range(p)
    <3>1. PICK i \in 1 .. Len(q) + Len(p) : e = (q \o p)[i]
      BY <2>1 DEF Range
    <3>2. CASE i <= Len(q)
      BY <2>1, <3>1, <3>2 DEF Range
    <3>3. CASE ~(i <= Len(q))
      <4>1. i - Len(q) \in 1 .. Len(p) /\ e = p[i - Len(q)]
        BY <2>1, <3>1, <3>3
      <4> QED
        BY <2>1, <4>1 DEF Range
    <3> QED
      BY <3>2, <3>3
  <2>3. ASSUME NEW e \in Range(q) PROVE e \in Range(q \o p)
    <3>1. PICK i \in 1 .. Len(q) : e = q[i]
      BY <2>1 DEF Range
    <3>2. i \in 1 .. Len(q) + Len(p) /\ (q \o p)[i] = e
      BY <2>1, <3>1
    <3> QED
      BY <2>1, <3>2 DEF Range
  <2>4. ASSUME NEW e \in Range(p) PROVE e \in Range(q \o p)
    <3>1. PICK i \in 1 .. Len(p) : e = p[i]
      BY <2>1 DEF Range
    <3>2. i + Len(q) \in 1 .. Len(q) + Len(p) /\ (q \o p)[i + Len(q)] = e
      BY <2>1, <3>1
    <3> QED
      BY <2>1, <3>2 DEF Range
  <2> QED
    BY <2>2, <2>3, <2>4
<1>4. \A e \in S : Range(<<e>>) = {e}
  BY DEF Range
<1> QED
  BY <1>1, <1>2, <1>3, <1>4

(* A listen queue after a connection has entered it. *)
LEMMA QueueAppend ==
  ASSUME NEW q \in Seq(Conn), NEW c \in Conn
  PROVE  /\ Append(q, c) # <<>> /\ Range(Append(q, c)) = Range(q) \cup {c}
         /\ q = <<>> => Head(Append(q, c)) = c
         /\ q # <<>> => Head(Append(q, c)) = Head(q)
<1>1. /\ Len(q) \in Nat /\ DOMAIN q = 1 .. Len(q) /\ DOMAIN Append(q, c) = 1 .. Len(q) + 1
      /\ \A i \in 1 .. Len(q) : Append(q, c)[i] = q[i]
      /\ Append(q, c)[Len(q) + 1] = c
  OBVIOUS
<1>2. Append(q, c) # <<>> /\ (q = <<>> => Head(Append(q, c)) = c)
  OBVIOUS
<1>3. ASSUME q # <<>> PROVE Head(Append(q, c)) = Head(q)
  BY <1>3
<1>4. Range(Append(q, c)) = Range(q) \cup {c}
  <2>1. \A i : i \in 1 .. Len(q) + 1 <=> i \in 1 .. Len(q) \/ i = Len(q) + 1
    BY <1>1
  <2> QED
    BY <1>1, <2>1 DEF Range
<1> QED
  BY <1>2, <1>3, <1>4

(* Reading from a stream leaves its last word the last. *)
LEMMA EndingTail ==
  ASSUME NEW q \in Seq(PDU), q # <<>>, NEW t, Ending(q, t)
  PROVE  Ending(Tail(q), t)
<1>1. /\ Len(q) \in Nat \ {0} /\ Len(Tail(q)) = Len(q) - 1
      /\ \A i \in 1 .. Len(q) - 1 : Tail(q)[i] = q[i + 1]
      /\ DOMAIN q = 1 .. Len(q) /\ DOMAIN Tail(q) = 1 .. Len(q) - 1
  OBVIOUS
<1>2. ASSUME NEW i \in 1 .. Len(q) - 1, Tail(q)[i].type = t PROVE i = Len(q) - 1
  <2>1. i + 1 \in 1 .. Len(q) /\ q[i + 1].type = t
    BY <1>1, <1>2
  <2>2. i + 1 = Len(q)
    BY <1>1, <2>1 DEF Ending
  <2>3. i \in Int /\ Len(q) \in Int
    BY <1>1
  <2> QED
    BY <2>2, <2>3
<1> QED
  BY <1>1, <1>2 DEF Ending

(* What is written after no last word keeps that. *)
LEMMA EndingConcat ==
  ASSUME NEW q \in Seq(PDU), NEW p \in Seq(PDU), NEW t, Without(q, t), Ending(p, t)
  PROVE  Ending(q \o p, t)
<1>1. /\ Len(q) \in Nat /\ Len(p) \in Nat /\ Len(q \o p) = Len(q) + Len(p)
      /\ DOMAIN q = 1 .. Len(q) /\ DOMAIN p = 1 .. Len(p)
      /\ DOMAIN (q \o p) = 1 .. Len(q) + Len(p)
      /\ \A i \in 1 .. Len(q) + Len(p) : (q \o p)[i] = IF i <= Len(q) THEN q[i] ELSE p[i - Len(q)]
  OBVIOUS
<1>2. ASSUME NEW i \in 1 .. Len(q) + Len(p), (q \o p)[i].type = t PROVE i = Len(q) + Len(p)
  <2>1. ~(i <= Len(q))
    <3>1. ASSUME i <= Len(q) PROVE FALSE
      <4>1. i \in 1 .. Len(q) /\ q[i].type = t
        BY <1>1, <1>2, <3>1
      <4> QED
        BY <1>1, <4>1 DEF Without, Range
    <3> QED
      BY <3>1
  <2>2. i - Len(q) \in 1 .. Len(p) /\ p[i - Len(q)].type = t
    BY <1>1, <1>2, <2>1
  <2>3. i - Len(q) = Len(p)
    BY <1>1, <2>2 DEF Ending
  <2> QED
    BY <1>1, <2>3
<1> QED
  BY <1>1, <1>2 DEF Ending

(* A stream without the word, and a stream that is only the word. *)
LEMMA EndingSimple ==
  ASSUME NEW t
  PROVE  /\ \A q \in Seq(PDU) : Without(q, t) => Ending(q, t)
         /\ \A pdu \in PDU : Ending(<<pdu>>, t)
         /\ Ending(<<>>, t) /\ Without(<<>>, t)
  BY DEF Ending, Without, Range

(* The first PDU of a stream stays the first when something is written. *)
LEMMA HeadConcat ==
  ASSUME NEW q \in Seq(PDU), q # <<>>, NEW p \in Seq(PDU)
  PROVE  q \o p # <<>> /\ Head(q \o p) = Head(q)
  OBVIOUS

(***************************************************************************)
(* Operations on the kernel.                                               *)
(***************************************************************************)

(* The types of memories and a kernel. *)
World(sd, nt) == sd \in [Node -> SelfData] /\ nt \in Net

(* The ends of a connection are nodes; NULL is no connection. *)
LEMMA ConnFields ==
  /\ \A c \in Conn : c.from \in Node /\ c.to \in Node /\ c.from # c.to /\ c # NULL
  /\ \A n \in Node : n # NULL
  BY SocketsAssumption DEF Conn

(* What the connector wrote and was not yet read changes, on c only. *)
LEMMA ForwardChange ==
  ASSUME NEW sd, NEW nt, World(sd, nt), NEW x, NEW y, Ends(sd, nt, x, y), Greets(sd, nt),
         NEW c \in Conn, NEW q \in Seq(PDU),
         Holds(sd, nt, c) \/ q = <<>>,
         Ending(q, "NET_CLOSE_CONNECTION"),
         \A pdu \in Range(q) : PduKnown(sd, nt, pdu),
         Young(sd[c.to]) /\ nt.backlog[c.to] # <<>> /\ c = Head(nt.backlog[c.to]) =>
             q # <<>> /\ Head(q).type = "NET_JOIN_RESPONSE"
  PROVE  LET f == [nt EXCEPT !.fwd[c] = q]
         IN  /\ World(sd, f) /\ Greets(sd, f)
             /\ x = NULL => Ends(sd, f, c, y)
             /\ sd[c.from].succ_fd # c \/ Without(q, "NET_CLOSE_CONNECTION") => Ends(sd, f, x, y)
<1> DEFINE f == [nt EXCEPT !.fwd[c] = q]
<1>0. nt \in Net /\ nt.fwd \in [Conn -> Seq(PDU)] /\ [nt.fwd EXCEPT ![c] = q] \in [Conn -> Seq(PDU)]
  BY NetFields DEF World
<1>1. /\ f \in Net /\ f.bwd = nt.bwd /\ f.backlog = nt.backlog /\ f.udp = nt.udp
      /\ f.fwd[c] = q /\ \A d \in Conn : d # c => f.fwd[d] = nt.fwd[d]
  BY <1>0 DEF Net
<1> HIDE DEF f
<1>2. /\ \A d : Holds(sd, f, d) <=> Holds(sd, nt, d)
      /\ \A m : Known(sd, f, m) <=> Known(sd, nt, m)
      /\ \A pdu : PduKnown(sd, f, pdu) <=> PduKnown(sd, nt, pdu)
  BY <1>1 DEF Holds, Known, PduKnown
<1>3. World(sd, f)
  BY <1>1 DEF World
<1>4. ASSUME NEW z, x \in {NULL, z},
             c = z \/ sd[c.from].succ_fd # c \/ Without(q, "NET_CLOSE_CONNECTION"), NEW d \in Conn
      PROVE  FwdOK(sd, f, z, d)
  <2>1. FwdOK(sd, nt, x, d)
    BY DEF Ends
  <2>2. d # NULL
    BY ConnFields
  <2>3. CASE d = c
    BY <1>1, <1>2, <1>4, <2>3 DEF FwdOK
  <2>4. CASE d # c
    BY <1>1, <1>2, <1>4, <2>1, <2>2, <2>4 DEF FwdOK
  <2> QED
    BY <2>3, <2>4
<1>5. ASSUME NEW d \in Conn PROVE BwdOK(sd, f, y, d)
  BY <1>1, <1>2 DEF Ends, BwdOK
<1>6. ASSUME NEW z, x \in {NULL, z},
             c = z \/ sd[c.from].succ_fd # c \/ Without(q, "NET_CLOSE_CONNECTION")
      PROVE  Ends(sd, f, z, y)
  BY <1>1, <1>4, <1>5, <1>6 DEF Ends
<1>7. ASSUME NEW n \in Node PROVE Greeted(sd, f, n)
  <2> SUFFICES ASSUME Young(sd[n]), nt.backlog[n] # <<>>
               PROVE  /\ f.fwd[Head(nt.backlog[n])] # <<>>
                      /\ Head(f.fwd[Head(nt.backlog[n])]).type = "NET_JOIN_RESPONSE"
    BY <1>1 DEF Greeted
  <2> DEFINE h == Head(nt.backlog[n])
  <2>1. nt.backlog[n] \in Seq(Conn)
    BY NetFields DEF World
  <2>2. h \in Conn /\ h \in Range(nt.backlog[n])
    BY <2>1, StreamRange
  <2>3. h.to = n
    BY <2>2 DEF Ends
  <2>4. nt.fwd[h] # <<>> /\ Head(nt.fwd[h]).type = "NET_JOIN_RESPONSE"
    BY DEF Greets, Greeted
  <2> HIDE DEF h
  <2>5. f.fwd[h] # <<>> /\ Head(f.fwd[h]).type = "NET_JOIN_RESPONSE"
    <3>1. CASE h = c
      BY <1>1, <2>3, <3>1 DEF h
    <3>2. CASE h # c
      BY <1>1, <2>2, <2>4, <3>2
    <3> QED
      BY <3>1, <3>2
  <2> QED
    BY <2>5 DEF h
<1>8. ASSUME NEW d \in Conn, NEW pdu \in Range(f.fwd[d]) PROVE PduKnown(sd, f, pdu)
  BY <1>1, <1>2 DEF Greets
<1>9. Greets(sd, f)
  BY <1>1, <1>2, <1>7, <1>8 DEF Greets
<1> QED
  BY <1>3, <1>6, <1>9 DEF f

(* What the acceptor wrote and was not yet read changes, on c only. *)
LEMMA BackwardChange ==
  ASSUME NEW sd, NEW nt, World(sd, nt), NEW x, NEW y, Ends(sd, nt, x, y), Greets(sd, nt),
         NEW c \in Conn, NEW q \in Seq(PDU),
         sd[c.from].succ_fd = c \/ q = <<>>,
         Ending(q, "NET_LEAVING"),
         \A pdu \in Range(q) : PduKnown(sd, nt, pdu)
  PROVE  LET b == [nt EXCEPT !.bwd[c] = q]
         IN  /\ World(sd, b) /\ Greets(sd, b)
             /\ y = NULL => Ends(sd, b, x, c)
             /\ ~Holds(sd, nt, c) \/ Without(q, "NET_LEAVING") => Ends(sd, b, x, y)
<1> DEFINE b == [nt EXCEPT !.bwd[c] = q]
<1>0. nt \in Net /\ nt.bwd \in [Conn -> Seq(PDU)] /\ [nt.bwd EXCEPT ![c] = q] \in [Conn -> Seq(PDU)]
  BY NetFields DEF World
<1>1. /\ b \in Net /\ b.fwd = nt.fwd /\ b.backlog = nt.backlog /\ b.udp = nt.udp
      /\ b.bwd[c] = q /\ \A d \in Conn : d # c => b.bwd[d] = nt.bwd[d]
  BY <1>0 DEF Net
<1> HIDE DEF b
<1>2. /\ \A d : Holds(sd, b, d) <=> Holds(sd, nt, d)
      /\ \A m : Known(sd, b, m) <=> Known(sd, nt, m)
      /\ \A pdu : PduKnown(sd, b, pdu) <=> PduKnown(sd, nt, pdu)
  BY <1>1 DEF Holds, Known, PduKnown
<1>3. World(sd, b)
  BY <1>1 DEF World
<1>4. ASSUME NEW d \in Conn PROVE FwdOK(sd, b, x, d)
  BY <1>1, <1>2 DEF Ends, FwdOK
<1>5. ASSUME NEW z, y \in {NULL, z},
             c = z \/ ~Holds(sd, nt, c) \/ Without(q, "NET_LEAVING"), NEW d \in Conn
      PROVE  BwdOK(sd, b, z, d)
  <2>1. BwdOK(sd, nt, y, d)
    BY DEF Ends
  <2>2. d # NULL
    BY ConnFields
  <2>3. CASE d = c
    BY <1>1, <1>2, <1>5, <2>3 DEF BwdOK
  <2>4. CASE d # c
    BY <1>1, <1>2, <1>5, <2>1, <2>2, <2>4 DEF BwdOK
  <2> QED
    BY <2>3, <2>4
<1>6. ASSUME NEW z, y \in {NULL, z},
             c = z \/ ~Holds(sd, nt, c) \/ Without(q, "NET_LEAVING")
      PROVE  Ends(sd, b, x, z)
  BY <1>1, <1>4, <1>5, <1>6 DEF Ends
<1>7. ASSUME NEW d \in Conn, NEW pdu \in Range(b.bwd[d]) PROVE PduKnown(sd, b, pdu)
  BY <1>1, <1>2 DEF Greets
<1>8. Greets(sd, b)
  BY <1>1, <1>2, <1>7 DEF Greets, Greeted
<1> QED
  BY <1>3, <1>6, <1>8 DEF b

(* Only datagrams come or go. *)
LEMMA UdpChange ==
  ASSUME NEW sd, NEW nt, World(sd, nt), NEW x, NEW y, Ends(sd, nt, x, y), Greets(sd, nt),
         NEW D \in SUBSET [dst : Node \cup {Client}, pdu : PDU],
         \A d \in D : d \in nt.udp \/ PduKnown(sd, nt, d.pdu)
  PROVE  LET u == [nt EXCEPT !.udp = D]
         IN  World(sd, u) /\ Ends(sd, u, x, y) /\ Greets(sd, u)
<1> DEFINE u == [nt EXCEPT !.udp = D]
<1>1. u \in Net /\ u.fwd = nt.fwd /\ u.bwd = nt.bwd /\ u.backlog = nt.backlog /\ u.udp = D
  BY DEF World, Net
<1> HIDE DEF u
<1>2. /\ \A d : Holds(sd, u, d) <=> Holds(sd, nt, d)
      /\ \A m : Known(sd, u, m) <=> Known(sd, nt, m)
      /\ \A pdu : PduKnown(sd, u, pdu) <=> PduKnown(sd, nt, pdu)
  BY <1>1 DEF Holds, Known, PduKnown
<1>3. World(sd, u)
  BY <1>1 DEF World
<1>4. ASSUME NEW d \in Conn PROVE FwdOK(sd, u, x, d) /\ BwdOK(sd, u, y, d)
  BY <1>1, <1>2 DEF Ends, FwdOK, BwdOK
<1>5. Ends(sd, u, x, y)
  BY <1>1, <1>4 DEF Ends
<1>6. Greets(sd, u)
  BY <1>1, <1>2 DEF Greets, Greeted
<1> QED
  BY <1>3, <1>5, <1>6 DEF u

(* A connection c that nobody uses is opened and q written to it: either it is
   the greeting of c.to, or c.to does not wait for one. *)
LEMMA OpenChange ==
  ASSUME NEW sd, NEW nt, World(sd, nt), NEW x, Ends(sd, nt, x, NULL), Greets(sd, nt),
         NEW c \in Conn, NEW q \in Seq(PDU), NEW o \in Net,
         o.fwd = [nt.fwd EXCEPT ![c] = q], o.bwd = nt.bwd, o.udp = nt.udp,
         o.backlog = [nt.backlog EXCEPT ![c.to] = Append(@, c)],
         ~Holds(sd, nt, c), sd[c.from].succ_fd # c,
         Without(q, "NET_CLOSE_CONNECTION"), \A pdu \in Range(q) : PduKnown(sd, nt, pdu),
         Known(sd, nt, c.to) \/ (q # <<>> /\ Head(q).type = "NET_JOIN_RESPONSE")
  PROVE  /\ Ends(sd, o, x, NULL) /\ Greets(sd, o)
         /\ \A m \in Node \cup {NULL} : Known(sd, nt, m) => Known(sd, o, m)
         /\ Known(sd, o, c.to)
<1>1. c.to \in Node /\ c.from \in Node /\ c # NULL
  BY ConnFields
<1>2. nt.backlog \in [Node -> Seq(Conn)] /\ nt.fwd \in [Conn -> Seq(PDU)]
  BY NetFields DEF World
<1>3. /\ o.backlog[c.to] = Append(nt.backlog[c.to], c)
      /\ \A n \in Node : n # c.to => o.backlog[n] = nt.backlog[n]
      /\ o.fwd[c] = q /\ \A d \in Conn : d # c => o.fwd[d] = nt.fwd[d]
  BY <1>1, <1>2
<1> DEFINE w == nt.backlog[c.to]
<1>0. w \in Seq(Conn)
  BY <1>1, <1>2
<1>4. Range(o.backlog[c.to]) = Range(nt.backlog[c.to]) \cup {c}
  <2> HIDE DEF w
  <2> QED
    BY <1>0, <1>3, QueueAppend DEF w
<1>5. /\ o.backlog[c.to] # <<>>
      /\ nt.backlog[c.to] = <<>> => Head(o.backlog[c.to]) = c
      /\ nt.backlog[c.to] # <<>> => Head(o.backlog[c.to]) = Head(nt.backlog[c.to])
  <2> HIDE DEF w
  <2>1. /\ Append(w, c) # <<>>
        /\ w = <<>> => Head(Append(w, c)) = c
        /\ w # <<>> => Head(Append(w, c)) = Head(w)
    BY <1>0, QueueAppend
  <2> QED
    BY <1>3, <2>1 DEF w
<1>6. \A d \in Conn : Holds(sd, o, d) <=> Holds(sd, nt, d) \/ d = c
  <2> SUFFICES ASSUME NEW d \in Conn PROVE Holds(sd, o, d) <=> Holds(sd, nt, d) \/ d = c
    OBVIOUS
  <2>1. d.to \in Node
    BY ConnFields
  <2>2. CASE d.to = c.to
    BY <1>4, <2>2 DEF Holds
  <2>3. CASE d.to # c.to
    BY <1>3, <2>1, <2>3 DEF Holds
  <2> QED
    BY <2>2, <2>3
<1>7. nt.fwd[c] = <<>> /\ nt.bwd[c] = <<>>
  BY DEF Ends, FwdOK, BwdOK
<1>8. \A m \in Node \cup {NULL} : Known(sd, nt, m) => Known(sd, o, m)
  BY <1>3, <1>5 DEF Known
<1>9. Known(sd, o, c.to)
  BY <1>5 DEF Known
<1>10. \A pdu \in PDU : PduKnown(sd, nt, pdu) => PduKnown(sd, o, pdu)
  BY <1>8, PDUFields DEF PduKnown
<1>11. ASSUME NEW d \in Conn PROVE FwdOK(sd, o, x, d)
  <2>1. FwdOK(sd, nt, x, d)
    BY DEF Ends
  <2>2. CASE d = c
    BY <1>3, <1>6, <2>2, EndingSimple DEF FwdOK
  <2>3. CASE d # c
    BY <1>3, <1>6, <2>1, <2>3 DEF FwdOK
  <2> QED
    BY <2>2, <2>3
<1>12. ASSUME NEW d \in Conn PROVE BwdOK(sd, o, NULL, d)
  <2>1. BwdOK(sd, nt, NULL, d)
    BY DEF Ends
  <2>2. CASE d = c
    BY <1>7, <2>2, EndingSimple DEF BwdOK
  <2>3. CASE d # c
    BY <1>6, <2>1, <2>3 DEF BwdOK
  <2> QED
    BY <2>2, <2>3
<1>13. ASSUME NEW n \in Node, NEW d \in Range(o.backlog[n]) PROVE d.to = n
  BY <1>3, <1>4 DEF Ends
<1>14. Ends(sd, o, x, NULL)
  BY <1>11, <1>12, <1>13 DEF Ends
<1>15. ASSUME NEW n \in Node PROVE Greeted(sd, o, n)
  <2> SUFFICES ASSUME Young(sd[n]), o.backlog[n] # <<>>
               PROVE  /\ o.fwd[Head(o.backlog[n])] # <<>>
                      /\ Head(o.fwd[Head(o.backlog[n])]).type = "NET_JOIN_RESPONSE"
    BY DEF Greeted
  <2>1. CASE nt.backlog[n] # <<>>
    <3>1. Head(o.backlog[n]) = Head(nt.backlog[n])
      BY <1>3, <1>5, <2>1
    <3>2. Head(nt.backlog[n]) \in Conn
      BY <1>2, <2>1
    <3>3. nt.fwd[Head(nt.backlog[n])] # <<>> /\ Head(nt.fwd[Head(nt.backlog[n])]).type = "NET_JOIN_RESPONSE"
      BY <2>1 DEF Greets, Greeted
    <3>4. Head(nt.backlog[n]) # c
      BY <1>7, <3>3
    <3> QED
      BY <1>3, <3>1, <3>2, <3>3, <3>4
  <2>2. CASE nt.backlog[n] = <<>>
    <3>1. n = c.to
      BY <1>3, <2>2
    <3>2. Head(o.backlog[n]) = c
      BY <1>5, <2>2, <3>1
    <3>3. q # <<>> /\ Head(q).type = "NET_JOIN_RESPONSE"
      BY <2>2, <3>1, ConnFields DEF Known
    <3> QED
      BY <1>3, <3>2, <3>3
  <2> QED
    BY <2>1, <2>2
<1>16. ASSUME NEW d \in Conn, NEW pdu \in Range(o.fwd[d]) PROVE PduKnown(sd, o, pdu)
  <2>1. o.fwd[d] \in Seq(PDU)
    BY NetFields
  <2>2. pdu \in PDU
    BY <2>1 DEF Range
  <2>3. PduKnown(sd, nt, pdu)
    BY <1>3 DEF Greets
  <2> QED
    BY <1>10, <2>2, <2>3
<1>17. ASSUME NEW d \in Conn, NEW pdu \in Range(o.bwd[d]) PROVE PduKnown(sd, o, pdu)
  <2>1. o.bwd[d] \in Seq(PDU)
    BY NetFields
  <2>2. pdu \in PDU
    BY <2>1 DEF Range
  <2> QED
    BY <1>10, <2>2 DEF Greets
<1>18. ASSUME NEW d \in o.udp PROVE PduKnown(sd, o, d.pdu)
  BY <1>10, NetFields DEF Greets
<1>19. ASSUME NEW n \in Node PROVE Known(sd, o, sd[n].succ_addr) /\ Known(sd, o, sd[n].leaving_new)
  <2>1. sd[n].succ_addr \in Node \cup {NULL} /\ sd[n].leaving_new \in Node \cup {NULL}
    BY SelfDataFields DEF World
  <2> QED
    BY <1>8, <2>1 DEF Greets
<1>20. Greets(sd, o)
  BY <1>15, <1>16, <1>17, <1>18, <1>19 DEF Greets
<1> QED
  BY <1>8, <1>9, <1>14, <1>20

(***************************************************************************)
(* Changes of a memory.                                                    *)
(***************************************************************************)

(* Process n gets the memory s: it keeps its descriptors, or lets go of empty
   streams, or holds a connection to the successor without a last word. *)
LEMMA MemoryChange ==
  ASSUME NEW sd, NEW nt, World(sd, nt), NEW x, Ends(sd, nt, x, NULL), Greets(sd, nt),
         NEW n \in Node, NEW s \in SelfData, Own(n, s), Young(s) => Young(sd[n]),
         Known(sd, nt, s.succ_addr), Known(sd, nt, s.leaving_new),
         \/ s.succ_fd = sd[n].succ_fd
         \/ /\ sd[n].succ_fd # NULL => nt.bwd[sd[n].succ_fd] = <<>>
            /\ s.succ_fd # NULL => Without(nt.fwd[s.succ_fd], "NET_CLOSE_CONNECTION")
         \/ s.succ_fd = NULL /\ nt.bwd[sd[n].succ_fd] = <<>>,
         \/ s.pred_fd = sd[n].pred_fd
         \/ s.pred_fd = NULL /\ nt.fwd[sd[n].pred_fd] = <<>>,
         x = NULL \/ (x = sd[n].succ_fd /\ s.succ_fd # x)
  PROVE  LET new == [sd EXCEPT ![n] = s]
         IN  Ends(new, nt, NULL, NULL) /\ Greets(new, nt)
<1> DEFINE new == [sd EXCEPT ![n] = s]
<1>1. new[n] = s /\ \A m \in Node : m # n => new[m] = sd[m]
  BY DEF World
<1> HIDE DEF new
<1>2. \A m \in Node : Young(new[m]) => Young(sd[m])
  BY <1>1
<1>3. \A m \in Node \cup {NULL} : Known(sd, nt, m) => Known(new, nt, m)
  BY <1>2 DEF Known
<1>4. \A pdu \in PDU : PduKnown(sd, nt, pdu) => PduKnown(new, nt, pdu)
  BY <1>3, PDUFields DEF PduKnown
<1>5. \A m \in Node : Own(m, new[m]) /\ Own(m, sd[m])
  BY <1>1 DEF Ends
<1>6. ASSUME NEW c \in Conn PROVE FwdOK(new, nt, NULL, c) /\ BwdOK(new, nt, NULL, c)
  <2>1. FwdOK(sd, nt, x, c) /\ BwdOK(sd, nt, NULL, c) /\ c.from \in Node /\ c.to \in Node /\ c # NULL
    BY ConnFields DEF Ends
  <2>2. CASE new[c.from].succ_fd = c /\ sd[c.from].succ_fd # c
    <3>1. c.from = n /\ s.succ_fd = c
      BY <1>1, <2>1, <2>2
    <3>2. nt.bwd[c] = <<>> /\ Without(nt.fwd[c], "NET_CLOSE_CONNECTION")
      BY <2>1, <2>2, <3>1 DEF BwdOK
    <3>3. Holds(new, nt, c) <=> Holds(sd, nt, c)
      BY <1>1, <2>1, <3>1, ConnFields DEF Holds
    <3> QED
      BY <2>1, <2>2, <3>2, <3>3, EndingSimple DEF FwdOK, BwdOK
  <2>3. CASE ~(new[c.from].succ_fd = c /\ sd[c.from].succ_fd # c)
    <3>1. new[c.from].succ_fd # c => nt.bwd[c] = <<>>
      <4>1. CASE sd[c.from].succ_fd # c
        BY <2>1, <4>1 DEF BwdOK
      <4>2. CASE sd[c.from].succ_fd = c /\ new[c.from].succ_fd # c
        BY <1>1, <2>1, <4>2
      <4> QED
        BY <4>1, <4>2
    <3>2. Holds(new, nt, c) => Holds(sd, nt, c)
      <4>1. CASE c.to # n
        BY <1>1, <2>1, <4>1 DEF Holds
      <4>2. CASE c.to = n
        BY <1>1, <2>1, <4>2 DEF Holds
      <4> QED
        BY <4>1, <4>2
    <3>3. ~Holds(new, nt, c) => nt.fwd[c] = <<>>
      <4>1. CASE ~Holds(sd, nt, c)
        BY <2>1, <4>1 DEF FwdOK
      <4>2. CASE Holds(sd, nt, c) /\ ~Holds(new, nt, c)
        <5>1. c.to = n /\ sd[n].pred_fd = c /\ s.pred_fd # c
          BY <1>1, <2>1, <4>2 DEF Holds
        <5> QED
          BY <5>1
      <4> QED
        BY <4>1, <4>2
    <3>4. new[c.from].succ_fd # c \/ Without(nt.fwd[c], "NET_CLOSE_CONNECTION")
      <4>1. CASE c = x
        <5>1. sd[n].succ_fd = c /\ s.succ_fd # c
          BY <2>1, <4>1
        <5>2. c.from = n
          BY <1>5, <2>1, <5>1 DEF Own
        <5> QED
          BY <1>1, <5>1, <5>2
      <4>2. CASE c # x
        BY <2>1, <2>3, <4>2 DEF FwdOK
      <4> QED
        BY <4>1, <4>2
    <3> QED
      BY <2>1, <3>1, <3>2, <3>3, <3>4 DEF FwdOK, BwdOK
  <2> QED
    BY <2>2, <2>3
<1>7. Ends(new, nt, NULL, NULL)
  BY <1>5, <1>6 DEF Ends
<1>8. ASSUME NEW m \in Node PROVE Known(new, nt, new[m].succ_addr) /\ Known(new, nt, new[m].leaving_new)
  <2>1. Known(sd, nt, new[m].succ_addr) /\ Known(sd, nt, new[m].leaving_new)
    BY <1>1 DEF Greets
  <2>2. new[m] \in SelfData
    BY <1>1 DEF World
  <2> QED
    BY <1>3, <2>1, <2>2, SelfDataFields
<1>9. ASSUME NEW d \in Conn, NEW pdu \in Range(nt.fwd[d]) \cup Range(nt.bwd[d]) PROVE PduKnown(new, nt, pdu)
  <2>1. nt.fwd[d] \in Seq(PDU) /\ nt.bwd[d] \in Seq(PDU)
    BY NetFields DEF World
  <2>2. pdu \in PDU
    BY <2>1 DEF Range
  <2> QED
    BY <1>4, <2>2 DEF Greets
<1>10. ASSUME NEW d \in nt.udp PROVE PduKnown(new, nt, d.pdu)
  BY <1>4, NetFields DEF Greets, World
<1>11. ASSUME NEW m \in Node PROVE Greeted(new, nt, m)
  BY <1>2 DEF Greets, Greeted
<1>12. Greets(new, nt)
  BY <1>8, <1>9, <1>10, <1>11 DEF Greets
<1> QED
  BY <1>7, <1>12 DEF new

(* Process n takes the first connection of its listen queue. *)
LEMMA AcceptChange ==
  ASSUME NEW sd, NEW nt, World(sd, nt), Ends(sd, nt, NULL, NULL), Greets(sd, nt),
         NEW n \in Node, nt.backlog[n] # <<>>, sd[n].pred_fd = NULL,
         NEW s \in SelfData, Own(n, s), ~Young(s),
         s.pred_fd = Head(nt.backlog[n]), s.succ_fd = sd[n].succ_fd,
         s.succ_addr = sd[n].succ_addr, s.leaving_new = sd[n].leaving_new,
         NEW o \in Net, o.fwd = nt.fwd, o.bwd = nt.bwd, o.udp = nt.udp,
         o.backlog = [nt.backlog EXCEPT ![n] = Tail(@)]
  PROVE  LET new == [sd EXCEPT ![n] = s]
         IN  /\ Ends(new, o, NULL, NULL) /\ Greets(new, o)
             /\ \A m \in Node \cup {NULL} : Known(sd, nt, m) => Known(new, o, m)
<1> DEFINE new == [sd EXCEPT ![n] = s]
           h == Head(nt.backlog[n])
<1>1. new[n] = s /\ \A m \in Node : m # n => new[m] = sd[m]
  BY DEF World
<1>2. nt.backlog[n] \in Seq(Conn) /\ nt.backlog \in [Node -> Seq(Conn)]
  BY NetFields DEF World
<1>3. o.backlog[n] = Tail(nt.backlog[n]) /\ \A m \in Node : m # n => o.backlog[m] = nt.backlog[m]
  BY <1>2
<1>4. /\ h \in Conn /\ h \in Range(nt.backlog[n])
      /\ Range(nt.backlog[n]) = Range(o.backlog[n]) \cup {h}
  BY <1>2, <1>3, StreamRange
<1>5. h.to = n
  BY <1>4 DEF Ends
<1> HIDE DEF new, h
<1>6. \A m \in Node : Young(new[m]) => Young(sd[m]) /\ m # n
  BY <1>1
<1>7. \A m \in Node \cup {NULL} : Known(sd, nt, m) => Known(new, o, m)
  BY <1>3, <1>6 DEF Known
<1>8. \A pdu \in PDU : PduKnown(sd, nt, pdu) => PduKnown(new, o, pdu)
  BY <1>7, PDUFields DEF PduKnown
<1>9. \A c \in Conn : Holds(new, o, c) <=> Holds(sd, nt, c)
  <2> SUFFICES ASSUME NEW c \in Conn PROVE Holds(new, o, c) <=> Holds(sd, nt, c)
    OBVIOUS
  <2>1. c.to \in Node /\ c # NULL
    BY ConnFields
  <2>2. CASE c.to = n
    BY <1>1, <1>4, <2>1, <2>2 DEF Holds, h
  <2>3. CASE c.to # n
    BY <1>1, <1>3, <2>1, <2>3 DEF Holds
  <2> QED
    BY <2>2, <2>3
<1>10. \A m \in Node : new[m].succ_fd = sd[m].succ_fd /\ Own(m, new[m])
  BY <1>1 DEF Ends
<1>11. ASSUME NEW c \in Conn PROVE FwdOK(new, o, NULL, c) /\ BwdOK(new, o, NULL, c)
  <2>1. FwdOK(sd, nt, NULL, c) /\ BwdOK(sd, nt, NULL, c) /\ c.from \in Node
    BY ConnFields DEF Ends
  <2> QED
    BY <1>9, <1>10, <2>1 DEF FwdOK, BwdOK
<1>12. ASSUME NEW m \in Node, NEW c \in Range(o.backlog[m]) PROVE c.to = m
  BY <1>3, <1>4 DEF Ends
<1>13. Ends(new, o, NULL, NULL)
  BY <1>10, <1>11, <1>12 DEF Ends
<1>14. ASSUME NEW m \in Node PROVE Known(new, o, new[m].succ_addr) /\ Known(new, o, new[m].leaving_new)
  <2>1. new[m].succ_addr = sd[m].succ_addr /\ new[m].leaving_new = sd[m].leaving_new
    BY <1>1
  <2>2. sd[m].succ_addr \in Node \cup {NULL} /\ sd[m].leaving_new \in Node \cup {NULL}
    BY SelfDataFields DEF World
  <2> QED
    BY <1>7, <2>1, <2>2 DEF Greets
<1>15. ASSUME NEW d \in Conn, NEW pdu \in Range(o.fwd[d]) \cup Range(o.bwd[d]) PROVE PduKnown(new, o, pdu)
  <2>1. o.fwd[d] \in Seq(PDU) /\ o.bwd[d] \in Seq(PDU)
    BY NetFields
  <2>2. pdu \in PDU
    BY <2>1 DEF Range
  <2> QED
    BY <1>8, <2>2 DEF Greets
<1>16. ASSUME NEW d \in o.udp PROVE PduKnown(new, o, d.pdu)
  BY <1>8, NetFields DEF Greets
<1>17. ASSUME NEW m \in Node PROVE Greeted(new, o, m)
  BY <1>3, <1>6 DEF Greets, Greeted
<1>18. Greets(new, o)
  BY <1>14, <1>15, <1>16, <1>17 DEF Greets
<1> QED
  BY <1>7, <1>13, <1>18 DEF new

(* Process n ends; it may have sent its last words before. *)
LEMMA ExitChange ==
  ASSUME NEW sd, NEW nt, World(sd, nt), NEW x, NEW y, Ends(sd, nt, x, y), Greets(sd, nt),
         NEW n \in Node, x = NULL \/ x.from = n, y = NULL \/ y.to = n,
         NEW pc \in {"exit0", "exit1"}
  PROVE  LET new == [sd EXCEPT ![n] = Blank(pc)]
         IN  Ends(new, CloseAll(nt, n), NULL, NULL) /\ Greets(new, CloseAll(nt, n))
<1> DEFINE s == Blank(pc)
           new == [sd EXCEPT ![n] = s]
           o == CloseAll(nt, n)
<1>1. /\ s.pc = pc /\ s.succ_fd = NULL /\ s.pred_fd = NULL
      /\ s.succ_addr = NULL /\ s.leaving_new = NULL
  BY DEF Blank
<1>2. new[n] = s /\ \A m \in Node : m # n => new[m] = sd[m]
  BY DEF World
<1>3. nt.backlog \in [Node -> Seq(Conn)] /\ nt \in Net
  BY NetFields DEF World
<1>4. /\ \A c \in Conn : o.fwd[c] = IF c.to = n THEN <<>> ELSE nt.fwd[c]
      /\ \A c \in Conn : o.bwd[c] = IF c.from = n THEN <<>> ELSE nt.bwd[c]
      /\ o.backlog[n] = <<>> /\ \A m \in Node : m # n => o.backlog[m] = nt.backlog[m]
      /\ o.udp \subseteq nt.udp /\ o \in Net
  <2>1. o \in Net
    BY <1>3, CloseAllType
  <2> QED
    BY <1>3, <2>1 DEF CloseAll, Net
<1>5. Own(n, s) /\ ~Young(s)
  BY <1>1 DEF Own, Young
<1> HIDE DEF s, new, o
<1>6. \A m \in Node : Young(new[m]) => Young(sd[m]) /\ m # n
  BY <1>2, <1>5
<1>7. \A m \in Node \cup {NULL} : Known(sd, nt, m) => Known(new, o, m)
  BY <1>4, <1>6 DEF Known
<1>8. \A pdu \in PDU : PduKnown(sd, nt, pdu) => PduKnown(new, o, pdu)
  BY <1>7, PDUFields DEF PduKnown
<1>9. \A c \in Conn : Holds(new, o, c) <=> c.to # n /\ Holds(sd, nt, c)
  <2> SUFFICES ASSUME NEW c \in Conn PROVE Holds(new, o, c) <=> c.to # n /\ Holds(sd, nt, c)
    OBVIOUS
  <2>1. c.to \in Node /\ c # NULL /\ Range(<<>>) = {}
    BY ConnFields DEF Range
  <2>2. CASE c.to = n
    BY <1>1, <1>2, <1>4, <2>1, <2>2 DEF Holds
  <2>3. CASE c.to # n
    BY <1>2, <1>4, <2>1, <2>3 DEF Holds
  <2> QED
    BY <2>2, <2>3
<1>10. \A m \in Node : Own(m, new[m])
  BY <1>2, <1>5 DEF Ends
<1>11. ASSUME NEW c \in Conn PROVE FwdOK(new, o, NULL, c) /\ BwdOK(new, o, NULL, c)
  <2>1. /\ FwdOK(sd, nt, x, c) /\ BwdOK(sd, nt, y, c)
        /\ c.from \in Node /\ c.to \in Node /\ c # NULL
    BY ConnFields DEF Ends
  <2>2. new[c.from].succ_fd = IF c.from = n THEN NULL ELSE sd[c.from].succ_fd
    BY <1>1, <1>2, <2>1
  <2>3. FwdOK(new, o, NULL, c)
    <3>1. CASE c.to = n
      BY <1>4, <3>1, EndingSimple DEF FwdOK
    <3>2. CASE c.to # n
      BY <1>4, <1>9, <2>1, <2>2, <3>2 DEF FwdOK
    <3> QED
      BY <3>1, <3>2
  <2>4. BwdOK(new, o, NULL, c)
    <3>1. CASE c.from = n
      BY <1>4, <3>1, EndingSimple DEF BwdOK
    <3>2. CASE c.from # n
      BY <1>4, <1>9, <2>1, <2>2, <3>2 DEF BwdOK
    <3> QED
      BY <3>1, <3>2
  <2> QED
    BY <2>3, <2>4
<1>12. ASSUME NEW m \in Node, NEW c \in Range(o.backlog[m]) PROVE c.to = m
  <2>1. Range(<<>>) = {}
    BY DEF Range
  <2> QED
    BY <1>4, <2>1 DEF Ends
<1>13. Ends(new, o, NULL, NULL)
  BY <1>10, <1>11, <1>12 DEF Ends
<1>14. ASSUME NEW m \in Node PROVE Known(new, o, new[m].succ_addr) /\ Known(new, o, new[m].leaving_new)
  <2>1. CASE m = n
    BY <1>1, <1>2, <2>1 DEF Known
  <2>2. CASE m # n
    <3>1. sd[m].succ_addr \in Node \cup {NULL} /\ sd[m].leaving_new \in Node \cup {NULL}
      BY SelfDataFields DEF World
    <3> QED
      BY <1>2, <1>7, <2>2, <3>1 DEF Greets
  <2> QED
    BY <2>1, <2>2
<1>15. ASSUME NEW d \in Conn, NEW pdu \in Range(o.fwd[d]) \cup Range(o.bwd[d]) PROVE PduKnown(new, o, pdu)
  <2>1. o.fwd[d] \in Seq(PDU) /\ o.bwd[d] \in Seq(PDU) /\ Range(<<>>) = {}
    BY <1>4, NetFields DEF Range
  <2>2. pdu \in PDU
    BY <2>1 DEF Range
  <2>3. pdu \in Range(nt.fwd[d]) \cup Range(nt.bwd[d])
    BY <1>4, <2>1
  <2> QED
    BY <1>8, <2>2, <2>3 DEF Greets
<1>16. ASSUME NEW d \in o.udp PROVE PduKnown(new, o, d.pdu)
  BY <1>3, <1>4, <1>8, NetFields DEF Greets
<1>17. ASSUME NEW m \in Node PROVE Greeted(new, o, m)
  <2> SUFFICES ASSUME Young(new[m]), o.backlog[m] # <<>>
               PROVE  /\ o.fwd[Head(o.backlog[m])] # <<>>
                      /\ Head(o.fwd[Head(o.backlog[m])]).type = "NET_JOIN_RESPONSE"
    BY DEF Greeted
  <2>1. m # n /\ Young(sd[m]) /\ o.backlog[m] = nt.backlog[m]
    BY <1>4, <1>6
  <2> DEFINE h == Head(nt.backlog[m])
  <2>2. nt.fwd[h] # <<>> /\ Head(nt.fwd[h]).type = "NET_JOIN_RESPONSE"
    BY <2>1 DEF Greets, Greeted
  <2>3. nt.backlog[m] \in Seq(Conn)
    BY <1>3
  <2>4. h \in Conn /\ h \in Range(nt.backlog[m])
    BY <2>1, <2>3, StreamRange
  <2>5. h.to = m
    BY <2>4 DEF Ends
  <2> HIDE DEF h
  <2>6. o.fwd[h] = nt.fwd[h]
    BY <1>4, <2>1, <2>4, <2>5
  <2> QED
    BY <2>1, <2>2, <2>6 DEF h
<1>18. Greets(new, o)
  BY <1>14, <1>15, <1>16, <1>17 DEF Greets
<1> QED
  BY <1>13, <1>18 DEF new, o, s

(***************************************************************************)
(* What the handlers do to the kernel and end in.                          *)
(***************************************************************************)

(* A kernel in the middle of a handler. *)
Kernel(nt) == World(self_data, nt) /\ Ends(self_data, nt, NULL, NULL) /\ Greets(self_data, nt)

(* Nothing that follows speaks of the connections of other nodes. *)
Plain(pdu) == pdu.type \notin {"NET_CLOSE_CONNECTION", "NET_LEAVING", "NET_JOIN_RESPONSE"}

(* Two memories with the same connections and addresses. *)
SameEnds(s, t) ==
  /\ s.pc = t.pc /\ s.succ_fd = t.succ_fd /\ s.pred_fd = t.pred_fd
  /\ s.succ_socket = t.succ_socket /\ s.pred_socket = t.pred_socket
  /\ s.succ_addr = t.succ_addr /\ s.leaving_new = t.leaving_new

(* The memory a handler finds. *)
Found(n, s) == Ready(s) /\ SameEnds(s, self_data[n]) /\ ~Young(s)

(* PDUs that name no address. *)
LEMMA PlainFacts ==
  ASSUME NEW sd, NEW nt, NEW q, \A pdu \in Range(q) : Plain(pdu)
  PROVE  /\ Without(q, "NET_CLOSE_CONNECTION") /\ Without(q, "NET_LEAVING")
         /\ \A pdu \in Range(q) : PduKnown(sd, nt, pdu)
  BY DEF Plain, Without, PduKnown

(* The connections of a process in a kernel of a handler. *)
LEMMA HeldConns ==
  ASSUME NEW nt, Kernel(nt), NEW n \in Node
  PROVE  /\ self_data[n] \in SelfData /\ Own(n, self_data[n]) /\ nt \in Net
         /\ self_data[n].succ_fd \in Conn \cup {NULL} /\ self_data[n].pred_fd \in Conn \cup {NULL}
         /\ Known(self_data, nt, self_data[n].succ_addr) /\ Known(self_data, nt, self_data[n].leaving_new)
         /\ self_data[n].succ_fd # NULL =>
               Without(nt.fwd[self_data[n].succ_fd], "NET_CLOSE_CONNECTION")
         /\ self_data[n].pred_fd # NULL =>
               /\ Without(nt.bwd[self_data[n].pred_fd], "NET_LEAVING")
               /\ Holds(self_data, nt, self_data[n].pred_fd)
<1>1. self_data[n] \in SelfData /\ Own(n, self_data[n]) /\ nt \in Net
  BY DEF Kernel, World, Ends
<1>2. self_data[n].succ_fd \in Conn \cup {NULL} /\ self_data[n].pred_fd \in Conn \cup {NULL}
  BY <1>1, SelfDataFields
<1>3. ASSUME self_data[n].succ_fd # NULL
      PROVE  Without(nt.fwd[self_data[n].succ_fd], "NET_CLOSE_CONNECTION")
  <2>1. FwdOK(self_data, nt, NULL, self_data[n].succ_fd)
    BY <1>2, <1>3 DEF Kernel, Ends
  <2> QED
    BY <1>1, <1>3, <2>1 DEF FwdOK, Own
<1>4. ASSUME self_data[n].pred_fd # NULL
      PROVE  /\ Without(nt.bwd[self_data[n].pred_fd], "NET_LEAVING")
             /\ Holds(self_data, nt, self_data[n].pred_fd)
  <2>1. BwdOK(self_data, nt, NULL, self_data[n].pred_fd)
    BY <1>2, <1>4 DEF Kernel, Ends
  <2>2. Holds(self_data, nt, self_data[n].pred_fd)
    BY <1>1, <1>4 DEF Holds, Own
  <2> QED
    BY <1>4, <2>1, <2>2 DEF BwdOK
<1> QED
  BY <1>1, <1>2, <1>3, <1>4 DEF Kernel, Greets

(* Writing anything but NET_CLOSE_CONNECTION to the successor. *)
LEMMA SendForwardKeeps ==
  ASSUME NEW nt, Kernel(nt), NEW n \in Node, NEW c, c = self_data[n].succ_fd, NEW p \in Seq(PDU),
         Without(p, "NET_CLOSE_CONNECTION"), \A pdu \in Range(p) : PduKnown(self_data, nt, pdu)
  PROVE  Kernel(SendForward(nt, c, p)) /\ SendForward(nt, c, p).backlog = nt.backlog
<1>1. CASE ~(c # NULL /\ AcceptorHolds(nt, c))
  BY <1>1 DEF SendForward
<1>2. CASE c # NULL /\ AcceptorHolds(nt, c)
  <2> DEFINE q == nt.fwd[c] \o p
  <2>1. c \in Conn /\ nt.fwd[c] \in Seq(PDU) /\ nt \in Net
    BY <1>2, HeldConns, NetFields
  <2>2. Without(nt.fwd[c], "NET_CLOSE_CONNECTION") /\ Holds(self_data, nt, c)
    BY <1>2, HeldConns DEF Holds, AcceptorHolds
  <2>3. Range(q) = Range(nt.fwd[c]) \cup Range(p) /\ q \in Seq(PDU)
    BY <2>1, StreamRange
  <2>4. Without(q, "NET_CLOSE_CONNECTION") /\ \A pdu \in Range(q) : PduKnown(self_data, nt, pdu)
    BY <2>1, <2>2, <2>3 DEF Without, Kernel, Greets
  <2>5. Ending(q, "NET_CLOSE_CONNECTION")
    BY <2>3, <2>4, EndingSimple
  <2>6. ASSUME Young(self_data[c.to]), nt.backlog[c.to] # <<>>, c = Head(nt.backlog[c.to])
        PROVE  q # <<>> /\ Head(q).type = "NET_JOIN_RESPONSE"
    <3>1. nt.fwd[c] # <<>> /\ Head(nt.fwd[c]).type = "NET_JOIN_RESPONSE"
      BY <2>1, <2>6, ConnFields DEF Kernel, Greets, Greeted
    <3> QED
      BY <2>1, <3>1, HeadConcat
  <2> HIDE DEF q
  <2>7. Kernel([nt EXCEPT !.fwd[c] = q])
    BY <2>1, <2>2, <2>3, <2>4, <2>5, <2>6, ForwardChange DEF Kernel
  <2>8. SendForward(nt, c, p) = [nt EXCEPT !.fwd[c] = q]
    BY <1>2 DEF SendForward, q
  <2>9. [nt EXCEPT !.fwd[c] = q].backlog = nt.backlog
    BY <2>1 DEF Net
  <2> QED
    BY <2>7, <2>8, <2>9
<1> QED
  BY <1>1, <1>2

(* Writing anything but NET_LEAVING to the predecessor. *)
LEMMA SendBackwardKeeps ==
  ASSUME NEW nt, Kernel(nt), NEW n \in Node, NEW c, c = self_data[n].pred_fd, NEW p \in Seq(PDU),
         Without(p, "NET_LEAVING"), \A pdu \in Range(p) : PduKnown(self_data, nt, pdu)
  PROVE  Kernel(SendBackward(nt, c, p))
<1>1. CASE ~(c # NULL /\ ConnectorHolds(c))
  BY <1>1 DEF SendBackward
<1>2. CASE c # NULL /\ ConnectorHolds(c)
  <2> DEFINE q == nt.bwd[c] \o p
  <2>1. c \in Conn /\ nt.bwd[c] \in Seq(PDU) /\ nt \in Net
    BY <1>2, HeldConns, NetFields
  <2>2. Without(nt.bwd[c], "NET_LEAVING") /\ self_data[c.from].succ_fd = c
    BY <1>2, HeldConns DEF ConnectorHolds
  <2>3. Range(q) = Range(nt.bwd[c]) \cup Range(p) /\ q \in Seq(PDU)
    BY <2>1, StreamRange
  <2>4. Without(q, "NET_LEAVING") /\ \A pdu \in Range(q) : PduKnown(self_data, nt, pdu)
    BY <2>1, <2>2, <2>3 DEF Without, Kernel, Greets
  <2>5. Ending(q, "NET_LEAVING")
    BY <2>3, <2>4, EndingSimple
  <2> HIDE DEF q
  <2>6. Kernel([nt EXCEPT !.bwd[c] = q])
    BY <2>1, <2>2, <2>3, <2>4, <2>5, BackwardChange DEF Kernel
  <2>7. SendBackward(nt, c, p) = [nt EXCEPT !.bwd[c] = q]
    BY <1>2 DEF SendBackward, q
  <2> QED
    BY <2>6, <2>7
<1> QED
  BY <1>1, <1>2

(* NET_CLOSE_CONNECTION is written to the successor, which is not let go yet. *)
LEMMA CloseSent ==
  ASSUME NEW nt, Kernel(nt), NEW n \in Node, NEW c, c = self_data[n].succ_fd
  PROVE  LET o == SendForward(nt, c, <<[type |-> "NET_CLOSE_CONNECTION"]>>)
         IN  World(self_data, o) /\ Ends(self_data, o, c, NULL) /\ Greets(self_data, o) /\ o.backlog = nt.backlog
<1> DEFINE word == [type |-> "NET_CLOSE_CONNECTION"]
           o == SendForward(nt, c, <<word>>)
<1>1. CASE ~(c # NULL /\ AcceptorHolds(nt, c))
  <2>1. o = nt
    BY <1>1 DEF SendForward
  <2>2. Ends(self_data, nt, c, NULL)
    BY ConnFields DEF Kernel, Ends, FwdOK
  <2> QED
    BY <2>1, <2>2 DEF Kernel
<1>2. CASE c # NULL /\ AcceptorHolds(nt, c)
  <2> DEFINE q == nt.fwd[c] \o <<word>>
  <2>1. c \in Conn /\ nt.fwd[c] \in Seq(PDU) /\ nt \in Net
    BY <1>2, HeldConns, NetFields
  <2>2. Without(nt.fwd[c], "NET_CLOSE_CONNECTION") /\ Holds(self_data, nt, c)
    BY <1>2, HeldConns DEF Holds, AcceptorHolds
  <2>3. word \in PDU /\ <<word>> \in Seq(PDU) /\ PduKnown(self_data, nt, word)
    BY PDUTypes DEF PduKnown
  <2>4. Ending(<<word>>, "NET_CLOSE_CONNECTION")
    BY <2>3, EndingSimple
  <2>5. o = [nt EXCEPT !.fwd[c] = q]
    BY <1>2 DEF SendForward
  <2> HIDE DEF word
  <2>6. Range(q) = Range(nt.fwd[c]) \cup {word} /\ q \in Seq(PDU)
    <3> DEFINE p == <<word>>
    <3>1. Range(p) = {word} /\ p \in Seq(PDU)
      BY <2>3 DEF Range
    <3> HIDE DEF p
    <3>2. Range(nt.fwd[c] \o p) = Range(nt.fwd[c]) \cup Range(p) /\ nt.fwd[c] \o p \in Seq(PDU)
      BY <2>1, <3>1, StreamRange
    <3> QED
      BY <3>1, <3>2 DEF p
  <2>7. \A pdu \in Range(q) : PduKnown(self_data, nt, pdu)
    BY <2>1, <2>3, <2>6 DEF Kernel, Greets
  <2>8. Ending(q, "NET_CLOSE_CONNECTION")
    BY <2>1, <2>2, <2>3, <2>4, EndingConcat
  <2>9. ASSUME Young(self_data[c.to]), nt.backlog[c.to] # <<>>, c = Head(nt.backlog[c.to])
        PROVE  q # <<>> /\ Head(q).type = "NET_JOIN_RESPONSE"
    <3>1. nt.fwd[c] # <<>> /\ Head(nt.fwd[c]).type = "NET_JOIN_RESPONSE"
      BY <2>1, <2>9, ConnFields DEF Kernel, Greets, Greeted
    <3> QED
      BY <2>1, <2>3, <3>1, HeadConcat
  <2> HIDE DEF q, o
  <2>10. World(self_data, o) /\ Ends(self_data, o, c, NULL) /\ Greets(self_data, o)
    <3> DEFINE f == [nt EXCEPT !.fwd[c] = q]
    <3>1. /\ World(self_data, nt) /\ Ends(self_data, nt, NULL, NULL) /\ Greets(self_data, nt)
          /\ (Holds(self_data, nt, c) \/ q = <<>>)
      BY <2>2 DEF Kernel
    <3>2. World(self_data, f) /\ Ends(self_data, f, c, NULL) /\ Greets(self_data, f)
      BY <2>1, <2>6, <2>7, <2>8, <2>9, <3>1, ForwardChange
    <3> QED
      BY <2>5, <3>2
  <2>11. o.backlog = nt.backlog
    BY <2>1, <2>5 DEF Net
  <2> QED
    BY <2>10, <2>11 DEF o, word
<1> QED
  BY <1>1, <1>2

(* The handler ends with the connections it found. *)
LEMMA StayKeeps ==
  ASSUME NEW nt, Kernel(nt), NEW n \in Node, NEW t \in SelfData,
         SameEnds(t, self_data[n]), Continue(n, t, nt)
  PROVE  ConnInv'
<1>1. Own(n, t) /\ (Young(t) => Young(self_data[n]))
  BY HeldConns DEF SameEnds, Own, Young
<1>2. Known(self_data, nt, t.succ_addr) /\ Known(self_data, nt, t.leaving_new)
  BY HeldConns DEF SameEnds
<1> DEFINE new == [self_data EXCEPT ![n] = t]
<1>3. Ends(new, nt, NULL, NULL) /\ Greets(new, nt)
  BY <1>1, <1>2, MemoryChange DEF Kernel, SameEnds
<1> HIDE DEF new
<1>4. self_data' = new /\ net' = nt
  BY DEF Continue, new
<1> QED
  BY <1>3, <1>4 DEF ConnInv

(* exit_with_error and the regular end. *)
LEMMA ExitKeeps ==
  ASSUME NEW nt, NEW x, NEW y, World(self_data, nt), Ends(self_data, nt, x, y), Greets(self_data, nt),
         NEW n \in Node, x = NULL \/ x.from = n, y = NULL \/ y.to = n,
         exit_with_error(n, nt) \/ exit_success(n, nt)
  PROVE  ConnInv'
<1>1. PICK pc \in {"exit0", "exit1"} : Continue(n, Blank(pc), CloseAll(nt, n))
  BY DEF exit_with_error, exit_success
<1> DEFINE new == [self_data EXCEPT ![n] = Blank(pc)]
           o == CloseAll(nt, n)
<1>2. Ends(new, o, NULL, NULL) /\ Greets(new, o)
  BY ExitChange
<1>3. self_data' = new /\ net' = o
  BY <1>1 DEF Continue
<1> HIDE DEF new, o
<1> QED
  BY <1>2, <1>3 DEF ConnInv

(* Closing a descriptor: of the successor; of the predecessor, by a node that
   has been let in. *)
LEMMA CloseKeeps ==
  ASSUME NEW nt, NEW x, World(self_data, nt), Ends(self_data, nt, x, NULL), Greets(self_data, nt),
         NEW n \in Node, NEW c \in Conn \cup {NULL}
  PROVE  /\ LET o == CloseConnector(nt, c)
            IN  /\ World(self_data, o) /\ Ends(self_data, o, x, NULL) /\ Greets(self_data, o)
                /\ o.backlog = nt.backlog /\ o.fwd = nt.fwd /\ (c # NULL => o.bwd[c] = <<>>)
         /\ c = self_data[n].pred_fd /\ ~Young(self_data[n]) =>
               LET o == CloseAcceptor(nt, c)
               IN  /\ World(self_data, o) /\ Ends(self_data, o, x, NULL) /\ Greets(self_data, o)
                   /\ (c # NULL => o.fwd[c] = <<>>)
<1>1. CASE c = NULL
  BY <1>1 DEF CloseConnector, CloseAcceptor
<1>2. CASE c \in Conn
  <2> DEFINE f == [nt EXCEPT !.fwd[c] = <<>>]
             b == [nt EXCEPT !.bwd[c] = <<>>]
             none == <<>>
  <2>1. none \in Seq(PDU) /\ nt \in Net /\ Range(none) = {}
    BY DEF World, Range
  <2>2. c # NULL /\ CloseConnector(nt, c) = b /\ CloseAcceptor(nt, c) = f
    BY <1>2, ConnFields DEF CloseConnector, CloseAcceptor
  <2>3. /\ Ending(none, "NET_CLOSE_CONNECTION") /\ Without(none, "NET_CLOSE_CONNECTION")
        /\ Ending(none, "NET_LEAVING") /\ Without(none, "NET_LEAVING")
    BY EndingSimple
  <2>4. b.backlog = nt.backlog /\ b.fwd = nt.fwd /\ b.bwd[c] = <<>> /\ f.fwd[c] = <<>>
    BY <1>2, <2>1, NetFields DEF Net
  <2>5. World(self_data, b) /\ Ends(self_data, b, x, NULL) /\ Greets(self_data, b)
    <3> HIDE DEF none
    <3>1. none = <<>>
      BY DEF none
    <3> QED
      BY <1>2, <2>1, <2>3, <3>1, BackwardChange
  <2>6. ASSUME c = self_data[n].pred_fd, ~Young(self_data[n])
        PROVE  World(self_data, f) /\ Ends(self_data, f, x, NULL) /\ Greets(self_data, f)
    <3>1. c.to = n
      BY <2>2, <2>6 DEF Ends, Own
    <3>2. ~Young(self_data[c.to])
      BY <2>6, <3>1
    <3> HIDE DEF none
    <3>3. none = <<>>
      BY DEF none
    <3> QED
      BY <1>2, <2>1, <2>3, <3>2, <3>3, ForwardChange
  <2> QED
    BY <2>2, <2>4, <2>5, <2>6
<1> QED
  BY <1>1, <1>2

(* Reading one PDU. *)
LEMMA TakeKeeps ==
  ASSUME NEW nt, Kernel(nt), NEW n \in Node
  PROVE  /\ \A c \in Conn : c = self_data[n].succ_fd /\ nt.bwd[c] # <<>> =>
               /\ Kernel([nt EXCEPT !.bwd[c] = Tail(@)])
               /\ [nt EXCEPT !.bwd[c] = Tail(@)].backlog = nt.backlog
               /\ PduKnown(self_data, nt, Head(nt.bwd[c]))
         /\ \A c \in Conn : c = self_data[n].pred_fd /\ ~Young(self_data[n]) /\ nt.fwd[c] # <<>> =>
               /\ Kernel([nt EXCEPT !.fwd[c] = Tail(@)])
               /\ [nt EXCEPT !.fwd[c] = Tail(@)].backlog = nt.backlog
               /\ PduKnown(self_data, nt, Head(nt.fwd[c]))
         /\ \A d \in nt.udp :
               /\ Kernel([nt EXCEPT !.udp = @ \ {d}])
               /\ [nt EXCEPT !.udp = @ \ {d}].backlog = nt.backlog
               /\ PduKnown(self_data, nt, d.pdu)
<1>1. nt \in Net
  BY DEF Kernel, World
<1>2. ASSUME NEW c \in Conn, c = self_data[n].succ_fd, nt.bwd[c] # <<>>
      PROVE  /\ Kernel([nt EXCEPT !.bwd[c] = Tail(@)])
             /\ [nt EXCEPT !.bwd[c] = Tail(@)].backlog = nt.backlog
             /\ PduKnown(self_data, nt, Head(nt.bwd[c]))
  <2> DEFINE q == Tail(nt.bwd[c])
  <2>1. nt.bwd[c] \in Seq(PDU) /\ q \in Seq(PDU)
    BY <1>1, <1>2, NetFields
  <2>2. Head(nt.bwd[c]) \in Range(nt.bwd[c]) /\ Range(q) \subseteq Range(nt.bwd[c])
    BY <1>2, <2>1, StreamRange
  <2>3. BwdOK(self_data, nt, NULL, c) /\ Own(n, self_data[n]) /\ c # NULL
    BY ConnFields DEF Kernel, Ends
  <2>4. Ending(q, "NET_LEAVING") /\ self_data[c.from].succ_fd = c
    BY <1>2, <2>1, <2>3, EndingTail DEF BwdOK, Own
  <2>5. ~Holds(self_data, nt, c) \/ Without(q, "NET_LEAVING")
    BY <2>2, <2>3 DEF BwdOK, Without
  <2>6. \A pdu \in Range(nt.bwd[c]) : PduKnown(self_data, nt, pdu)
    BY DEF Kernel, Greets
  <2> HIDE DEF q
  <2>7. Kernel([nt EXCEPT !.bwd[c] = q])
    BY <2>1, <2>2, <2>4, <2>5, <2>6, BackwardChange DEF Kernel
  <2>8. [nt EXCEPT !.bwd[c] = q].backlog = nt.backlog
    BY <1>1 DEF Net
  <2> QED
    BY <2>2, <2>6, <2>7, <2>8 DEF q
<1>3. ASSUME NEW c \in Conn, c = self_data[n].pred_fd, ~Young(self_data[n]), nt.fwd[c] # <<>>
      PROVE  /\ Kernel([nt EXCEPT !.fwd[c] = Tail(@)])
             /\ [nt EXCEPT !.fwd[c] = Tail(@)].backlog = nt.backlog
             /\ PduKnown(self_data, nt, Head(nt.fwd[c]))
  <2> DEFINE q == Tail(nt.fwd[c])
  <2>1. nt.fwd[c] \in Seq(PDU) /\ q \in Seq(PDU)
    BY <1>1, <1>3, NetFields
  <2>2. Head(nt.fwd[c]) \in Range(nt.fwd[c]) /\ Range(q) \subseteq Range(nt.fwd[c])
    BY <1>3, <2>1, StreamRange
  <2>3. FwdOK(self_data, nt, NULL, c) /\ Own(n, self_data[n]) /\ c # NULL
    BY ConnFields DEF Kernel, Ends
  <2>4. Ending(q, "NET_CLOSE_CONNECTION") /\ c.to = n
    BY <1>3, <2>1, <2>3, EndingTail DEF FwdOK, Own
  <2>5. self_data[c.from].succ_fd # c \/ Without(q, "NET_CLOSE_CONNECTION")
    BY <2>2, <2>3 DEF FwdOK, Without
  <2>6. \A pdu \in Range(nt.fwd[c]) : PduKnown(self_data, nt, pdu)
    BY DEF Kernel, Greets
  <2>7. ~Young(self_data[c.to]) /\ Holds(self_data, nt, c)
    BY <1>3, <2>4 DEF Holds
  <2> HIDE DEF q
  <2>8. Kernel([nt EXCEPT !.fwd[c] = q])
    BY <2>1, <2>2, <2>4, <2>5, <2>6, <2>7, ForwardChange DEF Kernel
  <2>9. [nt EXCEPT !.fwd[c] = q].backlog = nt.backlog
    BY <1>1 DEF Net
  <2> QED
    BY <2>2, <2>6, <2>8, <2>9 DEF q
<1>4. ASSUME NEW d \in nt.udp
      PROVE  /\ Kernel([nt EXCEPT !.udp = @ \ {d}])
             /\ [nt EXCEPT !.udp = @ \ {d}].backlog = nt.backlog
             /\ PduKnown(self_data, nt, d.pdu)
  <2> DEFINE D == nt.udp \ {d}
  <2>1. D \in SUBSET [dst : Node \cup {Client}, pdu : PDU] /\ \A e \in D : e \in nt.udp
    BY <1>1, NetFields
  <2> HIDE DEF D
  <2>2. Kernel([nt EXCEPT !.udp = D]) /\ [nt EXCEPT !.udp = D].backlog = nt.backlog
    BY <1>1, <2>1, UdpChange DEF Kernel, Net
  <2> QED
    BY <2>2 DEF D, Kernel, Greets
<1> QED
  BY <1>2, <1>3, <1>4

(* Sending a datagram that names no address. *)
LEMMA SendUdpKeeps ==
  ASSUME NEW nt, Kernel(nt), NEW dst \in Node \cup {Client}, NEW pdu \in PDU, Plain(pdu)
  PROVE  Kernel(SendUdp(nt, dst, pdu))
<1>1. nt \in Net /\ PduKnown(self_data, nt, pdu)
  BY DEF Kernel, World, Plain, PduKnown
<1> DEFINE D == nt.udp \cup {[dst |-> dst, pdu |-> pdu]}
<1>2. D \in SUBSET [dst : Node \cup {Client}, pdu : PDU]
  BY <1>1, NetFields
<1>3. \A d \in D : d \in nt.udp \/ PduKnown(self_data, nt, d.pdu)
  BY <1>1
<1>4. SendUdp(nt, dst, pdu) \in {nt, [nt EXCEPT !.udp = D]}
  BY DEF SendUdp
<1> HIDE DEF D
<1>5. Kernel([nt EXCEPT !.udp = D])
  BY <1>2, <1>3, UdpChange DEF Kernel
<1> QED
  BY <1>4, <1>5

(* A connection opened to m: the connection is not in use, so its streams are
   empty and neither end has it. *)
LEMMA UnusedFacts ==
  ASSUME NEW nt, NEW n \in Node, NEW m \in Node, Unused(n, m) # {},
         nt.backlog[m] = net.backlog[m], NEW c, c = NewConn(n, m)
  PROVE  /\ c \in Conn /\ c.from = n /\ c.to = m
         /\ ~Holds(self_data, nt, c) /\ self_data[c.from].succ_fd # c
<1>1. \E d : d \in Unused(n, m)
  OBVIOUS
<1>2. c \in Unused(n, m)
  BY <1>1 DEF NewConn
<1>3. c \in Conn /\ c.from = n /\ c.to = m /\ ~ConnectorHolds(c) /\ ~AcceptorHolds(net, c)
  BY <1>2 DEF Unused
<1>4. ~Holds(self_data, nt, c) /\ self_data[c.from].succ_fd # c
  BY <1>3 DEF Holds, AcceptorHolds, ConnectorHolds
<1> QED
  BY <1>3, <1>4

(* connect_to_tcp to a node that waits for no greeting. *)
LEMMA ConnectKeeps ==
  ASSUME NEW sd, NEW nt, World(sd, nt), NEW x, Ends(sd, nt, x, NULL), Greets(sd, nt),
         NEW c \in Conn, ~Holds(sd, nt, c), sd[c.from].succ_fd # c, Known(sd, nt, c.to)
  PROVE  LET o == Connect(nt, c)
         IN  /\ World(sd, o) /\ Ends(sd, o, x, NULL) /\ Greets(sd, o) /\ Known(sd, o, c.to)
             /\ \A m \in Node \cup {NULL} : Known(sd, nt, m) => Known(sd, o, m)
             /\ o.fwd = nt.fwd /\ o.bwd = nt.bwd
<1> DEFINE o == Connect(nt, c)
           none == <<>>
<1>1. nt \in Net /\ o \in Net /\ c.to \in Node
  BY ConnectType, ConnFields DEF World
<1>2. /\ o.fwd = nt.fwd /\ o.bwd = nt.bwd /\ o.udp = nt.udp
      /\ o.backlog = [nt.backlog EXCEPT ![c.to] = Append(@, c)]
  BY <1>1 DEF Connect, Net
<1>3. nt.fwd[c] = <<>>
  BY DEF Ends, FwdOK
<1>4. nt.fwd = [nt.fwd EXCEPT ![c] = none]
  BY <1>1, <1>3, NetFields
<1>5. none \in Seq(PDU) /\ Without(none, "NET_CLOSE_CONNECTION") /\ Range(none) = {}
  BY EndingSimple DEF Range
<1> HIDE DEF o, none
<1>6. /\ Ends(sd, o, x, NULL) /\ Greets(sd, o) /\ Known(sd, o, c.to)
      /\ \A m \in Node \cup {NULL} : Known(sd, nt, m) => Known(sd, o, m)
  BY <1>1, <1>2, <1>4, <1>5, OpenChange
<1>7. World(sd, o)
  BY <1>1 DEF World
<1> QED
  BY <1>2, <1>6, <1>7 DEF o

(* connect_to_tcp to a joining node, with the PDUs that are written at once. *)
LEMMA GreetKeeps ==
  ASSUME NEW nt, World(self_data, nt), NEW x, Ends(self_data, nt, x, NULL), Greets(self_data, nt),
         NEW c \in Conn, ~Holds(self_data, nt, c), self_data[c.from].succ_fd # c,
         NEW p \in Seq(PDU), p # <<>>, Head(p).type = "NET_JOIN_RESPONSE",
         Without(p, "NET_CLOSE_CONNECTION"), \A pdu \in Range(p) : PduKnown(self_data, nt, pdu)
  PROVE  LET o == SendForward(Connect(nt, c), c, p)
         IN  /\ World(self_data, o) /\ Ends(self_data, o, x, NULL) /\ Greets(self_data, o)
             /\ Known(self_data, o, c.to)
             /\ \A m \in Node \cup {NULL} : Known(self_data, nt, m) => Known(self_data, o, m)
             /\ o.fwd[c] = p /\ o.bwd = nt.bwd
<1> DEFINE k == Connect(nt, c)
           o == SendForward(k, c, p)
<1>1. nt \in Net /\ k \in Net /\ c.to \in Node /\ c # NULL
  BY ConnectType, ConnFields DEF World
<1>2. /\ k.fwd = nt.fwd /\ k.bwd = nt.bwd /\ k.udp = nt.udp
      /\ k.backlog = [nt.backlog EXCEPT ![c.to] = Append(@, c)]
  BY <1>1 DEF Connect, Net
<1> HIDE DEF k
<1>3. nt.fwd[c] = <<>> /\ nt.fwd \in [Conn -> Seq(PDU)] /\ nt.backlog \in [Node -> Seq(Conn)]
  BY <1>1, NetFields DEF Ends, FwdOK
<1>4. c \in Range(k.backlog[c.to])
  <2> DEFINE w == nt.backlog[c.to]
  <2>1. w \in Seq(Conn) /\ k.backlog[c.to] = Append(w, c)
    BY <1>1, <1>2, <1>3
  <2> HIDE DEF w
  <2> QED
    BY <2>1, QueueAppend
<1>5. o = [k EXCEPT !.fwd[c] = @ \o p]
  BY <1>1, <1>4 DEF SendForward, AcceptorHolds
<1>6. k.fwd[c] \o p = p
  BY <1>2, <1>3
<1>7. o = [k EXCEPT !.fwd[c] = p]
  BY <1>5, <1>6
<1>8. [nt.fwd EXCEPT ![c] = p] \in [Conn -> Seq(PDU)]
  BY <1>3
<1> HIDE DEF o
<1>9. /\ o \in Net /\ o.fwd = [nt.fwd EXCEPT ![c] = p] /\ o.bwd = nt.bwd /\ o.udp = nt.udp
      /\ o.backlog = [nt.backlog EXCEPT ![c.to] = Append(@, c)]
  BY <1>1, <1>2, <1>7, <1>8 DEF Net
<1>10. /\ Ends(self_data, o, x, NULL) /\ Greets(self_data, o) /\ Known(self_data, o, c.to)
       /\ \A m \in Node \cup {NULL} : Known(self_data, nt, m) => Known(self_data, o, m)
  BY <1>9, OpenChange
<1>11. World(self_data, o) /\ o.fwd[c] = p
  BY <1>3, <1>9 DEF World
<1> QED
  BY <1>9, <1>10, <1>11 DEF o, k

(* send_new_range_and_entries greets a joining node. *)
LEMMA HandoverGreets ==
  ASSUME NEW s, Ready(s), NEW next \in Node \cup {NULL}, NEW nt, Known(self_data, nt, next)
  PROVE  LET p == Handover(s, next)
         IN  /\ p \in Seq(PDU) /\ p # <<>> /\ Head(p).type = "NET_JOIN_RESPONSE"
             /\ Without(p, "NET_CLOSE_CONNECTION")
             /\ \A pdu \in Range(p) : PduKnown(self_data, nt, pdu)
<1> DEFINE r == [type |-> "NET_JOIN_RESPONSE", next |-> next,
                 range_start |-> handover_start(s.range_start, s.range_end), range_end |-> s.range_end]
           first == <<r>>
           rest == Inserts(s, HandedOver(s))
<1>1. s \in SelfData /\ s.range_start \in Byte /\ s.range_end \in Byte
  BY ReadyFields, SelfDataFields
<1>2. r \in PDU
  BY <1>1, SplitType DEF PDU
<1>3. rest \in Seq(PDU) /\ \A pdu \in Range(rest) : Plain(pdu)
  <2>1. rest \in Seq(PDU)
    BY <1>1, InsertsType DEF HandedOver
  <2>2. \A pdu \in Range(rest) : pdu.type = "VAL_INSERT"
    BY DEF Range, Inserts, InsertPDU
  <2> QED
    BY <2>1, <2>2 DEF Plain
<1>4. r.type = "NET_JOIN_RESPONSE" /\ r.next = next
  OBVIOUS
<1>5. Handover(s, next) = first \o rest
  BY DEF Handover
<1> HIDE DEF r, rest
<1>6. first \in Seq(PDU) /\ Range(first) = {r} /\ first # <<>> /\ Head(first) = r
  BY <1>2 DEF Range
<1> HIDE DEF first
<1>7. Range(first \o rest) = {r} \cup Range(rest) /\ first \o rest \in Seq(PDU)
  BY <1>3, <1>6, StreamRange
<1>8. first \o rest # <<>> /\ Head(first \o rest) = r
  BY <1>3, <1>6, HeadConcat
<1>9. PduKnown(self_data, nt, r)
  BY <1>4 DEF PduKnown
<1>10. Without(first \o rest, "NET_CLOSE_CONNECTION")
  BY <1>3, <1>4, <1>7 DEF Without, Plain
<1>11. \A pdu \in Range(rest) : PduKnown(self_data, nt, pdu)
  BY <1>3, PlainFacts
<1> QED
  BY <1>4, <1>5, <1>7, <1>8, <1>9, <1>10, <1>11

(* The connections of the memories a join leads to. *)
LEMMA JoinedFields ==
  ASSUME NEW s, Ready(s), NEW m \in Node, NEW c \in Conn
  PROVE  LET t == ConnectedTo(AfterHandover(s), m, c)
         IN  /\ t \in SelfData /\ t.succ_fd = c /\ t.succ_addr = m /\ t.succ_socket
             /\ t.pred_fd = s.pred_fd /\ t.pred_socket = s.pred_socket
             /\ t.leaving_new = s.leaving_new /\ t.pc = s.pc
<1> DEFINE a == AfterHandover(s)
<1>1. a \in SelfData
  BY AfterHandoverReady, ReadyFields
<1>2. s \in SelfData
  BY ReadyFields
<1>3. /\ a.pred_fd = s.pred_fd /\ a.pred_socket = s.pred_socket
      /\ a.leaving_new = s.leaving_new /\ a.pc = s.pc
  BY <1>2 DEF AfterHandover, KeptHalf, SelfData
<1> HIDE DEF a
<1>4. LET t == ConnectedTo(a, m, c)
      IN  /\ t \in SelfData /\ t.succ_fd = c /\ t.succ_addr = m /\ t.succ_socket
          /\ t.pred_fd = a.pred_fd /\ t.pred_socket = a.pred_socket
          /\ t.leaving_new = a.leaving_new /\ t.pc = a.pc
  BY <1>1 DEF ConnectedTo, SelfData
<1> QED
  BY <1>3, <1>4 DEF a

(***************************************************************************)
(* The handlers.                                                           *)
(***************************************************************************)

(* The connections of the memory a handler finds are those of the node. *)
LEMMA FoundFields ==
  ASSUME NEW n \in Node, NEW s, Found(n, s), NEW nt, Kernel(nt)
  PROVE  /\ Ready(s) /\ s \in SelfData /\ Own(n, s) /\ ~Young(self_data[n])
         /\ s.succ_fd = self_data[n].succ_fd /\ s.pred_fd = self_data[n].pred_fd
         /\ s.succ_fd \in Conn \cup {NULL} /\ s.pred_fd \in Conn \cup {NULL}
         /\ s.succ_addr \in Node \cup {NULL}
         /\ Known(self_data, nt, s.succ_addr) /\ Known(self_data, nt, s.leaving_new)
<1>1. Ready(s) /\ s \in SelfData /\ SameEnds(s, self_data[n])
  BY ReadyFields DEF Found
<1>2. Own(n, s) /\ ~Young(self_data[n])
  BY <1>1, HeldConns DEF Found, SameEnds, Own, Young
<1> QED
  BY <1>1, <1>2, HeldConns, SelfDataFields DEF SameEnds

(* A handler ends with what it found. *)
LEMMA FoundStays ==
  ASSUME NEW n \in Node, NEW s, Found(n, s), NEW nt, Kernel(nt), NEW t \in SelfData,
         SameEnds(t, s), Continue(n, t, nt)
  PROVE  ConnInv'
<1>1. SameEnds(t, self_data[n])
  BY DEF Found, SameEnds
<1> QED
  BY <1>1, StayKeeps

(* A handler fails. *)
LEMMA FoundExits ==
  ASSUME NEW n \in Node, NEW nt, Kernel(nt), exit_with_error(n, nt) \/ exit_success(n, nt)
  PROVE  ConnInv'
  BY ExitKeeps DEF Kernel

(* A handler passes a PDU on that names no address. *)
LEMMA ForwardKeeps ==
  ASSUME NEW n \in Node, NEW s, Found(n, s), NEW nt, Kernel(nt), NEW pdu \in PDU, Plain(pdu)
  PROVE  Kernel(SendForward(nt, s.succ_fd, <<pdu>>)) /\ Kernel(SendBackward(nt, s.pred_fd, <<pdu>>))
<1> DEFINE p == <<pdu>>
<1>1. p \in Seq(PDU) /\ Range(p) = {pdu}
  BY DEF Range
<1> HIDE DEF p
<1>2. /\ Without(p, "NET_CLOSE_CONNECTION") /\ Without(p, "NET_LEAVING")
      /\ \A q \in Range(p) : PduKnown(self_data, nt, q)
  BY <1>1, PlainFacts
<1>3. s.succ_fd = self_data[n].succ_fd /\ s.pred_fd = self_data[n].pred_fd
  BY FoundFields
<1> QED
  BY <1>1, <1>2, <1>3, SendForwardKeeps, SendBackwardKeeps DEF p

(* handle_val_insert, handle_val_remove, handle_val_lookup. *)
LEMMA ValKeeps ==
  ASSUME NEW n \in Node, NEW s, Found(n, s), NEW nt, Kernel(nt), NEW pdu \in PDU,
         \/ pdu.type = "VAL_INSERT" /\ handle_val_insert(n, s, pdu, nt)
         \/ pdu.type = "VAL_REMOVE" /\ handle_val_remove(n, s, pdu, nt)
         \/ pdu.type = "VAL_LOOKUP" /\ handle_val_lookup(n, s, pdu, nt)
  PROVE  ConnInv'
<1>1. s \in SelfData /\ SameEnds(s, s) /\ s.hash_table \in [Key -> Value \cup {NULL}]
  BY FoundFields, SelfDataFields DEF SameEnds
<1>2. Plain(pdu) /\ pdu.key \in Key /\ (pdu.type = "VAL_INSERT" => pdu.val \in Value)
  BY PDUFields DEF Plain
<1>3. Kernel(SendForward(nt, s.succ_fd, <<pdu>>))
  BY <1>2, ForwardKeeps
<1>4. ASSUME NEW v \in Value \cup {NULL}
      PROVE  /\ [s EXCEPT !.hash_table[pdu.key] = v] \in SelfData
             /\ SameEnds([s EXCEPT !.hash_table[pdu.key] = v], s)
  <2>1. [s.hash_table EXCEPT ![pdu.key] = v] \in [Key -> Value \cup {NULL}]
    BY <1>1, <1>2
  <2> QED
    BY <1>1, <2>1 DEF SelfData, SameEnds
<1>5. CASE exit_with_error(n, nt)
  BY <1>5, FoundExits
<1>6. CASE Continue(n, s, nt) \/ Continue(n, s, SendForward(nt, s.succ_fd, <<pdu>>))
  BY <1>1, <1>3, <1>6, FoundStays
<1>7. CASE \E v \in Value \cup {NULL} : Continue(n, [s EXCEPT !.hash_table[pdu.key] = v], nt)
  BY <1>4, <1>7, FoundStays
<1>8. CASE s.hash_table[pdu.key] # NULL /\ Continue(n, s, SendUdp(nt, Client, LookupResponse(s, pdu.key)))
  <2>1. s.hash_table[pdu.key] \in Value
    BY <1>1, <1>2, <1>8
  <2>2. LookupResponse(s, pdu.key) \in PDU /\ Plain(LookupResponse(s, pdu.key))
    BY <1>2, <2>1 DEF PDU, LookupResponse, Plain
  <2>3. Kernel(SendUdp(nt, Client, LookupResponse(s, pdu.key)))
    BY <2>2, SendUdpKeeps
  <2> QED
    BY <1>1, <1>8, <2>3, FoundStays
<1> QED
  BY <1>2, <1>5, <1>6, <1>7, <1>8
  DEF handle_val_insert, handle_ht_insert, handle_val_remove, handle_ht_remove,
      handle_val_lookup, handle_ht_lookup, UseFreedTable

(* handle_net_join of a node that is alone: it has no descriptor to lose. *)
LEMMA JoinAloneKeeps ==
  ASSUME NEW n \in Node, NEW s, Found(n, s), NEW nt, Kernel(nt), nt.backlog = net.backlog,
         NEW pdu \in PDU, pdu.type = "NET_JOIN", ~s.pred_socket, ~s.succ_socket,
         JoinAlone(n, s, pdu, nt)
  PROVE  ConnInv'
<1>1. pdu.src \in Node
  BY PDUFields
<1> DEFINE c == NewConn(n, pdu.src)
           b == ConnectedTo(AfterHandover(s), pdu.src, c)
           t == [b EXCEPT !.pc = Awaiting(s)]
           p == Handover(s, n)
           sent == SendForward(Connect(nt, c), c, p)
           new == [self_data EXCEPT ![n] = t]
<1>2. CASE exit_with_error(n, nt)
  BY <1>2, FoundExits
<1>3. CASE Unused(n, pdu.src) # {} /\ Continue(n, t, sent)
  <2>1. nt.backlog[pdu.src] = net.backlog[pdu.src]
    OBVIOUS
  <2>2. /\ c \in Conn /\ c.from = n /\ c.to = pdu.src
        /\ ~Holds(self_data, nt, c) /\ self_data[c.from].succ_fd # c
    BY <1>1, <1>3, <2>1, UnusedFacts
  <2> HIDE DEF c
  <2>3. /\ Ready(s) /\ s.succ_fd = NULL /\ s.pred_fd = NULL /\ ~Young(self_data[n])
        /\ self_data[n].succ_fd = NULL /\ self_data[n].pred_fd = NULL
        /\ Known(self_data, nt, s.leaving_new) /\ s.leaving_new \in Node \cup {NULL}
    BY FoundFields, SelfDataFields DEF Own
  <2>4. Known(self_data, nt, n)
    BY <2>3 DEF Known
  <2>5. /\ p \in Seq(PDU) /\ p # <<>> /\ Head(p).type = "NET_JOIN_RESPONSE"
        /\ Without(p, "NET_CLOSE_CONNECTION")
        /\ \A q \in Range(p) : PduKnown(self_data, nt, q)
    BY <2>3, <2>4, HandoverGreets
  <2> HIDE DEF p
  <2>6. /\ World(self_data, sent) /\ Ends(self_data, sent, NULL, NULL) /\ Greets(self_data, sent)
        /\ Known(self_data, sent, c.to)
        /\ \A m \in Node \cup {NULL} : Known(self_data, nt, m) => Known(self_data, sent, m)
        /\ sent.fwd[c] = p
    BY <2>2, <2>5, GreetKeeps DEF Kernel
  <2>7. /\ b \in SelfData /\ b.succ_fd = c /\ b.succ_addr = pdu.src /\ b.succ_socket
        /\ b.pred_fd = s.pred_fd /\ b.leaving_new = s.leaving_new
    BY <1>1, <2>2, <2>3, JoinedFields
  <2>8. Awaiting(s) \in PC /\ Awaiting(s) \notin {"off", "q3", "q7"}
    BY DEF Awaiting, PC
  <2> HIDE DEF b
  <2>9. /\ t \in SelfData /\ t.succ_fd = c /\ t.succ_addr = pdu.src /\ t.succ_socket
        /\ t.pred_fd = NULL /\ t.leaving_new = s.leaving_new /\ t.pc = Awaiting(s)
    BY <2>3, <2>7, <2>8 DEF SelfData
  <2> HIDE DEF sent, t
  <2>10. Own(n, t) /\ ~Young(t)
    BY <2>2, <2>8, <2>9 DEF Own, Young
  <2>11. /\ Known(self_data, sent, t.succ_addr) /\ Known(self_data, sent, t.leaving_new)
         /\ Without(sent.fwd[t.succ_fd], "NET_CLOSE_CONNECTION") /\ t.pred_fd = self_data[n].pred_fd
    BY <2>2, <2>3, <2>5, <2>6, <2>9
  <2>12. Ends(new, sent, NULL, NULL) /\ Greets(new, sent)
    BY <2>3, <2>6, <2>9, <2>10, <2>11, MemoryChange
  <2>13. self_data' = new /\ net' = sent
    BY <1>3 DEF Continue
  <2> HIDE DEF new
  <2> QED
    BY <2>12, <2>13 DEF ConnInv
<1> QED
  BY <1>2, <1>3 DEF JoinAlone

(* handle_net_join of the node with the largest range: NET_CLOSE_CONNECTION is
   its last word to the old successor. *)
LEMMA JoinAtLargestKeeps ==
  ASSUME NEW n \in Node, NEW s, Found(n, s), NEW nt, Kernel(nt), nt.backlog = net.backlog,
         NEW pdu \in PDU, pdu.type = "NET_JOIN", JoinAtLargest(n, s, pdu, nt)
  PROVE  ConnInv'
<1>1. pdu.src \in Node
  BY PDUFields
<1> DEFINE said == SendForward(nt, s.succ_fd, <<[type |-> "NET_CLOSE_CONNECTION"]>>)
           closed == CloseConnector(said, s.succ_fd)
           c == NewConn(n, pdu.src)
           t == ConnectedTo(AfterHandover(s), pdu.src, c)
           p == Handover(s, s.succ_addr)
           sent == SendForward(Connect(closed, c), c, p)
           new == [self_data EXCEPT ![n] = t]
<1>2. exit_with_error(n, closed) \/ (Unused(n, pdu.src) # {} /\ Continue(n, t, sent))
  BY DEF JoinAtLargest
<1>3. /\ Ready(s) /\ s.succ_fd = self_data[n].succ_fd /\ s.pred_fd = self_data[n].pred_fd
      /\ s.succ_fd \in Conn \cup {NULL} /\ Own(n, s) /\ ~Young(self_data[n])
      /\ s.succ_addr \in Node \cup {NULL} /\ s.leaving_new \in Node \cup {NULL}
      /\ Known(self_data, nt, s.succ_addr) /\ Known(self_data, nt, s.leaving_new)
  BY FoundFields, SelfDataFields
<1>4. /\ World(self_data, said) /\ Ends(self_data, said, s.succ_fd, NULL) /\ Greets(self_data, said)
      /\ said.backlog = nt.backlog
  BY <1>3, CloseSent
<1> HIDE DEF said
<1>5. /\ World(self_data, closed) /\ Ends(self_data, closed, s.succ_fd, NULL)
      /\ Greets(self_data, closed) /\ closed.backlog = nt.backlog
      /\ s.succ_fd # NULL => closed.bwd[s.succ_fd] = <<>>
  BY <1>3, <1>4, CloseKeeps
<1> HIDE DEF closed
<1>6. CASE exit_with_error(n, closed)
  <2>1. s.succ_fd = NULL \/ s.succ_fd.from = n
    BY <1>3 DEF Own
  <2> QED
    BY <1>5, <1>6, <2>1, ExitKeeps
<1>7. CASE Unused(n, pdu.src) # {} /\ Continue(n, t, sent)
  <2>1. closed.backlog[pdu.src] = net.backlog[pdu.src]
    BY <1>5
  <2>2. /\ c \in Conn /\ c.from = n /\ c.to = pdu.src
        /\ ~Holds(self_data, closed, c) /\ self_data[c.from].succ_fd # c
    <3>1. Unused(n, pdu.src) # {}
      BY <1>7
    <3> QED
      BY <1>1, <2>1, <3>1, UnusedFacts
  <2> HIDE DEF c
  <2>3. Known(self_data, closed, s.succ_addr) /\ Known(self_data, closed, s.leaving_new)
    BY <1>3, <1>5 DEF Known
  <2>4. /\ p \in Seq(PDU) /\ p # <<>> /\ Head(p).type = "NET_JOIN_RESPONSE"
        /\ Without(p, "NET_CLOSE_CONNECTION")
        /\ \A q \in Range(p) : PduKnown(self_data, closed, q)
    BY <1>3, <2>3, HandoverGreets
  <2> HIDE DEF p
  <2>5. /\ World(self_data, sent) /\ Ends(self_data, sent, s.succ_fd, NULL) /\ Greets(self_data, sent)
        /\ Known(self_data, sent, c.to)
        /\ \A m \in Node \cup {NULL} : Known(self_data, closed, m) => Known(self_data, sent, m)
        /\ sent.fwd[c] = p /\ sent.bwd = closed.bwd
    BY <1>5, <2>2, <2>4, GreetKeeps
  <2>6. /\ t \in SelfData /\ t.succ_fd = c /\ t.succ_addr = pdu.src /\ t.succ_socket
        /\ t.pred_fd = s.pred_fd /\ t.pred_socket = s.pred_socket
        /\ t.leaving_new = s.leaving_new /\ t.pc = s.pc
    BY <1>1, <1>3, <2>2, JoinedFields
  <2> HIDE DEF sent, t
  <2>7. Own(n, t) /\ ~Young(t)
    BY <1>3, <2>2, <2>6 DEF Own, Young, Found
  <2>8. /\ s.succ_fd = self_data[n].succ_fd /\ t.succ_fd # s.succ_fd
        /\ self_data[n].succ_fd # NULL => sent.bwd[self_data[n].succ_fd] = <<>>
        /\ Known(self_data, sent, t.succ_addr) /\ Known(self_data, sent, t.leaving_new)
        /\ Without(sent.fwd[t.succ_fd], "NET_CLOSE_CONNECTION")
    BY <1>3, <1>5, <2>2, <2>3, <2>4, <2>5, <2>6
  <2>9. Ends(new, sent, NULL, NULL) /\ Greets(new, sent)
    BY <1>3, <2>5, <2>6, <2>7, <2>8, MemoryChange
  <2>10. self_data' = new /\ net' = sent
    BY <1>7 DEF Continue
  <2> HIDE DEF new
  <2> QED
    BY <2>9, <2>10 DEF ConnInv
<1> QED
  BY <1>2, <1>6, <1>7

(* handle_net_join of any other node. *)
LEMMA ForwardJoinKeeps ==
  ASSUME NEW n \in Node, NEW s, Found(n, s), NEW nt, Kernel(nt),
         NEW pdu \in PDU, pdu.type = "NET_JOIN", ForwardJoin(n, s, pdu, nt)
  PROVE  ConnInv'
<1> DEFINE span == self_range(s.range_start, s.range_end)
           sent == IF pdu.max_span < span THEN [pdu EXCEPT !.max = n, !.max_span = u8(span)] ELSE pdu
<1>1. s \in SelfData /\ SameEnds(s, s)
  BY FoundFields DEF SameEnds
<1>2. u8(span) \in Byte
  BY <1>1, SelfDataFields, u8Type DEF self_range
<1>3. pdu \in [type : {"NET_JOIN"}, src : Node, max_span : Byte, max : Node \cup {NULL}]
  BY DEF PDU
<1> HIDE DEF span
<1>4. [pdu EXCEPT !.max = n, !.max_span = u8(span)]
        \in [type : {"NET_JOIN"}, src : Node, max_span : Byte, max : Node \cup {NULL}]
  BY <1>2, <1>3
<1>5. sent \in PDU /\ Plain(sent)
  BY <1>3, <1>4 DEF PDU, Plain
<1>6. Continue(n, s, SendForward(nt, s.succ_fd, <<sent>>))
  BY DEF ForwardJoin, span
<1> HIDE DEF sent
<1>7. Kernel(SendForward(nt, s.succ_fd, <<sent>>))
  BY <1>5, ForwardKeeps
<1> QED
  BY <1>1, <1>6, <1>7, FoundStays

(* handle_net_join. *)
LEMMA NetJoinKeeps ==
  ASSUME NEW n \in Node, NEW s, Found(n, s), NEW nt, Kernel(nt), nt.backlog = net.backlog,
         NEW pdu \in PDU, pdu.type = "NET_JOIN", handle_net_join(n, s, pdu, nt)
  PROVE  ConnInv'
<1>1. \/ ~s.pred_socket /\ ~s.succ_socket /\ JoinAlone(n, s, pdu, nt)
      \/ exit_with_error(n, nt)
      \/ JoinAtLargest(n, s, pdu, nt) \/ ForwardJoin(n, s, pdu, nt)
  BY DEF handle_net_join
<1> QED
  BY <1>1, JoinAloneKeeps, FoundExits, JoinAtLargestKeeps, ForwardJoinKeeps

(* handle_net_new_range. *)
LEMMA NetNewRangeKeeps ==
  ASSUME NEW n \in Node, NEW s, Found(n, s), NEW nt, Kernel(nt),
         NEW pdu \in PDU, pdu.type = "NET_NEW_RANGE", handle_net_new_range(n, s, pdu, nt)
  PROVE  ConnInv'
<1>1. s \in SelfData /\ pdu.range_start \in Byte /\ pdu.range_end \in Byte
  BY FoundFields, PDUFields
<1>2. NewRangeResponse \in PDU /\ Plain(NewRangeResponse)
  BY PDUTypes DEF NewRangeResponse, Plain
<1>3. /\ Kernel(SendForward(nt, s.succ_fd, <<NewRangeResponse>>))
      /\ Kernel(SendBackward(nt, s.pred_fd, <<NewRangeResponse>>))
  BY <1>2, ForwardKeeps
<1>4. /\ [s EXCEPT !.range_start = pdu.range_start] \in SelfData
      /\ SameEnds([s EXCEPT !.range_start = pdu.range_start], s)
      /\ [s EXCEPT !.range_end = pdu.range_end] \in SelfData
      /\ SameEnds([s EXCEPT !.range_end = pdu.range_end], s)
  BY <1>1 DEF SelfData, SameEnds
<1>5. \/ exit_with_error(n, nt)
      \/ Continue(n, [s EXCEPT !.range_start = pdu.range_start], SendBackward(nt, s.pred_fd, <<NewRangeResponse>>))
      \/ Continue(n, [s EXCEPT !.range_end = pdu.range_end], SendForward(nt, s.succ_fd, <<NewRangeResponse>>))
  BY DEF handle_net_new_range, update_range
<1> QED
  BY <1>3, <1>4, <1>5, FoundStays, FoundExits

(* handle_net_leaving_pdu: the new successor is a node that waits for no
   greeting. *)
LEMMA NetLeavingKeeps ==
  ASSUME NEW n \in Node, NEW s, Found(n, s), NEW nt, Kernel(nt), nt.backlog = net.backlog,
         NEW pdu \in PDU, pdu.type = "NET_LEAVING", PduKnown(self_data, nt, pdu),
         handle_net_leaving_pdu(n, s, pdu, nt)
  PROVE  ConnInv'
<1> DEFINE closed == CloseConnector(nt, s.succ_fd)
           alone == [s EXCEPT !.succ_socket = FALSE, !.succ_fd = NULL]
           c == NewConn(n, pdu.new)
           t == ConnectedTo(s, pdu.new, c)
           sent == Connect(closed, c)
<1>1. pdu.new \in Node \cup {NULL} /\ Known(self_data, nt, pdu.new)
  BY PDUFields DEF PduKnown
<1>2. /\ s \in SelfData /\ s.succ_fd = self_data[n].succ_fd /\ s.pred_fd = self_data[n].pred_fd
      /\ s.succ_fd \in Conn \cup {NULL} /\ Own(n, s) /\ ~Young(self_data[n])
      /\ s.succ_addr \in Node \cup {NULL} /\ s.leaving_new \in Node \cup {NULL}
      /\ Known(self_data, nt, s.succ_addr) /\ Known(self_data, nt, s.leaving_new)
  BY FoundFields, SelfDataFields
<1>3. \/ exit_with_error(n, closed)
      \/ Continue(n, alone, closed)
      \/ pdu.new \in Node /\ Unused(n, pdu.new) # {} /\ Continue(n, t, sent)
  BY <1>1, ConnectSucceedsNode DEF handle_net_leaving_pdu
<1>4. /\ World(self_data, closed) /\ Ends(self_data, closed, NULL, NULL)
      /\ Greets(self_data, closed) /\ closed.backlog = nt.backlog /\ closed.fwd = nt.fwd
      /\ s.succ_fd # NULL => closed.bwd[s.succ_fd] = <<>>
  BY <1>2, CloseKeeps DEF Kernel
<1>5. /\ Known(self_data, closed, pdu.new) /\ Known(self_data, closed, s.succ_addr)
      /\ Known(self_data, closed, s.leaving_new)
  BY <1>1, <1>2, <1>4 DEF Known
<1> HIDE DEF closed
<1>6. CASE exit_with_error(n, closed)
  BY <1>4, <1>6, ExitKeeps
<1>7. CASE Continue(n, alone, closed)
  <2> DEFINE new == [self_data EXCEPT ![n] = alone]
  <2>1. /\ alone \in SelfData /\ alone.succ_fd = NULL /\ ~alone.succ_socket /\ alone.pc = s.pc
        /\ alone.pred_fd = s.pred_fd /\ alone.pred_socket = s.pred_socket
        /\ alone.succ_addr = s.succ_addr /\ alone.leaving_new = s.leaving_new
    BY <1>2 DEF SelfData
  <2> HIDE DEF alone
  <2>2. Own(n, alone) /\ ~Young(alone)
    BY <1>2, <2>1 DEF Own, Young, Found
  <2>3. self_data[n].succ_fd # NULL => closed.bwd[self_data[n].succ_fd] = <<>>
    BY <1>2, <1>4
  <2>4. Ends(new, closed, NULL, NULL) /\ Greets(new, closed)
    BY <1>2, <1>4, <1>5, <2>1, <2>2, <2>3, MemoryChange
  <2>5. self_data' = new /\ net' = closed
    BY <1>7 DEF Continue
  <2> HIDE DEF new
  <2> QED
    BY <2>4, <2>5 DEF ConnInv
<1>8. CASE pdu.new \in Node /\ Unused(n, pdu.new) # {} /\ Continue(n, t, sent)
  <2> DEFINE new == [self_data EXCEPT ![n] = t]
  <2>0. Unused(n, pdu.new) # {} /\ pdu.new \in Node
    BY <1>8
  <2>1. closed.backlog[pdu.new] = net.backlog[pdu.new]
    BY <1>4
  <2>2. /\ c \in Conn /\ c.from = n /\ c.to = pdu.new
        /\ ~Holds(self_data, closed, c) /\ self_data[c.from].succ_fd # c
    BY <2>0, <2>1, UnusedFacts
  <2> HIDE DEF c
  <2>3. closed.fwd[c] = <<>>
    BY <1>4, <2>2 DEF Ends, FwdOK
  <2>4. /\ World(self_data, sent) /\ Ends(self_data, sent, NULL, NULL) /\ Greets(self_data, sent)
        /\ Known(self_data, sent, c.to)
        /\ \A m \in Node \cup {NULL} : Known(self_data, closed, m) => Known(self_data, sent, m)
        /\ sent.fwd = closed.fwd /\ sent.bwd = closed.bwd
    BY <1>4, <1>5, <2>2, ConnectKeeps
  <2>5. /\ t \in SelfData /\ t.succ_fd = c /\ t.succ_addr = pdu.new /\ t.succ_socket
        /\ t.pred_fd = s.pred_fd /\ t.pred_socket = s.pred_socket
        /\ t.leaving_new = s.leaving_new /\ t.pc = s.pc
    BY <1>2, <2>0, <2>2 DEF ConnectedTo, SelfData
  <2> HIDE DEF sent, t
  <2>6. Own(n, t) /\ ~Young(t)
    BY <1>2, <2>2, <2>5 DEF Own, Young, Found
  <2>7. /\ self_data[n].succ_fd # NULL => sent.bwd[self_data[n].succ_fd] = <<>>
        /\ Known(self_data, sent, t.succ_addr) /\ Known(self_data, sent, t.leaving_new)
        /\ Without(sent.fwd[t.succ_fd], "NET_CLOSE_CONNECTION")
    BY <1>2, <1>4, <1>5, <2>2, <2>3, <2>4, <2>5, EndingSimple
  <2>8. Ends(new, sent, NULL, NULL) /\ Greets(new, sent)
    BY <1>2, <2>4, <2>5, <2>6, <2>7, MemoryChange
  <2>9. self_data' = new /\ net' = sent
    BY <1>8 DEF Continue
  <2> HIDE DEF new
  <2> QED
    BY <2>8, <2>9 DEF ConnInv
<1> QED
  BY <1>3, <1>6, <1>7, <1>8

(* handle_net_close_connection: nothing is lost with the closed stream. *)
LEMMA NetCloseConnectionKeeps ==
  ASSUME NEW n \in Node, NEW s, Found(n, s), NEW nt, Kernel(nt),
         handle_net_close_connection(n, s, nt)
  PROVE  ConnInv'
<1> DEFINE o == CloseAcceptor(nt, s.pred_fd)
           a == [s EXCEPT !.pred_socket = FALSE, !.pred_fd = NULL]
           b == [a EXCEPT !.pc = Awaiting(s)]
<1>1. /\ s \in SelfData /\ s.succ_fd = self_data[n].succ_fd /\ s.pred_fd = self_data[n].pred_fd
      /\ s.pred_fd \in Conn \cup {NULL} /\ Own(n, s) /\ ~Young(self_data[n])
      /\ Known(self_data, nt, s.succ_addr) /\ Known(self_data, nt, s.leaving_new)
  BY FoundFields
<1>2. /\ World(self_data, o) /\ Ends(self_data, o, NULL, NULL) /\ Greets(self_data, o)
      /\ s.pred_fd # NULL => o.fwd[s.pred_fd] = <<>>
  BY <1>1, CloseKeeps DEF Kernel
<1>3. o.backlog = nt.backlog
  BY DEF CloseAcceptor, Kernel, World, Net
<1>4. Known(self_data, o, s.succ_addr) /\ Known(self_data, o, s.leaving_new)
  BY <1>1, <1>3 DEF Known
<1>5. PICK t \in {a, b} : Continue(n, t, o)
  BY DEF handle_net_close_connection
<1>6. Awaiting(s) \in PC /\ Awaiting(s) \notin {"off", "q3", "q7"}
  BY DEF Awaiting, PC
<1>7. /\ t \in SelfData /\ t.pred_fd = NULL /\ t.pc \in {s.pc, Awaiting(s)}
      /\ t.succ_fd = s.succ_fd /\ t.succ_socket = s.succ_socket
      /\ t.succ_addr = s.succ_addr /\ t.leaving_new = s.leaving_new
  BY <1>1, <1>6 DEF SelfData
<1> HIDE DEF a, b, o
<1>8. Own(n, t) /\ ~Young(t)
  BY <1>1, <1>6, <1>7 DEF Own, Young, Found
<1> DEFINE new == [self_data EXCEPT ![n] = t]
<1>9. \/ t.pred_fd = self_data[n].pred_fd
      \/ t.pred_fd = NULL /\ o.fwd[self_data[n].pred_fd] = <<>>
  BY <1>1, <1>2, <1>7
<1>10. Ends(new, o, NULL, NULL) /\ Greets(new, o)
  BY <1>1, <1>2, <1>4, <1>7, <1>8, <1>9, MemoryChange
<1>11. self_data' = new /\ net' = o
  BY <1>5 DEF Continue
<1> HIDE DEF new
<1> QED
  BY <1>10, <1>11 DEF ConnInv

(* The switch in poll_for_incoming_data. *)
LEMMA HandlePDUKeeps ==
  ASSUME NEW n \in Node, NEW s, Found(n, s), NEW nt, Kernel(nt), nt.backlog = net.backlog,
         NEW pdu \in PDU, PduKnown(self_data, nt, pdu), HandlePDU(n, s, pdu, nt)
  PROVE  ConnInv'
<1>1. \/ pdu.type = "VAL_INSERT" /\ handle_val_insert(n, s, pdu, nt)
      \/ pdu.type = "VAL_REMOVE" /\ handle_val_remove(n, s, pdu, nt)
      \/ pdu.type = "VAL_LOOKUP" /\ handle_val_lookup(n, s, pdu, nt)
      \/ pdu.type = "NET_JOIN" /\ handle_net_join(n, s, pdu, nt)
      \/ pdu.type = "NET_NEW_RANGE" /\ handle_net_new_range(n, s, pdu, nt)
      \/ pdu.type = "NET_LEAVING" /\ handle_net_leaving_pdu(n, s, pdu, nt)
      \/ pdu.type = "NET_CLOSE_CONNECTION" /\ handle_net_close_connection(n, s, nt)
      \/ Continue(n, s, nt)
  BY Zenon DEF HandlePDU
<1>2. ASSUME Continue(n, s, nt) PROVE ConnInv'
  <2>1. s \in SelfData /\ SameEnds(s, s)
    BY FoundFields DEF SameEnds
  <2> QED
    BY <1>2, <2>1, FoundStays
<1> QED
  BY <1>1, <1>2, ValKeeps, NetJoinKeeps, NetNewRangeKeeps, NetLeavingKeeps, NetCloseConnectionKeeps

(***************************************************************************)
(* The steps of a process.                                                 *)
(***************************************************************************)

(* Between two steps the kernel is that of a handler about to begin. *)
LEMMA AtRest == ASSUME NodeInv, ConnInv PROVE Kernel(net)
  BY DEF NodeInv, ConnInv, Kernel, World

(* main, q1, q2: a node that was off is young before and after. *)
LEMMA StartKeeps == ASSUME NodeInv, ConnInv, NEW n \in Node, Start(n) PROVE ConnInv'
<1> DEFINE s == Blank("q3")
           new == [self_data EXCEPT ![n] = s]
<1>1. self_data[n].pc = "off" /\ self_data' = new /\ net' = net
  BY DEF Start, Continue
<1>2. s \in SelfData
  BY BlankSound DEF PC, Sound
<1>3. /\ s.pc = "q3" /\ s.succ_fd = NULL /\ s.pred_fd = NULL
      /\ s.succ_addr = NULL /\ s.leaving_new = NULL
  BY DEF Blank
<1> HIDE DEF s
<1>4. Own(n, s) /\ Known(self_data, net, s.succ_addr) /\ Known(self_data, net, s.leaving_new)
  BY <1>3 DEF Own, Known
<1>5. Young(self_data[n])
  BY <1>1 DEF Young
<1>6. self_data[n].succ_fd = NULL /\ self_data[n].pred_fd = NULL
  BY <1>5, AtRest, HeldConns DEF Own
<1>7. Ends(new, net, NULL, NULL) /\ Greets(new, net)
  BY <1>2, <1>3, <1>4, <1>5, <1>6, AtRest, MemoryChange DEF Kernel
<1> HIDE DEF new
<1> QED
  BY <1>1, <1>7 DEF ConnInv

(* q3, q4 and the first part of q7. *)
LEMMA Q3Keeps == ASSUME NodeInv, ConnInv, NEW n \in Node, q3(n) PROVE ConnInv'
<1> DEFINE s == self_data[n]
           first == [s EXCEPT !.pc = "q6", !.range_start = 0, !.range_end = HASH_SIZE - 1]
           other == [s EXCEPT !.pc = "q7"]
           join == [type |-> "NET_JOIN", src |-> n, max_span |-> 0, max |-> NULL]
<1>1. PICK d \in net.udp :
        /\ d.dst = n /\ s.pc = "q3"
        /\ LET nt == [net EXCEPT !.udp = @ \ {d}]
           IN  IF d.pdu.type # "NET_GET_NODE_RESPONSE" THEN exit_with_error(n, nt)
               ELSE IF d.pdu.node = NULL THEN Continue(n, first, nt)
               ELSE Continue(n, other, SendUdp(nt, d.pdu.node, join))
  BY DEF q3
<1> DEFINE nt == [net EXCEPT !.udp = @ \ {d}]
<1>2. Kernel(nt) /\ d.pdu \in PDU
  BY AtRest, TakeKeeps, TakeType, NodeFacts
<1>3. Kernel(net) /\ s \in SelfData /\ Young(s)
  BY <1>1, AtRest, NodeFacts DEF Young
<1>4. s.succ_fd = NULL /\ s.pred_fd = NULL
  BY <1>3, HeldConns DEF Own
<1>5. join \in PDU /\ Plain(join)
  BY ByteFacts DEF PDU, Plain
<1>6. ASSUME NEW t \in {first, other}, NEW k, Kernel(k), Continue(n, t, k) PROVE ConnInv'
  <2> DEFINE new == [self_data EXCEPT ![n] = t]
  <2>1. "q6" \in PC /\ "q7" \in PC
    BY DEF PC
  <2>2. /\ t \in SelfData /\ t.succ_fd = NULL /\ t.pred_fd = NULL
        /\ t.pc \in {"q6", "q7"} /\ t.succ_addr = s.succ_addr /\ t.leaving_new = s.leaving_new
    BY <1>3, <1>4, <2>1, ByteFacts DEF SelfData
  <2> HIDE DEF first, other
  <2>3. Own(n, t)
    BY <2>2 DEF Own
  <2>4. Known(self_data, k, t.succ_addr) /\ Known(self_data, k, t.leaving_new)
    BY <1>6, <2>2, HeldConns
  <2>5. Ends(new, k, NULL, NULL) /\ Greets(new, k)
    BY <1>3, <1>4, <1>6, <2>2, <2>3, <2>4, MemoryChange DEF Kernel
  <2>6. self_data' = new /\ net' = k
    BY <1>6 DEF Continue
  <2> HIDE DEF new
  <2> QED
    BY <2>5, <2>6 DEF ConnInv
<1> HIDE DEF nt, first, other, join, s
<1>7. CASE exit_with_error(n, nt)
  BY <1>2, <1>7, FoundExits
<1>8. CASE Continue(n, first, nt)
  BY <1>2, <1>6, <1>8
<1>9. CASE d.pdu.type = "NET_GET_NODE_RESPONSE" /\ d.pdu.node # NULL
           /\ Continue(n, other, SendUdp(nt, d.pdu.node, join))
  <2>1. d.pdu.node \in Node
    BY <1>2, <1>9, PDUFields
  <2>2. Kernel(SendUdp(nt, d.pdu.node, join))
    BY <1>2, <1>5, <2>1, SendUdpKeeps
  <2> QED
    BY <1>6, <1>9, <2>2
<1> QED
  BY <1>1, <1>7, <1>8, <1>9 DEF nt

(* accept_predecessor_connection: the node had no predecessor. *)
LEMMA AcceptKeeps ==
  ASSUME NodeInv, ConnInv, NEW n \in Node, accept_predecessor_connection(n)
  PROVE  ConnInv'
<1> DEFINE s == self_data[n]
           c == Head(net.backlog[n])
           pc == IF s.pc = "accept" THEN "q6" ELSE "q18"
           pos == IF s.pc = "accept" THEN 0 ELSE 3
           t == [s EXCEPT !.pc = pc, !.pollPos = pos, !.pred_socket = TRUE, !.pred_fd = c]
           o == [net EXCEPT !.backlog[n] = Tail(@)]
           new == [self_data EXCEPT ![n] = t]
<1>1. s.pc \in {"accept", "q18accept"} /\ net.backlog[n] # <<>> /\ Continue(n, t, o)
  BY DEF accept_predecessor_connection
<1>2. Kernel(net) /\ s \in SelfData /\ net \in Net /\ Own(n, s)
  BY AtRest, NodeFacts, HeldConns
<1>3. c \in Conn /\ o \in Net /\ c # NULL
  BY <1>1, <1>2, TakeType, ConnFields
<1>4. c \in Range(net.backlog[n])
  BY <1>1, <1>2, NetFields, StreamRange
<1>5. c.to = n
  BY <1>4 DEF ConnInv, Ends
<1>6. pc \in {"q6", "q18"} /\ pc \in PC /\ pos \in 0 .. 3
  BY DEF PC
<1>7. /\ o.fwd = net.fwd /\ o.bwd = net.bwd /\ o.udp = net.udp
      /\ o.backlog = [net.backlog EXCEPT ![n] = Tail(@)]
  BY <1>2 DEF Net
<1>8. s.pred_fd = NULL
  BY <1>1, <1>2 DEF Own
<1>9. self_data' = new /\ net' = o
  BY <1>1 DEF Continue
<1> HIDE DEF pc, pos, c, o
<1>10. /\ t \in SelfData /\ t.pc = pc /\ t.pred_fd = c /\ t.pred_socket
       /\ t.succ_fd = s.succ_fd /\ t.succ_socket = s.succ_socket
       /\ t.succ_addr = s.succ_addr /\ t.leaving_new = s.leaving_new
  BY <1>2, <1>3, <1>6 DEF SelfData
<1> HIDE DEF t
<1>11. Own(n, t) /\ ~Young(t)
  BY <1>2, <1>5, <1>6, <1>10 DEF Own, Young
<1>12. Ends(new, o, NULL, NULL) /\ Greets(new, o)
  BY <1>1, <1>2, <1>3, <1>7, <1>8, <1>10, <1>11, AcceptChange DEF Kernel, c
<1> HIDE DEF new
<1> QED
  BY <1>9, <1>12 DEF ConnInv

(* q7 and q8: the first connection is accepted, its greeting read, and the
   successor named in it connected to. *)
LEMMA Q7Keeps == ASSUME NodeInv, ConnInv, NEW n \in Node, q7(n) PROVE ConnInv'
<1> DEFINE c == Head(net.backlog[n])
           pdu == Head(net.fwd[c])
           o == [net EXCEPT !.backlog[n] = Tail(@)]
           q == Tail(net.fwd[c])
           nt == [net EXCEPT !.backlog[n] = Tail(@), !.fwd[c] = Tail(@)]
           d == NewConn(n, pdu.next)
           s == [self_data[n] EXCEPT
                    !.pc = "q6", !.pred_socket = TRUE, !.pred_fd = c,
                    !.range_start = pdu.range_start, !.range_end = pdu.range_end]
           sd == [self_data EXCEPT ![n] = s]
           t == ConnectedTo(s, pdu.next, d)
           sent == Connect(nt, d)
<1>1. self_data[n].pc = "q7" /\ net.backlog[n] # <<>> /\ net.fwd[c] # <<>>
  BY DEF q7
<1>2. Kernel(net) /\ self_data[n] \in SelfData /\ net \in Net /\ Own(n, self_data[n])
  BY AtRest, NodeFacts, HeldConns
<1>3. self_data[n].pred_fd = NULL /\ self_data[n].succ_fd = NULL
  BY <1>1, <1>2 DEF Own, Young
<1>4. c \in Conn /\ c # NULL /\ o \in Net
  BY <1>1, <1>2, TakeType, ConnFields
<1>5. c \in Range(net.backlog[n])
  BY <1>1, <1>2, NetFields, StreamRange
<1>6. c.to = n
  BY <1>5 DEF ConnInv, Ends
<1>7. Greeted(self_data, net, n)
  BY DEF ConnInv, Greets
<1>8. pdu.type = "NET_JOIN_RESPONSE"
  BY <1>1, <1>7 DEF Greeted, Young
<1>9. /\ o.fwd = net.fwd /\ o.bwd = net.bwd /\ o.udp = net.udp
      /\ o.backlog = [net.backlog EXCEPT ![n] = Tail(@)]
  BY <1>2 DEF Net
<1>10. net.fwd[c] \in Seq(PDU) /\ pdu \in PDU /\ q \in Seq(PDU)
  BY <1>1, <1>2, <1>4, NetFields
<1>11. pdu \in Range(net.fwd[c]) /\ Range(q) \subseteq Range(net.fwd[c])
  BY <1>1, <1>10, StreamRange
<1>12. nt = [o EXCEPT !.fwd[c] = q]
  BY <1>9
<1>13. \/ exit_with_error(n, nt)
       \/ /\ \E connected \in ConnectSucceeds(nt, n, c, pdu.next) : connected
          /\ Unused(n, pdu.next) # {}
          /\ Continue(n, t, sent)
  BY DEF q7
<1>14. /\ pdu.next \in Node \cup {NULL} /\ pdu.range_start \in Byte /\ pdu.range_end \in Byte
       /\ Known(self_data, net, pdu.next)
  <2>1. PduKnown(self_data, net, pdu)
    BY <1>4, <1>11 DEF ConnInv, Greets
  <2> QED
    BY <1>8, <1>10, <2>1, PDUFields DEF PduKnown
<1> HIDE DEF c, pdu, o, q, nt
<1>15. /\ s \in SelfData /\ s.pc = "q6" /\ s.pred_fd = c /\ s.pred_socket
       /\ s.succ_fd = self_data[n].succ_fd /\ s.succ_socket = self_data[n].succ_socket
       /\ s.succ_addr = self_data[n].succ_addr /\ s.leaving_new = self_data[n].leaving_new
  <2>1. "q6" \in PC
    BY DEF PC
  <2> QED
    BY <1>2, <1>4, <1>14, <2>1 DEF SelfData
<1> HIDE DEF s
<1>16. Own(n, s) /\ ~Young(s)
  BY <1>3, <1>6, <1>15 DEF Own, Young
<1>17. /\ Ends(sd, o, NULL, NULL) /\ Greets(sd, o)
       /\ \A m \in Node \cup {NULL} : Known(self_data, net, m) => Known(sd, o, m)
  BY <1>1, <1>2, <1>3, <1>4, <1>9, <1>15, <1>16, AcceptChange DEF Kernel, c
<1>18. sd \in [Node -> SelfData] /\ sd[n] = s /\ \A m \in Node : m # n => sd[m] = self_data[m]
  BY <1>2, <1>15 DEF NodeInv
<1>19. World(sd, o)
  BY <1>4, <1>18 DEF World
<1> HIDE DEF sd
<1>20. World(sd, nt) /\ Ends(sd, nt, NULL, NULL) /\ Greets(sd, nt)
  <2>1. FwdOK(sd, o, NULL, c) /\ Holds(sd, o, c) /\ ~Young(sd[c.to])
    BY <1>4, <1>6, <1>15, <1>16, <1>17, <1>18 DEF Ends, Holds
  <2>2. Ending(q, "NET_CLOSE_CONNECTION")
    BY <1>1, <1>9, <1>10, <2>1, EndingTail DEF FwdOK, q
  <2>3. sd[c.from].succ_fd # c \/ Without(q, "NET_CLOSE_CONNECTION")
    BY <1>4, <1>9, <1>11, <2>1 DEF FwdOK, Without
  <2>4. \A p \in Range(q) : PduKnown(sd, o, p)
    BY <1>4, <1>9, <1>11, <1>17 DEF Greets
  <2> QED
    BY <1>4, <1>10, <1>12, <1>17, <1>19, <2>1, <2>2, <2>3, <2>4, ForwardChange
<1>21. nt.backlog = o.backlog
  BY <1>4, <1>12 DEF Net
<1>22. CASE exit_with_error(n, nt)
  <2>1. PICK pc \in {"exit0", "exit1"} : Continue(n, Blank(pc), CloseAll(nt, n))
    BY <1>22 DEF exit_with_error
  <2> DEFINE gone == [sd EXCEPT ![n] = Blank(pc)]
             k == CloseAll(nt, n)
  <2>2. Ends(gone, k, NULL, NULL) /\ Greets(gone, k)
    BY <1>20, ExitChange
  <2>3. self_data' = gone /\ net' = k
    BY <1>18, <2>1 DEF Continue, NodeInv, sd
  <2> HIDE DEF gone, k
  <2> QED
    BY <2>2, <2>3 DEF ConnInv
<1>23. CASE /\ \E connected \in ConnectSucceeds(nt, n, c, pdu.next) : connected
            /\ Unused(n, pdu.next) # {}
            /\ Continue(n, t, sent)
  <2>1. pdu.next \in Node /\ Unused(n, pdu.next) # {}
    BY <1>14, <1>23, ConnectSucceedsNode
  <2>2. net.backlog[pdu.next] = net.backlog[pdu.next] /\ d = NewConn(n, pdu.next)
    OBVIOUS
  <2> HIDE DEF d
  <2>3. /\ d \in Conn /\ d.from = n /\ d.to = pdu.next /\ d.from # d.to
        /\ ~Holds(self_data, net, d) /\ self_data[d.from].succ_fd # d
    BY <2>1, <2>2, UnusedFacts, ConnFields
  <2>4. ~Holds(sd, nt, d) /\ sd[d.from].succ_fd # d /\ d # NULL
    <3>1. nt.backlog[d.to] = net.backlog[d.to]
      BY <1>2, <1>9, <1>21, <2>1, <2>3, NetFields
    <3> QED
      BY <1>15, <1>18, <2>1, <2>3, <3>1, ConnFields DEF Holds
  <2>5. /\ Known(sd, nt, pdu.next) /\ Known(sd, nt, s.leaving_new) /\ s.leaving_new \in Node \cup {NULL}
    <3>1. Known(self_data, net, s.leaving_new) /\ s.leaving_new \in Node \cup {NULL}
      BY <1>2, <1>15, HeldConns, SelfDataFields
    <3>2. Known(sd, o, pdu.next) /\ Known(sd, o, s.leaving_new)
      BY <1>14, <1>17, <3>1
    <3> QED
      BY <1>21, <3>1, <3>2 DEF Known
  <2>6. /\ World(sd, sent) /\ Ends(sd, sent, NULL, NULL) /\ Greets(sd, sent) /\ Known(sd, sent, d.to)
        /\ \A m \in Node \cup {NULL} : Known(sd, nt, m) => Known(sd, sent, m)
        /\ sent.fwd = nt.fwd /\ sent.bwd = nt.bwd
    BY <1>20, <2>3, <2>4, <2>5, ConnectKeeps
  <2>7. nt.fwd[d] = <<>>
    BY <1>20, <2>3, <2>4 DEF Ends, FwdOK
  <2>8. /\ t \in SelfData /\ t.succ_fd = d /\ t.succ_addr = pdu.next /\ t.succ_socket
        /\ t.pred_fd = s.pred_fd /\ t.pred_socket = s.pred_socket
        /\ t.leaving_new = s.leaving_new /\ t.pc = s.pc
    BY <1>15, <2>1, <2>3 DEF ConnectedTo, SelfData
  <2> HIDE DEF sent, t
  <2>9. Own(n, t) /\ ~Young(t)
    BY <1>15, <1>16, <2>3, <2>8 DEF Own, Young
  <2>10. /\ sd[n].succ_fd = NULL /\ t.pred_fd = sd[n].pred_fd
         /\ Known(sd, sent, t.succ_addr) /\ Known(sd, sent, t.leaving_new)
         /\ Without(sent.fwd[t.succ_fd], "NET_CLOSE_CONNECTION")
    BY <1>3, <1>15, <1>18, <2>3, <2>5, <2>6, <2>7, <2>8, EndingSimple
  <2> DEFINE last == [sd EXCEPT ![n] = t]
  <2>11. Ends(last, sent, NULL, NULL) /\ Greets(last, sent)
    BY <2>6, <2>8, <2>9, <2>10, MemoryChange
  <2>12. self_data' = last /\ net' = sent
    BY <1>23 DEF Continue, sd, NodeInv
  <2> HIDE DEF last
  <2> QED
    BY <2>11, <2>12 DEF ConnInv
<1> QED
  BY <1>13, <1>22, <1>23

(* The memory of a node that polls. *)
LEMMA PolledFound ==
  ASSUME NodeInv, NEW n \in Node, NEW pos \in 0 .. 3, NEW p, Polls(n, p)
  PROVE  Found(n, Polled(n, pos))
<1>1. Ready(Polled(n, pos)) /\ self_data[n] \in SelfData
  BY PolledReady, NodeFacts
<1>2. SameEnds(Polled(n, pos), self_data[n])
  BY <1>1 DEF Polled, SameEnds, SelfData
<1>3. ~Young(Polled(n, pos))
  BY <1>2 DEF SameEnds, Young, Polls
<1> QED
  BY <1>1, <1>2, <1>3 DEF Found

(* poll_for_incoming_data with a PDU to read. *)
LEMMA PollKeeps ==
  ASSUME NodeInv, ConnInv, NEW n \in Node, PollUdp(n) \/ PollSuccessor(n) \/ PollPredecessor(n)
  PROVE  ConnInv'
<1>1. Kernel(net) /\ net \in Net
  BY AtRest, NodeFacts
<1>2. ASSUME NEW nt, nt.backlog = net.backlog, NEW pdu, PduKnown(self_data, net, pdu)
      PROVE  PduKnown(self_data, nt, pdu)
  BY <1>2 DEF PduKnown, Known
<1>3. CASE PollUdp(n)
  <2>1. PICK d \in net.udp : HandlePDU(n, Polled(n, 1), d.pdu, [net EXCEPT !.udp = @ \ {d}])
    BY <1>3 DEF PollUdp
  <2> DEFINE nt == [net EXCEPT !.udp = @ \ {d}]
  <2>2. Found(n, Polled(n, 1))
    BY <1>3, PolledFound DEF PollUdp
  <2>3. Kernel(nt) /\ nt.backlog = net.backlog /\ d.pdu \in PDU /\ PduKnown(self_data, net, d.pdu)
    BY <1>1, TakeKeeps, TakeType
  <2>4. HandlePDU(n, Polled(n, 1), d.pdu, nt)
    BY <2>1
  <2> HIDE DEF nt
  <2>5. PduKnown(self_data, nt, d.pdu)
    BY <1>2, <2>3
  <2> QED
    BY <2>2, <2>3, <2>4, <2>5, HandlePDUKeeps
<1>4. CASE PollSuccessor(n)
  <2> DEFINE c == self_data[n].succ_fd
             nt == [net EXCEPT !.bwd[c] = Tail(@)]
             pdu == Head(net.bwd[c])
  <2>1. Polls(n, 1) /\ c # NULL /\ net.bwd[c] # <<>> /\ HandlePDU(n, Polled(n, 1), pdu, nt)
    BY <1>4 DEF PollSuccessor
  <2>2. Found(n, Polled(n, 1)) /\ c \in Conn
    BY <2>1, PolledFound, NodeFacts
  <2>3. Kernel(nt) /\ nt.backlog = net.backlog /\ pdu \in PDU /\ PduKnown(self_data, net, pdu)
    BY <1>1, <2>1, <2>2, TakeKeeps, TakeType
  <2> HIDE DEF nt, pdu
  <2>4. PduKnown(self_data, nt, pdu)
    BY <1>2, <2>3
  <2> QED
    BY <2>1, <2>2, <2>3, <2>4, HandlePDUKeeps
<1>5. CASE PollPredecessor(n)
  <2> DEFINE c == self_data[n].pred_fd
             nt == [net EXCEPT !.fwd[c] = Tail(@)]
             pdu == Head(net.fwd[c])
  <2>1. Polls(n, 2) /\ c # NULL /\ net.fwd[c] # <<>> /\ HandlePDU(n, Polled(n, 2), pdu, nt)
    BY <1>5 DEF PollPredecessor
  <2>2. Found(n, Polled(n, 2)) /\ c \in Conn /\ ~Young(self_data[n])
    BY <2>1, PolledFound, NodeFacts DEF Polls, Young
  <2>3. Kernel(nt) /\ nt.backlog = net.backlog /\ pdu \in PDU /\ PduKnown(self_data, net, pdu)
    BY <1>1, <2>1, <2>2, TakeKeeps, TakeType
  <2> HIDE DEF nt, pdu
  <2>4. PduKnown(self_data, nt, pdu)
    BY <1>2, <2>3
  <2> QED
    BY <2>1, <2>2, <2>3, <2>4, HandlePDUKeeps
<1> QED
  BY <1>3, <1>4, <1>5

(* poll_for_incoming_data on a connection that has ended: its stream is empty. *)
LEMMA EndedKeeps ==
  ASSUME NodeInv, ConnInv, NEW n \in Node,
         \/ SuccessorEnded(n) \/ PredecessorEnded(n)
         \/ SuccessorReset(n) \/ PredecessorReset(n)
  PROVE  ConnInv'
<1>1. Kernel(net)
  BY AtRest
<1>2. ASSUME NEW pos \in 0 .. 3, NEW p, Polls(n, p), NEW t \in SelfData, Continue(n, t, net),
             t.pc = self_data[n].pc, t.succ_addr = self_data[n].succ_addr,
             t.leaving_new = self_data[n].leaving_new, Own(n, t),
             \/ t.succ_fd = self_data[n].succ_fd
             \/ t.succ_fd = NULL /\ net.bwd[self_data[n].succ_fd] = <<>>,
             \/ t.pred_fd = self_data[n].pred_fd
             \/ t.pred_fd = NULL /\ net.fwd[self_data[n].pred_fd] = <<>>
      PROVE  ConnInv'
  <2> DEFINE new == [self_data EXCEPT ![n] = t]
  <2>1. Known(self_data, net, t.succ_addr) /\ Known(self_data, net, t.leaving_new)
    BY <1>1, <1>2, HeldConns
  <2>2. Young(t) => Young(self_data[n])
    BY <1>2 DEF Young
  <2>3. Ends(new, net, NULL, NULL) /\ Greets(new, net)
    BY <1>1, <1>2, <2>1, <2>2, MemoryChange DEF Kernel
  <2>4. self_data' = new /\ net' = net
    BY <1>2 DEF Continue
  <2> HIDE DEF new
  <2> QED
    BY <2>3, <2>4 DEF ConnInv
<1>3. ASSUME SuccessorEnded(n) \/ SuccessorReset(n) PROVE ConnInv'
  <2> DEFINE s == Polled(n, 2)
  <2>1. /\ Polls(n, 1) /\ net.bwd[self_data[n].succ_fd] = <<>>
        /\ \/ Continue(n, [s EXCEPT !.succ_fd = NULL], net)
           \/ Continue(n, [s EXCEPT !.succ_fd = NULL, !.succ_socket = FALSE], net)
    BY <1>3 DEF SuccessorEnded, SuccessorReset, ConnectorAtEnd
  <2>2. Found(n, s)
    BY <2>1, PolledFound
  <2>3. PICK t : /\ t \in {[s EXCEPT !.succ_fd = NULL], [s EXCEPT !.succ_fd = NULL, !.succ_socket = FALSE]}
                 /\ Continue(n, t, net)
    BY <2>1
  <2> HIDE DEF s
  <2>4. Own(n, s) /\ s \in SelfData /\ SameEnds(s, self_data[n])
    BY <1>1, <2>2, FoundFields DEF Found
  <2>5. /\ t \in SelfData /\ t.pc = s.pc /\ t.succ_addr = s.succ_addr /\ t.leaving_new = s.leaving_new
        /\ t.pred_fd = s.pred_fd /\ t.pred_socket = s.pred_socket /\ t.succ_fd = NULL
    BY <2>3, <2>4 DEF SelfData
  <2>6. Own(n, t)
    BY <2>4, <2>5 DEF Own, Young
  <2> QED
    BY <1>2, <2>1, <2>3, <2>4, <2>5, <2>6 DEF SameEnds
<1>4. ASSUME PredecessorEnded(n) \/ PredecessorReset(n) PROVE ConnInv'
  <2> DEFINE s == Polled(n, 3)
  <2>1. /\ Polls(n, 2) /\ net.fwd[self_data[n].pred_fd] = <<>>
        /\ \/ Continue(n, [s EXCEPT !.pred_fd = NULL], net)
           \/ Continue(n, [s EXCEPT !.pred_fd = NULL, !.pred_socket = FALSE], net)
    BY <1>4 DEF PredecessorEnded, PredecessorReset, AcceptorAtEnd
  <2>2. Found(n, s)
    BY <2>1, PolledFound
  <2>3. PICK t : /\ t \in {[s EXCEPT !.pred_fd = NULL], [s EXCEPT !.pred_fd = NULL, !.pred_socket = FALSE]}
                 /\ Continue(n, t, net)
    BY <2>1
  <2> HIDE DEF s
  <2>4. Own(n, s) /\ s \in SelfData /\ SameEnds(s, self_data[n])
    BY <1>1, <2>2, FoundFields DEF Found
  <2>5. /\ t \in SelfData /\ t.pc = s.pc /\ t.succ_addr = s.succ_addr /\ t.leaving_new = s.leaving_new
        /\ t.succ_fd = s.succ_fd /\ t.succ_socket = s.succ_socket /\ t.pred_fd = NULL
    BY <2>3, <2>4 DEF SelfData
  <2>6. Own(n, t)
    BY <2>4, <2>5 DEF Own, Young
  <2> QED
    BY <1>2, <2>1, <2>3, <2>4, <2>5, <2>6 DEF SameEnds
<1> QED
  BY <1>3, <1>4

(* The first part of shutdown_proceedure. *)
LEMMA ShutdownKeeps ==
  ASSUME NodeInv, ConnInv, NEW n \in Node, shutdown_proceedure(n)
  PROVE  ConnInv'
<1> DEFINE s == self_data[n]
           t == [s EXCEPT !.pc = "q11"]
           pdu == [type |-> "NET_NEW_RANGE", range_start |-> s.range_start, range_end |-> s.range_end]
           new == [self_data EXCEPT ![n] = t]
<1>1. s.pc = "q6" /\ \/ exit_success(n, net) \/ exit_with_error(n, net)
                     \/ Continue(n, t, SendNewRange(s, net))
  BY DEF shutdown_proceedure
<1>2. Kernel(net) /\ s \in SelfData /\ Own(n, s)
  BY AtRest, HeldConns
<1>3. Found(n, s)
  BY <1>1, NodeFacts DEF Found, Young, SameEnds
<1>4. pdu \in PDU /\ Plain(pdu)
  BY <1>2, SelfDataFields, PDUTypes DEF Plain
<1>5. SendNewRange(s, net) \in {SendForward(net, s.succ_fd, <<pdu>>), SendBackward(net, s.pred_fd, <<pdu>>)}
  BY DEF SendNewRange
<1> HIDE DEF pdu
<1>6. Kernel(SendNewRange(s, net))
  BY <1>2, <1>3, <1>4, <1>5, ForwardKeeps
<1>7. CASE Continue(n, t, SendNewRange(s, net))
  <2> DEFINE k == SendNewRange(s, net)
  <2>1. /\ t \in SelfData /\ t.pc = "q11" /\ t.succ_fd = s.succ_fd /\ t.pred_fd = s.pred_fd
        /\ t.succ_socket = s.succ_socket /\ t.pred_socket = s.pred_socket
        /\ t.succ_addr = s.succ_addr /\ t.leaving_new = s.leaving_new
    <3>1. "q11" \in PC
      BY DEF PC
    <3> QED
      BY <1>2, <3>1 DEF SelfData
  <2> HIDE DEF k, t
  <2>2. Own(n, t) /\ ~Young(t)
    BY <1>2, <2>1 DEF Own, Young
  <2>3. Known(self_data, k, t.succ_addr) /\ Known(self_data, k, t.leaving_new)
    BY <1>6, <2>1, HeldConns DEF k
  <2>4. Ends(new, k, NULL, NULL) /\ Greets(new, k)
    BY <1>6, <2>1, <2>2, <2>3, MemoryChange DEF Kernel, k
  <2>5. self_data' = new /\ net' = k
    BY <1>7 DEF Continue, k
  <2> HIDE DEF new
  <2> QED
    BY <2>4, <2>5 DEF ConnInv
<1> QED
  BY <1>1, <1>2, <1>7, FoundExits

(* send_all_entries. *)
LEMMA SendAllEntriesKeeps ==
  ASSUME NEW n \in Node, NEW nt, Kernel(nt), NEW s, Found(n, s)
  PROVE  Kernel(SendAllEntries(s, nt))
<1> DEFINE p == Inserts(s, Entries(s))
<1>1. p \in Seq(PDU)
  BY FoundFields, InsertsType
<1>2. \A pdu \in Range(p) : Plain(pdu)
  BY DEF Range, Inserts, InsertPDU, Plain
<1> HIDE DEF p
<1>3. /\ Without(p, "NET_CLOSE_CONNECTION") /\ Without(p, "NET_LEAVING")
      /\ \A pdu \in Range(p) : PduKnown(self_data, nt, pdu)
  BY <1>2, PlainFacts
<1>4. s.succ_fd = self_data[n].succ_fd /\ s.pred_fd = self_data[n].pred_fd
  BY FoundFields
<1> QED
  BY <1>1, <1>3, <1>4, SendForwardKeeps, SendBackwardKeeps DEF SendAllEntries, p

(* The second part of shutdown_proceedure. *)
LEMMA ResponseKeeps ==
  ASSUME NodeInv, ConnInv, NEW n \in Node, ReceiveNewRangeResponse(n) \/ NewRangeConnectionEnded(n)
  PROVE  ConnInv'
<1> DEFINE s == self_data[n]
           c == NewRangeFd(s)
           taken == IF ToSuccessor(s) THEN [net EXCEPT !.bwd[c] = Tail(@)]
                    ELSE [net EXCEPT !.fwd[c] = Tail(@)]
           t == WithoutRange(s)
           new == [self_data EXCEPT ![n] = t]
<1>1. s.pc = "q11"
  BY DEF ReceiveNewRangeResponse, NewRangeConnectionEnded
<1>2. Kernel(net) /\ s \in SelfData /\ Own(n, s) /\ ~Young(s)
  BY <1>1, AtRest, HeldConns DEF Young
<1>3. Found(n, s)
  BY <1>1, NodeFacts DEF Found, Young, SameEnds
<1>4. PICK nt : /\ Kernel(nt)
                /\ \/ Continue(n, t, SendAllEntries(s, nt))
                   \/ exit_with_error(n, SendAllEntries(s, nt))
  <2>1. CASE NewRangeConnectionEnded(n)
    BY <1>2, <2>1 DEF NewRangeConnectionEnded
  <2>2. CASE ReceiveNewRangeResponse(n)
    <3>1. /\ c # NULL /\ IF ToSuccessor(s) THEN net.bwd[c] # <<>> ELSE net.fwd[c] # <<>>
          /\ \/ Continue(n, t, SendAllEntries(s, taken))
             \/ exit_with_error(n, SendAllEntries(s, taken))
      BY <2>2 DEF ReceiveNewRangeResponse
    <3>2. c = IF ToSuccessor(s) THEN s.succ_fd ELSE s.pred_fd
      BY DEF NewRangeFd
    <3>3. c \in Conn
      BY <1>2, <3>1, <3>2, SelfDataFields
    <3> HIDE DEF c, t
    <3>4. Kernel(taken)
      BY <1>2, <3>1, <3>2, <3>3, TakeKeeps
    <3> QED
      BY <3>1, <3>4
  <2> QED
    BY <2>1, <2>2
<1> DEFINE k == SendAllEntries(s, nt)
<1>5. Kernel(k)
  BY <1>3, <1>4, SendAllEntriesKeeps
<1>6. CASE exit_with_error(n, k)
  BY <1>5, <1>6, FoundExits
<1>7. CASE Continue(n, t, k)
  <2>1. /\ t \in SelfData /\ t.pc = "q18" /\ t.succ_fd = s.succ_fd /\ t.pred_fd = s.pred_fd
        /\ t.succ_socket = s.succ_socket /\ t.pred_socket = s.pred_socket
        /\ t.succ_addr = s.succ_addr /\ t.leaving_new = s.succ_addr
    <3>1. t \in SelfData
      BY <1>2, WithoutRangeReady, ReadyFields
    <3> QED
      BY <1>2, <3>1 DEF WithoutRange, SelfData
  <2> HIDE DEF k, t
  <2>2. Own(n, t) /\ ~Young(t)
    BY <1>2, <2>1 DEF Own, Young
  <2>3. Known(self_data, k, t.succ_addr) /\ Known(self_data, k, t.leaving_new)
    BY <1>5, <2>1, HeldConns
  <2>4. Ends(new, k, NULL, NULL) /\ Greets(new, k)
    BY <1>5, <2>1, <2>2, <2>3, MemoryChange DEF Kernel
  <2>5. self_data' = new /\ net' = k
    BY <1>7 DEF Continue
  <2> HIDE DEF new
  <2> QED
    BY <2>4, <2>5 DEF ConnInv
<1> QED
  BY <1>4, <1>6, <1>7

(* The last part of shutdown_proceedure: both last words are written, and the
   end of the process lets go of both connections. *)
LEMMA LeaveKeeps == ASSUME NodeInv, ConnInv, NEW n \in Node, Leave(n) PROVE ConnInv'
<1> DEFINE s == self_data[n]
           c == s.succ_fd
           b == s.pred_fd
           word == [type |-> "NET_LEAVING", new |-> s.leaving_new]
           p == <<word>>
           closing == SendForward(net, c, <<[type |-> "NET_CLOSE_CONNECTION"]>>)
           leaving == SendBackward(closing, b, p)
<1>1. exit_success(n, leaving)
  BY DEF Leave
<1>2. /\ Kernel(net) /\ s \in SelfData /\ Own(n, s) /\ c \in Conn \cup {NULL} /\ b \in Conn \cup {NULL}
      /\ Known(self_data, net, s.leaving_new) /\ s.leaving_new \in Node \cup {NULL}
      /\ b # NULL => Without(net.bwd[b], "NET_LEAVING")
  BY AtRest, HeldConns, SelfDataFields
<1>3. /\ World(self_data, closing) /\ Ends(self_data, closing, c, NULL) /\ Greets(self_data, closing)
      /\ closing.backlog = net.backlog
  BY <1>2, CloseSent
<1>4. closing.bwd = net.bwd /\ closing \in Net
  <2>1. net \in Net
    BY NodeFacts
  <2> QED
    BY <1>3, <2>1 DEF SendForward, Net, World
<1>5. word \in PDU /\ PduKnown(self_data, closing, word) /\ Ending(<<word>>, "NET_LEAVING")
  <2>1. word \in PDU
    BY <1>2, PDUTypes
  <2> QED
    BY <1>2, <1>3, <2>1, EndingSimple DEF PduKnown, Known
<1> HIDE DEF word, closing, s
<1>6. p \in Seq(PDU) /\ Range(p) = {word}
  BY <1>5 DEF Range
<1>7. Ending(p, "NET_LEAVING")
  BY <1>5
<1> HIDE DEF p
<1>8. PICK y : /\ y = NULL \/ y = b
               /\ World(self_data, leaving) /\ Ends(self_data, leaving, c, y) /\ Greets(self_data, leaving)
  <2>1. CASE ~(b # NULL /\ ConnectorHolds(b))
    BY <1>3, <2>1 DEF SendBackward
  <2>2. CASE b # NULL /\ ConnectorHolds(b)
    <3> DEFINE q == closing.bwd[b] \o p
               o == [closing EXCEPT !.bwd[b] = q]
    <3>1. b \in Conn /\ closing.bwd[b] \in Seq(PDU) /\ Without(closing.bwd[b], "NET_LEAVING")
      BY <1>2, <1>4, <2>2, NetFields
    <3>2. Range(q) = Range(closing.bwd[b]) \cup Range(p) /\ q \in Seq(PDU)
      BY <1>6, <3>1, StreamRange
    <3>3. \A pdu \in Range(q) : PduKnown(self_data, closing, pdu)
      BY <1>3, <1>5, <1>6, <3>1, <3>2 DEF Greets
    <3>4. Ending(q, "NET_LEAVING")
      BY <1>6, <1>7, <3>1, EndingConcat
    <3>5. leaving = o
      BY <2>2 DEF SendBackward
    <3>6. self_data[b.from].succ_fd = b
      BY <2>2 DEF ConnectorHolds
    <3> HIDE DEF q
    <3>7. World(self_data, o) /\ Greets(self_data, o) /\ Ends(self_data, o, c, b)
      BY <1>3, <3>1, <3>2, <3>3, <3>4, <3>6, BackwardChange
    <3> QED
      BY <3>5, <3>7
  <2> QED
    BY <2>1, <2>2
<1>9. (c = NULL \/ c.from = n) /\ (y = NULL \/ y.to = n)
  BY <1>2, <1>8 DEF Own
<1> HIDE DEF leaving, c
<1> QED
  BY <1>1, <1>8, <1>9, ExitKeeps

(* Timeouts and signals. *)
LEMMA FailureKeeps ==
  ASSUME NodeInv, ConnInv, NEW n \in Node, Timeout(n) \/ Interrupted(n)
  PROVE  ConnInv'
<1>1. exit_with_error(n, net)
  BY DEF Timeout, Interrupted
<1> QED
  BY <1>1, AtRest, FoundExits

(* Every step of a process. *)
LEMMA NodeStepKeeps == ASSUME NodeInv, ConnInv, NEW n \in Node, NodeStep(n) PROVE ConnInv'
<1>1. \/ q3(n) \/ q7(n) \/ accept_predecessor_connection(n)
      \/ PollUdp(n) \/ PollSuccessor(n) \/ PollPredecessor(n)
      \/ SuccessorEnded(n) \/ PredecessorEnded(n)
      \/ ReceiveNewRangeResponse(n) \/ NewRangeConnectionEnded(n) \/ Leave(n)
  BY DEF NodeStep
<1> QED
  BY <1>1, Q3Keeps, Q7Keeps, AcceptKeeps, PollKeeps, EndedKeeps, ResponseKeeps, LeaveKeeps

(***************************************************************************)
(* The whole system.                                                       *)
(***************************************************************************)

(* Before anything has started. *)
LEMMA InitKeeps == Init => ConnInv
<1> SUFFICES ASSUME Init PROVE ConnInv
  OBVIOUS
<1>1. /\ \A n \in Node : self_data[n] = Blank("off")
      /\ \A c \in Conn : net.fwd[c] = <<>> /\ net.bwd[c] = <<>>
      /\ \A n \in Node : net.backlog[n] = <<>>
      /\ net.udp = {}
  BY DEF Init, QuietNet
<1>2. Range(<<>>) = {} /\ Without(<<>>, "NET_CLOSE_CONNECTION") /\ Without(<<>>, "NET_LEAVING")
      /\ Ending(<<>>, "NET_CLOSE_CONNECTION") /\ Ending(<<>>, "NET_LEAVING")
  BY EndingSimple DEF Range
<1>3. \A n \in Node : Own(n, self_data[n])
  BY <1>1 DEF Own, Blank
<1>4. \A c \in Conn : FwdOK(self_data, net, NULL, c) /\ BwdOK(self_data, net, NULL, c)
  BY <1>1, <1>2 DEF FwdOK, BwdOK
<1>5. Greets(self_data, net)
  BY <1>1, <1>2 DEF Greets, Greeted, Known, Blank
<1> QED
  BY <1>1, <1>2, <1>3, <1>4, <1>5 DEF ConnInv, Ends

(* Every step of the system keeps the invariant. *)
LEMMA NextKeeps == NodeInv /\ OthersInv /\ ConnInv /\ [Next]_vars => ConnInv'
<1> SUFFICES ASSUME NodeInv, OthersInv, ConnInv, [Next]_vars PROVE ConnInv'
  OBVIOUS
<1>0. Kernel(net)
  BY AtRest
<1>1. ASSUME NEW n \in Node, StartNode(n) PROVE ConnInv'
  BY <1>1, StartKeeps DEF StartNode
<1>2. ASSUME NEW n \in Node, set_shutdown(n) PROVE ConnInv'
  BY <1>2, ShutdownKeeps DEF set_shutdown
<1>3. ASSUME NEW n \in Node, RunNode(n) PROVE ConnInv'
  BY <1>3, NodeStepKeeps DEF RunNode
<1>4. ASSUME NEW n \in Node, NodeFault(n) PROVE ConnInv'
  BY <1>4, FailureKeeps, EndedKeeps DEF NodeFault
<1>5. ASSUME UNCHANGED <<self_data, net>> PROVE ConnInv'
  <2>1. self_data' = self_data /\ net' = net
    BY <1>5
  <2> QED
    BY <2>1 DEF ConnInv
<1>6. ASSUME NEW n \in Node, NetAlive(n) \/ NodeTimeout(n) PROVE ConnInv'
  BY <1>5, <1>6 DEF NetAlive, NodeTimeout
<1>7. ASSUME NEW n \in Node, NetGetNode(n) PROVE ConnInv'
  <2>1. PICK m \in Node \cup {NULL} :
          net' = SendUdp(net, n, [type |-> "NET_GET_NODE_RESPONSE", node |-> m])
    BY <1>7 DEF NetGetNode, OthersInv
  <2> DEFINE pdu == [type |-> "NET_GET_NODE_RESPONSE", node |-> m]
  <2>2. pdu \in PDU /\ Plain(pdu)
    BY PDUTypes DEF Plain
  <2> HIDE DEF pdu
  <2>3. Kernel(SendUdp(net, n, pdu))
    BY <1>0, <2>2, SendUdpKeeps
  <2>4. net' = SendUdp(net, n, pdu) /\ self_data' = self_data
    BY <1>7, <2>1 DEF NetGetNode, pdu
  <2> QED
    BY <2>3, <2>4 DEF Kernel, ConnInv
<1>8. ASSUME NEW pdu \in PDU, Plain(pdu), ClientSend(pdu) PROVE ConnInv'
  <2>1. PICK n \in Node : net' = SendUdp(net, n, pdu)
    BY <1>8 DEF ClientSend, OthersInv
  <2>2. Kernel(SendUdp(net, n, pdu))
    BY <1>0, <1>8, SendUdpKeeps
  <2>3. self_data' = self_data
    BY <1>8 DEF ClientSend
  <2> QED
    BY <2>1, <2>2, <2>3 DEF Kernel, ConnInv
<1>9. ASSUME ClientInsert \/ ClientRemove \/ ClientLookup PROVE ConnInv'
  <2>1. /\ \A k \in Key, v \in Value :
              LET pdu == [type |-> "VAL_INSERT", key |-> k, val |-> v] IN pdu \in PDU /\ Plain(pdu)
        /\ \A k \in Key : LET pdu == [type |-> "VAL_REMOVE", key |-> k] IN pdu \in PDU /\ Plain(pdu)
        /\ \A k \in Key : LET pdu == [type |-> "VAL_LOOKUP", key |-> k] IN pdu \in PDU /\ Plain(pdu)
    BY DEF PDU, Plain
  <2> QED
    BY <1>8, <1>9, <2>1 DEF ClientInsert, ClientRemove, ClientLookup
<1>10. ASSUME LoseDatagram \/ ClientReceive PROVE ConnInv'
  <2>1. PICK d \in net.udp : net' = [net EXCEPT !.udp = @ \ {d}]
    BY <1>10 DEF LoseDatagram, ClientReceive
  <2>2. self_data' = self_data
    BY <1>10 DEF LoseDatagram, ClientReceive
  <2>3. Kernel([net EXCEPT !.udp = @ \ {d}])
    <3>1. PICK D \in SUBSET [dst : Node \cup {Client}, pdu : PDU] : D = net.udp \ {d}
      BY NetFields DEF NodeInv
    <3> QED
      BY <1>0, <3>1, UdpChange DEF Kernel
  <2> QED
    BY <2>1, <2>2, <2>3 DEF Kernel, ConnInv
<1>11. CASE UNCHANGED vars
  BY <1>5, <1>11 DEF vars
<1> QED
  BY <1>1, <1>2, <1>3, <1>4, <1>6, <1>7, <1>9, <1>10, <1>11 DEF Next

(* The inductive invariant is an invariant. *)
LEMMA ConnInvariance == Spec => [](NodeInv /\ OthersInv /\ ConnInv)
  BY InitGood, NextGood, InitKeeps, NextKeeps, PTL DEF Spec

(* Nothing follows NET_CLOSE_CONNECTION or NET_LEAVING on a stream, however
   joins, leaves, requests and failures interleave: the node that writes the
   word drops the connection or ends in the same step, and nobody else writes
   to that stream, so the receiver, which closes the connection when it
   handles the word, loses nothing. *)
THEOREM LastWordsLast == Spec => []LastWords
<1>1. ConnInv => LastWords
  BY DEF ConnInv, Ends, FwdOK, BwdOK, Ending, LastWords
<1> QED
  BY <1>1, ConnInvariance, PTL

(* A node in q7 that accepts a connection always finds NET_JOIN_RESPONSE first
   on it: a node is connected to by others only at an address that was learnt
   from its NET_JOIN_RESPONSE or later, so nobody comes before the node that
   makes room, in any environment. *)
THEOREM WelcomedFirst == Spec => []JoinResponseFirst
<1>1. ConnInv => JoinResponseFirst
  BY DEF ConnInv, Greets, Greeted, Young, JoinResponseFirst
<1> QED
  BY <1>1, ConnInvariance, PTL
=============================================================================
