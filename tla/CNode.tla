-------------------------------- MODULE CNode --------------------------------
(***************************************************************************)
(* The C node (c_node.c, hash_handling.c): one operator per handler, named *)
(* as in the code.  A handler gets the node n, its memory s and the kernel *)
(* nt as they are after the PDU was received, and ends in Continue or      *)
(* exit_with_error.  A handler is one step: it only blocks in              *)
(* accept_predecessor_connection, always as its last call, where the       *)
(* process waits in "accept" (or "q18accept") for the step that accepts.   *)
(***************************************************************************)
EXTENDS Sockets

Continue(n, s, nt) == self_data' = [self_data EXCEPT ![n] = s] /\ net' = nt

exit_with_error(n, nt) == Continue(n, Blank("exit1"), CloseAll(nt, n))

exit_success(n, nt) == Continue(n, Blank("exit0"), CloseAll(nt, n))

(* poll_for_incoming_data is called in the loop of q6 and once in the
   shutdown, where the hash table has already been freed. *)
ShuttingDown(s) == s.pc \in {"q18", "q18accept"}

(* accept_predecessor_connection: blocks until a connection is there. *)
Awaiting(s) == IF ShuttingDown(s) THEN "q18accept" ELSE "accept"

check_range(s, k) == InRange(hash_ssn[k], s.range_start, s.range_end)

(* The VAL_INSERTs for the entries K of a table, in the order of ssns[]. *)
InsertPDU(s, k) == [type |-> "VAL_INSERT", key |-> k, val |-> s.hash_table[k]]

Inserts(s, K) == LET order == SetToSeq(K)
                 IN  [i \in DOMAIN order |-> InsertPDU(s, order[i])]

Entries(s) == {k \in Key : s.hash_table[k] # NULL}

(***************************************************************************)
(* Values.  Using the freed table in the shutdown is undefined: the access *)
(* is lost or the process dies.                                            *)
(***************************************************************************)
UseFreedTable(n, s, nt) == Continue(n, s, nt) \/ exit_with_error(n, nt)

(* A failed send to the successor is not noticed. *)
handle_ht_insert(n, s, pdu, nt) ==
    IF ~check_range(s, pdu.key)
    THEN Continue(n, s, SendForward(nt, s.succ_fd, <<pdu>>))
    ELSE IF ShuttingDown(s) THEN UseFreedTable(n, s, nt)
    ELSE Continue(n, [s EXCEPT !.hash_table[pdu.key] = pdu.val], nt)

handle_ht_remove(n, s, pdu, nt) ==
    IF ~check_range(s, pdu.key)
    THEN IF s.succ_fd = NULL THEN exit_with_error(n, nt)
         ELSE Continue(n, s, SendForward(nt, s.succ_fd, <<pdu>>))
    ELSE IF ShuttingDown(s) THEN UseFreedTable(n, s, nt)
    ELSE Continue(n, [s EXCEPT !.hash_table[pdu.key] = NULL], nt)

(* send_lookup_response_pdu_udp *)
LookupResponse(s, k) == [type |-> "VAL_LOOKUP_RESPONSE", key |-> k, val |-> s.hash_table[k]]

(* Mutant of handle_ht_lookup: a lookup for another range is dropped. *)
Mutant_LookupNotForwarded(n, s, pdu, nt) ==
    Continue(n, s, IF check_range(s, pdu.key) /\ s.hash_table[pdu.key] # NULL
                   THEN SendUdp(nt, Client, LookupResponse(s, pdu.key)) ELSE nt)

(* No answer is sent if the key is not there. *)
handle_ht_lookup(n, s, pdu, nt) ==
    IF ~check_range(s, pdu.key)
    THEN IF s.succ_fd = NULL THEN exit_with_error(n, nt)
         ELSE Continue(n, s, SendForward(nt, s.succ_fd, <<pdu>>))
    ELSE IF ShuttingDown(s) THEN UseFreedTable(n, s, nt)
    ELSE Continue(n, s, IF s.hash_table[pdu.key] = NULL THEN nt
                        ELSE SendUdp(nt, Client, LookupResponse(s, pdu.key)))

(* The handlers in c_node.c take the PDU apart and call these. *)
handle_val_insert(n, s, pdu, nt) == handle_ht_insert(n, s, pdu, nt)

handle_val_remove(n, s, pdu, nt) == handle_ht_remove(n, s, pdu, nt)

handle_val_lookup(n, s, pdu, nt) == handle_ht_lookup(n, s, pdu, nt)

(***************************************************************************)
(* Joining nodes.                                                          *)
(***************************************************************************)

(* send_new_range_and_entries: what the node keeps and what it sends.  The
   reads of a freed table find no entry. *)
KeptHalf(s) == [s EXCEPT !.range_end = middle_point(s.range_start, s.range_end)]

HandedOver(s) == {k \in Entries(s) : ~check_range(KeptHalf(s), k)}

(* Mutant of AfterHandover: the entries that were sent are kept. *)
Mutant_KeepsEntries(s) == KeptHalf(s)

AfterHandover(s) ==
    [KeptHalf(s) EXCEPT !.hash_table =
        [k \in Key |-> IF k \in HandedOver(s) THEN NULL ELSE s.hash_table[k]]]

(* Mutants of Handover: the entries are looked for after they were removed;
   the entries are sent before the range. *)
Mutant_RemovedFirst(s, next) ==
    <<[type |-> "NET_JOIN_RESPONSE", next |-> next,
       range_start |-> handover_start(s.range_start, s.range_end), range_end |-> s.range_end]>>
    \o Inserts(s, Entries(AfterHandover(s)) \cap HandedOver(s))

Mutant_EntriesFirst(s, next) ==
    Inserts(s, HandedOver(s))
    \o <<[type |-> "NET_JOIN_RESPONSE", next |-> next,
          range_start |-> handover_start(s.range_start, s.range_end), range_end |-> s.range_end]>>

Handover(s, next) ==
    <<[type |-> "NET_JOIN_RESPONSE", next |-> next,
       range_start |-> handover_start(s.range_start, s.range_end), range_end |-> s.range_end]>>
    \o Inserts(s, HandedOver(s))

(* Mutants of ConnectedTo: dest_addr is not updated; fds[] is not updated. *)
Mutant_OldAddress(s, m, c) == [s EXCEPT !.succ_socket = TRUE, !.succ_fd = c]

Mutant_OldFd(s, m, c) ==
    [s EXCEPT !.succ_socket = TRUE, !.succ_addr = m, !.succ_fd = IF @ = NULL THEN c ELSE @]

(* connect_to_tcp to a successor at address m; exits if that fails. *)
ConnectedTo(s, m, c) ==
    [s EXCEPT !.succ_socket = TRUE, !.succ_fd = c, !.succ_addr = m]

(* Mutant of JoinAlone: the new predecessor is not waited for. *)
Mutant_NoAccept(n, s, pdu, nt) ==
    LET c == NewConn(n, pdu.src)
    IN  /\ Running(pdu.src) /\ Unused(n, pdu.src) # {}
        /\ Continue(n, ConnectedTo(AfterHandover(s), pdu.src, c),
                    SendForward(Connect(nt, c), c, Handover(s, n)))

JoinAlone(n, s, pdu, nt) ==
    \E connected \in ConnectSucceeds(nt, n, s.pred_fd, pdu.src) :
        IF ~connected THEN exit_with_error(n, nt)
        ELSE LET c == NewConn(n, pdu.src)
             IN  /\ Unused(n, pdu.src) # {}
                 /\ Continue(n, [ConnectedTo(AfterHandover(s), pdu.src, c) EXCEPT !.pc = Awaiting(s)],
                             SendForward(Connect(nt, c), c, Handover(s, n)))

(* The old connection to the successor is neither closed nor read again. *)
JoinAtLargest(n, s, pdu, nt) ==
    LET closed == CloseConnector(
                      SendForward(nt, s.succ_fd, <<[type |-> "NET_CLOSE_CONNECTION"]>>), s.succ_fd)
    IN  \E connected \in ConnectSucceeds(closed, n, s.pred_fd, pdu.src) :
            IF ~connected THEN exit_with_error(n, closed)
            ELSE LET c == NewConn(n, pdu.src)
                 IN  /\ Unused(n, pdu.src) # {}
                     /\ Continue(n, ConnectedTo(AfterHandover(s), pdu.src, c),
                                 SendForward(Connect(closed, c), c, Handover(s, s.succ_addr)))

(* Mutant of ForwardJoin: a node with an equal span takes the join over. *)
Mutant_EqualSpan(n, s, pdu, nt) ==
    LET span == self_range(s.range_start, s.range_end)
        sent == IF pdu.max_span <= span THEN [pdu EXCEPT !.max = n, !.max_span = u8(span)] ELSE pdu
    IN  Continue(n, s, SendForward(nt, s.succ_fd, <<sent>>))

(* The span is stored in a uint8_t; the result of the send is ignored. *)
ForwardJoin(n, s, pdu, nt) ==
    LET span == self_range(s.range_start, s.range_end)
        sent == IF pdu.max_span < span THEN [pdu EXCEPT !.max = n, !.max_span = u8(span)] ELSE pdu
    IN  Continue(n, s, SendForward(nt, s.succ_fd, <<sent>>))

handle_net_join(n, s, pdu, nt) ==
    IF ~s.pred_socket /\ ~s.succ_socket THEN JoinAlone(n, s, pdu, nt)
    ELSE IF ~s.pred_socket \/ ~s.succ_socket THEN exit_with_error(n, nt)
    ELSE IF pdu.max = n THEN JoinAtLargest(n, s, pdu, nt)
    ELSE ForwardJoin(n, s, pdu, nt)

(***************************************************************************)
(* Leaving neighbours.                                                     *)
(***************************************************************************)

NewRangeResponse == [type |-> "NET_NEW_RANGE_RESPONSE"]

(* Mutants of update_range: both bounds are taken from the PDU; the
   answer always goes to the successor. *)
Mutant_BothBounds(n, s, pdu, nt) ==
    Continue(n, [s EXCEPT !.range_start = pdu.range_start, !.range_end = pdu.range_end],
             IF pdu.range_start < s.range_start
             THEN SendBackward(nt, s.pred_fd, <<NewRangeResponse>>)
             ELSE SendForward(nt, s.succ_fd, <<NewRangeResponse>>))

Mutant_AnswersSuccessor(n, s, pdu, nt) ==
    Continue(n, IF pdu.range_start < s.range_start THEN [s EXCEPT !.range_start = pdu.range_start]
                ELSE [s EXCEPT !.range_end = pdu.range_end],
             SendForward(nt, s.succ_fd, <<NewRangeResponse>>))

(* A range that extends neither side is answered on the UDP socket, where
   send fails. *)
update_range(n, s, pdu, nt) ==
    IF pdu.range_start < s.range_start
    THEN IF s.pred_fd = NULL THEN exit_with_error(n, nt)
         ELSE Continue(n, [s EXCEPT !.range_start = pdu.range_start],
                       SendBackward(nt, s.pred_fd, <<NewRangeResponse>>))
    ELSE IF pdu.range_end > s.range_end /\ s.succ_fd # NULL
    THEN Continue(n, [s EXCEPT !.range_end = pdu.range_end],
                  SendForward(nt, s.succ_fd, <<NewRangeResponse>>))
    ELSE exit_with_error(n, nt)

handle_net_new_range(n, s, pdu, nt) == update_range(n, s, pdu, nt)

(* Mutant of handle_net_leaving_pdu: successor.socket keeps its number when
   the node is left alone. *)
Mutant_KeepsSocket(n, s, pdu, nt) ==
    LET closed == CloseConnector(nt, s.succ_fd)
        c == NewConn(n, pdu.new)
    IN  IF pdu.new = n THEN Continue(n, [s EXCEPT !.succ_fd = NULL], closed)
        ELSE Unused(n, pdu.new) # {} /\ Continue(n, ConnectedTo(s, pdu.new, c), Connect(closed, c))

handle_net_leaving_pdu(n, s, pdu, nt) ==
    LET closed == CloseConnector(nt, s.succ_fd)
    IN  IF pdu.new = n
        THEN Continue(n, [s EXCEPT !.succ_socket = FALSE, !.succ_fd = NULL], closed)
        ELSE \E connected \in ConnectSucceeds(closed, n, s.pred_fd, pdu.new) :
                IF ~connected THEN exit_with_error(n, closed)
                ELSE LET c == NewConn(n, pdu.new)
                     IN  /\ Unused(n, pdu.new) # {}
                         /\ Continue(n, ConnectedTo(s, pdu.new, c), Connect(closed, c))

handle_net_close_connection(n, s, nt) ==
    LET closed == [s EXCEPT !.pred_socket = FALSE, !.pred_fd = NULL]
    IN  Continue(n,
            IF s.range_start = 0 /\ s.range_end = HASH_SIZE - 1 THEN closed
            ELSE [closed EXCEPT !.pc = Awaiting(s)],
            CloseAcceptor(nt, s.pred_fd))

(* The switch on packet_type in poll_for_incoming_data.  A PDU of another
   type is reported as invalid and dropped. *)
HandlePDU(n, s, pdu, nt) ==
    CASE pdu.type = "VAL_INSERT" -> handle_val_insert(n, s, pdu, nt)
      [] pdu.type = "VAL_REMOVE" -> handle_val_remove(n, s, pdu, nt)
      [] pdu.type = "VAL_LOOKUP" -> handle_val_lookup(n, s, pdu, nt)
      [] pdu.type = "NET_JOIN" -> handle_net_join(n, s, pdu, nt)
      [] pdu.type = "NET_NEW_RANGE" -> handle_net_new_range(n, s, pdu, nt)
      [] pdu.type = "NET_LEAVING" -> handle_net_leaving_pdu(n, s, pdu, nt)
      [] pdu.type = "NET_CLOSE_CONNECTION" -> handle_net_close_connection(n, s, nt)
      [] OTHER -> Continue(n, s, nt)

(***************************************************************************)
(* The steps of a process.                                                 *)
(***************************************************************************)

(* main, q1, q2: setup, the STUN exchange (which only tells the node its own
   address) and the NET_GET_NODE of q3, in flight while the node is in q3. *)
Start(n) ==
    /\ self_data[n].pc = "off"
    /\ Continue(n, Blank("q3"), net)

(* q3 receives the tracker's answer; q4 if there is no node, else the first
   part of q7, which asks the given node to let n join. *)
q3(n) ==
    \E d \in net.udp :
        /\ d.dst = n /\ self_data[n].pc = "q3"
        /\ LET s == self_data[n]
               nt == [net EXCEPT !.udp = @ \ {d}]
           IN  IF d.pdu.type # "NET_GET_NODE_RESPONSE" THEN exit_with_error(n, nt)
               ELSE IF d.pdu.node = NULL
               THEN Continue(n, [s EXCEPT !.pc = "q6", !.range_start = 0, !.range_end = HASH_SIZE - 1], nt)
               ELSE Continue(n, [s EXCEPT !.pc = "q7"],
                        SendUdp(nt, d.pdu.node,
                                [type |-> "NET_JOIN", src |-> n, max_span |-> 0, max |-> NULL]))

(* The second part of q7 accepts the connection of the node that makes room
   and reads its NET_JOIN_RESPONSE; q8 connects to the successor named in it.
   connect_to_tcp and the send of the response are one step of that node. *)
q7(n) ==
    /\ self_data[n].pc = "q7" /\ net.backlog[n] # <<>>
    /\ LET c == Head(net.backlog[n])
           pdu == Head(net.fwd[c])
           nt == [net EXCEPT !.backlog[n] = Tail(@), !.fwd[c] = Tail(@)]
       IN  /\ net.fwd[c] # <<>>
           /\ IF pdu.type # "NET_JOIN_RESPONSE" THEN exit_with_error(n, nt)
              ELSE \E connected \in ConnectSucceeds(nt, n, c, pdu.next) :
                      IF ~connected THEN exit_with_error(n, nt)
                      ELSE LET d == NewConn(n, pdu.next)
                               s == [self_data[n] EXCEPT
                                        !.pc = "q6", !.pred_socket = TRUE, !.pred_fd = c,
                                        !.range_start = pdu.range_start, !.range_end = pdu.range_end]
                           IN  /\ Unused(n, pdu.next) # {}
                               /\ Continue(n, ConnectedTo(s, pdu.next, d), Connect(nt, d))

accept_predecessor_connection(n) ==
    /\ self_data[n].pc \in {"accept", "q18accept"} /\ net.backlog[n] # <<>>
    /\ Continue(n, [self_data[n] EXCEPT
                        !.pc = IF @ = "accept" THEN "q6" ELSE "q18",
                        !.pollPos = IF self_data[n].pc = "accept" THEN 0 ELSE 3,
                        !.pred_socket = TRUE, !.pred_fd = Head(net.backlog[n])],
                [net EXCEPT !.backlog[n] = Tail(@)])

(* poll_for_incoming_data looks at the UDP socket, the successor and the
   predecessor in this order, and reads one datagram or all there is of a
   stream.  q6 calls it again and again, so there any ready descriptor may be
   next; in the shutdown no descriptor is read after a later one. *)
Polls(n, pos) ==
    \/ self_data[n].pc = "q6"
    \/ self_data[n].pc = "q18" /\ self_data[n].pollPos <= pos

Polled(n, pos) == IF self_data[n].pc = "q18" THEN [self_data[n] EXCEPT !.pollPos = pos]
                  ELSE self_data[n]

PollUdp(n) ==
    /\ Polls(n, 0)
    /\ \E d \in net.udp :
          /\ d.dst = n
          /\ HandlePDU(n, Polled(n, 1), d.pdu, [net EXCEPT !.udp = @ \ {d}])

PollSuccessor(n) ==
    LET c == self_data[n].succ_fd
    IN  /\ Polls(n, 1) /\ c # NULL /\ net.bwd[c] # <<>>
        /\ HandlePDU(n, Polled(n, 1), Head(net.bwd[c]), [net EXCEPT !.bwd[c] = Tail(@)])

PollPredecessor(n) ==
    LET c == self_data[n].pred_fd
    IN  /\ Polls(n, 2) /\ c # NULL /\ net.fwd[c] # <<>>
        /\ HandlePDU(n, Polled(n, 2), Head(net.fwd[c]), [net EXCEPT !.fwd[c] = Tail(@)])

(* recv returned 0: the descriptor is closed, but socket keeps its number. *)
SuccessorEnded(n) ==
    LET c == self_data[n].succ_fd
    IN  /\ Polls(n, 1) /\ c # NULL /\ ConnectorAtEnd(c)
        /\ Continue(n, [Polled(n, 2) EXCEPT !.succ_fd = NULL], net)

PredecessorEnded(n) ==
    LET c == self_data[n].pred_fd
    IN  /\ Polls(n, 2) /\ c # NULL /\ AcceptorAtEnd(c)
        /\ Continue(n, [Polled(n, 3) EXCEPT !.pred_fd = NULL], net)

(* recv failed (the peer ended with data unread): socket is set to 0. *)
SuccessorReset(n) ==
    LET c == self_data[n].succ_fd
    IN  /\ "reset" \in Faults /\ Polls(n, 1) /\ c # NULL /\ ConnectorAtEnd(c)
        /\ Continue(n, [Polled(n, 2) EXCEPT !.succ_fd = NULL, !.succ_socket = FALSE], net)

PredecessorReset(n) ==
    LET c == self_data[n].pred_fd
    IN  /\ "reset" \in Faults /\ Polls(n, 2) /\ c # NULL /\ AcceptorAtEnd(c)
        /\ Continue(n, [Polled(n, 3) EXCEPT !.pred_fd = NULL, !.pred_socket = FALSE], net)

(***************************************************************************)
(* shutdown_proceedure, in three parts: up to the wait for the response,   *)
(* up to the last poll, and after it.                                      *)
(***************************************************************************)
ToSuccessor(s) == s.range_start = 0

NewRangeSocket(s) == IF ToSuccessor(s) THEN s.succ_socket ELSE s.pred_socket

NewRangeFd(s) == IF ToSuccessor(s) THEN s.succ_fd ELSE s.pred_fd

SendNewRange(s, nt) ==
    LET pdu == [type |-> "NET_NEW_RANGE", range_start |-> s.range_start, range_end |-> s.range_end]
    IN  IF ToSuccessor(s) THEN SendForward(nt, s.succ_fd, <<pdu>>)
        ELSE SendBackward(nt, s.pred_fd, <<pdu>>)

(* Mutant of shutdown_proceedure: a node that is alone leaves like any other. *)
Mutant_NeverAlone(n) ==
    LET s == self_data[n]
    IN  /\ s.pc = "q6"
        /\ IF NewRangeSocket(s) THEN Continue(n, [s EXCEPT !.pc = "q11"], SendNewRange(s, net))
           ELSE exit_with_error(n, net)

(* receive_tcp_data fails on socket 0, which is not a socket. *)
shutdown_proceedure(n) ==
    LET s == self_data[n]
    IN  /\ s.pc = "q6"
        /\ IF ~s.pred_socket /\ ~s.succ_socket THEN exit_success(n, net)
           ELSE IF NewRangeSocket(s) THEN Continue(n, [s EXCEPT !.pc = "q11"], SendNewRange(s, net))
           ELSE exit_with_error(n, net)

(* Mutant of SendAllEntries: the loop over ssns[] ends one entry early. *)
Mutant_AllButOne(s, nt) ==
    LET sent == Inserts(s, {k \in Entries(s) : k # CHOOSE j \in Entries(s) : TRUE})
    IN  IF ToSuccessor(s) THEN SendForward(nt, s.succ_fd, sent)
        ELSE SendBackward(nt, s.pred_fd, sent)

(* send_all_entries, to the neighbour that was told the range. *)
SendAllEntries(s, nt) ==
    IF ToSuccessor(s) THEN SendForward(nt, s.succ_fd, Inserts(s, Entries(s)))
    ELSE SendBackward(nt, s.pred_fd, Inserts(s, Entries(s)))

(* range_start and range_end are set to -1, which a uint8_t cannot hold. *)
WithoutRange(s) ==
    [s EXCEPT !.pc = "q18", !.pollPos = 0, !.hash_table = EmptyTable,
              !.range_start = u8(-1), !.range_end = u8(-1), !.leaving_new = s.succ_addr]

(* One byte is read and taken for the response.  The entries are sent before
   it is looked at.  On a connection that has ended nothing is read, and the
   preset response type is found. *)
ReceiveNewRangeResponse(n) ==
    LET s == self_data[n]
        c == NewRangeFd(s)
        queue == IF ToSuccessor(s) THEN net.bwd[c] ELSE net.fwd[c]
        nt == IF ToSuccessor(s) THEN [net EXCEPT !.bwd[c] = Tail(@)] ELSE [net EXCEPT !.fwd[c] = Tail(@)]
    IN  /\ s.pc = "q11" /\ c # NULL /\ queue # <<>>
        /\ IF Head(queue).type = "NET_NEW_RANGE_RESPONSE"
           THEN Continue(n, WithoutRange(s), SendAllEntries(s, nt))
           ELSE exit_with_error(n, SendAllEntries(s, nt))

NewRangeConnectionEnded(n) ==
    LET s == self_data[n]
        c == NewRangeFd(s)
    IN  /\ s.pc = "q11"
        /\ c # NULL => IF ToSuccessor(s) THEN ConnectorAtEnd(c) ELSE AcceptorAtEnd(c)
        /\ Continue(n, WithoutRange(s), SendAllEntries(s, net))

(* The last poll returns at any time within its 300 ms. *)
Leave(n) ==
    LET s == self_data[n]
        closing == SendForward(net, s.succ_fd, <<[type |-> "NET_CLOSE_CONNECTION"]>>)
        leaving == SendBackward(closing, s.pred_fd, <<[type |-> "NET_LEAVING", new |-> s.leaving_new]>>)
    IN  /\ s.pc = "q18"
        /\ exit_success(n, leaving)

(* receive_from gives up after 10 s, receive_tcp_data after 5 s. *)
Timeout(n) ==
    /\ "timeout" \in Faults
    /\ \/ self_data[n].pc \in {"q3", "q11"}
       \/ self_data[n].pc = "q7" /\ net.backlog[n] # <<>>
    /\ exit_with_error(n, net)

(* A signal makes the polls of receive_from, receive_tcp_data and
   accept_predecessor_connection fail, which ends the process. *)
Interrupted(n) ==
    /\ "interrupt" \in Faults
    /\ \/ self_data[n].pc \in {"q3", "q7", "q11"}
       \/ self_data[n].pc \in {"accept", "q18accept"} /\ net.backlog[n] = <<>>
    /\ exit_with_error(n, net)

NodeStep(n) ==
    \/ q3(n) \/ q7(n) \/ accept_predecessor_connection(n)
    \/ PollUdp(n) \/ PollSuccessor(n) \/ PollPredecessor(n)
    \/ SuccessorEnded(n) \/ PredecessorEnded(n)
    \/ ReceiveNewRangeResponse(n) \/ NewRangeConnectionEnded(n) \/ Leave(n)
=============================================================================
