------------------------------- MODULE Framing -------------------------------
(***************************************************************************)
(* How PDUs become bytes and bytes become PDUs again (pdu.rs), and the     *)
(* buffered sockets (socket_wrapper.rs) that do it: one TcpWrapper that    *)
(* sends and one that reads, on a stream that cuts the bytes anywhere, or  *)
(* two UdpWrappers and their datagrams.                                    *)
(***************************************************************************)
EXTENDS Integers, Sequences, SequencesExt

CONSTANTS
    Scripts,      \* the sequences of PDUs that may be sent
    SSN_LENGTH,   \* 12 in the code
    BUFFER_SIZE,  \* 25600 in the code
    Window        \* bound: bytes in flight at a time

ASSUME FramingAssumption ==
    SSN_LENGTH \in Nat \ {0} /\ BUFFER_SIZE \in Nat \ {0} /\ Window \in Nat \ {0}

(***************************************************************************)
(* The PDUs: the identifier and the fields, in the order in which they are *)
(* written and read.                                                       *)
(***************************************************************************)
NetAlivePdu == [id |-> 0, fields |-> <<>>]

NetGetNodePdu == [id |-> 1, fields |-> <<>>]

NetGetNodeResponsePdu == [id |-> 2, fields |-> <<"u32", "u16">>]

NetJoinPdu == [id |-> 3, fields |-> <<"u32", "u16", "u8", "u32", "u16">>]

NetJoinResponsePdu == [id |-> 4, fields |-> <<"u32", "u16", "u8", "u8">>]

NetCloseConnectionPdu == [id |-> 5, fields |-> <<>>]

NetNewRangePdu == [id |-> 6, fields |-> <<"u8", "u8">>]

NetLeavingPdu == [id |-> 7, fields |-> <<"u32", "u16">>]

NetNewRangeResponsePdu == [id |-> 8, fields |-> <<>>]

ValInsertPdu == [id |-> 100, fields |-> <<"ssn", "u8", "text", "u8", "text">>]

ValRemovePdu == [id |-> 101, fields |-> <<"ssn">>]

ValLookupPdu == [id |-> 102, fields |-> <<"ssn", "u32", "u16">>]

ValLookupResponsePdu == [id |-> 103, fields |-> <<"ssn", "u8", "text", "u8", "text">>]

StunLookupPdu == [id |-> 200, fields |-> <<>>]

StunResponsePdu == [id |-> 201, fields |-> <<"u32">>]

PduTypes ==
    {NetAlivePdu, NetGetNodePdu, NetGetNodeResponsePdu, NetJoinPdu, NetJoinResponsePdu,
     NetCloseConnectionPdu, NetNewRangePdu, NetLeavingPdu, NetNewRangeResponsePdu,
     ValInsertPdu, ValRemovePdu, ValLookupPdu, ValLookupResponsePdu, StunLookupPdu, StunResponsePdu}

Fields(id) == (CHOOSE t \in PduTypes : t.id = id).fields

(***************************************************************************)
(* Writing.  A PDU is its variant, its pdu_type, which is the byte that is *)
(* written, and the values of its fields; a text is a sequence of          *)
(* characters, given by their code points.                                 *)
(***************************************************************************)
to_be_bytes(n, width) == [i \in 1 .. width |-> (n \div 256 ^ (width - i)) % 256]

(* String::len, the length in UTF-8. *)
Utf8Width(char) == IF char < 128 THEN 1 ELSE IF char < 2048 THEN 2 ELSE IF char < 65536 THEN 3 ELSE 4

len(text) == FoldLeft(LAMBDA n, char : n + Utf8Width(char), 0, text)

(* One byte for every character: chars().map(|x| x as u8). *)
AsBytes(text) == [i \in DOMAIN text |-> text[i] % 256]

FieldBytes(kind, v) ==
    CASE kind = "u8" -> <<v>>
      [] kind = "u16" -> to_be_bytes(v, 2)
      [] kind = "u32" -> to_be_bytes(v, 4)
      [] kind = "ssn" -> AsBytes(SubSeq(v, 1, IF Len(v) < SSN_LENGTH THEN Len(v) ELSE SSN_LENGTH))
      [] kind = "text" -> AsBytes(v)

(* The new of VAL_INSERT and of VAL_LOOKUP_RESPONSE: the lengths it puts before
   the texts are those in UTF-8. *)
new_val_pdu(id, ssn, name, email) ==
    [id |-> id, pdu_type |-> id, args |-> <<ssn, len(name) % 256, name, len(email) % 256, email>>]

to_bytes(pdu) ==
    <<pdu.pdu_type>> \o FlattenSeq([i \in DOMAIN pdu.args |-> FieldBytes(Fields(pdu.id)[i], pdu.args[i])])

(***************************************************************************)
(* Reading.  An attempt to parse gives a PDU and the bytes it used, or     *)
(* nothing as long as bytes are missing, or it panics.                     *)
(***************************************************************************)
None == [outcome |-> "none"]

Panic == [outcome |-> "panic"]

Parsed(id, pdu_type, args, used) ==
    [outcome |-> "pdu", pdu |-> [id |-> id, pdu_type |-> pdu_type, args |-> args], used |-> used]

read_be(bytes) == FoldLeft(LAMBDA n, b : n * 256 + b, 0, bytes)

Width(kind) ==
    CASE kind = "u8" -> 1 [] kind = "u16" -> 2 [] kind = "u32" -> 4 [] kind = "ssn" -> SSN_LENGTH

(* try_parse of the PDUs whose size is fixed. *)
SizeBefore(fields, i) == FoldLeft(LAMBDA n, kind : n + Width(kind), 1, SubSeq(fields, 1, i - 1))

try_parse_fixed(id, buffer) ==
    LET fields == Fields(id)
        size == SizeBefore(fields, Len(fields) + 1)
        part(i) == SubSeq(buffer, SizeBefore(fields, i) + 1, SizeBefore(fields, i + 1))
    IN  IF Len(buffer) < size THEN None
        ELSE Parsed(id, buffer[1],
                    [i \in DOMAIN fields |-> IF fields[i] = "ssn" THEN part(i) ELSE read_be(part(i))], size)

(* try_parse of VAL_INSERT.  Nothing is checked before the length of the email
   is read. *)
try_parse_entry(buffer) ==
    LET name_at == 1 + SSN_LENGTH + 1
        name_length == buffer[name_at]
        email_at == name_at + name_length + 1
        email_length == buffer[email_at]
        size == email_at + email_length
    IN  IF Len(buffer) < name_at \/ Len(buffer) < name_at + name_length THEN None
        ELSE IF Len(buffer) < email_at THEN Panic
        ELSE IF Len(buffer) < size THEN None
        ELSE Parsed(ValInsertPdu.id, buffer[1],
                    <<SubSeq(buffer, 2, 1 + SSN_LENGTH), name_length, SubSeq(buffer, name_at + 1, email_at - 1),
                      email_length, SubSeq(buffer, email_at + 1, size)>>, size)

(* try_parse of VAL_LOOKUP_RESPONSE, which leaves the work to VAL_INSERT and
   gives the PDU the type of a VAL_LOOKUP. *)
try_parse_response(buffer) ==
    LET entry == try_parse_entry(buffer)
    IN  IF entry.outcome # "pdu" THEN entry
        ELSE Parsed(ValLookupResponsePdu.id, ValLookupPdu.id, entry.pdu.args, entry.used)

parse_net_pdu(buffer) == try_parse_fixed(buffer[1], buffer)

parse_stun_pdu(buffer) == try_parse_fixed(buffer[1], buffer)

parse_val_pdu(buffer) ==
    CASE buffer[1] = ValInsertPdu.id -> try_parse_entry(buffer)
      [] buffer[1] = ValLookupResponsePdu.id -> try_parse_response(buffer)
      [] OTHER -> try_parse_fixed(buffer[1], buffer)

parse_pdu(buffer) ==
    IF buffer = <<>> THEN None
    ELSE IF buffer[1] \in 0 .. 8 THEN parse_net_pdu(buffer)
    ELSE IF buffer[1] \in 100 .. 103 THEN parse_val_pdu(buffer)
    ELSE IF buffer[1] \in 200 .. 201 THEN parse_stun_pdu(buffer)
    ELSE Panic

(***************************************************************************)
(* What the wrappers rely on, for a PDU and for bytes that begin like it.  *)
(***************************************************************************)
Octet == 0 .. 255

(* A PDU as its new makes it: the identifier of its variant is known and is the
   first byte written; a PDU that holds an entry is as long as its ssn, its
   two lengths, the length of its name and its email. *)
WellFormed(pdu) ==
    LET bytes == to_bytes(pdu)
        name_at == 1 + SSN_LENGTH + 1
    IN  /\ pdu = [id |-> pdu.id, pdu_type |-> pdu.id, args |-> pdu.args]
        /\ bytes \in Seq(Octet) /\ bytes # <<>> /\ bytes[1] = pdu.id
        /\ pdu.id \in (0 .. 8) \cup (100 .. 103) \cup (200 .. 201)
        /\ pdu.id \in {ValInsertPdu.id, ValLookupResponsePdu.id} =>
              /\ Len(bytes) >= name_at /\ Len(pdu.args[5]) \in Nat
              /\ Len(bytes) = name_at + bytes[name_at] + 1 + Len(pdu.args[5])

(* What the reader makes of a PDU. *)
AsRead(pdu) ==
    IF pdu.id = ValLookupResponsePdu.id THEN [pdu EXCEPT !.pdu_type = ValLookupPdu.id] ELSE pdu

(* Parsing does not succeed before the PDU is complete, and then it gives the
   PDU, whatever follows. *)
ReadsBack(pdu, bytes) ==
    IF Len(bytes) < Len(to_bytes(pdu)) THEN parse_pdu(bytes).outcome # "pdu"
    ELSE parse_pdu(bytes) = [outcome |-> "pdu", pdu |-> AsRead(pdu), used |-> Len(to_bytes(pdu))]

(***************************************************************************)
(* The wrappers.                                                           *)
(***************************************************************************)
VARIABLES
    transport,       \* "tcp" or "udp"
    script,          \* what the sender has been asked to send
    sent,            \* how many of these it has sent, or is sending
    unwritten,       \* the bytes of the PDU being sent that are not written yet
    stream,          \* the bytes of the connection that are in flight
    datagrams,       \* the datagrams that are in flight
    peer,            \* the sender's end: "open" or "closed"
    at,              \* where the reader is: "poll", "parse", "handle", "closed" or "panicked"
    closed,          \* whether the last try_read saw the end of the stream
    buffer,          \* the unparsed bytes
    incoming_queue,  \* the parsed PDUs
    handled          \* the PDUs the reader's owner has got

vars == <<transport, script, sent, unwritten, stream, datagrams, peer,
          at, closed, buffer, incoming_queue, handled>>

sender == <<script, sent, unwritten, peer>>

reader == <<at, closed, buffer, incoming_queue, handled>>

Init ==
    /\ transport \in {"tcp", "udp"} /\ script \in Scripts
    /\ sent = 0 /\ unwritten = <<>> /\ stream = <<>> /\ datagrams = {} /\ peer = "open"
    /\ at = "poll" /\ closed = FALSE
    /\ buffer = <<>> /\ incoming_queue = <<>> /\ handled = <<>>

NextBytes == to_bytes(script[sent + 1])

(* TcpWrapper.send begins with a PDU ... *)
SendTcp ==
    /\ transport = "tcp" /\ unwritten = <<>> /\ sent < Len(script)
    /\ unwritten' = NextBytes /\ sent' = sent + 1
    /\ UNCHANGED <<transport, script, peer, stream, datagrams>> /\ UNCHANGED reader

(* ... and goes on until it is written; it sleeps as long as the kernel takes
   nothing.  A write to an end that is closed is lost here. *)
Write ==
    /\ unwritten # <<>>
    /\ \E amt \in 1 .. Len(unwritten) :
          /\ Len(stream) + amt <= Window \/ at \in {"closed", "panicked"}
          /\ stream' = IF at \in {"closed", "panicked"} THEN stream ELSE stream \o SubSeq(unwritten, 1, amt)
          /\ unwritten' = SubSeq(unwritten, amt + 1, Len(unwritten))
    /\ UNCHANGED <<transport, script, sent, peer, datagrams>> /\ UNCHANGED reader

Close ==
    /\ transport = "tcp" /\ peer = "open" /\ sent = Len(script) /\ unwritten = <<>>
    /\ peer' = "closed"
    /\ UNCHANGED <<transport, script, sent, unwritten, stream, datagrams>> /\ UNCHANGED reader

(* UdpWrapper.send. *)
SendUdp ==
    /\ transport = "udp" /\ sent < Len(script)
    /\ datagrams' = datagrams \cup {[number |-> sent + 1, bytes |-> NextBytes]} /\ sent' = sent + 1
    /\ UNCHANGED <<transport, script, unwritten, peer, stream>> /\ UNCHANGED reader

LoseDatagram ==
    /\ \E d \in datagrams : datagrams' = datagrams \ {d}
    /\ UNCHANGED <<transport, stream>> /\ UNCHANGED sender /\ UNCHANGED reader

(* What of the bytes fits into the buffer. *)
Fitting(bytes) ==
    LET room == BUFFER_SIZE - Len(buffer)
    IN  SubSeq(bytes, 1, IF Len(bytes) < room THEN Len(bytes) ELSE room)

(* Mutant of ReadTcp: a read that fills the buffer is taken for one that finds
   no room. *)
Mutant_FullIsClosed ==
    /\ at = "poll" /\ transport = "tcp"
    /\ \E count \in 0 .. Len(stream) :
          LET arrived == SubSeq(stream, 1, count)
          IN  /\ count > 0 \/ (peer = "closed" /\ stream = <<>>)
              /\ buffer' = buffer \o Fitting(arrived)
              /\ stream' = SubSeq(stream, Len(Fitting(arrived)) + 1, Len(stream))
              /\ closed' = (Len(buffer') = BUFFER_SIZE \/ (peer = "closed" /\ count = Len(stream)))
    /\ at' = "parse"
    /\ UNCHANGED <<transport, datagrams, incoming_queue, handled>> /\ UNCHANGED sender

(* TcpWrapper.try_read reads what has arrived.  It takes the end of the stream
   for reached when there are bytes for which there is no room. *)
ReadTcp ==
    /\ at = "poll" /\ transport = "tcp"
    /\ \E count \in 0 .. Len(stream) :
          LET arrived == SubSeq(stream, 1, count)
          IN  /\ count > 0 \/ (peer = "closed" /\ stream = <<>>)
              /\ buffer' = buffer \o Fitting(arrived)
              /\ stream' = SubSeq(stream, Len(Fitting(arrived)) + 1, Len(stream))
              /\ closed' = (Fitting(arrived) # arrived \/ (peer = "closed" /\ count = Len(stream)))
    /\ at' = "parse"
    /\ UNCHANGED <<transport, datagrams, incoming_queue, handled>> /\ UNCHANGED sender

(* UdpWrapper.try_read takes one datagram after the other. *)
ReadUdp ==
    /\ at \in {"poll", "handle"}
    /\ \E d \in datagrams :
          /\ datagrams' = datagrams \ {d}
          /\ buffer' = buffer \o Fitting(d.bytes)
    /\ at' = "parse"
    /\ UNCHANGED <<transport, stream, closed, incoming_queue, handled>> /\ UNCHANGED sender

(* The loop around parse_pdu: one PDU, ... *)
ParseOne ==
    /\ at = "parse" /\ parse_pdu(buffer).outcome = "pdu"
    /\ incoming_queue' = Append(incoming_queue, parse_pdu(buffer).pdu)
    /\ buffer' = SubSeq(buffer, parse_pdu(buffer).used + 1, Len(buffer))
    /\ UNCHANGED <<transport, stream, datagrams, at, closed, handled>> /\ UNCHANGED sender

(* ... or none, ... *)
ParseNone ==
    /\ at = "parse" /\ parse_pdu(buffer).outcome = "none"
    /\ at' = "handle"
    /\ UNCHANGED <<transport, stream, datagrams, closed, buffer, incoming_queue, handled>> /\ UNCHANGED sender

(* Mutant of ParsePanics: a PDU of which bytes are missing counts as malformed. *)
Mutant_IncompleteRejected ==
    /\ at = "parse" /\ buffer # <<>> /\ parse_pdu(buffer).outcome # "pdu"
    /\ at' = "panicked" /\ stream' = <<>>
    /\ UNCHANGED <<transport, datagrams, closed, buffer, incoming_queue, handled>> /\ UNCHANGED sender

(* ... or the end of the process. *)
ParsePanics ==
    /\ at = "parse" /\ parse_pdu(buffer).outcome = "panic"
    /\ at' = "panicked" /\ stream' = <<>>
    /\ UNCHANGED <<transport, datagrams, closed, buffer, incoming_queue, handled>> /\ UNCHANGED sender

(* Mutant of next_pdu: the owner takes one PDU for every read, as await_pdu does. *)
Mutant_OnePerRead ==
    /\ at = "handle"
    /\ IF incoming_queue = <<>> THEN UNCHANGED <<handled, incoming_queue>>
       ELSE handled' = Append(handled, Head(incoming_queue)) /\ incoming_queue' = Tail(incoming_queue)
    /\ at' = IF closed THEN "closed" ELSE "poll"
    /\ stream' = IF closed THEN <<>> ELSE stream
    /\ UNCHANGED <<transport, datagrams, closed, buffer>> /\ UNCHANGED sender

(* Mutant of next_pdu: the queue is emptied from its end. *)
Mutant_LastFirst ==
    /\ at = "handle"
    /\ handled' = handled \o Reverse(incoming_queue) /\ incoming_queue' = <<>>
    /\ at' = IF closed THEN "closed" ELSE "poll"
    /\ stream' = IF closed THEN <<>> ELSE stream
    /\ UNCHANGED <<transport, datagrams, closed, buffer>> /\ UNCHANGED sender

(* The owner takes what there is from the queue with next_pdu, then polls
   again.  As q6 does with its successor, it drops a connection that is
   reported closed. *)
next_pdu ==
    /\ at = "handle"
    /\ handled' = handled \o incoming_queue /\ incoming_queue' = <<>>
    /\ at' = IF closed THEN "closed" ELSE "poll"
    /\ stream' = IF closed THEN <<>> ELSE stream
    /\ UNCHANGED <<transport, datagrams, closed, buffer>> /\ UNCHANGED sender

Next ==
    \/ SendTcp \/ Write \/ Close \/ SendUdp \/ LoseDatagram
    \/ ReadTcp \/ ReadUdp \/ ParseOne \/ ParseNone \/ ParsePanics \/ next_pdu

Spec == Init /\ [][Next]_vars

(* The sender writes what it was asked to, and the reader reads what is there. *)
FairSpec ==
    Spec /\ WF_vars(SendTcp \/ Write \/ Close) /\ WF_vars(SendUdp)
         /\ WF_vars(ReadTcp \/ ReadUdp \/ ParseOne \/ ParseNone \/ ParsePanics \/ next_pdu)

(***************************************************************************)
(* Properties.                                                             *)
(***************************************************************************)

(* The same variant and values, and the same first byte when it is passed on.
   Only a VAL_LOOKUP_RESPONSE comes out with another one (pdu.rs:861), and that
   is a PDU a client reads and nobody passes on. *)
Intact(got, pdu) ==
    /\ got.id = pdu.id /\ got.args = pdu.args
    /\ pdu.id # ValLookupResponsePdu.id => got.pdu_type = pdu.pdu_type

(* However the stream is cut and whatever is lost on the way, the reader gets
   what was sent: of a stream the first PDUs in order, of the datagrams some,
   none twice, and all of them with the values they were written with. *)
FramesIntact ==
    LET got == handled \o incoming_queue
    IN  IF transport = "tcp"
        THEN Len(got) <= Len(script) /\ \A i \in DOMAIN got : Intact(got[i], script[i])
        ELSE \E f \in [DOMAIN got -> 1 .. sent] :
                IsInjective(f) /\ \A i \in DOMAIN got : Intact(got[i], script[f[i]])

(* Of well-formed PDUs only one that holds an entry can end the reader, and
   only if what has arrived of it ends right before the length of the email. *)
PanicsOnlyAtEmailLength ==
    at = "panicked" =>
        /\ buffer[1] \in {ValInsertPdu.id, ValLookupResponsePdu.id}
        /\ LET pdu == script[Len(handled \o incoming_queue) + 1]
           IN  Len(buffer) = Len(to_bytes(pdu)) - Len(pdu.args[5]) - 1

(* socket_wrapper.rs:60 "Remote closed the connection": what try_read reports
   as closed was closed by the other end, and read to its end. *)
ClosedMeansClosed == closed => peer = "closed" /\ stream = <<>>

AllHandled == Len(handled) = Len(script) /\ \A i \in DOMAIN handled : Intact(handled[i], script[i])

(* The reader of a stream gets everything, unless it panics. *)
EverythingArrives == transport = "tcp" ~> (AllHandled \/ at = "panicked")
=============================================================================
