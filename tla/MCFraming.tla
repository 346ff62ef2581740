------------------------------ MODULE MCFraming ------------------------------
(* Constants for model checking Framing: one PDU of every type, entries with
   and without text, and integers whose bytes differ. *)
EXTENDS Framing

CONSTANT Length  \* how many PDUs are sent

Address == 16909060  \* 1.2.3.4

Port == 258

Plain(id, args) == [id |-> id, pdu_type |-> id, args |-> args]

Messages ==
    {Plain(0, <<>>), Plain(1, <<>>), Plain(2, <<Address, Port>>), Plain(3, <<Address, Port, 7, 0, Port>>),
     Plain(4, <<Address, Port, 128, 255>>), Plain(5, <<>>), Plain(6, <<0, 100>>), Plain(7, <<Address, Port>>),
     Plain(8, <<>>), new_val_pdu(100, <<49, 50>>, <<65, 66>>, <<67>>), new_val_pdu(100, <<49, 50>>, <<>>, <<>>),
     Plain(101, <<<<49, 50>>>>), Plain(102, <<<<49, 50>>, Address, Port>>),
     new_val_pdu(103, <<48, 48>>, <<65>>, <<>>), Plain(200, <<>>), Plain(201, <<Address>>)}

(* Every PDU is read back from what was written, cut anywhere, whatever PDU
   follows. *)
ASSUME CodecChecked ==
    \A pdu, next \in Messages :
        LET bytes == to_bytes(pdu) \o to_bytes(next)
        IN  WellFormed(pdu) /\ \A count \in 0 .. Len(bytes) : ReadsBack(pdu, SubSeq(bytes, 1, count))

MCScripts == [1 .. Length -> Messages]
=============================================================================
