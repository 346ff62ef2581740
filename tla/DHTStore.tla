------------------------------- MODULE DHTStore -------------------------------
(***************************************************************************)
(* What a network of Rust nodes promises a client: for every key the list  *)
(* of values that were inserted and not removed, of which a lookup returns *)
(* the first.  Every request is carried out exactly once.  When the last   *)
(* node leaves, everything is forgotten.                                   *)
(***************************************************************************)
EXTENDS Sequences

CONSTANTS Key, Value, NULL, Request

VARIABLES
    store,    \* key -> the values the network holds
    pending,  \* the request that was made and not yet carried out
    answer,   \* the answer to the last lookup
    up        \* whether some node serves requests

storeVars == <<store, pending, answer, up>>

StoreInit ==
    /\ store = [k \in Key |-> <<>>]
    /\ pending = NULL /\ answer = NULL /\ up = FALSE

FirstNodeJoins == ~up /\ up' /\ UNCHANGED <<store, pending, answer>>

LastNodeLeaves == up /\ ~up' /\ store' = [k \in Key |-> <<>>] /\ UNCHANGED <<pending, answer>>

Ask == up /\ pending = NULL /\ pending' \in Request /\ UNCHANGED <<store, answer, up>>

CarryOut(type) == pending # NULL /\ pending.type = type /\ pending' = NULL /\ UNCHANGED up

Insert ==
    /\ CarryOut("VAL_INSERT")
    /\ store' = [store EXCEPT ![pending.key] = Append(@, pending.val)]
    /\ UNCHANGED answer

Remove ==
    /\ CarryOut("VAL_REMOVE")
    /\ store' = [store EXCEPT ![pending.key] = <<>>]
    /\ UNCHANGED answer

Lookup ==
    /\ CarryOut("VAL_LOOKUP")
    /\ answer' = IF store[pending.key] = <<>> THEN NULL ELSE Head(store[pending.key])
    /\ UNCHANGED store

StoreNext == FirstNodeJoins \/ LastNodeLeaves \/ Ask \/ Insert \/ Remove \/ Lookup

StoreSpec == StoreInit /\ [][StoreNext]_storeVars
=============================================================================
