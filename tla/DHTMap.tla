-------------------------------- MODULE DHTMap --------------------------------
(***************************************************************************)
(* What the network promises a client: a map from keys to values that      *)
(* changes only as the client asks, whoever joins or leaves, as long as    *)
(* the network is up.  When the last node leaves, everything is forgotten. *)
(***************************************************************************)
CONSTANTS Key, Value, NULL, Request

VARIABLES
    store,   \* key -> the value the network holds
    asked,   \* the client's last request
    up       \* whether some node serves requests

mapVars == <<store, asked, up>>

MapInit == store = [k \in Key |-> NULL] /\ asked = NULL /\ up = FALSE

FirstNodeJoins == ~up /\ up' /\ UNCHANGED <<store, asked>>

LastNodeLeaves == up /\ ~up' /\ store' = [k \in Key |-> NULL] /\ UNCHANGED asked

Ask == up /\ asked' \in Request \cup {NULL} /\ UNCHANGED <<store, up>>

(* The request is carried out, later and possibly by a node that is not the
   one that was asked; carrying it out twice changes nothing. *)
Put ==
    /\ up /\ asked # NULL /\ asked.type = "VAL_INSERT"
    /\ store' = [store EXCEPT ![asked.key] = asked.val]
    /\ UNCHANGED <<asked, up>>

Remove ==
    /\ up /\ asked # NULL /\ asked.type = "VAL_REMOVE"
    /\ store' = [store EXCEPT ![asked.key] = NULL]
    /\ UNCHANGED <<asked, up>>

MapNext == FirstNodeJoins \/ LastNodeLeaves \/ Ask \/ Put \/ Remove

MapSpec == MapInit /\ [][MapNext]_mapVars
=============================================================================
