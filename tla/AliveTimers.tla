---------------------------- MODULE AliveTimers ----------------------------
(***************************************************************************)
(* The clocks that keep a node in the tracker's table: send_alive in every *)
(* round of q6 (node.rs), and the table of the tracker (tracker.rs), which *)
(* forgets a node that is silent for too long.  Time passes in seconds, as *)
(* as_secs counts them.                                                    *)
(***************************************************************************)
EXTENDS Integers, FiniteSets

CONSTANTS
    Node,         \* processes
    NodePoll,     \* a round of q6 takes at most so long: 5
    AliveAfter,   \* send_alive sends when more than this has passed: 10
    TrackerPoll,  \* a round of the tracker takes at most so long: 5
    Timeout,      \* the tracker drops a node that was silent for so long: 30
    Delay         \* the longest time a datagram travels

ASSUME TimerAssumption ==
    /\ NodePoll \in Nat \ {0} /\ AliveAfter \in Nat /\ TrackerPoll \in Nat \ {0}
    /\ Timeout \in Nat \ {0} /\ Delay \in Nat

ASSUME IntervalAssumption == Delay <= AliveAfter /\ AliveAfter + NodePoll + Delay < Timeout

(* No time: no datagram in flight, no entry in the table. *)
NONE == -1

VARIABLES
    running,     \* the nodes that are in q6
    ended,       \* seconds since a node ended, up to a bound
    round,       \* seconds since a node began its round of q6
    last_alive,  \* seconds since a node has sent NET_ALIVE
    flying,      \* seconds its NET_ALIVE is in flight, or NONE
    lost,        \* the nodes of which a NET_ALIVE was lost since the last that arrived
    entry,       \* seconds since the tracker has heard of a node, or NONE
    check        \* seconds since the tracker has looked at its table

vars == <<running, ended, round, last_alive, flying, lost, entry, check>>

(* Bound: how long an ended node is watched. *)
LongGone == Timeout + TrackerPoll + Delay + 1

Init ==
    /\ running = {} /\ lost = {} /\ check = 0
    /\ ended = [n \in Node |-> 0] /\ round = [n \in Node |-> 0]
    /\ last_alive = [n \in Node |-> AliveAfter + 1]
    /\ flying = [n \in Node |-> NONE] /\ entry = [n \in Node |-> NONE]

(* A node gets to q6 with last_alive 100 s in the past. *)
Start(n) ==
    /\ n \notin running /\ ended[n] = 0 /\ entry[n] = NONE /\ flying[n] = NONE
    /\ running' = running \cup {n}
    /\ round' = [round EXCEPT ![n] = 0]
    /\ last_alive' = [last_alive EXCEPT ![n] = AliveAfter + 1]
    /\ UNCHANGED <<ended, flying, lost, entry, check>>

End(n) ==
    /\ n \in running
    /\ running' = running \ {n} /\ ended' = [ended EXCEPT ![n] = 1]
    /\ UNCHANGED <<round, last_alive, flying, lost, entry, check>>

(* Mutant of send_alive: sends when three times as much has passed. *)
Mutant_TooRarely(n) ==
    /\ n \in running
    /\ round' = [round EXCEPT ![n] = 0]
    /\ IF last_alive[n] > 3 * AliveAfter
       THEN /\ last_alive' = [last_alive EXCEPT ![n] = 0]
            /\ flying' = [flying EXCEPT ![n] = 0]
       ELSE UNCHANGED <<last_alive, flying>>
    /\ UNCHANGED <<running, ended, lost, entry, check>>

(* A round of q6 begins, after an event, a signal or NodePoll seconds. *)
send_alive(n) ==
    /\ n \in running
    /\ round' = [round EXCEPT ![n] = 0]
    /\ IF last_alive[n] > AliveAfter
       THEN /\ last_alive' = [last_alive EXCEPT ![n] = 0]
            /\ flying' = [flying EXCEPT ![n] = 0]
       ELSE UNCHANGED <<last_alive, flying>>
    /\ UNCHANGED <<running, ended, lost, entry, check>>

LoseAlive(n) ==
    /\ flying[n] # NONE
    /\ flying' = [flying EXCEPT ![n] = NONE] /\ lost' = lost \cup {n}
    /\ UNCHANGED <<running, ended, round, last_alive, entry, check>>

(* Mutant of NetAlive: an entry that was not refreshed is taken for a new one. *)
Mutant_EntryReset(arrived, n) == IF n \in arrived \/ entry[n] # NONE THEN 0 ELSE NONE

(* A round of the tracker: the datagrams that have arrived, then the table. *)
NetAlive(arrived, n) == IF n \in arrived THEN 0 ELSE entry[n]

(* Mutant of Retained: an entry as old as the timeout stays for another round. *)
Mutant_OneRoundMore(age) == IF age > Timeout THEN NONE ELSE age

Retained(age) == IF age >= Timeout THEN NONE ELSE age

TrackerRound(arrived) ==
    /\ \A n \in arrived : flying[n] # NONE
    /\ entry' = [n \in Node |-> Retained(NetAlive(arrived, n))]
    /\ flying' = [n \in Node |-> IF n \in arrived THEN NONE ELSE flying[n]]
    /\ lost' = lost \ arrived /\ check' = 0
    /\ UNCHANGED <<running, ended, round, last_alive>>

(* A second passes: nobody is late. *)
Older(age) == IF age = NONE THEN NONE ELSE age + 1

Tick ==
    /\ \A n \in running : round[n] < NodePoll
    /\ \A n \in Node : flying[n] < Delay
    /\ check < TrackerPoll
    /\ round' = [n \in Node |-> IF n \in running THEN round[n] + 1 ELSE round[n]]
    /\ last_alive' = [n \in Node |-> IF n \in running THEN last_alive[n] + 1 ELSE last_alive[n]]
    /\ ended' = [n \in Node |-> IF ended[n] \in 1 .. LongGone - 1 THEN ended[n] + 1 ELSE ended[n]]
    /\ flying' = [n \in Node |-> Older(flying[n])]
    /\ entry' = [n \in Node |-> Older(entry[n])]
    /\ check' = check + 1
    /\ UNCHANGED <<running, lost>>

Next ==
    \/ \E n \in Node : Start(n) \/ End(n) \/ send_alive(n) \/ LoseAlive(n)
    \/ \E arrived \in SUBSET Node : TrackerRound(arrived)
    \/ Tick

Spec == Init /\ [][Next]_vars

(* How long the tracker names a node it does not hear of any more: it looks
   at its table every TrackerPoll seconds. *)
EntryAgeBound == \A n \in Node : entry[n] < Timeout + TrackerPoll

(* A node that has ended is forgotten: neither a late datagram nor the rounds
   of the tracker keep it in the table for longer. *)
ForgetsTheDead == \A n \in Node : ended[n] >= LongGone => entry[n] = NONE

(* The tracker drops a node that is still in q6 only if a NET_ALIVE of it was
   lost: AliveAfter, a round of q6 and the way to the tracker add up to less
   than Timeout.  One that is lost is enough. *)
KeepsTheLiving ==
    \A n \in running \ lost : entry[n] # NONE => entry'[n] # NONE

StaysRegistered == [][KeepsTheLiving]_vars
=============================================================================
