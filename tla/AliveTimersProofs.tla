-------------------------- MODULE AliveTimersProofs --------------------------
(***************************************************************************)
(* Proofs about AliveTimers, for every number of nodes and every choice of *)
(* the intervals that satisfies its assumptions.                           *)
(***************************************************************************)
EXTENDS AliveTimers, TLAPS

Age == Nat \cup {NONE}

TimersTyped ==
    /\ running \subseteq Node /\ lost \subseteq Node /\ check \in Nat
    /\ ended \in [Node -> Nat] /\ round \in [Node -> Nat] /\ last_alive \in [Node -> Nat]
    /\ flying \in [Node -> Age] /\ entry \in [Node -> Age]

(* Between two looks at the table its entries grow no older than the time
   since the last look allows. *)
TableFresh ==
    /\ check <= TrackerPoll
    /\ \A n \in Node : entry[n] < Timeout + check

(* A datagram in flight is not late, and it is the last that was sent. *)
FlightKnown(n) ==
    /\ flying[n] <= Delay
    /\ n \in running => round[n] <= NodePoll
    /\ n \in running /\ flying[n] # NONE => flying[n] = last_alive[n]

(* The entry of a node that sends, and of which nothing was lost, is no older
   than its last NET_ALIVE or, while that is in flight, the one before. *)
Punctual(n) ==
    n \in running \ lost /\ entry[n] # NONE =>
        IF flying[n] = NONE
        THEN entry[n] <= last_alive[n] /\ last_alive[n] <= AliveAfter + round[n]
        ELSE entry[n] <= AliveAfter + NodePoll + flying[n]

(* What an ended node has left behind is as old as its end, but for the time
   its last datagram travelled. *)
Dead(n) ==
    ended[n] # 0 =>
        /\ n \notin running
        /\ flying[n] # NONE => ended[n] <= flying[n] + 1
        /\ entry[n] # NONE => ended[n] <= entry[n] + Delay + 1

TimersInv ==
    /\ TimersTyped
    /\ TableFresh
    /\ \A n \in Node : FlightKnown(n) /\ Punctual(n) /\ Dead(n)

(* The clocks start with nothing sent and an empty table. *)
LEMMA TimersInit == Init => TimersInv
BY TimerAssumption DEF Init, TimersInv, TimersTyped, TableFresh, FlightKnown, Punctual, Dead, Age, NONE

(* A node that begins q6 has sent nothing yet. *)
LEMMA StartKeeps == ASSUME NEW m \in Node, TimersInv, Start(m) PROVE TimersInv'
BY TimerAssumption DEF Start, TimersInv, TimersTyped, TableFresh, FlightKnown, Punctual, Dead, Age, NONE

(* A node that ends leaves its datagram and its entry as they are. *)
LEMMA EndKeeps == ASSUME NEW m \in Node, TimersInv, End(m) PROVE TimersInv'
BY TimerAssumption DEF End, TimersInv, TimersTyped, TableFresh, FlightKnown, Punctual, Dead, Age, NONE

(* send_alive sends only after the datagram before has arrived or is lost. *)
LEMMA SendAliveKeeps == ASSUME NEW m \in Node, TimersInv, send_alive(m) PROVE TimersInv'
<1>1. CASE last_alive[m] > AliveAfter
  <2>1. flying[m] = NONE
    BY <1>1, TimerAssumption, IntervalAssumption
    DEF send_alive, TimersInv, TimersTyped, FlightKnown, Age, NONE
  <2>2. QED
    BY <1>1, <2>1, TimerAssumption
    DEF send_alive, TimersInv, TimersTyped, TableFresh, FlightKnown, Punctual, Dead, Age, NONE
<1>2. CASE ~(last_alive[m] > AliveAfter)
  BY <1>2, TimerAssumption
  DEF send_alive, TimersInv, TimersTyped, TableFresh, FlightKnown, Punctual, Dead, Age, NONE
<1>3. QED
  BY <1>1, <1>2

(* A lost datagram is remembered in lost. *)
LEMMA LoseAliveKeeps == ASSUME NEW m \in Node, TimersInv, LoseAlive(m) PROVE TimersInv'
BY TimerAssumption DEF LoseAlive, TimersInv, TimersTyped, TableFresh, FlightKnown, Punctual, Dead, Age, NONE

(* After a round of the tracker no entry is as old as the timeout. *)
LEMMA TrackerRoundKeeps ==
    ASSUME NEW arrived \in SUBSET Node, TimersInv, TrackerRound(arrived) PROVE TimersInv'
<1>1. ASSUME NEW n \in Node
      PROVE  /\ entry'[n] = IF n \in arrived THEN 0 ELSE IF entry[n] >= Timeout THEN NONE ELSE entry[n]
             /\ flying'[n] = IF n \in arrived THEN NONE ELSE flying[n]
             /\ n \in arrived => flying[n] # NONE
             /\ n \in lost' <=> n \in lost /\ n \notin arrived
  BY <1>1, TimerAssumption DEF TrackerRound, Retained, NetAlive
<1>2. TimersTyped' /\ TableFresh'
  <2>1. entry' \in [Node -> Age] /\ flying' \in [Node -> Age]
    BY <1>1 DEF TrackerRound, TimersInv, TimersTyped, Age
  <2>2. ASSUME NEW n \in Node PROVE entry'[n] < Timeout
    BY <1>1, <2>2, TimerAssumption DEF TimersInv, TimersTyped, Age, NONE
  <2>3. QED
    BY <2>1, <2>2, TimerAssumption DEF TrackerRound, TimersInv, TimersTyped, TableFresh, Age, NONE
<1>3. ASSUME NEW n \in Node PROVE (FlightKnown(n) /\ Punctual(n) /\ Dead(n))'
  BY <1>1, <1>3, TimerAssumption, IntervalAssumption
  DEF TrackerRound, TimersInv, TimersTyped, FlightKnown, Punctual, Dead, Age, NONE
<1>4. QED
  BY <1>2, <1>3 DEF TimersInv

(* A second makes everything older at the same rate. *)
LEMMA TickKeeps == ASSUME TimersInv, Tick PROVE TimersInv'
<1>1. ASSUME NEW n \in Node
      PROVE  /\ round'[n] = IF n \in running THEN round[n] + 1 ELSE round[n]
             /\ last_alive'[n] = IF n \in running THEN last_alive[n] + 1 ELSE last_alive[n]
             /\ ended'[n] = ended[n] \/ (ended[n] # 0 /\ ended'[n] = ended[n] + 1)
             /\ flying'[n] = IF flying[n] = NONE THEN NONE ELSE flying[n] + 1
             /\ entry'[n] = IF entry[n] = NONE THEN NONE ELSE entry[n] + 1
             /\ n \in running => round[n] < NodePoll
             /\ flying[n] < Delay
  BY <1>1, TimerAssumption DEF Tick, Older, LongGone, TimersInv, TimersTyped
<1>2. TimersTyped'
  <2>1. ended' \in [Node -> Nat]
    BY DEF Tick, TimersInv, TimersTyped
  <2>2. entry' \in [Node -> Age] /\ flying' \in [Node -> Age]
    BY <1>1 DEF Tick, Older, TimersInv, TimersTyped, Age, NONE
  <2>3. QED
    BY <2>1, <2>2 DEF Tick, TimersInv, TimersTyped
<1>3. TableFresh'
  BY <1>1, TimerAssumption DEF Tick, TimersInv, TimersTyped, TableFresh, Age, NONE
<1>4. ASSUME NEW n \in Node PROVE (FlightKnown(n) /\ Punctual(n) /\ Dead(n))'
  BY <1>1, <1>4, TimerAssumption
  DEF Tick, TimersInv, TimersTyped, FlightKnown, Punctual, Dead, Age, NONE
<1>5. QED
  BY <1>2, <1>3, <1>4 DEF TimersInv

(* TimersInv is inductive. *)
LEMMA TimersStep == TimersInv /\ [Next]_vars => TimersInv'
<1>1. SUFFICES ASSUME TimersInv, [Next]_vars PROVE TimersInv'
  OBVIOUS
<1>2. CASE Next
  BY <1>1, <1>2, StartKeeps, EndKeeps, SendAliveKeeps, LoseAliveKeeps, TrackerRoundKeeps, TickKeeps DEF Next
<1>3. CASE UNCHANGED vars
  BY <1>1, <1>3 DEF vars, TimersInv, TimersTyped, TableFresh, FlightKnown, Punctual, Dead
<1>4. QED
  BY <1>1, <1>2, <1>3

(* TimersInv holds throughout. *)
LEMMA TimersAlways == Spec => []TimersInv
BY TimersInit, TimersStep, PTL DEF Spec

(* nodes.retain in the tracker's loop: no entry gets older than the timeout and
   one round together. *)
THEOREM EntriesExpire == Spec => []EntryAgeBound
<1>1. TimersInv => EntryAgeBound
  BY TimerAssumption DEF TimersInv, TimersTyped, TableFresh, EntryAgeBound, Age, NONE
<1>2. QED
  BY <1>1, TimersAlways, PTL

(* The tracker names a node for at most Timeout, a round and the delay of a
   datagram after the node has ended. *)
THEOREM DeadForgotten == Spec => []ForgetsTheDead
<1>1. TimersInv => ForgetsTheDead
  BY TimerAssumption
  DEF TimersInv, TimersTyped, TableFresh, Dead, ForgetsTheDead, LongGone, Age, NONE
<1>2. QED
  BY <1>1, TimersAlways, PTL

(* A node in q6 stays in the table until a NET_ALIVE is lost: send_alive is
   called often enough for every choice of intervals with
   AliveAfter + NodePoll + Delay < Timeout. *)
THEOREM LivingKept == Spec => StaysRegistered
<1>1. ASSUME TimersInv, [Next]_vars PROVE [KeepsTheLiving]_vars
  <2>1. ASSUME NEW n \in running \ lost, entry[n] # NONE, Next PROVE entry'[n] # NONE
    <3>1. n \in Node /\ entry[n] \in Nat /\ entry[n] < Timeout
      BY <1>1, <2>1, TimerAssumption, IntervalAssumption
      DEF TimersInv, TimersTyped, FlightKnown, Punctual, Age, NONE
    <3>2. CASE Tick
      BY <1>1, <3>1, <3>2 DEF Tick, Older, NONE
    <3>3. ASSUME NEW arrived \in SUBSET Node, TrackerRound(arrived) PROVE entry'[n] # NONE
      BY <3>1, <3>3, TimerAssumption DEF TrackerRound, Retained, NetAlive, NONE
    <3>4. ASSUME UNCHANGED entry PROVE entry'[n] # NONE
      BY <2>1, <3>4
    <3>5. QED
      BY <2>1, <3>2, <3>3, <3>4 DEF Next, Start, End, send_alive, LoseAlive
  <2>2. QED
    BY <1>1, <2>1 DEF KeepsTheLiving
<1>2. QED
  BY <1>1, TimersAlways, PTL DEF Spec, StaysRegistered
=============================================================================
