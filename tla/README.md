# A distributed hash table: models, checks and proofs

This directory specifies the distributed hash table of this repository in TLA+:
the C node (`src/`), and the Rust node, tracker and client
(`resources/TestNode`). TLC checks the specifications on small networks; TLAPS
proves some of their properties for networks of every size.

## 1. The system

### Parts, state and operations

| Part | State it keeps | Operations |
|---|---|---|
| C node, `src/c_node.c` | `struct self_data`: range, table, sockets to successor and predecessor, poll set | states q1-q8 (start and join), q6 (serve), `shutdown_proceedure`; one handler per PDU |
| C value operations, `src/hash_handling.c` | table and `ssns[]` in `self_data` | insert, remove, lookup, hand over part of the entries, send all entries, `update_range` |
| C sockets, `src/sockets.c` | kernel buffers, listen queue | connect, accept, send, receive, with poll timeouts |
| C hash table, `resources/Hashtable` | chained buckets, `length` | insert, lookup, remove, destroy |
| Rust node, `bin/node.rs` | `struct Node`: state, range, list of entries, successor and predecessor with their wrappers, `last_pdu` | states q1-q18, `handle_pdu`, blocking reads and accepts |
| Rust sockets, `socket_wrapper.rs` | bytes not yet parsed, PDUs not yet handled | `send`, `try_read`, `next_pdu` |
| Rust codec, `pdu.rs` | none | writing and parsing of 15 kinds of PDU |
| Tracker, `bin/tracker.rs` | node address -> time of last NET_ALIVE | STUN, NET_ALIVE, NET_GET_NODE, forgetting silent nodes |
| Client, `bin/client.rs` | the node it talks to | insert, remove, lookup, inserts from a file |

Nodes form a ring. Each node has a TCP connection to its successor and one from
its predecessor, and owns a range of the hashes 0 .. 255. A client sends a
request to any node by UDP; a node that does not own the key's hash forwards the
request to its successor.

*Join.* The new node asks the tracker for a node and sends that node a NET_JOIN
by UDP. A node that is alone makes room at once. Otherwise the NET_JOIN travels
round the ring until it comes back to the node with the largest span, which it
names by then; that node sends NET_CLOSE_CONNECTION to its successor, connects
to the new node, sends it NET_JOIN_RESPONSE (the upper half of its range and the
address of the old successor) and then the entries of that half as VAL_INSERTs.
The new node connects to the old successor, which meanwhile waits in `accept`.

*Leave.* On a signal a node sends NET_NEW_RANGE to its predecessor (to its
successor if its range starts at 0), waits for NET_NEW_RANGE_RESPONSE, sends all
entries there, sends NET_CLOSE_CONNECTION to the successor and NET_LEAVING (with
the successor's address) to the predecessor, and ends. The successor waits in
`accept` for the predecessor to connect.

The two implementations follow the same protocol and differ where it matters
for the checks. The C node handles a PDU as soon as it has read it, polls once
more during its shutdown, gives up when an answer takes too long, keeps one
value per key and does not answer the lookup of a missing key. The Rust node
reads all that has arrived into a queue, only *notes* what a PDU of the network
asks for (`state` and `last_pdu`, one of each) and acts when the round of q6 is
over, waits without a timeout, keeps every value that was inserted for a key,
answers every lookup, and panics where the C node exits.

### What is hard

Every node is one sequential process, so the hard cases are between processes:
joins that overlap, leaves that overlap joins or each other or requests; a PDU
that is already in a stream when its reader expects another one; a PDU noted and
then overwritten by another one of the same round; a PDU read into a queue that
nobody looks at; two connections between the same two nodes, of which one
overtakes the other; nodes blocked in `accept` without a timeout; nodes that end
halfway through an exchange; streams cut anywhere; full buffers; the tracker's
late knowledge; and arithmetic in 8 bits. `PROJECT.json` lists these hazards
with the lines where they bite.

### What makes it correct

* ranges: every hash has exactly one owner, or is in exactly one PDU on its way
  to its next owner; a split loses nothing;
* entries: a node's entries are in its range; no entry disappears or doubles;
* ring: when nothing is under way, the connections form one ring, in the order
  of the ranges;
* streams: the PDU a process blocks for is the one it gets, nothing follows
  the PDU after which the reader closes the connection, and the reader gets the
  PDUs that were written, however the bytes are cut;
* progress: joins, waits for a predecessor, leaves and lookups end;
* registration: the tracker keeps the nodes that live and forgets the others;
* for the client: a network of C nodes is a map, one of Rust nodes a list of
  values for every key.

## 2. The modules

| Module | Models | Extends |
|---|---|---|
| `HashRange` | the range arithmetic, with 8-bit assignment and C division | |
| `Sockets` | `struct self_data`, the PDUs, the kernel and the socket operations of the C node | `HashRange` |
| `CNode` | the C node: one operator per handler, one action per step of the process | `Sockets` |
| `DHTRing` | C nodes, tracker, client and environment; their properties | `CNode` |
| `DHTMap` | abstract specification: the map a client of C nodes sees | |
| `RustNode` | the Rust node and the kernel under it: one action per state function | `HashRange` |
| `RustRing` | Rust nodes, tracker, client and environment; their properties | `RustNode` |
| `DHTStore` | abstract specification: the store a client of Rust nodes sees | |
| `Framing` | codec and wrappers of the Rust programs, byte by byte; their properties | |
| `AliveTimers` | the clocks of NET_ALIVE and of the tracker's table; their properties | |
| `MCDHTRing`, `MCRustRing`, `MCFraming` | constants for TLC | the module named |
| `DHTRingProofs` | theorems about `HashRange`; types, stored entries and connections of `DHTRing` | `DHTRing` |
| `DHTJoinProofs` | theorems about joins of C nodes: ranges, failures, the ring, no data loss | `DHTRingProofs` |
| `RustRingProofs` | types of `RustRing` | `RustRing` |
| `RustRoundProofs` | the invariant of joins of Rust nodes, and the steps that leave the ring as it is | `RustRingProofs` |
| `RustJoinProofs` | theorems about joins of Rust nodes: ranges, the ring, no panic | `RustRoundProofs` |
| `RustDataProofs` | theorems about joins of Rust nodes: no data loss, entries in range | `RustJoinProofs` |
| `FramingProofs` | theorems about `Framing` | `Framing` |
| `AliveTimersProofs` | theorems about `AliveTimers` | `AliveTimers` |

`PROJECT.json` maps each definition to its source lines. Definitions whose name
begins with `Mutant_` are not part of the model: each is a plausible bug, used
to confirm that a property would notice it.

### The C node

`self_data[n]` is the memory of node `n`. Two facts the C code keeps in one
integer are separate: `succ_socket` is whether `successor.socket` is non-zero
(what `handle_net_join` and the shutdown test), and `succ_fd` is the open
connection behind `fds[SUCCESSOR_FDS]`, `NULL` once it is closed. They differ
after an end of stream, where `poll_for_incoming_data` sets `fds[i].fd` to -1
and leaves the socket number; the same holds for the predecessor. `pc` is the
place where the process is blocked. Memory from `malloc` that the code does not
initialise is zero, as the first allocation of a process gets fresh pages.
`net` holds, for every connection, the PDUs written and not yet received in each
direction, every node's listen queue, and the datagrams in flight.

A step of a process runs from one blocking call to the next. One handler, with
all sends, closes and connects in it, is one step; only
`accept_predecessor_connection` blocks inside a handler, and it is always the
last call, so the handler's step ends in `pc = "accept"` and the acceptance is
another step. `shutdown_proceedure` blocks twice and is three steps. A handler
that calls `exit_with_error` ends the process in that step: everything it held
is closed.

* A stream is a queue of whole PDUs, and a step reads one of them. The code
  reads all that is there and handles the PDUs in a row; that is a sequence of
  the model's steps. The batch could matter only if the handling of a PDU closed
  the connection while PDUs of the batch are left, which `LastWords` excludes.
* What is written to a connection whose other end is closed vanishes. The real
  kernel accepts the first such write and answers a later one with SIGPIPE.
* A connection is complete when `connect` returns, except in the fault
  `slow_connect`. The listen queue has no limit.
* The STUN exchange of q1 and q2 is part of `Start`. NET_ALIVE and its receipt
  are one step, as are NET_GET_NODE and its receipt.
* In the shutdown's last poll the descriptors are read in the order of the code,
  but a descriptor may be read for several rounds. This allows more than the
  code does.
* Using the freed table in the shutdown either has no effect or ends the process.
* When a node joins, the old connection to the successor is left open by the
  code and never used again; the model treats it as closed.

### The Rust node

`node[n]` is `struct Node`, with `state` as in the code. `at` says where in the
function of that state the process is. A function is split exactly where it
blocks or where what it reads can change: q3, q5, q7, q11 and q17 at their
`accept` or `await_pdu`, q2 and q8 before it, and q6 into `send_alive`, the poll
(`q6poll`, which fixes the events of the round and their order), the read of
one event (`q6read`, all that has arrived by then) and the handling of one PDU
of a queue (`q6handle`). While a round of q6 is under way `state` is already the
state to run next, as in the code, and a later PDU of the same round overwrites
it. Everything else is one step.

* `await_pdu` returns the first PDU of what was read; the rest stays in the
  wrapper's queue, which q6 looks at only after an event of that socket.
* The read of a stream gives any non-empty prefix of what was written: TCP may
  deliver late. The end of the stream is seen only after all of it. PDUs are
  whole here; `Framing` is about the bytes.
* A connection that is closed with unread data, or written to after the other
  end is closed, is reset (`rst`). A call on it fails, and the node panics, at
  any time after that: `Fails` leaves open whether the reset has arrived yet.
  A node that accepts a predecessor while it still has one drops the old
  connection, as the assignment in `accept_predecessor` does.
* A panic ends the process; everything it has is closed. Arithmetic wraps, as in
  the release build that the README asks for.
* STUN gives a node its own address. The addresses q12 and q14 compare are
  listen addresses, `0.0.0.0` with the node's port: they are the node's identity
  as long as no two nodes have the same port, which nodes of one host never do.
* `alive_due` is whether `send_alive` would send. It becomes true again
  (`AliveDue`) when the node is not in the tracker's table and no NET_ALIVE is
  under way; at other times a further NET_ALIVE changes nothing. The clock itself
  is in `AliveTimers`.
* A poll that the operating system repeats without news (an end of stream already
  read) may repeat in the model too.

### Network and environment

Both networks have the same tracker and client. Datagrams are a set: unordered;
identical ones in flight count as one. A node that is stopped and started again
has new ports: it is a new node, and a node starts once. Each request goes to a
node the tracker has in its table at that moment, as that of a client that has
just asked. Three constants say what the environment may do, so that the same
specification is checked under assumptions of different strength:

* `Leavers`: the nodes that may be stopped;
* `Overlap`: what may begin while something else is under way ("first": a node
  starts although another has not registered yet; "join"; "leave"; "value": a
  request). What is not in it begins only when the network is `Quiet`: no PDU in
  flight or in a queue, all nodes in q6 and known to the tracker. `RustRing` has
  "pair" besides: of two nodes, the one that owns hash 0 may leave. It hands over
  its entries on one connection and leaves on the other, which is not safe even
  in a quiet network (run `rust_pair`);
* `Faults`: for C nodes "timeout" (a receiving call gives up), "interrupt" (a
  signal in a poll other than that of q6), "udp_loss", "slow_connect" (another
  descriptor is ready before a connection is), "reset" (recv fails instead of
  returning 0), "expiry" (the tracker forgets a node that hangs in `accept`);
  for Rust nodes "interrupt" (a signal ends the poll of `await_pdu`, whose result
  is unwrapped), "udp_loss" and "expiry". Resets of Rust nodes' connections are
  not optional.

### Framing

One sender and one reader, over a stream that is cut at every byte or as
datagrams that may be lost and reordered. A text is a sequence of characters. A
PDU is its variant, its `pdu_type` (the byte that is written first) and its other
fields, the lengths of an entry's texts among them, which `new_val_pdu` counts in
UTF-8. `to_bytes` and `parse_pdu` are the code's conversions, with big-endian
integers, one byte per character, a parser that believes the lengths, and the
read behind the end of the buffer at the length of the email. They are inverse to
each other with one exception: `try_parse` of VAL_LOOKUP_RESPONSE gives the PDU the
`pdu_type` of VAL_LOOKUP (`pdu.rs:861`), as `try_parse_response` does. A node that
passed such a PDU on would write the wrong first byte, but only the client reads
one, and it prints the texts. `AsRead` is a PDU with that byte, and `FramesIntact`
compares with it: all that is sent arrives as it was, and nothing more than that
byte is lost. `ReadTcp` is one call of
`try_read` up to its loop around `parse_pdu`; `ParseOne`, `ParseNone` and
`ParsePanics` are the turns of that loop, and `next_pdu` is the owner that
empties the queue and, as q6 does with its successor, drops a connection that
was reported closed.

### AliveTimers

Time is a step, `Tick`, that is possible only when nobody is late: a round of q6
takes at most `NodePoll`, a round of the tracker at most `TrackerPoll`, a
datagram at most `Delay`. All clocks are ages, so that they stay bounded.

## 3. The runs

All runs of the two networks use a hash space of 4 and keys whose hashes are 1
and 3, so that the first split sends one entry away and the second splits a
range of two. With three nodes a NET_JOIN is handled alone (first join),
forwarded, renamed and taken by the largest (second join); joining, leaving and
bystanding nodes are all different; and a ring of three shrinks to two and to
one. Nodes are symmetric in the runs that check safety only (in `rust_hostile`
those that may leave and those that may not). `MaxConns = 2`
connections may exist from one node to another at a time: an old one whose end
is not read yet, and its successor. `MaxOps` bounds the requests. Deadlock is
not checked: when all nodes have ended, or wait for requests that the bound
excludes, the system stops rightly; that nobody waits for ever is what the
liveness properties show.

| Run | Environment | Checks |
|---|---|---|
| `join_traffic` | C nodes; joins and 2 requests overlap freely; nobody leaves | `RangesPartition`, `QuietRing`, `NoErrorExit`, `NoDataLoss`, `JoinCompletes`, `AcceptCompletes` |
| `serial_leave` | C nodes; joins, leaves and 3 requests, one at a time | `RangesPartition`, `QuietRing`, `NoErrorExit`, `ImplementsMap`, `LeaveCompletes`, `LookupAnswered` |
| `hostile` | C nodes; everything overlaps, all faults | `TypeOK`, `StoredInRange`, `LastWords`, `JoinResponseFirst` |
| `rust_serial` | Rust nodes; joins, leaves and 2 requests, one at a time; expiry | `RangesPartition`, `QuietRing`, `NoPanic`, `JoinCompletes`, `AcceptCompletes`, `LeaveCompletes`, `EveryLookupAnswered` |
| `rust_store` | Rust nodes; joins, leaves and 3 requests with two values, one at a time | `ImplementsStore` |
| `rust_join` | Rust nodes; joins and 1 request overlap freely, datagrams are lost | `RangesPartition`, `NoPanic`, `NoDataLoss` |
| `rust_hostile` | Rust nodes; starts, joins, one leave, in a pair too, and 1 request overlap freely; signals, lost datagrams | `TypeOK`, `StoredInRange`, `NoDuplicate` |
| `framing` | two PDUs of any type, `SSN_LENGTH` 2, a buffer that just suffices | `FramesIntact`, `PanicsOnlyAtEmailLength`, `ClosedMeansClosed`, `EverythingArrives` |
| `alive_timers` | the intervals of the code, datagrams of up to 2 s | `EntryAgeBound`, `ForgetsTheDead`, `StaysRegistered` |

Together the network runs say: while nodes only join, or while what happens is
spaced out, the protocol is right in both implementations, step by step and not
only in between; and under any environment the local invariants that the
handlers rely on survive.

*Bounds of the Rust runs.* In `rust_serial` two of the three nodes may leave, so
that a ring of three shrinks to one node, and a node that is alone leaves and
another starts afresh. A hand-over that stays in a queue (run `rust_handover`)
keeps the network from being quiet, so that there nothing further begins; the run
shows the network right in all other cases. In `rust_store` the client may insert
a value of a key, insert another one and look the key up, with joins and leaves
between any two of these, or remove it and insert it again: what a hand-over, a
leave or a queue does to the order of two values is seen by the third request.
Values and leaving nodes are symmetric there, as the run checks no liveness.
In `rust_hostile` a single node may leave; it may be any of the ring, before,
during and after the others' joins. Two leaves that overlap, and expiry beside
the other overlaps, exceed what TLC explores in minutes.

*Bounds of `framing`.* Two PDUs are enough for every way in which the end of one
and the beginning of the next can fall together; one of each type, entries with
and without text, and integers whose bytes all differ are among them. The texts
are ASCII: for others the length in UTF-8 and the number of bytes written
differ: `len` counts two bytes for the letter e with an accent, of which one is
written, and the reader takes the first byte of the next PDU for the end of the
text. The tests of `pdu.rs` have ASCII only. The buffer of 17 bytes is
the smallest in which `ClosedMeansClosed` should hold: the longest PDU but for one
byte, 13, and a window of 4 bytes. So a read may fill the buffer to the last byte,
and the next one must still find room. With `BUFFER_SIZE = 16` it does not, and TLC
finds the property violated: a full buffer makes `read` return 0, which
`socket_wrapper.rs:60` takes for "Remote closed the connection". The program's
buffer has 25600 bytes; a burst of handed-over entries can exceed that.
`CodecChecked`, an assumption of `MCFraming`, checks the codec by itself: each of
these PDUs, followed by each, cut at every byte.

*Bounds of `alive_timers`.* One node: nodes share only the rounds of the
tracker. The theorems below are for any number.

*What three nodes do not show.* Two NET_JOINs that travel round a ring at the same
time need a ring of two and two more nodes; the theorems about joins cover them,
for any number of nodes. Several hazards of `PROJECT.json` have no property because
the program does fail there and claims nothing: a C node exits when another
descriptor is ready before a connection is (`slow_connect`), or when a NET_JOIN
arrives after the NET_CLOSE_CONNECTION of its last neighbour and before the
NET_LEAVING (the case that "should be impossible", `c_node.c:147`: with
`Overlap = {"join"}` and leaves TLC reaches it); a Rust node panics when a request
reaches it while it waits in q11, and forgets one of two PDUs it noted in one
round. Such cases are in `hostile` and `rust_hostile`, which do not claim that
nothing fails.

Three runs show that more is not true. Each checks one statement of the
repository that the code does not keep:

| Run | Statement | What happens |
|---|---|---|
| `leave_overlap` | README: "ensures no data loss as nodes join or leave" | a C node stopped right after joining reads a VAL_INSERT as the answer to NET_NEW_RANGE |
| `rust_pair` | the same | of two Rust nodes, the one that owns hash 0 leaves: NET_LEAVING overtakes the entries, and the connection they are on is dropped |
| `rust_handover` | `node.rs:534` (q13; q5 does the same) "Transfer all between mins and maxs" | entries read together with NET_JOIN_RESPONSE stay in the queue of the wrapper as long as nothing else arrives |

### Fairness

`FairSpec` of the networks assumes weak fairness of each process (`RunNode`): a
process whose poll or accept would return runs eventually, which any operating
system gives it, and q6 looks at every descriptor in every round. For C nodes it
assumes that NET_ALIVE and the tracker's answers arrive and that an answer
reaches the client; for Rust nodes that the tracker handles the datagrams it
gets (`RunTracker`), that the clock of `send_alive` goes on (`AliveDue`) and that
an answer reaches the client. These are single datagrams, and liveness is
checked in runs without the fault "udp_loss". Nothing makes a node start or stop
or a client ask, and no fault is ever bound to happen. `FairSpec` of `Framing`
lets the sender write what it was asked to and the reader read what is there.

### Refinement

`ImplementsMap` is `DHTMap!MapSpec` with `store` replaced by the value that a
table holds or, if none does, that a stream carries to a table. `ImplementsStore`
is `DHTStore!StoreSpec` with `store` replaced by the values of a key in tables,
then in queues, then in streams, in their order. Every step of the network must
be a step of the abstract specification or change none of its variables. Because
a request is the only thing that may change the store, this is stronger than the
absence of loss: no value may come back, none may double or change places, and a
lookup answers with what the store has at that moment.

## 4. The proofs

### DHTRingProofs

For every value of the constants that satisfies `HashSizeAssumption`,
`SocketsAssumption` and `RingAssumption` (in particular every set of nodes and
values, every finite set of keys, every hash function, every `Overlap` and every
`Faults`):

* `TypeCorrect`: `Spec => []TypeOK`;
* `EntriesInRange`: `Spec => []StoredInRange`;
* `SplitPartitions`: the split of a range of at least two hashes is a partition
  into two non-empty ranges, whatever the hash size. The restriction is needed:
  the split of `h .. h` hands over `h + 1 .. h`, which is empty, but the split
  of `255 .. 255` would hand over `0 .. 255`, as `255 + 1` is 0 in a `uint8_t`.

`StoredInRange` is not inductive: q7 sets the range to the one in
NET_JOIN_RESPONSE without looking at the table, which is right only because the
table is still empty then. The inductive invariant `NodeInv` therefore says of
every node that its memory has its type, its entries are in range, and in q3 and
q7 it has none (`Sound`); and that the kernel has its type.

Every step ends in `Continue(n, s, nt)`. So the proof goes bottom up: the kernel
operations keep `Net`; the updates of a memory keep `Sound` (one lemma,
`SameTable`, serves all those that do not touch the table and do not shrink the
range; the hand-over, which does both, has its own, `AfterHandoverReady`); one
lemma per handler; one per step of a process; and `NextGood` puts them together.

Also in every environment, with every fault:

* `LastWordsLast`: `Spec => []LastWords`;
* `WelcomedFirst`: `Spec => []JoinResponseFirst`.

That nothing follows the last word on a stream is a matter of who still holds
which end of it. `Ends` says so: a process holds only its own ends and none
where the code has closed them (`Own`); a stream that nobody will read is empty;
and who has written a last word no longer holds the connection (`FwdOK`,
`BwdOK`). `JoinResponseFirst` needs to know that nobody connects to a node before
the node that makes room for it does. `Greets` says so: every address that
somebody holds, or that a NET_JOIN_RESPONSE or NET_LEAVING carries, is that of a
node that has at least its first connection (`Known`), and that connection
begins with NET_JOIN_RESPONSE (`Greeted`). Both predicates take the memories and
the kernel as parameters: within a step they hold for what a handler has changed
so far, with one connection excepted between the last word and the close. There
is a lemma for every kernel operation and every change of a memory; a handler is
a composition of these.

### DHTJoinProofs

Under the hypothesis `JoinOnly` (nobody leaves, no faults, the first two nodes do
not start at the same moment, and `HASH_SIZE > 1`), for every number of nodes,
keys and requests, and with joins and requests that overlap in every way:

* `RangesPartitioned`: `Spec => []RangesPartition`;
* `NobodyFails`: `Spec => []NoErrorExit`;
* `RingCloses`: `Spec => []QuietRing`;
* `NothingLost`: `Spec => NoDataLoss`.

The hypothesis is what the run `join_traffic` assumes, not more. It is needed:
`leave_overlap` shows the loss of data when leaves overlap, and two nodes that
start at once are both told by the tracker that they are alone, so that both own
everything.

The invariant `JoinInv` describes a ring in which any number of joins are under
way. `Order` says: the successor of a node holds its end of the connection, and
its range begins where the node's ends, be it that it has the range or that the
NET_JOIN_RESPONSE with it is still on its way (`Link`, `Follows`); a node without a
successor is alone (`Alone`); the only PDUs on streams are those of requests and
joins (`OnlyTraffic`); a NET_JOIN_RESPONSE is the first PDU on the first connection
of a node in q7 (`Response`); there is at most one NET_JOIN of a node, the node
still waits, and the largest node it names can be split (`Asking`, `Once`).
`Table` says what the tracker knows. `Shares` says that every hash has one holder.
The delicate part is `Divisible`: the node that NET_JOIN names as the largest had
at least two hashes when the NET_JOIN passed it, but may have been split by other
joins since. It can still be split without harm: either two hashes are left, or
one that is not the last, whose successor part `h + 1 .. h` is empty and does not
wrap around.

`NoDataLoss` is an action property: `JoinInv` holds before the step, and a lemma
for each handler shows that what it removes from a table it puts on a stream, and
that what it takes from a stream it puts in a table or on another stream (`Safe`).
`JoinInv` is needed for one thing: the stream it is put on has a reader.

### RustRingProofs

For every value of the constants that satisfies `HashSizeAssumption`,
`RustNodeAssumption` and `RustRingAssumption`, so in every environment:

* `RustTypeCorrect`: `Spec => []TypeOK`.

The types alone are not inductive: `q5` takes `last_pdu.src`, `q15`
`last_pdu.range_end`, and the client `pdu.val` of whatever datagram it reads. The
invariant `RustInv` adds what those steps rely on: a node in the state that uses
`last_pdu` has a PDU of the right type there, with somebody to connect to
(`Sound`); a node that handles an event has something in the queue of that event
(`Settled`, which is what the end of a step, `Settle`, establishes); and the
client is sent nothing but answers (`NetSound`).

### RustRoundProofs and RustJoinProofs

Under the hypothesis `JoinOnly` (no SIGINT, no fault but lost datagrams, the
first node is in the ring before the next one starts, and `HASH_SIZE > 1`), for
every number of nodes, keys and requests, with joins and requests that overlap in
every way:

* `JoinsPartition`: `Spec /\ []Splittable => []RangesPartition`;
* `JoinsRing`: `Spec /\ []Splittable => []QuietRing`;
* `JoinsNoPanic`: `Spec /\ []Splittable => []NoPanic`;
* `SerialJoins`: if besides joins do not overlap,
  `Spec => [](Splittable /\ RangesPartition /\ QuietRing /\ NoPanic)`.

`Splittable` says that a node in q13 has at least two hashes. It is a hypothesis
on the behaviour because the program does not keep it: NET_JOIN notes the widest
range it passes, and other joins may split that range before the NET_JOIN is
back. A node with the one hash `a` would keep `a .. a` and hand over
`a + 1 .. a`, a range that is empty, and whose width as a `u8` is 255: the node
that gets it is then taken for the widest one. That takes about as many nodes as
there are hashes at the same moment (5 nodes of 4 hashes; at least 128 of the
program's 256), which is why no run meets it. When joins do not overlap the proviso
follows: `SerialInv` says that the one NET_JOIN under way names a node with two
hashes or none. (A node with one hash never names itself, as its width 0 is not
greater than the 0 the NET_JOIN starts with.)

The invariant `JoinInv` is `Good(node, net, nodes)`, which has five parts. `Wires`
is about the connections: every node is in one of the places joins lead to, with
the neighbours of that place (`Seat`); each end of a connection is held by whom
the other end expects, and its successor's range begins where the node's ends, be it
that the successor has the range or that the NET_JOIN_RESPONSE with it is still on
the way (`Ends`, `Link`, `Follows`); a stream, the wrapper's queue it is read into
included (`Pipe`), carries requests, at most one NET_JOIN_RESPONSE in front and at
most one NET_CLOSE_CONNECTION at the end (`Orderly`, `Line`). `Requests` says that
there is at most one NET_JOIN of a node, in whatever place it is, and only while the
node waits for the answer. `Mail` says who may still get datagrams, `Table` what the
tracker knows, and `Shares` that every hash has one holder. All five take the
memories and the kernel as parameters, so that the lemmas about a change of them
(`RingStep`, `RequestsMove`, `SplitsGood`, `SeatsGood`) serve several actions.
There is one lemma per action; what it leaves as it is is stated once, as
`Steady`, `Advances` or `Admits`, from which `SerialInv` is then proved without going
through the actions again.

### RustDataProofs

Under the same hypotheses:

* `JoinsLoseNothing`: `Spec /\ []Splittable => NoDataLoss`;
* `JoinsStoreInRange`: `Spec /\ []Splittable => []StoredInRange`;
* `SerialJoinsData`: both without `Splittable`, if joins do not overlap.

To `JoinInv` the invariant `DataInv` adds that a table is empty until the node is in
the ring and then holds only what hashes into the node's range; without that,
q8, which sets the range to the one of the NET_JOIN_RESPONSE, would not keep
`StoredInRange`. `Keeps` says of a step that a key that was in the node's table, in one
of its queues or on a stream still is in one of these. Most steps move a PDU from
one place to another (`MovedData`); q9 changes the table (`StoredData`); q5 and q13
take entries out of the table, and as the order in which they are sent is a
permutation of them, all of them are sent (`SentAll`, by counting). `JoinInv` is needed
for the one thing that can go wrong: the connection they are written to has a
reader (`ForwardKernel`, `OfferSent`), and nothing unread is on the one that q17 drops.

### FramingProofs

For every set of scripts, every window and every size of the buffer, under the
hypothesis `Codec` (each PDU of a script fits into the buffer, begins with its
identifier, has the layout of its type, and `parse_pdu` applied to bytes that
begin like it gives nothing before all of it is there and then exactly it, as
`AsRead` says):

* `FramesDelivered`: `Spec => []FramesIntact`;
* `PanicsThereOnly`: `Spec => []PanicsOnlyAtEmailLength`;
* `ClosedIsClosed`: `Spec => []ClosedMeansClosed`, if besides an incomplete PDU
  and a whole window fit into the buffer (`Room`). With a buffer that is one byte
  smaller than that it is false.

`Codec` is a hypothesis because it is about folds over sequences: to prove it
would take induction over data. `CodecChecked` evaluates it for the PDUs of the
run. For texts that are not ASCII it is false, and so are the conclusions.

The invariant of a stream is that the unparsed bytes, those in flight and those
not yet written are, put together, exactly the PDUs from the first one the reader
has not got to the last one sent (`Framed`, which asks for the list of the places
where they end, so that no induction is needed); and that after a round of
parsing the buffer holds less than a PDU (`Incomplete`). The invariant of
datagrams is that the PDUs got, the one in the buffer and those in flight have
different numbers (`Delivered`).

### AliveTimersProofs

For every set of nodes and all intervals that satisfy `TimerAssumption` (they
are natural numbers, positive where a round needs it) and `IntervalAssumption`
(`Delay <= AliveAfter` and `AliveAfter + NodePoll + Delay < Timeout`; with the
code's 10, 5 and 30 seconds, any delay of at most 10 seconds):

* `EntriesExpire`: `Spec => []EntryAgeBound`;
* `DeadForgotten`: `Spec => []ForgetsTheDead`;
* `LivingKept`: `Spec => StaysRegistered`.

None of the three is inductive. The invariant `TimersInv` adds the clocks that
justify them: an entry is at most as much older than `Timeout` as the tracker has
not looked (`TableFresh`); a datagram in flight is not late and is the last one
sent (`FlightKnown`); as long as none was lost, the entry is no older than the
last NET_ALIVE or, while that is in flight, the one before (`Punctual`); and what
an ended node left behind is as old as its end, but for the way of its last
datagram (`Dead`). There is one lemma per action; `LivingKept` follows from
`Punctual` and the assumption on the intervals, the only place where that
assumption is needed beyond the uniqueness of the datagram in flight.

### Only model-checked

* Liveness (`JoinCompletes`, `AcceptCompletes`, `LeaveCompletes`, `LookupAnswered`,
  `EveryLookupAnswered`, `EverythingArrives`) is out of the prover's reach.
* `RangesPartition`, `QuietRing` and `NoErrorExit` with leaves, one at a time
  (`serial_leave`): the proofs above are for joins.
* The refinements `ImplementsMap` and `ImplementsStore`.
* `RangesPartition`, `QuietRing`, `NoPanic`, `NoDataLoss` and `StoredInRange` of
  `RustRing` with leaves (`rust_serial`, `rust_handover`): the proofs are for joins.
  In other environments `StoredInRange` rests on the ranges that leaving nodes
  offer, which q15 takes over unseen.
* `NoDuplicate` counts the copies of an entry with a fold over tables, queues and
  streams; what a fold computes could only be proved by induction over data.
* The codec of `Framing`, for the same reason.

## 5. Not modelled

* The C node's chained hash table and `ssns[]`: `CNode` works on the map they
  implement.
* The hash function: any function from keys to bytes will do for the models.
* PDUs of the C node cut in two by TCP or by the receive buffer; full send
  buffers; SIGPIPE; failing allocations and socket calls; standard input, which
  is descriptor 0 and sits in the poll set until a neighbour's descriptor
  replaces it.
* Rings that mix C and Rust nodes, and nodes with equal ports on several hosts.
* Client sessions that keep a node, and the option `--node`.
* Printing of PDUs (`Debug` in `pdu.rs`) and the parsing of command lines.

## 6. Plan

The models are complete but for section 5. What is left are theorems:

1. `DHTRing` implements `DHTMap` while nodes only join and nothing overlaps, step
   by step: on top of `JoinInv` it needs that a request under way excludes a join
   under way, and that a key is in one place.
2. A leave of a C node or of a Rust node with nothing else under way: the
   invariants of the joins would need the states of the leaving node and of its
   two neighbours.
3. `Splittable` from a bound on the number of nodes that join at a time.
