# Verification of the distributed systems course work

The repository holds the homework of a course on distributed systems, each
solved as a Python process for the `dslab-mp` framework, and the material of its
seminars. This directory models the solutions in TLA+, checks the models with
TLC, and proves with TLAPS what matters most about them for every value of the
parameters.

`PROJECT.json` is the machine-readable index: components, runs, the source lines
behind every definition (`map`), the mutants of each property, findings, hazards
and theorems.

## 1. The system and its parts

### The framework (`src/homework/dslab/dslabmp.py`)

A process has four entry points: `on_local_message` (its user), `on_message`
(another process), `on_timer`, and the constructor. A handler runs to its end;
what it asked for through `Context` (`send`, `send_local`, `set_timer`,
`cancel_timer`) takes effect afterwards. Messages are serialised when they are
sent (`json.dumps`), so a later change of the object does not reach the copy in
flight. The simulator delivers messages and timers in any order the delays allow
and, as each test asks, loses, repeats or reorders messages and crashes nodes.
So **one handler is one atomic action**, and all the difficulty is in the order
of handlers.

### Inventory

| Component | State | Operations | Hard behaviour | What makes it correct | Modelled |
|---|---|---|---|---|---|
| At most once, hw 01 (`solution.py` 9-58) | sender: counter; receiver: bound and set of numbers | local message; arrival | late and repeated copies after the numbers have been discarded | no second delivery; given up only when overtaken by a whole run | `AtMostOnce` |
| At least once, hw 01 (65-113) | sender: counter, store, timers | local message; ack; timer; arrival | timers race acks; both links lose, repeat, reorder | nothing forgotten before delivery; everything delivered; retransmission ends | `AtLeastOnce` |
| Exactly once, hw 01 (120-191) | the same, and a window from the receiver's bound; receiver: bound and set | local message; ack; timer; arrival | acks overtake each other; the window could close for ever | single delivery with bounded receiver memory, and progress | `WindowSender`, `ExactlyOnce` |
| Exactly once in order, hw 01 (198-268) | the same; receiver: bound and held messages | the same | a late message releases a run; the ack precedes delivery | a reliable FIFO channel | `WindowSender`, `ExactlyOnceOrdered` |
| Reliable causal broadcast, hw 04 | vector, counter, buffer, broadcasters and deliveries per message | local message; arrival | crash in the middle of a broadcast; arrival in any order; late copies after clean-up | uniform agreement, validity, causal order | `Broadcast` |
| Group membership, hw 06 | `_joined`, members with versions, suspects with versions (negative: left), timers | join, leave, ping, ack, indirect ping, four timers | stale gossip, late answers, rejoin, zombies | what is known of a process does not go back, nobody who is alive is suspected without cause, views converge | `Membership` |
| Sharded key-value store, hw 07 | hash ring, records | get, put, delete, node added and removed, update | ring changes seen at different times while records move | one map for the users; a record is in one place, and at its owner once stable | `Ring`, `KeyStore`, `KvSharding` |
| Replicated key-value store, hw 08 | versioned records, requests, hints | get, put, delete, responses, hints, acks, timers | quorums, read repair, hinted handoff in any order, nodes cut off | quorums that meet see each other; replicas converge to the last write | `KvReplication` |
| Replication v2, hw 09 | - | unfinished stub | - | - | no |
| Messenger, hw 02 | server: a queue per reader, a lock, a pool of threads; client: PostBox with a lock, consumer thread | send, subscribe, deliver, collect | threads that send, subscribe and collect at once; restarts of clients | one order for all readers, nothing lost or shown twice | `Messenger` |
| HTTP file server, hw 03 | a tree of files | GET, POST, PUT, DELETE | files where folders are expected, missing parents, exceptions half-way | the status tells what happened to the files | `FileServer` |
| Image queue, hw 05 | - | stubs | - | - | no |
| Authenticated store, hw 10 | a dictionary, users | request handlers | none | - | no |
| Ping-pong, seminar 01 | the unanswered PING, a timer | ping, pong, timer | late and repeated answers | one PONG per PING | `PingPong` |
| Gossip, seminar 04 | the information, stopped or not, a timer | request, answer, timer | loss, stopping too early | everyone gets the information, once; those that can stop do | `Gossip` |
| Key-value proxy, seminar 08 | the nodes and their data | put and get in four modes | nodes that fail in the middle of a put, restart empty, requests that overlap | a read finds a current value or none | `KvProxy` |
| Replicated state machine, seminar 11 | a map, snapshots | apply, snapshot, persist, restore | a snapshot written while entries are applied, restarts | the map is what the applied log says | `RaftKv` |
| RPC store (02), load balancing (08), tests | - | - | - | - | no |

The processes of one homework interact only by messages; different homeworks do
not interact at all. In homework 01 a sender and a receiver are connected by two
links; in homework 04 all processes run the same code and send to everybody,
themselves included. In homework 07 every node asks the owner of a key, and is
told by the administrator (the tests) when the ring changes. In homework 08 the
node a user asks is the coordinator of the request: it sends it to the replicas,
later to others, and itself may be any of these. In homework 06 the members of a
group ping each other, directly or through others, and every ping and answer
carries a view. The clients of the messenger call one server, which answers
each with a stream; within a client two threads share the PostBox. The proxy
calls its nodes one by one; the servers of seminar 11 share a log kept by a
library.

## 2. Modules

| Module | Models | Composition |
|---|---|---|
| `Link` | one direction of the network between two processes | extended by the delivery modules |
| `OnceChannel` | abstract: each submitted text is handed over at most once, unaltered | implemented by `AtMostOnce`, `ExactlyOnce` |
| `OrderedChannel` | abstract: what was handed over is a prefix of what was submitted | implemented by `ExactlyOnceOrdered` |
| `AtMostOnce`, `AtLeastOnce` | sender, receiver and links | `Link` |
| `WindowSender` | the sender class that the two exactly-once solutions share line by line | `Link` |
| `ExactlyOnce`, `ExactlyOnceOrdered` | `WindowSender` with one of the two receivers | `WindowSender` |
| `Broadcast` | all processes, the transport and crashes | - |
| `Ring` | who owns a key, and which keys a node keeps, on sets of hashes | used by `KeyStore`, `KvSharding` |
| `KeyStore` | the class `KeyStore`: sorted deque, binary search, insertion, removal, split | `Ring` |
| `KeyValue` | abstract: one map; a request takes effect at one moment; only failures lose anything | implemented by `KvSharding` |
| `KvSharding` | the nodes of homework 07, the administrator, crashes | `Ring` |
| `KvReplication` | the nodes of homework 08 for one key, a network that cuts nodes off | - |
| `Membership` | the processes of homework 06, their network and its failures | - |
| `Messenger` | server and clients of homework 02 | - |
| `Gossip`, `PingPong` | the peers of seminar 04 and their simulator; client and server of seminar 01 | - |
| `KvProxy` | proxy, nodes and users of seminar 08 | - |
| `RaftKv` | the state machines of seminar 11 over one log | - |
| `FileServer` | the file tree of homework 03 and its requests | - |
| `X_proofs` | theorems about `X` (`SmallPrograms_proofs`: about programs of `MCSmallPrograms`) | `X`, TLAPS |
| `MCX` | `X` and the definitions used by its configurations | `X` |
| `MCSmallPrograms` | eight programs side by side: a variable says which of them a behaviour is of | `KeyStore`, and instances of `AtMostOnce`, `Messenger`, `Gossip`, `PingPong`, `KvProxy`, `RaftKv`, `FileServer` |

### How state and actions correspond to the code

Variables keep the source's names without the underscore: `order` is `_order`,
`lowerBound` is `_order_lower_bound`, `orderStore` is `_order_store`, and so on;
the comment beside each variable says which attribute it is. A Python dictionary
is a function on its keys (`messageStore`), a set is a set. `WindowSender` calls
the sender's copy of the bound `sendBound`, and `ExactlyOnceOrdered` calls the
receiver's `_message_store` `heldBack`, because both sides use one name for two
things. `_state` of the broadcast process is `state[p]`,
`_messages_broadcasters` is `broadcasters[p]`, and `_messages_deliver` is the set
of the members of `log[p]`.

Variables marked *history* are not in the code: `sent` and `delivered` record
what the two users saw, `casts` and `past` what a process has broadcast and what
it knew. No guard of an action reads them, with one exception that is a bound of
the model (`OnLocalMessage` of `Broadcast` counts the messages sent so far).

Actions have the name of the handler (`OnLocalMessage`, `OnMessage`, `OnTimer`,
or the branch of the handler: `OnAck`, `OnData`). A loop in a handler is part of
its action. `FirstGap(n, ..)` says where a `while` loop stops instead of
iterating; `UpdateDeliver` of `Broadcast` folds the passes over the buffer.

Helpers of one line, such as `IsNew`, `InWindow`, `Forgotten` or `TimersAfter`,
name one decision of the code. Just before some of them stand variants named
`Helper_Variant` (for example `InWindow_OneTooFar`). They are not part of any
specification: each is a plausible mistake at that place, substituted for the
helper to see that a property notices it (`mutants` in `PROJECT.json`).

`KvSharding` splits `on_message` into `Serve` (a request), `OnResponse` and
`OnUpdate`, and `on_local_message` into `OnRequest`, `OnNodeAdded` and
`OnNodeRemoved`; `notices[n]` is the queue of the administrator's messages to
`n`, and `nodes[n]` is the ring as `n` knows it. In `KvReplication` `_events` of
all coordinators is the sequence `events`, one entry per request, and the UPDATE
event of a node is `hints[n]`. Where `on_message` raises `KeyError` the action
takes its branch `Raise`: it consumes the message, changes nothing else and
notes the line in `raised`. The history
`floor` is the latest pair that a request must not miss when it begins.

`Membership` has one action per branch of `on_message` and `on_timer`. A view is
the pair of dictionaries `_active` and `_suspect`, as functions with 0 for "not
in it"; messages carry whole views, as in the code. `_unexpected_init` is
`Started`, the two loops of `_merge` are `MergeSuspect` and `MergeActive`, done
for each id by itself, since no id of a loop looks at another. `Messenger` splits `SendMessage`
at the lock and at every round of its loop, and `collect_messages` between the
copy and the new list, because other threads run there. `KvProxy` has one action
per call to a node; a request is a record with the number of nodes visited so
far. `Gossip` models the four files at once: they differ in who gossips, with
what, and in what happens to the timer, and `impl` decides that. In `RaftKv` the
library is external: what the state machine sees of it are the actions `Apply`,
`Snapshot`, `Persist`, `Restart` and `Install`. `FileServer` handles a request in
one action, since the program serves one connection at a time; `PutRest` is the
second half of a PUT that waits in the middle for more bytes, and `waiting` names
its file. Nothing else happens meanwhile, as in the code.

### Abstractions

* A text is a model value; the serialised form is not modelled. In `Broadcast`
  the text is left out: a message is its sender and counter.
* Delays are not modelled. A timer may fire at any time after it was set, and
  messages may take any time, so every order the simulator can produce is there.
* A link is the **set** of messages in flight. With duplication one member
  stands for one or more copies: an arrival may leave the message there. Under
  this reading a retransmission of what is already in flight is a stutter. All
  the runs of retransmitting senders have duplication on. Without it the set is
  exact for `AtMostOnce`, whose sender sends everything once (section 4).
* In `Broadcast` the transport neither loses nor repeats, so `net` is a bag and
  every copy is accounted for. A crash may lose any part of what the crashed
  process had sent. That loss is an envelope which never arrives and needs no
  action of its own: fairness covers only envelopes of processes that are up.
  `Crash` removes what is addressed to the crashed process, since it would have
  no effect.

* In the key-value stores a name is the number its hash gives it (`KvSharding`;
  `KeyStore` keeps names and hashes apart). Hashes that collide are examined in
  `KeyStore`.
* `KvSharding` lets users ask only while no records move, because the readme of
  homework 07 (line 42) excludes the other case, and lets a node crash only
  then. The network is reliable and reorders (line 44).
* `KvReplication` has one key, with the nodes 0, 1 and 2 as its replicas. Keys
  meet in the code only in the hint, where those with the same replicas travel
  together. A value is a number, 0 the empty string; `-1` is the time minus
  infinity. The clocks of the coordinators agree (`Context.time` is the time of
  the simulator), so requests may have the same time only while they overlap.
* The network of `KvReplication` loses what is sent from or to a node that is cut
  off, as `disconnect_node` of the tests does. The tests' delays are a small
  fraction of `ROUND_TRIP`, hence a timer fires when nothing is under way;
  `MaxEarly` timers may fire before that. Messages under way are a set: two equal
  ones are one.

* `Membership`: the tests' delays add up to less than `ROUND_TRIP`, so a timer
  fires when nothing of its process's own round, and no joining or leaving, is
  under way. When it fires all the same, this is a disturbance ("early"), as are
  a lost message, a crash, a cut, a `LEAVE` and a user who does not wait ("hasty").
  `Disturbances` says which there are, `disturbed` lists those that happened, and
  `MaxDisturbances` bounds their number. The first process founds the group, every
  other one joins through any that has joined before. A user is hasty who joins
  through a process that itself waits to be let in (the test RANDOM SEED does), who
  brings a process back before its `LEAVE` has arrived, or starts a crashed one again
  while another waits to be let in by it. A user leaves only when the process has been
  let in and nobody waits to be let in by it. Pings and views are not abstracted;
  two equal messages under way are one. Of the `FANOUT` draws of relays only the set
  is kept.
* `Messenger`: a message is its author and time. `KvProxy`: one key; a byte is
  the set of its bits, so that exclusive or is the symmetric difference. A node
  out of reach ends the request, since the code does not catch the exception
  (except in `RAID3Proxy.get`). `FileServer`: a path is a sequence of names, a
  content is a model value; headers of answers are left out, and so are connections
  that break with an error instead of being closed. `PingPong`: values
  are numbers, copies in flight are one.
* `Gossip`: timers have period 1 and messages take 0.1 (`main.rs`, line 126), so
  that a round is over before the next.

## 3. Model checking

`MaxMessages` bounds the number of texts users submit, in the guard of
`OnLocalMessage`; the code has no such bound. `Quotas` gives the numbers of
messages each process of `Broadcast` sends. The other bounds are `MaxRequests`,
`MaxPending` (requests not answered yet), `MaxChanges`, `MaxCrashes`, `MaxCuts`,
`MaxEarly`, `MaxRounds`, `MaxDisturbances`, `MaxRestarts`, `MaxLosses`,
`MaxFaults`, `MaxPings`, `MaxDropped`, `MaxLog` and `MaxRestores`; each stands in
the guard of the action it limits, and its declaration says what it is.
`CHECK_DEADLOCK FALSE` is set in every run, because these systems come to rest:
when the users have nothing more to say and all is delivered (or lost, at most
once), nothing is left to do. That it is *not* at rest too early is what the
liveness runs and `WindowNeverStuck` say.

| Run | Instance | What it shows |
|---|---|---|
| `alo` | 2 texts, 3 messages, all faults, fair | a text is forgotten only after its delivery; everything is delivered |
| `eo` | 3 messages, `Limit` 1, all faults, fair | implements `OnceChannel`; receiver memory is bounded by `Limit`; the window is never stuck; the exchange ends with every message forgotten, that is, delivered |
| `eoo` | 2 texts, 3 messages, `Limit` 1, all faults, fair | implements the fair `OrderedChannel`; a text is forgotten only when it has been received; at most `Limit` messages are held, all behind a gap |
| `bcast_agreement` | 3 processes, 1 message, one crash, fair | uniform agreement and validity; relaying is bounded |
| `bcast_order` | 2 processes: one message each, or three of either | causal order; the buffer waits only for what is missing, one delivery drains it, several passes included |
| `membership` | 3 processes, one of which may crash, leave or be cut off, for ever if it likes; one disturbance, fair | what is known of a process does not go back; nobody alive is suspected while nothing is lost or late and nobody leaves; the views converge to those who can reach each other |
| `membership_split` | 3 processes that join, one of them hastily, and one lost message | **violated**: the group stays split though all are up and connected |
| `sharding` | nodes 2 and 6, then perhaps 0 and 4; 3 keys, 2 values; 2 requests, 2 changes, 1 crash | implements `KeyValue`; records are in one place, and at their owner once settled; the nodes agree between changes |
| `repl_quorum` | 4 nodes, clients at a replica and elsewhere, 2 requests of any type with quorum 2 | an answer misses no write or deletion whose quorum meets its own; an answered write is on as many nodes as it asked for; the last write is on every replica at rest |
| `repl_failures` | 4 nodes, 1 request, 1 cut, 1 early timer, fair | no handler raises; the request is answered, the replicas converge |
| `repl_hint_lost` | 4 nodes, 2 writes one after the other, 1 cut | **violated**: a replica keeps the old value for good |
| `small_programs` | see below | the programs that are small |

`small_programs` checks eight programs that do not interact in one state space,
the sum of theirs and not the product: all but one stay in their initial states.

| Program | Instance | What it shows |
|---|---|---|
| ring (`KeyStore`) | eight nodes, all subsets, every key position | the search finds the owner; a split and a removal move exactly what changes its owner |
| `AtMostOnce` | 2 texts, 5 messages, `Limit` 2, all faults | `ImplementsOnce`; `GivesUpOnlyAfterRun`: a number is given up only after `Limit + 1` consecutive later deliveries |
| `Messenger` | 2 clients, 3 threads, 2 messages, 1 restart | `StreamsAgree`, `NothingLost` |
| `Gossip` | 3 peers, fanout 1 and 2, 1 loss, fair, all four implementations | `OutboxAsRead`, `SpreadsAndEnds` |
| `KvProxy` | 3 nodes, 2 users, 2 values of two and three bytes, 2 faults, all four modes | `ReadsAreCurrent`, `QuorumReadsAdvance` |
| `PingPong` | 3 PINGs, 2 losses, both implementations, fair | `OnePongForEachPing` |
| `RaftKv` | 2 servers, 3 queries of 4 kinds, 2 restarts or installations | `MapFollowsLog` |
| `FileServer` | a tree of depth 2 | `RepliesAreTrue` |

### Why the bounds are enough

* `AtMostOnce`: a run of `Limit` predecessors, the message that ends it, one that
  was overtaken, and one whose number lies beyond. The code has `Limit` 3, which
  only lengthens the run.
* `eo`, `eoo`: with `Limit` 1 the third message starts outside the window
  (`0 .. 1`), so it is not sent until an acknowledgement raises the bound; that
  is the case in which a window protocol can get stuck. Two texts let two
  different numbers carry the same text and two numbers different ones; `eo` has one text,
  since three messages with two texts and fairness take too long, and the theorem
  on `ImplementsOnce` covers the others. The
  theorems of section 5 cover every `Limit` and every number of messages.
* `bcast_agreement`: three processes are the fewest that keep a correct majority
  through a crash, and one message meets every point at which that crash may
  come. `bcast_order` needs two senders for a reply, and three messages of one,
  so that the last one to arrive can release two others. Two processes are enough
  there, since half of them is one and every arrival is able to deliver. What
  the bounds leave out is named in section 6.
* `membership`: three processes give a round its asker, its target and a relay;
  one disturbance at any moment of joining, of a round, or of a merge is met by
  every old view still under way. Any process may found the group, be joined
  through, or be the last to join. One round at a time (`MaxRounds` 1) keeps the
  state space finite, since versions rise only with joins and suspicions. The
  theorems on `VersionsGrow` and `NoFalseSuspicion` cover more of everything.
* ring: with eight nodes the search halves three times; hashes lie at both ends
  of the range of keys, which includes every hash of a node and gaps between.
* `KvProxy`: with three nodes RAID 3 has two blocks and a parity, a value of two
  bytes has no padding and one of three has; two users overlap, and of two faults
  the first can leave a put half done and the second take the newer value away.
* The others: two of each actor and two events meet in every order; what grows
  (log, streams, rounds) is covered by the theorems.
* `sharding`: 0, 2, 4 and 6 with the keys 1, 5 and 7 let a node be added
  before the first, between two, and removed at the end of the ring; two changes
  move a record twice, or crash and remove a node beside one that was added. Two
  requests are a write and whatever it may interfere with.
* `repl_*`: three replicas and one node that is none, so that one hint exists;
  two requests are the least that can conflict, one with failures meets every
  point of the request at which a node may be cut off. With quorum 2 every two
  quorums meet.

### Fairness

* A timer that is set fires: weak fairness of `OnTimer(k)` for each number. The
  event queue of the simulator guarantees it.
* A message that is sent again and again arrives in the end: strong fairness of
  the arrival of each number and of its acknowledgement. The readme of homework
  01 promises exactly this (line 14). Loss is not restrained otherwise.
* In `Broadcast` an envelope of a process that is up arrives: weak fairness per
  pair of processes. Envelopes of a crashed process have none, and neither do
  crashes.
* In `KvReplication` what is under way arrives, a node that was cut off is
  connected in the end (readme of homework 08, line 11: failures are temporary),
  and a timer that can fire again and again does: strong fairness, because the
  messages of others take that possibility away for a while.
* `Membership`: messages arrive and timers fire. Nobody need recover or be
  connected again, as in the tests PROCESS CRASH and PROCESS OFFLINE, so that it is
  the pings that must find out; nor need anyone join. The draw of the process to ping
  gives every choice again and again, hence strong fairness per process and target of
  `OnPingTimer`.
* `Gossip`: rounds go on, and the random samples and draws come up again and
  again (strong fairness of a sample that spreads the information and of a draw
  that lets a process stop). `PingPong`: timers fire, messages that are not lost
  arrive, the user goes on asking.
* Otherwise users are never obliged to send.

## 4. Findings

### Checked: a hint is lost

`LatestWinsAtRest` is violated by `repl_hint_lost`. A hint that all replicas
have acknowledged stays open until its timer fires. A write that arrives in
between is stored in it and answered, and dropped with it, since nobody is left
in `update` (`08-kv-replication/solution.py`, lines 118-120). If that write
counts the node of the hint among its `N` answers in place of a replica that is
cut off, the replica keeps the old value for good, although every node is
connected again. The readme of homework 08 (line 13) wants every change on every
live replica in the end. With a single write no hint is lost (`repl_failures`).

### Checked: a group stays split

`Converges` of `Membership` is violated by `membership_split`. `a` founds the group,
`b` asks `a` to let it in, and `c` joins through `b`, which still waits. The `JOIN` of
`b` is lost; that of `c` arrives and makes `b` a group of its own with `c`
(`_unexpected_init`, `06-membership/solution.py`, line 87). When the timer of `b` fires, it
knows two members and gives up asking (lines 181-182). `a` stays alone, and `b` and
`c` never hear of it. The readme of homework 06 (line 17) has all live processes see
each other once the network works again, and line 15 wants the same members everywhere. Without
the loss the answer of `a` replaces the view of `b`, and the pings of `c` bring the
two together: `membership` shows it, with any of the three as the one in the middle.

### Further disagreements, each shown by one change of a configuration

A configuration is changed as the second column says, and checks the property of
the third one. The first line is of `AtMostOnce` alone, with 2 texts and
`MaxMessages` 5.

| In | Change | Violated | What happens, and what the repository says |
|---|---|---|---|
| `AtMostOnce` | `Limit` 3, `Lossy` and `Duplicating` `FALSE`, `FairSpec` | `ReliableWithoutLoss` | a message overtaken by four others is rejected; the readme of homework 01 (line 16) and its DELAYED test ("without drops should be reliable", `tests/src/main.rs:90`) ask for all of them. `solution.md` calls it the price of bounded memory; `GivesUpOnlyAfterRunHolds` says how far it goes |
| `BroadcastAgreement.cfg` | none | `BroadcastOnce` | the origin broadcasts again when it hears a relay before its own copy, and anyone when a late copy comes after delivery; step 2 of `solution.md` says once. `RelayingBounded` says how much: three broadcasts by the origin, two by anyone else |
| `SmallPrograms.cfg` | `Hash <- CollidingHash` | `SearchFindsOwner` | `remove_key` looks a node up by its hash, compares the one it found and gives up in silence when another has the same hash (line 45); hashes are taken modulo 10000007 |
| `Membership.cfg` | `Disturbances` `{"leave"}`, `MaxDisturbances` 2 | `Converges` | a relay that has not heard of the process it pings for refuses its `ACK` with a `LEAVE` (lines 136-141) and so is gone for it; when the one that asked leaves, the two that remain never meet, since those who left are not pinged (line 205). The readme of homework 06 (line 15) wants the same members everywhere after a departure |
| `KvSharding.cfg` | `Overlapping` `TRUE`, `MaxCrashes` 0 | `PlacedWhenSettled` | a node added second while the first waits for its records: the first divides an empty store and keeps what should have gone to the second. The readme of homework 07 does not exclude overlapping changes; the tests never make them |
| `KvReplicationFailures.cfg` | `Types` `{"DELETE"}`, `Spec`, `MaxEarly` 0 | `NoKeyError` | a deletion repeated to a node that has done it is answered without `value`, and the coordinator raises (line 53) |
| `KvReplicationQuorum.cfg` | 3 nodes, client 0, `FairSpec` | `EventuallyAnswered` | replicas with different values are repaired against each other with the value of the other one, without end (line 64); the user is not answered (readme of homework 08, line 7) |
| `KvReplicationHintLost.cfg` | 3 nodes, client 0, `Types` `{"PUT", "DELETE"}`, quorum 2, 3 requests, no cut | `DeleteReturnsLatest` | an answer to a deletion has the time of the request instead of that of the value, so that the largest value is returned and not the latest (lines 98-103); the readme (line 28) wants what a read would return |

`solution.md` of homework 08 (line 16) describes an execution in which a write
with `W = 3` is answered in a partition because one node is counted twice. The
code does not do that: `resp` is keyed by the node, and `StoredByQuorum` holds.

### Seen while modelling

* **Membership.** (a) An `ACK` to an indirect ping arrives from the relay, so
  lines 145-146 cancel the relay's timers; the target is suspected although it
  answered. `solution.md` of homework 06 describes the suspicion of a process
  from which *no* answer came through the others. (b) Timers outlive a `LEAVE`:
  a process that leaves and rejoins within a round suspects, by its old timers, a
  live member. `NoFalseSuspicion` is therefore stated for behaviours in which
  nothing is lost or late and nobody leaves; adding `"loss"`, `"early"` or
  `"leave"` to it shows each case. (c) A relay that gets an `ACK` from a process
  it does not know answers with `LEAVE` (136-141) and is itself marked as gone,
  until its next version. (d) A `JOINREQ` that arrives after the process has left
  fills `_active` (111) while `_joined` is false: such a process pings the
  others, refuses their answers, and is taken for gone and alive by turns, with
  versions that rise without end. The model keeps the user from leaving before
  he has been let in. (e) A repeated `JOINREQ` may replace a newer view by an
  older one; `VersionsGrow` excepts that step. (f) A `JOIN` that reaches a process which
  has left, or has been started again and has not joined, makes it the founder of a
  group of its own (line 87). After a `LEAVE` the model excludes it
  (`Waiting(p) = {}`); a start in that moment counts as hasty. (g) A process that
  comes back before its `LEAVE` has arrived is taken for gone by it, until its next
  version.
* **Messenger.** Each reader holds a thread of the server's pool. The thread of a
  reader that is gone is freed only by the next message (`ReaderGone`), and when
  all threads are held, `SendMessage` waits for one: no message comes that could
  free any.
* **Key-value proxy.** With four nodes and a value of four bytes `raid3_split`
  gives two blocks, so that a put visits three nodes and a get joins the parity
  to the value (lines 142-154, 202); the run has `N` 3. A put that fails half-way
  leaves blocks of two values that are joined without notice, which is why
  `ReadsAreCurrent` asks for a clean put in this mode. The answer 300 of the
  quorum proxy is not reached by unreachable nodes: `ConnectionError` is not
  caught there.
* **Ping-pong.** The user may get the PONG of an older PING (`impl_retry.py`, line
  19, does not look at the value). The readme of seminar 01 (line 106) lets the
  reader find out why `impl_retry.py` fails the test of unique results;
  `OnePongForEachPing` counts the answers only.
* **File server.** A PUT to a missing path reads the body, is answered 404 and then
  goes on (line 105 is an `if`). Unless its folder is missing, which raises, it creates the
  file and reads `Content-Length` bytes *once more* (line 110; `get_body_chunks`
  keeps no count of what was read before). The single-threaded server waits for them
  as long as the client neither sends more nor closes the connection; what comes, be it
  the next request, becomes the content of the file, which stays empty if
  nothing does; and 200 is answered too. The README of homework 03 leaves open whether
  such a PUT creates the file. A body cut short is stored and answered 200.

## 5. Proofs

A theorem is of the form `Spec => []P` or `Spec => P`, where the specification
may be the one with fairness, of which nothing but the safety part is used. It
holds for all values of the constants that the assumptions in the modules allow:
the bounds (`MaxMessages`, `MaxRequests`, `MaxCuts` ..) are arbitrary natural
numbers, so they are no restriction here, sets of processes are finite, and the
faults a model may switch off are Boolean. Where a theorem needs more, it says so in
its `ASSUME`; the third column repeats it.

| Module | Proved | Where |
|---|---|---|
| `SmallPrograms_proofs` | of `AtMostOnce`: types, `ImplementsOnce`, `GivesUpOnlyAfterRun`, `BoundNeverFalls`; of `Messenger`: `StreamsAgree`, `NothingLost`; of `Gossip`: `OutboxAsRead`, `EndsInformed`; of `PingPong`: `PingNotForgotten`; of `RaftKv`: `MapFollowsLog`; of `FileServer`: `RepliesAreTrue`, `FilesAreLeaves` | always |
| `AtLeastOnce_proofs` | types; `ForgottenOnlyIfDelivered`; `PendingHasTimer` | always |
| `ExactlyOnce_proofs` | types; `ImplementsOnce`; `ForgottenOnlyIfDelivered`; `PendingHasTimer`; `ReceiverMemoryBounded`; `WindowNeverStuck` | always |
| `ExactlyOnceOrdered_proofs` | types; `ImplementsOrdered`; `ForgottenOnlyIfReceived`; `HeldBackOnlyBehindGap`; `WindowNeverStuck` | always |
| `Broadcast_proofs` | the invariant; `CausalOrder`; `BufferWaits`; `RelayingBounded`; `UniformAgreementAtRest`; `ValidityAtRest` | always: any number of processes and crashes |
| `Membership_proofs` | `InvHolds` (types, every member knows itself, nobody is alive and suspected at once); `VersionsGrow`; `NoFalseSuspicion` | always |
| `KvSharding_proofs` | the invariant; `PlacedWhenSettled`; `SingleCopy`; `ImplementsMap` | `~Overlapping`: a change is complete before the next begins |
| `SmallPrograms_proofs` | of `KeyStore`: `SearchFindsOwner`; `SplitFollowsOwner`; `HeirOwnsAll` | `Distinct`: no two names have the same hash |
| | of `KvProxy`: `QuorumReadsAdvance`; `ReadsAreCurrent` but for RAID 3 | always (puts are told apart by their values) |
| | of `KvProxy`: `ReadsAreCurrent` | `Recoverable`: RAID 3 accepts only values that it cuts into `N - 1` blocks and that do not end in a zero |
| `KvReplication_proofs` | types; `DroppedOnlyAnswered`; `AnsweredOnce` | always |
| | `NoKeyError` | nothing is deleted |
| | `LatestWinsAtRest` | nobody is cut off (`MaxCuts = 0`) |
| | `QuorumsMeet`; `StoredByQuorum` | nobody is cut off, no timer is early (`MaxEarly = 0`) |

The conditions are what the code needs. `~Overlapping`: see `PlacedWhenSettled`
in section 4, and there `CollidingHash` for `Distinct`. TLC finds, with 4 nodes, clients 0 and 3,
quorum 2 and two requests, that one cut violates `QuorumsMeet` (a hint counted
as an answer, and readers ask the replicas first, who do not have it yet) and
`StoredByQuorum` (the hint that counted is lost, as in section 4, before the write is
answered), and that one early timer, which turns to the other nodes just as well,
violates `QuorumsMeet`. That one cut violates `LatestWinsAtRest` is the run
`repl_hint_lost`, and that a deletion violates `NoKeyError` is in
section 4.

`Recoverable` holds of the values in the run. It excludes two things that
`raid3_split` and `raid3_join` really do: with four nodes a value of four bytes is
cut into two blocks (section 4), and zeros at the end of a value are taken for
padding (`rstrip`, line 167), so that such a value comes back shorter. That there are
three nodes at least, the constructor demands (line 188) and so does `Init`.

### The inductive invariants

None of the properties is inductive by itself. The invariant of each delivery module is a
conjunction of named parts, each about one relation:

* **Genuine**: whatever is in flight, in the sender's store or at the receiver
  carries the text submitted under its number; whatever is acknowledged was
  received.
* **Remembered** (`InOrder` in the ordered solution): what the receiver's bound
  and set say about a number agrees with what was delivered. In `ExactlyOnce` a
  number was delivered exactly when it is below the bound or in the set, which
  is why the bound alone may reject late copies. In `AtMostOnce` it is one
  implication only, and the run below the bound is remembered in its stead.
  In `ExactlyOnceOrdered` `delivered` is the prefix of `sent` of length
  `lowerBound`.
* **SenderBehind**: the sender's bound, and the bound in each acknowledgement in
  flight, are at most the receiver's. From this follows that everything sent
  lies within `Limit` of the receiver's bound, hence `ReceiverMemoryBounded` and
  `HeldBackOnlyBehindGap`.
* **WindowOpen**: the reason why the window never sticks. For each number `n`
  that the receiver's bound has reached, either the sender's bound has reached it
  too, or some message below `n` is still stored all of whose acknowledgements in
  flight carry at least `n`. (It is the message whose arrival moved the bound
  past `n`: no acknowledgement of it was sent before.) Forgetting that message
  therefore takes an acknowledgement that raises the sender's bound to `n` in the
  same step. `WindowNeverStuck` follows: with the sender's bound behind, take
  `n = sendBound + 1`; with the bounds equal, the message at the bound has not
  been received, so it is still stored.

`ImplementsOnce` and `ImplementsOrdered` are refinements with the identity
mapping on `sent` and `delivered`: the proofs show that each step submits, hands
over, or leaves both alone. They use the invariant only where a message is
accepted (it is new and genuine, so the abstract guard holds).

In `Membership` the invariant says that each view has a process as alive or as
suspected but not both, that whoever has a view is in it himself, that no
message is to its own sender, and that nobody waits for his own answer. It is what makes every update of a view *grow*
(`Grows`): the lemmas `WelcomeIs`, `LeftIs`, `SuspectedIs` and `MergeIs` show it
for the four kinds of updates, the last one id by id through the two loops of
`_merge`, and one lemma per action puts the step together.

`NoFalseSuspicion` needs more (`CalmInv`). As long as there was no disturbance but
crashes and hasty users: whoever has a timer is a member (`Reached`); views, and the views in
messages, have only processes that joined or may crash, and hold none of those that
never crash for suspected (`Trusted`); and who awaits the answer of such a process
knows it, no message that could make him forget it is on its way, and the ping or
the answer to it is (`RoundsAnswered`). So when the timer of the direct ping fires,
with all messages of the round arrived, the answer has been there, and no indirect
ping is ever due for a process that does not crash. What makes it hard is that a
process that joins or is let in gets a fresh view in the middle of a round, of his
own or of somebody else's.

In `Messenger`, `StreamsAgree` is inductive together with the typing of the
streams and the fact that whoever holds the lock is about to put the last
message of `order`; `NothingLost` needs in addition that a copy under way is
what the box holds, and that the streams clients read are different ones. In
`RaftKv` every snapshot, pending or stable, must carry the value that the log
leaves at its index. In `Gossip` what a process has handed over follows
from whether it is informed and has stopped, and those that have stopped are
informed. In `FileServer` the folders of every entry exist and nothing lies below a
file (`FilesAreLeaves`): a POST makes the folders that are missing, a PUT finds them
there or does nothing, a DELETE takes away all that lies below. The root may be
deleted like any path; then the tree is empty. What a PUT waits for is the file
it has made (`Waits`), so that what it reads late goes nowhere else. `RepliesAreTrue`
follows outcome by outcome (`HandleOutcome`): what each status is sent with, and what
the tree is then.

In `KeyStore` the deque `Holds` the members and nothing else, in the strictly
ascending order of their hashes; `InsertHolds` and `RemoveHolds` keep it so, and
`SortedHolds` says that the constructor begins so, for which the rank of a name
must be shown to meet each place once. The search by halving is a recursive
function over the ranges `l .. r` of the deque. `SearchIs` writes down what it
returns, also for the ranges it never comes to; were there a range for which it
returns something else, there would be a shortest one, and one step of the
search contradicts it. Whom the ring has as owner (`IsOwner`, unique) is compared
before and after the change in `OwnerAfterAdd` and `OwnerAfterRemove`.

In `Broadcast` a message in flight or in a buffer is one its sender broadcast,
with the vector it had (`InFlight`, `Buffers`), the vector of a process says how
many of each sender's messages its log holds, in the senders' order (`Logs`), and
what is in a buffer is not deliverable (`Waits`). `CausalOrder` follows from
`Logs`: the vector in a message counts what its sender had delivered. The hard
part is `update_deliver`, a loop over the buffer until nothing changes, written
as folds: `DeliverSteps` and `UpdateSteps` unfold them, `PassIs` shows that a pass
keeps the log causal and either delivers something or leaves nothing to deliver,
and since each pass but the last shortens the buffer, as many passes as it is
long are enough (`UpdateIs`). `Counted` bounds the broadcasts of a process by
three facts that can each become true once: it is the origin, it has heard
itself, it has delivered.

The agreement of `Broadcast` is a liveness property; what is proved is what is left
of it when nothing is on its way any more except from crashed processes (`AtRest`).
Its invariant (`AgreeInv`) says that who is counted as a broadcaster has broadcast
(`Truthful`); that each broadcast of a process that is up has been counted at every
other one that is, or is not needed any more, or is on its way (`Reliable`); that
what is delivered was broadcast by half of the processes and by the one that
delivers it (`Backed`); that what enough have broadcast is in the buffer until it
is delivered (`Kept`); and that fewer than half are down (`Minority`). At rest,
go along the log of any process: each message has been broadcast by half of
all, so by one that is up, hence by all that are; whoever is up has counted them all,
has delivered what precedes the message, so it does not wait in the buffer.
Induction along the log, and for `ValidityAtRest` along the counter, does the rest,
the latter by `OwnPast`: what a process delivered before it sent a message stays
delivered.

In `KvSharding` the state of a change is in what the nodes still have to be told.
`Views` says that whoever has no notice left knows the administrator's list and
the others know the one before; `Placed` that until the *giver* has sent its
UPDATE all records are at their owners in the old ring, and afterwards at their
owners in the new one or on the way there, in one message; `AllUp` that nodes fail
only between changes; `Asking` and `Single` that what can still be served is asked
of the owner, and that each request is under way at most once. The facts about the ring behind it are the
same as in `KeyStore`: only the arc of one node changes its owner. In the refinement of `KeyValue` a record under way
counts as stored, so that everything a rebalancing does is a stutter.

In `KvReplication` there is an invariant per hypothesis. `Sound` is typing.
*Careful* adds, as long as no timer was early, that each answer belongs to an
open request and that of a hint at most one message per replica is under way.
*Lasting*, for networks that are not cut: whatever is stored, sent, recorded or
hinted is a pair that a user wrote (`Faithful`), and for each write and replica the
first request is still under way or the replica has the pair, or a later one
(`Reaching`); at rest only the second is left. *Inv* is about what a coordinator
has been *told* by answers, counted or under way: a replica still has what it
told (`Held`); requests leave the replicas only for deletions that all replicas have
done (`Near`, `HandedOn`); an open request awaits each replica or was told by it
(`Waiting`); enough replicas for any quorum to meet have what the request must
not miss, also in what they told (`Met`); and answered writes are held by a quorum
(`Kept`). The step that ties these together is `CountInv`: when the last answer
is counted, one of the replicas of `Met` is among those that answered.

In `KvProxy`, where nodes keep whole values, a node holds nothing or the value of a
*current* put, one that no acknowledged put has replaced, and a get has seen only
values that it may return; the nodes that a put has visited hold nothing that it will
replace when it is acknowledged (`CopiesInv`). `QuorumReadsAdvance` needs to know what a get leaves behind: most
nodes hold, and each get under way has seen at most of them, nothing older than what
was returned before it began (`Advancing`); two majorities meet (`MostMeet`), and the
put that writes meanwhile is the latest. For RAID 3, once a put that overlapped none
is acknowledged, each node has its part of that put or nothing, and so has each get
seen (`RaidInv`). The rest is arithmetic on bytes: blocks joined are the bytes
followed by zeros (`FlattenSeq` of the cut, by the shortest prefix that is not),
and the sum of all blocks but one is that block, for the bits that an odd number of
the others have are its own (`LostIs`); both come together in `Decodes`.

Most of these properties are checked by a run as well, so that a mistake in the
code would show there. `BoundNeverFalls`, and those parts of `ExactlyOnce` and
`ExactlyOnceOrdered` that a run checks for a sibling module with the same sender
(`PendingHasTimer`, `ForgottenOnlyIfDelivered`, `WindowNeverStuck`), are left to
the proof.

Lemmas by induction use that the subsets of a finite set are well ordered by
inclusion (`FS_StrictSubsetOrderingWellFounded` with `WFMin`): the library's
induction theorems take an operator, which the provers cannot instantiate. So
are proved that a finite set of numbers or of pairs has a greatest element, and
what the folds of `Broadcast` return.

Left to TLC: what needs fairness and so `ENABLED` (`EventuallyDelivered`, `Quiesces`,
`ImplementsFairChannel`, `UniformAgreement`, `Validity`, `Converges`,
`EventuallyAnswered`, `SpreadsAndEnds`, `OnePongForEachPing`). Of some of them the
safety half is proved. The theorems at rest say of `UniformAgreement`, `Validity` and
(where nobody is cut off) the `Converges` of `KvReplication` that the program never
comes to rest in a state that breaks them, and `EndsInformed` says so of `SpreadsAndEnds`. `DroppedOnlyAnswered`
and `PingNotForgotten` say that whatever is still to be answered has a timer, or is under way
where nothing is lost. That it does come to rest, or does answer, is left.

## 6. What is not covered

* `Broadcast` with three processes and two messages, and with several senders
  and three messages, exceeds ten million states; those cases are not checked.
* Messages of a type the handlers do not know, which they ignore or answer with
  an exception, are never sent here.
* `KvSharding`: a crash while records move, and requests during a rebalancing,
  which the readme excludes. Even distribution of the keys is statistics.
* `KvReplication`: several keys in one hint; two failing nodes, and failures together
  with two clients (too many states); timers that fire early more than once. A request
  that four nodes have answered, which takes an early timer, is repeated for
  ever because of `== N` (line 109); it does no harm to the data.
* `Membership`: `Converges` with more than one disturbance (but for
  `membership_split`), more than three processes and rounds side by side (too many
  states); a user who leaves while his `JOIN` is under way, or while somebody
  waits for him; networks in which two processes cannot reach each other but a
  third reaches both, or messages pass in one direction only (readme, lines 9 and 17),
  and partitions into groups of several.
* `Messenger`: that calls are served in the end (see section 4). `KvProxy`: four
  nodes and more; an answer of a node that is not 200 or 404. `RaftKv`: the
  library, and with it what the answer to a client that timed out means.
* `get_state` and `set_state`, used by the tests' own model checker, are plain
  copies.
* The components marked as not modelled in the inventory: solutions that are
  stubs (homework 05 and 09), the authenticated store (a sequential dictionary
  behind a library's tokens), the RPC store (a map behind a generated service),
  load balancing, whose behaviour is statistical, and the tests, which were read
  for what the network and crashes may do.

## 7. What could follow

1. What `NoKeyError` is when timers fire early: late answers to dropped requests do
   raise then (lines 49 and 52), and a precise statement would say which.
2. `Converges` of `Membership` at rest, as for `Broadcast`: an invariant on which
   versions may still be under way when a round ends.
