# A verification project for fyp-dht

The repository is a Chord-like distributed hash table in C on libevent: a library
(`src/src/`) and a small chat program on top of it (`src/example/textsend.c`).
This directory holds TLA+ models of its core, the TLC configurations that check
them on small instances, and TLAPS proofs of what holds for every instance.

## 1. The system

A **node** has a 32-bit identifier on a circle, a list of up to `NUM_OF_SUCCS = 8`
successors, a predecessor and, unless built with `make nofinger`, a finger table.
Everything in a node runs in callbacks of one libevent loop. Nodes talk over TCP,
**one connection per request**: connect, send one request, read one answer, close.
So requests and answers of the same two nodes overtake one another freely.

| component | code | state | operations |
|---|---|---|---|
| identifier arithmetic | node.c 92-112, 574, 668 | none | `node_id_in_range`, `id + 1` |
| ring maintenance | node.c 207-370, 552-844 | `successor[]`, `predecessor`, `has_pred`, the exchanges in flight | create, join, stabilise, notify, list walk, liveness checks |
| lookup | node.c 430-550, 946-982 | the exchanges in flight | answer, or relay to a nearer node and pass the answer back |
| finger table | node.c 539-550, 680-721 | `finger_table[]` | `node_fix_fingers`, `finger_update` |
| exchanges | node.c 377-427, 593-615, 767-803, 904-1033, 1074-1206 | what a connection is for, the slot an answer is owed to | request handlers, reply and event callbacks |
| connection pool | netio.c | `connections[256]` | accept, create, activate, close, event dispatch |
| framing | node.c 386-421, 767-790, 875-901, 1047-1192 | watermark and next callback of a connection | header first, then the body; an answer as it comes |
| several nodes on a port | net_wrapper.c | handler table | called only under `USE_NETW` |
| façade and example | libdht.c, textsend.c | none; a second thread | hash a name, look up, send |

**How they interact.** Timers of a node that has joined start exchanges (30 s:
stabilise, walk the list, check predecessor and successors). An exchange takes a
slot of the pool, runs a handler on the other node, and comes back through the slot's
read or event callback. A lookup that is relayed ties two slots of the relaying node
together: the incoming connection that asked, remembered **by slot number**, and the
outgoing one that will bring the answer. The example adds a second thread, which looks names up and so
opens connections beside the loop.

**What is hard here.** Answers that are old when they arrive; several joins at once; lists with
holes and stale entries routing lookups; crashes of neighbours and restarts under the
same identifier; time-outs of peers that live; indices and slot numbers noted before an
exchange and used after it; a pool that is full; events that nobody handles. The
`hazards` of `PROJECT.json` list each one at its line. Most are only visible with three or
more nodes and an order of messages no test can force, and the repository has no tests.

## 2. Modules

| module | models | proofs |
|---|---|---|
| `NodeId` | `node_id_in_range`, wrapping sums, and clockwise distance as reference | `NodeIdProofs` |
| `Pointers` | what it is for members that point at one another to be one network, to be in order, to have a member that nobody points past | `PointersProofs` |
| `AbstractRing` | what ring maintenance promises while nodes join: create, enter, turn to a nearer member | `PointersProofs` |
| `Ring` | ring maintenance and its lookups, all nodes, crashes, time-outs; implements `AbstractRing` while nobody fails | `RingProofs`, `RingRefinement` |
| `MCRing` | settled starting states, "the dead stay dead", and joining only, for TLC | |
| `MCSettle` | joining from nothing or into a settled network, with fairness, for TLC | |
| `Lookup` | lookups and `node_fix_fingers` with finger tables, all nodes, deaths | `LookupProofs` |
| `MCLookup` | starting states with one uninitialised entry, for TLC | |
| `AbstractPool` | what the pool promises: a slot passes from one connection to the next only through being empty | |
| `Exchange` | one node's connection pool and what its callbacks do with slots | `ExchangeProofs` |
| `MCExchange` | symmetry of remote ends | |
| `Framing` | one request, message or answer on a connection, cut anywhere | `FramingProofs` |
| `Threads` | the event loop and the application's thread over the slots of the pool, store by store | `ThreadsProofs` |

`Ring`, `Lookup`, `Exchange`, `Framing` and `Threads` look at the same node at growing magnification: all nodes
with whole exchanges as messages; the slots of one node's pool; the bytes of one connection; the stores into one slot.
Each takes from the next only what its code relies on, and that is what the next one checks: `Ring` lets a request be handled once and
whole (`Framing`), `Exchange` lets a slot be taken and freed in one step (`Threads`; both implement `AbstractPool`), and `Lookup` lets a node's first
successor become wrong in any way `Ring` allows and be right again some time later (`Ring`'s `Heals`).

Definitions carry the names of the C functions where TLA+ allows it; the `map` of
`PROJECT.json` gives the lines of each.

### Ring

Nodes are their identifiers. `status` is a process's life, `successor` and
`predecessor` the fields of `struct node_self` (`Nil` is the zeroed `node_info`),
`calls` the set of exchanges in flight. A call in phase `req` has its request at
`to`, in phase `rep` the answer is on its way back; a relayed lookup remembers the
chain of `relays`. A C callback is one action, with everything it calls: for instance
`StabFound` is `node_stabilize_sp_found` with `node_notify_node`, and `Joined` sets the
timers going, stabilises and starts the list walk.

Choices that a reader of the code should know:

* It is the `nofinger` build: `node_closest_preceding_node` is the first live successor (`Lookup` has the other build).
* `node_first_alive_succ` returns -1 for an empty list and callers index with it.
  Entry -1 is the field before the array, the node's own `node_info`
  (`struct node_self`, node.c 21-23), so the node sees itself.
* Writing one past the end of the list is recorded in `overrun`, and what it
  overwrites is left as it was.
* The branch of `node_find_successor` for the node's own identifier is guarded out
  of `HandleLookup`. `LookupsMissSelf` proves that no lookup of the module gets there.
* `AliveReply` is the handler of a liveness check and its answer in one step: neither touches state
  that anything else sees.
* A timer fires whether or not the node's last exchange of that kind is over: stabilisation and the list walk wait up to 60 s (`NODE_WAIT_TM_LONG`) and their
  timers come every 30 s. `no` tells such exchanges apart; a notification and a walk go on under the number of the exchange they follow from. For liveness checks
  one round at a time is exact: they wait 20 s, and their timer comes every 30 s too, because node.c 239 gives it `stab_tm` and leaves `STABILIZE_CHECK_PERIOD` (9 s) unused.
* A time-out of a notification loses it (`node_notify_rep_event` closes the connection); one that is on its way when its sender dies is lost too.
* All nodes share an IP address, so a node is its identifier and notifications name the sender.
* A node is created only when no other runs; it joins through one that is up.
* A crash loses what a node takes part in, except answers already sent. A liveness check of
  the dead fails or, if the connection was closed in order, ends without effect.
* Allocation failures are left out.

`MaxCalls` bounds the exchanges in flight when a timer fires or a node joins (handlers may add
more). The bound `Room` is a conjunct of `Next` and not of the timer actions, so it never
excuses a timer from fairness. `MaxCrashes` and `MaxTimeouts` bound the failures.

**AbstractRing.** `Points` maps a state of `Ring` to the member each member points at: the first live entry of its list, and itself
where node_first_alive_succ returns -1. `Abs == INSTANCE AbstractRing WITH next <- Points`, and
`ImplementsAbstractRing` is `Abs!Spec`. `Enter` is the answer to a join (`node_network_join_succ_found`), `Turn` is a
stabilisation that adopts (`node_stabilize_sp_found`), and everything else stutters. `Turn` promises only that a member turns to a nearer member, and that much
is true of any answer at any time, because the range is tested when the answer is used. What keeps the network in one piece is `Enter`: some member, the **anchor**, is pointed past by nobody,
and who comes in does not point past it either, however old the answer to the join. That alone makes the network one ring in order (`PointersProofs`).
With crashes this is false, and `Heals` takes its place.

### Lookup

The `make` build, where lookups are routed by `finger_table`. `succ[n]` is the first successor node `n` knows and
`calls` the lookups in flight, as in `Ring`.

* `FixFingers` is a whole round of `node_fix_fingers`: the entries answered locally are written at once, the others are looked up.
  Rounds of one node do not overlap here (30 s period; a lost lookup ends its part of the round). `FingerFound` is `finger_update`.
* A lookup that reaches a dead node, or whose relay dies, is lost: `node_remote_find_event` does nothing.
* `node_closest_preceding_node` takes the furthest finger in a range that **includes both ends**, and skips a finger with identifier 0.
* `Init` lets every entry be what the memory held, since `malloc` does not clear it: nothing, or an identifier that is no node's.
* `HandleOwn` and `AskOwn` are the branch for the node's own identifier. The missing braces (node.c 483) make it answer, free the argument, and go on
  to answer again with the freed argument and unlock a lock it may not hold: the process ends, or it survives and the first answer counts.
* `Lapse` is what can go wrong in a list: the first successor of a node becomes any other node, the node itself included. A failed check does that when it clears a stale index or an entry
  that was only slow (node.c 757-765, 797), a late answer to a stabilisation when it brings back a dead node (575). `Repair` stands for all that mends it in `Ring`, and takes any time. `MaxLapses` bounds the lapses.
* `doubt` is a history value of a lookup: the live nodes that some live node's first successor pointed past since the lookup began. `AnswersSkipNone` says an answer skips no other.

### Exchange

`slot[k]` is `connections[k]`: whose connection it is, what for, whether libevent still
reads it (`hears`: reading stops after an error or a time-out), and for a relay the
slot `back` that its answer is owed to. `back` is the number the code keeps; `asker` is
a history value, the remote end that was there when the request came. `peer[p]` is what
the other end of a connection is at. Remote ends run the same code: they answer, close when
they have their answer, and never give up on a lookup (`node_remote_find_event` does nothing).

* `Accept` is `listen_evt_cb`; with a full pool the remote end is `stranded`.
* `Relay` is `handle_succ_request` when the lookup is passed on, `RelayReply`
  is `node_found_remote_cb` and `node_successor_found_for_remote`: close by number, then
  write to whoever is in slot `back`. A free slot has a null buffer: `crashed`.
* `IncomingCloses` is the test of `incoming_event_cb`. It uses `BEV_ERROR`, which is
  libevent's filter result 2 and equals the bit `BEV_EVENT_WRITING`: an error while
  writing closes the connection (`WriteError`), an error or a time-out while reading does not.
* A remote end that dies before its request is read is as one that dies just after. The dead stay
  dead, so that `asker` names one connection only.
* A request and its body arrive together; the application's own messages, a second thread,
  and stopping the server are left out, and so are the callbacks left in a slot by its
  previous connection (only data on a notification's connection could run one).
* Which lookups are relayed, and to whom, is any choice: `Ring` and `Lookup` decide that.

### Framing

One connection and its one message in one direction: a request or a message of the application on an incoming connection
(`node_connect_and_send_message` sends one per connection), or the answer on an outgoing one. A byte is its place in the
message. `Arrive(n)` brings the next `n` bytes; libevent calls back if the buffer then holds at least `low`.

* `ReadHeader` is `incoming_read_cb`: handle at once, or set the handler of the type and the watermark. For a NODE_MSG it
  sets another event callback and its argument too.
* Only a NODE_MSG announces its length. Requests with a body (identifier; identifier and port) announce 0 (node.c 889) and are handled
  with the header, whether or not the body is there. `evbuffer_remove` gives what there is and that is no error, so the handler then reads what was on the stack.
* An answer has no header, no length and no watermark. `node_found_remote_cb` reads what is there of 13 bytes and closes;
  `node_check_node_reply` (and `node_check_predecessor_reply` alike) asks for a line of two bytes and uses a null pointer if only the first has come.
* `handle_node_message` frees the argument that `incoming_event_msg_cb` uses when the connection ends. `misused` records that
  use, and that of the missing line.
* Left out: the argument allocated at 1105 and never used (a leak), and malformed headers (no node sends any).

### Threads

The pool of `Exchange` once more, with a step for each store to a slot: `bev`, then the address, under `connections_lock`
(`net_connection_create`, `listen_evt_cb`); freeing, forgetting `bev` and wiping the address, under no lock (`net_connection_close`).
The Makefile sets no optimisation, so stores are taken in the order of the source.

* `op` is what a thread opens a connection for, with the two facts that matter: whether it holds `succs_lock` meanwhile, and whether
  it writes a body after `net_connection_activate`, by slot number.
* `node_notify_node` does not look at a negative connection number and `AddBody` may find a slot without a bufferevent: `fault`, the end of the process.
* A wiped address has no family, so connecting fails and closes.
* What libevent does with two threads (the program never calls its thread set-up), and failing allocations, are left out.
* `MaxConns` bounds how often the threads set out to open a connection.
* `Pool == INSTANCE AbstractPool WITH holder <- bev`: of all the steps only the store of a bufferevent is a `Take`, and only that of the null pointer a `Leave`.
  In `Exchange` the holder of a slot is its remote end, and every callback is one `Take`, one `Leave`, or neither.

## 3. Runs

| run | instance | what it shows |
|---|---|---|
| `ring_join` | 3 nodes of a circle of 8, lists of 2, two exchanges in flight (also of one node and kind), no failure, created by 0 or 7 | types; lookups progress and never meet their own identifier; the members always form **one ring** in **order**; nobody who joins others ends up alone; first successors only ever get nearer; `Ring` **implements `AbstractRing`** |
| `ring_settle` | two of the nodes from nothing, or one joins a settled network of the others, two exchanges in flight, fair | joins complete; ring, predecessors and lists become right for good, unless a node displaces its predecessor with itself for ever |
| `ring_heal` | 3 settled nodes, lists of 3, one dies and may come back, one exchange in flight, fair | the ring heals, the dead are forgotten, lookups progress over lists with holes |
| `ring_shaken` | 4 settled nodes, lists of 2 that the failures can empty, one dies for good, one call to a live node times out, fair | the ring heals also from a false suspicion beside a death |
| `ring_death_race` | 3 settled nodes, one dies for good, two exchanges in flight, fair | the ring heals unless a node displaces its predecessor with itself for ever; a walk that writes past the end of the list (it happens here) is one that starts at the last entry |
| `exchange_safe` | 3 slots, 4 remote ends, 2 deaths, 1 time-out | types; a living asker's slot stays its own while its answer is owed; until an asker dies answers reach their askers, and only a full pool makes the node use a null pointer; no lookup passed on is given up before its answer; the callbacks use the slots as `AbstractPool` allows |
| `exchange_return` | 3 slots, 3 remote ends, no failure, fair | every slot comes back, every request is answered or closed, as long as the pool is not full when a request or a lookup to pass on comes |
| `lookup` | 4 nodes of a circle of 16, one entry possibly uninitialised, 2 deaths, one lapse of a first successor, fair | no lookup circles; **an answer skips a live node only where a successor did meanwhile**, whatever the tables hold; the tables become right, unless a dead or made-up entry draws the lookup that should replace it to itself for ever |
| `framing` | messages of 0, 1 and 5 bytes, all requests and all answers, cut anywhere, fair | a message is handed up whole; everything is handled once, in the end, and read whole if it is there; a freed argument or a missing line is used only where TCP has cut |
| `threads` | 2 threads, 2 slots, 4 connections, fair | slots are not shared or lost; a connection goes to its own address or nowhere; bodies go astray only from connections that have ended; the two locks are never waited for in a circle, and no thread waits for ever; the pool **implements `AbstractPool`** |
| `exchange_error` | violation | finding 1 |
| `lookup_own` | violation | finding 2 |

`CHECK_DEADLOCK FALSE` is set where the system may really stop: in `Exchange` once all remote
ends are dead, stranded, or waiting on connections that are read no more; in `Lookup` when every process has ended; in
`Framing` when the connection is closed; in `Threads` after a fault or the last connection.

**Bounds.** The circle of 8 has the nodes 0, 3 and 7 on it, so that arcs wrap, `7 + 1` wraps,
and both free and occupied identifiers are looked up. Three nodes are the least with a relay
and with a successor that is not the predecessor; four are needed for a relay of a relay, and so
that one dead and one suspected node leave a ring of two. Lists of 2 are the shortest with
a walk, and one death leaves them their last entry only; lists of 3 have holes in the middle. Two exchanges in flight are
the least for one answer to overtake another. From nothing, three joins with two exchanges in flight and fairness are too many states for `ring_settle`: there two nodes start from nothing, the least in which
one is alone and then is not, and a third joins a network that has settled. A network created by 3 differs from one by 0 only in where arcs wrap. Three slots and four remote ends are the least in
which a relay is running, its asker's slot is taken over by another, and the pool is full at times. In `exchange_return` it never is when
something comes: with a fourth remote end `RequestsEnd` fails, since `listen_evt_cb` drops the socket (netio.c 203) and a lookup that cannot be passed on is forgotten (node.c 981).
The circle of 16 gives each node three fingers, some found locally and
others asked for (`lookup_own` has one of 32); the identifiers 6 and 9 are a node's and nobody's. Messages of 5 bytes are cut everywhere by every segment length, the empty one is announced as 0 like a request.
Four connections over two slots are the least in which a slot is closed, taken by one thread while the other wipes its
address, and the pool is full. Larger instances were too slow for the liveness properties (three nodes with two exchanges
in flight and joins); safety of rings, lookups, exchanges, framing and threads is proved for every size instead.

**Fairness.** The timers are `EV_PERSIST` (node.c 242-246), so each fires again and again while its
process lives: `WF` per timer. libevent calls the callback of every ready connection: `WF` per
node and kind of exchange in `Ring`, per slot in `Exchange`. Remote ends answer and close
because they run the same code. Nothing is assumed of joining, of deaths, of time-outs, or of write errors. In `Lookup` each node's round starts again, its lookups
are handled, and its first successor becomes right again, unless it becomes wrong again first; the application's lookups have no fairness. In `Framing` TCP delivers what was sent (`WF(Segment)`), though the sender may close and
the connection may time out first. In `Threads` a thread that can run does (`WF`); locks need no more, because the threads open finitely many connections.

**Mutants.** Next to an operator that a property depends on is a wrong variant of it ("Wrong
variant of ..."), used to see that the property fails when the code is wrong in that way.

## 4. Findings

1. **Connections are not closed on error** (`exchange_error`; node.c 1079). `BEV_ERROR` is tested where
   `BEV_EVENT_ERROR` is meant, although the comment says "close and free connection on error".
2. **The owner is asked for its own identifier** (`lookup_own`; node.c 544). The range that chooses a finger includes the
   identifier itself, although node.h 34 says "find highest known predecessor of id". The owner then runs the branch with the missing braces.

Also seen while modelling, and reproduced by changing a run as said (no configurations are kept for them):

* *A stale index is cleared* (node.c 757-765; `ClearedDidNotRespond` with `ring_death_race`'s constants under `LastingSpec`). A failed check zeroes the entry at the
  index noted when it was sent, where stabilisation may have put a live node meanwhile, although the comment there says "succ *sn didn't respond".
* *The list is overrun* (node.c 646). The walk starts at the first live entry; when that is the last
  one, `successor[NUM_OF_SUCCS]` is written before the test of the next line. With lists of two one death is enough, and `ring_death_race` gets there (`overrun = {}` is no invariant of it);
  with lists of three a time-out beside the death. `OverrunsFromLastOnly` says there is no other way.
* *An answer goes to the wrong connection* (node.c 946-956; `NoneMisled` in `exchange_safe`). When an asker dies its slot
  can be taken by another connection that waits, and that one gets the answer.
* *A full pool crashes the node* (node.c 610-613; `NoCrash` in `exchange_safe`). `node_notify_node` writes to connection -1.
* *A request is handled before its body comes* (node.c 889; `WholeIfThere` without its "if"), *an answer is read before it is all there* (405; the same),
  *an argument is used after it was freed* (1042, 1088; `misused`), and *a line that has not come is compared* (736, 777; the same).
* *A body is written to another connection* (node.c 453; `BodyHome` without its exception), from either thread: libdhtnet.h 61 advises to write first and activate then.
* *An address is wiped under a new connection* (netio.c 296-311; `FailToActivate` is reached with an address that was stored).
* *A dead finger that lies on the way to its own identifier is never replaced* (node.c 544; `FingersSettle` without its premise). It lies at the identifier itself when the node that had the identifier has died; it lies before it when
  the answer that filled it was wrong: a node whose list is empty for a moment answers every lookup with itself. The lookup that should replace the entry then goes to it each time and is lost.
* Under `Spec`, where processes may die, with `MaxCrashes = 1`: `JoinEnds` fails (a join whose lookup is lost is never retried), and so does `JoinsOthers`
  (a node that rejoins before it was forgotten is told itself and stays alone). The ring may never come to rest, even without failures (`SettlesUnlessDisplaced` without its premise fails in `ring_settle`): a node that was alone
  asks itself for its predecessor just before another notifies it and notifies itself just after, every time, because the range of `node_notified` includes it; `HealsUnlessDisplaced` has its "unless" for the same reason. `SlotsReturn`
  fails with `MaxTimeouts = 1` (`node_remote_find_event` keeps the slot, as its TODO says); `Heals` fails in `ring_heal` with `MaxTimeouts = 1`; after a death entry 0
  can stay empty for ever, so lists need not become full again and `Heals` does not ask for it.

## 5. Proofs

All proofs are for arbitrary constants under the assumptions of their modules
(`IdSpaceAssumption`, `NodesAssumption`, `RingAssumption`, `LookupAssumption`, `ExchangeAssumption`, `FramingAssumption`, `ThreadsAssumption`): any circle, any set of nodes on it, any length of
list above one, any pool, any length of message, any bounds, so any number of failures.

* `NodeIdProofs`: `InRangeIsClockwiseArc` (the three cases of the range test are one: the arc clockwise from
  `min` to `max`), `AdoptionOnlyCloser` (the test of stabilisation is "no further than my successor", with the wrap and a
  node that is its own successor) and `HandingOnProgresses` (a lookup handed on is strictly nearer); and `LeastNat`, that a set of naturals has a least element.
* `RingProofs`: `TypeCorrect` (TypeOK is inductive, one step per action; the delicate part is that indices in flight stay
  at most `NUM_OF_SUCCS`). `LookupsProgress` and `LookupsMissSelf` rest on an invariant that strengthens the two together:
  along the relays of a lookup distances decrease strictly, and a lookup never sits at its identifier. It is preserved because a
  handler hands on only outside its arc, where `HandingOnProgresses` applies. The lists may hold anything: no assumption on them is used.
  `LookupVisitsOnce` concludes that there are no routing loops.
* `ExchangeProofs`: `OwedAnswersKept` is not inductive. `Core` adds that two slots never share a remote end
  (`Distinct`), what the remote end of each kind of slot can be at (`Held`), that an asker waits as long as its lookup is out
  (`Owed`) and has one lookup out (`OneRelay`). Then every close in the code is of a slot other than a remembered one, and a closed slot is
  never one that is waited on. From it `OwedAnswersAreKept`; with "nobody has died" added (`Undisturbed`),
  `AnswersReachTheirAskers` and `CrashesOnlyWhenFull`. `LookupsAreFollowed` is the step property behind "every request is answered": a lookup passed on goes away
  only with its answer to the asker, whatever else dies. It needs `NoneGone` as well: the other end of a lookup does not close before it has answered.
  `ExchangesUsePool`: `Exchange` implements `AbstractPool`; that a connection taken in is in no slot yet is `Held`.
* `RingRefinement`: **`RingImplements`**, and from it `NeverSplit`, `AlwaysOrdered` and `SuccessorsOnlyCloser`, as long as nobody fails (`NoFailures`: the bounds on crashes
  and time-outs are 0), for any number of nodes and joins, and any number of exchanges in flight, of one node and kind too. `OneRing` and `Ordered` speak of pointers only and are not inductive: what a late answer does to them depends on when it was given.
  The invariant `Joining` names the node b that created the network: nobody points past b (`Anchored`). An adoption cannot change that, since it is nearer than what it replaces when it is used, whatever was true when it was asked for.
  A join cannot either: the answer to it is given by a member that points no further than b for an identifier on its arc, so b is not between the joiner and the answer (`Fits`), and b does not move while the answer travels.
  The rest of `Joining` says that whatever is in flight names members (`ListsHold`, `Fits`) and that a node joins once at a time. `NobodyJoinsAlone` follows: the answer to a join
  is a member, the joiner is none yet, and it only ever turns nearer.
* `PointersProofs`: pointers with an anchor are one ring in order (`AnchorConnects`, `AnchorOrders`). Every group of members that points only at itself holds the anchor: of such a group, the member nearest before the anchor
  would otherwise point at a nearer one (`GroupsHoldAnchor`). And take the first node after the anchor that skips others: nobody in the core points at what it skips, because who did would skip it and come before it (`PassesTheSkipper`), so the core would do without them.
* `RingProofs.OverrunsStartAtLast`: whatever fails, a walk that will write past the end of the list starts at its last entry. It needs that the index of a walk in flight came from an entry before it and that the scan of
  `node_first_alive_succ` finds the first entry in use.
* `LookupProofs`: `LookupsProgress` and `NoAnswerSkips`, whatever the finger tables hold, whoever dies, and however often first successors are wrong. The first needs that a finger in the range is strictly nearer, which is false of the node itself: `FingersOfOthers` says it never is its own finger
  (the test in `finger_update`). The second rests on `Wary`: whoever is passed now is in `doubt` for every lookup that is being asked. So the arc that answers a lookup holds no live node that is not, and neither a death nor a repair makes anybody pass a node it did not pass.
* `FramingProofs`: `MessagesWhole`, `HandledOnceWhole`, `MisusedAfterSplit`. The invariant ties the watermark to what has been taken: before a handler has run, nothing was taken and `low` is
  a header, or the header was taken and `low` is the body; after it, fewer bytes are to come than `low`, or the connection is closed (answers, notifications), so none runs again. For requests this needs that no body is as long as a header (`FramingAssumption`; 6 against 9 in the code).
* `ThreadsProofs`: `SlotsAreOwned`, `ConnectionsGoHome`, `BodiesStray`, `LocksInOrder`. A slot is taken under `connections_lock` but closed under no lock, so mutual exclusion
  alone does not give them. The invariant says for each place a thread can be at what of its slot is its own. From the store of `bev` until it is forgotten the slot is the thread's alone (`Apart`, `Placed`: the search
  skips a slot whose `bev` is set, and a connection that is not open has its thread at its slot). After that it is anybody's, although the address is still to be wiped:
  the wipe can therefore hit a new connection's address, and what holds is that an address is the connection's own or none (`Opening`), never another's.
  `PoolImplements` follows: when a bufferevent is stored the slot is still empty, and its connection is in no other. So as to which connection has which slot
  it is sound that `Exchange` takes and leaves slots in one step.

Every invariant and every step property that a passing run checks is the subject of a theorem. Some theorems say less than their runs: those of `RingRefinement` hold as long as nobody fails, as do their runs.
All liveness is only model-checked (`SettlesUnlessDisplaced`,
`JoinEnds`, `Heals`, `HealsUnlessDisplaced`, `Forgets`, `SlotsReturn`, `RequestsEnd`, `FingersSettle`, `MessageArrives`, `LocksEnd`): it is out of this prover's reach.

## 6. Not modelled, and the plan

What is left: how many deaths and time-outs a list of a given length survives before only its last entry is left (the list is then overrun), and that a search which finds the pool full under the lock
was right at the time it began, although slots are left without the lock meanwhile. Rounds of `node_fix_fingers` that overlap are left out of `Lookup`: each lookup of a round is one the application could start as well,
and what a second answer for the same finger does is `FingerFound` once more.

Not planned:

* Stopping and destroying a server (`net_server_stop`, `net_server_destroy`, `node_destroy`): nothing in the repository calls them.
* `net_wrapper.c`: the Makefile compiles it with every other source, but it is called only under `USE_NETW`, which no target sets, and nothing sets `netw_handle`. What is wrong in it (the second lock at 39, the entry `num + 1` at 114, the `memcpy` the wrong way round at
  106) shows on the first call of each function.
* The memory of callback arguments: who frees what, where it is not visible in a slot or a connection.
* The connections of a new server, which are not initialised (netio.c 116): fresh pages of a large allocation are zero.
* Several nodes in one process, which share the time-outs of the first (node.c 175).
* Hashing of names (libdht.c), logging, and the terminal side of the example, which have no state of their own.
