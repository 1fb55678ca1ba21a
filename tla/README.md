# Verification of cnet-dtn-stack

`cnet-dtn-stack` is a protocol stack for a delay-tolerant network: mobile nodes
in the *cnet* simulator send messages to nodes they may never meet, and
intermediate nodes keep packets until they see a node nearer to the
destination.  This directory holds TLA+ models of the stack, the instances TLC
checks, and theorems that TLAPS checks.

cnet calls one event handler at a time and lets it run to completion, so a
handler, with every call it makes, is one action.  What is concurrent is the
order of events: timers, arriving frames, collisions, and calls of the
application, at several nodes, over a medium that loses frames.  Nothing is
persistent and nodes are not restarted: there is no crash recovery.

## Inventory

| component | state | operations | interacts with |
|---|---|---|---|
| data link layer, `link.c` | `buf` (frames to send), `info`/`sent_info` (one beacon), `sending_data`, `numTimeouts`, `backoff`, ids of two timers | `link_send_data`, `link_send_info`, handlers `send` (EV_TIMER2), `timeout` (EV_TIMER1), `receive`, `collision` | called by network and oracle; calls `net_recv`, `oracle_recv`; sends frames |
| network layer, `network.c` | a stack of packets, `free_bytes` | `net_send`, `net_recv`, `net_send_buffered` | called by transport, link and oracle; asks the oracle for a route; calls `link_send_data`, `transport_recv` |
| transport layer, `transport.c` | a queue of incomplete messages, `free_bytes`, `msg_num_counter` | `transport_datagram`, `transport_recv` | called by the application glue and network; calls `net_send`, `message_receive` |
| oracle, `oracle.c` | `positionDB`, a sorted array of positions, ages and free space | handler `sendOracleBeacon`, `oracle_recv`, `get_nth_best_node` | reads `free_bytes` of network; calls `link_send_info`, `net_send_buffered` |
| node start and glue, `dtn.c` | none | `reboot_node`, `app_rdy`, `message_receive` | initialises all layers |
| wireless model, `dtn.c` | none | `my_WLAN_model` | uses the map |
| map, `mapping.c` | objects (walls) | `readmap`, `choose_position`, `through_an_object`, `through_N_objects` | used by walking and wireless model |
| walking, `walking.c` and copies `walking0.c`..`walking9.c` | the current walk, `paused`, `tid` | handler `walker`, `start_walking`, `stop_walking` | moves the node |
| `fakeapp.c` | - | generates nothing, is not compiled | - |
| topologies, scripts | - | parameters of simulations | - |

What is hard, and what makes each component correct:

- **Link.** An exchange RTS, CTS, DATA, ACK can be cut at any frame; a timer
  of one exchange can expire in another; frames for others stop and start the
  timers of this node; a beacon competes with data.  Correct: no frame is
  delivered twice, out of order or to the wrong node; none is forgotten
  unnoticed; the send loop goes on; a queued frame leaves the queue.
- **Network.** One byte counter for a stack that is emptied onto another stack
  and back while packets are evicted from the bottom; packets travel over
  several nodes.  Correct: the counter is right, a flush drops and reorders
  nothing, each packet has one copy, and arrives at most once at its
  destination.
- **Transport.** Fragments come in any order, some never; the oldest message
  is evicted for a new one.  Correct: what is delivered is whole and delivered
  once; a message that is complete is delivered; the eviction loop ends.
- **Oracle.** Positions of different ages, first and second hand; neighbours
  that move away after their beacon; a database that does not fit into a
  beacon.  Correct: a position and its time belong together however they
  travelled; a recommended node was heard and had room; pruning spares
  neighbours.
- **The layers together.** The route of a packet is decided at each hop from
  what that hop knows; packets wait until a beacon comes.  Correct: packets do
  not go in circles; none waits that could go; the network layer gives the
  transport layer what it relies on.
- **Map, walking.** Geometry at corners, rounding, a loop without a limit.
  Correct: no walk crosses a wall; a walk never ends where no other can start;
  nodes hear each other both ways.

The full list of hazards, each at its line, is in `PROJECT.json`.

## Modules

| module | stands for |
|---|---|
| `CnetTimer` | a timer of cnet with the one variable that holds its id: starting it again without stopping it leaves a stray timer that still fires |
| `Link` | `link.c` at every node, and the medium between the nodes |
| `LinkChannel` | abstract: lossy, ordered, at-most-once channel for each pair of nodes |
| `MCLink` | topologies for TLC |
| `SeqOrder` | lemmas about ordered sequences (proofs) |
| `LinkProofs` | theorems about `Link` |
| `Network` | `network.c` at every node, over a lossy link layer, with the oracle's answers left open |
| `MCNetwork` | instances |
| `FoldTraces` | lemmas about the traces of folds (proofs) |
| `NetworkProofs` | theorems about `Network` |
| `Transport` | `transport.c` at every node, over a lossy, reordering network layer |
| `MCTransport` | instances |
| `TransportProofs` | theorems about `Transport` |
| `DatagramService` | abstract: messages delivered whole, at most once, to the right node; used for both `Network` and `Transport` |
| `Oracle` | `oracle.c` at every node, over beacons that may be late or lost, in a world where nodes move |
| `MCOracle` | places and movements |
| `OracleProofs` | theorems about `Oracle` |
| `Dtn` | composition: `Transport` over `Network`, routed by `Oracle`, as `dtn.c` starts them |
| `MCDtn` | worlds and messages |
| `DtnProofs` | theorems about `Dtn` |
| `Map` | the geometry of `mapping.c`, and `my_WLAN_model` of `dtn.c` |
| `Walking` | `walking.c`, extends `Map` |
| `MCWalking` | a town |
| `WalkingProofs` | theorems about `Map` and `Walking` |

What uses what: `Dtn` instantiates `Oracle`, `Network` and `Transport` with
its own variables and conjoins their actions; `Network` and `Transport` refine
`DatagramService`, `Link` refines `LinkChannel`, and `Dtn` refines
`Transport`, and so `DatagramService` between the applications.  `Link` is not under `Dtn`: what `Network` assumes of its link
layer, loss without copies, is weaker than `LinkChannel`, which `Link` is
proved to implement.

### Link

The variables have the names of the static variables of `link.c`; each is a
function of the node.  A data frame is the position of its `link_send_data`
call in the history `accepted`.  Each alternative of a handler is an action:
`SendBeacon`, `SendRts`, `SendNothing` for `send`; `ReceiveRts`,
`OverhearCts`, `ReceiveCts`, ... for the branches of `receive`; `Timeout` with
`GiveUp` and `Retry` for `timeout`.  A transmission appends the frame to the
air of any subset of the nodes in range: this covers nodes that moved away,
collisions and bad checksums.  Frames that survive reach a node in the order
they were sent, because overlapping frames destroy each other.

Reading a frame that was never initialised (`link.c:317-319` after `dequeue`
fails) is undefined behaviour.  `Undefined` says which outcomes a run allows:
the assertion in `send_frame` fails and ends the simulation, junk goes on the
air, or an older frame that is still on the stack is sent again.

Durations are left out: any running timer may fire next.  The repository gives
no bandwidth and its frames may have any length up to the maximum, so it does
not bound how long an exchange takes compared with a timer.  In particular the
run `link_stall` needs an ACK of other nodes to arrive while the local timer
of a waiting node runs.  The corner case of a timer of zero microseconds,
which the macro `IDLE_TIMESLOT` can produce in `collision`, is left out, too.

When a frame is passed up, the layers above may send one at once
(`UpcallSends`).  A beacon may flush several packets; those after the first
are separate steps.

### Network

`buff[n]` is the stack of node n, bottom first, as in the code; `link` holds
the packets that were passed to the link layer with the next node.  A handler
computes on a record of a stack, the free bytes, the packets evicted and the
packets passed down so far, in the order of the code: `Push`, `Pop`,
`TryToSend`, and for `net_send_buffered` the two loops `TryAll` and `PutBack`.
A handler takes the answers of `get_nth_best_node` as a function of what it is
asked, destination and length (`Query`): nothing else changes in a handler.
`Routes` has all such functions to other nodes, or none; `Dtn` has the oracle's.
What a packet carries is a member of `Data`, each carried once: four model
values for the runs, the datagrams of `Transport` in `Dtn`.
`link` is a set: packets of one pair of nodes may overtake each other, which
`LinkChannel` excludes; so the model has more behaviours than the code.
The assumption that any two packets fit into the buffer together is far from
tight: a packet is smaller than `WLAN_MAXDATA`, the buffer has 1000000 bytes.

### Transport

`buff[n]` is the queue of node n, bottom first.  An element has the key, the
number of fragments needed, and those received.  Fragment sizes, the shorter
last fragment, `qsort` and the copying into the built message are modelled
(`Fragment`, `Sorted`, `Built`); a byte is the pair of a message's name and a
position, so a byte that ends up in the wrong message or place is seen.  A
damaged datagram, whose checksum is wrong, is the same as a lost one.
`Cut` and `Collect` are what `transport_datagram` and `transport_recv` do
themselves; `TransportDatagram` and `TransportRecv` add the network layer as a
set of datagrams, which in `Dtn` is `Network` instead.
`MakeKey` computes the decimal concatenation for message numbers below 100000
(the code's keys are ambiguous from 100001 on: message 100001 of node 0 and
message 1 of node 1).  The network layer does not copy datagrams, which
`Network` checks.  `TransportAssumption` requires that no message takes more
than half the buffer: otherwise the eviction loop would never end.  The
topologies send at most 10000 bytes, about five fragments, so this holds with
a large margin.

### Oracle

The sorted array `positionDB` is a function of the addresses in it.  The file
gives a beacon a time in whole seconds and a neighbour one in microseconds; the
model has one clock that counts beacon intervals.  All nodes start at the same
moment and their timers are exact, so beacons of a round are built one after
the other before anything else happens; each then waits in the link layer
(`info`, one place) until it is sent or the next replaces it.  A beacon is
heard by any subset of the nodes in reach, at one moment: they handle it one
after the other (`air`).  The clock starts at 1, so that `lastBeacon = 0` is
before any beacon, as in the code.  The free space of a record that is
appended is not initialised (`oracle.c:109-111`): it is any value of
`FreeBytes`.  `path` and `heard` are histories: where each node was, and what
was heard from whom.  `get_nth_best_node` is the operator `GetNthBestNode`; it
changes nothing.  Checksum and length of a beacon are left out, since `link.c`
checks the whole frame before it passes it up.

### Dtn

A packet of `Network` carries a datagram of `Transport` as its id.  `AppRdy`
is a whole call chain: `app_rdy`, `transport_datagram`, `net_send` for every
fragment, `get_nth_best_node`, `link_send_data`.  `Deliver` and `Forward` are
the branches of `net_recv`, with `transport_recv` and `message_receive` under
the first.  `OracleRecv` processes a beacon and flushes the stack with the new
database.  A beacon announces the free bytes of the stack of its node.
`forwards` is the history of what each node passed to its link layer.

### Map and Walking

The maps have integer coordinates and so have positions, so all of `intersect`
is exact, and its `EPS` of 0.0001 separates nothing that integers do not:
`Between` compares the quotients with 0 and 1 without dividing.  An object is
hit if one of its four walls is.  `Budget` stands for the link budget at a
distance, a logarithm; it is a constant operator, which assumes only that it
depends on the distance.

`walker` is three actions, with the choice of a walk as the set `Walks` of
those that the rejection loops may end with.  The inner loop sets `newdest`
back to `now` only when it is entered again: after a rejected candidate the
next is chosen within `MAX_WALK_DIST` of that one (`mapping.c:202-203`), while
walls are looked for between it and `now`.  `Searched` is the closure of that
search: `now` and all candidates that may be rejected on the way.  So a walk
may be longer than `MAX_WALK_DIST`, which `walking.c:15` calls the "maximum
walk from current point".  A search in which candidates are drawn at random
ends with probability one exactly if there is a walk, and a candidate that is
not rejected remains within reach of the search (`SearchEnds`).  `newx` and `newy`
are sums of doubles, truncated when stored: where the exact sum is an integer
but the parts are not representable, the stored coordinate may be one less
(`Coordinate`).  Durations and pauses are left out.  The files
`walking0.c` to `walking9.c` differ from `walking.c` in `MAX_WALK_DIST` only.

## Runs

| run | question | answer |
|---|---|---|
| `link_pair` | two nodes sending to each other: is a frame copied or forgotten; is it a lossy ordered channel? | no; yes |
| `link_undefined` | types; does `sendTimer` always name a running timer, with collisions; order and at-most-once with every outcome of the uninitialised read | yes; hold until that read |
| `link_live` | does every queued frame leave the buffer, with beacons competing? | yes, between two nodes |
| `link_chain` | which step leaves a waiting exchange without a timer? | only an overheard ACK |
| `network_relay` | accounting, one copy per packet, at most one delivery, over three nodes and any routes; does a flush keep the rest, in order; does eviction ever empty the stack? | hold; yes; no |
| `transport_messages` | messages of one to three fragments in any order, a small buffer: accounting, end of the eviction loop, service | hold; only a message at the bottom can be stuck |
| `oracle_beacons` | are positions true and fresh, was a recommended node heard with room, does pruning spare neighbours, while a node walks and beacons are late or lost? | yes, recommendations from `ORACLEWAIT` on |
| `dtn_static` | the whole stack, fragments over a relay, no node moves: is a packet forwarded once by each node, does none wait in vain, is the network what `Transport` assumes, does the application get whole messages, at most once, from the right sender? | yes |
| `walk_town` | do walks cross buildings, can a walk end where no other starts, is the signal the same both ways? | only exactly through corners; no; yes |

Runs that find a comment or an assertion of the code violated:

| run | statement | what happens |
|---|---|---|
| `link_stall` | `link.c:3` "buffers and retries data to be sent" | an overheard ACK stops the waiting node's timer; nothing resets `sending_data` |
| `transport_stuck` | `transport.c:284-285`, a message whose fragments arrived is passed up | `queue_get` never looks at the bottom element |
| `dtn_moving` | `oracle.c:11` "packets are forwarded only once" | while the destination walks past, a packet goes to a neighbour and back, and is forwarded again |

More facts that can be read from the models and have no run:

- each ACK adds a send timer, since `reset_send_timer` stops none (`stray` in
  `CnetTimer` counts them);
- `timeout` counts the timers that `receive` started on frames for others, so
  the head of `buf` can be dropped without having been tried (`GiveUp`);
- a DATA frame is dequeued when it is sent (`link.c:318`): a lost one is not
  sent again (`ReceiveCts`);
- a CTS after a give-up makes `receive` send an uninitialised frame, on which
  the assertion `link.c:168` may fail (`ReceiveCtsNoData`);
- all packets share one stack, so a packet in transit may evict one of the
  host's own, unlike what `network.c:8-12` wants (`Shed`);
- `try_to_send` asks for room for a packet's header and message, but `push` at
  the next node takes `sizeof(struct STACK_EL)` more (`Query`, `Mem`);
- before `ORACLEWAIT` has passed, a node that was never heard counts as a
  neighbour, because `lastBeacon = 0` is recent (`Live`);
- `enqueue` wants the room for a new element twice, so elements are evicted
  from a buffer that has room for the new one (`Evictions`).

### Bounds

Links: two or three nodes; two data frames in all (`MaxFrames`), which is
enough for a frame to be mistaken for another, to overtake it, or to be
dropped in its place; one or two frames on the way to a receiver (`MaxAir`);
at most one collision in a row (`MaxBackoff`, only counted, never compared).  The
number of timeouts needs no bound: the code resets it at four.  The number of
stray timers is bounded by the frames that start them.  In the chain of three
nodes some links are one way, which lessens the states.

Network: three nodes, four packets of two sizes with different contents (the
model treats all contents alike, so they are a symmetry set), a buffer for two
or three of them, so that eviction, forwarding over a relay and circles all happen, and a
flush has up to three packets to pop.

Transport: three messages of up to three fragments, a buffer with room for
two or three elements: each of completing, splitting, storing and evicting
happens, also several in a row.  Fragments of two bytes are the smallest with a
shorter last one.  A larger bound on messages repeats these.

Oracle: three nodes in a row, of which the ends do not hear each other, so
that positions travel second hand; one node may walk to the other end at any
tick.  `MaxRecords` 1 prunes a database of two.  `MaxTime` 4 with an interval
of 1 and `ORACLEWAIT` of 2, as in `dtn.h:8-9`, is four rounds of beacons: a
neighbour is heard, expires, and is heard of again.  What nodes announce is
fixed by time (`InTurn`), so that a node has room, then has not, and the
reverse.

Dtn: three nodes in a row.  In `dtn_static` node 0 and node 1 each send a
message of two packets to node 2.  The first message of several fragments at a
node is never put together (`transport_stuck`), the second is, also if it came
over the relay.  Two ticks are two rounds of beacons: enough for a position to
reach a node that cannot hear its owner, and for packets to be flushed on it.
With `ORACLEWAIT` 0 a node is live only in the tick of its beacon, so that
records expire, packets wait at the relay between the rounds, and its buffer,
which has room for two, evicts one.  With `ORACLEWAIT` 2 no record expires in
two rounds.  In `dtn_moving` there is only the message of node 0, and node 2
walks from one end of the row to the other.

No run with a moving node passes for `Dtn`: a packet can go to and fro for ever
(`dtn_moving`), and `forwards` grows.  The theorems `EndToEndHolds`,
`StackImplementsTransport` and `NoneWaitsInVainHolds` hold with moving nodes.

Walking: a town of 8 by 6 with a building of 2 by 2 and a wall that is drawn
as a line and touches the border.  There are walks past every corner, exactly
through corners, and between building and wall; walks end on walls by
rounding.  With `MAX_WALK_DIST` 4 the search goes on from rejected
candidates around the building, to walks of up to the whole town, and there
are candidates from which it takes more than one further to find a destination.

`CHECK_DEADLOCK FALSE` in the runs of `Oracle` and `Dtn`: at `MaxTime` time
stops.  The same in the runs of `Network` and `Transport`: when the
application has sent its messages and all packets are delivered, evicted or
lost, nothing is left to do.  The link layer never stops, its send timer runs
for ever; the simulation that was ended by `abort` stutters.

### Fairness

In `walk_town` the handler starts its own timer each time (`walking.c:85`), and
timers expire: weak fairness of `WalkOn` and `Pause`, and of `StartWalk` where
the search ends with probability one (`SearchEnds`), not elsewhere.  In the
link layer, `link_live`
and `link_stall` use fairness.  Running timers expire and arriving
frames are received: weak fairness of `Timeout` and `Receive`.  The send timer
fires and finds the carrier idle with a beacon waiting: weak fairness of
`SendBeacon`.  A data frame's turn, `SendRts`, is disabled whenever a new
beacon arrives; the send timer fires at least once a second and beacons come
every three, so a beacon is sent and followed by a turn for data again and
again: strong fairness.  No fairness is assumed of the medium: every frame may
be lost, for ever.

## Theorems

What the runs show on small instances, the theorems state for every value of
the constants that meets the assumptions named in each module: any number of
nodes, messages and frames, any network, routes, movements and maps.  In each
module of proofs a safety property follows from an inductive invariant, mostly
called `IInv`: the initial states satisfy it, each action preserves it (one
lemma per action), and it implies the property.

### Link

- `TypeCorrect`: `Spec => []TypeOK`.
- `SendLoopLives`: `sendTimer` always names a running timer, and the simulation
  ends only by the uninitialised read.  Inductive with `TypeOK`, because every
  handler that stops the timer starts it again.
- `ForeignAckStalls`: no step but `OverhearAck` leaves a waiting exchange
  without its timer.  This is the exact extent of the bug that `link_stall`
  shows.
- `DeliversInOrderOnce`: until the uninitialised read, in any build, the frames
  of one sender are delivered in order, at most once and to their addressee.
  The statement is not inductive: frames queued and on the air matter.  The
  strengthening `OrderInv` says of each pair of nodes that the frames
  delivered, on the air and in `buf`, in this order, are increasing; that a
  frame on the air is addressed as `accepted` says and is at a receiver in
  range; and that all are accepted.  It is written as an operator `Ordered` of
  the values, so that each handler is a composition of a few lemmas: taking a
  frame, dequeuing, transmitting, delivering, enqueuing.
- `OnePlaceHolds`: until the uninitialised read an accepted frame waits at its
  sender, was sent, or was dropped, and only one of these.  `PlaceInv` adds to
  `OrderInv`, from which a queue has no frame twice, that the frames on the air
  were transmitted, so that what is delivered was.
- `LinkImplementsChannel`: if the uninitialised read ends the simulation, `Link`
  implements `LinkChannel`.  The mapping makes pending the frames in `buf` or
  on the air; each step is mapped to an acceptance, a loss, a delivery (perhaps
  with an acceptance) or a stutter, from `OrderInv`.

The assumptions are those of `LinkAssumption` alone (for the last also
`Undefined \subseteq {"abort"}`).  `SeqOrder` has the lemmas about sequences.

### Network

- `TypeCorrect`: the free bytes and those of the packets on a stack add up to
  `NETWORK_BUFF_SIZE`, and the counter is never negative.
- `OneCopyHolds`: a packet that was sent waits on one stack, is with one link
  layer, was delivered, or was evicted or lost: once, and at one of these.
- `NetworkImplementsService`: `Network` implements `DatagramService`.  A step
  is an acceptance (`NetSend`), a delivery (`PassUp`) or a stutter; that a
  delivery is the first comes from `IInv`, by which a packet with the link
  layer was not delivered before.
- `EvictionLeavesOneHolds`: no eviction empties a stack.
- `FlushKeepsTheRestHolds`: a flush of a stack of any height keeps what it does
  not pass down, in its order.

`IInv` gives each packet its place (`OnePlace`, `NoneMissing`) and adds the
accounts and that what was delivered was sent.  A handler is a sequence of
pushes, pops and sends, so `Handles` says of the record that it works on what
the invariant says of the node: the packets that were on the stack are on it,
evicted or passed down, each once, and the bytes add up.  `TryAll` and
`PutBack` are folds over stacks of any height.  tlapm has no induction over an
operator, but it can unfold `FoldLeft`; `FoldTraces` proves that the recursive
function a fold chooses exists (as the union of its approximations, with the
least-number principle), so that the fold has a trace from its base to its
result.  An invariant of the loop then holds all along the trace, by the
least position at which it would fail.

### Transport

- `TypeCorrect`: the accounts of the buffer, and elements that hold fragments
  that arrived, at least one and not all.
- `EvictionEndsHolds`: the loop that evicts elements ends, whatever datagram
  arrives.
- `OnlyBottomStuckHolds`: a message that arrived in full was delivered, lost an
  element, or has the element at the bottom of the queue.  So `transport_stuck`
  shows the only way in which `transport.c` forgets a message.
- `TransportImplementsService`: `Transport` implements `DatagramService`: the
  application gets whole messages, at most once, from the right sender.
- `KeysDiffer`: `make_key` is injective for message numbers below 100000.

`IInv` says of each node (`NodeInv`): every element is for one message and
holds different fragments of it, no fragment is in two elements, and above the
bottom the keys differ (`Queue`; not at the bottom, because of the bug); what
was delivered has arrived in full and nothing of it is in the queue (`Whole`);
a fragment that arrived is in the queue, delivered or evicted (`Placed`); and
the bytes add up (`Accounts`).  A message that completes consists of as many
different fragments as it has, hence of all (`AllFragments`), and sorting them
and copying each to its offset gives the message, also with a shorter last one
(`SortedFacts`, `Reassembled`).  It was not delivered before, since its last
fragment had not arrived (`NotYet`).  Were a message that arrived in
full neither delivered nor evicted nor at the bottom, one element would hold all
of its fragments, which is more than an element can (`LongEnough`,
`StuckAtBottom`).

`TransportAssumption` is what the loop of evictions needs of the sizes;
`KeyAssumption` (`MaxMessages < 100000`) is the limit of `make_key`.
`Sorted` chooses the sorted sequence, which is unique for different fragments,
because tlapm cannot unfold `SortSeq`.

### Oracle

- `TypeCorrect`: no node keeps a record of itself, and beacons are no larger
  than `pruneDB` allows.
- `PositionsAreTrue`: a node was where a database says, at the time it says.
- `NeighboursAreFresh`: the position of a node that was heard is never older
  than one interval before that beacon.
- `RecommendationsAreSound`: from `ORACLEWAIT` on, a recommended node was heard
  within `ORACLEWAIT` and announced room.
- `PruningSparesNeighbours`: a step forgets a node that was heard only if all
  that stay were heard as recently.

`IInv` extends truth from databases to the beacons that wait and are on the
air (`Truth`), ties the age of these to the timers (`BeaconsAreFresh`), and
says what a record tells of the beacons heard: `lastBeacon` and the announced
room are those of the last one, or the record is second hand
(`LastBeaconWasHeard`), in which case a full beacon of others was heard since
(`ForgottenForOthers`).  `pruneDB` is proved to keep `MaxRecords` of a larger
database, the most recently heard (`PrunedFits`, `PrunedKeepsRecent`): it
keeps those before which fewer than `MaxRecords` come in the order of
`StaysLonger`, and these numbers differ.
`OracleAssumption` takes the number of nodes as finite.

### Map and walking

- `HeardBothWaysHolds`: on any map, `my_WLAN_model` gives both directions of a
  path the same strength, from all places of all walks.
- `PausesOutsideHolds`: a walk ends outside of all buildings or on a wall,
  though the last step truncates.
- `CrossesAtCornersHolds`: a walk crosses a building only through a corner.

`IInv` says that the node is on the map and on a walk around all walls to a
place outside of all buildings, and with no step left at that place or one less
by rounding.  `ChosenWalk` is what all this needs of the search: however many
candidates it rejected, the last is a position of its own, tested against the
walls from where the walk begins.
The last theorem is geometry: a path that crosses a building leaves it through
a side or a corner.  `Exit` and `ExitHits` show for a path that goes right and
up, inside, that the first of the two lines which it reaches is a side that
`intersect` sees; mirrored and swapped coordinates give the other directions
(`MirrorHits`, `SwapHits`), and upright and level paths are cases of their own
(`UprightWall`, `LevelWall`).

### Dtn

- `StackImplementsTransport`: `Dtn` implements `Transport`: what `Transport`
  assumes of the network layer, `Network` with the routes of `Oracle` does,
  however the nodes move.
- `EndToEndHolds`: hence `Dtn` implements `DatagramService` between the
  applications.
- `NoneWaitsInVainHolds`: on the stack of a node that does not move no packet
  waits for which its oracle names a next node.
- `ForwardedOnceHolds`: if no node moves, no node hands a packet to its link
  layer twice.  `dtn_moving` shows that the hypothesis is needed.
- `PacketsInStack`, `OracleInStack`: `TypeOK` and `OneCopy` of `Network` and
  all of `Oracle` hold in the stack.  `Oracle` becomes a part of `Dtn` by an
  implementation; `Network` does not, since in `Dtn` `NetSend` gets all the
  fragments of a message in one step, so its invariant is carried over.

`DtnAssumption` gathers the assumptions of the parts; the sizes of packets
follow from `MAX_FRAGMENT_SIZE`.  `NetworkConstants`, `TransportConstants` and
`OracleConstants` derive what each part assumes.

`StackInv` is the invariants of the three parts, and `Carried`: a packet in the
network carries a fragment of a message that was sent, from its source to its
destination.  No part is inductive without the others: `Network` needs packets
with different contents, which are the fragments of different messages
(`PacksFacts`, from the names of `TransportProofs`); `Transport` needs that a
datagram arrives only once, at its destination (`DeliverFacts`, from `OnePlace`
of `NetworkProofs`); both need routes to other nodes (`RouteFacts`, from the
types of `OracleProofs`).  Each handler of `Network` is used through `Effect`,
which says where each packet goes and that the routes guided it.  To
`Transport`, the packets that have not arrived are on their way (`OnTheWay`):
`AppRdy` is a `TransportDatagram`, `Deliver` a `TransportRecv`, everything else
a stutter.

`Waiting`: a beacon flushes the stack with the new database, and no other step
of a node that stays where it is gives it a next node: time passes and
`pruneDB` forgets (`Forgets`, `NoRouteStays`), so what it puts on its stack and
what waits there has no next node (`StackGrows`, `WaitingStep`).

`Progress`: where nothing moves, each position in a database is the true one,
so `isCloser` compares true distances and the next node is the destination or
strictly nearer to it (`NextIsNearer`).  Therefore a packet which a node has
handed to its link layer is from then on only at nodes that are nearer
(`Onward`), with a strict order (`NearerOrder`), and does not come back.  The
invariant also needs that no packet waits at its destination (`NotAtHome`) and
the places of `NetworkProofs`, by which a packet that was handed on is not on a
stack as well.

`NetworkProofs`, `TransportProofs` and `OracleProofs` are instantiated (`NP`,
`TP`, `OP`); the first lemmas say that their operators are those of `N`, `T`
and `O`.

### Only model-checked

- `FramesLeaveBuffer` and `WalksAgain`: liveness under fairness is out of the
  prover's reach.

Every safety property of a passing run is a theorem.

## Not modelled

- Durations of timers and frames, so `IDLE_TIMESLOT` and the back-off
  (`link.c:10`, `link.c:232`) have no property.
- The strength of a signal over a distance (`dtn.c:100-116`, floating-point
  logarithms): `Budget` stands for it.
- Reading and drawing the map (`mapping.c:53-129`): input and output.
- `stop_walking` and `am_walking`, which nothing calls.
- The test of a packet's size in `try_to_send` (`network.c:206`), which drops
  larger packets that have a next node: `transport.c` sends none (`dtn.h:50`,
  `dtn.h:90`, the assertion at `transport.c:403`).
- Checksums, byte copying, memory that the code leaks.
- More than 99999 messages of one node, from where on the keys of `make_key`
  are ambiguous (`transport.c:94`).
- `get_private_nbytes_free`, which `dtn.h` declares and no file defines, and
  `fakeapp.c`, which is in no topology's compile line and does not compile.

## What is open

- `Link` under `Network`: that `LinkChannel` is a link layer as `Network`
  assumes it, with losses and without copies, is argued above and not proved.
- Progress of messages: under which fairness and which meetings of nodes a
  packet gets to its destination.  The code promises nothing here, and with
  nodes that move it need not (`dtn_moving`).
