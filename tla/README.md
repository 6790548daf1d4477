# A formal model of aiorak

aiorak is a Python (asyncio) implementation of the RakNet protocol: messages
with a choice of reliability, ordering and priority between a server and its
clients, over UDP. This directory holds TLA+ modules that model its protocol
core, TLC configurations that check them on small instances, and TLAPS proofs
of their safety properties for every value of the constants. All source paths
below are under `src/src/aiorak/`.

`PROJECT.json` lists the components, the runs, the source lines every
definition models, the hazards and the properties that cover them, and for
every property a mutation of the model (a plausible bug) that breaks it.

## 1. The system

| Component | State | Operations | Used by |
|---|---|---|---|
| Sequence arithmetic (`_congestion.py`, `_constants.py`) | none; 24-bit numbers | `seq_greater_than`, masked difference | everything below |
| Duplicate filter `_ReliableMessageWindow` (`_reliability.py`) | `_base`, `_window` | `check_and_mark` | `_handle_frame` |
| Datagrams, ACK/NAK, resends: `ReliabilityLayer` | `_send_queue`, `_resend_buffer`, `_datagram_history`, `_unacked_bytes`, `_ack_ranges`, `_nak_ranges`, `_received_datagrams` | `send`, `update`, `on_datagram_received` | `Connection` |
| Ordering channels: `ReliabilityLayer` | ordering and sequencing counters, `_ordering_heaps`, `_expected_ordering_index`, `_highest_sequenced` | `_advance_ordering_counters`, `_handle_frame`, `_flush_ordering_heap` | `send`, `_handle_data` |
| Send queue: `ReliabilityLayer` | `_send_queue`, `_priority_next_weights` | `_enqueue_frame`, `_pack_datagrams` | `send`, `update` |
| Splitting: `ReliabilityLayer` | `_next_split_id`, `_split_trackers` | `_split_and_queue`, `_reassemble_split`, eviction in `update` | `send`, `_handle_frame` |
| Congestion control (`_congestion.py`) | `cwnd`, RTT estimate, `expected_next_seq`, `oldest_unsent_ack` | `on_got_packet`, `on_ack`, `on_nak`, `on_resend`, `should_send_acks`, bandwidth queries | `ReliabilityLayer` |
| `Connection` (`_connection.py`) | `state`, `mtu`, handshake counters, `_disconnect_on_ack_sent`, `_events` | `on_datagram`, `update`, `send`, `disconnect`, `start_connect` | `Client`, `Server` |
| `Client` (`_client.py`) | `_closed`, `_connected_event`, its connection, update task and socket | `connect`, `close`, `send`, callbacks, update loop | applications |
| `Server` (`_server.py`) | `_connections`, `_peers`, `_handler_tasks`, `_guid_to_addr` | `start`, `close`, `disconnect`, `broadcast`, callbacks, update loop, handler tasks | applications |
| Wire format, bit stream, UDP transport, unconnected ping | none that outlives a call | encoding, decoding, I/O | the above |

**Interaction.** A datagram reaches `Client._on_datagram` or
`Server._on_datagram`, which hands it to the `Connection` of its address; the
connection answers offline messages itself and gives the rest to its
`ReliabilityLayer`, takes completed messages from it, handles the protocol's
own and appends signals to `_events` for the others. The callback then processes the
signals. An update loop calls `Connection.update` every 10 ms, which looks at
timeouts, retransmits the handshake and lets the layer send what is due.
Everything runs on one event loop: a callback or a tick is never interrupted,
but ticks, callbacks, user handlers and the parts of `close()` between its
`await`s interleave freely, at both ends, with a network that loses, doubles
and reorders datagrams.

**What is hard.** Wrap-around of 24-bit counters; retransmission against late
ACKs; acknowledgement of a datagram whose frames are then dropped; caps (history,
resend buffer, ordering heap, trackers, ACK size, gap limits) that are reached;
two kinds of frames leaving a channel by two paths; handshake messages that come
late, twice or for another MTU; both ends disconnecting at once; reconnection
from the same address or with the same GUID while the old handler still runs;
`close()` that awaits while the socket is read. `PROJECT.json` gives each at its line.

## 2. The modules

| Module | Models |
|---|---|
| `SeqSpace` | the circular space of sequence numbers, its size a parameter |
| `NumberSet` | abstract: what a duplicate filter promises |
| `MessageWindow` (`MCMessageWindow`) | `_ReliableMessageWindow` |
| `ReliableChannel` | abstract: what the reliability layer promises before ordering |
| `RangeList` | the range lists of ACKs and NAKs: merging, and the cut into packets |
| `Transport` | one direction: sender's `update`, receiver's `_handle_data`, the network |
| `Ordering` | one ordering channel, both ends |
| `OrderedChannel` | abstract: what an application sees of a channel |
| `OrderedTransport` (`MCOrderedTransport`) | `Transport` and an ordering channel composed |
| `Congestion` | `CongestionController` with the sender that drives it |
| `SendQueue` | the priority queue before datagrams are packed |
| `Split` | fragmentation and reassembly |
| `Connection` (`MCConnection`) | one connection from both ends, with `Client`'s and `Server`'s use of it |
| `Server` (`MCServer`) | the server's tables, handler tasks and `close()` |
| `MessageWindowProofs`, `TransportProofs`, `OrderingProofs`, `CongestionProofs`, `SendQueueProofs`, `SplitProofs`, `ConnectionProofs`, `ServerProofs` | theorems about the module of that name, with their proofs |

Each layer is checked under the assumption that the layer below keeps its
promise. `Transport` keeps numbers whole because `MessageWindow` shows that
cutting them to 24 bits changes no answer; `Ordering` and `Split` let a frame arrive
at most once because `Transport` implements `ReliableChannel`, and `OrderedTransport` puts
the two together and shows that the whole implements `OrderedChannel`;
`Connection` lets messages arrive once and in channel order because of
`Transport` and `Ordering`, in the cases where these hold; `Server` takes from
`Connection` the states a connection goes through and the signals it gives.

### MessageWindow

`base` and `window` are the two fields of the code. The six actions under
`CheckAndMark` are the six ways through `check_and_mark`, in its order. `low`, `times` and
`answer` are history: the whole number `base` stands for, how often a number was
let through, and the last answer. `InLifetime` says how old or how far ahead a
number can be when it arrives (half the space); the code relies on the same.

### Transport

State of the sender: the queue, the next message number, `_resend_buffer`,
`_datagram_history` and `_unacked_bytes`; of the receiver: `expected_next_seq`,
the pending ACK and NAK ranges, the received-datagram window
(`dgBase`, `dgBits`) and the numbers let through.

`SenderTick` is what `update` does for the sender: due messages (NAKed, or
their timer has expired) are packed and sent, records that are too old are dropped,
and new frames are packed as far as the congestion window allows, numbers being
assigned only then. `ReceiverTick` is what the same function does for the receiver:
NAKs at once, ACKs when `should_send_acks` says so. In the code both run in one
`update`; the two halves touch disjoint fields, and the model looks at one
direction. `HandleAck`, `HandleNak`, `RejectData`, `SkipData` and `AcceptData` are the cases of
`on_datagram_received`; the network's `Receive`, `Duplicate` and `Lose` apply or drop them.

Time is not modelled. A timer that may have expired is a choice (`DueSets`,
`StaleSets`): at any moment if `EarlyTimers`, otherwise only when nothing still under
way tells the fate of the message. Sizes are counted in frames. The congestion window may close at any
datagram but the first, as `sent_at_least_one` has it.

`RangeList` has `_add_to_ranges` and `_build_range_packets`. The model keeps
the lists, not the sets they stand for, so that a fault of merging would put a number into
an ACK that never arrived. `obscured` are the messages that travelled empty or behind
an empty one in a datagram: decoding stops there, the datagram is acknowledged, and they
are lost. Three more history variables say what became of datagrams and messages: `arrived`, the datagrams
the receiver has noted for an ACK; `untracked`, the messages that were numbered when the resend buffer was
full; and `refused`, the messages in acknowledged datagrams that were not let through, because the datagram is
behind the receive window or `check_and_mark` found the gap too large. The last two, with `obscured`, are the ways in which the code
gives a reliable message up, and `NoSilentLoss` says that there is no other. `NothingGivenUp` says that the
limits are no further in than they seem: while traffic stays within them, nothing is untracked or refused.
`ReportsTruthful` compares what ACKs name, and what is noted as missing, with `arrived`.

### OrderedTransport

`send()` stamps a frame with the counters of its channel before queueing it
(`SendStamped`); `_handle_frame` routes to the channel what the duplicate filters let
through (`Route`). `Ordering` is instantiated with what `Transport` has delivered as its
`arrived`. `ImplementsOrderedChannel` is the refinement: `sent` and `log` are mapped to
themselves, and every step of the stack is a `Send`, a `Deliver` or a stutter of
`OrderedChannel`, whose `Deliver` appends any messages sent in their order (`InSendOrder`).
A step hands at most one message to the channel, so a datagram has to carry one frame; `MCOrderedTransport` says so.
(`_handle_data` loops over the frames of a datagram; several frames to a datagram are in `Transport` alone.)

### Congestion

The window is counted in parts of an MTU. `OnAck`, `OnNak`, `OnResend` and
`transmission_bandwidth` (`Fits`, `AskedLast`) are the methods of the controller;
`HandleAck`, `HandleNak` and `Update` call them where `ReliabilityLayer` does. Which
datagrams are acknowledged, reported missing or due again is a choice. `nth`, `cutAt` and
`progress` are history: the order of sending, the last cut, and whether anything sent
after it was acknowledged; `cutFrom` is the window that cut found. `mtu * mtu / cwnd` is rounded down to a part of an MTU;
no property depends on the remainder. The cap of the history is left out: a record it takes is one that is never acknowledged.

### Ordering

`SendOrdered` and `SendSequenced` are the branches of
`_advance_ordering_counters`; `Arrive` is `_handle_frame` after duplicate
detection, with the immediate path (`Current`), the heap (`Buffer`), the drop of
old frames, that of frames which find the heap full (`DropFull`, remembered in `overflow`),
and `_flush_ordering_heap` (`DeliverAndFlush`). The heap is a set
whose order is that of the Python tuples (`Precedes`, `Sorted`). `InReach` says how far a frame may be
ahead of the awaited slot (`MaxAhead`) and how late (less than half the space).

### SendQueue and Split

`SendQueue` has the weights of `_init_priority_weights` and `_get_next_weight` and an
`Update` that empties the heap, in the order of `Sorted`, and queues the rest again with weight 0, as
`_pack_datagrams` does when the window closes; `left` (history) are the messages an earlier update
left behind. `Split` has the trackers with
their age; `Oversized` is the first check of `_reassemble_split`, which drops the fragments of a message that
has more than `MAX_SPLIT_PACKET_COUNT` of them, while `_split_and_queue` sends messages of any size; `Opened` and `Room` are the two evictions of `_reassemble_split`,
`Update` the one of `update`. Which tracker goes when several are equally old depends on
the dictionary's order, and is a choice. `IdIsFree` is an assumption, not code:
an id is used again only when no tracker has it any more. A tracker's total is
that of its first fragment.

### Connection

`state`, `mtu`, `attempt`, `tries`, `onAck` and `events` are fields of the
two `Connection` objects; the server's is ABSENT before the first request 2
and REMOVED after a DISCONNECT signal took it out of `_connections`. `offline` holds
every offline message ever sent, so that any may arrive, again or never.
`sent`, `out`, `arrived`, `ackDue` and `acked` are the reliability layer
reduced to its promise: `out` of the queued messages are on the wire, those of
one channel arrive in order, and an ACK is due for each.

Each handler is an action of the same name; `Flush` is the tail of `update`
with the completion of a disconnect, `Retransmit` and `TimeOut` its other branches. Datagrams, and the ACKs in
them, are looked at only by an end that is `Listening`.
`Refuse` stands for the three refusals of `_create_connection_from_ocr2`.

The life of the client: `caller` is where its user is, waiting in `connect()`, past it with its
outcome, or in or past `close()`; `closed`, `loop` and `open` are `_closed`, the update
task and the socket. `Wake` sets `_connected_event`, which only the datagram callback
does for a DISCONNECT; `ConnectTimesOut` is the `wait_for` of `connect()`, and the handshake goes
on without its caller. `ClientClose` and `ClientCloseEnds` are `close()` before and
after its wait, `ClientLeave` is `close(notify=False)`, and `LoopEnds` the exit of
the update task.

Left out: pings and the keepalive (they change nothing here but timers); the
restart of the handshake clock by a repeated request 1 (`_connection.py:560`), for there is no clock; the
checks of received fields that two ends running this code always pass (the range of the MTU,
the security flag, the protocol version, which ends in a rejection like the others);
a second connection from the address after the first was removed (in
`Server`); the loss of ACKs (in `Transport`); a `close()` while `connect()` is
pending. An end that received the
notification does not time out before its next flush, which comes within one
tick.

### Server

`registry`, `peers`, `tasks` and `guidAddr` are the four tables. `conn`
keeps every connection ever created, so that a handler of an earlier one can be told
from the present one; `guid` is its `remote_guid`, which `Identify` changes, and `entered` the one it was let in under. `handlers` are the running tasks, `fed` those whose
iterator was given its end. `Create` is the whole of `_create_connection_from_ocr2`
with its GUID and capacity checks, `Connect` and `Remove` the branches of `_process_signals`,
`Forget` the clean-up of the GUID map with its check for GUID 0,
`HandlerEnds` the `finally` clause of `_run_handler`. `close()` is five
actions, split where it awaits: `Close`, `Drained`, `SignalHandlers`, `Join` (one per task) and `CloseEnds`.

## 3. What is checked

Every passing run explores its state space completely. `ordered` has no `TypeOK`: those of its two halves are
checked by `transport` and `ordering`.

| Run | States | Properties, besides `TypeOK` |
|---|---|---|
| `messagewindow` | 10,402 | `WindowMatchesHistory`, `ImplementsNumberSet` |
| `transport` | 392,134 | `NoSilentLoss`, `UnackedAccounting`, `ReportsTruthful`, `ImplementsChannel` |
| `ordered` | 30,606 | `NothingGivenUp`, `ImplementsOrderedChannel`, `OrderedDelivery`, `SenderDrains` |
| `ordering` | 33,389 | `DeliveredInSendOrder`, `NoOrderedMessageSkipped`, `NothingStranded`, `LostOnlyToFullHeap` |
| `sendqueue` | 10,247 | `FifoPerPriority`, `QueuedOrSentOnce`, `PassedOverOnce` |
| `congestion` | 1,530,449 | `OneCutPerRoundTrip`, `RecoversBySlowStart` |
| `split` | 2,595,561 | `ReassembledIntact`, `LossOnlyByEviction` |
| `connection` | 345,651 | `HandshakeAgrees`, `OneLife`, `OrderedDataKept`, `ConnectTruthful`, `HalfOpenReclaimed`, `EndIsSeen`, `LoopStops` |
| `server` | 2,247,788 | `TablesAgree`, `GuidUnique`, `GuidMapClean`, `HandlersReleased` |

**Bounds, and why they suffice.**

- `messagewindow`: a space of 16 numbers, a gap limit of 5 and 27 messages, so that
  every number is used and some a second time, with every gap up to and beyond the limit.
- `transport`: three messages, the first one unreliable and empty, two frames to a datagram, so
  that a resent message travels with another and one is hidden behind the empty one. Every limit is exceeded: a resend buffer of 1 for
  two reliable messages, so that one may be untracked; a receive window of 1, so that a datagram that is overtaken
  (`MaxReorder`) is refused; a gap limit of 0, so that a number is
  refused while the one before it is missing; a history of 2 records; two skipped datagrams, a third being too many, where a NAK takes one;
  1 number of an ACK or NAK that is looked at. Retransmission timers may fire early until three datagrams were sent
  (`MaxDatagrams`), NAKs at any time, and one datagram is lost or doubled.
- `ordered`: a sequenced message and two ordered ones, timers as often as wanted
  (`MaxDatagrams` is out of reach), one fault, and one datagram overtaking another. A resend buffer of 2, a gap limit of 1 and a window
  of 2 are just what two reliable messages and one overtaking datagram need, so that a limit that bites one too early
  gives something up; the others are out of reach, for beyond them the code promises no delivery.
- `ordering`: six messages, so that two ordered slots with sequenced messages around
  them are held back by a third, and a heap of two entries, so that the third is refused. The first index
  is the last of the space, so that the index the receiver awaits and those in the heap
  lie on both sides of the wrap-around; when the heap itself does, see `ordering_wrap_heap`.
- `congestion`: numbers that wrap after the second datagram, four frames waiting and eight datagrams, so that
  the window grows to four datagrams, is cut, and all of the flight is then
  reported lost by NAKs and by timers before something new is acknowledged.
- `sendqueue`: IMMEDIATE, HIGH and LOW with two frames to a datagram, so that
  leftovers, new messages and all orders of weights meet.
- `split`: four messages of two to four fragments, of which the receiver takes three, three ids and two trackers, a timeout of one tick
  and two ticks, so that both evictions happen and ids are reused.
- `connection`: two MTU sizes of which the second fits the path, each tried once (a repeated
  request changes only the counter, since every offline message may arrive again anyway), two
  connection requests (a repeated reply queues one each), one user message
  from each end, the client's on channel 0 or 1; a rejection is taken while the client has had
  fewer than two signals; timeouts at any moment.
- `server`: three addresses; one GUID comes from two of them, one of those is also used by a second GUID, and the third by
  GUID 0; two places, three connections, and `close()` at any moment. So a client moves to another port, a new client takes over its
  address, and a connection changes its GUID while it is connecting.

CHECK_DEADLOCK is off where the system may stop: when all messages of the bound
are sent and delivered, all datagrams of `congestion` are used up, or everything is closed. Elsewhere a tick is always possible.

**Disagreements found.** Three runs expect a violation and show where the code does
other than a comment or docstring says; `findings` in `PROJECT.json` quotes them.

| Run | What TLC shows |
|---|---|
| `resend_full` | a full resend buffer does not block new sends; they go out untracked |
| `ordering_wrap_heap` | the heap sorts raw indices, so a wrap with buffered frames stops the channel |
| `connection_no_ack` | the notification is not acknowledged before the connection is dropped |

Their bounds are just large enough to reach the situation: a resend buffer of 1
instead of 4096, a space of 6 numbers instead of 2^24. The code paths are the same at
full size; only the number of steps differs.

**Limits of the code met while modelling**, which no run checks. Each can be
reproduced by the change named here.

| Where | What happens | To reproduce |
|---|---|---|
| `_reliability.py:146`, 587 | a datagram behind the receive window is acknowledged and its messages dropped | `transport` with `MaxGap = 50`: `NoSilentLoss` without `refused` fails; `ordered` with `RecvWindowSize = 1`: `OrderedDelivery` fails |
| `_reliability.py:105` | a number too far ahead of a missing one is refused although its datagram is acknowledged, and after an untracked loss every later one is | `transport` with `RecvWindowSize = 8`: `NoSilentLoss` without `refused` fails |
| `_wire.py:250` | frames behind an empty one are dropped, their datagram acknowledged | `transport`: `NoSilentLoss` without `obscured` fails |
| `_reliability.py:425` | what an update queues again with weight 0 goes out before an IMMEDIATE message sent later, against `_types.py:75` ("Higher-priority messages are transmitted before lower-priority ones in the same update tick.") and `:80` ("Sent before anything else in the current tick.") | `sendqueue`: `[][\A i, j \in Len(log) + 1 .. Len(log') : i < j /\ sent[log'[j]] = 0 => sent[log'[i]] = 0]_vars` fails |
| `_reliability.py:664` | an ordered frame that finds the heap full is dropped after its ACK; the channel stops | `ordering`: `NothingStranded` without `overflow` fails |
| `_reliability.py:49` | a sequencing index can reach the sub-key of ordered frames, and then sorts behind them | `ordering` with `OrderedSubKey = 2`: `NoOrderedMessageSkipped` or the order of heap entries |
| `_reliability.py:374`, 715 | acknowledged fragments are evicted, and the message never completes | `split`: `\A k \in DOMAIN totals : Incomplete(k) \/ Reassembled(k)` fails |
| `_reliability.py:704` | a message of more than `MAX_SPLIT_PACKET_COUNT` fragments is sent by `_split_and_queue`, acknowledged and dropped; `_constants.py:77` calls such packets malformed | `split`: `LossOnlyByEviction` without `Oversized` fails |
| `_reliability.py:810` | a split id that comes round while a tracker still has it joins fragments of two messages | `split` without the guard `IdIsFree`: `ReassembledIntact` fails |
| `_connection.py:755` | a second connection request, queued because a reply came twice, is delivered to the user | `connection`: `HandedOver("server") \ {0} \subseteq OfKind("client", "DATA")` fails |
| `_connection.py:757` | reliable data that overtakes the end of the handshake is acknowledged and dropped | `connection`: `OrderedDataKept` without its exception for other channels fails |
| `_client.py:302` | the update task of a client that failed or ended goes on as long as `has_pending_data` is true, for ever if a late reply 2 queued a request | `connection`: `LoopStops` without its second line fails |
| `_client.py:121` | the handshake may succeed after `connect()` has raised; the server then has a peer that no user knows of | `connection`: `caller = "timed out" => ~Saw("client", "CONNECT")` fails |
| `_client.py:136` | `close()` after a DISCONNECT signal returns at once and leaves the socket open | `connection`: `caller = "closed" => ~open` fails |
| `_connection.py:702` | a rejection after the first one, or after a timeout, repeats the end of the iterator | `connection`: `OneLife` without its last disjunct fails |
| `_congestion.py:207` | `_next_cc_block` stands still without continuous sending; after 2^23 datagrams the comparison turns round | not within the bounds of `congestion` |
| `_reliability.py:342` | the receive queue is emptied after every datagram, so that its cap does not protect a slow application, whose own queue is unbounded | no state of the models |
| `_server.py:577` | a connection that presents another GUID while it is connecting (a new `Client` at a reused address draws a fresh one, `_client.py:57`) leaves the one it was let in under in the map, and one with GUID 0 leaves that (`_server.py:576`), although the comment at `_server.py:571` says "Clean up GUID mapping" | `server`: `GuidMapClean` without its last disjunct, or for `ZeroGuid` too, fails |
| `_server.py:509` | more than `max_connections` peers, handshakes in progress not being counted | `server` with `MaxConnections = 1`: the number of peers exceeds it |
| `_server.py:225` | a handshake that completes while `close()` joins the handlers starts one that nobody ends, and a peer that nobody notifies | `server`: `HandlersReleased` without its condition on `phase` fails |

**Fairness.** `OrderedTransport`: both update loops are `while True` loops with a sleep
of 10 ms, so the ticks are weakly fair; weak fairness of `ReceiveAndRoute` says that the
network does deliver what it does not lose, and losses are bounded. `Ordering` (in
`ordering_wrap_heap`): retransmission makes every ordered frame arrive; nothing is assumed of sequenced
ones. `Connection`: the update loops (`Flush`, `Retransmit`, `LoopEnds`),
arrival, and the bounded waits of `connect()` and `close()`. A timeout may come at any moment,
but is assumed to come only where the other end can send nothing more (`SilentTimeOut`):
otherwise `_last_recv_time` may be refreshed for ever. No fairness is assumed of
applications, of offline messages or of sends.

## 4. What is proved

A run checks a property on one instance; the theorems below hold for every
value of the constants that satisfies the ASSUMEs of the module: any number of
messages, connections and addresses, any caps, any faults. Every theorem but
`StackImplementsOrderedChannel` has the same shape: an inductive invariant `IInv`, checked by TLC on the run of the module
before it was proved, that holds initially and is kept by every action.

| Module | Theorem | States |
|---|---|---|
| `MessageWindowProofs` | `TypeCorrect`, `WindowCorrect` | `TypeOK`, `WindowMatchesHistory` |
| | `WindowImplementsSet` | `ImplementsNumberSet` |
| `TransportProofs` | `TransportImplementsChannel` | `ImplementsChannel` |
| | `TypeCorrect` | `TypeOK` |
| | `ReportsAlwaysTruthful` | `ReportsTruthful` |
| | `UnackedAlwaysAccounted` | `UnackedAccounting` |
| | `NothingSilentlyLost` | `NoSilentLoss` |
| | `NothingGivenUpWithinLimits` | `NothingGivenUp` (#) |
| | `StackImplementsOrderedChannel` | `OrderedTransport`'s `ImplementsOrderedChannel` (~) |
| `OrderingProofs` | `TypeCorrect` | `TypeOK` |
| | `AlwaysInSendOrder` | `DeliveredInSendOrder` (*) |
| | `NeverSkipsOrdered` | `NoOrderedMessageSkipped` (*) |
| | `NeverStrands` | `NothingStranded` (*) |
| | `LossOnlyEverToFullHeap` | `LostOnlyToFullHeap` (*) |
| | `EarlyChannelCorrect` | the four above, before the first wrap-around |
| `CongestionProofs` | `TypeCorrect`, `AlwaysRecovers` | `TypeOK`, `RecoversBySlowStart` |
| | `CutOncePerRoundTrip` | `OneCutPerRoundTrip` |
| `SendQueueProofs` | `TypeCorrect` | `TypeOK` |
| | `PrioritiesAreFifo` | `FifoPerPriority` |
| | `NoFrameLostOrRepeated` | `QueuedOrSentOnce` |
| | `NoStarvation` | `PassedOverOnce` |
| `SplitProofs` | `TypeCorrect` | `TypeOK` |
| | `ReassembledAlwaysIntact` | `ReassembledIntact` |
| | `LossOnlyEverByEviction` | `LossOnlyByEviction` |
| `ConnectionProofs` | `TypeCorrect` | `TypeOK` |
| | `HandshakeAlwaysAgrees` | `HandshakeAgrees` |
| | `AlwaysOneLife` | `OneLife` |
| | `MtuAlwaysFitsPath` | `MtuFitsPath` |
| | `OrderedDataAlwaysKept` | `OrderedDataKept` |
| | `ConnectAlwaysTruthful` | `ConnectTruthful` |
| `ServerProofs` | `TypeCorrect` | `TypeOK` |
| | `TablesAlwaysAgree` | `TablesAgree` |
| | `HandlersAlwaysReleased` | `HandlersReleased` |
| | `GuidAlwaysUnique` | `GuidUnique` |
| | `GuidMapAlwaysClean` | `GuidMapClean` |

(*) under `[]ShortRuns /\ []HeapUnwrapped`, (#) under `MaxReorder < RecvWindowSize` and
`Cardinality(Reliable)` at most `MaxResend` and at most `MaxGap + 1`, (~) under `MaxMessages <= OrderedSubKey`; see below.

**Duplicate filter.** Assumed: the gap limit is below half the
space (in the code 1,000,000 < 2^23). `IInv` is `TypeOK /\ WindowMatchesHistory`: the answer to a
number depends on what the flags mean, and the step that pops the deque keeps that meaning only because the
front flag is never set and the deque is no longer than the gap limit.
`WireDistance` and `HoleDistance` are the step from modular arithmetic to whole numbers: inside
`InLifetime`, `(number - base) & SEQ_NUM_MAX` is the true distance. Then there is one lemma
per branch of `check_and_mark`, each showing at once that the invariant is kept and that the step
is one of `NumberSet`.

**Transport.** The refinement of `ReliableChannel` says that nothing is delivered that was not sent, and
nothing twice. A message number is known from several places, the datagrams in flight and the
resend buffer (`Known`), and the invariant relates them all: numbers and reliable messages
go together one to one (`Numbered`), what was not let through was not
delivered (`DeliveredByNumber`), what is in the queue is nowhere else (`QueueFresh`). An
unreliable message has no number and is protected by its datagram alone
(`OneDatagram`, `DeliveredByDatagram`), which is why the received-datagram window may
forget only what it then takes as received. `NewNumbers` says that late
numbering is one to one, `ChunkOf` and `OneChunk` that packing puts every frame into one
datagram, `TickStep` joins them for `SenderTick`.

`TypeOK`, the ACKs of `ReportsTruthful` and `UnackedAccounting` have a second invariant besides, `Books`: what is noted for ACKs and NAKs, and what
those under way list, are canonical range lists of used numbers (`Listed`), those of ACKs
received (`Truthful`); the history has records of used numbers whose sizes add up to `_unacked_bytes` (`Records`).
`TypeOK` needs it for `unacked \in Nat`: nothing but the exact sum shows that the subtractions of `HandleAck`, the
timeout and the cap never go below zero. The sums and lists are built by the folds of the community modules, about which the
library has no theorem. `FoldExists`, `FoldUnique` and `FoldLeftExists` say that the function a fold picks with CHOOSE is the one its
recursion describes, by induction on the size of a set (`EveryNumber`: a set of numbers that has 0
and with every number the next is `Nat`). On them rest `SizesRemove` and `SizesUnion` for sums, and for lists
`Added` (adding a number to a list covers it, and nothing else besides what was covered),
`AllAdded`, and `Packeted` (cutting a list into packets invents no number). To be reasoned about, a sort is a
rearrangement without inversion (`InOrder`), not the sort operator of the community modules, which the provers do not know.

`NoSilentLoss` holds for every value of the constants. The invariant `Kept` says why: a message leaves the resend buffer only
for an ACK (`NoSilentLoss` itself), an ACK names what arrived (`Truthful`), and what a recorded datagram that arrived had to say was
delivered or is in one of the three sets of exceptions (`AckedSettled`), because a record lists only numbers that were in its datagram (`Recorded`)
and a number that was let through is that of a delivered message (`GotDelivered`). That NAKs ask only for what is missing follows from `Books` alone:
what arrived is below the awaited datagram, and what a later one shows to be missing is not (`MissedNotArrived`).

The exceptions are real beyond the limits (section 3), so `NothingGivenUpWithinLimits` says where they begin. No datagram is
overtaken by as many as the receive window holds (512 in the code), and there are no more reliable messages (`Reliable`) than the resend buffer
holds and the gap limit spans. The invariant is `Fitting`: the window never begins after the awaited datagram less its size
(`WindowBehind`), what it has noted has arrived, a datagram is known by its number (`OneEach`), and one that arrived had all its
numbers let through (`AllPassed`), so that what is then taken for a duplicate is one. The room in the buffer and below the gap limit
comes from counting: there are never more numbers than reliable messages out of the queue (`NumbersSent`). The run `ordered` satisfies
these hypotheses with equality, `transport` none of them.

**Ordering.** Indices are compared circularly on arrival and as integers in the heap, so the proof
relates both to whole slots: `Stamped` gives the index of every message sent by its slot,
`Logged` says that the log has exactly the ordered messages below the awaited slot,
`Buffered` that the heap has each message once and none of a slot that is past. Two hypotheses are asked
of the traffic, because the code needs them. `ShortRuns`: fewer
sequenced messages in a row than `_ORDERED_SUBKEY` (1,048,575), or they would sort behind the ordered
message that ends their run. `HeapUnwrapped`: the buffered frames do not lie on both sides of the
wrap-around; the run `ordering_wrap_heap` shows what happens when they do. Both hold in every state of the run
`ordering`, and `EarlyChannelCorrect` shows that neither is a restriction on a channel before its
first wrap-around and with no more messages than the sub-key. `OrderingAssumption` has
the cap of the heap and the sub-key below half the space, as in the code (8192 and 1,048,575 against 2^23).

**Ordered transport.** That the stack implements `OrderedChannel` follows from what is proved about its two halves, so
`TransportProofs` has it at its end. The steps of the stack are steps of `Transport` (`StackTransport`) and of an
ordering channel (`StackChannel`), whose theorems come in through an instance (`Ord`) of `OrderingProofs`: the channel
keeps its log in the order of sending without gaps (`EarlyChannelCorrect`), and only appends to it (`LogOnlyGrows`). The link
between them is `Tagged`: both halves count the same sends and agree on which of them are ordered. `Delivery` then
reads a step of the channel as one `Deliver` of `OrderedChannel`: what was appended comes after all that is in the log, in order, and with
every ordered message before it. The hypotheses are those of a channel before its first wrap-around: no more messages
than half the space and than the sub-key of ordered frames (2^23 and 1,048,575 in the code). The limits of
`Transport` are free, for they can make a message late or lost but not early. The run `ordered` satisfies the hypotheses.

**Congestion.** `Numbered` relates wrapped datagram numbers to the order of sending, which fewer than half a
space of datagrams (`MaxDatagrams < HalfSeq`) keeps comparable; `CutRemembered` says
that from a cut to the first ACK of something newer the controller knows that it backed off, and where.
This is what stops a second cut, and every NAK that would lower the threshold: it stays half of `cutFrom`.

**Send queue.** The heap is emptied by an update and refilled in the same step, so the properties rest on what every heap
entry promises (`HeapInOrder`): of two messages of a priority the earlier one precedes the later, and no entry weighs
more than `_priority_next_weights` of its priority, which keeps that true of the next message sent. `LogBeforeQueue` carries the order from the
queue to the wire, `Partition` that a message is in one place. What waits at weight 0 comes before everything sent later (`LeftAhead`),
also before an IMMEDIATE message of weight 0, for its counter is lower (section 3); so what stays behind twice was passed over by nothing newer. `PoppedInOrder` turns this order of
entries into the order in which they are popped. The weights are natural numbers because there are four
priorities (`WeightsAreNat`).

**Split.** A tracker belongs to one message (`TrackersOwned`) because ids come round
only when they are free (`IdIsFree`, an assumption of the model); with it, a complete tracker
holds the whole message and nothing else. `FragmentsFound` says where each fragment is: under way,
in the tracker of its message, in an output, evicted, or of a message that is too large.

**Connection.** The properties need each other: data is kept (`OrderedDataKept`) because the channel is ordered
(`ChannelOrder`) and the end of the handshake precedes data on it (`HandshakeOrder`); an end has one life
because what it may still send and receive follows from its state (`LifeAgrees`, `SendsInOrder`,
`NotificationHandled`). `SizesFit` and `CallerKnows` carry `MtuFitsPath` and `ConnectTruthful`.

**Server.** `FiledByAddress` is all that `TablesAgree` and `HandlersReleased` need besides each other.
The GUID properties have the invariant `GuidInv`: a connection that is not DISCONNECTED and has not been removed
holds the GUID it was let in under, which the map leads to its address (`LiveHoldsGuid`), and an address in the map
has a connection or its entry was left behind by one that presented another GUID (`EntriesExplained`). Nothing is assumed of which
GUIDs are presented from where.

**Only proved.** `MtuFitsPath` is in no run: in `connection` only the last of the sizes is answered, so it would show nothing there.
With three sizes of which two fit (`<<3, 2, 1>>`, `MaxData = 0`) TLC checks it on 152,043 states; the theorem holds for any
list of sizes and any path, and is the answer to the hazard at `_connection.py:603`.

**Only model-checked.**

- All liveness (`HalfOpenReclaimed`, `EndIsSeen`, `LoopStops`, `OrderedDelivery`, `SenderDrains`): liveness
  under fairness is beyond the proof system.

## 5. What is not modelled

- Bit stream and wire layout: conversions without control. What a decoding failure does to
  the rest of a datagram is in `Transport`.
- The RTT estimate and the RTO: averages of floats whose only use is when a timer
  runs out, which is a choice everywhere. The window is a choice in `Transport` and `SendQueue`,
  whose properties hold whatever `Congestion` makes of it.
- A clock: pings, pongs, the keepalive and `_last_recv_time`. What depends on them is when
  a timeout comes, and that is a choice.
- `ping()`, the rate limit per IP, `broadcast()` and the getters and setters of `Server`, the sockets.
- Range lists around a wrap-around: `RangeList` counts with whole numbers. In the
  code such a list is kept as two ranges, the later one first, and `_handle_ack` treats each on its own.

## 6. Plan

Written so far, in the order of importance: duplicate filter, transport with its range lists,
ordering, their composition, congestion control, send queue, splitting, connection with the
life of the client, server; and the proofs of section 4. To come: the rate limit per IP in
`Server`, and a module with a clock for the keepalive.
