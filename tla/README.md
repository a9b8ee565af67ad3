# tokio-udt in TLA+

A TLA+ development of the UDT implementation of this repository: the reliable
data transfer of a socket, the data structures under it and the abstract
behaviour they implement, the send queue that serves the sockets of a
multiplexer, the way from `connect` to `accept`, the end of a connection, rate
control and the packets on the wire. TLC checks small instances, TLAPS proves the
safety results for all sizes. Paths below are relative to the root of the repository
(`socket.rs` is `src/socket.rs`).

## 1. Inventory

| component | state | operations | who calls it |
|---|---|---|---|
| sequence numbers `seq_number.rs` | a `u32` in `0..MAX_NUMBER` | cyclic `+`, `-`, difference | everything |
| loss list `loss_list.rs` | ordered map of ranges | `insert`, `remove`, `remove_all`, `pop_after`, `peek_after` | socket, both roles |
| send buffer `queue/snd_buffer.rs` | blocks, position of the next unsent one | `add_message`, `ack_data`, `read_data`, `fetch_batch` | `send`, send worker, ACKs |
| receive buffer `queue/rcv_buffer.rs` | packets by number, `next_to_read`, `next_to_ack` | `insert`, `ack_data`, `has_data_to_read`, `read_buffer`, `drop_msg` | `process_data`, `send_ack`, `recv` |
| ACK window `ack_window.rs` | the last 1024 ACKs sent | `store`, `get` | `send_ack`, ACK2 |
| socket `socket.rs`, `state/socket_state.rs` | status, marks of both roles, loss lists, timers | `send`, `recv`, `next_data_packets`, `process_data`, `process_ctrl`, `check_timers`, `connect`, `close` | application, the two workers |
| send queue `queue/snd_queue.rs` | heap of (time, socket), a `Notify` | `insert`, `update`, `remove`, worker | sockets; worker calls `next_data_packets` |
| receive queue `queue/rcv_queue.rs` | sockets by time of last check | worker | worker calls `process_packet`, `check_timers`, `listen_on_handshake` |
| multiplexer `multiplexer.rs` | UDP socket, both queues, the listener | `bind`, `send_to`, `run` | starts both workers |
| global table `udt.rs` | sockets, multiplexers, peers, next id | `new_socket`, `new_connection`, `bind`, `garbage_collect_sockets` | application, receive worker, cleanup task |
| listener `listener.rs` | accept queue, `accept_notify` | `bind`, `accept` | application |
| connection `connection.rs` | a socket | `connect`, `poll_read`, `poll_write`, `poll_flush`, `poll_shutdown` | application |
| rate control `rate_control.rs` | window and period (floating point) | `on_ack`, `on_loss`, `on_timeout` | socket |
| flow statistics `flow.rs` | arrival times, RTT | medians | socket |
| packets `packet.rs`, `data_packet.rs`, `control_packet.rs` | headers | `serialize`, `deserialize` | multiplexer |

**How they interact.** Each multiplexer runs two tasks. The *send worker* takes
the first socket of the send queue, asks it for packets and puts it back if there
were any. The *receive worker* reads datagrams, hands them to the socket they are
addressed to (or to the listener if the destination is 0) and runs the timers of
the sockets that were silent. The application's tasks call `send`, `recv`,
`connect`, `accept` and `close`. A socket keeps its parts under separate locks
(state, send buffer, receive buffer, status, flow), and several functions take
and release more than one of them in turn. A cleanup task collects broken and
closing sockets every second.

**What is hard.** Datagrams are lost, repeated, delayed and reordered; ACKs, light
ACKs, ACK2s and NAKs overtake each other; four tasks work on one socket; a timer
takes packets for lost that are only late; sequence numbers wrap; buffers and
windows reach their limits; a socket that is left out of the send queue must be
put back by somebody; the status of a socket is changed by four tasks that have
looked at it earlier, and calls that wait must be told of it. `PROJECT.json` lists these hazards at their lines.

**What makes each part correct.** Sequence numbers: a difference is the signed
distance. Loss list: a set of numbers. Socket: `recv` returns the stream that
`send` accepted, nothing is released before the receiver has it, losses are
known exactly, the link is given up only by the EXP timer, everything written is
delivered in the end. Send queue: a socket with something to send is served.
Handshake: one server socket for a client socket, both ends agree. Close: what was
written before is read before the end is reported, waiting calls are told, sockets
are collected. Rate control: a burst of loss reports slows the sender down a bounded
number of times, and counters and rates stay in range. Packets: they are read as
they were sent.

## 2. Modules

| module | models | role |
|---|---|---|
| `SeqNumber` | `seq_number.rs` | operators |
| `LossSet`, `LossSetSpec` | what a loss list promises | operators; abstract specification |
| `LossList` | `loss_list.rs` | state machine: any sequence of calls; implements `LossSetSpec` |
| `SndBuffer`, `RcvBuffer` | the two buffers | operators |
| `Transfer` | `socket.rs`, data transfer in one direction | state machine of two sockets and a network |
| `ReliableStream` | what `send` and `recv` promise | abstract specification; `Transfer` implements it |
| `SendQueue` | `queue/snd_queue.rs` | state machine of the heap, its worker and the tasks that call it |
| `Connect`, `MCConnect` | `connect`, handshake, `new_connection`, `accept`, collection | state machine of several clients, a listener and a network |
| `Lifecycle` | `close`, Shutdown, EXP, collection and the calls that wait: `socket.rs`, `connection.rs`, `udt.rs` | state machine of the two ends of a connection |
| `RateControl` | `rate_control.rs`, smoothing of `flow.rs` | state machine of a sender's rate control |
| `Packets`, `MCPackets` | `packet.rs`, `data_packet.rs`, `control_packet.rs`, sending in `multiplexer.rs`, receiving in `rcv_queue.rs` | operators, and a state machine of the way through a UDP socket |
| `SeqNumberProofs`, `LossListProofs`, `PacketsProofs`, `TransferProofs`, `SendQueueProofs`, `ConnectProofs`, `LifecycleProofs`, `RateControlProofs` | | theorems |

### Sequence numbers

`SeqSub`, `SeqAdd` are the trait implementations with the code's threshold and
the code's signs. A difference has the right sign as long as the numbers in use do
not cross `MAX_NUMBER` (`SubExact` in `SeqNumberProofs`), and the wrong one when they
do, which `transfer_wrap` shows.

### Loss list

`sequences` is the `BTreeMap`, a function from the start of a range to its end.
`insert`, `remove`, `remove_all`, `peek_after` and `pop_after` are functions on
it, the split of a wrapping range in two halves included. `AvoidZeroOverlap`
leaves out one kind of call, with which `ImplementsLossSet` fails (section 3).

### Data transfer

`Transfer` has the sending half of one socket, the receiving half of its peer and
the network between them. The variables have the names of the fields of the
code; `written`, `delivered` and `losses` are history.

* A *block* is what one packet carries; blocks are numbered in the order in which
  `send` accepts them, so that the n-th block is the number n.
* `next_data_packets` takes two locks one after the other, and is two steps:
  `PopLoss` then `Resend`, or `ReadWindow` then `FetchBatch`. With
  `MultiThread = FALSE` nothing else of the socket runs between them, since the
  function does not await there; with `TRUE` every other task may.
* `process_ctrl` is `ProcessAck`, `ProcessLightAck`, `ProcessAck2`, `ProcessNak`,
  `ProcessKeepAlive`; `process_data` is `ProcessData`; `check_timers` is
  `AckTimer`, `SendLightAck`, `ExpTimer`, `ExpBreak`.
* The send queue is one bit, `queued`. A socket that had nothing to send drops
  out of it, and only `update_snd_queue` puts it back.
* Times are nondeterministic: with `Adversarial = TRUE` any timer may expire at
  any moment and any datagram that was ever sent may arrive at any later moment,
  any number of times. With `FALSE` each arrives once or is one of at most
  `MaxLosses` lost ones, and the timers that guard against loss expire only when
  nothing is under way.
* The congestion window is any member of `CongestionWindows` at each use.
* Arithmetic on a `u32` wraps at `U32_MODULUS`, as in a release build (a debug
  build panics there instead).

### Send queue

`SendQueue` is the heap with several sockets, where `Transfer` has one bit for one
socket. `queue[s]` is the sequence of the timestamps of the socket's nodes; of
several smallest ones `peek` may return any, as a `BinaryHeap` does.

* `update` takes and releases the lock up to four times; each part is an action:
  `Peek`, `Check`, `Remove`, `InsertFirst`. `close` is `CloseRemove` and
  `CloseStatus`, since it awaits between the two.
* The worker is `Look` (pop, or what to wait for), `Park` (the `notified()` future
  is polled) and `Timeout`, `Serve` (`next_data_packets`), `Reinsert` and `PassOn`
  (the bounded channel). `Notify` keeps at most one permit.
* `Call` is a task that adds work or not and calls `update` with either value of
  `reschedule`: `send`, a processed ACK or NAK, a timer. `Expire` is the end of
  `check_timers`, which calls `update` for a socket it has just made Broken.
* What a socket has to send is a number of batches; `next_data_packets` may ask for
  any later time.

### Connecting

`Connect` has clients, each a socket with a multiplexer and an address of its own,
and a server: a listener and the sockets made by `new_connection`.

* The client: `Connect` (the first handshake, which nothing repeats),
  `ProcessChallenge` and `ProcessReply` (`process_ctrl`), `UnexpectedHandshake` (an
  error, which ends the receive worker), `ConnectReturns`, `ClientExpires`,
  `ClientCloses`.
* The server: `ListenRequest`, `ListenBadCookie`, `AnswerAgain`, `NewConnection`
  together are `listen_on_handshake` and `new_connection`, which run under the
  lock of the global table; `AcceptLook`, `AcceptPark`, `AcceptReturns` are
  `accept`; `CollectBroken`, `CloseBroken`, `CollectClosing` are
  `garbage_collect_sockets` and the tasks it starts.
* Ids are handed out downwards, so that the first id of a set is the newest: that
  is what `get_peer_socket` finds and what `accept` takes. The map of peers is
  never cleaned, as in the code.
* A cookie is the minute it was made in; the one of the last minute is accepted,
  in minute 0 too (`-1 as u64` wraps in a release build, where a debug build
  panics).
* A datagram is lost or arrives once, or twice if it is one of `MaxDups`, at any
  later moment. The listener itself is never closed.

### The end of a connection

`Lifecycle` has the two ends of one connection. Data is counted: blocks taken by
`send` (`snd`), transmitted (`sent`), received (`got`), made readable by an ACK
(`readable`), read (`read`) and released (`acked`); how they arrive in order is the
subject of `Transfer`. What `close` does to the send queue and to the accept queue is
the subject of `SendQueue` and `Connect`.

* `recv` is `Recv`, `ReaderWaits`, `RecvReturns`, since it looks at the status, waits,
  and looks again; `poll_read` is `PollRead`, `ReaderWaits`, `PollRead`. `poll_write`
  and `poll_flush` are `PollWrite` or `PollFlush` and `WriterWaits`.
* `close` is `UserCloses` or `TaskCloses`, `Linger` and `CloserWaits` in a loop,
  `SendShutdown`, `SetClosing`. A user may have several calls under way, since every
  poll of `poll_shutdown` starts one (`ClosesA` and `ClosesB` are the calls of the users
  of the two ends), and the collector starts another (`CollectBroken`); they all run
  side by side. That its linger time is over `close` finds out in `Linger` and nowhere
  else, so it is a choice of that step.
* The receive worker looks at the status once, for a packet or when the timers are due
  (`Looks`: `TakeData`, `TakeAck`, `TakeShutdown`, `AckTimer`, `ExpTimer`), and then
  processes the packet and checks the timers without looking again (`WorkerGoesOn`:
  `ProcessData`, `ProcessAck`, `ProcessShutdown`, `SendAck`, `Expire`,
  `TimersChecked`), whatever has happened to the socket in between.
* `notify_waiters` reaches those who have registered; they register under the lock
  under which they have looked (`ReaderWaits`, `WriterWaits`, `CloserWaits`).
* A Shutdown may never arrive. An end hears nothing for long if its peer is no longer
  alive, or because the network fails. `MaxEvents` bounds such failures and the calls of
  `close` together.
* `due` and `promise` are history: what had been written when a close began, and what
  a close that did not run out of its linger time has announced the end of to a peer
  that was connected.

### Rate control

`RateControl` has one action for each of `set_curr_snd_seq_number` (`SendNew`),
`on_ack` with the reports of an ACK (`Ack`: skipped, `SlowStartAck` or `SteadyAck`),
`on_loss` (`LossEndsSlowStart`, `FirstLoss`, `LaterLoss`) and `on_timeout`. The
sending period, a duration computed in floating point, is replaced by the rule that
set it last; the window, the rates and all counters are numbers as in the code.
ACKs and loss reports speak of any packet that was sent, so reports may be late and
come again. `cuts` is history: the slowdowns since something new was sent.

### Packets

`Packets` writes and reads packets word by word, with the code's bit fields. The
constant `HALF` is the number of values of half a word, 2^16 in the code. `DataPacket`,
`ControlPacket` and `NakPacket` are all the packets that the constructors can make; `Samples` is
the set of those that are sent, for TLC boundary values of each field (`MCPackets`), for
the proofs any set. A datagram is sent by `send_to`, in a batch by
`send_mmsg_to` (of which only a part may be sent), or as the NAK of a gap; the
receive worker reads several at a time into chunks of a buffer that is never
cleared (`ReceivePackets`). `AsRead` is what a packet says to whoever reads it: the
packet, but for the address of a handshake when it is IPv6 and ends in twelve zero
bytes, which the format does not tell from an IPv4 address.

## 3. Runs

| run | checks | shows |
|---|---|---|
| `loss_list` | `RangesDisjoint`, `PeekIsFirst`, `ImplementsLossSet` | every sequence of calls acts as on a set |
| `packets` | `ReadAsSent`, `NakNamesGap` | every packet is read as it was sent (but for such an address), whatever an earlier one has left in the buffer; a NAK names the gap |
| `transfer_safety` | `TypeOK`, `RcvLossExact`, `ReleasedIsReceived`, `SndLossReadable`, `NoProtocolBreak`, `NoLostWakeup`, `AcksNeverRetreat` | bookkeeping of both ends, multi-threaded runtime, adversarial network |
| `transfer_live` | `LinkKept`, `StreamIntegrity`, `ImplementsStream`, `EveryBlockDelivered` | single-threaded runtime, any two datagrams lost: the stream arrives, and all of it |
| `transfer_race` (violation) | `StreamIntegrity` | multi-threaded: a retransmission races with an ACK |
| `transfer_wrap` (violation) | `EveryBlockDelivered` | a transfer that crosses the wrap stops |
| `send_queue` | `NoneStranded`, `NoMissedWakeup`, `NodesBounded`, `EveryBatchSent` | the gaps in `update` lose neither a socket nor a wakeup and leave few nodes; what a live socket has to send is passed on |
| `connect` | `TypeOK`, `AcceptedOnce`, `OneLiveSocket` | handshakes lost, repeated and delayed over three minutes, timers, closing and collection: one live socket, accepted once |
| `connect_live` | `NoLostAccept`, `EndsAgree`, `WorkersRun`, `ConnectSucceeds`, `EveryConnectionAccepted` | two clients that chose the same id and number, without loss, repetition and timeouts: all goes well, with two acceptors and one permit |
| `lifecycle` | `TypeOK`, `GracefulClose`, `NoFalseEnd`, `NoLostReader`, `ReaderTold`, `SocketCollected`, `PeerLearns`, `AckWaitersGoOn` | a writer whose calls of `close` overlap, a reader whose user may close too, lost Shutdowns, timeouts, the collector, and a receive worker that acts on an old look at the status |
| `lifecycle_linger` (violation) | `CloseReturns` | a `close` that waits for an ACK of a peer that is gone never returns, whatever the linger time |
| `rate_control` | `BurstBounded`, `NakCounters`, `RatesPositive` | ACKs, late and repeated loss reports and timeouts in any order |

**Deviations that have no run of their own.** While modelling, the code was seen to
differ from what it is meant to do in these places too; the models do what the code
does, and the properties above hold nevertheless.

* `loss_list.rs:40`: an `insert` at 0 over a range that starts at 0 does not see it,
  because `n1 - 1` is `MAX_NUMBER`; a shorter range cuts it short. With
  `AvoidZeroOverlap = FALSE` the run `loss_list` fails.
* `socket.rs:707`: a packet is stored when its offset equals the free space of the
  receive buffer, one more than `rcv_buf_size`.
* `socket.rs:501`: a light ACK may subtract more from the flow window than it holds;
  in a release build the window becomes almost 2^32.
* `udt.rs:146`: a connection beyond `accept_queue_size` is an error of the handler
  and ends the receive worker of the listener (`NewConnection`).
* `socket.rs:451`: a client that is Connected takes any further handshake for an error,
  which `rcv_queue.rs:184` passes on, so that its receive worker ends
  (`multiplexer.rs:170` unwraps the result). The server sends such a handshake itself
  when the client's response arrives twice (`AnswerAgain`, `udt.rs:116`): with
  `MaxDups = 1` in `MCConnectLive.cfg` `WorkersRun` fails.
* `socket.rs:739`, `863`: data of the server that overtakes its reply to the handshake
  finds the client without the id of its peer; its NAK goes to socket 0 and ends the
  server's receive worker, its ACK panics.
* `connection.rs:129`, `146`: like `close`, `poll_write` and `poll_flush` wait for an
  ACK that no longer comes once the connection is over.
* `rcv_queue.rs:183`: the status of a socket is looked at once, and the packet is
  processed and acknowledged without another look. If the user of that end calls `close`
  in between and a read of his fails, the data is acknowledged afterwards all the same,
  and a lingering `close` of the other end takes for delivered what nobody will read.
  `GracefulClose` is therefore about a `close` that announces the end while the peer is
  still connected; without this restriction in `SendShutdown` it is violated when both
  ends close.
* `connection.rs:155`: `close` and the Shutdown set the status back from Closed to
  Closing; `poll_shutdown`, which waits for Closed, then polls itself for ever.
* `socket.rs:1059`: of two `recv` calls at once on one connection the second may return
  `Ok(0)` without an end of the stream; `NoFalseEnd` is about one reader.
* `rate_control.rs:171`: a loss that ends slow start is not remembered in `loss`, and
  the next ACK raises the rate.
* `control_packet.rs:252`: an IPv6 address that ends in twelve zero bytes, such as `::`,
  is read as IPv4. The field is the address that a handshake is sent to
  (`socket.rs:1135`, `188`), which may be any; nothing looks at it in a handshake that
  was received (`AsRead`).
* `connection.rs:67`: `connect` returns `Ok` with any status but Connecting, so also
  after the reply was lost, the EXP timer expired and the socket was closed
  (`ConnectReturns`).

**Bounds.** Three blocks, a send buffer of three, batches of two and a receive
buffer of one make everything happen that depends on sizes: a batch that is cut
short, a full send buffer, a gap of one between received packets, a packet
that does not fit, an ACK that covers part of a batch, a light ACK between two
ACKs, an eviction from an ACK window of two. Two ACKs (six in `transfer_live`) are
enough for one to overtake another and for a late ACK2.
The network of the adversarial runs is a set that never shrinks, so duplication
and delay are not bounded at all. `MAX_NUMBER = 31` keeps the window far from the
wrap, except in the runs that are about the wrap. `LossList` is checked with all
calls on six numbers, where three separate ranges fit.

`send_queue` has two sockets, two callers, three calls, two moments and a channel
of one: two callers are in every pair of parts of `update` for the same socket
while the worker is at any place, the channel fills up, and the bound of
`NodesBounded` is reached. `connect` gives one client three server sockets, an accept
queue of one, one acceptor, two repeated and one lost datagram and three minutes:
sockets break and are replaced, the queue overflows, a socket breaks, is shut down or
collected in the accept queue or in the hands of `accept`, and responses come with a
cookie that is current, one minute or two minutes old. In `connect_live` each of two
clients finds the other's socket in the map of peers; proofs cover both at once.

`lifecycle` has one block, which fills the send buffer of its writer, one reader at the
other end, two calls of `close` for the writer's user and one for the reader's, and two
events, each a call of `close` or a failure of the network; the collector may start a
close at either end. That is enough for a close to overlap with another of the same
end, with one of the other end, with an expiring timer, a Shutdown, the collector's
close and the removal from the table at each pair of their steps, and with a receive
worker at any place after its look. `lifecycle_linger` has one call. The proofs cover
any amount of data and any number of calls at both ends.
`rate_control` has four packets, batches of two and seven reports in a period, two more
than count; the window leaves slow start after three acknowledged packets. `packets`
has words of ten bits, two packets in flight and chunks for two, so that a short packet
follows a long one in the same chunk, and gaps on both sides of the wrap.

**Deadlock** is not checked where the bounds end the behaviour (all blocks
written, all ACKs used).

**Fairness** (`transfer_live`, `transfer_wrap`). Weak fairness of the send worker,
of the arrival of datagrams that are not lost, of the ACK and the EXP timer, and
of `recv`: the two workers are tasks in an endless loop whose only waits are for
work, timers are polled at least every 100 ms by the receive worker, and the
application is assumed to keep reading. Nothing is assumed of the application
that writes, nor of light ACKs.

`send_queue` assumes weak fairness of the worker, of the task at the other end
of the channel, of the clock, and of a caller that has begun `update` (which does
not await); calls themselves are not assumed to happen. `connect_live` assumes that
datagrams arrive, that woken calls go on, and that the acceptors keep calling
`accept`. Nothing is assumed there of `connect` itself.

`lifecycle` and `lifecycle_linger` assume weak fairness of the send worker; of the
receive worker, which takes data and ACKs while the peer is alive (those that are lost
are repeated), finds the ACK timer due, finds the EXP timer due when the peer is gone,
and goes on once it has looked; of the collector, which runs every second; and of each
task in `close`. That the linger time ever runs out is not assumed: `close` need not
look at it, and in `lifecycle_linger` does not. Nothing is assumed of the users, who need not read, write or close, nor of the arrival of a Shutdown.

## 4. Proofs

`TransferProofs` proves, for all sizes of buffers, batches and windows, all
numbers of blocks, ACKs and losses and any `CongestionWindows`:

* `InvariantHolds`: `Spec => []IInv`;
* from it `TypeCorrect`, `RcvLossCorrect`, `ReleaseCorrect`, `SndLossCorrect`,
  `LinkNotBroken` and the action property `AcksForward`, for both kinds of
  runtime and network;
* `StreamCorrect` (`[]StreamIntegrity`) and `StreamRefinement`
  (`Spec => Stream!StreamSpec`), for a single-threaded runtime, as
  `transfer_race` shows that they are false for the other.

* `WakeupNotLost` (`[]NoLostWakeup`), on either runtime and network;
* `LinkNotGivenUp` (`[]LinkKept`), for a single-threaded runtime and an orderly
  network, that is, one in which a datagram arrives once or is lost.

All of them assume `NoWrap`: the numbers of the connection stay between 1 and
`MAX_NUMBER` and span less than half of the cycle. Without it they are false, as
`transfer_wrap` shows.

**The inductive invariant.** None of the properties is inductive by itself. That
nothing is released too early needs to know that every ACK in the network, however
old, speaks of numbers that have been received (`NetInv`); that needs the ACK point
to lie below every number on the receiver's loss list and the receive buffer and
the loss list to share out exactly the numbers between `next_to_read` and
`curr_rcv_seq_number` (`RcvInv`). That the sender's loss list stays readable needs
`last_ack_received` to lie between `last_data_ack_processed` and
`curr_snd_seq_number + 1` although light ACKs move only the first (`SndInv`,
`AckInv`). That `curr_rcv_seq_number` never runs ahead of the sender needs the data
packets in the network to be ones that were sent (`NetInv`). The contents of
packets (`DataInv`) and the offset the send worker carries between its two steps
(`WorkerInv`) are right only if nothing runs between them. There is one lemma for
each action (`SendMessageInv`, `FetchBatchInv`, `ProcessAckInv`, ...), and the
arithmetic of sequence numbers is reduced to that of integers once, in
`SeqNumberProofs` (`SubExact`, `AddExact`, `FirstAfterExact`) and `UsedExact`.

`NoLostWakeup` needs more than `IInv` (`WakeInv`): while the socket is out of the send
queue, the packet that the worker has taken from the loss list is still in the send
buffer, because the ACK that would release it puts the socket back; so the worker does
send, and goes on. `LinkKept` says that a link is given up only after `EXP_LIMIT`
datagrams were lost. `ExpInv` counts: `exp_count` exceeds the losses by at most two, and
by two only while the first packet that the receiver misses is on the loss list, in the
hands of the worker or in the network, or an ACK is due that will reset the count. This
takes three more facts: an ACK2 confirms only what the sender has processed, so that the
receiver does not stop repeating an ACK too early (`Ack2Inv`); the receiver has room for
the packet it waits for, before its first ACK too (`RoomInv`); and when nothing is under
way and the timer expires, all that was sent and not acknowledged is put on the loss
list, the packet that the receiver waits for among it (`SilenceIsLoss`,
`ExpTimerResends`).

`LossListProofs` proves, for every `MAX_NUMBER`, `LossListRangesDisjoint`,
`LossListPeekIsFirst` and `LossListImplementsLossSet`, the refinement of `LossSetSpec`,
the last for lists that avoid inserts at zero over a range at zero, with which it is
false; `LossListInsertsAll` says what holds of every insert, those included. The
invariant, `Ranges`, is that the map is one of disjoint ranges, and each function of the
code is characterised by what it does to the numbers that lie in them (`InsertExact`,
`RemoveExact`, `PeekAfterExact`, ...). The loop of `remove_all` runs over the numbers of
a range, and what it computes is proved by its least counterexample: among the turns
after which the claim fails there is a first (`FirstBadTurn`), and the turn before it
leads to a contradiction (`LoopExact`).

`PacketsProofs` proves `CodecInverse`, that `deserialize` inverts `serialize` for every
packet of every type, NAKs included, and all values of its fields, with the one
exception named in its statement (the IPv6 addresses above), and from it `ReadAsSentCorrect` and
`NakNamesGapCorrect`, for every width of a word, longest packet, size of a batch and set
of packets. The arithmetic is in three lemmas (`DivMod`, `Widths`,
`SignedReadsBack`); the others follow the structure of a packet (`Header`,
`DataReadsBack`, `HandshakeReadsBack`, `AckReadsBack`, `ControlReadsBack`, ...). The
inductive invariant, `Inv`, says that the channel holds what was sent, written; nothing
is needed about what the buffer holds besides that it is made of words, since a datagram
is read from as many words as were just received.

`SendQueueProofs` proves `TypeCorrect`, `NoneStrandedCorrect`,
`NoMissedWakeupCorrect` and `NodesBoundedCorrect` for any sockets, any finite set
of callers and any bounds. `NoneStranded` and `NoMissedWakeup` are inductive given
the types: a caller that empties the socket's part of the heap is on its way to
`insert`, and a node at the earliest time that does not come out on top stands
beside an older one at that time, for which the worker has been told already.
`NodesBounded` is not: the nodes in the heap have to be counted together with the
one in the hands of the worker and those that callers are about to insert
(`NodesCounted`); the count starts again from zero whenever a caller finds the heap
empty of the socket or empties it. `UpdateCases` and `LookCases` say once what the
steps of a caller and of the worker do.

`ConnectProofs` proves `TypeCorrect`, `EndsAgreeCorrect`, `OneLiveSocketCorrect`,
`AcceptedOnceCorrect`, `PeerKeptCorrect` and `NoLostAcceptCorrect` for any clients, keys,
acceptors, sizes and numbers of lost and repeated datagrams. `OneLiveSocket` needs that
a socket that is live is the newest one of its client, that is, has the smallest id:
`new_connection` finds the first id of the peer in the table and makes another socket
only if that one is Broken or gone, and an older socket is never live again. `EndsAgree`
needs that every reply in the network names a socket made for the client it is
addressed to. `AcceptedOnce` needs that an id is held by at most one acceptor and by
none while it is in the queue. `NoLostAccept` is inductive given the types.
`WorkersRunCorrect` assumes `NoRepetition`: no datagram arrives twice, the accept queue
has room for a connection of every client, and at most one minute begins, so that no
cookie is too old; any number of datagrams may be lost, timers expire and connections
close. Without it the property is false (section 3). Its invariant, `OnceInv`, says that
a client has at most one handshake under way, always the next one that is expected, and
at most one socket at the server, so that the queue is never full (`QueueHasRoom`).

`LifecycleProofs` proves `LifecycleTypes`, `CloseLosesNothing`, `NoFalseEndCorrect` and
`NoLostReaderCorrect` for any amount of data and any calls of `close` at both ends. For
`GracefulClose` the invariant says that a close that is past its linger loop, with its
time not over, on a connection that is still alive, has had all it began with
acknowledged, so that it is readable at the peer, and so is what has been promised
(`CloseInv`); and that a reader which has failed is at an end that is not connected
(`ReaderInv`), so that a promise to a connected peer is made before any read there
fails. A reader fails only if it has read all that is readable (`GracefulStep`).

`RateControlProofs` proves `TypeCorrect`, `SlowdownsBounded`, `CountersBounded`
and `RatesStayPositive` for all windows, batches and rates. `BurstBounded` counts the
slowdown that ends slow start too, which is outside the five of a period because it
returns before the counters are touched; it happens once, so that the bound is six. It
needs that after a slowdown `last_dec_seq` is the last packet sent until a new one is,
so that every report counts into the same period, and that the slowdowns of a period
are no more than the reports that count (`BurstInv`); the average of at most five
reports, rounded up, is at most five (`CounterInv`).

`TypeOK` of `SendQueue` and `RateControl` and `PeerKept` are proved and, being proved for
all sizes, have no run.

**Only model-checked.** All liveness properties (`EveryBlockDelivered`, `EveryBatchSent`,
`ConnectSucceeds`, `EveryConnectionAccepted`, `ReaderTold`, `SocketCollected`,
`PeerLearns`, `AckWaitersGoOn`), which are out of the prover's reach. Every invariant and
every other action property that a passing run checks is also proved, under the
assumptions named above.

## 5. What is not modelled

* The contents of blocks, message boundaries and messages out of order: `send`
  always asks for in-order delivery without a time to live, so `drop_msg` and
  `MsgDropRequest` have no sender in this repository.
* Real time: the length of periods, RTT and the medians of the flow statistics only
  choose *when* something happens, and the models let it happen at any time. The
  congestion window that `RateControl` computes is any member of a set in `Transfer`.
* Datagrams that no peer of this implementation sends: malformed packets, other
  versions or socket types, `UserDefined` packets.
* Closing a listener.
* Several listeners or clients on one multiplexer, and the creation and binding of UDP
  sockets.
* Locks: a step of a model is what the code does under one lock, so that the order in
  which locks are taken is not checked.
* Rendezvous mode (`configuration.rs`: "NOT IMPLEMENTED").
* The command line programs.

## 6. Plan

1. *Done*: sequence numbers, loss list, buffers, data transfer, their abstract
   specifications and the proofs above.
2. *Done*: `SendQueue` and its theorems.
3. *Done*: `Connect` and its theorems.
4. *Done*: `Lifecycle`, `RateControl`, `Packets` and their theorems.
5. A composition of `Connect` with the first data packets, where data overtakes the
   reply to the handshake; ids that wrap in `Connect`.
6. *Done*: `NoLostWakeup`, `LinkKept`, `WorkersRun` and the loss list as theorems.
