# Verification of the fundamental library

TLA+ models of the concurrent and protocol parts of the library under
`src/src`, the TLC configurations that check them on small instances, and
TLAPS proofs of the safety properties that the runs check, for every value of
the constants.  Every definition translates source lines; `PROJECT.json` maps each
one to them, lists the hazards each property is about, and gives for every
property a plausible slip in the code that the property catches.  Source paths
below are relative to `src/src`.

## The system and how its parts interact

`fundamental` is a C++ utility and networking library.  From the bottom up:

| part | source | role |
|---|---|---|
| basic, algorithm, io, process, rttr_handler | `fundamental/...` | sequential helpers: codecs, reflection, files |
| delay queue | `fundamental/delay_queue` | timers in an ordered map, run by whoever calls `HandleEvent` |
| events, application | `fundamental/events`, `fundamental/application` | event queue and main loop; the loop drives the delay queue |
| thread pool | `fundamental/thread_pool` | timed tasks, workers that come and go |
| io_context_pool | `network/io_context_pool.*` | io threads, registries of objects and timers, graceful stop |
| async_utils | `network/async_utils.hpp` | write queue and close discipline of every connection |
| RUDP | `network/rudp` | handshake over UDP; KCP retransmission carries the data |
| RPC | `rpc` | client with calls and reconnection; streams on an upgraded connection |
| proxies | `rpc/proxy` | forwarding connections (transparent, SOCKS5, WebSocket, pipe) |
| FRP | `rpc/proxy/frp` | server that pairs relays, clients that upgrade a relay to P2P |

Two threading patterns recur.  The first layer shares state between threads under
mutexes and condition variables, so its models split an operation where it lets
go of the mutex.  Everything above `io_context_pool` is asynchronous: an object
belongs to one io thread, a handler runs to its end, and what interleaves is
the order in which posted handlers, timers and completions run.  There a handler
is one action, what it posts is another, and a user's thread takes its own steps.

## Modules

| module | models | state and actions |
|---|---|---|
| `DelayQueue` | `delay_queue.cpp` | sessions (`taskStorage`) and the ordered map (`processingTasks`); one action per API call, `HandleEvent` in the parts between which it holds no mutex |
| `EventLoop` | `Application::Loop`, `EventsHandler::Tick`, `EventSystem` | extends `DelayQueue` with the loop thread as its dispatcher, posters, and a thread that wakes the loop and then changes timers |
| `ThreadPool` | `thread_pool.cpp` | queue, local caches, workers, clients, `Join`, `WaitAllTaskFinished`; an iteration of `Dequeue` is one step, all that lies outside `m_tasksMutex` is a step of its own |
| `IoContextPool` | `io_context_pool.cpp` | `stop`, `wait_stop`, `reg_object`, `reg_timer`, the handler queue of one io_context, and objects that follow the close discipline |
| `SerializedWriter` | `async_utils.hpp` with its owner in `frp_client.cpp` | the write queue, its completions, and the close sequence |
| `RudpHandshake` | `asio_rudp.cpp` | client sockets, server sessions, the listener's tables, acceptors; SYN, SYN_ACK, SYN_ACK2, RST over a network that may deliver any frame ever sent, at any time, any number of times |
| `MessageChannel` | what a KCP conversation promises | two queues of bytes; a send adds to one, a receive takes from its front |
| `Kcp` | `kcp_imp/ikcp.c` | both ends of a conversation; loss, repetition, reordering |
| `KcpChannel` | how `Kcp` implements `MessageChannel` | the mapping from queues, windows and buffers to the bytes in transit |
| `RpcClient` | `rpc_client.hpp`, the client | connecting, epochs, calls with timers, outbox, read loop, deadline, release |
| `RpcStream` | `connection.h` and `rpc_client.hpp`, the streams | both ends, each with a user's thread and an io thread: write tokens, paused reads, heartbeat, timeout |
| `ForwardConnection` | `rpc_forward_connection.cpp`, `proxy_buffer.cpp` | resolve, connect, retry, TLS, two directions with caches and partial writes, speed limit, half close, release |
| `FrpChannel` | `frp_client.cpp`, `frp_punch_engine.cpp`, the P2P handlers of `frp_accessor.cpp` and `frp_provider.cpp` | both ends of a data channel and its upgrade from the relay to a punched path |
| `FrpServer` | `frp_server.cpp` | sessions on different threads, the tables they share under a mutex, registration, pairing, removal, and clients that reconnect |

`MCKcp` and `MCRpcStream` give the constants of their modules that a `.cfg`
cannot write (message sizes, user scripts).  The `_proof` modules hold the
theorems.  The library behind asio (timers, sockets, the resolver), the peers
and the network are modelled from how the code uses them and marked external.

Undefined behaviour ends a model's run in a state the properties mention by name:
`crashed` in `ThreadPool` (a pop of an empty queue), `overlapped` in `RpcStream`
and `ForwardConnection` (two reads or writes on one socket).  A property that
holds "unless `crashed`" says so in its text.

Each module has a type invariant (`TypeOK`, or `LoopTypeOK`, `PoolTypeOK`,
`WriterTypeOK`, `RudpTypeOK` where a proof module extends two components and their
names must differ).  It is a debugging aid for whoever changes a module: add it to
the INVARIANTs of a `.cfg`.

## What the runs show

All runs are exhaustive on their instance.

| run | instance | shows |
|---|---|---|
| `event_loop` | 1 session, 1 poster, 1 timer thread, clock 0..2, 2 queued events | the map holds exactly the keys of live working sessions; only due sessions fire; `Exit` ends the loop though its wake-up may be lost; events do not starve timers |
| `thread_pool` | 2 tasks, delays 0 and 1, a reserved and a temporary worker, one late one | no task lost or in two places; nothing runs after `Join`; every task runs; `Join` and the wait return |
| `io_context_pool` | 2 waiters, 1 stopper, 1 object | `stop()` returns only when what was registered has been released; it returns unless someone arrives behind its back |
| `serialized_writer` | 4 packets | one write in flight, in push order; nothing forgotten |
| `rudp_handshake` | 1 endpoint, 2 sockets after each other, 2 sessions, backlog 1, 1 retry, both stream modes | no old frame connects a session to the wrong peer; connect completes; the backlog drains; destroying the server closes what was not accepted |
| `kcp` | 2-byte segments, windows of 2, 2 datagrams under way, messages of 3 and 1 bytes, streams of 1, 2 and 6 | implements `MessageChannel`; buffers bounded; acknowledged means held; what is sent arrives or the link is dead |
| `rpc_client` | 2 calls, 2 connection attempts, 1 heartbeat | one read loop and at most one write per connection; no request twice; it keeps trying; calls finish |
| `rpc_stream` | 3 scripts for the two users, write limit 1, read limit 0, 1 frame on the wire | order; bounded cache; success means complete; the end of one side frees both users |
| `forward_connection` | 3 chunks up, 1 down, caches of 2 buffers of 2 chunks, limit 1, 2 retries | nothing lost inside; one operation per socket end; the surviving direction delivers; two ends of stream take it down |
| `frp_channel` | 1 retry, 1 round, 3 messages under way per direction | of two ends that left the relay one always reaches the other; no attempt unguarded; no upgrade half done; a close reaches the peer |
| `frp_server` | 2 clients, 1 service, 1 channel, 4 session objects, 1 broken connection | names agree with registrations; living sessions are listed; relay halves end together; clients end up registered |
| `writer_completion_survives_clear` | 2 packets | violated: see the finding below |

### Bounds, and why they are enough to be interesting

- `event_loop`: two clock steps let a timer be re-armed, shifted and fire between
  the loop's reads of the clock; a queue of two lets `EventsTick` reach its limit
  with events left over.  Once the clock stands still a sleep still ends.
- `thread_pool`: two tasks with different delays give the exchange of a cached
  task for an earlier one; a temporary worker gives the idle timeout; `MaxLate`
  gives the worker spawned behind `Join`.
- `rudp_handshake`: two sockets of one endpoint are what it takes for a frame of
  the first to reach the second; a backlog of one makes it fill.
- `kcp`: windows of two and a stream of five segments close the window and force
  the probe; two datagrams reorder, repeat and overtake each other; a message of
  two fragments meets the fragment count.
- `rpc_client`: the second attempt is what makes a stale handler possible.
- `rpc_stream`: limits of one and zero make every write wait for its token and
  every read pause.
- `forward_connection`: a buffer of two chunks lets a read extend a buffer that
  is being written, a cache of two makes the reader stop and be restarted.
- `frp_channel`: a retry is a second attempt, for which the messages of the first
  are stale.
- `frp_server`: four objects hold two signalling sessions and both halves of a
  relay, or a session that overlaps the one it replaces; they are reused.
- The safety properties of every run are also proved for every size; for them the
  bounds only matter to whoever changes a module and wants a counterexample.

### Fairness

Liveness is checked under weak fairness of what the program itself schedules:
threads that can run, posted handlers, armed timers, completions of started
operations.  Calls a user may or may not make, and what the network or a peer may
or may not do, have none, with these exceptions:

- `Kcp` assumes strong fairness of the delivery of window questions and of
  answers: a network that loses every one of them cannot reopen a window.  Data
  and acknowledgements need not arrive; then the link is declared dead.
- `ForwardConnection` assumes that started connects and reads complete and that a
  target that has not ended its connection reads.
- `FrpChannel` assumes that the server closes the half of a relay whose other half
  is gone, which is `HalvesEndTogether` of `FrpServer`.  Every probe and message
  may be lost.
- `FrpServer` assumes that a client notices a close and connects again, as
  `frp_signal_client` does; the network breaks finitely many connections.
- `EventLoop` assumes that time passes, and `RpcStream` that the users go on with
  their scripts when a call of theirs returns.

`CHECK_DEADLOCK FALSE` is in every configuration: each of these systems may come
to rest (everything sent, joined, closed or released).  That nobody is left
waiting in such a state is what the liveness properties say.

### The refinement

`ImplementsChannel` in `KcpChannel` is `MessageChannel`'s specification under a mapping:
the bytes in transit to an end are those of its receive queue and receive buffer,
then those of the far end's send buffer it does not have yet, then its send
queue.  Each `Send` and `Recv` of KCP is then a step of the channel, and every
input, flush, loss, retransmission and probe is a stuttering step: segments
change places and the bytes between the users stay the same.

### The finding

`writer_completion_survives_clear`: `network/async_utils.hpp` pops the front of the queue
in a completion; when a completion that has succeeded is already queued behind
the close sequence, `clear()` has emptied the queue and `pop_front` meets an empty
deque.  `PROJECT.json` quotes the comment it disagrees with.

## What is proved

`tlapm` checks every leaf of these proofs.  They hold for every value of the
constants that satisfies the module's named assumption.

| module | theorem | states |
|---|---|---|
| `EventLoops_proof` | `TypeCorrect`, `QueueAgreement`, `FiringIsDue` | `DelayQueue`: `[]TypeOK`, `[]QueueMatchesSessions`, `FiresOnlyWhenDue` |
| | `LoopUsesQueue` | `EventLoop` implements `DelayQueue`'s specification |
| | `LoopQueueAgreement`, `LoopFiringIsDue` | hence both properties hold inside the loop |
| | `StopIsOrderly` | `IoContextPool`: `[]StopReleasesObjects` |
| `PoolAndHandshake_proof` | `TasksKeepTheirPlace`, `JoinIsFinal` | `ThreadPool`: `[]EachTaskInOnePlace`, `[]NothingRunsAfterJoin` |
| | `ConnectedToEachOther` | `RudpHandshake`: `[]ServerAgreesWithClient` |
| `Kcp_proof` | `WindowsHold`, `NoSegmentForgotten` | `[]BuffersBounded`, `[]AckedIsHeld` |
| `RpcClient_proof` | `OneReadLoop`, `RequestsWrittenOnce`, `NeverGivesUp` | `[]OneLoop`, `[]SentOnce`, `[]KeepsTrying` |
| `RpcStream_proof` | `MessagesInOrder`, `PauseBoundsCache`, `SuccessMeansComplete` | `[]InOrder`, `[]CacheBounded`, `[]SuccessIsComplete` |
| | `StreamTypes` | `[]TypeOK` |
| `ForwardConnection_proof` | `NothingLost`, `OneOperation`, `Types` | `[]NothingLostInside`, `[]OneOperationEach`, `[]TypeOK` |
| `FrpChannel_proof` | `UpgradesConnect`, `AttemptsGuarded`, `Types` | `[]UpgradeConnects`, `[]AttemptGuarded`, `[]TypeOK` |
| | `WritesAreSerialized` | `SerializedWriter`: `[]OneWriteInFlight` |
| `FrpServer_proof` | `NamesFollowRegistrations`, `LivingSessionsAreFound` | `[]NamesAgree`, `[]ListedWhileAlive` |

Three proof modules hold two components each, which share no state: the event loop
and the io_context_pool, the thread pool and the RUDP handshake, and the data channel
and the write queue that it owns.  They extend both modules, so each theorem is about
the specification its run checks, under that module's own assumption.

The argument of each, and why its invariant has to be strengthened:

- **DelayQueue.**  `QueueMatchesSessions` is inductive together with the types.
  `FiresOnlyWhenDue` needs that a dispatcher's copy of the clock is never ahead of
  it, and that its list of callbacks is empty before it collects.
- **EventLoop.**  Each step of the composition is a step of `DelayQueue` or leaves
  its variables alone; the theorems of `DelayQueue` carry over.  The only
  assumption needed is that there is a dispatcher.
- **ThreadPool.**  That a task is in one place does not survive a step by itself.
  The invariant adds where a worker may stand while it holds a task (`HoldsAt`),
  that what is queued or held has not been claimed by anyone (`Unclaimed`), and
  that a task nobody has scheduled is nowhere (`NewNowhere`).  `JoinIsFinal` uses a
  second invariant: once `Join` has swapped out the workers, a worker outside
  the swapped set was spawned late and takes no task, because it looks at
  `m_joining` first.  Assumed: there is a worker, and no more are reserved
  (`MinThreads`) than there may be.
- **IoContextPool.**  One caller of `stop()` does the work (`OneStops`); the guard is
  given up after the objects have been driven, and only then can `run()` return
  (`GuardLast`); an object registered at the start is released, or registered, or in
  the map being driven, or its close sequence is posted (`OnItsWay`).  Assumed:
  finitely many waiters and objects.
- **SerializedWriter.**  While the socket is open there is a write in flight, or one
  completion queued, or an empty queue (`WriteCycle`); the pushes under way are the
  packets behind the queue, in order (`PushesInOrder`).  After the close nothing is
  handed to the socket, so nothing more is claimed of the queue.
- **RudpHandshake.**  Every frame ever sent stays deliverable, so the invariant is
  about the history of the network: only servers send SYN_ACK, and every SYN_ACK2
  carries the two ids of a client that was connected when it sent it
  (`FramesHonest`).  A client that connects records the session whose SYN_ACK it
  answers (`ClientsRecorded`); a session takes a SYN_ACK2 only with its own two ids.
  Nothing is assumed of the constants beyond the module's assumption: any number of
  endpoints, sockets, sessions and retries.
- **Kcp.**  A datagram removes segments from a send buffer by its `una` and, if it is
  an ACK, by its `sn`.  So every datagram under way and every number in an
  acknowledgement list must speak of what its sender holds (`NetHonest`,
  `AcksHonest`), and this survives because a receiver loses nothing that it has
  (`KeepsHeld`).  That the window arithmetic stays in the naturals needs the types of
  queues and buffers, and that no segment is longer than `mss`; how many segments
  move to the receive queue and what is the oldest unacknowledged one are least
  elements of sets of naturals, which exist because `<` is well founded.  Assumed:
  each end is the far end of its far end, sizes and windows are positive.

- **RpcClient.**  Everything follows from what is in flight.  `Expects` says which
  operations a status calls for; `InFlight` says that each of these is there once and
  that every other one carries an older epoch, so that its handler returns at the
  epoch check.  The delay timer does not look at the epoch, so there must be none
  left over when a connection begins.  `OneRequest` follows a call's request from the
  post to the outbox to the socket and says that it is at one of them.  `Trying` is
  the part of `KeepsTrying` that `InFlight` does not give: a client closes for good only
  before its first attempt or when the deadline timer has dropped it.  Assumed: a
  heartbeat is no call.
- **RpcStream.**  `Linked` is a chain from the messages a reader has taken to those the
  writer has accepted: those on the wire, in the queue of an open writer, and posted by
  a valid one, consecutive numbers throughout; it is broken off where an end is reset,
  and then the reader takes nothing more.  `Sealed` puts a write_done behind all data
  of the chain, which is what makes success mean complete; it needs a user that does
  not write after `WriteDone` (`ClientContract`, what `WriteDone` announces).  The cache
  is bounded because a cache at its limit belongs to a reader that is paused with no
  read in flight (`Paused`); `Limit` is one more on the client, which pauses
  a cache that has passed its limit, than on the server, which pauses one that is full.
- **ForwardConnection.**  The functions of the connection are rewritten by lemmas into
  updates of one record, and each gets a lemma that it keeps `Good`.  `Good` says per
  direction that the buffers are shaped as the code leaves them (only the first is
  partly sent, all but the last are full: `Shape`), that a pending read has room, that a
  pending write carries the chunks after those delivered and lies within the first
  buffer, and that the buffers number the chunks from the delivered ones to the taken
  ones without a gap (`Linked`).  That a read may extend the buffer that is being
  written is why the write's chunks are kept apart from the buffer.  `UnsentIs` computes
  what `Unsent` concatenates: a least buffer at which it differs from the numbers
  expected cannot exist.  The property proved is stronger than the one first checked:
  it holds while the connection is valid, a direction that can no longer write included.
- **FrpChannel.**  P2P messages name ports and no attempt, so a stale one may give an
  engine the ports of an attempt that is over.  What survives: an engine bears the
  number of the last attempt of its end and no hint is ahead of the attempts
  (`Numbers`), and as soon as a probe can arrive one end knows the current attempt of
  the other and no older hint is on its way to it (`OneIsCertain`).  The provider's
  result comes after the accessor's, by a confirm_ok that is unique (`Once`,
  `OkFollows`), and one of two results names the other's socket (`Met`).  That both do is
  not true with three or more retries: a late p2p_handshake overwrites the endpoint
  that an engine has learnt with that of an earlier attempt (`on_peer_info`).  The end that is sent to then learns the
  sender from the datagram (`Datagram`, `start_p2p_read_loop`), which is why one is
  enough.  `AttemptGuarded` is inductive with this invariant.
- **FrpServer.**  The invariant is a predicate on the tables under the mutex, so that
  `remove_session`, which other operations call halfway, is shown to keep it once.  An
  entry of the session table is what its key says (`Entries`); names are those of listed
  clients, which share none (`Names`); what a session has been told agrees with its
  phase (`Consistent`), and a valid one is the table's entry (`Found`).  A registration
  that is between its two critical sections has no entry, and no client has two of
  them.

### What is only model-checked

Every invariant and action property of a passing run is proved.  What is left to TLC is
liveness (the prover handles neither fairness nor ENABLED) and the refinement of
`MessageChannel`, whose mapping concatenates over a range of sequence numbers: what a
fold or a recursive definition computes is provable only by induction over data,
which is out of the prover's reach unless, as for `Unsent`, a least counterexample to
a closed form will do.

## Where the code departs from its comments and docs

Met while modelling, and described here rather than checked.  Paths outside
`src/src` are given from the repository's root.

- `event_system.h:90` and `delay_queue.cpp:113` wake the loop before they make the
  change; `event_process.cpp:20` and `:26` promise a wake-up for it.  The loop sees
  the change at its next timed wake-up, which is why `ExitEndsLoop` holds.
- `event_system.cpp:13` counts down `maxProcessTimeMsec`; the documented
  `maxProcessEventNums` (`event_system.h:34`) is not used.
- `thread_pool.cpp:244`: a task leaves `waiting_cnt` before it is counted as running,
  so `WaitAllTaskFinished` ("wait for all tasks to complete execution",
  `thread_pool.h:175`) can return while one is about to run.
- `thread_pool.cpp:228`: `top()` and `pop()` without a test for an empty queue, when a
  worker wakes with a cached task.  The model continues up to `crashed`.
- `io_context_pool.cpp:126`: a `wait_stop` that has passed its test of `stopping_` before
  `stop()` posts its wake-up arms a timer nobody cancels, and both block;
  `docs/asio-async-standards.md:674` says that `stop()` wakes everyone.
- `io_context_pool.cpp:98`: a second caller of `stop()` returns at once, where
  `io_context_pool.hpp:39` says that it blocks until all contexts have stopped.
- `rpc/connection.h:788` and `:902`: a user's `Read` can resume the read loop between
  the io thread's test for a pause and its own read; two reads are then in flight
  (`overlapped`), against `docs/asio-async-standards.md:338-340`.
- `rpc_client.hpp:1022`: the deadline timer closes the connection and nothing
  reconnects.  `:572`: unsubscribe sends `rpc_subscribe`.  `:709`: the outcome of
  `wait_for` is ignored.  `:1155-1163`: a body of exactly `MAX_BUF_LEN` ends the read
  loop without an error.
- `rpc_forward_connection.cpp:423`: `expires_after` cancels the wait armed in `start()`,
  against the comments at 29 and 422, so the idle check does not come again.
  `:561`: a failed TLS handshake returns without a disconnect.
- `frp_server.cpp:281`: the close sequence of a replaced session removes the
  registration by uuid, which by then is its successor's; the client recovers by
  connecting again (`StaysRegistered`).

## Not modelled

`PROJECT.json` lists every part with its status.  The reasons, by kind:

- *Sequential code about formats and bytes*: basic, algorithm, io, process,
  rttr_handler, database, HTTP, FRP commands and configuration, the header
  exchanges of the SOCKS5, WebSocket and pipe proxies (the forwarding behind them is
  `ForwardConnection`), TLS, encryption.
- *Memory orders*: the vendored single-producer single-consumer queues; an
  interleaving model does not show what they rest on.
- *A single critical section per operation*: the proxy manager's table of routes;
  `data_storage`, whose expiry is the delay queue's.
- *Within reach and left out*: netlink (players that exchange keyed data over RPC
  calls); `QueueMPMCBounded` and the step executor, which only tests use; a second
  `connect` of one RPC client, and the moment an RPC client becomes a stream, for
  which `RpcClient` and `RpcStream` would have to be composed; subscriptions; the
  server's accept loop and protocol detection; `rudp_async_wait_connect`.
- *Abstracted inside modelled parts*: the wrap-around of KCP's 32-bit sequence
  numbers, its rtt estimate and congestion window (RUDP turns the latter off), and
  the packing of segments into datagrams; partial reads and writes of an RPC frame;
  ports and NAT types in `FrpChannel`, where an attempt's number stands for its
  ports; several register keys in `FrpServer`.
- *Third-party libraries, applications and samples*: outside the library.
