# A TLA+ model of rfrp

rfrp is a reverse proxy tunnel: a client inside a private network connects to a
public server, registers the ports it wants to expose, and the server forwards
what external users write to those ports through the one connection to the
client, which opens connections to the internal services. This directory models
a whole session of that tunnel, the path of its bytes below it (channels,
encoding, stream, buffered writers) and the life around it (configuration,
accepting, handshake, reconnecting), checks them with TLC and proves part with
TLAPS.

    external user -- server session ==== link ==== client session -- internal service

## 1. The system

| Component | Source | State it keeps | Operations |
|---|---|---|---|
| Frames | `rfrp_proto/src/frame_types.rs`, `rfrp_config/.../base_types.rs` | none | constructors of `RfrpFrame` |
| Link | `rfrp_proto/src/coalesce.rs`, the read halves in both `run_proxy` | the 256-slot channel, the write task, the stream | send, read, end of stream, failed write |
| Server session | `rfrp_server/src/run_proxy.rs` | `proxy_routing`, `cached_routing`, `next_proxy_id`, `proxy_tasks` | register, ping, data, end of session |
| Proxy listeners, external connections | `rfrp_proto/src/frame_handle.rs` | listening socket, `next_conn_id`, the inner routing table, the semaphore of permits, one channel per connection | bind, answer, accept, permit, read and write task |
| Client session | `rfrp_client/src/run_proxy.rs` | `proxy_configs`, `proxy_conns`, `cached_conns`, one channel per connection | register, await the answer, data, dial, heartbeat, end of session |
| Handshake | `rfrp_proto/src/handshake.rs` | nonces, session key | exchange with time limits |
| Reconnect loop | `rfrp_client/src/lib.rs` | `attempt`, delay | connect, run a session, back off |
| Accept loop | `rfrp_server/src/lib.rs` | semaphore of 64 clients | accept, wait for a permit, hand over |
| Encoding, encryption, compression | `frame_encode.rs`, `frame_decode.rs`, `crypto.rs`, `compress.rs` | nonce counter, reused (de)compressor and buffers | encode, decode |
| Configuration | `rfrp_config/src/config_parser.rs` | none | parse, validate |
| Command line | `rfrp_main`, `rfrp` | none | parse arguments, dispatch |

**Interaction.** Inside a process the tasks share maps (`DashMap`) and bounded
mpsc channels. Every frame for the peer goes through one channel to one write
task; every frame of the peer is handled by one main loop, which awaits the
channel of the connection it forwards to. There is no frame that closes a
connection: each side learns that a peer of the *other* side has gone only when
data arrives for it.

**What is hard here.**

- *Head-of-line blocking.* Each main loop is the only reader of its link and
  waits in sends; back-pressure can close a circle through both processes.
- *Clones used after the lookup.* Both loops clone a sender out of a map and
  use it later; the map, the receiver or both may be gone by then.
- *Clean-up by key.* Read tasks remove map entries by `conn_id` when they end.
- *Answers from concurrent tasks.* Registrations are answered by spawned tasks;
  the client pairs an answer with a request by order alone.
- *Caches.* Both loops cache the table of the last proxy, and connections of
  different proxies have the same `conn_id`s.
- *Silence.* Keepalive deadlines exist only inside a `select!`.
- *Ends.* A session that ends leaves tasks behind, which hold senders, sockets
  and ports until they end by themselves.
- *Buffers.* Bytes rest in a `BufWriter` until somebody flushes it, and errors
  of the flush are ignored.
- *Timers.* A client that lost its connection meets its own old session, which
  holds the port until the server's timeout; pings race the same timeouts.
- *Permits.* 64 sessions at a time; the rest wait while their clients' handshake
  timeouts run, and abandoned sockets are only noticed when they get a permit.

**What makes each component correct.**

- Link: frames arrive in order, nothing is queued beyond the capacity.
- Server session: each registration is answered exactly once; data goes to the
  connection its frame names; a route exists exactly while its user may read;
  ports are released at the end; the session ends when the peer is gone.
- Client session: its maps hold live connections only; it dials only what was
  registered; it never dials over an existing entry.
- Both together: they agree on what a `proxy_id` means; bytes are neither
  reordered nor duplicated, nor lost between two ends that are still there;
  no byte reaches somebody else; under fair scheduling bytes arrive.
- Encoding, transport and buffered writers: together one FIFO that loses nothing
  but a tail when a part of it ends, and holds nothing back while it is idle.
- Accept loop, handshake, reconnect loop: permits are conserved; only a client
  with the token is served; after any fault a client is served again if its
  peers leave it a permit, and within a bounded time if it need not queue for
  one; a live peer is never taken for dead; abandoned connections do not stay.
- Configuration: a client serves all of its entries or none.

## 2. Modules

| Module | Models | Extends |
|---|---|---|
| `Frames` | the vocabulary: entries, ids, keys, payloads, frames | |
| `Link` | one FIFO per direction, write tasks, ends, timeouts, cuts | `Frames` |
| `ServerSession` | the server's `run_proxy` and all `handle_reg_frame` tasks | `Link` |
| `ClientSession` | the client's `run_proxy` and all internal connections | `Link` |
| `Tunnel` | both sessions joined by the link; `Spec`, `FairSpec`, end-to-end properties | both sessions |
| `ServerOpen` | the server session against a peer that sends anything | `ServerSession` |
| `ClientOpen` | the client session against a server that sends anything | `ClientSession` |
| `Pipe` | abstract: a bounded FIFO whose end loses a tail | |
| `Transport` | one direction of the link: channel, write task, encoder, cipher, stream, decoder | |
| `ConnWriter` | the buffered write task of a forwarded connection, byte by byte | |
| `Path` | an answer's whole way from the internal read task to the user's socket; refines `Pipe` | `Transport`, `ConnWriter` |
| `Lifecycle` | accept loop, semaphore, handshake, registration of one port, reconnecting | |
| `Keepalive` | heartbeat, both timeouts and the reconnect delay, with a clock | |
| `Startup` | `ConfigInfo::new`, `validate`, dispatch, registration of all entries | |
| `MCTunnel`, `MCServerOpen`, `MCClientOpen`, `MCLifecycle`, `MCStartup` | ports, tokens and files of the checked instances | |
| `SessionProofs` | lemmas about frames, the link, the routes and single steps of either session | both sessions |
| `TunnelProofs` | theorems about the whole session | `Tunnel`, `SessionProofs` |
| `ServerOpenProofs`, `ClientOpenProofs` | theorems about one session against any peer | `ServerOpen`, `ClientOpen`, `SessionProofs` |
| `PathProofs`, `LifecycleProofs`, `KeepaliveProofs`, `StartupProofs` | theorems about the other layers | the module of that name |

Definitions whose comment says *Seeded fault* are variants of the definition
that follows them with a plausible mistake in it. No specification uses them.
They show that each property would notice such a mistake.

### State and steps

A step takes one task from one `await` to the next; everything it does between
the two, including updates of shared maps, is one action. A loop that waits in
a send is in a control state of its own (`smain` is "reply", "pong" or "route";
`cmain` is "connect" or "deliver"), so every other task may run between a lookup
and the send that follows it. Names of variables are those of the code where it
has one.

- *Main loop of the server*: `SRegister`, `SRegisterOverLimit`, `SPing`,
  `SIgnore`, `SData`, then `SRoute`, `SRouteError` or `SSend` for the send, and
  `SStop` for everything that leaves the loop.
- *Listener task of proxy p*: `LBind` or `LBindFails`, `LAck` or `LReject`,
  then `LAccept` and `LPermit` for each user, `LAbort` when the session ends.
- *External connection c*: `ERead`, `ESend`, `EReadEnds` (read task), `EWrite`,
  `EWriteEnds` (write task), `EClose` (the user).
- *Main task of the client*: `CRegister`, `CRegistered`, `CReturn` (phase 1),
  `CData`, `CConnect`, `CConnectFails`, `CDeliver`, `CDeliverError`, `CIgnore`,
  `CStop` (phase 2), and `CPing` (heartbeat).
- *Internal connection k*: `IRead`, `ISend`, `IReadEnds`, `IWrite`,
  `IWriteEnds`, `IClose` (the service).
- *Write task of either side*: `SWriterEnds`, `SWriterFails`, `CWriterFails`;
  on the client its regular end is part of `CReturn` and `CStop`.

### Abstractions

- A payload is its origin (key and internal connection) and its number in the
  stream of that origin. One read of a socket yields one chunk.
- A key is `<<proxy_id, conn_id>>`. Internal connections are numbered in the
  order the client opens them; the code identifies them by their senders.
- The outer map of the client creates a missing inner map on lookup, so one
  function `proxy_conns` from keys to connections stands for both levels. The
  server has an outer map that can lack a proxy, hence `proxy_routing` and
  `routing`.
- A direction of the link is one queue: channel, encoder and stream. `LinkCap`
  is the number of frames that fit before a sender waits. `CStop` aborts the
  write task, so any suffix of that queue may be lost; `CReturn` lets it drain.
  Because channel and stream are one queue, `SWriterEnds` marks the moment from
  which nothing more is queued; the write task of the code ends a little later,
  once it has written what is left (`Transport` has the two apart).
- A channel without receiver refuses what is sent (`SRouteError`,
  `CDeliverError`); a channel without sender ends its receiver. Which tasks
  hold a clone of a sender is written out in `TxChannelHeld`, `EWriteEnds` and
  `IWriteEnds`.
- A write to a socket whose peer has closed may fail or be accepted and lost.
- Faults are enabled one by one by the constant `Faults`: cut network, keepalive
  timeouts, ports that cannot be bound, services that refuse, users and services
  that close, heartbeats.

### Layers below and around the session

The session modules take three things for granted, and other modules look into
each:

- *A direction of the link is a queue.* `Tunnel` instantiates `Pipe` twice and
  `LinkIsPipe` says that `Link`, as both sessions use it, implements it.
  `Transport` has the parts: `Send`, `Encode` (which advances `nonce_counter`
  and resets the reused `Compress`), `WriteFrame` and the ends of the task,
  `NextDecodes` and `NextFails` for the other side. A ciphertext is a record of
  what decides whether it decodes: key, nonce and how many earlier frames its
  DEFLATE block may refer to.
- *A channel of a connection drains into its socket.* `ConnWriter` has the
  `BufWriter`: chunks smaller than, equal to and larger than its capacity, the
  flush when the channel is drained, the ignored errors, the flush after the
  loop. Server (`frame_handle.rs:185`) and client (`run_proxy.rs:363`) run the
  same loop.
- *A session starts and its port is free or not.* `Lifecycle` has several
  clients, each with one proxy, and their connections from TCP connect to the
  end of `run_proxy` on both sides; a process may be killed and started again.
  A message is the nonce, the key a `Register` is sealed under, or the answer.
  `Keepalive` has one client and counts time in ticks: `cidle` and `sidle` are
  the ages of the two deadlines, `tick` the heartbeat, `wake` the reconnect
  delay; time passes only when no timer is due and no frame overdue. An attempt
  takes its time: up to a round trip for the TCP connect (the kernel's, without
  a timeout in the code), the two nonces under `HandshakeTimeout`, then
  `Register` and its answer under `Timeout`. It takes a permit for granted, and
  until it has registered a server task holds no port, so its own timeouts
  matter to nobody else there; both are in `Lifecycle`.

`Path` joins the first two by the main loop of the server: `Read` decodes a
frame and clones the user's sender out of the routing table, `Route` or
`RouteError` ends the `send` it waits in, `ReadEnds` and `ReaderQuits` leave the
loop, and `DropSender` is the user's read task removing the route. `PathIsPipe`
maps what is in the `BufWriter`, in the hand of the write task, in its channel,
in the hand of the main loop, on the stream, in the hand of the client's write
task and in its channel, in this order, onto the queue of `Pipe`; once a part
has ended, only what lies beyond it counts. So the abstraction of the sessions
and the mechanism below implement the same specification.

`Startup` goes from a file to a serving client: `New`, `Validate`, then
`RunServer` or `RunClient`, `Register` for each entry in turn. An entry that has
travelled in a frame has lost its cached `addr` (serde skips it), hence
`Received` and `Recorded`.

## 3. Runs

Each `.cfg` names its bounds. Channels have one slot, so that full channels, the
case that matters, happen everywhere; a larger capacity only delays them. The
client opens at most `MaxInst` internal connections in a behaviour and then no
more. `CHECK_DEADLOCK FALSE` is set because a session may rest: users need not
come back, and a session that has ended stays ended.

| Run | Checks | Instance |
|---|---|---|
| `tunnel_faults` | `ForwardOrder`, `ForwardComplete`, `ReplyComplete` | two users of one proxy and one permit, two chunks of each, an echo service, three internal connections; services and users close, dials fail |
| `tunnel_two_proxies` | `TypeOK`, `ReplyComplete`, `ProxyAgreement`, `NoCrossTalk`, `LinkIsPipe` | two proxies whose users have the same `conn_id`, two chunks of each, two internal connections; failing binds and dials, closing services, timeouts |
| `tunnel_live` | `ForwardDelivers`, `ReplyDelivers`, `ClientEndEndsServer`, `CutEndsSession`, `PortsReleased`, `DeadSessionClosed` | one user, two chunks each way, heartbeats; cuts and timeouts |
| `server_open` | `TypeOK`, `AnsweredOnce`, `RoutedToOwner`, `RouteWhileReading` | any four frames to a server with two proxies at most, three entries, one of them on a privileged port |
| `client_open` | `TypeOK`, `EntryHasReader`, `ConnectIsVacant`, `DialsRegisteredOnly` | any five frames to a client with two entries: both answers and three chunks, or anything else; services close, dials fail, timeouts |
| `path` | `TypeOK`, `SealedApart`, `PrefixArrives`, `OrderlyEndIsComplete`, `IdleIsFlushed`, `PathIsPipe`, `BytesArrive`, `TaskDrains` | five bytes in chunks of 1 to 3, a buffer of 2, one slot in each channel and the stream, a peer with the same or another key; every part may fail at every step |
| `lifecycle` | `TypeOK`, `PermitsConserved`, `RunningIsServed`, `ServedAgain`, `StaleSkipped` | a client, an idle one on another port, a stranger with another token; three connections, two permits, one cut, crash or late answer |
| `keepalive` | `BackInTime`, `DelayDoubles`, `NoFalseTimeout` | 1 s ticks and the code's constants, delays up to 5 s each way, up to nine earlier failures, two faults, arithmetic that saturates at 255 |
| `startup` | `ServesAllOrNone`, `RegistrableServes` | all files of up to two entries, and three with one arbitrary, over empty, malformed and good fields; a limit of two proxies |

All of these pass. Two users and two proxies are enough for every confusion of
two keys; the second user of `tunnel_faults` is routed before it is
admitted. Two chunks and a third connection are enough for a connection to be
closed, replaced and drained beside its successor. The longer interplay, in
which the clean-up of a predecessor removes a healthy connection, is the run
`race_cleanup` below, and `ForwardOrder` is proved for any number of
connections. In `path` the sizes fall on both sides of the buffer's capacity,
and five bytes are enough for some to be in the buffer, some in hand and some in
a channel behind. In `lifecycle` there are fewer permits than connections and as
many clients as connections, so that connections queue, are abandoned in the
queue and meet the sessions they replace. In `keepalive` a tick is 1 s and
the constants are those of the code. `NetDelay` is 5 s, the longest with which
two nonces pass within the 10 s of the handshake; over a slower network no
attempt succeeds. The bound on the arithmetic is 255 instead of 2^64 - 1, still
above the cap of 60, so that saturation is reached, and `MaxAttempts` is never
what keeps a client from its next attempt.

What some of them say about the code:

- `SealedApart` is about the frames of one direction. The nonces of the other
  one differ by their random prefix, which is assumed.
- The flush after the loop of a connection's writer is redundant for a peer
  that reads: the loop has flushed whenever it finds the channel empty
  (`IdleIsFlushed`).
- `BackInTime`: service returns at most one keepalive timeout, one maximal delay
  and the way of seven messages after the last fault: 185 s for the constants of
  the code. The seven are the last rejection and a round trip each for the TCP
  connect, the nonces and the registration. `attempt` is
  never reset, so after five attempts in the life of a process every retry
  waits the full 60 s; the bound is for that case too. A client that has to
  queue for a permit first is not covered by it.
- `NoFalseTimeout` needs `PingInterval + 2 * NetDelay <= Timeout` and, for the
  handshake, `2 * NetDelay <= HandshakeTimeout`, which are the assumptions
  beside the constants. An answer may be that late and no later.
- `ServedAgain` has a condition, and needs it: a client that waits in the queue
  gives up after the 10 s of its handshake, while a peer that has a permit may
  send its nonce, never register, and keep the permit for the 90 s of the
  keepalive timeout. Peers who do so in turn, as many as there are permits,
  starve the client: without the condition TLC finds that behaviour. What holds
  is that nothing else keeps it out, neither its own old sessions nor the
  connections it has given up and left in the queue.
- `StaleSkipped`: the server never looks at a queued connection
  (`rfrp_server/src/lib.rs:54`), so one whose client has gone stays as long as
  all the permits are with running sessions. In the checked instance they never
  are for ever, because only one client stays.
- `DeadSessionClosed` has an exception: an idle external user's read task holds
  a clone of `tx_channel`, so after a keepalive timeout the socket of the dead
  session stays open until the last such user sends or goes.
- `ServesAllOrNone` holds because one rejection ends the session. Its other side
  is that validation accepts a file with one usable entry, whatever the others
  are, and that an entry the server rejects keeps the usable one from ever being
  served. `New` panics on the running modes of the quick start in the
  repository's README, which are in lower case; the sample files under `config`
  have the names serde wants.

### Fairness

`FairSpec` assumes of the runtime that a task that can run is polled (weak
fairness per task) and that a sender waiting for room in an mpsc channel gets
its turn (strong fairness for `ESend` and `ISend`): tokio's channel hands out
slots in the order senders began to wait. The sends of the loops and the
listeners need only weak fairness in the runs that use them. Of the environment
it assumes that external users read, that services take what they are sent and,
when `Echo` is set, that they answer. Nobody is obliged to connect, send, close
or fail. A timeout is a step of its loop, enabled while there is nothing to
read, which is when the deadline runs.

`Path` and `Startup` have weak fairness of the tasks they model. A user of
`Path` reads or resets the connection; nobody has to send, to fail or to leave.
`Lifecycle!FairSpec` has weak fairness of each server task and of the semaphore,
and of the clients that are not in `Mute`; the others may stop anywhere. A
sleeping client connects again and TCP admits it in turn (strong fairness of
`Connect`, since the bounded number of connections makes clients compete for
it). A timeout of `Lifecycle` happens where the other side will not answer: it
is cut off or mute, or the client is `StuckInQueue` while every permit is with
a task that waits for its peer; how often that happens is not bounded.
Where the other side would still answer a timeout is one of the `MaxFaults`
disturbances (`SEndsEarly`, `CEndsEarly`): with 10 s and 90 s against a working
network they are exceptions, and if they never ceased no session need last.

### Where code and comments disagree

Three runs are expected to violate what a comment says.

- `race_registration` (`RegistrationSurvives`). The client's phase 1 accepts no
  frame but an answer, yet the first proxy already accepts users while the
  second is being registered. A user's first bytes end the session, with no
  fault anywhere. The comment gives a late answer as the only reason for that.
- `race_cleanup` (`PersistentConns`). The write task of a closed connection may
  fail before its read task sees the end. The main task then removes the entry
  and dials again, and the clean-up of the old read task removes the *new*
  entry, although the new connection is healthy.
- `stuck_loop` (`ServerLoopReturns`). Server loop in the send of a pong, client
  loop in the send to a service, an echo service waiting for its answer to be
  taken, the internal read task waiting for the full link to the server: a
  circle. Both loops are outside their `select!`, so no deadline is armed.

`PROJECT.json` quotes the lines. A fourth disagreement has no run of its own,
because `DeadSessionClosed` states what does hold. The server's comments say that
after `KEEPALIVE_TIMEOUT` without a frame "the connection is considered dead and
will be closed" (`rfrp_server/src/run_proxy.rs:26`, likewise line 75). The loop
ends and the listeners are aborted, but the socket stays open while the read
task of an idle external user holds its clone of `tx_channel`.

## 4. Proofs

The theorems hold for every value of the constants that satisfies the
assumptions stated beside their declaration: positive limits and capacities,
any ports, tokens and files, any subset of the faults, and for `Keepalive` a
timeout that leaves room for a heartbeat and the way of two frames, and one of
the handshake, no longer than that, which leaves room for two nonces. Nothing
else is assumed. Every inductive invariant named below was checked with TLC on the
instance of the corresponding run before it was proved.

**The session** (`TunnelProofs`)

- `TypeCorrect`: `Spec => []TypeOK`. The type invariant is inductive. It says
  more than ranges: a loop that waits in a send holds a frame of the right kind, a
  task with a chunk in hand has read one, a queue never exceeds its capacity.
  `ServerNextType` and `ClientNextType` (`SessionProofs`) prove it per component,
  one step per action.
- `LinkImplementsPipe`: `Spec => LinkIsPipe`, the refinement. `LinkEffect` lists
  the six things a step may do to the link. `ServerEffect` and `ClientEffect`
  show that no action does anything else, `EffectDown` and `EffectUp` that each is
  a step of either pipe or leaves it alone.
- `ProxiesAgree`: `Spec => []ProxyAgreement`. That the client records the right
  id depends on there being only one registration under way. `Registration` says
  where it is: nowhere, or in exactly one of the request on the link, the
  listener task, the main loop's reply and the answer on the link, and that a
  positive answer is for a bound port and for the entry the client waits for.
- `NothingCrosses`: `Spec => []NoCrossTalk`. `Ownership` adds to that, to
  `ClientMaps` and to `Phases` that every chunk in every queue and every hand of
  both sessions carries the key of its place (`UserBytes`, `ServiceBytes`).
- `ForwardOrdered`: `Spec => []ForwardOrder`. What the services have received
  says nothing about the next chunk to arrive, so `ForwardOrder` is not
  inductive. `Pipeline` follows a chunk along its whole way (read task, link, main
  task, channel of the connection, service) and says that what is further along
  was read earlier: `LinkOrdered` for the link against the read task,
  `PendingAhead` for the main task against the link, `ConnsAhead` for the
  connections against both, `ConnsOrdered` for the connections of one key among
  themselves. The last part needs that the sender the main task holds is the
  *newest* connection of its key, or a drained old connection could overtake a
  new one; that is `ClientMaps`. Most steps are covered by `NothingAppears`: a
  step in which chunks only disappear keeps the order. Four steps move a chunk
  forward and have a lemma each (`PipelineSend`, `PipelineTake`,
  `PipelineDeliver`, `ConnsWrite`), as has the step that opens a connection
  (`PipelineConnect`).
- `ForwardsAll`: `ForwardComplete`. The inductive invariant `Forwarding` adds
  `Complete` to the maps and the routes: what is on the way from a user's read
  task to the client's main task is a run of consecutive numbers up to the last
  chunk read, and so is what the connection in the client's map has been handed
  followed by what is on the way. The first half is needed for the second: a
  connection that is opened in the middle of a stream starts with nothing of its
  own. A step leaves the stream of a key (`Stays`), reads the next chunk
  (`Grows`) or takes the first chunk off the way (`Passes`), to the connection in
  the map if there is one; `CompleteKept` shows that this is enough.
- `AnswersAll`: `ReplyComplete`. `Answered` says that the answers of a
  connection, from what the user has received back to what the connection's read
  task holds, are 1, 2, ..., the last one taken, while the user is there and the
  session is up. That `SRoute` never drops an answer for such a user needs
  `Known` (a key in use on the client was accepted by the server), `Tables` (the
  table of an accepted connection is in the outer map, so a stale
  `cached_routing` costs nothing, and the write task of a user who is there is
  there too), `RouteWhileReading`, and `ServiceBytes` (a chunk belongs to the
  connection it was read from). A step leaves the answers of a connection
  (`Keeps`), adds the next (`Adds`) or opens the connection (`Starts`); data that
  arrives, is routed and is written has a lemma each (`BackData`, `BackRoute`,
  `BackWrite`).
- Both streams are joined and filtered sequences. `Filter` is a recursive
  function, and what it does to an empty queue, to one element and to two queues
  in a row (`FilterEmpty`, `FilterOne`, `FilterConcat`) is proved by induction on
  a set of naturals.

**One session against any peer** (`ServerOpenProofs`, `ClientOpenProofs`)

- `ServerTypeCorrect`, `RegistrationsAnsweredOnce`, `DataReachesOwner`,
  `RoutesFollowReaders`: the server against *any* client that has the token.
  `ServerInv` consists of `Accepted` (a connection not yet accepted has no tasks,
  and the one that waits for a permit is the last one accepted), `Addressed` (a
  chunk stays with the key of its frame through link, hand and channel) and
  `Balance`, the account of registrations as it also holds while the session winds
  down; `AnsweredOnce` alone says nothing then and is not inductive.
- `ClientTypeCorrect`, `EntriesHaveReaders`, `ConnectsAreVacant`,
  `DialsOnlyRegistered`: the client against *any* server. `ClientMaps` says that
  the entry of a key, and the sender in the main task's hand, belong to the
  newest connection of that key, and that nothing is known of connections not
  yet opened; without the numbering the clean-up by key could not be followed.
  `Phases` adds that no connection is open while ids are still recorded.

**Below the session** (`PathProofs`)

- `PathTypeCorrect`, `NothingHeldBack`, `NoncesNeverRepeat`, `AnswerIsPrefix`,
  `OrderlyEndLosesNothing`, and `PathRefinesPipe`: `Spec => PathIsPipe`. `PathInv`
  consists of `Shape` (what each task holds in each of its states), `Nonces` (the
  nonces on the stream are strictly below the counter and increase), `KeyInv` and
  `StreamInv`: what the user has and what is on the way, joined in the order of
  the stages, is the answer as far as it was accepted. For the refinement, every
  action is shown to be one of `Accepted`, `Delivered`, `Moved` and `Lost`.
- The bytes on the way are joined by `FlattenSeq`, which is recursive. The lemmas
  about it (`FlattenAppend`, `FlattenHead`, `FlattenPrefix`) are proved by
  induction on a set of naturals, `SetInduction`, which follows from the
  well-foundedness of `<` without an operator as a parameter.

**Around the session**

- `LifecycleTypeCorrect`, `PermitsAreConserved`, `RunningClientsAreServed`
  (`LifecycleProofs`): `Sound` relates permits, admitted connections and the queue
  (`Queue`), and says for each connection which messages are under way and which
  keys its sides have, by the states of the two (`Conversation`). That no two
  connections have the same key needs that the nonces of a slot are its own.
- `ServiceIsBack`, `LivePeersStay`, `DelaysDouble` (`KeepaliveProofs`): the last
  two are action properties. `Traffic` says what can be under way in each phase;
  `ServerHears` and `ClientHears` bound the silence of each side by the age of
  what is under way or the time since the last heartbeat, which gives
  `NoFalseTimeout`. `Outage` bounds the time without service phase by phase; a
  rejected attempt counts from the moment the old session's own timeout is due,
  which is why `outage <= sidle` holds for a session left behind. For the delay,
  `DelayIsDoubled` shows by induction that `saturating_pow` and `saturating_mul`
  saturate only where the cap has been reached.
- `AllOrNone` (`StartupProofs`): `Confirmed` says that the entries confirmed so
  far are a prefix of the file's, each with the address of the file and a port
  that the session has bound.

Only model-checked: the liveness properties, because fairness and ENABLED are
outside what the prover handles. Every invariant, every other action property
and both refinements of the passing runs are stated by a theorem.

To repeat: `tlc -config <run>.cfg <module>` for a run (`PROJECT.json` pairs
them), `tlapm <module>.tla` for the proofs of a module.

## 5. What is not modelled

- *The loops of `compress.rs`*: chunk by chunk output, the limit on its size and
  the detection of a truncated input depend on how flate2 reports progress. They
  are one step here, which restores the frame when the block refers to no
  earlier one, and fails otherwise.
- *Libraries*: AES-GCM, SHA-256, DEFLATE, MessagePack, JSON, the length-delimited
  codec, tokio's channels, semaphores and `BufWriter`, TCP. They are represented
  by what rfrp relies on. A frame above `MAX_FRAME_LEN` is one of the reasons for
  which `TaskFails` may happen.
- *Failures that change nothing*: an `accept()` that fails, a socket option that
  cannot be set, a semaphore that is never closed.
- *Several entries per client in `Lifecycle` and `Keepalive`*: one port each. The
  registration of several entries within a session is in `Tunnel`, their effect
  on later sessions in `Startup`.
- *Connections that outlive their session*: a session of `Lifecycle` that ends is
  gone; how its tasks wind down is in `Tunnel` (`PortsReleased`,
  `DeadSessionClosed`) and `Path` (`TaskDrains`).
- *Wrapping ids*: `proxy_id` (u32) never passes 16; a wrap of `conn_id` or of
  `nonce_counter` needs 2^64 connections or frames in one session.
- *Functions without callers*: `derive_key`, `encrypt`, `decrypt` and
  `decrypt_in_place` are used by tests only.
- *Getters, logging, argument parsing, `debug_info`*: no state.

## 6. Plan

1. The session (`Frames`, `Link`, `ServerSession`, `ClientSession`, `Tunnel` and
   the open environments): done, with the theorems of section 4.
2. The layers below and around it (`Pipe`, `Transport`, `ConnWriter`, `Path`,
   `Lifecycle`, `Keepalive`, `Startup`): done, with the theorems of section 4.
3. The completeness of both streams (`ForwardComplete`, `ReplyComplete`): done,
   with the filter written as a recursive function so that it can be reasoned
   about.
