# RayNet in TLA+

RayNet carries TCP streams of SOCKS5 clients between two *endpoints* over many
*channels* (UDP paths), possibly through *relays*. All protocol logic is in
`crates/raynet-core`: synchronous state machines that take an event and the
elapsed time and return actions. `crates/raynet-shell` drives them with tokio
tasks and bounded queues, and `crates/raynet-shell-plugins` holds the channels
and the proxy. This directory models both levels: the machines of the core and
the tasks of the shell.

Paths below are relative to `crates/` unless they start with `src/`.

## 1. Inventory

| part | state | operations | interacts with |
|---|---|---|---|
| sequence filter, `raynet-core/src/sequence.rs` | per sequence id a window: highest number, newest time stamp, bitmap | `check_and_insert`, `remove_expired`, `next_expiry_delay_ms` | called by both cores for every decoded packet |
| endpoint sessions, `raynet-core/src/endpoint.rs` | map of sessions (phase, KCP, bound peer sequence, pending close, deadline), tombstones, peer windows | `SessionOpen/Write/Close`, `TransportPacketReceived`, `poll`, `next_deadline` | KCP below, shell above through `CoreAction`s |
| KCP, `raynet-core/src/kcp/kcp.rs` | send queue and buffer, receive queue and buffer, serial numbers, window, probe, ack list | `send`, `input`, `recv`, `update`, `flush`, `check` | one per session |
| route planner, `raynet-core/src/routing.rs` | per edge: reserved time, loss estimate, cooldown, last sample and observation | `build_route_plan`, `note_local_send_failure`, `note_feedback` | endpoint, for every packet sent |
| route feedback, `raynet-core/src/endpoint.rs` | outstanding samples, next feedback and keepalive times | sampling, `RouteReply`, expiry, `TransportPacketSendFailed` | planner; the peer's endpoint |
| relay, `raynet-core/src/relay.rs` | a sequence filter | `forward_packet` | endpoints and other relays |
| outbound shell, `raynet-shell/src/remote.rs`, `channels.rs`, `raynet-shell-plugins/src/channel_udp.rs` | `ray_tx`, a queue and a worker per channel, a shared failures queue, the peers of a reverse channel | `forward_out`, the workers, the failure handler, probes | core, sockets |
| poll loop, `raynet-shell/src/remote.rs` with `next_deadline` and `check` | a sleep, `deadline_changed`, the timers of sessions and KCP | `poll`, `next_deadline`, `check`, `update` | every task that calls the core |
| session tasks, `raynet-shell/src/remote.rs`, `raynet-shell-plugins/src/proxy_socks5.rs` | map of sessions, two queues per session, `writable`, `deadline_changed` | `open`, `receive_packets`, `poll`, `attach`, `emit`, `execute`, `run_entry`, `run_exit`, `transfer` | core (under its lock), TCP streams |
| wire formats and sealing, `raynet-core/src/wire.rs`, `packet.rs`, `limits.rs` | none | encode, decode, seal, open, sizes | all packets |
| configuration and start-up, `raynet-shell/src/config.rs`, `main.rs` | the route graph | read, `build_route`, `route_graph`, spawn | route planner, channels |
| `raynet-test-shell` | a simulator for the tests | | not part of the program |

What is hard here, and why tests hardly reach it:

* the network duplicates, delays and reorders for up to eleven minutes while
  windows, tombstones and deadlines of different lengths expire on clocks that
  disagree;
* either process may restart; packets of the old and the new instance mix;
* both sides may close at once, with data and acknowledgements under way and
  the send window full;
* serial numbers and time stamps wrap;
* a reply, a timeout and a local send failure race for the same sample;
* a packet is sized once and may be sent again over a longer plan, and every
  relay takes it apart and pads it anew;
* the poll task sleeps on a deadline that other tasks move;
* the shell's tasks wait for each other on bounded queues.

`PROJECT.json` lists each hazard at its line with the properties that would catch it.

## 2. Modules

| module | models | state of the model |
|---|---|---|
| `SequenceFilter` | `sequence.rs` with its two callers | `windows` is the hash map; a bitmap is the set of its set bits, so `clear_after` is the set it clears; `now` is the true tick of which the code sees the low bits; `accepts` counts how often each packet passed |
| `Session` | the session part of `endpoint.rs` at both ends of one conversation | `sess`, `tomb`, `win` are the core's maps for that conversation; `shell` folds the `CoreAction`s the shell gets; timers hold ticks left and packets their age, so no clock needs a bound |
| `Kcp` | one direction of `kcp.rs` as `EndpointSession` calls it | the fields of `Kcp` with the same names; a segment also carries its place in the stream, which no guard reads |
| `Stream` | abstract: what KCP promises a session | what was written, what was read |
| `RoutePlanner` | `routing.rs` with the samples the endpoint keeps for it | per-edge records, fixed-point arithmetic as in the code |
| `Feedback` | sampling, replies, expiry, keepalives and send failures in `endpoint.rs`, both endpoints | `out` is `outstanding`; a packet is in `flight` until it is received, or for ever if it is lost, and until then its worker may report its failure |
| `RouteConfig` | `build_route`, `route_graph`, `channels`: from the configured edges to the planner's graph | the configuration, whether the process has started, the graph |
| `Routing` | composition of `RouteConfig` and `RoutePlanner` | both states |
| `Wire` | `wire.rs`, `packet.rs`: envelopes, endpoint messages, padding, nonces | none; a packet is a sequence of cells, one per field |
| `PacketSize` | `scheduled_packet_overhead`, the MTU of KCP, fragments, packing | none; operators on sizes |
| `Relay` | `send_envelope`, `TransportPacketSendFailed`, `relay.rs` in a mesh, the receiving endpoint; extends `PacketSize` and `Wire` | encoded packets queued and in flight, each node's filter |
| `ForwardOut` | `forward_out`, channel workers, failures queue | queue lengths and where each task is |
| `ReverseUdp` | a reverse channel under `ForwardOut`: probes, peer timeout, the worker that looks the peer up | time since the last probe arrived, time to the next |
| `PollLoop` | the poll task, `next_deadline`, KCP's resend timers, the other tasks' calls and notifications | timers as distances from now, where the loop is, the stored permit |
| `SessionIo` | the tasks of one session in the shell, at the entry or the exit, from `open` and the SOCKS5 exchange on | queue contents and where each task is; of the core it keeps phase, `wait_snd()` and the pending close |
| `SequenceFilterProofs`, `SessionProofs`, `KcpProofs`, `RouteProofs` (`RoutePlanner` and `Feedback`), `RelayProofs`, `ForwardOutProofs` (with `ReverseUdp`), `PollLoopProofs`, `SessionIoProofs` | theorems about their namesakes | |

Each `MC…` module instantiates its namesake for TLC. Modules are joined at the
places where one only needs what another establishes: `Session`, `Feedback` and
`Relay` let a packet be handled once because `SequenceFilter` does
(`AtMostOnce`, and `NoFalseReplay` for the converse inside the window);
`Session` uses numbered messages delivered in order because `Kcp` implements
`Stream`; `SessionIo` takes transport sends as not waiting and leaves that
question to `ForwardOut`; `Feedback` leaves the choice of a route to
`RoutePlanner`, and `Relay` lets the planner choose any plan of the graph.
`Kcp` resends whatever it likes; when KCP resends is the subject of `PollLoop`.

An action stands for a whole call of the core (the core is synchronous and
under one lock): `Session!Receive`, for instance, is the filter, the tombstone,
the binding, `input`, `flush`, the messages read, the queued Close and
`finish_closed_session`. In the shell modules a step ends wherever another task
can observe it: at an `await`, a released lock or a changed queue.

Definitions marked "Mutant" are variants of the definition that follows them,
each a plausible slip in the code; `PROJECT.json` pairs each with the property
that must then fail. They take no part in any specification.

## 3. Runs

### Sequence filter
`sequence_filter`: two senders, packets repeated, delayed and reordered without
limit. A four-bit window over numbers 0..8 slides by one, by several and by
more than its size; 5-bit stamps wrap inside the run; the soft cap of 1 lets a
window expire and be created again. `NoReplay`: nothing passes twice.
`BitsJustified`: no bit is set for a number that was not accepted, so nothing
fresh is refused as a replay of another number. `ExpiryDeadlineExact`: the
delay given to the shell is exactly when `remove_expired` has work. `IInv`: the
inductive invariant of the proof.

### Sessions
`session`: one of the two processes may restart, one of the shells writes a Data
message, either side closes, at once or after the other, and polls may come
late. The client's send window of one keeps its Close aside until the Open is
acknowledged; the server's of two lets Data and Close overtake each other; two
packets in flight do overtake. The restarted client's keepalives make its new
instance known to the server, which is what lets the old window expire.
`CleanCloseAgreed`: when `wait_snd() == 0` ends a close, the peer has read every
Data and is no longer open, provided no core has forgotten the conversation and
the two sessions are of one life (what happens otherwise is listed below).
`NoLateWrite`, `PendingCloseOnlyWhenFull`, `AcksAreBound` and `NoStaleRevival`
are described in the module. The model's shell writes and closes open sessions
only, as `src/DESIGN.md:122` asks of it. In the code this is a `debug_assert!`
(`endpoint.rs:179` and `195`), and the release shell does issue both calls in
`ClosingRemote`, since its writer task does not know of the peer's Close: the
write is queued; the close makes the phase `ClosingLocal`, starts the deadline
anew, queues a Close, and a second `CloseSession` follows when it ends.
`SessionIo` has these two calls; `Session` has not, so its properties are about
shells that keep the rule. (`CleanCloseAgreed` would still hold by its argument: a peer whose Close was
received is in `ClosingLocal` or gone, and stays so. `src/DESIGN.md:571`, one
`CloseSession`, does not hold for such a shell.) The lengths keep the order of the code's
constants: tombstone = freshness + 1 tick, close deadline shorter than the
tombstone.

### KCP
`kcp`: four segments numbered modulo 16 from 14 on, so they wrap; messages of
one and two fragments; a send window of three against a receive window of two,
which the sender first takes to be its own, three (`src/DESIGN.md:173` lets the
ends differ); two packets in flight that may be lost, delayed and overtaken.
`ImplementsStream` is the refinement of `Stream`; `AckedIsHeld` and
`WindowsHold` are the two facts it rests on. `Drains`: everything written is
acknowledged in the end, for which a closed receive window needs the probe.

### Routing
`route_planner`: an endpoint starts with every list of up to three edges over
three names, with a larger graph, with channels missing or doubled, or without
a route. `GraphIsConfig`: the process starts exactly if the edges form one
route without a cycle from one node to one node that begins with local
channels (defined by the transitive closure, not by the algorithm), and the
planner then gets these edges, in their order, numbered forward. It says so of
lists that use no channel of a node twice; between two nodes there may be
parallel edges on different channels. Other lists are in the run too, and are
accepted as in the code (see the disagreements). On the larger
graph (four nodes and six edges, with parallel first edges, a shared later edge
and a detour) three packets are planned, with failures, late successes and
losses. Each computed plan is compared with all paths of the graph
(`PlanIsEarliest`); the forced sample edge never costs a packet
(`PlanIfAnyEdge`); old news does not lift a cooldown.

`feedback`: an endpoint that sends four session packets and one that answers
and sends keepalives; packets fail locally any number of times, samples once;
polls come up to a tick late; a timeout races replies. `CountedOnce`,
`ChainsEnd`; `MaxOutstanding`: the bound given by interval and by timeout plus
lateness, and one more for each sample that failed. The run reaches the bound
with a failure (three samples), and its fourth packet would exceed it if failures
of packets that are no samples reset `next_feedback_at` too.

### Wire and relays
`relay`: an entry, two relays joined both ways and an exit; four plans, one of
which returns to the first relay and one of which names a channel it does not
have; KCP packets, route replies and keepalives; messages of one and two
fragments with and without an acknowledgement before them, so that full packets
occur; the least and the most padding at each hop; local failures that send the
packet again over any plan; repetition, and delay past the freshness limit.
Data, channel numbers and padding use the same small values on purpose.
`HandledOnce`: no node lets a stamp pass twice. `DecodesToPlan`: wherever a
packet is, it decodes to its stamp, the rest of its plan and the sealed
message. `ReserveIsKept`: no packet exceeds the MTU of the node that made it,
and an endpoint always has `padding_reserve` lengths to draw from. A behaviour
chooses at its start whether its network is reliable; if it is, `Arrives`.

### Shell
`poll_loop`: a flush interval of 2, RTOs of 3 and 4, a close deadline of 4, a
tombstone of 2, sleeps of up to 4 and 8 and a loop that may be held up for one
unit at its lock: every deadline lies before, at and after every other.
The hold-up (`Stall`) stands for the wait for the lock and for `execute`, which
waits for room in `ray_tx` and, for a `CloseSession`, in the session's input
queue (`remote.rs:161`), and for neither does the code have a bound: what is
shown is shown for rounds that end within `Stall`. A proxy that leaves its input
queue full for longer, for instance because its TCP peer does not read, delays
every deadline of every session by as much. The deadlines of samples, keepalives,
sequence windows and `PendingRemote` sessions are left out of `NextDeadlines`;
they make the loop poll earlier, never later.
`DeadlinesMet`: a resend is late by at most a flush interval and two hold-ups, a
close or tombstone by two hold-ups. `IdlePollOnlyBeforeFlush`: `check` and
`update` agree, but for a resend that is due before the next flush.
`ClosingEnds`, for which `execute` has to return as well.

`forward_out`: one reverse channel, queues of two, batches of two; `kind`,
chosen at the start, is the endpoint (its failure handler sends again) or the
relay (it does not). `NoMutualWait` (proved as well). `ForwardReturns`:
`forward_out` comes back to its select for ever, unless the failure handler of
an endpoint waits for room in a full `ray_tx`. `PeerKept`: with four probe
intervals to a timeout, as in the code, the peer is known as long as the probes
lost in a row and the time the receiver was held up leave one in time; probes
may be lost, and the receiver held up, for longer than that.

`session_io`: the tasks of one session, at the entry or the exit, queues of one,
a window of two, from the exchange of request and reply over both directions
and all half-closes and errors to the end. `NoOrphan`: no session stays open
in the core without tasks, but for a refused one, which the exit closes;
`NoLostWakeup`; `OneWayWriteEnds`, that a blocked write ends in every behaviour
in which the session receives only the opening message, whatever the TCP peer
does; `ShellReleased`: once the core has dropped the session, by its close
deadline, by the last acknowledgement or because the peer's window expired,
its map entry, its writer and its proxy go, if the TCP peer keeps reading
(`StreamWrites`). The build is a release build: `debug_assert!` is not evaluated,
and a panic ends the process (`panic = "abort"`, `src/Cargo.toml:41`). A writer
that still has a message for a dropped session panics; `ShellReleased` names this
end (`Aborted`) apart from the release, and nothing follows it.
`PollExpire` waits for `attach`: the window it gives up has heard nothing for
`MAX_PAST_TICKS`, eleven minutes, and the session bound to it is taken to have
been attached in that time.

Why small queues suffice: the waits depend only on a queue being empty, full
or neither, and capacities of one and two reach all three together with every
position of the tasks.

### Disagreements between code and documents
| run | what it shows |
|---|---|
| `session_skew` | a sender's clock ahead within `MAX_FUTURE_TICKS` lets a packet outlive the tombstone, whose margin is one tick |
| `forward_channels` | two channels: failures of one fill the shared queue while `forward_out` waits for the other |
| `session_io_cycle` | traffic both ways: `receive_packets`, the proxy and the writer wait for each other in a ring |

The exact lines and quotations are under "findings" in `PROJECT.json`.
`ray_tx` holds 65536 packets and a failures queue 256, so `forward_channels`
needs a long burst of failures; the model reaches it with small queues.

Further disagreements, met while modelling and stated by no run. The models
have each of these behaviours, and the properties above are stated so as to
leave them aside:

* `endpoint.rs:245`: a peer whose Open is never answered retransmits it past
  the tombstone, and the conversation opens a second time (`src/DESIGN.md:568`
  promises one `OpenSession`).
* `endpoint.rs:673`: a session the peer closed is reported closed again when
  the peer's window expires (`src/DESIGN.md:571` promises one `CloseSession`).
* `endpoint.rs:629`: a `PendingRemote` session times out after it acknowledged,
  and the initiator's close ends cleanly although the data is lost.
* `endpoint.rs:623`: an open session whose peer gave up is never released
  (`src/DESIGN.md:572` says both sides release).
* `endpoint.rs:526`: after a restart of the server the client's retransmitted Open
  makes a new session there, but the client stays bound to the old instance and
  its `una` counts the old stream; the new session takes it as acknowledgement
  of its own Data and Close, and closes cleanly although nothing was received
  (`src/DESIGN.md:531` says `wait_snd() == 0` confirms both). Hence `SameLife`.
* `endpoint.rs:221`: after late local failures more samples are outstanding than
  the bound of `src/DESIGN.md:758`, by one for each failure.
* `kcp.rs:631`: a resend that is due before `ts_flush` makes `check` return 0 until
  the flush, so the poll loop runs without sleeping for up to an interval, while
  the comment at `kcp.rs:613` says that `update` need not be called repeatedly.
* `config.rs:68`: a `padding_reserve` of 0 is accepted (`src/DESIGN.md:175` gives
  1..=255), and a full KCP packet on the longest plan then has no room for padding: the modulus in
  `send_envelope` is zero. `wire.rs:72`: a plan longer than 63 hops
  (`src/DESIGN.md:376`) would run into the time stamp, and no code refuses such
  a graph. Both are in `RelayAssumption`.
* `endpoint.rs:807`: an endpoint without sending channels and without a configured
  route computes `longest[0] - 1` from zero: a debug build panics, a release build
  wraps around and starts (`RouteConfig` allows both).
* `remote.rs:165`: the failure handler of an endpoint waits for room in `ray_tx`,
  which only its caller empties; `ForwardReturns` names this case.
* `endpoint.rs:178`, `194`: a message still queued when the session ends, or a
  blocked write that the poll which dropped its session wakes, reaches a core
  without the session, and `unwrap` panics in the writer task. In a release build
  this aborts the process, and all its sessions with it. `src/DESIGN.md:122` leaves
  the order of calls to the shell, and the shell does not look.
* `proxy_socks5.rs:165`, `168`: `transfer` writes to the TCP stream outside of its
  select. While the TCP peer does not read, the session's input queue fills, and
  `receive_packets` (`remote.rs:155`) and with it every other session waits for
  this one. Hence `StreamWrites`.
* `config.rs:179`: `build_route` accepts two edges of one node on the same channel
  (`src/DESIGN.md:215`: 同一节点内的 `ChannelId` 唯一), and `channels.rs:45` only keeps
  apart the local channels. A plan is a list of channels, and `routing.rs:145` and
  `166` take the first edge of a node with that channel: feedback and failures are
  then booked on the wrong edge, or, if that edge leads to a node without the next
  channel of the plan, `unwrap` panics. `RoutePlanner` keeps a plan as edges, which
  is the same exactly if channels are unique per node; its `IsRouteGraph` and
  `GraphIsConfig` ask for that.

## 4. Fairness

* `PollLoop`: every task is scheduled and time goes on. That one round of the
  loop, its `execute` included, is shorter than a flush interval is an assumption
  (`PollAssumption`) on the other tasks and on the proxy, and not something the
  code guarantees; a call of the core and its notification have no await between
  them. Nothing is assumed of the peer.
* `Session`, `Routing`, `Feedback`: safety only. In `Feedback` a sample is removed
  at most `Late` ticks after its deadline, which bounds how long `poll` may be
  held up; keepalives may be late without limit.
* `Kcp`: `poll` runs while segments are outstanding, and the network does not
  lose every copy of the oldest segment, of its acknowledgement, of a probe or
  of the answer. This is a fair-lossy network, the least a retransmission
  scheme can do with.
* `Relay`: channel workers send, and a packet in flight is delivered in the end
  on a network that was chosen to be reliable.
* `ForwardOut`: every task that can go on does (tokio schedules all ready
  tasks, `send_to` returns). Nothing is assumed of producers or, in
  `ReverseUdp`, of probes.
* `SessionIo`: the same for its tasks; the close deadline passes; while
  segments are unacknowledged, acknowledgements keep coming to the socket.
  Whether `receive_packets` gets to them is the question the runs ask.
  Nothing is assumed of data, of the peer's closing or of reading from the TCP
  stream. Writing to it may wait for ever or fail: `ShellReleased` and
  `BlockedWriteEnds` are about behaviours in which no write waits for ever
  (`StreamWrites`), `OneWayWriteEnds` about all. That `TcpStream::connect` returns
  is left to the operating system's timeout.

Deadlock checking is off where a system may rightly stop (all messages used
up, all sessions ended) or where a bound ends the run.

## 5. Proofs

TLAPS proves the following for every value of the constants that the modules'
assumptions allow. Most of the properties are not inductive: they say what never
happens and not why. Each proof module therefore has an invariant (`IInv`
unless another name is given) whose parts are the reasons, a lemma for each
action, and theorems that read the properties off the invariant. TLC checked
each invariant on the run of its module before it was proved.

* `SequenceFilterProofs`. `AtMostOnce` (`NoReplay`): every packet that passed is
  *covered* by its window (below it, or its bit is set) or too old to be fresh
  now, and a window's newest stamp is at least that of every packet it covers.
  The lemmas are those the argument needs: two numbers within one window have
  different bits (`IndexInjective`), the signed difference of two wrapped stamps
  is the true difference while clocks stay within half a turn (`TimeDiffExact`,
  from `TimeAssumption`), an insertion keeps what was covered covered
  (`InsertCovers`), and a window is given up only when everything it covers is
  too old (`RemoveExpiredRemembers`). `NoFalseReplay` (`BitsJustified`),
  `ExpiryIsOnTime` (`ExpiryDeadlineExact`) and `TypeCorrect`.
* `SessionProofs`, for every deadline, window, bound and number of restarts.
  `NoWriteOutsideSession` (`NoLateWrite`) and `CloseWaitsForWindow`
  (`PendingCloseOnlyWhenFull`): the invariant ties the phase of the core to what
  the shell was told, and the length of a stream to what the shell wrote, one
  Open and one Close. `TombstoneOutlives` (`NoStaleRevival`) is proved if
  `MaxPast + Skew < TombTicks`, from `Stale`: every old packet that is still
  fresh will be too old before the tombstone of its receiver ends. In the code
  the margin is one tick; `session_skew` shows what a larger `Skew` does, so the
  premise is needed. `TypeCorrect`.
  Under the same premise `HalvesAgree` is the invariant of the whole
  conversation, `BothHalves`. Its part `Base` holds through restarts and lost
  sessions: no packet, binding or clean close is of a life yet to come, only the
  first client opens, the server sends no Open, nothing is read or acknowledged
  before the peer is known. `Agreement` holds while the client that opened the
  conversation runs and has not given it up: the stream of each half is Open (of
  the client), what its shell wrote, and Close; each message in flight is the one
  of that stream with its number; each `una` and acknowledgement in flight is of
  what its sender has; what one half holds for acknowledged is with the other;
  what was read is the beginning of the peer's stream, and the phase and the
  writes told to the shell are those it leads to; a half without a session
  has a tombstone that outlives every packet which could open it again, or has
  not spoken. Each part is needed for another one: an acknowledgement removes a
  message only if its number means the same to both, and it does because a
  session is bound to one life of its peer and no packet of a closed conversation
  comes through. `AcknowledgedIsReceived` (`AcksAreBound`) and
  `CleanCloseIsSound` (`CleanCloseAgreed`) follow.
* `KcpProofs`, for all windows, equal at both ends or not, message sizes and first
  serial numbers.
  `StreamImplemented` (`ImplementsStream`): the ARQ refines `Stream`, step by
  step. The invariant names the one stream both ends agree on: the `d`-th segment
  has number `Sn(d)` and nothing else does within half a turn (`SnDiff`,
  `SnUnique`); the sender's buffer, the receiver's queue and buffer and every
  `PUSH` in flight hold segments of it at their places; every `una` in flight was
  reached by the receiver and every `sn` acknowledged is with it; what is numbered
  is in the sender's buffer or with the receiver; and every fragment is followed by the rest of
  its message, so that `recv` ends at the end of one. `AckedSegmentsHeld`
  (`AckedIsHeld`), `WindowsKept` (`WindowsHold`) and `TypeCorrect` follow. That
  `parse_ack` compares plain numbers does not matter for safety: it may miss a
  segment, which a later `una` removes, and removes none but the one acknowledged.
  The theorems assume `HalfTurn`: a session writes fewer than 2^31 segments (less
  a window). The model lets a packet be delayed for ever, and a copy older than
  half a turn would be taken for a new one. In the code the sequence filter
  refuses packets after `MAX_PAST_TICKS`, so that only the segments of that time
  count. The instance of the run satisfies it.
* `RouteProofs`, the planner, for every route graph, packet size, clock and retry
  time. `CalculatePathIsEarliest` (`PlanIsEarliest`) holds whatever was reserved,
  lost or is cooling. Its core is the loop invariant of `calculate_path`,
  `Settled`: every entry of the table has come over an allowed edge from the entry
  that its predecessor has now, and no edge relaxed so far leads anywhere earlier.
  It survives because edges lead forward: a node's entry is final before its
  own edges are relaxed, so no arrival that an edge was relaxed with changes later.
  From the second half no usable path is earlier than the table
  (`NoneEarlier`, which needs that who comes earlier does not arrive later,
  `CostFacts`); from the first, the walk back gets nearer with every step, ends at
  this endpoint and in layer 0, and has collected a path with the table's
  arrival, over the forced edge because only that one changes the layer
  (`WalkEnds`, `WalkFinds`). `PlanWhileAnEdgeIsAllowed` (`PlanIfAnyEdge`): only first edges cool
  down (`OnlyFirstCool`), so the farthest node reached in a layer is the
  destination (`ReachesEnd`), and what `sampling_edge` marks is reached
  in one of the layers. `OldAnswersLiftNoCooldown`
  (`CooldownLiftedByNews`): an edge has observed its last local failure, and cools
  no longer than its retry time from now (`Cooling`), so that a further failure
  lifts nothing either. `EdgeStateTyped` (`TypeOK`). The inductive invariant is
  `PlannerInv`. The theorems are about `PlannerSpec`; a step of `Routing` is one of
  its steps or changes none of its variables.
* `RouteProofs`, feedback (`FeedbackInv`). `ObservedOnce` (`CountedOnce`): an
  outstanding sample has not been counted, and numbers are not used again.
  `RepliesEnd` (`ChainsEnd`): depth left and hops taken add up to the limit.
  `OutstandingBounded` (`MaxOutstanding`): but for as many samples as failed
  locally, the deadlines of the outstanding samples are an interval apart
  (`Pacing`), and so many fit into a timeout and the lateness of `poll`.
* `RelayProofs`, for every graph, set of messages, MTU and padding.
  `NodesHandleOnce` (`HandledOnce`), from `Once`: what a node let pass its filter
  holds, or the stamp is past the freshness limit. `EnvelopeRoundTrip`: decoding
  is the inverse of encoding, whatever the payload, plan and padding hold, if the
  packet is at most `MaxPacket` long and the plan shorter than `RouteMod`.
  `PacketsDecodeToPlan` (`DecodesToPlan`) and `EveryPlanLeavesReserve`
  (`ReserveIsKept`), from `Carried`: every packet queued or in flight is the
  encoding of its stamp, the rest of its plan, the sealed message and some padding,
  within the MTU of the node that encoded it. The bounds come from two lemmas on
  recursive functions, by the least-number principle: no plan is longer than
  `Longest[1]`, and `flush` puts out no packet larger than `KcpMtu`. The theorems
  rest on `RelayAssumption`: the graph leads forward, which `build_route`
  establishes, and, unchecked by the code, `padding_reserve` is in 1..255, the
  longest plan at most 64 hops and the MTU large enough for a segment of KCP (the
  disagreements of section 3 show what happens without).
* `ForwardOutProofs!OneChannelNeverWaits` (`NoMutualWait`) for one channel and
  batches no larger than the failures queue (the code has 64 and 256), for all
  capacities. The invariant is `LoadBound`: the select is biased, so the
  failures queue is empty when a batch is taken, and from then on what may be
  reported is at most what was queued, plus the packet in the worker, plus what
  the batch has added. For `forward_out` to wait, the channel's queue must be
  full; for the worker to wait, the failures queue too; both together exceed
  the bound. With two channels the premise fails, and `forward_channels` shows
  that the conclusion does. `PeerIsKept` (`PeerKept`): the time since the last
  probe arrived is at most what the probes lost and the hold-up account for.
  `TypeCorrect`.
* `PollLoopProofs`, for every interval, timeout, sleep and a stall below an
  interval. `NoDeadlineSleptOver` (`DeadlinesMet`): at each place of the loop every
  deadline is late by at most the slack of that place, and unless a permit is
  stored the sleep ends at most a stall after the first deadline. `IdlePolls`
  (`IdlePollOnlyBeforeFlush`), an action property: the loop polls only when a
  deadline has passed. `TypeCorrect`.
* `SessionIoProofs`, for every window, queue and batch. `WakeupsArrive`
  (`NoLostWakeup`): a waiting writer for which there is room and which has no
  notification implies a task that is about to notify. `ShellStaysWithSession`
  (`NoOrphan`): the invariant follows the one OpenSession and the Close through
  actions, map and queues. Neither needs anything of the TCP stream; an aborted
  process satisfies both.

TLAPS does not do induction over data. What the proofs need of it, they get from
the least-number principle (`LeastNumber`, from the well-foundedness of the
natural numbers): the definition by CHOOSE of a first place where a loop stops
is met (`Stops`, for `move_buf`, `flush` and `parse_una`), what every round
of `recv_messages` keeps, all of them keep (`RoundsKeep`, and `ReadEach` for the
messages of one packet), and a recursive function has the values its equation
gives (`LoopExists` for the loops of the planner, with `EveryRound` for what they
keep).

Only model-checked:

* liveness: `Drains`, `Arrives`, `ClosingEnds`, `ForwardReturns`,
  `OneWayWriteEnds`, `ShellReleased`;
* `RouteConfig` (`GraphIsConfig`), whose sorting is a fold over lists of any
  length and whose reference is a transitive closure: its loop invariant would
  need induction over both.

## 6. Not modelled

* Ciphers, key derivation, byte order and the random stream: a packet is a
  sequence of fields, authentication is the comparison of nonces, and a random
  length is its least or its greatest value. `SessionMessage` is its kind.
* Congestion control, which RayNet never enables, and the RTT estimate: the RTO
  is any value in the range `update_ack` clamps it to.
* Reading the configuration, resolving addresses, the defaults of the tuning.
* The bytes of the SOCKS5 handshake and the parsing of the target: sequential
  I/O of one task, before the session exists or without effect on it.
* Several sessions that share `receive_packets`: one that waits stops all, which
  follows from `session_io_cycle`. Several peers of one reverse channel.
* Whether a message has too many fragments for the windows (`endpoint.rs:182`,
  `kcp.rs:332`) depends on the configuration; `Kcp!Send` has the condition of its
  window, messages of 256 and more fragments are left out by `KcpAssumption`,
  `PacketSize!Sendable` has the condition of both windows, and the default windows
  of 128 satisfy it.
* `raynet-test-shell`, which drives the cores in the tests.
* Metrics and logging.

## 7. Plan

Done: the modules above and the theorems of section 5. What is left:

1. `GraphIsConfig`, with the `ready` loop of `build_route` written as a recursive
   function, as those of the planner are.
2. `clear_after` word by word against the set it clears.
