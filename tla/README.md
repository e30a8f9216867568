# A TLA+ development of tpt-teleop

tpt-teleop is a teleoperation stack in Rust: operator input goes through a deterministic
safety loop to a vehicle, over a datagram link, with a flight recorder and a cloud side that
manages a fleet. This directory holds TLA+ modules translated from that code, the TLC
configurations that check them on small instances, and proofs that TLAPS checks for every
value of the constants. `PROJECT.json` says which lines of the source each definition stands
for, which runs check which properties, which change of a definition breaks each property,
and which hazards of the code the properties are aimed at.

Paths below are relative to `src/crates/`.

## 1. The system

```
 input stages ──SpscRing──▶ SafetyLoop ──SpscRing──▶ actuators / NetService ──UDP──▶ peer
 (tpt-t-input)               │   │  ▲                 (tpt-t-link)
                             │   │  └ poses, autonomy baseline, AI veto, mode requests
                             │   └ ModeStateMachine ──record ring──▶ HUD, recorder
                             └ Pool / MpmcQueue / MessageBus (tpt-t-core)
 flight recorder (tpt-t-analytics)   fleet, server, MCP (tpt-t-cloud)   sessions (tpt-t-sec)
```

| Part | State it keeps | Operations | What makes it hard | What makes it correct |
| --- | --- | --- | --- | --- |
| SPSC ring (`tpt-t-ring`) | two cursors, cells | `push`, `push_slice`, `pop`, `len`, drop | two threads without locks, stale loads, cursors that wrap | no cell is raced for; a bounded FIFO queue; nothing is stranded |
| Mode machine (`tpt-t-core/machine.rs`, `mode.rs`) | an atomic mode, a record ring | `try_transition`, `force_emergency_stop`, `take_transitions` | load, check and store are three steps; records are best effort | staged handover, latched stop, records that replay the mode |
| MPMC queue (`tpt-t-core/mpmc.rs`) | two positions, a sequence number per cell | `push`, `pop`, `len`, drop | any number of threads, spurious failures, wrap-around | a cell has one owner; oldest first; never overfull |
| Buffer pool (`tpt-t-core/pool.rs`) | free list, slots, flags, counter | `get_with`, `get_default`, drop of a guard | every step of the free list interleaves | one owner per slot; no slot lost; contents initialised |
| Message bus and routing (`tpt-t-core/bus.rs`, `tpt-t-input/pipeline.rs`, `tpt-t-integration`) | a ring per subscriber, the input ring, the loop's ring | `subscribe`, `publish`, `try_deliver`, `poll`, `tick` | rings that fill up at every stage, a retry that must not repeat | order per subscriber; what is missing was dropped at a full ring on its own way |
| Safety loop (`tpt-t-safety`) | latches, blend, pose, last output, two rings | `set_pose`, `request_mode`, `emergency_stop`, AI veto, `process_one` | seven stages rewrite one command; latches against requests | envelope, slew limit, veto, ceiling pin and stop hold end to end |
| Reliable channel (`tpt-t-link/reliable.rs`) | retention slots, reorder bitmap and slots | `send`, `on_ack`, `tick`, `accept`, `drain`, `build_ack` | loss, repetition, reordering, wrap-around | in order, once, and in the end |
| Network service (`tpt-t-link/service.rs`) | sockets, outbox, timers, reliable endpoints | one event-loop thread's phases | send failures, missing peer, timers | what is popped is sent or kept; acknowledgements tell the truth |
| Multiplexer and CRC (`tpt-t-link/mux.rs`, `crc.rs`) | counters, frame buffer | six frame writers, `recv_frame`, `demux` | damaged and cut datagrams | nothing is delivered that was not written; every datagram is counted once |
| Neighbor table (`tpt-t-link/mesh.rs`) | open-addressed table | `observe`, `find`, `expire` | deletion in probe chains, replayed beacons, wrapping numbers | the freshest entry is the one found |
| Backpressure and encoder governor (`tpt-t-link/backpressure.rs`, `tpt-t-media/encoder.rs`) | token bucket, window of blocked sends, bitrate | `admit`, feedback, `tick` | rounding, a window only one event resets | never above the rate; the bitrate settles |
| io_uring transmit queue (`tpt-t-link/uring.rs`) | slot states, free list, counters | stage, submit, wait, reap, fall back to the socket | partial submission, failing calls | every slot is free, staged or in flight, once; "sent" is true |
| Event loops (`tpt-t-core/eventloop`) | registrations, the kernel's interest | `register`, `unregister`, `dispatch` | edges fire once; descriptor numbers are used again | no edge is lost, no event is late |
| Shared-memory ring (`tpt-t-ring/shared.rs`, `layout.rs`) | header and slots in a segment | `attach`, `push`, `pop` | either process may die at any step | no value twice, at most one lost per death, all inside the region |
| Flight recorder (`tpt-t-analytics/record.rs`, `direct_io.rs`) | ring, storage thread, stop flag, sector buffer | `try_record`, `stop_and_join`, the thread | the last record against the stop; failing writes | the file is a prefix of what was accepted; the stop ends |
| Domain bridge (`tpt-t-domain-bridge`) | session state, operator; the adapter's own view | request, engage, command, release, stop, acknowledge | the adapter refuses between two states | the unit moves only for the operator both sides name |
| Operator input (`tpt-t-input/linux_evdev.rs`, `evdev_parse.rs`, `map.rs`) | accumulated axes, calibration, command ring | drain, `tick`, reopen | reports of changes only, queue overflow | the command is where the stick is |
| Co-pilot hub (`tpt-t-input/copilot.rs`) | time and flag per operator | `heartbeat`, `release`, `effective_operator` | a query that loads while the others store | the lowest operator live throughout is not passed over |
| MAVLink parser (`tpt-t-hal/mavlink.rs`) | capture buffer | `push` of a byte | noise, magic bytes inside a frame | a clean frame is emitted, none is made of two |
| Fleet, recorder, fan-out (`tpt-t-cloud/fleet.rs`, `sfu.rs`, `recorder.rs`) | units and their modes as the cloud sees them, viewers' rings, files | provision, `set_mode`, `ingest`, subscribe | a path of two commands failing halfway, slow viewers, restarts | the commands sent replay the mode shown; viewers and files have what they should |
| Fleet server (`tpt-t-cloud/server.rs`, `auth.rs`, `mcp.rs`) | connections, tokens, sessions | accept, dispatch, pump, serve, sweep | stalling clients at the limit, events against the sweep | no client waits for ever, nothing changes without authorization |
| HTTP and JSON (`tpt-t-cloud/http.rs`, `json.rs`) | none | write, parse | messages in pieces, escapes, nesting | a document is read as it was written, and not before it is whole |
| Secure session (`tpt-t-sec`) | handshake state, nonce counter | begin, respond, finish, seal, open | repeated and crossed handshakes | keys agree, nonces do not repeat |

The parts talk through rings (input to loop, loop to output, mode machine to its readers,
outbox to network service) and through direct calls on one thread (loop to mode machine, pool
to free list). The ring is therefore modelled and proved first, at the grain of its atomic
operations; the modules above it use the queue that it is proved to be. `PROJECT.json` lists
the remaining parts (device backends, system-call wrappers, text formats) with the reason each
is left out; section 6 repeats it.

## 2. Modules

### BoundedFifo, SpscRing

`SpscRing` translates `tpt-t-ring/src/spsc.rs`. `do_push` is `PushRefused` or `PushClaim`,
`PushWrite`, `PushPublish`; `do_pop` is `PopNone` or `PopClaim`, `PopRead`, `PopRelease`;
`len` is two loads; `DropRing` is `Drop`. `push_slice` is a run of pushes that ends at the first
refusal. An Acquire load of the other endpoint's cursor returns any value the cursor has had
since that endpoint last saw it (`Visible`), which is what coherence gives; `phead` and `ctail`
remember what was seen. Cursors wrap at `Wrap`. Moving a value out leaves the cell `NoVal`, so
a double read or an overwrite is visible. `BoundedFifo` is what the ring promises: a queue with
atomic push, pop and drop. `SharedRing` and `PtrRing` run the same `do_push` and `do_pop`.

### Modes, ModeMachine

`Modes` has the modes and the transition table of `mode.rs`; `ModeMachine` is `machine.rs`. A
call is three steps: load and check (`TryTransition`, `ForceEmergencyStop`), store
(`CommitStore`), push of the record (`CommitPush`, which drops the record when the ring is
full). `Spec` has any set of mutators whose pushes do not overlap, since the record ring is made
for one producer. `MCModeMachine` has one thread that requests transitions and one that only forces stops. `seen`, `dropped` and `commits` are what a reader and an accountant would
have noted.

### ConcurrentQueue, MpmcRing, BufferPool

`MpmcRing` is `mpmc.rs` with every load, compare-and-swap and store a step, failing
compare-and-swaps included (also the spurious ones of `compare_exchange_weak`). `claimed` and
`expect` note the order in which pushes claimed cells and what each pop must hence return.
Positions are compared by the sign of a wrapped difference, which is wrong for a thread that
sleeps through half their range (2^63 operations); `MaxLag` bounds that sleep.
`ConcurrentQueue` is what the queue promises: a push that succeeds appends at one moment of its call, a
pop takes the oldest value at one moment of its call and returns it. `BufferPool`
extends it: the free list is a `MpmcRing` of slot indices, and all its steps interleave with
those of `get_with` and `release`. `MCPool` runs either the queue under any pushes and pops or
the pool on top of it.

### SafetyLoop

`loop_.rs` with the stages of `geo.rs`, `limits.rs`, `latency.rs`, `spline.rs` and `veto.rs`,
composed with the mode machine's table. One action per method; `process_one` is `ProcessIdle`
(no command: only the blend advances) or `ProcessCommand`, the whole pipeline:

    BrakeThrottle(Limit(Fence(ApplyVeto(Mix(Compensate(c, k), w)))))

and the stop that overrides it. Floating-point values are integers: weights in units of
`1/Full`, divisions rounded toward zero, one tick is one second. One translational axis,
pointing away from the fence centre, stands for the four the code treats alike. The blend is
`[from, to, elapsed]`; none at all is one that has ended. The fence distance is its verdict.
Attenuation by latency is one of its two extremes, chosen anew in each tick. Statistics are
left out. The output ring holds only the stop flags: they are what a property looks at. No
input stage and no autonomy source sets the flag bit of the stop (`InputAssumption`).

### ReliableChannel

`reliable.rs` between two ends of a network that loses, repeats and reorders. Frame `n` of the
stream has the sequence number `n % M` and the payload `n`. `Send` is `send` with the first
transmission; `OnAck` is `on_ack` with its cumulative part and the selective one; `Tick`
retransmits any set of live slots (the timeout is the choice of the set); `ReceiveFrame` is
`accept`; `Drain` and `SendAck` are `drain` and `build_ack`. Sequence numbers cannot tell a
datagram from one half their range older; `MaxAge` bounds how far behind the receiver a
datagram may arrive. The round-trip estimate and the counters are left out.

### NetService

The control path of `service.rs` and `mux.rs` on top of the ends of `ReliableChannel`: the unit
that sends commands and the peer that receives them. The unit's `poll` is one thread with three
phases: receive (`TakeAck`, `TakeBeacon`, `EndReceive`), the outbox of `background`
(`SendControl`, `DropControl`, `EndOutbox`) and its timers (`Timers`: expiry of the neighbor,
then `rel_tx.tick`). A send may fail at the kernel. `TakeControl` is the peer's handling of a
command: `accept`, whose verdict is ignored, an acknowledgement, whose transmission may fail,
and the sink. The service never calls `drain`, so `next` stays 0 and `delivered` empty. The
configuration (reliable or not, primary peer set or not) is chosen in the initial state. The
neighbor table is reduced to whether it has the peer; beacons other than the peer's, telemetry,
ICE and secure frames touch none of this state (`NeighborTable` and `LinkMux` have them). `DropControl` loses a command for good, and so does
a failed `SendControl` in unreliable mode, as in the code. Sequence numbers do not come round here
(`MaxSend <= M`): as the window does not move, numbers beyond it are not retained anyway.

### DomainSession

`session.rs`, `lifecycle.rs` and `dti.rs` of the domain bridge. One action per call; a call out of
order is an error that changes nothing. The adapter is another project's code, known by the hooks:
each action chooses whether the hook is accepted, the emergency stop excepted. `holder` and
`moving` are the adapter's view, `hstate` and `operator` the session's. That motion ends at `on_emergency_stop` is an
assumption on the adapter: the default method of `dti.rs` does nothing, and an adapter with anything that moves has to override it.

### FlightRecorder

`TryRecord` is the control loop, `DrainPop`, `DrainEmpty`, `CheckStop`, `WriteEnd` and `Flush` are
the storage thread, `StopAndJoin` sets the flag. Bytes are units, so few that an entry straddles
sectors; every write may fail and leave any part of its data behind. `Parsed` is
`parse_entries` on what is on disk.

### NeighborTable, Backpressure, UringTx

`NeighborTable` is `mesh.rs` with the two places of the service that change it: a beacon
(`Observe`) and the heartbeat (`Heartbeat`: the round of beacons, then `expire`). Times are ages,
which stop growing past every limit. `Backpressure` is `backpressure.rs` as the network thread
calls it, and the governor of `tpt-t-media/encoder.rs` that reads it; `burst` is a
leaky bucket beside it: what was admitted beyond what the best link carries meanwhile. `UringTx` is
`uring.rs` with `ServiceCore::transmit` and the fallback to the socket; the kernel is external,
and each of its calls may fail or do part of the work.

### LinkMux, MavParser, SharedRing, EventLoop

`LinkMux`: a datagram is its header fields, payload and trailer; a writer per kind of frame, a
network that loses, repeats, reorders, cuts and damages one field; `Receive` is `recv_frame` with
`demux` and the counters. The checksum is an ideal one of what it covers, so a field it does not
cover may change unnoticed. `MavParser`: one byte at a time over every stream of up to ten bytes.
`SharedRing`: `do_push` and `do_pop` in a segment, with processes that die at any step, between the store of a cursor and
the return too (`PushReturn`, `PopReturn`); `perished` has what a consumer had released and not returned. The loads
and the wrap-around are in `SpscRing`. `EventLoop`: the three backends with the kernel's interest
and ready lists; callers close descriptors without unregistering them, as the fleet server does.

### CommandRoute, OperatorInput, CoPilot

`CommandRoute` is the way of a command over the stages, the bus and the routing thread of
`tpt-t-integration`; an alarm is a message fanned out with the loop that the doc of `try_deliver`
gives. `OperatorInput` is the evdev backend, its calibration and `ControllerMap`; axes are
integers in units of `1/Unit`. The device is opened with its axes anywhere and any buttons held, since `open` reads
ranges only; `moved` notes the axis each slot was last written from, `unheard` the buttons held since before. `CoPilot` has the hub's
atomics one by one; `lively` notes who was heard of less than the timeout ago in every state of the query, `mute` who
was silent for longer, or released, in all of them. The age that equals the timeout belongs to neither, since code and doc differ there.

### SecureLink

The handshake and the box of `tpt-t-sec`; cryptography is ideal and external (a signature
verifies when the named unit made it, and so on). Messages stay on the wire, so any of them may
be taken late, again, never, or by the unit that sent it; units begin and answer handshakes whenever they like, and a
responder without a common suite refuses. Random salts and one-time keys are distinct, which is what the code relies on too.

### Fleet, FleetServer

`Fleet` is `fleet.rs` with `sfu.rs` and `recorder.rs`; `SetMode` chooses how many segments of a
path the transport takes, `Ingest`, `IngestFails` and `CreateFails` what the disk takes (of the file header too), and `Restart` keeps the
files only. `FleetServer` extends it with `run_once`: `Dispatch` (events), `Pump`, and
`RegisterAndSweep`, each visiting its connections one step at a time; `ServeConn` is
`service_conn` from the read to the answer. What a request says is chosen when it is parsed; `served` notes who asked for what.
`ServeRead` assumes that the read loop ends, which a peer that sends faster than the server reads prevents (a finding); `ClientResolved`
is about the others. Enrolment precedes the server, so `Enrolled` is a constant.

### JsonCodec, HttpCodec

Writer and parser of `json.rs` and `http.rs`, over sequences of bytes: the conversion is what
the property is about. Requests are written and responses read as `send_request` of the console does it (`RequestText`,
`ResponseBody`), the only client in the repository. A number too large for an `f64` is infinite when it is read, and is written as `inf`. They use recursive operators, so no theorem reaches them.

### MCStreams, MCUnit, MCFrames

Parts that share no state are checked in one run, and a behaviour is one of a single part, chosen
in the initial state (`part`): their product would show nothing that the parts do not. In `MCStreams` the parts
are the reliable channel, the MAVLink bytes, the modes of a unit of the fleet, and its media; units share nothing but the
transport, whose sends fail independently, so that one shows what is to be seen.

## 3. Runs

Every run is `tlc -config <cfg> <module>` in this directory.

| Run | Shows | Bounds |
| --- | --- | --- |
| `spsc` | `NoSlotRace`, `LenBounded`, refinement `IsFifo`, liveness `FrontConsumed` | `Cap` 2, `Wrap` 4: both cursors pass the wrap-around repeatedly, full and empty occur at each position; two values tell order |
| `pool` | `PoolExact` (`QueueExact` of the queue, alone or as a free list: one owner per cell, oldest first, never overfull; `PoolSound` of the pool: one owner per slot, initialised contents, exact count), refinement `IsQueue` (the queue is linearizable) | three threads (two racing and one late), two cells and slots, `Wrap` 8, `MaxLag` 2 |
| `streams` | of the reliable channel `DeliveryExact` (in order, once, bitmap and slots agree), `RetainedUntilReceived` | 8 sequence numbers and 9 frames; window 4, reorder window 3, one acknowledgement in flight (which may be repeated and arrive late) |
| | of the MAVLink parser `CleanFramesEmitted` | every stream of up to ten bytes, one more than the buffer holds, over an alphabet of four |
| | of the fleet `CommandsReplayMode` | one unit, five commands: paths of two segments, each of which may fail; restarts |
| | of the fleet `FanOutExact`, `RecordingReadsBack` | one unit, two viewers with rings of two, three frames to a session, a payload that fits and one that does not, a file of five cells over restarts |
| `reliable_live` | liveness `SentIsDelivered` | stream of 6, longer than the window of 4 |
| `net` | `FreedIsDelivered`, liveness `RetainedIsDelivered` | retention and reorder window of 2, outbox of 2, four commands, two of them beyond the window; all four configurations |
| `safety` | `SlewBounded`, `VetoConverges`, `StopIsFinal`, `CeilingPinned` | five weights, blends of two ticks, two full-scale opposite commands, six poses from the ground to above the ceiling and beyond the fence |
| `server` | `ConnsAccounted`, action property `GatedMutation`, liveness `ClientResolved` | two clients for one connection, requests in two pieces, a timeout of one tick; an administrator, an agent and a stranger; gated or not |

`unit` checks eight properties of five parts:

| Part | Properties | Bounds |
| --- | --- | --- |
| mode machine and session | `LogReplaysMode`; `MotionHeld` | one mutator as in the program, a record ring of 2 and 5 commits, so records are dropped; two operators |
| flight recorder | `FileIsPrefix`, liveness `StopJoins` | entries of 2 units in sectors of 5, ring of 2, nine records: an entry ends at every place of a sector |
| neighbor table | `FindFreshest` | two units in one probe chain of a table of two, four beacon numbers, two addresses |
| estimator and governor | `BurstBounded`, liveness `GovernorFollows` | a fast link and one below a byte per tick, two seconds; each congestion level |
| transmit queue | `SlotsAccounted` | two slots, four datagrams: both slots can be stuck while calls fail |

`frames` checks nine properties of eight parts:

| Part | Properties | Bounds |
| --- | --- | --- |
| sealed sessions | `SessionsAgree`, `NonceOnce` | two units, four one-time keys (two handshakes, one of them repeated, crossed or reflected), offers with and without a common suite, two envelopes |
| multiplexer | `DemuxedAsWritten` | two frames of any kind, three receptions, each whole, cut or damaged in one field |
| command route | `RoutedInOrder` | rings of one, three commands, two alarms |
| operator input | `CommandFollowsStick` | three axes, two of them one-sided and sharing a slot, one button; opened in any position; event queue of two, command ring of one |
| co-pilot hub | `LowestLiveOwns` | two operators, timeout two, clock to three |
| shared ring | `SharedExactlyOnce` | segments too short for a slot, for two and for four slots; five values, three deaths |
| event loops | `EventsExact` | three backends, two descriptors, three registrations, batches of one |
| HTTP and JSON | `DocumentArrives` | strings of two characters of every kind, numbers, one of them too large for an `f64`, containers of two levels; three orders of headers; every prefix |

Symmetry is used in `pool` (of threads) and `frames` (of the two units of a session), which check safety properties only, all of them symmetric. Deadlock is checked except
in `spsc`, which stops when the ring is dropped, in `server`, where clients may stay away, and in
`streams`, `unit` and `frames`, whose parts stop at their bounds (`reliable_live` checks the deadlock of the channel). Types are proved with the invariants (section 5);
those of `MpmcRing`, `BufferPool` and `ReliableChannel` are conjuncts of `QueueExact`, `PoolSound` and `DeliveryExact`.

In `spsc`, `len` is called by the two endpoints. `LenBounded` is stated, and proved, for them: a third thread
that reads the tail, sleeps, and then reads the head may see a head beyond its tail, and the
wrapped difference is then huge. In the repository only endpoints call it (and `Debug` formatting, which decides nothing).

Three runs end in a counterexample, each against a sentence in the code's own documentation
(quoted in `findings`):

| Run | Property | What happens |
| --- | --- | --- |
| `pool_lost` | `NoSlotLost` | a guard is dropped while a pop is between its claim and its store; the push finds the cell of the previous lap unreleased and returns `Err`, which `release` ignores |
| `net_order` | `SinkInOrderOnce` | the verdict of `accept` is ignored: a repeated or late reliable command goes to the sink like any other |
| `mode_race` | `StagedHandover` | a transition checked before the stop of another thread is stored after it: the stop is left without an acknowledgment |

With one mutator, which is what the program has, `StagedHandover` holds, but then it repeats the table; no passing run has it.

Eleven more formulas are stated in the modules as a document reads and do not hold; no run has
them, and `findings` quotes the sentences:

| Formula | What happens |
| --- | --- |
| `SafetyLoop!AuthorityFollowsMode` | Assist and back to Auto before a tick: the blend of the first request keeps running |
| `SafetyLoop!StoppedModeStops` | `request_mode(EmergencyStop)` changes the mode and not the latch, and the loop's output goes on |
| `NeighborTable!ChainHoldsIt` | `expire` empties a slot inside a probe chain; the entry behind it is not found and is entered again |
| `FlightRecorder!AcceptedIsFlushed` | the thread finds the ring empty, a record is accepted, the flag is set, the thread ends |
| `Backpressure!BitrateRecovers` | the window of blocked sends is reset by the next blocked send only, so a link that clears keeps its congestion level |
| `DomainSession!ReleaseReported` | a stop clears the session's operator without `on_teleop_disengage` |
| `FleetServer!ManualControlScoped` | POST /command asks for `send_control` only, so an AI agent, which lacks the permission for manual control, sets FullTeleop |
| `OperatorInput!SnapshotIsController` | a lever that is displaced at open is reported as centred until it moves |
| `OperatorInput!FreshInputQueued` | the stick comes back while the command ring is full; its deflection stays the newest command |
| `CoPilot!OwnerIsYounger` | a heartbeat exactly as old as the timeout still makes an owner |
| `HttpCodec!AnswerIsJson` | an id of `1e999` is echoed as `inf`, which no parser reads |

Passing properties beside these say what does hold: `CommandFollowsStick` of the axes that moved since open and of
commands that were not refused, `GatedMutation` that an agent gets a unit into FullTeleop by POST /command only, `LowestLiveOwns`
of ages on either side of the timeout, `DocumentArrives` of finite numbers.

The other findings are read off the code while it was translated:

* the queue with one cell, which `with_capacity` allows, overwrites its value;
* the blend advances twice in a tick with commands;
* a process that dies between the last two steps of `do_pop` takes a value of the shared ring with it;
* the read loop of a connection has no bound of its own;
* an acknowledgement of the entire window is exactly the case `on_ack` breaks off on, so a sender
  whose window filled up stays full;
* as the service never drains, its acknowledgements never name frame 0, the window of its peer
  never moves, and commands beyond it go out without retention;
* a command popped from the outbox when the send fails or no peer is known is not put back,
  although the comment speaks of a retry;
* beacons are stamped with the time since the service started, and compared with that of others;
* the token bucket loses what is below a byte per refill while its timestamp advances;
* the session made by the server's handshake endpoint is kept and never used; the dashboard sends
  its attestation in a header the server does not read; a request whose sender has shut down its
  side is dropped unanswered; at the limit a connection is accepted and closed;
* `set_mode` walks a path of two segments out of `EmergencyStop` in one call;
* a frame whose payload could not be written leaves its header in the recording, and a file header that was written in
  part is never completed;
* an emergency stop in the command stream is refused outside `TELEOP_ACTIVE`;
* a MAVLink magic byte right behind a stray one is taken for a length;
* buttons are not copied by the controller map, a dead zone of zero switches the sticks off, three
  calibrations are stored under other axes, microseconds are added as nanoseconds;
* completions of an unregistered handle are dispatched; `floor_pow2(0)` is not zero; JSON strings
  with characters beyond ASCII are not read back.

## 4. Fairness

* `SpscRing`: weak fairness of the steps inside a call, since a running thread does not stop
  there, and strong fairness of `PopClaim`: the consumers poll, and a store becomes visible to
  a thread that keeps loading after finitely many loads. The producer is under no obligation
  to start a push.
* `ReliableChannel`: the service thread keeps sending, draining, acknowledging and ticking
  (weak fairness of each, of `Tick` for each slot, since an overdue frame stays overdue), and
  the network does not lose every copy of a datagram that is sent again and again (strong
  fairness of the receptions). Nothing is assumed about loss, order or repetition beyond that.
* `NetService`: the thread polls for ever (weak fairness of `EndReceive` and `Background`), the
  peer's beacons keep coming (strong fairness of `TakeBeacon`), an overdue slot is sent again
  when passes of the timers find a destination infinitely often, the kernel not refusing every
  time (strong fairness of `Resend` per slot), and not every copy of a frame is lost (strong
  fairness of `TakeControl` per frame). No fairness of acknowledgements is needed.

* `FlightRecorder`: the storage thread runs until it ends (weak fairness of its steps).
* `Backpressure`: the media thread ticks the governor for ever (weak fairness of `GovernorTick`);
  `GovernorFollows` speaks of the time after the target has settled, and owes that to nobody.
* `FleetServer`: the server thread loops for ever and time passes (weak fairness of `Server` and
  of `Tick`). Clients owe nothing but to pause in what they send, so that a read loop ends: the timeout resolves the ones that stall.
* `UringTx`: the thread goes on and the kernel completes what it was given; no run relies on it.

The other specifications have no fairness and no liveness property.

## 5. Proofs

| Module | Theorem | For every |
| --- | --- | --- |
| `SpscRingProofs` | `TypeCorrect`, `SlotRaceFree`, `EndpointLenBounded`, `ImplementsFifo` | capacity, cursor width and value set, under `CapAssumption` (the capacity divides the range of the cursors and is smaller) and `ValAssumption` |
| `PoolProofs` | `QueueExactAlways`, `ImplementsQueue`, `PoolSoundAlways`, `PoolExactAlways` | threads, values and slots, width of the positions, and capacity above one, under `RingAssumption` and `PoolAssumption` |
| `SafetyLoopProofs` | `TypeCorrect`, `StopFinal`, `Slewed`, `VetoCaps`, `Pinned` | envelope, command, baseline, pose, blend length and ring capacity, under `LoopAssumption` and `InputAssumption` |
| `ReliableChannelProofs` | `DeliveredExactly`, `RetainedLongEnough` | window, reorder window and range of sequence numbers, under `ChannelAssumption` (the window divides the range; neither it nor the age of a datagram exceeds half of it) |
| `NetServiceProofs` | `FreedDelivered` | retention window, reorder window, outbox and number of commands, under `ServiceAssumption` and `ChannelAssumption` |
| `FleetProofs` | `CommandsReplayModeAlways`, `FanOutExactAlways`, `RecordingReadsBackAlways`, `ServerImplementsFleet`, `GatedMutationAlways`, `ConnsAccountedAlways` | units, operators, viewers, ring capacity, payloads and length of a recording, clients, credentials and limits; `SessionAssumption` and `RoleAssumption` only say that "no session" is not a session and that credentials are enrolled with roles there are |
| `UnitProofs` | `TypeCorrect` (any mutators), `LogReplays` (one mutator) | capacity of the record ring and number of commits |
| | `SessionHolds` | set of operators (`None` is not one of them), and whatever the adapter refuses |
| | `FindFreshestAlways` | units, addresses, table size and place where each probe starts |
| | `BurstBoundedAlways` | finite set of capacities, datagram sizes, ticks in a second |
| | `SlotsAccountedAlways` | number of slots and of datagrams |
| | `FileIsPrefixAlways` | capacity of the ring, length of an entry and of a sector |
| `FramesProofs` | `SessionsAgreeAlways`, `NonceOnceAlways` | units, suites, number of handshakes and envelopes |
| | `SharedExactlyOnceAlways` | lengths of region, header, item and cache line |
| | `DemuxedAlways` | length of a payload, number of datagrams |
| | `EventsExactAlways` | descriptors, registrations, length of a batch, on each platform |
| | `HubOwner` | number of operators, timeout and clock, under `HubAssumption` |
| | `RoutedInOrderAlways` | capacity of the rings, number of commands and alarms |
| | `CommandFollowsStickAlways` | axes, ranges, buttons, dead zone and lengths of the queues |
| | `CleanFramesEmittedAlways` | dialect, stream, and capture buffer that holds the longest frame (`ParserAssumption`), over the alphabet of the module |

The bounds that only keep TLC's instances finite (`Max...`) are constants of the theorems like any other, so a
theorem holds for every value of them.

**SpscRing.** `NoSlotRace` is not inductive: why a cell is free is a fact about what the
producer last saw. The invariant `IInv` adds `Windows` (what each endpoint saw of the other's
cursor is behind the cursor itself, and from what the producer saw to the tail is at most the
capacity), `Cells` (cells hold values at exactly the positions between the cursors, one more
while a push is about to publish, one less while a pop is about to release) and `Lengths`
(what an endpoint inside `len` holds). The arithmetic is in lemmas about the wrapped difference
of cursors (`SubLinear`, `IncUpper`, `IncLower`, `Between3`) and about cells (`SlotsDistinct`:
positions less than a capacity apart have different cells). Refinement: `QueueShape` gives
length and elements of the refinement mapping `Queue`, and one lemma per step says what it
does to it: `PushPublish` appends, `PopRead` takes the head, the others leave it alone.

**ModeMachine.** With one mutator nothing comes between its check and its store
(`Undisturbed`), so the record names the mode that the store replaces. `LogReplays` needs `Chain` too, which speaks of states inside a call too: the record in hand is counted, and the chain ends in
the mode it leaves. `ConcatAppend` and `ConcatDrain` say what a push and a drain do to the
drained and pending records together.

**SafetyLoop.** `StopFinal` rests on `FlagInv` (no command in the input ring has the flag) and
`StopInv` (behind a stop in the output ring are only stops, and the latch is set). The three
envelope theorems rest on `EnvelopeInv` (the last output is inside the envelope, everything in
the rings and the blend is a number) and on one lemma per stage: whatever comes out of `Mix`,
`ApplyVeto` and `Fence`, `Limit` brings within a slew step of the last output and inside the
envelope, and `BrakeThrottle` only lowers the throttle. `VetoCaps` uses that the fence never
raises the magnitude, so the target of the slew limit is inside the cap. `TypeCorrect` needs that the polynomial of the blend
stays between 0 and 1 (`SmootherstepIn`: it, and what it lacks to 1, are products of sums without a
negative term), so that the rounded weight is between the ends of its blend (`WeightIn`), wherever the next request interrupts it.

**MpmcRing and BufferPool.** A thread compares positions modulo `Wrap`. The invariant `RingInv` says that there are
counts of claims `E` and `D` and a position `P[t]` per thread of which the variables are remainders, and
speaks of those: claimed cells are unpublished or hold their value (`Claimed`), the others are free
or not yet released by a pop of the lap before (`Free`), an owner's cell has the number that shows it (`Owning`), two owners
are at two positions (`Apart`), and a waiting thread is at most `MaxLag` behind (`Waiting`), so that
comparing remainders compares positions. The hypothesis `Cap > 1` is necessary: with one cell the
number of a published cell is also that of a free one of the next lap, which is the finding at
`mpmc.rs:45`. `PoolInv` adds, per slot, that exactly one of the free list, a call in progress and a guard has
it, or that it is lost (`OneOwner`), and that `outstanding` is the guards and the calls that have counted
(`Counted`). Losing a slot is possible (`pool_lost`), so that none is lost is not part of it.

`ImplementsQueue` maps the abstract queue to `claimed`, and the value a thread's pop has taken to that of the cell it has
claimed and not read yet, or to the one it has read and not returned. The two compare-and-swaps are the
moments at which the abstract queue changes. That a claim finds a value, and that
the cell holds the oldest one, is what `QueueExact` says before and after the step (`ClaimFinds`, `CallStep`); every other
step leaves queue and results as they are (`ResultKept`), since no other thread writes a cell that a pop has claimed.

**ReliableChannel.** `ChannelInv` has the position `low` of the sender's window in the stream, of which `oldest` is the
remainder: the receiver is inside the window, retention slots hold frames of it in their own slots
(`SlotsInWindow`), what is in the network is not so old that its number could be taken for one ahead
(`FramesOfStream`), and an acknowledgement is true of a moment not long past (`AcksTruthful`).
What a step does to the wrapped difference of two numbers is in lemmas about `Sub` and `Add`.

**NetService.** `FreedIsDelivered` follows from `SInv`: what never moves stays put (`Fixed`: the base
of every acknowledgement and of the sender's window is 0), frames and the outbox hold
stamped commands only (`Commands`), a live slot holds the frame of its own number
(`Retention`), and every bit of the bitmap and of an acknowledgement in flight is a command the
sink has got (`Truthful`). A slot is freed only by such a bit.

**DomainSession.** `MotionHeld` with the types is inductive as it stands: its three conjuncts
(the session has an operator exactly while it is active, the adapter was engaged for that operator,
motion implies an operator) need each other, since a refused hook leaves the adapter's view behind
the session's.

**CoPilot.** `LowestLiveOwns` looks at the answer only. `HubInv` speaks of the query on its way:
an operator heard of within the timeout throughout still is and has not been passed (`Passed`), and one silent in every state,
once its flag was found clear, is ruled out by its age (`RuledOut`), because a heartbeat in between
would have ended its silence. `LiveIsYoung` relates the age the query computes to liveness.

**Fleet.** `Replays` speaks of every prefix of the commands, so that `PathLegal` (each segment of `PathVia` is
allowed after the one before) can extend it by any number of segments: this is the case in which the transport fails
halfway. `FanInv` adds, per subscriber, that what it read followed by what its ring holds is a subsequence of the frames offered
since it subscribed, and that with the missed ones they are as many; identifiers below `next` are the
only ones in use, so a new viewer starts with an empty ring.

`RecordingReadsBack` is about a function that walks a file of any length. `Reading` states the walk as an equation; that
it has a solution, and so that `ReadFrames` satisfies it, is shown by the least place from which
there is one (`ReadingExtends`, `ReadingExists`). `Laid` gives the place of each header, and the walk from the last of them back reads the
frames (`LaidReads`). `RecordInv` says that an untorn file holds what was recorded, and begins with a header
once a session records, which is what lets `HoldsMore` add a frame after a restart as before it.

**FleetServer.** `ServerImplementsFleet` is a refinement without a mapping: the variables of the fleet are
variables of the server, each step of the server is a step of `Fleet` or leaves them alone. It carries
`CommandInv` over to the server, and `GatedMutationAlways` follows from it by going through the tools and the roles that grant
them. `ConnsAccounted` needs `BacklogOnce` (a client is in the backlog once, or accepting it would leave a
copy) and `TableOpen`.

**NeighborTable.** `FindFreshest` is about the first entry that a probe meets. It is not inductive: `expire` may empty the
slot in front of a stale copy. `NearerFresher` says of any two entries of a unit that the nearer is the
fresher, which `observe` keeps, as it writes the first place it can stop at, and `expire` too, as it
removes entries only. `ProbeVisits` says that a probe comes to every slot once.

**Backpressure.** While the leaky bucket `burst` is not empty, it, the tokens and what the time since the last refill
may add are together at most one full bucket (`PressureInv`), all scaled by bits and ticks so that no division is
left. The rounding of a refill is in `DivideBack`: it only loses tokens.

**UringTx.** `UringInv` says where each slot is: on the free list once, staged (at most the one of the datagram in
hand), or in flight and then in exactly one of the submission queue, the kernel and the completions.
`LeftWhenSent` ties what `transmit` reports to what has left.

**SecureLink.** A one-time key is attested once (`AttestedOnce`), so a pair of them names one init and one reply
(`OneHandshakePerKey`), and `SessionsAgree` follows. For the nonces, each salt is a one-time key of its
owner that is used up, and the session that has it has counted past every envelope sealed with it
(`Sealed`).

**SharedRing.** The invariant is that of a ring with two cursors; a process that dies leaves its cursor, and what it had
not published or released is done again by its successor, which is why a value in hand is tied
to a cell that nobody else may touch (`ProducerHolds`, `ConsumerHolds`). What a consumer has released and not returned is in no
cell: it is younger than everything returned before, and a death there moves it to `perished`, one value for each death at most. `FitFits` says that the capacity
`attach` computes from the length of the region fits into it.

**LinkMux, EventLoop.** Every datagram on its way is as a writer made it, and damage to one field
makes it malformed or shows in the checksum (`DamageShows`). For the loops: the
filters of a registration are armed under its token (`WatchedArmed`), and ready while its handler
has something to see (`EdgePending`).

**FlightRecorder.** `FileIsPrefix` is about what the parser makes of the file, and says nothing of the sector that is
being filled. `ValAt` gives, for every place of the file, the unit that belongs there once a number of records was taken from
the ring: of a record, of the end marker behind the last, or padding. `RecInv` says that file and staging buffer together have
these units (`FileIs`), that they end with an entry whenever the thread is between two writes, and that the ring has the
records that follow (`RingIs`). A write that is cut at a sector, or fails, keeps this, since places and not entries are counted; the
arithmetic of places is in `PlaceOf` and `ValOfPlace`.

**CommandRoute.** `RouteInv` says of each subscriber that everything on its way, over all the rings between, is exactly what is
due to it (`Due`: what was produced, less what is still in the input ring and what a full ring of its way dropped), in order for
commands and for alarms apart (`Way`). So a step that moves messages from one ring to the next leaves the way as it is, and
one that drops a message takes it out of both (`WayAppend` and its like).

**MavParser.** `ParserInv` adds to the property what the capture buffer holds: the end of the stream from a magic byte on
(`CapturedIs`), a whole frame only if it failed its checksum (`NotSound`), and a frame that has begun after a byte that is not
magic, and is not whole, without anything in front (`BegunCaptured`). The last is why noise costs no clean frame. The checksum is not
expanded anywhere in the proof, so it holds for any checksum.

**OperatorInput.** While events wait in the kernel's queue the accumulator is behind the device, so
`CommandFollowsStick` says nothing of such states. `InputInv` speaks of what the accumulator will be: with the
queued events applied, a slot has the position of the axis that wrote it last (`Positioned`) and a bit is set only for a
button held (`Seen`). A slot that no axis has written since open is centred, wherever the axis stands. `AxesAfterAppend` and its like say that one more event is applied after all the others, so
a movement of the device keeps this (`PositionedMove`), and a drain turns what will be into what is. The loops are
equations with a solution (`IteratesExist`), as for the recordings. The run has one button; the proof has
any number, of which some may share a bit (`SeenPress`).

Only model-checked: `FrontConsumed`, `SentIsDelivered`, `RetainedIsDelivered`, `StopJoins`,
`GovernorFollows`, `ClientResolved` and every other consequence of fairness, which is beyond the
prover; and `DocumentArrives`, whose writer and parser are recursive operators, which the prover does not
take. Where a theorem needs induction over data (the recordings, the events of a drain), it is done on the set of
counterexamples, which has a least member (`LeastOf`, `CountUp`), for functions given by recursive equations.

## 6. Plan, and what is not modelled

Every invariant, action property and refinement of the passing runs is proved, except `DocumentArrives`. `LogReplays`
is about one mutator, which is what the program has: the safety loop is the only caller.

Partly modelled: the construction of the network service and its wake-ups (socket set-up);
`set_queue_depth` of the estimator, which nothing calls; `PtrRing` and `cast`, which add no state
to the ring; `wire.rs` of the domain bridge, which hands values on; enrolment, which ends before
the server starts.

Not modelled:

* thread pinning, core profiles and real-time elevation: one system call each, no state after it;
* the wire types: records, of which the modules keep the fields that their properties tell apart;
* the training export: conversion of a finished file to another format;
* the frame pool: a stack used by one thread, which borrows it mutably, so that nothing interleaves;
* capture, encoders and overlay: stubs of devices, and pixels;
* the AI source and haptics, and the input backends other than evdev: one value in, one value out,
  or stubs of system interfaces;
* drivers, register access, mocks and the simulator of `tpt-t-hal`: devices and floating-point
  physics;
* developer tools (`tpt-t-cli`, `tpt-t-macros`): command lines, templates and a derive macro; of the console only its HTTP client is
  modelled, with the codec.
