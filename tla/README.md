# Brawololo: a TLA+ model of the game's networking and combat

Brawololo is a server-authoritative multiplayer arena game in C++. This directory
models the parts of it where ordering, loss and timing decide what is correct:
reliable events and snapshots between the server and its clients, the encodings and
transports that carry them, combat and respawn in the server's simulation, the
client's copy of the world, its prediction, its clocks and what it draws when. TLC
checks small instances; TLAPS proves the central safety properties for every value
of the constants.

## The system

| Component | State | Operations | Talks to |
|---|---|---|---|
| `ServerApplication`, `ServerRuntime` | tick count; the simulation, the next snapshot id, the snapshot history | `TickOnce` | transport, host, simulation |
| `ServerNetworkHost` | clients in login order, one replication state per client, the baseline cache, the next event id | pump of logins, inputs, acknowledgements, time sync; tick with snapshots, interest events, broadcast, resend | transport (messages), runtime (calls) |
| `ServerClientReplicationState` | last acknowledged snapshot, next send time, interest tracker, pending reliable events | track, acknowledge, due for resend | host (calls) |
| `SnapshotBaselineCache`, `InterestTracker` | recent snapshots per client; the entities a client knows | `Store`, `Find`, `Decide`; `Update` | host (calls) |
| `GameSimulation` | players, weapons, projectiles, queued inputs and events, last accepted sequence per client | `Submit`, `TickFixed`, `BuildSnapshot`, `ApplySnapshot`, replay | server runtime and client runtime (calls) |
| `ReplicationPlanner`, `PlanSnapshotDelta` | none | order and cut of a snapshot; changes against a baseline | host (calls) |
| `ClientApplication`, `ClientRuntime`, `PendingInputHistory` | unacknowledged inputs, the predicting simulation | `SubmitInput`, `TickFixed`, `ApplyServerSnapshot` | session (calls) |
| `RemoteClientSession`, `ClientProtocolPump` | connection state, reliable events for the application, next time sync | `Connect`, `Tick`, `Pump` | transport (messages) |
| `NetworkClock`, `LagCompensationService` | offset and round trip; the history of snapshots | `RecordTimeSyncSample`, `EstimateServerTime`; `Record`, `Query` | pump; server runtime (calls) |
| `FixedStepClock`, `PresentationInterpolator`, `BuildClientViewFrame` | accumulated time; recent snapshots | `BeginFrame`, `ConsumeTick`, `EndFrame`; `PushSnapshot`, `Sample` | `RunFrame` (calls) |
| `NetworkProtocol`, `Serialization`, packet and signal codecs | none | validation, encoders, decoders | everything that sends |
| `KcpRtcTransport`, `KcpRtcPumpedTransport`, signaling hub, data channel | phase, signal and frame queues | `Connect`, `Update`, `Send`, `Poll`, `Close` | each other (queues) |
| Loopback transports | queues, delayed queues, drop and delay counters | `Connect`, `Send`, `Poll`, `Update`, `Close` | host and sessions |
| Presentation: view model, logs, Raylib | what is drawn | | client runtime (reads) |

Every process is one thread: a server process pumps and ticks, a client process
samples, ticks and pumps. Nothing is persisted. What is hard comes from the
messages between them and from the order of steps inside a tick:

* envelopes are lost, delayed and reordered; reliable events are resent until
  acknowledged, and both copies and acknowledgements may be late;
* a delta names a baseline the client must have, while acknowledgements race
  eviction from the cache;
* `Send` may refuse one envelope of several after state has moved on;
* one tick runs inputs, warmups, projectiles and respawns over the same
  components, so one player may be hit, killed and respawned in interesting
  orders;
* a client predicts inputs that the server may lose, batch or acknowledge late, and
  runs the server's combat code on a copy that the next snapshot overwrites;
* a client's copy is cut to its interest and to a number of entities, so players
  leave and come back under ids that the client may have used itself;
* several clocks drift against each other: real time, the server's ticks, the
  client's ticks, and a smoothed integer estimate between them;
* transports connect in phases driven by signals that may be stale.

`PROJECT.json` lists the hazards at their lines with the properties that cover
them, and maps every definition to the lines it models.

## Modules

| Module | Models | Extends |
|---|---|---|
| `Network` | envelopes in flight, by message class | |
| `ServerClientReplicationState` | pending events, baselines and interest of one client, as operators on values | |
| `ServerNetworkHost` | the host and its tick | the two above |
| `ClientProtocolPump` | remote session and protocol pump | `Network` |
| `Replication` | host, clients and network together; the properties | the two above |
| `ReliableDelivery` | abstract: what reliable events promise | |
| `MCReplication` | instances of `Replication` for TLC | `Replication` |
| `ReplicationProofs` | theorems about `Replication`: types, snapshots, reliable events, interest; the refinement | `Replication` |
| `GameSimulation`, `GameSimulationProofs` | the server's simulation; theorems | |
| `Prediction`, `PredictionProofs` | the local player's inputs at client and server; theorems | |
| `ClientSimulation`, `ClientSimulationProofs` | the client's copy of the world, interest, planner, delta; theorems | |
| `NumberLemmas` | every set of numbers has a least one, every bounded one a greatest; induction up to a bound | |
| `Iteration` | a loop as a recursive function: there is one, and it does what its passes say | `NumberLemmas` |
| `TimeSync` | server time, network clock, lag compensation | |
| `ClientPresentation`, `ClientPresentationProofs` | fixed steps, interpolation, the time of a frame; theorems | `TimeSync` |
| `BinaryCodec` | bytes, widths and the reader's failures (`BinaryWriter`, `BinaryReader`) | |
| `Serialization` | every encoder and decoder of the messages | `BinaryCodec` |
| `NetworkProtocol` | envelopes, `ValidateEnvelope`, channels and classes, event DTOs | `Serialization` |
| `TransportScript` | the messages the ends of a transport send, and their frames | `NetworkProtocol` |
| `LoopbackTransport`, `MultiClientLoopbackTransport`, `RtcTransport` | the three implementations of `ITransport` | `TransportScript` |
| `Transport` | `ITransport`: one of the three, its ends in any order | the three above |
| `LossyChannel` | abstract: a channel that invents and repeats nothing | |
| `MCTransport` | scripts with every message class and event kind | `Transport` |
| `TransportProofs` | theorems about codecs and transports; the refinement of `LossyChannel` | `Transport` |

**Replication.** The network keeps one variable per message class, each a set of
payloads per client, so anything in flight may arrive next. Reliable events and
their acknowledgements stay in flight when they arrive, which is how a duplicate
or a late copy appears. `TickAndSendSnapshots` is cut into the steps of its loops
(variable `phase`; `cursor` is the loop over `clients_`, `frame` the interest
events still to be sent, `tickEvents` the domain events still to be broadcast).
Each `Send` is therefore a step that may be refused by itself; `MayRefuse` names
the kinds of Send that the transport may refuse. `ResendPendingReliableEvents` is
one step, in which any part of what is due may be refused. What the simulation does
in a tick is an input: at most one combat or movement event, and any set of visible
entities. Times are counted in ticks since the last send, with the host's ticks at
equal distances as `RunForTicks` makes them. The seven combat kinds are one kind,
since host and pump treat them alike; `PlayerMoved` stands for the domain events
that have no network form and still consume an event id. History variables: `told`
(events tracked for a client), `ingested`, `applied`.

**GameSimulation.** `TickFixed` is cut in the same way: `ProcessInputs` with the
clock, `ProcessWeaponWarmup` per player, `ProcessProjectile` per arrow,
`ProcessRespawns`. Positions are inputs: an arrow may leave the map in any tick
and be close to any player. Deadlines count down in ticks. The views of the entity
registry are visited in any order. `deaths` counts PlayerDied less PlayerRespawned
and `warmupLife` remembers whether the warmup began in the present life.

**Prediction.** A position is the sequence of inputs that led to it, which is what
tells a lost, a repeated and a reordered input apart. Fixed-point arithmetic and
the friction of ticks without an input are not in it: the module says which inputs
the two sides have applied, not that their coordinates are equal.

**ClientSimulation.** Server and client registries are functions from network ids to
entities. `PlannedSnapshot` is `BuildSnapshot` (the area of interest, in chunks along
one axis) followed by the planner's order and cut; snapshots in flight may be lost
and reordered. `ApplySnapshot` is one step: the local player adopts the id of the
snapshot or a provisional one, entities are made and removed, tags and the index
`playerByClient_` follow. The client's tick runs the same projectile, warmup and
respawn code as the server's, in the mode `ClientPrediction`. The server's tick
here is one step (`ServerTick`), since `GameSimulation` has its inner order: arrows
loosed in a tick fly in that tick, and the defeated do not move.

**TimeSync and ClientPresentation.** The local clock is real time, of arbitrary
origin; the server's ticks fall due on it. A request is answered with the server's
simulation time, and the answer recorded with the truncating arithmetic of
`NetworkClock`. `RunFrame` is a loop of steps: time that has passed is accumulated,
ticks consume it, each tick pumps answers and snapshots, `EndFrame` drops what
`maxTicksPerFrame` left. The remote entity walks at constant speed, so its place
says which time is drawn. Seconds are whole milliseconds instead of floating point.

**Transport.** One call of `ITransport` is one step, since both ends of an in-memory
pair run in one thread; the nested pumps of `Update` are functions on a record.
Messages are encoded to bytes when they are sent, and on the data channel envelopes
become frames: every field, width and validation is there, for non-negative numbers.
What a payload decodes to is a property of its own (`PayloadsDecodeWhole`). The loops of
the code over fields, entities, signals and queues are recursive functions over 0..n,
whose value at i is the state after i passes; frames and signals are looked up in
constant tables of what they are coded as and decode to. The conditions of the loopbacks drop or delay every n-th
envelope. `Leave`, `Error` and `IceCandidate` signals are left out because no code
sends them.

## Runs

| Run | Shows | Bounds |
|---|---|---|
| `ReplicationSafety` | events are forgotten only after they were ingested; deltas name applied baselines; the interest events agree with the tracker when `Send` does not refuse them; `Replication` implements `ReliableDelivery` | 2 clients, 1 entity, 3 event ids, 2 snapshots, cache of 1, cap of 2; symmetric clients |
| `ReplicationLiveness` | without a cap every event is acknowledged at last, and an admitted client connects, although snapshots and resends are refused and lost; deltas name applied baselines | 1 remote and 1 simulation-only client for one place, 1 event, 3 snapshots, cache of 1 |
| `ReplicationInterestLost` | **violation**: an interest event whose first Send is refused is never sent | 1 client, 1 entity |
| `GameSimulation` | health, defeat, death events, warmups and arrow ids stay consistent; respawns and warmups end | 2 players, two hits to kill, 3 inputs each |
| `Prediction` | inputs are predicted once and in order, none is taken back, none is acknowledged unsimulated; prediction and server agree at last | 4 inputs, 2 snapshots in flight |
| `PredictionReordered` | **violation**: a late snapshot takes the player back | 2 inputs, 2 in flight |
| `ClientSimulation` | the index of players is exact, the predicted player is the server's, nothing lingers but the provisional player, deltas describe their snapshots, and the copy comes to mirror the server | 2 players, 3 chunks, 3 ids, 2 snapshots in flight, no cap and a cap of 2 |
| `ClientCombat` | **violation**: the client's own tick damages a player | as above |
| `Transports` | every message class over every transport: types hold, what is queued is valid, nothing is missing or out of order, payloads decode to what was encoded and damaged ones are refused, queues drain, handshakes complete; `Transport` implements `LossyChannel` | up to 3 messages each way, conditions off or every second envelope, 1 close |
| `RtcReconnectTwice` | **violation**: after two reconnects a late Answer strands the client | 2 closes |
| `ClientPresentation` | the clock's error is bounded, rewinding finds the snapshot meant, fixed steps keep pace, remote entities are drawn where they were | 9 ms of real time, ticks of 2 ms, frames of up to 9 ms cut at 5 |
| `RenderTime` | **violation**: frames are drawn at a time unrelated to the server's | as above, with a server that started earlier |

Why the bounds are enough. Three snapshots with a cache of one evict the baseline
at every send, and the acknowledgement of the first may come after its eviction and
before the third (`ReplicationLiveness`); three event ids let an entity
enter and leave interest besides a broadcast event, with acknowledgements in any
order; two clients suffice for a mix-up of states. Two hits kill at `MaxHealth` 3
and `Damage` 2, so an overkill and a survived hit both occur; three inputs each
allow a warmup, an arrow, and another warmup after a respawn. Four inputs with two
snapshots in flight let a server tick batch several inputs while an older snapshot
is on its way. Three network ids are two players and an arrow; three chunks put one
of them in and out of interest; the ids and client ids are chosen so that the
provisional id falls on an entity of the server's. In `MCTransport` all fields of a
message differ, so that no two can be swapped unnoticed, and one snapshot is larger
than `kMaxNetworkPayloadBytes`. In `ClientPresentation` the real time covers several
sync intervals, more snapshots than either buffer holds, and a frame longer than the
ticks it may run.

`MCReplication` takes the steps of clients and network between ticks only: the
host reads no network variable inside a tick and only adds to the network, so a
client's step in the middle of a tick could as well be taken after it. In the
safety runs an envelope is lost by never arriving, which differs from `Lose` only
in that it could still arrive. The theorems are about `Spec`, which has neither
restriction.

Deadlock is checked in every run: some loop can always take its next step.

**Fairness.**

* `ReplicationLiveness`: the server's loop keeps running (`WF` on
  `TickAndSendSnapshots`). A transport that is asked again and again to send an
  event accepts it at some time, and an event or acknowledgement that is in flight
  again and again arrives at some time (`SF`): the transports drop some envelopes,
  not every copy. No particular envelope is assumed to arrive, nor any client to
  log in.
* `GameSimulation`: `TickFixed` goes on (`WF`).
* `Prediction`: client and server loops go on; snapshots sent again and again enter
  the channel and the oldest one arrives again and again (`SF`).
* `ClientSimulation`: logins happen, deadlines pass on the server, snapshots are sent
  and the oldest in flight arrives. Nothing is assumed of the client's own ticks.
* `Transports`: the ends connect, the loops update and poll (`WF`). Sending and
  closing are not fair.

## Findings

* `SendReliableEvent` tracks an event only if `Send` accepted it, but the interest
  tracker has moved on by then (`ReplicationInterestLost`). The documents promise
  reliable interest events.
* The documents call the snapshot channel sequenced; the client applies whatever
  arrives, and no transport drops older snapshots (`PredictionReordered`). The
  damage passes: `PredictionConverges` and `ClientMirrorsServer` hold without
  sequencing.
* An `Answer` takes a connected client back to `DataChannelConnecting`, and
  `readyNotified_` keeps it from notifying again (`RtcReconnectTwice`). It happens
  when the server answers the offer of an earlier connection after the client has
  reconnected: the client connects on that answer, and the answer to its own offer
  strands it. After a single reconnect the server's one DataChannelReady still
  repairs this; after a second one nothing does.
* `ProcessProjectiles` has no mode check, so a predicting client damages and kills
  players in its copy, although the documents say that clients never own hits
  (`ClientCombat`). `ClientMirrorsServer` shows that the next snapshots repair it.
* `BuildClientViewFrame` samples remote entities at the client simulation's own time,
  which counts its ticks from 0, and nothing calls `EstimateServerTime`, although the
  documents say that the network clock maps render time to server time
  (`RenderTime`). Clients that joined late draw the oldest snapshot of the buffer.

An event that has reached `reliableEventMaxSendCount` stays pending for ever. The
cap is documented, so this is a hazard and not a finding; with the cap set,
`PendingIsEventuallyAcknowledged` does not hold.

## Abstract specifications

`ReliableDelivery` says what the host promises of a reliable event: a client is told
of it once, it stays owed until that client has ingested it, and events are forgotten
one at a time; one event may be told to several clients in a step. `Replication`
implements it with `owed` as the events of the pending entries
(`ImplementsReliableDelivery`, checked and proved). `LossyChannel` says what every transport promises: a message arrives at
most once, and only if it was sent in that direction; it may be lost. `Transport`
implements it with the envelopes of whatever queue they are in, those in frames
decoded (`ImplementsLossyChannel`, checked and proved).

## Proofs

`ReplicationProofs` proves, for every set of clients and entities, every cache
size, resend interval, cap and bound, and whichever Sends may be refused:

* `TypeCorrect`: `Spec => []TypeOK`.
* `DeltaBaselineCorrect`: `Spec => []DeltaBaselineWasApplied`. The property is not
  inductive: the baseline of the next snapshot is `acked[c]`, which came from an
  acknowledgement in flight. `AckedSnapshotsWereApplied` closes it: both are about
  applied snapshots.
* `ReliableEventsKept`: `Spec => []ForgottenOnlyAfterIngested`. An acknowledgement
  carries an id, not an event. `AckedEventsWereIngested` says that an id in flight
  is that of some ingested event, `OnlyToldEvents` that it was told to this client,
  and `EventIdsAreUnique` that it is then the pending event of that id.
* `InterestIsTold`: `Spec => []InterestStreamMatchesTracker`, if `MayRefuse` does not
  hold `"ReliableEvent"`; `ReplicationInterestLost` shows that it fails without this
  hypothesis. The property speaks of moments between two frames only. `InterestInv`
  speaks of every moment: the newest event told about an entity says that it entered
  exactly if the tracker knows it and the open frame has not yet to tell of it, or the
  frame has yet to tell that it left. Event ids grow, so the event just told is
  the newest; and what a client was told is what it ingested or is owed.

It also proves `DeliveryImplemented`, `Spec => Delivery!Spec`: with the invariants above, each action tells, ingests or forgets one event of a client, or
changes none of the three. Acknowledging is the interesting case: the ids in flight are of
ingested events, and ids are unique, so the entry dropped is one event that was
ingested.

`GameSimulationProofs` proves for any number of players and any configuration:
`TypeCorrect`; `LifeCorrect` (`LifeInv` is inductive with `TypeOK`: a hit needs the
victim not to be defeated, so deaths and defeats change together); `FreshIds`
(`ArrowIdsAreFresh` is inductive: a new arrow takes `nextId`); and `ArrowsCorrect`,
the action property `ArrowsComeFromThisLife`, from `LifeInv`.

`ClientPresentationProofs` proves for every tick length, start, delay and capacity:

* `ClockCorrect`: `Spec => []ClockErrorBounded`. `ClockInv` adds that messages are of
  the past: a request was sent before now, and an answer carries the server's time
  of a moment between its request and now. Then the offset measured is off by at most half the
  round trip, and an eighth of seven old errors and a new one, truncated, is within the
  bound again (lemmas `MeasuredWithin`, `HalvedMonotonic` and those on `Eighth`).
* `PaceCorrect`: `Spec => []FixedStepKeepsPace`, from `PaceInv`: simulated and
  accumulated time together do not exceed the time up to the last frame, and only a
  frame that is running holds a whole step.
* `TypeCorrect`, from the two and `BufferInv`.
* `RewindCorrect`: `Spec => []RewindIsClose`, if
  `(HistorySize - 1) * Tick >= MaxRewind`. `RewindInv` says that the server is on time
  and that its history has no gap: neighbours are a tick apart and the last is the
  present. So a time within the history has a snapshot less than a tick before it, and
  `ClockCorrect` bounds the rest. The program keeps 128 snapshots and rewinds
  250 ms; with a shorter history the service would refuse times it says it allows.
* `RemoteIsDrawn`: `Spec => []RemoteIsDrawnWhereItWas`, a fact about `Sample` on every
  buffer: the two snapshots found enclose the render time, and the two truncations,
  of the weight and of the place, lose what the property allows and no more.

`PredictionProofs` proves for any number of inputs and snapshots `PredictionTypes`,
`PredictionKeepsOrder`, `NoUnackedInputIsTakenBack` and
`OnlySimulatedInputsAreAcknowledged`. `PredictionInv` is one invariant for the
three, since none is inductive alone: the history and the inputs the server has
accepted are increasing, the client queues nothing but its newest input, a
prediction is increasing and holds all of the history that is not queued, and a
snapshot holds no input beyond the one it acknowledges. Applying it then puts the
history's newer inputs after the snapshot's, in order. That `AcknowledgeThrough`
keeps all that is newer, and in order, is proved by induction over its recursion
(`AcknowledgeThroughKeepsNewer`).

`ClientSimulationProofs` proves for any finite set of clients, any ids, map, damage and
cap `ClientSimulationTypes`, `IndexStaysExact`, `LocalPlayerIsNeverCut`,
`OnlyTheProvisionalStays` and `DeltaIsEnough`. `CopyInv` has three parts:

* `ServerSound`: each client has at most one player, and every id in use is below the
  next one. No step changes what an id stands for or removes a player, so
  two snapshots of any age agree on the ids of players, which is why reordering
  does no harm to the index.
* `ChannelSound`: every snapshot in flight has the observer's own player. Interest
  keeps it, and the planner puts nothing before it, so a cap of one or more
  does not cut it.
* `RegistrySound`: the client's registry holds entities of the last snapshot and at most
  the provisional player beside them; the index names exactly its players.

`ApplySnapshot` is the step that counts; it is proved by its parts: adopting the id,
removing, making, tagging. `DeltaIsEnough` needs no invariant: it is true of any two
snapshots.

`TransportProofs` proves the rest of what `Transports` checks but for liveness, for
every set of scripts, any conditions, sizes, buffer limit and number of closes.

* `PayloadsDecode`: `Spec => []PayloadsDecodeWhole`, a fact about the codecs.
  *Round trip:* a field is read from its bytes whatever follows them (`FieldReads`);
  so is a list of fields, by induction over the loop of reads (`ListReads`); each
  DTO is a list, or for events and snapshots several, the first of which say which
  follow and how many. For a snapshot the writer's lower bound on an entity's bytes
  shows that the reader's check of the count lets every written snapshot through
  (`EntitiesBytes`, `DivFits`). *Refusal:* of some bytes and the same with more after
  them, a decoder accepts at most one. `Extends` says what two such readings have in
  common: the first has failed, or both have read the same fields and what they have left
  differs by the extra bytes; each read keeps it so, also where fields read
  decide what is read next, and `Finish` accepts only nothing left.
* `TransportTypeCorrect`, `QueuesHoldValid`, `FramesArrive` and `ChannelImplemented`, all
  from one invariant, `TransportInv`. `SentSoFar` says that what was accepted is
  the script's beginning, so nothing was accepted twice. `Arrived` says that
  what was polled and what waits is without repetition, all of it sent and valid, on hub and data
  channel in the order sent, and, with what the conditions dropped, no
  less than what was sent. Neither is inductive for the implementations as they stand, and none
  of the three has the same state, so the argument goes through `Moves`: a step leaves a
  direction alone but for frames it may lose (`Stays`), puts an envelope behind,
  among or nowhere near what waits (`Puts`), or takes the first (`Gives`). `MoveKeeps`
  and `MovesRefine` show once that moves keep `Arrived` and are steps of
  `LossyChannel`; `LoopbackMoves`, `HubMoves` and `RtcMoves` show that every call of
  each implementation is one.
* On the data channel `FramesArrive` needs an invariant of the handshake
  (`Handshake`): `PumpKcpRtcDataChannel` drops every frame it finds while its end
  is not connected, and the server may be connected, and send, before the client is.
  Before the server is connected (`NotYet`) no frame is on its way and no
  answer or DataChannelReady exists. From then on (`Answered`), while the
  client is not connected, the last signal on its way to it is the server's
  DataChannelReady; `Update` pumps signals before frames, so the client
  is connected when it looks at its channel. The invariant holds until a client
  closes, which is the hypothesis of `EveryFrameArrives`. After a close frames may be lost,
  and `CutOf` says that this leaves the order of the rest.

The recursive functions are instances of `Iteration`, which proves that the
function a loop's equation defines exists and satisfies the equation. A transport's
scripts are assumed to be typed, with fields below 2^24 where they are wider than
two bytes, and to send no message twice in a direction. The code never compares
messages, so the second only names them apart.

Where a recursive function has to be followed to its end, the proofs argue from the
least number at which a statement fails (`NumberLemmas`), from the library's theorem
on minimal elements.

The assumptions are the named `ASSUME`s of the modules: that the parameters are
natural numbers, that those which divide or bound a size are positive, and that
there are finitely many clients. `InterestIsTold` and `RewindCorrect` have the
hypotheses named above.

Only model-checked: liveness under fairness, which is out of the prover's reach
(`PendingIsEventuallyAcknowledged`, `AdmittedClientConnects` and the other
temporal properties of the runs, for the transports `QueuesDrain` and
`HandshakeCompletes`).

## Not modelled

Rendering, texts, logs and input sampling (they show state the other modules own);
the unsupported native RTC backends (they refuse every call); factories and `main`
functions; the in-process session, which runs the same host and pump over a loopback,
and the local preview, which has no server; movement arithmetic on fixed-point
coordinates and the map's tables; statistics counters; `RequestStop` and
`Disconnect`, after which nothing more happens; which error a decoder reports.

## Plan

1. Done: `Network`, `ServerClientReplicationState`, `ServerNetworkHost`,
   `ClientProtocolPump`, `Replication`, its safety theorems.
2. Done: `GameSimulation` and its theorems; `Prediction`.
3. Done: `ClientSimulation`.
4. Done: codecs, protocol and the three transports; `LossyChannel`.
5. Done: `TimeSync` and `ClientPresentation`, with theorems; planner, delta, interest,
   lag compensation, interpolator and fixed-step clock in the modules that use them.
6. Done: `ReliableDelivery`, refinement checked and proved.
7. Done, theorems: interest, `Prediction`, `ClientSimulation`, rewinding and
   interpolation.
8. Done, theorems: the codecs, the transports and the refinement of `LossyChannel`.

Left: the in-process session as an instance of host, pump and loopback in one
composition; negative coordinates in the codecs.
