# Formal model of Blue Polar Bear

TLA+ modules for the tactical mesh in this repository: what its nodes do when
packets, requests, commands, crashes and dead links interleave. TLC checks the
modules on small instances; TLAPS proves the safety properties for every value of
the constants. `PROJECT.json` is the machine-readable index (runs, the source
lines behind each definition, mutants, hazards, theorems).

    tlc -config DataMule_safety.cfg MCDataMule     # one run
    tlapm DataMuleProofs.tla                       # one proof module

## 1. The system

| component | state | operations | talks to |
|---|---|---|---|
| edge agent (`cmd/edge-agent`) | flight state, position, altitude, speed, battery, sequence | `Step` every tick, `HandleCommand` | publishes telemetry, subscribes to its command key |
| message bus (`pkg/zenohutil/client.go`) | subscriptions | `Publish`, `Subscribe`: a goroutine per message in memory, one serial event stream over REST | all nodes |
| security envelope, policy (`pkg/schema`, `pkg/policy/policy.go`) | none | `Normalize`, `Validate`, `Evaluate`, `RedactAndSanitize` | called by the guard |
| CDS guard (`cmd/cds-guard`) | counters | subscription filter, `ProcessPacket` | bus (both ways), dead letter queue |
| dead letter queue (`pkg/policy/dlq.go`) | ring of records, audit file | `Quarantine`, `GetRecords` | guard, HTTP inspection |
| C2 gateway (`cmd/c2-gateway`) | fleet table, WebSocket hub | `handleTelemetry`, `Hub.run`, `handleWS`, metrics ticker, command and inject handlers | bus, mule, dashboards |
| Tactical Data Mule (`pkg/zenohutil/datamule.go`) | ring, spool file, status, counters | `Ingest`, `Flush`, `SetSimulationMode`, `Metrics`, `Close` | called by the gateway; publishes upstream |
| COP dashboard (`web/app.js`) | fleet, tracks, panels | `handleIncomingTelemetry`, command form, backhaul panel | gateway over WebSocket and HTTP |
| MAVLink bridge and framing (`pkg/mavlink`) | vehicle state, remote address, decoder buffer | `IngestFrame`, `BuildSecurityEnvelope`, `SendCommandLong`, `NextFrame` | autopilot, bus |
| serial port, bench check | - | termios calls, a frame viewer | - |

What is hard in it, and what makes each part right:

* **Mule.** `SetSimulationMode(false)` unlocks before it calls `Flush`, publish
  calls fail before or after they took effect, the ring overflows, the process
  restarts. No packet may be lost silently, the order must hold, the counter
  must not claim what did not happen, and a restored link must drain the ring.
* **Guard.** Goroutines, the dead letter queue and the guard's own output
  (published below the selector it subscribes to) interleave with crashes.
  Nothing but clean TIER-1 data may leave, a rejected packet stays rejected, no
  packet may vanish, and what leaves must verify at the receiver.
* **Vehicle.** Commands arrive in any flight state and each assigns only some of
  state, speed and altitude; the level of the battery is rounded at each step.
  The vehicle must not jump, land in the air, or stop on its way; the code does
  not keep it from jumping in one case (section 5).
* **Gateway.** A full channel, slow and dying dashboards, the metrics ticker and
  concurrent handlers meet in one hub goroutine. Each dashboard must see an
  intact stream, the map must hold open connections only, and everything must
  move on.
* **Dashboard.** Sequence numbers restart, arrive late or are jumped by a test
  injection: a marker should not go back (section 5), and must not freeze for good. Three
  sources overtake each other on the backhaul panel, which must still catch up,
  and the list of command targets is rebuilt under the operator's hand, which
  must not change the target.
* **Dispatch.** `handleCommand` checks a target against a table that telemetry and
  injected packets change, partly outside its lock; PUTs time out and arrive
  late, event streams break. Only the vehicle meant may execute a command, in
  the operator's order, and a dispatched command must get there.
* **MAVLink.** A serial line loses, adds and alters bytes, datagrams are lost,
  reordered or come from somebody else. No undamaged frame may be lost while the
  decoder finds its way back, nothing may be made up, and the published status
  and the address of commands must follow from what the autopilot sent.

The list of hazards, each at its line, is `hazards` in `PROJECT.json`.

## 2. The modules

Every critical section, channel operation, publish call or atomic counter is one
step; what happens in between is not visible to other goroutines or to a crash.
Operators named `X_Something` are mutations of `X`, plausible bugs that the
properties have to notice; no specification uses them.

**StoreAndForward** is the abstract promise of the mule: a bounded at-least-once
queue that gives up a packet only when it overflows or when its process ends.

**DataMule** (`MCDataMule`, `DataMuleProofs`) has the fields of `DataMule` as
variables, the records in the spool file (`disk`), the handle (`spoolFile`, which
can be left closed when the reopening in `Flush` fails), the link, and histories
of what was accepted, delivered, evicted and lost. `IngestForward`, `IngestFail`
and `IngestBuffer` are the three ways through `Ingest`, `StartBlackout` and
`EndBlackout` the two critical sections of `SetSimulationMode`, `FlushEmpty`,
`FlushOk` and `FlushFail` the outcomes of `Flush`; `pc[o] = "flush"` is the window
between the unlock and `Flush`. `PublishErr` covers a link that is down, one that
drops during the call, and a call that is reported as failed although it arrived.
`latencyMs` and `lastSyncTime` are left out: only `Metrics` reads them.

**CrossDomainFilter** is the abstract promise of the guard: a filter with a memory,
in which each packet offered is released once in a form the policy allows, is
withheld, or is lost. `OneOutcome` is the invariant of the filter alone.

**BroadcastLog** is the abstract promise of the gateway to its dashboards: one log
that every reader gets entry by entry from the place where it joined.

**Policy** holds the pure functions. Coordinates are integers in 10^-7 degree,
altitude in millimetres, battery in hundredths of a percent: one digit finer than
what `Normalize` keeps, so that its rounding is visible. The digest is a hash
without collisions. `Reason` reproduces the order of the `strings.Contains` tests
in `Evaluate`. Velocity, heading, state, caveats and message id are left out.

**CDSGuard** (`MCCDSGuard`, `CDSGuardProofs`) runs `ProcessPacket` in several
workers, cut into `Receive` (callback and ingress counter), `Decide` (parse,
evaluate, count), `Quarantine`, `Pass`, `Redact`, `RedactFail`. Publishing puts the
packet back on the mesh the guard listens to. `Crash` ends the process at any
point; `Panic` is the nil pointer that the PASS case reads when a TIER-1 envelope
carries no telemetry. `Restart` empties the in-memory state and keeps the audit
file. One worker is the REST bus, several the in-memory bus. `Filter` maps it to
CrossDomainFilter: pending is what is on the mesh or with a worker, lost is what
came while the guard was down, was with a worker at a crash or failed to publish,
or was skipped by the callback; `MayLeave` is the policy.

**VehicleSim** (`MCVehicleSim`, `VehicleSimProofs`) has one action for each branch of `Step` and for
each command. In single-vehicle mode the pad is the centre of the orbit, so every
leg is radial and one distance stands for the position. Units are decimetres,
decimetres per second and tenths of a percent, which makes the one-decimal
rounding of altitude and speed exact; the rounding of the battery is modelled,
the 0.1 m rounding of coordinates is not. The angle on the orbit decides nothing and
is not kept, but `travel`, a history variable, has what the last tick moved along
the leg and along the arc (`Arc`), the default of 0.08 rad/s at speed 0 included.

**Gateway** (`MCGateway`, `GatewayProofs`) follows a packet through `handleTelemetry` (`Receive`,
`Ingest`, `UpdateFleet`, `Broadcast`) into `hub.broadcast` and through `Hub.run`
(`Register`, `Unregister`, `Take`, then `WriteOk` or `WriteFail` for each client in
any order, `Written`), with `handleWS` and its reader goroutine (`Connect`,
`ReaderEnds`) and the ticker. `Dies`, `Stalls` and `Resumes` are the browsers.
`MulePublishes` is the mule's copy on the same bus, which a wide selector matches.
Of a fleet entry the number of its packet is kept; breadcrumbs are only displayed.
`Log` maps it to BroadcastLog: what waits is the channel, the log what the hub has
taken, and the readers (`Audience`) are the dashboards that were registered and whose
browser is there, whether the hub still knows them or not.

**COPFeed** (`MCCOPFeed`, `COPFeedProofs`) is one vehicle on one dashboard: the
freshness guard of `handleIncomingTelemetry`, fed by an agent that restarts and by
`handleInject`, through a network that loses and reorders. A restart leaves the old
run's packets on their way. `MaxOvertake` bounds how many packets overtake one; it
may be larger than the guard's gap.
`handleInject` numbers its packets by the clock in nanoseconds, so two injections
are farther apart than the guard's gap, and `InjectedSequence` keeps it so.

**COPConsole** (checked without an MC module; `COPConsoleProofs`) is what an operator acts by. The
panel: `WSMetrics`, `PollAnswer` and `PostAnswer` each apply a status that was
sampled in the gateway (`Tick`, `PollSample`, `PostSample`) some time earlier, and
`Click` sends what the button shown stands for. The target list: `Telemetry`
rebuilds it when a vehicle appears or changes its team (`UpdateDropdown`),
`SelectCard` and `SelectOption` are the operator. It starts as `index.html` has it:
five options nothing was heard of, one of them preselected. The options are a set,
and `First` is the one a browser selects when the rebuilt list marks none.

**Topic** holds `BuildKey` and `MatchesSelector`. A key is a sequence of parts, a part
a record of team prefix, base and capitals. `MCC2Dispatch` compares
`MatchesSelector` with the meaning of Zenoh's key expressions for all selectors and
keys of up to three parts (`SelectorsAgree`).

**C2Dispatch** (`MCC2Dispatch`, `C2DispatchProofs`) takes a command from the POST to the vehicle.
`Lookup` is the critical section of `handleCommand`; `Check` reads the team outside
of it, so while `writer` is at work on the entry (`Overwrite` to `Overwritten`) it
gets the old team, the new one, or a torn string. `PublishFail` leaves a PUT that
`ArriveLate` may still bring to the router. Each agent reads its event stream in
order (`Deliver`), and loses what is on it when it breaks (`StreamDrops`).

**Framing**, **StreamDecoder** and **MavlinkBridge** (`MCMavlinkBridge`,
`MavlinkBridgeProofs`) build on each other: what a frame is and when it decodes; `NextFrame` over all symbols that have
come out of a line, of which `pos` are consumed; and `runMavlinkInstance` with
either client. The layout is scaled: a header of three symbols for ten, payloads
of one or two, one checksum symbol that carries what it covers. A message's
payload and checksum can still be read as the start of a frame, which is what
resynchronisation is about. Of the vehicle the armed flag, the status, the
altitude (on the ground or above 1 m) are kept. `Line` lets a byte through, loses
it, or puts any byte of `Noise` before it or in its place. `TakeAddress` and
`WriteCommand` are the two halves of `SendCommandLong`.

## 3. The runs

| run | shows | bounds |
|---|---|---|
| `mule` | `NoSilentLoss`, `Chronological`, `SpoolCoversRing`, `BlackoutHolds`, `RestoreDrains`, and that the mule implements `StoreAndForward` | with and without a spool file, ring of 2, 3 packets, 2 operators, 2 faults, 1 restart: an overflow before or after a failed flush, and both operators in the unlock window |
| `mule_survive` | a statement of the documentation that fails (section 5) | 2 packets |
| `guard_safety` | `OneOutcome`, `EgressClean`, `CountersSettle`, `DLQShowsNewest`, `SanitizedLeavesOnce`, and that the guard implements `CrossDomainFilter` | 2 workers, 3 packets out of 12 kinds (republished ones count), 1 crash, queue of 1: every pair of concurrent verdicts, and a queue that overflows twice |
| `guard_policy` | `EgressVerifies`, `EgressAccurate`, `InvalidNeverEgresses`, `PacketsSettle` | 22 kinds of packets, one for each check of `Validate`, values at 90 and 180 degrees, below zero altitude and just above 100 %; default precision and capacity, 1 crash |
| `vehicle_flight` | `TravelBounded`, `ReturnIsSafe`, `LegsAdvance`, `LegsEnd` | the vehicle of the constructor's defaults (120 m, 14.5 m/s, radius 889 m), a tick every 10 s, every sequence of commands: no bound beyond the physical range |
| `gateway_safety` | `NoFeedback`, `StreamIntact`, `MapIsOpen`, and that the gateway implements `BroadcastLog` | 2 dashboards, 2 vehicles, 2 packets and their upstream copies, 1 metrics message, channel of 1, one handler (the serial REST subscription) |
| `gateway_liveness` | `DeadLeave`, `PacketsBroadcast` | 2 dashboards, 1 packet and 1 metrics message, which compete for a channel of 1 |
| `cop_guard` | `FreezeIsBounded` | thresholds scaled to a gap of 1 and 1 s of quiet, up to 3 overtakings, so that a late packet can look like a restart; 9 packets per run, 1 restart, 2 injections. TLC reaches the bound |
| `cop_backwards` | a comment that fails (section 5) | as above, without restart and injection: the marker goes back within one run |
| `mavlink_link` | `IntactFramesArrive`, `FramesAreSent`, `StatusIsExplained`, `AutopilotRegained` | 6 messages, one with a magic byte in its payload, a truncated heartbeat and a truncated position; on the line 2 frames and 1 byte lost, added or altered, to a magic byte or to one that is an unknown id or too great a length, which is enough for a false frame that reaches into the next; 2 datagrams of each sender on their way, without a bound on their number |
| `dispatch` | `ExecutesOwn`, `CommandsInOrder`, `DispatchedIsKept`, `DispatchedIsDelivered` | 2 requests in 2 handlers, a simulated, a MAVLink and a red drone, names with and without capitals, unbounded telemetry and injections |
| `console` | `OffersBlueOnly`, `PanelCatchesUp`, `NoSilentRetarget` | 2 vehicles, both in the markup, the preselected one not the highlighted one, as in the page; 2 POSTs and a poll under way together, 1 message on the WebSocket |

No run repeats what follows from a stronger property it checks, or what a proof
alone settles: the type invariants (`TypeOK` of VehicleSim is the flight envelope),
`RingDropsOldest`, which the refinement of `StoreAndForward` contains, `FailClosed`, a
conjunct of `OneOutcome`, and `SyncedIsHonest` are theorems (section 4) and can be added to the configurations as they are. Small bounds suffice where the code treats
packets alike: the ring, the channel and the dead letter queue are compared with
their capacity only, so a capacity of one or two, filled and overflowed, meets
every branch. `FreezeIsBounded` shows `RestartGap + RestartQuiet + MaxOvertake + 3`
packets; with the real thresholds of 50 and 10 s that is about a minute at 1 Hz,
more than packets are late, during which an injected or restarted vehicle stands
still on the map. `vehicle_flight` ticks every 10 s, which keeps the states few and
the thresholds of 8 m and of speed times interval apart; the theorems hold at every
interval, and section 5 has what is particular to the tick of 1 s.
Symmetry is used for
interchangeable workers, dashboards and vehicles, and in safety runs
only. Runs that set `CHECK_DEADLOCK FALSE` have bounded inputs and stop when
these are used up.

**Fairness.** Mule: weak fairness of `Flush`, since the goroutine of the request
goes on, the mutex is always released and each publish call has a timeout.
Nothing makes operators send requests: `RestoreDrains` is conditional on them.
Guard: started goroutines finish, the subscription delivers, and the container
restarts (`restart: unless-stopped` in `compose.yml`). Vehicle: the ticker fires;
no command has to come. Gateway: weak fairness for goroutines that can run,
strong fairness for `select` (a random choice among ready cases) and for blocked
senders (queued in order), and the assumption that a stalled browser resumes or
breaks. The last is about the network: the hub sets no write deadline, and
without it one stalled dashboard stops telemetry for all. MAVLink: an autopilot
on UDP keeps sending (heartbeats come at 1 Hz), and not everything it sends is
lost; nothing is assumed of a serial line. Dispatch: agents read their streams;
streams may stay down for ever, and failed PUTs need not arrive. Console: the
poll's timer fires and polls do not fail for ever; nothing is assumed of the
WebSocket, of POSTs or of the operator.

## 4. The theorems

Every invariant, every action property and every refinement the passing runs check
is proved for every value of the constants. Each proof module extends the module
it is about and uses no more than that module's named assumptions, which TLC
evaluates on the runs. Hypotheses beyond these are in the statement of the
theorem and named below.

**`DataMuleProofs`**, from `MuleAssumption` (integer capacity, bounds in Nat), for
any set of operators and any bounds:

* `MuleTypeOK`; `MuleNoSilentLoss`, `MuleChronological`, `MuleRingDropsOldest`,
  `MuleSpoolCoversRing`, `MuleSyncedIsHonest`. The inductive invariant `IInv` is the
  conjunction of the five with `TypeOK`. They need each other: evicted packets are
  older than the ring only because the ring is ordered, and a new packet keeps
  the order only because `TypeOK` bounds what was accepted before.
* `MuleBlackoutHolds`, an action property that needs no invariant: `Ingest` looks at
  the blackout in the same critical section as it forwards.
* `MuleImplementsStoreAndForward`: each step of the mule is a step of the queue or
  a stutter (`StepSimulation`). A failed flush after k packets is `Send` with k or
  k + 1, depending on whether the failing call arrived (`PrefixPlusOne`).

**`CDSGuardProofs`**, from `GuardAssumption`, `PolicyAssumption` (a grid that divides
the coordinate range) and `NilAssumption`, for any packets, workers and crashes:

* `GuardEgressClean`. The invariant adds `TaskInv`, what a goroutine established by
  the time it reaches its publish call, and `MeshInv`, that what comes back from
  the mesh is well formed. `SanitizeScrubs` is the arithmetic: coarsened values
  are on the grid for negative coordinates too.
* `GuardEgressVerifies`, `GuardEgressAccurate`, `GuardSanitizedLeavesOnce` from `PInv`,
  which adds where each published packet came from (`OriginInv`) and that no
  goroutine has a packet the subscription skips (`FilterInv`). That a sanitized
  payload verifies rests on two facts of arithmetic: rounding to the coarse grid
  stays within 90 and 180 degrees because the grid divides them, and `Normalize`
  does not change a multiple of ten, so the receiver hashes what the guard hashed.
* `GuardFailClosed` from `SInv`: a packet number is in one place (on the mesh, with
  one goroutine, or ended), so that no two goroutines can give it two verdicts.
* `GuardDLQShowsNewest` and `GuardCountersSettle` from `DInv`: the ring is the end of
  everything rejected since the start, of the length the capacity allows, and
  each counter is the number of packets in the places it stands for.
* `GuardInvalidNeverEgresses` from `PInv`: `Checked` lists what a valid envelope is
  without using `Validate`, so that a check dropped from `Validate` would show here.
* `GuardImplementsFilter` (`FilterStep`): a packet number is in one place
  (`PlacesApart`, from `SInv`), so that a step of one goroutine ends its own packet
  and nobody else's (`WorkingAfterFinish`, `WorkingKept`), and a publication is a
  `Release` in the form `MayLeave` allows (`PublishReleases`). Receiving, deciding
  and counting are stutters; a crash is a `Lose` of what the goroutines held.
* `GuardOneOutcome` is proved of the filter's steps alone (`OutcomeStep`) and carried
  over by the refinement. It is the safety half of `PacketsSettle`.

**`VehicleSimProofs`**, from `SimAssumption`, for every cruise altitude, speed, orbit
and tick interval: `SimTypeOK` (the flight envelope), and from it the action
properties `SimTravelBounded` and `SimReturnIsSafe`. `SimTravelBounded` has the default
angular speed as its exception. `SimStaysCharged` assumes a tick of 1 s, the default
and the deployed one: the battery is full for ever, since the rounding undoes the
consumption of every state.
`SimNeverCharges` holds at any interval. `SimLegsAdvance` is the safety half of
`LegsEnd`, a distance gained by every tick of a leg; it needs `ReturnInv`, that a
vehicle on its way back, away from the pad, has the return speed, since a speed
of zero left by HOVER would stop it there.

**`GatewayProofs`**, from `GatewayAssumption`, for any dashboards, handlers and
vehicles:

* `GatewayMapIsOpen` from `MapInv`: the range loop visits registered clients only,
  and what was closed had been handed to the hub before.
* `GatewayStreamIntact` from `StreamInv`: a live dashboard lacks at most the message
  in hand, and that one only while the loop has still to come to it.
* `GatewayNoFeedback` from `FeedInv`: what is on the bus is newer than all that was
  taken from it, and a packet is with one handler or ingested, never both.
* `GatewayImplementsBroadcastLog`: `AudienceInv` says that the hub knows every dashboard
  whose browser is there, as only dead ones are closed, leave or are gone;
  `OnceInv` that a packet is with one handler or was offered to the hub, never both,
  and that no number is used again. With `StreamInv` the hub's loop is a series of
  `Read`s, and a failed write a stutter: its reader had left before.

**`COPFeedProofs`**, from `FeedAssumption` (bounds in Nat), for every pair of
thresholds, so for those of `app.js`, and however late packets come:

* `FeedFreezeIsBounded` from `FreezeInv`, a bound on what was dropped *plus* what can
  still be dropped. It differs by what is shown: a packet of this run, of an
  earlier run or an injected one, and by whether the quiet period is over. `FeedInv`
  supplies that an agent's number that can still arrive is at most `MaxOvertake`
  behind the newest, and a shown one not ahead of it.

**`COPConsoleProofs`**, from `ConsoleAssumption`, for any fleet and markup:
`ConsoleOffersBlueOnly` and `ConsoleNoSilentRetarget`. `ListInv` is what `lastDropdownIDs`
is worth: the list was built for these vehicles or has been cleared since.

**`C2DispatchProofs`**, from `DispatchAssumption`, for any agents and requests:

* `DispatchCommandsInOrder` from `RequestInv` (a command is with one handler and
  answered once) and `PipeInv`: what an agent has executed, followed by what is on
  its stream, is in order. A late PUT does not break it, since its command was
  answered 500 and no later command can follow it in the operator's order.
* `DispatchExecutesOwn` assumes `PlainFlags`: no agent is started with `*` or `**` for
  its type, team or name, which would make its subscription match others' keys.
  `MatchMeansOwn` is the fact about `MatchesSelector`.
* `DispatchKeepsDispatched` from `KeptInv`, the safety half of `DispatchedIsDelivered`.
  Only a PUT that succeeded makes a command dispatched (`NewlyDispatched`), its key
  matches the drone's subscription whatever the capitals and even if the name is
  a wildcard (`OwnMeansMatch`), and a drone lets go of no command that bears its
  name (`HoldsLast`), because the agent's own check accepts what the key brought.

**`MavlinkBridgeProofs`**, from `BridgeAssumption`, for any messages of the autopilot
and of other hosts and any bytes lost, added or altered on the line:

* `BridgeStatusIsExplained` from `StatusInv`, on either transport.
* `BridgeIntactFramesArrive` from `DecoderInv`: a magic byte the decoder has gone past
  began a packet that does not decode, was given up by a failed read, or lies in
  a returned frame. `NoNesting` is the heart of it: no valid frame with a known id
  begins inside another one.
* `BridgeFramesAreSent` from `DecoderInv` and `OriginInv`: the checksums that have come
  can be numbered by the messages they were sent for, in increasing order; a
  verified frame ends in one, and frames do not overlap.

The last two rest on the checksum without collisions (the real one has 16 bits), and
say nothing of frames with an unknown id, which carry none (section 5).

Only model-checked:

* Liveness under fairness, which is out of the prover's reach: `RestoreDrains`,
  `PacketsSettle`, `LegsEnd`, `DeadLeave`, `PacketsBroadcast`, `AutopilotRegained`,
  `DispatchedIsDelivered`, `PanelCatchesUp`. Of three of these the part that is not
  about scheduling is proved: `OneOutcome`, `LegsAdvance` and `DispatchedIsKept`.
* `SelectorsAgree` (an ASSUME over all selectors and keys of up to three parts):
  the meaning of `**` is recursive, and the provers do not unfold recursion.

The proofs changed the models in two places. `StatusIsExplained` failed
for a heartbeat whose payload is too short to decode: the history of altitudes
was reset for it although `IngestFrame` returns early; the run now sends one. The
grid of `Policy` is assumed to divide the coordinate range, without which a
rounded 90 degrees could leave it; the flag's default of 2 decimals does.

## 5. Where the code and its documentation differ

Checked by a run of its own, with the lines quoted in `findings`:

* `SpoolSurvives` (`mule_survive`): a restart forgets the ring, the spool file is never
  read, and the first successful flush afterwards truncates it.
* `NeverBackwards` (`cop_backwards`): `app.js:242` says out-of-order packets are dropped
  so that markers do not jump backward. A packet more than 50 behind that comes
  after 10 s of quiet is taken for a restarted agent, and the marker goes back to it.

Violated in a configuration of its own, which TLC runs with the MC module of the
component:

* `BacklogGoesFirst` (`DataMule_order.cfg`): `docs/architecture.md:127` says the mule
  drains its spool in chronological order. It does, but `SetSimulationMode(false)`
  sets ONLINE and unlocks before it flushes, so a packet ingested in between is
  upstream before the backlog; so is one that comes after a flush that failed.
* `ReconnectDrains` (`DataMule_reconnect.cfg`): the same line says the mule drains when
  Starlink reconnects. After a real link loss only an operator's request does it.
* `TickUnder30m` (`VehicleSim_snap.cfg`): `main_test.go:116` wants less than 30 m in a
  tick of 1 s. HOVER and then PATROL on the orbit leaves the speed at zero, and the
  default angular speed moves the vehicle 71 m.
* `PatrolDrains` (`VehicleSim_drain.cfg`): `SKILL.md:57` says patrol consumes 0.04 % per
  second. At a tick of 1 s that is rounded away (`SimStaysCharged`).
* `PatrolAtCruise` (`VehicleSim_cruise.cfg`): `main.go:112` has a displaced vehicle take
  off, `main_test.go:127` expects about 100 m in patrol. Only the transit branch of
  `Step` climbs, so a vehicle that resumes patrol close to its orbit, as after
  DISARM, circles below cruise altitude, on the ground even, for good.
* `FleetIsLatest` (`Gateway_fleet.cfg`): `main.go:29` of the gateway says an entry holds
  the latest telemetry. On the in-memory bus the handler of an older packet can
  overwrite a newer one, as nothing compares sequence numbers.
* `CommandsGoToAutopilot` (`MavlinkBridge_address.cfg`): a datagram that is skipped as
  unparseable (`udp.go:106`) has already become the address of the next command.
* `ReturnedIsSent` (`MavlinkBridge_unknown.cfg`): `stream.go:11` says corrupted bytes are
  discarded. A frame whose id byte was altered to one without a checksum seed is
  returned.
* `OffersEveryBlue` (`COPConsole_blue.cfg`, module COPConsole): the list is to offer the
  friendly blue vehicles (`app.js:422`). When the last of them changes its team and
  back, it has been cleared and disabled, and `lastDropdownIDs` keeps it so.

Stated in the modules, and violated within a few steps when put into a
configuration in place of its properties:

* `OnlineIsDrained` (DataMule, `mule_survive` with a fault): a flush that fails leaves
  ONLINE with a backlog, while `web/app.js:868` reports it flushed.
* `BlackoutIsReported` (DataMule, two operators): the flush of an earlier request
  reports ONLINE during a new blackout (`datamule_test.go:57`).
* `EveryPacketInspected` (CDSGuard): packets that other nodes publish on tier1 keys,
  the gateway's injector among them, are skipped by the callback.
* `NoLoops` (CDSGuard): a TIER-1 packet on a tier2 key is republished on that key
  and processed again. No node of the repository sends one.
* `DispatchedHasAgent` (C2Dispatch): `alpha` passes the authorization and is answered
  DISPATCHED, but no agent subscribes to that key; the same for a vehicle of
  another type than drone.
* `FailedIsNotExecuted` (C2Dispatch): a command answered 500 may be executed, even
  after the next one.
* `ClickChangesStatus` (COPConsole): with a stale panel the button asks for the status
  the mule is in already.
* `MarkupTargetKept` (COPConsole): a target chosen from the markup, or `blue-bravo`
  which it preselects, gives way to the first vehicle heard of.

Seen while reading, and not expressed in a module:

* `SKILL.md:59` has a returning vehicle descend at 2 m/s; `Step` keeps its
  height until 200 m from the pad, descends to 15 m at 6 m/s and over the pad at 10 m/s.
* `app.js:733-736` calls `resp.text()` after `resp.json()` has consumed the body, which
  throws, so a refused command shows as a network error.
* `MatchesSelector` takes `a/**/b` for `a/**`; no selector of the repository has that form.
* Payloads that MAVLink v2 truncates are refused by the message decoders.

## 6. Not modelled

* Byte offsets of MAVLink fields, the CRC polynomial, termios, rendering and HTTP
  plumbing: encodings and I/O without state of their own.
* `bench-check`: the loop around `NextFrame` that `MavlinkBridge` has, with a display.
* `Query` of the bus, which no program calls.
* That a publishing bridge should fall silent when its line is gone: the code has
  no notion of it (`stream_client.go:83`), `Publish` goes on.
* Swarm mode's displaced pads, reported velocity, heading and altitude ripple.
* Shutdown of the hub: its context is cancelled when `main` returns.

## 7. Plan

Done: the mule with its abstract specification, policy and guard, vehicle,
gateway, dashboard feed, framing, decoder and bridge, dispatch with the selector
language, the operator console; the abstract specifications of mule, guard and gateway; the
safety and refinement proofs of all of them. Left, in this order:

1. The cases of `MatchesSelector` that need no recursion, as lemmas beside
   `MatchMeansOwn`, to replace part of `SelectorsAgree`.
2. VehicleSim with displaced pads (a second distance).
3. Agent, guard, mule and gateway composed over one bus.
