# Verification of aether-sonde

aether-sonde (`src/crates/core`) is a discrete-event simulator of Ethernet:
end stations that run CSMA/CD on half-duplex collision domains, full-duplex
links, repeaters, flooding bridges and learning switches, in a topology that
may be edited while the simulation runs. This directory holds TLA+ models of
its engine, TLC configurations that check them on small instances, and proofs
checked by TLAPS.

File names below are relative to `src/crates/core/src` unless they start with
`src/`.

## 1. Inventory

| Component | State | Operations | Where |
|---|---|---|---|
| Event scheduler | `queue`, `next_serial`, `last_processed_time`, `cancelled`, log | `schedule`, `run_until`, `run_until_idle`, the dispatch loop | `engine.rs:1283-1392`, keys and phases in `event.rs` |
| Station MAC | per node: `node_state`, `foreign_carriers`, `pending_frames` | `handle_tx_attempt`, `_tx_start`, `_tx_end`, `_front_arrive`, `_back_arrive`, `_collision_detect`, `_jam_start`, `_jam_end`, `_backoff_expire` | `engine.rs:1403-1791`; `policy.rs` for backoff, jam, gap; `signal.rs` |
| Topology edits | the `World`, the maps computed from it, tombstones | `apply_edit`: add node / segment, disconnect port, remove segment / node, set delay / rate / MAC configuration | `engine.rs:642-1150` |
| Flooding bridge | per port: egress queue and busy flag; `bridge_pending_egress` | relay branches of the handlers, `handle_frame_eligible`, `_enqueue`, `_dequeue`, `on_egress_idle` | `engine.rs:1463-1510, 1596-1679, 1793-1865`; `device/bridge.rs`; `bridge.rs` |
| Learning switch | forwarding table, aging threshold, `aging_scheduled` flag; queues as the bridge | learning and forwarding on arrival, aging tick, four commands | `device/switch.rs` |
| Topology and resource ids | nodes, ports, segments; collision and serializer ids; the engine's reachability maps | `TopologyBuilder::build`, `reassign_resource_maps`, `recompute_reachability_maps`, validation (axiom A7: no cycle in a collision domain) | `topology.rs`, `resource.rs`, `engine.rs:725-1102, 2028-2318` |
| Bounded egress queue | a queue with an optional capacity | `enqueue`, `dequeue`, `peek` | `bridge.rs`; the engine keeps its queues in the device runtimes instead |
| Time and rates, frames | none | checked arithmetic on picoseconds and bits, values built from them; frame layout | `time.rs`, `resource.rs`, `signal.rs`, `policy.rs`; `frame.rs` |
| Observers | none; they read the engine's log | `carrier_sense`, `collision_detect`, `first_collision_detect_at`, `receive_complete` | `observe.rs` |
| Device snapshots | none | copies of device state | `device.rs` |
| WebAssembly and TypeScript | none of their own | wrappers of the engine | `src/crates/wasm`, `src/packages/ts-sim` |

**How they interact.** Everything runs in one thread. The host calls the
engine between runs (register a frame, schedule an attempt, apply an edit or a
command) and then runs it up to a horizon. A handler changes the MAC or device
state of one node and pushes events; stations influence each other only
through `FrontArrive` and `BackArrive` events, whose times come from maps that
an edit recomputes. A relay's hooks are called by the handlers with the runtime
taken out of the engine. The concurrency is that of the simulated network: many
stations at once, and many events at one instant, ordered by phase and then by
serial number.

**What is hard.**
* *Simultaneity.* Events of one instant are handled one by one, and a handler
  may push more of them for the same instant. Whether a station notices that
  two signals touch depends on phases alone.
* *Paired events that lie apart.* A front and its back, a TxStart and its TxEnd,
  a jam's TxEnd and its JamEnd are pushed together and handled long after each
  other, and an edit may cancel one of a pair.
* *Values kept in events.* Events carry attempt counts, frame numbers, signals and
  serializer numbers that may be stale when the event is handled.
* *Maps with keys that are too coarse*: `bridge_pending_egress` by signal,
  `pending_frames` by node.
* *Chains that must not break or fork*: backoff timers, Dequeues, aging ticks.
* *Iteration over hash maps*, while runs must be reproducible.
* *Parameters that change under way*: delays, rates and MAC configurations are read when
  a handler runs, not when the frame was registered.
* *Loops that must end*: deferrals, egress queues and aging ticks all schedule their
  own successors, and `run_until_idle` returns only when none is left.

**What makes each component correct.**
* Scheduler: events are handled in key order whatever is pushed at the current
  instant (I4 of the engine's documentation), and every tombstone goes with its event.
* MAC: a station that sends hears every overlap (Theorem 2), so what counts as
  sent was undisturbed (Theorem 1); it never gets stuck; carrier counts agree
  with the wire; full duplex never collides (Theorem 3).
* Edits: a port without a cable hears nothing, a removed node leaves nothing
  behind, and other stations go on as if nothing had happened.
* Topology: collision domains are trees whatever edits are accepted; port slots,
  resource numbers and reachability maps fit the cables after each of them.
* Bridge: flooding loses and repeats nothing, keeps the order, and no port stalls.
* Switch: the table respects its capacity, follows stations, forgets in time, and
  keeps exactly one chain of ticks; a frame reaches its destination whatever the table
  has learned, forgotten or evicted, and is never sent back to where it came from.
* Egress queues: first in, first out, within capacity.
* Quantities: a relay that measures a signal and sends it again keeps its length.
* Observers: what they read from the log is what the engine knows, answers about the
  past stand, and no reception fails silently.

`PROJECT.json` lists every hazard at its line, with the properties aimed at it.

## 2. Plan

Done, in this order:

1. `Scheduler`, the abstract machine, with its proofs (`Scheduler_proofs`).
2. `CsmaCd`, the station MAC and the edits, which implements `Scheduler`
   (`MCCsma`, `CsmaCd_proofs`).
3. `Relay`, a flooding bridge among the stations of `CsmaCd` (`MCRelay`).
4. `SwitchTable`, the forwarding table (`MCSwitchTable`, `SwitchTable_proofs`).
5. `Topology`: building and editing worlds, the A7 checks against a definition of
   acyclicity, the resource numbers against the equivalence they stand for, the
   reachability maps against the tree paths (`MCTopology`, `Topology_proofs`).
6. `Switching`: the table of `SwitchTable` in the engine of `Relay`, which implements
   `SwitchTable`; liveness of `run_until_idle` (`MCSwitching`).
7. `EgressQueue`, the queue of `bridge.rs`, which every port of `Relay` implements
   (`EgressQueue_proofs`).
8. `Quantities`, the arithmetic of `time.rs` and the values built from it
   (`Topology_proofs`); rates in `Topology`.
9. The edits of parameters in `CsmaCd`: delays, rates, MAC configurations.
10. `Observe`: the log and the observers (`MCObserve`).
11. Proofs about what edits leave behind (`CsmaCd_proofs`) and about the medium
    (`CsmaMedium_proofs`), for every topology.
12. What `Observe` states, for every topology, with the log as history
    (`Observe_proofs`).
13. What `Relay` and `Switching` promise, for any number of ports and stations, and
    their refinements (`Relay_proofs`).
14. `PortsServed` under a condition that excludes the finding `relay_flood` (`Relay_proofs`).
15. The properties of `Topology` that rest on its searches, for worlds of any size
    (`Topology_proofs`).

Next:

16. Several relays in one network (frames that are opaque from the second hop on),
    cables of different rates at one relay, and the removal of a relay with events of
    its own in the queue. Each needs a world of `Topology` in place of the constants
    of `CsmaCd`.

## 3. Models and code

| Module | EXTENDS or INSTANCE | Models |
|---|---|---|
| `Scheduler` | | `engine.rs` queue and loop, `event.rs` keys |
| `CsmaCd` | instance of `Scheduler` | station handlers, edits |
| `Observe` | extends `CsmaCd` | `observe.rs` and the log |
| `Relay` | extends `CsmaCd`, instance of `EgressQueue` | `device/bridge.rs`, relay branches of `engine.rs` |
| `Switching` | extends `Relay`, instance of `SwitchTable` | `device/switch.rs` in the engine |
| `SwitchTable` | | `device/switch.rs`, the table alone |
| `EgressQueue` | | `bridge.rs`, the queue |
| `Topology` | extends `Quantities` | `topology.rs`, reachability maps of `engine.rs` |
| `Quantities` | | `time.rs`, `signal.rs`, `resource.rs`, `policy.rs` |

### Scheduler

A queue entry is a record with a kind, a time and a serial. `PhaseOf` is
`Event::phase`; `Key` and `Before` are `EventKey` and its derived order; `IsTop`
is what `BinaryHeap::pop` returns. The state machine says what any call may do:
`Dispatch` pops the least entry and may push entries with fresh serials that come
later in key order, `Skip` consumes a tombstoned entry with its tombstone,
`HostCall` pushes LocalDecision entries that are not in the past and may
tombstone queued entries, `StartRun` and `ReturnFromRun` bound a run. A horizon
is any moment at which the next entry lies at a later time than the last one
popped; the loop finishes an instant it has begun.

`last` is the key of the last popped entry (the code keeps only its time), so
that the order of the log can be stated. `cancelled` holds serials in place of keys:
serials are unique.

### CsmaCd

One action per handler: `HandleTxAttempt` ... `HandleBackoffExpire`, named as
in `engine.rs`; `HandleTopologyChanged` is the log marker of an edit;
`DropCancelled` is the tombstone branch of `run_inner`. Each pops an entry
(`Pops`), applies the whole handler and pushes what the handler schedules
(`Emits`). `ScheduleTxAttempt`, `RemoveSegment` (both `do_disconnect_port` and
`do_remove_segment`, which do the same to everything modelled), `AddSegment`,
`RemoveNode`, `SetSegmentDelay`, `SetSegmentRate` and `SetMacConfig` are host calls
between runs. (The direct setter `set_mac_config` is the last one without its log marker.)

What is abstracted:
* The topology is given by `Access` (the cable at a station's only port) and `Route`
  (the cables on the tree path of two stations); a pair hears each
  other while its route is up. A repeater is only present in routes and delays: its own
  arrivals and carrier count are recorded by the code and read by nothing.
* `delay` is the reachability map: a delay for each pair, which `SetSegmentDelay` changes
  to another member of `Delays` for pairs whose route takes the segment.
* A rate is the time a bit takes (`bitTime`). `RateAt` is the rate at a station's port and
  `HdRateAt` that of a half-duplex one, which the jam and the slot go by; both fall back
  on a default when the port has no cable. A frame keeps the duration it was registered
  with. Frames are told apart by identity and length.
* The random number of a backoff is any slot of the window.
* The order in which a hash map lists peers is any order in `HashOrders`, chosen
  anew whenever an edit rebuilds the map. The serials of the arrivals of one TxStart are
  reserved in blocks, so they may skip values; only their order matters.
* Refused edits change nothing and are left out.

`aired` and `delivered` are history. `aired` holds every signal that was put on
the wire and `delivered` the frames whose TxEnd took the success branch.

### Observe

`CsmaCd` with the event log: every handled entry is appended, and of the tombstoned ones
those that carry a signal, as SignalLost (`Logs`). The four observers are operators on
the log. `carrier_sense` stops reading at the first entry after the time asked for
(`ReadUpTo`), which is right only because the log is sorted.

### Relay

Ports of the bridge are nodes of `CsmaCd`, because each is its own vertex in the
collision domains; `RelayFrontArrive`, `RelayBackArrive`, `RelayTxStart` and
`RelayTxEnd` are the relay branches at the head of the handlers (for all other
nodes the handlers of `CsmaCd` apply unchanged), and `HandleFrameEligible`,
`HandleEnqueue` and `HandleDequeue` the bridge's own events with the hook they
call. `SerializerOf` is the numbering of `reassign_resource_maps`, taken anew in
every state since every edit renumbers. `relayed` is the sequence of frames the
bridge registers on arrival (`Copy` is the lookup in `pending_frames`); `egress`,
`busy` and `emitting` are the two maps of `BridgeRuntime` and `bridge_pending_egress`.
`sent` is history: per port, the frames that a Dequeue took. `PortsAreQueues` is one
instance of `EgressQueue` for each port (`QueueOf(p)`), with the frames that were sent as
`taken` and those followed by the waiting ones as `accepted`.

### SwitchTable and Switching

`SwitchTable` is the switch's table with its own view of time. `OnFrameArrive` is the
learning half of `on_frame_arrive`, `OnAgingTick` the tick, and four actions the commands.
`Insert` is `insert_entry` with the eviction of the oldest entry, `ScheduleAging`
is `maybe_schedule_aging`. `ticks` are the AgingTick events in the engine's
queue. Frames and ticks of one instant come in any order here; the engine's phases
allow fewer orders, so what holds here holds there.

`Switching` is `Relay` with another decision: `SwitchFrameEligible` learns, may arm the
tick, and enqueues for the ports of `Egress` (the port of a known destination, or all
others); `HandleAgingTick` and `HandleCommandApplied` are two more entries of the
engine's queue; the commands are host calls. An opaque frame has all-zero addresses. The
environment that `SwitchTable` leaves free is here the engine itself, and
`ImplementsTable` says that the engine keeps to what `SwitchTable` assumes of it. It is
`SwitchTable!Spec` with the time of the last hook for `now` and, for `ticks`, the times of
the queued AgingTicks in the order in which they will be handled (`TickTimes`).
`HomesOf(m)` are the ports behind which a station is offered frames from address `m`.

### EgressQueue

`Enqueue`, `EnqueueRejected` (`QueueFull` gives the item back), `Dequeue` and
`DequeueNone`; what was accepted and what was taken are history. The engine does not use this type: the
device runtimes hold a queue per port of their own. `PortsAreQueues` shows that what a
port of `Relay` does to its frames, stale and repeated Dequeues included, is what an
unbounded `EgressQueue` does.

### Topology

A world is a record: `nodes` and `segments` are functions on the live numbers, beside
the lengths of the two slot vectors (`nodeSlots`, `segmentSlots`), since the `None`
slots of removed ones matter only because their numbers are not given out again;
`plugs` holds the port slots that have a cable. `BuildNode`, `BuildSegment` and `Build`
are the builder, with `SingleAttachment` and `DomainIsTree` its two checks; one action per
edit follows. `Recomputed` is `reassign_resource_maps` with `recompute_reachability_maps`.
The edits that do less do so in the model: `AddNode` gives numbers to the ports of a new
relay by counting (`FirstFreeSerializer`) and leaves the reachability maps as they are,
and `SetSegmentDelay` and `SetSegmentRate` leave the numbers as they are.

* `Vertex` is the difference between relays (a vertex per port) and other nodes
  (one vertex). The check of `build` and the collision numbers are a search over
  vertices; `HdReachable`, the check of an edit, and `BfsHdDelays` search over nodes and
  stop at relays. That they agree is what the properties are about.
* Collision domains are numbered by their least segment: the code numbers vertices
  in the order in which segments mention them and starts its searches in that order.
* `BfsHdDelays` keeps the code's queue, its order and the entry it makes for a node. Segments
  are visited by number as `hd_neighbors_of` does.
* MAC configurations, the log entries of edits (`CsmaCd` has both) and refused edits are
  left out.

### Quantities

Operators only. An operation that may panic or refuse is the set of its results, empty
when it does: `Plus` and `Minus` on `BitTime` and `Bits`, `AtRate` (bits at a rate take so
many picoseconds, rounded down), `NewSignal`, `NewClaim`, `NewTransmission`, the policy
constructors, `EligibilityTime` and `BitsAtRate` (what a relay makes of a signal's duration,
with the cast to 64 bits). The width of the integers and the picoseconds of a second are
constants.

## 4. Runs

| Run | Instance | Properties |
|---|---|---|
| `hub` | three stations on a repeater, one farther away (delays 2 and 3), frames of 6, 7 and 8 at two times each, two tries, both orders of the peers, `MaxTime` 26 | `CarrierMatchesWire`, `CollisionAnswered`, `DeliveredUndisturbed` |
| `edits` | two stations on one cable, either of two frames of 5 at either of two times at either station, any two edits: pull, plug, remove, other delay (2 or 1), other rate (bit times 1 and 2), longer jam (2 or 3); `MaxTime` 22 | `TimersArmed`, `TombstonesQueued`, `UnpluggedHearsNothing`, `EndsStayTogether`, `LogInKeyOrder` |
| `observe` | a half-duplex pair beside a full-duplex pair, one of the frames registered as a jam, one edit, one try, `MaxTime` 20 | `TypeOK`, `KeysAhead`, `FullDuplexNeverCollides`, `SenseAgreesWithEngine`, `ReceivedOrReportedLost`, `PastAnswersStand` |
| `relay` | two stations and a bridge port on a repeater, a third station on a full-duplex cable of delay 10, two edits of one station's cable, one try, `MaxTime` 40 | `RelayTypeOK`, `ForwardedOnce`, `SentInOrder`, `PortsServed`, `CollisionAnswered`, `ImplementsScheduler`, `PortsAreQueues` |
| `switch_table` | capacity 2, addresses 0 (the opaque one), 1, 2, two ports (symmetric), thresholds 0, 1, 2, `MaxTime` 6 | `TypeOK`, `CapacityRespected`, `OneTickChain`, `LearnedFollowsStation`, `ForgottenInTime` |
| `switching` | a switch with three full-duplex cables and a table of two entries, three frames among two addresses (one of which moves), threshold 6, one command of any kind, `MaxTime` 60 | `NeverReflectedNorRepeated`, `DestinationServed`, `ImplementsTable`, `RunEnds` |
| `topology` | worlds of three nodes (stations with one port, repeaters and bridges with two), three cables handed out, two of them by the builder, delays 1 and 3, rates 4 and 5 in seconds of 12 units, re-emission 5 | `TypeOK`, `PortsAndCablesAgree`, `CollisionDomainsAreTrees`, `EditAgreesWithBuild`, `DomainsShareIds`, `SerializersUnique`, `ReachIsTreePath`, `EgressReachesDomain`, `AttachmentsLive`, `OpaqueCopiesKeepLength` |
| `carrier_leak`, `retry_count`, `relay_flood`, `relay_copy`, `serializer_overlap` | see section 5 | one each, violated |

**What the properties say.**
* `CarrierMatchesWire`: `foreign_carriers` is the number of signals whose front has
  come and whose back has not.
* `CollisionAnswered`: whenever a station sends a frame over a foreign carrier, its
  reaction is queued for this very instant.
* `DeliveredUndisturbed`: no signal of another station overlapped a frame that was counted
  as sent, at any port of the domain. It is stated in times and delays, not in
  the engine's counters. Frames must last at least a round trip, and
  the instances respect that with little to spare.
* `TimersArmed`: who transmits has the TxEnd of that signal queued; who backs off has the
  timer of that attempt and a frame to retry.
* `EndsStayTogether`: a front that is still to be dispatched is followed by its back, as
  long after it as the signal lasts, whatever delays were set in between.
* `FullDuplexNeverCollides`, `UnpluggedHearsNothing`, `TombstonesQueued`, `KeysAhead`,
  `LogInKeyOrder`, `ImplementsScheduler`: as named; see the modules.
* `SenseAgreesWithEngine`: `carrier_sense` of the present is `foreign_carriers`, or a
  transmission of the station's own whose end is still queued. (A frame that
  a jam cut short counts until the end it was started with, as it does in the log.)
  `PastAnswersStand`: no observer changes its answer about a past time.
  `ReceivedOrReportedLost`: after its front has come, `receive_complete` turns true when
  the back is due, or the log reports the signal lost at that time.
* `ForwardedOnce`, `SentInOrder`, `PortsServed`: the bridge's three promises.
* `NeverReflectedNorRepeated`, `DestinationServed`: the switch's, of which the second
  holds for addresses whose frames all come in at one port and that nobody inserted
  by hand. `RunEnds`: a run that has begun comes to its end while the table has no
  manual entry.
* `CollisionDomainsAreTrees`: without any one of its segments a collision domain falls apart.
  Connection is defined by sets of vertices that no cable leaves (`Linked`), not by a search.
  `EditAgreesWithBuild`: the two implementations of A7 accept the same cables.
* `DomainsShareIds`, `SerializersUnique`: equal collision numbers mean a common medium,
  and serializer numbers are never shared.
* `PortsAndCablesAgree`: port slots and endpoints of segments tell the same story.
* `ReachIsTreePath`, `EgressReachesDomain`, `AttachmentsLive`: the three maps the handlers read
  (whom a station reaches, when and at which port; whom a relay port reaches; the full-duplex
  cable of a node) are those of the present cables, with their present rates. The delays of
  `EgressReachesDomain` are not compared: they leave out a repeater's own delay (a hazard in
  `PROJECT.json`).
* `OpaqueCopiesKeepLength`: at every port of every relay, bits that are turned into a
  duration and back are the same bits, or one less when the rate does not divide.
* `CapacityRespected`, `OneTickChain`, `LearnedFollowsStation`, `ForgottenInTime`: the
  table's.

**Bounds.** Times are counted in units small enough that a gap, a jam, a
propagation delay and a frame all differ. Delays of 2 and 3 against frames of 5 to 8 let
frames start before, at and after each other's fronts, and end before, at and
after them. One slot is 6 units, so retries with equal slots collide again and
those with different slots do not. `AttemptLimit` 2 reaches one retry; as
attempts restart at 0 after a backoff (finding `retry_count`), a greater limit
would only repeat that cycle, and `MaxTime` ends it. `AttemptLimit` 1 in `observe`
and `relay` gives up after the first collision, which is the branch that
the real limit of 16 never reaches. Two edits allow pull and plug, or a pull in the middle
of the aftermath of another; a delay that shrinks from 2 to 1 lets a later front overtake
an earlier one. A bounded number of frames, each offered once, and a capacity
of 2 with 3 addresses (one of which can only be inserted by hand) reach eviction by
every kind of entry. In `switching` frames
in both directions are relayed at once, one may be offered to a busy station and defer, and
threshold 6 lies between the times of two frames from one address, so that entries age out or not. In `topology` three nodes make a line, a
star around any kind of node, two cables between the same nodes (a cycle, unless a
bridge is one end) and a triangle; every accepted cable may be half or full
duplex, and numbers are handed out after removals. A path has at most one node between
its ends, so the re-emission delay is added at most once. Its constraint `OneUnusual` leaves out
worlds in which two segments differ from the rest in delay or rate: one is enough to make a
wrong path or rate show. With seconds of 12 units, rate 4 divides and rate 5 does not; a
bit then takes 3 and 2 units.

`MaxRelayed` bounds the frames a bridge takes in; at 9 it is never reached, since no instance
takes in more than 6. `MaxTime` cuts the loop off in the guards, not
in a constraint; no property but `RunEnds` depends on what comes after it, and in `switching`
no run without a manual entry reaches the bound: it could not end, and `RunEnds` would fail. Behaviours end when no
frame is left to offer and the time bound is reached, hence `CHECK_DEADLOCK FALSE`
for the engine's instances, and for `topology`, which ends when all numbers are handed
out and all nodes removed; the switch table always accepts commands and is checked
for deadlock.

Every property is confronted with a plausible bug in the definitions it is
about (`mutants` in `PROJECT.json`; the mutated forms stand beside the
originals in the modules, e.g. `DeferOnBusyOnly` before `MustDefer`).

## 5. Findings

Five runs check what a comment of the code says and find a counterexample.

| Run | The comment | What the code does |
|---|---|---|
| `carrier_leak` | `foreign_carriers` counts active foreign signals (`engine.rs:485`) | A cable pulled between a front and its back leaves the count up for ever; after replugging, the station defers every attempt. |
| `retry_count` | `attempt` is the number of the retry (`engine.rs:124`) | `handle_backoff_expire` goes through `Idle`, so each retry is attempt 0 and the limit is never reached. |
| `relay_flood` | `bridge_pending_egress` records the port of a TxStart (`engine.rs:479`) | Two ports that send one frame at one instant share a key: one port sends twice, the other stays busy for ever. |
| `relay_copy` | the relay carries the source's frame (`engine.rs:1653`) | A deferred attempt has already replaced `pending_frames`: the bridge relays a frame that was never on the wire. |
| `serializer_overlap` | at most one claim is active on a serializer (`resource.rs:8`) | Two Enqueues of one instant on an idle port queue two Dequeues and both send: the port starts two signals at once. |

What passing runs leave out for these reasons: `relay` has two ports only
and edits a half-duplex cable only, and `hub` has no edits, so that what they check is
not hidden by the findings.

Further facts that showed while modelling. Each was seen in a variant of an instance
that is not kept as a run:

* *Two fronts of one instant.* A comment says that a second CollisionDetect is redundant
  (`engine.rs:1715`). It is not ignored: both are handled before the jam has become the
  state, so there are two jams, two JamEnds and two backoff timers. The properties hold
  nevertheless, and `TimersArmed` is proved with both jams about.
* *Serializers renumbered.* `bridge_port_of_serializer` speaks of an id "assigned ... at
  build time" (`engine.rs:1990`); the ids are "not stable across edits"
  (`topology.rs:1207`). Events keep them: when a full-duplex cable goes, queued Dequeues
  name another port or none, and a port that the edit did not touch stalls.
* *Configuration in flight.* `event.rs:287-289` says that in-flight transmissions retain
  the configuration in effect at their TxStart. Jam, backoff and gap read it when
  they happen (`engine.rs:1418`, `1434`, `1725`, `1753`); `CsmaCd` does the same.
* *Scheduling in the past.* `schedule_tx_attempt` does not check its time. With `PastAllowed`
  the log is no longer sorted and `LogInKeyOrder` fails.
* *A pulled cable with frames waiting.* If the cable of a bridge port is pulled and plugged again,
  the lost Dequeue leaves a front that no later Dequeue matches: `PortsServed` fails.
* *A gap of no bits*, which `IfgPolicy` accepts, makes a deferred attempt defer again at
  the same instant, without end.
* *A frame registered as a jam* ends in BackingOff without a timer: `TimersArmed` fails.
* *Durations of zero.* The constructors refuse zero bits only; above one bit per
  picosecond a signal may last zero. No such rate is among the code's constants.
* *Aging with a manual entry* never stops arming ticks, and `run_until_idle` never returns.

## 6. Fairness

`FairSwitchSpec` assumes weak fairness of two actions: `DispatchNext` (a run that has begun
takes the next entry) and `ReturnWhenIdle` (it returns when the queue is empty). Both are
the loop of `run_until_idle`, which runs in one thread and calls nothing that blocks. The
host is obliged to nothing: it may never start a run, and a run that is not started has no
end to come to. `RunEnds` is stated on that specification, for runs during which the table
holds no manual entry.

All other properties are safety properties, with no fairness. `PortsServed`,
`TimersArmed` and `OneTickChain` are the safety half of liveness
(what has to happen is queued, and the loop takes everything that is queued).

Four refinements are stated, and all of them are proved: `CsmaCd` and `Relay` implement
`Scheduler`, the ports of `Relay` implement `EgressQueue`, and `Switching` implements
`SwitchTable`. Those of `Scheduler` and `SwitchTable` assume that the host does not
schedule in the past. The runs `relay` and `switching` check the last three as well.

## 7. Proofs

All theorems hold for every value of the constants that satisfies the named
assumptions (`CsmaAssumption`, `RouteAssumption`, `RelayAssumption`, `SwitchingAssumption`,
`SwitchAssumption`, `TopologyAssumption`, `QuantitiesAssumption`): any number
of stations, any topology and delays, any frames, any number of edits, unbounded time.
The bounds `MaxTime`, `MaxNodes` and their like are constants too, of any value.
`RouteAssumption` says that a signal leaves a station and reaches another over the cables
at their ports. `RelayAssumption` says that the ports of the bridge have numbers of their own
below their count, and `SwitchingAssumption` that there are finitely many addresses, the
all-zero one among them.

**Scheduler_proofs.** `SchedulerInv` is inductive: times and serials are natural
numbers (`EntriesTyped`), the serial of `last` has been handed out (`LastIsOld`), and
every queued entry has a serial below `next_serial`, its own, and a key after `last`
(`KeysAhead`). It gives `KeysStayAhead` and, as an action property,
`LogGrowsInKeyOrder`. `TombstonesStayQueued` has its own inductive argument.

**CsmaCd_proofs.** `CsmaInv` is `TypeOK`, *serials are used up* and *a TxStart is
due when its signal starts*. The last two are what makes it inductive: an
entry pushed for the current instant and phase sorts after the one being
handled only because its serial is greater, and arrivals lie in the future only
because `t0` is the present when TxStart is handled. Every handler pushes a batch that
`Fresh` describes; from that, one lemma (`HandlerKeeps`) gives both the
invariant and a `Dispatch` step of the scheduler, and each handler only has to show that
its batch is fresh. `TypeCorrect` needs nothing else.
`ImplementsTheScheduler` and the three theorems that follow from it
(`KeysAheadAlways`, `TombstonesAlwaysQueued`, `LogAlwaysInKeyOrder`)
assume that the host does not schedule in the past (`~PastAllowed`):
`schedule_tx_attempt` has no such check, and without it they are false.
All that follows about stations assumes it too.

*Arrivals* (`UnpluggedAlwaysSilent`, `EndsAlwaysTogether`,
`FullDuplexIsSafe`). `EditInv` says that arrivals that are to be dispatched are at
plugged ports, that fronts have their backs, and that reactions to collisions are
queued for half-duplex ports only. Arrivals are pushed in pairs, to plugged ports, and an
edit tombstones all those of a port or none; a back cannot go before its front,
since it is queued for a later time.
*Timers* (`TimersAlwaysArmed`). The invariant is kept per station, `TimerInv(n)`:
a chain of reactions (detection, jam start, TxStart) lives for one instant, at the end
of its phases, and there is a frame to send (`FrameAtHand`); who transmits has its TxEnd
queued (`EndArmed`), who backs off has its timer (`BackoffArmed`); and the TxEnd of a jam
that is still the station's signal is preceded by a JamEnd of the same time (`JamEndsFirst`).
The last is why a jam never ends in BackingOff without a timer: JamEnd has the smaller serial
and arms it first. This must hold with two jams at once, with timers of an earlier try still
queued, and after a jam got longer between the two reads of the configuration. One assumption
is added, that no frame is registered as a jam.

**CsmaMedium_proofs.** `CollisionsAlwaysAnswered` (Theorem 2 of the engine): the strengthening is
`ClearToSend`, a frame whose start is queued starts at this instant, in its last phase, on a
free medium. So a frame is on the wire over a carrier only after a front that the station handled
while sending, and what that front triggered is handled before time goes on. It holds through
edits. Its lemmas ask of the engine only what `Orderly` says (types, keys ahead,
tombstones older than what is pushed next), so they hold with other entries in the queue too.
`CarrierAlwaysMatches`: counting keeps pace with the set `PassingBy`, since every front
moves one signal into it and every back moves one out; the proof is about cardinalities of finite
sets of queue entries. It assumes `MaxEdits = 0`: finding `carrier_leak` shows why.

`FramesGetThrough` is Theorem 1 of the engine: `DeliveredUndisturbed` for any topology and any
frames. Besides `~PastAllowed` and `MaxEdits = 0` it assumes that no frame is registered as a
jam and that the medium is a `ProperMedium`: within a half-duplex domain everyone hears
everyone, delays are distances (symmetric, with the triangle inequality), and no frame is
shorter than a round trip between any two stations. All instances of `MCCsma` are checked
to be such media. The invariant is `PeaceInv`, of five parts. `SignalsTrue`: what the queue says
of signals agrees with their sources, delays and lengths, frames are long enough, and a jam begins
during a frame of its station. `Underway`: to each station in reach, a signal on the air is coming,
passing or over. `FramesWait`: what had reached a station when it began a frame was over by then.
`AllHeard`: a station that still sends its frame has not been reached by anything since it began,
but for the carriers it is just answering. `DeliveredInPeace`: `AllHeard` at the end of a frame that counts
as sent. No single station can see that its frame was undisturbed elsewhere; `OneAfterTheOther` shows
it. A signal that disturbs the frame somewhere and is not heard by its sender before the end began
late in it; but by then, a round trip being short, the frame had reached that other station,
which waited. For a jam the argument is about the frame that it cuts short.

**SwitchTable_proofs.** `SwitchInv` has six parts: `TypeOK`, `OneTickChain` and
`LearnedFollowsStation` of `SwitchTable`, and three of its own: the table fits, entries are no
older than the tick that will remove them, and a tick is due in time. The last two are the
strengthening that `ForgottenInTime` needs. `CapacityAlwaysRespected` rests on
`OldestExists`: a full table has an oldest entry, which is shown by a least-number
argument on finite sets of addresses.

**Topology_proofs.** `TopologyInv` is `TypeOK` with `PortsAndCablesAgree`: neither is inductive
alone, since a node may only be removed because all its cables are found through its port slots.
There is one lemma for each change of a world (`WithCableKeeps`, `WithoutNodeKeeps`, ...). For
`SerializersAlwaysUnique` the strengthening is `SerializersOK`: full-duplex directions fill
the numbers below twice their count, and those of relay ports lie between that and
`FirstFreeSerializer`. This is what makes counting safe in `AddNode`: every removal renumbers,
so the numbers in use are always an initial range. The rest is that `Rank` is one-to-one on
finite sets of numbers. `AttachmentsAlwaysLive` says, world by world, that an edit
either recomputes the attachments or leaves everything they are made of as it was; a node
added without recomputing has none. `OpaqueCopiesAlwaysKeepLength` carries the arithmetic of
`Quantities` to the ports of any world.
The same module has the arithmetic itself: division and its monotony from their definition,
then `OpaqueCopiesLoseAtMostOneBit` (if a bit takes at least a picosecond, for any width),
`SignalsLast` (I5), `OverlapIsASharedInstant` (`Claim::overlaps`), `TransmissionIsItsClaim`
(I6) and `CutThroughIsNoLater`.

The other five theorems are about searches over a world of any size, all written as recursive
functions. What such a function returns is an induction over its argument, and there are
two parts to that.
* *Induction and recursion.* Induction is used on sets in place of predicates: a set of natural
  numbers that is not empty has a least one (`LeastNumber`, `Induction`). A recursive definition may
  be unfolded only if there is a function that satisfies it; `Iteration` and its like build one
  for each search. A search that adds to a finite set has stopped after as many rounds as
  the set has members (`GrowthStops`).
* *Graphs.* `Joined(x, y, S, u, v)` says that the edges `S`, with ends `x` and `y`, lead from `u` to
  `v`. In a component with one more vertex than edges every edge is a bridge, and conversely
  (`TreeHasBridges`, `BridgesMakeTree`). So the count of `build` says what axiom A7 means.
  `DomainIsComponent` and `ReachIsJoined` say that the searches over vertices and over nodes find what
  is joined.

`CollisionDomainsAlwaysTrees` has the invariant `ForestInv`, no segment is redundant: a removal leaves
bridges bridges, and a new segment is one if its ends were not joined (`ForestWithSegment`).
That the search over nodes asks just this is `EditAlwaysAgreesWithBuild`, through `EditCheck`.
`DomainsAlwaysShareIds` adds that the numbers are those of the present segments
(`DomainNumbersInv`).

`ReachAlwaysTreePath` is about `BfsHdDelays`. Its invariant `Searching` says of every node found that it
is joined to the start by a path within what is found, that its delay is the sum along this path, and
that only the last segment of the path is at the node (`PathFound`). In a forest there is only one such
path. The queue never holds more nodes than the world has, so the search runs to its end
(`SearchedThrough`), and then nothing that can be reached is missing (`FoundIsHeard`).
`EgressAlwaysReachesDomain` starts the same search from the cable of a relay's port
(`RelayCable`). Both need `ReachInv`: the maps are those of the present world, though `AddNode`
does not compute them anew, since a new node has no cable.

**EgressQueue_proofs.** `CapacityNeverExceeded` for any capacity, zero included, and
`AlwaysFirstInFirstOut`: what was taken, followed by what is waiting, is what was accepted.

**Observe_proofs.** The log constrains no step (`LogIsHistory`), so what is proved of `CsmaCd`
holds under it. All three theorems hold through edits and assume `~PastAllowed`.
* `PastAnswersAlwaysStand`: a step appends at the present or later, and an answer about an earlier
  instant reads only what was there.
* `SenseAlwaysAgrees`: edits leave `foreign_carriers` too high (finding `carrier_leak`), so the
  carrier count is not the number of passing signals. It is not below it either (`CarrierFloor`),
  hence no back ever finds the count at zero, where the code's saturating subtraction would lose one.
  `Balanced` then says that in the log of a station the beginnings exceed the ends by
  `foreign_carriers` and the queued ends of its own transmissions.
* `NeverSilentlyLost`: an observer looks for the trailing edge by station and signal, so two copies of
  one signal must not have backs at two times (`OneTime`), although the same signal could be put
  on the wire twice and delays may change in between. `FlightInv` excludes that. A second TxStart
  of one signal would have to belong to the same instant; the host edits only between two runs
  (`Between`), and by then every station that has begun to send at this instant has no
  further TxStart queued for it (`OnTime`).

**Relay_proofs.** `RelayInv` is `RelayTypeOK` with the two facts about serials and starts
of `CsmaInv` and the bound on `relayed`. One lemma (`NetKeeps`) gives, for every handler of the
network, both the invariant and the `Dispatch` step, as `HandlerKeeps` does for stations.
`PortsImplementQueues` needs nothing else.

What a bridge promises about frames assumes `SteadyBridge`: the host pulls neither
the cables of the bridge nor full-duplex ones. It is free to pull any other. Without it the
promises are false, as section 5 says (*Serializers renumbered*, *A pulled cable*):
frames on their way to a queue are lost or go to another port. It is a condition on what the
host does, and every run of these properties satisfies it.
* `ForwardedExactlyOnce`: `Placed` follows a frame from one place to the next. It is being decoded
  at its ingress, or for each other port it is bound for that port or in its line, which
  is what the port has sent and what waits there. Only three handlers move a
  frame; the others leave all places alone (`Still`). `FloodedEverywhere` says that a
  frame is in some place for each port. Neither survives a tombstone, hence `SparedInv`: no
  entry of the bridge is ever cancelled, since an edit cancels entries of stations only and
  serials are not given out twice.
* `AlwaysSentInOrder`: frames are decoded in the order they came in, and are queued
  in the order they were decoded (`Ordered`). Both orders are orders of keys, not of times:
  frames of one instant differ in their serials only. It assumes `~PastAllowed`.
* `AlwaysForwardedAway` is the first half of the same argument for the switch. Flooding and
  the switch's decision are two instances of `ForwardsTo(e, E)`, a frame that goes to the ports
  of some set without its ingress. Every other step of the switch is a step of `Relay`
  (`SwitchSteps`).
* `DestinationAlwaysServed`: the table need not know the destination, but what it knows must
  be right. Frames that wait or fly are among the offered ones of their station and ports hear only
  their own domain (`LegitInv`), so a frame is taken in behind a port that is
  a home of its source (`HomeCopied`). Therefore an entry that nobody pinned names a home
  (`HomeLearned`). A frame for an address with one home is either flooded or sent there
  (`Reached`). That it is there only once is `Placed`.
* `EngineDrivesTheTable`: `ChainInv` says that `scheduled` is set exactly while one AgingTick is
  queued, and that no hook has run later than the present. Edits do not tombstone ticks and the
  scheduler is in key order, so a hook never overtakes a tick that is due. Each handler is
  then mapped to one action of `SwitchTable` or a stutter. The refinement uses that the queued
  ticks are none or one, so that `TickTimes` is empty or a single time; `SwitchTable` itself is
  free to hold more.
* `TablePromisesKept` takes the theorems of `SwitchTable_proofs`, instantiated with the same
  mapping, over to the network. Nothing about the table is proved twice.

* `ServedUnlessRecordsCross`: a bridge keeps one record per signal it sends, and the end of a
  transmission frees the port on record. The hypothesis `[][RecordsKept]_emitting` says that no
  record is ever handed to another port, which is what goes wrong in finding
  `relay_flood`. Nothing else does: a busy port has the end or the start of its transmission queued,
  and nobody cancels those of the bridge (`OwnSpared`); an idle port with frames waiting has the
  Dequeue of its first frame queued (`AttendInv`). It allows for stale and repeated
  Dequeues and for calls that schedule in the past.
* `AlwaysServedIfLengthsDiffer` puts a condition on constants in place of that hypothesis:
  `LengthsApart`, what comes to two ports never has one length. Then two ports never send equal
  signals, since a signal of the bridge is as long as a frame or jam it has heard (`LengthInv`).
  The constants of run `relay` satisfy it, those of `relay_flood` do not.

* `CollisionsAnsweredBesideBridge` is Theorem 2 for stations that share a cable with the bridge. The
  bridge senses no carrier and may begin to send at any time, but it pushes no start for a station
  and takes no answer away (`BridgeStartsNoStation`), and so the argument of `CsmaMedium_proofs`
  holds as it stands.

**Only model-checked.** Liveness (`RunEnds`), since fairness and ENABLED are beyond the prover.
All invariants and refinements that the passing runs check are proved, under the conditions
named above; without its conditions `PortsServed` is false (finding `relay_flood`).

## 8. Not modelled

* Device snapshots, the WebAssembly and the TypeScript layers: they copy or wrap the state
  of the engine and keep none.
* VLAN tags, ethertypes and payloads of frames, which nothing in the engine reads.
* Several relays in one network, cables of different rates at one relay, and what
  the removal of a relay does to its queued events. `Relay` has one bridge, whose cables have one rate.
* Full-duplex stations that start two frames at one instant. Their overlap is the
  station-side twin of `serializer_overlap`.
* Overflow inside a simulation: `Quantities` has the ranges and panics, the models of
  the engine unbounded times.
* Log markers of added nodes and of refused calls.
