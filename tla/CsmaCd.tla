-------------------------------- MODULE CsmaCd --------------------------------
(***************************************************************************)
(* The end-station MAC of engine.rs on top of its event scheduler: carrier *)
(* sense, transmission, propagation, collision detection, jam, binary      *)
(* exponential backoff and retry, on half-duplex collision domains and on  *)
(* full-duplex links.  Between runs cables are pulled and plugged, their   *)
(* delays and rates and the configurations of stations are changed, and    *)
(* stations are removed.                                                   *)
(*                                                                         *)
(* One action per event handler.  A step pops one queue entry, applies the *)
(* whole handler and pushes the entries the handler schedules.             *)
(*                                                                         *)
(* The world is a set of cables (Segment).  Every station has one port,    *)
(* plugged into the segment Access[n].  For each ordered pair of stations  *)
(* of one domain, Route is the set of segments on the tree path and delay  *)
(* its propagation time, repeaters included; a pair hears each other while *)
(* every segment of its route is up.  The rate of a segment is the time a  *)
(* bit takes on it.                                                        *)
(***************************************************************************)
EXTENDS Integers, FiniteSets

CONSTANTS
  Node,          (* end stations                                           *)
  Segment,       (* cables                                                 *)
  FdSegment,     (* the full-duplex ones                                   *)
  Access,        (* [Node -> Segment]: the cable at the station's port     *)
  Route,         (* ordered pairs of stations -> sets of segments          *)
  Delay,         (* the same pairs -> propagation delay, at first          *)
  Delays,        (* all the maps of delays that edits may lead to          *)
  BitTime,       (* [Segment -> BitTimes], at first                        *)
  BitTimes,      (* the rates a segment may be set to                      *)
  DefaultBitTime,   (* the rate at a port without a cable                  *)
  SlotBits,      (* [BitTimes -> Nat]: the slot at each rate               *)
  DefaultConfig,    (* MacConfig::IEEE_802_3                               *)
  Configs,       (* the configurations a station may be given              *)
  Frame,         (* registered frames                                      *)
  Duration,      (* [Frame -> Nat]: wire bits at the frame's rate          *)
  KindOf,        (* [Frame -> SignalKinds]: register_frame's kind          *)
  HashOrders,    (* orders in which a hash map may list the peers          *)
  NoFrame,
  Offers,        (* the calls schedule_tx_attempt(time, node, frame) that  *)
                 (* the host may make, each frame once                     *)
  PastAllowed,   (* whether the host may schedule before last_processed    *)
  MaxEdits,      (* bound on the number of topology edits                  *)
  MaxTime        (* bound on simulated time                                *)

NumNodes == Cardinality(Node)
Pairs == DOMAIN Route
SignalKinds == {"Frame", "Jam"}
(* Backoff limits, and the lengths of jam and gap in bits.                 *)
MacConfig == [attempts : Nat, backoff : Nat, jam : Nat \ {0}, ifg : Nat]

ASSUME CsmaAssumption ==
  /\ IsFiniteSet(Node)
  /\ FdSegment \subseteq Segment
  /\ Access \in [Node -> Segment]
  /\ Pairs \subseteq {p \in Node \X Node : p[1] # p[2]}
  /\ Delay \in Delays /\ Delays \subseteq [Pairs -> Nat \ {0}]
  /\ BitTime \in [Segment -> BitTimes] /\ BitTimes \subseteq Nat \ {0}
  /\ DefaultBitTime \in BitTimes
  /\ SlotBits \in [BitTimes -> Nat]
  /\ DefaultConfig \in Configs /\ Configs \subseteq MacConfig
  /\ Duration \in [Frame -> Nat \ {0}]
  /\ KindOf \in [Frame -> SignalKinds]
  /\ NoFrame \notin Frame
  /\ HashOrders \subseteq [Node -> 0 .. (NumNodes - 1)]
  /\ \A o \in HashOrders : \A m, n \in Node : o[m] = o[n] => m = n
  /\ Offers \subseteq Nat \X Node \X Frame /\ PastAllowed \in BOOLEAN
  /\ MaxEdits \in Nat /\ MaxTime \in Nat

(* A signal leaves a station and comes to another over the cables at their *)
(* ports.                                                                  *)
ASSUME RouteAssumption == \A p \in Pairs : Access[p[1]] \in Route[p] /\ Access[p[2]] \in Route[p]

VARIABLES
  queue, serial, last, cancelled, running,   (* the scheduler's            *)
  state,       (* node_state                                               *)
  foreign,     (* foreign_carriers                                         *)
  pending,     (* pending_frames                                           *)
  up,          (* the segments present in the world                        *)
  alive,       (* the nodes present in the world                           *)
  hashOrder,   (* per source, the order in which the reachability map      *)
               (* lists its peers; fixed until an edit rebuilds the map    *)
  delay,       (* the delays in the reachability map                       *)
  bitTime,     (* the rates of the segments                                *)
  config,      (* mac_configs                                              *)
  unoffered,   (* frames the host has not scheduled yet                    *)
  edits,       (* number of topology edits so far                          *)
  aired,       (* history: every signal that was put on the wire           *)
  delivered    (* history: the frame signals that ended undisturbed        *)

Sched == INSTANCE Scheduler

mac  == <<state, foreign, pending>>
settings == <<delay, bitTime, config>>
world == <<up, alive, hashOrder, settings, unoffered, edits>>
history == <<aired, delivered>>
vars == <<queue, serial, last, cancelled, running, mac, world, history>>

Now == last[1]

---------------------------------------------------------------------------
(* Signals.  Two signals are the same exactly when these fields are.       *)

Signal(n, t, d, k) == [source |-> n, t0 |-> t, dur |-> d, kind |-> k]
SignalSet == [source : Node, t0 : Nat, dur : Nat \ {0}, kind : SignalKinds]

(* Queue entries, one constructor per shape of event.                      *)
AttemptEntry(t, s, n, f) ==
  [kind |-> "TxAttempt", time |-> t, serial |-> s, node |-> n, frame |-> f]
SignalEntry(k, t, s, n, sig) ==
  [kind |-> k, time |-> t, serial |-> s, node |-> n, signal |-> sig]
JamEntry(k, t, s, n) ==
  [kind |-> k, time |-> t, serial |-> s, node |-> n]
BackoffEntry(t, s, n, a) ==
  [kind |-> "BackoffExpire", time |-> t, serial |-> s, node |-> n, attempt |-> a]
EditEntry(t, s) ==
  [kind |-> "TopologyChanged", time |-> t, serial |-> s]

SignalEvents == {"TxStart", "TxEnd", "FrontArrive", "BackArrive", "CollisionDetect"}
JamEvents == {"JamStart", "JamEnd"}
NodeEvents == SignalEvents \cup JamEvents \cup {"TxAttempt", "BackoffExpire"}
ArrivalEvents == {"FrontArrive", "BackArrive"}

---------------------------------------------------------------------------
(* NodeRuntimeState; an idle node has no attempt count.                    *)
Idle == [mode |-> "Idle", attempt |-> 0]
Transmitting(sig, a) == [mode |-> "Transmitting", attempt |-> a, signal |-> sig]
BackingOff(a) == [mode |-> "BackingOff", attempt |-> a]

StateSet ==
  {Idle} \cup [mode : {"Transmitting"}, attempt : Nat, signal : SignalSet]
         \cup [mode : {"BackingOff"}, attempt : Nat]

IsTransmitting(n) == state[n].mode = "Transmitting"
IsBusy(n) == state[n].mode # "Idle"
NeverOnFd(n) == FALSE
OnFd(n) == Access[n] \in FdSegment \cap up
Hears(n) == {m \in Node : <<n, m>> \in Pairs /\ Route[<<n, m>>] \subseteq up}

(* The rate at a station's port; that of a half-duplex one, for the jam    *)
(* and the slot.                                                           *)
RateAt(n) == IF Access[n] \in up THEN bitTime[Access[n]] ELSE DefaultBitTime
HdRateAt(n) == IF OnFd(n) THEN DefaultBitTime ELSE RateAt(n)

IfgTime(n) == config[n].ifg * RateAt(n)
JamTime(n) == config[n].jam * HdRateAt(n)
SlotTime(n) == SlotBits[HdRateAt(n)] * HdRateAt(n)

DeferOnBusyOnly(n) == IsBusy(n)
(* The gate of handle_tx_attempt: a full-duplex port only waits for its    *)
(* own transmission, a half-duplex one for the medium too.                 *)
MustDefer(n) == IsBusy(n) \/ (~OnFd(n) /\ foreign[n] > 0)

---------------------------------------------------------------------------
(* The dispatch loop around every handler.                                 *)

Pops(e, kind) ==
  /\ running
  /\ e.kind = kind
  /\ e.time <= MaxTime
  /\ Sched!IsTop(queue, e)
  /\ e.serial \notin cancelled

(* The handler of e pushed the entries `new`, using the next k serials.    *)
Emits(e, new, k) ==
  /\ queue' = (queue \ {e}) \cup new
  /\ serial' = serial + k
  /\ last' = Sched!Key(e)
  /\ UNCHANGED <<cancelled, running, world>>

---------------------------------------------------------------------------
(* Handlers.                                                               *)

JamOfNoBits(n, t) == Signal(n, t, 0, "Jam")
JamSignal(n, t) == Signal(n, t, JamTime(n), "Jam")
FrameSignal(n, t, f) == Signal(n, t, Duration[f], KindOf[f])

HandleTxAttempt(e) ==
  LET n == e.node IN
  /\ Pops(e, "TxAttempt")
  /\ pending' = [pending EXCEPT ![n] = e.frame]
  /\ \/ /\ MustDefer(n)
        /\ Emits(e, {AttemptEntry(e.time + IfgTime(n), serial, n, e.frame)}, 1)
     \/ /\ ~MustDefer(n)
        /\ Emits(e, {SignalEntry("TxStart", e.time, serial, n,
                                 FrameSignal(n, e.time, e.frame))}, 1)
  /\ UNCHANGED <<state, foreign, history>>

FrontWithoutDelay(sig, m) == sig.t0
FrontTime(sig, m) == sig.t0 + delay[<<sig.source, m>>]

(* One front and one back per hearing station, the peers in hash-map      *)
(* order.  Serials may skip: only their order matters.                     *)
Arrivals(sig) ==
  LET order == hashOrder[sig.source] IN
  {SignalEntry("FrontArrive", FrontTime(sig, m), serial + 2 * order[m], m, sig) :
       m \in Hears(sig.source)}
  \cup
  {SignalEntry("BackArrive", FrontTime(sig, m) + sig.dur,
               serial + 2 * order[m] + 1, m, sig) : m \in Hears(sig.source)}

HandleTxStart(e) ==
  LET n == e.node
      sig == e.signal
      end == serial + 2 * NumNodes
  IN
  /\ Pops(e, "TxStart")
  /\ state' = [state EXCEPT ![n] = Transmitting(sig, @.attempt)]
  /\ aired' = aired \cup {sig}
  /\ Emits(e, Arrivals(sig)
              \cup {SignalEntry("TxEnd", sig.t0 + sig.dur, end, n, sig)},
           2 * NumNodes + 1)
  /\ UNCHANGED <<foreign, pending, delivered>>

EndsAnySignal(n, sig) == IsTransmitting(n)
(* A TxEnd for anything but the signal now on the wire is stale.           *)
EndsCurrent(n, sig) == IsTransmitting(n) /\ state[n].signal = sig

HandleTxEnd(e) ==
  LET n == e.node IN
  /\ Pops(e, "TxEnd")
  /\ \/ /\ EndsCurrent(n, e.signal) /\ e.signal.kind = "Frame"
        /\ state' = [state EXCEPT ![n] = Idle]
        /\ pending' = [pending EXCEPT ![n] = NoFrame]
        /\ delivered' = delivered \cup {e.signal}
     \/ /\ EndsCurrent(n, e.signal) /\ e.signal.kind = "Jam"
        /\ state' = [state EXCEPT ![n] = BackingOff(@.attempt + 1)]
        /\ UNCHANGED <<pending, delivered>>
     \/ /\ ~EndsCurrent(n, e.signal)
        /\ UNCHANGED <<state, pending, delivered>>
  /\ Emits(e, {}, 0)
  /\ UNCHANGED <<foreign, aired>>

(* The station reacts with the signal it is itself sending, not with the   *)
(* one that arrives.                                                       *)
NoReaction(e) == {}
Reactions(e) ==
  IF IsTransmitting(e.node)
  THEN {SignalEntry("CollisionDetect", e.time, serial, e.node, state[e.node].signal)}
  ELSE {}

HandleFrontArrive(e) ==
  /\ Pops(e, "FrontArrive")
  /\ \/ /\ OnFd(e.node)
        /\ Emits(e, {}, 0)
        /\ UNCHANGED foreign
     \/ /\ ~OnFd(e.node)
        /\ foreign' = [foreign EXCEPT ![e.node] = @ + 1]
        /\ Emits(e, Reactions(e), 1)
  /\ UNCHANGED <<state, pending, history>>

CarrierKept(c) == c
(* saturating_sub(1)                                                       *)
CarrierDropped(c) == IF c > 0 THEN c - 1 ELSE 0

HandleBackArrive(e) ==
  /\ Pops(e, "BackArrive")
  /\ foreign' = IF OnFd(e.node) THEN foreign
                ELSE [foreign EXCEPT ![e.node] = CarrierDropped(@)]
  /\ Emits(e, {}, 0)
  /\ UNCHANGED <<state, pending, history>>

HandleCollisionDetect(e) ==
  LET n == e.node IN
  /\ Pops(e, "CollisionDetect")
  /\ \/ /\ IsTransmitting(n) /\ state[n].signal.kind = "Frame"
        /\ Emits(e, {JamEntry("JamStart", e.time, serial, n)}, 1)
     \/ /\ ~(IsTransmitting(n) /\ state[n].signal.kind = "Frame")
        /\ Emits(e, {}, 0)
  /\ UNCHANGED <<mac, history>>

HandleJamStart(e) ==
  /\ Pops(e, "JamStart")
  /\ Emits(e, {SignalEntry("TxStart", e.time, serial, e.node, JamSignal(e.node, e.time)),
               JamEntry("JamEnd", e.time + JamTime(e.node), serial + 1, e.node)}, 2)
  /\ UNCHANGED <<mac, history>>

---------------------------------------------------------------------------
(* BackoffPolicy.                                                          *)

GivesUp(n, attempt) == attempt >= config[n].attempts

Window(n, attempt) ==
  2 ^ (IF attempt < config[n].backoff THEN attempt ELSE config[n].backoff)

(* random % window slots, for any random number                            *)
BackoffDelays(n, attempt) ==
  {slots * SlotTime(n) : slots \in 0 .. (Window(n, attempt) - 1)}

AttemptAfterJam(n) ==
  IF IsTransmitting(n) THEN state[n].attempt + 1 ELSE state[n].attempt

HandleJamEnd(e) ==
  LET n == e.node
      attempt == AttemptAfterJam(n)
  IN
  /\ Pops(e, "JamEnd")
  /\ \/ /\ ~IsBusy(n)
        /\ Emits(e, {}, 0)
        /\ UNCHANGED <<state, pending>>
     \/ /\ IsBusy(n) /\ GivesUp(n, attempt)
        /\ state' = [state EXCEPT ![n] = Idle]
        /\ pending' = [pending EXCEPT ![n] = NoFrame]
        /\ Emits(e, {}, 0)
     \/ /\ IsBusy(n) /\ ~GivesUp(n, attempt)
        /\ state' = [state EXCEPT ![n] = BackingOff(attempt)]
        /\ \E d \in BackoffDelays(n, attempt) :
              Emits(e, {BackoffEntry(e.time + d, serial, n, attempt)}, 1)
        /\ UNCHANGED pending
  /\ UNCHANGED <<foreign, history>>

(* A timer counts only for the attempt the station is backing off for.     *)
TimerIsLive(e) ==
  /\ state[e.node] = BackingOff(e.attempt)
  /\ pending[e.node] # NoFrame

HandleBackoffExpire(e) ==
  LET n == e.node IN
  /\ Pops(e, "BackoffExpire")
  /\ \/ /\ TimerIsLive(e)
        /\ state' = [state EXCEPT ![n] = Idle]
        /\ Emits(e, {AttemptEntry(e.time, serial, n, pending[n])}, 1)
     \/ /\ ~TimerIsLive(e)
        /\ Emits(e, {}, 0)
        /\ UNCHANGED state
  /\ UNCHANGED <<foreign, pending, history>>

(* The log marker of an edit; the edit itself happened in apply_edit.      *)
HandleTopologyChanged(e) ==
  /\ Pops(e, "TopologyChanged")
  /\ Emits(e, {}, 0)
  /\ UNCHANGED <<mac, history>>

DropCancelled(e) ==
  /\ running
  /\ e.time <= MaxTime
  /\ Sched!Skip(e)
  /\ UNCHANGED <<mac, world, history>>

---------------------------------------------------------------------------
(* The host, between two runs.                                             *)

HostPushes(new, k) ==
  /\ ~running
  /\ queue' = queue \cup new
  /\ serial' = serial + k
  /\ UNCHANGED <<last, running, history>>

ScheduleTxAttempt(t, n, f) ==
  /\ f \in unoffered
  /\ PastAllowed \/ t >= Now
  /\ HostPushes({AttemptEntry(t, serial, n, f)}, 1)
  /\ unoffered' = unoffered \ {f}
  /\ UNCHANGED <<cancelled, mac, up, alive, hashOrder, settings, edits>>

(* cancel_arrivals_on_segment: every queued arrival at either end of the   *)
(* segment, whichever signal it belongs to.                                *)
FrontsOn(segs) ==
  {e.serial : e \in {f \in queue : f.kind = "FrontArrive" /\ Access[f.node] \in segs}}
BacksOn(segs) ==
  {e.serial : e \in {f \in queue : f.kind = "BackArrive" /\ Access[f.node] \in segs}}
EventsOn(segs) ==
  {e.serial : e \in {f \in queue : f.kind \in NodeEvents /\ Access[f.node] \in segs}}
ArrivalsOn(segs) ==
  {e.serial : e \in {f \in queue : f.kind \in ArrivalEvents /\ Access[f.node] \in segs}}

(* cancel_events_referencing_node                                          *)
EventsOf(n) ==
  {e.serial : e \in {f \in queue : f.kind \in NodeEvents /\ f.node = n}}

(* recompute_reachability_maps: a new map, in any order.                   *)
Rebuilds ==
  /\ edits' = edits + 1
  /\ hashOrder' \in [Node -> HashOrders]

(* do_disconnect_port and do_remove_segment: the cable leaves the world.   *)
RemoveSegment(seg) ==
  /\ edits < MaxEdits
  /\ seg \in up
  /\ cancelled' = cancelled \cup ArrivalsOn({seg})
  /\ up' = up \ {seg}
  /\ HostPushes({EditEntry(Now, serial)}, 1)
  /\ Rebuilds
  /\ UNCHANGED <<mac, alive, settings, unoffered>>

(* do_add_hd_segment / do_add_fd_segment between the same two ports        *)
AddSegment(seg) ==
  /\ edits < MaxEdits
  /\ seg \notin up
  /\ \A n \in Node : Access[n] = seg => n \in alive
  /\ up' = up \cup {seg}
  /\ HostPushes({EditEntry(Now, serial)}, 1)
  /\ Rebuilds
  /\ UNCHANGED <<cancelled, mac, alive, settings, unoffered>>

(* do_remove_node: the incident segment goes first, then every event of    *)
(* the node is tombstoned and its runtime state is dropped.                *)
RemoveNode(n) ==
  LET incident == {Access[n]} \cap up IN
  /\ edits < MaxEdits
  /\ n \in alive
  /\ cancelled' = cancelled \cup ArrivalsOn(incident) \cup EventsOf(n)
  /\ state' = [state EXCEPT ![n] = Idle]
  /\ foreign' = [foreign EXCEPT ![n] = 0]
  /\ pending' = [pending EXCEPT ![n] = NoFrame]
  /\ up' = up \ incident
  /\ alive' = alive \ {n}
  /\ config' = [config EXCEPT ![n] = DefaultConfig]
  /\ HostPushes({EditEntry(Now, serial + i) : i \in 0 .. Cardinality(incident)},
                Cardinality(incident) + 1)
  /\ Rebuilds
  /\ UNCHANGED <<delay, bitTime, unoffered>>

(* Changes of parameters.  What is queued keeps its times; to set the      *)
(* value that is already there only writes the log.                        *)

(* do_set_segment_delay: the delays of the pairs whose route takes the     *)
(* segment.                                                                *)
SetSegmentDelay(seg) ==
  /\ edits < MaxEdits
  /\ seg \in up
  /\ \E d \in Delays \ {delay} :
       /\ \A p \in Pairs : seg \notin Route[p] => d[p] = delay[p]
       /\ delay' = d
  /\ HostPushes({EditEntry(Now, serial)}, 1)
  /\ Rebuilds
  /\ UNCHANGED <<cancelled, mac, up, alive, bitTime, config, unoffered>>

(* do_set_segment_rate: a frame keeps the rate it was registered with.     *)
SetSegmentRate(seg, r) ==
  /\ edits < MaxEdits
  /\ seg \in up
  /\ r # bitTime[seg]
  /\ bitTime' = [bitTime EXCEPT ![seg] = r]
  /\ HostPushes({EditEntry(Now, serial)}, 1)
  /\ Rebuilds
  /\ UNCHANGED <<cancelled, mac, up, alive, delay, config, unoffered>>

(* do_set_mac_config                                                       *)
SetMacConfig(n, c) ==
  /\ edits < MaxEdits
  /\ n \in alive
  /\ c # config[n]
  /\ config' = [config EXCEPT ![n] = c]
  /\ HostPushes({EditEntry(Now, serial)}, 1)
  /\ edits' = edits + 1
  /\ UNCHANGED <<cancelled, mac, up, alive, hashOrder, delay, bitTime, unoffered>>

StartRun == Sched!StartRun /\ UNCHANGED <<mac, world, history>>
ReturnFromRun == Sched!ReturnFromRun /\ UNCHANGED <<mac, world, history>>

---------------------------------------------------------------------------
Init ==
  /\ Sched!SchedulerInit
  /\ state = [n \in Node |-> Idle]
  /\ foreign = [n \in Node |-> 0]
  /\ pending = [n \in Node |-> NoFrame]
  /\ up = Segment
  /\ alive = Node
  /\ hashOrder \in [Node -> HashOrders]
  /\ delay = Delay
  /\ bitTime = BitTime
  /\ config = [n \in Node |-> DefaultConfig]
  /\ unoffered = Frame
  /\ edits = 0
  /\ aired = {}
  /\ delivered = {}

Host ==
  \/ \E o \in Offers : ScheduleTxAttempt(o[1], o[2], o[3])
  \/ \E seg \in Segment : RemoveSegment(seg) \/ AddSegment(seg)
  \/ \E n \in Node : RemoveNode(n)
  \/ \E seg \in Segment : SetSegmentDelay(seg)
  \/ \E seg \in Segment, r \in BitTimes : SetSegmentRate(seg, r)
  \/ \E n \in Node, c \in Configs : SetMacConfig(n, c)
  \/ StartRun \/ ReturnFromRun

Handle(e) ==
  \/ HandleTxAttempt(e) \/ HandleTxStart(e) \/ HandleTxEnd(e)
  \/ HandleFrontArrive(e) \/ HandleBackArrive(e)
  \/ HandleCollisionDetect(e) \/ HandleJamStart(e) \/ HandleJamEnd(e)
  \/ HandleBackoffExpire(e) \/ HandleTopologyChanged(e) \/ DropCancelled(e)

Next == Host \/ \E e \in queue : Handle(e)

Spec == Init /\ [][Next]_vars
---------------------------------------------------------------------------
(* Type invariant.                                                         *)

EntrySet ==
  [kind : {"TxAttempt"}, time : Nat, serial : Nat, node : Node, frame : Frame]
  \cup [kind : SignalEvents, time : Nat, serial : Nat, node : Node, signal : SignalSet]
  \cup [kind : JamEvents, time : Nat, serial : Nat, node : Node]
  \cup [kind : {"BackoffExpire"}, time : Nat, serial : Nat, node : Node, attempt : Nat]
  \cup [kind : {"TopologyChanged"}, time : Nat, serial : Nat]

QueueOK ==
  /\ queue \subseteq EntrySet
  /\ serial \in Nat
  /\ last \in Nat \X (0 .. 3) \X Int
  /\ cancelled \subseteq Nat
  /\ running \in BOOLEAN

MacOK ==
  /\ state \in [Node -> StateSet]
  /\ foreign \in [Node -> Nat]
  /\ pending \in [Node -> Frame \cup {NoFrame}]

WorldOK ==
  /\ up \subseteq Segment
  /\ alive \subseteq Node
  /\ hashOrder \in [Node -> HashOrders]
  /\ delay \in Delays
  /\ bitTime \in [Segment -> BitTimes]
  /\ config \in [Node -> Configs]
  /\ unoffered \subseteq Frame
  /\ edits \in Nat

HistoryOK == aired \subseteq SignalSet /\ delivered \subseteq SignalSet

(* Every variable has its type; in particular no signal on the wire is of  *)
(* zero duration (I5) and carrier counts never go below zero.              *)
TypeOK == QueueOK /\ MacOK /\ WorldOK /\ HistoryOK

---------------------------------------------------------------------------
(* Properties.                                                             *)

Live(e) == e.serial \notin cancelled

(* The backs still queued for n whose front (pushed just before them) has  *)
(* already been handled: the foreign signals now passing n's port.         *)
PassingBy(n) ==
  {b \in queue : /\ b.kind = "BackArrive" /\ b.node = n /\ Live(b)
                 /\ ~\E f \in queue : f.kind = "FrontArrive" /\ f.serial = b.serial - 1}

(* foreign_carriers is "the count of active foreign signals at the node's  *)
(* port(s)" (engine.rs, struct Engine): it equals the number of foreign    *)
(* signals whose front has reached the station and whose back has not.     *)
CarrierMatchesWire ==
  \A n \in Node : foreign[n] = IF OnFd(n) THEN 0 ELSE Cardinality(PassingBy(n))

(* A station never goes on sending a frame over a foreign carrier: while   *)
(* both are present its reaction (detection, jam start or the jam's own    *)
(* TxStart) is queued for this very instant.                               *)
CollisionAnswered ==
  \A n \in Node :
    (IsTransmitting(n) /\ state[n].signal.kind = "Frame" /\ foreign[n] > 0) =>
      \E e \in queue :
        /\ e.kind \in {"CollisionDetect", "JamStart", "TxStart"}
        /\ e.node = n /\ e.time = Now /\ Live(e)
        /\ e.kind = "TxStart" => e.signal.kind = "Jam"

(* No station is stuck: one that transmits has the end of exactly that     *)
(* signal queued, one that backs off has a timer for exactly that attempt  *)
(* queued and a frame to retry.                                            *)
TimersArmed ==
  \A n \in Node :
    /\ IsTransmitting(n) =>
         \E e \in queue : /\ e.kind = "TxEnd" /\ e.node = n /\ Live(e)
                          /\ e.signal = state[n].signal
    /\ state[n].mode = "BackingOff" =>
         /\ pending[n] # NoFrame
         /\ \E e \in queue : /\ e.kind = "BackoffExpire" /\ e.node = n /\ Live(e)
                             /\ e.attempt = state[n].attempt

OnHd(m, n) == m = n \/ (<<m, n>> \in Pairs /\ Route[<<m, n>>] \cap FdSegment = {})
Reaches(sig, n) == sig.t0 + (IF n = sig.source THEN 0 ELSE delay[<<sig.source, n>>])
Overlap(s, r, n) ==
  /\ Reaches(s, n) < Reaches(r, n) + r.dur
  /\ Reaches(r, n) < Reaches(s, n) + s.dur

(* The medium that Theorem 1 is about: the stations of a domain all hear   *)
(* each other, after delays that are distances, and no frame is shorter    *)
(* than a round trip between any two of them.                              *)
Distance(m, n) == IF m = n THEN 0 ELSE Delay[<<m, n>>]
ProperMedium ==
  /\ \A p \in Pairs : Route[p] \subseteq Segment
  /\ \A m, n \in Node : OnHd(m, n) => OnHd(n, m) /\ Distance(n, m) = Distance(m, n)
  /\ \A m, n, k \in Node :
       (OnHd(m, n) /\ OnHd(n, k)) =>
          OnHd(m, k) /\ Distance(m, k) <= Distance(m, n) + Distance(n, k)
  /\ \A m, n \in Node, f \in Frame : OnHd(m, n) => Duration[f] >= 2 * Distance(m, n)

(* Theorem 1 as a guarantee of CSMA/CD: a frame that a station counts as   *)
(* sent met no signal of another station at any port of its collision      *)
(* domain.  It needs a ProperMedium, and delays that stay as they are.     *)
DeliveredUndisturbed ==
  \A s \in delivered, r \in aired, n \in Node :
    (s.source # r.source /\ OnHd(s.source, n) /\ OnHd(r.source, n)) => ~Overlap(s, r, n)

(* Theorem 3: full-duplex stations never detect a collision, whatever both *)
(* directions carry.                                                       *)
FullDuplexNeverCollides ==
  \A e \in queue : e.kind \in {"CollisionDetect"} \cup JamEvents =>
                     Access[e.node] \notin FdSegment \cap up

(* A port without a cable hears nothing: an arrival that is still going to *)
(* be dispatched is at a station whose segment is in the world.            *)
UnpluggedHearsNothing ==
  \A e \in queue : e.kind \in ArrivalEvents /\ Live(e) => Access[e.node] \in up

(* An edit never splits the two ends of a signal: a front that is still    *)
(* going to be dispatched is followed, as long after it as the signal      *)
(* lasts, by its back at the same port.                                    *)
EndsStayTogether ==
  \A f \in queue :
    (f.kind = "FrontArrive" /\ Live(f)) =>
      \E b \in queue : /\ b.kind = "BackArrive" /\ Live(b) /\ b.node = f.node
                       /\ b.signal = f.signal /\ b.time = f.time + f.signal.dur
                       /\ b.serial = f.serial + 1

(* The scheduler's promises hold of this module (see Scheduler).           *)
KeysAhead == Sched!KeysAhead
TombstonesQueued == Sched!TombstonesQueued
ImplementsScheduler == Sched!SchedulerSpec
LogInKeyOrder == Sched!LogInKeyOrder

---------------------------------------------------------------------------
(* What comments of engine.rs say and the runs refute (see README).        *)

(* "The retry attempt number for the underlying frame (0 = first try)":    *)
(* with one frame per station, the number of its frames on the air before. *)
AttemptCountsTries ==
  \A n \in Node :
    (IsTransmitting(n) /\ state[n].signal.kind = "Frame") =>
      state[n].attempt =
        Cardinality({s \in aired : s.source = n /\ s.kind = "Frame"}) - 1
===========================================================================
