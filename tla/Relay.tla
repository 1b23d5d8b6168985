-------------------------------- MODULE Relay --------------------------------
(***************************************************************************)
(* A flooding bridge among the stations of CsmaCd: cut-through frame       *)
(* relay, one egress queue per port, and the transmissions of the bridge   *)
(* itself, which sense no carrier and answer no collision (axiom A4).      *)
(*                                                                         *)
(* Each port of the bridge is a Node of CsmaCd, since each is a vertex of  *)
(* its own in the collision domains; the other Nodes are stations, and     *)
(* their handlers are those of CsmaCd.  The signals of the bridge carry    *)
(* its own id, Bridge, as their source, whatever port they leave by.       *)
(***************************************************************************)
EXTENDS CsmaCd, Sequences, Functions

CONSTANTS
  Bridge,        (* the node id of the bridge                              *)
  Port,          (* its ports                                              *)
  PortNo,        (* [Port -> Nat]: their numbers, from 0                   *)
  DecodeTime,    (* decode threshold at the ingress rate + processing      *)
  Pulled,        (* the segments that the host pulls and plugs             *)
  MaxRelayed     (* bound on the number of frames the bridge takes in      *)

Station == Node \ Port

ASSUME RelayAssumption ==
  /\ Bridge \notin Node
  /\ Port \subseteq Node
  /\ PortNo \in [Port -> 0 .. (Cardinality(Port) - 1)]
  /\ \A p, q \in Port : PortNo[p] = PortNo[q] => p = q
  /\ DecodeTime \in Nat
  /\ Pulled \subseteq Segment
  /\ IsFiniteSet(FdSegment)
  /\ MaxRelayed \in Nat

VARIABLES
  relayed,    (* frames the bridge has registered, by arrival: the station *)
              (* frame it copies (NoFrame: opaque), its length and where   *)
              (* it came in; the wire length is history                    *)
  egress,     (* egress_queues: per port, indices into relayed             *)
  busy,       (* egress_busy                                               *)
  emitting,   (* bridge_pending_egress: signal of the bridge -> port       *)
  sent        (* history: per port, the frames dequeued                    *)

relay == <<relayed, egress, busy, emitting, sent>>
relayVars == <<vars, relay>>

---------------------------------------------------------------------------
(* Serializer ids: two per full-duplex segment first, then one per bridge  *)
(* port, reassigned at every edit.  Only an attached port is ever found.   *)

Attached(p) == Access[p] \in up
SerializerOf(p) == 2 * Cardinality(FdSegment \cap up) + PortNo[p]
PortsOf(z) == {p \in Port : Attached(p) /\ SerializerOf(p) = z}

EligibleEntry(t, s, p, i) ==
  [kind |-> "FrameEligible", time |-> t, serial |-> s, node |-> p, frame |-> i]
SerializerEntry(k, t, s, z, i) ==
  [kind |-> k, time |-> t, serial |-> s, serializer |-> z, frame |-> i]

---------------------------------------------------------------------------
(* Receiving.                                                              *)

(* The frame the source is trying to send when the front arrives, or an    *)
(* opaque one as long as the signal.                                       *)
Copy(sig) == pending[sig.source]
OpaqueOfNoBits(sig) == IF Copy(sig) = NoFrame THEN 0 ELSE Duration[Copy(sig)]
CopyLength(sig) == IF Copy(sig) = NoFrame THEN sig.dur ELSE Duration[Copy(sig)]

(* register_frame_with: the next frame id, for the bridge as the source.   *)
RegisterFrame(copy, length, ingress, wire) ==
  relayed' = Append(relayed, [copy |-> copy, dur |-> length,
                              ingress |-> ingress, wire |-> wire])

RelayFrontArrive(e) ==
  /\ Pops(e, "FrontArrive") /\ e.node \in Port
  /\ Len(relayed) < MaxRelayed
  /\ RegisterFrame(Copy(e.signal), CopyLength(e.signal), e.node, e.signal.dur)
  /\ Emits(e, {EligibleEntry(e.time + DecodeTime, serial, e.node, Len(relayed) + 1)}, 1)
  /\ UNCHANGED <<mac, history, egress, busy, emitting, sent>>

RelayBackArrive(e) ==
  /\ Pops(e, "BackArrive") /\ e.node \in Port
  /\ Emits(e, {}, 0)
  /\ UNCHANGED <<mac, history, relay>>

(* FloodForwarding over bridge_ports                                       *)
EgressPorts(ingress) == {p \in Port : Attached(p)} \ {ingress}

HandleFrameEligible(e) ==
  /\ Pops(e, "FrameEligible")
  /\ Emits(e, {SerializerEntry("Enqueue", e.time, serial + PortNo[p],
                               SerializerOf(p), e.frame) : p \in EgressPorts(e.node)},
           Cardinality(Port))
  /\ UNCHANGED <<mac, history, relay>>

---------------------------------------------------------------------------
(* Egress queues.                                                          *)

PushedInFront(q, i) == <<i>> \o q
PushedBack(q, i) == Append(q, i)

(* An idle port starts on the frame that just came in.                     *)
HandleEnqueue(e) ==
  LET ports == PortsOf(e.serializer) IN
  /\ Pops(e, "Enqueue")
  /\ egress' = [p \in Port |-> IF p \in ports THEN PushedBack(egress[p], e.frame)
                                ELSE egress[p]]
  /\ Emits(e, {SerializerEntry("Dequeue", e.time, serial, e.serializer, e.frame) :
                  p \in {q \in ports : ~busy[q]}}, 1)
  /\ UNCHANGED <<mac, history, relayed, busy, emitting, sent>>

AnyFront(p, i) == egress[p] # <<>>
(* A Dequeue is stale when its frame is not the front of the queue.        *)
IsFront(p, i) == egress[p] # <<>> /\ Head(egress[p]) = i

HandleDequeue(e) ==
  LET sig == Signal(Bridge, e.time, relayed[e.frame].dur, "Frame") IN
  /\ Pops(e, "Dequeue")
  /\ \/ /\ \A p \in PortsOf(e.serializer) : ~IsFront(p, e.frame)
        /\ Emits(e, {}, 0)
        /\ UNCHANGED <<egress, busy, emitting, sent>>
     \/ \E p \in PortsOf(e.serializer) :
          /\ IsFront(p, e.frame)
          /\ egress' = [egress EXCEPT ![p] = Tail(@)]
          /\ busy' = [busy EXCEPT ![p] = TRUE]
          /\ emitting' = [s \in {sig} \cup DOMAIN emitting |->
                            IF s = sig THEN p ELSE emitting[s]]
          /\ sent' = [sent EXCEPT ![p] = Append(@, e.frame)]
          /\ Emits(e, {SignalEntry("TxStart", e.time, serial, Bridge, sig)}, 1)
  /\ UNCHANGED <<mac, history, relayed>>

---------------------------------------------------------------------------
(* The bridge's own transmissions.                                         *)

RelayArrivals(sig, p) ==
  LET order == hashOrder[p]
      front(m) == sig.t0 + delay[<<p, m>>]
  IN
  {SignalEntry("FrontArrive", front(m), serial + 2 * order[m], m, sig) :
       m \in Hears(p) \ Port}
  \cup
  {SignalEntry("BackArrive", front(m) + sig.dur, serial + 2 * order[m] + 1, m, sig) :
       m \in Hears(p) \ Port}

(* The port bridge_pending_egress names for the signal, if any.            *)
PortsFor(sig) == {emitting[s] : s \in {sig} \cap DOMAIN emitting}

RelayTxStart(e) ==
  LET sig == e.signal
      ends == [p \in PortsFor(sig) |->
                 SignalEntry("TxEnd", sig.t0 + sig.dur, serial + 2 * NumNodes, Bridge, sig)]
  IN
  /\ Pops(e, "TxStart") /\ e.node = Bridge
  /\ Emits(e, UNION {RelayArrivals(sig, p) \cup {ends[p]} : p \in PortsFor(sig)},
           2 * NumNodes + 1)
  /\ UNCHANGED <<mac, history, relay>>

StaysIdle(e, p) == {}
(* on_egress_idle: the next frame goes out after the inter-frame gap.      *)
NextDequeue(e, p) ==
  IF egress[p] = <<>> THEN {}
  ELSE {SerializerEntry("Dequeue", e.time + IfgTime(p), serial, SerializerOf(p), Head(egress[p]))}

RelayTxEnd(e) ==
  LET ports == PortsFor(e.signal) IN
  /\ Pops(e, "TxEnd") /\ e.node = Bridge
  /\ busy' = [p \in Port |-> busy[p] /\ p \notin ports]
  /\ emitting' = Restrict(emitting, DOMAIN emitting \ {e.signal})
  /\ Emits(e, UNION {NextDequeue(e, p) : p \in ports}, 1)
  /\ UNCHANGED <<mac, history, relayed, egress, sent>>

---------------------------------------------------------------------------
RelayInit ==
  /\ Init
  /\ relayed = <<>>
  /\ egress = [p \in Port |-> <<>>]
  /\ busy = [p \in Port |-> FALSE]
  /\ emitting = <<>>
  /\ sent = [p \in Port |-> <<>>]

(* The handlers ask first whether the node of the event is a relay.        *)
StationHandle(e) ==
  /\ e.kind \in NodeEvents /\ e.serial \notin cancelled => e.node \in Station
  /\ Handle(e)

(* What any relay does, whether it is a bridge or a switch.                *)
PortHandle(e) ==
  \/ RelayFrontArrive(e) \/ RelayBackArrive(e)
  \/ HandleEnqueue(e) \/ HandleDequeue(e)
  \/ RelayTxStart(e) \/ RelayTxEnd(e)

RelayHandle(e) == PortHandle(e) \/ HandleFrameEligible(e)

RelayHost ==
  \/ \E o \in Offers : ScheduleTxAttempt(o[1], o[2], o[3])
  \/ \E seg \in Pulled : RemoveSegment(seg) \/ AddSegment(seg)
  \/ \E n \in Station : Access[n] \in Pulled /\ RemoveNode(n)
  \/ StartRun \/ ReturnFromRun

RelayNext ==
  \/ RelayHost /\ UNCHANGED relay
  \/ \E e \in queue : StationHandle(e) /\ UNCHANGED relay
  \/ \E e \in queue : RelayHandle(e)

RelaySpec == RelayInit /\ [][RelayNext]_relayVars
---------------------------------------------------------------------------
(* Type invariant.                                                         *)

RelaySignal == [source : {Bridge}, t0 : Nat, dur : Nat \ {0}, kind : {"Frame"}]
Relayed == [copy : Frame \cup {NoFrame}, dur : Nat \ {0}, ingress : Port,
            wire : Nat \ {0}]
Indices == DOMAIN relayed

(* The bridge's variables have their types; every queue holds frames that  *)
(* the bridge has registered.                                              *)
RelayTypeOK ==
  /\ MacOK /\ WorldOK /\ HistoryOK
  /\ relayed \in Seq(Relayed)
  /\ egress \in [Port -> Seq(Indices)]
  /\ busy \in [Port -> BOOLEAN]
  /\ DOMAIN emitting \subseteq RelaySignal
  /\ \A s \in DOMAIN emitting : emitting[s] \in Port
  /\ sent \in [Port -> Seq(Indices)]

---------------------------------------------------------------------------
(* Properties.                                                             *)

QueuedFor(k, p, i) ==
  {e \in queue : e.kind = k /\ e.serializer = SerializerOf(p) /\ e.frame = i}
InEgress(p, i) == {j \in DOMAIN egress[p] : egress[p][j] = i}
Sent(p, i) == {j \in DOMAIN sent[p] : sent[p][j] = i}
Eligible(i) == {e \in queue : e.kind = "FrameEligible" /\ e.frame = i}

(* Flooding loses nothing and repeats nothing: a frame the bridge has      *)
(* taken in is, for every port but the one it came from, in exactly one    *)
(* place - still being decoded, on its way to the queue, in the queue, or  *)
(* sent - and for that port nowhere.                                       *)
ForwardedOnce ==
  \A i \in Indices, p \in Port :
    LET places == Cardinality(QueuedFor("Enqueue", p, i)) + Cardinality(InEgress(p, i))
                    + Cardinality(Sent(p, i))
    IN  IF p = relayed[i].ingress THEN places = 0
        ELSE places + Cardinality(Eligible(i)) = 1

(* Egress queues are FIFO: a port sends frames in the order in which the   *)
(* bridge took them in, although stale and repeated Dequeues are about.    *)
SentInOrder ==
  \A p \in Port : \A j, k \in DOMAIN sent[p] : j < k => sent[p][j] < sent[p][k]

(* Each port is a queue: what a port does to its frames, stale and         *)
(* repeated Dequeues included, is what an unbounded EgressQueue does.      *)
(* (Frames are indices into relayed.)                                      *)
QueueOf(p) == INSTANCE EgressQueue
  WITH Item <- 1 .. MaxRelayed, Unbounded <- "None", Capacity <- "None",
       items <- egress[p], taken <- sent[p], accepted <- sent[p] \o egress[p]

PortsAreQueues ==
  /\ \A p \in Port : QueueOf(p)!Init
  /\ [][\A p \in Port : [QueueOf(p)!Next]_(QueueOf(p)!fifo)]_relayVars

(* No port with a cable is stuck: a busy one will see the end of a         *)
(* transmission that is on record as its own, and one that is idle with    *)
(* frames waiting has a Dequeue queued for the frame in front.             *)
PortsServed ==
  \A p \in {q \in Port : Attached(q)} :
    IF busy[p]
    THEN \E e \in queue : /\ e.kind \in {"TxStart", "TxEnd"} /\ e.node = Bridge
                          /\ Live(e)
                          /\ e.signal \in DOMAIN emitting /\ emitting[e.signal] = p
    ELSE egress[p] # <<>> => QueuedFor("Dequeue", p, Head(egress[p])) # {}

---------------------------------------------------------------------------
(* What comments of the engine say and the runs refute (see README).       *)

(* "Carry the source's full Frame into the relay": the frame relayed is    *)
(* the one whose signal came in (its length tells which one it is).        *)
CopiesWhatItHears == \A i \in Indices : relayed[i].dur = relayed[i].wire

(* "At most one claim is active at any simulation time" (I3, resource.rs): *)
(* a port does not put two signals on its channel at once.                 *)
OneClaimPerPort ==
  \A s, z \in DOMAIN emitting :
    (emitting[s] = emitting[z] /\ s.t0 <= z.t0 /\ z.t0 < s.t0 + s.dur) => s = z
===========================================================================
