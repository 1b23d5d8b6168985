----------------------------- MODULE Relay_proofs -----------------------------
(***************************************************************************)
(* Proofs about Relay: a bridge with any number of ports among any number  *)
(* of stations, for any topology, any frames and any bounds.               *)
(*                                                                         *)
(* The handlers of the stations are those of CsmaCd; CsmaCd_proofs says    *)
(* what they push (HandlersKeep) and CsmaMedium_proofs how they answer     *)
(* collisions.  What is added here is the bridge: its entries, its frames  *)
(* and its queues.                                                         *)
(***************************************************************************)
EXTENDS Switching, CsmaMedium_proofs, SequenceTheorems

RelayKinds == {"FrameEligible", "Enqueue", "Dequeue"}

(* The entries of the network: those of CsmaCd, the signals of the bridge  *)
(* as stations hear them and as it sends them, its own bookkeeping, and    *)
(* the ticks and markers of a switch.                                      *)
RelayEntrySet ==
  EntrySet
  \cup [kind : ArrivalEvents, time : Nat, serial : Nat, node : Station, signal : RelaySignal]
  \cup [kind : {"TxStart", "TxEnd"}, time : Nat, serial : Nat, node : {Bridge},
        signal : RelaySignal]
  \cup [kind : {"FrameEligible"}, time : Nat, serial : Nat, node : Port, frame : Nat]
  \cup [kind : {"Enqueue", "Dequeue"}, time : Nat, serial : Nat, serializer : Nat, frame : Nat]
  \cup [kind : {"AgingTick", "DeviceCommandApplied"}, time : Nat, serial : Nat]

RelayQueueOK ==
  /\ queue \subseteq RelayEntrySet
  /\ serial \in Nat
  /\ last \in Nat \X (0 .. 3) \X Int
  /\ cancelled \subseteq Nat
  /\ running \in BOOLEAN

FramesKnown == \A e \in queue : e.kind \in RelayKinds => e.frame \in Indices

QueueInv == RelayQueueOK /\ SerialsUsed /\ StartsOnTime /\ FramesKnown
RelayInv == QueueInv /\ RelayTypeOK /\ Len(relayed) <= MaxRelayed

---------------------------------------------------------------------------
(* Types.                                                                  *)

LEMMA NetworkFields ==
  ASSUME NEW e \in RelayEntrySet
  PROVE  /\ e.time \in Nat /\ e.serial \in Nat
         /\ e.kind \in NodeEvents => e.node \in Node \cup {Bridge}
         /\ (e.kind \in NodeEvents /\ e.node \in Node) =>
               /\ e.kind \in {"TxStart", "TxEnd"} => e.signal \in SignalSet
               /\ e.kind = "TxAttempt" => e.frame \in Frame
               /\ (e.kind \in ArrivalEvents /\ e.node \in Port) => e.signal \in SignalSet
         /\ (e.kind \in {"TxStart", "TxEnd"} /\ e.node = Bridge) => e.signal \in RelaySignal
         /\ e.kind = "FrameEligible" => e.node \in Port
         /\ e.kind \in {"Enqueue", "Dequeue"} => e.serializer \in Nat
BY RelayAssumption
   DEF RelayEntrySet, EntrySet, NodeEvents, SignalEvents, JamEvents, ArrivalEvents, Station

LEMMA StationEntries == \A e \in EntrySet : e \in RelayEntrySet /\ e.kind \notin RelayKinds
BY DEF RelayEntrySet, EntrySet, RelayKinds, SignalEvents, JamEvents

LEMMA NetworkEntries ==
  ASSUME NEW t \in Nat, NEW s \in Nat
  PROVE  /\ \A k \in ArrivalEvents, m \in Station, sig \in RelaySignal :
               SignalEntry(k, t, s, m, sig) \in RelayEntrySet
         /\ \A k \in {"TxStart", "TxEnd"}, sig \in RelaySignal :
               SignalEntry(k, t, s, Bridge, sig) \in RelayEntrySet
         /\ \A p \in Port, i \in Nat : EligibleEntry(t, s, p, i) \in RelayEntrySet
         /\ \A k \in {"Enqueue", "Dequeue"}, z \in Nat, i \in Nat :
               SerializerEntry(k, t, s, z, i) \in RelayEntrySet
BY DEF RelayEntrySet, SignalEntry, EligibleEntry, SerializerEntry

LEMMA NetworkTyped == RelayInv => Typed
BY DEF RelayInv, QueueInv, RelayQueueOK, RelayTypeOK, Typed, Now

LEMMA NetworkKeyType ==
  ASSUME NEW e \in RelayEntrySet PROVE Sched!Key(e) \in Nat \X (0 .. 3) \X Int
BY NetworkFields, PhaseRange DEF Sched!Key

LEMMA RelayPhases ==
  /\ Sched!PhaseOf("FrameEligible") = 2
  /\ Sched!PhaseOf("Enqueue") = 3 /\ Sched!PhaseOf("Dequeue") = 3
BY DEF Sched!PhaseOf, Sched!Release, Sched!Assertion, Sched!Reaction, Sched!LocalDecision,
       Sched!ReleaseKinds, Sched!AssertionKinds, Sched!ReactionKinds

LEMMA SeqGrows ==
  ASSUME NEW S, NEW T, S \subseteq T, NEW s \in Seq(S) PROVE s \in Seq(T)
OBVIOUS

LEMMA SerializerType == ASSUME NEW p \in Port PROVE SerializerOf(p) \in Nat
<1>1. IsFiniteSet(FdSegment \cap up)
  BY RelayAssumption, FS_Intersection
<1>2. Cardinality(FdSegment \cap up) \in Nat /\ PortNo[p] \in Nat
  BY <1>1, FS_CardinalityType, RelayAssumption
<1>. QED
  BY <1>2 DEF SerializerOf

LEMMA PortFacts ==
  /\ IsFiniteSet(Port) /\ Cardinality(Port) \in Nat
  /\ \A p \in Port : PortNo[p] \in 0 .. (Cardinality(Port) - 1)
<1>1. IsFiniteSet(Port)
  BY RelayAssumption, CsmaAssumption, FS_Subset
<1>. QED
  BY <1>1, FS_CardinalityType, RelayAssumption

---------------------------------------------------------------------------
(* What a handler of the network leaves behind.                            *)

NetPushes(e) ==
  \E new, k :
    /\ FreshIn(RelayEntrySet, e, new, k) /\ Emits(e, new, k)
    /\ \A f \in new : f.kind \in RelayKinds => f.frame \in Indices'

NetKeeps(e) ==
  NetPushes(e) /\ Indices \subseteq Indices' /\ RelayTypeOK' /\ Len(relayed)' <= MaxRelayed

LEMMA NetSteps ==
  ASSUME RelayInv, NEW kind, NEW e \in queue, Pops(e, kind), NetKeeps(e)
  PROVE  RelayInv' /\ Sched!Dispatch(e)
<1>1. PICK new, k : /\ FreshIn(RelayEntrySet, e, new, k) /\ Emits(e, new, k)
                    /\ \A f \in new : f.kind \in RelayKinds => f.frame \in Indices'
  BY DEF NetKeeps, NetPushes
<1>2. /\ queue' = (queue \ {e}) \cup new /\ serial' = serial + k
      /\ last' = Sched!Key(e) /\ cancelled' = cancelled /\ running' = running
  BY <1>1 DEF Emits
<1>3. /\ serial \in Nat /\ k \in Nat /\ queue \subseteq RelayEntrySet
      /\ new \subseteq RelayEntrySet
      /\ \A f \in queue : f.serial \in Nat /\ f.serial < serial
      /\ \A f \in new : f.serial \in serial .. (serial + k - 1)
      /\ \A f \in new : f.kind = "TxStart" => f.signal.t0 = f.time
  BY <1>1, NetworkFields DEF RelayInv, QueueInv, RelayQueueOK, SerialsUsed, FreshIn
<1>4. RelayQueueOK'
  BY <1>2, <1>3, NetworkKeyType DEF RelayInv, QueueInv, RelayQueueOK
<1>5. SerialsUsed'
  BY <1>2, <1>3 DEF SerialsUsed
<1>6. StartsOnTime'
  BY <1>2, <1>3 DEF RelayInv, QueueInv, StartsOnTime
<1>7. FramesKnown'
  BY <1>1, <1>2 DEF RelayInv, QueueInv, FramesKnown, NetKeeps
<1>8. Sched!Dispatch(e)
  <2>1. e.time \in Nat /\ e.serial \in Nat /\ \A f \in RelayEntrySet : f.time \in Nat
    BY <1>3, NetworkFields
  <2>. QED
    BY <1>1, <1>3, <2>1, BatchDispatches
<1>. QED
  BY <1>4, <1>5, <1>6, <1>7, <1>8 DEF NetKeeps, RelayInv, QueueInv

LEMMA FewerAreFresh ==
  ASSUME NEW S, NEW e, NEW new, NEW k, FreshIn(S, e, new, k), NEW some \in SUBSET new
  PROVE  FreshIn(S, e, some, k)
BY DEF FreshIn

---------------------------------------------------------------------------
(* The stations.                                                           *)

LEMMA RelayUnchanged ==
  ASSUME RelayTypeOK, UNCHANGED relay, MacOK', WorldOK', HistoryOK'
  PROVE  RelayTypeOK' /\ Indices' = Indices /\ relayed' = relayed
BY DEF RelayTypeOK, relay, Indices

LEMMA StationReady ==
  ASSUME RelayInv, NEW e \in queue, StationHandle(e), ~DropCancelled(e)
  PROVE  Ready(e)
<1>1. e.serial \notin cancelled
  BY HandlersPop DEF StationHandle, Pops
<1>2. e.kind \in NodeEvents => e.node \in Node
  BY <1>1 DEF StationHandle, Station
<1>3. e \in RelayEntrySet /\ (e.kind = "TxStart" => e.signal.t0 = e.time)
  BY DEF RelayInv, QueueInv, RelayQueueOK, StartsOnTime
<1>. QED
  BY <1>2, <1>3, NetworkFields, NetworkTyped DEF Ready, NodeEvents, SignalEvents

LEMMA StationKeeps ==
  ASSUME RelayInv, NEW e \in queue, StationHandle(e), UNCHANGED relay, ~DropCancelled(e)
  PROVE  NetKeeps(e) /\ \E kind : Pops(e, kind)
<1>1. Handle(e)
  BY DEF StationHandle
<1>2. Keeps(e)
  BY <1>1, StationReady, HandlersKeep
<1>3. PICK new, k : Fresh(e, new, k) /\ Emits(e, new, k)
  BY <1>2 DEF Keeps, PushesFresh
<1>4. FreshIn(RelayEntrySet, e, new, k) /\ \A f \in new : f.kind \notin RelayKinds
  BY <1>3, StationEntries DEF Fresh, FreshIn
<1>5. WorldOK'
  BY <1>3 DEF Emits, world, settings, RelayInv, RelayTypeOK, WorldOK
<1>6. RelayTypeOK' /\ Indices' = Indices /\ relayed' = relayed
  BY <1>2, <1>5, RelayUnchanged DEF Keeps, RelayInv
<1>7. NetPushes(e)
  BY <1>3, <1>4 DEF NetPushes
<1>. QED
  BY <1>1, <1>6, <1>7, HandlersPop DEF NetKeeps, RelayInv

LEMMA DropKeeps ==
  ASSUME RelayInv, NEW e \in queue, DropCancelled(e), UNCHANGED relay
  PROVE  RelayInv' /\ Sched!Skip(e)
<1>1. /\ queue' = queue \ {e} /\ cancelled' = cancelled \ {e.serial}
      /\ last' = Sched!Key(e) /\ serial' = serial /\ running' = running
      /\ UNCHANGED <<mac, world, history>> /\ Sched!Skip(e)
  BY DEF DropCancelled, Sched!Skip
<1>2. MacOK' /\ WorldOK' /\ HistoryOK'
  BY <1>1 DEF RelayInv, RelayTypeOK, MacOK, WorldOK, HistoryOK, mac, world, settings, history
<1>3. RelayTypeOK' /\ Indices' = Indices /\ relayed' = relayed
  BY <1>2, RelayUnchanged DEF RelayInv
<1>4. QueueInv'
  BY <1>1, <1>3, NetworkKeyType
     DEF RelayInv, QueueInv, RelayQueueOK, SerialsUsed, StartsOnTime, FramesKnown
<1>. QED
  BY <1>1, <1>3, <1>4 DEF RelayInv

---------------------------------------------------------------------------
(* The bridge.                                                             *)

(* What a handler of the bridge finds.                                     *)
LEMMA PoppedByBridge ==
  ASSUME RelayInv, NEW e \in queue, NEW kind, Pops(e, kind)
  PROVE  /\ e \in RelayEntrySet /\ e.kind = kind /\ e.time \in Nat /\ serial \in Nat
         /\ kind \in RelayKinds => e.frame \in Indices
         /\ relayed \in Seq(Relayed)
BY NetworkFields
   DEF RelayInv, QueueInv, RelayQueueOK, FramesKnown, RelayTypeOK, Pops

LEMMA SettingsStay ==
  ASSUME RelayTypeOK, UNCHANGED world PROVE WorldOK'
BY DEF RelayTypeOK, WorldOK, world, settings

LEMMA IndicesGrow ==
  ASSUME NEW x, relayed \in Seq(Relayed), x \in Relayed, relayed' = Append(relayed, x)
  PROVE  /\ relayed' \in Seq(Relayed) /\ Len(relayed)' = Len(relayed) + 1
         /\ Indices' = Indices \cup {Len(relayed) + 1}
         /\ Len(relayed) \in Nat /\ Indices = 1 .. Len(relayed)
         /\ \A i \in Indices : relayed'[i] = relayed[i]
         /\ relayed'[Len(relayed) + 1] = x
<1>1. /\ relayed' \in Seq(Relayed) /\ Len(relayed') = Len(relayed) + 1
      /\ \A i \in 1 .. Len(relayed) : relayed'[i] = relayed[i]
      /\ relayed'[Len(relayed) + 1] = x
  BY AppendProperties
<1>2. Len(relayed) \in Nat /\ Indices = 1 .. Len(relayed) /\ Indices' = 1 .. Len(relayed')
  BY <1>1, LenProperties DEF Indices
<1>. QED
  BY <1>1, <1>2

LEMMA RelayFrontKeeps ==
  ASSUME RelayInv, NEW e \in queue, RelayFrontArrive(e)
  PROVE  NetKeeps(e)
<1>. DEFINE n == e.node
            i == Len(relayed) + 1
            x == [copy |-> Copy(e.signal), dur |-> CopyLength(e.signal),
                  ingress |-> n, wire |-> e.signal.dur]
            f == EligibleEntry(e.time + DecodeTime, serial, n, i)
<1>1. /\ Pops(e, "FrontArrive") /\ e.kind = "FrontArrive" /\ n \in Port
      /\ e.time \in Nat /\ serial \in Nat /\ e \in RelayEntrySet
      /\ relayed \in Seq(Relayed) /\ Len(relayed) < MaxRelayed
      /\ relayed' = Append(relayed, x) /\ Emits(e, {f}, 1)
      /\ UNCHANGED <<mac, history, egress, busy, emitting, sent>>
  BY PoppedByBridge DEF RelayFrontArrive, RegisterFrame
<1>2. e.signal \in SignalSet
  BY <1>1, NetworkFields, RelayAssumption DEF NodeEvents, SignalEvents, ArrivalEvents
<1>3. x \in Relayed
  <2>1. e.signal.source \in Node /\ e.signal.dur \in Nat \ {0}
    BY <1>2 DEF SignalSet
  <2>2. Copy(e.signal) \in Frame \cup {NoFrame}
    BY <2>1 DEF Copy, RelayInv, RelayTypeOK, MacOK
  <2>3. CopyLength(e.signal) \in Nat \ {0}
    BY <2>1, <2>2, CsmaAssumption DEF CopyLength
  <2>. QED
    BY <1>1, <2>1, <2>2, <2>3 DEF Relayed
<1>. HIDE DEF x
<1>4. /\ relayed' \in Seq(Relayed) /\ Len(relayed)' = i
      /\ Indices' = Indices \cup {i} /\ Len(relayed) \in Nat
  BY <1>1, <1>3, IndicesGrow
<1>5. FreshIn(RelayEntrySet, e, {f}, 1)
  <2>1. DecodeTime \in Nat /\ e.time + DecodeTime \in Nat
    BY <1>1, RelayAssumption
  <2>2. /\ f \in RelayEntrySet /\ f.serial = serial /\ f.kind = "FrameEligible"
        /\ f.time = e.time + DecodeTime
    BY <1>1, <1>4, <2>1, NetworkEntries DEF EligibleEntry
  <2>. HIDE DEF f
  <2>3. Sched!PhaseOf(e.kind) = 1 /\ Sched!PhaseOf(f.kind) = 2
    BY <1>1, <2>2, PhaseValues, RelayPhases
  <2>4. \/ f.time > e.time
        \/ f.time = e.time /\ Sched!PhaseOf(e.kind) <= Sched!PhaseOf(f.kind)
    BY <1>1, <2>1, <2>2, <2>3
  <2>. QED
    BY <1>1, <2>2, <2>4, OneIsFreshIn
<1>6. NetPushes(e)
  <2>1. f.frame = i
    BY DEF EligibleEntry
  <2>2. \A g \in {f} : g.kind \in RelayKinds => g.frame \in Indices'
    BY <1>4, <2>1
  <2>. QED
    BY <1>1, <1>5, <2>2 DEF NetPushes
<1>7. RelayTypeOK'
  <2>1. WorldOK'
    BY <1>1, SettingsStay DEF Emits, RelayInv
  <2>2. \A p \in Port : egress[p] \in Seq(Indices') /\ sent[p] \in Seq(Indices')
    BY <1>4, SeqGrows DEF RelayInv, RelayTypeOK
  <2>3. egress' \in [Port -> Seq(Indices')] /\ sent' \in [Port -> Seq(Indices')]
    BY <1>1, <2>2 DEF RelayInv, RelayTypeOK
  <2>4. MacOK' /\ HistoryOK'
    BY <1>1 DEF RelayInv, RelayTypeOK, MacOK, HistoryOK, mac, history
  <2>. QED
    BY <1>1, <1>4, <2>1, <2>3, <2>4 DEF RelayInv, RelayTypeOK
<1>. QED
  BY <1>1, <1>4, <1>6, <1>7, RelayAssumption DEF NetKeeps

LEMMA RelayBackKeeps ==
  ASSUME RelayInv, NEW e \in queue, RelayBackArrive(e)
  PROVE  NetKeeps(e)
<1>1. Emits(e, {}, 0) /\ UNCHANGED <<mac, history, relay>>
  BY DEF RelayBackArrive
<1>2. WorldOK'
  BY <1>1, SettingsStay DEF Emits, RelayInv
<1>3. MacOK' /\ HistoryOK'
  BY <1>1 DEF RelayInv, RelayTypeOK, MacOK, HistoryOK, mac, history
<1>4. RelayTypeOK' /\ Indices' = Indices /\ relayed' = relayed
  BY <1>1, <1>2, <1>3, RelayUnchanged DEF RelayInv
<1>5. FreshIn(RelayEntrySet, e, {}, 0)
  BY DEF FreshIn
<1>. QED
  BY <1>1, <1>4, <1>5 DEF NetKeeps, NetPushes, RelayInv

LEMMA EligibleKeeps ==
  ASSUME RelayInv, NEW e \in queue, HandleFrameEligible(e)
  PROVE  NetKeeps(e)
<1>. DEFINE f(p) == SerializerEntry("Enqueue", e.time, serial + PortNo[p], SerializerOf(p),
                                    e.frame)
            ports == EgressPorts(e.node)
            new == {f(p) : p \in ports}
            k == Cardinality(Port)
<1>1. /\ e.kind = "FrameEligible" /\ e.time \in Nat /\ serial \in Nat /\ e.frame \in Indices
      /\ relayed \in Seq(Relayed) /\ Emits(e, new, k) /\ UNCHANGED <<mac, history, relay>>
  BY PoppedByBridge DEF HandleFrameEligible, RelayKinds
<1>2. ports \subseteq Port
  BY DEF EgressPorts
<1>3. k \in Nat /\ \A p \in Port : PortNo[p] \in 0 .. (k - 1)
  BY PortFacts
<1>4. e.frame \in Nat
  BY <1>1, LenProperties DEF Indices
<1>. HIDE DEF ports, k
<1>5. ASSUME NEW p \in ports
      PROVE  /\ f(p) \in RelayEntrySet /\ f(p).serial = serial + PortNo[p]
             /\ f(p).kind = "Enqueue" /\ f(p).time = e.time /\ f(p).frame = e.frame
  <2>1. serial + PortNo[p] \in Nat /\ SerializerOf(p) \in Nat
    BY <1>1, <1>2, <1>3, SerializerType
  <2>. QED
    BY <1>1, <1>4, <2>1, NetworkEntries DEF SerializerEntry
<1>. HIDE DEF f
<1>6. FreshIn(RelayEntrySet, e, new, k)
  <2>1. Sched!PhaseOf(e.kind) = 2 /\ Sched!PhaseOf("Enqueue") = 3
    BY <1>1, RelayPhases
  <2>2. \A g \in new : /\ g \in RelayEntrySet /\ g.serial \in serial .. (serial + k - 1)
                       /\ g.kind = "Enqueue" /\ g.time = e.time
    BY <1>1, <1>2, <1>3, <1>5
  <2>3. ASSUME NEW p \in ports, NEW q \in ports, f(p).serial = f(q).serial PROVE f(p) = f(q)
    <3>1. PortNo[p] = PortNo[q]
      BY <1>1, <1>2, <1>3, <1>5, <2>3
    <3>2. p = q
      BY <1>2, <3>1, RelayAssumption
    <3>. QED
      BY <3>2
  <2>. QED
    BY <1>3, <2>1, <2>2, <2>3 DEF FreshIn
<1>7. WorldOK'
  BY <1>1, SettingsStay DEF Emits, RelayInv
<1>8. MacOK' /\ HistoryOK'
  BY <1>1 DEF RelayInv, RelayTypeOK, MacOK, HistoryOK, mac, history
<1>9. RelayTypeOK' /\ Indices' = Indices /\ relayed' = relayed
  BY <1>1, <1>7, <1>8, RelayUnchanged DEF RelayInv
<1>10. NetPushes(e)
  BY <1>1, <1>5, <1>6, <1>9 DEF NetPushes
<1>. QED
  BY <1>9, <1>10 DEF NetKeeps, RelayInv

LEMMA EnqueueKeeps ==
  ASSUME RelayInv, NEW e \in queue, HandleEnqueue(e)
  PROVE  NetKeeps(e)
<1>. DEFINE f == SerializerEntry("Dequeue", e.time, serial, e.serializer, e.frame)
            new == {SerializerEntry("Dequeue", e.time, serial, e.serializer, e.frame) :
                      p \in {q \in PortsOf(e.serializer) : ~busy[q]}}
<1>1. /\ e.kind = "Enqueue" /\ e.time \in Nat /\ serial \in Nat /\ e.frame \in Indices
      /\ e \in RelayEntrySet /\ relayed \in Seq(Relayed)
      /\ Emits(e, new, 1) /\ UNCHANGED <<mac, history, relayed, busy, emitting, sent>>
      /\ egress' = [p \in Port |-> IF p \in PortsOf(e.serializer)
                                   THEN PushedBack(egress[p], e.frame) ELSE egress[p]]
  BY PoppedByBridge DEF HandleEnqueue, RelayKinds
<1>2. e.frame \in Nat /\ e.serializer \in Nat
  BY <1>1, LenProperties, NetworkFields DEF Indices
<1>3. /\ f \in RelayEntrySet /\ f.serial = serial /\ f.kind = "Dequeue"
      /\ f.time = e.time /\ f.frame = e.frame
  BY <1>1, <1>2, NetworkEntries DEF SerializerEntry
<1>4. FreshIn(RelayEntrySet, e, {f}, 1)
  <2>1. Sched!PhaseOf(e.kind) = 3 /\ Sched!PhaseOf(f.kind) = 3
    BY <1>1, <1>3, RelayPhases
  <2>. QED
    BY <1>1, <1>3, <2>1, OneIsFreshIn
<1>5. FreshIn(RelayEntrySet, e, new, 1)
  <2>1. new \in SUBSET {f}
    OBVIOUS
  <2>. QED
    BY <1>4, <2>1, FewerAreFresh
<1>6. Indices' = Indices
  BY <1>1 DEF Indices
<1>7. NetPushes(e)
  BY <1>1, <1>3, <1>5, <1>6 DEF NetPushes
<1>8. egress' \in [Port -> Seq(Indices)]
  BY <1>1, AppendProperties DEF PushedBack, RelayInv, RelayTypeOK
<1>9. WorldOK' /\ MacOK' /\ HistoryOK'
  BY <1>1, SettingsStay
     DEF Emits, RelayInv, RelayTypeOK, MacOK, HistoryOK, mac, history
<1>10. RelayTypeOK'
  BY <1>1, <1>6, <1>8, <1>9 DEF RelayInv, RelayTypeOK
<1>. QED
  BY <1>1, <1>6, <1>7, <1>10 DEF NetKeeps, RelayInv

LEMMA DequeueKeeps ==
  ASSUME RelayInv, NEW e \in queue, HandleDequeue(e)
  PROVE  NetKeeps(e)
<1>. DEFINE sig == Signal(Bridge, e.time, relayed[e.frame].dur, "Frame")
            f == SignalEntry("TxStart", e.time, serial, Bridge, sig)
<1>1. /\ e.kind = "Dequeue" /\ e.time \in Nat /\ serial \in Nat /\ e.frame \in Indices
      /\ relayed \in Seq(Relayed) /\ UNCHANGED <<mac, history, relayed>>
  BY PoppedByBridge DEF HandleDequeue, RelayKinds
<1>2. sig \in RelaySignal /\ sig.t0 = e.time
  <2>0. relayed[e.frame] \in Relayed
    BY <1>1, LenProperties DEF Indices
  <2>1. relayed[e.frame].dur \in Nat \ {0}
    BY <2>0 DEF Relayed
  <2>. QED
    BY <1>1, <2>1 DEF Signal, RelaySignal
<1>3. Indices' = Indices
  BY <1>1 DEF Indices
<1>4. CASE Emits(e, {}, 0) /\ UNCHANGED <<egress, busy, emitting, sent>>
  <2>1. WorldOK' /\ MacOK' /\ HistoryOK'
    BY <1>1, <1>4, SettingsStay
       DEF Emits, RelayInv, RelayTypeOK, MacOK, HistoryOK, mac, history
  <2>2. RelayTypeOK'
    BY <1>1, <1>3, <1>4, <2>1 DEF RelayInv, RelayTypeOK
  <2>3. FreshIn(RelayEntrySet, e, {}, 0)
    BY DEF FreshIn
  <2>. QED
    BY <1>1, <1>3, <1>4, <2>2, <2>3 DEF NetKeeps, NetPushes, RelayInv
<1>5. ASSUME NEW p \in Port, IsFront(p, e.frame),
             egress' = [egress EXCEPT ![p] = Tail(@)],
             busy' = [busy EXCEPT ![p] = TRUE],
             emitting' = [s \in {sig} \cup DOMAIN emitting |->
                            IF s = sig THEN p ELSE emitting[s]],
             sent' = [sent EXCEPT ![p] = Append(@, e.frame)],
             Emits(e, {f}, 1)
      PROVE  NetKeeps(e)
  <2>1. /\ f \in RelayEntrySet /\ f.serial = serial /\ f.kind = "TxStart"
        /\ f.time = e.time /\ f.signal.t0 = f.time
    BY <1>1, <1>2, NetworkEntries DEF SignalEntry
  <2>. HIDE DEF f
  <2>2. FreshIn(RelayEntrySet, e, {f}, 1)
    <3>1. Sched!PhaseOf(e.kind) = 3 /\ Sched!PhaseOf(f.kind) = 3
      BY <1>1, <2>1, RelayPhases, PhaseValues
    <3>. QED
      BY <1>1, <2>1, <3>1, OneIsFreshIn
  <2>3. NetPushes(e)
    BY <1>5, <2>1, <2>2 DEF NetPushes, RelayKinds
  <2>4. egress' \in [Port -> Seq(Indices)] /\ sent' \in [Port -> Seq(Indices)]
    <3>1. egress[p] \in Seq(Indices) /\ egress[p] # <<>> /\ sent[p] \in Seq(Indices)
      BY <1>5 DEF IsFront, RelayInv, RelayTypeOK
    <3>2. Tail(egress[p]) \in Seq(Indices) /\ Append(sent[p], e.frame) \in Seq(Indices)
      BY <1>1, <3>1, HeadTailProperties, AppendProperties
    <3>. QED
      BY <1>5, <3>2 DEF RelayInv, RelayTypeOK
  <2>. HIDE DEF sig
  <2>5. DOMAIN emitting' \subseteq RelaySignal /\ \A s \in DOMAIN emitting' : emitting'[s] \in Port
    BY <1>2, <1>5 DEF RelayInv, RelayTypeOK
  <2>6. busy' \in [Port -> BOOLEAN]
    BY <1>5 DEF RelayInv, RelayTypeOK
  <2>7. WorldOK' /\ MacOK' /\ HistoryOK'
    BY <1>1, <1>5, SettingsStay
       DEF Emits, RelayInv, RelayTypeOK, MacOK, HistoryOK, mac, history
  <2>8. RelayTypeOK'
    BY <1>1, <1>3, <2>4, <2>5, <2>6, <2>7 DEF RelayInv, RelayTypeOK
  <2>. QED
    BY <1>1, <1>3, <2>3, <2>8 DEF NetKeeps, RelayInv
<1>. QED
  BY <1>4, <1>5 DEF HandleDequeue, PortsOf

(* What the bridge sends out of port p.  All arrivals are in the future,   *)
(* and no two have one serial.                                             *)
LEMMA RelayArrivalsFresh ==
  ASSUME RelayInv, NEW e \in queue, e.kind = "TxStart", NEW sig \in RelaySignal,
         e.signal = sig, sig.t0 = e.time, NEW p \in Port
  PROVE  FreshIn(RelayEntrySet, e,
                 RelayArrivals(sig, p)
                 \cup {SignalEntry("TxEnd", sig.t0 + sig.dur, serial + 2 * NumNodes, Bridge, sig)},
                 2 * NumNodes + 1)
<1>. DEFINE order == hashOrder[p]
            peers == Hears(p) \ Port
            at(m) == sig.t0 + delay[<<p, m>>]
            end == SignalEntry("TxEnd", sig.t0 + sig.dur, serial + 2 * NumNodes, Bridge, sig)
            front(m) == SignalEntry("FrontArrive", at(m), serial + 2 * order[m], m, sig)
            back(m) == SignalEntry("BackArrive", at(m) + sig.dur, serial + 2 * order[m] + 1,
                                   m, sig)
            new == RelayArrivals(sig, p) \cup {end}
<1>1. /\ e.time \in Nat /\ serial \in Nat /\ NumNodes \in Nat /\ p \in Node
      /\ sig.t0 \in Nat /\ sig.dur \in Nat /\ sig.dur > 0
  BY NetworkFields, NumNodesType, RelayAssumption
     DEF RelayInv, QueueInv, RelayQueueOK, RelaySignal
<1>2. /\ order \in HashOrders
      /\ \A m \in Node : order[m] \in 0 .. (NumNodes - 1)
      /\ \A m, n \in Node : order[m] = order[n] => m = n
  BY <1>1, CsmaAssumption DEF RelayInv, RelayTypeOK, WorldOK
<1>3. \A m \in peers : m \in Station /\ m \in Node /\ at(m) \in Nat /\ at(m) > e.time
  BY <1>1, CsmaAssumption DEF Hears, Station, RelayInv, RelayTypeOK, WorldOK
<1>4. new = {front(m) : m \in peers} \cup {back(m) : m \in peers} \cup {end}
  BY DEF RelayArrivals
<1>. HIDE DEF order, peers, at, new
<1>5. /\ end \in RelayEntrySet /\ end.serial = serial + 2 * NumNodes
      /\ end.time > e.time /\ end.kind = "TxEnd"
  <2>1. /\ serial + 2 * NumNodes \in Nat /\ sig.t0 + sig.dur \in Nat
        /\ sig.t0 + sig.dur > e.time
    BY <1>1
  <2>. QED
    BY <2>1, NetworkEntries DEF SignalEntry
<1>6. ASSUME NEW m \in peers
      PROVE  /\ front(m) \in RelayEntrySet /\ front(m).serial = serial + 2 * order[m]
             /\ front(m).time > e.time /\ front(m).kind = "FrontArrive"
             /\ back(m) \in RelayEntrySet /\ back(m).serial = serial + 2 * order[m] + 1
             /\ back(m).time > e.time /\ back(m).kind = "BackArrive"
  <2>1. /\ m \in Station /\ serial + 2 * order[m] \in Nat /\ serial + 2 * order[m] + 1 \in Nat
        /\ at(m) \in Nat /\ at(m) + sig.dur \in Nat
        /\ at(m) > e.time /\ at(m) + sig.dur > e.time
    BY <1>1, <1>2, <1>3
  <2>2. /\ front(m).serial = serial + 2 * order[m] /\ front(m).time = at(m)
        /\ back(m).serial = serial + 2 * order[m] + 1 /\ back(m).time = at(m) + sig.dur
        /\ front(m).kind = "FrontArrive" /\ back(m).kind = "BackArrive"
    BY DEF SignalEntry
  <2>3. front(m) \in RelayEntrySet /\ back(m) \in RelayEntrySet
    BY <2>1, NetworkEntries DEF ArrivalEvents
  <2>. QED
    BY <2>1, <2>2, <2>3
<1>. HIDE DEF end, front, back
<1>7. ASSUME NEW f \in new
      PROVE  /\ f \in RelayEntrySet
             /\ f.serial \in serial .. (serial + (2 * NumNodes + 1) - 1)
             /\ f.time > e.time /\ f.kind # "TxStart"
  BY <1>1, <1>2, <1>3, <1>4, <1>5, <1>6
<1>8. ASSUME NEW f \in new, NEW g \in new, f.serial = g.serial PROVE f = g
  <2>1. CASE f = end \/ g = end
    BY <1>1, <1>2, <1>3, <1>4, <1>5, <1>6, <1>8, <2>1
  <2>2. ASSUME NEW m \in peers, NEW n \in peers,
               f \in {front(m), back(m)}, g \in {front(n), back(n)}
        PROVE  f = g
    <3>1. order[m] \in Nat /\ order[n] \in Nat /\ order[m] = order[n]
      BY <1>1, <1>2, <1>3, <1>6, <1>8, <2>2
    <3>2. m = n
      BY <1>2, <1>3, <3>1
    <3>. QED
      BY <1>1, <1>6, <1>8, <2>2, <3>1, <3>2
  <2>. QED
    BY <1>4, <2>1, <2>2
<1>9. 2 * NumNodes + 1 \in Nat
  BY <1>1
<1>10. FreshIn(RelayEntrySet, e, new, 2 * NumNodes + 1)
  BY <1>7, <1>8, <1>9 DEF FreshIn
<1>. QED
  BY <1>10 DEF new, end

(* A signal is on record for one port at most.                             *)
LEMMA RecordedFor ==
  ASSUME RelayTypeOK, NEW sig, PortsFor(sig) # {}
  PROVE  \E p \in Port : PortsFor(sig) = {p}
<1>1. sig \in DOMAIN emitting
  BY DEF PortsFor
<1>2. emitting[sig] \in Port /\ PortsFor(sig) = {emitting[sig]}
  BY <1>1 DEF PortsFor, RelayTypeOK
<1>. QED
  BY <1>2

LEMMA BridgeSignal ==
  ASSUME RelayInv, NEW e \in queue, NEW kind \in {"TxStart", "TxEnd"},
         Pops(e, kind), e.node = Bridge
  PROVE  e.signal \in RelaySignal /\ (kind = "TxStart" => e.signal.t0 = e.time)
BY NetworkFields DEF Pops, RelayInv, QueueInv, RelayQueueOK, StartsOnTime

LEMMA ArrivalKinds ==
  ASSUME NEW sig, NEW p, NEW f \in RelayArrivals(sig, p) PROVE f.kind \in ArrivalEvents
<1>1. \/ \E m \in Hears(p) \ Port : \E t, s : f = SignalEntry("FrontArrive", t, s, m, sig)
      \/ \E m \in Hears(p) \ Port : \E t, s : f = SignalEntry("BackArrive", t, s, m, sig)
  BY DEF RelayArrivals
<1>. QED
  BY <1>1 DEF SignalEntry, ArrivalEvents

LEMMA RelayStartKeeps ==
  ASSUME RelayInv, NEW e \in queue, RelayTxStart(e)
  PROVE  NetKeeps(e)
<1>. DEFINE sig == e.signal
            end == SignalEntry("TxEnd", sig.t0 + sig.dur, serial + 2 * NumNodes, Bridge, sig)
            ends == [p \in PortsFor(sig) |-> end]
            new == UNION {RelayArrivals(sig, p) \cup {ends[p]} : p \in PortsFor(sig)}
            k == 2 * NumNodes + 1
<1>1. /\ e.kind = "TxStart" /\ e.node = Bridge /\ sig \in RelaySignal /\ sig.t0 = e.time
      /\ Emits(e, new, k) /\ UNCHANGED <<mac, history, relay>>
  BY PoppedByBridge, BridgeSignal DEF RelayTxStart
<1>2. FreshIn(RelayEntrySet, e, new, k)
  <2>1. CASE PortsFor(sig) = {}
    <3>1. new = {} /\ k \in Nat
      BY <2>1, NumNodesType
    <3>. QED
      BY <3>1 DEF FreshIn
  <2>2. ASSUME NEW p \in Port, PortsFor(sig) = {p} PROVE FreshIn(RelayEntrySet, e, new, k)
    <3>1. new = RelayArrivals(sig, p) \cup {end}
      BY <2>2
    <3>. QED
      BY <1>1, <3>1, RelayArrivalsFresh
  <2>. QED
    BY <2>1, <2>2, RecordedFor DEF RelayInv
<1>3. \A f \in new : f.kind \notin RelayKinds
  <2>1. end.kind = "TxEnd" /\ \A p \in PortsFor(sig) : ends[p] = end
    BY DEF SignalEntry
  <2>2. \A p \in PortsFor(sig) : \A f \in RelayArrivals(sig, p) : f.kind \in ArrivalEvents
    BY ArrivalKinds
  <2>3. \A f \in new : f.kind \in {"FrontArrive", "BackArrive", "TxEnd"}
    BY <2>1, <2>2 DEF ArrivalEvents
  <2>. QED
    BY <2>3 DEF RelayKinds
<1>4. WorldOK' /\ MacOK' /\ HistoryOK'
  BY <1>1, SettingsStay
     DEF Emits, RelayInv, RelayTypeOK, MacOK, HistoryOK, mac, history
<1>5. RelayTypeOK' /\ Indices' = Indices /\ relayed' = relayed
  BY <1>1, <1>4, RelayUnchanged DEF RelayInv
<1>6. NetPushes(e)
  BY <1>1, <1>2, <1>3 DEF NetPushes
<1>. QED
  BY <1>5, <1>6 DEF NetKeeps, RelayInv

LEMMA RelayEndKeeps ==
  ASSUME RelayInv, NEW e \in queue, RelayTxEnd(e)
  PROVE  NetKeeps(e)
<1>. DEFINE sig == e.signal
            ports == PortsFor(sig)
            new == UNION {NextDequeue(e, p) : p \in ports}
<1>1. /\ e.kind = "TxEnd" /\ e.time \in Nat /\ serial \in Nat
      /\ relayed \in Seq(Relayed)
      /\ Emits(e, new, 1) /\ UNCHANGED <<mac, history, relayed, egress, sent>>
      /\ busy' = [p \in Port |-> busy[p] /\ p \notin ports]
      /\ emitting' = Restrict(emitting, DOMAIN emitting \ {sig})
  BY PoppedByBridge DEF RelayTxEnd
<1>2. Indices' = Indices
  BY <1>1 DEF Indices
<1>3. ASSUME NEW p \in Port, egress[p] # <<>>
      PROVE  LET f == SerializerEntry("Dequeue", e.time + IfgTime(p), serial, SerializerOf(p),
                                      Head(egress[p]))
             IN  FreshIn(RelayEntrySet, e, {f}, 1) /\ f.frame \in Indices
  <2>. DEFINE f == SerializerEntry("Dequeue", e.time + IfgTime(p), serial, SerializerOf(p),
                                   Head(egress[p]))
  <2>1. Head(egress[p]) \in Indices
    BY <1>3, HeadTailProperties DEF RelayInv, RelayTypeOK
  <2>2. Head(egress[p]) \in Nat
    BY <1>1, <2>1, LenProperties DEF Indices
  <2>3. IfgTime(p) \in Nat /\ e.time + IfgTime(p) \in Nat /\ SerializerOf(p) \in Nat
    BY <1>1, RelayAssumption, NetworkTyped, TimesTyped, SerializerType
  <2>4. /\ f \in RelayEntrySet /\ f.serial = serial /\ f.kind = "Dequeue"
        /\ f.time = e.time + IfgTime(p) /\ f.frame = Head(egress[p])
    BY <1>1, <2>2, <2>3, NetworkEntries DEF SerializerEntry
  <2>. HIDE DEF f
  <2>5. \/ f.time > e.time
        \/ f.time = e.time /\ Sched!PhaseOf(e.kind) <= Sched!PhaseOf(f.kind)
    <3>1. Sched!PhaseOf(e.kind) = 0 /\ Sched!PhaseOf(f.kind) = 3
      BY <1>1, <2>4, RelayPhases, PhaseValues
    <3>. QED
      BY <1>1, <2>3, <2>4, <3>1
  <2>6. FreshIn(RelayEntrySet, e, {f}, 1)
    BY <1>1, <2>4, <2>5, OneIsFreshIn
  <2>. QED
    BY <2>1, <2>4, <2>6 DEF f
<1>4. NetPushes(e)
  <2>1. CASE new = {}
    <3>1. FreshIn(RelayEntrySet, e, {}, 1)
      BY DEF FreshIn
    <3>. QED
      BY <1>1, <2>1, <3>1 DEF NetPushes
  <2>2. ASSUME NEW p \in Port, ports = {p}, egress[p] # <<>> PROVE NetPushes(e)
    <3>1. PICK f : f = SerializerEntry("Dequeue", e.time + IfgTime(p), serial, SerializerOf(p),
                                       Head(egress[p]))
      OBVIOUS
    <3>2. new = {f}
      BY <2>2, <3>1 DEF NextDequeue
    <3>3. FreshIn(RelayEntrySet, e, {f}, 1) /\ f.frame \in Indices
      BY <1>3, <2>2, <3>1
    <3>. QED
      BY <1>1, <1>2, <3>2, <3>3 DEF NetPushes
  <2>3. ASSUME new # {} PROVE \E p \in Port : ports = {p} /\ egress[p] # <<>>
    <3>1. ports # {}
      BY <2>3
    <3>2. PICK p \in Port : ports = {p}
      BY <3>1, RecordedFor DEF RelayInv
    <3>3. egress[p] # <<>>
      BY <2>3, <3>2 DEF NextDequeue
    <3>. QED
      BY <3>2, <3>3
  <2>. QED
    BY <2>1, <2>2, <2>3
<1>5. DOMAIN emitting' \subseteq RelaySignal /\ \A s \in DOMAIN emitting' : emitting'[s] \in Port
  <2>1. /\ DOMAIN emitting' \subseteq DOMAIN emitting
        /\ \A s \in DOMAIN emitting' : emitting'[s] = emitting[s]
    BY <1>1 DEF Restrict
  <2>. QED
    BY <2>1 DEF RelayInv, RelayTypeOK
<1>6. busy' \in [Port -> BOOLEAN]
  BY <1>1
<1>7. WorldOK' /\ MacOK' /\ HistoryOK'
  BY <1>1, SettingsStay
     DEF Emits, RelayInv, RelayTypeOK, MacOK, HistoryOK, mac, history
<1>8. RelayTypeOK'
  BY <1>1, <1>2, <1>5, <1>6, <1>7 DEF RelayInv, RelayTypeOK
<1>. QED
  BY <1>1, <1>2, <1>4, <1>8 DEF NetKeeps, RelayInv

LEMMA BridgeKeeps ==
  ASSUME RelayInv, NEW e \in queue, RelayHandle(e)
  PROVE  NetKeeps(e) /\ \E kind : Pops(e, kind)
<1>1. NetKeeps(e)
  BY RelayFrontKeeps, RelayBackKeeps, EligibleKeeps, EnqueueKeeps, DequeueKeeps,
     RelayStartKeeps, RelayEndKeeps DEF RelayHandle, PortHandle
<1>2. \E kind : Pops(e, kind)
  BY DEF RelayHandle, PortHandle, RelayFrontArrive, RelayBackArrive, HandleFrameEligible,
         HandleEnqueue, HandleDequeue, RelayTxStart, RelayTxEnd
<1>. QED
  BY <1>1, <1>2

---------------------------------------------------------------------------
(* The host, and the whole network.                                        *)

LEMMA RelayCallKeeps ==
  ASSUME RelayInv, CallKeeps, UNCHANGED relay
  PROVE  RelayInv' /\ (PastAllowed \/ Sched!HostCall)
<1>1. PICK new, k : HostBatch(new, k) /\ HostPushes(new, k)
  BY DEF CallKeeps
<1>2. /\ queue' = queue \cup new /\ serial' = serial + k
      /\ last' = last /\ running' = running
      /\ cancelled' \ cancelled \subseteq {f.serial : f \in queue}
  BY <1>1 DEF HostPushes, CallKeeps, CancelsQueued
<1>3. /\ serial \in Nat /\ k \in Nat /\ queue \subseteq RelayEntrySet
      /\ new \subseteq RelayEntrySet /\ \A f \in new : f.kind \notin RelayKinds
      /\ \A f \in queue : f.serial \in Nat /\ f.serial < serial
      /\ \A f \in new : f.serial \in serial .. (serial + k - 1)
      /\ \A f \in new : f.kind # "TxStart"
  BY <1>1, NetworkFields, StationEntries
     DEF RelayInv, QueueInv, RelayQueueOK, SerialsUsed, HostBatch
<1>4. RelayTypeOK' /\ Indices' = Indices /\ relayed' = relayed
  BY RelayUnchanged DEF CallKeeps, RelayInv
<1>5. RelayQueueOK'
  <2>1. cancelled' \subseteq Nat
    BY <1>2, <1>3 DEF CallKeeps, CancelsQueued, RelayInv, QueueInv, RelayQueueOK
  <2>2. queue' \subseteq RelayEntrySet /\ serial' \in Nat
    BY <1>2, <1>3
  <2>. QED
    BY <1>2, <2>1, <2>2 DEF RelayInv, QueueInv, RelayQueueOK
<1>6. SerialsUsed'
  BY <1>2, <1>3 DEF SerialsUsed
<1>7. StartsOnTime' /\ FramesKnown'
  BY <1>2, <1>3, <1>4 DEF RelayInv, QueueInv, StartsOnTime, FramesKnown
<1>8. PastAllowed \/ Sched!HostCall
  BY <1>1, <1>3, BatchIsCall DEF CallKeeps
<1>. QED
  BY <1>4, <1>5, <1>6, <1>7, <1>8 DEF RelayInv, QueueInv

LEMMA RelayQuietKeeps ==
  ASSUME RelayInv, \/ (StartRun \/ ReturnFromRun) /\ UNCHANGED relay
                   \/ UNCHANGED relayVars
  PROVE  RelayInv' /\ (Sched!StartRun \/ Sched!ReturnFromRun \/ UNCHANGED Sched!sched)
<1>1. /\ UNCHANGED <<queue, serial, last, cancelled>> /\ running' \in BOOLEAN
      /\ UNCHANGED <<mac, world, history>> /\ UNCHANGED relay
  BY DEF StartRun, ReturnFromRun, Sched!StartRun, Sched!ReturnFromRun, relayVars, vars,
         RelayInv, QueueInv, RelayQueueOK
<1>2. MacOK' /\ WorldOK' /\ HistoryOK'
  BY <1>1 DEF RelayInv, RelayTypeOK, MacOK, WorldOK, HistoryOK, mac, world, settings, history
<1>3. RelayTypeOK' /\ Indices' = Indices /\ relayed' = relayed
  BY <1>1, <1>2, RelayUnchanged DEF RelayInv
<1>4. QueueInv'
  BY <1>1, <1>3 DEF RelayInv, QueueInv, RelayQueueOK, SerialsUsed, StartsOnTime, FramesKnown
<1>. QED
  BY <1>3, <1>4 DEF RelayInv, StartRun, ReturnFromRun, relayVars, vars, Sched!sched

LEMMA RelayHostKeeps ==
  ASSUME RelayInv, RelayHost, UNCHANGED relay
  PROVE  RelayInv' /\ (PastAllowed \/ Sched!HostCall \/ Sched!StartRun \/ Sched!ReturnFromRun
                       \/ UNCHANGED Sched!sched)
<1>1. CASE \E o \in Offers : ScheduleTxAttempt(o[1], o[2], o[3])
  BY <1>1, NetworkTyped, ScheduleKeeps, RelayCallKeeps
<1>2. CASE \E seg \in Pulled : RemoveSegment(seg) \/ AddSegment(seg)
  BY <1>2, RelayAssumption, NetworkTyped, RemoveSegmentKeeps, AddSegmentKeeps, RelayCallKeeps
<1>3. CASE \E n \in Station : RemoveNode(n)
  BY <1>3, NetworkTyped, RemoveNodeKeeps, RelayCallKeeps DEF Station
<1>4. CASE StartRun \/ ReturnFromRun
  BY <1>4, RelayQuietKeeps
<1>. QED
  BY <1>1, <1>2, <1>3, <1>4 DEF RelayHost

LEMMA RelayStep ==
  ASSUME RelayInv, [RelayNext]_relayVars
  PROVE  RelayInv' /\ (PastAllowed \/ [Sched!SchedulerNext]_(Sched!sched))
<1>1. CASE RelayHost /\ UNCHANGED relay
  BY <1>1, RelayHostKeeps DEF Sched!SchedulerNext
<1>2. ASSUME NEW e \in queue, StationHandle(e), UNCHANGED relay
      PROVE  RelayInv' /\ Sched!SchedulerNext
  <2>1. CASE DropCancelled(e)
    BY <1>2, <2>1, DropKeeps DEF Sched!SchedulerNext
  <2>2. CASE ~DropCancelled(e)
    BY <1>2, <2>2, StationKeeps, NetSteps DEF Sched!SchedulerNext
  <2>. QED
    BY <2>1, <2>2
<1>3. ASSUME NEW e \in queue, RelayHandle(e) PROVE RelayInv' /\ Sched!SchedulerNext
  BY <1>3, BridgeKeeps, NetSteps DEF Sched!SchedulerNext
<1>4. CASE UNCHANGED relayVars
  BY <1>4, RelayQuietKeeps DEF Sched!SchedulerNext
<1>. QED
  BY <1>1, <1>2, <1>3, <1>4 DEF RelayNext

LEMMA RelayStarts == RelayInit => RelayInv /\ Sched!SchedulerInit
<1> SUFFICES ASSUME RelayInit PROVE RelayInv /\ Sched!SchedulerInit
  OBVIOUS
<1>1. CsmaInv /\ Sched!SchedulerInit /\ queue = {}
  BY CsmaInit DEF RelayInit, Init, Sched!SchedulerInit
<1>2. QueueInv
  BY <1>1 DEF CsmaInv, TypeOK, QueueOK, QueueInv, RelayQueueOK, FramesKnown
<1>3. relayed = <<>> /\ Indices = {} /\ Len(relayed) = 0
  BY DEF RelayInit, Indices
<1>4. RelayTypeOK
  <2>1. <<>> \in Seq(Relayed) /\ <<>> \in Seq(Indices) /\ DOMAIN emitting = {}
    BY DEF RelayInit
  <2>. QED
    BY <1>1, <1>3, <2>1 DEF RelayInit, CsmaInv, TypeOK, RelayTypeOK
<1>. QED
  BY <1>1, <1>2, <1>3, <1>4, RelayAssumption DEF RelayInv

(* The bridge keeps its types: in particular its egress queues, whatever   *)
(* Dequeues are stale or repeated, only ever hold frames that it has       *)
(* registered, and none of its signals is of zero duration (I5).           *)
THEOREM RelayTypesCorrect == RelaySpec => []RelayTypeOK
<1>1. RelaySpec => []RelayInv
  BY RelayStarts, RelayStep, PTL DEF RelaySpec
<1>2. RelayInv => RelayTypeOK
  BY DEF RelayInv
<1>. QED
  BY <1>1, <1>2, PTL

(* A network with a bridge is still the event loop of engine.rs: every     *)
(* handler of a station or of the bridge is a step of the abstract         *)
(* scheduler, provided the host does not schedule in the past.             *)
THEOREM RelayIsAScheduler ==
  ASSUME ~PastAllowed PROVE RelaySpec => ImplementsScheduler
<1>1. RelayInv /\ [RelayNext]_relayVars => RelayInv' /\ [Sched!SchedulerNext]_(Sched!sched)
  BY RelayStep
<1>. QED
  BY <1>1, RelayStarts, PTL DEF RelaySpec, ImplementsScheduler, Sched!SchedulerSpec

---------------------------------------------------------------------------
(* Each port is a queue.                                                   *)

LEMMA ConcatAppend ==
  ASSUME NEW S, NEW s \in Seq(S), NEW t \in Seq(S), NEW x \in S
  PROVE  s \o Append(t, x) = Append(s \o t, x)
OBVIOUS

LEMMA HeadMoves ==
  ASSUME NEW S, NEW s \in Seq(S), NEW t \in Seq(S), t # <<>>
  PROVE  Append(s, Head(t)) \o Tail(t) = s \o t
OBVIOUS

LEMMA EnqueueIsEnqueue ==
  ASSUME RelayInv, NEW e \in queue, HandleEnqueue(e), NEW p \in Port
  PROVE  [QueueOf(p)!Next]_(QueueOf(p)!fifo)
<1>1. /\ egress \in [Port -> Seq(Indices)] /\ sent \in [Port -> Seq(Indices)]
      /\ sent' = sent
  BY DEF RelayInv, RelayTypeOK, HandleEnqueue
<1>2. CASE p \in PortsOf(e.serializer)
  <2>1. egress'[p] = Append(egress[p], e.frame)
    BY <1>1, <1>2 DEF HandleEnqueue, PushedBack
  <2>2. e.frame \in Indices /\ e.frame \in 1 .. MaxRelayed
    <3>1. e.kind = "Enqueue"
      BY DEF HandleEnqueue, Pops
    <3>2. e.frame \in Indices
      BY <3>1 DEF RelayInv, QueueInv, FramesKnown, RelayKinds
    <3>. QED
      BY <3>2, RelayAssumption DEF RelayInv, RelayTypeOK, Indices
  <2>3. sent[p] \o Append(egress[p], e.frame) = Append(sent[p] \o egress[p], e.frame)
    BY <1>1, <2>2, ConcatAppend
  <2>4. QueueOf(p)!Enqueue(e.frame)
    BY <1>1, <2>1, <2>3 DEF QueueOf!Enqueue, QueueOf!AtCapacity
  <2>. QED
    BY <2>2, <2>4 DEF QueueOf!Next
<1>3. CASE p \notin PortsOf(e.serializer)
  BY <1>1, <1>3 DEF HandleEnqueue, QueueOf!fifo
<1>. QED
  BY <1>2, <1>3

LEMMA DequeueIsDequeue ==
  ASSUME RelayInv, NEW e \in queue, HandleDequeue(e), NEW p \in Port
  PROVE  [QueueOf(p)!Next]_(QueueOf(p)!fifo)
<1>1. egress \in [Port -> Seq(Indices)] /\ sent \in [Port -> Seq(Indices)]
  BY DEF RelayInv, RelayTypeOK
<1>2. CASE UNCHANGED <<egress, sent>>
  BY <1>2 DEF QueueOf!fifo
<1>3. ASSUME NEW q \in Port, IsFront(q, e.frame),
             egress' = [egress EXCEPT ![q] = Tail(@)],
             sent' = [sent EXCEPT ![q] = Append(@, e.frame)]
      PROVE  [QueueOf(p)!Next]_(QueueOf(p)!fifo)
  <2>1. CASE p = q
    <3>1. /\ egress[p] # <<>> /\ e.frame = Head(egress[p])
          /\ egress'[p] = Tail(egress[p])
          /\ sent'[p] = Append(sent[p], Head(egress[p]))
      BY <1>1, <1>3, <2>1 DEF IsFront
    <3>2. sent'[p] \o egress'[p] = sent[p] \o egress[p]
      BY <1>1, <3>1, HeadMoves
    <3>3. QueueOf(p)!Dequeue
      BY <3>1, <3>2 DEF QueueOf!Dequeue
    <3>. QED
      BY <3>3 DEF QueueOf!Next
  <2>2. CASE p # q
    <3>1. egress'[p] = egress[p] /\ sent'[p] = sent[p]
      BY <1>1, <1>3, <2>2
    <3>. QED
      BY <3>1 DEF QueueOf!fifo
  <2>. QED
    BY <2>1, <2>2
<1>. QED
  BY <1>2, <1>3 DEF HandleDequeue, PortsOf

LEMMA QueuesElsewhere ==
  ASSUME [RelayNext]_relayVars,
         \A e \in queue : ~HandleEnqueue(e) /\ ~HandleDequeue(e)
  PROVE  UNCHANGED <<egress, sent>>
BY DEF RelayNext, RelayHandle, PortHandle, RelayFrontArrive, RelayBackArrive,
       HandleFrameEligible, RelayTxStart, RelayTxEnd, relay, relayVars

LEMMA QueueStep ==
  ASSUME RelayInv, [RelayNext]_relayVars
  PROVE  \A p \in Port : [QueueOf(p)!Next]_(QueueOf(p)!fifo)
<1>. SUFFICES ASSUME NEW p \in Port PROVE [QueueOf(p)!Next]_(QueueOf(p)!fifo)
  OBVIOUS
<1>1. CASE \E e \in queue : HandleEnqueue(e)
  BY <1>1, EnqueueIsEnqueue
<1>2. CASE \E e \in queue : HandleDequeue(e)
  BY <1>2, DequeueIsDequeue
<1>3. CASE \A e \in queue : ~HandleEnqueue(e) /\ ~HandleDequeue(e)
  BY <1>3, QueuesElsewhere DEF QueueOf!fifo
<1>. QED
  BY <1>1, <1>2, <1>3

(* Each port of the bridge implements the FIFO queue of EgressQueue: the   *)
(* handlers add frames at its back and take them from its front, whatever  *)
(* stale or repeated Dequeues arrive and whatever the host does, calls     *)
(* that schedule in the past included.                                     *)
THEOREM PortsImplementQueues == RelaySpec => PortsAreQueues
<1>1. RelayInit => \A p \in Port : QueueOf(p)!Init
  BY DEF RelayInit, QueueOf!Init
<1>2. RelayInv /\ [RelayNext]_relayVars
        => [\A p \in Port : [QueueOf(p)!Next]_(QueueOf(p)!fifo)]_relayVars
  BY QueueStep
<1>. QED
  BY <1>1, <1>2, RelayStarts, RelayStep, PTL DEF RelaySpec, PortsAreQueues

---------------------------------------------------------------------------
(***************************************************************************)
(* What becomes of a frame that the bridge takes in.                       *)
(*                                                                         *)
(* The host is taken to leave the bridge's own cables alone, and the full- *)
(* duplex segments, on whose number the ids of the serializers depend: an  *)
(* edit of either loses the frames that are on their way to a queue.  With *)
(* that, a serializer id names one port for good.                          *)
(*                                                                         *)
(* A frame is followed from place to place: it is being decoded            *)
(* (Decoding), on its way to the queue of a port (Bound), or in the line   *)
(* of that port, which is what the port has sent and what it still holds.  *)
(* Only three handlers move a frame to another place (RelayMoves);         *)
(* HandleDequeue moves it along within the line.                           *)
(***************************************************************************)

SteadyBridge == (\A p \in Port : Access[p] \notin Pulled) /\ Pulled \cap FdSegment = {}

PortsPlugged == Segment \ Pulled \subseteq up

LEMMA SteadyPorts ==
  ASSUME SteadyBridge, PortsPlugged
  PROVE  /\ \A p \in Port : Attached(p)
         /\ \A p \in Port : SerializerOf(p) = 2 * Cardinality(FdSegment) + PortNo[p]
         /\ \A p \in Port : EgressPorts(p) = Port \ {p}
         /\ \A z : PortsOf(z) = {p \in Port : SerializerOf(p) = z}
<1>1. \A p \in Port : Access[p] \in up
  BY CsmaAssumption, RelayAssumption DEF SteadyBridge, PortsPlugged
<1>2. FdSegment \cap up = FdSegment
  BY CsmaAssumption DEF SteadyBridge, PortsPlugged
<1>. QED
  BY <1>1, <1>2 DEF Attached, SerializerOf, EgressPorts, PortsOf

LEMMA SerializersDiffer ==
  ASSUME SteadyBridge, PortsPlugged, NEW p \in Port, NEW q \in Port,
         SerializerOf(p) = SerializerOf(q)
  PROVE  p = q
<1>1. PortNo[p] \in Nat /\ PortNo[q] \in Nat /\ Cardinality(FdSegment) \in Nat
  BY RelayAssumption, PortFacts, FS_CardinalityType
<1>2. PortNo[p] = PortNo[q]
  BY <1>1, SteadyPorts
<1>. QED
  BY <1>2, RelayAssumption

LEMMA SerializersStay ==
  ASSUME SteadyBridge, PortsPlugged, PortsPlugged', NEW p \in Port
  PROVE  SerializerOf(p)' = SerializerOf(p)
<1>1. FdSegment \cap up = FdSegment /\ FdSegment \cap up' = FdSegment
  BY CsmaAssumption DEF SteadyBridge, PortsPlugged
<1>. QED
  BY <1>1 DEF SerializerOf

LEMMA HandlersKeepWorld ==
  ASSUME NEW e, Handle(e) PROVE UNCHANGED world
BY DEF Handle, HandleTxAttempt, HandleTxStart, HandleTxEnd, HandleFrontArrive,
       HandleBackArrive, HandleCollisionDetect, HandleJamStart, HandleJamEnd,
       HandleBackoffExpire, HandleTopologyChanged, DropCancelled, Emits

LEMMA BridgeKeepsWorld ==
  ASSUME NEW e, RelayHandle(e) PROVE UNCHANGED world
BY DEF RelayHandle, PortHandle, RelayFrontArrive, RelayBackArrive, HandleFrameEligible,
       HandleEnqueue, HandleDequeue, RelayTxStart, RelayTxEnd, Emits

LEMMA PortsStayPlugged ==
  ASSUME PortsPlugged, [RelayNext]_relayVars PROVE PortsPlugged'
<1>1. CASE up' = up
  BY <1>1 DEF PortsPlugged
<1>2. CASE RelayHost
  BY <1>2 DEF RelayHost, PortsPlugged, ScheduleTxAttempt, RemoveSegment, AddSegment,
              RemoveNode, StartRun, ReturnFromRun, world
<1>3. CASE UNCHANGED relayVars
  BY <1>1, <1>3 DEF relayVars, vars, world
<1>. QED
  BY <1>1, <1>2, <1>3, HandlersKeepWorld, BridgeKeepsWorld
     DEF RelayNext, StationHandle, world

---------------------------------------------------------------------------
(* No entry of the bridge is ever tombstoned: an edit cancels what happens *)
(* at a node, serials are unique, and a new entry cannot have the serial   *)
(* of a tombstone.                                                         *)

SerialsOne == \A e, f \in queue : e.serial = f.serial => e = f
TombstonesOld == \A s \in cancelled : s < serial
Spared == \A e \in queue : e.kind \notin NodeEvents => e.serial \notin cancelled

SparedInv == SerialsOne /\ TombstonesOld /\ Spared

CancelsNodes ==
  cancelled' \ cancelled \subseteq {f.serial : f \in {g \in queue : g.kind \in NodeEvents}}

LEMMA SparedBatch ==
  ASSUME RelayInv, SparedInv, NEW kept \in SUBSET queue, NEW new, NEW k \in Nat,
         queue' = kept \cup new, serial' = serial + k,
         \A f \in new : f.serial \in serial .. (serial + k - 1),
         \A f, g \in new : f.serial = g.serial => f = g,
         CancelsNodes
  PROVE  SparedInv'
<1>1. serial \in Nat /\ \A f \in queue : f.serial \in Nat /\ f.serial < serial
  BY NetworkFields DEF RelayInv, QueueInv, RelayQueueOK, SerialsUsed
<1>2. SerialsOne'
  BY <1>1 DEF SparedInv, SerialsOne
<1>3. \A s \in cancelled' : s < serial
  BY <1>1 DEF SparedInv, TombstonesOld, CancelsNodes
<1>4. TombstonesOld'
  <2>1. cancelled \subseteq Nat
    BY DEF RelayInv, QueueInv, RelayQueueOK
  <2>2. ASSUME NEW s \in cancelled' PROVE s \in Nat
    <3>1. CASE s \in cancelled
      BY <2>1, <3>1
    <3>2. CASE s \notin cancelled
      <4>1. PICK f \in queue : s = f.serial
        BY <3>2 DEF CancelsNodes
      <4>. QED
        BY <1>1, <4>1
    <3>. QED
      BY <3>1, <3>2
  <2>3. \A s \in cancelled' : s < serial + k
    BY <1>1, <1>3, <2>2
  <2>. QED
    BY <2>3 DEF TombstonesOld
<1>5. \A e \in kept : e.kind \notin NodeEvents => e.serial \notin cancelled'
  BY DEF SparedInv, Spared, SerialsOne, CancelsNodes
<1>6. \A e \in new : e.serial \notin cancelled'
  BY <1>1, <1>3
<1>. QED
  BY <1>2, <1>4, <1>5, <1>6 DEF SparedInv, Spared

LEMMA HandlerSpares ==
  ASSUME RelayInv, SparedInv, NEW e \in queue, NetKeeps(e) PROVE SparedInv'
<1>1. PICK new, k : FreshIn(RelayEntrySet, e, new, k) /\ Emits(e, new, k)
  BY DEF NetKeeps, NetPushes
<1>2. /\ k \in Nat /\ queue' = (queue \ {e}) \cup new /\ serial' = serial + k
      /\ cancelled' = cancelled
      /\ \A f \in new : f.serial \in serial .. (serial + k - 1)
      /\ \A f, g \in new : f.serial = g.serial => f = g
  BY <1>1 DEF Emits, FreshIn
<1>3. CancelsNodes
  BY <1>2 DEF CancelsNodes
<1>. QED
  BY <1>2, <1>3, SparedBatch

LEMMA CallsSpare ==
  ASSUME RelayInv, SparedInv, CallKeeps, CancelsNodes PROVE SparedInv'
<1>1. PICK new, k : HostBatch(new, k) /\ HostPushes(new, k)
  BY DEF CallKeeps
<1>2. /\ k \in Nat /\ queue' = queue \cup new /\ serial' = serial + k
      /\ \A f \in new : f.serial \in serial .. (serial + k - 1)
      /\ \A f, g \in new : f.serial = g.serial => f = g
  BY <1>1 DEF HostBatch, HostPushes
<1>. QED
  BY <1>2, SparedBatch

LEMMA CallsCancelNodes ==
  ASSUME RelayHost, ~StartRun, ~ReturnFromRun PROVE CancelsNodes
<1>1. CASE UNCHANGED cancelled
  BY <1>1 DEF CancelsNodes
<1>2. ASSUME NEW seg, RemoveSegment(seg) PROVE CancelsNodes
  BY <1>2 DEF CancelsNodes, RemoveSegment, ArrivalsOn, ArrivalEvents, NodeEvents, SignalEvents
<1>3. ASSUME NEW n, RemoveNode(n) PROVE CancelsNodes
  BY <1>3 DEF CancelsNodes, RemoveNode, ArrivalsOn, EventsOf, ArrivalEvents, NodeEvents,
              SignalEvents
<1>. QED
  BY <1>1, <1>2, <1>3 DEF RelayHost, ScheduleTxAttempt, AddSegment

LEMMA HostCalls ==
  ASSUME RelayInv, RelayHost, ~StartRun, ~ReturnFromRun PROVE CallKeeps
BY NetworkTyped, RelayAssumption, ScheduleKeeps, RemoveSegmentKeeps, AddSegmentKeeps,
   RemoveNodeKeeps DEF RelayHost, Station

LEMMA SparedStep ==
  ASSUME RelayInv, SparedInv, [RelayNext]_relayVars PROVE SparedInv'
<1>1. CASE UNCHANGED <<queue, serial, cancelled>>
  BY <1>1 DEF SparedInv, SerialsOne, TombstonesOld, Spared
<1>2. CASE RelayHost /\ ~StartRun /\ ~ReturnFromRun
  BY <1>2, HostCalls, CallsCancelNodes, CallsSpare
<1>3. CASE StartRun \/ ReturnFromRun \/ UNCHANGED relayVars
  BY <1>1, <1>3 DEF StartRun, ReturnFromRun, Sched!StartRun, Sched!ReturnFromRun,
                    relayVars, vars
<1>4. ASSUME NEW e \in queue, StationHandle(e), UNCHANGED relay PROVE SparedInv'
  <2>1. CASE DropCancelled(e)
    <3>1. queue' = queue \ {e} /\ serial' = serial /\ cancelled' = cancelled \ {e.serial}
      BY <2>1 DEF DropCancelled, Sched!Skip
    <3>. QED
      BY <3>1 DEF SparedInv, SerialsOne, TombstonesOld, Spared
  <2>2. CASE ~DropCancelled(e)
    BY <1>4, <2>2, StationKeeps, HandlerSpares
  <2>. QED
    BY <2>1, <2>2
<1>5. ASSUME NEW e \in queue, RelayHandle(e) PROVE SparedInv'
  BY <1>5, BridgeKeeps, HandlerSpares
<1>. QED
  BY <1>2, <1>3, <1>4, <1>5 DEF RelayNext

---------------------------------------------------------------------------
(* How frames move.                                                        *)

TransitKinds == {"FrameEligible", "Enqueue"}
InTransit == {e \in queue : e.kind \in TransitKinds}
Line(p) == sent[p] \o egress[p]

Decoding(i) == {e \in InTransit : e.kind = "FrameEligible" /\ e.frame = i}
Bound(p, i) == {e \in InTransit : /\ e.kind = "Enqueue" /\ e.frame = i
                                  /\ e.serializer = SerializerOf(p)}
InLine(p, i) == {j \in DOMAIN Line(p) : Line(p)[j] = i}

LinesStay == \A p \in Port : Line(p)' = Line(p)
Still == InTransit' = InTransit /\ relayed' = relayed /\ LinesStay

LEMMA LineType ==
  ASSUME RelayTypeOK, NEW p \in Port PROVE Line(p) \in Seq(Indices)
BY DEF RelayTypeOK, Line

LEMMA QuietBatch ==
  ASSUME NEW e, NEW new, NEW kept \in {queue, queue \ {e}}, queue' = kept \cup new,
         e.kind \notin TransitKinds, \A f \in new : f.kind \notin TransitKinds
  PROVE  InTransit' = InTransit
BY DEF InTransit

LEMMA LinesUnchanged ==
  ASSUME UNCHANGED <<egress, sent>> PROVE LinesStay
BY DEF LinesStay, Line

LEMMA DequeueMovesAlong ==
  ASSUME RelayTypeOK, NEW e, HandleDequeue(e) PROVE LinesStay
<1>1. egress \in [Port -> Seq(Indices)] /\ sent \in [Port -> Seq(Indices)]
  BY DEF RelayTypeOK
<1>2. ASSUME NEW q \in Port, IsFront(q, e.frame),
             egress' = [egress EXCEPT ![q] = Tail(@)],
             sent' = [sent EXCEPT ![q] = Append(@, e.frame)],
             NEW p \in Port
      PROVE  Line(p)' = Line(p)
  <2>1. CASE p = q
    <3>1. /\ egress[p] # <<>> /\ e.frame = Head(egress[p])
          /\ egress'[p] = Tail(egress[p])
          /\ sent'[p] = Append(sent[p], Head(egress[p]))
      BY <1>1, <1>2, <2>1 DEF IsFront
    <3>. QED
      BY <1>1, <3>1, HeadMoves DEF Line
  <2>2. CASE p # q
    BY <1>1, <1>2, <2>2 DEF Line
  <2>. QED
    BY <2>1, <2>2
<1>. QED
  BY <1>2, LinesUnchanged DEF HandleDequeue, PortsOf, LinesStay

LEMMA HandledKinds ==
  ASSUME NEW e, Handle(e), ~DropCancelled(e) PROVE e.kind \notin RelayKinds
BY DEF Handle, HandleTxAttempt, HandleTxStart, HandleTxEnd, HandleFrontArrive,
       HandleBackArrive, HandleCollisionDetect, HandleJamStart, HandleJamEnd,
       HandleBackoffExpire, HandleTopologyChanged, Pops, RelayKinds

LEMMA StationsAreStill ==
  ASSUME RelayInv, SparedInv, NEW e \in queue, StationHandle(e), UNCHANGED relay
  PROVE  Still
<1>1. relayed' = relayed /\ LinesStay
  BY LinesUnchanged DEF relay
<1>2. CASE DropCancelled(e)
  <2>1. queue' = queue \ {e} /\ e.serial \in cancelled
    BY <1>2 DEF DropCancelled, Sched!Skip
  <2>2. e.kind \notin TransitKinds
    BY <2>1 DEF SparedInv, Spared, TransitKinds, NodeEvents, SignalEvents, JamEvents
  <2>. QED
    BY <1>1, <2>1, <2>2 DEF Still, InTransit
<1>3. CASE ~DropCancelled(e)
  <2>1. Handle(e)
    BY DEF StationHandle
  <2>2. Keeps(e)
    BY <1>3, <2>1, StationReady, HandlersKeep
  <2>3. PICK new, k : Fresh(e, new, k) /\ Emits(e, new, k)
    BY <2>2 DEF Keeps, PushesFresh
  <2>4. queue' = (queue \ {e}) \cup new /\ \A f \in new : f.kind \notin TransitKinds
    BY <2>3, StationEntries DEF Fresh, FreshIn, Emits, RelayKinds, TransitKinds
  <2>5. e.kind \notin TransitKinds
    BY <1>3, <2>1, HandledKinds DEF RelayKinds, TransitKinds
  <2>. QED
    BY <1>1, <2>4, <2>5, QuietBatch DEF Still
<1>. QED
  BY <1>2, <1>3

LEMMA HostIsStill ==
  ASSUME RelayInv, \/ RelayHost /\ UNCHANGED relay
                   \/ UNCHANGED relayVars
  PROVE  Still
<1>1. relayed' = relayed /\ LinesStay
  BY LinesUnchanged DEF relay, relayVars
<1>2. CASE queue' = queue
  BY <1>1, <1>2 DEF Still, InTransit
<1>3. CASE CallKeeps
  <2>1. PICK new, k : HostBatch(new, k) /\ HostPushes(new, k)
    BY <1>3 DEF CallKeeps
  <2>2. queue' = queue \cup new /\ \A f \in new : f.kind \notin TransitKinds
    BY <2>1 DEF HostBatch, HostPushes, TransitKinds
  <2>. QED
    BY <1>1, <2>2 DEF Still, InTransit
<1>. QED
  BY <1>2, <1>3, HostCalls
     DEF StartRun, ReturnFromRun, Sched!StartRun, Sched!ReturnFromRun, relayVars, vars

LEMMA BackIsStill ==
  ASSUME NEW e \in queue, RelayBackArrive(e) PROVE Still
<1>1. queue' = queue \ {e} /\ e.kind = "BackArrive" /\ UNCHANGED relay
  BY DEF RelayBackArrive, Emits, Pops
<1>. QED
  BY <1>1, LinesUnchanged DEF Still, InTransit, TransitKinds, relay

LEMMA DequeueIsStill ==
  ASSUME RelayTypeOK, NEW e \in queue, HandleDequeue(e) PROVE Still
<1>1. e.kind = "Dequeue" /\ relayed' = relayed
  BY DEF HandleDequeue, Pops
<1>2. \/ queue' = (queue \ {e}) \cup {}
      \/ \E sig : queue' = (queue \ {e}) \cup {SignalEntry("TxStart", e.time, serial, Bridge, sig)}
  BY DEF HandleDequeue, Emits
<1>3. \A sig : SignalEntry("TxStart", e.time, serial, Bridge, sig).kind \notin TransitKinds
  BY DEF SignalEntry, TransitKinds
<1>4. InTransit' = InTransit
  BY <1>1, <1>2, <1>3 DEF InTransit, TransitKinds
<1>. QED
  BY <1>1, <1>4, DequeueMovesAlong DEF Still

LEMMA StartIsStill ==
  ASSUME RelayInv, NEW e \in queue, RelayTxStart(e) PROVE Still
<1>. DEFINE sig == e.signal
            end == SignalEntry("TxEnd", sig.t0 + sig.dur, serial + 2 * NumNodes, Bridge, sig)
            ends == [p \in PortsFor(sig) |-> end]
            new == UNION {RelayArrivals(sig, p) \cup {ends[p]} : p \in PortsFor(sig)}
<1>1. e.kind = "TxStart" /\ queue' = (queue \ {e}) \cup new /\ UNCHANGED relay
  BY DEF RelayTxStart, Pops, Emits
<1>2. \A f \in new : f.kind \notin TransitKinds
  <2>1. end.kind = "TxEnd" /\ \A p \in PortsFor(sig) : ends[p] = end
    BY DEF SignalEntry
  <2>2. \A p \in PortsFor(sig) : \A f \in RelayArrivals(sig, p) : f.kind \in ArrivalEvents
    BY ArrivalKinds
  <2>3. \A f \in new : f.kind \in {"FrontArrive", "BackArrive", "TxEnd"}
    BY <2>1, <2>2 DEF ArrivalEvents
  <2>. QED
    BY <2>3 DEF TransitKinds
<1>. HIDE DEF new
<1>3. InTransit' = InTransit
  BY <1>1, <1>2 DEF InTransit, TransitKinds
<1>. QED
  BY <1>1, <1>3, LinesUnchanged DEF Still, relay

LEMMA EndIsStill ==
  ASSUME NEW e \in queue, RelayTxEnd(e) PROVE Still
<1>. DEFINE new == UNION {NextDequeue(e, p) : p \in PortsFor(e.signal)}
<1>1. e.kind = "TxEnd" /\ queue' = (queue \ {e}) \cup new /\ UNCHANGED <<relayed, egress, sent>>
  BY DEF RelayTxEnd, Pops, Emits
<1>2. \A f \in new : f.kind = "Dequeue"
  BY DEF NextDequeue, SerializerEntry
<1>. HIDE DEF new
<1>3. InTransit' = InTransit
  BY <1>1, <1>2 DEF InTransit, TransitKinds
<1>. QED
  BY <1>1, <1>3, LinesUnchanged DEF Still

LEMMA RelayMoves ==
  ASSUME RelayInv, SparedInv, [RelayNext]_relayVars
  PROVE  \/ Still
         \/ \E e \in queue : RelayFrontArrive(e) \/ HandleFrameEligible(e) \/ HandleEnqueue(e)
<1>1. CASE (RelayHost /\ UNCHANGED relay) \/ UNCHANGED relayVars
  BY <1>1, HostIsStill
<1>2. CASE \E e \in queue : StationHandle(e) /\ UNCHANGED relay
  BY <1>2, StationsAreStill
<1>3. ASSUME NEW e \in queue, RelayHandle(e)
      PROVE  \/ Still
             \/ RelayFrontArrive(e) \/ HandleFrameEligible(e) \/ HandleEnqueue(e)
  BY <1>3, BackIsStill, DequeueIsStill, StartIsStill, EndIsStill
     DEF RelayHandle, PortHandle, RelayInv
<1>. QED
  BY <1>1, <1>2, <1>3 DEF RelayNext

(* The three handlers that move a frame.                                   *)
LEMMA TakesIn ==
  ASSUME NEW e \in queue, RelayFrontArrive(e)
  PROVE  LET x == EligibleEntry(e.time + DecodeTime, serial, e.node, Len(relayed) + 1) IN
         /\ InTransit' = InTransit \cup {x} /\ LinesStay
         /\ e.node \in Port
         /\ \E r : relayed' = Append(relayed, r) /\ r.ingress = e.node
         /\ last' = Sched!Key(e) /\ serial' = serial + 1
<1>. DEFINE x == EligibleEntry(e.time + DecodeTime, serial, e.node, Len(relayed) + 1)
<1>1. /\ e.kind = "FrontArrive" /\ e.node \in Port /\ queue' = (queue \ {e}) \cup {x}
      /\ last' = Sched!Key(e) /\ serial' = serial + 1
      /\ UNCHANGED <<egress, sent>>
  BY DEF RelayFrontArrive, Pops, Emits
<1>2. x.kind = "FrameEligible"
  BY DEF EligibleEntry
<1>. HIDE DEF x
<1>3. InTransit' = InTransit \cup {x}
  BY <1>1, <1>2 DEF InTransit, TransitKinds
<1>4. \E r : relayed' = Append(relayed, r) /\ r.ingress = e.node
  BY DEF RelayFrontArrive, RegisterFrame
<1>. QED
  BY <1>1, <1>3, <1>4, LinesUnchanged DEF x

EnqueueFor(e, p) ==
  SerializerEntry("Enqueue", e.time, serial + PortNo[p], SerializerOf(p), e.frame)

LEMMA Floods ==
  ASSUME SteadyBridge, PortsPlugged, RelayInv, NEW e \in queue, HandleFrameEligible(e)
  PROVE  /\ e \in InTransit /\ e.kind = "FrameEligible" /\ e.node \in Port
         /\ InTransit' = (InTransit \ {e}) \cup {EnqueueFor(e, p) : p \in Port \ {e.node}}
         /\ LinesStay /\ relayed' = relayed
         /\ last' = Sched!Key(e)
<1>. DEFINE new == {EnqueueFor(e, p) : p \in Port \ {e.node}}
<1>1. e.kind = "FrameEligible" /\ UNCHANGED <<relayed, egress, sent>> /\ last' = Sched!Key(e)
  BY DEF HandleFrameEligible, Pops, Emits, relay
<1>2. e.node \in Port
  BY <1>1, NetworkFields DEF RelayInv, QueueInv, RelayQueueOK
<1>3. queue' = (queue \ {e}) \cup new
  BY <1>2, SteadyPorts DEF HandleFrameEligible, Emits, EnqueueFor
<1>4. \A f \in new : f.kind = "Enqueue"
  BY DEF EnqueueFor, SerializerEntry
<1>. HIDE DEF new
<1>5. InTransit' = (InTransit \ {e}) \cup new /\ e \in InTransit
  BY <1>1, <1>3, <1>4 DEF InTransit, TransitKinds
<1>. QED
  BY <1>1, <1>2, <1>5, LinesUnchanged DEF new

LEMMA Queues ==
  ASSUME SteadyBridge, PortsPlugged, RelayInv, NEW e \in queue, HandleEnqueue(e)
  PROVE  /\ e \in InTransit /\ e.kind = "Enqueue" /\ e.frame \in Indices
         /\ InTransit' = InTransit \ {e} /\ relayed' = relayed
         /\ \A p \in Port : Line(p)' = IF e.serializer = SerializerOf(p)
                                       THEN Append(Line(p), e.frame) ELSE Line(p)
         /\ last' = Sched!Key(e)
<1>. DEFINE new == {SerializerEntry("Dequeue", e.time, serial, e.serializer, e.frame) :
                       p \in {q \in PortsOf(e.serializer) : ~busy[q]}}
<1>1. /\ e.kind = "Enqueue" /\ relayed' = relayed /\ sent' = sent
      /\ last' = Sched!Key(e) /\ queue' = (queue \ {e}) \cup new
  BY DEF HandleEnqueue, Pops, Emits
<1>2. \A f \in new : f.kind = "Dequeue"
  BY DEF SerializerEntry
<1>. HIDE DEF new
<1>3. InTransit' = InTransit \ {e} /\ e \in InTransit
  BY <1>1, <1>2 DEF InTransit, TransitKinds
<1>4. e.frame \in Indices
  BY <1>1 DEF RelayInv, QueueInv, FramesKnown, RelayKinds
<1>5. ASSUME NEW p \in Port
      PROVE  Line(p)' = IF e.serializer = SerializerOf(p)
                        THEN Append(Line(p), e.frame) ELSE Line(p)
  <2>1. egress \in [Port -> Seq(Indices)] /\ sent \in [Port -> Seq(Indices)]
    BY DEF RelayInv, RelayTypeOK
  <2>2. egress'[p] = IF e.serializer = SerializerOf(p)
                     THEN Append(egress[p], e.frame) ELSE egress[p]
    BY SteadyPorts DEF HandleEnqueue, PushedBack
  <2>3. sent[p] \o Append(egress[p], e.frame) = Append(sent[p] \o egress[p], e.frame)
    BY <1>4, <2>1, ConcatAppend
  <2>. QED
    BY <1>1, <2>2, <2>3 DEF Line
<1>. QED
  BY <1>1, <1>3, <1>4, <1>5

---------------------------------------------------------------------------
(* A frame is at most in one place for each port, and for the port it came *)
(* from it is nowhere but in the decoder.                                  *)

AtMostOne(S) == \A x, y \in S : x = y

SinglePlace(decoding, bound, inLine, back) ==
  /\ AtMostOne(decoding) /\ AtMostOne(bound) /\ AtMostOne(inLine)
  /\ bound = {} \/ inLine = {}
  /\ (back \/ decoding # {}) => (bound = {} /\ inLine = {})

PlaceOf(i, p) ==
  SinglePlace(Decoding(i), Bound(p, i), InLine(p, i), p = relayed[i].ingress)

Placed ==
  \A i \in Indices :
    /\ \A x \in Decoding(i) : x.node = relayed[i].ingress
    /\ \A p \in Port : PlaceOf(i, p)

PlacedInv == PortsPlugged /\ SparedInv /\ Placed

(* The frame is in some place for the port.                                *)
Somewhere(i, p) == Decoding(i) # {} \/ Bound(p, i) # {} \/ InLine(p, i) # {}

Kept(i) == \A p \in Port : Somewhere(i, p) => Somewhere(i, p)'
NoneLost == \A i \in Indices : Kept(i)

LEMMA StillIsPlaced ==
  ASSUME SteadyBridge, PlacedInv, PortsPlugged', Still PROVE Placed' /\ NoneLost
<1>1. /\ Indices' = Indices /\ relayed' = relayed
      /\ \A i : Decoding(i)' = Decoding(i)
      /\ \A i : \A p \in Port : Bound(p, i)' = Bound(p, i) /\ InLine(p, i)' = InLine(p, i)
  BY SerializersStay DEF PlacedInv, Still, LinesStay, Indices, Decoding, Bound, InLine
<1>2. Placed'
  BY <1>1 DEF PlacedInv, Placed, PlaceOf
<1>3. NoneLost
  BY <1>1 DEF NoneLost, Kept, Somewhere
<1>. QED
  BY <1>2, <1>3

LEMMA TakenInIsPlaced ==
  ASSUME SteadyBridge, RelayInv, PlacedInv, PortsPlugged',
         NEW e \in queue, RelayFrontArrive(e), NEW i, i = Len(relayed) + 1
  PROVE  /\ Placed' /\ NoneLost
         /\ Indices' = Indices \cup {i}
         /\ \A p \in Port : Somewhere(i, p)'
<1>0. PICK x : x = EligibleEntry(e.time + DecodeTime, serial, e.node, i)
  OBVIOUS
<1>1. PICK r : relayed' = Append(relayed, r) /\ r.ingress = e.node
  BY TakesIn
<1>2. /\ relayed \in Seq(Relayed) /\ Indices = 1 .. Len(relayed) /\ i \in Nat
      /\ Indices' = Indices \cup {i} /\ i \notin Indices
      /\ \A j \in Indices : relayed'[j] = relayed[j]
      /\ relayed'[i] = r
  BY <1>0, <1>1 DEF RelayInv, RelayTypeOK, Indices
<1>3. /\ InTransit' = InTransit \cup {x} /\ LinesStay
  BY <1>0, TakesIn
<1>4. x.kind = "FrameEligible" /\ x.frame = i /\ x.node = e.node
  BY <1>0 DEF EligibleEntry
<1>5. \A f \in InTransit : f.frame # i
  BY <1>2 DEF InTransit, TransitKinds, RelayInv, QueueInv, FramesKnown, RelayKinds
<1>6. Decoding(i)' = {x} /\ \A j : j # i => Decoding(j)' = Decoding(j)
  <2>1. \A j : Decoding(j)' = {y \in InTransit \cup {x} : y.kind = "FrameEligible" /\ y.frame = j}
    BY <1>3 DEF Decoding
  <2>2. ASSUME NEW j, j # i PROVE Decoding(j)' = Decoding(j)
    BY <1>4, <2>1, <2>2 DEF Decoding
  <2>3. Decoding(i)' = {x}
    BY <1>4, <1>5, <2>1
  <2>. QED
    BY <2>2, <2>3
<1>7. \A j : \A p \in Port : Bound(p, j)' = Bound(p, j) /\ InLine(p, j)' = InLine(p, j)
  BY <1>3, <1>4, SerializersStay DEF Bound, InLine, LinesStay, PlacedInv
<1>8. \A p \in Port : Bound(p, i) = {} /\ InLine(p, i) = {}
  <2>1. \A p \in Port : Bound(p, i) = {}
    BY <1>5 DEF Bound
  <2>2. ASSUME NEW p \in Port PROVE InLine(p, i) = {}
    <3>1. \A j \in DOMAIN Line(p) : Line(p)[j] \in Indices
      BY LineType, ElementOfSeq DEF RelayInv
    <3>. QED
      BY <1>2, <3>1 DEF InLine
  <2>. QED
    BY <2>1, <2>2
<1>9. ASSUME NEW j \in Indices'
      PROVE  /\ \A y \in Decoding(j)' : y.node = relayed'[j].ingress
             /\ \A p \in Port : PlaceOf(j, p)'
  <2>1. CASE j = i
    <3>1. relayed'[i].ingress = e.node /\ x.node = e.node
      BY <1>1, <1>2, <1>4
    <3>2. \A y \in Decoding(i)' : y.node = relayed'[i].ingress
      BY <1>6, <3>1
    <3>3. \A p \in Port : Bound(p, i)' = {} /\ InLine(p, i)' = {}
      BY <1>7, <1>8
    <3>4. AtMostOne(Decoding(i)') /\ AtMostOne({})
      BY <1>6 DEF AtMostOne
    <3>. QED
      BY <2>1, <3>2, <3>3, <3>4 DEF PlaceOf, SinglePlace
  <2>2. CASE j \in Indices
    BY <1>2, <1>6, <1>7, <2>2 DEF PlacedInv, Placed, PlaceOf
  <2>. QED
    BY <1>2, <2>1, <2>2
<1>10. NoneLost
  BY <1>2, <1>6, <1>7 DEF NoneLost, Kept, Somewhere
<1>11. \A p \in Port : Somewhere(i, p)'
  BY <1>6 DEF Somewhere
<1>12. Placed'
  BY <1>9 DEF Placed
<1>. QED
  BY <1>2, <1>10, <1>11, <1>12

(* The frame of e leaves the decoder for the ports of E.                   *)
ForwardsTo(e, E) ==
  /\ e \in InTransit /\ e.kind = "FrameEligible" /\ e.node \in Port
  /\ E \subseteq Port \ {e.node}
  /\ LinesStay /\ relayed' = relayed
  /\ \E new :
       /\ InTransit' = (InTransit \ {e}) \cup new
       /\ \A f \in new : /\ f.kind = "Enqueue" /\ f.frame = e.frame
                         /\ \E p \in E : f.serializer = SerializerOf(p)
       /\ \A p \in E : \E f \in new : f.serializer = SerializerOf(p)
       /\ \A f, g \in new : f.serializer = g.serializer => f = g

LEMMA ForwardedIsPlaced ==
  ASSUME SteadyBridge, RelayInv, PlacedInv, PortsPlugged', NEW e, NEW E, ForwardsTo(e, E)
  PROVE  /\ Placed' /\ Indices' = Indices /\ e.frame \in Indices
         /\ e.node = relayed[e.frame].ingress
         /\ \A j \in Indices : j # e.frame => Kept(j)
         /\ \A p \in E : Somewhere(e.frame, p)'
<1>. DEFINE i == e.frame
<1>1. PICK new :
        /\ InTransit' = (InTransit \ {e}) \cup new
        /\ \A f \in new : /\ f.kind = "Enqueue" /\ f.frame = e.frame
                          /\ \E p \in E : f.serializer = SerializerOf(p)
        /\ \A p \in E : \E f \in new : f.serializer = SerializerOf(p)
        /\ \A f, g \in new : f.serializer = g.serializer => f = g
  BY DEF ForwardsTo
<1>2. /\ e \in InTransit /\ e.kind = "FrameEligible" /\ e.node \in Port
      /\ E \subseteq Port \ {e.node}
      /\ LinesStay /\ relayed' = relayed /\ Indices' = Indices
  BY DEF ForwardsTo, Indices
<1>3. i \in Indices /\ e \in Decoding(i)
  BY <1>2 DEF RelayInv, QueueInv, FramesKnown, RelayKinds, InTransit, Decoding
<1>4. e.node = relayed[i].ingress /\ Decoding(i) = {e}
  <2>1. AtMostOne(Decoding(i))
    BY <1>2, <1>3 DEF PlacedInv, Placed, PlaceOf, SinglePlace
  <2>. QED
    BY <1>3, <2>1 DEF PlacedInv, Placed, AtMostOne
<1>5. \A p \in Port : Bound(p, i) = {} /\ InLine(p, i) = {}
  BY <1>3 DEF PlacedInv, Placed, PlaceOf, SinglePlace
<1>6. Decoding(i)' = {} /\ \A j : j # i => Decoding(j)' = Decoding(j)
  BY <1>1, <1>2, <1>4 DEF Decoding
<1>7. \A j : \A p \in Port : InLine(p, j)' = InLine(p, j)
  BY <1>2 DEF InLine, LinesStay
<1>8. \A j : \A p \in Port : j # i => Bound(p, j)' = Bound(p, j)
  BY <1>1, <1>2, SerializersStay DEF Bound, PlacedInv
<1>9. ASSUME NEW p \in Port
      PROVE  /\ AtMostOne(Bound(p, i)')
             /\ p \in E <=> Bound(p, i)' # {}
  <2>1. SerializerOf(p)' = SerializerOf(p)
    BY SerializersStay DEF PlacedInv
  <2>2. Bound(p, i)' = {f \in InTransit' : /\ f.kind = "Enqueue" /\ f.frame = i
                                          /\ f.serializer = SerializerOf(p)}
    BY <2>1 DEF Bound
  <2>3. \A f \in InTransit : ~(f.kind = "Enqueue" /\ f.frame = i /\ f.serializer = SerializerOf(p))
    BY <1>5 DEF Bound
  <2>4. \A q \in Port : SerializerOf(q) = SerializerOf(p) => q = p
    BY SerializersDiffer DEF PlacedInv
  <2>5. Bound(p, i)' = {f \in new : f.serializer = SerializerOf(p)}
    BY <1>1, <2>2, <2>3
  <2>6. AtMostOne(Bound(p, i)')
    BY <1>1, <2>5 DEF AtMostOne
  <2>7. p \in E <=> Bound(p, i)' # {}
    BY <1>1, <1>2, <2>4, <2>5
  <2>. QED
    BY <2>6, <2>7
<1>10. ASSUME NEW p \in Port PROVE PlaceOf(i, p)'
  <2>1. AtMostOne(InLine(p, i)') /\ InLine(p, i)' = {} /\ AtMostOne(Decoding(i)')
    BY <1>5, <1>6, <1>7 DEF AtMostOne
  <2>2. p = relayed[i].ingress => Bound(p, i)' = {}
    BY <1>2, <1>4, <1>9
  <2>3. relayed'[i].ingress = relayed[i].ingress
    BY <1>2
  <2>. QED
    BY <1>6, <1>9, <2>1, <2>2, <2>3 DEF PlaceOf, SinglePlace
<1>. HIDE DEF i
<1>11. Placed'
  <2>1. ASSUME NEW j \in Indices' PROVE /\ \A y \in Decoding(j)' : y.node = relayed'[j].ingress
                                        /\ \A p \in Port : PlaceOf(j, p)'
    <3>1. CASE j = i
      BY <1>6, <1>10, <3>1
    <3>2. CASE j # i
      BY <1>2, <1>6, <1>7, <1>8, <3>2 DEF PlacedInv, Placed, PlaceOf
    <3>. QED
      BY <3>1, <3>2
  <2>. QED
    BY <2>1 DEF Placed
<1>12. \A j \in Indices : j # i => Kept(j)
  BY <1>6, <1>7, <1>8 DEF Kept, Somewhere
<1>13. \A p \in E : Somewhere(i, p)'
  BY <1>2, <1>9 DEF Somewhere
<1>. QED
  BY <1>2, <1>3, <1>4, <1>11, <1>12, <1>13 DEF i

LEMMA QueuedIsPlaced ==
  ASSUME SteadyBridge, RelayInv, PlacedInv, PortsPlugged',
         NEW e \in queue, HandleEnqueue(e)
  PROVE  Placed' /\ NoneLost
<1>. DEFINE i == e.frame
<1>1. /\ e \in InTransit /\ e.kind = "Enqueue" /\ i \in Indices
      /\ InTransit' = InTransit \ {e} /\ relayed' = relayed /\ Indices' = Indices
      /\ \A p \in Port : Line(p)' = IF e.serializer = SerializerOf(p)
                                    THEN Append(Line(p), i) ELSE Line(p)
  BY Queues DEF PlacedInv, Indices
<1>2. \A j : Decoding(j)' = Decoding(j)
  BY <1>1 DEF Decoding
<1>3. \A p \in Port : SerializerOf(p)' = SerializerOf(p)
  BY SerializersStay DEF PlacedInv
<1>4. ASSUME NEW j \in Indices, NEW p \in Port, ~(j = i /\ e.serializer = SerializerOf(p))
      PROVE  Bound(p, j)' = Bound(p, j) /\ InLine(p, j)' = InLine(p, j)
  <2>1. Bound(p, j)' = Bound(p, j)
    BY <1>1, <1>3, <1>4 DEF Bound
  <2>2. CASE e.serializer # SerializerOf(p)
    BY <1>1, <2>1, <2>2 DEF InLine
  <2>3. CASE j # i /\ e.serializer = SerializerOf(p)
    <3>1. Line(p)' = Append(Line(p), i) /\ Line(p) \in Seq(Indices)
      BY <1>1, <2>3, LineType DEF RelayInv
    <3>. QED
      BY <2>1, <2>3, <3>1 DEF InLine
  <2>. QED
    BY <1>4, <2>2, <2>3
<1>5. ASSUME NEW p \in Port, e.serializer = SerializerOf(p)
      PROVE  PlaceOf(i, p)' /\ Somewhere(i, p)'
  <2>1. e \in Bound(p, i)
    BY <1>1, <1>5 DEF Bound
  <2>2. /\ p # relayed[i].ingress /\ Decoding(i) = {} /\ Bound(p, i) = {e} /\ InLine(p, i) = {}
    BY <1>1, <2>1 DEF PlacedInv, Placed, PlaceOf, SinglePlace, AtMostOne
  <2>3. Bound(p, i)' = {}
    BY <1>1, <1>3, <2>2 DEF Bound
  <2>4. Line(p)' = Append(Line(p), i) /\ Line(p) \in Seq(Indices)
    BY <1>1, <1>5, LineType DEF RelayInv
  <2>5. InLine(p, i)' = {Len(Line(p)) + 1}
    BY <2>2, <2>4 DEF InLine
  <2>6. relayed'[i].ingress = relayed[i].ingress
    BY <1>1
  <2>7. PlaceOf(i, p)'
    BY <1>2, <2>2, <2>3, <2>5, <2>6 DEF PlaceOf, SinglePlace, AtMostOne
  <2>. QED
    BY <2>5, <2>7 DEF Somewhere
<1>6. ASSUME NEW j \in Indices, NEW p \in Port
      PROVE  PlaceOf(j, p)' /\ (Somewhere(j, p) => Somewhere(j, p)')
  <2>1. CASE j = i /\ e.serializer = SerializerOf(p)
    BY <1>5, <2>1
  <2>2. CASE ~(j = i /\ e.serializer = SerializerOf(p))
    BY <1>1, <1>2, <1>4, <2>2 DEF PlacedInv, Placed, PlaceOf, Somewhere
  <2>. QED
    BY <2>1, <2>2
<1>7. Placed'
  BY <1>1, <1>2, <1>6 DEF PlacedInv, Placed
<1>8. NoneLost
  BY <1>6 DEF NoneLost, Kept
<1>. QED
  BY <1>7, <1>8

(* For the flooding bridge, a frame is somewhere for every other port.     *)
FloodedEverywhere ==
  \A i \in Indices, p \in Port : p # relayed[i].ingress => Somewhere(i, p)

LEMMA FloodsForward ==
  ASSUME SteadyBridge, RelayInv, PortsPlugged, NEW e \in queue, HandleFrameEligible(e)
  PROVE  ForwardsTo(e, Port \ {e.node})
<1>1. PICK new : new = {EnqueueFor(e, p) : p \in Port \ {e.node}}
  OBVIOUS
<1>2. \A p : /\ EnqueueFor(e, p).kind = "Enqueue" /\ EnqueueFor(e, p).frame = e.frame
             /\ EnqueueFor(e, p).serializer = SerializerOf(p)
  BY DEF EnqueueFor, SerializerEntry
<1>3. \A f, g \in new : f.serializer = g.serializer => f = g
  BY <1>1, <1>2, SerializersDiffer
<1>4. InTransit' = (InTransit \ {e}) \cup new
  BY <1>1, Floods
<1>5. /\ \A f \in new : /\ f.kind = "Enqueue" /\ f.frame = e.frame
                        /\ \E p \in Port \ {e.node} : f.serializer = SerializerOf(p)
      /\ \A p \in Port \ {e.node} : \E f \in new : f.serializer = SerializerOf(p)
  BY <1>1, <1>2
<1>6. /\ e \in InTransit /\ e.kind = "FrameEligible" /\ e.node \in Port
      /\ LinesStay /\ relayed' = relayed
  BY Floods
<1>. QED
  BY <1>3, <1>4, <1>5, <1>6 DEF ForwardsTo

LEMMA EverywhereStep ==
  ASSUME SteadyBridge, RelayInv, PlacedInv, FloodedEverywhere, PortsPlugged',
         [RelayNext]_relayVars
  PROVE  Placed' /\ FloodedEverywhere'
<1>1. CASE Still
  <2>1. Placed' /\ NoneLost /\ relayed' = relayed /\ Indices' = Indices
    BY <1>1, StillIsPlaced DEF Still, Indices
  <2>. QED
    BY <2>1 DEF NoneLost, Kept, FloodedEverywhere
<1>2. ASSUME NEW e \in queue, RelayFrontArrive(e) PROVE Placed' /\ FloodedEverywhere'
  <2>0. PICK i : i = Len(relayed) + 1
    OBVIOUS
  <2>1. /\ Placed' /\ NoneLost /\ Indices' = Indices \cup {i}
        /\ \A p \in Port : Somewhere(i, p)'
    BY <1>2, <2>0, TakenInIsPlaced
  <2>2. \A j \in Indices : relayed'[j] = relayed[j]
    <3>1. PICK r : relayed' = Append(relayed, r)
      BY <1>2, TakesIn
    <3>. QED
      BY <3>1 DEF RelayInv, RelayTypeOK, Indices
  <2>3. ASSUME NEW j \in Indices', NEW p \in Port, p # relayed'[j].ingress
        PROVE  Somewhere(j, p)'
    <3>1. CASE j = i
      BY <2>1, <3>1
    <3>2. CASE j \in Indices
      BY <2>1, <2>2, <2>3, <3>2 DEF NoneLost, Kept, FloodedEverywhere
    <3>. QED
      BY <2>1, <3>1, <3>2
  <2>. QED
    BY <2>1, <2>3 DEF FloodedEverywhere
<1>3. ASSUME NEW e \in queue, HandleFrameEligible(e) PROVE Placed' /\ FloodedEverywhere'
  <2>1. ForwardsTo(e, Port \ {e.node})
    BY <1>3, FloodsForward DEF PlacedInv
  <2>2. relayed' = relayed
    BY <2>1 DEF ForwardsTo
  <2>3. PICK i : i = e.frame
    OBVIOUS
  <2>4. /\ Placed' /\ Indices' = Indices /\ e.node = relayed[i].ingress
        /\ \A j \in Indices : j # i => Kept(j)
        /\ \A p \in Port \ {e.node} : Somewhere(i, p)'
    BY <2>1, <2>3, ForwardedIsPlaced
  <2>5. ASSUME NEW j \in Indices', NEW p \in Port, p # relayed'[j].ingress
        PROVE  Somewhere(j, p)'
    <3>1. CASE j = i
      BY <2>2, <2>4, <2>5, <3>1
    <3>2. CASE j # i
      BY <2>2, <2>4, <2>5, <3>2 DEF Kept, FloodedEverywhere
    <3>. QED
      BY <3>1, <3>2
  <2>. QED
    BY <2>4, <2>5 DEF FloodedEverywhere
<1>4. ASSUME NEW e \in queue, HandleEnqueue(e) PROVE Placed' /\ FloodedEverywhere'
  <2>1. relayed' = relayed /\ Indices' = Indices
    BY <1>4 DEF HandleEnqueue, Indices
  <2>. QED
    BY <1>4, <2>1, QueuedIsPlaced DEF NoneLost, Kept, FloodedEverywhere
<1>. QED
  BY <1>1, <1>2, <1>3, <1>4, RelayMoves DEF PlacedInv

LEMMA PlacedStep ==
  ASSUME SteadyBridge, RelayInv, PlacedInv, FloodedEverywhere, [RelayNext]_relayVars
  PROVE  PlacedInv' /\ FloodedEverywhere'
<1>1. PortsPlugged' /\ SparedInv'
  BY PortsStayPlugged, SparedStep DEF PlacedInv
<1>. QED
  BY <1>1, EverywhereStep DEF PlacedInv

LEMMA PlacedStarts == RelayInit => PlacedInv /\ FloodedEverywhere
<1> SUFFICES ASSUME RelayInit PROVE PlacedInv /\ FloodedEverywhere
  OBVIOUS
<1>1. queue = {} /\ cancelled = {} /\ up = Segment /\ Indices = {}
  BY DEF RelayInit, Init, Sched!SchedulerInit, Indices
<1>. QED
  BY <1>1 DEF PlacedInv, PortsPlugged, SparedInv, SerialsOne, TombstonesOld, Spared, Placed,
              FloodedEverywhere

LEMMA CountAtMostOne ==
  ASSUME NEW S, AtMostOne(S) PROVE Cardinality(S) = IF S = {} THEN 0 ELSE 1
<1>1. CASE S = {}
  BY <1>1, FS_EmptySet
<1>2. ASSUME NEW x \in S PROVE Cardinality(S) = 1
  <2>1. S = {x}
    BY <1>2 DEF AtMostOne
  <2>. QED
    BY <2>1, FS_Singleton
<1>. QED
  BY <1>1, <1>2

LEMMA LineSplits ==
  ASSUME RelayTypeOK, NEW p \in Port, NEW i, AtMostOne(InLine(p, i))
  PROVE  /\ AtMostOne(InEgress(p, i)) /\ AtMostOne(Sent(p, i))
         /\ InLine(p, i) = {} => InEgress(p, i) = {} /\ Sent(p, i) = {}
         /\ InLine(p, i) # {} =>
              \/ InEgress(p, i) = {} /\ Sent(p, i) # {}
              \/ InEgress(p, i) # {} /\ Sent(p, i) = {}
<1>. DEFINE s == sent[p]
            q == egress[p]
<1>1. s \in Seq(Indices) /\ q \in Seq(Indices) /\ Line(p) = s \o q
  BY DEF RelayTypeOK, Line
<1>. HIDE DEF s, q
<1>2. /\ DOMAIN (s \o q) = 1 .. (Len(s) + Len(q)) /\ Len(s) \in Nat /\ Len(q) \in Nat
      /\ DOMAIN s = 1 .. Len(s) /\ DOMAIN q = 1 .. Len(q)
  BY <1>1
<1>3. \A j \in DOMAIN s : j \in DOMAIN (s \o q) /\ (s \o q)[j] = s[j]
  BY <1>1, <1>2
<1>4. \A j \in DOMAIN q : /\ Len(s) + j \in DOMAIN (s \o q) /\ Len(s) + j \notin DOMAIN s
                          /\ (s \o q)[Len(s) + j] = q[j]
  BY <1>1, <1>2
<1>5. \A j \in DOMAIN (s \o q) : \/ j \in DOMAIN s
                                 \/ j - Len(s) \in DOMAIN q /\ Len(s) + (j - Len(s)) = j
  BY <1>2
<1>6. /\ InLine(p, i) = {j \in DOMAIN (s \o q) : (s \o q)[j] = i}
      /\ Sent(p, i) = {j \in DOMAIN s : s[j] = i}
      /\ InEgress(p, i) = {j \in DOMAIN q : q[j] = i}
  BY <1>1 DEF InLine, Sent, InEgress, s, q
<1>7. Sent(p, i) \subseteq InLine(p, i)
  BY <1>3, <1>6
<1>8. \A j \in InEgress(p, i) : Len(s) + j \in InLine(p, i) /\ Len(s) + j \notin Sent(p, i)
  BY <1>4, <1>6
<1>9. \A j \in InLine(p, i) : j \in Sent(p, i) \/ j - Len(s) \in InEgress(p, i)
  BY <1>3, <1>4, <1>5, <1>6
<1>10. \A j \in InEgress(p, i) : j \in Nat
  BY <1>2, <1>6
<1>11. AtMostOne(Sent(p, i))
  BY <1>7 DEF AtMostOne
<1>12. AtMostOne(InEgress(p, i))
  <2>1. ASSUME NEW j \in InEgress(p, i), NEW k \in InEgress(p, i) PROVE j = k
    <3>1. Len(s) + j = Len(s) + k
      BY <1>8 DEF AtMostOne
    <3>. QED
      BY <3>1, <1>2, <1>10
  <2>. QED
    BY <2>1 DEF AtMostOne
<1>13. Sent(p, i) = {} \/ InEgress(p, i) = {}
  BY <1>7, <1>8 DEF AtMostOne
<1>. QED
  BY <1>7, <1>8, <1>9, <1>11, <1>12, <1>13

LEMMA CountPlaces ==
  ASSUME RelayTypeOK, NEW i \in Indices, NEW p \in Port, PlaceOf(i, p)
  PROVE  LET places == Cardinality(QueuedFor("Enqueue", p, i)) + Cardinality(InEgress(p, i))
                         + Cardinality(Sent(p, i))
         IN  IF p = relayed[i].ingress THEN places = 0
             ELSE /\ places <= 1
                  /\ Somewhere(i, p) => places + Cardinality(Eligible(i)) = 1
<1>1. Eligible(i) = Decoding(i) /\ QueuedFor("Enqueue", p, i) = Bound(p, i)
  BY DEF Eligible, Decoding, QueuedFor, Bound, InTransit, TransitKinds
<1>2. SinglePlace(Decoding(i), Bound(p, i), InLine(p, i), p = relayed[i].ingress)
  BY DEF PlaceOf
<1>3. /\ Cardinality(Decoding(i)) = IF Decoding(i) = {} THEN 0 ELSE 1
      /\ Cardinality(Bound(p, i)) = IF Bound(p, i) = {} THEN 0 ELSE 1
      /\ Cardinality(InEgress(p, i)) = IF InEgress(p, i) = {} THEN 0 ELSE 1
      /\ Cardinality(Sent(p, i)) = IF Sent(p, i) = {} THEN 0 ELSE 1
  BY <1>2, CountAtMostOne, LineSplits DEF SinglePlace
<1>4. /\ InEgress(p, i) = {} \/ Sent(p, i) = {}
      /\ InLine(p, i) = {} <=> InEgress(p, i) = {} /\ Sent(p, i) = {}
  BY <1>2, LineSplits DEF SinglePlace
<1>5. CASE p = relayed[i].ingress
  <2>1. Bound(p, i) = {} /\ InEgress(p, i) = {} /\ Sent(p, i) = {}
    BY <1>2, <1>4, <1>5 DEF SinglePlace
  <2>. QED
    BY <1>1, <1>3, <1>5, <2>1
<1>6. CASE p # relayed[i].ingress
  <2>1. /\ Bound(p, i) = {} \/ (InEgress(p, i) = {} /\ Sent(p, i) = {})
        /\ Decoding(i) # {} => Bound(p, i) = {} /\ InEgress(p, i) = {} /\ Sent(p, i) = {}
    BY <1>2, <1>4 DEF SinglePlace
  <2>2. Somewhere(i, p) => \/ Decoding(i) # {} \/ Bound(p, i) # {}
                           \/ InEgress(p, i) # {} \/ Sent(p, i) # {}
    BY <1>4 DEF Somewhere
  <2>. QED
    BY <1>1, <1>3, <1>4, <1>6, <2>1, <2>2
<1>. QED
  BY <1>5, <1>6

LEMMA PlacedOnce == RelayTypeOK /\ Placed /\ FloodedEverywhere => ForwardedOnce
BY CountPlaces DEF Placed, FloodedEverywhere, ForwardedOnce

(* Flooding loses no frame and repeats none: whatever the stations send,   *)
(* however signals collide and whatever is plugged elsewhere, calls that   *)
(* schedule in the past included, a frame the bridge has taken in is in    *)
(* exactly one place for every port but the one it came from.              *)
THEOREM ForwardedExactlyOnce == ASSUME SteadyBridge PROVE RelaySpec => []ForwardedOnce
<1>1. RelayInit => RelayInv /\ PlacedInv /\ FloodedEverywhere
  BY RelayStarts, PlacedStarts
<1>2. RelayInv /\ PlacedInv /\ FloodedEverywhere /\ [RelayNext]_relayVars
      => RelayInv' /\ PlacedInv' /\ FloodedEverywhere'
  BY RelayStep, PlacedStep
<1>3. RelayInv /\ PlacedInv /\ FloodedEverywhere => ForwardedOnce
  BY PlacedOnce DEF RelayInv, PlacedInv
<1>. QED
  BY <1>1, <1>2, <1>3, PTL DEF RelaySpec

---------------------------------------------------------------------------
(***************************************************************************)
(* The order in which a port sends.                                        *)
(*                                                                         *)
(* Frames are numbered as they come in.  A frame becomes eligible a fixed  *)
(* time after it came in (A4), so frames that are being decoded become     *)
(* eligible in the order of their numbers; they are put on their way to a  *)
(* queue in that order, at the instant they become eligible, with serials  *)
(* that grow; so they join the line in that order too.  Each clause of     *)
(* Ordered is one step of that argument.  It needs time to go forward      *)
(* (KeysAhead), hence a host that does not schedule in the past.           *)
(***************************************************************************)

Sooner(x, y) == x.time < y.time \/ (x.time = y.time /\ x.serial < y.serial)

Coming == {x \in InTransit : x.kind = "FrameEligible"}
Going == {x \in InTransit : x.kind = "Enqueue"}

DecodedInOrder ==
  /\ \A x \in Coming : x.time <= Now + DecodeTime
  /\ \A x, y \in Coming : x.frame < y.frame => Sooner(x, y)

GoingInOrder ==
  /\ \A x \in Going : x.time <= Now
  /\ \A x \in Going, y \in Coming : x.frame < y.frame
  /\ \A x, y \in Going : x.serializer = y.serializer /\ x.frame < y.frame => Sooner(x, y)

LinesInOrder ==
  \A p \in Port : \A j \in DOMAIN Line(p) :
    /\ \A x \in Coming : Line(p)[j] < x.frame
    /\ \A x \in Going : x.serializer = SerializerOf(p) => Line(p)[j] < x.frame
    /\ \A k \in DOMAIN Line(p) : j < k => Line(p)[j] < Line(p)[k]

Ordered == DecodedInOrder /\ GoingInOrder /\ LinesInOrder

OrderInv == RelayInv /\ PlacedInv /\ Sched!KeysAhead /\ Ordered

LEMMA TransitTypes ==
  ASSUME RelayInv
  PROVE  /\ Now \in Nat /\ serial \in Nat /\ Len(relayed) \in Nat
         /\ Indices = 1 .. Len(relayed)
         /\ \A x \in InTransit : /\ x.time \in Nat /\ x.serial \in Nat /\ x.serial < serial
                                 /\ x.frame \in Indices /\ x.frame \in Nat
<1>1. Indices = 1 .. Len(relayed) /\ Len(relayed) \in Nat
  BY DEF RelayInv, RelayTypeOK, Indices
<1>2. \A x \in queue : x.time \in Nat /\ x.serial \in Nat /\ x.serial < serial
  BY NetworkFields DEF RelayInv, QueueInv, RelayQueueOK, SerialsUsed
<1>3. \A x \in InTransit : x \in queue /\ x.frame \in Indices
  BY DEF InTransit, TransitKinds, RelayInv, QueueInv, FramesKnown, RelayKinds
<1>. QED
  BY <1>1, <1>2, <1>3, NetworkTyped DEF Typed

LEMMA TimeMoves ==
  ASSUME RelayInv, RelayInv', Sched!KeysAhead, [Sched!SchedulerNext]_(Sched!sched)
  PROVE  Now' >= Now /\ Now \in Nat /\ Now' \in Nat
<1>1. Now \in Nat /\ Now' \in Nat
  <2>1. last \in Nat \X (0 .. 3) \X Int /\ last' \in Nat \X (0 .. 3) \X Int
    BY DEF RelayInv, QueueInv, RelayQueueOK
  <2>. QED
    BY <2>1 DEF Now
<1>2. CASE last' = last
  BY <1>1, <1>2 DEF Now
<1>3. ASSUME NEW e \in queue, last' = Sched!Key(e) PROVE Now' >= Now
  <2>1. Sched!Before(last, Sched!Key(e)) /\ Now' = e.time /\ Sched!Key(e)[1] = e.time
    BY <1>3 DEF Sched!KeysAhead, Now, Sched!Key
  <2>2. last[1] < e.time \/ last[1] = e.time
    BY <2>1 DEF Sched!Before
  <2>. QED
    BY <1>1, <2>1, <2>2 DEF Now
<1>4. last' = last \/ \E e \in queue : last' = Sched!Key(e)
  BY DEF Sched!SchedulerNext, Sched!HostCall, Sched!StartRun, Sched!ReturnFromRun,
         Sched!Dispatch, Sched!Skip, Sched!sched
<1>. QED
  BY <1>1, <1>2, <1>3, <1>4

LEMMA TimeGoesForward ==
  ASSUME OrderInv, ~PastAllowed, [RelayNext]_relayVars
  PROVE  Now' >= Now /\ Now \in Nat /\ Now' \in Nat
BY RelayStep, TimeMoves DEF OrderInv

(* What the loop takes first of two entries of one kind.                   *)
LEMMA TopIsSooner ==
  ASSUME RelayInv, NEW e \in queue, NEW kind, Pops(e, kind),
         NEW x \in queue, x.kind = e.kind, x # e
  PROVE  Sooner(e, x)
<1>1. Sched!Before(Sched!Key(e), Sched!Key(x))
  BY DEF Pops, Sched!IsTop
<1>2. Sched!PhaseOf(e.kind) \in 0 .. 3
  BY PhaseRange
<1>3. /\ Sched!Key(e) = <<e.time, Sched!PhaseOf(e.kind), e.serial>>
      /\ Sched!Key(x) = <<x.time, Sched!PhaseOf(e.kind), x.serial>>
  BY DEF Sched!Key
<1>. QED
  BY <1>1, <1>2, <1>3 DEF Sched!Before, Sooner

LEMMA SoonerIsStrict ==
  ASSUME RelayInv, NEW x \in InTransit, NEW y \in InTransit, Sooner(x, y) PROVE ~Sooner(y, x)
BY TransitTypes DEF Sooner

LEMMA LineFrames ==
  ASSUME RelayInv, NEW p \in Port, NEW j \in DOMAIN Line(p)
  PROVE  Line(p)[j] \in Indices /\ Line(p)[j] \in Nat
<1>1. Line(p)[j] \in Indices
  BY LineType, ElementOfSeq DEF RelayInv
<1>. QED
  BY <1>1, TransitTypes

LEMMA StillIsOrdered ==
  ASSUME SteadyBridge, ~PastAllowed, OrderInv, [RelayNext]_relayVars, Still, PortsPlugged'
  PROVE  Ordered'
<1>1. /\ Coming' = Coming /\ Going' = Going
      /\ \A p \in Port : Line(p)' = Line(p) /\ SerializerOf(p)' = SerializerOf(p)
  BY SerializersStay DEF Still, LinesStay, Coming, Going, OrderInv, PlacedInv
<1>2. Now' >= Now /\ Now \in Nat /\ Now' \in Nat /\ DecodeTime \in Nat
  BY TimeGoesForward, RelayAssumption
<1>3. \A x \in Coming \cup Going : x.time \in Nat
  BY TransitTypes DEF Coming, Going, OrderInv
<1>4. DecodedInOrder'
  BY <1>1, <1>2, <1>3 DEF OrderInv, Ordered, DecodedInOrder
<1>5. GoingInOrder'
  BY <1>1, <1>2, <1>3 DEF OrderInv, Ordered, GoingInOrder
<1>6. LinesInOrder'
  BY <1>1 DEF OrderInv, Ordered, LinesInOrder
<1>. QED
  BY <1>4, <1>5, <1>6 DEF Ordered

LEMMA TakenInIsOrdered ==
  ASSUME SteadyBridge, ~PastAllowed, OrderInv, [RelayNext]_relayVars, PortsPlugged',
         NEW e \in queue, RelayFrontArrive(e)
  PROVE  Ordered'
<1>0. PICK x : x = EligibleEntry(e.time + DecodeTime, serial, e.node, Len(relayed) + 1)
  OBVIOUS
<1>1. /\ InTransit' = InTransit \cup {x} /\ LinesStay /\ last' = Sched!Key(e)
  BY <1>0, TakesIn
<1>2. /\ x.kind = "FrameEligible" /\ x.frame = Len(relayed) + 1
      /\ x.time = e.time + DecodeTime /\ x.serial = serial
  BY <1>0 DEF EligibleEntry
<1>3. /\ Coming' = Coming \cup {x} /\ Going' = Going
      /\ \A p \in Port : Line(p)' = Line(p) /\ SerializerOf(p)' = SerializerOf(p)
  BY <1>1, <1>2, SerializersStay DEF LinesStay, Coming, Going, OrderInv, PlacedInv
<1>4. /\ Now' = e.time /\ Now' >= Now /\ Now \in Nat /\ Now' \in Nat /\ DecodeTime \in Nat
  BY <1>1, TimeGoesForward, RelayAssumption DEF Now, Sched!Key
<1>5. \A y \in Coming \cup Going : /\ y.time \in Nat /\ y.serial \in Nat /\ y.serial < serial
                                   /\ y.frame \in Nat /\ y.frame < x.frame
  BY <1>2, TransitTypes DEF Coming, Going, OrderInv
<1>6. \A p \in Port : \A j \in DOMAIN Line(p) : Line(p)[j] < x.frame
  BY <1>2, LineFrames, TransitTypes DEF OrderInv
<1>7. serial \in Nat /\ x.frame \in Nat
  BY <1>2, TransitTypes DEF OrderInv
<1>8. DecodedInOrder'
  <2>1. \A y \in Coming : y.time <= Now + DecodeTime /\ y.time <= x.time
    BY <1>2, <1>4, <1>5 DEF OrderInv, Ordered, DecodedInOrder
  <2>2. \A y \in Coming' : y.time <= Now' + DecodeTime
    BY <1>2, <1>3, <1>4, <1>5, <2>1
  <2>3. \A y \in Coming : Sooner(y, x)
    BY <1>2, <1>4, <1>5, <1>7, <2>1 DEF Sooner
  <2>4. \A y \in Coming : ~(x.frame < y.frame)
    BY <1>5, <1>7
  <2>5. ~(x.frame < x.frame)
    BY <1>7
  <2>6. \A y, z \in Coming : y.frame < z.frame => Sooner(y, z)
    BY DEF OrderInv, Ordered, DecodedInOrder
  <2>7. \A y, z \in Coming \cup {x} : y.frame < z.frame => Sooner(y, z)
    BY <2>3, <2>4, <2>5, <2>6
  <2>. QED
    BY <1>3, <2>2, <2>7 DEF DecodedInOrder
<1>9. GoingInOrder'
  BY <1>3, <1>4, <1>5 DEF OrderInv, Ordered, GoingInOrder
<1>10. LinesInOrder'
  BY <1>3, <1>6 DEF OrderInv, Ordered, LinesInOrder
<1>. QED
  BY <1>8, <1>9, <1>10 DEF Ordered

LEMMA FloodedIsOrdered ==
  ASSUME SteadyBridge, ~PastAllowed, OrderInv, [RelayNext]_relayVars, PortsPlugged',
         NEW e \in queue, HandleFrameEligible(e)
  PROVE  Ordered'
<1>. DEFINE new == {EnqueueFor(e, p) : p \in Port \ {e.node}}
<1>1. /\ e \in InTransit /\ e.kind = "FrameEligible" /\ e.node \in Port
      /\ InTransit' = (InTransit \ {e}) \cup new
      /\ LinesStay /\ last' = Sched!Key(e)
  BY Floods DEF OrderInv, PlacedInv
<1>2. \A f \in new : /\ f.kind = "Enqueue" /\ f.frame = e.frame /\ f.time = e.time
                     /\ f.serial \in Nat /\ f.serial >= serial
  BY TransitTypes, PortFacts DEF EnqueueFor, SerializerEntry, OrderInv
<1>. HIDE DEF new
<1>3. /\ Coming' = Coming \ {e} /\ Going' = Going \cup new /\ e \in Coming
      /\ \A p \in Port : Line(p)' = Line(p) /\ SerializerOf(p)' = SerializerOf(p)
  BY <1>1, <1>2, SerializersStay DEF LinesStay, Coming, Going, OrderInv, PlacedInv
<1>4. /\ Now' = e.time /\ Now' >= Now /\ Now \in Nat /\ Now' \in Nat /\ DecodeTime \in Nat
  BY <1>1, TimeGoesForward, RelayAssumption DEF Now, Sched!Key
<1>5. /\ serial \in Nat
      /\ \A y \in Coming \cup Going : /\ y.time \in Nat /\ y.serial \in Nat
                                      /\ y.serial < serial /\ y.frame \in Nat
  BY TransitTypes DEF Coming, Going, OrderInv
<1>6. ASSUME NEW y \in Coming, y # e PROVE e.frame < y.frame
  <2>1. y.frame # e.frame
    <3>1. e.frame \in Indices /\ e \in Decoding(e.frame)
      BY <1>1, TransitTypes DEF OrderInv, Decoding
    <3>2. AtMostOne(Decoding(e.frame))
      BY <1>1, <3>1 DEF OrderInv, PlacedInv, Placed, PlaceOf, SinglePlace
    <3>. QED
      BY <1>1, <1>6, <3>1, <3>2 DEF AtMostOne, Decoding, Coming
  <2>2. Sooner(e, y)
    BY <1>1, <1>6, TopIsSooner DEF OrderInv, HandleFrameEligible, Coming, InTransit
  <2>3. ~(y.frame < e.frame)
    BY <1>1, <1>3, <1>6, <2>2, SoonerIsStrict DEF OrderInv, Ordered, DecodedInOrder, Coming
  <2>. QED
    BY <1>3, <1>5, <2>1, <2>3
<1>7. DecodedInOrder'
  BY <1>3, <1>4, <1>5 DEF OrderInv, Ordered, DecodedInOrder
<1>8. GoingInOrder'
  <2>1. \A y \in Going : y.time <= Now /\ y.frame < e.frame
    BY <1>3 DEF OrderInv, Ordered, GoingInOrder
  <2>2. \A y \in Going' : y.time <= Now'
    BY <1>2, <1>3, <1>4, <1>5, <2>1
  <2>3. \A y \in Going', z \in Coming' : y.frame < z.frame
    BY <1>2, <1>3, <1>6 DEF OrderInv, Ordered, GoingInOrder
  <2>4. \A y \in Going, f \in new : Sooner(y, f) /\ ~(f.frame < y.frame)
    BY <1>2, <1>3, <1>4, <1>5, <2>1 DEF Sooner
  <2>5. \A f, g \in new : ~(f.frame < g.frame)
    BY <1>2, <1>3, <1>5
  <2>6. \A y, z \in Going : y.serializer = z.serializer /\ y.frame < z.frame => Sooner(y, z)
    BY DEF OrderInv, Ordered, GoingInOrder
  <2>7. \A y, z \in Going \cup new : y.serializer = z.serializer /\ y.frame < z.frame
                                       => Sooner(y, z)
    BY <2>4, <2>5, <2>6
  <2>. QED
    BY <1>3, <2>2, <2>3, <2>7 DEF GoingInOrder
<1>9. LinesInOrder'
  BY <1>2, <1>3 DEF OrderInv, Ordered, LinesInOrder
<1>. QED
  BY <1>7, <1>8, <1>9 DEF Ordered

LEMMA QueuedIsOrdered ==
  ASSUME SteadyBridge, ~PastAllowed, OrderInv, [RelayNext]_relayVars, PortsPlugged',
         NEW e \in queue, HandleEnqueue(e)
  PROVE  Ordered'
<1>1. /\ e \in InTransit /\ e.kind = "Enqueue" /\ e.frame \in Indices
      /\ InTransit' = InTransit \ {e}
      /\ \A p \in Port : Line(p)' = IF e.serializer = SerializerOf(p)
                                    THEN Append(Line(p), e.frame) ELSE Line(p)
  BY Queues DEF OrderInv, PlacedInv
<1>2. /\ Coming' = Coming /\ Going' = Going \ {e} /\ e \in Going
      /\ \A p \in Port : SerializerOf(p)' = SerializerOf(p)
  BY <1>1, SerializersStay DEF Coming, Going, OrderInv, PlacedInv
<1>3. Now' >= Now /\ Now \in Nat /\ Now' \in Nat /\ DecodeTime \in Nat
  BY TimeGoesForward, RelayAssumption
<1>4. \A y \in Coming \cup Going : y.time \in Nat /\ y.frame \in Nat
  BY TransitTypes DEF Coming, Going, OrderInv
<1>5. DecodedInOrder'
  BY <1>2, <1>3, <1>4 DEF OrderInv, Ordered, DecodedInOrder
<1>6. GoingInOrder'
  BY <1>2, <1>3, <1>4 DEF OrderInv, Ordered, GoingInOrder
<1>7. ASSUME NEW p \in Port, e.serializer = SerializerOf(p)
      PROVE  /\ \A y \in Coming : e.frame < y.frame
             /\ \A y \in Going \ {e} : y.serializer = SerializerOf(p) => e.frame < y.frame
             /\ \A j \in DOMAIN Line(p) : Line(p)[j] < e.frame
  <2>1. \A y \in Coming : e.frame < y.frame
    BY <1>2 DEF OrderInv, Ordered, GoingInOrder
  <2>2. ASSUME NEW y \in Going, y # e, y.serializer = SerializerOf(p) PROVE e.frame < y.frame
    <3>1. y.frame # e.frame
      <4>1. AtMostOne(Bound(p, e.frame)) /\ e \in Bound(p, e.frame)
        BY <1>1, <1>7 DEF OrderInv, PlacedInv, Placed, PlaceOf, SinglePlace, Bound
      <4>. QED
        BY <2>2, <4>1 DEF AtMostOne, Bound, Going
    <3>2. Sooner(e, y)
      BY <1>1, <2>2, TopIsSooner DEF OrderInv, HandleEnqueue, Going, InTransit
    <3>3. ~(y.frame < e.frame)
      BY <1>2, <1>7, <2>2, <3>2, SoonerIsStrict DEF OrderInv, Ordered, GoingInOrder, Going
    <3>. QED
      BY <1>2, <1>4, <3>1, <3>3
  <2>3. \A j \in DOMAIN Line(p) : Line(p)[j] < e.frame
    BY <1>2, <1>7 DEF OrderInv, Ordered, LinesInOrder
  <2>. QED
    BY <2>1, <2>2, <2>3
<1>8. ASSUME NEW p \in Port, NEW j \in DOMAIN Line(p)'
      PROVE  /\ \A x \in Coming' : Line(p)'[j] < x.frame
             /\ \A x \in Going' : x.serializer = SerializerOf(p)' => Line(p)'[j] < x.frame
             /\ \A k \in DOMAIN Line(p)' : j < k => Line(p)'[j] < Line(p)'[k]
  <2>1. CASE e.serializer # SerializerOf(p)
    BY <1>1, <1>2, <1>8, <2>1 DEF OrderInv, Ordered, LinesInOrder
  <2>2. CASE e.serializer = SerializerOf(p)
    <3>1. PICK L : L = Line(p) /\ L \in Seq(Indices)
      BY LineType DEF OrderInv, RelayInv
    <3>2. Line(p)' = Append(L, e.frame)
      BY <1>1, <2>2, <3>1
    <3>3. /\ DOMAIN Line(p)' = 1 .. (Len(L) + 1) /\ Len(L) \in Nat /\ DOMAIN L = 1 .. Len(L)
          /\ \A k \in 1 .. Len(L) : Line(p)'[k] = L[k]
          /\ Line(p)'[Len(L) + 1] = e.frame
      BY <1>1, <3>1, <3>2
    <3>4. \A k \in 1 .. Len(L) :
            /\ \A x \in Coming : L[k] < x.frame
            /\ \A x \in Going : x.serializer = SerializerOf(p) => L[k] < x.frame
            /\ \A m \in 1 .. Len(L) : k < m => L[k] < L[m]
            /\ L[k] < e.frame
      BY <1>7, <2>2, <3>1, <3>3 DEF OrderInv, Ordered, LinesInOrder
    <3>5. \A x \in Coming' : Line(p)'[j] < x.frame
      BY <1>2, <1>7, <1>8, <2>2, <3>3, <3>4
    <3>6. \A x \in Going' : x.serializer = SerializerOf(p)' => Line(p)'[j] < x.frame
      BY <1>2, <1>7, <1>8, <2>2, <3>3, <3>4
    <3>7. ASSUME NEW k \in DOMAIN Line(p)', j < k PROVE Line(p)'[j] < Line(p)'[k]
      BY <1>8, <3>3, <3>4, <3>7
    <3>. QED
      BY <3>5, <3>6, <3>7
  <2>. QED
    BY <2>1, <2>2
<1>9. LinesInOrder'
  BY <1>8 DEF LinesInOrder
<1>. QED
  BY <1>5, <1>6, <1>9 DEF Ordered

LEMMA OrderedStep ==
  ASSUME SteadyBridge, ~PastAllowed, OrderInv, [RelayNext]_relayVars PROVE Ordered'
<1>1. PortsPlugged'
  BY PortsStayPlugged DEF OrderInv, PlacedInv
<1>. QED
  BY <1>1, RelayMoves, StillIsOrdered, TakenInIsOrdered, FloodedIsOrdered, QueuedIsOrdered
     DEF OrderInv, PlacedInv

LEMMA OrderedStarts == RelayInit => Ordered
<1> SUFFICES ASSUME RelayInit PROVE Ordered
  OBVIOUS
<1>1. InTransit = {} /\ \A p \in Port : Line(p) = <<>>
  BY DEF RelayInit, Init, Sched!SchedulerInit, InTransit, Line
<1>. QED
  BY <1>1 DEF Ordered, DecodedInOrder, GoingInOrder, LinesInOrder, Coming, Going

LEMMA OrderedSends == RelayTypeOK /\ LinesInOrder => SentInOrder
<1> SUFFICES ASSUME RelayTypeOK, LinesInOrder, NEW p \in Port,
                    NEW j \in DOMAIN sent[p], NEW k \in DOMAIN sent[p], j < k
             PROVE  sent[p][j] < sent[p][k]
  BY DEF SentInOrder
<1>1. PICK s, q : /\ s = sent[p] /\ s \in Seq(Indices) /\ q \in Seq(Indices)
                  /\ Line(p) = s \o q
  BY DEF RelayTypeOK, Line
<1>2. \A m \in DOMAIN sent[p] : m \in DOMAIN Line(p) /\ Line(p)[m] = sent[p][m]
  <2>1. /\ DOMAIN (s \o q) = 1 .. (Len(s) + Len(q)) /\ Len(s) \in Nat /\ Len(q) \in Nat
        /\ DOMAIN s = 1 .. Len(s)
    BY <1>1
  <2>2. \A m \in DOMAIN s : m \in DOMAIN (s \o q) /\ (s \o q)[m] = s[m]
    BY <1>1, <2>1
  <2>. QED
    BY <1>1, <2>2
<1>3. j \in DOMAIN Line(p) /\ k \in DOMAIN Line(p)
  BY <1>2
<1>4. Line(p)[j] < Line(p)[k]
  BY <1>3 DEF LinesInOrder
<1>. QED
  BY <1>2, <1>4

(* Time goes forward in a network with a bridge too, and serials are       *)
(* unique.                                                                 *)
THEOREM RelayKeysAhead == ASSUME ~PastAllowed PROVE RelaySpec => []Sched!KeysAhead
<1>1. RelaySpec => SP!SchedulerSpec
  BY RelayIsAScheduler, SameMachine, PTL
     DEF ImplementsScheduler, Sched!SchedulerSpec, SP!SchedulerSpec
<1>. QED
  BY <1>1, SP!KeysStayAhead, SameMachine, PTL

(* Cut-through does not reorder: each port sends frames in the order in    *)
(* which the bridge took them in, whatever port they came from, although   *)
(* frames of several ports are decoded at once and stale and repeated      *)
(* Dequeues are about.                                                     *)
THEOREM AlwaysSentInOrder ==
  ASSUME SteadyBridge, ~PastAllowed PROVE RelaySpec => []SentInOrder
<1>1. RelayInit => RelayInv /\ PlacedInv /\ FloodedEverywhere /\ Ordered
  BY RelayStarts, PlacedStarts, OrderedStarts
<1>2. /\ RelayInv /\ PlacedInv /\ FloodedEverywhere /\ Sched!KeysAhead /\ Ordered
      /\ [RelayNext]_relayVars
      => RelayInv' /\ PlacedInv' /\ FloodedEverywhere' /\ Ordered'
  BY RelayStep, PlacedStep, OrderedStep DEF OrderInv
<1>3. RelayInv /\ Ordered => SentInOrder
  BY OrderedSends DEF RelayInv, Ordered
<1>. QED
  BY <1>1, <1>2, <1>3, RelayKeysAhead, PTL DEF RelaySpec

---------------------------------------------------------------------------
(***************************************************************************)
(* The learning switch of Switching.                                       *)
(*                                                                         *)
(* Its network differs from that of the bridge in one handler of frames    *)
(* and in the entries for ticks and commands.  Every other step is a step  *)
(* of Relay (SwitchSteps), and what was shown of those carries over.       *)
(***************************************************************************)

Tables == [Mac -> Table!Entry \cup {NoEntry}]
TableTypes == table \in Tables /\ threshold \in Nat /\ scheduled \in BOOLEAN

LEMMA SwitchSteps ==
  ASSUME [SwitchNext]_switchVars
  PROVE  \/ [RelayNext]_relayVars /\ UNCHANGED <<switch, commands, records>>
         \/ Command
         \/ \E e \in queue : SwitchFrameEligible(e)
         \/ \E e \in queue : HandleAgingTick(e)
         \/ \E e \in queue : HandleCommandApplied(e)
BY DEF SwitchNext, HostNext, DispatchNext, SwitchHandle, RelayNext, RelayHandle, switchVars

LEMMA EntryType ==
  ASSUME NEW p \in Port, NEW t \in Nat, NEW b \in BOOLEAN
  PROVE  [port |-> p, at |-> t, manual |-> b] \in Table!Entry
BY DEF Table!Entry

LEMMA InsertTyped ==
  ASSUME NEW t \in Tables, NEW m, NEW x \in Table!Entry
  PROVE  Table!Insert(t, m, x) \in Tables
BY DEF Tables, Table!Insert

LEMMA Learnt ==
  ASSUME RelayInv, TableTypes, NEW e \in queue, SwitchFrameEligible(e)
  PROVE  /\ e.kind = "FrameEligible" /\ e.node \in Port /\ e.time \in Nat
         /\ e.frame \in Indices /\ serial \in Nat
         /\ table' \in Tables /\ threshold' = threshold
<1>1. /\ e.kind = "FrameEligible" /\ e.node \in Port /\ e.time \in Nat
      /\ e.frame \in Indices /\ serial \in Nat
  BY PoppedByBridge, NetworkFields DEF SwitchFrameEligible, RelayKinds
<1>2. \A m : Table!Insert(table, m, [port |-> e.node, at |-> e.time, manual |-> FALSE]) \in Tables
  BY <1>1, EntryType, InsertTyped DEF TableTypes
<1>. QED
  BY <1>1, <1>2 DEF SwitchFrameEligible, TableTypes

LEMMA AddressTypes ==
  ASSUME RelayInv, NEW i \in Indices
  PROVE  Source(i) \in Mac /\ Destination(i) \in Mac
<1>1. relayed[i] \in Relayed
  BY DEF RelayInv, RelayTypeOK, Indices
<1>2. relayed[i].copy \in Frame \cup {NoFrame}
  BY <1>1 DEF Relayed
<1>. QED
  BY <1>2, SwitchingAssumption DEF Source, Destination, Table!Zero

LEMMA EgressIsElsewhere ==
  ASSUME NEW t \in Tables, NEW d \in Mac, NEW q \in Port
  PROVE  Egress(t, d, q) \subseteq Port \ {q}
<1>1. t[d] # NoEntry => t[d].port \in Port
  BY DEF Tables, Table!Entry
<1>. QED
  BY <1>1 DEF Egress, EgressPorts

LEMMA TableTypesKept ==
  ASSUME RelayInv, TableTypes, [SwitchNext]_switchVars PROVE TableTypes'
<1>1. CASE UNCHANGED switch
  BY <1>1 DEF TableTypes, switch
<1>2. ASSUME NEW e \in queue, SwitchFrameEligible(e) PROVE TableTypes'
  <2>1. scheduled' \in BOOLEAN
    BY <1>2 DEF SwitchFrameEligible
  <2>. QED
    BY <1>2, <2>1, Learnt DEF TableTypes
<1>3. ASSUME NEW e \in queue, HandleAgingTick(e) PROVE TableTypes'
  BY <1>3 DEF HandleAgingTick, TableTypes, Tables
<1>4. ASSUME NEW e \in queue, HandleCommandApplied(e) PROVE TableTypes'
  BY <1>1, <1>4 DEF HandleCommandApplied
<1>5. CASE Command
  <2>1. scheduled' = scheduled
    BY <1>5 DEF Command, InsertMacEntry, RemoveMacEntry, FlushMacTable,
                SetSwitchAgingThreshold, Applies
  <2>2. ASSUME NEW m \in Mac, NEW p \in Port, InsertMacEntry(m, p) PROVE TableTypes'
    BY <2>1, <2>2, EntryType, InsertTyped DEF InsertMacEntry, TableTypes
  <2>3. ASSUME NEW m \in Mac, RemoveMacEntry(m) PROVE TableTypes'
    BY <2>1, <2>3 DEF RemoveMacEntry, TableTypes, Tables
  <2>4. CASE FlushMacTable
    BY <2>1, <2>4 DEF FlushMacTable, TableTypes, Tables
  <2>5. ASSUME NEW h \in Thresholds, SetSwitchAgingThreshold(h) PROVE TableTypes'
    BY <2>1, <2>5, SwitchingAssumption DEF SetSwitchAgingThreshold, TableTypes
  <2>. QED
    BY <1>5, <2>2, <2>3, <2>4, <2>5 DEF Command
<1>. QED
  BY <1>1, <1>2, <1>3, <1>4, <1>5, SwitchSteps

(* What the handlers of the switch push.                                   *)
LEMMA TickFor ==
  ASSUME NEW t, NEW due, NEW time, NextTick(t, due, time) # {}
  PROVE  /\ threshold # 0 /\ NextTick(t, due, time) = {AgingEntry(time + threshold, serial)}
         /\ ~due
BY DEF NextTick

LEMMA RelayStays ==
  ASSUME RelayInv, UNCHANGED <<mac, world, history, relay>>
  PROVE  RelayTypeOK' /\ Indices' = Indices /\ relayed' = relayed
<1>1. MacOK' /\ WorldOK' /\ HistoryOK'
  BY SettingsStay DEF RelayInv, RelayTypeOK, MacOK, HistoryOK, mac, history
<1>. QED
  BY <1>1, RelayUnchanged DEF RelayInv

SwitchEnqueue(e, p) ==
  SerializerEntry("Enqueue", e.time, serial + 1 + PortNo[p], SerializerOf(p), e.frame)

EgressOf(e) == Egress(table', Destination(e.frame), e.node)

(* The switch learns, arms the tick, and forwards to the ports of its      *)
(* decision.                                                               *)
LEMMA SwitchEmits ==
  ASSUME RelayInv, TableTypes, NEW e \in queue, SwitchFrameEligible(e)
  PROVE  \E tick : /\ tick = {} \/ (/\ tick = {AgingEntry(e.time + threshold, serial)}
                                    /\ threshold # 0 /\ ~scheduled)
                   /\ Emits(e, tick \cup {SwitchEnqueue(e, p) : p \in EgressOf(e)},
                            Cardinality(Port) + 1)
                   /\ EgressOf(e) \subseteq Port \ {e.node}
                   /\ scheduled' = (scheduled \/ tick # {})
<1>. DEFINE m == Source(e.frame)
            learns == m # Table!Zero /\ Table!Learns(m)
            tick == IF learns THEN NextTick(table', scheduled, e.time) ELSE {}
<1>1. tick = {} \/ (/\ tick = {AgingEntry(e.time + threshold, serial)}
                    /\ threshold # 0 /\ ~scheduled)
  BY TickFor
<1>2. EgressOf(e) \subseteq Port \ {e.node}
  BY Learnt, AddressTypes, EgressIsElsewhere DEF EgressOf
<1>3. Emits(e, tick \cup {SwitchEnqueue(e, p) : p \in EgressOf(e)}, Cardinality(Port) + 1)
  BY DEF SwitchFrameEligible, EgressOf, SwitchEnqueue
<1>4. scheduled' = (scheduled \/ tick # {})
  BY DEF SwitchFrameEligible
<1>. HIDE DEF tick
<1>. QED
  BY <1>1, <1>2, <1>3, <1>4

LEMMA AgingEntryFields ==
  ASSUME NEW t \in Nat, NEW s \in Nat
  PROVE  /\ AgingEntry(t, s) \in RelayEntrySet
         /\ AgingEntry(t, s).kind = "AgingTick" /\ AgingEntry(t, s).time = t
         /\ AgingEntry(t, s).serial = s
         /\ CommandEntry(t, s) \in RelayEntrySet
         /\ CommandEntry(t, s).kind = "DeviceCommandApplied" /\ CommandEntry(t, s).time = t
         /\ CommandEntry(t, s).serial = s
BY DEF AgingEntry, CommandEntry, RelayEntrySet

LEMMA SwitchEligibleKeeps ==
  ASSUME RelayInv, TableTypes, NEW e \in queue, SwitchFrameEligible(e)
  PROVE  NetKeeps(e)
<1>1. PICK tick : /\ tick = {} \/ (/\ tick = {AgingEntry(e.time + threshold, serial)}
                                   /\ threshold # 0 /\ ~scheduled)
                  /\ Emits(e, tick \cup {SwitchEnqueue(e, p) : p \in EgressOf(e)},
                           Cardinality(Port) + 1)
                  /\ EgressOf(e) \subseteq Port \ {e.node}
  BY SwitchEmits
<1>2. PICK E : E = EgressOf(e) /\ E \subseteq Port
  BY <1>1
<1>3. PICK k : k = Cardinality(Port) + 1
  OBVIOUS
<1>4. k \in Nat /\ \A p \in Port : PortNo[p] \in Nat /\ 1 + PortNo[p] \in 1 .. (k - 1)
  BY <1>3, PortFacts
<1>5. /\ e.kind = "FrameEligible" /\ e.time \in Nat /\ serial \in Nat /\ threshold \in Nat
      /\ e.frame \in Indices /\ e.frame \in Nat
  BY Learnt, TransitTypes DEF TableTypes
<1>6. ASSUME NEW p \in E
      PROVE  LET f == SwitchEnqueue(e, p) IN
             /\ f \in RelayEntrySet /\ f.serial = serial + 1 + PortNo[p]
             /\ f.kind = "Enqueue" /\ f.time = e.time /\ f.frame = e.frame
  <2>1. serial + 1 + PortNo[p] \in Nat /\ SerializerOf(p) \in Nat
    BY <1>2, <1>4, <1>5, SerializerType
  <2>. QED
    BY <1>5, <2>1, NetworkEntries DEF SwitchEnqueue, SerializerEntry
<1>7. \A f \in tick : /\ f \in RelayEntrySet /\ f.serial = serial /\ f.kind = "AgingTick"
                      /\ f.time > e.time
  <2>1. tick # {} => e.time + threshold \in Nat /\ e.time + threshold > e.time
    BY <1>1, <1>5
  <2>. QED
    BY <1>1, <1>5, <2>1, AgingEntryFields
<1>8. PICK new : new = tick \cup {SwitchEnqueue(e, p) : p \in E}
  OBVIOUS
<1>9. ASSUME NEW f \in new
      PROVE  /\ f \in RelayEntrySet /\ f.serial \in serial .. (serial + k - 1)
             /\ \/ f.time > e.time
                \/ f.time = e.time /\ Sched!PhaseOf(e.kind) <= Sched!PhaseOf(f.kind)
             /\ f.kind \in {"AgingTick", "Enqueue"}
             /\ f.kind \in RelayKinds => f.frame = e.frame
  <2>1. CASE f \in tick
    BY <1>4, <1>5, <1>7, <1>3, PortFacts, <2>1 DEF RelayKinds
  <2>2. ASSUME NEW p \in E, f = SwitchEnqueue(e, p) PROVE
             /\ f \in RelayEntrySet /\ f.serial \in serial .. (serial + k - 1)
             /\ f.time = e.time /\ f.kind = "Enqueue" /\ f.frame = e.frame
    <3>1. f.serial = serial + 1 + PortNo[p]
      BY <1>6, <2>2
    <3>2. serial + 1 + PortNo[p] \in serial .. (serial + k - 1)
      BY <1>2, <1>4, <1>5
    <3>. QED
      BY <1>6, <2>2, <3>1, <3>2
  <2>3. Sched!PhaseOf(e.kind) = 2 /\ Sched!PhaseOf("Enqueue") = 3
    BY <1>5, RelayPhases
  <2>. QED
    BY <1>8, <1>9, <2>1, <2>2, <2>3
<1>10. ASSUME NEW f \in new, NEW g \in new, f.serial = g.serial PROVE f = g
  <2>1. CASE f \in tick \/ g \in tick
    <3>1. \A p \in E : SwitchEnqueue(e, p).serial # serial
      BY <1>2, <1>4, <1>5, <1>6
    <3>. QED
      BY <1>1, <1>7, <1>8, <1>10, <2>1, <3>1
  <2>2. ASSUME NEW p \in E, NEW q \in E, f = SwitchEnqueue(e, p), g = SwitchEnqueue(e, q)
        PROVE  f = g
    <3>1. serial + 1 + PortNo[p] = serial + 1 + PortNo[q]
      BY <1>6, <1>10, <2>2
    <3>2. PortNo[p] = PortNo[q]
      BY <1>2, <1>4, <1>5, <3>1
    <3>3. p = q
      BY <1>2, <3>2, RelayAssumption
    <3>. QED
      BY <2>2, <3>3
  <2>. QED
    BY <1>8, <2>1, <2>2
<1>11. FreshIn(RelayEntrySet, e, new, k)
  BY <1>4, <1>9, <1>10 DEF FreshIn
<1>12. RelayTypeOK' /\ Indices' = Indices /\ relayed' = relayed
  <2>1. UNCHANGED <<mac, world, history, relay>>
    BY DEF SwitchFrameEligible, Emits
  <2>. QED
    BY <2>1, RelayStays
<1>13. NetPushes(e)
  <2>1. Emits(e, new, k)
    BY <1>1, <1>2, <1>3, <1>8
  <2>. QED
    BY <1>5, <1>9, <1>11, <1>12, <2>1 DEF NetPushes
<1>. QED
  BY <1>12, <1>13 DEF NetKeeps, RelayInv

(* The tick drops old entries and arms the next one if any are left.       *)
LEMMA TickEmits ==
  ASSUME TableTypes, NEW e \in queue, HandleAgingTick(e)
  PROVE  \E tick : /\ tick = {} \/ (/\ tick = {AgingEntry(e.time + threshold, serial)}
                                    /\ threshold # 0)
                   /\ Emits(e, tick, 1) /\ scheduled' = (tick # {})
<1>. DEFINE tick == NextTick(table', FALSE, e.time)
<1>1. tick = {} \/ (tick = {AgingEntry(e.time + threshold, serial)} /\ threshold # 0)
  BY TickFor
<1>2. Emits(e, tick, 1) /\ scheduled' = (tick # {})
  BY DEF HandleAgingTick
<1>. HIDE DEF tick
<1>. QED
  BY <1>1, <1>2

LEMMA AgingKeeps ==
  ASSUME RelayInv, TableTypes, NEW e \in queue, HandleAgingTick(e) PROVE NetKeeps(e)
<1>1. PICK tick : /\ tick = {} \/ (/\ tick = {AgingEntry(e.time + threshold, serial)}
                                   /\ threshold # 0)
                  /\ Emits(e, tick, 1)
  BY TickEmits
<1>2. e.time \in Nat /\ serial \in Nat /\ threshold \in Nat
  BY PoppedByBridge DEF HandleAgingTick, TableTypes
<1>3. \A f \in tick : /\ f \in RelayEntrySet /\ f.serial = serial /\ f.kind = "AgingTick"
                      /\ f.time > e.time
  <2>1. tick # {} => e.time + threshold \in Nat /\ e.time + threshold > e.time
    BY <1>1, <1>2
  <2>. QED
    BY <1>1, <1>2, <2>1, AgingEntryFields
<1>4. FreshIn(RelayEntrySet, e, tick, 1)
  <2>1. \A f, g \in tick : f = g
    BY <1>1
  <2>. QED
    BY <1>2, <1>3, <2>1 DEF FreshIn
<1>5. RelayTypeOK' /\ Indices' = Indices /\ relayed' = relayed
  <2>1. UNCHANGED <<mac, world, history, relay>>
    BY <1>1 DEF HandleAgingTick, Emits
  <2>. QED
    BY <2>1, RelayStays
<1>6. NetPushes(e)
  BY <1>1, <1>3, <1>4 DEF NetPushes, RelayKinds
<1>. QED
  BY <1>5, <1>6 DEF NetKeeps, RelayInv

LEMMA MarkerKeeps ==
  ASSUME RelayInv, NEW e \in queue, HandleCommandApplied(e) PROVE NetKeeps(e)
<1>1. Emits(e, {}, 0) /\ UNCHANGED <<mac, world, history, relay>>
  BY DEF HandleCommandApplied, Emits
<1>2. FreshIn(RelayEntrySet, e, {}, 0)
  BY DEF FreshIn
<1>. QED
  BY <1>1, <1>2, RelayStays DEF NetKeeps, NetPushes, RelayInv

(* A command leaves the network alone, but for its marker.                 *)
LEMMA CommandsPush ==
  ASSUME Command
  PROVE  /\ HostPushes({CommandEntry(Now, serial)}, 1)
         /\ UNCHANGED <<cancelled, mac, world, relay, scheduled, hookTime, sighted>>
BY DEF Command, InsertMacEntry, RemoveMacEntry, FlushMacTable, SetSwitchAgingThreshold, Applies

LEMMA CommandSteps ==
  ASSUME RelayInv, Command PROVE RelayInv' /\ Sched!HostCall
<1>1. PICK x : x = CommandEntry(Now, serial)
  OBVIOUS
<1>2. /\ queue' = queue \cup {x} /\ serial' = serial + 1 /\ ~running
      /\ UNCHANGED <<last, running, cancelled, mac, world, history, relay>>
  BY <1>1, CommandsPush DEF HostPushes
<1>3. Now \in Nat /\ serial \in Nat
  BY TransitTypes
<1>4. /\ x \in RelayEntrySet /\ x.kind = "DeviceCommandApplied"
      /\ x.time = Now /\ x.serial = serial
  BY <1>1, <1>3, AgingEntryFields
<1>5. \A f \in queue : f.serial \in Nat /\ f.serial < serial
  BY NetworkFields DEF RelayInv, QueueInv, RelayQueueOK, SerialsUsed
<1>6. RelayTypeOK' /\ Indices' = Indices /\ relayed' = relayed
  BY <1>2, RelayStays
<1>7. RelayQueueOK'
  BY <1>2, <1>3, <1>4 DEF RelayInv, QueueInv, RelayQueueOK
<1>8. SerialsUsed'
  BY <1>2, <1>3, <1>4, <1>5 DEF SerialsUsed
<1>9. StartsOnTime' /\ FramesKnown'
  BY <1>2, <1>4, <1>6 DEF RelayInv, QueueInv, StartsOnTime, FramesKnown, RelayKinds
<1>10. Sched!HostCall
  <2>1. Sched!PhaseOf("DeviceCommandApplied") = 3
    BY DEF Sched!PhaseOf, Sched!Release, Sched!Assertion, Sched!Reaction, Sched!LocalDecision,
           Sched!ReleaseKinds, Sched!AssertionKinds, Sched!ReactionKinds
  <2>2. Sched!Pushes(queue' \ queue)
    BY <1>2, <1>3, <1>4 DEF Sched!Pushes
  <2>3. \A f \in queue' \ queue : f.time >= Sched!Now /\ Sched!PhaseOf(f.kind) = Sched!LocalDecision
    BY <1>2, <1>3, <1>4, <2>1 DEF Sched!Now, Now, Sched!LocalDecision
  <2>. QED
    BY <1>2, <2>2, <2>3 DEF Sched!HostCall
<1>. QED
  BY <1>6, <1>7, <1>8, <1>9, <1>10 DEF RelayInv, QueueInv

LEMMA SwitchStep ==
  ASSUME RelayInv, TableTypes, [SwitchNext]_switchVars
  PROVE  /\ RelayInv' /\ TableTypes'
         /\ PastAllowed \/ [Sched!SchedulerNext]_(Sched!sched)
<1>1. TableTypes'
  BY TableTypesKept
<1>2. CASE [RelayNext]_relayVars
  BY <1>1, <1>2, RelayStep
<1>3. CASE Command
  BY <1>1, <1>3, CommandSteps DEF Sched!SchedulerNext
<1>4. ASSUME NEW e \in queue, NetKeeps(e), NEW kind, Pops(e, kind)
      PROVE  RelayInv' /\ Sched!SchedulerNext
  BY <1>4, NetSteps DEF Sched!SchedulerNext
<1>5. CASE \E e \in queue : SwitchFrameEligible(e)
  BY <1>1, <1>4, <1>5, SwitchEligibleKeeps DEF SwitchFrameEligible
<1>6. CASE \E e \in queue : HandleAgingTick(e)
  BY <1>1, <1>4, <1>6, AgingKeeps DEF HandleAgingTick
<1>7. CASE \E e \in queue : HandleCommandApplied(e)
  BY <1>1, <1>4, <1>7, MarkerKeeps DEF HandleCommandApplied
<1>. QED
  BY <1>2, <1>3, <1>5, <1>6, <1>7, SwitchSteps

LEMMA SwitchStarts == SwitchInit => RelayInit /\ RelayInv /\ Sched!SchedulerInit /\ TableTypes
<1> SUFFICES ASSUME SwitchInit PROVE TableTypes
  BY RelayStarts DEF SwitchInit
<1>. QED
  BY SwitchingAssumption DEF SwitchInit, TableTypes, Tables

(* What a step of the switch does to the frames.                           *)
LEMMA SwitchPortsStayPlugged ==
  ASSUME PortsPlugged, [SwitchNext]_switchVars PROVE PortsPlugged'
<1>1. CASE up' = up
  BY <1>1 DEF PortsPlugged
<1>2. CASE [RelayNext]_relayVars
  BY <1>2, PortsStayPlugged
<1>3. \A e \in queue : SwitchFrameEligible(e) \/ HandleAgingTick(e) \/ HandleCommandApplied(e)
                         => up' = up
  BY DEF SwitchFrameEligible, HandleAgingTick, HandleCommandApplied, Emits, world
<1>4. Command => up' = up
  BY CommandsPush DEF world
<1>. QED
  BY <1>1, <1>2, <1>3, <1>4, SwitchSteps

LEMMA SwitchSpared ==
  ASSUME RelayInv, TableTypes, SparedInv, [SwitchNext]_switchVars PROVE SparedInv'
<1>1. CASE [RelayNext]_relayVars
  BY <1>1, SparedStep
<1>2. ASSUME NEW e \in queue,
             SwitchFrameEligible(e) \/ HandleAgingTick(e) \/ HandleCommandApplied(e)
      PROVE  SparedInv'
  BY <1>2, SwitchEligibleKeeps, AgingKeeps, MarkerKeeps, HandlerSpares
<1>3. CASE Command
  <2>1. PICK x : x = CommandEntry(Now, serial)
    OBVIOUS
  <2>2. queue' = queue \cup {x} /\ serial' = serial + 1 /\ cancelled' = cancelled
    BY <1>3, <2>1, CommandsPush DEF HostPushes
  <2>3. x.serial = serial /\ serial \in Nat
    BY <2>1, TransitTypes DEF CommandEntry
  <2>4. CancelsNodes
    BY <2>2 DEF CancelsNodes
  <2>5. PICK new : new = {x}
    OBVIOUS
  <2>6. \A f \in new : f.serial \in serial .. (serial + 1 - 1)
    BY <2>3, <2>5
  <2>7. \A f, g \in new : f.serial = g.serial => f = g
    BY <2>5
  <2>8. PICK kept \in SUBSET queue : kept = queue
    OBVIOUS
  <2>9. queue' = kept \cup new /\ 1 \in Nat
    BY <2>2, <2>5, <2>8
  <2>. QED
    BY <2>2, <2>4, <2>6, <2>7, <2>9, SparedBatch
<1>. QED
  BY <1>1, <1>2, <1>3, SwitchSteps

LEMMA SwitchForwards ==
  ASSUME SteadyBridge, PortsPlugged, RelayInv, TableTypes,
         NEW e \in queue, SwitchFrameEligible(e)
  PROVE  ForwardsTo(e, EgressOf(e))
<1>1. PICK tick : /\ tick = {} \/ tick = {AgingEntry(e.time + threshold, serial)}
                  /\ Emits(e, tick \cup {SwitchEnqueue(e, p) : p \in EgressOf(e)},
                           Cardinality(Port) + 1)
                  /\ EgressOf(e) \subseteq Port \ {e.node}
  BY SwitchEmits
<1>2. PICK E : E = EgressOf(e)
  OBVIOUS
<1>3. PICK new : new = {SwitchEnqueue(e, p) : p \in E}
  OBVIOUS
<1>4. \A p : /\ SwitchEnqueue(e, p).kind = "Enqueue" /\ SwitchEnqueue(e, p).frame = e.frame
             /\ SwitchEnqueue(e, p).serializer = SerializerOf(p)
  BY DEF SwitchEnqueue, SerializerEntry
<1>5. \A f \in tick : f.kind = "AgingTick"
  BY <1>1 DEF AgingEntry
<1>6. /\ e \in InTransit /\ e.kind = "FrameEligible" /\ e.node \in Port
      /\ relayed' = relayed /\ LinesStay
  <2>1. UNCHANGED <<relayed, egress, sent>>
    BY DEF SwitchFrameEligible, relay
  <2>. QED
    BY <2>1, Learnt, LinesUnchanged DEF InTransit, TransitKinds
<1>7. InTransit' = (InTransit \ {e}) \cup new
  <2>1. queue' = (queue \ {e}) \cup tick \cup new
    BY <1>1, <1>2, <1>3 DEF Emits
  <2>2. \A f \in new : f.kind = "Enqueue"
    BY <1>3, <1>4
  <2>. QED
    BY <1>5, <2>1, <2>2 DEF InTransit, TransitKinds
<1>8. E \subseteq Port \ {e.node}
  BY <1>1, <1>2
<1>9. \A f, g \in new : f.serializer = g.serializer => f = g
  BY <1>3, <1>4, <1>8, SerializersDiffer
<1>10. /\ \A f \in new : /\ f.kind = "Enqueue" /\ f.frame = e.frame
                         /\ \E p \in E : f.serializer = SerializerOf(p)
       /\ \A p \in E : \E f \in new : f.serializer = SerializerOf(p)
  BY <1>3, <1>4
<1>11. ForwardsTo(e, E)
  BY <1>6, <1>7, <1>8, <1>9, <1>10 DEF ForwardsTo
<1>. QED
  BY <1>2, <1>11

LEMMA SwitchMoves ==
  ASSUME RelayInv, TableTypes, SparedInv, [SwitchNext]_switchVars
  PROVE  \/ Still
         \/ \E e \in queue : \/ RelayFrontArrive(e) \/ HandleEnqueue(e)
                             \/ HandleFrameEligible(e) \/ SwitchFrameEligible(e)
<1>1. CASE [RelayNext]_relayVars
  BY <1>1, RelayMoves
<1>2. ASSUME NEW e \in queue, HandleAgingTick(e) PROVE Still
  <2>1. PICK tick : /\ tick = {} \/ tick = {AgingEntry(e.time + threshold, serial)}
                    /\ Emits(e, tick, 1)
    BY <1>2, TickEmits
  <2>2. \A f \in tick : f.kind \notin TransitKinds
    BY <2>1 DEF AgingEntry, TransitKinds
  <2>3. e.kind \notin TransitKinds /\ UNCHANGED <<relayed, egress, sent>>
    BY <1>2 DEF HandleAgingTick, Pops, TransitKinds, relay
  <2>4. InTransit' = InTransit
    BY <2>1, <2>2, <2>3 DEF Emits, InTransit
  <2>. QED
    BY <2>3, <2>4, LinesUnchanged DEF Still
<1>3. ASSUME NEW e \in queue, HandleCommandApplied(e) PROVE Still
  <2>1. /\ queue' = queue \ {e} /\ e.kind \notin TransitKinds
        /\ UNCHANGED <<relayed, egress, sent>>
    BY <1>3 DEF HandleCommandApplied, Emits, Pops, TransitKinds, relay
  <2>. QED
    BY <2>1, LinesUnchanged DEF Still, InTransit
<1>4. CASE Command
  <2>1. PICK x : x = CommandEntry(Now, serial)
    OBVIOUS
  <2>2. queue' = queue \cup {x} /\ UNCHANGED <<relayed, egress, sent>>
    BY <1>4, <2>1, CommandsPush DEF HostPushes, relay
  <2>3. x.kind \notin TransitKinds
    BY <2>1 DEF CommandEntry, TransitKinds
  <2>. QED
    BY <2>2, <2>3, LinesUnchanged DEF Still, InTransit
<1>. QED
  BY <1>1, <1>2, <1>3, <1>4, SwitchSteps

LEMMA SwitchPlaces ==
  ASSUME SteadyBridge, RelayInv, TableTypes, PlacedInv, [SwitchNext]_switchVars
  PROVE  PlacedInv'
<1>1. PortsPlugged' /\ SparedInv'
  BY SwitchPortsStayPlugged, SwitchSpared DEF PlacedInv
<1>2. Placed'
  <2>1. CASE Still
    BY <1>1, <2>1, StillIsPlaced
  <2>2. ASSUME NEW e \in queue, RelayFrontArrive(e) PROVE Placed'
    BY <1>1, <2>2, TakenInIsPlaced
  <2>3. ASSUME NEW e \in queue, HandleFrameEligible(e) PROVE Placed'
    BY <1>1, <2>3, FloodsForward, ForwardedIsPlaced DEF PlacedInv
  <2>4. ASSUME NEW e \in queue, SwitchFrameEligible(e) PROVE Placed'
    BY <1>1, <2>4, SwitchForwards, ForwardedIsPlaced DEF PlacedInv
  <2>5. ASSUME NEW e \in queue, HandleEnqueue(e) PROVE Placed'
    BY <1>1, <2>5, QueuedIsPlaced
  <2>. QED
    BY <2>1, <2>2, <2>3, <2>4, <2>5, SwitchMoves DEF PlacedInv
<1>. QED
  BY <1>1, <1>2 DEF PlacedInv

(* Whatever the switch has learned, forgotten or been told, no frame goes  *)
(* back to the port it came from, and none twice to another.               *)
THEOREM AlwaysForwardedAway ==
  ASSUME SteadyBridge PROVE SwitchSpec => []NeverReflectedNorRepeated
<1>1. SwitchInit => RelayInv /\ TableTypes /\ PlacedInv
  BY SwitchStarts, PlacedStarts
<1>2. RelayInv /\ TableTypes /\ PlacedInv /\ [SwitchNext]_switchVars
      => RelayInv' /\ TableTypes' /\ PlacedInv'
  BY SwitchStep, SwitchPlaces
<1>3. RelayInv /\ PlacedInv => NeverReflectedNorRepeated
  <2> SUFFICES ASSUME RelayTypeOK, Placed, NEW i \in Indices, NEW p \in Port
               PROVE  Places(p, i) <= IF p = relayed[i].ingress THEN 0 ELSE 1
    BY DEF RelayInv, PlacedInv, NeverReflectedNorRepeated
  <2>1. PICK n : n = Places(p, i)
    OBVIOUS
  <2>2. IF p = relayed[i].ingress THEN n = 0 ELSE n <= 1
    BY <2>1, CountPlaces DEF Placed, Places
  <2>. QED
    BY <2>1, <2>2
<1>. QED
  BY <1>1, <1>2, <1>3, PTL DEF SwitchSpec

---------------------------------------------------------------------------
(* The ticks of the switch are entries of the engine's queue; nobody else  *)
(* adds one or takes one away.                                             *)

LEMMA OnlyOthersPush ==
  ASSUME NEW e, NEW new, queue' = (queue \ {e}) \cup new,
         e.kind # "AgingTick", \A f \in new : f.kind # "AgingTick"
  PROVE  Ticking' = Ticking
BY DEF Ticking

LEMMA StationsLeaveTicks ==
  ASSUME RelayInv, SparedInv, NEW e \in queue, StationHandle(e), UNCHANGED relay
  PROVE  Ticking' = Ticking
<1>1. CASE DropCancelled(e)
  <2>1. queue' = queue \ {e} /\ e.serial \in cancelled
    BY <1>1 DEF DropCancelled, Sched!Skip
  <2>2. e.kind # "AgingTick"
    BY <2>1 DEF SparedInv, Spared, NodeEvents, SignalEvents, JamEvents
  <2>. QED
    BY <2>1, <2>2 DEF Ticking
<1>2. CASE ~DropCancelled(e)
  <2>1. PICK new, k : Fresh(e, new, k) /\ Emits(e, new, k)
    BY <1>2, StationReady, HandlersKeep DEF Keeps, PushesFresh, StationHandle
  <2>2. new \subseteq EntrySet /\ queue' = (queue \ {e}) \cup new
    BY <2>1 DEF Fresh, FreshIn, Emits
  <2>3. \A f \in EntrySet : f.kind # "AgingTick"
    BY DEF EntrySet, SignalEvents, JamEvents
  <2>4. e.kind # "AgingTick"
    BY <1>2 DEF StationHandle, Handle, HandleTxAttempt, HandleTxStart, HandleTxEnd,
                HandleFrontArrive, HandleBackArrive, HandleCollisionDetect, HandleJamStart,
                HandleJamEnd, HandleBackoffExpire, HandleTopologyChanged, Pops
  <2>. QED
    BY <2>2, <2>3, <2>4, OnlyOthersPush
<1>. QED
  BY <1>1, <1>2

LEMMA HostLeavesTicks ==
  ASSUME RelayInv, \/ RelayHost /\ UNCHANGED relay
                   \/ UNCHANGED relayVars
  PROVE  Ticking' = Ticking
<1>1. CASE queue' = queue
  BY <1>1 DEF Ticking
<1>2. CASE CallKeeps
  <2>1. PICK new, k : HostBatch(new, k) /\ HostPushes(new, k)
    BY <1>2 DEF CallKeeps
  <2>2. queue' = queue \cup new /\ \A f \in new : f.kind # "AgingTick"
    BY <2>1 DEF HostBatch, HostPushes
  <2>. QED
    BY <2>2 DEF Ticking
<1>. QED
  BY <1>1, <1>2, HostCalls
     DEF StartRun, ReturnFromRun, Sched!StartRun, Sched!ReturnFromRun, relayVars, vars

LEMMA BridgeLeavesTicks ==
  ASSUME NEW e \in queue, RelayHandle(e) PROVE Ticking' = Ticking
<1>1. CASE RelayFrontArrive(e) \/ RelayBackArrive(e)
  <2>1. e.kind # "AgingTick"
    BY <1>1 DEF RelayFrontArrive, RelayBackArrive, Pops
  <2>2. PICK x : x = EligibleEntry(e.time + DecodeTime, serial, e.node, Len(relayed) + 1)
    OBVIOUS
  <2>3. queue' = (queue \ {e}) \cup {} \/ queue' = (queue \ {e}) \cup {x}
    BY <1>1, <2>2 DEF RelayFrontArrive, RelayBackArrive, Emits
  <2>4. x.kind # "AgingTick"
    BY <2>2 DEF EligibleEntry
  <2>. QED
    BY <2>1, <2>3, <2>4 DEF Ticking
<1>2. CASE HandleFrameEligible(e)
  <2>1. PICK new : new = {SerializerEntry("Enqueue", e.time, serial + PortNo[p],
                                          SerializerOf(p), e.frame) : p \in EgressPorts(e.node)}
    OBVIOUS
  <2>2. e.kind # "AgingTick" /\ queue' = (queue \ {e}) \cup new
    BY <1>2, <2>1 DEF HandleFrameEligible, Pops, Emits
  <2>3. \A f \in new : f.kind # "AgingTick"
    BY <2>1 DEF SerializerEntry
  <2>. QED
    BY <2>2, <2>3, OnlyOthersPush
<1>3. CASE HandleEnqueue(e)
  <2>1. PICK new : new = {SerializerEntry("Dequeue", e.time, serial, e.serializer, e.frame) :
                             p \in {q \in PortsOf(e.serializer) : ~busy[q]}}
    OBVIOUS
  <2>2. e.kind # "AgingTick" /\ queue' = (queue \ {e}) \cup new
    BY <1>3, <2>1 DEF HandleEnqueue, Pops, Emits
  <2>3. \A f \in new : f.kind # "AgingTick"
    BY <2>1 DEF SerializerEntry
  <2>. QED
    BY <2>2, <2>3, OnlyOthersPush
<1>4. CASE HandleDequeue(e)
  <2>1. e.kind # "AgingTick"
    BY <1>4 DEF HandleDequeue, Pops
  <2>2. \/ queue' = (queue \ {e}) \cup {}
        \/ \E sig : queue' = (queue \ {e}) \cup {SignalEntry("TxStart", e.time, serial, Bridge, sig)}
    BY <1>4 DEF HandleDequeue, Emits
  <2>3. \A sig : SignalEntry("TxStart", e.time, serial, Bridge, sig).kind # "AgingTick"
    BY DEF SignalEntry
  <2>. QED
    BY <2>1, <2>2, <2>3, OnlyOthersPush
<1>5. CASE RelayTxStart(e)
  <2>. DEFINE sig == e.signal
              end == SignalEntry("TxEnd", sig.t0 + sig.dur, serial + 2 * NumNodes, Bridge, sig)
              ends == [p \in PortsFor(sig) |-> end]
              new == UNION {RelayArrivals(sig, p) \cup {ends[p]} : p \in PortsFor(sig)}
  <2>1. e.kind = "TxStart" /\ queue' = (queue \ {e}) \cup new
    BY <1>5 DEF RelayTxStart, Pops, Emits
  <2>2. end.kind = "TxEnd" /\ \A p \in PortsFor(sig) : ends[p] = end
    BY DEF SignalEntry
  <2>3. \A p \in PortsFor(sig) : \A f \in RelayArrivals(sig, p) : f.kind \in ArrivalEvents
    BY ArrivalKinds
  <2>4. \A f \in new : f.kind # "AgingTick"
    BY <2>2, <2>3 DEF ArrivalEvents
  <2>. HIDE DEF new
  <2>. QED
    BY <2>1, <2>4, OnlyOthersPush
<1>6. CASE RelayTxEnd(e)
  <2>. DEFINE new == UNION {NextDequeue(e, p) : p \in PortsFor(e.signal)}
  <2>1. e.kind = "TxEnd" /\ queue' = (queue \ {e}) \cup new
    BY <1>6 DEF RelayTxEnd, Pops, Emits
  <2>2. \A f \in new : f.kind # "AgingTick"
    BY DEF NextDequeue, SerializerEntry
  <2>. HIDE DEF new
  <2>. QED
    BY <2>1, <2>2, OnlyOthersPush
<1>. QED
  BY <1>1, <1>2, <1>3, <1>4, <1>5, <1>6 DEF RelayHandle, PortHandle

LEMMA RelayLeavesTicks ==
  ASSUME RelayInv, SparedInv, [RelayNext]_relayVars PROVE Ticking' = Ticking
BY HostLeavesTicks, StationsLeaveTicks, BridgeLeavesTicks DEF RelayNext

(* The ticks of a set of entries, as TickTimes lists them.                 *)
TimesOf(T) ==
  [i \in 1 .. Cardinality(T) |->
     (CHOOSE e \in T :
        Cardinality({f \in T : Sched!Before(Sched!Key(f), Sched!Key(e))}) = i - 1).time]

LEMMA TimesOfNone == TimesOf({}) = <<>>
<1>1. Cardinality({}) = 0 /\ 1 .. 0 = {}
  BY FS_EmptySet
<1>. QED
  BY <1>1 DEF TimesOf

LEMMA TimesOfOne == ASSUME NEW x, x.time \in Nat, x.serial \in Nat PROVE TimesOf({x}) = <<x.time>>
<1>1. Cardinality({x}) = 1
  BY FS_Singleton
<1>2. ~Sched!Before(Sched!Key(x), Sched!Key(x))
  <2>1. Sched!PhaseOf(x.kind) \in 0 .. 3
    BY PhaseRange
  <2>. QED
    BY <2>1 DEF Sched!Before, Sched!Key
<1>3. {f \in {x} : Sched!Before(Sched!Key(f), Sched!Key(x))} = {}
  BY <1>2
<1>4. Cardinality({f \in {x} : Sched!Before(Sched!Key(f), Sched!Key(x))}) = 0
  BY <1>3, FS_EmptySet
<1>. DEFINE listed(i) ==
       CHOOSE e \in {x} :
         Cardinality({f \in {x} : Sched!Before(Sched!Key(f), Sched!Key(e))}) = i - 1
<1>5. listed(1) = x
  BY <1>4
<1>6. TimesOf({x}) = [i \in 1 .. 1 |-> listed(i).time]
  BY <1>1 DEF TimesOf
<1>. HIDE DEF listed
<1>7. \A i \in 1 .. 1 : listed(i).time = x.time
  BY <1>5
<1>. QED
  BY <1>6, <1>7

LEMMA TickTimesOf == TickTimes = TimesOf(Ticking) /\ TickTimes' = TimesOf(Ticking')
BY DEF TickTimes, TimesOf, TicksBefore

---------------------------------------------------------------------------
(* The engine does for the table what SwitchTable asks of it.              *)

(* One tick is queued exactly while the flag is set, and no hook of the    *)
(* switch has run after now.                                               *)
ChainInv ==
  /\ IF scheduled THEN \E x : Ticking = {x} ELSE Ticking = {}
  /\ hookTime \in Nat /\ hookTime <= Now

ChainStep ==
  /\ RelayInv /\ TableTypes /\ SparedInv /\ Sched!KeysAhead /\ ChainInv /\ RelayInv'
  /\ [Sched!SchedulerNext]_(Sched!sched)

LEMMA TickFields ==
  ASSUME RelayInv, NEW x \in Ticking
  PROVE  x \in queue /\ x.kind = "AgingTick" /\ x.time \in Nat /\ x.serial \in Nat
BY NetworkFields DEF Ticking, RelayInv, QueueInv, RelayQueueOK

(* What is popped is due now.                                              *)
LEMMA PoppedInTime ==
  ASSUME RelayInv, Sched!KeysAhead, ChainInv, NEW kind, NEW e \in queue, Pops(e, kind)
  PROVE  /\ e.time \in Nat /\ hookTime \in Nat /\ hookTime <= e.time
         /\ e.time \in 0 .. MaxTime
         /\ \A x \in Ticking : e.time <= x.time
<1>1. Sched!Before(last, Sched!Key(e)) /\ Sched!Key(e)[1] = e.time
  BY DEF Sched!KeysAhead, Sched!Key
<1>2. last[1] < e.time \/ last[1] = e.time
  BY <1>1 DEF Sched!Before
<1>3. e.time \in Nat /\ Now \in Nat /\ e.time <= MaxTime /\ MaxTime \in Nat
  BY PoppedByBridge, TransitTypes, CsmaAssumption DEF Pops
<1>4. hookTime \in Nat /\ hookTime <= Now
  BY DEF ChainInv
<1>5. ASSUME NEW x \in Ticking, x # e PROVE e.time <= x.time
  <2>1. Sched!Before(Sched!Key(e), Sched!Key(x)) /\ x.time \in Nat
    BY <1>5, TickFields DEF Pops, Sched!IsTop
  <2>2. Sched!Key(e)[1] = e.time /\ Sched!Key(x)[1] = x.time
    BY DEF Sched!Key
  <2>3. e.time < x.time \/ e.time = x.time
    BY <2>1, <2>2 DEF Sched!Before
  <2>. QED
    BY <1>3, <2>1, <2>3
<1>6. hookTime <= e.time
  BY <1>2, <1>3, <1>4 DEF Now
<1>. QED
  BY <1>3, <1>4, <1>5, <1>6

(* Steps that leave ticks and flag alone, and what the table sees of them. *)
LEMMA ChainRests ==
  ASSUME ChainStep, Ticking' = Ticking, UNCHANGED <<scheduled, hookTime>>
  PROVE  ChainInv' /\ TickTimes' = TickTimes
<1>1. Now' >= Now /\ Now \in Nat /\ Now' \in Nat
  BY TimeMoves DEF ChainStep
<1>2. hookTime' \in Nat /\ hookTime' <= Now'
  BY <1>1 DEF ChainStep, ChainInv
<1>3. IF scheduled' THEN \E x : Ticking' = {x} ELSE Ticking' = {}
  BY DEF ChainStep, ChainInv
<1>. QED
  BY <1>2, <1>3, TickTimesOf DEF ChainInv

LEMMA RelayStutters ==
  ASSUME ChainStep, [RelayNext]_relayVars, UNCHANGED <<switch, commands, records>>
  PROVE  ChainInv' /\ UNCHANGED Table!vars
<1>1. ChainInv' /\ TickTimes' = TickTimes
  BY RelayLeavesTicks, ChainRests DEF ChainStep, switch, records
<1>. QED
  BY <1>1 DEF switch, records, Table!vars, Table!config

LEMMA MarkerStutters ==
  ASSUME ChainStep, NEW e \in queue, HandleCommandApplied(e)
  PROVE  ChainInv' /\ UNCHANGED Table!vars
<1>1. queue' = queue \ {e} /\ e.kind # "AgingTick" /\ UNCHANGED <<switch, records>>
  BY DEF HandleCommandApplied, Emits, Pops
<1>2. Ticking' = Ticking
  BY <1>1 DEF Ticking
<1>3. ChainInv' /\ TickTimes' = TickTimes
  BY <1>1, <1>2, ChainRests DEF switch, records
<1>. QED
  BY <1>1, <1>3 DEF switch, records, Table!vars, Table!config

LEMMA CommandsCommand ==
  ASSUME ChainStep, Command PROVE ChainInv' /\ Table!Command
<1>1. PICK x : x = CommandEntry(Now, serial)
  OBVIOUS
<1>2. queue' = queue \cup {x} /\ UNCHANGED <<scheduled, hookTime, sighted>>
  BY <1>1, CommandsPush DEF HostPushes
<1>3. x.kind # "AgingTick"
  BY <1>1 DEF CommandEntry
<1>4. Ticking' = Ticking
  BY <1>2, <1>3 DEF Ticking
<1>5. ChainInv' /\ TickTimes' = TickTimes
  BY <1>2, <1>4, ChainRests
<1>6. Table!Command
  <2>1. ASSUME NEW m \in Mac, NEW p \in Port, InsertMacEntry(m, p)
        PROVE  Table!InsertMacEntry(m, p)
    BY <1>2, <1>5, <2>1 DEF InsertMacEntry, Table!InsertMacEntry, Table!config
  <2>2. ASSUME NEW m \in Mac, RemoveMacEntry(m) PROVE Table!RemoveMacEntry(m)
    BY <1>2, <1>5, <2>2 DEF RemoveMacEntry, Table!RemoveMacEntry, Table!config
  <2>3. CASE FlushMacTable
    BY <1>2, <1>5, <2>3 DEF FlushMacTable, Table!FlushMacTable, Table!config, Table!Command
  <2>4. ASSUME NEW h \in Thresholds, SetSwitchAgingThreshold(h)
        PROVE  Table!SetSwitchAgingThreshold(h)
    BY <1>2, <1>5, <2>4 DEF SetSwitchAgingThreshold, Table!SetSwitchAgingThreshold
  <2>. QED
    BY <2>1, <2>2, <2>3, <2>4 DEF Command, Table!Command
<1>. QED
  BY <1>5, <1>6

(* The handlers of the switch count as hooks at their own time.            *)
LEMMA HookMoves ==
  ASSUME ChainStep, NEW kind, NEW e \in queue, Pops(e, kind),
         hookTime' = e.time, last' = Sched!Key(e)
  PROVE  hookTime' \in Nat /\ hookTime' <= Now'
<1>1. e.time \in Nat
  BY PoppedInTime DEF ChainStep
<1>2. Now' = e.time
  BY DEF Now, Sched!Key
<1>. QED
  BY <1>1, <1>2

LEMMA LearningLearns ==
  ASSUME ChainStep, NEW e \in queue, SwitchFrameEligible(e)
  PROVE  ChainInv' /\ Table!OnFrameArrive(e.time, Source(e.frame), e.node)
<1>. DEFINE m == Source(e.frame)
            learns == m # Table!Zero /\ Table!Learns(m)
<1>1. PICK tick : tick = IF learns THEN NextTick(table', scheduled, e.time) ELSE {}
  OBVIOUS
<1>2. PICK enqueues : enqueues = {SerializerEntry("Enqueue", e.time, serial + 1 + PortNo[p],
                                    SerializerOf(p), e.frame) :
                                    p \in Egress(table', Destination(e.frame), e.node)}
  OBVIOUS
<1>3. /\ Pops(e, "FrameEligible") /\ Emits(e, tick \cup enqueues, Cardinality(Port) + 1)
      /\ scheduled' = (scheduled \/ tick # {}) /\ hookTime' = e.time
      /\ sighted' = (IF m = Table!Zero THEN sighted
                     ELSE [sighted EXCEPT ![m] = [port |-> e.node, at |-> e.time]])
      /\ table' = (IF learns
                   THEN Table!Insert(table, m, [port |-> e.node, at |-> e.time, manual |-> FALSE])
                   ELSE table)
      /\ UNCHANGED <<threshold, longest, disabled>>
  BY <1>1, <1>2 DEF SwitchFrameEligible
<1>. HIDE DEF learns
<1>4. /\ e.time \in Nat /\ hookTime <= e.time /\ e.time <= MaxTime
      /\ \A x \in Ticking : e.time <= x.time
  BY <1>3, PoppedInTime DEF ChainStep
<1>5. serial \in Nat /\ threshold \in Nat /\ scheduled \in BOOLEAN
  BY TransitTypes DEF ChainStep, TableTypes
<1>6. Ticking' = Ticking \cup tick
  <2>1. \A f \in enqueues : f.kind # "AgingTick"
    BY <1>2 DEF SerializerEntry
  <2>2. \A f \in tick : f.kind = "AgingTick"
    BY <1>1 DEF NextTick, AgingEntry
  <2>3. e.kind # "AgingTick" /\ queue' = (queue \ {e}) \cup tick \cup enqueues
    BY <1>3 DEF Pops, Emits
  <2>. QED
    BY <2>1, <2>2, <2>3 DEF Ticking
<1>7. hookTime' \in Nat /\ hookTime' <= Now'
  BY <1>3, HookMoves DEF Emits
<1>8. \A i \in DOMAIN TickTimes : e.time <= TickTimes[i]
  <2>1. CASE Ticking = {}
    BY <2>1, TickTimesOf, TimesOfNone
  <2>2. ASSUME NEW x, Ticking = {x} PROVE \A i \in DOMAIN TickTimes : e.time <= TickTimes[i]
    <3>1. x.time \in Nat /\ x.serial \in Nat
      BY <2>2, TickFields DEF ChainStep
    <3>2. TickTimes = <<x.time>>
      BY <2>2, <3>1, TickTimesOf, TimesOfOne
    <3>3. e.time <= x.time
      BY <1>4, <2>2
    <3>. QED
      BY <3>2, <3>3
  <2>. QED
    BY <2>1, <2>2 DEF ChainStep, ChainInv
<1>9. CASE learns /\ threshold # 0 /\ Table!Known(table') # {} /\ ~scheduled
  <2>1. PICK x : x = AgingEntry(e.time + threshold, serial)
    OBVIOUS
  <2>2. x.time = e.time + threshold /\ x.serial = serial
    BY <2>1 DEF AgingEntry
  <2>3. tick = {x} /\ Ticking = {} /\ Ticking' = {x} /\ scheduled' = TRUE
    BY <1>1, <1>3, <1>6, <1>9, <2>1 DEF NextTick, ChainStep, ChainInv
  <2>4. TickTimes = <<>> /\ TickTimes' = <<e.time + threshold>>
    <3>1. e.time + threshold \in Nat
      BY <1>4, <1>5
    <3>. QED
      BY <1>5, <2>2, <2>3, <3>1, TickTimesOf, TimesOfNone, TimesOfOne
  <2>5. TickTimes' = Append(TickTimes, hookTime' + threshold)
    BY <1>3, <2>4
  <2>6. Table!ScheduleAging(table', scheduled, TickTimes)
    BY <1>9, <2>3, <2>5 DEF Table!ScheduleAging
  <2>7. ChainInv'
    BY <1>7, <2>3 DEF ChainInv
  <2>. QED
    BY <1>3, <1>4, <1>8, <1>9, <2>6, <2>7 DEF Table!OnFrameArrive, Table!config, learns
<1>10. CASE ~(learns /\ threshold # 0 /\ Table!Known(table') # {} /\ ~scheduled)
  <2>1. tick = {}
    BY <1>1, <1>10 DEF NextTick
  <2>2. Ticking' = Ticking /\ scheduled' = scheduled
    BY <1>3, <1>5, <1>6, <2>1
  <2>3. TickTimes' = TickTimes
    BY <2>2, TickTimesOf
  <2>4. ChainInv'
    BY <1>7, <2>2 DEF ChainInv, ChainStep
  <2>5. learns => Table!ScheduleAging(table', scheduled, TickTimes)
    BY <1>10, <2>2, <2>3 DEF Table!ScheduleAging
  <2>. QED
    BY <1>3, <1>4, <1>8, <2>2, <2>3, <2>4, <2>5 DEF Table!OnFrameArrive, Table!config, learns
<1>. QED
  BY <1>9, <1>10

LEMMA LastRemoved == ASSUME NEW t PROVE Table!RemoveAt(<<t>>, 1) = <<>>
<1>1. SubSeq(<<t>>, 1, 0) = <<>> /\ SubSeq(<<t>>, 2, 1) = <<>>
  BY SubSeqEmpty
<1>2. Len(<<t>>) = 1
  OBVIOUS
<1>3. Table!RemoveAt(<<t>>, 1) = <<>> \o <<>>
  BY <1>1, <1>2 DEF Table!RemoveAt
<1>. QED
  BY <1>3

LEMMA AgingAges ==
  ASSUME ChainStep, NEW e \in queue, HandleAgingTick(e)
  PROVE  ChainInv' /\ \E i \in DOMAIN TickTimes : Table!OnAgingTick(i)
<1>1. PICK tick : tick = NextTick(table', FALSE, e.time)
  OBVIOUS
<1>2. /\ Pops(e, "AgingTick") /\ Emits(e, tick, 1)
      /\ scheduled' = (tick # {}) /\ hookTime' = e.time
      /\ table' = (IF threshold = 0 THEN table
                   ELSE [m \in Mac |->
                           IF table[m] # NoEntry /\ Table!Survives(table[m], e.time)
                           THEN table[m] ELSE NoEntry])
      /\ UNCHANGED <<threshold, longest, disabled, sighted>>
  BY <1>1 DEF HandleAgingTick
<1>3. e.time \in Nat /\ hookTime <= e.time /\ e.time <= MaxTime
  BY <1>2, PoppedInTime DEF ChainStep
<1>4. serial \in Nat /\ threshold \in Nat
  BY TransitTypes DEF ChainStep, TableTypes
<1>5. Ticking = {e} /\ scheduled
  <2>1. e \in Ticking
    BY <1>2 DEF Ticking, Pops
  <2>. QED
    BY <2>1 DEF ChainStep, ChainInv
<1>6. TickTimes = <<e.time>>
  <2>1. e.time \in Nat /\ e.serial \in Nat
    BY <1>5, TickFields DEF ChainStep
  <2>. QED
    BY <1>5, <2>1, TickTimesOf, TimesOfOne
<1>7. Ticking' = tick
  <2>1. \A f \in tick : f.kind = "AgingTick"
    BY <1>1 DEF NextTick, AgingEntry
  <2>2. queue' = (queue \ {e}) \cup tick
    BY <1>2 DEF Emits
  <2>. QED
    BY <1>5, <2>1, <2>2 DEF Ticking
<1>8. hookTime' \in Nat /\ hookTime' <= Now'
  BY <1>2, HookMoves DEF Emits
<1>9. /\ 1 \in DOMAIN TickTimes /\ TickTimes[1] = e.time
      /\ \A j \in DOMAIN TickTimes : \/ TickTimes[1] < TickTimes[j]
                                     \/ TickTimes[1] = TickTimes[j] /\ 1 <= j
      /\ Table!RemoveAt(TickTimes, 1) = <<>>
  BY <1>3, <1>6, LastRemoved
<1>10. CASE threshold # 0 /\ Table!Known(table') # {}
  <2>1. PICK x : x = AgingEntry(e.time + threshold, serial)
    OBVIOUS
  <2>2. x.time = e.time + threshold /\ x.serial = serial
    BY <2>1 DEF AgingEntry
  <2>3. Ticking' = {x} /\ scheduled' = TRUE
    BY <1>1, <1>2, <1>7, <1>10, <2>1 DEF NextTick
  <2>4. TickTimes' = <<e.time + threshold>>
    <3>1. e.time + threshold \in Nat
      BY <1>3, <1>4
    <3>. QED
      BY <1>4, <2>2, <2>3, <3>1, TickTimesOf, TimesOfOne
  <2>5. Table!ScheduleAging(table', FALSE, <<>>)
    BY <1>2, <1>10, <2>3, <2>4 DEF Table!ScheduleAging
  <2>6. ChainInv'
    BY <1>8, <2>3 DEF ChainInv
  <2>7. Table!OnAgingTick(1)
    BY <1>2, <1>3, <1>9, <1>10, <2>5 DEF Table!OnAgingTick, Table!config
  <2>. QED
    BY <1>9, <2>6, <2>7
<1>11. CASE ~(threshold # 0 /\ Table!Known(table') # {})
  <2>1. Ticking' = {} /\ scheduled' = FALSE
    BY <1>1, <1>2, <1>7, <1>11 DEF NextTick
  <2>2. TickTimes' = <<>>
    BY <2>1, TickTimesOf, TimesOfNone
  <2>3. ChainInv'
    BY <1>8, <2>1 DEF ChainInv
  <2>4. threshold # 0 => Table!ScheduleAging(table', FALSE, <<>>)
    BY <1>11, <2>1, <2>2 DEF Table!ScheduleAging
  <2>5. Table!OnAgingTick(1)
    BY <1>2, <1>3, <1>9, <2>1, <2>2, <2>4 DEF Table!OnAgingTick, Table!config
  <2>. QED
    BY <1>9, <2>3, <2>5
<1>. QED
  BY <1>10, <1>11

LEMMA TableStarts == SwitchInit => Table!Init /\ ChainInv /\ SparedInv
<1> SUFFICES ASSUME SwitchInit PROVE Table!Init /\ ChainInv /\ SparedInv
  OBVIOUS
<1>1. SparedInv
  BY SwitchStarts, PlacedStarts DEF PlacedInv
<1>2. queue = {} /\ Now = 0
  BY DEF SwitchInit, RelayInit, Init, Sched!SchedulerInit, Now
<1>3. Ticking = {} /\ TickTimes = <<>>
  <2>1. Ticking = {}
    BY <1>2 DEF Ticking
  <2>. QED
    BY <2>1, TickTimesOf, TimesOfNone
<1>. QED
  BY <1>1, <1>2, <1>3 DEF SwitchInit, Table!Init, ChainInv

LEMMA TableStep ==
  ASSUME ChainStep, [SwitchNext]_switchVars PROVE ChainInv' /\ [Table!Next]_(Table!vars)
<1>1. CASE [RelayNext]_relayVars /\ UNCHANGED <<switch, commands, records>>
  BY <1>1, RelayStutters
<1>2. CASE Command
  BY <1>2, CommandsCommand DEF Table!Next
<1>3. ASSUME NEW e \in queue, SwitchFrameEligible(e) PROVE ChainInv' /\ Table!Next
  <2>1. e.time \in 0 .. MaxTime
    BY <1>3, PoppedInTime DEF SwitchFrameEligible, ChainStep
  <2>2. Source(e.frame) \in Mac /\ e.node \in Port
    BY <1>3, Learnt, AddressTypes DEF ChainStep
  <2>. QED
    BY <1>3, <2>1, <2>2, LearningLearns DEF Table!Next
<1>4. ASSUME NEW e \in queue, HandleAgingTick(e) PROVE ChainInv' /\ Table!Next
  BY <1>4, AgingAges DEF Table!Next
<1>5. ASSUME NEW e \in queue, HandleCommandApplied(e) PROVE ChainInv' /\ UNCHANGED Table!vars
  BY <1>5, MarkerStutters
<1>. QED
  BY <1>1, <1>2, <1>3, <1>4, <1>5, SwitchSteps

(* The switch runs on the scheduler: time goes forward, serials are        *)
(* unique.                                                                 *)
THEOREM SwitchKeysAhead == ASSUME ~PastAllowed PROVE SwitchSpec => []Sched!KeysAhead
<1>1. SwitchInit => Sched!SchedulerInit /\ RelayInv /\ TableTypes
  BY SwitchStarts
<1>2. RelayInv /\ TableTypes /\ [SwitchNext]_switchVars
      => RelayInv' /\ TableTypes' /\ [Sched!SchedulerNext]_(Sched!sched)
  BY SwitchStep
<1>3. SwitchSpec => SP!SchedulerSpec
  BY <1>1, <1>2, SameMachine, PTL DEF SwitchSpec, SP!SchedulerSpec
<1>. QED
  BY <1>3, SP!KeysStayAhead, SameMachine, PTL

(* The engine drives the table as SwitchTable assumes: frames reach it in  *)
(* the order of time and never after a tick that was due, its chain of     *)
(* ticks is one entry of the engine's queue, and nothing else touches it.  *)
THEOREM EngineDrivesTheTable == ASSUME ~PastAllowed PROVE SwitchSpec => ImplementsTable
<1>1. SwitchInit => RelayInv /\ TableTypes /\ SparedInv /\ ChainInv /\ Table!Init
  BY SwitchStarts, TableStarts
<1>2. RelayInv /\ TableTypes /\ SparedInv /\ [SwitchNext]_switchVars
      => RelayInv' /\ TableTypes' /\ SparedInv' /\ [Sched!SchedulerNext]_(Sched!sched)
  BY SwitchStep, SwitchSpared
<1>3. RelayInv /\ TableTypes /\ SparedInv /\ Sched!KeysAhead /\ ChainInv /\ [SwitchNext]_switchVars
      => ChainInv' /\ [Table!Next]_(Table!vars)
  BY <1>2, TableStep DEF ChainStep
<1>. QED
  BY <1>1, <1>2, <1>3, SwitchKeysAhead, PTL DEF SwitchSpec, ImplementsTable, Table!Spec

(* What SwitchTable promises therefore holds in the network.               *)
TP == INSTANCE SwitchTable_proofs WITH now <- hookTime, ticks <- TickTimes

LEMMA SameTable ==
  /\ TP!Init <=> Table!Init
  /\ [TP!Next]_(TP!vars) <=> [Table!Next]_(Table!vars)
  /\ TP!ForgottenInTime <=> Table!ForgottenInTime
  /\ TP!CapacityRespected <=> Table!CapacityRespected
  /\ TP!LearnedFollowsStation <=> Table!LearnedFollowsStation
<1>1. /\ \A t : TP!Known(t) = Table!Known(t)
      /\ \A m : TP!IsLearned(m) <=> Table!IsLearned(m)
      /\ \A m : TP!IsManual(m) <=> Table!IsManual(m)
      /\ TP!Zero = Table!Zero
      /\ \A x, t : TP!Survives(x, t) <=> Table!Survives(x, t)
      /\ \A s, i : TP!RemoveAt(s, i) = Table!RemoveAt(s, i)
      /\ \A S : TP!Cardinality(S) = Table!Cardinality(S)
  BY DEF TP!Cardinality, Table!Cardinality,
         TP!Known, Table!Known, TP!IsLearned, Table!IsLearned, TP!IsManual, Table!IsManual,
         TP!Zero, Table!Zero, TP!Survives, Table!Survives, TP!RemoveAt, Table!RemoveAt
<1>2. /\ TP!vars = Table!vars /\ TP!vars' = Table!vars'
      /\ TP!config = Table!config /\ TP!config' = Table!config'
  BY DEF TP!vars, Table!vars, TP!config, Table!config
<1>3. TP!Init <=> Table!Init
  BY DEF TP!Init, Table!Init
<1>4. TP!ForgottenInTime <=> Table!ForgottenInTime
  BY <1>1 DEF TP!ForgottenInTime, Table!ForgottenInTime
<1>5. TP!CapacityRespected <=> Table!CapacityRespected
  BY <1>1 DEF TP!CapacityRespected, Table!CapacityRespected
<1>6. TP!LearnedFollowsStation <=> Table!LearnedFollowsStation
  BY <1>1 DEF TP!LearnedFollowsStation, Table!LearnedFollowsStation
<1>7. ASSUME NEW t, NEW m, NEW x PROVE TP!Insert(t, m, x) = Table!Insert(t, m, x)
  <2>1. TP!Full(t, m) <=> Table!Full(t, m)
    BY <1>1 DEF TP!Full, Table!Full
  <2>2. \A o : TP!IsOldest(t, o) <=> Table!IsOldest(t, o)
    BY <1>1 DEF TP!IsOldest, Table!IsOldest
  <2>3. TP!Evicts(t, m) = Table!Evicts(t, m)
    BY <1>1, <2>1, <2>2 DEF TP!Evicts, Table!Evicts
  <2>. QED
    BY <2>3 DEF TP!Insert, Table!Insert
<1>8. \A t, due, tick : TP!ScheduleAging(t, due, tick) <=> Table!ScheduleAging(t, due, tick)
  BY <1>1 DEF TP!ScheduleAging, Table!ScheduleAging
<1>9. \A t, m, p : TP!OnFrameArrive(t, m, p) <=> Table!OnFrameArrive(t, m, p)
  BY <1>1, <1>2, <1>7, <1>8 DEF TP!OnFrameArrive, Table!OnFrameArrive, TP!Learns, Table!Learns
<1>10. ASSUME NEW i PROVE TP!OnAgingTick(i) <=> Table!OnAgingTick(i)
  BY <1>1, <1>2, <1>8 DEF TP!OnAgingTick, Table!OnAgingTick
<1>11. TP!Command <=> Table!Command
  <2>1. \A m, p : TP!InsertMacEntry(m, p) <=> Table!InsertMacEntry(m, p)
    BY <1>2, <1>7 DEF TP!InsertMacEntry, Table!InsertMacEntry
  <2>2. \A m : TP!RemoveMacEntry(m) <=> Table!RemoveMacEntry(m)
    BY <1>2 DEF TP!RemoveMacEntry, Table!RemoveMacEntry
  <2>3. TP!FlushMacTable <=> Table!FlushMacTable
    BY <1>2 DEF TP!FlushMacTable, Table!FlushMacTable
  <2>4. \A h : TP!SetSwitchAgingThreshold(h) <=> Table!SetSwitchAgingThreshold(h)
    BY DEF TP!SetSwitchAgingThreshold, Table!SetSwitchAgingThreshold
  <2>. QED
    BY <2>1, <2>2, <2>3, <2>4 DEF TP!Command, Table!Command
<1>12. TP!Next <=> Table!Next
  BY <1>9, <1>10, <1>11 DEF TP!Next, Table!Next
<1>. QED
  BY <1>2, <1>3, <1>4, <1>5, <1>6, <1>12

(* In the network too: the table keeps within its capacity, its entries    *)
(* follow the stations, and a learned address is forgotten in time.        *)
THEOREM TablePromisesKept ==
  ASSUME ~PastAllowed
  PROVE  SwitchSpec => /\ []Table!CapacityRespected
                       /\ []Table!LearnedFollowsStation
                       /\ []Table!ForgottenInTime
<1>1. SwitchSpec => TP!Spec
  BY EngineDrivesTheTable, SameTable, PTL DEF ImplementsTable, Table!Spec, TP!Spec
<1>2. TP!SwitchAssumption
  BY SwitchingAssumption, CsmaAssumption DEF TP!SwitchAssumption, TP!IsFiniteSet, IsFiniteSet
<1>3. TP!Spec => []TP!CapacityRespected /\ []TP!LearnedFollowsStation /\ []TP!ForgottenInTime
  BY <1>2, TP!CapacityAlwaysRespected, TP!LearnedAlwaysFollows, TP!AlwaysForgottenInTime, PTL
<1>. QED
  BY <1>1, <1>3, SameTable, PTL

---------------------------------------------------------------------------
(* Where frames come from: a station only ever tries to send what the host *)
(* scheduled for it, and a port hears only the stations of its own domain. *)

Offered(n, f) == \E o \in Offers : o[2] = n /\ o[3] = f

Legit(x) ==
  /\ x.kind = "TxAttempt" => Offered(x.node, x.frame)
  /\ (x.kind = "FrontArrive" /\ x.node \in Port) => <<x.signal.source, x.node>> \in Pairs

LegitInv ==
  /\ \A x \in queue : Legit(x)
  /\ \A n \in Node : pending[n] # NoFrame => Offered(n, pending[n])

LEMMA LegitBatch ==
  ASSUME LegitInv, NEW new, queue' \subseteq queue \cup new, \A f \in new : Legit(f),
         pending' = pending
  PROVE  LegitInv'
BY DEF LegitInv

LEMMA OtherKinds ==
  ASSUME NEW x, x.kind \notin {"TxAttempt", "FrontArrive"} PROVE Legit(x)
BY DEF Legit

LEMMA AttemptIsLegit ==
  ASSUME LegitInv, RelayInv, NEW e \in queue, StationHandle(e), HandleTxAttempt(e)
  PROVE  LegitInv'
<1>. DEFINE n == e.node
<1>1. /\ e.kind = "TxAttempt" /\ e.serial \notin cancelled
      /\ pending' = [pending EXCEPT ![n] = e.frame]
  BY DEF HandleTxAttempt, Pops
<1>2. n \in Node /\ Offered(n, e.frame) /\ pending \in [Node -> Frame \cup {NoFrame}]
  BY <1>1 DEF StationHandle, NodeEvents, Station, LegitInv, Legit, RelayInv, RelayTypeOK, MacOK
<1>3. PICK x : x = AttemptEntry(e.time + IfgTime(n), serial, n, e.frame)
  OBVIOUS
<1>4. PICK y : y = SignalEntry("TxStart", e.time, serial, n, FrameSignal(n, e.time, e.frame))
  OBVIOUS
<1>5. queue' = (queue \ {e}) \cup {x} \/ queue' = (queue \ {e}) \cup {y}
  BY <1>3, <1>4 DEF HandleTxAttempt, Emits
<1>6. Legit(x) /\ Legit(y)
  BY <1>2, <1>3, <1>4 DEF Legit, AttemptEntry, SignalEntry
<1>7. \A f \in queue' : Legit(f)
  BY <1>5, <1>6 DEF LegitInv
<1>8. \A m \in Node : pending'[m] # NoFrame => Offered(m, pending'[m])
  BY <1>1, <1>2 DEF LegitInv
<1>. QED
  BY <1>7, <1>8 DEF LegitInv

LEMMA StartIsLegit ==
  ASSUME LegitInv, NEW e \in queue, HandleTxStart(e) PROVE LegitInv'
<1>. DEFINE n == e.node
            sig == e.signal
<1>1. PICK end : end = SignalEntry("TxEnd", sig.t0 + sig.dur, serial + 2 * NumNodes, n, sig)
  OBVIOUS
<1>2. PICK arrivals : arrivals = Arrivals(sig)
  OBVIOUS
<1>3. queue' = (queue \ {e}) \cup (arrivals \cup {end}) /\ pending' = pending
  BY <1>1, <1>2 DEF HandleTxStart, Emits
<1>4. Legit(end)
  BY <1>1, OtherKinds DEF SignalEntry
<1>5. ASSUME NEW f \in arrivals PROVE Legit(f)
  <2>1. \/ f.kind = "BackArrive"
        \/ \E m \in Hears(sig.source) : f.node = m /\ f.signal = sig
    BY <1>2 DEF Arrivals, SignalEntry
  <2>2. \A m \in Hears(sig.source) : <<sig.source, m>> \in Pairs
    BY DEF Hears
  <2>3. f.kind = "FrontArrive" => <<f.signal.source, f.node>> \in Pairs
    BY <2>1, <2>2
  <2>4. f.kind \in {"FrontArrive", "BackArrive"}
    BY <1>2 DEF Arrivals, SignalEntry
  <2>. QED
    BY <2>3, <2>4 DEF Legit
<1>. QED
  BY <1>3, <1>4, <1>5, LegitBatch

LEMMA FreedIsLegit ==
  ASSUME LegitInv, RelayInv, NEW n \in Node, pending' = [pending EXCEPT ![n] = NoFrame]
  PROVE  \A m \in Node : pending'[m] # NoFrame => Offered(m, pending'[m])
BY DEF LegitInv, RelayInv, RelayTypeOK, MacOK

LEMMA EndsAreLegit ==
  ASSUME LegitInv, RelayInv, NEW e \in queue, StationHandle(e), HandleTxEnd(e) \/ HandleJamEnd(e)
  PROVE  LegitInv'
<1>1. e.kind \in {"TxEnd", "JamEnd"} /\ e.serial \notin cancelled
  BY DEF HandleTxEnd, HandleJamEnd, Pops
<1>2. e.node \in Node
  BY <1>1 DEF StationHandle, NodeEvents, SignalEvents, JamEvents, Station
<1>3. pending' = pending \/ pending' = [pending EXCEPT ![e.node] = NoFrame]
  BY DEF HandleTxEnd, HandleJamEnd
<1>4. \A m \in Node : pending'[m] # NoFrame => Offered(m, pending'[m])
  BY <1>2, <1>3, FreedIsLegit DEF LegitInv
<1>5. \/ queue' = (queue \ {e}) \cup {}
      \/ \E t, a : queue' = (queue \ {e}) \cup {BackoffEntry(t, serial, e.node, a)}
  BY DEF HandleTxEnd, HandleJamEnd, Emits
<1>6. \A t, a : Legit(BackoffEntry(t, serial, e.node, a))
  BY DEF Legit, BackoffEntry
<1>7. \A f \in queue' : Legit(f)
  BY <1>5, <1>6 DEF LegitInv
<1>. QED
  BY <1>4, <1>7 DEF LegitInv

LEMMA ExpiryIsLegit ==
  ASSUME LegitInv, RelayInv, NEW e \in queue, StationHandle(e), HandleBackoffExpire(e)
  PROVE  LegitInv'
<1>. DEFINE n == e.node
<1>1. e.kind = "BackoffExpire" /\ e.serial \notin cancelled /\ pending' = pending
  BY DEF HandleBackoffExpire, Pops
<1>2. n \in Node
  BY <1>1 DEF StationHandle, NodeEvents, Station
<1>3. PICK x : x = AttemptEntry(e.time, serial, n, pending[n])
  OBVIOUS
<1>4. \/ queue' = (queue \ {e}) \cup {}
      \/ queue' = (queue \ {e}) \cup {x} /\ pending[n] # NoFrame
  BY <1>3 DEF HandleBackoffExpire, TimerIsLive, Emits
<1>5. pending[n] # NoFrame => Legit(x)
  BY <1>2, <1>3 DEF Legit, AttemptEntry, LegitInv
<1>. QED
  BY <1>1, <1>4, <1>5 DEF LegitInv

LEMMA QuietIsLegit ==
  ASSUME LegitInv, NEW e \in queue,
         \/ HandleFrontArrive(e) \/ HandleBackArrive(e) \/ HandleCollisionDetect(e)
         \/ HandleJamStart(e) \/ HandleTopologyChanged(e) \/ DropCancelled(e)
  PROVE  LegitInv'
<1>1. CASE HandleFrontArrive(e)
  <2>1. PICK new : new = Reactions(e)
    OBVIOUS
  <2>2. queue' \subseteq queue \cup new /\ pending' = pending
    BY <1>1, <2>1 DEF HandleFrontArrive, Emits
  <2>3. \A f \in new : f.kind = "CollisionDetect"
    BY <2>1 DEF Reactions, SignalEntry
  <2>. QED
    BY <2>2, <2>3, OtherKinds, LegitBatch
<1>2. CASE HandleBackArrive(e) \/ HandleTopologyChanged(e) \/ DropCancelled(e)
  BY <1>2 DEF HandleBackArrive, HandleTopologyChanged, DropCancelled, Sched!Skip, Emits, mac,
              LegitInv
<1>3. CASE HandleCollisionDetect(e)
  <2>1. PICK x : x = JamEntry("JamStart", e.time, serial, e.node)
    OBVIOUS
  <2>2. queue' \subseteq queue \cup {x} /\ pending' = pending
    BY <1>3, <2>1 DEF HandleCollisionDetect, Emits, mac
  <2>3. Legit(x)
    BY <2>1, OtherKinds DEF JamEntry
  <2>. QED
    BY <2>2, <2>3 DEF LegitInv
<1>4. CASE HandleJamStart(e)
  <2>1. PICK x : x = SignalEntry("TxStart", e.time, serial, e.node, JamSignal(e.node, e.time))
    OBVIOUS
  <2>2. PICK y : y = JamEntry("JamEnd", e.time + JamTime(e.node), serial + 1, e.node)
    OBVIOUS
  <2>3. queue' \subseteq queue \cup {x, y} /\ pending' = pending
    BY <1>4, <2>1, <2>2 DEF HandleJamStart, Emits, mac
  <2>4. Legit(x) /\ Legit(y)
    BY <2>1, <2>2, OtherKinds DEF JamEntry, SignalEntry
  <2>. QED
    BY <2>3, <2>4 DEF LegitInv
<1>. QED
  BY <1>1, <1>2, <1>3, <1>4

LEMMA StationsAreLegit ==
  ASSUME LegitInv, RelayInv, NEW e \in queue, StationHandle(e) PROVE LegitInv'
BY AttemptIsLegit, StartIsLegit, EndsAreLegit, ExpiryIsLegit, QuietIsLegit
   DEF StationHandle, Handle

LEMMA HostIsLegit ==
  ASSUME LegitInv, RelayInv, RelayHost PROVE LegitInv'
<1>1. ASSUME NEW o \in Offers, ScheduleTxAttempt(o[1], o[2], o[3]) PROVE LegitInv'
  <2>1. PICK x : x = AttemptEntry(o[1], serial, o[2], o[3])
    OBVIOUS
  <2>2. queue' = queue \cup {x} /\ pending' = pending
    BY <1>1, <2>1 DEF ScheduleTxAttempt, HostPushes, mac
  <2>3. Legit(x)
    BY <2>1 DEF Legit, AttemptEntry, Offered
  <2>. QED
    BY <2>2, <2>3 DEF LegitInv
<1>2. \A t, s : Legit(EditEntry(t, s))
  BY OtherKinds DEF EditEntry
<1>3. ASSUME NEW seg, RemoveSegment(seg) \/ AddSegment(seg) PROVE LegitInv'
  BY <1>2, <1>3 DEF RemoveSegment, AddSegment, HostPushes, mac, LegitInv
<1>4. ASSUME NEW n \in Station, RemoveNode(n) PROVE LegitInv'
  <2>1. PICK new : new = {EditEntry(Now, serial + i) : i \in 0 .. Cardinality({Access[n]} \cap up)}
    OBVIOUS
  <2>2. queue' = queue \cup new /\ pending' = [pending EXCEPT ![n] = NoFrame]
    BY <1>4, <2>1 DEF RemoveNode, HostPushes
  <2>3. \A f \in queue' : Legit(f)
    BY <1>2, <2>1, <2>2 DEF LegitInv
  <2>. QED
    BY <2>2, <2>3, FreedIsLegit DEF LegitInv, Station
<1>5. CASE StartRun \/ ReturnFromRun
  BY <1>5 DEF StartRun, ReturnFromRun, Sched!StartRun, Sched!ReturnFromRun, mac, LegitInv
<1>. QED
  BY <1>1, <1>3, <1>4, <1>5 DEF RelayHost

LEMMA BridgeIsLegit ==
  ASSUME LegitInv, NEW e \in queue, RelayHandle(e) PROVE LegitInv'
<1>1. pending' = pending
  BY DEF RelayHandle, PortHandle, RelayFrontArrive, RelayBackArrive, HandleFrameEligible,
         HandleEnqueue, HandleDequeue, RelayTxStart, RelayTxEnd, mac
<1>2. CASE RelayFrontArrive(e) \/ RelayBackArrive(e)
  <2>1. PICK x : x = EligibleEntry(e.time + DecodeTime, serial, e.node, Len(relayed) + 1)
    OBVIOUS
  <2>2. queue' \subseteq queue \cup {x}
    BY <1>2, <2>1 DEF RelayFrontArrive, RelayBackArrive, Emits
  <2>3. Legit(x)
    BY <2>1, OtherKinds DEF EligibleEntry
  <2>. QED
    BY <1>1, <2>2, <2>3 DEF LegitInv
<1>3. \A k \in {"Enqueue", "Dequeue"} : \A t, s, z, i : Legit(SerializerEntry(k, t, s, z, i))
  BY OtherKinds DEF SerializerEntry
<1>4. CASE HandleFrameEligible(e)
  <2>1. PICK new : new = {SerializerEntry("Enqueue", e.time, serial + PortNo[p],
                                          SerializerOf(p), e.frame) : p \in EgressPorts(e.node)}
    OBVIOUS
  <2>2. queue' \subseteq queue \cup new /\ \A f \in new : Legit(f)
    BY <1>3, <1>4, <2>1 DEF HandleFrameEligible, Emits
  <2>. QED
    BY <1>1, <2>2, LegitBatch
<1>5. CASE HandleEnqueue(e)
  <2>1. PICK new : new = {SerializerEntry("Dequeue", e.time, serial, e.serializer, e.frame) :
                             p \in {q \in PortsOf(e.serializer) : ~busy[q]}}
    OBVIOUS
  <2>2. queue' \subseteq queue \cup new /\ \A f \in new : Legit(f)
    BY <1>3, <1>5, <2>1 DEF HandleEnqueue, Emits
  <2>. QED
    BY <1>1, <2>2, LegitBatch
<1>6. CASE HandleDequeue(e)
  <2>1. \/ queue' \subseteq queue
        \/ \E sig : queue' = (queue \ {e}) \cup {SignalEntry("TxStart", e.time, serial, Bridge, sig)}
    BY <1>6 DEF HandleDequeue, Emits
  <2>2. \A sig : Legit(SignalEntry("TxStart", e.time, serial, Bridge, sig))
    BY OtherKinds DEF SignalEntry
  <2>. QED
    BY <1>1, <2>1, <2>2 DEF LegitInv
<1>7. CASE RelayTxStart(e)
  <2>. DEFINE sig == e.signal
              end == SignalEntry("TxEnd", sig.t0 + sig.dur, serial + 2 * NumNodes, Bridge, sig)
              ends == [p \in PortsFor(sig) |-> end]
  <2>1. PICK new : new = UNION {RelayArrivals(sig, p) \cup {ends[p]} : p \in PortsFor(sig)}
    OBVIOUS
  <2>2. queue' \subseteq queue \cup new
    BY <1>7, <2>1 DEF RelayTxStart, Emits
  <2>3. Legit(end) /\ \A p \in PortsFor(sig) : ends[p] = end
    BY OtherKinds DEF SignalEntry
  <2>4. ASSUME NEW p, NEW f \in RelayArrivals(sig, p) PROVE Legit(f)
    <3>1. \/ \E m \in Hears(p) \ Port : \E t, s : f = SignalEntry("FrontArrive", t, s, m, sig)
          \/ \E m \in Hears(p) \ Port : \E t, s : f = SignalEntry("BackArrive", t, s, m, sig)
      BY <2>4 DEF RelayArrivals
    <3>2. f.kind \in {"FrontArrive", "BackArrive"} /\ f.node \notin Port
      BY <3>1 DEF SignalEntry
    <3>. QED
      BY <3>2 DEF Legit
  <2>5. \A f \in new : Legit(f)
    BY <2>1, <2>3, <2>4
  <2>. QED
    BY <1>1, <2>2, <2>5, LegitBatch
<1>8. CASE RelayTxEnd(e)
  <2>1. PICK new : new = UNION {NextDequeue(e, p) : p \in PortsFor(e.signal)}
    OBVIOUS
  <2>2. queue' \subseteq queue \cup new
    BY <1>8, <2>1 DEF RelayTxEnd, Emits
  <2>3. \A f \in new : f.kind = "Dequeue"
    BY <2>1 DEF NextDequeue, SerializerEntry
  <2>. QED
    BY <1>1, <2>2, <2>3, OtherKinds, LegitBatch
<1>. QED
  BY <1>2, <1>4, <1>5, <1>6, <1>7, <1>8 DEF RelayHandle, PortHandle

LEMMA SwitchIsLegit ==
  ASSUME LegitInv, RelayInv, TableTypes, [SwitchNext]_switchVars PROVE LegitInv'
<1>1. CASE [RelayNext]_relayVars
  BY <1>1, HostIsLegit, StationsAreLegit, BridgeIsLegit
     DEF RelayNext, relayVars, vars, mac, LegitInv
<1>2. CASE Command
  <2>1. PICK x : x = CommandEntry(Now, serial)
    OBVIOUS
  <2>2. queue' = queue \cup {x} /\ pending' = pending
    BY <1>2, <2>1, CommandsPush DEF HostPushes, mac
  <2>3. Legit(x)
    BY <2>1, OtherKinds DEF CommandEntry
  <2>. QED
    BY <2>2, <2>3 DEF LegitInv
<1>3. ASSUME NEW e \in queue, SwitchFrameEligible(e) PROVE LegitInv'
  <2>1. PICK tick : /\ tick = {} \/ tick = {AgingEntry(e.time + threshold, serial)}
                    /\ Emits(e, tick \cup {SwitchEnqueue(e, p) : p \in EgressOf(e)},
                             Cardinality(Port) + 1)
    BY <1>3, SwitchEmits
  <2>2. PICK new : new = tick \cup {SwitchEnqueue(e, p) : p \in EgressOf(e)}
    OBVIOUS
  <2>3. queue' \subseteq queue \cup new /\ pending' = pending
    BY <1>3, <2>1, <2>2 DEF SwitchFrameEligible, Emits, mac
  <2>4. \A f \in new : f.kind \in {"AgingTick", "Enqueue"}
    BY <2>1, <2>2 DEF AgingEntry, SwitchEnqueue, SerializerEntry
  <2>. QED
    BY <2>3, <2>4, OtherKinds, LegitBatch
<1>4. ASSUME NEW e \in queue, HandleAgingTick(e) PROVE LegitInv'
  <2>1. PICK tick : /\ tick = {} \/ tick = {AgingEntry(e.time + threshold, serial)}
                    /\ Emits(e, tick, 1)
    BY <1>4, TickEmits
  <2>2. queue' \subseteq queue \cup tick /\ pending' = pending
    BY <1>4, <2>1 DEF HandleAgingTick, Emits, mac
  <2>3. \A f \in tick : f.kind = "AgingTick"
    BY <2>1 DEF AgingEntry
  <2>. QED
    BY <2>2, <2>3, OtherKinds, LegitBatch
<1>5. ASSUME NEW e \in queue, HandleCommandApplied(e) PROVE LegitInv'
  BY <1>5 DEF HandleCommandApplied, Emits, mac, LegitInv
<1>. QED
  BY <1>1, <1>2, <1>3, <1>4, <1>5, SwitchSteps

---------------------------------------------------------------------------
(* What the switch has learned of an address is one of its homes, unless   *)
(* the address was pinned.                                                 *)

HomeLearned ==
  \A m \in Mac : (m \notin pinned /\ table[m] # NoEntry) => table[m].port \in HomesOf(m)
HomeCopied ==
  \A i \in Indices :
    relayed[i].copy # NoFrame => relayed[i].ingress \in HomesOf(SourceOf[relayed[i].copy])

(* The frame must not miss this port.                                      *)
MustReach(i, p) ==
  /\ Destination(i) # Table!Zero /\ Destination(i) \notin pinned
  /\ HomesOf(Destination(i)) = {p} /\ p # relayed[i].ingress
Reached == \A i \in Indices, p \in Port : MustReach(i, p) => Somewhere(i, p)

HomesInv == LegitInv /\ HomeLearned /\ HomeCopied /\ Reached

LEMMA PinnedStays ==
  ASSUME [SwitchNext]_switchVars PROVE pinned \subseteq pinned'
<1>1. Command => pinned \subseteq pinned'
  BY DEF Command, InsertMacEntry, RemoveMacEntry, FlushMacTable, SetSwitchAgingThreshold
<1>. QED
  BY <1>1, SwitchSteps
     DEF records, SwitchFrameEligible, HandleAgingTick, HandleCommandApplied

(* A copy that comes in at a port was sent from there.                     *)
LEMMA CopiesAreHome ==
  ASSUME RelayInv, LegitInv, HomeCopied, NEW e \in queue, RelayFrontArrive(e)
  PROVE  HomeCopied'
<1>1. /\ e.kind = "FrontArrive" /\ e.node \in Port
      /\ relayed' = Append(relayed, [copy |-> Copy(e.signal), dur |-> CopyLength(e.signal),
                                     ingress |-> e.node, wire |-> e.signal.dur])
  BY DEF RelayFrontArrive, Pops, RegisterFrame
<1>2. e.signal.source \in Node /\ <<e.signal.source, e.node>> \in Pairs
  <2>1. e.signal \in SignalSet
    BY <1>1, NetworkFields, RelayAssumption
       DEF RelayInv, QueueInv, RelayQueueOK, NodeEvents, SignalEvents, ArrivalEvents
  <2>. QED
    BY <1>1, <2>1 DEF SignalSet, LegitInv, Legit
<1>3. PICK c : c = Copy(e.signal)
  OBVIOUS
<1>4. c # NoFrame => e.node \in HomesOf(SourceOf[c])
  <2>1. c # NoFrame => Offered(e.signal.source, c)
    BY <1>2, <1>3 DEF Copy, LegitInv
  <2>. QED
    BY <1>1, <1>2, <2>1 DEF Offered, HomesOf
<1>5. PICK r : relayed' = Append(relayed, r) /\ r.copy = c /\ r.ingress = e.node
  BY <1>1, <1>3
<1>6. /\ Indices' = Indices \cup {Len(relayed) + 1}
      /\ relayed'[Len(relayed) + 1] = r
      /\ \A i \in Indices : relayed'[i] = relayed[i]
  BY <1>5 DEF Indices, RelayInv, RelayTypeOK
<1>7. ASSUME NEW i \in Indices', relayed'[i].copy # NoFrame
      PROVE  relayed'[i].ingress \in HomesOf(SourceOf[relayed'[i].copy])
  <2>1. CASE i = Len(relayed) + 1
    BY <1>4, <1>5, <1>6, <1>7, <2>1
  <2>2. CASE i \in Indices
    BY <1>6, <1>7, <2>2 DEF HomeCopied
  <2>. QED
    BY <1>6, <2>1, <2>2
<1>. QED
  BY <1>7 DEF HomeCopied, HomesOf

LEMMA CopiesStay == ASSUME HomeCopied, relayed' = relayed PROVE HomeCopied'
BY DEF HomeCopied, Indices, HomesOf

LEMMA InsertedOrOld ==
  ASSUME NEW t, NEW m, NEW x, NEW k \in Mac
  PROVE  \/ k = m /\ Table!Insert(t, m, x)[k] = x
         \/ k # m /\ Table!Insert(t, m, x)[k] \in {t[k], NoEntry}
BY DEF Table!Insert

(* Learning keeps to the homes, since a frame is learned from where it     *)
(* came in.                                                                *)
LEMMA LearnsHomes ==
  ASSUME RelayInv, TableTypes, HomeLearned, HomeCopied, NEW e \in queue, SwitchFrameEligible(e),
         e.node = relayed[e.frame].ingress
  PROVE  HomeLearned'
<1>1. PICK m : m = Source(e.frame)
  OBVIOUS
<1>2. PICK x : x = [port |-> e.node, at |-> e.time, manual |-> FALSE]
  OBVIOUS
<1>3. /\ pinned' = pinned /\ e.frame \in Indices
      /\ \/ m # Table!Zero /\ table' = Table!Insert(table, m, x)
         \/ table' = table
  BY <1>1, <1>2, Learnt DEF SwitchFrameEligible
<1>4. m # Table!Zero => e.node \in HomesOf(m)
  BY <1>1, <1>3 DEF Source, HomeCopied
<1>5. CASE table' = table
  BY <1>3, <1>5 DEF HomeLearned, HomesOf
<1>6. CASE m # Table!Zero /\ table' = Table!Insert(table, m, x)
  <2>1. ASSUME NEW k \in Mac, k \notin pinned, table'[k] # NoEntry
        PROVE  table'[k].port \in HomesOf(k)
    <3>1. CASE k = m
      BY <1>2, <1>4, <1>6, <3>1, InsertedOrOld
    <3>2. CASE k # m
      <4>1. table'[k] = table[k]
        BY <1>6, <2>1, <3>2, InsertedOrOld
      <4>. QED
        BY <2>1, <4>1 DEF HomeLearned
    <3>. QED
      BY <3>1, <3>2
  <2>. QED
    BY <1>3, <2>1 DEF HomeLearned, HomesOf
<1>. QED
  BY <1>3, <1>5, <1>6

LEMMA OthersKeepHomes ==
  ASSUME TableTypes, HomeLearned, [SwitchNext]_switchVars, \A e \in queue : ~SwitchFrameEligible(e)
  PROVE  HomeLearned'
<1>1. CASE UNCHANGED <<table, pinned>>
  BY <1>1 DEF HomeLearned, HomesOf
<1>2. ASSUME NEW e \in queue, HandleAgingTick(e) PROVE HomeLearned'
  <2>1. pinned' = pinned /\ \A k \in Mac : table'[k] \in {table[k], NoEntry}
    BY <1>2 DEF HandleAgingTick
  <2>. QED
    BY <2>1 DEF HomeLearned, HomesOf
<1>3. CASE Command
  <2>1. ASSUME NEW m \in Mac, NEW p \in Port, InsertMacEntry(m, p) PROVE HomeLearned'
    <3>1. PICK x : table' = Table!Insert(table, m, x) /\ pinned' = pinned \cup {m}
      BY <2>1 DEF InsertMacEntry
    <3>2. \A k \in Mac : k \notin pinned' => table'[k] \in {table[k], NoEntry}
      BY <3>1, InsertedOrOld
    <3>. QED
      BY <3>1, <3>2 DEF HomeLearned, HomesOf
  <2>2. ASSUME NEW m \in Mac, RemoveMacEntry(m) PROVE HomeLearned'
    <3>1. pinned' = pinned /\ \A k \in Mac : table'[k] \in {table[k], NoEntry}
      BY <2>2 DEF RemoveMacEntry, TableTypes, Tables
    <3>. QED
      BY <3>1 DEF HomeLearned, HomesOf
  <2>3. CASE FlushMacTable
    BY <2>3 DEF FlushMacTable, HomeLearned, HomesOf
  <2>4. ASSUME NEW h \in Thresholds, SetSwitchAgingThreshold(h) PROVE HomeLearned'
    BY <1>1, <2>4 DEF SetSwitchAgingThreshold
  <2>. QED
    BY <1>3, <2>1, <2>2, <2>3, <2>4 DEF Command
<1>. QED
  BY <1>1, <1>2, <1>3, SwitchSteps DEF switch, records, HandleCommandApplied

(* The switch does not miss a port that must be reached.                   *)
LEMMA EgressReaches ==
  ASSUME SteadyBridge, PortsPlugged, RelayInv, TableTypes, HomeLearned', NEW e \in queue,
         SwitchFrameEligible(e), e.node = relayed[e.frame].ingress, NEW p \in Port,
         MustReach(e.frame, p), Destination(e.frame) \notin pinned'
  PROVE  p \in EgressOf(e)
<1>1. PICK d : d = Destination(e.frame)
  OBVIOUS
<1>2. d \in Mac /\ d # Table!Zero /\ HomesOf(d) = {p} /\ p # e.node
  BY <1>1, Learnt, AddressTypes DEF MustReach
<1>3. CASE table'[d] # NoEntry
  <2>1. table'[d].port \in HomesOf(d)
    BY <1>1, <1>2, <1>3 DEF HomeLearned, HomesOf
  <2>2. Egress(table', d, e.node) = {table'[d].port} \ {e.node}
    BY <1>2, <1>3 DEF Egress
  <2>. QED
    BY <1>1, <1>2, <2>1, <2>2 DEF EgressOf
<1>4. CASE table'[d] = NoEntry
  <2>1. Egress(table', d, e.node) = EgressPorts(e.node)
    BY <1>2, <1>4 DEF Egress
  <2>2. EgressPorts(e.node) = Port \ {e.node}
    BY Learnt, SteadyPorts
  <2>. QED
    BY <1>1, <1>2, <2>1, <2>2 DEF EgressOf
<1>. QED
  BY <1>3, <1>4

LEMMA MustReachStays ==
  ASSUME NEW i, NEW p, relayed'[i] = relayed[i], pinned \subseteq pinned', MustReach(i, p)'
  PROVE  MustReach(i, p) /\ Destination(i) \notin pinned'
<1>1. Destination(i)' = Destination(i)
  BY DEF Destination, Table!Zero
<1>. QED
  BY <1>1 DEF MustReach, HomesOf, Table!Zero

(* Forwarding to E keeps every frame where it must be, if E is right for   *)
(* the frame that is forwarded.                                            *)
LEMMA ForwardedIsReached ==
  ASSUME SteadyBridge, RelayInv, PlacedInv, Reached, PortsPlugged', pinned \subseteq pinned',
         NEW e, NEW E, ForwardsTo(e, E),
         \A p \in Port : (MustReach(e.frame, p) /\ Destination(e.frame) \notin pinned') => p \in E
  PROVE  Reached'
<1>1. PICK i : i = e.frame
  OBVIOUS
<1>2. /\ Indices' = Indices /\ relayed' = relayed
      /\ \A j \in Indices : j # i => Kept(j)
      /\ \A p \in E : Somewhere(i, p)'
  BY <1>1, ForwardedIsPlaced DEF ForwardsTo
<1>3. ASSUME NEW j \in Indices, NEW p \in Port, MustReach(j, p)' PROVE Somewhere(j, p)'
  <2>1. MustReach(j, p) /\ Destination(j) \notin pinned'
    BY <1>2, <1>3, MustReachStays
  <2>2. CASE j = i
    BY <1>1, <1>2, <2>1, <2>2
  <2>3. CASE j # i
    BY <1>2, <2>1, <2>3 DEF Reached, Kept
  <2>. QED
    BY <2>2, <2>3
<1>. QED
  BY <1>2, <1>3 DEF Reached

LEMMA ReachedStep ==
  ASSUME SteadyBridge, RelayInv, TableTypes, PlacedInv, HomesInv, [SwitchNext]_switchVars
  PROVE  HomesInv'
<1>1. PortsPlugged' /\ SparedInv' /\ LegitInv' /\ pinned \subseteq pinned'
  BY SwitchPortsStayPlugged, SwitchSpared, SwitchIsLegit, PinnedStays DEF PlacedInv, HomesInv
<1>2. ASSUME relayed' = relayed, NoneLost PROVE HomeCopied' /\ Reached'
  <2>1. HomeCopied' /\ Indices' = Indices
    BY <1>2, CopiesStay DEF HomesInv, Indices
  <2>2. ASSUME NEW j \in Indices, NEW p \in Port, MustReach(j, p)' PROVE Somewhere(j, p)'
    <3>1. MustReach(j, p)
      BY <1>1, <1>2, <2>2, MustReachStays
    <3>. QED
      BY <1>2, <3>1 DEF HomesInv, Reached, NoneLost, Kept
  <2>. QED
    BY <2>1, <2>2 DEF Reached
<1>3. ASSUME \A e \in queue : ~SwitchFrameEligible(e) PROVE HomeLearned'
  BY <1>3, OthersKeepHomes DEF HomesInv
<1>4. ASSUME NEW e \in queue, SwitchFrameEligible(e) PROVE HomesInv'
  <2>1. ForwardsTo(e, EgressOf(e))
    BY <1>4, SwitchForwards DEF PlacedInv
  <2>2. e.node = relayed[e.frame].ingress /\ e.frame \in Indices
    BY <1>1, <2>1, ForwardedIsPlaced
  <2>3. HomeLearned'
    BY <1>4, <2>2, LearnsHomes DEF HomesInv
  <2>4. \A p \in Port : (MustReach(e.frame, p) /\ Destination(e.frame) \notin pinned')
                          => p \in EgressOf(e)
    BY <1>4, <2>2, <2>3, EgressReaches DEF PlacedInv
  <2>5. Reached'
    BY <1>1, <2>1, <2>4, ForwardedIsReached DEF HomesInv
  <2>6. HomeCopied'
    BY <2>1, CopiesStay DEF HomesInv, ForwardsTo
  <2>. QED
    BY <1>1, <2>3, <2>5, <2>6 DEF HomesInv
<1>5. CASE Still
  <2>1. NoneLost /\ relayed' = relayed
    BY <1>1, <1>5, StillIsPlaced DEF Still
  <2>. QED
    BY <1>1, <1>2, <1>3, <1>4, <2>1 DEF HomesInv
<1>6. ASSUME NEW e \in queue, RelayFrontArrive(e) PROVE HomeCopied' /\ Reached'
  <2>1. HomeCopied'
    BY <1>6, CopiesAreHome DEF HomesInv
  <2>2. PICK i : i = Len(relayed) + 1
    OBVIOUS
  <2>3. /\ NoneLost /\ Indices' = Indices \cup {i}
        /\ \A p \in Port : Somewhere(i, p)'
    BY <1>1, <1>6, <2>2, TakenInIsPlaced
  <2>4. \A j \in Indices : relayed'[j] = relayed[j]
    <3>1. PICK r : relayed' = Append(relayed, r)
      BY <1>6, TakesIn
    <3>. QED
      BY <3>1 DEF RelayInv, RelayTypeOK, Indices
  <2>5. ASSUME NEW j \in Indices', NEW p \in Port, MustReach(j, p)' PROVE Somewhere(j, p)'
    <3>1. CASE j = i
      BY <2>3, <3>1
    <3>2. CASE j \in Indices
      <4>1. MustReach(j, p)
        BY <1>1, <2>4, <2>5, <3>2, MustReachStays
      <4>. QED
        BY <2>3, <3>2, <4>1 DEF HomesInv, Reached, NoneLost, Kept
    <3>. QED
      BY <2>3, <3>1, <3>2
  <2>. QED
    BY <2>1, <2>5 DEF Reached
<1>7. ASSUME NEW e \in queue, HandleEnqueue(e) PROVE HomeCopied' /\ Reached'
  <2>1. NoneLost /\ relayed' = relayed
    BY <1>1, <1>7, QueuedIsPlaced DEF HandleEnqueue
  <2>. QED
    BY <1>2, <2>1
<1>8. ASSUME NEW e \in queue, HandleFrameEligible(e) PROVE HomeCopied' /\ Reached'
  <2>1. ForwardsTo(e, Port \ {e.node})
    BY <1>8, FloodsForward DEF PlacedInv
  <2>2. e.node = relayed[e.frame].ingress
    BY <1>1, <2>1, ForwardedIsPlaced
  <2>3. \A p \in Port : MustReach(e.frame, p) => p \in Port \ {e.node}
    BY <2>2 DEF MustReach
  <2>4. Reached'
    BY <1>1, <2>1, <2>3, ForwardedIsReached DEF HomesInv
  <2>5. HomeCopied'
    BY <2>1, CopiesStay DEF HomesInv, ForwardsTo
  <2>. QED
    BY <2>4, <2>5
<1>9. CASE \E e \in queue : RelayFrontArrive(e) \/ HandleEnqueue(e) \/ HandleFrameEligible(e)
  BY <1>1, <1>3, <1>4, <1>6, <1>7, <1>8, <1>9 DEF HomesInv
<1>. QED
  BY <1>4, <1>5, <1>9, SwitchMoves DEF PlacedInv

LEMMA HomesStart == SwitchInit => HomesInv
<1> SUFFICES ASSUME SwitchInit PROVE HomesInv
  OBVIOUS
<1>1. /\ queue = {} /\ Indices = {} /\ table = [m \in Mac |-> NoEntry]
      /\ pending = [n \in Node |-> NoFrame]
  BY DEF SwitchInit, RelayInit, Init, Sched!SchedulerInit, Indices
<1>2. LegitInv /\ HomeCopied /\ Reached
  BY <1>1 DEF LegitInv, HomeCopied, Reached
<1>3. HomeLearned
  BY <1>1 DEF HomeLearned
<1>. QED
  BY <1>2, <1>3 DEF HomesInv

LEMMA ReachedIsServed == RelayInv /\ PlacedInv /\ HomesInv => DestinationServed
<1> SUFFICES ASSUME RelayTypeOK, Placed, Reached, NEW i \in Indices, NEW p \in Port,
                    MustReach(i, p)
             PROVE  Places(p, i) + Cardinality(Eligible(i)) = 1
  BY DEF RelayInv, PlacedInv, HomesInv, DestinationServed, MustReach
<1>1. Somewhere(i, p) /\ p # relayed[i].ingress /\ PlaceOf(i, p)
  BY DEF Reached, MustReach, Placed
<1>. QED
  BY <1>1, CountPlaces DEF Places

(* A frame always finds its destination, whatever the switch has learned,  *)
(* forgotten or evicted, however stations and commands interleave, and     *)
(* whatever is plugged elsewhere.                                          *)
THEOREM DestinationAlwaysServed ==
  ASSUME SteadyBridge PROVE SwitchSpec => []DestinationServed
<1>1. SwitchInit => RelayInv /\ TableTypes /\ PlacedInv /\ HomesInv
  BY SwitchStarts, PlacedStarts, HomesStart
<1>2. RelayInv /\ TableTypes /\ PlacedInv /\ HomesInv /\ [SwitchNext]_switchVars
      => RelayInv' /\ TableTypes' /\ PlacedInv' /\ HomesInv'
  BY SwitchStep, SwitchPlaces, ReachedStep
<1>. QED
  BY <1>1, <1>2, ReachedIsServed, PTL DEF SwitchSpec
---------------------------------------------------------------------------
(***************************************************************************)
(* No port of the bridge is stuck.                                         *)
(*                                                                         *)
(* This fails if two ports send frames of one length at one instant: their *)
(* signals are equal, bridge_pending_egress has one record for both, and   *)
(* the end of the transmission frees one port only (see README).  That no  *)
(* record is ever handed from one port to another is therefore a           *)
(* hypothesis (RecordsKept); nothing else goes wrong.  It is then shown to *)
(* hold of ports that send frames of different lengths.                    *)
(***************************************************************************)

RecordsKept == \A s \in DOMAIN emitting \cap DOMAIN emitting' : emitting'[s] = emitting[s]

(* What the bridge sends is never cancelled: edits cancel the events of    *)
(* stations and the arrivals at ports.                                     *)
Own == {e \in queue : e.kind \in {"TxStart", "TxEnd"} /\ e.node = Bridge}
OwnSpared == \A e \in Own : e.serial \notin cancelled

Calls(p) == {e \in queue : e.kind = "Dequeue" /\ e.serializer = SerializerOf(p)}

Ending(p) == \E e \in Own : e.signal \in DOMAIN emitting /\ emitting[e.signal] = p
Called(p) == egress[p] # <<>> => \E e \in Calls(p) : e.frame = Head(egress[p])
Attending == \A p \in Port : IF busy[p] THEN Ending(p) ELSE Called(p)

AttendInv == SparedInv /\ OwnSpared /\ Attending

(* Cancelled serials are of stations' events and of arrivals.              *)
SparesOwn == \A e \in Own : e.serial \notin cancelled' \ cancelled

LEMMA CallsSpareOwn ==
  ASSUME SparedInv, RelayHost PROVE SparesOwn
<1>1. CASE UNCHANGED cancelled
  BY <1>1 DEF SparesOwn
<1>2. ASSUME NEW S, NEW T, cancelled' = cancelled \cup {e.serial : e \in T},
             T \subseteq queue, \A e \in T : e \notin Own
      PROVE  SparesOwn
  BY <1>2 DEF SparesOwn, SparedInv, SerialsOne, Own
<1>3. ASSUME NEW seg, RemoveSegment(seg) PROVE SparesOwn
  <2>. DEFINE T == {f \in queue : f.kind \in ArrivalEvents /\ Access[f.node] \in {seg}}
  <2>1. cancelled' = cancelled \cup {e.serial : e \in T} /\ T \subseteq queue
    BY <1>3 DEF RemoveSegment, ArrivalsOn
  <2>2. \A e \in T : e \notin Own
    BY DEF Own, ArrivalEvents
  <2>. HIDE DEF T
  <2>. QED
    BY <1>2, <2>1, <2>2
<1>4. ASSUME NEW n \in Station, RemoveNode(n) PROVE SparesOwn
  <2>. DEFINE incident == {Access[n]} \cap up
              T == {f \in queue : f.kind \in ArrivalEvents /\ Access[f.node] \in incident}
              U == {f \in queue : f.kind \in NodeEvents /\ f.node = n}
  <2>1. cancelled' = cancelled \cup {e.serial : e \in T} \cup {e.serial : e \in U}
    BY <1>4 DEF RemoveNode, ArrivalsOn, EventsOf
  <2>2. cancelled' = cancelled \cup {e.serial : e \in T \cup U} /\ T \cup U \subseteq queue
    BY <2>1
  <2>3. \A e \in T \cup U : e \notin Own
    BY RelayAssumption DEF Own, ArrivalEvents, Station
  <2>. HIDE DEF T, U
  <2>. QED
    BY <1>2, <2>2, <2>3
<1>5. CASE StartRun \/ ReturnFromRun
  BY <1>1, <1>5 DEF StartRun, ReturnFromRun, Sched!StartRun, Sched!ReturnFromRun
<1>. QED
  BY <1>1, <1>3, <1>4, <1>5 DEF RelayHost, ScheduleTxAttempt, AddSegment

(* New entries have serials that no tombstone has.                         *)
LEMMA OwnSparedKept ==
  ASSUME RelayInv, SparedInv, OwnSpared, SparesOwn, \A e \in queue' \ queue : e.serial \notin cancelled'
  PROVE  OwnSpared'
BY DEF OwnSpared, SparesOwn, Own

LEMMA NewIsNotCancelled ==
  ASSUME RelayInv, SparedInv, NEW e \in queue, NetKeeps(e)
  PROVE  /\ \A f \in queue' \ queue : f.serial \notin cancelled'
         /\ cancelled' = cancelled
<1>1. PICK new, k : FreshIn(RelayEntrySet, e, new, k) /\ Emits(e, new, k)
  BY DEF NetKeeps, NetPushes
<1>2. /\ queue' = (queue \ {e}) \cup new /\ cancelled' = cancelled
      /\ k \in Nat /\ \A f \in new : f.serial \in serial .. (serial + k - 1)
  BY <1>1 DEF Emits, FreshIn
<1>3. serial \in Nat /\ cancelled \subseteq Nat
  BY DEF RelayInv, QueueInv, RelayQueueOK, RelayTypeOK
<1>. QED
  BY <1>2, <1>3 DEF SparedInv, TombstonesOld

(* What does not concern the bridge.                                       *)
LEMMA AttendingElsewhere ==
  ASSUME SteadyBridge, PortsPlugged, PortsPlugged', Attending,
         UNCHANGED <<egress, busy, emitting>>,
         \A e \in queue \ queue' : e \notin Own /\ e.kind # "Dequeue"
  PROVE  Attending'
<1>1. \A p \in Port : SerializerOf(p)' = SerializerOf(p)
  BY SerializersStay
<1>2. Own \subseteq Own' /\ \A p \in Port : Calls(p) \subseteq Calls(p)'
  BY <1>1 DEF Own, Calls
<1>. QED
  BY <1>2 DEF Attending, Ending, Called
LEMMA HostAttends ==
  ASSUME SteadyBridge, RelayInv, PortsPlugged, PortsPlugged', AttendInv,
         (RelayHost /\ UNCHANGED relay) \/ UNCHANGED relayVars
  PROVE  OwnSpared' /\ Attending'
<1>1. CASE queue' = queue /\ cancelled' = cancelled /\ UNCHANGED relay
  BY <1>1, AttendingElsewhere DEF relay, AttendInv, OwnSpared, Own
<1>2. CASE RelayHost /\ ~StartRun /\ ~ReturnFromRun /\ UNCHANGED relay
  <2>1. PICK new, k : HostBatch(new, k) /\ HostPushes(new, k)
    BY <1>2, HostCalls DEF CallKeeps
  <2>2. /\ queue' = queue \cup new /\ k \in Nat
        /\ \A f \in new : f.serial \in serial .. (serial + k - 1)
    BY <2>1 DEF HostBatch, HostPushes
  <2>3. /\ serial \in Nat /\ cancelled \subseteq Nat
        /\ \A f \in queue : f.serial \in Nat /\ f.serial < serial
    BY NetworkFields DEF RelayInv, QueueInv, RelayQueueOK, SerialsUsed, RelayTypeOK
  <2>4. CancelsNodes
    BY <1>2, CallsCancelNodes
  <2>5. ASSUME NEW s \in cancelled' PROVE s \in Nat /\ s < serial
    <3>1. CASE s \in cancelled
      BY <2>3, <3>1 DEF AttendInv, SparedInv, TombstonesOld
    <3>2. CASE s \notin cancelled
      <4>1. PICK f \in queue : s = f.serial
        BY <2>4, <3>2 DEF CancelsNodes
      <4>. QED
        BY <2>3, <4>1
    <3>. QED
      BY <3>1, <3>2
  <2>6. \A f \in queue' \ queue : f.serial \notin cancelled'
    BY <2>2, <2>3, <2>5
  <2>7. OwnSpared'
    BY <1>2, <2>6, CallsSpareOwn, OwnSparedKept DEF AttendInv
  <2>. QED
    BY <1>2, <2>2, <2>7, AttendingElsewhere DEF relay, AttendInv
<1>. QED
  BY <1>1, <1>2 DEF StartRun, ReturnFromRun, Sched!StartRun, Sched!ReturnFromRun, relayVars, vars

LEMMA HandlersSpareOwn ==
  ASSUME RelayInv, SparedInv, OwnSpared, NEW e \in queue, NetKeeps(e) PROVE OwnSpared'
BY NewIsNotCancelled, OwnSparedKept DEF SparesOwn

LEMMA StationsAttend ==
  ASSUME SteadyBridge, RelayInv, PortsPlugged, PortsPlugged', AttendInv,
         NEW e \in queue, StationHandle(e), UNCHANGED relay
  PROVE  OwnSpared' /\ Attending'
<1>1. CASE DropCancelled(e)
  <2>1. queue' = queue \ {e} /\ cancelled' = cancelled \ {e.serial} /\ e.serial \in cancelled
    BY <1>1 DEF DropCancelled, Sched!Skip
  <2>2. e \notin Own /\ e.kind # "Dequeue"
    BY <2>1 DEF AttendInv, OwnSpared, SparedInv, Spared, NodeEvents, SignalEvents, JamEvents
  <2>3. Attending'
    BY <2>1, <2>2, AttendingElsewhere DEF AttendInv, relay
  <2>. QED
    BY <2>1, <2>3 DEF AttendInv, OwnSpared, Own
<1>2. CASE ~DropCancelled(e)
  <2>1. NetKeeps(e)
    BY <1>2, StationKeeps
  <2>2. e.kind \notin RelayKinds
    BY <1>2, HandledKinds DEF StationHandle
  <2>3. e \notin Own
    <3>1. SUFFICES ASSUME e \in Own PROVE FALSE
      OBVIOUS
    <3>2. e.kind \in NodeEvents /\ e.serial \notin cancelled
      BY <3>1 DEF Own, AttendInv, OwnSpared, NodeEvents, SignalEvents
    <3>. QED
      BY <3>1, <3>2, RelayAssumption DEF StationHandle, Own, Station
  <2>4. \A f \in queue \ queue' : f = e
    BY <2>1 DEF NetKeeps, NetPushes, Emits
  <2>5. Attending'
    BY <2>2, <2>3, <2>4, AttendingElsewhere DEF AttendInv, relay, RelayKinds
  <2>. QED
    BY <2>1, <2>5, HandlersSpareOwn DEF AttendInv
<1>. QED
  BY <1>1, <1>2

LEMMA FramesAttended ==
  ASSUME SteadyBridge, RelayInv, PortsPlugged, PortsPlugged', AttendInv, NEW e \in queue,
         RelayFrontArrive(e) \/ RelayBackArrive(e) \/ HandleFrameEligible(e)
  PROVE  Attending'
<1>1. e.kind \notin {"TxStart", "TxEnd", "Dequeue"} /\ UNCHANGED <<egress, busy, emitting>>
  BY DEF RelayFrontArrive, RelayBackArrive, HandleFrameEligible, Pops, relay
<1>2. \A f \in queue \ queue' : f = e
  BY DEF RelayFrontArrive, RelayBackArrive, HandleFrameEligible, Emits
<1>. QED
  BY <1>1, <1>2, AttendingElsewhere DEF Own, AttendInv

(* A frame that joins the queue of an idle port is called at once if it is *)
(* alone there.                                                            *)
LEMMA EnqueueAttends ==
  ASSUME SteadyBridge, RelayInv, PortsPlugged, PortsPlugged', AttendInv,
         NEW e \in queue, HandleEnqueue(e)
  PROVE  Attending'
<1>. DEFINE x == SerializerEntry("Dequeue", e.time, serial, e.serializer, e.frame)
            new == {x : p \in {q \in PortsOf(e.serializer) : ~busy[q]}}
<1>1. /\ e.kind = "Enqueue" /\ queue' = (queue \ {e}) \cup new /\ busy' = busy /\ emitting' = emitting
  BY DEF HandleEnqueue, Pops, Emits
<1>2. egress \in [Port -> Seq(Indices)] /\ e.frame \in Indices
  BY <1>1 DEF RelayInv, QueueInv, FramesKnown, RelayKinds, RelayTypeOK
<1>3. x.kind = "Dequeue" /\ x.serializer = e.serializer /\ x.frame = e.frame
  BY DEF SerializerEntry
<1>4. \A p \in Port : SerializerOf(p)' = SerializerOf(p)
  BY SerializersStay
<1>5. Own \subseteq Own' /\ \A p \in Port : Calls(p) \subseteq Calls(p)'
  BY <1>1, <1>4 DEF Own, Calls
<1>6. ASSUME NEW p \in Port, ~busy[p], SerializerOf(p) # e.serializer PROVE Called(p)'
  <2>1. egress'[p] = egress[p]
    BY <1>6, SteadyPorts DEF HandleEnqueue
  <2>. QED
    BY <1>1, <1>5, <1>6, <2>1 DEF AttendInv, Attending, Called
<1>7. ASSUME NEW p \in Port, ~busy[p], SerializerOf(p) = e.serializer PROVE Called(p)'
  <2>1. egress'[p] = Append(egress[p], e.frame)
    BY <1>7, SteadyPorts DEF HandleEnqueue, PushedBack
  <2>2. p \in PortsOf(e.serializer)
    BY <1>7, SteadyPorts
  <2>3. x \in new
    BY <1>7, <2>2
  <2>. HIDE DEF x, new
  <2>4. x \in Calls(p)'
    BY <1>1, <1>3, <1>4, <1>7, <2>3 DEF Calls
  <2>5. CASE egress[p] = <<>>
    <3>1. Head(egress'[p]) = e.frame
      BY <1>2, <2>1, <2>5
    <3>. QED
      BY <1>3, <2>4, <3>1 DEF Called
  <2>6. CASE egress[p] # <<>>
    <3>1. Head(egress'[p]) = Head(egress[p])
      BY <1>2, <2>1, <2>6
    <3>2. PICK f \in Calls(p) : f.frame = Head(egress[p])
      BY <1>7, <2>6 DEF AttendInv, Attending, Called
    <3>. QED
      BY <1>5, <3>1, <3>2 DEF Called
  <2>. QED
    BY <2>5, <2>6
<1>8. ASSUME NEW p \in Port, busy[p] PROVE Ending(p)'
  BY <1>1, <1>5, <1>8 DEF AttendInv, Attending, Ending
<1>. QED
  BY <1>1, <1>6, <1>7, <1>8 DEF Attending

(* A stale Dequeue is not the one the front of a queue waits for; any      *)
(* other starts a transmission that is on record for its port.             *)
LEMMA DequeueAttends ==
  ASSUME SteadyBridge, RelayInv, PortsPlugged, PortsPlugged', AttendInv,
         NEW e \in queue, HandleDequeue(e), RecordsKept
  PROVE  Attending'
<1>. DEFINE sig == Signal(Bridge, e.time, relayed[e.frame].dur, "Frame")
            x == SignalEntry("TxStart", e.time, serial, Bridge, sig)
<1>1. e.kind = "Dequeue"
  BY DEF HandleDequeue, Pops
<1>2. \A p \in Port : SerializerOf(p)' = SerializerOf(p)
  BY SerializersStay
<1>3. x.kind = "TxStart" /\ x.node = Bridge /\ x.signal = sig
  BY DEF SignalEntry
<1>4. CASE /\ \A p \in PortsOf(e.serializer) : ~IsFront(p, e.frame)
           /\ Emits(e, {}, 0) /\ UNCHANGED <<egress, busy, emitting, sent>>
  <2>1. queue' = queue \ {e}
    BY <1>4 DEF Emits
  <2>2. Own' = Own
    BY <1>1, <2>1 DEF Own
  <2>3. ASSUME NEW p \in Port, ~busy[p] PROVE Called(p)'
    <3>1. SUFFICES ASSUME egress[p] # <<>> PROVE \E f \in Calls(p)' : f.frame = Head(egress[p])
      BY <1>4 DEF Called
    <3>2. PICK f \in Calls(p) : f.frame = Head(egress[p])
      BY <2>3, <3>1 DEF AttendInv, Attending, Called
    <3>3. f # e
      BY <1>4, <3>1, <3>2, SteadyPorts DEF IsFront, Calls
    <3>. QED
      BY <1>2, <2>1, <3>2, <3>3 DEF Calls
  <2>. QED
    BY <1>4, <2>2, <2>3 DEF AttendInv, Attending, Ending
<1>5. ASSUME NEW q \in Port,
             egress' = [egress EXCEPT ![q] = Tail(@)],
             busy' = [busy EXCEPT ![q] = TRUE],
             emitting' = [s \in {sig} \cup DOMAIN emitting |-> IF s = sig THEN q ELSE emitting[s]],
             Emits(e, {x}, 1), SerializerOf(q) = e.serializer
      PROVE  Attending'
  <2>. HIDE DEF x, sig
  <2>1. queue' = (queue \ {e}) \cup {x} /\ egress \in [Port -> Seq(Indices)]
        /\ busy \in [Port -> BOOLEAN]
    BY <1>5 DEF Emits, RelayInv, RelayTypeOK
  <2>2. Own' = Own \cup {x}
    BY <1>1, <1>3, <2>1 DEF Own
  <2>3. Ending(q)'
    BY <1>3, <1>5, <2>2 DEF Ending
  <2>4. ASSUME NEW p \in Port, p # q, busy[p] PROVE Ending(p)'
    <3>1. PICK f \in Own : f.signal \in DOMAIN emitting /\ emitting[f.signal] = p
      BY <2>4 DEF AttendInv, Attending, Ending
    <3>2. f.signal \in DOMAIN emitting' /\ emitting'[f.signal] = p
      BY <1>5, <3>1 DEF RecordsKept
    <3>. QED
      BY <2>2, <3>1, <3>2 DEF Ending
  <2>5. ASSUME NEW p \in Port, p # q, ~busy[p] PROVE Called(p)'
    <3>1. egress'[p] = egress[p]
      BY <1>5, <2>1, <2>5
    <3>2. SerializerOf(p) # e.serializer
      BY <1>5, <2>5, SerializersDiffer
    <3>3. Calls(p) \subseteq Calls(p)'
      BY <1>2, <2>1, <3>2 DEF Calls
    <3>. QED
      BY <2>5, <3>1, <3>3 DEF AttendInv, Attending, Called
  <2>6. \A p \in Port : busy'[p] = (IF p = q THEN TRUE ELSE busy[p])
    BY <1>5, <2>1
  <2>. QED
    BY <2>3, <2>4, <2>5, <2>6 DEF Attending
<1>6. ASSUME NEW q \in PortsOf(e.serializer),
             egress' = [egress EXCEPT ![q] = Tail(@)],
             busy' = [busy EXCEPT ![q] = TRUE],
             emitting' = [s \in {sig} \cup DOMAIN emitting |-> IF s = sig THEN q ELSE emitting[s]],
             Emits(e, {x}, 1)
      PROVE  Attending'
  <2>1. q \in Port /\ SerializerOf(q) = e.serializer
    BY SteadyPorts
  <2>. QED
    BY <1>5, <1>6, <2>1
<1>. QED
  BY <1>4, <1>6 DEF HandleDequeue

(* The end of a transmission is queued when it starts.                     *)
LEMMA StartAttends ==
  ASSUME SteadyBridge, RelayInv, PortsPlugged, PortsPlugged', AttendInv,
         NEW e \in queue, RelayTxStart(e)
  PROVE  Attending'
<1>. DEFINE sig == e.signal
            end == SignalEntry("TxEnd", sig.t0 + sig.dur, serial + 2 * NumNodes, Bridge, sig)
            ends == [p \in PortsFor(sig) |-> end]
            new == UNION {RelayArrivals(sig, p) \cup {ends[p]} : p \in PortsFor(sig)}
<1>1. e.kind = "TxStart" /\ queue' = (queue \ {e}) \cup new /\ UNCHANGED relay
  BY DEF RelayTxStart, Pops, Emits
<1>2. \A p \in Port : SerializerOf(p)' = SerializerOf(p)
  BY SerializersStay
<1>3. sig \in DOMAIN emitting => end \in new
  BY DEF PortsFor
<1>4. end.kind = "TxEnd" /\ end.node = Bridge /\ end.signal = sig
  BY DEF SignalEntry
<1>. HIDE DEF end, ends, new
<1>5. \A p \in Port : Calls(p) \subseteq Calls(p)'
  BY <1>1, <1>2 DEF Calls
<1>6. ASSUME NEW p \in Port, Ending(p) PROVE Ending(p)'
  <2>1. PICK f \in Own : f.signal \in DOMAIN emitting /\ emitting[f.signal] = p
    BY <1>6 DEF Ending
  <2>2. CASE f # e
    <3>1. f \in Own'
      BY <1>1, <2>2 DEF Own
    <3>. QED
      BY <1>1, <2>1, <3>1 DEF Ending, relay
  <2>3. CASE f = e
    <3>1. end \in Own'
      BY <1>1, <1>3, <1>4, <2>1, <2>3 DEF Own
    <3>. QED
      BY <1>1, <1>4, <2>1, <2>3, <3>1 DEF Ending, relay
  <2>. QED
    BY <2>2, <2>3
<1>. QED
  BY <1>1, <1>5, <1>6 DEF AttendInv, Attending, Called, relay

(* The end frees the one port it is on record for, and calls its next      *)
(* frame.                                                                  *)
LEMMA EndAttends ==
  ASSUME SteadyBridge, RelayInv, PortsPlugged, PortsPlugged', AttendInv,
         NEW e \in queue, RelayTxEnd(e)
  PROVE  Attending'
<1>. DEFINE ports == PortsFor(e.signal)
            new == UNION {NextDequeue(e, p) : p \in ports}
<1>1. /\ e.kind = "TxEnd" /\ queue' = (queue \ {e}) \cup new /\ egress' = egress
      /\ busy' = [p \in Port |-> busy[p] /\ p \notin ports]
      /\ emitting' = Restrict(emitting, DOMAIN emitting \ {e.signal})
  BY DEF RelayTxEnd, Pops, Emits
<1>2. \A p \in Port : SerializerOf(p)' = SerializerOf(p)
  BY SerializersStay
<1>3. \A p \in Port : Calls(p) \subseteq Calls(p)'
  BY <1>1, <1>2 DEF Calls
<1>4. ASSUME NEW p \in ports, p \in Port PROVE Called(p)'
  <2>1. SUFFICES ASSUME egress[p] # <<>> PROVE \E f \in Calls(p)' : f.frame = Head(egress[p])
    BY <1>1 DEF Called
  <2>2. PICK x : x = SerializerEntry("Dequeue", e.time + IfgTime(p), serial, SerializerOf(p),
                                     Head(egress[p]))
    OBVIOUS
  <2>3. x \in new
    BY <1>4, <2>1, <2>2 DEF NextDequeue
  <2>4. x.kind = "Dequeue" /\ x.serializer = SerializerOf(p) /\ x.frame = Head(egress[p])
    BY <2>2 DEF SerializerEntry
  <2>. HIDE DEF new, ports
  <2>5. x \in queue' /\ SerializerOf(p)' = SerializerOf(p)
    BY <1>1, <1>2, <1>4, <2>3
  <2>6. x \in Calls(p)'
    BY <2>4, <2>5 DEF Calls
  <2>. QED
    BY <2>4, <2>6
<1>. HIDE DEF new
<1>5. ASSUME NEW p \in Port, p \notin ports, busy[p] PROVE Ending(p)'
  <2>1. PICK f \in Own : f.signal \in DOMAIN emitting /\ emitting[f.signal] = p
    BY <1>5 DEF AttendInv, Attending, Ending
  <2>2. f.signal # e.signal
    BY <1>5, <2>1 DEF PortsFor
  <2>3. f.signal \in DOMAIN emitting' /\ emitting'[f.signal] = p
    BY <1>1, <2>1, <2>2 DEF Restrict
  <2>4. f \in Own'
    BY <1>1, <2>2 DEF Own
  <2>. QED
    BY <2>3, <2>4 DEF Ending
<1>6. ASSUME NEW p \in Port, p \notin ports, ~busy[p] PROVE Called(p)'
  BY <1>1, <1>3, <1>6 DEF AttendInv, Attending, Called
<1>7. \A p \in Port : busy'[p] = (busy[p] /\ p \notin ports)
  BY <1>1
<1>. QED
  BY <1>4, <1>5, <1>6, <1>7 DEF Attending

LEMMA AttendStep ==
  ASSUME SteadyBridge, RelayInv, PortsPlugged, AttendInv, [RelayNext]_relayVars,
         [RecordsKept]_emitting
  PROVE  AttendInv' /\ PortsPlugged'
<1>1. SparedInv' /\ PortsPlugged'
  BY SparedStep, PortsStayPlugged DEF AttendInv
<1>2. RecordsKept
  BY DEF RecordsKept
<1>3. CASE (RelayHost /\ UNCHANGED relay) \/ UNCHANGED relayVars
  BY <1>1, <1>3, HostAttends DEF AttendInv
<1>4. ASSUME NEW e \in queue, StationHandle(e), UNCHANGED relay PROVE OwnSpared' /\ Attending'
  BY <1>1, <1>4, StationsAttend
<1>5. ASSUME NEW e \in queue, RelayHandle(e) PROVE OwnSpared' /\ Attending'
  <2>1. OwnSpared'
    BY <1>5, BridgeKeeps, HandlersSpareOwn DEF AttendInv
  <2>. QED
    BY <1>1, <1>2, <1>5, <2>1, FramesAttended, EnqueueAttends, DequeueAttends, StartAttends,
       EndAttends DEF RelayHandle, PortHandle
<1>. QED
  BY <1>1, <1>3, <1>4, <1>5 DEF RelayNext, AttendInv

LEMMA AttendStarts == RelayInit => AttendInv /\ PortsPlugged
<1>1. RelayInit => SparedInv /\ PortsPlugged
  BY PlacedStarts DEF PlacedInv
<1>. QED
  BY <1>1 DEF RelayInit, Init, Sched!SchedulerInit, AttendInv, OwnSpared, Own, Attending, Called

LEMMA AttendingServes == RelayInv /\ AttendInv => PortsServed
<1>. SUFFICES ASSUME RelayInv, AttendInv, NEW p \in Port
              PROVE  IF busy[p]
                     THEN \E e \in queue :
                            /\ e.kind \in {"TxStart", "TxEnd"} /\ e.node = Bridge /\ Live(e)
                            /\ e.signal \in DOMAIN emitting /\ emitting[e.signal] = p
                     ELSE egress[p] # <<>> => QueuedFor("Dequeue", p, Head(egress[p])) # {}
  BY DEF PortsServed
<1>1. CASE busy[p]
  BY <1>1 DEF AttendInv, Attending, Ending, Own, OwnSpared, Live
<1>2. CASE ~busy[p]
  BY <1>2 DEF AttendInv, Attending, Called, Calls, QueuedFor
<1>. QED
  BY <1>1, <1>2

(* No port of the bridge is ever stuck, whatever stale and repeated        *)
(* Dequeues are about, however transmissions of one port overlap, and with *)
(* calls that schedule in the past: the only way to lose a port is that    *)
(* the record of its transmission goes to another port.                    *)
THEOREM ServedUnlessRecordsCross ==
  ASSUME SteadyBridge PROVE RelaySpec /\ [][RecordsKept]_emitting => []PortsServed
<1>. QED
  BY AttendStarts, AttendStep, AttendingServes, RelayStarts, RelayStep, PTL DEF RelaySpec
---------------------------------------------------------------------------
(***************************************************************************)
(* Records do not cross between ports that send frames of different        *)
(* lengths.                                                                *)
(*                                                                         *)
(* A signal of the bridge is as long as a frame or a jam of a station that *)
(* another port hears, and a port with a full-duplex cable hears no jam.   *)
(* So, if what comes to two ports never has one length, the records of     *)
(* their transmissions are different.                                      *)
(***************************************************************************)

JamLengths == {c.jam * t : c \in Configs, t \in BitTimes}
FrameLengths(n) == {Duration[o[3]] : o \in {o \in Offers : o[2] = n}}
LengthsOf(n) == FrameLengths(n) \cup IF Access[n] \in FdSegment THEN {} ELSE JamLengths
LengthsFrom(q) == UNION {LengthsOf(n) : n \in {n \in Node : <<n, q>> \in Pairs}}
LengthsTo(p) == UNION {LengthsFrom(q) : q \in Port \ {p}}

LengthsApart == \A p, q \in Port : p # q => LengthsTo(p) \cap LengthsTo(q) = {}

(* The length of a signal is one of its source.                            *)
Long(x) ==
  /\ x.kind \in {"CollisionDetect", "JamStart"} => Access[x.node] \notin FdSegment
  /\ (x.kind = "TxStart" /\ x.node # Bridge) => x.signal.dur \in LengthsOf(x.signal.source)
  /\ (x.kind = "FrontArrive" /\ x.node \in Port) => x.signal.dur \in LengthsOf(x.signal.source)

QueueLong == \A x \in queue : Long(x)
CopiesLong == \A i \in Indices : relayed[i].dur \in LengthsFrom(relayed[i].ingress)
RecordsLong == \A s \in DOMAIN emitting : s.dur \in LengthsTo(emitting[s])

LengthInv == LegitInv /\ QueueLong /\ CopiesLong /\ RecordsLong
(* A kind of which nothing is said.                                        *)
Plain(x) == x.kind \notin {"CollisionDetect", "JamStart", "TxStart", "FrontArrive"}

LEMMA LongBatch ==
  ASSUME QueueLong, NEW new, queue' \subseteq queue \cup new, \A f \in new : Plain(f) \/ Long(f)
  PROVE  QueueLong'
BY DEF QueueLong, Plain, Long

LEMMA LongPair ==
  ASSUME QueueLong, NEW x, NEW y, queue' \subseteq queue \cup {x, y},
         Plain(x) \/ Long(x), Plain(y) \/ Long(y)
  PROVE  QueueLong'
BY DEF QueueLong, Plain, Long

LEMMA LongOne ==
  ASSUME QueueLong, NEW x, queue' \subseteq queue \cup {x}, Plain(x) \/ Long(x)
  PROVE  QueueLong'
BY DEF QueueLong, Plain, Long

LEMMA FdStaysUp ==
  ASSUME SteadyBridge, PortsPlugged, NEW n \in Node PROVE OnFd(n) <=> Access[n] \in FdSegment
BY CsmaAssumption DEF SteadyBridge, PortsPlugged, OnFd

LEMMA StationEvent ==
  ASSUME RelayInv, NEW e \in queue, StationHandle(e), NEW kind \in NodeEvents, Pops(e, kind)
  PROVE  e.kind = kind /\ e.node \in Node /\ e.node # Bridge
BY RelayAssumption DEF StationHandle, Pops, Station

LEMMA AttemptIsLong ==
  ASSUME RelayInv, LegitInv, QueueLong, NEW e \in queue, StationHandle(e), HandleTxAttempt(e)
  PROVE  QueueLong'
<1>. DEFINE n == e.node
<1>1. e.kind = "TxAttempt" /\ n \in Node
  BY StationEvent DEF HandleTxAttempt, NodeEvents
<1>2. PICK o \in Offers : o[2] = n /\ o[3] = e.frame
  BY <1>1 DEF LegitInv, Legit, Offered
<1>3. PICK x : x = AttemptEntry(e.time + IfgTime(n), serial, n, e.frame)
  OBVIOUS
<1>4. PICK y : y = SignalEntry("TxStart", e.time, serial, n, FrameSignal(n, e.time, e.frame))
  OBVIOUS
<1>5. queue' \subseteq queue \cup {x, y}
  BY <1>3, <1>4 DEF HandleTxAttempt, Emits
<1>6. Plain(x)
  BY <1>3 DEF Plain, AttemptEntry
<1>7. y.kind = "TxStart" /\ y.signal.source = n /\ y.signal.dur = Duration[o[3]]
  BY <1>2, <1>4 DEF SignalEntry, FrameSignal, Signal
<1>8. Long(y)
  BY <1>2, <1>7 DEF Long, LengthsOf, FrameLengths
<1>. QED
  BY <1>5, <1>6, <1>8, LongPair

LEMMA StartIsLong ==
  ASSUME RelayInv, QueueLong, NEW e \in queue, StationHandle(e), HandleTxStart(e)
  PROVE  QueueLong'
<1>. DEFINE sig == e.signal
<1>1. e.kind = "TxStart" /\ e.node # Bridge
  BY StationEvent DEF HandleTxStart, NodeEvents, SignalEvents
<1>2. sig.dur \in LengthsOf(sig.source)
  BY <1>1 DEF QueueLong, Long
<1>3. PICK end : end = SignalEntry("TxEnd", sig.t0 + sig.dur, serial + 2 * NumNodes, e.node, sig)
  OBVIOUS
<1>4. PICK arrivals : arrivals = Arrivals(sig)
  OBVIOUS
<1>5. queue' \subseteq queue \cup (arrivals \cup {end})
  BY <1>3, <1>4 DEF HandleTxStart, Emits
<1>6. Plain(end)
  BY <1>3 DEF Plain, SignalEntry
<1>7. \A f \in arrivals : f.kind \in {"FrontArrive", "BackArrive"} /\ f.signal = sig
  BY <1>4 DEF Arrivals, SignalEntry
<1>8. \A f \in arrivals : Long(f)
  BY <1>2, <1>7 DEF Long
<1>. QED
  BY <1>5, <1>6, <1>8, LongBatch

LEMMA FrontIsLong ==
  ASSUME SteadyBridge, PortsPlugged, RelayInv, QueueLong, NEW e \in queue, StationHandle(e),
         HandleFrontArrive(e)
  PROVE  QueueLong'
<1>1. e.node \in Node
  BY StationEvent DEF HandleFrontArrive, NodeEvents, SignalEvents
<1>2. CASE OnFd(e.node)
  BY <1>2 DEF HandleFrontArrive, Emits, QueueLong
<1>3. CASE ~OnFd(e.node)
  <2>1. PICK new : new = Reactions(e)
    OBVIOUS
  <2>2. queue' \subseteq queue \cup new
    BY <1>3, <2>1 DEF HandleFrontArrive, Emits
  <2>3. \A f \in new : f.kind = "CollisionDetect" /\ f.node = e.node
    BY <2>1 DEF Reactions, SignalEntry
  <2>4. \A f \in new : Long(f)
    BY <1>1, <1>3, <2>3, FdStaysUp DEF Long
  <2>. QED
    BY <2>2, <2>4, LongBatch
<1>. QED
  BY <1>2, <1>3

LEMMA JamIsLong ==
  ASSUME RelayInv, QueueLong, NEW e \in queue, StationHandle(e),
         HandleCollisionDetect(e) \/ HandleJamStart(e)
  PROVE  QueueLong'
<1>. DEFINE n == e.node
<1>1. n \in Node /\ Access[n] \notin FdSegment
  BY StationEvent DEF HandleCollisionDetect, HandleJamStart, NodeEvents, SignalEvents, JamEvents,
                      QueueLong, Long
<1>2. CASE HandleCollisionDetect(e)
  <2>1. PICK x : x = JamEntry("JamStart", e.time, serial, n)
    OBVIOUS
  <2>2. queue' \subseteq queue \cup {x}
    BY <1>2, <2>1 DEF HandleCollisionDetect, Emits
  <2>3. Long(x)
    BY <1>1, <2>1 DEF JamEntry, Long
  <2>. QED
    BY <2>2, <2>3, LongOne
<1>3. CASE HandleJamStart(e)
  <2>1. PICK x : x = SignalEntry("TxStart", e.time, serial, n, JamSignal(n, e.time))
    OBVIOUS
  <2>2. PICK y : y = JamEntry("JamEnd", e.time + JamTime(n), serial + 1, n)
    OBVIOUS
  <2>3. queue' \subseteq queue \cup {x, y}
    BY <1>3, <2>1, <2>2 DEF HandleJamStart, Emits
  <2>4. HdRateAt(n) \in BitTimes /\ config[n] \in Configs
    BY <1>1, CsmaAssumption DEF HdRateAt, RateAt, RelayInv, RelayTypeOK, WorldOK
  <2>5. JamTime(n) \in JamLengths
    BY <2>4 DEF JamTime, JamLengths
  <2>6. x.kind = "TxStart" /\ x.signal.source = n /\ x.signal.dur = JamTime(n)
    BY <2>1 DEF SignalEntry, JamSignal, Signal
  <2>7. Long(x)
    BY <1>1, <2>5, <2>6 DEF Long, LengthsOf
  <2>8. Plain(y)
    BY <2>2 DEF JamEntry, Plain
  <2>. QED
    BY <2>3, <2>7, <2>8, LongPair
<1>. QED
  BY <1>2, <1>3

LEMMA OthersAreLong ==
  ASSUME QueueLong, NEW e \in queue,
         \/ HandleTxEnd(e) \/ HandleBackArrive(e) \/ HandleJamEnd(e) \/ HandleBackoffExpire(e)
         \/ HandleTopologyChanged(e) \/ DropCancelled(e)
  PROVE  QueueLong'
<1>1. CASE HandleTxEnd(e) \/ HandleBackArrive(e) \/ HandleTopologyChanged(e) \/ DropCancelled(e)
  BY <1>1 DEF HandleTxEnd, HandleBackArrive, HandleTopologyChanged, DropCancelled, Sched!Skip,
              Emits, QueueLong
<1>2. CASE HandleJamEnd(e)
  <2>1. \/ queue' \subseteq queue
        \/ \E t, a : queue' \subseteq queue \cup {BackoffEntry(t, serial, e.node, a)}
    BY <1>2 DEF HandleJamEnd, Emits
  <2>2. \A t, a : Plain(BackoffEntry(t, serial, e.node, a))
    BY DEF BackoffEntry, Plain
  <2>. QED
    BY <2>1, <2>2, LongBatch DEF QueueLong
<1>3. CASE HandleBackoffExpire(e)
  <2>1. PICK x : x = AttemptEntry(e.time, serial, e.node, pending[e.node])
    OBVIOUS
  <2>2. queue' \subseteq queue \cup {x}
    BY <1>3, <2>1 DEF HandleBackoffExpire, Emits
  <2>3. Plain(x)
    BY <2>1 DEF AttemptEntry, Plain
  <2>. QED
    BY <2>2, <2>3, LongOne
<1>. QED
  BY <1>1, <1>2, <1>3

LEMMA StationsAreLong ==
  ASSUME SteadyBridge, PortsPlugged, RelayInv, LegitInv, QueueLong,
         NEW e \in queue, StationHandle(e)
  PROVE  QueueLong'
BY AttemptIsLong, StartIsLong, FrontIsLong, JamIsLong, OthersAreLong DEF StationHandle, Handle

LEMMA HostIsLong ==
  ASSUME QueueLong, RelayHost PROVE QueueLong'
<1>1. ASSUME NEW o \in Offers, ScheduleTxAttempt(o[1], o[2], o[3]) PROVE QueueLong'
  <2>1. PICK x : x = AttemptEntry(o[1], serial, o[2], o[3])
    OBVIOUS
  <2>2. queue' \subseteq queue \cup {x} /\ Plain(x)
    BY <1>1, <2>1 DEF ScheduleTxAttempt, HostPushes, AttemptEntry, Plain
  <2>. QED
    BY <2>2, LongOne
<1>2. \A t, s : Plain(EditEntry(t, s))
  BY DEF EditEntry, Plain
<1>3. ASSUME NEW seg, RemoveSegment(seg) \/ AddSegment(seg) PROVE QueueLong'
  <2>1. queue' \subseteq queue \cup {EditEntry(Now, serial)}
    BY <1>3 DEF RemoveSegment, AddSegment, HostPushes
  <2>. QED
    BY <1>2, <2>1, LongOne
<1>4. ASSUME NEW n \in Station, RemoveNode(n) PROVE QueueLong'
  <2>1. PICK new : new = {EditEntry(Now, serial + i) : i \in 0 .. Cardinality({Access[n]} \cap up)}
    OBVIOUS
  <2>2. queue' \subseteq queue \cup new
    BY <1>4, <2>1 DEF RemoveNode, HostPushes
  <2>. QED
    BY <1>2, <2>1, <2>2, LongBatch
<1>5. CASE StartRun \/ ReturnFromRun
  BY <1>5 DEF StartRun, ReturnFromRun, Sched!StartRun, Sched!ReturnFromRun, QueueLong
<1>. QED
  BY <1>1, <1>3, <1>4, <1>5 DEF RelayHost

LEMMA BridgeIsLong ==
  ASSUME RelayInv, QueueLong, NEW e \in queue, RelayHandle(e) PROVE QueueLong'
<1>1. CASE RelayFrontArrive(e) \/ RelayBackArrive(e)
  <2>1. PICK x : x = EligibleEntry(e.time + DecodeTime, serial, e.node, Len(relayed) + 1)
    OBVIOUS
  <2>2. queue' \subseteq queue \cup {x} /\ Plain(x)
    BY <1>1, <2>1 DEF RelayFrontArrive, RelayBackArrive, Emits, EligibleEntry, Plain
  <2>. QED
    BY <2>2, LongOne
<1>2. \A k \in {"Enqueue", "Dequeue"} : \A t, s, z, i : Plain(SerializerEntry(k, t, s, z, i))
  BY DEF SerializerEntry, Plain
<1>3. CASE HandleFrameEligible(e)
  <2>1. PICK new : new = {SerializerEntry("Enqueue", e.time, serial + PortNo[p],
                                          SerializerOf(p), e.frame) : p \in EgressPorts(e.node)}
    OBVIOUS
  <2>2. queue' \subseteq queue \cup new /\ \A f \in new : Plain(f)
    BY <1>2, <1>3, <2>1 DEF HandleFrameEligible, Emits
  <2>. QED
    BY <2>2, LongBatch
<1>4. CASE HandleEnqueue(e)
  <2>1. PICK new : new = {SerializerEntry("Dequeue", e.time, serial, e.serializer, e.frame) :
                             p \in {q \in PortsOf(e.serializer) : ~busy[q]}}
    OBVIOUS
  <2>2. queue' \subseteq queue \cup new /\ \A f \in new : Plain(f)
    BY <1>2, <1>4, <2>1 DEF HandleEnqueue, Emits
  <2>. QED
    BY <2>2, LongBatch
<1>5. CASE HandleDequeue(e)
  <2>1. \/ queue' \subseteq queue
        \/ \E sig : queue' \subseteq queue \cup {SignalEntry("TxStart", e.time, serial, Bridge, sig)}
    BY <1>5 DEF HandleDequeue, Emits
  <2>2. \A sig : Long(SignalEntry("TxStart", e.time, serial, Bridge, sig))
    BY DEF SignalEntry, Long
  <2>. QED
    BY <2>1, <2>2, LongBatch DEF QueueLong
<1>6. CASE RelayTxStart(e)
  <2>. DEFINE sig == e.signal
              end == SignalEntry("TxEnd", sig.t0 + sig.dur, serial + 2 * NumNodes, Bridge, sig)
              ends == [p \in PortsFor(sig) |-> end]
  <2>1. PICK new : new = UNION {RelayArrivals(sig, p) \cup {ends[p]} : p \in PortsFor(sig)}
    OBVIOUS
  <2>2. queue' \subseteq queue \cup new
    BY <1>6, <2>1 DEF RelayTxStart, Emits
  <2>3. Plain(end) /\ \A p \in PortsFor(sig) : ends[p] = end
    BY DEF SignalEntry, Plain
  <2>4. ASSUME NEW p, NEW f \in RelayArrivals(sig, p) PROVE Long(f)
    <3>1. \/ \E m \in Hears(p) \ Port : \E t, s : f = SignalEntry("FrontArrive", t, s, m, sig)
          \/ \E m \in Hears(p) \ Port : \E t, s : f = SignalEntry("BackArrive", t, s, m, sig)
      BY <2>4 DEF RelayArrivals
    <3>2. f.kind \in {"FrontArrive", "BackArrive"} /\ f.node \notin Port
      BY <3>1 DEF SignalEntry
    <3>. QED
      BY <3>2 DEF Long
  <2>5. \A f \in new : Plain(f) \/ Long(f)
    BY <2>1, <2>3, <2>4
  <2>. QED
    BY <2>2, <2>5, LongBatch
<1>7. CASE RelayTxEnd(e)
  <2>1. PICK new : new = UNION {NextDequeue(e, p) : p \in PortsFor(e.signal)}
    OBVIOUS
  <2>2. queue' \subseteq queue \cup new
    BY <1>7, <2>1 DEF RelayTxEnd, Emits
  <2>3. \A f \in new : Plain(f)
    BY <2>1 DEF NextDequeue, SerializerEntry, Plain
  <2>. QED
    BY <2>2, <2>3, LongBatch
<1>. QED
  BY <1>1, <1>3, <1>4, <1>5, <1>6, <1>7 DEF RelayHandle, PortHandle

(* A copy is as long as the frame its source is trying to send, or as the  *)
(* signal.                                                                 *)
LEMMA CopiesStayLong ==
  ASSUME RelayInv, LegitInv, QueueLong, CopiesLong, NEW e \in queue, RelayHandle(e)
  PROVE  CopiesLong'
<1>1. CASE relayed' = relayed
  BY <1>1 DEF CopiesLong, Indices
<1>2. CASE RelayFrontArrive(e)
  <2>. DEFINE src == e.signal.source
              length == CopyLength(e.signal)
              new == [copy |-> Copy(e.signal), dur |-> length,
                      ingress |-> e.node, wire |-> e.signal.dur]
  <2>1. e.kind = "FrontArrive" /\ e.node \in Port /\ relayed' = Append(relayed, new)
    BY <1>2 DEF RelayFrontArrive, Pops, RegisterFrame
  <2>2. e.signal \in SignalSet /\ <<src, e.node>> \in Pairs /\ e.signal.dur \in LengthsOf(src)
    BY <2>1, NetworkFields, RelayAssumption
       DEF RelayInv, QueueInv, RelayQueueOK, LegitInv, Legit, QueueLong, Long, NodeEvents,
           SignalEvents, ArrivalEvents
  <2>3. src \in Node
    BY <2>2 DEF SignalSet
  <2>4. length \in LengthsOf(src)
    <3>1. CASE pending[src] = NoFrame
      BY <2>2, <3>1 DEF CopyLength, Copy
    <3>2. CASE pending[src] # NoFrame
      <4>1. PICK o \in Offers : o[2] = src /\ o[3] = pending[src]
        BY <2>3, <3>2 DEF LegitInv, Offered
      <4>. QED
        BY <3>2, <4>1 DEF CopyLength, Copy, LengthsOf, FrameLengths
    <3>. QED
      BY <3>1, <3>2
  <2>5. length \in LengthsFrom(e.node)
    BY <2>2, <2>3, <2>4 DEF LengthsFrom
  <2>. HIDE DEF length
  <2>6. new.dur \in LengthsFrom(new.ingress)
    BY <2>5
  <2>7. relayed \in Seq(Relayed)
    BY DEF RelayInv, RelayTypeOK
  <2>. HIDE DEF new
  <2>8. /\ Indices = 1 .. Len(relayed) /\ Len(relayed) \in Nat
        /\ Indices' = 1 .. (Len(relayed) + 1)
        /\ \A i \in Indices : relayed'[i] = relayed[i]
        /\ relayed'[Len(relayed) + 1] = new
    BY <2>1, <2>7 DEF Indices
  <2>. QED
    BY <2>6, <2>8 DEF CopiesLong
<1>. QED
  BY <1>1, <1>2 DEF RelayHandle, PortHandle, RelayBackArrive, HandleFrameEligible, HandleEnqueue,
                    HandleDequeue, RelayTxStart, RelayTxEnd, relay

(* A port sends frames that came by another.                               *)
LEMMA FrontCameElsewhere ==
  ASSUME RelayInv, Placed, CopiesLong, NEW p \in Port, NEW i, IsFront(p, i)
  PROVE  i \in Indices /\ relayed[i].dur \in LengthsTo(p)
<1>1. sent[p] \in Seq(Indices) /\ egress[p] \in Seq(Indices)
  BY DEF RelayInv, RelayTypeOK
<1>2. egress[p] # <<>> /\ i = egress[p][1]
  BY <1>1 DEF IsFront
<1>3. i \in Indices /\ Len(sent[p]) + 1 \in DOMAIN Line(p) /\ Line(p)[Len(sent[p]) + 1] = i
  <2>1. PICK S : S = Indices
    OBVIOUS
  <2>2. PICK a \in Seq(S), b \in Seq(S) : a = sent[p] /\ b = egress[p]
    BY <1>1, <2>1
  <2>3. b # <<>> /\ i = b[1]
    BY <1>2, <2>2
  <2>4. Len(a) + 1 \in DOMAIN (a \o b) /\ (a \o b)[Len(a) + 1] = b[1] /\ b[1] \in S
    BY <2>3
  <2>. QED
    BY <2>1, <2>2, <2>3, <2>4 DEF Line
<1>4. InLine(p, i) # {}
  BY <1>3 DEF InLine
<1>5. p # relayed[i].ingress
  BY <1>3, <1>4 DEF Placed, PlaceOf, SinglePlace
<1>6. relayed[i].ingress \in Port
  <2>1. relayed \in Seq(Relayed)
    BY DEF RelayInv, RelayTypeOK
  <2>2. relayed[i] \in Relayed
    BY <1>3, <2>1 DEF Indices
  <2>. QED
    BY <2>2 DEF Relayed
<1>. QED
  BY <1>3, <1>5, <1>6 DEF CopiesLong, LengthsTo

LEMMA RecordsStayLong ==
  ASSUME LengthsApart, RelayInv, Placed, CopiesLong, RecordsLong,
         NEW e \in queue, RelayHandle(e)
  PROVE  RecordsLong' /\ RecordsKept
<1>1. CASE emitting' = emitting
  BY <1>1 DEF RecordsLong, RecordsKept
<1>2. CASE RelayTxEnd(e)
  <2>1. /\ DOMAIN emitting' \subseteq DOMAIN emitting
        /\ \A s \in DOMAIN emitting' : emitting'[s] = emitting[s]
    BY <1>2 DEF RelayTxEnd, Restrict
  <2>. QED
    BY <2>1 DEF RecordsLong, RecordsKept
<1>3. CASE HandleDequeue(e) /\ emitting' # emitting
  <2>. DEFINE sig == Signal(Bridge, e.time, relayed[e.frame].dur, "Frame")
  <2>1. PICK p \in PortsOf(e.serializer) :
          /\ IsFront(p, e.frame)
          /\ emitting' = [s \in {sig} \cup DOMAIN emitting |-> IF s = sig THEN p ELSE emitting[s]]
    BY <1>3 DEF HandleDequeue
  <2>2. p \in Port /\ sig.dur \in LengthsTo(p)
    BY <2>1, FrontCameElsewhere DEF PortsOf, Signal
  <2>. HIDE DEF sig
  <2>3. RecordsLong'
    BY <2>1, <2>2 DEF RecordsLong
  <2>4. sig \in DOMAIN emitting => emitting[sig] = p
    <3>1. \A s \in DOMAIN emitting : emitting[s] \in Port /\ s.dur \in LengthsTo(emitting[s])
      BY DEF RelayInv, RelayTypeOK, RecordsLong
    <3>. QED
      BY <2>2, <3>1 DEF LengthsApart
  <2>. QED
    BY <2>1, <2>3, <2>4 DEF RecordsKept
<1>. QED
  BY <1>1, <1>2, <1>3 DEF RelayHandle, PortHandle, RelayFrontArrive, RelayBackArrive,
                          HandleFrameEligible, HandleEnqueue, RelayTxStart, relay

LEMMA LengthStep ==
  ASSUME SteadyBridge, LengthsApart, RelayInv, PlacedInv, LengthInv, [RelayNext]_relayVars
  PROVE  LengthInv' /\ [RecordsKept]_emitting
<1>2. CASE RelayHost /\ UNCHANGED relay
  <2>1. CopiesLong' /\ RecordsLong' /\ emitting' = emitting
    BY <1>2 DEF relay, CopiesLong, RecordsLong, Indices, LengthInv
  <2>. QED
    BY <1>2, <2>1, HostIsLegit, HostIsLong DEF LengthInv
<1>3. ASSUME NEW e \in queue, StationHandle(e), UNCHANGED relay
      PROVE  LengthInv' /\ [RecordsKept]_emitting
  <2>1. CopiesLong' /\ RecordsLong' /\ emitting' = emitting
    BY <1>3 DEF relay, CopiesLong, RecordsLong, Indices, LengthInv
  <2>. QED
    BY <1>3, <2>1, StationsAreLegit, StationsAreLong DEF LengthInv, PlacedInv
<1>4. ASSUME NEW e \in queue, RelayHandle(e) PROVE LengthInv' /\ [RecordsKept]_emitting
  BY <1>4, BridgeIsLegit, BridgeIsLong, CopiesStayLong, RecordsStayLong DEF LengthInv, PlacedInv
<1>5. CASE UNCHANGED relayVars
  BY <1>5 DEF relayVars, vars, mac, relay, LengthInv, LegitInv, QueueLong, CopiesLong,
              RecordsLong, Indices
<1>. QED
  BY <1>2, <1>3, <1>4, <1>5 DEF RelayNext

LEMMA LengthStarts == RelayInit => LengthInv
BY DEF RelayInit, Init, Sched!SchedulerInit, LengthInv, LegitInv, QueueLong, CopiesLong,
       RecordsLong, Indices

(* No record crosses, and so no port is ever stuck, if what comes to two   *)
(* ports never has one length: whatever the stations send and when, and    *)
(* whatever is plugged elsewhere.                                          *)
THEOREM AlwaysServedIfLengthsDiffer ==
  ASSUME SteadyBridge, LengthsApart PROVE RelaySpec => []PortsServed
<1>1. RelaySpec => [][RecordsKept]_emitting
  <2>1. RelayInit => RelayInv /\ PlacedInv /\ FloodedEverywhere /\ LengthInv
    BY RelayStarts, PlacedStarts, LengthStarts
  <2>2. /\ RelayInv /\ PlacedInv /\ FloodedEverywhere /\ LengthInv /\ [RelayNext]_relayVars
        => /\ RelayInv' /\ PlacedInv' /\ FloodedEverywhere' /\ LengthInv'
           /\ [RecordsKept]_emitting
    BY RelayStep, PlacedStep, LengthStep
  <2>. QED
    BY <2>1, <2>2, PTL DEF RelaySpec
<1>. QED
  BY <1>1, ServedUnlessRecordsCross, PTL

---------------------------------------------------------------------------
(***************************************************************************)
(* Stations that share a cable with the bridge.                            *)
(*                                                                         *)
(* The bridge senses no carrier and answers no collision, and it may start *)
(* to send at any time.  The argument of CsmaMedium_proofs is about what a *)
(* station hears and does, whoever sends, so it needs only that the bridge *)
(* pushes no start for a station and takes no answer away.                 *)
(***************************************************************************)

LEMMA NetworkOrderly ==
  ASSUME RelayInv, SparedInv, Sched!KeysAhead PROVE Orderly
<1>1. \A e \in queue : e.time \in Nat /\ e.serial \in Nat
  BY NetworkFields DEF RelayInv, QueueInv, RelayQueueOK
<1>. QED
  BY <1>1 DEF RelayInv, QueueInv, RelayQueueOK, RelayTypeOK, SparedInv, TombstonesOld, Orderly

LEMMA BridgeStartsNoStation ==
  ASSUME RelayInv, NEW e \in queue, RelayHandle(e)
  PROVE  /\ \E new, k : Emits(e, new, k) /\ StartsNoFrame(new)
         /\ Pops(e, e.kind) /\ UNCHANGED <<foreign, state>>
         /\ \A n \in Node : ~Answers(e, n)
<1>1. /\ Pops(e, e.kind) /\ UNCHANGED <<foreign, state>>
      /\ \A n \in Node : ~Answers(e, n)
  BY RelayAssumption
     DEF RelayHandle, PortHandle, RelayFrontArrive, RelayBackArrive, HandleFrameEligible,
         HandleEnqueue, HandleDequeue, RelayTxStart, RelayTxEnd, Pops, mac, Answers
<1>2. ASSUME NEW new, NEW k, Emits(e, new, k), \A f \in new : ~FrameStart(f)
      PROVE  \E fresh, i : Emits(e, fresh, i) /\ StartsNoFrame(fresh)
  BY <1>2 DEF StartsNoFrame
<1>3. CASE RelayFrontArrive(e)
  <2>1. PICK x : x = EligibleEntry(e.time + DecodeTime, serial, e.node, Len(relayed) + 1)
    OBVIOUS
  <2>2. Emits(e, {x}, 1) /\ x.kind = "FrameEligible"
    BY <1>3, <2>1 DEF RelayFrontArrive, EligibleEntry
  <2>3. \A f \in {x} : ~FrameStart(f)
    BY <2>2 DEF FrameStart
  <2>. QED
    BY <1>1, <1>2, <2>2, <2>3
<1>4. CASE RelayBackArrive(e)
  BY <1>1, <1>2, <1>4 DEF RelayBackArrive
<1>5. CASE HandleFrameEligible(e)
  <2>. DEFINE new == {SerializerEntry("Enqueue", e.time, serial + PortNo[p], SerializerOf(p),
                                      e.frame) : p \in EgressPorts(e.node)}
  <2>1. Emits(e, new, Cardinality(Port)) /\ \A f \in new : f.kind = "Enqueue"
    BY <1>5 DEF HandleFrameEligible, SerializerEntry
  <2>. HIDE DEF new
  <2>2. \A f \in new : ~FrameStart(f)
    BY <2>1 DEF FrameStart
  <2>. QED
    BY <1>1, <1>2, <2>1, <2>2
<1>6. CASE HandleEnqueue(e)
  <2>. DEFINE new == {SerializerEntry("Dequeue", e.time, serial, e.serializer, e.frame) :
                        p \in {q \in PortsOf(e.serializer) : ~busy[q]}}
  <2>1. Emits(e, new, 1) /\ \A f \in new : f.kind = "Dequeue"
    BY <1>6 DEF HandleEnqueue, SerializerEntry
  <2>. HIDE DEF new
  <2>2. \A f \in new : ~FrameStart(f)
    BY <2>1 DEF FrameStart
  <2>. QED
    BY <1>1, <1>2, <2>1, <2>2
<1>7. CASE HandleDequeue(e)
  <2>1. PICK x : x = SignalEntry("TxStart", e.time, serial, Bridge,
                                 Signal(Bridge, e.time, relayed[e.frame].dur, "Frame"))
    OBVIOUS
  <2>2. ~FrameStart(x)
    BY <2>1, RelayAssumption DEF SignalEntry, FrameStart
  <2>3. Emits(e, {}, 0) \/ Emits(e, {x}, 1)
    BY <1>7, <2>1 DEF HandleDequeue
  <2>. QED
    BY <1>1, <1>2, <2>2, <2>3
<1>8. CASE RelayTxStart(e)
  <2>. DEFINE sig == e.signal
              end(p) == [q \in PortsFor(sig) |->
                           SignalEntry("TxEnd", sig.t0 + sig.dur, serial + 2 * NumNodes,
                                       Bridge, sig)][p]
              new == UNION {RelayArrivals(sig, p) \cup {end(p)} : p \in PortsFor(sig)}
  <2>1. Emits(e, new, 2 * NumNodes + 1)
    BY <1>8 DEF RelayTxStart
  <2>2. \A p \in PortsFor(sig) : end(p).kind = "TxEnd"
    BY DEF SignalEntry
  <2>3. \A p : \A f \in RelayArrivals(sig, p) : f.kind \in ArrivalEvents
    BY ArrivalKinds
  <2>. HIDE DEF end
  <2>4. \A f \in new : f.kind \in {"TxEnd"} \cup ArrivalEvents
    BY <2>2, <2>3
  <2>. HIDE DEF new
  <2>5. \A f \in new : ~FrameStart(f)
    BY <2>4 DEF FrameStart, ArrivalEvents
  <2>. QED
    BY <1>1, <1>2, <2>1, <2>5
<1>9. CASE RelayTxEnd(e)
  <2>. DEFINE new == UNION {NextDequeue(e, p) : p \in PortsFor(e.signal)}
  <2>1. Emits(e, new, 1)
    BY <1>9 DEF RelayTxEnd
  <2>2. \A f \in new : f.kind = "Dequeue"
    BY DEF NextDequeue, SerializerEntry
  <2>. HIDE DEF new
  <2>3. \A f \in new : ~FrameStart(f)
    BY <2>2 DEF FrameStart
  <2>. QED
    BY <1>1, <1>2, <2>1, <2>3
<1>. QED
  BY <1>1, <1>3, <1>4, <1>5, <1>6, <1>7, <1>8, <1>9 DEF RelayHandle, PortHandle

LEMMA BridgeAnswers ==
  ASSUME RelayInv, Orderly, MediumInv, NEW e \in queue, RelayHandle(e) PROVE MediumInv'
<1>1. PICK new, k : Emits(e, new, k) /\ StartsNoFrame(new)
  BY BridgeStartsNoStation
<1>2. /\ Pops(e, e.kind) /\ foreign' = foreign /\ state' = state
      /\ \A n \in Node : ~Answers(e, n)
      /\ FdSilent /\ ClearToSend /\ CollisionAnswered
  BY BridgeStartsNoStation DEF MediumInv
<1>3. foreign' \in [Node -> Nat] /\ \A n \in Node : foreign'[n] <= foreign[n]
  BY <1>2, OrderlyTypes
<1>4. \A n \in Node : SendsFrame(n)' => SendsFrame(n)
  BY <1>2 DEF SendsFrame, IsTransmitting
<1>5. FdSilent' /\ CollisionAnswered'
  BY <1>1, <1>2, <1>3, <1>4, PopFacts, AnswersKept
<1>6. ClearToSend'
  BY <1>1, <1>2, <1>3, StaysClear
<1>. QED
  BY <1>5, <1>6 DEF MediumInv

LEMMA StationAnswers ==
  ASSUME SteadyBridge, PortsPlugged, RelayInv, Orderly, MediumInv,
         NEW e \in queue, StationHandle(e)
  PROVE  MediumInv'
<1>1. Handle(e)
  BY DEF StationHandle
<1>2. CASE DropCancelled(e)
  BY <1>2, DropAnswers
<1>3. CASE ~DropCancelled(e)
  <2>1. AtStation(e)
    BY <1>3, StationReady DEF AtStation, StationHandle, Station, Ready
  <2>2. HandleFrontArrive(e) => e.node \in Node
    BY <2>1 DEF AtStation, HandleFrontArrive, Pops, NodeEvents, SignalEvents
  <2>. QED
    BY <1>1, <2>1, <2>2, FdStaysUp, HandlersAnswer
<1>. QED
  BY <1>2, <1>3

LEMMA NetworkAnswers ==
  ASSUME SteadyBridge, PortsPlugged, RelayInv, SparedInv, Sched!KeysAhead, MediumInv,
         [RelayNext]_relayVars
  PROVE  MediumInv'
<1>1. Orderly
  BY NetworkOrderly
<1>2. CASE RelayHost /\ ~StartRun /\ ~ReturnFromRun
  BY <1>1, <1>2, MildCallsAnswer, RemovalAnswers, RelayAssumption DEF RelayHost, Station
<1>3. CASE StartRun \/ ReturnFromRun \/ UNCHANGED relayVars
  <2>1. UNCHANGED <<queue, last, cancelled, foreign, state>>
    BY <1>3 DEF StartRun, ReturnFromRun, Sched!StartRun, Sched!ReturnFromRun, relayVars, vars,
                mac
  <2>. QED
    BY <2>1, MediumRests
<1>. QED
  BY <1>1, <1>2, <1>3, StationAnswers, BridgeAnswers DEF RelayNext

(* Theorem 2 of the engine in a network with a bridge: a station that is   *)
(* sending a frame notices every foreign carrier in the instant in which   *)
(* it comes, also that of the bridge, which waits for nobody (engine.rs,   *)
(* handle_front_arrive, handle_collision_detect, handle_jam_start and the  *)
(* relay branch of handle_tx_start).                                       *)
THEOREM CollisionsAnsweredBesideBridge ==
  ASSUME SteadyBridge, ~PastAllowed PROVE RelaySpec => []CollisionAnswered
<1>1. RelayInit => MediumInv
  BY MediumStarts DEF RelayInit
<1>2. SteadyBridge /\ PortsPlugged /\ RelayInv /\ SparedInv /\ Sched!KeysAhead /\ MediumInv
        /\ [RelayNext]_relayVars => MediumInv'
  BY NetworkAnswers
<1>3. MediumInv => CollisionAnswered
  BY DEF MediumInv
<1>4. PortsPlugged /\ [RelayNext]_relayVars => PortsPlugged'
  BY PortsStayPlugged
<1>5. RelayInv /\ SparedInv /\ [RelayNext]_relayVars => SparedInv'
  BY SparedStep
<1>6. RelayInit => PortsPlugged /\ SparedInv
  BY PlacedStarts DEF PlacedInv
<1>7. RelaySpec => []RelayInv
  BY RelayStarts, RelayStep, PTL DEF RelaySpec
<1>. QED
  BY <1>1, <1>2, <1>3, <1>4, <1>5, <1>6, <1>7, RelayKeysAhead, PTL DEF RelaySpec
===============================================================================
