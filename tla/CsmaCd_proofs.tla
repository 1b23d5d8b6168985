---------------------------- MODULE CsmaCd_proofs ----------------------------
(***************************************************************************)
(* Proofs about CsmaCd, for any topology, any frames and any bounds.       *)
(*                                                                         *)
(* The argument: every handler pushes a batch of entries that Fresh        *)
(* describes, which gives both the types (TypeCorrect) and a Dispatch step *)
(* of the abstract scheduler (ImplementsTheScheduler); what Scheduler_proofs*)
(* shows of that machine then holds of this one.                           *)
(*                                                                         *)
(* Two facts make this inductive.  An entry pushed at the current instant  *)
(* and phase sorts after the entry being handled only because serials are  *)
(* used up (SerialsUsed), and arrivals lie in the future only because a    *)
(* signal starts when its TxStart is due (StartsOnTime).                   *)
(***************************************************************************)
EXTENDS CsmaCd, FiniteSetTheorems, TLAPS

SP == INSTANCE Scheduler_proofs

SerialsUsed == \A e \in queue : e.serial < serial
StartsOnTime == \A e \in queue : e.kind = "TxStart" => e.signal.t0 = e.time

CsmaInv == TypeOK /\ SerialsUsed /\ StartsOnTime

---------------------------------------------------------------------------
(* Types of the data.                                                      *)

LEMMA NumNodesType == NumNodes \in Nat
BY CsmaAssumption, FS_CardinalityType DEF NumNodes

(* What a handler finds: the state it works on, and the entry it handles.  *)
Typed == Now \in Nat /\ serial \in Nat /\ MacOK /\ WorldOK /\ HistoryOK

Ready(e) ==
  /\ Typed
  /\ e.time \in Nat
  /\ e.kind \in NodeEvents => e.node \in Node
  /\ e.kind \in {"TxStart", "TxEnd"} => e.signal \in SignalSet
  /\ e.kind = "TxStart" => e.signal.t0 = e.time
  /\ e.kind = "TxAttempt" => e.frame \in Frame

(* Rates and configurations, whatever edits have made of them.             *)
LEMMA TimesTyped ==
  ASSUME Typed, NEW n \in Node
  PROVE  IfgTime(n) \in Nat /\ SlotTime(n) \in Nat /\ JamTime(n) \in Nat \ {0}
<1>1. config[n] \in MacConfig
  BY CsmaAssumption DEF Typed, WorldOK
<1>2. RateAt(n) \in BitTimes /\ HdRateAt(n) \in BitTimes
  BY CsmaAssumption DEF Typed, WorldOK, RateAt, HdRateAt
<1>3. /\ RateAt(n) \in Nat \ {0} /\ HdRateAt(n) \in Nat \ {0}
      /\ SlotBits[HdRateAt(n)] \in Nat
  BY <1>2, CsmaAssumption
<1>4. config[n].ifg \in Nat /\ config[n].jam \in Nat \ {0}
  BY <1>1 DEF MacConfig
<1>5. \A i, j \in Nat : i * j \in Nat
  OBVIOUS
<1>6. \A i, j \in Nat \ {0} : i * j \in Nat \ {0}
  OBVIOUS
<1>. QED
  BY <1>3, <1>4, <1>5, <1>6 DEF IfgTime, SlotTime, JamTime

LEMMA DelaysType ==
  ASSUME Typed, NEW n \in Node, NEW attempt \in Nat, NEW d \in BackoffDelays(n, attempt)
  PROVE  d \in Nat
<1>1. PICK slots \in 0 .. (Window(n, attempt) - 1) : d = slots * SlotTime(n)
  BY DEF BackoffDelays
<1>2. slots \in Nat /\ SlotTime(n) \in Nat
  BY TimesTyped
<1>3. \A i, j \in Nat : i * j \in Nat
  OBVIOUS
<1>. QED
  BY <1>1, <1>2, <1>3

LEMMA EntryFields ==
  ASSUME NEW e \in EntrySet
  PROVE  /\ e.time \in Nat /\ e.serial \in Nat
         /\ e.kind \in NodeEvents => e.node \in Node
         /\ e.kind \in SignalEvents => e.signal \in SignalSet
         /\ e.kind = "TxAttempt" => e.frame \in Frame
         /\ e.kind = "BackoffExpire" => e.attempt \in Nat
BY DEF EntrySet, NodeEvents, SignalEvents, JamEvents

LEMMA EntriesTyped ==
  ASSUME NEW t \in Nat, NEW s \in Nat
  PROVE  /\ \A n \in Node, f \in Frame : AttemptEntry(t, s, n, f) \in EntrySet
         /\ \A k \in SignalEvents, n \in Node, sig \in SignalSet :
               SignalEntry(k, t, s, n, sig) \in EntrySet
         /\ \A k \in JamEvents, n \in Node : JamEntry(k, t, s, n) \in EntrySet
         /\ \A n \in Node, a \in Nat : BackoffEntry(t, s, n, a) \in EntrySet
         /\ EditEntry(t, s) \in EntrySet
BY DEF EntrySet, AttemptEntry, SignalEntry, JamEntry, BackoffEntry, EditEntry

LEMMA AlwaysTyped == CsmaInv => Typed
BY DEF CsmaInv, TypeOK, QueueOK, Typed, Now

LEMMA AlwaysReady ==
  ASSUME CsmaInv, NEW e \in queue PROVE Ready(e)
<1>1. e \in EntrySet /\ (e.kind = "TxStart" => e.signal.t0 = e.time)
  BY DEF CsmaInv, TypeOK, QueueOK, StartsOnTime
<1>. QED
  BY <1>1, AlwaysTyped, EntryFields DEF Ready, SignalEvents

LEMMA StatesTyped ==
  /\ Idle \in StateSet
  /\ \A sig \in SignalSet, a \in Nat : Transmitting(sig, a) \in StateSet
  /\ \A a \in Nat : BackingOff(a) \in StateSet
BY DEF StateSet, Idle, Transmitting, BackingOff

LEMMA StateFields ==
  ASSUME NEW st \in StateSet
  PROVE  /\ st.attempt \in Nat
         /\ st.mode = "Transmitting" => st.signal \in SignalSet
BY DEF StateSet, Idle

LEMMA SignalsTyped ==
  ASSUME Typed, NEW n \in Node, NEW t \in Nat
  PROVE  /\ \A f \in Frame : FrameSignal(n, t, f) \in SignalSet
         /\ JamSignal(n, t) \in SignalSet
         /\ \A f \in Frame : FrameSignal(n, t, f).t0 = t
         /\ JamSignal(n, t).t0 = t
BY CsmaAssumption, TimesTyped DEF FrameSignal, JamSignal, Signal, SignalSet, SignalKinds

---------------------------------------------------------------------------
(* What a handler of e pushes with the serials serial .. serial + k - 1.   *)

FreshIn(S, e, new, k) ==
  /\ k \in Nat
  /\ new \subseteq S
  /\ \A f \in new : /\ f.serial \in serial .. (serial + k - 1)
                    /\ f.kind = "TxStart" => f.signal.t0 = f.time
                    /\ \/ f.time > e.time
                       \/ f.time = e.time
                          /\ Sched!PhaseOf(e.kind) <= Sched!PhaseOf(f.kind)
  /\ \A f, g \in new : f.serial = g.serial => f = g

Fresh(e, new, k) == FreshIn(EntrySet, e, new, k)

LEMMA PhaseRange == \A k : Sched!PhaseOf(k) \in 0 .. 3
BY DEF Sched!PhaseOf, Sched!Release, Sched!Assertion, Sched!Reaction, Sched!LocalDecision

LEMMA KeyType ==
  ASSUME NEW e \in EntrySet PROVE Sched!Key(e) \in Nat \X (0 .. 3) \X Int
BY EntryFields, PhaseRange DEF Sched!Key

(* A batch that Fresh describes keeps the invariant of the queue.          *)
LEMMA FreshKeeps ==
  ASSUME CsmaInv, NEW e \in queue, NEW new, NEW k, Fresh(e, new, k), Emits(e, new, k)
  PROVE  QueueOK' /\ WorldOK' /\ SerialsUsed' /\ StartsOnTime'
<1>1. /\ queue' = (queue \ {e}) \cup new
      /\ serial' = serial + k
      /\ last' = Sched!Key(e)
      /\ cancelled' = cancelled /\ running' = running
      /\ UNCHANGED world
  BY DEF Emits
<1>2. /\ serial \in Nat /\ k \in Nat /\ queue \subseteq EntrySet /\ new \subseteq EntrySet
      /\ \A f \in queue : f.serial \in Nat /\ f.serial < serial
      /\ \A f \in new : f.serial \in serial .. (serial + k - 1)
  BY EntryFields DEF CsmaInv, TypeOK, QueueOK, SerialsUsed, Fresh, FreshIn
<1>3. QueueOK'
  BY <1>1, <1>2, KeyType DEF CsmaInv, TypeOK, QueueOK
<1>4. WorldOK'
  BY <1>1 DEF CsmaInv, TypeOK, WorldOK, world, settings
<1>5. SerialsUsed'
  BY <1>1, <1>2 DEF SerialsUsed
<1>6. StartsOnTime'
  BY <1>1 DEF CsmaInv, StartsOnTime, Fresh, FreshIn
<1>. QED
  BY <1>3, <1>4, <1>5, <1>6

(* ... and is a step of the abstract scheduler.  (Entries of further kinds  *)
(* may be about: S is any set of entries.)                                 *)
LEMMA BatchDispatches ==
  ASSUME NEW S, \A f \in S : f.time \in Nat, serial \in Nat,
         NEW kind, NEW e \in queue, e.time \in Nat, e.serial \in Nat, e.serial < serial,
         Pops(e, kind), NEW new, NEW k, FreshIn(S, e, new, k), Emits(e, new, k)
  PROVE  Sched!Dispatch(e)
<1>1. /\ k \in Nat /\ serial' = serial + k /\ serial' \in Nat
      /\ queue' = (queue \ {e}) \cup new
  BY DEF FreshIn, Emits
<1>2. ASSUME NEW f \in new
      PROVE  /\ f.time \in Nat /\ f.serial \in Nat
             /\ f.serial \in serial .. (serial' - 1)
             /\ f.serial > e.serial
             /\ Sched!Before(Sched!Key(e), Sched!Key(f))
  <2>1. /\ f.time \in Nat
        /\ f.serial \in serial .. (serial + k - 1)
        /\ \/ f.time > e.time
           \/ f.time = e.time /\ Sched!PhaseOf(e.kind) <= Sched!PhaseOf(f.kind)
    BY <1>2 DEF FreshIn
  <2>2. f.serial \in Nat /\ f.serial > e.serial /\ f.serial \in serial .. (serial' - 1)
    BY <1>1, <2>1
  <2>3. Sched!Before(Sched!Key(e), Sched!Key(f))
    <3>1. /\ Sched!Key(e)[1] = e.time /\ Sched!Key(e)[2] = Sched!PhaseOf(e.kind)
          /\ Sched!Key(e)[3] = e.serial
          /\ Sched!Key(f)[1] = f.time /\ Sched!Key(f)[2] = Sched!PhaseOf(f.kind)
          /\ Sched!Key(f)[3] = f.serial
      BY DEF Sched!Key
    <3>2. Sched!PhaseOf(e.kind) \in Int /\ Sched!PhaseOf(f.kind) \in Int
      BY PhaseRange
    <3>. QED
      BY <1>1, <2>1, <2>2, <3>1, <3>2 DEF Sched!Before
  <2>. QED
    BY <2>1, <2>2, <2>3
<1>3. queue' \ queue \subseteq new
  BY <1>1
<1>4. Sched!Pushes(queue' \ queue)
  BY <1>1, <1>2, <1>3 DEF Sched!Pushes, FreshIn
<1>5. e \notin queue' /\ queue \ {e} \subseteq queue'
  BY <1>1, <1>2
<1>6. \A f \in queue' \ queue : Sched!Before(Sched!Key(e), Sched!Key(f))
  BY <1>2, <1>3
<1>. QED
  BY <1>4, <1>5, <1>6 DEF Sched!Dispatch, Pops, Emits

(* What is left to show of a handler is its batch and its effect on the    *)
(* MAC state.                                                              *)
PushesFresh(e) == \E new, k : Fresh(e, new, k) /\ Emits(e, new, k)
Keeps(e) == PushesFresh(e) /\ MacOK' /\ HistoryOK'

LEMMA FreshSteps ==
  ASSUME CsmaInv, NEW kind, NEW e \in queue, Pops(e, kind), Keeps(e)
  PROVE  CsmaInv' /\ Sched!Dispatch(e)
<1>1. PICK new, k : Fresh(e, new, k) /\ Emits(e, new, k)
  BY DEF Keeps, PushesFresh
<1>2. QueueOK' /\ WorldOK' /\ SerialsUsed' /\ StartsOnTime'
  BY <1>1, FreshKeeps
<1>3. CsmaInv'
  BY <1>2 DEF CsmaInv, TypeOK, Keeps
<1>4. /\ serial \in Nat /\ e.time \in Nat /\ e.serial \in Nat /\ e.serial < serial
      /\ \A f \in EntrySet : f.time \in Nat
  BY EntryFields DEF CsmaInv, TypeOK, QueueOK, SerialsUsed
<1>5. Sched!Dispatch(e)
  BY <1>1, <1>4, BatchDispatches DEF Fresh
<1>. QED
  BY <1>3, <1>5

LEMMA EmptyIsFresh == \A e : \A k \in Nat : Fresh(e, {}, k)
BY DEF Fresh, FreshIn

(* A batch of one.                                                         *)
LEMMA OneIsFreshIn ==
  ASSUME NEW S, serial \in Nat, NEW e, NEW f \in S, f.serial = serial,
         f.kind = "TxStart" => f.signal.t0 = f.time,
         \/ f.time > e.time
         \/ f.time = e.time /\ Sched!PhaseOf(e.kind) <= Sched!PhaseOf(f.kind)
  PROVE  FreshIn(S, e, {f}, 1)
BY DEF FreshIn

LEMMA OneIsFresh ==
  ASSUME serial \in Nat, NEW e, NEW f \in EntrySet, f.serial = serial,
         f.kind = "TxStart" => f.signal.t0 = f.time,
         \/ f.time > e.time
         \/ f.time = e.time /\ Sched!PhaseOf(e.kind) <= Sched!PhaseOf(f.kind)
  PROVE  Fresh(e, {f}, 1)
BY OneIsFreshIn DEF Fresh

LEMMA PhaseValues ==
  /\ \A k \in {"TxEnd", "BackArrive", "JamEnd"} : Sched!PhaseOf(k) = 0
  /\ Sched!PhaseOf("FrontArrive") = 1
  /\ \A k \in {"CollisionDetect", "JamStart"} : Sched!PhaseOf(k) = 2
  /\ \A k \in {"TxAttempt", "TxStart", "BackoffExpire", "TopologyChanged"} :
        Sched!PhaseOf(k) = 3
BY DEF Sched!PhaseOf, Sched!Release, Sched!Assertion, Sched!Reaction, Sched!LocalDecision,
       Sched!ReleaseKinds, Sched!AssertionKinds, Sched!ReactionKinds

---------------------------------------------------------------------------
(* One lemma per handler.                                                  *)

LEMMA TxAttemptKeeps ==
  ASSUME NEW e, Ready(e), HandleTxAttempt(e)
  PROVE  Keeps(e)
<1>1. /\ Pops(e, "TxAttempt") /\ e.kind = "TxAttempt"
      /\ e.time \in Nat /\ e.node \in Node /\ e.frame \in Frame /\ serial \in Nat /\ Typed
  BY DEF HandleTxAttempt, Pops, NodeEvents, Ready, Typed
<1>2. MacOK' /\ HistoryOK'
  BY <1>1 DEF HandleTxAttempt, Ready, Typed, MacOK, HistoryOK, history
<1>3. CASE Emits(e, {AttemptEntry(e.time + IfgTime(e.node), serial, e.node, e.frame)}, 1)
  <2>. DEFINE f == AttemptEntry(e.time + IfgTime(e.node), serial, e.node, e.frame)
  <2>1. /\ f \in EntrySet
        /\ f.serial = serial /\ f.kind = "TxAttempt" /\ f.time = e.time + IfgTime(e.node)
    BY <1>1, TimesTyped, EntriesTyped DEF AttemptEntry
  <2>. HIDE DEF f
  <2>2. \/ f.time > e.time
        \/ f.time = e.time /\ Sched!PhaseOf(e.kind) <= Sched!PhaseOf(f.kind)
    <3>1. Sched!PhaseOf(e.kind) = 3 /\ Sched!PhaseOf(f.kind) = 3
      BY <1>1, <2>1, PhaseValues
    <3>2. IfgTime(e.node) \in Nat
      BY <1>1, TimesTyped
    <3>. QED
      BY <1>1, <2>1, <3>1, <3>2
  <2>3. Fresh(e, {f}, 1)
    BY <1>1, <2>1, <2>2, OneIsFresh
  <2>. QED
    BY <1>1, <1>2, <1>3, <2>3 DEF f, Keeps, PushesFresh
<1>4. CASE Emits(e, {SignalEntry("TxStart", e.time, serial, e.node,
                                 FrameSignal(e.node, e.time, e.frame))}, 1)
  <2>. DEFINE f == SignalEntry("TxStart", e.time, serial, e.node,
                               FrameSignal(e.node, e.time, e.frame))
  <2>1. /\ f \in EntrySet
        /\ f.serial = serial /\ f.kind = "TxStart" /\ f.time = e.time
        /\ f.signal.t0 = e.time
    BY <1>1, EntriesTyped, SignalsTyped DEF SignalEntry, SignalEvents
  <2>2. Fresh(e, {f}, 1)
    BY <1>1, <2>1, OneIsFresh, PhaseValues
  <2>. QED
    BY <1>1, <1>2, <1>4, <2>2 DEF Keeps, PushesFresh
<1>. QED
  BY <1>3, <1>4 DEF HandleTxAttempt

(* Two stations never get arrivals with the same serial, because no hash   *)
(* order lists two peers at the same place, and all arrivals are in the    *)
(* future, because no route has zero delay.                                *)
LEMMA ArrivalBatch ==
  ASSUME NEW e, Ready(e), e.kind = "TxStart"
  PROVE  Fresh(e, Arrivals(e.signal)
                  \cup {SignalEntry("TxEnd", e.signal.t0 + e.signal.dur,
                                    serial + 2 * NumNodes, e.node, e.signal)},
               2 * NumNodes + 1)
<1>. DEFINE sig == e.signal
            order == hashOrder[sig.source]
            peers == Hears(sig.source)
            end == SignalEntry("TxEnd", sig.t0 + sig.dur, serial + 2 * NumNodes, e.node, sig)
            front(m) == SignalEntry("FrontArrive", FrontTime(sig, m),
                                    serial + 2 * order[m], m, sig)
            back(m) == SignalEntry("BackArrive", FrontTime(sig, m) + sig.dur,
                                   serial + 2 * order[m] + 1, m, sig)
            new == Arrivals(sig) \cup {end}
<1>1. /\ sig \in SignalSet /\ e.node \in Node /\ e.time \in Nat
      /\ sig.t0 = e.time /\ serial \in Nat /\ NumNodes \in Nat
      /\ sig.source \in Node /\ sig.t0 \in Nat /\ sig.dur \in Nat /\ sig.dur > 0
  BY NumNodesType DEF Ready, Typed, NodeEvents, SignalEvents, SignalSet
<1>2. /\ order \in HashOrders
      /\ \A m \in Node : order[m] \in 0 .. (NumNodes - 1)
      /\ \A m, n \in Node : order[m] = order[n] => m = n
  BY <1>1, CsmaAssumption DEF Ready, Typed, WorldOK
<1>3. \A m \in peers : m \in Node /\ FrontTime(sig, m) \in Nat /\ FrontTime(sig, m) > e.time
  BY <1>1, CsmaAssumption DEF Hears, FrontTime, Ready, Typed, WorldOK
<1>4. new = {front(m) : m \in peers} \cup {back(m) : m \in peers} \cup {end}
  BY DEF Arrivals
<1>. HIDE DEF order, peers, sig, new
<1>5. /\ end \in EntrySet /\ end.serial = serial + 2 * NumNodes
      /\ end.time > e.time /\ end.kind = "TxEnd"
  <2>1. /\ serial + 2 * NumNodes \in Nat /\ sig.t0 + sig.dur \in Nat
        /\ sig.t0 + sig.dur > e.time
    BY <1>1
  <2>2. end \in EntrySet
    BY <1>1, <2>1, EntriesTyped DEF SignalEvents
  <2>. QED
    BY <2>1, <2>2 DEF SignalEntry
<1>6. ASSUME NEW m \in peers
      PROVE  /\ front(m) \in EntrySet /\ front(m).serial = serial + 2 * order[m]
             /\ front(m).time > e.time /\ front(m).kind = "FrontArrive"
             /\ back(m) \in EntrySet /\ back(m).serial = serial + 2 * order[m] + 1
             /\ back(m).time > e.time /\ back(m).kind = "BackArrive"
  <2>1. /\ m \in Node /\ serial + 2 * order[m] \in Nat /\ serial + 2 * order[m] + 1 \in Nat
        /\ FrontTime(sig, m) \in Nat /\ FrontTime(sig, m) + sig.dur \in Nat
        /\ FrontTime(sig, m) > e.time /\ FrontTime(sig, m) + sig.dur > e.time
    BY <1>1, <1>2, <1>3
  <2>2. /\ front(m).serial = serial + 2 * order[m] /\ front(m).time = FrontTime(sig, m)
        /\ back(m).serial = serial + 2 * order[m] + 1
        /\ back(m).time = FrontTime(sig, m) + sig.dur
        /\ front(m).kind = "FrontArrive" /\ back(m).kind = "BackArrive"
    BY DEF SignalEntry
  <2>3. front(m) \in EntrySet /\ back(m) \in EntrySet
    BY <1>1, <2>1, EntriesTyped DEF SignalEvents
  <2>. QED
    BY <2>1, <2>2, <2>3
<1>. HIDE DEF end, front, back
<1>7. ASSUME NEW f \in new
      PROVE  /\ f \in EntrySet /\ f.serial \in serial .. (serial + (2 * NumNodes + 1) - 1)
             /\ f.time > e.time /\ f.kind # "TxStart"
  BY <1>1, <1>2, <1>3, <1>4, <1>5, <1>6
<1>8. ASSUME NEW f \in new, NEW g \in new, f.serial = g.serial PROVE f = g
  <2>1. CASE f = end \/ g = end
    BY <1>1, <1>2, <1>3, <1>4, <1>5, <1>6, <1>8, <2>1
  <2>2. ASSUME NEW m \in peers, NEW n \in peers,
               f \in {front(m), back(m)}, g \in {front(n), back(n)}
        PROVE  f = g
    <3>1. order[m] \in Nat /\ order[n] \in Nat /\ order[m] = order[n]
      BY <1>1, <1>2, <1>3, <1>6, <1>8, <2>2
    <3>2. m = n
      BY <1>2, <1>3, <3>1
    <3>. QED
      BY <1>1, <1>6, <1>8, <2>2, <3>1, <3>2
  <2>. QED
    BY <1>4, <2>1, <2>2
<1>9. 2 * NumNodes + 1 \in Nat
  BY <1>1
<1>10. Fresh(e, new, 2 * NumNodes + 1)
  BY <1>7, <1>8, <1>9 DEF Fresh, FreshIn
<1>. QED
  BY <1>10 DEF new, end, sig

LEMMA ArrivalsFresh ==
  ASSUME CsmaInv, NEW e \in queue, e.kind = "TxStart"
  PROVE  Fresh(e, Arrivals(e.signal)
                  \cup {SignalEntry("TxEnd", e.signal.t0 + e.signal.dur,
                                    serial + 2 * NumNodes, e.node, e.signal)},
               2 * NumNodes + 1)
BY ArrivalBatch, AlwaysReady

LEMMA TxStartKeeps ==
  ASSUME NEW e, Ready(e), HandleTxStart(e)
  PROVE  Keeps(e)
<1>1. /\ Pops(e, "TxStart") /\ e.kind = "TxStart"
      /\ e.node \in Node /\ e.signal \in SignalSet
  BY DEF HandleTxStart, Pops, NodeEvents, SignalEvents, Ready, Typed
<1>2. Transmitting(e.signal, state[e.node].attempt) \in StateSet
  BY <1>1, StateFields, StatesTyped DEF Ready, Typed, MacOK
<1>3. MacOK' /\ HistoryOK'
  BY <1>1, <1>2 DEF HandleTxStart, Ready, Typed, MacOK, HistoryOK
<1>4. Emits(e, Arrivals(e.signal)
               \cup {SignalEntry("TxEnd", e.signal.t0 + e.signal.dur,
                                 serial + 2 * NumNodes, e.node, e.signal)},
            2 * NumNodes + 1)
  BY DEF HandleTxStart
<1>. QED
  BY <1>1, <1>3, <1>4, ArrivalBatch DEF Keeps, PushesFresh

LEMMA TxEndKeeps ==
  ASSUME NEW e, Ready(e), HandleTxEnd(e)
  PROVE  Keeps(e)
<1>1. /\ Pops(e, "TxEnd") /\ Emits(e, {}, 0)
      /\ e.node \in Node /\ e.signal \in SignalSet
  BY DEF HandleTxEnd, Pops, NodeEvents, SignalEvents, Ready, Typed
<1>2. Idle \in StateSet /\ BackingOff(state[e.node].attempt + 1) \in StateSet
  BY <1>1, StateFields, StatesTyped DEF Ready, Typed, MacOK
<1>3. MacOK' /\ HistoryOK'
  BY <1>1, <1>2 DEF HandleTxEnd, Ready, Typed, MacOK, HistoryOK
<1>. QED
  BY <1>1, <1>3, EmptyIsFresh DEF Keeps, PushesFresh

LEMMA FrontArriveKeeps ==
  ASSUME NEW e, Ready(e), HandleFrontArrive(e)
  PROVE  Keeps(e)
<1>1. /\ Pops(e, "FrontArrive") /\ e.kind = "FrontArrive"
      /\ e.time \in Nat /\ e.node \in Node /\ serial \in Nat /\ Typed
  BY DEF HandleFrontArrive, Pops, NodeEvents, SignalEvents, Ready, Typed
<1>2. MacOK' /\ HistoryOK'
  BY <1>1 DEF HandleFrontArrive, Ready, Typed, MacOK, HistoryOK, history
<1>3. CASE Emits(e, {}, 0)
  BY <1>1, <1>2, <1>3, EmptyIsFresh DEF Keeps, PushesFresh
<1>4. CASE Emits(e, Reactions(e), 1)
  <2>1. CASE ~IsTransmitting(e.node)
    BY <1>1, <1>2, <1>4, <2>1, EmptyIsFresh DEF Reactions, Keeps, PushesFresh
  <2>2. CASE IsTransmitting(e.node)
    <3>. DEFINE f == SignalEntry("CollisionDetect", e.time, serial, e.node,
                                 state[e.node].signal)
    <3>1. state[e.node].signal \in SignalSet
      BY <1>1, <2>2, StateFields DEF IsTransmitting, Ready, Typed, MacOK
    <3>2. /\ f \in EntrySet
          /\ f.serial = serial /\ f.kind = "CollisionDetect" /\ f.time = e.time
      BY <1>1, <3>1, EntriesTyped DEF SignalEntry, SignalEvents
    <3>3. Fresh(e, {f}, 1)
      BY <1>1, <3>2, OneIsFresh, PhaseValues
    <3>. QED
      BY <1>1, <1>2, <1>4, <2>2, <3>3 DEF Reactions, Keeps, PushesFresh
  <2>. QED
    BY <2>1, <2>2
<1>. QED
  BY <1>3, <1>4 DEF HandleFrontArrive

LEMMA BackArriveKeeps ==
  ASSUME NEW e, Ready(e), HandleBackArrive(e)
  PROVE  Keeps(e)
<1>1. Pops(e, "BackArrive") /\ Emits(e, {}, 0) /\ e.node \in Node
  BY DEF HandleBackArrive, Pops, NodeEvents, SignalEvents, Ready, Typed
<1>2. CarrierDropped(foreign[e.node]) \in Nat
  BY <1>1 DEF CarrierDropped, Ready, Typed, MacOK
<1>3. MacOK' /\ HistoryOK'
  BY <1>1, <1>2 DEF HandleBackArrive, Ready, Typed, MacOK, HistoryOK, history
<1>. QED
  BY <1>1, <1>3, EmptyIsFresh DEF Keeps, PushesFresh

LEMMA CollisionDetectKeeps ==
  ASSUME NEW e, Ready(e), HandleCollisionDetect(e)
  PROVE  Keeps(e)
<1>1. /\ Pops(e, "CollisionDetect") /\ e.kind = "CollisionDetect"
      /\ e.time \in Nat /\ e.node \in Node /\ serial \in Nat /\ Typed
  BY DEF HandleCollisionDetect, Pops, NodeEvents, SignalEvents, Ready, Typed
<1>2. MacOK' /\ HistoryOK'
  BY DEF HandleCollisionDetect, Ready, Typed, MacOK, HistoryOK, mac, history
<1>3. CASE Emits(e, {}, 0)
  BY <1>1, <1>2, <1>3, EmptyIsFresh DEF Keeps, PushesFresh
<1>4. CASE Emits(e, {JamEntry("JamStart", e.time, serial, e.node)}, 1)
  <2>. DEFINE f == JamEntry("JamStart", e.time, serial, e.node)
  <2>1. /\ f \in EntrySet
        /\ f.serial = serial /\ f.kind = "JamStart" /\ f.time = e.time
    BY <1>1, EntriesTyped DEF JamEntry, JamEvents
  <2>2. Fresh(e, {f}, 1)
    BY <1>1, <2>1, OneIsFresh, PhaseValues
  <2>. QED
    BY <1>1, <1>2, <1>4, <2>2 DEF Keeps, PushesFresh
<1>. QED
  BY <1>3, <1>4 DEF HandleCollisionDetect

LEMMA JamStartKeeps ==
  ASSUME NEW e, Ready(e), HandleJamStart(e)
  PROVE  Keeps(e)
<1>. DEFINE start == SignalEntry("TxStart", e.time, serial, e.node, JamSignal(e.node, e.time))
            end == JamEntry("JamEnd", e.time + JamTime(e.node), serial + 1, e.node)
<1>1. /\ Pops(e, "JamStart") /\ e.kind = "JamStart" /\ Emits(e, {start, end}, 2)
      /\ e.time \in Nat /\ e.node \in Node /\ serial \in Nat /\ Typed
  BY DEF HandleJamStart, Pops, NodeEvents, JamEvents, Ready, Typed
<1>2. MacOK' /\ HistoryOK'
  BY DEF HandleJamStart, Ready, Typed, MacOK, HistoryOK, mac, history
<1>3. /\ start \in EntrySet /\ start.serial = serial /\ start.kind = "TxStart"
      /\ start.time = e.time /\ start.signal.t0 = e.time
  BY <1>1, EntriesTyped, SignalsTyped DEF SignalEntry, SignalEvents
<1>4. /\ end \in EntrySet /\ end.serial = serial + 1 /\ end.kind = "JamEnd"
      /\ end.time > e.time
  <2>1. e.time + JamTime(e.node) \in Nat /\ e.time + JamTime(e.node) > e.time
    BY <1>1, TimesTyped
  <2>. QED
    BY <1>1, <2>1, EntriesTyped DEF JamEntry, JamEvents
<1>. HIDE DEF start, end
<1>5. Fresh(e, {start, end}, 2)
  <2>1. Sched!PhaseOf(e.kind) = 2 /\ Sched!PhaseOf(start.kind) = 3
    BY <1>1, <1>3, PhaseValues
  <2>. QED
    BY <1>1, <1>3, <1>4, <2>1 DEF Fresh, FreshIn
<1>. QED
  BY <1>1, <1>2, <1>5 DEF Keeps, PushesFresh

LEMMA JamEndKeeps ==
  ASSUME NEW e, Ready(e), HandleJamEnd(e)
  PROVE  Keeps(e)
<1>. DEFINE a == AttemptAfterJam(e.node)
<1>1. /\ Pops(e, "JamEnd") /\ e.kind = "JamEnd"
      /\ e.time \in Nat /\ e.node \in Node /\ serial \in Nat /\ Typed
  BY DEF HandleJamEnd, Pops, NodeEvents, JamEvents, Ready, Typed
<1>2. a \in Nat /\ BackingOff(a) \in StateSet /\ Idle \in StateSet
  BY <1>1, StateFields, StatesTyped DEF AttemptAfterJam, Ready, Typed, MacOK
<1>3. MacOK' /\ HistoryOK'
  BY <1>1, <1>2 DEF HandleJamEnd, Ready, Typed, MacOK, HistoryOK, history
<1>4. CASE Emits(e, {}, 0)
  BY <1>1, <1>3, <1>4, EmptyIsFresh DEF Keeps, PushesFresh
<1>5. ASSUME NEW d \in BackoffDelays(e.node, a),
             Emits(e, {BackoffEntry(e.time + d, serial, e.node, a)}, 1)
      PROVE  Keeps(e)
  <2>. DEFINE f == BackoffEntry(e.time + d, serial, e.node, a)
  <2>1. d \in Nat /\ e.time + d \in Nat
    BY <1>1, <1>2, DelaysType
  <2>2. /\ f \in EntrySet /\ f.serial = serial
        /\ f.kind = "BackoffExpire" /\ f.time = e.time + d
    BY <1>1, <1>2, <2>1, EntriesTyped DEF BackoffEntry
  <2>. HIDE DEF f
  <2>3. Sched!PhaseOf(e.kind) = 0 /\ Sched!PhaseOf(f.kind) = 3
    BY <1>1, <2>2, PhaseValues
  <2>4. \/ f.time > e.time
        \/ f.time = e.time /\ Sched!PhaseOf(e.kind) <= Sched!PhaseOf(f.kind)
    BY <1>1, <2>1, <2>2, <2>3
  <2>5. Fresh(e, {f}, 1)
    BY <1>1, <2>2, <2>4, OneIsFresh
  <2>. QED
    BY <1>1, <1>3, <1>5, <2>5 DEF f, Keeps, PushesFresh
<1>. QED
  BY <1>4, <1>5 DEF HandleJamEnd

LEMMA BackoffExpireKeeps ==
  ASSUME NEW e, Ready(e), HandleBackoffExpire(e)
  PROVE  Keeps(e)
<1>1. /\ Pops(e, "BackoffExpire") /\ e.kind = "BackoffExpire"
      /\ e.time \in Nat /\ e.node \in Node /\ serial \in Nat /\ Typed
  BY DEF HandleBackoffExpire, Pops, NodeEvents, Ready, Typed
<1>2. MacOK' /\ HistoryOK'
  BY <1>1, StatesTyped
     DEF HandleBackoffExpire, Ready, Typed, MacOK, HistoryOK, history
<1>3. CASE Emits(e, {}, 0)
  BY <1>1, <1>2, <1>3, EmptyIsFresh DEF Keeps, PushesFresh
<1>4. CASE /\ TimerIsLive(e)
           /\ Emits(e, {AttemptEntry(e.time, serial, e.node, pending[e.node])}, 1)
  <2>. DEFINE f == AttemptEntry(e.time, serial, e.node, pending[e.node])
  <2>1. pending[e.node] \in Frame
    BY <1>1, <1>4 DEF TimerIsLive, Ready, Typed, MacOK
  <2>2. /\ f \in EntrySet
        /\ f.serial = serial /\ f.kind = "TxAttempt" /\ f.time = e.time
    BY <1>1, <2>1, EntriesTyped DEF AttemptEntry
  <2>3. Fresh(e, {f}, 1)
    BY <1>1, <2>2, OneIsFresh, PhaseValues
  <2>. QED
    BY <1>1, <1>2, <1>4, <2>3 DEF Keeps, PushesFresh
<1>. QED
  BY <1>3, <1>4 DEF HandleBackoffExpire

LEMMA TopologyChangedKeeps ==
  ASSUME NEW e, Ready(e), HandleTopologyChanged(e)
  PROVE  Keeps(e)
<1>1. MacOK' /\ HistoryOK'
  BY DEF HandleTopologyChanged, Ready, Typed, MacOK, HistoryOK, mac, history
<1>. QED
  BY <1>1, EmptyIsFresh DEF HandleTopologyChanged, Keeps, PushesFresh

LEMMA HandlersKeep ==
  ASSUME NEW e, Ready(e), Handle(e), ~DropCancelled(e)
  PROVE  Keeps(e)
BY TxAttemptKeeps, TxStartKeeps, TxEndKeeps, FrontArriveKeeps, BackArriveKeeps,
   CollisionDetectKeeps, JamStartKeeps, JamEndKeeps, BackoffExpireKeeps, TopologyChangedKeeps
   DEF Handle

LEMMA HandlersPop ==
  ASSUME NEW e, Handle(e), ~DropCancelled(e) PROVE \E kind : Pops(e, kind)
BY DEF Handle, HandleTxAttempt, HandleTxStart, HandleTxEnd, HandleFrontArrive,
       HandleBackArrive, HandleCollisionDetect, HandleJamStart, HandleJamEnd,
       HandleBackoffExpire, HandleTopologyChanged

LEMMA DropCancelledKeeps ==
  ASSUME CsmaInv, NEW e \in queue, DropCancelled(e)
  PROVE  CsmaInv' /\ Sched!Skip(e)
<1>1. /\ queue' = queue \ {e} /\ cancelled' = cancelled \ {e.serial}
      /\ last' = Sched!Key(e) /\ serial' = serial /\ running' = running
      /\ UNCHANGED <<mac, world, history>> /\ Sched!Skip(e)
  BY DEF DropCancelled, Sched!Skip
<1>2. QueueOK' /\ SerialsUsed' /\ StartsOnTime'
  BY <1>1, KeyType DEF CsmaInv, TypeOK, QueueOK, SerialsUsed, StartsOnTime
<1>3. MacOK' /\ WorldOK' /\ HistoryOK'
  BY <1>1 DEF CsmaInv, TypeOK, MacOK, WorldOK, HistoryOK, mac, world, settings, history
<1>. QED
  BY <1>1, <1>2, <1>3 DEF CsmaInv, TypeOK

---------------------------------------------------------------------------
(* The host.                                                               *)

(* What a host call may push with the serials serial .. serial + k - 1.    *)
HostBatch(new, k) ==
  /\ k \in Nat
  /\ new \subseteq EntrySet
  /\ \A f \in new : /\ f.serial \in serial .. (serial + k - 1)
                    /\ f.kind \in {"TxAttempt", "TopologyChanged"}
                    /\ PastAllowed \/ f.time >= Now
  /\ \A f, g \in new : f.serial = g.serial => f = g

(* ... and what it may cancel.                                             *)
CancelsQueued ==
  /\ cancelled \subseteq cancelled'
  /\ cancelled' \ cancelled \subseteq {f.serial : f \in queue}

LEMMA BatchIsCall ==
  ASSUME ~PastAllowed, serial \in Nat, NEW new, NEW k,
         HostBatch(new, k), HostPushes(new, k), CancelsQueued
  PROVE  Sched!HostCall
<1>1. /\ queue' = queue \cup new /\ serial' = serial + k /\ ~running
      /\ last' = last /\ running' = running
  BY DEF HostPushes
<1>2. /\ k \in Nat /\ serial' \in Nat
      /\ \A f \in new : f.time \in Nat /\ f.serial \in serial .. (serial' - 1)
  BY <1>1, EntryFields DEF HostBatch
<1>3. queue' \ queue \subseteq new
  BY <1>1
<1>4. Sched!Pushes(queue' \ queue)
  BY <1>1, <1>2, <1>3 DEF Sched!Pushes, HostBatch
<1>5. \A f \in queue' \ queue :
         f.time >= Sched!Now /\ Sched!PhaseOf(f.kind) = Sched!LocalDecision
  BY <1>3, PhaseValues DEF HostBatch, Now, Sched!Now, Sched!LocalDecision
<1>. QED
  BY <1>1, <1>4, <1>5 DEF Sched!HostCall, CancelsQueued

LEMMA HostKeeps ==
  ASSUME CsmaInv, NEW new, NEW k, HostBatch(new, k), HostPushes(new, k), CancelsQueued
  PROVE  QueueOK' /\ SerialsUsed' /\ StartsOnTime' /\ (PastAllowed \/ Sched!HostCall)
<1>1. /\ queue' = queue \cup new /\ serial' = serial + k
      /\ last' = last /\ running' = running /\ running = FALSE
  BY DEF HostPushes, CsmaInv, TypeOK, QueueOK
<1>2. /\ serial \in Nat /\ k \in Nat /\ serial' \in Nat
      /\ queue \subseteq EntrySet /\ new \subseteq EntrySet
      /\ \A f \in queue : f.serial \in Nat /\ f.serial < serial
      /\ \A f \in new : f.time \in Nat /\ f.serial \in Nat
                       /\ f.serial \in serial .. (serial' - 1)
  BY <1>1, EntryFields DEF CsmaInv, TypeOK, QueueOK, SerialsUsed, HostBatch
<1>3. cancelled' \subseteq Nat
  BY <1>2 DEF CancelsQueued, CsmaInv, TypeOK, QueueOK
<1>4. QueueOK' /\ SerialsUsed'
  BY <1>1, <1>2, <1>3 DEF CsmaInv, TypeOK, QueueOK, SerialsUsed
<1>5. StartsOnTime'
  BY <1>1 DEF CsmaInv, StartsOnTime, HostBatch
<1>6. ASSUME ~PastAllowed PROVE Sched!HostCall
  BY <1>2, <1>6, BatchIsCall
<1>. QED
  BY <1>4, <1>5, <1>6

(* What a host call does, as HostBatch describes it.                       *)
CallKeeps ==
  /\ \E new, k : HostBatch(new, k) /\ HostPushes(new, k)
  /\ CancelsQueued /\ MacOK' /\ WorldOK' /\ HistoryOK'

LEMMA CallSteps ==
  ASSUME CsmaInv, CallKeeps PROVE CsmaInv' /\ (PastAllowed \/ Sched!HostCall)
<1>1. PICK new, k : HostBatch(new, k) /\ HostPushes(new, k)
  BY DEF CallKeeps
<1>2. QueueOK' /\ SerialsUsed' /\ StartsOnTime' /\ (PastAllowed \/ Sched!HostCall)
  BY <1>1, HostKeeps DEF CallKeeps
<1>. QED
  BY <1>2 DEF CallKeeps, CsmaInv, TypeOK

LEMMA ScheduleKeeps ==
  ASSUME Typed, NEW o \in Offers, ScheduleTxAttempt(o[1], o[2], o[3])
  PROVE  CallKeeps
<1>. DEFINE f == AttemptEntry(o[1], serial, o[2], o[3])
<1>1. o[1] \in Nat /\ o[2] \in Node /\ o[3] \in Frame /\ serial \in Nat
  BY CsmaAssumption DEF Typed
<1>2. /\ f \in EntrySet /\ f.serial = serial /\ f.kind = "TxAttempt"
      /\ f.time = o[1]
  BY <1>1, EntriesTyped DEF AttemptEntry
<1>3. HostPushes({f}, 1) /\ CancelsQueued /\ (PastAllowed \/ f.time >= Now)
  BY <1>2 DEF ScheduleTxAttempt, CancelsQueued
<1>. HIDE DEF f
<1>4. HostBatch({f}, 1)
  BY <1>1, <1>2, <1>3 DEF HostBatch
<1>5. MacOK' /\ WorldOK' /\ HistoryOK'
  BY DEF ScheduleTxAttempt, HostPushes, Typed, MacOK, WorldOK, HistoryOK,
         mac, settings, history
<1>. QED
  BY <1>3, <1>4, <1>5 DEF CallKeeps

(* The marker of an edit.                                                  *)
LEMMA MarkerBatch ==
  ASSUME Typed, NEW c \in Nat
  PROVE  HostBatch({EditEntry(Now, serial + i) : i \in 0 .. c}, c + 1)
<1>1. \A i \in 0 .. c : /\ EditEntry(Now, serial + i) \in EntrySet
                        /\ EditEntry(Now, serial + i).serial = serial + i
                        /\ EditEntry(Now, serial + i).kind = "TopologyChanged"
                        /\ EditEntry(Now, serial + i).time = Now
  BY EntriesTyped DEF Typed, EditEntry
<1>. QED
  BY <1>1 DEF Typed, HostBatch

LEMMA OneMarkerBatch ==
  ASSUME Typed PROVE HostBatch({EditEntry(Now, serial)}, 1)
<1>1. /\ EditEntry(Now, serial) \in EntrySet
      /\ EditEntry(Now, serial).serial = serial
      /\ EditEntry(Now, serial).kind = "TopologyChanged"
      /\ EditEntry(Now, serial).time = Now
  BY EntriesTyped DEF Typed, EditEntry
<1>. QED
  BY <1>1 DEF Typed, HostBatch

LEMMA RemoveSegmentKeeps ==
  ASSUME Typed, NEW seg \in Segment, RemoveSegment(seg)
  PROVE  CallKeeps
<1>1. HostPushes({EditEntry(Now, serial)}, 1) /\ CancelsQueued
  BY DEF RemoveSegment, CancelsQueued, ArrivalsOn
<1>2. MacOK' /\ WorldOK' /\ HistoryOK'
  BY DEF RemoveSegment, Rebuilds, HostPushes, Typed, MacOK, WorldOK,
         HistoryOK, mac, settings, history
<1>. QED
  BY <1>1, <1>2, OneMarkerBatch DEF CallKeeps

LEMMA AddSegmentKeeps ==
  ASSUME Typed, NEW seg \in Segment, AddSegment(seg)
  PROVE  CallKeeps
<1>1. HostPushes({EditEntry(Now, serial)}, 1) /\ CancelsQueued
  BY DEF AddSegment, CancelsQueued
<1>2. MacOK' /\ WorldOK' /\ HistoryOK'
  BY DEF AddSegment, Rebuilds, HostPushes, Typed, MacOK, WorldOK,
         HistoryOK, mac, settings, history
<1>. QED
  BY <1>1, <1>2, OneMarkerBatch DEF CallKeeps

LEMMA RemoveNodeKeeps ==
  ASSUME Typed, NEW n \in Node, RemoveNode(n)
  PROVE  CallKeeps
<1>. DEFINE incident == {Access[n]} \cap up
            c == Cardinality(incident)
<1>1. c \in Nat
  BY FS_Singleton, FS_Intersection, FS_CardinalityType
<1>2. /\ HostPushes({EditEntry(Now, serial + i) : i \in 0 .. c}, c + 1)
      /\ CancelsQueued
  BY DEF RemoveNode, CancelsQueued, ArrivalsOn, EventsOf
<1>3. MacOK' /\ WorldOK' /\ HistoryOK'
  BY StatesTyped, CsmaAssumption
     DEF RemoveNode, Rebuilds, HostPushes, Typed, MacOK, WorldOK, HistoryOK,
         history
<1>. HIDE DEF c
<1>. QED
  BY <1>1, <1>2, <1>3, MarkerBatch DEF CallKeeps

LEMMA SetSegmentDelayKeeps ==
  ASSUME Typed, NEW seg \in Segment, SetSegmentDelay(seg)
  PROVE  CallKeeps
<1>1. HostPushes({EditEntry(Now, serial)}, 1) /\ CancelsQueued
  BY DEF SetSegmentDelay, CancelsQueued
<1>2. MacOK' /\ WorldOK' /\ HistoryOK'
  BY DEF SetSegmentDelay, Rebuilds, HostPushes, Typed, MacOK, WorldOK,
         HistoryOK, mac, history
<1>. QED
  BY <1>1, <1>2, OneMarkerBatch DEF CallKeeps

LEMMA SetSegmentRateKeeps ==
  ASSUME Typed, NEW seg \in Segment, NEW r \in BitTimes, SetSegmentRate(seg, r)
  PROVE  CallKeeps
<1>1. HostPushes({EditEntry(Now, serial)}, 1) /\ CancelsQueued
  BY DEF SetSegmentRate, CancelsQueued
<1>2. MacOK' /\ WorldOK' /\ HistoryOK'
  BY DEF SetSegmentRate, Rebuilds, HostPushes, Typed, MacOK, WorldOK,
         HistoryOK, mac, history
<1>. QED
  BY <1>1, <1>2, OneMarkerBatch DEF CallKeeps

LEMMA SetMacConfigKeeps ==
  ASSUME Typed, NEW n \in Node, NEW c \in Configs, SetMacConfig(n, c)
  PROVE  CallKeeps
<1>1. HostPushes({EditEntry(Now, serial)}, 1) /\ CancelsQueued
  BY DEF SetMacConfig, CancelsQueued
<1>2. MacOK' /\ WorldOK' /\ HistoryOK'
  BY DEF SetMacConfig, Rebuilds, HostPushes, Typed, MacOK, WorldOK,
         HistoryOK, mac, history
<1>. QED
  BY <1>1, <1>2, OneMarkerBatch DEF CallKeeps

---------------------------------------------------------------------------
(* The invariant and the simulation.                                       *)

LEMMA HandleKeeps ==
  ASSUME CsmaInv, NEW e \in queue, Handle(e)
  PROVE  CsmaInv' /\ (Sched!Dispatch(e) \/ Sched!Skip(e))
<1>1. CASE DropCancelled(e)
  BY <1>1, DropCancelledKeeps
<1>2. CASE ~DropCancelled(e)
  <2>1. Keeps(e) /\ \E kind : Pops(e, kind)
    BY <1>2, AlwaysReady, HandlersKeep, HandlersPop
  <2>. QED
    BY <2>1, FreshSteps
<1>. QED
  BY <1>1, <1>2

LEMMA QuietKeeps ==
  ASSUME CsmaInv, StartRun \/ ReturnFromRun \/ UNCHANGED vars
  PROVE  CsmaInv' /\ (Sched!StartRun \/ Sched!ReturnFromRun \/ UNCHANGED Sched!sched)
<1>1. /\ UNCHANGED <<queue, serial, last, cancelled>> /\ running' \in BOOLEAN
      /\ UNCHANGED <<mac, world, history>>
  BY DEF StartRun, ReturnFromRun, Sched!StartRun, Sched!ReturnFromRun, vars,
         CsmaInv, TypeOK, QueueOK
<1>2. CsmaInv'
  BY <1>1 DEF CsmaInv, TypeOK, QueueOK, MacOK, WorldOK, HistoryOK, SerialsUsed,
              StartsOnTime, mac, world, settings, history
<1>. QED
  BY <1>2 DEF StartRun, ReturnFromRun, vars, Sched!sched

LEMMA CsmaStep ==
  ASSUME CsmaInv, [Next]_vars
  PROVE  CsmaInv' /\ (PastAllowed \/ [Sched!SchedulerNext]_(Sched!sched))
<1>1. CASE \E e \in queue : Handle(e)
  BY <1>1, HandleKeeps DEF Sched!SchedulerNext
<1>2. CASE \E o \in Offers : ScheduleTxAttempt(o[1], o[2], o[3])
  BY <1>2, AlwaysTyped, ScheduleKeeps, CallSteps DEF Sched!SchedulerNext
<1>3. CASE \E seg \in Segment : RemoveSegment(seg) \/ AddSegment(seg)
  BY <1>3, AlwaysTyped, RemoveSegmentKeeps, AddSegmentKeeps, CallSteps DEF Sched!SchedulerNext
<1>4. CASE \E n \in Node : RemoveNode(n)
  BY <1>4, AlwaysTyped, RemoveNodeKeeps, CallSteps DEF Sched!SchedulerNext
<1>6. CASE \E seg \in Segment : SetSegmentDelay(seg)
  BY <1>6, AlwaysTyped, SetSegmentDelayKeeps, CallSteps DEF Sched!SchedulerNext
<1>7. CASE \E seg \in Segment, r \in BitTimes : SetSegmentRate(seg, r)
  BY <1>7, AlwaysTyped, SetSegmentRateKeeps, CallSteps DEF Sched!SchedulerNext
<1>8. CASE \E n \in Node, c \in Configs : SetMacConfig(n, c)
  BY <1>8, AlwaysTyped, SetMacConfigKeeps, CallSteps DEF Sched!SchedulerNext
<1>5. CASE StartRun \/ ReturnFromRun \/ UNCHANGED vars
  BY <1>5, QuietKeeps DEF Sched!SchedulerNext
<1>. QED
  BY <1>1, <1>2, <1>3, <1>4, <1>5, <1>6, <1>7, <1>8 DEF Next, Host

LEMMA CsmaInit == Init => CsmaInv /\ Sched!SchedulerInit
<1>1. ASSUME Init PROVE QueueOK /\ SerialsUsed /\ StartsOnTime /\ Sched!SchedulerInit
  <2>1. Sched!SchedulerInit
    BY <1>1 DEF Init
  <2>2. last = <<0, 0, -1>> /\ <<0, 0, -1>> \in Nat \X (0 .. 3) \X Int
    BY <2>1 DEF Sched!SchedulerInit, Sched!Release
  <2>. QED
    BY <2>1, <2>2 DEF Sched!SchedulerInit, QueueOK, SerialsUsed, StartsOnTime
<1>2. ASSUME Init PROVE MacOK /\ WorldOK /\ HistoryOK
  BY <1>2, StatesTyped, CsmaAssumption DEF Init, MacOK, WorldOK, HistoryOK
<1>. QED
  BY <1>1, <1>2 DEF CsmaInv, TypeOK

(* Every variable keeps its type, whatever the topology and the schedule:  *)
(* in particular no handler of engine.rs lets a carrier count go below     *)
(* zero, and none puts a signal of no duration on the wire (I5).           *)
THEOREM TypeCorrect == Spec => []TypeOK
<1>1. Spec => []CsmaInv
  BY CsmaInit, CsmaStep, PTL DEF Spec
<1>2. CsmaInv => TypeOK
  BY DEF CsmaInv
<1>. QED
  BY <1>1, <1>2, PTL

(* Every handler of engine.rs and every host call is a step of the         *)
(* abstract scheduler, provided the host does not schedule in the past.    *)
THEOREM ImplementsTheScheduler ==
  ASSUME ~PastAllowed PROVE Spec => ImplementsScheduler
<1>1. CsmaInv /\ [Next]_vars => CsmaInv' /\ [Sched!SchedulerNext]_(Sched!sched)
  BY CsmaStep
<1>. QED
  BY <1>1, CsmaInit, PTL DEF Spec, ImplementsScheduler, Sched!SchedulerSpec

---------------------------------------------------------------------------
(* What is proved of every scheduler holds of this one.  The module is     *)
(* instantiated twice, as Sched by CsmaCd and as SP with its proofs; the   *)
(* lemma says that the two instances are the same machine.                 *)

LEMMA SameMachine ==
  /\ SP!SchedulerInit <=> Sched!SchedulerInit
  /\ [SP!SchedulerNext]_(SP!sched) <=> [Sched!SchedulerNext]_(Sched!sched)
  /\ SP!KeysAhead <=> Sched!KeysAhead
  /\ SP!TombstonesQueued <=> Sched!TombstonesQueued
  /\ [last' # last => SP!Before(last, last')]_(SP!sched)
     <=> [last' # last => Sched!Before(last, last')]_(Sched!sched)
<1>1. \A k : SP!PhaseOf(k) = Sched!PhaseOf(k)
  BY DEF SP!PhaseOf, Sched!PhaseOf, SP!Release, Sched!Release, SP!Assertion,
         Sched!Assertion, SP!Reaction, Sched!Reaction, SP!LocalDecision,
         Sched!LocalDecision, SP!ReleaseKinds, Sched!ReleaseKinds, SP!AssertionKinds,
         Sched!AssertionKinds, SP!ReactionKinds, Sched!ReactionKinds
<1>2. \A e : SP!Key(e) = Sched!Key(e)
  BY <1>1 DEF SP!Key, Sched!Key
<1>3. \A k, l : SP!Before(k, l) <=> Sched!Before(k, l)
  BY DEF SP!Before, Sched!Before
<1>4. \A e : SP!IsTop(queue, e) <=> Sched!IsTop(queue, e)
  BY <1>2, <1>3 DEF SP!IsTop, Sched!IsTop
<1>5. SP!HostCall <=> Sched!HostCall
  BY <1>1 DEF SP!HostCall, Sched!HostCall, SP!Pushes, Sched!Pushes, SP!Now, Sched!Now,
              SP!LocalDecision, Sched!LocalDecision
<1>6. SP!StartRun <=> Sched!StartRun
  BY DEF SP!StartRun, Sched!StartRun
<1>7. SP!ReturnFromRun <=> Sched!ReturnFromRun
  BY DEF SP!ReturnFromRun, Sched!ReturnFromRun, SP!Now, Sched!Now
<1>8. \A e : SP!Dispatch(e) <=> Sched!Dispatch(e)
  BY <1>2, <1>3, <1>4 DEF SP!Dispatch, Sched!Dispatch, SP!Pushes, Sched!Pushes
<1>9. \A e : SP!Skip(e) <=> Sched!Skip(e)
  BY <1>2, <1>4 DEF SP!Skip, Sched!Skip
<1>10. SP!SchedulerInit <=> Sched!SchedulerInit
  BY DEF SP!SchedulerInit, Sched!SchedulerInit, SP!Release, Sched!Release
<1>11. [SP!SchedulerNext]_(SP!sched) <=> [Sched!SchedulerNext]_(Sched!sched)
  BY <1>5, <1>6, <1>7, <1>8, <1>9
     DEF SP!SchedulerNext, Sched!SchedulerNext, SP!sched, Sched!sched
<1>12. SP!KeysAhead <=> Sched!KeysAhead
  BY <1>2, <1>3 DEF SP!KeysAhead, Sched!KeysAhead
<1>13. SP!TombstonesQueued <=> Sched!TombstonesQueued
  BY DEF SP!TombstonesQueued, Sched!TombstonesQueued
<1>14. [last' # last => SP!Before(last, last')]_(SP!sched)
       <=> [last' # last => Sched!Before(last, last')]_(Sched!sched)
  BY <1>3 DEF SP!sched, Sched!sched
<1>. QED
  BY <1>10, <1>11, <1>12, <1>13, <1>14

LEMMA RunsTheMachine == ASSUME ~PastAllowed PROVE Spec => SP!SchedulerSpec
BY ImplementsTheScheduler, SameMachine, PTL
   DEF ImplementsScheduler, Sched!SchedulerSpec, SP!SchedulerSpec

(* I4 for the whole MAC: whatever is queued comes after everything already *)
(* processed, and serials are unique.                                      *)
THEOREM KeysAheadAlways == ASSUME ~PastAllowed PROVE Spec => []KeysAhead
BY RunsTheMachine, SP!KeysStayAhead, SameMachine, PTL DEF KeysAhead

(* Every tombstone that apply_edit leaves names an entry that is still     *)
(* queued, so none can be taken for a later event.                         *)
THEOREM TombstonesAlwaysQueued == ASSUME ~PastAllowed PROVE Spec => []TombstonesQueued
BY RunsTheMachine, SP!TombstonesStayQueued, SameMachine, PTL DEF TombstonesQueued

(* The log of the whole MAC is in key order, edits between runs included.  *)
THEOREM LogAlwaysInKeyOrder == ASSUME ~PastAllowed PROVE Spec => LogInKeyOrder
BY RunsTheMachine, SP!LogGrowsInKeyOrder, SameMachine, PTL
   DEF LogInKeyOrder, SP!LogInKeyOrder, Sched!LogInKeyOrder

---------------------------------------------------------------------------
(***************************************************************************)
(* What edits of the topology leave behind in the queue of CsmaCd, for any *)
(* topology, any frames and any edits: no arrival at a port without a      *)
(* cable, no front without its back, no collision on a full-duplex link,   *)
(* and no station that waits for an event that will not come.              *)
(*                                                                         *)
(* The argument about arrivals: only HandleTxStart pushes them, and it     *)
(* pushes them in pairs to ports that have a cable; an edit silences whole *)
(* ports, so that both ends of a signal go or neither does; and since a    *)
(* back is queued for a later time than its front, the front is always     *)
(* taken first.                                                            *)
(*                                                                         *)
(* The argument about timers (second half) looks at one station: a chain   *)
(* of reactions lives for one instant (FrameAtHand), whoever transmits has *)
(* the TxEnd of its signal queued (EndArmed), whoever backs off has its    *)
(* timer (BackoffArmed), and the JamEnd of a jam is handled before the     *)
(* jam's TxEnd (JamEndsFirst), which is why that TxEnd finds a timer.      *)
(*                                                                         *)
(* The host is taken not to schedule in the past, which makes KeysAhead    *)
(* and TombstonesQueued available: serials are unique, so a tombstone hits *)
(* one entry, and no entry is pushed with the serial of a tombstone.       *)
(***************************************************************************)

(* A collision can only be noticed on a half-duplex cable, and what follows*)
(* from it stays there even when the cable is pulled.                      *)
ReactingKinds == {"CollisionDetect"} \cup JamEvents
ReactionsOnHd ==
  \A e \in queue : e.kind \in ReactingKinds => Access[e.node] \notin FdSegment

Ordinary == CsmaInv /\ KeysAhead /\ TombstonesQueued
EditInv == UnpluggedHearsNothing /\ EndsStayTogether /\ ReactionsOnHd

LEMMA SerialsDistinct ==
  ASSUME Ordinary, NEW e \in queue, NEW f \in queue, e.serial = f.serial
  PROVE  e = f
BY DEF Ordinary, KeysAhead, Sched!KeysAhead

(* A tombstone never names an entry that is yet to be pushed.              *)
LEMMA FreshIsLive ==
  ASSUME Ordinary, NEW s \in Nat, s >= serial PROVE s \notin cancelled
<1>1. \A e \in queue : e.serial \in Nat /\ e.serial < serial
  BY EntryFields DEF Ordinary, CsmaInv, TypeOK, QueueOK, SerialsUsed
<1>2. serial \in Nat
  BY DEF Ordinary, CsmaInv, TypeOK, QueueOK
<1>. QED
  BY <1>1, <1>2 DEF Ordinary, TombstonesQueued, Sched!TombstonesQueued

(* The entry that is taken is not later than any other.                    *)
LEMMA TopIsEarliest ==
  ASSUME Ordinary, NEW e \in queue, Sched!IsTop(queue, e), NEW f \in queue
  PROVE  e.time \in Nat /\ f.time \in Nat /\ e.time <= f.time
<1>1. e.time \in Nat /\ f.time \in Nat
  BY EntryFields DEF Ordinary, CsmaInv, TypeOK, QueueOK
<1>2. f = e \/ Sched!Before(Sched!Key(e), Sched!Key(f))
  BY DEF Sched!IsTop
<1>3. Sched!Before(Sched!Key(e), Sched!Key(f)) => e.time <= f.time
  BY <1>1 DEF Sched!Before, Sched!Key
<1>. QED
  BY <1>1, <1>2, <1>3

(* The back of a queued front is later than the entry that is taken.       *)
LEMMA BackIsNotTop ==
  ASSUME Ordinary, NEW e \in queue, Sched!IsTop(queue, e),
         NEW f \in queue, f.kind = "FrontArrive",
         NEW b \in queue, b.time = f.time + f.signal.dur
  PROVE  b # e
<1>1. f.signal \in SignalSet
  BY EntryFields DEF Ordinary, CsmaInv, TypeOK, QueueOK, SignalEvents
<1>2. f.signal.dur \in Nat /\ f.signal.dur > 0
  BY <1>1 DEF SignalSet
<1>. QED
  BY <1>2, TopIsEarliest

---------------------------------------------------------------------------
(* Handlers that push no arrivals.                                         *)

Harmless(new) ==
  \A f \in new : /\ f.kind \notin ArrivalEvents
                 /\ f.kind \in ReactingKinds => Access[f.node] \notin FdSegment

LEMMA HarmlessKeeps ==
  ASSUME Ordinary, EditInv, NEW kind, NEW e \in queue, Pops(e, kind),
         NEW new, NEW k, Harmless(new), Emits(e, new, k)
  PROVE  EditInv'
<1>1. /\ queue' = (queue \ {e}) \cup new /\ cancelled' = cancelled /\ up' = up
      /\ Sched!IsTop(queue, e)
  BY DEF Emits, Pops, world
<1>2. UnpluggedHearsNothing'
  BY <1>1 DEF EditInv, UnpluggedHearsNothing, Live, Harmless
<1>3. ReactionsOnHd'
  BY <1>1 DEF EditInv, ReactionsOnHd, Harmless
<1>4. ASSUME NEW f \in queue', f.kind = "FrontArrive", Live(f)'
      PROVE  \E b \in queue' : /\ b.kind = "BackArrive" /\ Live(b)' /\ b.node = f.node
                               /\ b.signal = f.signal /\ b.time = f.time + f.signal.dur
                               /\ b.serial = f.serial + 1
  <2>1. f \in queue \ {e} /\ Live(f)
    BY <1>1, <1>4 DEF Live, Harmless, ArrivalEvents
  <2>2. PICK b \in queue : /\ b.kind = "BackArrive" /\ Live(b) /\ b.node = f.node
                           /\ b.signal = f.signal /\ b.time = f.time + f.signal.dur
                           /\ b.serial = f.serial + 1
    BY <2>1, <1>4 DEF EditInv, EndsStayTogether
  <2>3. b # e
    BY <1>1, <1>4, <2>1, <2>2, BackIsNotTop
  <2>. QED
    BY <1>1, <2>2, <2>3 DEF Live
<1>5. EndsStayTogether'
  BY <1>4 DEF EndsStayTogether
<1>. QED
  BY <1>2, <1>3, <1>5 DEF EditInv

LEMMA HandlersKeepEnds ==
  ASSUME Ordinary, EditInv, NEW e \in queue, Handle(e),
         ~HandleTxStart(e), ~DropCancelled(e)
  PROVE  EditInv'
<1>. USE DEF ArrivalEvents, ReactingKinds, JamEvents
<1>1. CASE HandleTxAttempt(e)
  <2>1. PICK new : Emits(e, new, 1) /\ Harmless(new)
    BY <1>1 DEF HandleTxAttempt, Harmless, AttemptEntry, SignalEntry
  <2>. QED
    BY <1>1, <2>1, HarmlessKeeps DEF HandleTxAttempt
<1>2. CASE HandleTxEnd(e)
  BY <1>2, HarmlessKeeps DEF HandleTxEnd, Harmless
<1>3. CASE HandleFrontArrive(e)
  <2>1. CASE OnFd(e.node)
    BY <1>3, <2>1, HarmlessKeeps DEF HandleFrontArrive, Harmless
  <2>2. CASE ~OnFd(e.node)
    <3>1. Pops(e, "FrontArrive") /\ e.kind = "FrontArrive" /\ Live(e)
      BY <1>3 DEF HandleFrontArrive, Pops, Live
    <3>2. Access[e.node] \in up /\ Access[e.node] \notin FdSegment
      BY <2>2, <3>1 DEF EditInv, UnpluggedHearsNothing, OnFd
    <3>3. Harmless(Reactions(e)) /\ Emits(e, Reactions(e), 1)
      BY <1>3, <2>2, <3>2 DEF HandleFrontArrive, Harmless, Reactions, SignalEntry
    <3>. QED
      BY <3>1, <3>3, HarmlessKeeps
  <2>. QED
    BY <2>1, <2>2
<1>4. CASE HandleBackArrive(e)
  BY <1>4, HarmlessKeeps DEF HandleBackArrive, Harmless
<1>5. CASE HandleCollisionDetect(e)
  <2>1. Pops(e, "CollisionDetect") /\ Access[e.node] \notin FdSegment
    BY <1>5 DEF HandleCollisionDetect, Pops, EditInv, ReactionsOnHd
  <2>2. PICK new, k : Emits(e, new, k) /\ Harmless(new)
    BY <1>5, <2>1 DEF HandleCollisionDetect, Harmless, JamEntry
  <2>. QED
    BY <2>1, <2>2, HarmlessKeeps
<1>6. CASE HandleJamStart(e)
  <2>1. Pops(e, "JamStart") /\ Access[e.node] \notin FdSegment
    BY <1>6 DEF HandleJamStart, Pops, EditInv, ReactionsOnHd
  <2>2. PICK new : Emits(e, new, 2) /\ Harmless(new)
    BY <1>6, <2>1 DEF HandleJamStart, Harmless, JamEntry, SignalEntry
  <2>. QED
    BY <2>1, <2>2, HarmlessKeeps
<1>7. CASE HandleJamEnd(e)
  <2>1. /\ Harmless({})
        /\ \A t, a : Harmless({BackoffEntry(t, serial, e.node, a)})
    BY DEF Harmless, BackoffEntry
  <2>2. \/ Emits(e, {}, 0)
        \/ \E t, a : Emits(e, {BackoffEntry(t, serial, e.node, a)}, 1)
    BY <1>7 DEF HandleJamEnd
  <2>3. PICK new, k : Emits(e, new, k) /\ Harmless(new)
    BY <2>1, <2>2
  <2>. QED
    BY <1>7, <2>3, HarmlessKeeps DEF HandleJamEnd
<1>8. CASE HandleBackoffExpire(e)
  <2>1. PICK new, k : Emits(e, new, k) /\ Harmless(new)
    BY <1>8 DEF HandleBackoffExpire, Harmless, AttemptEntry
  <2>. QED
    BY <1>8, <2>1, HarmlessKeeps DEF HandleBackoffExpire
<1>9. CASE HandleTopologyChanged(e)
  BY <1>9, HarmlessKeeps DEF HandleTopologyChanged, Harmless
<1>. QED
  BY <1>1, <1>2, <1>3, <1>4, <1>5, <1>6, <1>7, <1>8, <1>9 DEF Handle

---------------------------------------------------------------------------
(* HandleTxStart pushes fronts and backs in pairs, at ports with a cable.  *)

LEMMA TxStartKeepsEnds ==
  ASSUME Ordinary, EditInv, NEW e \in queue, HandleTxStart(e)
  PROVE  EditInv'
<1>. DEFINE sig == e.signal
            order == hashOrder[sig.source]
            end == SignalEntry("TxEnd", sig.t0 + sig.dur, serial + 2 * NumNodes, e.node, sig)
            front(m) == SignalEntry("FrontArrive", FrontTime(sig, m),
                                    serial + 2 * order[m], m, sig)
            back(m) == SignalEntry("BackArrive", FrontTime(sig, m) + sig.dur,
                                   serial + 2 * order[m] + 1, m, sig)
<1>1. /\ queue' = (queue \ {e}) \cup (Arrivals(sig) \cup {end})
      /\ cancelled' = cancelled /\ up' = up /\ Sched!IsTop(queue, e)
      /\ e.kind = "TxStart"
  BY DEF HandleTxStart, Emits, Pops, world
<1>2. Arrivals(sig) = {front(m) : m \in Hears(sig.source)}
                      \cup {back(m) : m \in Hears(sig.source)}
  BY DEF Arrivals
<1>3. /\ sig \in SignalSet /\ sig.source \in Node /\ serial \in Nat
      /\ order \in [Node -> 0 .. (NumNodes - 1)] /\ NumNodes \in Nat
  <2>1. sig \in SignalSet /\ serial \in Nat
    BY <1>1, EntryFields DEF Ordinary, CsmaInv, TypeOK, QueueOK, SignalEvents
  <2>2. sig.source \in Node
    BY <2>1 DEF SignalSet
  <2>. QED
    BY <2>1, <2>2, NumNodesType, CsmaAssumption DEF Ordinary, CsmaInv, TypeOK, WorldOK
<1>4. \A m \in Hears(sig.source) : m \in Node /\ Access[m] \in up
  BY RouteAssumption DEF Hears
<1>5. ASSUME NEW m \in Hears(sig.source)
      PROVE  /\ front(m).kind = "FrontArrive" /\ front(m).node = m
             /\ front(m).signal = sig /\ front(m).time = FrontTime(sig, m)
             /\ front(m).serial = serial + 2 * order[m]
             /\ back(m).kind = "BackArrive" /\ back(m).node = m
             /\ back(m).signal = sig /\ back(m).time = FrontTime(sig, m) + sig.dur
             /\ back(m).serial = serial + 2 * order[m] + 1
             /\ serial + 2 * order[m] \in Nat /\ serial + 2 * order[m] >= serial
  <2>1. order[m] \in Nat
    BY <1>3, <1>4
  <2>. QED
    BY <1>3, <2>1 DEF SignalEntry
<1>6. end.kind = "TxEnd"
  BY DEF SignalEntry
<1>. HIDE DEF front, back, end, sig, order
<1>7. UnpluggedHearsNothing'
  <2> SUFFICES ASSUME NEW f \in queue', f.kind \in ArrivalEvents, Live(f)'
               PROVE  Access[f.node] \in up'
    BY DEF UnpluggedHearsNothing
  <2>1. CASE f \in queue
    BY <1>1, <2>1 DEF EditInv, UnpluggedHearsNothing, Live
  <2>2. CASE f \in Arrivals(sig)
    BY <1>1, <1>2, <1>4, <1>5, <2>2
  <2>. QED
    BY <1>1, <1>6, <2>1, <2>2 DEF ArrivalEvents
<1>8. ReactionsOnHd'
  <2>1. \A f \in Arrivals(sig) \cup {end} : f.kind \notin ReactingKinds
    BY <1>2, <1>5, <1>6 DEF ReactingKinds, JamEvents
  <2>. QED
    BY <1>1, <2>1 DEF EditInv, ReactionsOnHd
<1>9. ASSUME NEW f \in queue', f.kind = "FrontArrive", Live(f)'
      PROVE  \E b \in queue' : /\ b.kind = "BackArrive" /\ Live(b)' /\ b.node = f.node
                               /\ b.signal = f.signal /\ b.time = f.time + f.signal.dur
                               /\ b.serial = f.serial + 1
  <2>1. CASE f \in queue
    <3>1. Live(f)
      BY <1>1, <1>9 DEF Live
    <3>2. PICK b \in queue : /\ b.kind = "BackArrive" /\ Live(b) /\ b.node = f.node
                             /\ b.signal = f.signal /\ b.time = f.time + f.signal.dur
                             /\ b.serial = f.serial + 1
      BY <1>9, <2>1, <3>1 DEF EditInv, EndsStayTogether
    <3>3. b # e
      BY <1>1, <3>2
    <3>. QED
      BY <1>1, <3>2, <3>3 DEF Live
  <2>2. CASE f \notin queue
    <3>1. PICK m \in Hears(sig.source) : f = front(m)
      BY <1>1, <1>2, <1>5, <1>6, <1>9, <2>2
    <3>2. PICK b : b = back(m)
      OBVIOUS
    <3>3. b \in queue'
      BY <1>1, <1>2, <3>2
    <3>4. b.serial \in Nat /\ b.serial >= serial
      BY <1>3, <1>5, <3>2
    <3>5. Live(b)'
      BY <1>1, <3>4, FreshIsLive DEF Live
    <3>6. /\ b.time = f.time + f.signal.dur /\ b.serial = f.serial + 1
          /\ b.node = f.node /\ b.signal = f.signal
          /\ b.kind = "BackArrive"
      BY <1>5, <3>1, <3>2
    <3>. QED
      BY <3>3, <3>5, <3>6
  <2>. QED
    BY <2>1, <2>2
<1>10. EndsStayTogether'
  BY <1>9 DEF EndsStayTogether
<1>. QED
  BY <1>7, <1>8, <1>10 DEF EditInv

LEMMA DropKeepsEnds ==
  ASSUME Ordinary, EditInv, NEW e \in queue, DropCancelled(e)
  PROVE  EditInv'
<1>1. /\ queue' = queue \ {e} /\ cancelled' = cancelled \ {e.serial} /\ up' = up
      /\ e.serial \in cancelled
  BY DEF DropCancelled, Sched!Skip, world
<1>2. \A f \in queue' : Live(f)' <=> Live(f)
  BY <1>1, SerialsDistinct DEF Live
<1>3. UnpluggedHearsNothing' /\ ReactionsOnHd'
  BY <1>1, <1>2 DEF EditInv, UnpluggedHearsNothing, ReactionsOnHd
<1>4. EndsStayTogether'
  <2> SUFFICES ASSUME NEW f \in queue', f.kind = "FrontArrive", Live(f)
               PROVE  \E b \in queue' :
                         /\ b.kind = "BackArrive" /\ Live(b) /\ b.node = f.node
                         /\ b.signal = f.signal /\ b.time = f.time + f.signal.dur
                         /\ b.serial = f.serial + 1
    BY <1>2 DEF EndsStayTogether
  <2>1. PICK b \in queue : /\ b.kind = "BackArrive" /\ Live(b) /\ b.node = f.node
                           /\ b.signal = f.signal /\ b.time = f.time + f.signal.dur
                           /\ b.serial = f.serial + 1
    BY <1>1 DEF EditInv, EndsStayTogether
  <2>. QED
    BY <1>1, <2>1 DEF Live
<1>. QED
  BY <1>3, <1>4 DEF EditInv

---------------------------------------------------------------------------
(* Host calls: an edit silences a set of ports.                            *)

LEMMA SilencingKeeps ==
  ASSUME Ordinary, EditInv, NEW new, queue' = queue \cup new, Harmless(new),
         NEW silenced \in SUBSET Node,
         \A g \in queue : g.kind \in ArrivalEvents =>
            (g.serial \in cancelled' <=> g.serial \in cancelled \/ g.node \in silenced),
         \A n \in Node \ silenced : Access[n] \in up => Access[n] \in up'
  PROVE  EditInv'
<1>1. ASSUME NEW g \in queue, g.kind \in ArrivalEvents
      PROVE  g.node \in Node /\ (Live(g)' <=> Live(g) /\ g.node \notin silenced)
  BY <1>1, EntryFields
     DEF Live, ArrivalEvents, NodeEvents, SignalEvents, Ordinary, CsmaInv, TypeOK, QueueOK
<1>2. \A f \in queue' : f.kind \in ArrivalEvents => f \in queue
  BY DEF Harmless
<1>3. UnpluggedHearsNothing'
  BY <1>1, <1>2 DEF EditInv, UnpluggedHearsNothing
<1>4. ReactionsOnHd'
  BY DEF EditInv, ReactionsOnHd, Harmless
<1>5. ASSUME NEW f \in queue', f.kind = "FrontArrive", Live(f)'
      PROVE  \E b \in queue' : /\ b.kind = "BackArrive" /\ Live(b)' /\ b.node = f.node
                               /\ b.signal = f.signal /\ b.time = f.time + f.signal.dur
                               /\ b.serial = f.serial + 1
  <2>1. f \in queue /\ Live(f) /\ f.node \notin silenced
    BY <1>1, <1>2, <1>5 DEF ArrivalEvents
  <2>2. PICK b \in queue : /\ b.kind = "BackArrive" /\ Live(b) /\ b.node = f.node
                           /\ b.signal = f.signal /\ b.time = f.time + f.signal.dur
                           /\ b.serial = f.serial + 1
    BY <1>5, <2>1 DEF EditInv, EndsStayTogether
  <2>3. Live(b)'
    BY <1>1, <2>1, <2>2 DEF ArrivalEvents
  <2>. QED
    BY <2>2, <2>3
<1>6. EndsStayTogether'
  BY <1>5 DEF EndsStayTogether
<1>. QED
  BY <1>3, <1>4, <1>6 DEF EditInv

LEMMA MarkersHarmless ==
  /\ Harmless({EditEntry(Now, serial)})
  /\ \A c : Harmless({EditEntry(Now, serial + i) : i \in 0 .. c})
BY DEF Harmless, EditEntry, ArrivalEvents, ReactingKinds, JamEvents

LEMMA HostKeepsEnds ==
  ASSUME Ordinary, EditInv, Host
  PROVE  EditInv'
<1>1. CASE \E o \in Offers : ScheduleTxAttempt(o[1], o[2], o[3])
  <2>1. PICK o \in Offers : ScheduleTxAttempt(o[1], o[2], o[3])
    BY <1>1
  <2>2. PICK new : new = {AttemptEntry(o[1], serial, o[2], o[3])}
    OBVIOUS
  <2>3. Harmless(new)
    BY <2>2 DEF Harmless, AttemptEntry, ArrivalEvents, ReactingKinds, JamEvents
  <2>4. queue' = queue \cup new /\ cancelled' = cancelled /\ up' = up
    BY <2>1, <2>2 DEF ScheduleTxAttempt, HostPushes
  <2>5. {} \in SUBSET Node
    OBVIOUS
  <2>. QED
    BY <2>3, <2>4, <2>5, SilencingKeeps
<1>2. CASE \E seg \in Segment : RemoveSegment(seg)
  <2>1. PICK seg \in Segment : RemoveSegment(seg)
    BY <1>2
  <2>. DEFINE silenced == {n \in Node : Access[n] = seg}
  <2>2. /\ queue' = queue \cup {EditEntry(Now, serial)} /\ up' = up \ {seg}
        /\ cancelled' = cancelled \cup ArrivalsOn({seg})
    BY <2>1 DEF RemoveSegment, HostPushes
  <2>3. ASSUME NEW g \in queue, g.kind \in ArrivalEvents
        PROVE  g.serial \in cancelled' <=> g.serial \in cancelled \/ g.node \in silenced
    <3>1. g.node \in Node
      BY <2>3, EntryFields DEF ArrivalEvents, NodeEvents, SignalEvents, Ordinary,
                               CsmaInv, TypeOK, QueueOK
    <3>2. g.serial \in ArrivalsOn({seg}) <=> Access[g.node] = seg
      BY <2>3, SerialsDistinct DEF ArrivalsOn
    <3>. QED
      BY <2>2, <3>1, <3>2
  <2>4. \A n \in Node \ silenced : Access[n] \in up => Access[n] \in up'
    BY <2>2
  <2>. HIDE DEF silenced
  <2>5. silenced \in SUBSET Node
    BY DEF silenced
  <2>. QED
    BY <2>2, <2>3, <2>4, <2>5, MarkersHarmless, SilencingKeeps
<1>3. CASE \E n \in Node : RemoveNode(n)
  <2>1. PICK n \in Node : RemoveNode(n)
    BY <1>3
  <2>. DEFINE incident == {Access[n]} \cap up
              silenced == {n} \cup {m \in Node : Access[m] \in incident}
              c == Cardinality(incident)
              new == {EditEntry(Now, serial + i) : i \in 0 .. c}
  <2>2. /\ queue' = queue \cup new /\ up' = up \ incident
        /\ cancelled' = cancelled \cup ArrivalsOn(incident) \cup EventsOf(n)
    BY <2>1 DEF RemoveNode, HostPushes
  <2>3. ASSUME NEW g \in queue, g.kind \in ArrivalEvents
        PROVE  g.serial \in cancelled' <=> g.serial \in cancelled \/ g.node \in silenced
    <3>1. g.node \in Node /\ g.kind \in NodeEvents
      BY <2>3, EntryFields DEF ArrivalEvents, NodeEvents, SignalEvents, Ordinary,
                               CsmaInv, TypeOK, QueueOK
    <3>2. g.serial \in ArrivalsOn(incident) <=> Access[g.node] \in incident
      BY <2>3, SerialsDistinct DEF ArrivalsOn
    <3>3. g.serial \in EventsOf(n) <=> g.node = n
      BY <3>1, SerialsDistinct DEF EventsOf
    <3>. QED
      BY <2>2, <3>1, <3>2, <3>3
  <2>4. \A m \in Node \ silenced : Access[m] \in up => Access[m] \in up'
    BY <2>2
  <2>5. silenced \in SUBSET Node /\ Harmless(new)
    BY MarkersHarmless
  <2>. HIDE DEF silenced, new, incident
  <2>. QED
    BY <2>2, <2>3, <2>4, <2>5, SilencingKeeps
<1>4. CASE \/ \E seg \in Segment : AddSegment(seg) \/ SetSegmentDelay(seg)
           \/ \E seg \in Segment, r \in BitTimes : SetSegmentRate(seg, r)
           \/ \E n \in Node, c \in Configs : SetMacConfig(n, c)
  <2>1. /\ queue' = queue \cup {EditEntry(Now, serial)}
        /\ cancelled' = cancelled /\ up \subseteq up'
    BY <1>4 DEF AddSegment, SetSegmentDelay, SetSegmentRate, SetMacConfig, HostPushes
  <2>2. {} \in SUBSET Node
    OBVIOUS
  <2>. QED
    BY <2>1, <2>2, MarkersHarmless, SilencingKeeps
<1>5. CASE StartRun \/ ReturnFromRun
  BY <1>5 DEF StartRun, ReturnFromRun, Sched!StartRun, Sched!ReturnFromRun, world,
              EditInv, UnpluggedHearsNothing, EndsStayTogether, ReactionsOnHd, Live
<1>. QED
  BY <1>1, <1>2, <1>3, <1>4, <1>5 DEF Host

---------------------------------------------------------------------------
LEMMA EditStep ==
  ASSUME Ordinary, EditInv, [Next]_vars PROVE EditInv'
<1>1. CASE \E e \in queue : Handle(e)
  BY <1>1, HandlersKeepEnds, TxStartKeepsEnds, DropKeepsEnds
<1>2. CASE UNCHANGED vars
  BY <1>2 DEF vars, world, EditInv, UnpluggedHearsNothing, EndsStayTogether,
              ReactionsOnHd, Live
<1>. QED
  BY <1>1, <1>2, HostKeepsEnds DEF Next

LEMMA EditsKeepInv == ASSUME ~PastAllowed PROVE Spec => []EditInv
<1>1. Init => EditInv
  BY DEF Init, Sched!SchedulerInit, EditInv, UnpluggedHearsNothing, EndsStayTogether,
         ReactionsOnHd
<1>2. Ordinary /\ EditInv /\ [Next]_vars => EditInv'
  BY EditStep
<1>3. Spec => []CsmaInv
  BY CsmaInit, CsmaStep, PTL DEF Spec
<1>4. CsmaInv /\ KeysAhead /\ TombstonesQueued => Ordinary
  BY DEF Ordinary
<1>. QED
  BY <1>1, <1>2, <1>3, <1>4, KeysAheadAlways, TombstonesAlwaysQueued, PTL DEF Spec

(* cancel_arrivals_on_segment forgets no arrival: whatever is pulled,      *)
(* plugged or removed, and whenever, no signal reaches a port without a    *)
(* cable (engine.rs, do_disconnect_port, do_remove_segment,                *)
(* do_remove_node).                                                        *)
THEOREM UnpluggedAlwaysSilent == ASSUME ~PastAllowed PROVE Spec => []UnpluggedHearsNothing
<1>1. EditInv => UnpluggedHearsNothing
  BY DEF EditInv
<1>. QED
  BY <1>1, EditsKeepInv, PTL

(* ... and it forgets no half of a signal: front and back of a signal are  *)
(* cancelled together or arrive together, as far apart as the signal       *)
(* lasts, also when delays, rates and configurations change in between     *)
(* (engine.rs, handle_tx_start and apply_edit).                            *)
THEOREM EndsAlwaysTogether == ASSUME ~PastAllowed PROVE Spec => []EndsStayTogether
<1>1. EditInv => EndsStayTogether
  BY DEF EditInv
<1>. QED
  BY <1>1, EditsKeepInv, PTL

(* Theorem 3 of the engine's documentation: on a full-duplex link no       *)
(* collision is ever detected and no jam is sent, even if cables are       *)
(* pulled and plugged in the middle of a signal.                           *)
THEOREM FullDuplexIsSafe == ASSUME ~PastAllowed PROVE Spec => []FullDuplexNeverCollides
<1>1. EditInv => FullDuplexNeverCollides
  BY DEF EditInv, ReactionsOnHd, ReactingKinds, FullDuplexNeverCollides
<1>. QED
  BY <1>1, EditsKeepInv, PTL

---------------------------------------------------------------------------
(* Nobody is stuck.  The proof goes station by station: what one has       *)
(* queued is touched only by its own handlers.                             *)

Wired == Ordinary /\ EditInv

LEMMA StateTypes ==
  ASSUME Ordinary
  PROVE  foreign \in [Node -> Nat] /\ state \in [Node -> StateSet]
BY DEF Ordinary, CsmaInv, TypeOK, MacOK

LEMMA EntryTypes ==
  ASSUME Ordinary, NEW e \in queue
  PROVE  /\ e.time \in Nat /\ e.serial \in Nat /\ serial \in Nat
         /\ e.kind \in NodeEvents => e.node \in Node
         /\ e.kind \in SignalEvents => e.signal \in SignalSet
         /\ last[1] \in Nat /\ last[2] \in 0 .. 3
         /\ foreign \in [Node -> Nat] /\ state \in [Node -> StateSet]
BY EntryFields DEF Ordinary, CsmaInv, TypeOK, QueueOK, MacOK

(* While something is queued for the present, time stands still and phases *)
(* only go up.                                                             *)
LEMMA InstantGoesOn ==
  ASSUME Ordinary, NEW e \in queue, Sched!IsTop(queue, e),
         NEW f \in queue, f.time = Now
  PROVE  e.time = Now /\ last[2] <= Sched!PhaseOf(e.kind) /\ Sched!PhaseOf(e.kind) \in 0 .. 3
<1>1. e.time <= Now /\ e.time \in Nat /\ Now \in Nat /\ last[2] \in 0 .. 3
  BY TopIsEarliest, EntryTypes DEF Now
<1>2. Sched!Before(last, Sched!Key(e))
  BY DEF Ordinary, KeysAhead, Sched!KeysAhead
<1>. QED
  BY <1>1, <1>2, PhaseRange DEF Sched!Before, Sched!Key, Now

LEMMA PopFacts ==
  ASSUME NEW kind, NEW e \in queue, Pops(e, kind), NEW new, NEW k, Emits(e, new, k)
  PROVE  /\ e.kind = kind /\ Sched!IsTop(queue, e) /\ Live(e)
         /\ queue' = (queue \ {e}) \cup new /\ queue \ {e} \subseteq queue'
         /\ cancelled' = cancelled /\ up' = up
         /\ last' = Sched!Key(e) /\ Now' = e.time /\ last'[2] = Sched!PhaseOf(e.kind)
<1>1. /\ e.kind = kind /\ Sched!IsTop(queue, e) /\ Live(e)
      /\ queue' = (queue \ {e}) \cup new
      /\ cancelled' = cancelled /\ up' = up /\ last' = Sched!Key(e)
  BY DEF Pops, Emits, Live, world
<1>2. Now' = e.time /\ last'[2] = Sched!PhaseOf(e.kind)
  BY <1>1 DEF Now, Sched!Key
<1>. QED
  BY <1>1, <1>2

(* What a handler pushes is never tombstoned.                              *)
LEMMA PushedIsLive ==
  ASSUME Ordinary, cancelled' = cancelled, NEW r, r.serial \in Nat, r.serial >= serial
  PROVE  Live(r)'
BY FreshIsLive DEF Live

(* The live entries of one kind for one station.                           *)
Mine(k, n) == {e \in queue : e.kind = k /\ e.node = n /\ Live(e)}

ChainKinds == {"CollisionDetect", "JamStart", "TxStart"}
TimerKinds == {"TxEnd", "JamEnd", "BackoffExpire"} \cup ChainKinds

(* A station that is busy has a frame to retry, and so has one that is     *)
(* about to send; a chain of reactions is a matter of one instant, after   *)
(* the releases of that instant.                                           *)
FrameAtHand(n) ==
  /\ IsBusy(n) => pending[n] # NoFrame
  /\ \A k \in ChainKinds : \A e \in Mine(k, n) :
        e.time = Now /\ last[2] >= 1 /\ pending[n] # NoFrame

EndArmed(n) ==
  IsTransmitting(n) => \E e \in Mine("TxEnd", n) : e.signal = state[n].signal

BackoffArmed(n) ==
  state[n].mode = "BackingOff" =>
    \E e \in Mine("BackoffExpire", n) : e.attempt = state[n].attempt

(* The end of a jam is queued twice, as a JamEnd and as a TxEnd, and the   *)
(* JamEnd is taken first: the TxEnd finds that the station has moved on.   *)
JamEndsFirst(n) ==
  /\ \A e \in Mine("TxStart", n) :
       e.signal.kind = "Jam" =>
         \E j \in Mine("JamEnd", n) : j.time = e.signal.t0 + e.signal.dur
  /\ \A e \in Mine("TxEnd", n) :
       e.signal.kind = "Jam" =>
         \/ e.time = Now /\ ~EndsCurrent(n, e.signal)
         \/ \E j \in Mine("JamEnd", n) : j.time = e.time /\ j.serial < e.serial

TimerInv(n) == FrameAtHand(n) /\ EndArmed(n) /\ BackoffArmed(n) /\ JamEndsFirst(n)

LEMMA ArmedBy == (\A n \in Node : TimerInv(n)) => TimersArmed
<1> SUFFICES ASSUME \A n \in Node : TimerInv(n), NEW n \in Node
             PROVE  /\ IsTransmitting(n) =>
                        \E e \in queue : /\ e.kind = "TxEnd" /\ e.node = n /\ Live(e)
                                         /\ e.signal = state[n].signal
                    /\ state[n].mode = "BackingOff" =>
                        /\ pending[n] # NoFrame
                        /\ \E e \in queue : /\ e.kind = "BackoffExpire" /\ e.node = n
                                            /\ Live(e) /\ e.attempt = state[n].attempt
  BY DEF TimersArmed
<1>. QED
  BY DEF TimerInv, FrameAtHand, EndArmed, BackoffArmed, Mine, IsBusy

(* One entry is taken; the others stay as live as they were.               *)
Taken(e, new) ==
  /\ e \in queue /\ Sched!IsTop(queue, e)
  /\ queue' = (queue \ {e}) \cup new
  /\ last' = Sched!Key(e) /\ Now' = e.time /\ last'[2] = Sched!PhaseOf(e.kind)
  /\ \A f \in queue \ {e} : Live(f)' <=> Live(f)
  /\ \A f \in new : Live(f)'

LEMMA MineNext ==
  ASSUME NEW e, NEW new, Taken(e, new), NEW k, NEW n
  PROVE  Mine(k, n)' = (Mine(k, n) \ {e}) \cup {f \in new : f.kind = k /\ f.node = n}
BY DEF Mine, Taken

LEMMA TakenBy ==
  ASSUME Ordinary, NEW kind, NEW e \in queue, Pops(e, kind), NEW new, NEW k,
         Emits(e, new, k), \A f \in new : f.serial \in Nat /\ f.serial >= serial
  PROVE  Taken(e, new) /\ e.kind = kind /\ Live(e)
<1>1. \A f \in new : Live(f)'
  BY PopFacts, PushedIsLive
<1>. QED
  BY <1>1, PopFacts DEF Taken, Live

(* The instant goes on while something of it is queued.                    *)
LEMMA SameInstant ==
  ASSUME Ordinary, NEW e, NEW new, Taken(e, new), NEW f \in queue, f.time = Now
  PROVE  Now' = Now /\ last[2] <= last'[2] /\ last[2] \in 0 .. 3 /\ last'[2] \in 0 .. 3
<1>1. e \in queue /\ Sched!IsTop(queue, e) /\ Now' = e.time
      /\ last'[2] = Sched!PhaseOf(e.kind)
  BY DEF Taken
<1>. QED
  BY <1>1, InstantGoesOn, EntryTypes

(* A release is taken before any chain of reactions begins.                *)
LEMMA NoChainAtRelease ==
  ASSUME Ordinary, NEW e, NEW new, Taken(e, new), e.kind \in {"TxEnd", "JamEnd"},
         NEW n, FrameAtHand(n), NEW k \in ChainKinds
  PROVE  Mine(k, n) = {}
<1> SUFFICES ASSUME NEW f \in Mine(k, n) PROVE FALSE
  OBVIOUS
<1>1. f.time = Now /\ last[2] >= 1 /\ f \in queue
  BY DEF FrameAtHand, Mine
<1>2. last[2] <= last'[2] /\ last'[2] = Sched!PhaseOf(e.kind) /\ last[2] \in 0 .. 3
  BY <1>1, SameInstant DEF Taken
<1>3. Sched!PhaseOf(e.kind) = 0
  BY PhaseValues
<1>. QED
  BY <1>1, <1>2, <1>3

(* Chains and ends that a step does not touch.                             *)
LEMMA ChainsStay ==
  ASSUME Ordinary, NEW e, NEW new, Taken(e, new), NEW n, FrameAtHand(n),
         NEW k \in ChainKinds, NEW f \in Mine(k, n)
  PROVE  f.time = Now' /\ last'[2] >= 1 /\ pending[n] # NoFrame
<1>1. f.time = Now /\ last[2] >= 1 /\ pending[n] # NoFrame /\ f \in queue
  BY DEF FrameAtHand, Mine
<1>. QED
  BY <1>1, SameInstant

LEMMA EndsStay ==
  ASSUME Ordinary, NEW e, NEW new, Taken(e, new), NEW n, JamEndsFirst(n),
         NEW f \in Mine("TxEnd", n), f.signal.kind = "Jam",
         EndsCurrent(n, f.signal)' => EndsCurrent(n, f.signal),
         Mine("JamEnd", n) \subseteq Mine("JamEnd", n)'
  PROVE  \/ f.time = Now' /\ ~EndsCurrent(n, f.signal)'
         \/ \E j \in Mine("JamEnd", n)' : j.time = f.time /\ j.serial < f.serial
<1>1. CASE f.time = Now /\ ~EndsCurrent(n, f.signal)
  BY <1>1, SameInstant DEF Mine
<1>2. CASE \E j \in Mine("JamEnd", n) : j.time = f.time /\ j.serial < f.serial
  BY <1>2
<1>. QED
  BY <1>1, <1>2 DEF JamEndsFirst

(* A step that leaves the entries of the station alone.                    *)
LEMMA Untouched ==
  ASSUME Ordinary, NEW e, NEW new, Taken(e, new), NEW n, TimerInv(n),
         \A k \in TimerKinds : Mine(k, n)' = Mine(k, n),
         state'[n] = state[n], pending'[n] = pending[n] \/ pending'[n] # NoFrame
  PROVE  TimerInv(n)'
<1>1. FrameAtHand(n)'
  BY ChainsStay DEF TimerInv, FrameAtHand, TimerKinds, IsBusy
<1>2. EndArmed(n)' /\ BackoffArmed(n)'
  BY DEF TimerInv, EndArmed, BackoffArmed, TimerKinds, IsTransmitting
<1>3. \A s : EndsCurrent(n, s)' <=> EndsCurrent(n, s)
  BY DEF EndsCurrent, IsTransmitting
<1>4. JamEndsFirst(n)'
  <2>1. ASSUME NEW f \in Mine("TxEnd", n)', f.signal.kind = "Jam"
        PROVE  \/ f.time = Now' /\ ~EndsCurrent(n, f.signal)'
               \/ \E j \in Mine("JamEnd", n)' : j.time = f.time /\ j.serial < f.serial
    BY <1>3, <2>1, EndsStay DEF TimerInv, TimerKinds
  <2>2. \A f \in Mine("TxStart", n)' : f.signal.kind = "Jam" =>
           \E j \in Mine("JamEnd", n)' : j.time = f.signal.t0 + f.signal.dur
    BY DEF TimerInv, JamEndsFirst, TimerKinds, ChainKinds
  <2>. QED
    BY <2>1, <2>2 DEF JamEndsFirst
<1>. QED
  BY <1>1, <1>2, <1>4 DEF TimerInv

---------------------------------------------------------------------------
(* The handlers, at the station of the entry.                              *)

(* Entries of a station are not those of another.                          *)
LEMMA OthersUntouched ==
  ASSUME Ordinary, NEW e, NEW new, Taken(e, new), NEW n, TimerInv(n),
         e.kind \in TimerKinds => ~Live(e) \/ e.node # n,
         \A f \in new : f.kind \in TimerKinds => f.node # n,
         state'[n] = state[n], pending'[n] = pending[n] \/ pending'[n] # NoFrame
  PROVE  TimerInv(n)'
<1>1. ASSUME NEW k \in TimerKinds PROVE Mine(k, n)' = Mine(k, n)
  <2>1. e \notin Mine(k, n) /\ {f \in new : f.kind = k /\ f.node = n} = {}
    BY DEF Mine
  <2>. QED
    BY <2>1, MineNext
<1>. QED
  BY <1>1, Untouched

LEMMA AttemptKeepsTimers ==
  ASSUME Wired, NEW n, TimerInv(n), NEW e \in queue, HandleTxAttempt(e),
         n \in Node, \A f \in Frame : KindOf[f] = "Frame"
  PROVE  TimerInv(n)'
<1>1. /\ Ordinary /\ Pops(e, "TxAttempt") /\ e.kind = "TxAttempt" /\ e.node \in Node
      /\ e.frame \in Frame /\ serial \in Nat /\ state' = state
      /\ pending' = [pending EXCEPT ![e.node] = e.frame]
  BY EntryTypes, EntryFields DEF HandleTxAttempt, Pops, NodeEvents, Wired, Ordinary, CsmaInv,
                                 TypeOK, QueueOK
<1>2. pending'[n] = pending[n] \/ pending'[n] # NoFrame
  BY <1>1, CsmaAssumption DEF Ordinary, CsmaInv, TypeOK, MacOK
<1>3. ~(e.kind \in TimerKinds)
  BY <1>1 DEF TimerKinds, ChainKinds
<1>4. CASE Emits(e, {AttemptEntry(e.time + IfgTime(e.node), serial, e.node, e.frame)}, 1)
  <2>1. PICK g : g = AttemptEntry(e.time + IfgTime(e.node), serial, e.node, e.frame)
    OBVIOUS
  <2>2. g.serial = serial /\ g.kind = "TxAttempt" /\ Emits(e, {g}, 1)
    BY <1>4, <2>1 DEF AttemptEntry
  <2>3. Taken(e, {g})
    BY <1>1, <2>2, TakenBy
  <2>4. \A f \in {g} : f.kind \in TimerKinds => f.node # n
    BY <2>2 DEF TimerKinds, ChainKinds
  <2>. QED
    BY <1>1, <1>2, <1>3, <2>3, <2>4, OthersUntouched
<1>5. CASE Emits(e, {SignalEntry("TxStart", e.time, serial, e.node,
                                 FrameSignal(e.node, e.time, e.frame))}, 1)
  <2>1. PICK g : g = SignalEntry("TxStart", e.time, serial, e.node,
                                 FrameSignal(e.node, e.time, e.frame))
    OBVIOUS
  <2>2. /\ g.serial = serial /\ g.kind = "TxStart" /\ g.node = e.node /\ g.time = e.time
        /\ g.signal.kind = "Frame" /\ Emits(e, {g}, 1)
    BY <1>1, <1>5, <2>1 DEF SignalEntry, FrameSignal, Signal
  <2>3. Taken(e, {g})
    BY <1>1, <2>2, TakenBy
  <2>4. CASE e.node # n
    BY <1>1, <1>2, <1>3, <2>2, <2>3, <2>4, OthersUntouched
  <2>5. CASE e.node = n
    <3>1. /\ Mine("TxStart", n)' = Mine("TxStart", n) \cup {g}
          /\ \A k \in TimerKinds \ {"TxStart"} : Mine(k, n)' = Mine(k, n)
      <4>1. ASSUME NEW k \in TimerKinds
            PROVE  Mine(k, n)' = Mine(k, n) \cup {f \in {g} : f.kind = k /\ f.node = n}
        BY <1>3, <2>3, MineNext DEF Mine
      <4>. QED
        BY <2>2, <2>5, <4>1 DEF TimerKinds, ChainKinds
    <3>2. pending'[n] # NoFrame /\ Now' = e.time /\ last'[2] = 3
      BY <1>1, <2>3, <2>5, PhaseValues, CsmaAssumption DEF Taken, Ordinary, CsmaInv, TypeOK, MacOK
    <3>3. FrameAtHand(n)'
      <4>1. ASSUME NEW k \in ChainKinds, NEW f \in Mine(k, n)' PROVE f.time = Now'
        <5>1. CASE f \in Mine(k, n)
          BY <1>1, <2>3, <5>1, ChainsStay DEF TimerInv
        <5>2. CASE f = g
          BY <2>2, <3>2, <5>2
        <5>3. k \in TimerKinds /\ (k = "TxStart" \/ k \in TimerKinds \ {"TxStart"})
          BY DEF TimerKinds
        <5>. QED
          BY <3>1, <5>1, <5>2, <5>3
      <4>. QED
        BY <3>2, <4>1 DEF FrameAtHand
    <3>4. EndArmed(n)' /\ BackoffArmed(n)'
      BY <1>1, <3>1 DEF TimerInv, EndArmed, BackoffArmed, TimerKinds, IsTransmitting
    <3>5. \A s : EndsCurrent(n, s)' <=> EndsCurrent(n, s)
      BY <1>1 DEF EndsCurrent, IsTransmitting
    <3>6. JamEndsFirst(n)'
      <4>1. ASSUME NEW f \in Mine("TxEnd", n)', f.signal.kind = "Jam"
            PROVE  \/ f.time = Now' /\ ~EndsCurrent(n, f.signal)'
                   \/ \E j \in Mine("JamEnd", n)' : j.time = f.time /\ j.serial < f.serial
        BY <1>1, <2>3, <3>1, <3>5, <4>1, EndsStay DEF TimerInv, TimerKinds
      <4>2. \A f \in Mine("TxStart", n)' : f.signal.kind = "Jam" =>
               \E j \in Mine("JamEnd", n)' : j.time = f.signal.t0 + f.signal.dur
        BY <2>2, <3>1 DEF TimerInv, JamEndsFirst, TimerKinds
      <4>. QED
        BY <4>1, <4>2 DEF JamEndsFirst
    <3>. QED
      BY <3>3, <3>4, <3>6 DEF TimerInv
  <2>. QED
    BY <2>4, <2>5
<1>. QED
  BY <1>4, <1>5 DEF HandleTxAttempt

(* What the station of the entry e has queued after the step.              *)
LEMMA MineOf ==
  ASSUME NEW e, NEW new, Taken(e, new), NEW n, NEW k, e.kind # k
  PROVE  Mine(k, n)' = Mine(k, n) \cup {f \in new : f.kind = k /\ f.node = n}
BY MineNext DEF Mine

LEMMA ChainsKept ==
  ASSUME Ordinary, NEW e, NEW new, Taken(e, new), NEW n, FrameAtHand(n),
         IsBusy(n)' => pending'[n] # NoFrame,
         pending'[n] = pending[n] \/ e.kind \in {"TxEnd", "JamEnd"},
         \A f \in new : (f.kind \in ChainKinds /\ f.node = n) =>
            /\ f.time = e.time /\ Sched!PhaseOf(e.kind) \in 1 .. 3
            /\ pending'[n] # NoFrame
  PROVE  FrameAtHand(n)'
<1>1. ASSUME NEW k \in ChainKinds, NEW f \in Mine(k, n)'
      PROVE  f.time = Now' /\ last'[2] >= 1 /\ pending'[n] # NoFrame
  <2>1. CASE f \in Mine(k, n)
    <3>1. e.kind \notin {"TxEnd", "JamEnd"}
      BY <2>1, NoChainAtRelease
    <3>. QED
      BY <2>1, <3>1, ChainsStay
  <2>2. CASE f \notin Mine(k, n)
    <3>1. f \in new /\ f.kind = k /\ f.node = n
      BY <2>2, MineNext
    <3>. QED
      BY <3>1 DEF Taken
  <2>. QED
    BY <2>1, <2>2
<1>. QED
  BY <1>1 DEF FrameAtHand

LEMMA EndsKept ==
  ASSUME Ordinary, NEW e, NEW new, Taken(e, new), NEW n, JamEndsFirst(n),
         e.kind # "JamEnd",
         \A f \in new : f.kind \notin {"TxEnd", "TxStart"},
         \A s : EndsCurrent(n, s)' => EndsCurrent(n, s)
  PROVE  JamEndsFirst(n)'
<1>1. Mine("JamEnd", n) \subseteq Mine("JamEnd", n)'
  BY MineOf
<1>2. Mine("TxStart", n)' \subseteq Mine("TxStart", n)
      /\ Mine("TxEnd", n)' \subseteq Mine("TxEnd", n)
  BY MineNext
<1>3. \A f \in Mine("TxEnd", n)' : f.signal.kind = "Jam" =>
         \/ f.time = Now' /\ ~EndsCurrent(n, f.signal)'
         \/ \E j \in Mine("JamEnd", n)' : j.time = f.time /\ j.serial < f.serial
  BY <1>1, <1>2, EndsStay
<1>4. \A f \in Mine("TxStart", n)' : f.signal.kind = "Jam" =>
         \E j \in Mine("JamEnd", n)' : j.time = f.signal.t0 + f.signal.dur
  BY <1>1, <1>2 DEF JamEndsFirst
<1>. QED
  BY <1>3, <1>4 DEF JamEndsFirst

(* The station begins to send: the end is queued, after that of a jam.     *)
LEMMA StartKeepsTimers ==
  ASSUME Wired, NEW n \in Node, TimerInv(n), NEW e \in queue, HandleTxStart(e)
  PROVE  TimerInv(n)'
<1>. DEFINE t == SignalEntry("TxEnd", e.signal.t0 + e.signal.dur, serial + 2 * NumNodes,
                             e.node, e.signal)
            new == Arrivals(e.signal) \cup {t}
<1>1. /\ Ordinary /\ Pops(e, "TxStart") /\ e.kind = "TxStart" /\ e.node \in Node
      /\ e.signal \in SignalSet /\ e.time \in Nat
      /\ serial \in Nat /\ pending' = pending /\ CsmaInv
      /\ state' = [state EXCEPT ![e.node] = Transmitting(e.signal, @.attempt)]
      /\ state \in [Node -> StateSet]
      /\ Emits(e, new, 2 * NumNodes + 1)
  BY EntryTypes DEF HandleTxStart, Pops, NodeEvents, SignalEvents, Wired, Ordinary
<1>2. /\ t.kind = "TxEnd" /\ t.node = e.node /\ t.signal = e.signal
      /\ t.time = e.signal.t0 + e.signal.dur /\ t.serial = serial + 2 * NumNodes
      /\ t.serial \in Nat /\ t.serial >= serial
  BY <1>1, NumNodesType DEF SignalEntry
<1>3. \A f \in Arrivals(e.signal) : f.kind \in ArrivalEvents
                                    /\ f.serial \in Nat /\ f.serial >= serial
  <2>1. \A f \in Arrivals(e.signal) : f.kind \in ArrivalEvents
    BY DEF Arrivals, SignalEntry, ArrivalEvents
  <2>2. \A f \in Arrivals(e.signal) : f.serial \in serial .. (serial + (2 * NumNodes + 1) - 1)
    BY <1>1, ArrivalsFresh DEF Fresh, FreshIn
  <2>3. 2 * NumNodes \in Nat
    BY NumNodesType
  <2>. QED
    BY <1>1, <2>1, <2>2, <2>3
<1>. HIDE DEF t
<1>4. Taken(e, new) /\ Live(e)
  BY <1>1, <1>2, <1>3, TakenBy
<1>5. \A f \in new : f = t \/ f.kind \notin TimerKinds
  BY <1>3 DEF ArrivalEvents, TimerKinds, ChainKinds
<1>. HIDE DEF new
<1>6. CASE e.node # n
  BY <1>1, <1>2, <1>4, <1>5, <1>6, OthersUntouched
<1>7. CASE e.node = n
  <2>1. e \in Mine("TxStart", n)
    BY <1>1, <1>4, <1>7 DEF Mine
  <2>2. pending[n] # NoFrame /\ e.time = Now
    BY <2>1 DEF TimerInv, FrameAtHand, ChainKinds
  <2>3. FrameAtHand(n)'
    BY <1>1, <1>2, <1>4, <1>5, <2>2, ChainsKept DEF TimerInv, TimerKinds, ChainKinds
  <2>4. t \in Mine("TxEnd", n)' /\ Mine("TxEnd", n)' = Mine("TxEnd", n) \cup {t}
        /\ Mine("JamEnd", n)' = Mine("JamEnd", n)
        /\ Mine("TxStart", n)' \subseteq Mine("TxStart", n)
    <3>1. t \in new
      BY DEF new
    <3>2. /\ {f \in new : f.kind = "TxEnd" /\ f.node = n} = {t}
          /\ {f \in new : f.kind = "JamEnd" /\ f.node = n} = {}
          /\ {f \in new : f.kind = "TxStart" /\ f.node = n} = {}
      BY <1>2, <1>5, <1>7, <3>1 DEF TimerKinds, ChainKinds
    <3>3. ASSUME NEW k, k # "TxStart"
          PROVE  Mine(k, n)' = Mine(k, n) \cup {f \in new : f.kind = k /\ f.node = n}
      BY <1>1, <1>4, <3>3, MineOf
    <3>4. Mine("TxStart", n)' = (Mine("TxStart", n) \ {e}) \cup {}
      BY <1>4, <3>2, MineNext
    <3>. QED
      BY <3>2, <3>3, <3>4
  <2>5. state'[n] = Transmitting(e.signal, state[n].attempt)
    BY <1>1, <1>7
  <2>6. EndArmed(n)' /\ BackoffArmed(n)'
    BY <1>2, <2>4, <2>5 DEF EndArmed, BackoffArmed, Transmitting
  <2>7. JamEndsFirst(n)'
    <3>1. ASSUME NEW f \in Mine("TxEnd", n)', f.signal.kind = "Jam"
          PROVE  \E j \in Mine("JamEnd", n)' : j.time = f.time /\ j.serial < f.serial
      <4>1. CASE f = t
        <5>1. PICK j \in Mine("JamEnd", n) : j.time = e.signal.t0 + e.signal.dur
          BY <1>2, <2>1, <3>1, <4>1 DEF TimerInv, JamEndsFirst
        <5>2. j.serial < serial /\ j.serial \in Nat
          BY <1>1, EntryTypes DEF Mine, Ordinary, KeysAhead, Sched!KeysAhead
        <5>. QED
          BY <1>1, <1>2, <2>4, <4>1, <5>1, <5>2
      <4>2. CASE f # t
        <5>1. f \in Mine("TxEnd", n) /\ f \in queue /\ f.kind = "TxEnd" /\ f # e
          BY <1>1, <2>4, <4>2 DEF Mine
        <5>2. f.time # Now
          <6>1. Sched!Before(Sched!Key(e), Sched!Key(f))
            BY <1>4, <5>1 DEF Taken, Sched!IsTop
          <6>2. Sched!PhaseOf(e.kind) = 3 /\ Sched!PhaseOf(f.kind) = 0
            BY <1>1, <5>1, PhaseValues
          <6>3. f.time = e.time => FALSE
            BY <1>1, <6>1, <6>2 DEF Sched!Before, Sched!Key
          <6>. QED
            BY <2>2, <6>3
        <5>. QED
          BY <2>4, <3>1, <5>1, <5>2 DEF TimerInv, JamEndsFirst
      <4>. QED
        BY <4>1, <4>2
    <3>. QED
      BY <2>4, <3>1 DEF TimerInv, JamEndsFirst
  <2>. QED
    BY <2>3, <2>6, <2>7 DEF TimerInv
<1>. QED
  BY <1>6, <1>7

LEMMA OneTaken ==
  ASSUME Ordinary, NEW kind, NEW e \in queue, Pops(e, kind), NEW g, NEW k,
         Emits(e, {g}, k), g.serial = serial
  PROVE  Taken(e, {g}) /\ e.kind = kind /\ Live(e)
<1>1. serial \in Nat
  BY EntryTypes
<1>. QED
  BY <1>1, TakenBy

(* The end of a signal: of the current one, and then it is a frame, or of  *)
(* one that was cut short.                                                 *)
LEMMA EndKeepsTimers ==
  ASSUME Wired, NEW n \in Node, TimerInv(n), NEW e \in queue, HandleTxEnd(e)
  PROVE  TimerInv(n)'
<1>1. /\ Ordinary /\ e.kind = "TxEnd" /\ e.node \in Node /\ state \in [Node -> StateSet]
      /\ Taken(e, {}) /\ Live(e) /\ e.time \in Nat /\ e.serial \in Nat
      /\ pending \in [Node -> Frame \cup {NoFrame}]
  <2>1. Ordinary /\ Pops(e, "TxEnd") /\ Emits(e, {}, 0)
    BY DEF HandleTxEnd, Wired
  <2>. QED
    BY <2>1, TakenBy, EntryTypes DEF NodeEvents, SignalEvents, Ordinary, CsmaInv, TypeOK, MacOK
<1>2. CASE e.node # n
  <2>1. state'[n] = state[n] /\ pending'[n] = pending[n]
    BY <1>1, <1>2 DEF HandleTxEnd
  <2>. QED
    BY <1>1, <1>2, <2>1, OthersUntouched
<1>3. CASE e.node = n
  <2>1. e \in Mine("TxEnd", n)
    BY <1>1, <1>3 DEF Mine
  <2>2. ~(EndsCurrent(n, e.signal) /\ e.signal.kind = "Jam")
    <3> SUFFICES ASSUME EndsCurrent(n, e.signal), e.signal.kind = "Jam" PROVE FALSE
      OBVIOUS
    <3>1. PICK j \in Mine("JamEnd", n) : j.time = e.time /\ j.serial < e.serial
      BY <2>1 DEF TimerInv, JamEndsFirst
    <3>2. j \in queue /\ j.kind = "JamEnd" /\ j # e
      BY <1>1, <3>1 DEF Mine
    <3>3. Sched!Before(Sched!Key(e), Sched!Key(j)) /\ j.serial \in Nat
      BY <1>1, <3>2, EntryTypes DEF Taken, Sched!IsTop
    <3>4. Sched!PhaseOf(e.kind) = Sched!PhaseOf(j.kind) /\ Sched!PhaseOf(e.kind) = 0
      BY <1>1, <3>2, PhaseValues
    <3>. QED
      BY <1>1, <3>1, <3>3, <3>4 DEF Sched!Before, Sched!Key
  <2>3. \/ EndsCurrent(n, e.signal) /\ state'[n] = Idle
        \/ ~EndsCurrent(n, e.signal) /\ state'[n] = state[n] /\ pending'[n] = pending[n]
    BY <1>1, <1>3, <2>2 DEF HandleTxEnd
  <2>4. IsBusy(n)' => IsBusy(n) /\ state'[n] = state[n] /\ pending'[n] = pending[n]
                      /\ ~EndsCurrent(n, e.signal)
    BY <2>3 DEF IsBusy, Idle
  <2>5. FrameAtHand(n)'
    BY <1>1, <2>4, ChainsKept DEF TimerInv, FrameAtHand
  <2>6. EndArmed(n)'
    <3> SUFFICES ASSUME IsTransmitting(n)' PROVE \E f \in Mine("TxEnd", n)' : f.signal = state'[n].signal
      BY DEF EndArmed
    <3>1. state'[n] = state[n] /\ ~EndsCurrent(n, e.signal) /\ IsTransmitting(n)
      BY <2>4 DEF IsTransmitting, IsBusy
    <3>2. PICK f \in Mine("TxEnd", n) : f.signal = state[n].signal
      BY <3>1 DEF TimerInv, EndArmed
    <3>3. f # e
      BY <3>1, <3>2 DEF EndsCurrent
    <3>. QED
      BY <1>1, <3>1, <3>2, <3>3, MineNext
  <2>7. BackoffArmed(n)'
    <3>1. Mine("BackoffExpire", n)' = Mine("BackoffExpire", n) \cup {}
      BY <1>1, MineNext DEF Mine
    <3>. QED
      BY <2>4, <3>1 DEF TimerInv, BackoffArmed, IsBusy
  <2>8. JamEndsFirst(n)'
    <3>1. \A s : EndsCurrent(n, s)' => EndsCurrent(n, s)
      BY <2>4 DEF EndsCurrent, IsTransmitting, IsBusy
    <3>. QED
      BY <1>1, <3>1, EndsKept DEF TimerInv
  <2>. QED
    BY <2>5, <2>6, <2>7, <2>8 DEF TimerInv
<1>. QED
  BY <1>2, <1>3

(* The end of a jam arms the timer of the retry, or gives up.              *)
LEMMA JamEndKeepsTimers ==
  ASSUME Wired, NEW n \in Node, TimerInv(n), NEW e \in queue, HandleJamEnd(e)
  PROVE  TimerInv(n)'
<1>1. /\ Ordinary /\ Pops(e, "JamEnd") /\ e.kind = "JamEnd" /\ e.node \in Node
      /\ state \in [Node -> StateSet] /\ pending \in [Node -> Frame \cup {NoFrame}]
  BY EntryTypes DEF HandleJamEnd, Wired, Pops, NodeEvents, JamEvents, Ordinary, CsmaInv,
                    TypeOK, MacOK
<1>2. PICK new :
        /\ Taken(e, new)
        /\ \A f \in new : f.kind = "BackoffExpire" /\ f.node = e.node
        /\ \/ ~IsBusy(e.node) /\ state' = state /\ pending' = pending
           \/ state' = [state EXCEPT ![e.node] = Idle]
              /\ pending' = [pending EXCEPT ![e.node] = NoFrame]
           \/ /\ IsBusy(e.node) /\ pending' = pending
              /\ \E g \in new : state' = [state EXCEPT ![e.node] = BackingOff(g.attempt)]
  <2>1. CASE IsBusy(e.node) /\ ~GivesUp(e.node, AttemptAfterJam(e.node))
    <3>. DEFINE a == AttemptAfterJam(e.node)
    <3>1. PICK d \in BackoffDelays(e.node, a) :
             Emits(e, {BackoffEntry(e.time + d, serial, e.node, a)}, 1)
      BY <2>1 DEF HandleJamEnd
    <3>2. state' = [state EXCEPT ![e.node] = BackingOff(a)] /\ pending' = pending
      BY <2>1 DEF HandleJamEnd
    <3>3. PICK g : g = BackoffEntry(e.time + d, serial, e.node, a)
      OBVIOUS
    <3>4. g.kind = "BackoffExpire" /\ g.node = e.node /\ g.serial = serial /\ g.attempt = a
      BY <3>3 DEF BackoffEntry
    <3>5. Taken(e, {g})
      BY <1>1, <3>1, <3>3, <3>4, OneTaken
    <3>. QED
      BY <2>1, <3>2, <3>4, <3>5
  <2>2. CASE ~(IsBusy(e.node) /\ ~GivesUp(e.node, AttemptAfterJam(e.node)))
    <3>1. Emits(e, {}, 0)
      BY <2>2 DEF HandleJamEnd
    <3>2. Taken(e, {})
      BY <1>1, <3>1, TakenBy
    <3>. QED
      BY <2>2, <3>2 DEF HandleJamEnd
  <2>. QED
    BY <2>1, <2>2
<1>3. CASE e.node # n
  <2>1. state'[n] = state[n] /\ pending'[n] = pending[n]
    BY <1>1, <1>2, <1>3
  <2>. QED
    BY <1>1, <1>2, <1>3, <2>1, OthersUntouched
<1>4. CASE e.node = n
  <2>1. /\ ~IsTransmitting(n)'
        /\ IsBusy(n)' => pending'[n] = pending[n] /\ IsBusy(n)
    BY <1>1, <1>2, <1>4 DEF IsTransmitting, IsBusy, Idle, BackingOff
  <2>2. FrameAtHand(n)'
    BY <1>1, <1>2, <2>1, ChainsKept DEF TimerInv, FrameAtHand, ChainKinds
  <2>3. EndArmed(n)'
    BY <2>1 DEF EndArmed
  <2>4. BackoffArmed(n)'
    <3> SUFFICES ASSUME state'[n].mode = "BackingOff"
                 PROVE  \E f \in Mine("BackoffExpire", n)' : f.attempt = state'[n].attempt
      BY DEF BackoffArmed
    <3>1. PICK g \in new : state' = [state EXCEPT ![e.node] = BackingOff(g.attempt)]
      BY <1>1, <1>2, <1>4 DEF Idle, IsBusy
    <3>2. state'[n].attempt = g.attempt
      BY <1>1, <1>4, <3>1 DEF BackingOff
    <3>3. g \in Mine("BackoffExpire", n)'
      BY <1>2, <1>4, <3>1, MineNext
    <3>. QED
      BY <3>2, <3>3
  <2>5. JamEndsFirst(n)'
    <3>1. Mine("TxStart", n)' = {}
      <4>1. Mine("TxStart", n) = {}
        BY <1>1, <1>2, NoChainAtRelease DEF TimerInv, ChainKinds
      <4>. QED
        BY <1>2, <4>1, MineNext
    <3>2. ASSUME NEW f \in Mine("TxEnd", n)', f.signal.kind = "Jam"
          PROVE  \/ f.time = Now' /\ ~EndsCurrent(n, f.signal)'
                 \/ \E j \in Mine("JamEnd", n)' : j.time = f.time /\ j.serial < f.serial
      <4>1. f \in Mine("TxEnd", n) /\ f \in queue
        BY <1>2, <3>2, MineNext DEF Mine
      <4>2. ~EndsCurrent(n, f.signal)'
        BY <2>1 DEF EndsCurrent
      <4>3. CASE f.time = Now
        BY <1>1, <1>2, <4>1, <4>2, <4>3, SameInstant
      <4>4. CASE f.time # Now
        <5>1. PICK j \in Mine("JamEnd", n) : j.time = f.time /\ j.serial < f.serial
          BY <3>2, <4>1, <4>4 DEF TimerInv, JamEndsFirst
        <5>2. CASE j = e
          BY <1>2, <4>2, <5>1, <5>2 DEF Taken
        <5>3. CASE j # e
          BY <1>2, <5>1, <5>3, MineNext
        <5>. QED
          BY <5>2, <5>3
      <4>. QED
        BY <4>3, <4>4
    <3>. QED
      BY <3>1, <3>2 DEF JamEndsFirst
  <2>. QED
    BY <2>2, <2>3, <2>4, <2>5 DEF TimerInv
<1>. QED
  BY <1>3, <1>4

(* A timer that is live makes the station idle; one that is not was not    *)
(* the one the station waits for.                                          *)
LEMMA ExpiryKeepsTimers ==
  ASSUME Wired, NEW n \in Node, TimerInv(n), NEW e \in queue, HandleBackoffExpire(e)
  PROVE  TimerInv(n)'
<1>1. /\ Ordinary /\ Pops(e, "BackoffExpire") /\ e.kind = "BackoffExpire"
      /\ e.node \in Node /\ state \in [Node -> StateSet] /\ pending' = pending
  BY EntryTypes DEF HandleBackoffExpire, Wired, Pops, NodeEvents
<1>2. PICK new : /\ Taken(e, new)
                 /\ \A f \in new : f.kind = "TxAttempt"
                 /\ \/ state' = [state EXCEPT ![e.node] = Idle]
                    \/ ~TimerIsLive(e) /\ state' = state
  <2>1. CASE TimerIsLive(e)
    <3>1. PICK g : g = AttemptEntry(e.time, serial, e.node, pending[e.node])
      OBVIOUS
    <3>2. Emits(e, {g}, 1) /\ state' = [state EXCEPT ![e.node] = Idle]
      BY <2>1, <3>1 DEF HandleBackoffExpire
    <3>3. g.serial = serial /\ g.kind = "TxAttempt"
      BY <3>1 DEF AttemptEntry
    <3>4. Taken(e, {g})
      BY <1>1, <3>2, <3>3, OneTaken
    <3>. QED
      BY <3>2, <3>3, <3>4
  <2>2. CASE ~TimerIsLive(e)
    <3>1. Emits(e, {}, 0) /\ state' = state
      BY <2>2 DEF HandleBackoffExpire
    <3>2. Taken(e, {})
      BY <1>1, <3>1, TakenBy
    <3>. QED
      BY <2>2, <3>1, <3>2
  <2>. QED
    BY <2>1, <2>2
<1>3. \A f \in new : f.kind \notin TimerKinds
  BY <1>2 DEF TimerKinds, ChainKinds
<1>4. CASE e.node # n
  <2>1. state'[n] = state[n] /\ pending'[n] = pending[n]
    BY <1>1, <1>2, <1>4
  <2>. QED
    BY <1>2, <1>3, <1>4, <1>1, <2>1, OthersUntouched
<1>5. CASE e.node = n
  <2>1. \/ state'[n] = Idle
        \/ ~TimerIsLive(e) /\ state'[n] = state[n]
    BY <1>1, <1>2, <1>5
  <2>2. FrameAtHand(n)'
    <3>1. IsBusy(n)' => pending'[n] # NoFrame
      BY <1>1, <2>1 DEF TimerInv, FrameAtHand, IsBusy, Idle
    <3>. QED
      BY <1>1, <1>2, <1>3, <3>1, ChainsKept DEF TimerInv, TimerKinds
  <2>3. EndArmed(n)'
    <3>1. Mine("TxEnd", n)' = Mine("TxEnd", n) \cup {}
      BY <1>1, <1>2, MineNext DEF Mine
    <3>. QED
      BY <2>1, <3>1 DEF TimerInv, EndArmed, IsTransmitting, Idle
  <2>4. BackoffArmed(n)'
    <3> SUFFICES ASSUME state'[n].mode = "BackingOff"
                 PROVE  \E f \in Mine("BackoffExpire", n)' : f.attempt = state'[n].attempt
      BY DEF BackoffArmed
    <3>1. ~TimerIsLive(e) /\ state'[n] = state[n]
      BY <2>1 DEF Idle
    <3>2. PICK f \in Mine("BackoffExpire", n) : f.attempt = state[n].attempt
      BY <3>1 DEF TimerInv, BackoffArmed
    <3>3. f # e
      <4>1. pending[n] # NoFrame
        BY <3>1 DEF TimerInv, FrameAtHand, IsBusy
      <4>2. state[n] \in StateSet /\ state[n].mode = "BackingOff"
        BY <1>1, <3>1
      <4>3. state[n] = BackingOff(state[n].attempt)
        BY <4>2 DEF StateSet, BackingOff, Idle
      <4>. QED
        BY <1>5, <3>1, <3>2, <4>1, <4>3 DEF TimerIsLive
    <3>. QED
      BY <1>2, <3>1, <3>2, <3>3, MineNext
  <2>5. JamEndsFirst(n)'
    <3>1. \A s : EndsCurrent(n, s)' => EndsCurrent(n, s)
      BY <2>1 DEF EndsCurrent, IsTransmitting, Idle
    <3>. QED
      BY <1>1, <1>2, <3>1, EndsKept DEF TimerInv
  <2>. QED
    BY <2>2, <2>3, <2>4, <2>5 DEF TimerInv
<1>. QED
  BY <1>4, <1>5

(* The reactions, which change no state.                                   *)
LEMMA ChainKeepsTimers ==
  ASSUME Wired, NEW n \in Node, TimerInv(n), NEW e \in queue,
         HandleFrontArrive(e) \/ HandleCollisionDetect(e) \/ HandleJamStart(e)
  PROVE  TimerInv(n)'
<1>1. /\ Ordinary /\ e.kind \in {"FrontArrive", "CollisionDetect", "JamStart"}
      /\ Pops(e, e.kind) /\ e.node \in Node /\ state' = state /\ pending' = pending
      /\ serial \in Nat /\ e.time \in Nat
  BY EntryTypes DEF HandleFrontArrive, HandleCollisionDetect, HandleJamStart, Wired, Pops,
                    mac, NodeEvents, SignalEvents, JamEvents
<1>2. PICK new :
        /\ Taken(e, new) /\ Live(e)
        /\ \A f \in new : f.node = e.node
        /\ \A f \in new : f.kind \in ChainKinds =>
              f.time = e.time /\ (IsBusy(e.node) \/ e.kind # "FrontArrive")
        /\ \A f \in new : f.kind \in {"CollisionDetect", "JamStart", "TxStart", "JamEnd"}
        /\ \A f \in new : f.kind = "TxStart" =>
              \E j \in new : j.kind = "JamEnd" /\ j.time = f.signal.t0 + f.signal.dur
  <2>1. CASE HandleFrontArrive(e)
    <3>1. CASE ~OnFd(e.node) /\ IsTransmitting(e.node)
      <4>1. PICK g : g = SignalEntry("CollisionDetect", e.time, serial, e.node,
                                     state[e.node].signal)
        OBVIOUS
      <4>2. Emits(e, {g}, 1)
        BY <2>1, <3>1, <4>1 DEF HandleFrontArrive, Reactions
      <4>3. /\ g.kind = "CollisionDetect" /\ g.node = e.node /\ g.time = e.time
            /\ g.serial = serial
        BY <4>1 DEF SignalEntry
      <4>4. Taken(e, {g}) /\ Live(e)
        BY <1>1, <4>2, <4>3, OneTaken
      <4>5. IsBusy(e.node)
        BY <3>1 DEF IsBusy, IsTransmitting
      <4>. QED
        BY <4>3, <4>4, <4>5
    <3>2. CASE OnFd(e.node) \/ ~IsTransmitting(e.node)
      <4>1. PICK k : Emits(e, {}, k)
        BY <2>1, <3>2 DEF HandleFrontArrive, Reactions
      <4>2. Taken(e, {}) /\ Live(e)
        BY <1>1, <4>1, TakenBy
      <4>. QED
        BY <4>2
    <3>. QED
      BY <3>1, <3>2
  <2>2. CASE HandleCollisionDetect(e)
    <3>1. CASE Emits(e, {JamEntry("JamStart", e.time, serial, e.node)}, 1)
      <4>1. PICK g : g = JamEntry("JamStart", e.time, serial, e.node)
        OBVIOUS
      <4>2. g.kind = "JamStart" /\ g.node = e.node /\ g.time = e.time /\ g.serial = serial
        BY <4>1 DEF JamEntry
      <4>3. Taken(e, {g}) /\ Live(e)
        BY <1>1, <3>1, <4>1, <4>2, OneTaken
      <4>4. e.kind # "FrontArrive"
        BY <2>2 DEF HandleCollisionDetect, Pops
      <4>. QED
        BY <4>2, <4>3, <4>4
    <3>2. CASE Emits(e, {}, 0)
      <4>1. Taken(e, {}) /\ Live(e)
        BY <1>1, <3>2, TakenBy
      <4>. QED
        BY <4>1
    <3>. QED
      BY <2>2, <3>1, <3>2 DEF HandleCollisionDetect
  <2>3. CASE HandleJamStart(e)
    <3>. DEFINE r == SignalEntry("TxStart", e.time, serial, e.node,
                                 JamSignal(e.node, e.time))
                j == JamEntry("JamEnd", e.time + JamTime(e.node), serial + 1, e.node)
    <3>1. Emits(e, {r, j}, 2) /\ e.kind # "FrontArrive"
      BY <2>3 DEF HandleJamStart, Pops
    <3>2. /\ r.kind = "TxStart" /\ r.node = e.node /\ r.time = e.time /\ r.serial = serial
          /\ r.signal.t0 = e.time /\ r.signal.dur = JamTime(e.node)
          /\ j.kind = "JamEnd" /\ j.node = e.node /\ j.serial = serial + 1
          /\ j.time = e.time + JamTime(e.node)
      BY DEF SignalEntry, JamEntry, JamSignal, Signal
    <3>. HIDE DEF r, j
    <3>3. \A f \in {r, j} : f.serial \in Nat /\ f.serial >= serial
      BY <1>1, <3>2
    <3>4. Taken(e, {r, j}) /\ Live(e)
      BY <1>1, <3>1, <3>3, TakenBy
    <3>5. \A f \in {r, j} : f.kind \in ChainKinds => f = r
      BY <3>2 DEF ChainKinds
    <3>. QED
      BY <3>1, <3>2, <3>4, <3>5
  <2>. QED
    BY <2>1, <2>2, <2>3
<1>3. CASE e.node # n
  BY <1>1, <1>2, <1>3, OthersUntouched
<1>4. CASE e.node = n
  <2>1. FrameAtHand(n)'
    <3>1. IsBusy(n)' => pending'[n] # NoFrame
      BY <1>1 DEF TimerInv, FrameAtHand, IsBusy
    <3>2. e.kind \in ChainKinds => pending[n] # NoFrame
      BY <1>2, <1>4 DEF TimerInv, FrameAtHand, Mine, Taken
    <3>3. Sched!PhaseOf(e.kind) \in 1 .. 3
      BY <1>1, PhaseValues
    <3>4. IsBusy(n) => pending[n] # NoFrame
      BY DEF TimerInv, FrameAtHand
    <3>5. \A f \in new : (f.kind \in ChainKinds /\ f.node = n) =>
             f.time = e.time /\ pending'[n] # NoFrame
      BY <1>1, <1>2, <1>4, <3>2, <3>4 DEF ChainKinds
    <3>. QED
      BY <1>1, <1>2, <3>1, <3>3, <3>5, ChainsKept DEF TimerInv
  <2>2. /\ Mine("TxEnd", n)' = Mine("TxEnd", n)
        /\ Mine("BackoffExpire", n)' = Mine("BackoffExpire", n)
        /\ Mine("JamEnd", n) \subseteq Mine("JamEnd", n)'
    <3>1. ASSUME NEW k \in {"TxEnd", "BackoffExpire", "JamEnd"}
          PROVE  Mine(k, n)' = Mine(k, n) \cup {f \in new : f.kind = k /\ f.node = n}
      BY <1>1, <1>2, <3>1, MineOf
    <3>. QED
      BY <1>2, <3>1
  <2>3. EndArmed(n)' /\ BackoffArmed(n)'
    BY <1>1, <2>2 DEF TimerInv, EndArmed, BackoffArmed, IsTransmitting
  <2>4. \A s : EndsCurrent(n, s)' => EndsCurrent(n, s)
    BY <1>1 DEF EndsCurrent, IsTransmitting
  <2>5. ASSUME NEW f \in Mine("TxEnd", n)', f.signal.kind = "Jam"
        PROVE  \/ f.time = Now' /\ ~EndsCurrent(n, f.signal)'
               \/ \E j \in Mine("JamEnd", n)' : j.time = f.time /\ j.serial < f.serial
    BY <1>1, <1>2, <2>2, <2>4, <2>5, EndsStay DEF TimerInv
  <2>6. ASSUME NEW f \in Mine("TxStart", n)', f.signal.kind = "Jam"
        PROVE  \E j \in Mine("JamEnd", n)' : j.time = f.signal.t0 + f.signal.dur
    <3>1. CASE f \in Mine("TxStart", n)
      BY <2>2, <2>6, <3>1 DEF TimerInv, JamEndsFirst
    <3>2. CASE f \notin Mine("TxStart", n)
      <4>1. f \in new /\ f.kind = "TxStart"
        BY <1>2, <3>2, MineNext
      <4>2. PICK j \in new : j.kind = "JamEnd" /\ j.time = f.signal.t0 + f.signal.dur
        BY <1>2, <4>1
      <4>3. j \in Mine("JamEnd", n)'
        BY <1>2, <1>4, <4>2, MineNext
      <4>. QED
        BY <4>2, <4>3
    <3>. QED
      BY <3>1, <3>2
  <2>. QED
    BY <2>1, <2>3, <2>5, <2>6 DEF TimerInv, JamEndsFirst
<1>. QED
  BY <1>3, <1>4

(* Entries that concern no timer, and tombstoned ones.                     *)
LEMMA QuietKeepsTimers ==
  ASSUME Wired, NEW n \in Node, TimerInv(n), NEW e \in queue,
         HandleBackArrive(e) \/ HandleTopologyChanged(e) \/ DropCancelled(e)
  PROVE  TimerInv(n)'
<1>1. Ordinary /\ state' = state /\ pending' = pending
  BY DEF HandleBackArrive, HandleTopologyChanged, DropCancelled, Wired, mac
<1>2. CASE HandleBackArrive(e) \/ HandleTopologyChanged(e)
  <2>1. Pops(e, e.kind) /\ Emits(e, {}, 0) /\ e.kind \in {"BackArrive", "TopologyChanged"}
    BY <1>2 DEF HandleBackArrive, HandleTopologyChanged, Pops
  <2>2. Taken(e, {}) /\ e.kind \notin TimerKinds
    BY <1>1, <2>1, TakenBy DEF TimerKinds, ChainKinds
  <2>. QED
    BY <1>1, <2>2, OthersUntouched
<1>3. CASE DropCancelled(e)
  <2>1. /\ queue' = queue \ {e} /\ cancelled' = cancelled \ {e.serial}
        /\ last' = Sched!Key(e) /\ Sched!IsTop(queue, e) /\ ~Live(e)
    BY <1>3 DEF DropCancelled, Sched!Skip, Live
  <2>2. \A f \in queue \ {e} : Live(f)' <=> Live(f)
    BY <1>1, <2>1, SerialsDistinct DEF Live
  <2>3. Now' = e.time /\ last'[2] = Sched!PhaseOf(e.kind)
    BY <2>1 DEF Now, Sched!Key
  <2>4. Taken(e, {})
    BY <2>1, <2>2, <2>3 DEF Taken
  <2>. QED
    BY <1>1, <2>1, <2>4, OthersUntouched
<1>. QED
  BY <1>2, <1>3

(* The host only adds what concerns no timer, and tombstones arrivals, or  *)
(* everything of a station that it removes.                                *)
LEMMA HostKeepsTimers ==
  ASSUME Ordinary, NEW n \in Node, TimerInv(n), NEW new, queue' = queue \cup new,
         \A f \in new : f.kind \in {"TxAttempt", "TopologyChanged"},
         last' = last,
         \/ /\ state'[n] = state[n] /\ pending'[n] = pending[n]
            /\ \A f \in queue : f.kind \in TimerKinds /\ f.node = n => (Live(f)' <=> Live(f))
         \/ /\ state'[n] = Idle
            /\ \A f \in queue : f.kind \in TimerKinds /\ f.node = n => ~Live(f)'
  PROVE  TimerInv(n)'
<1>1. \A f \in new : f.kind \notin TimerKinds
  BY DEF TimerKinds, ChainKinds
<1>2. Now' = Now
  BY DEF Now
<1>3. CASE /\ state'[n] = state[n] /\ pending'[n] = pending[n]
           /\ \A f \in queue : f.kind \in TimerKinds /\ f.node = n => (Live(f)' <=> Live(f))
  <2>1. ASSUME NEW k \in TimerKinds PROVE Mine(k, n)' = Mine(k, n)
    BY <1>1, <1>3 DEF Mine
  <2>2. FrameAtHand(n)'
    BY <1>2, <1>3, <2>1 DEF TimerInv, FrameAtHand, IsBusy, TimerKinds
  <2>3. EndArmed(n)' /\ BackoffArmed(n)'
    BY <1>3, <2>1 DEF TimerInv, EndArmed, BackoffArmed, IsTransmitting, TimerKinds
  <2>4. \A s : EndsCurrent(n, s)' <=> EndsCurrent(n, s)
    BY <1>3 DEF EndsCurrent, IsTransmitting
  <2>5. /\ Mine("TxEnd", n)' = Mine("TxEnd", n) /\ Mine("JamEnd", n)' = Mine("JamEnd", n)
        /\ Mine("TxStart", n)' = Mine("TxStart", n)
    BY <2>1 DEF TimerKinds, ChainKinds
  <2>6. JamEndsFirst(n)'
    BY <1>2, <2>4, <2>5 DEF TimerInv, JamEndsFirst
  <2>. QED
    BY <2>2, <2>3, <2>6 DEF TimerInv
<1>4. CASE /\ state'[n] = Idle
           /\ \A f \in queue : f.kind \in TimerKinds /\ f.node = n => ~Live(f)'
  <2>1. ASSUME NEW k \in TimerKinds PROVE Mine(k, n)' = {}
    BY <1>1, <1>4 DEF Mine
  <2>2. EndArmed(n)' /\ BackoffArmed(n)' /\ ~IsBusy(n)'
    BY <1>4 DEF EndArmed, BackoffArmed, IsBusy, IsTransmitting, Idle
  <2>5. FrameAtHand(n)'
    BY <2>1, <2>2 DEF FrameAtHand, TimerKinds
  <2>3. Mine("TxEnd", n)' = {} /\ Mine("TxStart", n)' = {}
    BY <2>1 DEF TimerKinds, ChainKinds
  <2>4. JamEndsFirst(n)'
    BY <2>3 DEF JamEndsFirst
  <2>. QED
    BY <2>2, <2>4, <2>5 DEF TimerInv
<1>. QED
  BY <1>3, <1>4

LEMMA CallsKeepTimers ==
  ASSUME Wired, NEW n \in Node, TimerInv(n),
         \/ \E o \in Offers : ScheduleTxAttempt(o[1], o[2], o[3])
         \/ \E seg \in Segment : \/ RemoveSegment(seg) \/ AddSegment(seg)
                                 \/ SetSegmentDelay(seg)
         \/ \E seg \in Segment, r \in BitTimes : SetSegmentRate(seg, r)
         \/ \E m \in Node, c \in Configs : SetMacConfig(m, c)
  PROVE  TimerInv(n)'
<1>1. Ordinary
  BY DEF Wired
<1>2. PICK new : queue' = queue \cup new
                 /\ \A f \in new : f.kind \in {"TxAttempt", "TopologyChanged"}
  <2>1. CASE \E o \in Offers : ScheduleTxAttempt(o[1], o[2], o[3])
    <3>1. PICK o \in Offers : ScheduleTxAttempt(o[1], o[2], o[3])
      BY <2>1
    <3>2. PICK g : g = AttemptEntry(o[1], serial, o[2], o[3])
      OBVIOUS
    <3>3. g.kind = "TxAttempt" /\ queue' = queue \cup {g}
      BY <3>1, <3>2 DEF AttemptEntry, ScheduleTxAttempt, HostPushes
    <3>4. \A f \in {g} : f.kind \in {"TxAttempt", "TopologyChanged"}
      BY <3>3
    <3>5. PICK b : b = {g}
      OBVIOUS
    <3>. QED
      BY <3>3, <3>4, <3>5
  <2>2. CASE ~\E o \in Offers : ScheduleTxAttempt(o[1], o[2], o[3])
    <3>1. PICK g : g = EditEntry(Now, serial)
      OBVIOUS
    <3>2. queue' = queue \cup {g}
      BY <2>2, <3>1 DEF RemoveSegment, AddSegment, SetSegmentDelay, SetSegmentRate,
                        SetMacConfig, HostPushes
    <3>3. \A f \in {g} : f.kind \in {"TxAttempt", "TopologyChanged"}
      BY <3>1 DEF EditEntry
    <3>4. PICK b : b = {g}
      OBVIOUS
    <3>. QED
      BY <3>2, <3>3, <3>4
  <2>. QED
    BY <2>1, <2>2
<1>3. last' = last /\ state' = state /\ pending' = pending
  <2>1. CASE \E o \in Offers : ScheduleTxAttempt(o[1], o[2], o[3])
    BY <2>1 DEF ScheduleTxAttempt, HostPushes, mac
  <2>2. CASE \E seg \in Segment : RemoveSegment(seg) \/ AddSegment(seg)
    BY <2>2 DEF RemoveSegment, AddSegment, HostPushes, mac
  <2>3. CASE \E seg \in Segment : SetSegmentDelay(seg)
    BY <2>3 DEF SetSegmentDelay, HostPushes, mac
  <2>4. CASE \E seg \in Segment, r \in BitTimes : SetSegmentRate(seg, r)
    BY <2>4 DEF SetSegmentRate, HostPushes, mac
  <2>5. CASE \E m \in Node, c \in Configs : SetMacConfig(m, c)
    BY <2>5 DEF SetMacConfig, HostPushes, mac
  <2>. QED
    BY <2>1, <2>2, <2>3, <2>4, <2>5
<1>4. ASSUME NEW g \in queue, g.kind \in TimerKinds
      PROVE  Live(g)' <=> Live(g)
  <2>1. CASE \E seg \in Segment : RemoveSegment(seg)
    <3>1. PICK seg \in Segment : RemoveSegment(seg)
      BY <2>1
    <3>2. cancelled' = cancelled \cup ArrivalsOn({seg})
      BY <3>1 DEF RemoveSegment
    <3>3. g.serial \notin ArrivalsOn({seg})
      BY <1>1, <1>4, SerialsDistinct DEF ArrivalsOn, ArrivalEvents, TimerKinds, ChainKinds
    <3>. QED
      BY <3>2, <3>3 DEF Live
  <2>2. CASE ~\E seg \in Segment : RemoveSegment(seg)
    <3>1. cancelled' = cancelled
      BY <2>2 DEF ScheduleTxAttempt, AddSegment, SetSegmentDelay, SetSegmentRate,
                  SetMacConfig
    <3>. QED
      BY <3>1 DEF Live
  <2>. QED
    BY <2>1, <2>2
<1>. QED
  BY <1>1, <1>2, <1>3, <1>4, HostKeepsTimers

LEMMA RemovalKeepsTimers ==
  ASSUME Wired, NEW n \in Node, TimerInv(n), NEW m \in Node, RemoveNode(m)
  PROVE  TimerInv(n)'
<1>. DEFINE incident == {Access[m]} \cap up
            new == {EditEntry(Now, serial + i) : i \in 0 .. Cardinality(incident)}
<1>1. /\ Ordinary /\ state \in [Node -> StateSet]
      /\ pending \in [Node -> Frame \cup {NoFrame}]
  BY DEF Wired, Ordinary, CsmaInv, TypeOK, MacOK
<1>2. /\ queue' = queue \cup new /\ last' = last
      /\ cancelled' = cancelled \cup ArrivalsOn(incident) \cup EventsOf(m)
      /\ state' = [state EXCEPT ![m] = Idle]
      /\ pending' = [pending EXCEPT ![m] = NoFrame]
  BY DEF RemoveNode, HostPushes
<1>3. \A f \in new : f.kind = "TopologyChanged"
  BY DEF EditEntry
<1>. HIDE DEF new, incident
<1>4. CASE n = m
  <2>1. ASSUME NEW f \in queue, f.kind \in TimerKinds, f.node = n PROVE ~Live(f)'
    <3>1. f.serial \in EventsOf(m)
      BY <1>4, <2>1 DEF EventsOf, TimerKinds, ChainKinds, NodeEvents, SignalEvents, JamEvents
    <3>. QED
      BY <1>2, <3>1 DEF Live
  <2>2. state'[n] = Idle
    BY <1>1, <1>2, <1>4
  <2>. QED
    BY <1>1, <1>2, <1>3, <2>1, <2>2, HostKeepsTimers
<1>5. CASE n # m
  <2>1. ASSUME NEW f \in queue, f.kind \in TimerKinds, f.node = n
        PROVE  Live(f)' <=> Live(f)
    <3>1. f.serial \notin ArrivalsOn(incident) /\ f.serial \notin EventsOf(m)
      BY <1>1, <1>5, <2>1, SerialsDistinct
         DEF ArrivalsOn, ArrivalEvents, EventsOf, TimerKinds, ChainKinds
    <3>. QED
      BY <1>2, <3>1 DEF Live
  <2>2. state'[n] = state[n] /\ pending'[n] = pending[n]
    BY <1>1, <1>2, <1>5
  <2>. QED
    BY <1>1, <1>2, <1>3, <2>1, <2>2, HostKeepsTimers
<1>. QED
  BY <1>4, <1>5

LEMMA TimerStep ==
  ASSUME Wired, \A f \in Frame : KindOf[f] = "Frame", NEW n \in Node, TimerInv(n),
         [Next]_vars
  PROVE  TimerInv(n)'
<1>1. CASE \E e \in queue : Handle(e)
  BY <1>1, AttemptKeepsTimers, StartKeepsTimers, EndKeepsTimers, JamEndKeepsTimers,
     ExpiryKeepsTimers, ChainKeepsTimers, QuietKeepsTimers DEF Handle
<1>2. CASE StartRun \/ ReturnFromRun \/ UNCHANGED vars
  <2>1. UNCHANGED <<queue, last, cancelled, state, pending>>
    BY <1>2 DEF StartRun, ReturnFromRun, Sched!StartRun, Sched!ReturnFromRun, vars, mac
  <2>. QED
    BY <2>1 DEF TimerInv, FrameAtHand, EndArmed, BackoffArmed, JamEndsFirst, Mine, IsBusy,
                IsTransmitting, EndsCurrent, Live, Now
<1>. QED
  BY <1>1, <1>2, CallsKeepTimers, RemovalKeepsTimers DEF Next, Host

LEMMA TimersInvAlways ==
  ASSUME ~PastAllowed, \A f \in Frame : KindOf[f] = "Frame"
  PROVE  Spec => [](\A n \in Node : TimerInv(n))
<1>. DEFINE Inv == \A n \in Node : TimerInv(n)
<1>1. Init => Inv
  BY DEF Init, Sched!SchedulerInit, TimerInv, FrameAtHand, EndArmed, BackoffArmed,
         JamEndsFirst, Mine, IsBusy, IsTransmitting, Idle
<1>2. Wired /\ Inv /\ [Next]_vars => Inv'
  BY TimerStep
<1>3. Spec => []CsmaInv
  BY CsmaInit, CsmaStep, PTL DEF Spec
<1>4. CsmaInv /\ KeysAhead /\ TombstonesQueued /\ EditInv => Wired
  BY DEF Wired, Ordinary
<1>. HIDE DEF Inv
<1>5. Spec => []Inv
  BY <1>1, <1>2, <1>3, <1>4, KeysAheadAlways, TombstonesAlwaysQueued, EditsKeepInv, PTL
     DEF Spec
<1>. QED
  BY <1>5 DEF Inv

(* No station is ever stuck: one that sends has the end of that very       *)
(* signal queued, and one that backs off has its timer queued and a frame  *)
(* to retry, whatever edits come between (engine.rs, all handlers of a     *)
(* station; do_remove_node).  Frames registered as jams are excepted: for  *)
(* them no JamEnd is ever queued.                                          *)
THEOREM TimersAlwaysArmed ==
  ASSUME ~PastAllowed, \A f \in Frame : KindOf[f] = "Frame"
  PROVE  Spec => []TimersArmed
<1>1. (\A n \in Node : TimerInv(n)) => TimersArmed
  BY ArmedBy
<1>. QED
  BY <1>1, TimersInvAlways, PTL
=============================================================================
