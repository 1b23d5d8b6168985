---------------------------- MODULE Observe_proofs ----------------------------
(***************************************************************************)
(* Proofs about Observe: what the log tells an observer agrees with the    *)
(* engine, for any topology, any frames, any edits and any bounds.         *)
(*                                                                         *)
(* The log is a history variable of CsmaCd: it constrains no step, so what *)
(* is proved of CsmaCd holds here (Machine).  As in CsmaCd_proofs the host *)
(* is taken not to schedule in the past.                                   *)
(***************************************************************************)
EXTENDS Observe, CsmaMedium_proofs, SequenceTheorems

LogEntry ==
  EntrySet \cup [kind : {"SignalLost"}, time : Nat, signal : SignalSet]

LogTyped == log \in Seq(LogEntry) /\ \A i \in DOMAIN log : log[i].time <= Now

---------------------------------------------------------------------------
(* The machine below the log.                                              *)

LEMMA LogIsHistory == ObserveSpec => Spec
<1>1. ObserveInit => Init
  BY DEF ObserveInit
<1>2. [ObserveNext]_observed => [Next]_vars
  BY DEF ObserveNext, Next, observed, vars
<1>. QED
  BY <1>1, <1>2, PTL DEF ObserveSpec, Spec

LEMMA Machine == ASSUME ~PastAllowed PROVE ObserveSpec => []Wired
<1>1. Spec => []CsmaInv
  BY CsmaInit, CsmaStep, PTL DEF Spec
<1>2. CsmaInv /\ KeysAhead /\ TombstonesQueued /\ EditInv => Wired
  BY DEF Wired, Ordinary
<1>. QED
  BY <1>1, <1>2, LogIsHistory, KeysAheadAlways, TombstonesAlwaysQueued, EditsKeepInv, PTL

(* What every handler, and the dispatch loop that drops a tombstoned entry,*)
(* does to the queue.                                                      *)
LEMMA Handled ==
  ASSUME Wired, NEW e \in queue, Handle(e)
  PROVE  /\ Sched!IsTop(queue, e) /\ running /\ running' = running
         /\ queue \ {e} \subseteq queue' /\ e \notin queue'
         /\ last' = Sched!Key(e) /\ Now' = e.time
         /\ e.time \in Nat /\ Now \in Nat /\ Now <= e.time
         /\ \A f \in queue' \ queue : f.serial >= serial /\ f.serial \in Nat
         /\ \A f \in queue \ {e} : Live(f)' <=> Live(f)
         /\ \A f \in queue' \ queue : Live(f)'
<1>1. Ordinary /\ CsmaInv
  BY DEF Wired, Ordinary
<1>2. Sched!Dispatch(e) \/ Sched!Skip(e)
  BY <1>1, HandleKeeps
<1>3. /\ Sched!IsTop(queue, e) /\ running /\ running' = running
      /\ queue \ {e} \subseteq queue' /\ e \notin queue' /\ last' = Sched!Key(e)
  BY <1>2 DEF Sched!Dispatch, Sched!Skip
<1>4. Now' = e.time
  BY <1>3 DEF Now, Sched!Key
<1>5. e.time \in Nat /\ Now \in Nat /\ Now <= e.time
  BY <1>1, NowGrows
<1>6. \A f \in queue' \ queue : f.serial >= serial /\ f.serial \in Nat
  <2>1. serial \in Nat
    BY <1>1 DEF CsmaInv, TypeOK, QueueOK
  <2>. QED
    BY <1>2, <2>1 DEF Sched!Dispatch, Sched!Skip, Sched!Pushes
<1>7. ASSUME NEW f \in queue \ {e} PROVE Live(f)' <=> Live(f)
  <2>1. f.serial # e.serial
    BY <1>1, <1>7, SerialsDistinct
  <2>. QED
    BY <1>2, <2>1 DEF Sched!Dispatch, Sched!Skip, Live
<1>8. ASSUME NEW f \in queue' \ queue PROVE Live(f)'
  <2>1. f.serial \notin cancelled
    BY <1>1, <1>6, <1>8, FreshIsLive
  <2>. QED
    BY <1>2, <2>1 DEF Sched!Dispatch, Sched!Skip, Live
<1>. QED
  BY <1>3, <1>4, <1>5, <1>6, <1>7, <1>8

---------------------------------------------------------------------------
(* The log grows by at most one entry, of the present.                     *)

LEMMA OneMore ==
  ASSUME LogTyped, NEW x \in LogEntry, log' = Append(log, x)
  PROVE  /\ log' \in Seq(LogEntry)
         /\ Len(log) \in Nat /\ DOMAIN log = 1 .. Len(log)
         /\ DOMAIN log' = DOMAIN log \cup {Len(log) + 1} /\ Len(log) + 1 \notin DOMAIN log
         /\ \A i \in DOMAIN log : log'[i] = log[i]
         /\ log'[Len(log) + 1] = x
<1>1. log \in Seq(LogEntry) /\ Len(log) \in Nat /\ DOMAIN log = 1 .. Len(log)
  BY LenProperties DEF LogTyped
<1>2. /\ Append(log, x) \in Seq(LogEntry)
      /\ Len(Append(log, x)) = Len(log) + 1
      /\ \A i \in 1 .. Len(log) : Append(log, x)[i] = log[i]
      /\ Append(log, x)[Len(log) + 1] = x
  BY <1>1, AppendProperties
<1>3. DOMAIN log' = 1 .. Len(log) + 1
  BY <1>2, LenProperties
<1>. QED
  BY <1>1, <1>2, <1>3

(* What the dispatch loop writes for the entry it has popped.              *)
LEMMA WhatIsLogged ==
  ASSUME Wired, NEW e \in queue, Handle(e), Logs(e)
  PROVE  \/ log' = log /\ ~Live(e) /\ e.kind \notin SignalEvents
         \/ e \in LogEntry /\ log' = Append(log, e) /\ Live(e)
         \/ /\ ~Live(e) /\ e.kind \in SignalEvents
            /\ LostEntry(e) \in LogEntry /\ log' = Append(log, LostEntry(e))
<1>1. e \in EntrySet /\ e.time \in Nat /\ (e.kind \in SignalEvents => e.signal \in SignalSet)
  BY EntryFields DEF Wired, Ordinary, CsmaInv, TypeOK, QueueOK
<1>2. e.kind \in SignalEvents => LostEntry(e) \in LogEntry
  BY <1>1 DEF LostEntry, LogEntry
<1>. QED
  BY <1>1, <1>2 DEF Logs, Live, LogEntry

LEMMA LogGrows ==
  ASSUME Wired, LogTyped, [ObserveNext]_observed
  PROVE  \/ log' = log /\ Now' \in Nat /\ Now <= Now'
         \/ \E x \in LogEntry : log' = Append(log, x) /\ x.time = Now' /\ Now <= Now'
<1>0. Now \in Nat
  BY DEF Wired, Ordinary, CsmaInv, TypeOK, QueueOK, Now
<1>1. CASE Host /\ UNCHANGED log
  <2>1. last' = last
    BY <1>1 DEF Host, ScheduleTxAttempt, RemoveSegment, AddSegment, RemoveNode,
                SetSegmentDelay, SetSegmentRate, SetMacConfig, StartRun, ReturnFromRun,
                Sched!StartRun, Sched!ReturnFromRun, HostPushes
  <2>. QED
    BY <1>0, <1>1, <2>1 DEF Now
<1>2. CASE UNCHANGED observed
  BY <1>0, <1>2 DEF observed, vars, Now
<1>3. ASSUME NEW e \in queue, Handle(e), Logs(e)
      PROVE  \/ log' = log /\ Now' \in Nat /\ Now <= Now'
             \/ \E x \in LogEntry : log' = Append(log, x) /\ x.time = Now' /\ Now <= Now'
  <2>1. Now' = e.time /\ e.time \in Nat /\ Now <= e.time
    BY <1>3, Handled
  <2>2. LostEntry(e).time = e.time
    BY DEF LostEntry
  <2>. QED
    BY <1>3, <2>1, <2>2, WhatIsLogged
<1>. QED
  BY <1>1, <1>2, <1>3 DEF ObserveNext

LEMMA LogTypedStep ==
  ASSUME Wired, LogTyped, [ObserveNext]_observed PROVE LogTyped'
<1>0. /\ Now \in Nat /\ log \in Seq(LogEntry)
      /\ \A i \in DOMAIN log : log[i].time \in Nat /\ log[i].time <= Now
  <2>1. \A x \in LogEntry : x.time \in Nat
    BY EntryFields DEF LogEntry
  <2>2. \A i \in DOMAIN log : log[i] \in LogEntry
    BY LenProperties DEF LogTyped
  <2>. QED
    BY <2>1, <2>2 DEF LogTyped, Wired, Ordinary, CsmaInv, TypeOK, QueueOK, Now
<1>1. CASE log' = log /\ Now' \in Nat /\ Now <= Now'
  BY <1>0, <1>1 DEF LogTyped
<1>2. ASSUME NEW x \in LogEntry, log' = Append(log, x), x.time = Now', Now <= Now'
      PROVE  LogTyped'
  <2>1. x.time \in Nat
    BY EntryFields DEF LogEntry
  <2>2. /\ log' \in Seq(LogEntry) /\ DOMAIN log' = DOMAIN log \cup {Len(log) + 1}
        /\ \A i \in DOMAIN log : log'[i] = log[i]
        /\ log'[Len(log) + 1] = x
    BY <1>2, OneMore
  <2>3. ASSUME NEW i \in DOMAIN log' PROVE log'[i].time <= Now'
    <3>1. CASE i \in DOMAIN log
      <4>1. log'[i].time \in Nat /\ log'[i].time <= Now
        BY <1>0, <2>2, <3>1
      <4>. QED
        BY <1>0, <1>2, <2>1, <4>1
    <3>2. CASE i = Len(log) + 1
      BY <1>2, <2>1, <2>2, <3>2
    <3>. QED
      BY <2>2, <3>1, <3>2
  <2>. QED
    BY <2>2, <2>3 DEF LogTyped
<1>. QED
  BY <1>1, <1>2, LogGrows

LEMMA LogTypedAlways == ASSUME ~PastAllowed PROVE ObserveSpec => [](Wired /\ LogTyped)
<1>1. ObserveInit => LogTyped
  BY EmptySeq DEF ObserveInit, LogTyped
<1>2. Wired /\ LogTyped /\ [ObserveNext]_observed => LogTyped'
  BY LogTypedStep
<1>. QED
  BY <1>1, <1>2, Machine, PTL DEF ObserveSpec

---------------------------------------------------------------------------
(* What is over is over.                                                   *)

Least(S) == {k \in S : \A j \in S : k <= j}

LEMMA LeastAppended ==
  ASSUME NEW S \in SUBSET Nat, NEW next \in Nat, \A i \in S : i < next
  PROVE  Least(S \cup {next}) = Least(S) \/ (Least(S) = {} /\ Least(S \cup {next}) = {next})
<1>1. CASE S = {}
  BY <1>1 DEF Least
<1>2. ASSUME NEW i \in S PROVE Least(S \cup {next}) = Least(S)
  <2>1. next \notin Least(S \cup {next})
    BY <1>2 DEF Least
  <2>2. \A k \in S : k <= next
    OBVIOUS
  <2>3. \A k \in S : k \in Least(S \cup {next}) <=> k \in Least(S)
    BY <2>2 DEF Least
  <2>4. Least(S) \subseteq S /\ Least(S \cup {next}) \subseteq S \cup {next}
    BY DEF Least
  <2>. QED
    BY <2>1, <2>3, <2>4
<1>. QED
  BY <1>1, <1>2

(* An entry of the present changes nothing an observer reads about the     *)
(* past.                                                                   *)
LEMMA PastStands ==
  ASSUME LogTyped, NEW x \in LogEntry, log' = Append(log, x),
         NEW t \in Int, x.time > t, NEW n \in Node
  PROVE  AnswersAbout(n, t)' = AnswersAbout(n, t)
<1>. DEFINE next == Len(log) + 1
<1>1. /\ Len(log) \in Nat /\ DOMAIN log = 1 .. Len(log)
      /\ DOMAIN log' = DOMAIN log \cup {next} /\ next \notin DOMAIN log
      /\ \A i \in DOMAIN log : log'[i] = log[i] /\ i < next
      /\ log'[next] = x /\ next \in Nat
  BY OneMore
<1>2. x.time \in Nat /\ ~(x.time <= t)
  BY EntryFields DEF LogEntry
<1>. HIDE DEF next
<1>3. ReadUpTo(t)' = ReadUpTo(t)
  <2>1. \A i \in DOMAIN log : i < next
    BY <1>1
  <2>2. {j \in DOMAIN log' : log'[j].time > t} = {j \in DOMAIN log : log[j].time > t} \cup {next}
    BY <1>1
  <2>3. ~(next < next)
    BY <1>1
  <2>. QED
    BY <1>1, <2>1, <2>2, <2>3 DEF ReadUpTo
<1>4. ASSUME NEW kinds PROVE (AtNode(n, kinds) \cap ReadUpTo(t))' = AtNode(n, kinds) \cap ReadUpTo(t)
  <2>1. ReadUpTo(t) \subseteq DOMAIN log
    BY DEF ReadUpTo
  <2>. QED
    BY <1>1, <1>3, <2>1 DEF AtNode
<1>5. CarrierSense(n, t)' = CarrierSense(n, t)
  BY <1>4 DEF CarrierSense
<1>6. CollisionDetect(n, t)' = CollisionDetect(n, t)
  BY <1>1, <1>2 DEF CollisionDetect, AtNode
<1>7. (FirstCollisionDetectAt(n) \cap (0 .. t))' = FirstCollisionDetectAt(n) \cap (0 .. t)
  <2>. DEFINE C == AtNode(n, {"CollisionDetect"})
  <2>1. (C' = C \/ C' = C \cup {next}) /\ C \subseteq DOMAIN log
    BY <1>1 DEF AtNode
  <2>2. FirstCollisionDetectAt(n) = {log[i].time : i \in Least(C)}
    BY DEF FirstCollisionDetectAt, Least
  <2>3. FirstCollisionDetectAt(n)' = {log'[i].time : i \in Least(C')}
    BY DEF FirstCollisionDetectAt, Least
  <2>4. C \subseteq Nat /\ \A i \in C : i < next
    BY <1>1, <2>1
  <2>5. Least(C) \subseteq DOMAIN log
    BY <2>1 DEF Least
  <2>. HIDE DEF C
  <2>6. Least(C') = Least(C) \/ (Least(C) = {} /\ Least(C') = {next})
    <3>1. Least(C \cup {next}) = Least(C) \/ (Least(C) = {} /\ Least(C \cup {next}) = {next})
      BY <1>1, <2>4, LeastAppended
    <3>2. CASE C' = C
      BY <3>2
    <3>. QED
      BY <2>1, <3>1, <3>2
  <2>7. CASE Least(C') = Least(C)
    BY <1>1, <2>2, <2>3, <2>5, <2>7
  <2>8. CASE Least(C) = {} /\ Least(C') = {next}
    <3>1. FirstCollisionDetectAt(n) = {} /\ FirstCollisionDetectAt(n)' = {x.time}
      BY <1>1, <2>2, <2>3, <2>8
    <3>2. x.time \notin 0 .. t
      BY <1>2
    <3>. QED
      BY <3>1, <3>2
  <2>. QED
    BY <2>6, <2>7, <2>8
<1>8. {log[i].signal : i \in {k \in AtNode(n, {"BackArrive"}) : log[k].time <= t}}'
        = {log[i].signal : i \in {k \in AtNode(n, {"BackArrive"}) : log[k].time <= t}}
  <2>. DEFINE read == {k \in AtNode(n, {"BackArrive"}) : log[k].time <= t}
  <2>1. read' = read /\ read \subseteq DOMAIN log
    BY <1>1, <1>2 DEF AtNode
  <2>. HIDE DEF read
  <2>2. {log'[i].signal : i \in read'} = {log[i].signal : i \in read}
    BY <1>1, <2>1
  <2>. QED
    BY <2>2 DEF read
<1>. QED
  BY <1>5, <1>6, <1>7, <1>8 DEF AnswersAbout

(* The observers of observe.rs may be asked during the run: whatever the   *)
(* stations do and whatever is edited, no entry that is logged later       *)
(* changes an answer about a time that has gone by.                        *)
THEOREM PastAnswersAlwaysStand ==
  ASSUME ~PastAllowed PROVE ObserveSpec => PastAnswersStand
<1>1. ASSUME Wired, LogTyped, [ObserveNext]_observed
      PROVE  [\A n \in Node, t \in {Now - 1} : AnswersAbout(n, t)' = AnswersAbout(n, t)]_log
  <2>1. ASSUME NEW x \in LogEntry, log' = Append(log, x), x.time = Now', Now <= Now',
               NEW n \in Node, NEW t \in {Now - 1}
        PROVE  AnswersAbout(n, t)' = AnswersAbout(n, t)
    <3>1. Now \in Nat /\ x.time \in Nat
      BY <1>1, EntryFields DEF LogEntry, Wired, Ordinary, CsmaInv, TypeOK, QueueOK, Now
    <3>2. t \in Int /\ x.time > t
      BY <2>1, <3>1
    <3>. QED
      BY <1>1, <2>1, <3>2, PastStands
  <2>. QED
    BY <1>1, <2>1, LogGrows
<1>. QED
  BY <1>1, LogTypedAlways, PTL DEF ObserveSpec, PastAnswersStand

---------------------------------------------------------------------------
(* What a handler pushes, kind by kind.                                    *)

LEMMA PushesOf ==
  ASSUME NEW e \in queue, Handle(e), ~HandleTxStart(e), NEW f \in queue' \ queue
  PROVE  /\ f.kind \notin ArrivalEvents \cup {"TxEnd"}
         /\ e.kind = "TxAttempt" => f.kind \in {"TxAttempt", "TxStart"}
         /\ e.kind # "TopologyChanged" /\ ~DropCancelled(e)
         /\ f.kind = "TxStart" => /\ f.node = e.node /\ f.signal.source = e.node
                                  /\ \/ e.kind = "JamStart"
                                     \/ e.kind = "TxAttempt" /\ ~IsBusy(e.node)
<1>. USE DEF ArrivalEvents
<1>1. CASE HandleTxAttempt(e)
  <2>0. e.kind = "TxAttempt"
    BY <1>1 DEF HandleTxAttempt, Pops
  <2>1. CASE f = AttemptEntry(e.time + IfgTime(e.node), serial, e.node, e.frame)
    <3>1. f.kind = "TxAttempt"
      BY <2>1 DEF AttemptEntry
    <3>. QED
      BY <1>1, <2>0, <3>1 DEF HandleTxAttempt, DropCancelled, Sched!Skip, Pops
  <2>2. CASE /\ f = SignalEntry("TxStart", e.time, serial, e.node,
                                FrameSignal(e.node, e.time, e.frame))
             /\ ~MustDefer(e.node)
    <3>1. f.kind = "TxStart" /\ f.node = e.node /\ f.signal.source = e.node
      BY <2>2 DEF SignalEntry, FrameSignal, Signal
    <3>. QED
      BY <1>1, <2>0, <2>2, <3>1 DEF HandleTxAttempt, MustDefer, DropCancelled, Sched!Skip, Pops
  <2>. QED
    BY <1>1, <2>1, <2>2 DEF HandleTxAttempt, Emits
<1>2. CASE HandleTxEnd(e) \/ HandleBackArrive(e) \/ HandleTopologyChanged(e)
  <2>1. queue' = (queue \ {e}) \cup {}
    BY <1>2 DEF HandleTxEnd, HandleBackArrive, HandleTopologyChanged, Emits
  <2>. QED
    BY <2>1
<1>3. CASE HandleFrontArrive(e)
  <2>1. f \in Reactions(e) /\ e.kind = "FrontArrive" /\ ~DropCancelled(e)
    BY <1>3 DEF HandleFrontArrive, Emits, Pops, DropCancelled, Sched!Skip
  <2>2. f.kind = "CollisionDetect"
    BY <2>1 DEF Reactions, SignalEntry
  <2>. QED
    BY <2>1, <2>2
<1>4. CASE HandleCollisionDetect(e)
  <2>1. /\ f = JamEntry("JamStart", e.time, serial, e.node)
        /\ e.kind = "CollisionDetect" /\ ~DropCancelled(e)
    BY <1>4 DEF HandleCollisionDetect, Emits, Pops, DropCancelled, Sched!Skip
  <2>2. f.kind = "JamStart"
    BY <2>1 DEF JamEntry
  <2>. QED
    BY <2>1, <2>2
<1>5. CASE HandleJamStart(e)
  <2>1. /\ e.kind = "JamStart" /\ ~DropCancelled(e)
        /\ \/ f = SignalEntry("TxStart", e.time, serial, e.node, JamSignal(e.node, e.time))
           \/ f = JamEntry("JamEnd", e.time + JamTime(e.node), serial + 1, e.node)
    BY <1>5 DEF HandleJamStart, Emits, Pops, DropCancelled, Sched!Skip
  <2>2. \/ f.kind = "TxStart" /\ f.node = e.node /\ f.signal.source = e.node
        \/ f.kind = "JamEnd"
    BY <2>1 DEF SignalEntry, JamEntry, JamSignal, Signal
  <2>. QED
    BY <2>1, <2>2
<1>6. CASE HandleJamEnd(e)
  <2>1. e.kind = "JamEnd" /\ ~DropCancelled(e)
    BY <1>6 DEF HandleJamEnd, Pops, DropCancelled, Sched!Skip
  <2>2. \/ queue' = (queue \ {e}) \cup {}
        \/ \E t, a : queue' = (queue \ {e}) \cup {BackoffEntry(t, serial, e.node, a)}
    BY <1>6 DEF HandleJamEnd, Emits
  <2>3. \E t, a : f = BackoffEntry(t, serial, e.node, a)
    BY <2>2
  <2>4. f.kind = "BackoffExpire"
    BY <2>3 DEF BackoffEntry
  <2>. QED
    BY <2>1, <2>4
<1>7. CASE HandleBackoffExpire(e)
  <2>1. /\ e.kind = "BackoffExpire" /\ ~DropCancelled(e)
        /\ f = AttemptEntry(e.time, serial, e.node, pending[e.node])
    BY <1>7 DEF HandleBackoffExpire, Emits, Pops, DropCancelled, Sched!Skip
  <2>2. f.kind = "TxAttempt"
    BY <2>1 DEF AttemptEntry
  <2>. QED
    BY <2>1, <2>2
<1>8. CASE DropCancelled(e)
  <2>1. queue' = queue \ {e}
    BY <1>8 DEF DropCancelled, Sched!Skip
  <2>. QED
    BY <2>1
<1>. QED
  BY <1>1, <1>2, <1>3, <1>4, <1>5, <1>6, <1>7, <1>8 DEF Handle

(* A transmission: the arrivals, each when it is due, and the TxEnd.       *)
Due(f) ==
  IF f.kind = "BackArrive" THEN FrontTime(f.signal, f.node) + f.signal.dur
  ELSE FrontTime(f.signal, f.node)

LEMMA StartPushes ==
  ASSUME Wired, NEW e \in queue, HandleTxStart(e)
  PROVE  /\ e.kind = "TxStart" /\ Live(e) /\ e.node \in Node
         /\ e.signal \in SignalSet /\ e.signal.t0 = e.time
         /\ aired' = aired \cup {e.signal} /\ foreign' = foreign
         /\ state' = [state EXCEPT ![e.node] = Transmitting(e.signal, @.attempt)]
         /\ \A f \in queue' \ queue :
              /\ f.time > e.time /\ f.signal = e.signal
              /\ \/ /\ f.kind \in ArrivalEvents /\ f.node \in Hears(e.signal.source)
                    /\ f.time = Due(f)
                 \/ f.kind = "TxEnd" /\ f.node = e.node
         /\ \A b \in queue' \ queue :
              b.kind = "BackArrive" =>
                 \E f \in queue' \ queue : f.kind = "FrontArrive" /\ f.serial = b.serial - 1
         /\ \E t \in queue' \ queue :
              \A f \in queue' \ queue : f.kind = "TxEnd" <=> f = t
<1>. DEFINE sig == e.signal
            arrivals == Arrivals(sig)
<1>0. PICK t : t = SignalEntry("TxEnd", sig.t0 + sig.dur, serial + 2 * NumNodes, e.node, sig)
  OBVIOUS
<1>. DEFINE new == arrivals \cup {t}
<1>1. /\ CsmaInv /\ Pops(e, "TxStart") /\ Live(e) /\ e.kind = "TxStart" /\ e.node \in Node
      /\ sig \in SignalSet /\ sig.t0 = e.time /\ queue' = (queue \ {e}) \cup new
      /\ aired' = aired \cup {sig} /\ foreign' = foreign
      /\ state' = [state EXCEPT ![e.node] = Transmitting(sig, @.attempt)]
  BY <1>0, EntryTypes DEF HandleTxStart, Emits, Pops, Live, Wired, Ordinary, CsmaInv, StartsOnTime,
                     NodeEvents, SignalEvents
<1>2. Fresh(e, new, 2 * NumNodes + 1)
  BY <1>0, <1>1, ArrivalsFresh
<1>3. serial \in Nat /\ \A f \in queue : f.serial < serial /\ f.serial \in Nat
  BY <1>1, EntryTypes DEF CsmaInv, SerialsUsed, Wired
<1>4. \A f \in new : f.serial \in Nat /\ f.serial >= serial
  BY <1>2, <1>3 DEF Fresh, FreshIn
<1>5. queue' \ queue = new
  BY <1>1, <1>3, <1>4
<1>6. sig.source \in Node /\ sig.dur \in Nat /\ sig.dur > 0 /\ sig.t0 \in Nat
  BY <1>1 DEF SignalSet
<1>7. t.kind = "TxEnd" /\ t.node = e.node /\ t.signal = sig /\ t.time = sig.t0 + sig.dur
  BY <1>0 DEF SignalEntry
<1>8. ASSUME NEW m \in Hears(sig.source)
      PROVE  m \in Node /\ FrontTime(sig, m) \in Nat /\ FrontTime(sig, m) > e.time
  BY <1>1, <1>6, CsmaAssumption DEF Hears, FrontTime, CsmaInv, TypeOK, WorldOK
<1>9. ASSUME NEW f \in arrivals
      PROVE  /\ f.kind \in ArrivalEvents /\ f.node \in Hears(sig.source) /\ f.signal = sig
             /\ f.time = Due(f) /\ f.time > e.time
  <2>0. PICK m \in Hears(sig.source) : \E s :
           \/ f = SignalEntry("FrontArrive", FrontTime(sig, m), s, m, sig)
           \/ f = SignalEntry("BackArrive", FrontTime(sig, m) + sig.dur, s, m, sig)
    BY DEF Arrivals
  <2>1. PICK s :
           \/ f = SignalEntry("FrontArrive", FrontTime(sig, m), s, m, sig)
           \/ f = SignalEntry("BackArrive", FrontTime(sig, m) + sig.dur, s, m, sig)
    BY <2>0
  <2>2. /\ f.node = m /\ f.signal = sig
        /\ \/ f.kind = "FrontArrive" /\ f.time = FrontTime(sig, m)
           \/ f.kind = "BackArrive" /\ f.time = FrontTime(sig, m) + sig.dur
    BY <2>1 DEF SignalEntry
  <2>3. e.time \in Nat
    BY <1>1, <1>6
  <2>. QED
    BY <1>6, <1>8, <2>2, <2>3 DEF Due, ArrivalEvents
<1>10. ASSUME NEW b \in arrivals, b.kind = "BackArrive"
       PROVE  \E f \in arrivals : f.kind = "FrontArrive" /\ f.serial = b.serial - 1
  <2>1. PICK m \in Hears(sig.source) :
           b = SignalEntry("BackArrive", FrontTime(sig, m) + sig.dur,
                           serial + 2 * hashOrder[sig.source][m] + 1, m, sig)
    BY <1>10 DEF Arrivals, SignalEntry
  <2>2. PICK f : f = SignalEntry("FrontArrive", FrontTime(sig, m),
                                 serial + 2 * hashOrder[sig.source][m], m, sig)
    OBVIOUS
  <2>3. f \in arrivals
    BY <2>2 DEF Arrivals
  <2>4. hashOrder[sig.source][m] \in Nat
    <3>1. hashOrder[sig.source] \in [Node -> 0 .. (NumNodes - 1)] /\ NumNodes \in Nat
      BY <1>1, <1>6, NumNodesType, CsmaAssumption DEF CsmaInv, TypeOK, WorldOK
    <3>. QED
      BY <1>8, <3>1
  <2>5. f.kind = "FrontArrive" /\ f.serial = b.serial - 1
    BY <1>3, <2>1, <2>2, <2>4 DEF SignalEntry
  <2>. QED
    BY <2>3, <2>5
<1>. HIDE DEF new, arrivals, sig
<1>11. \A f \in new : f \in arrivals \/ f = t
  BY DEF new
<1>12. t \in new /\ arrivals \subseteq new
  BY DEF new
<1>13. \A f \in new : f.kind = "TxEnd" <=> f = t
  BY <1>7, <1>9, <1>11 DEF ArrivalEvents
<1>14. t.time > e.time
  BY <1>1, <1>6, <1>7
<1>15. \A f \in new :
         /\ f.time > e.time /\ f.signal = sig
         /\ \/ /\ f.kind \in ArrivalEvents /\ f.node \in Hears(sig.source)
               /\ f.time = Due(f)
            \/ f.kind = "TxEnd" /\ f.node = e.node
  BY <1>7, <1>9, <1>11, <1>14
<1>16. \A b \in new : b.kind = "BackArrive" =>
         \E f \in new : f.kind = "FrontArrive" /\ f.serial = b.serial - 1
  BY <1>7, <1>10, <1>11, <1>12
<1>. QED
  BY <1>1, <1>5, <1>12, <1>13, <1>15, <1>16 DEF sig

---------------------------------------------------------------------------
(* What a call of the host does.                                           *)

Marks == {"TxAttempt", "TopologyChanged"}

(* The stations of `gone` are removed; the arrivals at those of `silenced` *)
(* are tombstoned.                                                         *)
Silences(gone, silenced) ==
  /\ gone \subseteq silenced /\ alive' = alive \ gone
  /\ \A n \in Node \ gone : state'[n] = state[n] /\ foreign'[n] = foreign[n]
  /\ \A n \in gone : foreign'[n] = 0
  /\ \A g \in queue : g.kind \in ArrivalEvents => (Live(g)' <=> Live(g) /\ g.node \notin silenced)
  /\ \A g \in queue : g.kind = "TxEnd" => (Live(g)' <=> Live(g) /\ g.node \notin gone)
  /\ queue \subseteq queue' /\ \A f \in queue' \ queue : f.kind \in Marks
  /\ last' = last /\ aired' = aired

LEMMA HostEffects ==
  ASSUME Wired, Host
  PROVE  \E gone \in SUBSET Node, silenced \in SUBSET Node : Silences(gone, silenced)
<1>. USE DEF ArrivalEvents, Marks
<1>0. {} \in SUBSET Node
  OBVIOUS
<1>1. CASE \E o \in Offers : ScheduleTxAttempt(o[1], o[2], o[3])
  <2>1. PICK o \in Offers : ScheduleTxAttempt(o[1], o[2], o[3])
    BY <1>1
  <2>2. AttemptEntry(o[1], serial, o[2], o[3]).kind = "TxAttempt"
    BY DEF AttemptEntry
  <2>3. Silences({}, {})
    BY <2>1, <2>2 DEF ScheduleTxAttempt, HostPushes, Silences, Live, mac, history
  <2>. QED
    BY <1>0, <2>3
<1>2. CASE \E seg \in Segment : RemoveSegment(seg)
  <2>1. PICK seg \in Segment : RemoveSegment(seg)
    BY <1>2
  <2>. DEFINE silenced == {n \in Node : Access[n] = seg}
  <2>2. EditEntry(Now, serial).kind = "TopologyChanged"
    BY DEF EditEntry
  <2>3. /\ queue' = queue \cup {EditEntry(Now, serial)} /\ last' = last /\ aired' = aired
        /\ cancelled' = cancelled \cup ArrivalsOn({seg})
        /\ alive' = alive /\ state' = state /\ foreign' = foreign
    BY <2>1 DEF RemoveSegment, HostPushes, mac, history
  <2>4. ASSUME NEW g \in queue, g.kind \in ArrivalEvents
        PROVE  Live(g)' <=> Live(g) /\ g.node \notin silenced
    <3>1. g.node \in Node /\ Ordinary
      BY <2>4, EntryTypes DEF NodeEvents, SignalEvents, Wired
    <3>2. g.serial \in ArrivalsOn({seg}) <=> Access[g.node] = seg
      BY <2>4, <3>1, SerialsDistinct DEF ArrivalsOn
    <3>. QED
      BY <2>3, <3>1, <3>2 DEF Live
  <2>5. ASSUME NEW g \in queue, g.kind = "TxEnd" PROVE Live(g)' <=> Live(g)
    <3>1. g.serial \notin ArrivalsOn({seg})
      BY <2>5, SerialsDistinct DEF ArrivalsOn, Wired
    <3>. QED
      BY <2>3, <3>1 DEF Live
  <2>6. silenced \in SUBSET Node
    OBVIOUS
  <2>. HIDE DEF silenced
  <2>7. Silences({}, silenced)
    BY <2>2, <2>3, <2>4, <2>5 DEF Silences
  <2>. QED
    BY <1>0, <2>6, <2>7
<1>3. CASE \E n \in Node : RemoveNode(n)
  <2>1. PICK n \in Node : RemoveNode(n)
    BY <1>3
  <2>. DEFINE incident == {Access[n]} \cap up
              silenced == {n} \cup {m \in Node : Access[m] \in incident}
  <2>2. \A i : EditEntry(Now, serial + i).kind = "TopologyChanged"
    BY DEF EditEntry
  <2>3. /\ queue' = queue \cup {EditEntry(Now, serial + i) : i \in 0 .. Cardinality(incident)}
        /\ last' = last /\ aired' = aired
        /\ cancelled' = cancelled \cup ArrivalsOn(incident) \cup EventsOf(n)
        /\ alive' = alive \ {n} /\ state' = [state EXCEPT ![n] = Idle]
        /\ foreign' = [foreign EXCEPT ![n] = 0]
    BY <2>1 DEF RemoveNode, HostPushes, history
  <2>4. ASSUME NEW g \in queue, g.kind \in ArrivalEvents \cup {"TxEnd"}
        PROVE  g.node \in Node /\ (g.serial \in EventsOf(n) <=> g.node = n)
    <3>1. g.node \in Node /\ g.kind \in NodeEvents /\ Ordinary
      BY <2>4, EntryTypes DEF NodeEvents, SignalEvents, Wired
    <3>. QED
      BY <2>4, <3>1, SerialsDistinct DEF EventsOf
  <2>5. ASSUME NEW g \in queue, g.kind \in ArrivalEvents
        PROVE  Live(g)' <=> Live(g) /\ g.node \notin silenced
    <3>1. g.serial \in ArrivalsOn(incident) <=> Access[g.node] \in incident
      BY <2>5, SerialsDistinct DEF ArrivalsOn, Wired
    <3>. QED
      BY <2>3, <2>4, <2>5, <3>1 DEF Live
  <2>6. ASSUME NEW g \in queue, g.kind = "TxEnd" PROVE Live(g)' <=> Live(g) /\ g.node \notin {n}
    <3>1. g.serial \notin ArrivalsOn(incident)
      BY <2>6, SerialsDistinct DEF ArrivalsOn, Wired
    <3>. QED
      BY <2>3, <2>4, <2>6, <3>1 DEF Live
  <2>7. silenced \in SUBSET Node /\ {n} \in SUBSET Node /\ {n} \subseteq silenced
    OBVIOUS
  <2>8. /\ \A m \in Node \ {n} : state'[m] = state[m] /\ foreign'[m] = foreign[m]
        /\ foreign'[n] = 0
    BY <2>3, StateTypes DEF Wired
  <2>9. queue \subseteq queue' /\ \A f \in queue' \ queue : f.kind \in Marks
    BY <2>2, <2>3
  <2>. HIDE DEF silenced, incident
  <2>10. Silences({n}, silenced)
    BY <2>3, <2>5, <2>6, <2>7, <2>8, <2>9 DEF Silences
  <2>. QED
    BY <2>7, <2>10
<1>4. CASE \/ \E seg \in Segment : AddSegment(seg) \/ SetSegmentDelay(seg)
           \/ \E seg \in Segment, r \in BitTimes : SetSegmentRate(seg, r)
           \/ \E n \in Node, c \in Configs : SetMacConfig(n, c)
  <2>1. EditEntry(Now, serial).kind = "TopologyChanged"
    BY DEF EditEntry
  <2>2. /\ queue' = queue \cup {EditEntry(Now, serial)} /\ last' = last /\ aired' = aired
        /\ cancelled' = cancelled /\ alive' = alive /\ state' = state /\ foreign' = foreign
    BY <1>4 DEF AddSegment, SetSegmentDelay, SetSegmentRate, SetMacConfig, HostPushes,
                mac, history
  <2>3. Silences({}, {})
    BY <2>1, <2>2 DEF Silences, Live
  <2>. QED
    BY <1>0, <2>3
<1>5. CASE StartRun \/ ReturnFromRun
  <2>1. Silences({}, {})
    BY <1>5 DEF StartRun, ReturnFromRun, Sched!StartRun, Sched!ReturnFromRun, mac, world,
                history, Silences, Live
  <2>. QED
    BY <1>0, <2>1
<1>. QED
  BY <1>1, <1>2, <1>3, <1>4, <1>5 DEF Host

---------------------------------------------------------------------------
(* The carrier count never falls short: edits can leave foreign_carriers   *)
(* above the number of signals that pass (see README), but not below it.   *)

Wire(n) == Access[n] \notin FdSegment

(* A back that is going to be dispatched does not overtake its front.      *)
FrontsLive ==
  \A f, b \in queue :
    (f.kind = "FrontArrive" /\ b.kind = "BackArrive" /\ b.serial = f.serial + 1 /\ Live(b)) =>
       Live(f)

CarrierFloor ==
  \A n \in Node : Wire(n) =>
    IsFiniteSet(PassingBy(n)) /\ Cardinality(PassingBy(n)) <= foreign[n]

FloorInv == FrontsLive /\ CarrierFloor

(* The back of a live front is at the same station.                        *)
LEMMA BackOfFront ==
  ASSUME Wired, NEW f \in queue, f.kind = "FrontArrive", Live(f),
         NEW b \in queue, b.serial = f.serial + 1
  PROVE  b.node = f.node /\ b.time = f.time + f.signal.dur /\ b.kind = "BackArrive"
BY SerialsDistinct DEF Wired, EditInv, EndsStayTogether

LEMMA HandlersKeepFronts ==
  ASSUME Wired, FrontsLive, NEW e \in queue, Handle(e) PROVE FrontsLive'
<1> SUFFICES ASSUME NEW f \in queue', NEW b \in queue', f.kind = "FrontArrive",
                    b.kind = "BackArrive", b.serial = f.serial + 1, Live(b)'
             PROVE  Live(f)'
  BY DEF FrontsLive
<1>1. CASE f \in queue /\ b \in queue
  BY <1>1, Handled DEF FrontsLive
<1>2. CASE f \notin queue
  BY <1>2, Handled
<1>3. CASE f \in queue /\ b \notin queue
  <2>1. HandleTxStart(e)
    BY <1>3, PushesOf DEF ArrivalEvents
  <2>2. PICK g \in queue' \ queue : g.kind = "FrontArrive" /\ g.serial = b.serial - 1
    BY <1>3, <2>1, StartPushes
  <2>3. /\ f.serial \in Nat /\ f.serial < serial /\ serial \in Nat
        /\ g.serial >= serial /\ g.serial \in Nat
    BY <1>3, <2>2, Handled, EntryTypes DEF Wired, Ordinary, CsmaInv, SerialsUsed
  <2>. QED
    BY <2>2, <2>3
<1>. QED
  BY <1>1, <1>2, <1>3

(* Who passes after a step passed before, or its front has come just now.  *)
LEMMA PassingAfter ==
  ASSUME Wired, FrontsLive, NEW e \in queue, Handle(e), NEW n \in Node,
         NEW b \in PassingBy(n)'
  PROVE  /\ b \in queue /\ b # e
         /\ \/ b \in PassingBy(n)
            \/ /\ e.kind = "FrontArrive" /\ Live(e) /\ e.node = n
               /\ b.serial = e.serial + 1
<1>1. /\ b \in queue' /\ b.kind = "BackArrive" /\ b.node = n /\ Live(b)'
      /\ ~\E f \in queue' : f.kind = "FrontArrive" /\ f.serial = b.serial - 1
  BY DEF PassingBy
<1>2. b \in queue /\ b # e
  <2>1. CASE b \notin queue
    <3>1. HandleTxStart(e)
      BY <1>1, <2>1, PushesOf DEF ArrivalEvents
    <3>. QED
      BY <1>1, <2>1, <3>1, StartPushes
  <2>. QED
    BY <1>1, <2>1, Handled
<1>3. Live(b)
  BY <1>1, <1>2, Handled
<1>4. ASSUME b \notin PassingBy(n)
      PROVE  e.kind = "FrontArrive" /\ Live(e) /\ e.node = n /\ b.serial = e.serial + 1
  <2>1. PICK f \in queue : f.kind = "FrontArrive" /\ f.serial = b.serial - 1
    BY <1>1, <1>2, <1>3, <1>4 DEF PassingBy
  <2>2. f = e
    BY <1>1, <2>1, Handled
  <2>3. b.serial \in Nat /\ e.serial \in Nat
    BY <1>2, EntryTypes DEF Wired
  <2>4. b.serial = e.serial + 1
    BY <2>1, <2>2, <2>3
  <2>5. Live(e)
    BY <1>1, <1>2, <1>3, <2>1, <2>2, <2>4 DEF FrontsLive
  <2>. QED
    BY <1>1, <1>2, <2>1, <2>2, <2>4, <2>5, BackOfFront
<1>. QED
  BY <1>2, <1>4

(* A back that is dispatched was passing.                                  *)
LEMMA BackWasPassing ==
  ASSUME Wired, FrontsLive, NEW e \in queue, Sched!IsTop(queue, e),
         e.kind = "BackArrive", Live(e)
  PROVE  e \in PassingBy(e.node)
<1> SUFFICES ASSUME NEW f \in queue, f.kind = "FrontArrive", f.serial = e.serial - 1
             PROVE  FALSE
  BY DEF PassingBy
<1>1. e.serial = f.serial + 1
  BY EntryTypes DEF Wired
<1>2. Live(f)
  BY <1>1 DEF FrontsLive
<1>3. e.time = f.time + f.signal.dur
  BY <1>1, <1>2, BackOfFront
<1>. QED
  BY <1>3, BackIsNotTop DEF Wired

(* How the count moves on a half-duplex cable.                             *)
LEMMA ForeignAfter ==
  ASSUME Wired, NEW e \in queue, Handle(e), NEW n \in Node, Wire(n)
  PROVE  foreign'[n] = IF Live(e) /\ e.kind = "FrontArrive" /\ e.node = n THEN foreign[n] + 1
                       ELSE IF Live(e) /\ e.kind = "BackArrive" /\ e.node = n
                            THEN CarrierDropped(foreign[n])
                       ELSE foreign[n]
<1>1. ~OnFd(n) /\ foreign \in [Node -> Nat]
  BY StateTypes DEF Wire, OnFd, Wired
<1>2. CASE HandleFrontArrive(e)
  <2>1. e.kind = "FrontArrive" /\ Live(e) /\ e.node \in Node
    BY <1>2, EntryTypes DEF HandleFrontArrive, Pops, Live, Wired, NodeEvents, SignalEvents
  <2>2. CASE e.node = n
    BY <1>1, <1>2, <2>1, <2>2 DEF HandleFrontArrive
  <2>3. CASE e.node # n
    BY <1>1, <1>2, <2>1, <2>3 DEF HandleFrontArrive
  <2>. QED
    BY <2>2, <2>3
<1>3. CASE HandleBackArrive(e)
  <2>1. e.kind = "BackArrive" /\ Live(e) /\ e.node \in Node
    BY <1>3, EntryTypes DEF HandleBackArrive, Pops, Live, Wired, NodeEvents, SignalEvents
  <2>2. CASE e.node = n
    BY <1>1, <1>3, <2>1, <2>2 DEF HandleBackArrive
  <2>3. CASE e.node # n
    BY <1>1, <1>3, <2>1, <2>3 DEF HandleBackArrive
  <2>. QED
    BY <2>2, <2>3
<1>4. CASE DropCancelled(e)
  BY <1>4 DEF DropCancelled, Sched!Skip, Live, mac
<1>5. CASE \/ HandleTxAttempt(e) \/ HandleTxStart(e) \/ HandleTxEnd(e)
           \/ HandleCollisionDetect(e) \/ HandleJamStart(e) \/ HandleJamEnd(e)
           \/ HandleBackoffExpire(e) \/ HandleTopologyChanged(e)
  <2>1. e.kind \notin {"FrontArrive", "BackArrive"} /\ foreign' = foreign
    BY <1>5 DEF HandleTxAttempt, HandleTxStart, HandleTxEnd, HandleCollisionDetect,
                HandleJamStart, HandleJamEnd, HandleBackoffExpire, HandleTopologyChanged,
                Pops, mac
  <2>. QED
    BY <2>1
<1>. QED
  BY <1>2, <1>3, <1>4, <1>5 DEF Handle

LEMMA HandlersKeepFloor ==
  ASSUME Wired, FloorInv, NEW e \in queue, Handle(e) PROVE FloorInv'
<1>1. FrontsLive
  BY DEF FloorInv
<1>2. ASSUME NEW n \in Node, Wire(n)
      PROVE  IsFiniteSet(PassingBy(n)') /\ Cardinality(PassingBy(n)') <= foreign'[n]
  <2>. DEFINE P == PassingBy(n)
              Q == PassingBy(n)'
  <2>1. IsFiniteSet(P) /\ Cardinality(P) <= foreign[n] /\ foreign[n] \in Nat
    BY <1>2, StateTypes DEF FloorInv, CarrierFloor, Wired
  <2>2. \A b \in Q : b \in P \/ (/\ e.kind = "FrontArrive" /\ Live(e) /\ e.node = n
                                 /\ b \in queue /\ b.serial = e.serial + 1)
    BY <1>1, <1>2, PassingAfter
  <2>3. e \notin Q
    BY <1>1, <1>2, PassingAfter
  <2>4. foreign'[n] = IF Live(e) /\ e.kind = "FrontArrive" /\ e.node = n THEN foreign[n] + 1
                      ELSE IF Live(e) /\ e.kind = "BackArrive" /\ e.node = n
                           THEN CarrierDropped(foreign[n])
                      ELSE foreign[n]
    BY <1>2, ForeignAfter
  <2>5. (Live(e) /\ e.kind = "BackArrive" /\ e.node = n) => e \in P
    BY <1>1, <1>2, BackWasPassing, Handled
  <2>6. \A b, c \in queue : b.serial = c.serial => b = c
    BY SerialsDistinct DEF Wired
  <2>. HIDE DEF P, Q
  <2>7. Cardinality(P) \in Nat
    BY <2>1, FS_CardinalityType
  <2>8. CASE Live(e) /\ e.kind = "FrontArrive" /\ e.node = n
    <3>1. PICK b : Q \subseteq P \cup {b}
      BY <2>2, <2>6
    <3>2. IsFiniteSet(P \cup {b}) /\ Cardinality(P \cup {b}) <= Cardinality(P) + 1
          /\ Cardinality(P \cup {b}) \in Nat
      BY <2>1, <2>7, FS_AddElement
    <3>3. IsFiniteSet(Q) /\ Cardinality(Q) <= Cardinality(P \cup {b}) /\ Cardinality(Q) \in Nat
      BY <3>1, <3>2, FS_Subset, FS_CardinalityType
    <3>4. Cardinality(Q) <= foreign'[n]
      BY <2>1, <2>4, <2>7, <2>8, <3>2, <3>3
    <3>. QED
      BY <3>3, <3>4 DEF Q
  <2>9. CASE Live(e) /\ e.kind = "BackArrive" /\ e.node = n
    <3>1. Q \subseteq P \ {e} /\ e \in P
      BY <2>2, <2>3, <2>5, <2>9
    <3>2. IsFiniteSet(P \ {e}) /\ Cardinality(P \ {e}) = Cardinality(P) - 1
      BY <2>1, <3>1, FS_RemoveElement
    <3>3. IsFiniteSet(Q) /\ Cardinality(Q) <= Cardinality(P) - 1 /\ Cardinality(Q) \in Nat
      BY <3>1, <3>2, FS_Subset, FS_CardinalityType
    <3>4. Cardinality(Q) <= foreign'[n]
      BY <2>1, <2>4, <2>7, <2>9, <3>3 DEF CarrierDropped
    <3>. QED
      BY <3>3, <3>4 DEF Q
  <2>10. CASE ~(Live(e) /\ e.kind \in {"FrontArrive", "BackArrive"} /\ e.node = n)
    <3>1. Q \subseteq P /\ foreign'[n] = foreign[n]
      BY <2>2, <2>4, <2>10
    <3>2. IsFiniteSet(Q) /\ Cardinality(Q) <= Cardinality(P) /\ Cardinality(Q) \in Nat
      BY <2>1, <3>1, FS_Subset, FS_CardinalityType
    <3>3. Cardinality(Q) <= foreign'[n]
      BY <2>1, <2>7, <3>1, <3>2
    <3>. QED
      BY <3>2, <3>3 DEF Q
  <2>. QED
    BY <2>8, <2>9, <2>10
<1>3. CarrierFloor'
  BY <1>2 DEF CarrierFloor, Wire
<1>. QED
  BY <1>1, <1>3, HandlersKeepFronts DEF FloorInv

LEMMA HostKeepsFloor ==
  ASSUME Wired, FloorInv, Host PROVE FloorInv'
<1>1. PICK gone \in SUBSET Node, silenced \in SUBSET Node : Silences(gone, silenced)
  BY HostEffects
<1>2. /\ queue \subseteq queue' /\ gone \subseteq silenced
      /\ \A f \in queue' : f.kind \in ArrivalEvents => f \in queue
      /\ \A g \in queue : g.kind \in ArrivalEvents =>
           (Live(g)' <=> Live(g) /\ g.node \notin silenced)
  BY <1>1 DEF Silences, Marks, ArrivalEvents
<1>3. FrontsLive'
  <2> SUFFICES ASSUME NEW f \in queue, NEW b \in queue, f.kind = "FrontArrive",
                      b.kind = "BackArrive", b.serial = f.serial + 1, Live(b)'
               PROVE  Live(f)'
    BY <1>2 DEF FrontsLive, ArrivalEvents
  <2>1. Live(b) /\ b.node \notin silenced
    BY <1>2 DEF ArrivalEvents
  <2>2. Live(f)
    BY <2>1 DEF FloorInv, FrontsLive
  <2>. QED
    BY <1>2, <2>1, <2>2, BackOfFront DEF ArrivalEvents
<1>4. ASSUME NEW n \in Node, Wire(n)
      PROVE  IsFiniteSet(PassingBy(n)') /\ Cardinality(PassingBy(n)') <= foreign'[n]
  <2>. DEFINE P == PassingBy(n)
              Q == PassingBy(n)'
  <2>1. IsFiniteSet(P) /\ Cardinality(P) <= foreign[n]
    BY <1>4 DEF FloorInv, CarrierFloor
  <2>2. Q \subseteq P /\ (n \in gone => Q = {})
    BY <1>2 DEF PassingBy, ArrivalEvents
  <2>3. foreign'[n] = IF n \in gone THEN 0 ELSE foreign[n]
    BY <1>1, <1>4 DEF Silences
  <2>4. foreign[n] \in Nat
    BY <1>4, StateTypes DEF Wired
  <2>. HIDE DEF P, Q
  <2>5. /\ IsFiniteSet(Q) /\ Cardinality(Q) <= Cardinality(P)
        /\ Cardinality(Q) \in Nat /\ Cardinality(P) \in Nat
    BY <2>1, <2>2, FS_Subset, FS_CardinalityType
  <2>6. n \in gone => Cardinality(Q) = 0
    BY <2>2, FS_EmptySet
  <2>7. Cardinality(Q) <= foreign'[n]
    BY <2>1, <2>3, <2>4, <2>5, <2>6
  <2>. QED
    BY <2>5, <2>7 DEF Q
<1>5. CarrierFloor'
  BY <1>4 DEF CarrierFloor, Wire
<1>. QED
  BY <1>3, <1>5 DEF FloorInv

LEMMA FloorAlways == ASSUME ~PastAllowed PROVE ObserveSpec => []FloorInv
<1>1. ObserveInit => FloorInv
  <2> SUFFICES ASSUME ObserveInit PROVE FloorInv
    OBVIOUS
  <2>1. /\ \A n \in Node : PassingBy(n) = {} /\ foreign[n] = 0
        /\ FrontsLive
    BY DEF ObserveInit, Init, Sched!SchedulerInit, PassingBy, FrontsLive
  <2>. QED
    BY <2>1, FS_EmptySet DEF FloorInv, CarrierFloor
<1>2. Wired /\ FloorInv /\ [ObserveNext]_observed => FloorInv'
  <2> SUFFICES ASSUME Wired, FloorInv, [ObserveNext]_observed PROVE FloorInv'
    OBVIOUS
  <2>1. CASE UNCHANGED observed
    BY <2>1 DEF observed, vars, mac, FloorInv, FrontsLive, CarrierFloor, Wire, PassingBy, Live
  <2>. QED
    BY <2>1, HandlersKeepFloor, HostKeepsFloor DEF ObserveNext
<1>. QED
  BY <1>1, <1>2, Machine, PTL DEF ObserveSpec

---------------------------------------------------------------------------
(* carrier_sense agrees with the engine: in the log of a station that is   *)
(* in the world the beginnings exceed the ends by what is on its wire now. *)

Begun(n) == AtNode(n, {"FrontArrive", "TxStart"})
Ended(n) == AtNode(n, {"BackArrive", "TxEnd"})
Ends(n) == {e \in queue : e.kind = "TxEnd" /\ e.node = n}

Balanced(n) ==
  /\ IsFiniteSet(Ends(n))
  /\ \A e \in Ends(n) : Live(e) /\ e.signal \in aired
  /\ Cardinality(Begun(n)) = Cardinality(Ended(n)) + foreign[n] + Cardinality(Ends(n))

SenseInv == \A n \in alive : Wire(n) => Balanced(n)

LEMMA LogCounts ==
  ASSUME LogTyped, NEW n, NEW kinds
  PROVE  IsFiniteSet(AtNode(n, kinds)) /\ Cardinality(AtNode(n, kinds)) \in Nat
<1>1. DOMAIN log = 1 .. Len(log) /\ Len(log) \in Nat
  BY LenProperties DEF LogTyped
<1>2. IsFiniteSet(DOMAIN log)
  BY <1>1, FS_Interval
<1>. QED
  BY <1>2, FS_Subset, FS_CardinalityType DEF AtNode

(* What the step adds to the counts of the log.                            *)
LEMMA LogCountsAfter ==
  ASSUME Wired, LogTyped, NEW e \in queue, Handle(e), Logs(e), NEW n \in Node,
         NEW kinds \in SUBSET NodeEvents
  PROVE  /\ Cardinality(AtNode(n, kinds)) \in Nat
         /\ Cardinality(AtNode(n, kinds)') =
              Cardinality(AtNode(n, kinds))
                + (IF Live(e) /\ e.kind \in kinds /\ e.node = n THEN 1 ELSE 0)
<1>. DEFINE A == AtNode(n, kinds)
            next == Len(log) + 1
<1>1. IsFiniteSet(A) /\ Cardinality(A) \in Nat
  BY LogCounts
<1>2. ASSUME NEW x \in LogEntry, log' = Append(log, x)
      PROVE  /\ AtNode(n, kinds)' = IF x.kind \in kinds /\ x.node = n THEN A \cup {next} ELSE A
             /\ next \notin A
  BY <1>2, OneMore DEF AtNode
<1>. HIDE DEF A, next
<1>3. CASE Live(e) /\ e.kind \in kinds /\ e.node = n
  <2>1. e \in LogEntry /\ log' = Append(log, e)
    BY <1>3, WhatIsLogged
  <2>2. AtNode(n, kinds)' = A \cup {next} /\ next \notin A
    BY <1>2, <1>3, <2>1
  <2>3. Cardinality(A \cup {next}) = Cardinality(A) + 1
    BY <1>1, <2>2, FS_AddElement
  <2>. QED
    BY <1>1, <1>3, <2>2, <2>3 DEF A
<1>4. CASE ~(Live(e) /\ e.kind \in kinds /\ e.node = n)
  <2>1. LostEntry(e).kind \notin kinds
    BY DEF LostEntry, NodeEvents, SignalEvents, JamEvents
  <2>2. AtNode(n, kinds)' = A
    <3>1. CASE log' = log
      BY <3>1 DEF A, AtNode
    <3>2. CASE e \in LogEntry /\ log' = Append(log, e) /\ Live(e)
      BY <1>2, <1>4, <3>2
    <3>3. CASE LostEntry(e) \in LogEntry /\ log' = Append(log, LostEntry(e))
      BY <1>2, <2>1, <3>3
    <3>. QED
      BY <3>1, <3>2, <3>3, WhatIsLogged
  <2>. QED
    BY <1>1, <1>4, <2>2 DEF A
<1>. QED
  BY <1>3, <1>4

LEMMA HandlersKeepBalance ==
  ASSUME Wired, FloorInv, LogTyped, SenseInv, NEW e \in queue, Handle(e), Logs(e),
         NEW n \in alive, n \in Node, Wire(n)
  PROVE  Balanced(n)'
<1>. DEFINE E == Ends(n)
            F == Ends(n)'
            begins == Live(e) /\ e.kind \in {"FrontArrive", "TxStart"} /\ e.node = n
            ends == Live(e) /\ e.kind \in {"BackArrive", "TxEnd"} /\ e.node = n
<1>1. /\ IsFiniteSet(E) /\ foreign[n] \in Nat
      /\ \A f \in E : Live(f) /\ f.signal \in aired
      /\ Cardinality(Begun(n)) = Cardinality(Ended(n)) + foreign[n] + Cardinality(E)
  BY StateTypes DEF SenseInv, Balanced, Wired
<1>2. /\ Cardinality(Begun(n)) \in Nat /\ Cardinality(Ended(n)) \in Nat
      /\ Cardinality(Begun(n)') = Cardinality(Begun(n)) + (IF begins THEN 1 ELSE 0)
      /\ Cardinality(Ended(n)') = Cardinality(Ended(n)) + (IF ends THEN 1 ELSE 0)
  <2>1. /\ {"FrontArrive", "TxStart"} \in SUBSET NodeEvents
        /\ {"BackArrive", "TxEnd"} \in SUBSET NodeEvents
    BY DEF NodeEvents, SignalEvents
  <2>. QED
    BY <2>1, LogCountsAfter DEF Begun, Ended
<1>3. foreign'[n] = IF Live(e) /\ e.kind = "FrontArrive" /\ e.node = n THEN foreign[n] + 1
                    ELSE IF Live(e) /\ e.kind = "BackArrive" /\ e.node = n
                         THEN CarrierDropped(foreign[n])
                    ELSE foreign[n]
  BY ForeignAfter
<1>4. Live(e) /\ e.kind = "BackArrive" /\ e.node = n => foreign[n] > 0
  <2>1. ASSUME Live(e), e.kind = "BackArrive", e.node = n PROVE foreign[n] > 0
    <3>1. e \in PassingBy(n)
      BY <2>1, BackWasPassing, Handled DEF FloorInv
    <3>2. IsFiniteSet(PassingBy(n)) /\ Cardinality(PassingBy(n)) <= foreign[n]
      BY DEF FloorInv, CarrierFloor
    <3>3. Cardinality(PassingBy(n)) \in Nat /\ Cardinality(PassingBy(n)) # 0
      BY <3>1, <3>2, FS_EmptySet, FS_CardinalityType
    <3>. QED
      BY <1>1, <3>2, <3>3
  <2>. QED
    BY <2>1
<1>5. e \in E <=> e.kind = "TxEnd" /\ e.node = n
  BY DEF Ends
<1>6. /\ queue \ {e} \subseteq queue' /\ e \notin queue'
      /\ \A f \in queue \ {e} : Live(f)' <=> Live(f)
      /\ \A f \in queue' \ queue : Live(f)'
  BY Handled
<1>7. \A f \in E \ {e} : Live(f)' /\ f.signal \in aired'
  <2>1. aired \subseteq aired'
    BY DEF Handle, HandleTxAttempt, HandleTxStart, HandleTxEnd, HandleFrontArrive,
           HandleBackArrive, HandleCollisionDetect, HandleJamStart, HandleJamEnd,
           HandleBackoffExpire, HandleTopologyChanged, DropCancelled, history
  <2>. QED
    BY <1>1, <1>6, <2>1 DEF Ends
<1>8. CASE HandleTxStart(e) /\ e.node = n
  <2>1. /\ e.kind = "TxStart" /\ Live(e)
        /\ \A f \in queue' \ queue : f.signal = e.signal /\ (f.kind = "TxEnd" => f.node = n)
        /\ aired' = aired \cup {e.signal}
    BY <1>8, StartPushes DEF ArrivalEvents
  <2>2. PICK t \in queue' \ queue : \A f \in queue' \ queue : f.kind = "TxEnd" <=> f = t
    BY <1>8, StartPushes
  <2>3. F = E \cup {t} /\ t \notin E /\ t.signal \in aired' /\ Live(t)'
    BY <1>6, <2>1, <2>2 DEF Ends
  <2>. HIDE DEF E, F
  <2>4. IsFiniteSet(F) /\ Cardinality(F) = Cardinality(E) + 1 /\ Cardinality(E) \in Nat
    BY <1>1, <2>3, FS_AddElement, FS_CardinalityType
  <2>5. foreign'[n] = foreign[n] /\ begins /\ ~ends
    BY <1>3, <1>8, <2>1
  <2>6. Cardinality(Begun(n)') = Cardinality(Ended(n)') + foreign'[n] + Cardinality(F)
    BY <1>1, <1>2, <2>4, <2>5
  <2>7. \A f \in F : Live(f)' /\ f.signal \in aired'
    BY <1>5, <1>7, <2>1, <2>3
  <2>. QED
    BY <2>4, <2>6, <2>7 DEF F, Balanced
<1>9. CASE ~(HandleTxStart(e) /\ e.node = n)
  <2>1. F = E \ {e}
    <3>1. ASSUME NEW f \in queue' \ queue, f.kind = "TxEnd" PROVE f.node # n
      <4>1. HandleTxStart(e)
        BY <3>1, PushesOf
      <4>. QED
        BY <1>9, <3>1, <4>1, StartPushes DEF ArrivalEvents
    <3>. QED
      BY <1>6, <3>1 DEF Ends
  <2>2. Live(e) /\ e.kind = "TxStart" => e.node # n
    <3>1. Live(e) /\ e.kind = "TxStart" => HandleTxStart(e)
      BY DEF Handle, HandleTxAttempt, HandleTxEnd, HandleFrontArrive, HandleBackArrive,
             HandleCollisionDetect, HandleJamStart, HandleJamEnd, HandleBackoffExpire,
             HandleTopologyChanged, DropCancelled, Sched!Skip, Pops, Live
    <3>. QED
      BY <1>9, <3>1
  <2>. HIDE DEF E, F
  <2>3. /\ IsFiniteSet(F) /\ Cardinality(E) \in Nat /\ Cardinality(F) \in Nat
        /\ Cardinality(F) = IF e \in E THEN Cardinality(E) - 1 ELSE Cardinality(E)
    BY <1>1, <2>1, FS_RemoveElement, FS_CardinalityType
  <2>4. Cardinality(Begun(n)') = Cardinality(Ended(n)') + foreign'[n] + Cardinality(F)
    <3>1. CASE e \in E
      <4>1. ends /\ ~begins /\ foreign'[n] = foreign[n] /\ Cardinality(F) = Cardinality(E) - 1
        BY <1>1, <1>3, <1>5, <2>3, <3>1
      <4>. QED
        BY <1>1, <1>2, <2>3, <4>1
    <3>2. CASE Live(e) /\ e.kind = "FrontArrive" /\ e.node = n
      <4>1. begins /\ ~ends /\ foreign'[n] = foreign[n] + 1 /\ Cardinality(F) = Cardinality(E)
        BY <1>3, <1>5, <2>3, <3>2
      <4>. QED
        BY <1>1, <1>2, <2>3, <4>1
    <3>3. CASE Live(e) /\ e.kind = "BackArrive" /\ e.node = n
      <4>1. ends /\ ~begins /\ foreign'[n] = foreign[n] - 1 /\ Cardinality(F) = Cardinality(E)
        BY <1>1, <1>3, <1>4, <1>5, <2>3, <3>3 DEF CarrierDropped
      <4>. QED
        BY <1>1, <1>2, <2>3, <4>1
    <3>4. CASE ~(/\ Live(e) /\ e.node = n
                 /\ e.kind \in {"TxEnd", "FrontArrive", "BackArrive"}) /\ e \notin E
      <4>1. ~ends /\ ~begins /\ foreign'[n] = foreign[n] /\ Cardinality(F) = Cardinality(E)
        BY <1>3, <2>2, <2>3, <3>4
      <4>. QED
        BY <1>1, <1>2, <2>3, <4>1
    <3>. QED
      BY <1>5, <3>1, <3>2, <3>3, <3>4
  <2>5. \A f \in F : Live(f)' /\ f.signal \in aired'
    BY <1>7, <2>1
  <2>. QED
    BY <2>3, <2>4, <2>5 DEF F, Balanced
<1>. QED
  BY <1>8, <1>9

LEMMA SenseStep ==
  ASSUME Wired, FloorInv, LogTyped, SenseInv, [ObserveNext]_observed PROVE SenseInv'
<1>0. alive \subseteq Node
  BY DEF Wired, Ordinary, CsmaInv, TypeOK, WorldOK
<1>1. ASSUME NEW e \in queue, Handle(e), Logs(e) PROVE SenseInv'
  <2>1. alive' = alive
    BY <1>1 DEF Handle, HandleTxAttempt, HandleTxStart, HandleTxEnd, HandleFrontArrive,
         HandleBackArrive, HandleCollisionDetect, HandleJamStart, HandleJamEnd,
         HandleBackoffExpire, HandleTopologyChanged, DropCancelled, Emits, world
  <2>. QED
    BY <1>0, <1>1, <2>1, HandlersKeepBalance DEF SenseInv, Wire
<1>2. CASE Host /\ UNCHANGED log
  <2>1. PICK gone \in SUBSET Node, silenced \in SUBSET Node : Silences(gone, silenced)
    BY <1>2, HostEffects
  <2>2. ASSUME NEW n \in alive', Wire(n) PROVE Balanced(n)'
    <3>1. n \in alive /\ n \notin gone /\ n \in Node /\ Balanced(n)
      BY <1>0, <2>1, <2>2 DEF Silences, SenseInv
    <3>2. Ends(n)' = Ends(n)
      BY <2>1 DEF Ends, Silences, Marks
    <3>3. Begun(n)' = Begun(n) /\ Ended(n)' = Ended(n) /\ foreign'[n] = foreign[n]
      BY <1>2, <2>1, <3>1 DEF Begun, Ended, AtNode, Silences
    <3>4. \A f \in Ends(n) : Live(f)' /\ f.signal \in aired'
      BY <2>1, <3>1 DEF Ends, Silences, Balanced
    <3>. QED
      BY <3>1, <3>2, <3>3, <3>4 DEF Balanced
  <2>. QED
    BY <2>2 DEF SenseInv, Wire
<1>3. CASE UNCHANGED observed
  BY <1>3 DEF observed, vars, mac, world, history, SenseInv, Wire, Balanced, Begun, Ended,
              AtNode, Ends, Live
<1>. QED
  BY <1>1, <1>2, <1>3 DEF ObserveNext

LEMMA SenseAgrees ==
  ASSUME Wired, LogTyped, SenseInv PROVE SenseAgreesWithEngine
<1> SUFFICES ASSUME NEW n \in alive, Access[n] \notin FdSegment
             PROVE  CarrierSense(n, Now) <=> (foreign[n] > 0 \/ OnTheAir(n))
  BY DEF SenseAgreesWithEngine
<1>1. Balanced(n) /\ n \in Node
  BY DEF SenseInv, Wire, Wired, Ordinary, CsmaInv, TypeOK, WorldOK
<1>2. ReadUpTo(Now) = DOMAIN log
  <2>1. \A i \in DOMAIN log : log[i].time \in Nat /\ log[i].time <= Now
    <3>1. \A x \in LogEntry : x.time \in Nat
      BY EntryFields DEF LogEntry
    <3>. QED
      BY <3>1, LenProperties DEF LogTyped
  <2>2. Now \in Nat
    BY DEF Wired, Ordinary, CsmaInv, TypeOK, QueueOK, Now
  <2>3. {j \in DOMAIN log : log[j].time > Now} = {}
    BY <2>1, <2>2
  <2>. QED
    BY <2>3 DEF ReadUpTo
<1>3. CarrierSense(n, Now) <=> Cardinality(Begun(n)) > Cardinality(Ended(n))
  <2>1. \A kinds : AtNode(n, kinds) \cap ReadUpTo(Now) = AtNode(n, kinds)
    BY <1>2 DEF AtNode
  <2>. QED
    BY <2>1 DEF CarrierSense, Begun, Ended
<1>4. /\ Cardinality(Begun(n)) \in Nat /\ Cardinality(Ended(n)) \in Nat
      /\ Cardinality(Ends(n)) \in Nat /\ foreign[n] \in Nat
      /\ Cardinality(Ends(n)) = 0 <=> Ends(n) = {}
  BY <1>1, LogCounts, FS_CardinalityType, FS_EmptySet, StateTypes
     DEF Begun, Ended, Balanced, Wired
<1>5. OnTheAir(n) <=> Ends(n) # {}
  BY <1>1 DEF OnTheAir, Ends, Balanced
<1>. QED
  BY <1>1, <1>3, <1>4, <1>5 DEF Balanced

(* carrier_sense (observe.rs) can be trusted at every instant, whatever is *)
(* pulled, plugged or removed: it says busy exactly when the engine counts *)
(* a foreign carrier at the port or still has the end of one of the        *)
(* station's own transmissions to dispatch.                                *)
THEOREM SenseAlwaysAgrees ==
  ASSUME ~PastAllowed PROVE ObserveSpec => []SenseAgreesWithEngine
<1>1. ObserveInit => SenseInv
  <2> SUFFICES ASSUME ObserveInit, NEW n \in alive PROVE Balanced(n)
    BY DEF SenseInv
  <2>1. Begun(n) = {} /\ Ended(n) = {} /\ Ends(n) = {} /\ foreign[n] = 0
    BY DEF ObserveInit, Init, Sched!SchedulerInit, Begun, Ended, AtNode, Ends
  <2>. QED
    BY <2>1, FS_EmptySet DEF Balanced
<1>2. Wired /\ FloorInv /\ LogTyped /\ SenseInv /\ [ObserveNext]_observed => SenseInv'
  BY SenseStep
<1>3. Wired /\ LogTyped /\ SenseInv => SenseAgreesWithEngine
  BY SenseAgrees
<1>. QED
  BY <1>1, <1>2, <1>3, FloorAlways, LogTypedAlways, PTL DEF ObserveSpec

---------------------------------------------------------------------------
(* No reception fails silently.  The difficulty is that an edit may change *)
(* a delay while a signal is on its way, and that one station may send the *)
(* same signal twice at one instant: the trailing edge of the later one    *)
(* must not come at another time than that of the earlier one.  It does    *)
(* not, because the host only edits between two runs (Between), when every *)
(* station that has begun to send at the present instant has no further    *)
(* TxStart queued for it (Settled).                                        *)

Sourced == \A e \in queue : e.kind = "TxStart" => e.signal.source = e.node
Between == ~running => \A e \in queue : e.time = Now => e.kind \in Marks
DeadUnplugged == \A n \in Node \ alive : Access[n] \notin up

InFlight ==
  \A e \in queue : e.kind \in ArrivalEvents => e.signal.t0 <= Now /\ e.signal.t0 < e.time

(* A signal of this very instant: its station is gone or is still sending. *)
Sounding ==
  \A e \in queue : (e.kind \in ArrivalEvents /\ e.signal.t0 = Now) =>
    last[2] = 3 /\ (e.signal.source \notin alive \/ IsTransmitting(e.signal.source))

StartsNoMore(n) ==
  \A e \in queue : e.time = Now =>
    /\ e.kind \in Marks \cup {"TxStart"}
    /\ e.kind = "TxStart" => e.node # n
Settled(n) == n \notin alive \/ (IsTransmitting(n) /\ StartsNoMore(n))

OnTime ==
  \A e \in queue : (e.kind \in ArrivalEvents /\ e.signal.t0 = Now) =>
    Settled(e.signal.source) \/ e.time = Due(e)

FlightInv == Sourced /\ Between /\ DeadUnplugged /\ InFlight /\ Sounding /\ OnTime

LEMMA HandlersKeepWorld ==
  ASSUME NEW e \in queue, Handle(e)
  PROVE  up' = up /\ alive' = alive /\ delay' = delay
BY DEF Handle, HandleTxAttempt, HandleTxStart, HandleTxEnd, HandleFrontArrive,
       HandleBackArrive, HandleCollisionDetect, HandleJamStart, HandleJamEnd,
       HandleBackoffExpire, HandleTopologyChanged, DropCancelled, Emits, world, settings

(* Among the events of the last phase none ends a transmission.            *)
LEMMA KeepsSending ==
  ASSUME Wired, NEW e \in queue, Handle(e), Sched!PhaseOf(e.kind) = 3,
         NEW n \in Node, IsTransmitting(n)
  PROVE  IsTransmitting(n)'
<1>0. state \in [Node -> StateSet]
  BY StateTypes DEF Wired
<1>1. CASE HandleTxStart(e)
  BY <1>0, <1>1 DEF HandleTxStart, IsTransmitting, Transmitting
<1>2. CASE HandleBackoffExpire(e)
  BY <1>0, <1>2 DEF HandleBackoffExpire, TimerIsLive, IsTransmitting, BackingOff
<1>3. CASE \/ HandleTxAttempt(e) \/ HandleTopologyChanged(e) \/ DropCancelled(e)
  BY <1>3 DEF HandleTxAttempt, HandleTopologyChanged, DropCancelled, mac, IsTransmitting
<1>4. CASE \/ HandleTxEnd(e) \/ HandleFrontArrive(e) \/ HandleBackArrive(e)
           \/ HandleCollisionDetect(e) \/ HandleJamStart(e) \/ HandleJamEnd(e)
  <2>1. e.kind \in {"TxEnd", "FrontArrive", "BackArrive", "CollisionDetect", "JamStart", "JamEnd"}
    BY <1>4 DEF HandleTxEnd, HandleFrontArrive, HandleBackArrive, HandleCollisionDetect,
                HandleJamStart, HandleJamEnd, Pops
  <2>. QED
    BY <2>1, PhaseValues
<1>. QED
  BY <1>1, <1>2, <1>3, <1>4 DEF Handle

(* A signal of the present that was queued already: the instant goes on.   *)
LEMMA StillSounding ==
  ASSUME Wired, FlightInv, NEW e \in queue, Handle(e),
         NEW f \in queue, f.kind \in ArrivalEvents, f.signal.t0 = Now'
  PROVE  /\ Now' = Now /\ e.time = Now /\ f.signal.source \in Node
         /\ Sched!PhaseOf(e.kind) = 3 /\ last'[2] = 3
         /\ f.signal.source \notin alive \/ IsTransmitting(f.signal.source)'
<1>1. Now' = e.time /\ e.time \in Nat /\ Now \in Nat /\ Now <= e.time /\ last' = Sched!Key(e)
  BY Handled
<1>2. f.signal.t0 <= Now /\ f.signal \in SignalSet
  BY EntryTypes DEF FlightInv, InFlight, ArrivalEvents, SignalEvents, Wired
<1>3. Now' = Now /\ e.time = Now /\ f.signal.t0 = Now
  BY <1>1, <1>2 DEF SignalSet
<1>4. f.signal.source \in Node
  BY <1>2 DEF SignalSet
<1>5. /\ last[2] = 3
      /\ f.signal.source \notin alive \/ IsTransmitting(f.signal.source)
  BY <1>3 DEF FlightInv, Sounding
<1>6. Sched!Before(last, Sched!Key(e))
  BY DEF Wired, Ordinary, KeysAhead, Sched!KeysAhead
<1>7. Sched!PhaseOf(e.kind) = 3
  BY <1>1, <1>3, <1>5, <1>6, PhaseRange DEF Sched!Before, Sched!Key, Now
<1>8. last'[2] = 3
  BY <1>1, <1>7 DEF Sched!Key
<1>. QED
  BY <1>3, <1>4, <1>5, <1>7, <1>8, KeepsSending

LEMMA HandlersKeepFlight ==
  ASSUME Wired, FlightInv, NEW e \in queue, Handle(e) PROVE FlightInv'
<1>1. /\ queue \ {e} \subseteq queue' /\ e \notin queue' /\ running'
      /\ Now' = e.time /\ last' = Sched!Key(e)
      /\ e.time \in Nat /\ Now \in Nat /\ Now <= e.time
  BY Handled
<1>2. up' = up /\ alive' = alive /\ delay' = delay
  BY HandlersKeepWorld
<1>3. Sourced'
  <2>1. ASSUME NEW f \in queue' \ queue, f.kind = "TxStart" PROVE f.signal.source = f.node
    <3>1. ~HandleTxStart(e)
      BY <2>1, StartPushes DEF ArrivalEvents
    <3>. QED
      BY <2>1, <3>1, PushesOf
  <2>. QED
    BY <2>1 DEF FlightInv, Sourced
<1>4. Between' /\ DeadUnplugged'
  BY <1>1, <1>2 DEF FlightInv, Between, DeadUnplugged
<1>5. ASSUME NEW f \in queue' \ queue, f.kind \in ArrivalEvents
      PROVE  /\ HandleTxStart(e) /\ f.signal = e.signal /\ f.signal.t0 = e.time
             /\ f.time > e.time /\ f.time = Due(f) /\ e.kind = "TxStart"
             /\ e.signal.source = e.node /\ e.node \in Node
  <2>1. HandleTxStart(e)
    BY <1>5, PushesOf
  <2>2. e.kind = "TxStart" /\ e.node \in Node /\ e.signal.t0 = e.time
    BY <2>1, StartPushes
  <2>3. e.signal.source = e.node
    BY <2>2 DEF FlightInv, Sourced
  <2>4. f.signal = e.signal /\ f.time > e.time /\ f.time = Due(f)
    BY <1>5, <2>1, StartPushes DEF ArrivalEvents
  <2>. QED
    BY <2>1, <2>2, <2>3, <2>4
<1>6. InFlight'
  <2> SUFFICES ASSUME NEW f \in queue', f.kind \in ArrivalEvents
               PROVE  f.signal.t0 <= Now' /\ f.signal.t0 < f.time
    BY DEF InFlight
  <2>1. CASE f \in queue
    <3>1. f.signal.t0 <= Now /\ f.signal.t0 < f.time /\ f.signal \in SignalSet
      BY <2>1, EntryTypes DEF FlightInv, InFlight, ArrivalEvents, SignalEvents, Wired
    <3>2. f.signal.t0 \in Nat
      BY <3>1 DEF SignalSet
    <3>. QED
      BY <1>1, <3>1, <3>2
  <2>2. CASE f \notin queue
    BY <1>1, <1>5, <2>2
  <2>. QED
    BY <2>1, <2>2
<1>7. Sounding'
  <2> SUFFICES ASSUME NEW f \in queue', f.kind \in ArrivalEvents, f.signal.t0 = Now'
               PROVE  /\ last'[2] = 3
                      /\ f.signal.source \notin alive' \/ IsTransmitting(f.signal.source)'
    BY DEF Sounding
  <2>1. CASE f \in queue
    BY <1>2, <2>1, StillSounding
  <2>2. CASE f \notin queue
    <3>1. HandleTxStart(e) /\ e.kind = "TxStart" /\ f.signal.source = e.node /\ e.node \in Node
      BY <1>5, <2>2
    <3>2. last'[2] = 3
      BY <1>1, <3>1, PhaseValues DEF Sched!Key
    <3>3. IsTransmitting(e.node)'
      BY <3>1, StateTypes DEF HandleTxStart, IsTransmitting, Transmitting, Wired
    <3>. QED
      BY <3>1, <3>2, <3>3
  <2>. QED
    BY <2>1, <2>2
<1>8. OnTime'
  <2> SUFFICES ASSUME NEW f \in queue', f.kind \in ArrivalEvents, f.signal.t0 = Now',
                      ~Settled(f.signal.source)'
               PROVE  f.time = Due(f)'
    BY DEF OnTime
  <2>0. Due(f)' = Due(f)
    BY <1>2 DEF Due, FrontTime
  <2>1. CASE f \notin queue
    BY <1>5, <2>0, <2>1
  <2>2. CASE f \in queue
    <3>. DEFINE s == f.signal.source
    <3>1. /\ Now' = Now /\ e.time = Now /\ Sched!PhaseOf(e.kind) = 3 /\ s \in Node
          /\ s \notin alive \/ IsTransmitting(s)'
      BY <2>2, StillSounding
    <3>2. Settled(s) \/ f.time = Due(f)
      BY <2>2, <3>1 DEF FlightInv, OnTime
    <3>3. ASSUME Settled(s), s \in alive PROVE FALSE
      <4>1. IsTransmitting(s) /\ StartsNoMore(s)
        BY <3>3 DEF Settled
      <4>2. ASSUME NEW g \in queue', g.time = Now'
            PROVE  g.kind \in Marks \cup {"TxStart"} /\ (g.kind = "TxStart" => g.node # s)
        <5>1. CASE g \in queue
          BY <3>1, <4>1, <4>2, <5>1 DEF StartsNoMore
        <5>2. CASE g \notin queue
          <6>1. ~HandleTxStart(e)
            <7>1. SUFFICES ASSUME HandleTxStart(e) PROVE FALSE
              OBVIOUS
            <7>2. g.time > e.time
              BY <5>2, <7>1, StartPushes
            <7>. QED
              BY <1>1, <4>2, <7>2
          <6>2. /\ e.kind # "TopologyChanged" /\ ~DropCancelled(e)
                /\ e.kind = "TxAttempt" => g.kind \in {"TxAttempt", "TxStart"}
                /\ g.kind = "TxStart" => /\ g.node = e.node
                                        /\ \/ e.kind = "JamStart"
                                           \/ e.kind = "TxAttempt" /\ ~IsBusy(e.node)
            BY <5>2, <6>1, PushesOf
          <6>3. e.kind \in Marks \cup {"TxStart"}
            BY <3>1, <4>1 DEF StartsNoMore
          <6>4. e.kind # "TxStart"
            BY <6>1, <6>2 DEF Handle, HandleTxAttempt, HandleTxEnd, HandleFrontArrive,
                 HandleBackArrive, HandleCollisionDetect, HandleJamStart, HandleJamEnd,
                 HandleBackoffExpire, HandleTopologyChanged, Pops
          <6>5. e.kind = "TxAttempt"
            BY <6>2, <6>3, <6>4 DEF Marks
          <6>6. g.kind = "TxStart" => g.node # s
            BY <4>1, <6>2, <6>5 DEF IsBusy, IsTransmitting
          <6>. QED
            BY <6>2, <6>5, <6>6 DEF Marks
        <5>. QED
          BY <5>1, <5>2
      <4>3. Settled(s)'
        BY <3>1, <3>3, <4>2 DEF Settled, StartsNoMore
      <4>. QED
        BY <4>3
    <3>4. s \in alive
      BY <1>2 DEF Settled
    <3>. QED
      BY <2>0, <3>2, <3>3, <3>4
  <2>. QED
    BY <2>1, <2>2
<1>. QED
  BY <1>3, <1>4, <1>6, <1>7, <1>8 DEF FlightInv

LEMMA HostKeepsFlight ==
  ASSUME Wired, FlightInv, Host PROVE FlightInv'
<1>1. PICK gone \in SUBSET Node, silenced \in SUBSET Node : Silences(gone, silenced)
  BY HostEffects
<1>2. /\ queue \subseteq queue' /\ last' = last /\ Now' = Now /\ alive' = alive \ gone
      /\ \A f \in queue' \ queue : f.kind \in Marks
      /\ \A f \in queue' : f.kind \notin Marks => f \in queue
      /\ \A n \in Node \ gone : IsTransmitting(n)' <=> IsTransmitting(n)
  BY <1>1 DEF Silences, Now, IsTransmitting
<1>3. Sourced'
  BY <1>2 DEF FlightInv, Sourced, Marks
<1>4. Between'
  <2>1. CASE ReturnFromRun
    <3>1. queue' = queue /\ \A f \in queue : f.time > Now
      BY <2>1 DEF ReturnFromRun, Sched!ReturnFromRun, Now, Sched!Now
    <3>2. Now \in Nat /\ \A f \in queue : f.time \in Nat
      BY EntryTypes DEF Wired, Ordinary, CsmaInv, TypeOK, QueueOK, Now
    <3>. QED
      BY <1>2, <3>1, <3>2 DEF Between
  <2>2. CASE StartRun
    BY <2>2 DEF StartRun, Sched!StartRun, Between
  <2>3. CASE ~ReturnFromRun /\ ~StartRun
    <3>1. ~running
      BY <2>3 DEF Host, ScheduleTxAttempt, RemoveSegment, AddSegment, RemoveNode,
         SetSegmentDelay, SetSegmentRate, SetMacConfig, HostPushes
    <3>. QED
      BY <1>2, <3>1 DEF FlightInv, Between
  <2>. QED
    BY <2>1, <2>2, <2>3
<1>5. DeadUnplugged'
  <2>1. CASE \E n \in Node : RemoveNode(n)
    BY <2>1 DEF RemoveNode, FlightInv, DeadUnplugged
  <2>2. CASE \E seg \in Segment : AddSegment(seg)
    BY <2>2 DEF AddSegment, FlightInv, DeadUnplugged
  <2>3. CASE \E seg \in Segment : RemoveSegment(seg)
    BY <2>3 DEF RemoveSegment, FlightInv, DeadUnplugged
  <2>4. CASE \/ \E o \in Offers : ScheduleTxAttempt(o[1], o[2], o[3])
             \/ \E seg \in Segment : SetSegmentDelay(seg)
             \/ \E seg \in Segment, r \in BitTimes : SetSegmentRate(seg, r)
             \/ \E n \in Node, c \in Configs : SetMacConfig(n, c)
             \/ StartRun \/ ReturnFromRun
    <3>1. up' = up /\ alive' = alive
      BY <2>4 DEF ScheduleTxAttempt, SetSegmentDelay, SetSegmentRate, SetMacConfig,
                  StartRun, ReturnFromRun, world
    <3>. QED
      BY <3>1 DEF FlightInv, DeadUnplugged
  <2>. QED
    BY <2>1, <2>2, <2>3, <2>4 DEF Host
<1>6. InFlight'
  BY <1>2 DEF FlightInv, InFlight, Marks, ArrivalEvents
<1>7. Sounding'
  <2> SUFFICES ASSUME NEW f \in queue', f.kind \in ArrivalEvents, f.signal.t0 = Now'
               PROVE  /\ last'[2] = 3
                      /\ f.signal.source \notin alive' \/ IsTransmitting(f.signal.source)'
    BY DEF Sounding
  <2>1. f \in queue
    BY <1>2 DEF Marks, ArrivalEvents
  <2>2. f.signal.source \in Node
    BY <2>1, EntryTypes DEF SignalSet, SignalEvents, ArrivalEvents, Wired
  <2>. QED
    BY <1>2, <2>1, <2>2 DEF FlightInv, Sounding
<1>8. OnTime'
  <2>1. CASE StartRun
    <3>1. queue' = queue /\ delay' = delay /\ state' = state /\ alive' = alive
      BY <2>1 DEF StartRun, Sched!StartRun, mac, world, settings
    <3>. QED
      BY <1>2, <3>1 DEF FlightInv, OnTime, Settled, StartsNoMore, IsTransmitting, Due, FrontTime
  <2>2. CASE ~running'
    BY <1>2, <1>4, <1>7, <2>2 DEF OnTime, Between, Sounding, Settled, StartsNoMore, Marks
  <2>3. ~running' \/ StartRun
    BY DEF Host, ScheduleTxAttempt, RemoveSegment, AddSegment, RemoveNode, SetSegmentDelay,
           SetSegmentRate, SetMacConfig, HostPushes, ReturnFromRun, Sched!ReturnFromRun
  <2>. QED
    BY <2>1, <2>2, <2>3
<1>. QED
  BY <1>3, <1>4, <1>5, <1>6, <1>7, <1>8 DEF FlightInv

LEMMA FlightAlways == ASSUME ~PastAllowed PROVE ObserveSpec => []FlightInv
<1>1. ObserveInit => FlightInv
  BY DEF ObserveInit, Init, Sched!SchedulerInit, FlightInv, Sourced, Between, DeadUnplugged,
         InFlight, Sounding, OnTime
<1>2. Wired /\ FlightInv /\ [ObserveNext]_observed => FlightInv'
  <2> SUFFICES ASSUME Wired, FlightInv, [ObserveNext]_observed PROVE FlightInv'
    OBVIOUS
  <2>1. CASE UNCHANGED observed
    BY <2>1 DEF observed, vars, mac, world, settings, FlightInv, Sourced, Between,
         DeadUnplugged, InFlight, Sounding, OnTime, Settled, StartsNoMore, IsTransmitting,
         Due, FrontTime, Now
  <2>. QED
    BY <2>1, HandlersKeepFlight, HostKeepsFlight DEF ObserveNext
<1>. QED
  BY <1>1, <1>2, Machine, PTL DEF ObserveSpec

---------------------------------------------------------------------------
(* Every trailing edge is queued or logged, each at its one time.          *)

IsBack(e) == e.kind = "BackArrive"
LoggedBacks == {log[i] : i \in {k \in DOMAIN log : IsBack(log[k])}}
Backs == {e \in queue : IsBack(e)} \cup LoggedBacks
SameEdge(b, c) == b.node = c.node /\ b.signal = c.signal

OneTime == \A b, c \in Backs : SameEdge(b, c) => b.time = c.time
LoggedLate == \A b \in LoggedBacks : b.signal.t0 < b.time

Attended(f) ==
  LET due == f.time + f.signal.dur
  IN  \/ \E b \in Backs : SameEdge(b, f) /\ b.time = due
      \/ LossReported(f.signal, due)

IsFront(e) == e.kind = "FrontArrive"
LoggedFronts == {log[i] : i \in {k \in DOMAIN log : IsFront(log[k])}}
FrontsAttended == \A f \in LoggedFronts : Attended(f)

ReceptionInv == OneTime /\ LoggedLate /\ FrontsAttended

(* What a handler does to the edges.                                       *)
LEMMA BacksAfter ==
  ASSUME Wired, LogTyped, NEW e \in queue, Handle(e), Logs(e)
  PROVE  /\ LoggedBacks' = IF IsBack(e) /\ Live(e) THEN LoggedBacks \cup {e} ELSE LoggedBacks
         /\ \A b \in Backs' : b \in Backs \/ (b \in queue' \ queue /\ IsBack(b))
         /\ \A b \in Backs : b \in Backs' \/ (b = e /\ ~Live(e))
         /\ \A sig, t : LossReported(sig, t) => LossReported(sig, t)'
         /\ (IsBack(e) /\ ~Live(e)) => LossReported(e.signal, e.time)'
<1>1. ASSUME NEW x \in LogEntry, log' = Append(log, x)
      PROVE  /\ LoggedBacks' = IF IsBack(x) THEN LoggedBacks \cup {x} ELSE LoggedBacks
             /\ \A sig, t : LossReported(sig, t) => LossReported(sig, t)'
             /\ x.kind = "SignalLost" => LossReported(x.signal, x.time)'
  <2>. DEFINE next == Len(log) + 1
  <2>1. /\ DOMAIN log' = DOMAIN log \cup {next} /\ next \notin DOMAIN log
        /\ \A i \in DOMAIN log : log'[i] = log[i]
        /\ log'[next] = x
    BY <1>1, OneMore
  <2>. HIDE DEF next
  <2>2. LoggedBacks' = IF IsBack(x) THEN LoggedBacks \cup {x} ELSE LoggedBacks
    BY <2>1 DEF LoggedBacks
  <2>. QED
    BY <2>1, <2>2 DEF LossReported
<1>2. IsBack(e) => e.kind \in SignalEvents
  BY DEF IsBack, SignalEvents
<1>3. /\ LostEntry(e).kind = "SignalLost" /\ LostEntry(e).signal = e.signal
      /\ LostEntry(e).time = e.time /\ ~IsBack(LostEntry(e))
  BY DEF LostEntry, IsBack
<1>4. LoggedBacks' = IF IsBack(e) /\ Live(e) THEN LoggedBacks \cup {e} ELSE LoggedBacks
  <2>1. CASE log' = log /\ ~Live(e)
    BY <2>1 DEF LoggedBacks
  <2>. QED
    BY <1>1, <1>3, <2>1, WhatIsLogged
<1>5. /\ \A sig, t : LossReported(sig, t) => LossReported(sig, t)'
      /\ (IsBack(e) /\ ~Live(e)) => LossReported(e.signal, e.time)'
  <2>1. CASE log' = log /\ ~IsBack(e)
    BY <2>1 DEF LossReported
  <2>. QED
    BY <1>1, <1>2, <1>3, <2>1, WhatIsLogged
<1>6. queue \ {e} \subseteq queue' /\ e \notin queue'
  BY Handled
<1>. QED
  BY <1>4, <1>5, <1>6 DEF Backs

(* The edges that a transmission adds, and those of the same signal that   *)
(* were there.                                                             *)
LEMMA NewBacksOnTime ==
  ASSUME Wired, LogTyped, FlightInv, LoggedLate, NEW e \in queue, Handle(e), Logs(e),
         NEW b \in queue' \ queue, IsBack(b),
         NEW c, c \in Backs \/ (c \in queue' \ queue /\ IsBack(c)), SameEdge(b, c)
  PROVE  c.time = b.time
<1>1. HandleTxStart(e)
  BY PushesOf DEF IsBack, ArrivalEvents
<1>2. /\ e.kind = "TxStart" /\ e.signal.t0 = e.time /\ e.signal.source = e.node
      /\ e.signal \in SignalSet /\ e.node \in Node
  BY <1>1, StartPushes DEF FlightInv, Sourced
<1>3. /\ b.kind = "BackArrive" /\ b.signal = e.signal /\ b.time = Due(b)
      /\ b.node \in Hears(e.node)
  BY <1>1, <1>2, StartPushes DEF IsBack
<1>4. Now \in Nat /\ e.time \in Nat /\ Now <= e.time
  BY Handled
<1>5. c.node = b.node /\ c.signal = b.signal
  BY DEF SameEdge
<1>6. CASE c \in queue' \ queue /\ IsBack(c)
  <2>1. c.time = Due(c) /\ c.kind = "BackArrive"
    BY <1>1, <1>6, StartPushes DEF IsBack
  <2>. QED
    BY <1>3, <1>5, <2>1 DEF Due
<1>7. CASE c \in LoggedBacks
  <2>1. PICK i \in DOMAIN log : c = log[i]
    BY <1>7 DEF LoggedBacks
  <2>2. c.time <= Now /\ c.time \in Nat
    <3>1. c \in LogEntry
      BY <2>1, LenProperties DEF LogTyped
    <3>. QED
      BY <2>1, <3>1, EntryFields DEF LogTyped, LogEntry
  <2>3. e.time < c.time
    BY <1>2, <1>3, <1>5, <1>7 DEF LoggedLate
  <2>. QED
    BY <1>4, <2>2, <2>3
<1>8. CASE c \in queue /\ IsBack(c)
  <2>1. c.kind = "BackArrive" /\ c.kind \in ArrivalEvents /\ c.signal.t0 <= Now
    BY <1>8 DEF IsBack, ArrivalEvents, FlightInv, InFlight
  <2>2. c.signal.t0 = Now /\ e.time = Now
    BY <1>2, <1>3, <1>4, <1>5, <2>1
  <2>3. Settled(e.node) \/ c.time = Due(c)
    BY <1>2, <1>3, <1>5, <1>8, <2>1, <2>2 DEF FlightInv, OnTime
  <2>4. e.node \in alive
    <3>1. Access[e.node] \in up
      BY <1>3, RouteAssumption DEF Hears
    <3>. QED
      BY <1>2, <3>1 DEF FlightInv, DeadUnplugged
  <2>5. ~Settled(e.node)
    BY <1>2, <2>2, <2>4 DEF Settled, StartsNoMore
  <2>. QED
    BY <1>3, <1>5, <2>1, <2>3, <2>5 DEF Due
<1>. QED
  BY <1>6, <1>7, <1>8 DEF Backs

LEMMA FrontsAfter ==
  ASSUME Wired, LogTyped, NEW e \in queue, Handle(e), Logs(e)
  PROVE  \A f \in LoggedFronts' : f \in LoggedFronts \/ (f = e /\ IsFront(e) /\ Live(e))
<1>1. CASE log' = log
  BY <1>1 DEF LoggedFronts
<1>2. ASSUME NEW x \in LogEntry, log' = Append(log, x)
      PROVE  \A f \in LoggedFronts' : f \in LoggedFronts \/ (f = x /\ IsFront(x))
  <2>. DEFINE next == Len(log) + 1
  <2>1. /\ DOMAIN log' = DOMAIN log \cup {next}
        /\ \A i \in DOMAIN log : log'[i] = log[i]
        /\ log'[next] = x
    BY <1>2, OneMore
  <2>. HIDE DEF next
  <2>. QED
    BY <2>1 DEF LoggedFronts
<1>3. ~IsFront(LostEntry(e))
  BY DEF LostEntry, IsFront
<1>. QED
  BY <1>1, <1>2, <1>3, WhatIsLogged

LEMMA HandlersKeepReception ==
  ASSUME Wired, LogTyped, FlightInv, ReceptionInv, NEW e \in queue, Handle(e), Logs(e)
  PROVE  ReceptionInv'
<1>1. OneTime'
  <2> SUFFICES ASSUME NEW b \in Backs', NEW c \in Backs', SameEdge(b, c)
               PROVE  b.time = c.time
    BY DEF OneTime, SameEdge
  <2>1. /\ b \in Backs \/ (b \in queue' \ queue /\ IsBack(b))
        /\ c \in Backs \/ (c \in queue' \ queue /\ IsBack(c))
    BY BacksAfter
  <2>2. SameEdge(c, b)
    BY DEF SameEdge
  <2>. QED
    BY <2>1, <2>2, NewBacksOnTime DEF ReceptionInv, OneTime
<1>2. LoggedLate'
  <2>1. IsBack(e) => e.signal.t0 < e.time
    BY DEF IsBack, FlightInv, InFlight, ArrivalEvents
  <2>. QED
    BY <2>1, BacksAfter DEF ReceptionInv, LoggedLate
<1>3. ASSUME NEW f, Attended(f) PROVE Attended(f)'
  <2>. DEFINE due == f.time + f.signal.dur
  <2>1. CASE LossReported(f.signal, due)
    BY <2>1, BacksAfter DEF Attended
  <2>2. ASSUME NEW b \in Backs, SameEdge(b, f), b.time = due PROVE Attended(f)'
    <3>1. CASE b \in Backs'
      BY <2>2, <3>1 DEF Attended, SameEdge
    <3>2. CASE b = e /\ ~Live(e) /\ IsBack(e)
      <4>1. LossReported(f.signal, due)'
        BY <2>2, <3>2, BacksAfter DEF SameEdge
      <4>. QED
        BY <4>1 DEF Attended
    <3>3. CASE b = e /\ ~Live(e) /\ ~IsBack(e)
      <4>1. b \in LoggedBacks
        BY <2>2, <3>3 DEF Backs
      <4>2. b \in Backs'
        BY <4>1, BacksAfter DEF Backs
      <4>. QED
        BY <3>1, <4>2
    <3>. QED
      BY <2>2, <3>1, <3>2, <3>3, BacksAfter
  <2>. QED
    BY <1>3, <2>1, <2>2 DEF Attended
<1>4. ASSUME e.kind = "FrontArrive", Live(e) PROVE Attended(e)'
  <2>1. PICK b \in queue : /\ b.kind = "BackArrive" /\ b.node = e.node
                           /\ b.signal = e.signal /\ b.time = e.time + e.signal.dur
    BY <1>4 DEF Wired, EditInv, EndsStayTogether
  <2>2. b \in Backs'
    BY <1>4, <2>1, Handled DEF Backs, IsBack
  <2>. QED
    BY <2>1, <2>2 DEF Attended, SameEdge
<1>5. ASSUME NEW f \in LoggedFronts' PROVE f \in LoggedFronts \/ (f = e /\ IsFront(e) /\ Live(e))
  BY FrontsAfter
<1>6. FrontsAttended'
  <2> SUFFICES ASSUME NEW f \in LoggedFronts' PROVE Attended(f)'
    BY DEF FrontsAttended
  <2>1. CASE f \in LoggedFronts
    BY <1>3, <2>1 DEF ReceptionInv, FrontsAttended
  <2>2. CASE f = e /\ IsFront(e) /\ Live(e)
    BY <1>4, <2>2 DEF IsFront
  <2>. QED
    BY <1>5, <2>1, <2>2
<1>. QED
  BY <1>1, <1>2, <1>6 DEF ReceptionInv

LEMMA HostKeepsReception ==
  ASSUME Wired, ReceptionInv, Host, log' = log PROVE ReceptionInv'
<1>1. PICK gone \in SUBSET Node, silenced \in SUBSET Node : Silences(gone, silenced)
  BY HostEffects
<1>2. Backs' = Backs /\ LoggedBacks' = LoggedBacks
  BY <1>1 DEF Silences, Marks, Backs, LoggedBacks, IsBack
<1>3. LoggedFronts' = LoggedFronts
  BY DEF LoggedFronts
<1>. QED
  BY <1>2, <1>3 DEF ReceptionInv, OneTime, LoggedLate, FrontsAttended, Attended, LossReported, SameEdge

LEMMA ReceptionAnswers ==
  ASSUME Wired, LogTyped, ReceptionInv PROVE ReceivedOrReportedLost
<1> SUFFICES ASSUME NEW i \in DOMAIN log, log[i].kind = "FrontArrive",
                    log[i].time + log[i].signal.dur < Now
             PROVE  LET n == log[i].node
                        sig == log[i].signal
                        due == log[i].time + sig.dur
                    IN  \/ ReceiveComplete(n, sig, due) /\ ~ReceiveComplete(n, sig, due - 1)
                        \/ LossReported(sig, due)
  BY DEF ReceivedOrReportedLost
<1>. DEFINE n == log[i].node
            sig == log[i].signal
            due == log[i].time + sig.dur
<1>1. \A j \in DOMAIN log : log[j] \in LogEntry
  BY LenProperties DEF LogTyped
<1>2. due \in Nat
  <2>1. log[i].time \in Nat /\ sig \in SignalSet
    BY <1>1, EntryFields DEF LogEntry, SignalEvents
  <2>. QED
    BY <2>1 DEF SignalSet
<1>3. SUFFICES ASSUME ~LossReported(sig, due)
               PROVE  ReceiveComplete(n, sig, due) /\ ~ReceiveComplete(n, sig, due - 1)
  OBVIOUS
<1>4. PICK b \in Backs : b.node = n /\ b.signal = sig /\ b.time = due
  <2>1. log[i] \in LoggedFronts
    BY DEF LoggedFronts, IsFront
  <2>. QED
    BY <1>3, <2>1 DEF ReceptionInv, FrontsAttended, Attended, SameEdge
<1>5. b \in LoggedBacks
  <2>1. ASSUME b \in queue PROVE FALSE
    BY <1>2, <1>4, <2>1, NowGrows DEF Wired
  <2>. QED
    BY <2>1 DEF Backs
<1>6. PICK k \in DOMAIN log : log[k] = b /\ IsBack(log[k])
  BY <1>5 DEF LoggedBacks
<1>7. ReceiveComplete(n, sig, due)
  <2>1. due <= due
    BY <1>2
  <2>. QED
    BY <1>4, <1>6, <2>1 DEF ReceiveComplete, AtNode, IsBack
<1>8. ASSUME ReceiveComplete(n, sig, due - 1) PROVE FALSE
  <2>1. PICK j \in DOMAIN log : /\ log[j].kind = "BackArrive" /\ log[j].node = n
                                /\ log[j].signal = sig /\ log[j].time <= due - 1
    BY <1>8 DEF ReceiveComplete, AtNode
  <2>2. log[j] \in Backs
    BY <2>1 DEF Backs, LoggedBacks, IsBack
  <2>3. log[j].time = due
    BY <1>4, <2>1, <2>2 DEF ReceptionInv, OneTime, SameEdge
  <2>. QED
    BY <1>2, <2>1, <2>3
<1>. QED
  BY <1>7, <1>8

(* receive_complete and the SignalLost entries of the log account for      *)
(* every signal whose leading edge has come to a station, each at the time *)
(* the trailing edge is due, whatever is edited while it is on its way     *)
(* (engine.rs, run_inner, cancel_arrivals_on_segment; observe.rs).         *)
THEOREM NeverSilentlyLost ==
  ASSUME ~PastAllowed PROVE ObserveSpec => []ReceivedOrReportedLost
<1>1. ObserveInit => ReceptionInv
  BY DEF ObserveInit, Init, Sched!SchedulerInit, ReceptionInv, OneTime, LoggedLate,
         FrontsAttended, Backs, LoggedBacks, LoggedFronts
<1>2. Wired /\ LogTyped /\ FlightInv /\ ReceptionInv /\ [ObserveNext]_observed => ReceptionInv'
  <2> SUFFICES ASSUME Wired, LogTyped, FlightInv, ReceptionInv, [ObserveNext]_observed
               PROVE  ReceptionInv'
    OBVIOUS
  <2>1. CASE UNCHANGED observed
    <3>1. queue' = queue /\ log' = log
      BY <2>1 DEF observed, vars
    <3>2. Backs' = Backs /\ LoggedBacks' = LoggedBacks /\ LoggedFronts' = LoggedFronts
      BY <3>1 DEF Backs, LoggedBacks, LoggedFronts
    <3>. QED
      BY <3>1, <3>2 DEF ReceptionInv, OneTime, LoggedLate, FrontsAttended, Attended,
                        LossReported
  <2>. QED
    BY <2>1, HandlersKeepReception, HostKeepsReception DEF ObserveNext
<1>3. Wired /\ LogTyped /\ ReceptionInv => ReceivedOrReportedLost
  BY ReceptionAnswers
<1>. QED
  BY <1>1, <1>2, <1>3, FlightAlways, LogTypedAlways, PTL DEF ObserveSpec

===============================================================================
