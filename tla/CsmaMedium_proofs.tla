-------------------------- MODULE CsmaMedium_proofs --------------------------
(***************************************************************************)
(* What stations know of the medium, for any topology, any frames and any  *)
(* edits: a station that sends a frame answers every foreign carrier at    *)
(* once (CollisionAnswered); while the topology stays as it is, the count  *)
(* of foreign carriers at every port is the number of signals that pass    *)
(* there (CarrierMatchesWire); and with frames of at least a round trip,   *)
(* a frame that counts as sent met no other signal anywhere in its domain  *)
(* (DeliveredUndisturbed).                                                 *)
(*                                                                         *)
(* The argument: between the decision to send and the TxStart nothing else *)
(* of the instant can bring a carrier, because only entries of the same    *)
(* last phase are taken in between (ClearToSend).  So a station that sends *)
(* a frame found the medium free, and a carrier can only come by a front   *)
(* that it handles while it sends; what the front triggers is handled      *)
(* before time goes on, since no entry of a later time is taken first.     *)
(*                                                                         *)
(* For the carriers: every front turns a signal that is under way to a     *)
(* port into one that passes it, and every back is that of a passing       *)
(* signal, so that counting up and down keeps pace with the set.           *)
(*                                                                         *)
(* For Theorem 1: a frame begins where nothing is heard (FramesWait), and  *)
(* ends undisturbed only if nothing was heard meanwhile (AllHeard).  Had   *)
(* another station begun early enough to disturb it, its signal would have *)
(* been heard before the round trip was over; had it begun later, it would *)
(* have heard the frame and waited (OneAfterTheOther).                     *)
(***************************************************************************)
EXTENDS CsmaCd_proofs

(* No carrier is ever counted at a port of a full-duplex cable.            *)
FdSilent == \A n \in Node : Access[n] \in FdSegment => foreign[n] = 0

(* A frame whose start at a station is queued starts at this instant, in   *)
(* its last phase, on a free medium.                                       *)
FrameStart(e) == e.kind = "TxStart" /\ e.node \in Node /\ e.signal.kind = "Frame"

ClearToSend ==
  \A e \in queue : FrameStart(e) => e.time = Now /\ last[2] = 3 /\ foreign[e.node] = 0

MediumInv == FdSilent /\ ClearToSend /\ CollisionAnswered

Answers(r, n) ==
  /\ r.kind \in {"CollisionDetect", "JamStart", "TxStart"}
  /\ r.node = n /\ r.time = Now /\ Live(r)
  /\ r.kind = "TxStart" => r.signal.kind = "Jam"

SendsFrame(n) == IsTransmitting(n) /\ state[n].signal.kind = "Frame"

(* What the argument needs to know of the engine.  The entries may be of   *)
(* any other kinds as well, those of a bridge for example (Relay_proofs).  *)
Orderly ==
  /\ MacOK
  /\ serial \in Nat /\ last \in Nat \X (0 .. 3) \X Int
  /\ \A e \in queue : e.time \in Nat /\ e.serial \in Nat
  /\ \A s \in cancelled : s < serial
  /\ Sched!KeysAhead

AtStation(e) == e.kind \in NodeEvents => e.node \in Node

LEMMA OrdinaryIsOrderly == Ordinary => Orderly
<1> SUFFICES ASSUME Ordinary PROVE Orderly
  OBVIOUS
<1>1. MacOK /\ serial \in Nat /\ last \in Nat \X (0 .. 3) \X Int /\ Sched!KeysAhead
      /\ cancelled \subseteq Nat
  BY DEF Ordinary, CsmaInv, TypeOK, QueueOK, KeysAhead
<1>2. \A e \in queue : e.time \in Nat /\ e.serial \in Nat
  BY EntryTypes
<1>3. \A s \in cancelled : s < serial
  BY <1>1, FreshIsLive
<1>. QED
  BY <1>1, <1>2, <1>3 DEF Orderly

LEMMA OrderlyTypes ==
  ASSUME Orderly
  PROVE  /\ foreign \in [Node -> Nat] /\ state \in [Node -> StateSet]
         /\ serial \in Nat /\ last[1] \in Nat /\ last[2] \in 0 .. 3
         /\ \A e \in queue : e.time \in Nat /\ e.serial \in Nat
         /\ \A e, f \in queue : e.serial = f.serial => e = f
BY DEF Orderly, MacOK, Sched!KeysAhead

LEMMA OrderlyInstant ==
  ASSUME Orderly, NEW e \in queue, Sched!IsTop(queue, e),
         NEW f \in queue, f.time = Now
  PROVE  e.time = Now /\ last[2] <= Sched!PhaseOf(e.kind) /\ Sched!PhaseOf(e.kind) \in 0 .. 3
<1>1. e.time \in Nat /\ Now \in Nat /\ last[2] \in 0 .. 3
  BY OrderlyTypes DEF Now
<1>2. f = e \/ Sched!Before(Sched!Key(e), Sched!Key(f))
  BY DEF Sched!IsTop
<1>3. Sched!Before(last, Sched!Key(e))
  BY DEF Orderly, Sched!KeysAhead
<1>. QED
  BY <1>1, <1>2, <1>3, PhaseRange DEF Sched!Before, Sched!Key, Now

LEMMA OrderlyPush ==
  ASSUME Orderly, cancelled' = cancelled, NEW r, r.serial \in Nat, r.serial >= serial
  PROVE  Live(r)'
BY DEF Orderly, Live

LEMMA AnsweredBy ==
  CollisionAnswered <=>
    \A n \in Node : SendsFrame(n) /\ foreign[n] > 0 => \E r \in queue : Answers(r, n)
BY DEF CollisionAnswered, SendsFrame, Answers

(* An answer stays queued until it is taken, and time does not pass it.    *)
LEMMA AnswerStays ==
  ASSUME Orderly, CollisionAnswered, NEW e \in queue, Sched!IsTop(queue, e),
         queue \ {e} \subseteq queue', cancelled' \subseteq cancelled,
         last' = Sched!Key(e),
         NEW n \in Node, SendsFrame(n), foreign[n] > 0, ~Answers(e, n)
  PROVE  \E r \in queue' : Answers(r, n)'
<1>1. PICK r \in queue : Answers(r, n)
  BY AnsweredBy
<1>2. r # e /\ r.time = Now
  BY <1>1 DEF Answers
<1>3. e.time = Now
  BY <1>2, OrderlyInstant
<1>4. Now' = Now
  BY <1>3 DEF Now, Sched!Key
<1>5. Answers(r, n)'
  BY <1>1, <1>4 DEF Answers, Live
<1>. QED
  BY <1>2, <1>5

---------------------------------------------------------------------------
(* ClearToSend.                                                            *)

StartsNoFrame(new) ==
  \A f \in new : ~FrameStart(f)

(* What a step leaves queued of it: no carrier comes in the last phase.    *)
LEMMA OldStartsStayClear ==
  ASSUME Orderly, ClearToSend, NEW e \in queue, Sched!IsTop(queue, e),
         last' = Sched!Key(e), e.kind # "FrontArrive" => \A n \in Node : foreign'[n] <= foreign[n],
         foreign' \in [Node -> Nat],
         NEW f \in queue, FrameStart(f)
  PROVE  f.time = Now' /\ last'[2] = 3 /\ foreign'[f.node] = 0
<1>1. f.time = Now /\ last[2] = 3 /\ foreign[f.node] = 0 /\ f.node \in Node
  BY DEF ClearToSend, FrameStart
<1>2. e.time = Now /\ Sched!PhaseOf(e.kind) = 3
  BY <1>1, OrderlyInstant
<1>3. Now' = Now /\ last'[2] = 3
  BY <1>2 DEF Now, Sched!Key
<1>4. e.kind # "FrontArrive"
  BY <1>2, PhaseValues
<1>. QED
  BY <1>1, <1>3, <1>4, OrderlyTypes

LEMMA StaysClear ==
  ASSUME Orderly, ClearToSend, NEW e \in queue, NEW kind, Pops(e, kind),
         NEW new, NEW k, Emits(e, new, k), StartsNoFrame(new),
         kind # "FrontArrive" => \A n \in Node : foreign'[n] <= foreign[n],
         foreign' \in [Node -> Nat]
  PROVE  ClearToSend'
<1> SUFFICES ASSUME NEW f \in queue', FrameStart(f)
             PROVE  f.time = Now' /\ last'[2] = 3 /\ foreign'[f.node] = 0
  BY DEF ClearToSend
<1>1. f \in queue
  BY PopFacts DEF StartsNoFrame
<1>. QED
  BY <1>1, PopFacts, OldStartsStayClear

LEMMA AttemptClears ==
  ASSUME Orderly, FdSilent, ClearToSend, NEW e \in queue, AtStation(e), HandleTxAttempt(e)
  PROVE  ClearToSend'
<1>1. Pops(e, "TxAttempt") /\ e.node \in Node /\ foreign' = foreign
      /\ foreign' \in [Node -> Nat] /\ foreign \in [Node -> Nat]
  BY OrderlyTypes DEF HandleTxAttempt, Pops, NodeEvents, AtStation
<1>2. \A n \in Node : foreign'[n] <= foreign[n]
  BY <1>1
<1>3. CASE Emits(e, {AttemptEntry(e.time + IfgTime(e.node), serial, e.node, e.frame)}, 1)
  <2>1. PICK new : new = {AttemptEntry(e.time + IfgTime(e.node), serial, e.node, e.frame)}
    OBVIOUS
  <2>2. StartsNoFrame(new)
    BY <2>1 DEF StartsNoFrame, FrameStart, AttemptEntry
  <2>. QED
    BY <1>1, <1>2, <1>3, <2>1, <2>2, StaysClear
<1>4. CASE /\ ~MustDefer(e.node)
           /\ Emits(e, {SignalEntry("TxStart", e.time, serial, e.node,
                                    FrameSignal(e.node, e.time, e.frame))}, 1)
  <2>1. foreign[e.node] = 0
    BY <1>1, <1>4 DEF MustDefer, OnFd, FdSilent
  <2>2. PICK g : g = SignalEntry("TxStart", e.time, serial, e.node,
                                 FrameSignal(e.node, e.time, e.frame))
    OBVIOUS
  <2>3. g.time = e.time /\ g.node = e.node
    BY <2>2 DEF SignalEntry
  <2>4. Emits(e, {g}, 1)
    BY <1>4, <2>2
  <2> SUFFICES ASSUME NEW f \in queue', FrameStart(f)
               PROVE  f.time = Now' /\ last'[2] = 3 /\ foreign'[f.node] = 0
    BY DEF ClearToSend
  <2>5. CASE f = g
    BY <1>1, <2>1, <2>3, <2>4, <2>5, PopFacts, PhaseValues
  <2>6. CASE f # g
    <3>1. f \in queue
      BY <1>1, <2>4, <2>6, PopFacts
    <3>. QED
      BY <1>1, <1>2, <2>4, <3>1, PopFacts, OldStartsStayClear
  <2>. QED
    BY <2>5, <2>6
<1>. QED
  BY <1>3, <1>4 DEF HandleTxAttempt

---------------------------------------------------------------------------
(* Answers.                                                                *)

(* A step that brings no carrier and starts no frame.                      *)
LEMMA AnswersKept ==
  ASSUME Orderly, FdSilent, CollisionAnswered, NEW e \in queue, Sched!IsTop(queue, e),
         queue \ {e} \subseteq queue', cancelled' \subseteq cancelled,
         last' = Sched!Key(e),
         foreign' \in [Node -> Nat], \A n \in Node : foreign'[n] <= foreign[n],
         \A n \in Node : SendsFrame(n)' => SendsFrame(n),
         \A n \in Node : (Answers(e, n) /\ SendsFrame(n)') =>
                            \E r \in queue' : Answers(r, n)'
  PROVE  FdSilent' /\ CollisionAnswered'
<1>1. FdSilent'
  BY OrderlyTypes DEF FdSilent
<1>2. ASSUME NEW n \in Node, SendsFrame(n)', foreign'[n] > 0
      PROVE  \E r \in queue' : Answers(r, n)'
  <2>1. SendsFrame(n) /\ foreign[n] > 0
    BY <1>2, OrderlyTypes
  <2>. QED
    BY <1>2, <2>1, AnswerStays
<1>3. CollisionAnswered'
  BY <1>2 DEF CollisionAnswered, SendsFrame, Answers
<1>. QED
  BY <1>1, <1>3

LEMMA QuietHandlersAnswer ==
  ASSUME Orderly, MediumInv, NEW e \in queue, AtStation(e),
         \/ HandleTxAttempt(e) \/ HandleTxEnd(e) \/ HandleBackArrive(e)
         \/ HandleJamEnd(e) \/ HandleBackoffExpire(e) \/ HandleTopologyChanged(e)
  PROVE  MediumInv'
<1>1. /\ e.kind \in {"TxAttempt", "TxEnd", "BackArrive", "JamEnd", "BackoffExpire",
                     "TopologyChanged"}
      /\ e.kind \in NodeEvents => e.node \in Node
      /\ \E new, k : Emits(e, new, k)
      /\ Pops(e, e.kind) /\ Orderly /\ FdSilent /\ ClearToSend /\ CollisionAnswered
  BY OrderlyTypes DEF HandleTxAttempt, HandleTxEnd, HandleBackArrive, HandleJamEnd,
     HandleBackoffExpire, HandleTopologyChanged, Pops, MediumInv, AtStation
<1>2. foreign' \in [Node -> Nat] /\ \A n \in Node : foreign'[n] <= foreign[n]
  <2>1. foreign \in [Node -> Nat]
    BY <1>1, OrderlyTypes
  <2>2. CASE HandleBackArrive(e)
    <3>1. \A n \in Nat : CarrierDropped(n) \in Nat /\ CarrierDropped(n) <= n
      BY DEF CarrierDropped
    <3>2. foreign' = foreign \/ foreign' = [foreign EXCEPT ![e.node] = CarrierDropped(@)]
      BY <2>2 DEF HandleBackArrive
    <3>. QED
      BY <2>1, <3>1, <3>2
  <2>3. CASE ~HandleBackArrive(e)
    BY <2>1, <2>3 DEF HandleTxAttempt, HandleTxEnd, HandleJamEnd, HandleBackoffExpire,
                      HandleTopologyChanged, mac
  <2>. QED
    BY <2>2, <2>3
<1>3. \A n \in Node : SendsFrame(n)' => SendsFrame(n)
  <2>1. state \in [Node -> StateSet]
    BY <1>1, OrderlyTypes
  <2>2. CASE HandleTxEnd(e)
    <3>1. CASE state' = [state EXCEPT ![e.node] = Idle]
      BY <2>1, <3>1 DEF SendsFrame, IsTransmitting, Idle
    <3>2. CASE state' = [state EXCEPT ![e.node] = BackingOff(@.attempt + 1)]
      BY <2>1, <3>2 DEF SendsFrame, IsTransmitting, BackingOff
    <3>3. CASE state' = state
      BY <3>3 DEF SendsFrame, IsTransmitting
    <3>. QED
      BY <2>2, <3>1, <3>2, <3>3 DEF HandleTxEnd
  <2>3. CASE HandleJamEnd(e)
    BY <2>1, <2>3 DEF HandleJamEnd, SendsFrame, IsTransmitting, Idle, BackingOff
  <2>4. CASE HandleBackoffExpire(e)
    BY <2>1, <2>4 DEF HandleBackoffExpire, SendsFrame, IsTransmitting, Idle
  <2>5. CASE HandleTxAttempt(e) \/ HandleBackArrive(e) \/ HandleTopologyChanged(e)
    BY <2>5 DEF HandleTxAttempt, HandleBackArrive, HandleTopologyChanged, mac,
                SendsFrame, IsTransmitting
  <2>. QED
    BY <2>2, <2>3, <2>4, <2>5
<1>4. \A n \in Node : ~Answers(e, n)
  BY <1>1 DEF Answers
<1>5. FdSilent' /\ CollisionAnswered'
  BY <1>1, <1>2, <1>3, <1>4, PopFacts, AnswersKept
<1>6. ClearToSend'
  <2>1. CASE HandleTxAttempt(e)
    BY <1>1, <2>1, AttemptClears
  <2>2. CASE ~HandleTxAttempt(e)
    <3>1. PICK new, k : Emits(e, new, k) /\ StartsNoFrame(new)
      <4>1. \A t, n, a : /\ StartsNoFrame({BackoffEntry(t, serial, n, a)})
                         /\ StartsNoFrame({AttemptEntry(t, serial, n, a)})
        BY DEF StartsNoFrame, FrameStart, BackoffEntry, AttemptEntry
      <4>2. StartsNoFrame({})
        BY DEF StartsNoFrame, FrameStart
      <4>3. \/ Emits(e, {}, 0)
            \/ \E t, n, a : Emits(e, {BackoffEntry(t, serial, n, a)}, 1)
            \/ \E t, n, a : Emits(e, {AttemptEntry(t, serial, n, a)}, 1)
        <5>1. CASE HandleTxEnd(e) \/ HandleBackArrive(e) \/ HandleTopologyChanged(e)
          BY <5>1 DEF HandleTxEnd, HandleBackArrive, HandleTopologyChanged
        <5>2. CASE HandleJamEnd(e)
          BY <5>2 DEF HandleJamEnd
        <5>3. CASE HandleBackoffExpire(e)
          BY <5>3 DEF HandleBackoffExpire
        <5>. QED
          BY <2>2, <5>1, <5>2, <5>3
      <4>. QED
        BY <4>1, <4>2, <4>3
    <3>2. e.kind # "FrontArrive"
      BY <1>1
    <3>. QED
      BY <1>1, <1>2, <3>1, <3>2, StaysClear
  <2>. QED
    BY <2>1, <2>2
<1>. QED
  BY <1>5, <1>6 DEF MediumInv

(* Detection is answered by a jam's start, and that by the jam itself.     *)
LEMMA ReactionsAnswer ==
  ASSUME Orderly, MediumInv, NEW e \in queue, AtStation(e),
         HandleCollisionDetect(e) \/ HandleJamStart(e)
  PROVE  MediumInv'
<1>1. /\ e.kind \in {"CollisionDetect", "JamStart"} /\ e.node \in Node
      /\ Pops(e, e.kind) /\ Orderly /\ FdSilent /\ ClearToSend /\ CollisionAnswered
      /\ foreign' = foreign /\ state' = state
      /\ foreign \in [Node -> Nat] /\ serial \in Nat
  BY OrderlyTypes DEF HandleCollisionDetect, HandleJamStart, Pops, MediumInv, mac,
                    NodeEvents, SignalEvents, JamEvents, AtStation
<1>2. PICK new, k : /\ Emits(e, new, k) /\ StartsNoFrame(new)
                    /\ SendsFrame(e.node) =>
                         \E r \in new : /\ r.kind \in {"JamStart", "TxStart"}
                                        /\ r.node = e.node /\ r.time = e.time
                                        /\ r.serial = serial
                                        /\ r.kind = "TxStart" => r.signal.kind = "Jam"
  <2>1. CASE HandleCollisionDetect(e)
    <3>1. CASE SendsFrame(e.node)
      <4>1. Emits(e, {JamEntry("JamStart", e.time, serial, e.node)}, 1)
        BY <2>1, <3>1 DEF HandleCollisionDetect, SendsFrame
      <4>2. PICK j : j = JamEntry("JamStart", e.time, serial, e.node)
        OBVIOUS
      <4>3. /\ j.kind = "JamStart" /\ j.node = e.node /\ j.time = e.time
            /\ j.serial = serial
        BY <4>2 DEF JamEntry
      <4>4. StartsNoFrame({j})
        BY <4>3 DEF StartsNoFrame, FrameStart
      <4>5. Emits(e, {j}, 1)
        BY <4>1, <4>2
      <4>. QED
        BY <4>3, <4>4, <4>5
    <3>2. CASE ~SendsFrame(e.node)
      <4>1. Emits(e, {}, 0)
        BY <2>1, <3>2 DEF HandleCollisionDetect, SendsFrame
      <4>. QED
        BY <3>2, <4>1 DEF StartsNoFrame, FrameStart
    <3>. QED
      BY <3>1, <3>2
  <2>2. CASE HandleJamStart(e)
    <3>. DEFINE r == SignalEntry("TxStart", e.time, serial, e.node,
                                 JamSignal(e.node, e.time))
                j == JamEntry("JamEnd", e.time + JamTime(e.node), serial + 1, e.node)
    <3>1. Emits(e, {r, j}, 2)
      BY <2>2 DEF HandleJamStart
    <3>2. /\ r.kind = "TxStart" /\ r.node = e.node /\ r.time = e.time /\ r.serial = serial
          /\ r.signal.kind = "Jam" /\ j.kind = "JamEnd"
      BY DEF SignalEntry, JamEntry, JamSignal, Signal
    <3>. HIDE DEF r, j
    <3>3. StartsNoFrame({r, j})
      BY <3>2 DEF StartsNoFrame, FrameStart
    <3>. QED
      BY <3>1, <3>2, <3>3
  <2>. QED
    BY <2>1, <2>2
<1>3. \A n \in Node : SendsFrame(n)' => SendsFrame(n)
  BY <1>1 DEF SendsFrame, IsTransmitting
<1>4. ASSUME NEW n \in Node, Answers(e, n), SendsFrame(n)'
      PROVE  \E r \in queue' : Answers(r, n)'
  <2>1. n = e.node /\ SendsFrame(e.node)
    BY <1>3, <1>4 DEF Answers
  <2>2. PICK r \in new : /\ r.kind \in {"JamStart", "TxStart"}
                         /\ r.node = e.node /\ r.time = e.time /\ r.serial = serial
                         /\ r.kind = "TxStart" => r.signal.kind = "Jam"
    BY <1>2, <2>1
  <2>3. Live(r)' /\ Now' = e.time /\ r \in queue'
    BY <1>1, <1>2, <2>2, PopFacts, OrderlyPush
  <2>. QED
    BY <2>1, <2>2, <2>3 DEF Answers
<1>5. FdSilent' /\ CollisionAnswered'
  BY <1>1, <1>2, <1>3, <1>4, PopFacts, AnswersKept
<1>6. ClearToSend'
  BY <1>1, <1>2, StaysClear
<1>. QED
  BY <1>5, <1>6 DEF MediumInv

(* A front that meets a transmission is answered by a detection.           *)
LEMMA FrontAnswers ==
  ASSUME Orderly, MediumInv, NEW e \in queue, AtStation(e), HandleFrontArrive(e),
         Access[e.node] \in FdSegment => OnFd(e.node)
  PROVE  MediumInv'
<1>1. /\ e.kind = "FrontArrive" /\ e.node \in Node /\ Live(e)
      /\ Pops(e, "FrontArrive") /\ Orderly /\ FdSilent /\ ClearToSend
      /\ CollisionAnswered /\ state' = state
      /\ foreign \in [Node -> Nat] /\ serial \in Nat
  BY OrderlyTypes DEF HandleFrontArrive, Pops, MediumInv, Live,
                    NodeEvents, SignalEvents, AtStation
<1>2. \A n \in Node : ~Answers(e, n)
  BY <1>1 DEF Answers
<1>3. \A n \in Node : SendsFrame(n)' => SendsFrame(n)
  BY <1>1 DEF SendsFrame, IsTransmitting
<1>4. CASE OnFd(e.node)
  <2>1. Emits(e, {}, 0) /\ foreign' = foreign /\ StartsNoFrame({})
    BY <1>1, <1>4 DEF HandleFrontArrive, StartsNoFrame
  <2>2. FdSilent' /\ CollisionAnswered'
    BY <1>1, <1>2, <1>3, <2>1, PopFacts, AnswersKept
  <2>3. ClearToSend'
    BY <1>1, <2>1, StaysClear
  <2>. QED
    BY <2>2, <2>3 DEF MediumInv
<1>5. CASE ~OnFd(e.node)
  <2>1. Emits(e, Reactions(e), 1) /\ foreign' = [foreign EXCEPT ![e.node] = @ + 1]
    BY <1>5 DEF HandleFrontArrive
  <2>2. foreign' \in [Node -> Nat]
    BY <1>1, <2>1
  <2>3. Access[e.node] \notin FdSegment
    BY <1>5
  <2>4. FdSilent'
    BY <1>1, <2>1, <2>3 DEF FdSilent
  <2>5. StartsNoFrame(Reactions(e))
    BY DEF StartsNoFrame, FrameStart, Reactions, SignalEntry
  <2>6. ClearToSend'
    BY <1>1, <2>1, <2>2, <2>5, StaysClear
  <2>7. ASSUME NEW n \in Node, SendsFrame(n)', foreign'[n] > 0
        PROVE  \E r \in queue' : Answers(r, n)'
    <3>1. SendsFrame(n)
      BY <1>3, <2>7
    <3>2. CASE n = e.node
      <4>1. PICK r : r = SignalEntry("CollisionDetect", e.time, serial, e.node,
                                     state[e.node].signal)
        OBVIOUS
      <4>2. /\ r.kind = "CollisionDetect" /\ r.node = n /\ r.time = e.time
            /\ r.serial = serial
        BY <3>2, <4>1 DEF SignalEntry
      <4>3. r \in Reactions(e)
        BY <3>1, <3>2, <4>1 DEF Reactions, SendsFrame
      <4>4. Live(r)' /\ Now' = e.time /\ r \in queue'
        BY <1>1, <2>1, <4>2, <4>3, PopFacts, OrderlyPush
      <4>. QED
        BY <4>2, <4>4 DEF Answers
    <3>3. CASE n # e.node
      <4>1. foreign[n] > 0
        BY <1>1, <2>1, <2>7, <3>3
      <4>. QED
        BY <1>1, <1>2, <2>1, <3>1, <4>1, PopFacts, AnswerStays
    <3>. QED
      BY <3>2, <3>3
  <2>8. CollisionAnswered'
    BY <2>7 DEF CollisionAnswered, SendsFrame, Answers
  <2>. QED
    BY <2>4, <2>6, <2>8 DEF MediumInv
<1>. QED
  BY <1>4, <1>5

(* A frame starts on a free medium; a jam needs no answer.                 *)
LEMMA StartAnswers ==
  ASSUME Orderly, MediumInv, NEW e \in queue, AtStation(e), HandleTxStart(e)
  PROVE  MediumInv'
<1>1. /\ e.kind = "TxStart" /\ e.node \in Node
      /\ Pops(e, "TxStart") /\ Orderly /\ FdSilent /\ ClearToSend
      /\ CollisionAnswered /\ foreign' = foreign
      /\ foreign \in [Node -> Nat] /\ state \in [Node -> StateSet]
      /\ state' = [state EXCEPT ![e.node] = Transmitting(e.signal, @.attempt)]
  BY OrderlyTypes DEF HandleTxStart, Pops, MediumInv, NodeEvents, SignalEvents, AtStation
<1>2. PICK new, k : Emits(e, new, k) /\ StartsNoFrame(new)
  <2>1. StartsNoFrame(Arrivals(e.signal)
                      \cup {SignalEntry("TxEnd", e.signal.t0 + e.signal.dur,
                                        serial + 2 * NumNodes, e.node, e.signal)})
    BY DEF StartsNoFrame, FrameStart, Arrivals, SignalEntry
  <2>. QED
    BY <2>1 DEF HandleTxStart
<1>3. FdSilent'
  BY <1>1 DEF FdSilent
<1>4. ClearToSend'
  BY <1>1, <1>2, StaysClear
<1>5. ASSUME NEW n \in Node, SendsFrame(n)', foreign'[n] > 0
      PROVE  \E r \in queue' : Answers(r, n)'
  <2>1. n # e.node
    <3>1. SUFFICES ASSUME n = e.node PROVE FALSE
      OBVIOUS
    <3>2. e.signal.kind = "Frame"
      BY <1>1, <1>5, <3>1 DEF SendsFrame, Transmitting
    <3>. QED
      BY <1>1, <1>5, <3>1, <3>2 DEF ClearToSend, FrameStart
  <2>2. SendsFrame(n) /\ foreign[n] > 0 /\ ~Answers(e, n)
    BY <1>1, <1>5, <2>1 DEF SendsFrame, IsTransmitting, Answers
  <2>. QED
    BY <1>1, <1>2, <2>2, PopFacts, AnswerStays
<1>6. CollisionAnswered'
  BY <1>5 DEF CollisionAnswered, SendsFrame, Answers
<1>. QED
  BY <1>3, <1>4, <1>6 DEF MediumInv

LEMMA DropAnswers ==
  ASSUME Orderly, MediumInv, NEW e \in queue, DropCancelled(e)
  PROVE  MediumInv'
<1>1. /\ queue' = queue \ {e} /\ cancelled' = cancelled \ {e.serial}
      /\ last' = Sched!Key(e) /\ Sched!IsTop(queue, e) /\ ~Live(e)
      /\ foreign' = foreign /\ state' = state
      /\ Orderly /\ FdSilent /\ ClearToSend /\ CollisionAnswered
      /\ foreign \in [Node -> Nat]
  BY OrderlyTypes DEF DropCancelled, Sched!Skip, Live, mac, MediumInv
<1>2. \A n \in Node : (SendsFrame(n)' => SendsFrame(n)) /\ ~Answers(e, n)
  BY <1>1 DEF SendsFrame, IsTransmitting, Answers
<1>3. FdSilent' /\ CollisionAnswered'
  BY <1>1, <1>2, AnswersKept
<1>4. ClearToSend'
  <2> SUFFICES ASSUME NEW f \in queue', FrameStart(f)
               PROVE  f.time = Now' /\ last'[2] = 3 /\ foreign'[f.node] = 0
    BY DEF ClearToSend
  <2>. QED
    BY <1>1, OldStartsStayClear
<1>. QED
  BY <1>3, <1>4 DEF MediumInv

---------------------------------------------------------------------------
(* Host calls: nothing is sent or heard, and of the reactions only those   *)
(* of a removed station go.                                                *)

LEMMA HostAnswers ==
  ASSUME Orderly, MediumInv, NEW new, queue' = queue \cup new, StartsNoFrame(new),
         last' = last, NEW gone \in SUBSET Node,
         foreign' = [n \in Node |-> IF n \in gone THEN 0 ELSE foreign[n]],
         \A n \in Node \ gone : state'[n] = state[n],
         \A n \in gone : state'[n] = Idle,
         \A g \in queue : (g.kind \in {"CollisionDetect", "JamStart", "TxStart"}
                           /\ g.node \notin gone) => (Live(g) => Live(g)')
  PROVE  MediumInv'
<1>1. Orderly /\ FdSilent /\ ClearToSend /\ CollisionAnswered /\ foreign \in [Node -> Nat]
  BY OrderlyTypes DEF MediumInv
<1>2. FdSilent'
  BY <1>1 DEF FdSilent
<1>3. ClearToSend'
  <2> SUFFICES ASSUME NEW f \in queue', FrameStart(f)
               PROVE  f.time = Now' /\ last'[2] = 3 /\ foreign'[f.node] = 0
    BY DEF ClearToSend
  <2>1. f \in queue
    BY DEF StartsNoFrame, FrameStart
  <2>2. f.node \in Node
    BY DEF FrameStart
  <2>. QED
    BY <1>1, <2>1, <2>2 DEF ClearToSend, Now
<1>4. ASSUME NEW n \in Node, SendsFrame(n)', foreign'[n] > 0
      PROVE  \E r \in queue' : Answers(r, n)'
  <2>1. n \notin gone
    BY <1>1, <1>4
  <2>2. SendsFrame(n) /\ foreign[n] > 0
    BY <1>4, <2>1 DEF SendsFrame, IsTransmitting
  <2>3. PICK r \in queue : Answers(r, n)
    BY <1>1, <2>2, AnsweredBy
  <2>4. Answers(r, n)'
    BY <2>1, <2>3 DEF Answers, Now
  <2>. QED
    BY <2>3, <2>4
<1>5. CollisionAnswered'
  BY <1>4 DEF CollisionAnswered, SendsFrame, Answers
<1>. QED
  BY <1>2, <1>3, <1>5 DEF MediumInv

LEMMA MarkersStartNothing ==
  /\ StartsNoFrame({EditEntry(Now, serial)})
  /\ \A c : StartsNoFrame({EditEntry(Now, serial + i) : i \in 0 .. c})
BY DEF StartsNoFrame, FrameStart, EditEntry

(* Edits that leave every station in the world.                            *)
LEMMA MildCallsAnswer ==
  ASSUME Orderly, MediumInv,
         \/ \E o \in Offers : ScheduleTxAttempt(o[1], o[2], o[3])
         \/ \E seg \in Segment : \/ RemoveSegment(seg) \/ AddSegment(seg)
                                 \/ SetSegmentDelay(seg)
         \/ \E seg \in Segment, r \in BitTimes : SetSegmentRate(seg, r)
         \/ \E n \in Node, c \in Configs : SetMacConfig(n, c)
  PROVE  MediumInv'
<1>1. Orderly /\ foreign \in [Node -> Nat] /\ state \in [Node -> StateSet]
  BY OrderlyTypes
<1>2. PICK new : queue' = queue \cup new /\ StartsNoFrame(new)
  <2>1. CASE \E o \in Offers : ScheduleTxAttempt(o[1], o[2], o[3])
    <3>1. PICK o \in Offers : ScheduleTxAttempt(o[1], o[2], o[3])
      BY <2>1
    <3>2. StartsNoFrame({AttemptEntry(o[1], serial, o[2], o[3])})
      BY DEF StartsNoFrame, FrameStart, AttemptEntry
    <3>. QED
      BY <3>1, <3>2 DEF ScheduleTxAttempt, HostPushes
  <2>2. CASE ~\E o \in Offers : ScheduleTxAttempt(o[1], o[2], o[3])
    <3>1. queue' = queue \cup {EditEntry(Now, serial)}
      BY <2>2 DEF RemoveSegment, AddSegment, SetSegmentDelay, SetSegmentRate,
                  SetMacConfig, HostPushes
    <3>. QED
      BY <3>1, MarkersStartNothing
  <2>. QED
    BY <2>1, <2>2
<1>3. last' = last /\ foreign' = foreign /\ state' = state
  <2>1. CASE \E o \in Offers : ScheduleTxAttempt(o[1], o[2], o[3])
    BY <2>1 DEF ScheduleTxAttempt, HostPushes, mac
  <2>2. CASE \E seg \in Segment : RemoveSegment(seg) \/ AddSegment(seg)
    BY <2>2 DEF RemoveSegment, AddSegment, HostPushes, mac
  <2>3. CASE \E seg \in Segment : SetSegmentDelay(seg)
    BY <2>3 DEF SetSegmentDelay, HostPushes, mac
  <2>4. CASE \E seg \in Segment, r \in BitTimes : SetSegmentRate(seg, r)
    BY <2>4 DEF SetSegmentRate, HostPushes, mac
  <2>5. CASE \E n \in Node, c \in Configs : SetMacConfig(n, c)
    BY <2>5 DEF SetMacConfig, HostPushes, mac
  <2>. QED
    BY <2>1, <2>2, <2>3, <2>4, <2>5
<1>4. ASSUME NEW g \in queue, g.kind \in {"CollisionDetect", "JamStart", "TxStart"}, Live(g)
      PROVE  Live(g)'
  <2>1. CASE \E seg \in Segment : RemoveSegment(seg)
    <3>1. PICK seg \in Segment : RemoveSegment(seg)
      BY <2>1
    <3>2. cancelled' = cancelled \cup ArrivalsOn({seg})
      BY <3>1 DEF RemoveSegment
    <3>3. g.serial \notin ArrivalsOn({seg})
      BY <1>1, <1>4, OrderlyTypes DEF ArrivalsOn, ArrivalEvents
    <3>. QED
      BY <1>4, <3>2, <3>3 DEF Live
  <2>2. CASE ~\E seg \in Segment : RemoveSegment(seg)
    <3>1. cancelled' = cancelled
      BY <2>2 DEF ScheduleTxAttempt, AddSegment, SetSegmentDelay, SetSegmentRate,
                  SetMacConfig
    <3>. QED
      BY <1>4, <3>1 DEF Live
  <2>. QED
    BY <2>1, <2>2
<1>5. foreign' = [n \in Node |-> IF n \in {} THEN 0 ELSE foreign[n]] /\ {} \in SUBSET Node
  BY <1>1, <1>3
<1>. QED
  BY <1>1, <1>2, <1>3, <1>4, <1>5, HostAnswers

LEMMA RemovalAnswers ==
  ASSUME Orderly, MediumInv, NEW n \in Node, RemoveNode(n)
  PROVE  MediumInv'
<1>. DEFINE incident == {Access[n]} \cap up
            c == Cardinality(incident)
            new == {EditEntry(Now, serial + i) : i \in 0 .. c}
<1>1. Orderly /\ foreign \in [Node -> Nat] /\ state \in [Node -> StateSet]
  BY OrderlyTypes
<1>2. /\ queue' = queue \cup new /\ last' = last
      /\ cancelled' = cancelled \cup ArrivalsOn(incident) \cup EventsOf(n)
      /\ state' = [state EXCEPT ![n] = Idle]
      /\ foreign' = [foreign EXCEPT ![n] = 0]
  BY DEF RemoveNode, HostPushes
<1>3. ASSUME NEW g \in queue, g.kind \in {"CollisionDetect", "JamStart", "TxStart"},
             g.node \notin {n}, Live(g)
      PROVE  Live(g)'
  <2>1. g.serial \notin ArrivalsOn(incident) /\ g.serial \notin EventsOf(n)
    BY <1>1, <1>3, OrderlyTypes DEF ArrivalsOn, ArrivalEvents, EventsOf
  <2>. QED
    BY <1>2, <1>3, <2>1 DEF Live
<1>4. StartsNoFrame(new)
  BY MarkersStartNothing
<1>. HIDE DEF new, c, incident
<1>5. /\ foreign' = [m \in Node |-> IF m \in {n} THEN 0 ELSE foreign[m]]
      /\ {n} \in SUBSET Node
      /\ \A m \in Node \ {n} : state'[m] = state[m]
      /\ \A m \in {n} : state'[m] = Idle
  BY <1>1, <1>2
<1>. QED
  BY <1>2, <1>3, <1>4, <1>5, HostAnswers

(* A handler of a station.                                                 *)
LEMMA HandlersAnswer ==
  ASSUME Orderly, MediumInv, NEW e \in queue, AtStation(e), Handle(e),
         (HandleFrontArrive(e) /\ Access[e.node] \in FdSegment) => OnFd(e.node)
  PROVE  MediumInv'
BY QuietHandlersAnswer, ReactionsAnswer, FrontAnswers, StartAnswers, DropAnswers DEF Handle

LEMMA MediumRests ==
  ASSUME MediumInv, UNCHANGED <<queue, last, cancelled, foreign, state>> PROVE MediumInv'
BY DEF MediumInv, FdSilent, ClearToSend, FrameStart, CollisionAnswered, IsTransmitting, Live, Now

LEMMA MediumStep ==
  ASSUME Wired, MediumInv, [Next]_vars PROVE MediumInv'
<1>1. Orderly
  BY OrdinaryIsOrderly DEF Wired
<1>2. ASSUME NEW e \in queue, Handle(e) PROVE MediumInv'
  <2>1. AtStation(e)
    BY EntryTypes DEF Wired, AtStation
  <2>2. (HandleFrontArrive(e) /\ Access[e.node] \in FdSegment) => OnFd(e.node)
    BY DEF HandleFrontArrive, Pops, Wired, EditInv, UnpluggedHearsNothing, OnFd, ArrivalEvents,
           Live
  <2>. QED
    BY <1>1, <1>2, <2>1, <2>2, HandlersAnswer
<1>3. CASE StartRun \/ ReturnFromRun \/ UNCHANGED vars
  <2>1. UNCHANGED <<queue, last, cancelled, foreign, state>>
    BY <1>3 DEF StartRun, ReturnFromRun, Sched!StartRun, Sched!ReturnFromRun, vars, mac
  <2>. QED
    BY <2>1, MediumRests
<1>. QED
  BY <1>1, <1>2, <1>3, MildCallsAnswer, RemovalAnswers DEF Next, Host

LEMMA MediumStarts == Init => MediumInv
BY DEF Init, Sched!SchedulerInit, MediumInv, FdSilent, ClearToSend, CollisionAnswered,
       IsTransmitting, Idle

LEMMA MediumInvAlways == ASSUME ~PastAllowed PROVE Spec => []MediumInv
<1>1. Init => MediumInv
  BY MediumStarts
<1>2. Wired /\ MediumInv /\ [Next]_vars => MediumInv'
  BY MediumStep
<1>3. Spec => []CsmaInv
  BY CsmaInit, CsmaStep, PTL DEF Spec
<1>4. CsmaInv /\ KeysAhead /\ TombstonesQueued /\ EditInv => Wired
  BY DEF Wired, Ordinary
<1>. QED
  BY <1>1, <1>2, <1>3, <1>4, KeysAheadAlways, TombstonesAlwaysQueued, EditsKeepInv, PTL
     DEF Spec

(* Theorem 2 of the engine's documentation: a station that is sending a    *)
(* frame notices every foreign carrier in the instant in which it comes,   *)
(* and gives up the frame in that instant, however many signals meet and   *)
(* whatever edits came before (engine.rs, handle_tx_attempt,               *)
(* handle_front_arrive, handle_collision_detect, handle_jam_start).        *)
THEOREM CollisionsAlwaysAnswered == ASSUME ~PastAllowed PROVE Spec => []CollisionAnswered
<1>1. MediumInv => CollisionAnswered
  BY DEF MediumInv
<1>. QED
  BY <1>1, MediumInvAlways, PTL

---------------------------------------------------------------------------
(* Carrier counts, as long as the topology is left alone.                  *)

CarrierInv ==
  /\ cancelled = {}
  /\ edits \in Nat
  /\ \A n \in Node : IsFiniteSet(PassingBy(n))
  /\ CarrierMatchesWire

FrontOf(b) == {f \in queue : f.kind = "FrontArrive" /\ f.serial = b.serial - 1}

LEMMA PassingIs ==
  ASSUME CarrierInv, NEW n \in Node
  PROVE  PassingBy(n) =
           {b \in queue : b.kind = "BackArrive" /\ b.node = n /\ FrontOf(b) = {}}
BY DEF CarrierInv, PassingBy, FrontOf, Live

LEMMA PassingNext ==
  ASSUME cancelled' = {}, NEW n \in Node
  PROVE  PassingBy(n)' =
           {b \in queue' : b.kind = "BackArrive" /\ b.node = n
                           /\ ~\E f \in queue' : /\ f.kind = "FrontArrive"
                                                 /\ f.serial = b.serial - 1}
BY DEF PassingBy, Live

(* A step that leaves who is passing as it was.                            *)
LEMMA SamePassing ==
  ASSUME CarrierInv, cancelled' = {}, edits' = edits, up' = up, foreign' = foreign,
         \A n \in Node : PassingBy(n)' = PassingBy(n)
  PROVE  CarrierInv'
<1>1. \A n \in Node : OnFd(n)' <=> OnFd(n)
  BY DEF OnFd
<1>2. CarrierMatchesWire'
  BY <1>1 DEF CarrierInv, CarrierMatchesWire
<1>. QED
  BY <1>2 DEF CarrierInv

(* Only arrivals matter.                                                   *)
LEMMA ArrivalsMatter ==
  ASSUME CarrierInv, cancelled' = {},
         \A g : g.kind \in ArrivalEvents => (g \in queue' <=> g \in queue)
  PROVE  \A n \in Node : PassingBy(n)' = PassingBy(n)
BY PassingIs, PassingNext DEF FrontOf, ArrivalEvents

LEMMA SameArrivals ==
  ASSUME CarrierInv, cancelled' = {}, edits' = edits, up' = up, foreign' = foreign,
         \A g : g.kind \in ArrivalEvents => (g \in queue' <=> g \in queue)
  PROVE  CarrierInv'
BY ArrivalsMatter, SamePassing

LEMMA QuietArrivals ==
  ASSUME Wired, CarrierInv, NEW e \in queue,
         \/ HandleTxAttempt(e) \/ HandleTxEnd(e) \/ HandleCollisionDetect(e)
         \/ HandleJamStart(e) \/ HandleJamEnd(e) \/ HandleBackoffExpire(e)
         \/ HandleTopologyChanged(e)
  PROVE  /\ cancelled' = {} /\ edits' = edits /\ up' = up /\ foreign' = foreign
         /\ e.kind \notin ArrivalEvents
         /\ \A g : g.kind \in ArrivalEvents => (g \in queue' <=> g \in queue)
<1>1. e.kind \notin ArrivalEvents /\ foreign' = foreign
  BY DEF HandleTxAttempt, HandleTxEnd, HandleCollisionDetect, HandleJamStart,
         HandleJamEnd, HandleBackoffExpire, HandleTopologyChanged, Pops, ArrivalEvents, mac
<1>2. PICK new, k : Emits(e, new, k) /\ \A g \in new : g.kind \notin ArrivalEvents
  <2>1. \A t, s, n, z : /\ AttemptEntry(t, s, n, z).kind \notin ArrivalEvents
                        /\ BackoffEntry(t, s, n, z).kind \notin ArrivalEvents
                        /\ JamEntry("JamStart", t, s, n).kind \notin ArrivalEvents
                        /\ JamEntry("JamEnd", t, s, n).kind \notin ArrivalEvents
                        /\ SignalEntry("TxStart", t, s, n, z).kind \notin ArrivalEvents
    BY DEF AttemptEntry, BackoffEntry, JamEntry, SignalEntry, ArrivalEvents
  <2>2. CASE HandleTxAttempt(e)
    BY <2>1, <2>2 DEF HandleTxAttempt
  <2>3. CASE HandleTxEnd(e) \/ HandleTopologyChanged(e)
    BY <2>3 DEF HandleTxEnd, HandleTopologyChanged
  <2>4. CASE HandleCollisionDetect(e)
    BY <2>1, <2>4 DEF HandleCollisionDetect
  <2>5. CASE HandleJamStart(e)
    BY <2>1, <2>5 DEF HandleJamStart
  <2>6. CASE HandleJamEnd(e)
    <3>1. \/ Emits(e, {}, 0)
          \/ \E t, a : Emits(e, {BackoffEntry(t, serial, e.node, a)}, 1)
      BY <2>6 DEF HandleJamEnd
    <3>2. \A t, a : \A g \in {BackoffEntry(t, serial, e.node, a)} : g.kind \notin ArrivalEvents
      BY <2>1
    <3>3. CASE Emits(e, {}, 0)
      BY <3>3
    <3>4. CASE \E t, a : Emits(e, {BackoffEntry(t, serial, e.node, a)}, 1)
      <4>1. PICK t, a : Emits(e, {BackoffEntry(t, serial, e.node, a)}, 1)
        BY <3>4
      <4>2. \A g \in {BackoffEntry(t, serial, e.node, a)} : g.kind \notin ArrivalEvents
        BY <3>2
      <4>. QED
        BY <4>1, <4>2
    <3>. QED
      BY <3>1, <3>3, <3>4
  <2>7. CASE HandleBackoffExpire(e)
    BY <2>1, <2>7 DEF HandleBackoffExpire
  <2>. QED
    BY <2>2, <2>3, <2>4, <2>5, <2>6, <2>7
<1>3. /\ cancelled' = {} /\ edits' = edits /\ up' = up
      /\ queue' = (queue \ {e}) \cup new
  BY <1>2 DEF Emits, world, CarrierInv
<1>4. \A g : g.kind \in ArrivalEvents => (g \in queue' <=> g \in queue)
  BY <1>1, <1>2, <1>3
<1>. QED
  BY <1>1, <1>3, <1>4, SameArrivals

LEMMA QuietHandlersCount ==
  ASSUME Wired, CarrierInv, NEW e \in queue,
         \/ HandleTxAttempt(e) \/ HandleTxEnd(e) \/ HandleCollisionDetect(e)
         \/ HandleJamStart(e) \/ HandleJamEnd(e) \/ HandleBackoffExpire(e)
         \/ HandleTopologyChanged(e)
  PROVE  CarrierInv'
BY QuietArrivals, SameArrivals

(* New signals are not passing anyone yet.                                 *)
LEMMA StartPasses ==
  ASSUME Wired, CarrierInv, NEW e \in queue, HandleTxStart(e)
  PROVE  \A n \in Node : PassingBy(n)' = PassingBy(n)
<1>. DEFINE sig == e.signal
            arrivals == Arrivals(sig)
            end == SignalEntry("TxEnd", sig.t0 + sig.dur, serial + 2 * NumNodes, e.node, sig)
<1>1. /\ queue' = (queue \ {e}) \cup (arrivals \cup {end})
      /\ cancelled' = {} /\ edits' = edits /\ up' = up /\ foreign' = foreign
      /\ e.kind = "TxStart" /\ end.kind = "TxEnd"
      /\ Ordinary /\ serial \in Nat /\ NumNodes \in Nat
  BY EntryTypes, NumNodesType
     DEF HandleTxStart, Emits, Pops, world, CarrierInv, Wired, SignalEntry
<1>2. /\ sig.source \in Node
      /\ hashOrder[sig.source] \in [Node -> 0 .. (NumNodes - 1)]
  <2>1. sig \in SignalSet
    BY <1>1, EntryTypes DEF SignalEvents
  <2>2. sig.source \in Node
    BY <2>1 DEF SignalSet
  <2>. QED
    BY <1>1, <2>2, CsmaAssumption DEF Ordinary, CsmaInv, TypeOK, WorldOK
<1>3. ASSUME NEW b \in arrivals, b.kind = "BackArrive"
      PROVE  \E f \in arrivals : f.kind = "FrontArrive" /\ f.serial = b.serial - 1
  <2>1. PICK m \in Hears(sig.source) :
           b = SignalEntry("BackArrive", FrontTime(sig, m) + sig.dur,
                           serial + 2 * hashOrder[sig.source][m] + 1, m, sig)
    BY <1>3 DEF Arrivals, SignalEntry
  <2>2. PICK f : f = SignalEntry("FrontArrive", FrontTime(sig, m),
                                 serial + 2 * hashOrder[sig.source][m], m, sig)
    OBVIOUS
  <2>3. f \in arrivals
    BY <2>2 DEF Arrivals
  <2>4. hashOrder[sig.source][m] \in Nat
    BY <1>1, <1>2 DEF Hears
  <2>5. f.kind = "FrontArrive" /\ f.serial = b.serial - 1
    BY <1>1, <2>1, <2>2, <2>4 DEF SignalEntry
  <2>. QED
    BY <2>3, <2>5
<1>4. \A f \in arrivals : f.serial \in Nat /\ f.serial >= serial
  <2>1. Fresh(e, arrivals \cup {end}, 2 * NumNodes + 1)
    BY <1>1, ArrivalsFresh DEF Ordinary
  <2>. QED
    BY <1>1, <2>1 DEF Fresh, FreshIn
<1>5. \A b \in queue : b.serial \in Nat /\ b.serial < serial
  BY <1>1, EntryTypes DEF Ordinary, CsmaInv, SerialsUsed
<1>. HIDE DEF arrivals, end, sig
<1>6. ASSUME NEW n \in Node PROVE PassingBy(n)' = PassingBy(n)
  <2>1. ASSUME NEW b, b.kind = "BackArrive", b \in queue
        PROVE  (\E f \in queue' : f.kind = "FrontArrive" /\ f.serial = b.serial - 1)
               <=> (\E f \in queue : f.kind = "FrontArrive" /\ f.serial = b.serial - 1)
    <3>1. \A f \in arrivals : f.serial # b.serial - 1
      BY <1>1, <1>4, <1>5, <2>1
    <3>. QED
      BY <1>1, <3>1
  <2>2. ASSUME NEW b, b.kind = "BackArrive", b \in queue', b \notin queue
        PROVE  \E f \in queue' : f.kind = "FrontArrive" /\ f.serial = b.serial - 1
    BY <1>1, <1>3, <2>2
  <2>3. \A b : b.kind = "BackArrive" /\ b \in queue => b \in queue'
    BY <1>1
  <2>4. PassingBy(n)' =
          {b \in queue' : b.kind = "BackArrive" /\ b.node = n
                          /\ ~\E f \in queue' : /\ f.kind = "FrontArrive"
                                                /\ f.serial = b.serial - 1}
    BY <1>1, PassingNext
  <2>5. PassingBy(n) =
          {b \in queue : b.kind = "BackArrive" /\ b.node = n
                         /\ ~\E f \in queue : /\ f.kind = "FrontArrive"
                                              /\ f.serial = b.serial - 1}
    BY PassingIs DEF FrontOf
  <2>. QED
    BY <2>1, <2>2, <2>3, <2>4, <2>5
<1>. QED
  BY <1>6

LEMMA StartCounts ==
  ASSUME Wired, CarrierInv, NEW e \in queue, HandleTxStart(e)
  PROVE  CarrierInv'
<1>1. cancelled' = {} /\ edits' = edits /\ up' = up /\ foreign' = foreign
  BY DEF HandleTxStart, Emits, world, CarrierInv
<1>. QED
  BY <1>1, StartPasses, SamePassing

(* A front has come: its back is now passing.                              *)
LEMMA FrontPasses ==
  ASSUME Wired, CarrierInv, NEW e \in queue, HandleFrontArrive(e)
  PROVE  \E b \in queue :
           /\ b.kind = "BackArrive" /\ b.node = e.node /\ b.signal = e.signal
           /\ b \notin PassingBy(e.node)
           /\ \A n \in Node : PassingBy(n)' = IF n = e.node THEN PassingBy(n) \cup {b}
                                              ELSE PassingBy(n)
<1>1. /\ Pops(e, "FrontArrive") /\ e.kind = "FrontArrive" /\ e.node \in Node /\ Live(e)
      /\ Ordinary /\ EndsStayTogether /\ foreign \in [Node -> Nat]
      /\ e.serial \in Nat
  BY EntryTypes DEF HandleFrontArrive, Pops, Live, Wired, EditInv, NodeEvents, SignalEvents
<1>2. PICK new : /\ Emits(e, new, IF OnFd(e.node) THEN 0 ELSE 1)
                 /\ \A g \in new : g.kind \notin ArrivalEvents
  BY DEF HandleFrontArrive, Reactions, SignalEntry, ArrivalEvents
<1>3. /\ cancelled' = {} /\ edits' = edits /\ up' = up /\ cancelled = {}
      /\ queue' = (queue \ {e}) \cup new
  BY <1>2 DEF Emits, world, CarrierInv
<1>4. PICK b \in queue : /\ b.kind = "BackArrive" /\ b.node = e.node
                         /\ b.signal = e.signal /\ b.serial = e.serial + 1
  BY <1>1 DEF EndsStayTogether
<1>5. ASSUME NEW c \in queue, c.kind = "BackArrive"
      PROVE  (\E f \in queue : f.kind = "FrontArrive" /\ f.serial = c.serial - 1)
             <=> (c = b \/ \E f \in queue' : f.kind = "FrontArrive"
                                            /\ f.serial = c.serial - 1)
  <2>1. c.serial \in Nat /\ b.serial \in Nat
    BY <1>1, EntryTypes
  <2>2. e.serial = c.serial - 1 <=> c = b
    BY <1>1, <1>4, <2>1, SerialsDistinct
  <2>3. \A f : f.kind = "FrontArrive" => (f \in queue' <=> f \in queue /\ f # e)
    BY <1>2, <1>3 DEF ArrivalEvents
  <2>. QED
    BY <1>1, <2>2, <2>3
<1>6. ~\E f \in queue' : f.kind = "FrontArrive" /\ f.serial = b.serial - 1
  <2>1. ASSUME NEW f \in queue, f.serial = b.serial - 1 PROVE f = e
    <3>1. f.serial \in Nat
      BY <1>1, EntryTypes
    <3>. QED
      BY <1>1, <1>4, <2>1, <3>1, SerialsDistinct
  <2>. QED
    BY <1>2, <1>3, <2>1 DEF ArrivalEvents
<1>7. \A g : g.kind = "BackArrive" => (g \in queue' <=> g \in queue)
  BY <1>1, <1>2, <1>3 DEF ArrivalEvents
<1>8. ASSUME NEW n \in Node
      PROVE  PassingBy(n)' = IF n = e.node THEN PassingBy(n) \cup {b} ELSE PassingBy(n)
  <2>1. PassingBy(n)' =
          {c \in queue' : c.kind = "BackArrive" /\ c.node = n
                          /\ ~\E f \in queue' : /\ f.kind = "FrontArrive"
                                                /\ f.serial = c.serial - 1}
    BY <1>3, PassingNext
  <2>2. PassingBy(n) =
          {c \in queue : c.kind = "BackArrive" /\ c.node = n
                         /\ ~\E f \in queue : /\ f.kind = "FrontArrive"
                                              /\ f.serial = c.serial - 1}
    BY PassingIs DEF FrontOf
  <2>. QED
    BY <1>4, <1>5, <1>6, <1>7, <2>1, <2>2
<1>9. b \notin PassingBy(e.node)
  BY <1>1, <1>4, <1>5, PassingIs DEF FrontOf
<1>. QED
  BY <1>4, <1>8, <1>9

LEMMA FrontCounts ==
  ASSUME Wired, CarrierInv, NEW e \in queue, HandleFrontArrive(e)
  PROVE  CarrierInv'
<1>1. e.node \in Node /\ foreign \in [Node -> Nat]
  BY EntryTypes DEF HandleFrontArrive, Pops, Wired, NodeEvents, SignalEvents
<1>2. cancelled' = {} /\ edits' = edits /\ up' = up
  BY DEF HandleFrontArrive, Emits, world, CarrierInv
<1>3. PICK b \in queue :
         /\ b \notin PassingBy(e.node)
         /\ \A n \in Node : PassingBy(n)' = IF n = e.node THEN PassingBy(n) \cup {b}
                                            ELSE PassingBy(n)
  BY FrontPasses
<1>5. ASSUME NEW n \in Node
       PROVE  /\ IsFiniteSet(PassingBy(n)')
              /\ Cardinality(PassingBy(n)') =
                   Cardinality(PassingBy(n)) + (IF n = e.node THEN 1 ELSE 0)
  <2>1. IsFiniteSet(PassingBy(n))
    BY DEF CarrierInv
  <2>. DEFINE P == PassingBy(n)
  <2>2. IsFiniteSet(P) /\ Cardinality(P) \in Nat
    BY <2>1, FS_CardinalityType
  <2>3. PassingBy(n)' = IF n = e.node THEN P \cup {b} ELSE P
    BY <1>3
  <2>4. n = e.node => b \notin P
    BY <1>3
  <2>5. IsFiniteSet(P \cup {b})
        /\ Cardinality(P \cup {b}) = IF b \in P THEN Cardinality(P) ELSE Cardinality(P) + 1
    BY <2>2, FS_AddElement
  <2>. HIDE DEF P
  <2>6. CASE n = e.node
    BY <2>2, <2>3, <2>4, <2>5, <2>6 DEF P
  <2>7. CASE n # e.node
    BY <2>2, <2>3, <2>7 DEF P
  <2>. QED
    BY <2>6, <2>7
<1>6. \A n \in Node : OnFd(n)' <=> OnFd(n)
  BY <1>2 DEF OnFd
<1>7. CarrierMatchesWire'
  <2> SUFFICES ASSUME NEW n \in Node
               PROVE  foreign'[n] = IF OnFd(n) THEN 0 ELSE Cardinality(PassingBy(n)')
    BY <1>6 DEF CarrierMatchesWire
  <2>1. foreign[n] = IF OnFd(n) THEN 0 ELSE Cardinality(PassingBy(n))
    BY DEF CarrierInv, CarrierMatchesWire
  <2>2. foreign[n] \in Nat
    BY <1>1
  <2>3. foreign'[n] = foreign[n] + (IF n = e.node /\ ~OnFd(n) THEN 1 ELSE 0)
    BY <1>1, <2>2 DEF HandleFrontArrive
  <2>. QED
    BY <1>5, <2>1, <2>2, <2>3
<1>. QED
  BY <1>2, <1>5, <1>7 DEF CarrierInv

(* A back is that of a signal that is passing, and is the last of it.      *)
LEMMA BackLeaves ==
  ASSUME Wired, CarrierInv, NEW e \in queue, HandleBackArrive(e)
  PROVE  /\ e \in PassingBy(e.node)
         /\ \A n \in Node : PassingBy(n)' = IF n = e.node THEN PassingBy(n) \ {e}
                                            ELSE PassingBy(n)
<1>1. /\ Pops(e, "BackArrive") /\ e.kind = "BackArrive" /\ e.node \in Node
      /\ Ordinary /\ EndsStayTogether /\ foreign \in [Node -> Nat]
      /\ Emits(e, {}, 0) /\ Sched!IsTop(queue, e) /\ e.serial \in Nat
  BY EntryTypes DEF HandleBackArrive, Pops, Wired, EditInv, NodeEvents, SignalEvents
<1>2. /\ cancelled' = {} /\ edits' = edits /\ up' = up /\ cancelled = {}
      /\ queue' = queue \ {e}
  BY <1>1 DEF Emits, world, CarrierInv
<1>3. ~\E f \in queue : f.kind = "FrontArrive" /\ f.serial = e.serial - 1
  <2> SUFFICES ASSUME NEW f \in queue, f.kind = "FrontArrive", f.serial = e.serial - 1
               PROVE  FALSE
    OBVIOUS
  <2>1. PICK b \in queue : /\ b.time = f.time + f.signal.dur /\ b.serial = f.serial + 1
    BY <1>1, <1>2 DEF EndsStayTogether, Live
  <2>2. f.serial \in Nat
    BY <1>1, EntryTypes
  <2>3. b = e
    BY <1>1, <2>1, <2>2, SerialsDistinct
  <2>. QED
    BY <1>1, <2>1, <2>3, BackIsNotTop
<1>4. ASSUME NEW n \in Node
      PROVE  PassingBy(n)' = IF n = e.node THEN PassingBy(n) \ {e} ELSE PassingBy(n)
  <2>1. PassingBy(n)' =
          {c \in queue' : c.kind = "BackArrive" /\ c.node = n
                          /\ ~\E f \in queue' : /\ f.kind = "FrontArrive"
                                                /\ f.serial = c.serial - 1}
    BY <1>2, PassingNext
  <2>2. PassingBy(n) =
          {c \in queue : c.kind = "BackArrive" /\ c.node = n
                         /\ ~\E f \in queue : /\ f.kind = "FrontArrive"
                                              /\ f.serial = c.serial - 1}
    BY PassingIs DEF FrontOf
  <2>. QED
    BY <1>1, <1>2, <2>1, <2>2
<1>5. e \in PassingBy(e.node)
  BY <1>1, <1>3, PassingIs DEF FrontOf
<1>. QED
  BY <1>4, <1>5

LEMMA BackCounts ==
  ASSUME Wired, CarrierInv, NEW e \in queue, HandleBackArrive(e)
  PROVE  CarrierInv'
<1>1. e.node \in Node /\ foreign \in [Node -> Nat]
  BY EntryTypes DEF HandleBackArrive, Pops, Wired, NodeEvents, SignalEvents
<1>2. cancelled' = {} /\ edits' = edits /\ up' = up
  BY DEF HandleBackArrive, Emits, world, CarrierInv
<1>3. /\ e \in PassingBy(e.node)
      /\ \A n \in Node : PassingBy(n)' = IF n = e.node THEN PassingBy(n) \ {e}
                                         ELSE PassingBy(n)
  BY BackLeaves
<1>4. ASSUME NEW n \in Node
      PROVE  /\ IsFiniteSet(PassingBy(n)') /\ Cardinality(PassingBy(n)) \in Nat
             /\ Cardinality(PassingBy(n)') \in Nat
             /\ Cardinality(PassingBy(n)) =
                  Cardinality(PassingBy(n)') + (IF n = e.node THEN 1 ELSE 0)
  <2>. DEFINE P == PassingBy(n)
              Q == PassingBy(n)'
  <2>1. IsFiniteSet(P)
    BY DEF CarrierInv
  <2>2. Q = IF n = e.node THEN P \ {e} ELSE P
    BY <1>3
  <2>3. n = e.node => e \in P
    BY <1>3
  <2>. HIDE DEF P, Q
  <2>4. IsFiniteSet(P \ {e})
        /\ Cardinality(P \ {e}) = IF e \in P THEN Cardinality(P) - 1 ELSE Cardinality(P)
    BY <2>1, FS_RemoveElement
  <2>5. IsFiniteSet(Q) /\ Cardinality(P) \in Nat /\ Cardinality(Q) \in Nat
    BY <2>1, <2>2, <2>4, FS_CardinalityType
  <2>6. Cardinality(P) = Cardinality(Q) + (IF n = e.node THEN 1 ELSE 0)
    BY <2>2, <2>3, <2>4, <2>5
  <2>. QED
    BY <2>5, <2>6 DEF P, Q
<1>5. \A n \in Node : OnFd(n)' <=> OnFd(n)
  BY <1>2 DEF OnFd
<1>6. CarrierMatchesWire'
  <2> SUFFICES ASSUME NEW n \in Node
               PROVE  foreign'[n] = IF OnFd(n) THEN 0 ELSE Cardinality(PassingBy(n)')
    BY <1>5 DEF CarrierMatchesWire
  <2>1. foreign[n] = IF OnFd(n) THEN 0 ELSE Cardinality(PassingBy(n))
    BY DEF CarrierInv, CarrierMatchesWire
  <2>2. foreign'[n] = IF n = e.node /\ ~OnFd(n) THEN CarrierDropped(foreign[n]) ELSE foreign[n]
    BY <1>1 DEF HandleBackArrive
  <2>. QED
    BY <1>4, <2>1, <2>2 DEF CarrierDropped
<1>. QED
  BY <1>2, <1>4, <1>6 DEF CarrierInv

LEMMA HostCounts ==
  ASSUME MaxEdits = 0, CarrierInv, Host
  PROVE  CarrierInv'
<1>1. \/ \E o \in Offers : ScheduleTxAttempt(o[1], o[2], o[3])
      \/ StartRun \/ ReturnFromRun
  <2>1. ~(edits < MaxEdits)
    BY DEF CarrierInv
  <2>. QED
    BY <2>1 DEF Host, RemoveSegment, AddSegment, RemoveNode, SetSegmentDelay,
                SetSegmentRate, SetMacConfig
<1>2. CASE \E o \in Offers : ScheduleTxAttempt(o[1], o[2], o[3])
  <2>1. PICK o \in Offers : ScheduleTxAttempt(o[1], o[2], o[3])
    BY <1>2
  <2>2. PICK g : g = AttemptEntry(o[1], serial, o[2], o[3])
    OBVIOUS
  <2>3. g.kind \notin ArrivalEvents
    BY <2>2 DEF AttemptEntry, ArrivalEvents
  <2>4. /\ queue' = queue \cup {g}
        /\ cancelled' = {} /\ edits' = edits /\ up' = up /\ foreign' = foreign
    BY <2>1, <2>2 DEF ScheduleTxAttempt, HostPushes, mac, CarrierInv
  <2>. QED
    BY <2>3, <2>4, SameArrivals
<1>3. CASE StartRun \/ ReturnFromRun
  <2>1. /\ queue' = queue /\ cancelled' = {} /\ edits' = edits /\ up' = up
        /\ foreign' = foreign
    BY <1>3 DEF StartRun, ReturnFromRun, Sched!StartRun, Sched!ReturnFromRun, mac, world,
                CarrierInv
  <2>. QED
    BY <2>1, SameArrivals
<1>. QED
  BY <1>1, <1>2, <1>3

LEMMA CarrierStep ==
  ASSUME MaxEdits = 0, Wired, CarrierInv, [Next]_vars PROVE CarrierInv'
<1>1. ASSUME NEW e \in queue, Handle(e) PROVE CarrierInv'
  <2>1. ~DropCancelled(e)
    BY DEF DropCancelled, Sched!Skip, CarrierInv
  <2>. QED
    BY <1>1, <2>1, QuietHandlersCount, StartCounts, FrontCounts, BackCounts DEF Handle
<1>2. CASE UNCHANGED vars
  <2>1. /\ queue' = queue /\ cancelled' = {} /\ edits' = edits /\ up' = up
        /\ foreign' = foreign
    BY <1>2 DEF vars, mac, world, CarrierInv
  <2>. QED
    BY <2>1, SameArrivals
<1>. QED
  BY <1>1, <1>2, HostCounts DEF Next

LEMMA CarrierInvAlways == ASSUME ~PastAllowed, MaxEdits = 0 PROVE Spec => []CarrierInv
<1>1. Init => CarrierInv
  <2> SUFFICES ASSUME Init PROVE CarrierInv
    OBVIOUS
  <2>1. \A n \in Node : PassingBy(n) = {}
    BY DEF Init, Sched!SchedulerInit, PassingBy
  <2>2. \A n \in Node : foreign[n] = 0
    BY DEF Init
  <2>3. IsFiniteSet({}) /\ Cardinality({}) = 0
    BY FS_EmptySet
  <2>4. cancelled = {} /\ edits \in Nat
    BY DEF Init, Sched!SchedulerInit
  <2>. QED
    BY <2>1, <2>2, <2>3, <2>4 DEF CarrierInv, CarrierMatchesWire
<1>2. Wired /\ CarrierInv /\ [Next]_vars => CarrierInv'
  BY CarrierStep
<1>3. Spec => []CsmaInv
  BY CsmaInit, CsmaStep, PTL DEF Spec
<1>4. CsmaInv /\ KeysAhead /\ TombstonesQueued /\ EditInv => Wired
  BY DEF Wired, Ordinary
<1>. QED
  BY <1>1, <1>2, <1>3, <1>4, KeysAheadAlways, TombstonesAlwaysQueued, EditsKeepInv, PTL
     DEF Spec

(* As long as the topology is left alone, foreign_carriers is exact at     *)
(* every station, for any topology and any number of signals: it is the    *)
(* number of foreign signals that are passing its port (engine.rs,         *)
(* handle_front_arrive, handle_back_arrive; the field's comment at 485).   *)
THEOREM CarrierAlwaysMatches ==
  ASSUME ~PastAllowed, MaxEdits = 0 PROVE Spec => []CarrierMatchesWire
<1>1. CarrierInv => CarrierMatchesWire
  BY DEF CarrierInv
<1>. QED
  BY <1>1, CarrierInvAlways, PTL

---------------------------------------------------------------------------
(* Theorem 1.  All that was proved so far describes a station and its      *)
(* port; what follows relates two stations.                                *)

(* When a signal begins to be heard at a station.                          *)
Reach(sig, n) == sig.t0 + Distance(sig.source, n)

(* Every frame lasts a round trip to any station that hears it, and every  *)
(* jam follows a frame of its station that it cuts short.                  *)
LongEnough(sig) ==
  \A n \in Node : OnHd(sig.source, n) => sig.dur >= 2 * Distance(sig.source, n)
AfterFrame(n, t) ==
  \E r \in aired : r.source = n /\ r.kind = "Frame" /\ r.t0 <= t /\ t <= r.t0 + r.dur
Proper(sig) ==
  /\ sig.kind = "Frame" => LongEnough(sig)
  /\ sig.kind # "Frame" => AfterFrame(sig.source, sig.t0)

(* What the queue says of signals is true: who sends them, and when they   *)
(* arrive and end.                                                         *)
OnItsWay(e) == e.signal \in aired /\ <<e.signal.source, e.node>> \in Pairs
EntryTrue(e) ==
  /\ e.kind = "TxStart" => e.signal.source = e.node /\ Proper(e.signal)
  /\ e.kind = "JamStart" => AfterFrame(e.node, e.time)
  /\ e.kind = "TxEnd" => /\ e.signal \in aired /\ e.signal.source = e.node
                         /\ e.time = e.signal.t0 + e.signal.dur
  /\ e.kind = "FrontArrive" => OnItsWay(e) /\ e.time = Reach(e.signal, e.node)
  /\ e.kind = "BackArrive" =>
       OnItsWay(e) /\ e.time = Reach(e.signal, e.node) + e.signal.dur

SignalsTrue ==
  /\ \A e \in queue : EntryTrue(e)
  /\ \A r \in aired : r.t0 <= Now /\ Proper(r)
  /\ \A n \in Node : IsTransmitting(n) =>
                       state[n].signal \in aired /\ state[n].signal.source = n

(* To every station in reach, a signal on the air is coming, passing or    *)
(* over.                                                                   *)
FrontComing(r, n) ==
  \E f \in queue : f.kind = "FrontArrive" /\ f.node = n /\ f.signal = r
Over(r, n, t) == Reach(r, n) + r.dur <= t
Underway ==
  \A r \in aired, n \in Node :
    <<r.source, n>> \in Pairs =>
      \/ FrontComing(r, n)
      \/ \E b \in PassingBy(n) : b.signal = r
      \/ Over(r, n, Now)

Disturbs(r, n) == r \in aired /\ r.source # n /\ OnHd(r.source, n)

(* Frames wait for the medium: what a station had begun to hear was over   *)
(* when it began.                                                          *)
FramesWait ==
  \A r \in aired, s \in aired :
    (r.kind = "Frame" /\ Disturbs(s, r.source)) =>
       r.t0 < Reach(s, r.source) \/ Over(s, r.source, r.t0)

(* A station that still sends its frame has heard nothing since it began.  *)
AllHeard ==
  \A n \in Node : SendsFrame(n) =>
    \A r \in aired : Disturbs(r, n) =>
      foreign[n] > 0 \/ FrontComing(r, n) \/ Over(r, n, state[n].signal.t0)

(* Nothing was heard by the sender of a delivered frame while it sent it.  *)
DeliveredInPeace ==
  \A s \in delivered :
    /\ s \in aired /\ s.kind = "Frame" /\ s.t0 + s.dur <= Now
    /\ \A r \in aired : Disturbs(r, s.source) =>
         Over(r, s.source, s.t0) \/ Reach(r, s.source) >= s.t0 + s.dur

PeaceInv == SignalsTrue /\ Underway /\ FramesWait /\ AllHeard /\ DeliveredInPeace

(* The state that all that was proved before describes, in a world that    *)
(* stays as it is.                                                         *)
Peaceful ==
  /\ Wired /\ MediumInv /\ CarrierInv /\ \A n \in Node : TimerInv(n)
  /\ up = Segment /\ delay = Delay

OnlyFrames == \A f \in Frame : KindOf[f] = "Frame"

LEMMA PeaceTypes ==
  ASSUME Peaceful
  PROVE  /\ Ordinary /\ EditInv /\ Now \in Nat /\ serial \in Nat
         /\ aired \subseteq SignalSet /\ queue \subseteq EntrySet /\ cancelled = {}
         /\ state \in [Node -> StateSet] /\ foreign \in [Node -> Nat]
         /\ \A e \in queue : Live(e)
BY DEF Peaceful, Wired, Ordinary, CsmaInv, TypeOK, QueueOK, MacOK, HistoryOK, CarrierInv,
       Now, Live

LEMMA DistanceType ==
  ASSUME NEW m \in Node, NEW n \in Node, OnHd(m, n)
  PROVE  Distance(m, n) \in Nat /\ (m # n => Distance(m, n) > 0 /\ <<m, n>> \in Pairs)
BY CsmaAssumption DEF OnHd, Distance

(* A station that hears another over half-duplex cables has no full-duplex *)
(* port.                                                                   *)
LEMMA HearsOnHd ==
  ASSUME NEW m \in Node, NEW n \in Node, OnHd(m, n), m # n
  PROVE  ~OnFd(n)
<1>1. <<m, n>> \in Pairs /\ Route[<<m, n>>] \cap FdSegment = {}
  BY DEF OnHd
<1>2. Access[n] \in Route[<<m, n>>]
  BY <1>1, RouteAssumption
<1>. QED
  BY <1>1, <1>2 DEF OnFd

(* Time goes on.                                                           *)
LEMMA NowGrows ==
  ASSUME Ordinary, NEW e \in queue PROVE e.time \in Nat /\ Now \in Nat /\ Now <= e.time
<1>1. Sched!Before(last, Sched!Key(e))
  BY DEF Ordinary, KeysAhead, Sched!KeysAhead
<1>. QED
  BY <1>1, EntryTypes DEF Sched!Before, Sched!Key, Now

---------------------------------------------------------------------------
(* SignalsTrue.                                                            *)

LEMMA TruthStays ==
  ASSUME aired \subseteq aired'
  PROVE  /\ \A n, t : AfterFrame(n, t) => AfterFrame(n, t)'
         /\ \A sig : Proper(sig) => Proper(sig)'
         /\ \A f : EntryTrue(f) => EntryTrue(f)'
BY DEF AfterFrame, Proper, EntryTrue, OnItsWay, LongEnough, Reach, Distance

LEMMA TruthKept ==
  ASSUME Ordinary, SignalsTrue, NEW e \in queue, NEW new, queue' = (queue \ {e}) \cup new,
         Now' = e.time, aired \subseteq SignalSet,
         aired \subseteq aired', \A f \in new : EntryTrue(f)',
         \A r \in aired' \ aired : r.t0 <= Now' /\ Proper(r)',
         \A n \in Node : IsTransmitting(n)' =>
            \/ state'[n] = state[n]
            \/ state'[n].signal \in aired' /\ state'[n].signal.source = n
  PROVE  SignalsTrue'
<1>1. e.time \in Nat /\ Now \in Nat /\ Now <= e.time
  BY NowGrows
<1>2. \A f \in queue' : EntryTrue(f)'
  BY TruthStays DEF SignalsTrue
<1>3. \A r \in aired : r.t0 \in Nat /\ r.t0 <= Now /\ Proper(r)
  BY DEF SignalsTrue, SignalSet
<1>4. \A r \in aired' : r.t0 <= Now' /\ Proper(r)'
  BY <1>1, <1>3, TruthStays
<1>5. \A n \in Node : IsTransmitting(n)' =>
                         state'[n].signal \in aired' /\ state'[n].signal.source = n
  BY DEF SignalsTrue, IsTransmitting
<1>. QED
  BY <1>2, <1>4, <1>5 DEF SignalsTrue

(* A handler that puts nothing on the air.                                 *)
Quietly(e, new) ==
  /\ Sched!IsTop(queue, e) /\ queue' = (queue \ {e}) \cup new
  /\ Now' = e.time /\ aired' = aired
  /\ \A f \in new : f.kind \notin ArrivalEvents /\ EntryTrue(f)
  /\ \A n \in Node : state'[n] = state[n] \/ state'[n].mode # "Transmitting"

LEMMA QuietlyBy ==
  ASSUME Peaceful, NEW e \in queue, NEW kind, Pops(e, kind), NEW new, NEW k, Emits(e, new, k),
         aired' = aired, \A f \in new : f.kind \notin ArrivalEvents /\ EntryTrue(f),
         \A n \in Node : state'[n] = state[n] \/ state'[n].mode # "Transmitting"
  PROVE  Quietly(e, new)
BY PopFacts, PeaceTypes DEF Quietly

LEMMA PlainEntries ==
  /\ \A t, s, n, z : /\ AttemptEntry(t, s, n, z).kind = "TxAttempt"
                     /\ BackoffEntry(t, s, n, z).kind = "BackoffExpire"
                     /\ JamEntry("JamEnd", t, s, n).kind = "JamEnd"
                     /\ SignalEntry("CollisionDetect", t, s, n, z).kind = "CollisionDetect"
  /\ \A f : f.kind \in {"TxAttempt", "BackoffExpire", "JamEnd", "CollisionDetect"} =>
               f.kind \notin ArrivalEvents /\ EntryTrue(f)
BY DEF AttemptEntry, BackoffEntry, JamEntry, SignalEntry, ArrivalEvents, EntryTrue

LEMMA AttemptIsQuiet ==
  ASSUME Peaceful, ProperMedium, OnlyFrames, SignalsTrue, NEW e \in queue, HandleTxAttempt(e)
  PROVE  \E new : Quietly(e, new)
<1>1. /\ Pops(e, "TxAttempt") /\ e.node \in Node /\ e.frame \in Frame
      /\ aired' = aired /\ state' = state
  BY PeaceTypes, EntryFields DEF HandleTxAttempt, Pops, NodeEvents, history
<1>2. CASE Emits(e, {AttemptEntry(e.time + IfgTime(e.node), serial, e.node, e.frame)}, 1)
  <2>1. PICK g : g = AttemptEntry(e.time + IfgTime(e.node), serial, e.node, e.frame)
    OBVIOUS
  <2>2. g.kind = "TxAttempt"
    BY <2>1, PlainEntries
  <2>. QED
    BY <1>1, <1>2, <2>1, <2>2, PlainEntries, QuietlyBy
<1>3. CASE Emits(e, {SignalEntry("TxStart", e.time, serial, e.node,
                                 FrameSignal(e.node, e.time, e.frame))}, 1)
  <2>1. PICK g : g = SignalEntry("TxStart", e.time, serial, e.node,
                                 FrameSignal(e.node, e.time, e.frame))
    OBVIOUS
  <2>2. /\ g.kind = "TxStart" /\ g.node = e.node /\ g.signal.source = e.node
        /\ g.signal.kind = "Frame" /\ g.signal.dur = Duration[e.frame]
    BY <1>1, <2>1 DEF SignalEntry, FrameSignal, Signal, OnlyFrames
  <2>3. LongEnough(g.signal)
    BY <1>1, <2>2 DEF LongEnough, ProperMedium
  <2>4. EntryTrue(g) /\ g.kind \notin ArrivalEvents
    BY <2>2, <2>3 DEF EntryTrue, Proper, ArrivalEvents
  <2>. QED
    BY <1>1, <1>3, <2>1, <2>4, QuietlyBy
<1>. QED
  BY <1>2, <1>3 DEF HandleTxAttempt

(* A collision is detected during the frame that it breaks.                *)
LEMMA DetectionIsQuiet ==
  ASSUME Peaceful, SignalsTrue, NEW e \in queue, HandleCollisionDetect(e)
  PROVE  \E new : Quietly(e, new)
<1>1. /\ Pops(e, "CollisionDetect") /\ e.node \in Node /\ Sched!IsTop(queue, e)
      /\ aired' = aired /\ state' = state
  BY PeaceTypes, EntryFields DEF HandleCollisionDetect, Pops, NodeEvents, SignalEvents,
                                 history, mac
<1>2. CASE SendsFrame(e.node) /\ Emits(e, {JamEntry("JamStart", e.time, serial, e.node)}, 1)
  <2>. DEFINE r == state[e.node].signal
  <2>1. r \in aired /\ r.source = e.node /\ r.kind = "Frame" /\ r.t0 <= Now
    BY <1>1, <1>2 DEF SendsFrame, SignalsTrue
  <2>2. r.t0 \in Nat /\ r.dur \in Nat
    BY <2>1, PeaceTypes DEF SignalSet
  <2>3. PICK t \in queue : t.kind = "TxEnd" /\ t.node = e.node /\ t.signal = r
    BY <1>1, <1>2 DEF Peaceful, TimerInv, EndArmed, Mine, SendsFrame
  <2>4. t.time = r.t0 + r.dur
    BY <2>3 DEF SignalsTrue, EntryTrue
  <2>5. r.t0 <= e.time /\ e.time <= r.t0 + r.dur
    BY <1>1, <2>1, <2>2, <2>4, NowGrows, TopIsEarliest, PeaceTypes
  <2>6. AfterFrame(e.node, e.time)
    BY <2>1, <2>5 DEF AfterFrame
  <2>7. PICK g : g = JamEntry("JamStart", e.time, serial, e.node)
    OBVIOUS
  <2>8. g.kind = "JamStart" /\ g.node = e.node /\ g.time = e.time
    BY <2>7 DEF JamEntry
  <2>9. EntryTrue(g) /\ g.kind \notin ArrivalEvents
    BY <2>6, <2>8 DEF EntryTrue, ArrivalEvents
  <2>. QED
    BY <1>1, <1>2, <2>7, <2>9, QuietlyBy
<1>3. CASE Emits(e, {}, 0)
  BY <1>1, <1>3, QuietlyBy
<1>. QED
  BY <1>2, <1>3 DEF HandleCollisionDetect, SendsFrame

LEMMA JamStartIsQuiet ==
  ASSUME Peaceful, SignalsTrue, NEW e \in queue, HandleJamStart(e)
  PROVE  \E new : Quietly(e, new)
<1>1. Pops(e, "JamStart") /\ e.kind = "JamStart" /\ aired' = aired /\ state' = state
  BY DEF HandleJamStart, Pops, history, mac
<1>. DEFINE g == SignalEntry("TxStart", e.time, serial, e.node, JamSignal(e.node, e.time))
            j == JamEntry("JamEnd", e.time + JamTime(e.node), serial + 1, e.node)
<1>2. Emits(e, {g, j}, 2)
  BY DEF HandleJamStart
<1>3. /\ g.kind = "TxStart" /\ g.node = e.node /\ g.signal.source = e.node
      /\ g.signal.kind = "Jam" /\ g.signal.t0 = e.time /\ j.kind = "JamEnd"
  BY DEF SignalEntry, JamEntry, JamSignal, Signal
<1>. HIDE DEF g, j
<1>4. EntryTrue(g) /\ g.kind \notin ArrivalEvents
  BY <1>1, <1>3 DEF SignalsTrue, EntryTrue, Proper, ArrivalEvents
<1>. QED
  BY <1>1, <1>2, <1>3, <1>4, PlainEntries, QuietlyBy

LEMMA OthersAreQuiet ==
  ASSUME Peaceful, NEW e \in queue,
         \/ HandleTxEnd(e) \/ HandleFrontArrive(e) \/ HandleBackArrive(e)
         \/ HandleJamEnd(e) \/ HandleBackoffExpire(e) \/ HandleTopologyChanged(e)
  PROVE  \E new : Quietly(e, new)
<1>1. Pops(e, e.kind) /\ aired' = aired /\ state \in [Node -> StateSet]
  BY PeaceTypes DEF HandleTxEnd, HandleFrontArrive, HandleBackArrive, HandleJamEnd,
     HandleBackoffExpire, HandleTopologyChanged, Pops, history
<1>2. PICK new, k :
         Emits(e, new, k) /\ \A f \in new : f.kind \in {"TxAttempt", "BackoffExpire",
                                                        "CollisionDetect"}
  <2>1. CASE HandleTxEnd(e) \/ HandleBackArrive(e) \/ HandleTopologyChanged(e)
    BY <2>1 DEF HandleTxEnd, HandleBackArrive, HandleTopologyChanged
  <2>2. CASE HandleFrontArrive(e)
    <3>1. \A f \in Reactions(e) : f.kind = "CollisionDetect"
      BY PlainEntries DEF Reactions
    <3>2. Emits(e, {}, 0) \/ Emits(e, Reactions(e), 1)
      BY <2>2 DEF HandleFrontArrive
    <3>. QED
      BY <3>1, <3>2
  <2>3. CASE HandleJamEnd(e)
    <3>1. CASE Emits(e, {}, 0)
      BY <3>1
    <3>2. CASE \E t, a : Emits(e, {BackoffEntry(t, serial, e.node, a)}, 1)
      <4>1. PICK t, a : Emits(e, {BackoffEntry(t, serial, e.node, a)}, 1)
        BY <3>2
      <4>2. BackoffEntry(t, serial, e.node, a).kind = "BackoffExpire"
        BY PlainEntries
      <4>3. \A f \in {BackoffEntry(t, serial, e.node, a)} : f.kind = "BackoffExpire"
        BY <4>2
      <4>. QED
        BY <4>1, <4>3
    <3>. QED
      BY <2>3, <3>1, <3>2 DEF HandleJamEnd
  <2>4. CASE HandleBackoffExpire(e)
    <3>1. Emits(e, {}, 0) \/ Emits(e, {AttemptEntry(e.time, serial, e.node, pending[e.node])}, 1)
      BY <2>4 DEF HandleBackoffExpire
    <3>2. AttemptEntry(e.time, serial, e.node, pending[e.node]).kind = "TxAttempt"
      BY PlainEntries
    <3>. QED
      BY <3>1, <3>2
  <2>. QED
    BY <2>1, <2>2, <2>3, <2>4
<1>3. \A n \in Node : state'[n] = state[n] \/ state'[n].mode # "Transmitting"
  <2>1. CASE HandleTxEnd(e)
    BY <1>1, <2>1 DEF HandleTxEnd, Idle, BackingOff
  <2>2. CASE HandleJamEnd(e)
    BY <1>1, <2>2 DEF HandleJamEnd, Idle, BackingOff
  <2>3. CASE HandleBackoffExpire(e)
    BY <1>1, <2>3 DEF HandleBackoffExpire, Idle
  <2>4. CASE HandleFrontArrive(e) \/ HandleBackArrive(e) \/ HandleTopologyChanged(e)
    BY <2>4 DEF HandleFrontArrive, HandleBackArrive, HandleTopologyChanged, mac
  <2>. QED
    BY <2>1, <2>2, <2>3, <2>4
<1>. QED
  BY <1>1, <1>2, <1>3, PlainEntries, QuietlyBy

LEMMA HandlersAreQuiet ==
  ASSUME Peaceful, ProperMedium, OnlyFrames, SignalsTrue,
         NEW e \in queue, Handle(e), ~HandleTxStart(e)
  PROVE  \E new : Quietly(e, new)
<1>1. ~DropCancelled(e)
  BY PeaceTypes DEF DropCancelled, Sched!Skip
<1>. QED
  BY <1>1, AttemptIsQuiet, DetectionIsQuiet, JamStartIsQuiet, OthersAreQuiet DEF Handle

(* The handler of TxStart: the signal is under way to all that hear it.    *)
Starts(e) ==
  /\ Sched!IsTop(queue, e) /\ e.kind = "TxStart" /\ e.node \in Node
  /\ e.signal \in SignalSet /\ e.signal.source = e.node /\ e.signal.t0 = e.time
  /\ Now' = e.time /\ queue \ {e} \subseteq queue' /\ aired' = aired \cup {e.signal}
  /\ foreign' = foreign /\ delivered' = delivered
  /\ state' = [state EXCEPT ![e.node] = Transmitting(e.signal, @.attempt)]
  /\ \A m \in Node : <<e.node, m>> \in Pairs => FrontComing(e.signal, m)'

LEMMA StartEffects ==
  ASSUME Peaceful, ProperMedium, SignalsTrue, NEW e \in queue, HandleTxStart(e)
  PROVE  Starts(e) /\ SignalsTrue'
<1>. DEFINE sig == e.signal
<1>0. PICK t : t = SignalEntry("TxEnd", sig.t0 + sig.dur, serial + 2 * NumNodes, e.node, sig)
  OBVIOUS
<1>. DEFINE new == Arrivals(sig) \cup {t}
<1>1. /\ Pops(e, "TxStart") /\ e.kind = "TxStart" /\ e.node \in Node /\ sig \in SignalSet
      /\ Emits(e, new, 2 * NumNodes + 1) /\ aired' = aired \cup {sig} /\ Ordinary
      /\ foreign' = foreign /\ delivered' = delivered /\ state \in [Node -> StateSet]
      /\ state' = [state EXCEPT ![e.node] = Transmitting(sig, @.attempt)]
  BY <1>0, PeaceTypes, EntryFields DEF HandleTxStart, Pops, NodeEvents, SignalEvents
<1>2. /\ Sched!IsTop(queue, e) /\ Now' = e.time /\ queue' = (queue \ {e}) \cup new
      /\ queue \ {e} \subseteq queue' /\ aired \subseteq aired'
  BY <1>1, PopFacts
<1>3. sig.source = e.node /\ Proper(sig)
  BY <1>1 DEF SignalsTrue, EntryTrue
<1>4. sig.t0 = e.time
  BY <1>1 DEF Ordinary, CsmaInv, StartsOnTime
<1>5. \A m : m \in Hears(sig.source) <=> m \in Node /\ <<sig.source, m>> \in Pairs
  BY DEF Hears, Peaceful, ProperMedium
<1>6. \A m \in Hears(sig.source) : FrontTime(sig, m) = Reach(sig, m)
  BY <1>5, CsmaAssumption DEF FrontTime, Reach, Distance, Peaceful
<1>7. ASSUME NEW m \in Node, <<e.node, m>> \in Pairs PROVE FrontComing(sig, m)'
  <2>1. PICK f : f = SignalEntry("FrontArrive", FrontTime(sig, m),
                                 serial + 2 * hashOrder[sig.source][m], m, sig)
    OBVIOUS
  <2>2. f \in Arrivals(sig)
    BY <1>3, <1>5, <1>7, <2>1 DEF Arrivals
  <2>3. f.kind = "FrontArrive" /\ f.node = m /\ f.signal = sig
    BY <2>1 DEF SignalEntry
  <2>. QED
    BY <1>2, <2>2, <2>3 DEF FrontComing
<1>8. ASSUME NEW f \in Arrivals(sig) PROVE EntryTrue(f)'
  <2>1. PICK m \in Hears(sig.source) :
          \/ \E s : f = SignalEntry("FrontArrive", FrontTime(sig, m), s, m, sig)
          \/ \E s : f = SignalEntry("BackArrive", FrontTime(sig, m) + sig.dur, s, m, sig)
    BY DEF Arrivals
  <2>2. /\ f.node = m /\ f.signal = sig
        /\ \/ f.kind = "FrontArrive" /\ f.time = Reach(sig, m)
           \/ f.kind = "BackArrive" /\ f.time = Reach(sig, m) + sig.dur
    BY <1>6, <2>1 DEF SignalEntry
  <2>3. sig \in aired' /\ <<sig.source, m>> \in Pairs
    BY <1>1, <1>5
  <2>. QED
    BY <2>2, <2>3 DEF EntryTrue, OnItsWay, Reach, Distance
<1>9. EntryTrue(t)'
  <2>1. /\ t.kind = "TxEnd" /\ t.node = e.node /\ t.signal = sig
        /\ t.time = sig.t0 + sig.dur
    BY <1>0 DEF SignalEntry
  <2>2. sig \in aired'
    BY <1>1
  <2>. QED
    BY <1>3, <2>1, <2>2 DEF EntryTrue
<1>10. Starts(e)
  BY <1>1, <1>2, <1>3, <1>4, <1>7 DEF Starts
<1>11. \A f \in new : EntryTrue(f)'
  BY <1>8, <1>9
<1>12. sig.t0 <= Now' /\ Proper(sig)'
  <2>1. e.time <= e.time
    BY <1>1, EntryTypes
  <2>. QED
    BY <1>2, <1>3, <1>4, <2>1, TruthStays
<1>13. \A n \in Node : IsTransmitting(n)' =>
          \/ state'[n] = state[n]
          \/ state'[n].signal \in aired' /\ state'[n].signal.source = n
  BY <1>1, <1>3 DEF Transmitting
<1>. HIDE DEF new, sig
<1>14. \A r \in aired' \ aired : r.t0 <= Now' /\ Proper(r)'
  BY <1>1, <1>12
<1>15. aired \subseteq SignalSet
  BY PeaceTypes
<1>16. SignalsTrue'
  BY <1>1, <1>2, <1>11, <1>13, <1>14, <1>15, TruthKept
<1>. QED
  BY <1>10, <1>16

LEMMA QuietKeepsTruth ==
  ASSUME Peaceful, SignalsTrue, NEW e \in queue, NEW new, Quietly(e, new)
  PROVE  SignalsTrue'
<1>1. aired \subseteq aired' /\ aired' \ aired = {} /\ aired \subseteq SignalSet /\ Ordinary
  BY PeaceTypes DEF Quietly
<1>2. \A f \in new : EntryTrue(f)'
  BY <1>1, TruthStays DEF Quietly
<1>3. \A n \in Node : IsTransmitting(n)' => state'[n] = state[n]
  BY DEF Quietly, IsTransmitting
<1>. QED
  BY <1>1, <1>2, <1>3, TruthKept DEF Quietly

---------------------------------------------------------------------------
(* Underway.                                                               *)

LEMMA FrontStaysComing ==
  ASSUME NEW e, queue \ {e} \subseteq queue', NEW r, NEW n, FrontComing(r, n),
         ~(e.kind = "FrontArrive" /\ e.node = n /\ e.signal = r)
  PROVE  FrontComing(r, n)'
BY DEF FrontComing

LEMMA OverStays ==
  ASSUME NEW r \in SignalSet, NEW n \in Node, <<r.source, n>> \in Pairs,
         NEW t \in Nat, NEW u \in Nat, t <= u, Over(r, n, t)
  PROVE  Over(r, n, u)
<1>1. Distance(r.source, n) \in Nat /\ r.t0 \in Nat /\ r.dur \in Nat
  BY CsmaAssumption DEF Distance, SignalSet
<1>. QED
  BY <1>1 DEF Over, Reach

(* A signal that is on the air stays under way until it is over.           *)
LEMMA StaysUnderway ==
  ASSUME Peaceful, SignalsTrue, Underway, NEW e \in queue, Handle(e),
         queue \ {e} \subseteq queue', Now' = e.time,
         NEW r \in aired, NEW n \in Node, <<r.source, n>> \in Pairs
  PROVE  \/ FrontComing(r, n)'
         \/ \E b \in PassingBy(n)' : b.signal = r
         \/ Over(r, n, Now')
<1>1. r \in SignalSet /\ Ordinary
  BY PeaceTypes
<1>2. Over(r, n, Now) => Over(r, n, Now')
  BY <1>1, NowGrows, OverStays
<1>3. CASE HandleFrontArrive(e)
  <2>1. PICK b : /\ b.signal = e.signal
                 /\ \A m \in Node : PassingBy(m)' = IF m = e.node THEN PassingBy(m) \cup {b}
                                                    ELSE PassingBy(m)
    BY <1>3, FrontPasses DEF Peaceful
  <2>2. CASE e.node = n /\ e.signal = r
    BY <2>1, <2>2
  <2>3. CASE ~(e.node = n /\ e.signal = r)
    <3>1. FrontComing(r, n) => FrontComing(r, n)'
      BY <2>3, FrontStaysComing
    <3>. QED
      BY <1>2, <2>1, <3>1 DEF Underway
  <2>. QED
    BY <2>2, <2>3
<1>4. CASE HandleBackArrive(e)
  <2>1. \A m \in Node : PassingBy(m)' = IF m = e.node THEN PassingBy(m) \ {e}
                                        ELSE PassingBy(m)
    BY <1>4, BackLeaves DEF Peaceful
  <2>2. e.kind = "BackArrive"
    BY <1>4 DEF HandleBackArrive, Pops
  <2>3. FrontComing(r, n) => FrontComing(r, n)'
    BY <2>2, FrontStaysComing
  <2>4. e.node = n /\ e.signal = r => Over(r, n, Now')
    <3>1. SUFFICES ASSUME e.node = n, e.signal = r PROVE Over(r, n, Now')
      OBVIOUS
    <3>2. e.time = Reach(r, n) + r.dur /\ e.time \in Nat
      BY <1>1, <2>2, <3>1, EntryTypes DEF SignalsTrue, EntryTrue
    <3>. QED
      BY <3>2 DEF Over
  <2>5. e \in PassingBy(e.node) /\ (\A b \in PassingBy(n) : b = e => e.node = n)
    BY <1>4, BackLeaves DEF PassingBy, Peaceful
  <2>. QED
    BY <1>2, <2>1, <2>3, <2>4, <2>5 DEF Underway
<1>5. CASE ~HandleFrontArrive(e) /\ ~HandleBackArrive(e)
  <2>1. PassingBy(n)' = PassingBy(n) /\ e.kind # "FrontArrive"
    <3>1. ~DropCancelled(e)
      BY PeaceTypes DEF DropCancelled, Sched!Skip
    <3>2. CASE HandleTxStart(e)
      BY <3>2, StartPasses DEF HandleTxStart, Pops, Peaceful
    <3>3. CASE ~HandleTxStart(e)
      BY <1>5, <3>1, <3>3, QuietArrivals, ArrivalsMatter DEF Handle, Peaceful, ArrivalEvents
    <3>. QED
      BY <3>2, <3>3
  <2>2. FrontComing(r, n) => FrontComing(r, n)'
    BY <2>1, FrontStaysComing
  <2>. QED
    BY <1>2, <2>1, <2>2 DEF Underway
<1>. QED
  BY <1>3, <1>4, <1>5

LEMMA QuietKeepsUnderway ==
  ASSUME Peaceful, SignalsTrue, Underway, NEW e \in queue, Handle(e),
         NEW new, Quietly(e, new)
  PROVE  Underway'
<1>1. queue \ {e} \subseteq queue' /\ Now' = e.time /\ aired' = aired
  BY DEF Quietly
<1>2. ASSUME NEW r \in aired, NEW n \in Node, <<r.source, n>> \in Pairs
      PROVE  \/ FrontComing(r, n)'
             \/ \E b \in PassingBy(n)' : b.signal = r
             \/ Over(r, n, Now')
  BY <1>1, <1>2, StaysUnderway
<1>. QED
  BY <1>1, <1>2 DEF Underway, Over, Reach, Distance

LEMMA StartKeepsUnderway ==
  ASSUME Peaceful, SignalsTrue, Underway, NEW e \in queue, Handle(e), Starts(e)
  PROVE  Underway'
<1>1. ASSUME NEW r \in aired, NEW n \in Node, <<r.source, n>> \in Pairs
      PROVE  \/ FrontComing(r, n)'
             \/ \E b \in PassingBy(n)' : b.signal = r
             \/ Over(r, n, Now')
  BY <1>1, StaysUnderway DEF Starts
<1>2. ASSUME NEW n \in Node, <<e.signal.source, n>> \in Pairs
      PROVE  FrontComing(e.signal, n)'
  BY <1>2 DEF Starts
<1>3. aired' = aired \cup {e.signal}
  BY DEF Starts
<1>. QED
  BY <1>1, <1>2, <1>3 DEF Underway, Over, Reach, Distance

---------------------------------------------------------------------------
(* FramesWait and AllHeard.                                                *)

(* What a station that starts a frame has not heard is still on its way,   *)
(* and what is neither heard nor on its way is over.                       *)
LEMMA FreeAtStart ==
  ASSUME Peaceful, SignalsTrue, Underway, NEW e \in queue, Starts(e),
         e.signal.kind = "Frame", NEW r, Disturbs(r, e.node)
  PROVE  \/ FrontComing(r, e.node) /\ e.time < Reach(r, e.node)
         \/ Over(r, e.node, e.time)
<1>1. /\ Ordinary /\ r \in aired /\ r.source \in Node /\ e.node \in Node
      /\ <<r.source, e.node>> \in Pairs /\ ~OnFd(e.node)
      /\ e.kind = "TxStart" /\ Sched!IsTop(queue, e)
  BY PeaceTypes, HearsOnHd DEF Disturbs, Starts, SignalSet, OnHd
<1>2. e.time = Now /\ foreign[e.node] = 0
  BY <1>1 DEF Peaceful, MediumInv, ClearToSend, FrameStart
<1>3. PassingBy(e.node) = {}
  <2>1. IsFiniteSet(PassingBy(e.node)) /\ Cardinality(PassingBy(e.node)) = 0
    BY <1>1, <1>2 DEF Peaceful, CarrierInv, CarrierMatchesWire
  <2>. QED
    BY <2>1, FS_EmptySet
<1>4. ASSUME NEW f \in queue, f.kind = "FrontArrive", f.node = e.node, f.signal = r
      PROVE  e.time < Reach(r, e.node)
  <2>1. f.time = Reach(r, e.node)
    BY <1>4 DEF SignalsTrue, EntryTrue
  <2>2. f # e /\ f.time \in Nat /\ e.time \in Nat
    BY <1>1, <1>4, EntryTypes
  <2>3. Sched!Before(Sched!Key(e), Sched!Key(f))
    BY <1>1, <2>2 DEF Sched!IsTop
  <2>4. Sched!PhaseOf(e.kind) = 3 /\ Sched!PhaseOf(f.kind) = 1
    BY <1>1, <1>4, PhaseValues
  <2>. QED
    BY <2>1, <2>2, <2>3, <2>4 DEF Sched!Before, Sched!Key
<1>. QED
  BY <1>1, <1>2, <1>3, <1>4 DEF Underway, FrontComing

LEMMA QuietKeepsFrames ==
  ASSUME FramesWait, NEW e, NEW new, Quietly(e, new) PROVE FramesWait'
BY DEF FramesWait, Quietly, Disturbs, Over, Reach, Distance, OnHd

LEMMA StartKeepsFrames ==
  ASSUME Peaceful, SignalsTrue, Underway, FramesWait, NEW e \in queue, Starts(e)
  PROVE  FramesWait'
<1>. DEFINE sig == e.signal
<1>1. /\ Ordinary /\ aired' = aired \cup {sig} /\ sig \in SignalSet /\ sig.t0 = e.time
      /\ sig.source = e.node /\ e.node \in Node
      /\ \A r \in aired : r.t0 <= Now /\ r.t0 \in Nat /\ r.source \in Node
  BY PeaceTypes DEF Starts, SignalsTrue, SignalSet
<1> SUFFICES ASSUME NEW r \in aired', NEW s \in aired', r.kind = "Frame",
                    s.source # r.source, OnHd(s.source, r.source)
             PROVE  r.t0 < Reach(s, r.source) \/ Over(s, r.source, r.t0)
  BY DEF FramesWait, Disturbs, Over, Reach, Distance, OnHd
<1>2. CASE r \in aired /\ s \in aired
  BY <1>2 DEF FramesWait, Disturbs
<1>3. CASE r = sig /\ s \in aired
  BY <1>1, <1>3, FreeAtStart DEF Disturbs
<1>4. CASE r \in aired /\ s = sig
  <2>1. Distance(sig.source, r.source) \in Nat /\ Distance(sig.source, r.source) > 0
    BY <1>1, <1>4, DistanceType
  <2>2. e.time \in Nat /\ Now \in Nat /\ Now <= e.time
    BY <1>1, NowGrows
  <2>. QED
    BY <1>1, <1>4, <2>1, <2>2 DEF Reach
<1>. QED
  BY <1>1, <1>2, <1>3, <1>4

(* While time stands still after a front, no back is taken.                *)
LEMMA NoBackDuringAnswer ==
  ASSUME Peaceful, NEW e \in queue, Sched!IsTop(queue, e), e.kind \in {"BackArrive", "TxEnd"},
         NEW n \in Node, SendsFrame(n)
  PROVE  foreign[n] = 0
<1>1. Ordinary /\ foreign[n] \in Nat /\ CollisionAnswered
  BY PeaceTypes DEF Peaceful, MediumInv
<1> SUFFICES ASSUME foreign[n] > 0 PROVE FALSE
  BY <1>1
<1>2. PICK a \in queue : Answers(a, n)
  BY <1>1, AnsweredBy
<1>3. a.time = Now /\ last[2] >= 1
  BY <1>2 DEF Answers, Peaceful, TimerInv, FrameAtHand, Mine, ChainKinds
<1>4. last[2] <= Sched!PhaseOf(e.kind) /\ Sched!PhaseOf(e.kind) = 0
  BY <1>1, <1>3, InstantGoesOn, PhaseValues
<1>. QED
  BY <1>1, <1>3, <1>4, EntryTypes

LEMMA QuietKeepsHeard ==
  ASSUME Peaceful, SignalsTrue, AllHeard, NEW e \in queue, Handle(e), ~HandleTxStart(e),
         NEW new, Quietly(e, new)
  PROVE  AllHeard'
<1> SUFFICES ASSUME NEW n \in Node, SendsFrame(n)', NEW r \in aired', r.source # n,
                    OnHd(r.source, n)
             PROVE  \/ foreign'[n] > 0 \/ FrontComing(r, n)'
                    \/ Over(r, n, state'[n].signal.t0)
  BY DEF AllHeard, Disturbs, Over, Reach, Distance, OnHd
<1>1. /\ Ordinary /\ queue \ {e} \subseteq queue' /\ Sched!IsTop(queue, e)
      /\ r \in aired /\ r.source \in Node /\ foreign \in [Node -> Nat]
  BY PeaceTypes DEF Quietly, SignalSet
<1>2. state'[n] = state[n] /\ SendsFrame(n)
  BY DEF Quietly, SendsFrame, IsTransmitting
<1>3. foreign[n] > 0 \/ FrontComing(r, n) \/ Over(r, n, state'[n].signal.t0)
  BY <1>1, <1>2 DEF AllHeard, Disturbs
<1>4. ~OnFd(n)
  BY <1>1, HearsOnHd
<1>5. CASE HandleFrontArrive(e)
  <2>1. foreign' = IF OnFd(e.node) THEN foreign ELSE [foreign EXCEPT ![e.node] = @ + 1]
    BY <1>5 DEF HandleFrontArrive
  <2>2. CASE e.node = n
    BY <1>1, <1>4, <2>1, <2>2
  <2>3. CASE e.node # n
    <3>1. foreign'[n] = foreign[n]
      BY <1>1, <2>1, <2>3
    <3>. QED
      BY <1>1, <1>3, <2>3, <3>1, FrontStaysComing
  <2>. QED
    BY <2>2, <2>3
<1>6. CASE HandleBackArrive(e)
  <2>1. e.kind = "BackArrive"
    BY <1>6 DEF HandleBackArrive, Pops
  <2>2. foreign[n] = 0
    BY <1>1, <1>2, <2>1, NoBackDuringAnswer
  <2>. QED
    BY <1>1, <1>3, <2>1, <2>2, FrontStaysComing
<1>7. CASE ~HandleFrontArrive(e) /\ ~HandleBackArrive(e)
  <2>1. ~DropCancelled(e)
    BY PeaceTypes DEF DropCancelled, Sched!Skip
  <2>2. foreign' = foreign /\ e.kind \notin ArrivalEvents
    BY <1>7, <2>1, QuietArrivals DEF Handle, Peaceful
  <2>. QED
    BY <1>1, <1>3, <2>2, FrontStaysComing DEF ArrivalEvents
<1>. QED
  BY <1>5, <1>6, <1>7

LEMMA StartKeepsHeard ==
  ASSUME Peaceful, SignalsTrue, Underway, AllHeard, NEW e \in queue, Starts(e)
  PROVE  AllHeard'
<1> SUFFICES ASSUME NEW n \in Node, SendsFrame(n)', NEW r \in aired', r.source # n,
                    OnHd(r.source, n)
             PROVE  \/ foreign'[n] > 0 \/ FrontComing(r, n)'
                    \/ Over(r, n, state'[n].signal.t0)
  BY DEF AllHeard, Disturbs, Over, Reach, Distance, OnHd
<1>1. /\ queue \ {e} \subseteq queue' /\ e.kind # "FrontArrive" /\ foreign' = foreign
      /\ aired' = aired \cup {e.signal} /\ state \in [Node -> StateSet]
      /\ state' = [state EXCEPT ![e.node] = Transmitting(e.signal, @.attempt)]
      /\ e.signal.source = e.node /\ e.signal.t0 = e.time
  BY PeaceTypes DEF Starts
<1>2. CASE n = e.node
  <2>1. state'[n].signal = e.signal /\ e.signal.kind = "Frame"
    BY <1>1, <1>2 DEF Transmitting, SendsFrame
  <2>2. r \in aired
    BY <1>1, <1>2
  <2>3. FrontComing(r, n) \/ Over(r, n, e.time)
    BY <1>2, <2>1, <2>2, FreeAtStart DEF Disturbs
  <2>. QED
    BY <1>1, <2>1, <2>3, FrontStaysComing
<1>3. CASE n # e.node
  <2>1. state'[n] = state[n] /\ SendsFrame(n)
    BY <1>1, <1>3 DEF SendsFrame, IsTransmitting
  <2>2. CASE r \in aired
    <3>1. foreign[n] > 0 \/ FrontComing(r, n) \/ Over(r, n, state[n].signal.t0)
      BY <2>1, <2>2 DEF AllHeard, Disturbs
    <3>. QED
      BY <1>1, <2>1, <3>1, FrontStaysComing
  <2>3. CASE r = e.signal
    <3>1. <<e.node, n>> \in Pairs
      BY <1>1, <1>3, <2>3 DEF OnHd
    <3>. QED
      BY <2>3, <3>1 DEF Starts
  <2>. QED
    BY <1>1, <2>2, <2>3
<1>. QED
  BY <1>2, <1>3

---------------------------------------------------------------------------
(* DeliveredInPeace.                                                       *)

LEMMA OthersKeepPeace ==
  ASSUME Peaceful, SignalsTrue, DeliveredInPeace, NEW e \in queue,
         Now' = e.time, delivered' = delivered,
         aired' = aired \/ Starts(e)
  PROVE  DeliveredInPeace'
<1>1. /\ Ordinary /\ e.time \in Nat /\ Now \in Nat /\ Now <= e.time
      /\ aired \subseteq SignalSet
  BY PeaceTypes, NowGrows
<1>2. ASSUME NEW s \in delivered
      PROVE  /\ s \in aired' /\ s.kind = "Frame" /\ s.t0 + s.dur <= Now'
  <2>1. s \in aired /\ s.kind = "Frame" /\ s.t0 + s.dur <= Now
    BY DEF DeliveredInPeace
  <2>2. s.t0 \in Nat /\ s.dur \in Nat
    BY <1>1, <2>1 DEF SignalSet
  <2>. QED
    BY <1>1, <2>1, <2>2 DEF Starts
<1>3. ASSUME NEW s \in delivered, NEW r \in aired', r.source # s.source,
             OnHd(r.source, s.source)
      PROVE  Over(r, s.source, s.t0) \/ Reach(r, s.source) >= s.t0 + s.dur
  <2>1. s \in aired /\ s.t0 + s.dur <= Now
    BY DEF DeliveredInPeace
  <2>2. CASE r \in aired
    BY <1>3, <2>2 DEF DeliveredInPeace, Disturbs
  <2>3. CASE Starts(e) /\ r = e.signal
    <3>1. r.t0 = e.time /\ r.source \in Node /\ s.source \in Node
          /\ s.t0 \in Nat /\ s.dur \in Nat
      BY <1>1, <2>1, <2>3 DEF Starts, SignalSet
    <3>2. Distance(r.source, s.source) \in Nat
      BY <1>3, <3>1, DistanceType
    <3>. QED
      BY <1>1, <2>1, <3>1, <3>2 DEF Reach
  <2>. QED
    BY <2>2, <2>3 DEF Starts
<1>. QED
  BY <1>2, <1>3 DEF DeliveredInPeace, Disturbs, Over, Reach, Distance, OnHd

LEMMA EndKeepsPeace ==
  ASSUME Peaceful, SignalsTrue, AllHeard, DeliveredInPeace, NEW e \in queue, HandleTxEnd(e)
  PROVE  DeliveredInPeace'
<1>1. /\ Ordinary /\ Pops(e, "TxEnd") /\ e.kind = "TxEnd" /\ aired' = aired
      /\ e.node \in Node /\ e.signal \in SignalSet /\ e.time \in Nat
      /\ Sched!IsTop(queue, e) /\ Now' = e.time
  BY PeaceTypes, EntryTypes, PopFacts DEF HandleTxEnd, Pops, NodeEvents, SignalEvents
<1>2. CASE delivered' = delivered
  BY <1>1, <1>2, OthersKeepPeace
<1>3. CASE EndsCurrent(e.node, e.signal) /\ e.signal.kind = "Frame"
           /\ delivered' = delivered \cup {e.signal}
  <2>. DEFINE s == e.signal
  <2>1. /\ s \in aired /\ s.source = e.node /\ e.time = s.t0 + s.dur
        /\ SendsFrame(e.node) /\ state[e.node].signal = s
    BY <1>1, <1>3 DEF SignalsTrue, EntryTrue, EndsCurrent, SendsFrame
  <2>2. foreign[e.node] = 0
    BY <1>1, <2>1, NoBackDuringAnswer
  <2>3. ASSUME NEW r, Disturbs(r, s.source)
        PROVE  Over(r, s.source, s.t0) \/ Reach(r, s.source) >= s.t0 + s.dur
    <3>1. FrontComing(r, e.node) \/ Over(r, s.source, s.t0)
      BY <1>1, <2>1, <2>2, <2>3, PeaceTypes DEF AllHeard, Disturbs
    <3>2. FrontComing(r, e.node) => e.time <= Reach(r, e.node)
      BY <1>1, TopIsEarliest DEF FrontComing, SignalsTrue, EntryTrue
    <3>3. Reach(r, e.node) \in Nat
      <4>1. r.source \in Node /\ r.t0 \in Nat /\ Distance(r.source, e.node) \in Nat
        BY <1>1, <2>1, <2>3, PeaceTypes, DistanceType DEF Disturbs, SignalSet
      <4>. QED
        BY <4>1 DEF Reach
    <3>. QED
      BY <1>1, <2>1, <3>1, <3>2, <3>3
  <2>4. \A d \in delivered : d.t0 + d.dur <= Now'
    <3>1. ASSUME NEW d \in delivered PROVE d.t0 + d.dur <= Now'
      <4>1. d \in aired /\ d.t0 + d.dur <= Now
        BY DEF DeliveredInPeace
      <4>2. d.t0 \in Nat /\ d.dur \in Nat
        BY <4>1, PeaceTypes DEF SignalSet
      <4>. QED
        BY <1>1, <4>1, <4>2, NowGrows
    <3>. QED
      BY <3>1
  <2>5. s.t0 + s.dur <= Now'
    BY <1>1, <2>1
  <2>6. \A d \in delivered' : /\ d \in aired' /\ d.kind = "Frame" /\ d.t0 + d.dur <= Now'
                              /\ \A r : Disturbs(r, d.source) =>
                                   \/ Over(r, d.source, d.t0)
                                   \/ Reach(r, d.source) >= d.t0 + d.dur
    BY <1>1, <1>3, <2>1, <2>3, <2>4, <2>5 DEF DeliveredInPeace, Disturbs
  <2>. QED
    BY <1>1, <2>6 DEF DeliveredInPeace, Disturbs, Over, Reach, Distance, OnHd
<1>. QED
  BY <1>2, <1>3 DEF HandleTxEnd

LEMMA QuietKeepsPeace ==
  ASSUME Peaceful, SignalsTrue, AllHeard, DeliveredInPeace,
         NEW e \in queue, Handle(e), ~HandleTxStart(e), NEW new, Quietly(e, new)
  PROVE  DeliveredInPeace'
<1>1. CASE HandleTxEnd(e)
  BY <1>1, EndKeepsPeace
<1>2. CASE ~HandleTxEnd(e)
  <2>1. delivered' = delivered
    BY <1>2 DEF Handle, HandleTxAttempt, HandleFrontArrive, HandleBackArrive,
       HandleCollisionDetect, HandleJamStart, HandleJamEnd, HandleBackoffExpire,
       HandleTopologyChanged, DropCancelled, history
  <2>2. Now' = e.time /\ aired' = aired
    BY DEF Quietly
  <2>. QED
    BY <2>1, <2>2, OthersKeepPeace
<1>. QED
  BY <1>1, <1>2

---------------------------------------------------------------------------
(* The whole invariant.                                                    *)

LEMMA HandlersKeepPeace ==
  ASSUME Peaceful, ProperMedium, OnlyFrames, PeaceInv, NEW e \in queue, Handle(e)
  PROVE  PeaceInv'
<1>1. CASE HandleTxStart(e)
  <2>1. Starts(e) /\ SignalsTrue'
    BY <1>1, StartEffects DEF PeaceInv
  <2>2. Now' = e.time /\ delivered' = delivered
    BY <2>1 DEF Starts
  <2>. QED
    BY <2>1, <2>2, StartKeepsUnderway, StartKeepsFrames, StartKeepsHeard, OthersKeepPeace
       DEF PeaceInv
<1>2. CASE ~HandleTxStart(e)
  <2>1. PICK new : Quietly(e, new)
    BY <1>2, HandlersAreQuiet DEF PeaceInv
  <2>. QED
    BY <1>2, <2>1, QuietKeepsTruth, QuietKeepsUnderway, QuietKeepsFrames, QuietKeepsHeard,
       QuietKeepsPeace DEF PeaceInv
<1>. QED
  BY <1>1, <1>2

(* What is left of the host's calls when there are no edits.               *)
LEMMA CallsWithoutEdits ==
  ASSUME MaxEdits = 0, CarrierInv, Host
  PROVE  \/ \E o \in Offers : ScheduleTxAttempt(o[1], o[2], o[3])
         \/ StartRun \/ ReturnFromRun
<1>1. ~(edits < MaxEdits)
  BY DEF CarrierInv
<1>. QED
  BY <1>1 DEF Host, RemoveSegment, AddSegment, RemoveNode, SetSegmentDelay, SetSegmentRate,
              SetMacConfig

LEMMA CallsKeepPeace ==
  ASSUME Peaceful, PeaceInv, MaxEdits = 0, Host \/ UNCHANGED vars
  PROVE  PeaceInv'
<1>1. /\ state' = state /\ foreign' = foreign /\ aired' = aired /\ delivered' = delivered
      /\ last' = last /\ cancelled' = cancelled /\ cancelled' = {}
      /\ \E new : /\ queue' = queue \cup new
                  /\ \A f \in new : f.kind = "TxAttempt"
  <2>1. cancelled = {} /\ CarrierInv
    BY DEF Peaceful, CarrierInv
  <2>2. CASE \E o \in Offers : ScheduleTxAttempt(o[1], o[2], o[3])
    <3>1. PICK o \in Offers : ScheduleTxAttempt(o[1], o[2], o[3])
      BY <2>2
    <3>2. PICK g : g = AttemptEntry(o[1], serial, o[2], o[3])
      OBVIOUS
    <3>3. g.kind = "TxAttempt"
      BY <3>2, PlainEntries
    <3>4. queue' = queue \cup {g}
      BY <3>1, <3>2 DEF ScheduleTxAttempt, HostPushes
    <3>5. /\ state' = state /\ foreign' = foreign /\ aired' = aired
          /\ delivered' = delivered /\ last' = last /\ cancelled' = cancelled
      BY <3>1 DEF ScheduleTxAttempt, HostPushes, mac, history
    <3>6. \E new : /\ queue' = queue \cup new
                   /\ \A f \in new : f.kind = "TxAttempt"
      <4>1. PICK new : new = {g}
        OBVIOUS
      <4>. QED
        BY <3>3, <3>4, <4>1
    <3>. QED
      BY <2>1, <3>5, <3>6
  <2>3. CASE StartRun \/ ReturnFromRun \/ UNCHANGED vars
    <3>1. queue' = queue \cup {}
      BY <2>3 DEF StartRun, ReturnFromRun, Sched!StartRun, Sched!ReturnFromRun, vars
    <3>. QED
      BY <2>1, <2>3, <3>1 DEF StartRun, ReturnFromRun, Sched!StartRun, Sched!ReturnFromRun,
                              vars, mac, history
  <2>. QED
    BY <2>1, <2>2, <2>3, CallsWithoutEdits
<1>2. PICK new : queue' = queue \cup new /\ \A f \in new : f.kind = "TxAttempt"
  BY <1>1
<1>3. \A n \in Node : PassingBy(n)' = PassingBy(n)
  <2>1. \A g : g.kind \in ArrivalEvents => (g \in queue' <=> g \in queue)
    BY <1>2 DEF ArrivalEvents
  <2>. QED
    BY <1>1, <2>1, ArrivalsMatter DEF Peaceful
<1>4. \A r, n : FrontComing(r, n)' <=> FrontComing(r, n)
  BY <1>2 DEF FrontComing
<1>5. SignalsTrue'
  <2>1. \A f \in queue' : EntryTrue(f)'
    BY <1>1, <1>2, TruthStays, PlainEntries DEF PeaceInv, SignalsTrue
  <2>2. \A r \in aired' : r.t0 <= Now' /\ Proper(r)'
    BY <1>1, TruthStays DEF PeaceInv, SignalsTrue, Now
  <2>. QED
    BY <1>1, <2>1, <2>2 DEF PeaceInv, SignalsTrue, IsTransmitting
<1>6. Underway'
  BY <1>1, <1>3, <1>4 DEF PeaceInv, Underway, Over, Reach, Distance, Now
<1>7. FramesWait'
  BY <1>1 DEF PeaceInv, FramesWait, Disturbs, Over, Reach, Distance, OnHd
<1>8. AllHeard'
  BY <1>1, <1>4 DEF PeaceInv, AllHeard, SendsFrame, IsTransmitting, Disturbs, Over, Reach,
                    Distance, OnHd
<1>9. DeliveredInPeace'
  BY <1>1 DEF PeaceInv, DeliveredInPeace, Disturbs, Over, Reach, Distance, OnHd, Now
<1>. QED
  BY <1>5, <1>6, <1>7, <1>8, <1>9 DEF PeaceInv

(* Nothing but edits changes the world.                                    *)
LEMMA WorldStays ==
  ASSUME MaxEdits = 0, CarrierInv, [Next]_vars
  PROVE  up' = up /\ delay' = delay
<1>1. CASE \E e \in queue : Handle(e)
  BY <1>1 DEF Handle, HandleTxAttempt, HandleTxStart, HandleTxEnd, HandleFrontArrive,
     HandleBackArrive, HandleCollisionDetect, HandleJamStart, HandleJamEnd,
     HandleBackoffExpire, HandleTopologyChanged, DropCancelled, Emits, world, settings
<1>2. CASE Host
  BY <1>2, CallsWithoutEdits DEF ScheduleTxAttempt, StartRun, ReturnFromRun, world, settings
<1>3. CASE UNCHANGED vars
  BY <1>3 DEF vars, world, settings
<1>. QED
  BY <1>1, <1>2, <1>3 DEF Next

---------------------------------------------------------------------------
(* What peace is worth.                                                    *)

(* A frame that was delivered, and any signal from elsewhere: seen from    *)
(* the one's source, and from the other's, one was over before the other.  *)
LEMMA OneAfterTheOther ==
  ASSUME PeaceInv, ProperMedium, aired \subseteq SignalSet,
         NEW s \in delivered, NEW r \in aired, r.source # s.source,
         OnHd(r.source, s.source), OnHd(s.source, r.source)
  PROVE  Over(r, s.source, s.t0) \/ Over(s, r.source, r.t0)
<1>. DEFINE m == s.source
            n == r.source
            D == Distance(m, n)
<1>1. /\ s \in aired /\ s.kind = "Frame" /\ m \in Node /\ n \in Node
      /\ s.t0 \in Nat /\ s.dur \in Nat /\ r.t0 \in Nat /\ r.dur \in Nat
  BY DEF PeaceInv, DeliveredInPeace, SignalSet
<1>2. D \in Nat /\ Distance(n, m) = D
  BY <1>1, DistanceType DEF ProperMedium
<1>3. s.dur >= 2 * D
  BY <1>1 DEF PeaceInv, SignalsTrue, Proper, LongEnough
<1>4. ASSUME NEW q \in aired, q.source = n
      PROVE  Over(q, m, s.t0) \/ q.t0 + D >= s.t0 + s.dur
  BY <1>2, <1>4 DEF PeaceInv, DeliveredInPeace, Disturbs, Reach
<1>5. ASSUME NEW q \in aired, q.source = n, q.kind = "Frame"
      PROVE  q.t0 < s.t0 + D \/ Over(s, n, q.t0)
  BY <1>1, <1>5 DEF PeaceInv, FramesWait, Disturbs, Reach
<1>6. ASSUME NEW q \in aired, q.source = n, q.kind = "Frame"
      PROVE  Over(q, m, s.t0) \/ Over(s, n, q.t0)
  <2>1. q.t0 \in Nat
    BY DEF SignalSet
  <2>2. CASE q.t0 + D >= s.t0 + s.dur /\ q.t0 < s.t0 + D
    BY <1>1, <1>2, <1>3, <2>1, <2>2
  <2>. QED
    BY <1>4, <1>5, <1>6, <2>2
<1>7. CASE r.kind = "Frame"
  BY <1>6, <1>7
<1>8. CASE r.kind # "Frame"
  <2>1. PICK q \in aired : /\ q.source = n /\ q.kind = "Frame"
                           /\ q.t0 <= r.t0 /\ r.t0 <= q.t0 + q.dur
    BY <1>8 DEF PeaceInv, SignalsTrue, Proper, AfterFrame
  <2>2. q.t0 \in Nat /\ q.dur \in Nat
    BY DEF SignalSet
  <2>3. CASE Over(q, m, s.t0)
    <3>1. q.t0 + D + q.dur <= s.t0
      BY <1>2, <2>1, <2>3 DEF Over, Reach
    <3>2. s.dur > 0
      BY <1>1 DEF SignalSet
    <3>3. ~(r.t0 + D >= s.t0 + s.dur)
      BY <1>1, <1>2, <2>1, <2>2, <3>1, <3>2
    <3>. QED
      BY <1>4, <3>3
  <2>4. CASE Over(s, n, q.t0)
    <3>1. s.t0 + D + s.dur <= q.t0
      BY <2>4 DEF Over, Reach
    <3>2. s.t0 + D + s.dur <= r.t0
      BY <1>1, <1>2, <2>1, <2>2, <3>1
    <3>. QED
      BY <3>2 DEF Over, Reach
  <2>. QED
    BY <1>6, <2>1, <2>3, <2>4
<1>. QED
  BY <1>7, <1>8

LEMMA PeaceDelivers ==
  ASSUME PeaceInv, ProperMedium, aired \subseteq SignalSet, delay = Delay
  PROVE  DeliveredUndisturbed
<1> SUFFICES ASSUME NEW s \in delivered, NEW r \in aired, NEW n \in Node,
                    s.source # r.source, OnHd(s.source, n), OnHd(r.source, n),
                    Overlap(s, r, n)
             PROVE  FALSE
  BY DEF DeliveredUndisturbed
<1>. DEFINE a == s.source
            b == r.source
<1>1. /\ s \in aired /\ a \in Node /\ b \in Node
      /\ s.t0 \in Nat /\ s.dur \in Nat /\ r.t0 \in Nat /\ r.dur \in Nat
  BY DEF PeaceInv, DeliveredInPeace, SignalSet
<1>2. /\ OnHd(n, a) /\ OnHd(n, b)
      /\ Distance(n, a) = Distance(a, n) /\ Distance(n, b) = Distance(b, n)
  BY <1>1 DEF ProperMedium
<1>3. /\ OnHd(a, b) /\ OnHd(b, a) /\ Distance(b, a) = Distance(a, b)
      /\ Distance(a, n) <= Distance(a, b) + Distance(b, n)
      /\ Distance(b, n) <= Distance(b, a) + Distance(a, n)
  BY <1>1, <1>2 DEF ProperMedium
<1>4. Distance(a, b) \in Nat /\ Distance(a, n) \in Nat /\ Distance(b, n) \in Nat
  BY <1>1, <1>3, DistanceType
<1>5. Reaches(s, n) = s.t0 + Distance(a, n) /\ Reaches(r, n) = r.t0 + Distance(b, n)
  BY DEF Reaches, Distance
<1>6. \/ r.t0 + Distance(a, b) + r.dur <= s.t0
      \/ s.t0 + Distance(a, b) + s.dur <= r.t0
  BY <1>3, OneAfterTheOther DEF Over, Reach
<1>7. /\ s.t0 + Distance(a, n) < r.t0 + Distance(b, n) + r.dur
      /\ r.t0 + Distance(b, n) < s.t0 + Distance(a, n) + s.dur
  BY <1>5 DEF Overlap
<1>. HIDE DEF a, b
<1>. QED
  BY <1>1, <1>3, <1>4, <1>6, <1>7

(* Theorem 1 of the engine's documentation, as a guarantee of CSMA/CD: in  *)
(* a collision domain whose frames are at least as long as a round trip    *)
(* between any two of its stations, a frame that its sender counts as sent *)
(* met no signal of another station anywhere in the domain (engine.rs, the *)
(* handlers from handle_tx_attempt to handle_tx_end).                      *)
THEOREM FramesGetThrough ==
  ASSUME ~PastAllowed, MaxEdits = 0, OnlyFrames, ProperMedium
  PROVE  Spec => []DeliveredUndisturbed
<1>. DEFINE Still == up = Segment /\ delay = Delay
            Timers == \A n \in Node : TimerInv(n)
<1>1. Init => Still /\ PeaceInv
  BY DEF Init, Sched!SchedulerInit, PeaceInv, SignalsTrue, Underway, FramesWait, AllHeard,
         DeliveredInPeace, SendsFrame, IsTransmitting, Idle
<1>2. CarrierInv /\ Still /\ [Next]_vars => Still'
  BY WorldStays
<1>3. Wired /\ MediumInv /\ CarrierInv /\ Timers /\ Still => Peaceful
  BY DEF Peaceful
<1>4. Peaceful /\ PeaceInv /\ [Next]_vars => PeaceInv'
  BY HandlersKeepPeace, CallsKeepPeace DEF Next
<1>5. Peaceful /\ PeaceInv => DeliveredUndisturbed
  BY PeaceDelivers, PeaceTypes DEF Peaceful
<1>6. Spec => []CsmaInv
  BY CsmaInit, CsmaStep, PTL DEF Spec
<1>7. CsmaInv /\ KeysAhead /\ TombstonesQueued /\ EditInv => Wired
  BY DEF Wired, Ordinary
<1>8. Spec => []Timers
  BY TimersInvAlways DEF OnlyFrames
<1>. HIDE DEF Still, Timers
<1>. QED
  BY <1>1, <1>2, <1>3, <1>4, <1>5, <1>6, <1>7, <1>8, KeysAheadAlways, TombstonesAlwaysQueued,
     EditsKeepInv, MediumInvAlways, CarrierInvAlways, PTL DEF Spec
=============================================================================
