------------------------------- MODULE Observe -------------------------------
(***************************************************************************)
(* The endpoint observers of observe.rs on the event log that the engine   *)
(* of CsmaCd writes.  The observers are pure functions of the log; what a  *)
(* caller learns from them is right only if the log and the state of the   *)
(* engine keep step, which is what this module states.                     *)
(*                                                                         *)
(* The dispatch loop logs every entry it handles; of the tombstoned ones   *)
(* it logs those that carry a signal, as SignalLost.                       *)
(***************************************************************************)
EXTENDS CsmaCd, Sequences

VARIABLE log

observed == <<vars, log>>

LostEntry(e) == [kind |-> "SignalLost", time |-> e.time, signal |-> e.signal]

LogsHandled(e) == log' = IF e.serial \notin cancelled THEN Append(log, e) ELSE log
(* What run_inner pushes on the log for the entry it has popped.           *)
Logs(e) ==
  log' = IF e.serial \notin cancelled THEN Append(log, e)
         ELSE IF e.kind \in SignalEvents THEN Append(log, LostEntry(e))
         ELSE log

---------------------------------------------------------------------------
(* The observers.                                                          *)

AtNode(n, kinds) ==
  {i \in DOMAIN log : log[i].kind \in kinds /\ log[i].node = n}

WholeLog(t) == DOMAIN log
ReadBefore(t) ==
  LET after == {j \in DOMAIN log : log[j].time >= t}
  IN  {i \in DOMAIN log : \A j \in after : i < j}
(* carrier_sense stops reading at the first entry after t.                 *)
ReadUpTo(t) ==
  LET after == {j \in DOMAIN log : log[j].time > t}
  IN  {i \in DOMAIN log : \A j \in after : i < j}

CarrierSense(n, t) ==
  Cardinality(AtNode(n, {"FrontArrive", "TxStart"}) \cap ReadUpTo(t))
    > Cardinality(AtNode(n, {"BackArrive", "TxEnd"}) \cap ReadUpTo(t))

CollisionDetect(n, t) ==
  \E i \in AtNode(n, {"CollisionDetect"}) : log[i].time <= t

(* The first entry in the order of the log, as a set of at most one time.  *)
FirstCollisionDetectAt(n) ==
  {log[i].time : i \in {k \in AtNode(n, {"CollisionDetect"}) :
                          \A j \in AtNode(n, {"CollisionDetect"}) : k <= j}}

ReceiveComplete(n, sig, t) ==
  \E i \in AtNode(n, {"BackArrive"}) : log[i].signal = sig /\ log[i].time <= t

---------------------------------------------------------------------------
ObserveInit == Init /\ log = <<>>

ObserveNext ==
  \/ Host /\ UNCHANGED log
  \/ \E e \in queue : Handle(e) /\ Logs(e)

ObserveSpec == ObserveInit /\ [][ObserveNext]_observed
---------------------------------------------------------------------------
(* Properties.                                                             *)

(* carrier_sense, read from the log, says of the present instant what the  *)
(* engine's own state says: a signal of another station has reached the    *)
(* port (foreign_carriers), or a transmission of the station's own is on   *)
(* record and its end is still queued.  A frame that was cut short by a    *)
(* jam counts until the end it was started with.                           *)
OnTheAir(n) ==
  \E e \in queue : e.kind = "TxEnd" /\ e.node = n /\ e.signal \in aired /\ Live(e)

SenseAgreesWithEngine ==
  \A n \in alive : Access[n] \notin FdSegment =>
    (CarrierSense(n, Now) <=> (foreign[n] > 0 \/ OnTheAir(n)))

(* What is over is over: no observer ever changes its answer about the     *)
(* time just before the present, so a caller may ask while the simulation  *)
(* is still running.  (Earlier times rest on fewer entries of the log.)    *)
AnswersAbout(n, t) ==
  <<CarrierSense(n, t), CollisionDetect(n, t), FirstCollisionDetectAt(n) \cap (0 .. t),
    {log[i].signal : i \in {k \in AtNode(n, {"BackArrive"}) : log[k].time <= t}}>>

PastAnswersStand ==
  [][\A n \in Node, t \in {Now - 1} : AnswersAbout(n, t)' = AnswersAbout(n, t)]_log

(* No reception fails silently: once the leading edge of a signal has come *)
(* to a station, receive_complete turns true at the very time its trailing *)
(* edge is due, or else the log says at that time that the signal is lost. *)
LossReported(sig, t) ==
  \E i \in DOMAIN log : /\ log[i].kind = "SignalLost"
                        /\ log[i].signal = sig /\ log[i].time = t

ReceivedOrReportedLost ==
  \A i \in DOMAIN log :
    LET n == log[i].node
        sig == log[i].signal
        due == log[i].time + sig.dur
    IN  (log[i].kind = "FrontArrive" /\ due < Now) =>
          \/ ReceiveComplete(n, sig, due) /\ ~ReceiveComplete(n, sig, due - 1)
          \/ LossReported(sig, due)
===========================================================================
