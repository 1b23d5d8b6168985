------------------------------ MODULE Scheduler ------------------------------
(***************************************************************************)
(* The discrete-event scheduler of engine.rs: a priority queue of events   *)
(* ordered by (time, phase, serial id), a dispatch loop that always takes  *)
(* the least entry, and tombstones for entries that a topology edit has    *)
(* cancelled.  The first half is the vocabulary (phases, keys, the order   *)
(* on keys); the second half is an abstract state machine that fixes what  *)
(* every handler of the engine may do to the queue, whatever the event is. *)
(* The detailed modules implement that state machine.                      *)
(*                                                                         *)
(* An entry is a record with at least the fields kind, time and serial.    *)
(***************************************************************************)
EXTENDS Integers

---------------------------------------------------------------------------
(* Phase (event.rs): what happens first among the events of one instant.   *)

Release       == 0
Assertion     == 1
Reaction      == 2
LocalDecision == 3

ReleaseKinds   == {"BackArrive", "TxEnd", "JamEnd"}
AssertionKinds == {"FrontArrive"}
ReactionKinds  == {"CollisionDetect", "JamStart", "FrameEligible"}

PhaseOf(kind) ==
  IF kind \in ReleaseKinds THEN Release
  ELSE IF kind \in AssertionKinds THEN Assertion
  ELSE IF kind \in ReactionKinds THEN Reaction
  ELSE LocalDecision

---------------------------------------------------------------------------
(* EventKey (event.rs) and its derived lexicographic order.                *)

Key(e) == <<e.time, PhaseOf(e.kind), e.serial>>

Before(k, l) ==
  \/ k[1] < l[1]
  \/ k[1] = l[1] /\ k[2] < l[2]
  \/ k[1] = l[1] /\ k[2] = l[2] /\ k[3] < l[3]

(* The entry BinaryHeap::pop returns; serial ids make it unique.           *)
IsTop(q, e) == e \in q /\ \A f \in q \ {e} : Before(Key(e), Key(f))

---------------------------------------------------------------------------
VARIABLES
  queue,       (* Engine::queue, a set of entries                          *)
  serial,      (* Engine::next_serial                                      *)
  last,        (* key of the last entry popped; its time is the engine's   *)
               (* last_processed_time                                      *)
  cancelled,   (* Engine::cancelled, as the serials of the tombstoned keys *)
  running      (* whether a call of run_until / run_until_idle is active   *)

sched == <<queue, serial, last, cancelled, running>>

Now == last[1]

SchedulerInit ==
  /\ queue = {}
  /\ serial = 0
  /\ last = <<0, Release, -1>>
  /\ cancelled = {}
  /\ running = FALSE

(* What one call may push: entries that carry fresh serials, one each.     *)
Pushes(new) ==
  /\ serial' \in Nat /\ serial' >= serial
  /\ \A f \in new : f.time \in Nat /\ f.serial \in serial .. (serial' - 1)
  /\ \A f, g \in new : f.serial = g.serial => f = g

(* Between two runs the host schedules attempts and applies edits: new     *)
(* LocalDecision entries, none in the past, and tombstones for entries     *)
(* that are still queued.                                                  *)
HostCall ==
  /\ ~running
  /\ queue \subseteq queue'
  /\ Pushes(queue' \ queue)
  /\ \A f \in queue' \ queue : f.time >= Now /\ PhaseOf(f.kind) = LocalDecision
  /\ cancelled \subseteq cancelled'
  /\ cancelled' \ cancelled \subseteq {f.serial : f \in queue}
  /\ UNCHANGED <<last, running>>

StartRun ==
  /\ ~running
  /\ running' = TRUE
  /\ UNCHANGED <<queue, serial, last, cancelled>>

(* run_until(h) returns when the next entry is at or past h; an instant    *)
(* that was begun is finished.                                             *)
ReturnFromRun ==
  /\ running
  /\ \A e \in queue : e.time > Now
  /\ running' = FALSE
  /\ UNCHANGED <<queue, serial, last, cancelled>>

(* A dispatched handler consumes its entry and schedules others, all with  *)
(* fresh serials and all later in key order than the entry it handles.     *)
Dispatch(e) ==
  /\ running
  /\ IsTop(queue, e)
  /\ e.serial \notin cancelled
  /\ queue \ {e} \subseteq queue'
  /\ e \notin queue'
  /\ Pushes(queue' \ queue)
  /\ \A f \in queue' \ queue : Before(Key(e), Key(f))
  /\ last' = Key(e)
  /\ UNCHANGED <<cancelled, running>>

SkipKeepingTombstone(e) ==
  /\ running
  /\ IsTop(queue, e)
  /\ e.serial \in cancelled
  /\ queue' = queue \ {e}
  /\ last' = Key(e)
  /\ UNCHANGED <<serial, cancelled, running>>

(* A tombstoned entry is dropped and so is its tombstone.                  *)
Skip(e) ==
  /\ running
  /\ IsTop(queue, e)
  /\ e.serial \in cancelled
  /\ queue' = queue \ {e}
  /\ cancelled' = cancelled \ {e.serial}
  /\ last' = Key(e)
  /\ UNCHANGED <<serial, running>>

SchedulerNext ==
  \/ HostCall \/ StartRun \/ ReturnFromRun
  \/ \E e \in queue : Dispatch(e) \/ Skip(e)

SchedulerSpec == SchedulerInit /\ [][SchedulerNext]_sched

---------------------------------------------------------------------------
(* I4, phase-order totality: whatever is still queued comes after          *)
(* everything already processed, and no two entries share a serial, so the *)
(* heap's order is total.                                                  *)
KeysAhead ==
  /\ \A e \in queue : Before(last, Key(e)) /\ e.serial < serial
  /\ \A e, f \in queue : e.serial = f.serial => e = f

(* The log is in key order: each entry the loop pops has a greater key     *)
(* than the one popped before it, although handlers push entries at the    *)
(* current instant and edits push entries at last_processed_time.          *)
LogInKeyOrder == [][last' # last => Before(last, last')]_sched

(* Every tombstone names an entry that is still queued, so each of them    *)
(* is consumed by the dispatch loop and none can hit a later event.        *)
TombstonesQueued == cancelled \subseteq {e.serial : e \in queue}
===========================================================================
