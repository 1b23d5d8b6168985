-------------------------- MODULE Scheduler_proofs --------------------------
(***************************************************************************)
(* Proofs about the abstract scheduler, for every queue content and every  *)
(* handler that keeps to Dispatch.                                         *)
(*                                                                         *)
(* KeysAhead is inductive once the types of the entries are known and the  *)
(* serial of the last processed entry is known to be used up (LastIsOld):  *)
(* without that an edit made between two runs could push a marker at the   *)
(* current instant that sorts before the entry just processed.             *)
(***************************************************************************)
EXTENDS Scheduler, TLAPS

EntriesTyped ==
  /\ \A e \in queue : e.time \in Nat /\ e.serial \in Nat
  /\ serial \in Nat

LastIsOld ==
  /\ last \in Nat \X (0 .. 3) \X Int
  /\ last[3] < serial

SchedulerInv == EntriesTyped /\ LastIsOld /\ KeysAhead

LEMMA PhaseRange == \A k : PhaseOf(k) \in 0 .. 3
BY DEF PhaseOf, Release, Assertion, Reaction, LocalDecision

LEMMA KeyType ==
  ASSUME NEW e, e.time \in Nat, e.serial \in Nat
  PROVE  Key(e) \in Nat \X (0 .. 3) \X Int
BY PhaseRange DEF Key

(* The key of every entry a host call pushes is after the last one.        *)
LEMMA HostKeysAhead ==
  ASSUME LastIsOld, serial \in Nat, NEW f, f.time \in Nat, f.serial \in Nat,
         f.time >= Now, PhaseOf(f.kind) = LocalDecision, f.serial >= serial
  PROVE  Before(last, Key(f))
<1>1. /\ Key(f)[1] = f.time
      /\ Key(f)[2] = LocalDecision
      /\ Key(f)[3] = f.serial
  BY DEF Key
<1>2. last[1] \in Nat /\ last[2] \in 0 .. 3 /\ last[3] \in Int /\ last[3] < serial
  BY DEF LastIsOld
<1>. QED
  BY <1>1, <1>2 DEF Before, Now, LocalDecision

LEMMA InitScheduler == SchedulerInit => SchedulerInv
BY DEF SchedulerInit, SchedulerInv, EntriesTyped, LastIsOld, KeysAhead, Release

(* The new entries of a call, whatever the call, are typed and numbered    *)
(* after the old ones.                                                     *)
LEMMA PushesTyped ==
  ASSUME EntriesTyped, KeysAhead, Pushes(queue' \ queue)
  PROVE  /\ EntriesTyped'
         /\ \A e \in queue' : e.serial < serial'
         /\ \A e, f \in queue' : e.serial = f.serial => e = f
<1>1. \A e \in queue' \ queue : e.time \in Nat /\ e.serial \in Nat
                                /\ e.serial >= serial /\ e.serial < serial'
  BY DEF Pushes, EntriesTyped
<1>2. \A e \in queue : e.time \in Nat /\ e.serial \in Nat
                       /\ e.serial < serial /\ e.serial < serial'
  BY DEF Pushes, EntriesTyped, KeysAhead
<1>3. serial' \in Nat
  BY DEF Pushes
<1>4. ASSUME NEW e \in queue', NEW f \in queue', e.serial = f.serial
      PROVE  e = f
  <2>1. CASE e \in queue /\ f \in queue
    BY <1>4, <2>1 DEF KeysAhead
  <2>2. CASE e \notin queue /\ f \notin queue
    BY <1>4, <2>2 DEF Pushes
  <2>3. CASE (e \in queue) # (f \in queue)
    BY <1>4, <2>3, <1>1, <1>2 DEF EntriesTyped
  <2>. QED
    BY <2>1, <2>2, <2>3
<1>. QED
  BY <1>1, <1>2, <1>3, <1>4 DEF EntriesTyped

LEMMA HostCallKeeps ==
  ASSUME SchedulerInv, HostCall PROVE SchedulerInv'
<1>1. /\ EntriesTyped'
      /\ \A e \in queue' : e.serial < serial'
      /\ \A e, f \in queue' : e.serial = f.serial => e = f
  BY PushesTyped DEF HostCall, SchedulerInv
<1>2. LastIsOld'
  <2>1. last' = last /\ serial' \in Nat /\ serial' >= serial
    BY DEF HostCall, Pushes
  <2>. QED
    BY <2>1 DEF SchedulerInv, EntriesTyped, LastIsOld
<1>3. ASSUME NEW e \in queue' PROVE Before(last, Key(e))
  <2>1. CASE e \in queue
    BY <2>1 DEF SchedulerInv, KeysAhead
  <2>2. CASE e \notin queue
    <3>1. /\ e.time \in Nat /\ e.serial \in Nat /\ e.serial >= serial
          /\ e.time >= Now /\ PhaseOf(e.kind) = LocalDecision
      BY <2>2 DEF HostCall, Pushes, SchedulerInv, EntriesTyped
    <3>. QED
      BY <3>1, HostKeysAhead DEF SchedulerInv, EntriesTyped
  <2>. QED
    BY <2>1, <2>2
<1>4. last' = last
  BY DEF HostCall
<1>. QED
  BY <1>1, <1>2, <1>3, <1>4 DEF SchedulerInv, KeysAhead, Key

LEMMA DispatchKeeps ==
  ASSUME SchedulerInv, NEW e \in queue, Dispatch(e) PROVE SchedulerInv'
<1>1. /\ EntriesTyped'
      /\ \A f \in queue' : f.serial < serial'
      /\ \A f, g \in queue' : f.serial = g.serial => f = g
  BY PushesTyped DEF Dispatch, SchedulerInv
<1>2. last' = Key(e) /\ e.time \in Nat /\ e.serial \in Nat /\ e.serial < serial
      /\ serial' \in Nat /\ serial' >= serial /\ serial \in Nat
  BY DEF Dispatch, Pushes, SchedulerInv, EntriesTyped, KeysAhead
<1>3. LastIsOld'
  <2>1. Key(e)[3] = e.serial
    BY DEF Key
  <2>. QED
    BY <1>2, <2>1, KeyType DEF LastIsOld
<1>4. ASSUME NEW f \in queue' PROVE Before(Key(e), Key(f))
  BY <1>4 DEF Dispatch, IsTop
<1>. QED
  BY <1>1, <1>2, <1>3, <1>4 DEF SchedulerInv, KeysAhead, Key

LEMMA SkipKeeps ==
  ASSUME SchedulerInv, NEW e \in queue, Skip(e) PROVE SchedulerInv'
<1>1. last' = Key(e) /\ e.time \in Nat /\ e.serial \in Nat /\ e.serial < serial
      /\ serial' = serial /\ serial \in Nat /\ queue' = queue \ {e}
  BY DEF Skip, SchedulerInv, EntriesTyped, KeysAhead
<1>2. LastIsOld'
  <2>1. Key(e)[3] = e.serial
    BY DEF Key
  <2>. QED
    BY <1>1, <2>1, KeyType DEF LastIsOld
<1>3. ASSUME NEW f \in queue' PROVE Before(Key(e), Key(f))
  BY <1>1 DEF Skip, IsTop
<1>4. EntriesTyped'
  BY <1>1 DEF SchedulerInv, EntriesTyped
<1>. QED
  BY <1>1, <1>2, <1>3, <1>4 DEF SchedulerInv, KeysAhead, Key

(* SchedulerInv is inductive.                                              *)
LEMMA SchedulerStep ==
  ASSUME SchedulerInv, [SchedulerNext]_sched PROVE SchedulerInv'
<1>1. CASE HostCall
  BY <1>1, HostCallKeeps
<1>2. CASE StartRun \/ ReturnFromRun \/ UNCHANGED sched
  BY <1>2 DEF StartRun, ReturnFromRun, sched, SchedulerInv, EntriesTyped,
              LastIsOld, KeysAhead, Key
<1>3. CASE \E e \in queue : Dispatch(e)
  BY <1>3, DispatchKeeps
<1>4. CASE \E e \in queue : Skip(e)
  BY <1>4, SkipKeeps
<1>. QED
  BY <1>1, <1>2, <1>3, <1>4 DEF SchedulerNext

(* I4 (event.rs, "phase-order totality"): in every scheduler that keeps to *)
(* the abstract machine all queued entries lie after the last processed    *)
(* one and no two of them share a serial.                                  *)
THEOREM KeysStayAhead == SchedulerSpec => []KeysAhead
<1>1. SchedulerSpec => []SchedulerInv
  BY InitScheduler, SchedulerStep, PTL DEF SchedulerSpec
<1>2. SchedulerInv => KeysAhead
  BY DEF SchedulerInv
<1>. QED
  BY <1>1, <1>2, PTL

(* The keys of the processed entries only ever grow, although handlers     *)
(* push entries at the current instant and hosts push edit markers there.  *)
THEOREM LogGrowsInKeyOrder == SchedulerSpec => LogInKeyOrder
<1>1. SchedulerSpec => []SchedulerInv
  BY InitScheduler, SchedulerStep, PTL DEF SchedulerSpec
<1>2. ASSUME SchedulerInv, [SchedulerNext]_sched
      PROVE  [last' # last => Before(last, last')]_sched
  <2>1. ASSUME NEW e \in queue, Dispatch(e) \/ Skip(e) PROVE Before(last, last')
    BY <1>2, <2>1 DEF Dispatch, Skip, SchedulerInv, KeysAhead
  <2>2. CASE HostCall \/ StartRun \/ ReturnFromRun \/ UNCHANGED sched
    BY <2>2 DEF HostCall, StartRun, ReturnFromRun, sched
  <2>. QED
    BY <1>2, <2>1, <2>2 DEF SchedulerNext
<1>. QED
  BY <1>1, <1>2, PTL DEF SchedulerSpec, LogInKeyOrder

(* A tombstone always names an entry that is still queued, so the set of   *)
(* tombstones cannot outlive what it cancels (Engine::cancelled).          *)
THEOREM TombstonesStayQueued == SchedulerSpec => []TombstonesQueued
<1>1. SchedulerInit => TombstonesQueued
  BY DEF SchedulerInit, TombstonesQueued
<1>2. ASSUME TombstonesQueued, [SchedulerNext]_sched PROVE TombstonesQueued'
  <2>1. CASE HostCall
    BY <1>2, <2>1 DEF HostCall, TombstonesQueued
  <2>2. CASE StartRun \/ ReturnFromRun \/ UNCHANGED sched
    BY <1>2, <2>2 DEF StartRun, ReturnFromRun, sched, TombstonesQueued
  <2>3. ASSUME NEW e \in queue, Dispatch(e) PROVE TombstonesQueued'
    <3>1. cancelled' = cancelled /\ e.serial \notin cancelled /\ queue \ {e} \subseteq queue'
      BY <2>3 DEF Dispatch
    <3>. QED
      BY <1>2, <3>1 DEF TombstonesQueued
  <2>4. ASSUME NEW e \in queue, Skip(e) PROVE TombstonesQueued'
    <3>1. cancelled' = cancelled \ {e.serial} /\ queue' = queue \ {e}
      BY <2>4 DEF Skip
    <3>. QED
      BY <1>2, <3>1 DEF TombstonesQueued
  <2>. QED
    BY <1>2, <2>1, <2>2, <2>3, <2>4 DEF SchedulerNext
<1>. QED
  BY <1>1, <1>2, PTL DEF SchedulerSpec
===========================================================================
