-------------------------- MODULE SwitchTable_proofs --------------------------
(***************************************************************************)
(* Proofs about SwitchTable, for any addresses, capacity, thresholds and   *)
(* bound on time.                                                          *)
(***************************************************************************)
EXTENDS SwitchTable, FiniteSetTheorems, SequenceTheorems, WellFoundedInduction, TLAPS

---------------------------------------------------------------------------
(* There is always an oldest entry to evict.                               *)

(* A number stands for the set of the smaller ones; strict inclusion of    *)
(* finite sets is well-founded.                                            *)
LEMMA LeastNatural ==
  ASSUME NEW T \in SUBSET Nat, T # {}
  PROVE  \E x \in T : \A y \in T : x <= y
<1> DEFINE below(n) == 0 .. (n - 1)
           image == {below(x) : x \in T}
           order == StrictSubsetOrdering(Nat)
<1>1. image \subseteq FiniteSubsetsOf(Nat) /\ image # {}
  <2>1. ASSUME NEW x \in T PROVE below(x) \in FiniteSubsetsOf(Nat)
    <3>1. x - 1 \in Int /\ 0 \in Int
      OBVIOUS
    <3>2. IsFiniteSet(0 .. (x - 1))
      BY <3>1, FS_Interval
    <3>. QED
      BY <3>2 DEF FiniteSubsetsOf
  <2>. QED
    BY <2>1
<1>2. PICK u \in image : \A v \in image : <<v, u>> \notin order
  <2>1. IsWellFoundedOn(order, FiniteSubsetsOf(Nat))
    BY FS_StrictSubsetOrderingWellFounded
  <2>. HIDE DEF image, order
  <2>. QED
    BY <1>1, <2>1, WFMin
<1>3. PICK x \in T : u = below(x)
  BY <1>2
<1>4. ASSUME NEW y \in T, y < x PROVE FALSE
  <2>1. below(y) \subseteq u /\ y \in u /\ y \notin below(y)
    BY <1>3, <1>4
  <2>2. <<below(y), u>> \in order
    BY <1>3, <2>1 DEF StrictSubsetOrdering
  <2>. QED
    BY <1>2, <2>2
<1>. QED
  BY <1>4

Table == [Mac -> Entry \cup {NoEntry}]

LEMMA EntryFields ==
  ASSUME NEW t \in Table, NEW m \in Known(t)
  PROVE  t[m] \in Entry /\ t[m].at \in Nat
BY DEF Table, Known, Entry

LEMMA OldestExists ==
  ASSUME NEW t \in Table, Known(t) # {}
  PROVE  \E o \in Known(t) : IsOldest(t, o)
<1> DEFINE ages == {t[m].at : m \in Known(t)}
<1>1. ages \in SUBSET Nat /\ ages # {}
  BY EntryFields
<1>2. PICK a \in ages : \A y \in ages : a <= y
  <2>. HIDE DEF ages
  <2>. QED  BY <1>1, LeastNatural
<1> DEFINE oldest == {m \in Known(t) : t[m].at = a}
<1>3. oldest \in SUBSET Nat /\ oldest # {}
  <2>1. \E m \in Known(t) : t[m].at = a
    BY <1>2
  <2>2. Known(t) \subseteq Nat
    BY SwitchAssumption DEF Known
  <2>. QED
    BY <2>1, <2>2
<1>4. PICK o \in oldest : \A y \in oldest : o <= y
  <2>. HIDE DEF oldest
  <2>. QED  BY <1>3, LeastNatural
<1>5. ASSUME NEW m \in Known(t)
      PROVE  t[o].at < t[m].at \/ (t[o].at = t[m].at /\ o <= m)
  <2>1. t[m].at \in Nat /\ t[o].at \in Nat /\ t[o].at = a /\ a <= t[m].at
        /\ m \in Nat /\ o \in Nat
    BY <1>2, <1>4, EntryFields, SwitchAssumption DEF Known
  <2>2. t[m].at = a => o <= m
    BY <1>4
  <2>. HIDE DEF ages, oldest
  <2>. QED
    BY <2>1, <2>2
<1>. QED
  BY <1>4, <1>5 DEF IsOldest

---------------------------------------------------------------------------
(* What insert_entry does to a table.                                      *)

LEMMA InsertType ==
  ASSUME NEW t \in Table, NEW m \in Mac, NEW e \in Entry
  PROVE  Insert(t, m, e) \in Table
BY DEF Insert, Table

(* The new entry is in, and every other one is as it was or evicted.       *)
LEMMA InsertEntries ==
  ASSUME NEW t \in Table, NEW m \in Mac, NEW e, NEW k \in Mac
  PROVE  /\ Insert(t, m, e)[m] = e
         /\ k # m => Insert(t, m, e)[k] \in {t[k], NoEntry}
BY DEF Insert

Fits(t) == Capacity # 0 => Cardinality(Known(t)) <= Capacity

LEMMA InsertFits ==
  ASSUME NEW t \in Table, NEW m \in Mac, NEW e, Fits(t)
  PROVE  Fits(Insert(t, m, e))
<1> DEFINE K == Known(t)
           L == Known(Insert(t, m, e))
<1>. SUFFICES ASSUME Capacity # 0 PROVE Cardinality(L) <= Capacity
  BY DEF Fits
<1>1. IsFiniteSet(K) /\ Cardinality(K) \in Nat /\ Cardinality(K) <= Capacity
  BY SwitchAssumption, FS_Subset, FS_CardinalityType DEF Fits, Known
<1>2. L \subseteq (K \ Evicts(t, m)) \cup {m}
  BY DEF Insert, Known, Evicts
<1>3. CASE ~Full(t, m)
  <2>1. L \subseteq K \cup {m}
    BY <1>2
  <2>2. IsFiniteSet(K \cup {m}) /\ Cardinality(K \cup {m}) <= Capacity
    <3>1. /\ IsFiniteSet(K \cup {m})
          /\ m \in K => Cardinality(K \cup {m}) = Cardinality(K)
          /\ m \notin K => Cardinality(K \cup {m}) = Cardinality(K) + 1
      <4>. HIDE DEF K
      <4>. QED  BY <1>1, FS_AddElement
    <3>2. m \notin K => Cardinality(K) < Capacity
      BY <1>1, <1>3, SwitchAssumption DEF Full
    <3>. QED
      BY <1>1, <3>1, <3>2, SwitchAssumption
  <2>3. IsFiniteSet(K \cup {m}) /\ Cardinality(L) <= Cardinality(K \cup {m})
        /\ Cardinality(L) \in Nat /\ Cardinality(K \cup {m}) \in Nat
    BY <2>1, <2>2, FS_Subset, FS_CardinalityType
  <2>. QED
    BY <2>2, <2>3, SwitchAssumption
<1>4. CASE Full(t, m)
  <2>1. Cardinality(K) = Capacity /\ m \notin K
    BY <1>1, <1>4, SwitchAssumption DEF Full
  <2>2. K # {}
    BY <2>1, FS_EmptySet
  <2>3. PICK o \in K : o \in Evicts(t, m)
    BY <1>4, <2>2, OldestExists DEF Evicts
  <2> DEFINE rest == (K \ {o}) \cup {m}
  <2>4. IsFiniteSet(K \ {o}) /\ Cardinality(K \ {o}) = Capacity - 1
    BY <1>1, <2>1, <2>3, FS_RemoveElement
  <2>5. IsFiniteSet(rest) /\ Cardinality(rest) = Capacity
    <3>1. m \notin K \ {o}
      BY <2>1
    <3>2. IsFiniteSet(rest) /\ Cardinality(rest) = Cardinality(K \ {o}) + 1
      <4>. HIDE DEF K
      <4>. QED  BY <2>4, <3>1, FS_AddElement
    <3>. QED
      BY <2>4, <3>2, SwitchAssumption
  <2>6. L \subseteq rest
    BY <1>2, <2>3
  <2>. QED
    BY <2>5, <2>6, FS_Subset
<1>. QED
  BY <1>3, <1>4

(* Dropping entries keeps a table within its capacity.                     *)
LEMMA DropFits ==
  ASSUME NEW t \in Table, NEW u \in Table, Fits(t),
         \A m \in Mac : u[m] \in {t[m], NoEntry}
  PROVE  Fits(u)
<1>1. Known(u) \subseteq Known(t)
  BY DEF Known
<1>2. IsFiniteSet(Known(t)) /\ IsFiniteSet(Known(u))
  BY SwitchAssumption, FS_Subset DEF Known
<1>3. /\ Cardinality(Known(u)) <= Cardinality(Known(t))
      /\ Cardinality(Known(u)) \in Nat /\ Cardinality(Known(t)) \in Nat
  BY <1>1, <1>2, FS_Subset, FS_CardinalityType
<1>. QED
  BY <1>3, SwitchAssumption DEF Fits

---------------------------------------------------------------------------
(* The chain of ticks.                                                     *)

ChainOf(tick, due, n) ==
  /\ due \in BOOLEAN /\ tick \in Seq(Nat)
  /\ Len(tick) = IF due THEN 1 ELSE 0
  /\ \A i \in DOMAIN tick : tick[i] >= n

(* maybe_schedule_aging keeps a chain of at most one tick, queues none if  *)
(* there is one, and leaves none missing while the table is not empty.     *)
LEMMA ScheduleKeepsChain ==
  ASSUME NEW t, NEW due, NEW tick, NEW n \in Nat, ChainOf(tick, due, n),
         threshold \in Nat, now' = n, ScheduleAging(t, due, tick)
  PROVE  /\ ChainOf(ticks', scheduled', n)
         /\ due => scheduled' /\ ticks' = tick
         /\ ~due => \A i \in DOMAIN ticks' : ticks'[i] = n + threshold
         /\ (threshold # 0 /\ Known(t) # {}) => scheduled'
<1>1. CASE threshold = 0 \/ Known(t) = {} \/ due
  <2>1. scheduled' = due /\ ticks' = tick
    BY <1>1 DEF ScheduleAging
  <2>2. ~due => DOMAIN tick = {}
    BY DEF ChainOf
  <2>. QED
    BY <1>1, <2>1, <2>2
<1>2. CASE ~(threshold = 0 \/ Known(t) = {} \/ due)
  <2>1. scheduled' = TRUE /\ ticks' = Append(tick, n + threshold)
    BY <1>2 DEF ScheduleAging
  <2>2. tick \in Seq(Nat) /\ Len(tick) = 0 /\ n + threshold \in Nat
    BY <1>2 DEF ChainOf
  <2>3. /\ ticks' \in Seq(Nat) /\ Len(ticks') = 1 /\ DOMAIN ticks' = {1}
        /\ ticks'[1] = n + threshold
    BY <2>1, <2>2
  <2>4. ChainOf(ticks', scheduled', n)
    BY <2>1, <2>3 DEF ChainOf
  <2>. QED
    BY <1>2, <2>1, <2>3, <2>4
<1>. QED
  BY <1>1, <1>2

---------------------------------------------------------------------------
(* The inductive invariant.                                                *)

(* Nothing in the table or the queue is off by more than a threshold.      *)
Ages ==
  /\ threshold <= longest
  /\ threshold = 0 => disabled
  /\ \A m \in Mac : IsLearned(m) => table[m].at <= now
  /\ \A i \in DOMAIN ticks : ticks[i] <= now + longest

(* Unless aging was ever disabled, a tick is queued for every learned      *)
(* entry, in time.                                                         *)
DueInTime ==
  ~disabled => \A m \in Mac : IsLearned(m) =>
    /\ scheduled
    /\ \A i \in DOMAIN ticks : ticks[i] <= table[m].at + 2 * longest

SwitchInv ==
  /\ TypeOK /\ OneTickChain /\ LearnedFollowsStation /\ Fits(table)
  /\ Ages /\ DueInTime

LEMMA InitInv == Init => SwitchInv
<1>. SUFFICES ASSUME Init PROVE SwitchInv
  OBVIOUS
<1>1. \A m \in Mac : table[m] = NoEntry
  BY DEF Init
<1>2. /\ DOMAIN ticks = {} /\ ticks \in Seq(Nat)
      /\ threshold \in Nat /\ longest = threshold
  BY SwitchAssumption DEF Init
<1>3. disabled \in BOOLEAN /\ (threshold = 0 => disabled)
  BY Zenon DEF Init
<1>4. TypeOK
  BY <1>2, <1>3 DEF Init, TypeOK
<1>5. OneTickChain
  BY DEF Init, OneTickChain
<1>6. LearnedFollowsStation /\ DueInTime
  BY <1>1 DEF LearnedFollowsStation, DueInTime, IsLearned
<1>7. Fits(table)
  <2>1. Known(table) = {}
    BY <1>1 DEF Known
  <2>. QED
    BY <2>1, FS_EmptySet, SwitchAssumption DEF Fits
<1>8. Ages
  BY <1>2, <1>1, <1>3 DEF Ages, IsLearned
<1>. QED
  BY <1>4, <1>5, <1>6, <1>7, <1>8 DEF SwitchInv

(* on_frame_arrive, when it learns.                                        *)
LEMMA LearningKeepsInv ==
  ASSUME SwitchInv, NEW t \in Nat, NEW m \in Mac, NEW p \in Port,
         OnFrameArrive(t, m, p), m # Zero, Learns(m)
  PROVE  SwitchInv'
<1> DEFINE e == [port |-> p, at |-> t, manual |-> FALSE]
<1>1. /\ t >= now /\ now' = t /\ ChainOf(ticks, scheduled, t)
      /\ \A i \in DOMAIN ticks : ticks[i] <= now + longest
      /\ now \in Nat /\ threshold \in Nat /\ longest \in Nat
  BY DEF OnFrameArrive, SwitchInv, TypeOK, OneTickChain, ChainOf, Ages
<1>2. /\ sighted' = [sighted EXCEPT ![m] = [port |-> p, at |-> t]]
      /\ table' = Insert(table, m, e)
      /\ ScheduleAging(table', scheduled, ticks)
      /\ threshold' = threshold /\ longest' = longest /\ disabled' = disabled
  BY DEF OnFrameArrive, config
<1>3. table \in Table /\ e \in Entry /\ table' \in Table
  BY <1>2, InsertType DEF SwitchInv, TypeOK, Table, Entry
<1>4. /\ table'[m] = e
      /\ \A k \in Mac : k # m => table'[k] \in {table[k], NoEntry}
  BY <1>2, <1>3, InsertEntries
<1>5. /\ ChainOf(ticks', scheduled', t)
      /\ scheduled => scheduled' /\ ticks' = ticks
      /\ ~scheduled => \A i \in DOMAIN ticks' : ticks'[i] = t + threshold
      /\ (threshold # 0 /\ Known(table') # {}) => scheduled'
  BY <1>1, <1>2, ScheduleKeepsChain
<1>6. TypeOK' /\ OneTickChain'
  <2>1. sighted' \in [Mac -> [port : Port, at : Nat] \cup {NoEntry}]
    BY <1>2 DEF SwitchInv, TypeOK
  <2>. QED
    BY <1>1, <1>2, <1>3, <1>5, <2>1 DEF ChainOf, SwitchInv, TypeOK, OneTickChain, Table
<1>7. LearnedFollowsStation'
  <2>1. ASSUME NEW k \in Mac, IsLearned(k)'
        PROVE  table'[k].port = sighted'[k].port /\ table'[k].at = sighted'[k].at
    <3>1. CASE k = m
      BY <1>2, <1>4, <3>1 DEF SwitchInv, TypeOK
    <3>2. CASE k # m
      BY <1>2, <1>4, <2>1, <3>2 DEF SwitchInv, TypeOK, LearnedFollowsStation, IsLearned
    <3>. QED
      BY <3>1, <3>2
  <2>. QED
    BY <2>1 DEF LearnedFollowsStation
<1>8. Fits(table')
  BY <1>2, <1>3, InsertFits DEF SwitchInv
<1>9. \A k \in Mac : IsLearned(k)' =>
        table'[k].at = t \/ (IsLearned(k) /\ table'[k] = table[k])
  BY <1>4 DEF IsLearned
<1>10. Ages'
  <2>1. \A k \in Mac : IsLearned(k)' => table'[k].at <= now'
    BY <1>1, <1>3, <1>9, EntryFields DEF SwitchInv, Ages, Known, IsLearned
  <2>2. \A i \in DOMAIN ticks' : ticks'[i] <= now' + longest
    BY <1>1, <1>5 DEF SwitchInv, Ages, ChainOf
  <2>. QED
    BY <1>2, <2>1, <2>2 DEF SwitchInv, Ages
<1>11. DueInTime'
  <2>. SUFFICES ASSUME ~disabled, NEW k \in Mac, IsLearned(k)'
                PROVE  /\ scheduled'
                       /\ \A i \in DOMAIN ticks' : ticks'[i] <= table'[k].at + 2 * longest
    BY <1>2 DEF DueInTime
  <2>1. threshold # 0 /\ threshold <= longest /\ Known(table') # {}
    BY DEF SwitchInv, Ages, IsLearned, Known
  <2>2. scheduled'
    BY <1>5, <2>1
  <2>3. table'[k].at \in Nat /\ \A i \in DOMAIN ticks' : ticks'[i] \in Nat
    BY <1>3, <1>5, EntryFields DEF Known, IsLearned, ChainOf
  <2>4. ASSUME NEW i \in DOMAIN ticks' PROVE ticks'[i] <= table'[k].at + 2 * longest
    <3>1. CASE table'[k].at = t
      BY <1>1, <1>5, <2>1, <2>3, <3>1 DEF ChainOf
    <3>2. CASE IsLearned(k) /\ table'[k] = table[k]
      BY <1>5, <3>2 DEF SwitchInv, DueInTime
    <3>. QED
      BY <1>9, <3>1, <3>2
  <2>. QED
    BY <2>2, <2>4
<1>. QED
  BY <1>6, <1>7, <1>8, <1>10, <1>11 DEF SwitchInv

(* What a step does that neither learns nor schedules: it drops some       *)
(* learned entries, may add manual ones, and leaves the ticks alone.       *)
Tends ==
  /\ now' \in Nat /\ now' >= now /\ \A i \in DOMAIN ticks : now' <= ticks[i]
  /\ table' \in Table /\ Fits(table')
  /\ \A m \in Mac : IsLearned(m)' => IsLearned(m) /\ table'[m] = table[m]
  /\ threshold' \in Nat /\ longest' \in Nat /\ disabled' \in BOOLEAN
  /\ longest <= longest' /\ threshold' <= longest'
  /\ disabled \/ threshold' = 0 => disabled'
  /\ scheduled' = scheduled /\ ticks' = ticks

(* An address is sighted anew only when its entry is not a learned one.    *)
SightsUnlearned ==
  /\ sighted' \in [Mac -> [port : Port, at : Nat] \cup {NoEntry}]
  /\ \A m \in Mac : IsLearned(m) => sighted'[m] = sighted[m]

LEMMA TendingKeepsInv ==
  ASSUME SwitchInv, Tends, SightsUnlearned
  PROVE  SwitchInv'
<1>1. TypeOK' /\ OneTickChain'
  BY DEF SwitchInv, TypeOK, OneTickChain, Tends, SightsUnlearned, Table
<1>2. LearnedFollowsStation'
  BY DEF SwitchInv, LearnedFollowsStation, Tends, SightsUnlearned
<1>3. \A m \in Mac : IsLearned(m)' => IsLearned(m) /\ table'[m] = table[m] /\ table[m].at \in Nat
  BY EntryFields DEF SwitchInv, TypeOK, Tends, Table, Known, IsLearned
<1>4. \A i \in DOMAIN ticks : ticks[i] \in Nat
  BY DEF SwitchInv, TypeOK
<1>5. Ages'
  BY <1>3, <1>4 DEF SwitchInv, TypeOK, Ages, Tends
<1>6. DueInTime'
  <2>. SUFFICES ASSUME ~disabled', NEW m \in Mac, IsLearned(m)'
                PROVE  /\ scheduled'
                       /\ \A i \in DOMAIN ticks' : ticks'[i] <= table'[m].at + 2 * longest'
    BY DEF DueInTime
  <2>1. /\ scheduled
        /\ \A i \in DOMAIN ticks : ticks[i] <= table[m].at + 2 * longest
    BY <1>3 DEF SwitchInv, DueInTime, Tends
  <2>2. longest <= longest' /\ longest \in Nat /\ longest' \in Nat
    BY DEF SwitchInv, TypeOK, Tends
  <2>. QED
    BY <1>3, <1>4, <2>1, <2>2 DEF Tends
<1>. QED
  BY <1>1, <1>2, <1>5, <1>6 DEF SwitchInv, Tends

(* on_frame_arrive, for an opaque frame or a manual entry.                 *)
LEMMA PassingKeepsInv ==
  ASSUME SwitchInv, NEW t \in Nat, NEW m \in Mac, NEW p \in Port,
         OnFrameArrive(t, m, p), ~(m # Zero /\ Learns(m))
  PROVE  SwitchInv'
<1>1. Tends
  BY DEF Tends, OnFrameArrive, SwitchInv, TypeOK, Ages, IsLearned, Table, config
<1>2. SightsUnlearned
  BY DEF SightsUnlearned, OnFrameArrive, SwitchInv, TypeOK, Learns, IsManual, IsLearned
<1>. QED
  BY <1>1, <1>2, TendingKeepsInv

(* apply_command                                                           *)
LEMMA CommandsKeepInv ==
  ASSUME SwitchInv, Command
  PROVE  SwitchInv'
<1>. USE DEF Table
<1>1. ASSUME NEW m \in Mac, NEW p \in Port, InsertMacEntry(m, p) PROVE SwitchInv'
  <2> DEFINE e == [port |-> p, at |-> 0, manual |-> TRUE]
  <2>1. table' = Insert(table, m, e) /\ e \in Entry /\ table \in Table
    BY <1>1 DEF InsertMacEntry, Entry, SwitchInv, TypeOK
  <2>2. table' \in Table /\ Fits(table')
    BY <2>1, InsertType, InsertFits DEF SwitchInv
  <2>3. \A k \in Mac : IsLearned(k)' => IsLearned(k) /\ table'[k] = table[k]
    BY <2>1, InsertEntries DEF IsLearned
  <2>4. UNCHANGED <<now, threshold, longest, disabled, scheduled, ticks, sighted>>
    BY <1>1 DEF InsertMacEntry, config
  <2>5. Tends
    BY <2>2, <2>3, <2>4 DEF Tends, SwitchInv, TypeOK, Ages
  <2>6. SightsUnlearned
    BY <2>4 DEF SightsUnlearned, SwitchInv, TypeOK
  <2>. QED
    BY <2>5, <2>6, TendingKeepsInv
<1>2. ASSUME NEW gone \in SUBSET Mac, UNCHANGED <<now, scheduled, ticks, sighted, config>>,
             table' = [k \in Mac |-> IF k \in gone THEN NoEntry ELSE table[k]]
      PROVE  SwitchInv'
  <2>1. table' \in Table /\ table \in Table /\ \A k \in Mac : table'[k] \in {table[k], NoEntry}
    BY <1>2 DEF SwitchInv, TypeOK
  <2>2. Fits(table')
    BY <2>1, DropFits DEF SwitchInv
  <2>3. Tends
    BY <1>2, <2>1, <2>2 DEF Tends, SwitchInv, TypeOK, Ages, IsLearned, config
  <2>4. SightsUnlearned
    BY <1>2 DEF SightsUnlearned, SwitchInv, TypeOK
  <2>. QED
    BY <2>3, <2>4, TendingKeepsInv
<1>3. ASSUME NEW m \in Mac, RemoveMacEntry(m) PROVE SwitchInv'
  <2>1. table' = [k \in Mac |-> IF k \in {m} THEN NoEntry ELSE table[k]]
    BY <1>3 DEF RemoveMacEntry, SwitchInv, TypeOK
  <2>. QED
    BY <1>2, <1>3, <2>1 DEF RemoveMacEntry
<1>4. ASSUME FlushMacTable PROVE SwitchInv'
  <2>1. table' = [k \in Mac |-> IF k \in Mac THEN NoEntry ELSE table[k]]
    BY <1>4 DEF FlushMacTable
  <2>. QED
    BY <1>2, <1>4, <2>1 DEF FlushMacTable
<1>5. ASSUME NEW h \in Thresholds, SetSwitchAgingThreshold(h) PROVE SwitchInv'
  <2>1. /\ h \in Nat /\ longest \in Nat /\ threshold' = h
        /\ longest' = IF h > longest THEN h ELSE longest
    BY <1>5, SwitchAssumption DEF SetSwitchAgingThreshold, SwitchInv, TypeOK
  <2>2. disabled' \in BOOLEAN /\ (disabled \/ threshold' = 0 => disabled')
    BY <1>5, Zenon DEF SetSwitchAgingThreshold
  <2>3. Tends
    BY <1>5, <2>1, <2>2 DEF Tends, SetSwitchAgingThreshold, SwitchInv, TypeOK, IsLearned
  <2>4. SightsUnlearned
    BY <1>5 DEF SightsUnlearned, SetSwitchAgingThreshold, SwitchInv, TypeOK
  <2>. QED
    BY <2>3, <2>4, TendingKeepsInv
<1>. QED
  BY <1>1, <1>3, <1>4, <1>5 DEF Command

(* on_aging_tick                                                           *)
LEMMA AgingKeepsInv ==
  ASSUME SwitchInv, NEW i \in DOMAIN ticks, OnAgingTick(i)
  PROVE  SwitchInv'
<1> DEFINE n == ticks[i]
<1>1. /\ now' = n /\ n \in Nat /\ n >= now /\ now \in Nat
      /\ threshold \in Nat /\ longest \in Nat
      /\ sighted' = sighted
      /\ threshold' = threshold /\ longest' = longest /\ disabled' = disabled
      /\ table \in Table
  BY DEF OnAgingTick, SwitchInv, TypeOK, config, Table
(* The chain has one tick, so nothing is left of it.                       *)
<1>2. scheduled /\ Len(ticks) = 1 /\ i = 1 /\ ticks \in Seq(Nat)
  BY DEF SwitchInv, TypeOK, OneTickChain
<1>3. RemoveAt(ticks, i) = <<>>
  <2>1. SubSeq(ticks, 1, 0) = <<>> /\ SubSeq(ticks, 2, 1) = <<>>
    BY SubSeqEmpty
  <2>2. RemoveAt(ticks, i) = <<>> \o <<>>
    BY <1>2, <2>1 DEF RemoveAt
  <2>. QED
    BY <2>2
<1>4. ChainOf(<<>>, FALSE, n)
  BY DEF ChainOf
<1>5. CASE threshold = 0
  <2>1. disabled /\ scheduled' = FALSE /\ ticks' = <<>> /\ table' = table
    BY <1>3, <1>5 DEF OnAgingTick, SwitchInv, Ages
  <2>2. Len(ticks') = 0 /\ DOMAIN ticks' = {} /\ ticks' \in Seq(Nat)
    BY <2>1
  <2>3. TypeOK' /\ OneTickChain'
    <3>1. \A j \in DOMAIN ticks' : ticks'[j] >= now'
      BY <2>2
    <3>2. TypeOK'
      BY <1>1, <2>1, <2>2, <3>1 DEF SwitchInv, TypeOK, Table
    <3>. QED
      BY <2>1, <2>2, <3>2 DEF OneTickChain
  <2>4. LearnedFollowsStation'
    BY <1>1, <2>1 DEF SwitchInv, LearnedFollowsStation, IsLearned
  <2>5. Ages'
    <3>1. \A m \in Mac : IsLearned(m)' => table'[m].at \in Nat /\ table'[m].at <= now
      BY <1>1, <2>1, EntryFields DEF SwitchInv, Ages, IsLearned, Known
    <3>. QED
      BY <1>1, <2>1, <2>2, <3>1 DEF SwitchInv, Ages
  <2>6. DueInTime' /\ Fits(table')
    BY <1>1, <2>1 DEF SwitchInv, DueInTime
  <2>. QED
    BY <2>3, <2>4, <2>5, <2>6 DEF SwitchInv
<1>6. CASE threshold # 0
  <2>1. /\ table' = [m \in Mac |-> IF table[m] # NoEntry /\ Survives(table[m], n)
                                     THEN table[m] ELSE NoEntry]
        /\ ScheduleAging(table', FALSE, <<>>)
    BY <1>1, <1>3, <1>6 DEF OnAgingTick
  <2>2. /\ ChainOf(ticks', scheduled', n)
        /\ \A j \in DOMAIN ticks' : ticks'[j] = n + threshold
        /\ (threshold # 0 /\ Known(table') # {}) => scheduled'
    <3>. HIDE DEF n
    <3>. QED
      BY <1>1, <1>4, <2>1, ScheduleKeepsChain
  <2>3. table' \in Table /\ \A m \in Mac : table'[m] \in {table[m], NoEntry}
    BY <1>1, <2>1 DEF Table
  <2>4. \A m \in Mac : IsLearned(m)' =>
          /\ IsLearned(m) /\ table'[m] = table[m] /\ table[m].at \in Nat
          /\ table[m].at >= (IF n > threshold THEN n - threshold ELSE 0)
    BY <1>1, <2>1, EntryFields DEF IsLearned, Known, Survives
  <2>5. TypeOK' /\ OneTickChain'
    BY <1>1, <2>2, <2>3 DEF SwitchInv, TypeOK, OneTickChain, ChainOf, Table
  <2>6. LearnedFollowsStation'
    BY <1>1, <2>4 DEF SwitchInv, LearnedFollowsStation
  <2>7. Fits(table')
    BY <1>1, <2>3, DropFits DEF SwitchInv
  <2>8. Ages'
    <3>1. \A m \in Mac : IsLearned(m)' => table'[m].at <= now'
      BY <1>1, <2>4 DEF SwitchInv, Ages
    <3>2. threshold <= longest /\ (threshold = 0 => disabled)
      BY DEF SwitchInv, Ages
    <3>3. \A j \in DOMAIN ticks' : ticks'[j] <= now' + longest
      BY <1>1, <2>2, <3>2
    <3>. QED
      BY <1>1, <3>1, <3>2, <3>3 DEF Ages
  <2>9. DueInTime'
    <3>. SUFFICES ASSUME NEW m \in Mac, IsLearned(m)'
                  PROVE  /\ scheduled'
                         /\ \A j \in DOMAIN ticks' : ticks'[j] <= table'[m].at + 2 * longest
      BY <1>1 DEF DueInTime
    <3>1. Known(table') # {}
      BY DEF Known, IsLearned
    <3>2. table'[m].at \in Nat /\ n <= table'[m].at + threshold
      BY <1>1, <2>4
    <3>3. threshold <= longest
      BY DEF SwitchInv, Ages
    <3>4. \A j \in DOMAIN ticks' : ticks'[j] <= table'[m].at + 2 * longest
      BY <1>1, <2>2, <3>2, <3>3
    <3>. QED
      BY <1>6, <2>2, <3>1, <3>4
  <2>. QED
    BY <2>5, <2>6, <2>7, <2>8, <2>9 DEF SwitchInv
<1>. QED
  BY <1>1, <1>5, <1>6

---------------------------------------------------------------------------
(* Theorems.                                                               *)

(* The invariant is inductive.                                             *)
THEOREM Invariance == Spec => []SwitchInv
<1>1. Init => SwitchInv
  BY InitInv
<1>2. SwitchInv /\ [Next]_vars => SwitchInv'
  <2>. SUFFICES ASSUME SwitchInv, [Next]_vars PROVE SwitchInv'
    OBVIOUS
  <2>1. ASSUME NEW t \in 0 .. MaxTime, NEW m \in Mac, NEW p \in Port, OnFrameArrive(t, m, p)
        PROVE  SwitchInv'
    <3>1. t \in Nat
      BY SwitchAssumption
    <3>. QED
      BY <2>1, <3>1, LearningKeepsInv, PassingKeepsInv
  <2>2. ASSUME NEW i \in DOMAIN ticks, OnAgingTick(i) PROVE SwitchInv'
    BY <2>2, AgingKeepsInv
  <2>3. CASE Command
    BY <2>3, CommandsKeepInv
  <2>4. CASE UNCHANGED vars
    <3>1. UNCHANGED <<now, table, scheduled, ticks, sighted, threshold, longest, disabled>>
      BY <2>4 DEF vars, config
    <3>2. TypeOK' /\ OneTickChain' /\ LearnedFollowsStation' /\ Fits(table')
      BY <3>1 DEF SwitchInv, TypeOK, OneTickChain, LearnedFollowsStation, IsLearned
    <3>3. Ages' /\ DueInTime'
      BY <3>1 DEF SwitchInv, Ages, DueInTime, IsLearned
    <3>. QED
      BY <3>2, <3>3 DEF SwitchInv
  <2>. QED
    BY <2>1, <2>2, <2>3, <2>4 DEF Next
<1>. QED
  BY <1>1, <1>2, PTL DEF Spec

(* Every variable of the table keeps its type, for any parameters.         *)
THEOREM TableTypeCorrect == Spec => []TypeOK
<1>1. SwitchInv => TypeOK
  BY DEF SwitchInv
<1>. QED
  BY <1>1, Invariance, PTL

(* insert_entry keeps the table within mac_table_capacity, however entries *)
(* are learned, inserted by hand and aged.                                 *)
THEOREM CapacityAlwaysRespected == Spec => []CapacityRespected
<1>1. SwitchInv => CapacityRespected
  BY DEF SwitchInv, Fits, CapacityRespected
<1>. QED
  BY <1>1, Invariance, PTL

(* aging_scheduled is an exact record of the one AgingTick in the queue.   *)
THEOREM TickChainNeverForks == Spec => []OneTickChain
<1>1. SwitchInv => OneTickChain
  BY DEF SwitchInv
<1>. QED
  BY <1>1, Invariance, PTL

(* A learned entry is where its station was last heard.                    *)
THEOREM LearnedAlwaysFollows == Spec => []LearnedFollowsStation
<1>1. SwitchInv => LearnedFollowsStation
  BY DEF SwitchInv
<1>. QED
  BY <1>1, Invariance, PTL

(* While aging was never disabled, learned entries never get older than    *)
(* twice the longest threshold.                                            *)
THEOREM AlwaysForgottenInTime == Spec => []ForgottenInTime
<1>1. SwitchInv => ForgottenInTime
  <2>. SUFFICES ASSUME SwitchInv, ~disabled, NEW m \in Mac, IsLearned(m)
                PROVE  now - table[m].at <= 2 * longest
    BY DEF ForgottenInTime
  <2>1. scheduled /\ \A i \in DOMAIN ticks : ticks[i] <= table[m].at + 2 * longest
    BY DEF SwitchInv, DueInTime
  <2>2. ticks \in Seq(Nat) /\ Len(ticks) = 1
    BY <2>1 DEF SwitchInv, TypeOK, OneTickChain
  <2>3. 1 \in DOMAIN ticks /\ ticks[1] \in Nat
    BY <2>2
  <2>4. ticks[1] >= now /\ now \in Nat /\ longest \in Nat
    BY <2>3 DEF SwitchInv, TypeOK
  <2>5. table[m].at \in Nat
    BY EntryFields DEF SwitchInv, TypeOK, Table, Known, IsLearned
  <2>. QED
    BY <2>1, <2>3, <2>4, <2>5
<1>. QED
  BY <1>1, Invariance, PTL
===========================================================================
