----------------------------- MODULE SwitchTable -----------------------------
(***************************************************************************)
(* The forwarding table of a learning switch (device/switch.rs): learning  *)
(* from arriving frames, manual entries, a capacity with eviction of the   *)
(* oldest entry, and aging by a chain of AgingTick events that the table   *)
(* itself keeps going.                                                     *)
(* Time is the engine's: it never passes a queued tick.  Frames and ticks  *)
(* of one instant come in any order, more than the engine's phases allow.  *)
(***************************************************************************)
EXTENDS Integers, FiniteSets, Sequences, SequencesExt

CONSTANTS
  Mac,               (* addresses, as numbers: they order by value         *)
  Port,
  Capacity,          (* mac_table_capacity; 0 is unbounded                 *)
  FirstThreshold,    (* SwitchData::aging_threshold                        *)
  Thresholds,        (* what SetSwitchAgingThreshold may set; 0 disables   *)
  NoEntry,
  MaxTime            (* bound on simulated time                            *)

Zero == 0            (* MacAddress::ZERO, the source of an opaque frame    *)

ASSUME SwitchAssumption ==
  /\ Mac \subseteq Nat /\ IsFiniteSet(Mac)
  /\ Capacity \in Nat
  /\ FirstThreshold \in Nat /\ Thresholds \subseteq Nat
  /\ MaxTime \in Nat

VARIABLES
  now,         (* the engine's now()                                       *)
  table,       (* mac_table                                                *)
  threshold,   (* aging_threshold                                          *)
  scheduled,   (* aging_scheduled                                          *)
  ticks,       (* times of the queued AgingTicks of this switch, in order  *)
  sighted,     (* history: where and when each address last sent a frame   *)
  longest,     (* history: the longest threshold there has been            *)
  disabled     (* history: whether the threshold has ever been zero        *)

config == <<threshold, longest, disabled>>
vars == <<now, table, scheduled, ticks, sighted, config>>

Entry == [port : Port, at : Nat, manual : BOOLEAN]
Known(t) == {m \in Mac : t[m] # NoEntry}
IsLearned(m) == table[m] # NoEntry /\ ~table[m].manual
IsManual(m) == table[m] # NoEntry /\ table[m].manual

---------------------------------------------------------------------------
(* insert_entry                                                            *)

FullTooLate(t, m) == Capacity # 0 /\ m \notin Known(t) /\ Cardinality(Known(t)) > Capacity
Full(t, m) == Capacity # 0 /\ m \notin Known(t) /\ Cardinality(Known(t)) >= Capacity

(* The least by (learned_at, mac).                                         *)
IsOldest(t, o) ==
  \A m \in Known(t) : t[o].at < t[m].at \/ (t[o].at = t[m].at /\ o <= m)

(* insert_entry, with the evicted address if there is one.                 *)
Evicts(t, m) == {o \in Known(t) : Full(t, m) /\ IsOldest(t, o)}
Insert(t, m, e) ==
  [k \in Mac |-> IF k = m THEN e ELSE IF k \in Evicts(t, m) THEN NoEntry ELSE t[k]]

NeverRearms(t, due, tick) ==
  /\ scheduled' = (scheduled \/ (threshold # 0 /\ Known(t) # {}))
  /\ ticks' = IF scheduled' /\ ~scheduled THEN Append(tick, now' + threshold) ELSE tick
AgesFromStart(t, due, tick) ==
  /\ scheduled' = (due \/ (threshold # 0 /\ Known(t) # {}))
  /\ ticks' = IF scheduled' /\ ~due THEN Append(tick, threshold) ELSE tick
(* maybe_schedule_aging: at most one tick is queued at a time.             *)
ScheduleAging(t, due, tick) ==
  IF threshold = 0 \/ Known(t) = {} \/ due
  THEN /\ scheduled' = due
       /\ ticks' = tick
  ELSE /\ scheduled' = TRUE
       /\ ticks' = Append(tick, now' + threshold)

---------------------------------------------------------------------------
LearnsOnce(m) == table[m] = NoEntry
(* Manual entries are not refreshed.                                       *)
Learns(m) == ~IsManual(m)

(* The learning half of on_frame_arrive.                                   *)
OnFrameArrive(t, m, p) ==
  /\ t >= now /\ t <= MaxTime
  /\ \A i \in DOMAIN ticks : t <= ticks[i]
  /\ now' = t
  /\ sighted' = IF m = Zero THEN sighted
                ELSE [sighted EXCEPT ![m] = [port |-> p, at |-> t]]
  /\ \/ /\ m # Zero /\ Learns(m)
        /\ table' = Insert(table, m, [port |-> p, at |-> t, manual |-> FALSE])
        /\ ScheduleAging(table', scheduled, ticks)
     \/ /\ ~(m # Zero /\ Learns(m))
        /\ UNCHANGED <<table, scheduled, ticks>>
  /\ UNCHANGED config

(* Entries that a tick at time t leaves in the table.                      *)
Survives(e, t) == e.manual \/ e.at >= (IF t > threshold THEN t - threshold ELSE 0)

(* on_aging_tick, for the first tick in the queue.                         *)
OnAgingTick(i) ==
  LET rest == RemoveAt(ticks, i) IN
  /\ ticks[i] <= MaxTime
  /\ \A j \in DOMAIN ticks : ticks[i] < ticks[j] \/ (ticks[i] = ticks[j] /\ i <= j)
  /\ now' = ticks[i]
  /\ \/ /\ threshold = 0
        /\ scheduled' = FALSE
        /\ ticks' = rest
        /\ UNCHANGED table
     \/ /\ threshold # 0
        /\ table' = [m \in Mac |-> IF table[m] # NoEntry /\ Survives(table[m], now')
                                   THEN table[m] ELSE NoEntry]
        /\ ScheduleAging(table', FALSE, rest)
  /\ UNCHANGED <<sighted, config>>

---------------------------------------------------------------------------
(* apply_command                                                           *)

InsertMacEntry(m, p) ==
  /\ table' = Insert(table, m, [port |-> p, at |-> 0, manual |-> TRUE])
  /\ UNCHANGED <<now, scheduled, ticks, sighted, config>>

RemoveMacEntry(m) ==
  /\ table' = [table EXCEPT ![m] = NoEntry]
  /\ UNCHANGED <<now, scheduled, ticks, sighted, config>>

FlushMacTable ==
  /\ table' = [m \in Mac |-> NoEntry]
  /\ UNCHANGED <<now, scheduled, ticks, sighted, config>>

SetSwitchAgingThreshold(h) ==
  /\ threshold' = h
  /\ longest' = IF h > longest THEN h ELSE longest
  /\ disabled' = (disabled \/ h = 0)
  /\ UNCHANGED <<now, table, scheduled, ticks, sighted>>

---------------------------------------------------------------------------
Init ==
  /\ now = 0
  /\ table = [m \in Mac |-> NoEntry]
  /\ threshold = FirstThreshold
  /\ scheduled = FALSE
  /\ ticks = <<>>
  /\ sighted = [m \in Mac |-> NoEntry]
  /\ longest = FirstThreshold
  /\ disabled = (FirstThreshold = 0)

Command ==
  \/ \E m \in Mac, p \in Port : InsertMacEntry(m, p)
  \/ \E m \in Mac : RemoveMacEntry(m)
  \/ FlushMacTable
  \/ \E h \in Thresholds : SetSwitchAgingThreshold(h)

Next ==
  \/ \E t \in 0 .. MaxTime, m \in Mac, p \in Port : OnFrameArrive(t, m, p)
  \/ \E i \in DOMAIN ticks : OnAgingTick(i)
  \/ Command

Spec == Init /\ [][Next]_vars
---------------------------------------------------------------------------
(* Type invariant: in particular the table is a table, with one entry per  *)
(* address, and ticks are never queued in the past.                        *)
TypeOK ==
  /\ now \in Nat
  /\ table \in [Mac -> Entry \cup {NoEntry}]
  /\ threshold \in Nat /\ longest \in Nat /\ disabled \in BOOLEAN
  /\ scheduled \in BOOLEAN
  /\ ticks \in Seq(Nat)
  /\ \A i \in DOMAIN ticks : ticks[i] >= now
  /\ sighted \in [Mac -> [port : Port, at : Nat] \cup {NoEntry}]

(* The table never outgrows its capacity, whatever mixture of learning     *)
(* and manual insertion fills it.                                          *)
CapacityRespected == Capacity # 0 => Cardinality(Known(table)) <= Capacity

(* There is one chain of ticks: the flag is set exactly while one tick is  *)
(* queued, so it is neither lost nor doubled by flushes and new settings.  *)
OneTickChain == Len(ticks) = IF scheduled THEN 1 ELSE 0

(* The switch follows a station that moves: a learned entry is the port    *)
(* and the time of the last frame that came from the address.              *)
LearnedFollowsStation ==
  \A m \in Mac : IsLearned(m) => /\ table[m].port = sighted[m].port
                                 /\ table[m].at = sighted[m].at

(* A learned address is forgotten in time: unless aging has been disabled  *)
(* at some time, no learned entry is ever older than twice the longest     *)
(* threshold there has been, for any order of frames, ticks and commands.  *)
ForgottenInTime ==
  ~disabled => \A m \in Mac : IsLearned(m) => now - table[m].at <= 2 * longest
===========================================================================
