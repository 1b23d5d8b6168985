------------------------------ MODULE Switching ------------------------------
(***************************************************************************)
(* A learning switch in the network of Relay: the forwarding decision of   *)
(* device/switch.rs on top of its table, with aging ticks and device       *)
(* commands as entries of the engine's own queue.  Reception, egress       *)
(* queues and transmission are those of every relay.                       *)
(*                                                                         *)
(* The table is the one of SwitchTable, which leaves its environment free; *)
(* here the environment is the engine, and ImplementsTable states that it  *)
(* keeps to what SwitchTable assumes of it.                                *)
(***************************************************************************)
EXTENDS Relay

CONSTANTS
  Mac,               (* addresses, as numbers; 0 is the all-zero address   *)
  SourceOf,          (* [Frame -> Mac]                                     *)
  DestinationOf,     (* [Frame -> Mac]                                     *)
  Capacity, FirstThreshold, Thresholds, NoEntry,   (* see SwitchTable      *)
  MaxCommands        (* bound on the number of device commands             *)

ASSUME SwitchingAssumption ==
  /\ Mac \subseteq Nat /\ IsFiniteSet(Mac) /\ 0 \in Mac
  /\ SourceOf \in [Frame -> Mac] /\ DestinationOf \in [Frame -> Mac]
  /\ Capacity \in Nat
  /\ FirstThreshold \in Nat /\ Thresholds \subseteq Nat

VARIABLES
  table, threshold, scheduled,            (* SwitchRuntime                 *)
  commands,                               (* number of commands so far     *)
  hookTime, sighted, longest, disabled,   (* history, see SwitchTable      *)
  pinned       (* history: the addresses that ever had a manual entry      *)

switch == <<table, threshold, scheduled>>
records == <<hookTime, sighted, longest, disabled, pinned>>
switchVars == <<relayVars, switch, commands, records>>

AgingEntry(t, s) == [kind |-> "AgingTick", time |-> t, serial |-> s]
CommandEntry(t, s) == [kind |-> "DeviceCommandApplied", time |-> t, serial |-> s]

(* The queued ticks, as times in the order in which they will be handled.  *)
Ticking == {e \in queue : e.kind = "AgingTick"}
TicksBefore(e) == {f \in Ticking : Sched!Before(Sched!Key(f), Sched!Key(e))}
TickTimes ==
  [i \in 1 .. Cardinality(Ticking) |->
     (CHOOSE e \in Ticking : Cardinality(TicksBefore(e)) = i - 1).time]

Table == INSTANCE SwitchTable WITH now <- hookTime, ticks <- TickTimes

---------------------------------------------------------------------------
(* Headers of a relayed frame; an opaque one has all-zero addresses.       *)
Source(i) == IF relayed[i].copy = NoFrame THEN Table!Zero ELSE SourceOf[relayed[i].copy]
Destination(i) ==
  IF relayed[i].copy = NoFrame THEN Table!Zero ELSE DestinationOf[relayed[i].copy]

RearmsAlways(t, due, time) ==
  IF threshold = 0 THEN {} ELSE {AgingEntry(time + threshold, serial)}
ForksChain(t, due, time) ==
  IF threshold = 0 \/ Table!Known(t) = {} THEN {} ELSE {AgingEntry(time + threshold, serial)}
(* maybe_schedule_aging                                                    *)
NextTick(t, due, time) ==
  IF threshold = 0 \/ Table!Known(t) = {} \/ due THEN {}
  ELSE {AgingEntry(time + threshold, serial)}

ReflectsToo(t, dest, ingress) ==
  IF dest # Table!Zero /\ t[dest] # NoEntry THEN {t[dest].port} ELSE EgressPorts(ingress)
FloodsNothing(t, dest, ingress) ==
  IF dest # Table!Zero /\ t[dest] # NoEntry THEN {t[dest].port} \ {ingress} ELSE {}
(* To the port of a known destination, with a cable or not, but never back *)
(* to where the frame came from; else to every other port with a cable.    *)
Egress(t, dest, ingress) ==
  IF dest # Table!Zero /\ t[dest] # NoEntry THEN {t[dest].port} \ {ingress}
  ELSE EgressPorts(ingress)

(* on_frame_arrive: learn from the source, then forward by the table as it *)
(* is after learning.                                                      *)
SwitchFrameEligible(e) ==
  LET i == e.frame
      m == Source(i)
      learns == m # Table!Zero /\ Table!Learns(m)
      enqueues == {SerializerEntry("Enqueue", e.time, serial + 1 + PortNo[p],
                                   SerializerOf(p), i) :
                      p \in Egress(table', Destination(i), e.node)}
      tick == IF learns THEN NextTick(table', scheduled, e.time) ELSE {}
  IN
  /\ Pops(e, "FrameEligible")
  /\ table' = IF learns
              THEN Table!Insert(table, m, [port |-> e.node, at |-> e.time, manual |-> FALSE])
              ELSE table
  /\ scheduled' = (scheduled \/ tick # {})
  /\ Emits(e, tick \cup enqueues, Cardinality(Port) + 1)
  /\ hookTime' = e.time
  /\ sighted' = IF m = Table!Zero THEN sighted
                ELSE [sighted EXCEPT ![m] = [port |-> e.node, at |-> e.time]]
  /\ UNCHANGED <<mac, history, relay, threshold, commands, longest, disabled, pinned>>

(* on_aging_tick                                                           *)
HandleAgingTick(e) ==
  LET tick == NextTick(table', FALSE, e.time) IN
  /\ Pops(e, "AgingTick")
  /\ table' = IF threshold = 0 THEN table
              ELSE [m \in Mac |->
                      IF table[m] # NoEntry /\ Table!Survives(table[m], e.time)
                      THEN table[m] ELSE NoEntry]
  /\ scheduled' = (tick # {})
  /\ Emits(e, tick, 1)
  /\ hookTime' = e.time
  /\ UNCHANGED <<mac, history, relay, threshold, commands, sighted, longest,
                 disabled, pinned>>

(* The log marker of a command.                                            *)
HandleCommandApplied(e) ==
  /\ Pops(e, "DeviceCommandApplied")
  /\ Emits(e, {}, 0)
  /\ UNCHANGED <<mac, history, relay, switch, commands, records>>

---------------------------------------------------------------------------
(* apply_device_command, between two runs; a command that names an unknown *)
(* node or a node without a table changes nothing.                         *)
Applies ==
  /\ commands < MaxCommands
  /\ commands' = commands + 1
  /\ HostPushes({CommandEntry(Now, serial)}, 1)
  /\ UNCHANGED <<cancelled, mac, world, relay, scheduled, hookTime, sighted>>

InsertMacEntry(m, p) ==
  /\ Applies
  /\ table' = Table!Insert(table, m, [port |-> p, at |-> 0, manual |-> TRUE])
  /\ pinned' = pinned \cup {m}
  /\ UNCHANGED <<threshold, longest, disabled>>

RemoveMacEntry(m) ==
  /\ Applies
  /\ table' = [table EXCEPT ![m] = NoEntry]
  /\ UNCHANGED <<threshold, longest, disabled, pinned>>

FlushMacTable ==
  /\ Applies
  /\ table' = [m \in Mac |-> NoEntry]
  /\ UNCHANGED <<threshold, longest, disabled, pinned>>

SetSwitchAgingThreshold(h) ==
  /\ Applies
  /\ threshold' = h
  /\ longest' = IF h > longest THEN h ELSE longest
  /\ disabled' = (disabled \/ h = 0)
  /\ UNCHANGED <<table, pinned>>

Command ==
  \/ \E m \in Mac, p \in Port : InsertMacEntry(m, p)
  \/ \E m \in Mac : RemoveMacEntry(m)
  \/ FlushMacTable
  \/ \E h \in Thresholds : SetSwitchAgingThreshold(h)

---------------------------------------------------------------------------
SwitchInit ==
  /\ RelayInit
  /\ table = [m \in Mac |-> NoEntry]
  /\ threshold = FirstThreshold
  /\ scheduled = FALSE
  /\ commands = 0
  /\ hookTime = 0
  /\ sighted = [m \in Mac |-> NoEntry]
  /\ longest = FirstThreshold
  /\ disabled = (FirstThreshold = 0)
  /\ pinned = {}

SwitchHandle(e) ==
  \/ SwitchFrameEligible(e) \/ HandleAgingTick(e) \/ HandleCommandApplied(e)
  \/ StationHandle(e) /\ UNCHANGED <<relay, switch, commands, records>>
  \/ PortHandle(e) /\ UNCHANGED <<switch, commands, records>>

DispatchNext == \E e \in queue : SwitchHandle(e)
HostNext == RelayHost /\ UNCHANGED <<relay, switch, commands, records>>

SwitchNext == HostNext \/ Command \/ DispatchNext

SwitchSpec == SwitchInit /\ [][SwitchNext]_switchVars

(* A run that has begun goes on: the loop pops entries as long as there    *)
(* are any, and run_until_idle returns when there are none.  Nothing       *)
(* obliges the host to call it.                                            *)
ReturnWhenIdle ==
  /\ queue = {}
  /\ ReturnFromRun
  /\ UNCHANGED <<relay, switch, commands, records>>

Fairness == WF_switchVars(DispatchNext) /\ WF_switchVars(ReturnWhenIdle)

FairSwitchSpec == SwitchSpec /\ Fairness
---------------------------------------------------------------------------
(* Properties.                                                             *)

(* The engine drives the table the way SwitchTable assumes: time never     *)
(* passes a queued tick, ticks are handled in order, and the chain of      *)
(* ticks survives flushes and new thresholds.                              *)
ImplementsTable == Table!Spec

(* run_until_idle returns: without a manual entry in the table, a run that *)
(* has begun comes to its end, although deferred attempts, egress queues   *)
(* and the chain of aging ticks keep scheduling new entries.  (A manual    *)
(* entry is never aged out, and keeps the chain going for ever.)           *)
RunEnds ==
  (running /\ \A m \in Mac : ~Table!IsManual(m)) ~> ~running

Places(p, i) ==
  Cardinality(QueuedFor("Enqueue", p, i)) + Cardinality(InEgress(p, i))
    + Cardinality(Sent(p, i))

(* No frame is sent back to the port it came from, and none twice to any   *)
(* other, whatever the table says.                                         *)
NeverReflectedNorRepeated ==
  \A i \in Indices, p \in Port : Places(p, i) <= IF p = relayed[i].ingress THEN 0 ELSE 1

(* A frame always finds its destination: while every frame from an address *)
(* is sent by stations in the domain of one port and nobody has pinned the *)
(* address by hand, a frame for it is handed to that port exactly once,    *)
(* whatever the switch has learned, forgotten or evicted in the meantime.  *)
HomesOf(m) ==
  {p \in Port : \E o \in Offers : SourceOf[o[3]] = m /\ <<o[2], p>> \in Pairs}

DestinationServed ==
  \A i \in Indices :
    LET d == Destination(i) IN
    (d # Table!Zero /\ d \notin pinned) =>
      \A p \in Port : (HomesOf(d) = {p} /\ p # relayed[i].ingress) =>
                        Places(p, i) + Cardinality(Eligible(i)) = 1
===========================================================================
