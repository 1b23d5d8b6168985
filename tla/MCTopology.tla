------------------------------ MODULE MCTopology ------------------------------
(* Small worlds for Topology: repeaters and bridges with two ports, stations with one. *)
EXTENDS Topology

CONSTANTS LastNode

SmallModels ==
  {[kind |-> "EndStation", portCount |-> 1]}
    \cup {[kind |-> k, portCount |-> 2] : k \in {"Repeater", "Bridge"}}
(* Every pair of ports, each in one direction only.                          *)
Ports == [node : 0 .. LastNode, port : {0, 1}]
AnyCable == {c \in Ports \X Ports : c[1].node < c[2].node}

(* At most one segment differs from the others, in its delay or in its rate. *)
OneUnusual ==
  LET unusual == {s \in DOMAIN world.segments :
                    world.segments[s].delay # 1 \/ world.segments[s].rate # 4}
  IN /\ Cardinality(unusual) <= 1
     /\ \A s \in unusual : world.segments[s].delay = 1 \/ world.segments[s].rate = 4
=============================================================================
