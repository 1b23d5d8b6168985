------------------------------ MODULE Topology ------------------------------
(***************************************************************************)
(* The world of aether-sonde: nodes, the cables between their ports, the   *)
(* resource numbers derived from them (topology.rs) and the reachability   *)
(* maps the engine computes ahead of time (engine.rs).  A world is first   *)
(* built, with the checks of TopologyBuilder::build, and then edited, with *)
(* the checks of Engine::apply_edit.                                       *)
(*                                                                         *)
(* Numbers of nodes and segments are never used again: the slots of        *)
(* removed ones stay empty.  Here `nodes` and `segments` are functions on  *)
(* the live numbers, beside the length of the slot vectors.  `plugs` holds *)
(* the port slots: it is defined on the ports that have a cable.           *)
(***************************************************************************)
EXTENDS Quantities, SequencesExt

CONSTANTS
  Models,       \* the nodes a host may add: [kind, portCount]
  Cables,       \* the pairs of endpoints [node, port] it may ask to connect
  Delays,       \* the propagation delays it may ask for
  Rates,        \* the bit rates it may ask for
  DeltaH,       \* what a repeater adds to a delay
  MaxNodes,     \* bound: node numbers handed out
  MaxSegments,  \* bound: segment numbers handed out
  MaxBuilt      \* bound: of these, by the builder

Kinds == {"EndStation", "Repeater", "Bridge", "Switch"}
Endpoint == [node : Nat, port : Nat]

ASSUME TopologyAssumption ==
  /\ \A m \in Models : m.kind \in Kinds /\ m.portCount \in Nat
  /\ Cables \subseteq Endpoint \X Endpoint
  /\ Delays \subseteq Nat
  /\ Rates \subseteq BitRate
  /\ DeltaH \in Nat

VARIABLES
  phase,   \* "building" in the TopologyBuilder, then "running" in the engine
  world,   \* [nodes, nodeSlots, segments, segmentSlots, plugs]
  ids,     \* the maps of resource numbers: [collision, fd, egress]
  reach    \* the engine's maps: [hd, fd, egress]

vars == <<phase, world, ids, reach>>

(***************************************************************************)
(* Looking at a world.                                                     *)
(***************************************************************************)
HasNode(w, n) == n \in DOMAIN w.nodes
IsRelay(w, n) == HasNode(w, n) /\ w.nodes[n].kind \in {"Bridge", "Switch"}
Ends(w, s) == {w.segments[s].a, w.segments[s].b}
FarEnd(w, s, e) == IF w.segments[s].a = e THEN w.segments[s].b ELSE w.segments[s].a
HdSegments(w) == {s \in DOMAIN w.segments : w.segments[s].kind = "Hd"}
FdSegments(w) == {s \in DOMAIN w.segments : w.segments[s].kind = "Fd"}
PortsOf(w, n) == [node : {n}, port : 0 .. (w.nodes[n].portCount - 1)]
RelayPorts(w) == UNION {PortsOf(w, n) : n \in {n \in DOMAIN w.nodes : IsRelay(w, n)}}

(* The rate of the cable at a port, as a set of at most one.                *)
SegmentsAt(w, e) == {s \in DOMAIN w.segments : e \in Ends(w, s)}
SegmentRateAt(w, e) ==
  IF SegmentsAt(w, e) = {} THEN {} ELSE {w.segments[Min(SegmentsAt(w, e))].rate}

(* The vertex of an endpoint in the graph of half-duplex segments: each     *)
(* port of a relay is one, other nodes join all their ports.               *)
Vertex(w, e) == IF IsRelay(w, e.node) THEN <<e.node, e.port>> ELSE <<e.node>>
VerticesOf(w, S) == UNION {{Vertex(w, e) : e \in Ends(w, s)} : s \in S}

MeetAtNodes(w, s, t) == \E d \in Ends(w, s), e \in Ends(w, t) : d.node = e.node  \* mutant
Meet(w, s, t) == \E d \in Ends(w, s), e \in Ends(w, t) : Vertex(w, d) = Vertex(w, e)

(* The collision domain of a half-duplex segment: a breadth-first search.  *)
Domain(w, s) ==
  LET reached[k \in Nat] ==
        IF k = 0 THEN {s}
        ELSE reached[k - 1] \cup
             {t \in HdSegments(w) : \E u \in reached[k - 1] : Meet(w, t, u)}
  IN reached[Cardinality(HdSegments(w))]

(* Axiom A7 as build checks it: a connected graph with E + 1 = V.          *)
DomainIsTree(w, s) ==
  Cardinality(Domain(w, s)) + 1 = Cardinality(VerticesOf(w, Domain(w, s)))

SingleAttachment(w) ==
  \A s, t \in DOMAIN w.segments : s # t => Ends(w, s) \cap Ends(w, t) = {}

BuildAccepts(w) == SingleAttachment(w) /\ \A s \in HdSegments(w) : DomainIsTree(w, s)

(***************************************************************************)
(* Resource numbers.  Collision domains are numbered in the order of their *)
(* first segments, since the search starts from the vertices in the order  *)
(* in which the segments mention them.  Serializers are numbered first for *)
(* the two directions of each full-duplex segment, then for the ports of   *)
(* the relays.                                                             *)
(***************************************************************************)
Rank(S, n) == Cardinality({m \in S : m < n})
PortOrder(d, e) == d.node < e.node \/ (d.node = e.node /\ d.port < e.port)

CollisionIds(w) ==
  LET first == [s \in HdSegments(w) |-> Min(Domain(w, s))]
  IN [s \in HdSegments(w) |-> Rank({first[t] : t \in HdSegments(w)}, first[s])]

FdSerializers(w) ==
  [s \in FdSegments(w) |-> <<2 * Rank(FdSegments(w), s), 2 * Rank(FdSegments(w), s) + 1>>]

EgressSerializers(w) ==
  [e \in RelayPorts(w) |->
     2 * Cardinality(FdSegments(w)) + Cardinality({d \in RelayPorts(w) : PortOrder(d, e)})]

ResourceIds(w) ==
  [collision |-> CollisionIds(w), fd |-> FdSerializers(w), egress |-> EgressSerializers(w)]

(* Where push_bridge and push_switch start to number, without reassigning. *)
CountPorts(i) == Cardinality(DOMAIN i.egress)  \* mutant: forgets the full-duplex segments
FirstFreeSerializer(i) == Cardinality(DOMAIN i.egress) + 2 * Cardinality(DOMAIN i.fd)

(***************************************************************************)
(* Reachability.                                                           *)
(***************************************************************************)
HdSegmentsAt(w, n) == {s \in HdSegments(w) : \E e \in Ends(w, s) : e.node = n}
FarFrom(w, s, n) == CHOOSE e \in Ends(w, s) : e.node # n

(* The check of do_add_hd_segment: a search over nodes in which relays are *)
(* leaves, and which gives up at once if either end is a relay.            *)
JoinedDirectly(w, a, b) == \E s \in HdSegmentsAt(w, a) : FarFrom(w, s, a).node = b  \* mutant
JoinedThroughRelays(w, a, b) ==  \* mutant
  LET reached[k \in Nat] ==
        IF k = 0 THEN {a}
        ELSE reached[k - 1] \cup
             {v \in DOMAIN w.nodes : \E u \in reached[k - 1] :
                \E s \in HdSegmentsAt(w, u) : FarFrom(w, s, u).node = v}
  IN b \in reached[Cardinality(DOMAIN w.nodes)]
HdReachable(w, a, b) ==
  LET reached[k \in Nat] ==
        IF k = 0 THEN {a}
        ELSE reached[k - 1] \cup
             {v \in DOMAIN w.nodes : \E u \in reached[k - 1] :
                ~IsRelay(w, u) /\ \E s \in HdSegmentsAt(w, u) : FarFrom(w, s, u).node = v}
  IN ~IsRelay(w, a) /\ ~IsRelay(w, b) /\ b \in reached[Cardinality(DOMAIN w.nodes)]

(* bfs_hd_delays: `found` is the queue of all nodes found so far, in order, *)
(* each with its delay and the port at which the signal arrives; the k-th   *)
(* is taken from the queue.  A node already found is not found again, even  *)
(* through another port.                                                    *)
Discover(w, found, k, s) ==
  LET u == found[k]
      e == FarFrom(w, s, u.node)
      leave == IF k # 1 /\ w.nodes[u.node].kind = "Repeater" THEN DeltaH ELSE 0
  IN IF \E i \in DOMAIN found : found[i].node = e.node THEN found
     ELSE Append(found, [node |-> e.node, port |-> e.port,
                         delay |-> u.delay + leave + w.segments[s].delay])

(* The segments at a node are taken in the order of their numbers.         *)
Visit(w, found, k) ==
  LET seen[i \in Nat] ==
        IF i = 0 THEN found
        ELSE IF i - 1 \in HdSegmentsAt(w, found[k].node) THEN Discover(w, seen[i - 1], k, i - 1)
        ELSE seen[i - 1]
  IN IF k > Len(found) \/ (k # 1 /\ IsRelay(w, found[k].node)) THEN found
     ELSE seen[w.segmentSlots]

BfsHdDelays(w, n) ==
  LET found[k \in Nat] ==
        IF k = 0 THEN <<[node |-> n, port |-> 0, delay |-> 0]>>
        ELSE Visit(w, found[k - 1], k)
  IN Tail(found[Cardinality(DOMAIN w.nodes)])

HdReach(w) ==
  LET from == [n \in {n \in DOMAIN w.nodes : ~IsRelay(w, n)} |-> ToSet(BfsHdDelays(w, n))]
      pairs == {p \in (DOMAIN from) \X DOMAIN w.nodes : \E r \in from[p[1]] : r.node = p[2]}
  IN [p \in pairs |-> CHOOSE r \in from[p[1]] : r.node = p[2]]

(* The first full-duplex cable of a node is the one it sends on.           *)
FdAttachments(w) ==
  LET at(n) == {s \in FdSegments(w) : \E e \in Ends(w, s) : e.node = n}
  IN [n \in {n \in DOMAIN w.nodes : at(n) # {}} |->
        LET s == Min(at(n))
            e == FarFrom(w, s, n)
        IN [node |-> e.node, port |-> e.port,
            delay |-> w.segments[s].delay, rate |-> w.segments[s].rate]]

(* Whom a relay reaches when it sends on a port: the node at the other end *)
(* of the cable and, on half duplex, what that node reaches, relays left   *)
(* out.                                                                    *)
PeersAndRelays(w, hd, s, f) ==  \* mutant
  {[hd[p] EXCEPT !.delay = @ + w.segments[s].delay] : p \in {p \in DOMAIN hd : p[1] = f.node}}
PeersBehind(w, hd, s, f) ==
  {[hd[p] EXCEPT !.delay = @ + w.segments[s].delay] :
     p \in {p \in DOMAIN hd : p[1] = f.node /\ ~IsRelay(w, p[2])}}

EgressReach(w, hd) ==
  [e \in {e \in RelayPorts(w) : \E s \in DOMAIN w.segments : e \in Ends(w, s)} |->
     LET s == CHOOSE s \in DOMAIN w.segments : e \in Ends(w, s)
         f == FarEnd(w, s, e)
     IN [rate |-> w.segments[s].rate,
         peers |-> {[node |-> f.node, port |-> f.port, delay |-> w.segments[s].delay]}
                   \cup IF s \in HdSegments(w) THEN PeersBehind(w, hd, s, f) ELSE {}]]

Reachability(w) ==
  LET hd == HdReach(w)
  IN [hd |-> hd, fd |-> FdAttachments(w), egress |-> EgressReach(w, hd)]

(***************************************************************************)
(* Changing a world.                                                       *)
(***************************************************************************)
With(f, g) == [x \in DOMAIN f \cup DOMAIN g |-> IF x \in DOMAIN g THEN g[x] ELSE f[x]]

LastSlotAgain(w, m) ==  \* mutant
  [w EXCEPT !.nodes = With(@, [n \in {w.nodeSlots} |-> m])]
WithNode(w, m) ==
  [w EXCEPT !.nodes = With(@, [n \in {w.nodeSlots} |-> m]), !.nodeSlots = @ + 1]

NewPorts(w, m) == [node : {w.nodeSlots}, port : 0 .. (m.portCount - 1)]

WithSegment(w, kind, a, b, d, r) ==
  [w EXCEPT !.segments = With(@, [s \in {w.segmentSlots} |->
                           [kind |-> kind, a |-> a, b |-> b, delay |-> d, rate |-> r]]),
            !.segmentSlots = @ + 1]

(* push_hd_segment and push_fd_segment also set the two port slots.        *)
WithCable(w, kind, a, b, d, r) ==
  [WithSegment(w, kind, a, b, d, r) EXCEPT !.plugs = With(@, [e \in {a, b} |-> w.segmentSlots])]

PluggedInto(w, e) == CHOOSE s \in DOMAIN w.segments : e \in Ends(w, s)
AllPlugged(w) ==
  [w EXCEPT !.plugs = [e \in UNION {Ends(w, s) : s \in DOMAIN w.segments} |-> PluggedInto(w, e)]]

OneEndCleared(w, S) ==  \* mutant
  [w EXCEPT !.segments = Restrict(@, DOMAIN @ \ S),
            !.plugs = Restrict(@, {e \in DOMAIN @ : ~\E s \in S : e = w.segments[s].a})]

(* remove_segment, for one or several: the port slots are cleared too.     *)
WithoutSegments(w, S) ==
  [w EXCEPT !.segments = Restrict(@, DOMAIN @ \ S),
            !.plugs = Restrict(@, {e \in DOMAIN @ :
                        ~\E s \in S : e \in Ends(w, s) /\ w.plugs[e] = s})]

WithoutNode(w, n) == [w EXCEPT !.nodes = Restrict(@, DOMAIN @ \ {n})]

SegmentsIncidentTo(w, n) == {w.plugs[e] : e \in {e \in DOMAIN w.plugs : e.node = n}}

(***************************************************************************)
(* The builder.                                                            *)
(***************************************************************************)
HasEndpoint(w, e) == HasNode(w, e.node) /\ e.port < w.nodes[e.node].portCount

ValidEndpoints(w, a, b, d) ==
  HasEndpoint(w, a) /\ HasEndpoint(w, b) /\ a.node # b.node /\ d # 0

BuildNode(m) ==
  /\ phase = "building"
  /\ world.nodeSlots < MaxNodes
  /\ world' = WithNode(world, m)
  /\ UNCHANGED <<phase, ids, reach>>

BuildSegment(kind, a, b, d, r) ==
  /\ phase = "building"
  /\ world.segmentSlots < MaxBuilt
  /\ ValidEndpoints(world, a, b, d)
  /\ world' = WithSegment(world, kind, a, b, d, r)
  /\ UNCHANGED <<phase, ids, reach>>

(* What build and every edit of the cables end with: the numbers and the   *)
(* reachability maps are derived again from the whole world.               *)
Recomputed == ids' = ResourceIds(world') /\ reach' = Reachability(world')

(* TopologyBuilder::build, and Engine::with_seed on its result.            *)
Build ==
  /\ phase = "building"
  /\ BuildAccepts(world)
  /\ phase' = "running"
  /\ world' = AllPlugged(world)
  /\ Recomputed

(***************************************************************************)
(* Edits.  A refused edit changes nothing and is left out.                 *)
(***************************************************************************)
AddNode(m) ==
  /\ phase = "running"
  /\ world.nodeSlots < MaxNodes
  /\ world' = WithNode(world, m)
  /\ ids' = IF m.kind \in {"Bridge", "Switch"}
            THEN [ids EXCEPT !.egress =
                    With(@, [e \in NewPorts(world, m) |-> FirstFreeSerializer(ids) + e.port])]
            ELSE ids
  /\ UNCHANGED <<phase, reach>>

PortsFree(a, b) == {a, b} \cap DOMAIN world.plugs = {}

AddHdSegment(a, b, d, r) ==
  /\ phase = "running"
  /\ world.segmentSlots < MaxSegments
  /\ ValidEndpoints(world, a, b, d)
  /\ PortsFree(a, b)
  /\ ~HdReachable(world, a.node, b.node)
  /\ world' = WithCable(world, "Hd", a, b, d, r)
  /\ Recomputed
  /\ UNCHANGED phase

AddFdSegment(a, b, d, r) ==
  /\ phase = "running"
  /\ world.segmentSlots < MaxSegments
  /\ ValidEndpoints(world, a, b, d)
  /\ PortsFree(a, b)
  /\ world' = WithCable(world, "Fd", a, b, d, r)
  /\ Recomputed
  /\ UNCHANGED phase

RemoveOnly(s) ==  \* mutant: as SetSegmentDelay, but the other way round
  /\ phase = "running"
  /\ world' = WithoutSegments(world, {s})
  /\ ids' = ResourceIds(world')
  /\ UNCHANGED <<phase, reach>>
RemoveSegment(s) ==
  /\ phase = "running"
  /\ world' = WithoutSegments(world, {s})
  /\ Recomputed
  /\ UNCHANGED phase

DisconnectPort(e) ==
  /\ HasNode(world, e.node)
  /\ RemoveSegment(world.plugs[e])

RemoveNode(n) ==
  /\ phase = "running"
  /\ world' = WithoutNode(WithoutSegments(world, SegmentsIncidentTo(world, n)), n)
  /\ Recomputed
  /\ UNCHANGED phase

(* The numbers do not depend on delays and are not reassigned.             *)
DelayOnly(s, d) ==  \* mutant
  /\ phase = "running"
  /\ d # 0
  /\ world' = [world EXCEPT !.segments[s].delay = d]
  /\ UNCHANGED <<phase, ids, reach>>
SetSegmentDelay(s, d) ==
  /\ phase = "running"
  /\ d # 0
  /\ world' = [world EXCEPT !.segments[s].delay = d]
  /\ reach' = Reachability(world')
  /\ UNCHANGED <<phase, ids>>

(* What was registered or is on the wire keeps the rate it has.             *)
SetSegmentRate(s, r) ==
  /\ phase = "running"
  /\ world' = [world EXCEPT !.segments[s].rate = r]
  /\ reach' = Reachability(world')
  /\ UNCHANGED <<phase, ids>>

-----------------------------------------------------------------------------
EmptyMap == [z \in {} |-> 0]

Init ==
  /\ phase = "building"
  /\ world = [nodes |-> EmptyMap, nodeSlots |-> 0,
              segments |-> EmptyMap, segmentSlots |-> 0, plugs |-> EmptyMap]
  /\ ids = [collision |-> EmptyMap, fd |-> EmptyMap, egress |-> EmptyMap]
  /\ reach = [hd |-> EmptyMap, fd |-> EmptyMap, egress |-> EmptyMap]

Next ==
  \/ \E m \in Models : BuildNode(m) \/ AddNode(m)
  \/ \E c \in Cables, d \in Delays, r \in Rates :
       \/ \E kind \in {"Hd", "Fd"} : BuildSegment(kind, c[1], c[2], d, r)
       \/ AddHdSegment(c[1], c[2], d, r)
       \/ AddFdSegment(c[1], c[2], d, r)
  \/ Build
  \/ \E s \in DOMAIN world.segments :
       \/ RemoveSegment(s)
       \/ \E d \in Delays : SetSegmentDelay(s, d)
       \/ \E r \in Rates : SetSegmentRate(s, r)
  \/ \E e \in DOMAIN world.plugs : DisconnectPort(e)
  \/ \E n \in DOMAIN world.nodes : RemoveNode(n)

Spec == Init /\ [][Next]_vars
-----------------------------------------------------------------------------
(***************************************************************************)
(* A second definition of connection, on which the properties rest: two    *)
(* vertices are linked by segments S if no set that S does not leave       *)
(* separates them.                                                         *)
(***************************************************************************)
Linked(w, S, u, v) ==
  \A X \in SUBSET (VerticesOf(w, S) \cup {u, v}) :
    (u \in X /\ \A s \in S : Vertex(w, w.segments[s].a) \in X
                               <=> Vertex(w, w.segments[s].b) \in X) => v \in X

Path(w, u, v) == {s \in HdSegments(w) : ~Linked(w, HdSegments(w) \ {s}, u, v)}

PathDelay(w, u, v) ==
  LET path == Path(w, u, v)
      between == {n \in DOMAIN w.nodes : w.nodes[n].kind = "Repeater" /\
                    Cardinality(path \cap HdSegmentsAt(w, n)) = 2}
  IN MapThenSumSet(LAMBDA s : w.segments[s].delay, path) + DeltaH * Cardinality(between)

(* The ports at which node n hears vertex u.                               *)
Hears(w, u, n) ==
  {e \in UNION {Ends(w, s) : s \in HdSegments(w)} :
     e.node = n /\ Linked(w, HdSegments(w), u, Vertex(w, e))}

Segment == [kind : {"Hd", "Fd"}, a : Endpoint, b : Endpoint, delay : Nat, rate : BitRate]

(* Numbers handed out are below the slot counts, and every segment has two *)
(* ports of two live nodes: what add_*, validate_segment_endpoints and      *)
(* remove_node see to.                                                     *)
WorldOK(w) ==
  /\ w = [nodes |-> w.nodes, nodeSlots |-> w.nodeSlots, segments |-> w.segments,
          segmentSlots |-> w.segmentSlots, plugs |-> w.plugs]
  /\ w.nodeSlots \in Nat /\ w.segmentSlots \in Nat
  /\ DOMAIN w.nodes \subseteq 0 .. (w.nodeSlots - 1)
  /\ \A n \in DOMAIN w.nodes : w.nodes[n] \in Models
  /\ DOMAIN w.segments \subseteq 0 .. (w.segmentSlots - 1)
  /\ \A s \in DOMAIN w.segments :
       /\ w.segments[s] \in Segment
       /\ ValidEndpoints(w, w.segments[s].a, w.segments[s].b, w.segments[s].delay)

TypeOK == phase \in {"building", "running"} /\ WorldOK(world)

(* The port slots and the endpoints of the segments always agree: a port    *)
(* has at most one cable, that cable ends there, and both ends of a live    *)
(* segment are plugged (set_port_slot, remove_segment, remove_node).        *)
PlugsAgree(w) ==
  /\ DOMAIN w.plugs = UNION {Ends(w, s) : s \in DOMAIN w.segments}
  /\ \A s \in DOMAIN w.segments, e \in DOMAIN w.plugs : w.plugs[e] = s <=> e \in Ends(w, s)

PortsAndCablesAgree == phase = "running" => PlugsAgree(world)

(* Axiom A7: no edit closes a cycle. Without any one of its segments, a     *)
(* collision domain falls apart (do_add_hd_segment, build).                 *)
CollisionDomainsAreTrees ==
  phase = "running" =>
    \A s \in HdSegments(world) :
      ~Linked(world, HdSegments(world) \ {s},
              Vertex(world, world.segments[s].a), Vertex(world, world.segments[s].b))

(* The edit check, which walks nodes, and the build check, which counts     *)
(* vertices and edges, allow the same half-duplex cables between free ports.*)
EditAgreesWithBuild ==
  phase = "running" =>
    \A c \in Cables :
      ValidEndpoints(world, c[1], c[2], 1) /\ PortsFree(c[1], c[2]) =>
        (~HdReachable(world, c[1].node, c[2].node)
           <=> BuildAccepts(WithSegment(world, "Hd", c[1], c[2], 1, 1)))

(* collision_resource_of tells domains apart: two half-duplex segments have *)
(* one number if and only if signals pass from one to the other, and every  *)
(* live half-duplex segment has a number.                                   *)
DomainsShareIds ==
  phase = "running" =>
    /\ DOMAIN ids.collision = HdSegments(world)
    /\ \A s, t \in HdSegments(world) :
         ids.collision[s] = ids.collision[t]
           <=> Linked(world, HdSegments(world), Vertex(world, world.segments[s].a),
                      Vertex(world, world.segments[t].a))

(* No two serializers (directions of full-duplex segments, ports of relays) *)
(* have one number, however segments and relays come and go; a duplicate    *)
(* would let a Dequeue be taken for that of another port.                   *)
FdEntry(i) == (DOMAIN i.fd) \X {1, 2}
NumbersDiffer(i) ==
  /\ \A p, q \in FdEntry(i) : p # q => i.fd[p[1]][p[2]] # i.fd[q[1]][q[2]]
  /\ \A d, e \in DOMAIN i.egress : d # e => i.egress[d] # i.egress[e]
  /\ \A p \in FdEntry(i), e \in DOMAIN i.egress : i.fd[p[1]][p[2]] # i.egress[e]

SerializersUnique == NumbersDiffer(ids)

(* The precomputed delays are those of the unique path, current after every *)
(* edit, and the arrival port is the end of that path (bfs_hd_delays). A     *)
(* relay that hears a station at two of its ports has an entry for one.      *)
ReachIsTreePath ==
  phase = "running" =>
    /\ DOMAIN reach.hd = {p \in (DOMAIN world.nodes) \X DOMAIN world.nodes :
                             /\ p[1] # p[2] /\ ~IsRelay(world, p[1])
                             /\ Hears(world, <<p[1]>>, p[2]) # {}}
    /\ \A p \in DOMAIN reach.hd :
         LET e == [node |-> p[2], port |-> reach.hd[p].port]
         IN /\ e \in Hears(world, <<p[1]>>, p[2])
            /\ world.plugs[e] \in Path(world, <<p[1]>>, Vertex(world, e))
            /\ reach.hd[p].delay = PathDelay(world, <<p[1]>>, Vertex(world, e))

(* What a relay sends on a port reaches exactly the stations and repeaters  *)
(* of the domain behind that port, and the node at the end of the cable     *)
(* even if it is a relay; the rate on record, from which the gap between     *)
(* frames is taken, is that of the cable (precompute_bridge_egress_reach).  *)
EgressReachesDomain ==
  phase = "running" =>
    /\ DOMAIN reach.egress = RelayPorts(world) \cap DOMAIN world.plugs
    /\ \A e \in DOMAIN reach.egress :
         LET s == world.plugs[e]
             next == FarEnd(world, s, e).node
             hearing == {n \in DOMAIN world.nodes :
                           ~IsRelay(world, n) /\ Hears(world, Vertex(world, e), n) # {}}
         IN /\ reach.egress[e].rate = world.segments[s].rate
            /\ {r.node : r \in reach.egress[e].peers} =
                 {next} \cup IF s \in HdSegments(world) THEN hearing ELSE {}

(* The full-duplex attachment of a node is a live cable of that node, with  *)
(* its present delay and rate, whatever was removed or set                  *)
(* (precompute_fd_attachments).                                             *)
AttachmentsLive ==
  phase = "running" =>
    /\ DOMAIN reach.fd = {n \in DOMAIN world.nodes :
                            \E s \in FdSegments(world) : \E e \in Ends(world, s) : e.node = n}
    /\ \A n \in DOMAIN reach.fd :
         \E s \in FdSegments(world) : \E e \in Ends(world, s) :
           e.node = n /\ reach.fd[n] = [node |-> FarEnd(world, s, e).node,
                                       port |-> FarEnd(world, s, e).port,
                                       delay |-> world.segments[s].delay,
                                       rate |-> world.segments[s].rate]

(* A relay that measures an opaque signal with the rate of the cable it     *)
(* came by makes a copy of the same length, or of one bit less if the rate  *)
(* does not divide the second (handle_front_arrive, signal_bits_at_rate).   *)
(* This rests on a bit taking at least a picosecond.                        *)
OpaqueCopiesKeepLength ==
  phase = "running" =>
    \A e \in RelayPorts(world) :
      \A rate \in SegmentRateAt(world, e) : rate <= PicosPerSecond => LosesAtMostOneBit(rate)
=============================================================================
