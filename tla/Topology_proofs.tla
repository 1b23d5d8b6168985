-------------------------- MODULE Topology_proofs --------------------------
(***************************************************************************)
(* Proofs about Topology, for any models, cables, delays and rates and     *)
(* any bounds on the numbers handed out.                                   *)
(*                                                                         *)
(* First the arithmetic of Quantities and what the changes of a world keep *)
(* (TopologyInv, SerializersOK, AttachmentsInv).  Then graphs: the searches*)
(* of Topology compute components, reach and paths of the graph of a world *)
(* (Induction, Joined, DomainIsComponent, ReachIsJoined, SearchedThrough), *)
(* that graph stays a forest (ForestInv), and the numbers and maps derived *)
(* from it are right (DomainNumbersInv, ReachInv).                         *)
(***************************************************************************)
EXTENDS Topology, FiniteSetTheorems, SequenceTheorems, WellFoundedInduction, TLAPS

---------------------------------------------------------------------------
(* Division of integers.                                                   *)

LEMMA Division ==
  ASSUME NEW a \in Nat, NEW b \in Nat \ {0}
  PROVE  /\ a \div b \in Nat /\ a % b \in 0 .. (b - 1)
         /\ a = b * (a \div b) + (a % b)
OBVIOUS

LEMMA Quotient ==
  ASSUME NEW a \in Nat, NEW b \in Nat \ {0}, NEW q \in Nat, NEW r \in 0 .. (b - 1), a = b * q + r
  PROVE  a \div b = q
OBVIOUS

LEMMA ProductInNat ==
  ASSUME NEW a \in Nat, NEW b \in Nat
  PROVE  a * b \in Nat
OBVIOUS

LEMMA ProductGrows ==
  ASSUME NEW a \in Nat, NEW b \in Nat, NEW c \in Nat, a <= b
  PROVE  a * c <= b * c
OBVIOUS

LEMMA QuotientGrows ==
  ASSUME NEW a \in Nat, NEW c \in Nat, NEW b \in Nat \ {0}, a <= c
  PROVE  a \div b <= c \div b
<1>1. /\ a \div b \in Nat /\ a % b \in 0 .. (b - 1) /\ a = b * (a \div b) + (a % b)
      /\ c \div b \in Nat /\ c % b \in 0 .. (b - 1) /\ c = b * (c \div b) + (c % b)
  BY Division
<1>2. SUFFICES ASSUME c \div b < a \div b PROVE FALSE
  BY <1>1
<1>3. (c \div b + 1) * b <= (a \div b) * b
  BY <1>1, <1>2, ProductGrows
<1>. QED
  BY <1>1, <1>3

---------------------------------------------------------------------------
(* Bits and durations.                                                     *)

LEMMA DurationOfBits ==
  ASSUME NEW bits \in Quantity, NEW rate \in BitRate, NEW dur \in AtRate(bits, rate)
  PROVE  /\ dur \in Quantity /\ dur = (bits * PicosPerSecond) \div rate
         /\ \E r \in 0 .. (rate - 1) : /\ r = (bits * PicosPerSecond) % rate
                                       /\ bits * PicosPerSecond = rate * dur + r
<1>1. bits * PicosPerSecond \in Nat /\ rate \in Nat \ {0}
  BY QuantitiesAssumption, ProductInNat DEF Quantity, BitRate
<1>2. dur \in Quantity /\ dur = (bits * PicosPerSecond) \div rate
  BY DEF AtRate, Fits
<1>. QED
  BY <1>1, <1>2, Division

(* A relay that measures a signal at the rate it was built with and sends   *)
(* it again (signal_bits_at_rate, AtRate) shortens it by one bit at most,    *)
(* and not at all at a rate whose bit time is a whole number of             *)
(* picoseconds; for any rate of at most a bit per picosecond.               *)
THEOREM OpaqueCopiesLoseAtMostOneBit ==
  ASSUME NEW rate \in BitRate, rate <= PicosPerSecond
  PROVE  LosesAtMostOneBit(rate)
<1>1. SUFFICES ASSUME NEW bits \in Quantity, NEW dur \in AtRate(bits, rate)
               PROVE  BitsAtRate(dur, rate) =
                        IF (bits * PicosPerSecond) % rate = 0 THEN bits ELSE bits - 1
  BY DEF LosesAtMostOneBit
<1> DEFINE P == PicosPerSecond
<1>2. /\ P \in Nat \ {0} /\ rate \in Nat \ {0} /\ rate <= P
      /\ bits \in Nat /\ bits <= MaxQuantity /\ MaxQuantity \in Nat
  BY QuantitiesAssumption DEF Quantity, BitRate
<1>3. PICK r \in 0 .. (rate - 1) : /\ r = (bits * P) % rate
                                   /\ bits * P = rate * dur + r
  BY DurationOfBits
<1>4. dur \in Nat
  BY DurationOfBits DEF Quantity
<1> HIDE DEF P
<1>5. CASE r = 0
  <2>1. dur * rate = P * bits + 0
    BY <1>2, <1>3, <1>4, <1>5
  <2>2. (dur * rate) \div P = bits
    <3>1. dur * rate \in Nat /\ 0 \in 0 .. (P - 1)
      BY <1>2, <1>4, ProductInNat
    <3>. QED
      BY <1>2, <2>1, <3>1, Quotient
  <2>3. bits % (MaxQuantity + 1) = bits
    BY <1>2
  <2>. QED
    BY <1>3, <1>5, <2>2, <2>3 DEF BitsAtRate, P
<1>6. CASE r # 0
  <2>1. bits # 0
    <3>1. CASE bits = 0
      <4>1. bits * P = 0 /\ rate * dur \in Nat
        BY <1>2, <1>4, <3>1, ProductInNat
      <4>. QED
        BY <1>3, <1>6, <4>1
    <3>. QED
      BY <3>1
  <2>2. dur * rate = P * (bits - 1) + (P - r)
    BY <1>2, <1>3, <1>4
  <2>3. (dur * rate) \div P = bits - 1
    <3> DEFINE q == bits - 1
               s == P - r
    <3>1. q \in Nat /\ s \in 0 .. (P - 1) /\ dur * rate \in Nat
      BY <1>2, <1>3, <1>4, <1>6, <2>1, ProductInNat
    <3>2. dur * rate = P * q + s
      BY <2>2
    <3> HIDE DEF q, s
    <3>3. (dur * rate) \div P = q
      BY <1>2, <3>1, <3>2, Quotient
    <3>. QED
      BY <3>3 DEF q
  <2>4. (bits - 1) % (MaxQuantity + 1) = bits - 1
    BY <1>2, <2>1
  <2>. QED
    BY <1>3, <1>6, <2>3, <2>4 DEF BitsAtRate, P
<1>. QED
  BY <1>3, <1>5, <1>6

(* Every signal of a positive number of bits has a positive duration (I5), *)
(* which the constructors of signal.rs do not check, as long as no rate is  *)
(* above one bit per picosecond.                                            *)
THEOREM SignalsLast ==
  ASSUME NEW t0 \in Quantity, NEW bits \in Quantity, NEW rate \in BitRate,
         rate <= PicosPerSecond, NEW sig \in NewSignal(t0, bits, rate)
  PROVE  sig.dur \in Quantity \ {0}
<1>1. bits # 0 /\ sig.dur \in AtRate(bits, rate)
  BY DEF NewSignal
<1>2. PICK r \in 0 .. (rate - 1) : bits * PicosPerSecond = rate * sig.dur + r
  BY <1>1, DurationOfBits
<1>3. sig.dur \in Quantity
  BY <1>1, DurationOfBits
<1>4. CASE sig.dur = 0
  <2>1. /\ bits \in Nat \ {0} /\ rate \in Nat \ {0} /\ PicosPerSecond \in Nat
        /\ bits * PicosPerSecond = r
    BY <1>1, <1>2, <1>4, QuantitiesAssumption DEF Quantity, BitRate
  <2>2. 1 * PicosPerSecond <= bits * PicosPerSecond
    BY <2>1, ProductGrows
  <2>. QED
    BY <1>2, <2>1, <2>2
<1>. QED
  BY <1>3, <1>4

---------------------------------------------------------------------------
(* Claims and transmissions.                                               *)

(* Two claims overlap, as resource.rs decides it, if and only if there is   *)
(* an instant at which both are held: claims are half-open, and one that    *)
(* ends when the other starts does not overlap it (I3).                     *)
THEOREM OverlapIsASharedInstant ==
  ASSUME NEW c \in Claim, NEW d \in Claim
  PROVE  Overlaps(c, d) <=> \E t \in Quantity : HeldAt(c, t) /\ HeldAt(d, t)
<1>1. /\ c.start \in Quantity /\ c.end \in Quantity /\ c.start < c.end
      /\ d.start \in Quantity /\ d.end \in Quantity /\ d.start < d.end
  BY DEF Claim
<1>2. ASSUME Overlaps(c, d) PROVE \E t \in Quantity : HeldAt(c, t) /\ HeldAt(d, t)
  <2>1. Later(c.start, d.start) \in Quantity
    BY <1>1 DEF Later
  <2>2. HeldAt(c, Later(c.start, d.start)) /\ HeldAt(d, Later(c.start, d.start))
    BY <1>1, <1>2, QuantitiesAssumption DEF Overlaps, Later, Earlier, HeldAt, Quantity
  <2>. QED
    BY <2>1, <2>2
<1>3. ASSUME NEW t \in Quantity, HeldAt(c, t), HeldAt(d, t) PROVE Overlaps(c, d)
  BY <1>1, <1>3, QuantitiesAssumption DEF Overlaps, Later, Earlier, HeldAt, Quantity
<1>. QED
  BY <1>2, <1>3

(* The signal of a transmission lasts exactly as long as its claim (I6),    *)
(* and its end is in range: it cannot overflow.                             *)
THEOREM TransmissionIsItsClaim ==
  ASSUME NEW sig \in [t0 : Quantity, dur : Quantity], NEW c \in Claim,
         NEW x \in NewTransmission(sig, c)
  PROVE  x.signal.t0 = x.claim.start /\ SignalEnd(x.signal) = {x.claim.end}
<1>1. /\ c.start \in Nat /\ c.end \in Nat /\ c.end \in Quantity
      /\ sig.t0 = c.start /\ sig.dur = c.end - c.start
  BY QuantitiesAssumption DEF Claim, NewTransmission, Minus, Fits, Quantity
<1>2. x.signal = sig /\ x.claim = c
  BY DEF NewTransmission
<1>3. sig.t0 + sig.dur = c.end
  BY <1>1
<1>. QED
  BY <1>1, <1>2, <1>3 DEF SignalEnd, Plus, Fits

---------------------------------------------------------------------------
(* Relays.                                                                 *)

(* A relay that decodes only part of a frame may send it no later than one  *)
(* that waits for all of it and then takes the same time (cut-through and   *)
(* store-and-forward, eligibility_time).                                    *)
THEOREM CutThroughIsNoLater ==
  ASSUME NEW t \in Quantity, NEW decode \in Quantity, NEW bits \in Quantity,
         decode <= bits, NEW rate \in BitRate, NEW processing \in Quantity,
         NEW early \in EligibilityTime(t, decode, rate, processing),
         NEW late \in EligibilityTime(t, bits, rate, processing)
  PROVE  early <= late
<1>1. \A n \in Quantity : \A e \in EligibilityTime(t, n, rate, processing) :
        e = t + ((n * PicosPerSecond) \div rate) + processing
  BY DEF EligibilityTime, Plus, AtRate, Fits
<1>2. decode * PicosPerSecond <= bits * PicosPerSecond
  BY QuantitiesAssumption, ProductGrows DEF Quantity
<1>3. decode * PicosPerSecond \in Nat /\ bits * PicosPerSecond \in Nat /\ rate \in Nat \ {0}
  BY QuantitiesAssumption, ProductInNat DEF Quantity, BitRate
<1>4. (decode * PicosPerSecond) \div rate <= (bits * PicosPerSecond) \div rate
  BY <1>2, <1>3, QuotientGrows
<1>5. /\ (decode * PicosPerSecond) \div rate \in Nat /\ (bits * PicosPerSecond) \div rate \in Nat
      /\ t \in Nat /\ processing \in Nat
  <2>1. (decode * PicosPerSecond) \div rate \in Nat /\ (bits * PicosPerSecond) \div rate \in Nat
    BY <1>3, Division
  <2>2. t \in Nat /\ processing \in Nat
    BY QuantitiesAssumption DEF Quantity
  <2>. QED
    BY <2>1, <2>2
<1> DEFINE x == (decode * PicosPerSecond) \div rate
           y == (bits * PicosPerSecond) \div rate
<1>6. early = t + x + processing /\ late = t + y + processing
  BY <1>1
<1> HIDE DEF x, y
<1>7. x <= y /\ x \in Nat /\ y \in Nat
  BY <1>4, <1>5 DEF x, y
<1>. QED
  BY <1>5, <1>6, <1>7


---------------------------------------------------------------------------
(* What the changes of a world keep.                                       *)

IsWorld(w) == w = [nodes |-> w.nodes, nodeSlots |-> w.nodeSlots, segments |-> w.segments,
                   segmentSlots |-> w.segmentSlots, plugs |-> w.plugs]

(* What adding a node does to a world.                                     *)
GrownByNode(v, w) ==
  /\ v.segments = w.segments /\ v.plugs = w.plugs
  /\ DOMAIN v.nodes = DOMAIN w.nodes \cup {w.nodeSlots}
  /\ w.nodeSlots \notin DOMAIN w.nodes
  /\ \A n \in DOMAIN w.nodes : v.nodes[n] = w.nodes[n]

LEMMA NodeAdded ==
  ASSUME NEW w, WorldOK(w), NEW m \in Models
  PROVE  GrownByNode(WithNode(w, m), w) /\ WithNode(w, m).nodes[w.nodeSlots] = m
<1> DEFINE v == WithNode(w, m)
           more == With(w.nodes, [n \in {w.nodeSlots} |-> m])
<1>1. IsWorld(w) /\ w.nodeSlots \notin DOMAIN w.nodes
  BY DEF WorldOK, IsWorld
<1>2. v = [w EXCEPT !.nodes = more, !.nodeSlots = @ + 1]
  BY DEF WithNode
<1> HIDE DEF v, more
<1>3. v.segments = w.segments /\ v.plugs = w.plugs /\ v.nodes = more
  BY <1>1, <1>2 DEF IsWorld
<1>4. GrownByNode(v, w) /\ v.nodes[w.nodeSlots] = m
  BY <1>1, <1>3 DEF With, more, GrownByNode
<1>. QED
  BY <1>4 DEF v

LEMMA WithNodeKeeps ==
  ASSUME NEW w, WorldOK(w), NEW m \in Models
  PROVE  /\ WorldOK(WithNode(w, m))
         /\ PlugsAgree(w) => PlugsAgree(WithNode(w, m))
<1> DEFINE v == WithNode(w, m)
<1>1. /\ v = [nodes |-> v.nodes, nodeSlots |-> w.nodeSlots + 1, segments |-> w.segments,
              segmentSlots |-> w.segmentSlots, plugs |-> w.plugs]
      /\ DOMAIN v.nodes = DOMAIN w.nodes \cup {w.nodeSlots}
      /\ v.nodes[w.nodeSlots] = m
      /\ \A n \in DOMAIN w.nodes : v.nodes[n] = w.nodes[n]
  <2>1. IsWorld(w) /\ w.nodeSlots \notin DOMAIN w.nodes
    BY DEF WorldOK, IsWorld
  <2> DEFINE more == With(w.nodes, [n \in {w.nodeSlots} |-> m])
  <2>2. v = [w EXCEPT !.nodes = more, !.nodeSlots = @ + 1]
    BY DEF WithNode
  <2> HIDE DEF v, more
  <2>3. v = [nodes |-> more, nodeSlots |-> w.nodeSlots + 1, segments |-> w.segments,
             segmentSlots |-> w.segmentSlots, plugs |-> w.plugs]
    BY <2>1, <2>2 DEF IsWorld
  <2>. QED
    BY <2>1, <2>3 DEF With, more
<1>2. \A a, b, d : ValidEndpoints(w, a, b, d) => ValidEndpoints(v, a, b, d)
  BY <1>1 DEF ValidEndpoints, HasEndpoint, HasNode
<1>3. WorldOK(v)
  <2> HIDE DEF v
  <2>. QED
    BY <1>1, <1>2 DEF WorldOK
<1>4. PlugsAgree(w) => PlugsAgree(v)
  <2> HIDE DEF v
  <2>. QED
    BY <1>1 DEF PlugsAgree, Ends
<1>. QED
  BY <1>3, <1>4

LEMMA WithSegmentKeeps ==
  ASSUME NEW w, WorldOK(w), NEW kind \in {"Hd", "Fd"}, NEW a \in Endpoint, NEW b \in Endpoint,
         NEW d \in Nat, NEW r \in BitRate, ValidEndpoints(w, a, b, d)
  PROVE  WorldOK(WithSegment(w, kind, a, b, d, r))
<1> DEFINE v == WithSegment(w, kind, a, b, d, r)
<1>1. /\ v = [nodes |-> w.nodes, nodeSlots |-> w.nodeSlots, segments |-> v.segments,
              segmentSlots |-> w.segmentSlots + 1, plugs |-> w.plugs]
      /\ DOMAIN v.segments = DOMAIN w.segments \cup {w.segmentSlots}
      /\ v.segments[w.segmentSlots] = [kind |-> kind, a |-> a, b |-> b, delay |-> d, rate |-> r]
      /\ \A s \in DOMAIN w.segments : v.segments[s] = w.segments[s]
  <2>1. IsWorld(w) /\ w.segmentSlots \notin DOMAIN w.segments
    BY DEF WorldOK, IsWorld
  <2> DEFINE more == With(w.segments, [s \in {w.segmentSlots} |->
                            [kind |-> kind, a |-> a, b |-> b, delay |-> d, rate |-> r]])
  <2>2. v = [w EXCEPT !.segments = more, !.segmentSlots = @ + 1]
    BY DEF WithSegment
  <2> HIDE DEF v, more
  <2>3. v = [nodes |-> w.nodes, nodeSlots |-> w.nodeSlots, segments |-> more,
             segmentSlots |-> w.segmentSlots + 1, plugs |-> w.plugs]
    BY <2>1, <2>2 DEF IsWorld
  <2>. QED
    BY <2>1, <2>3 DEF With, more
<1>2. \A e, f, z : ValidEndpoints(w, e, f, z) => ValidEndpoints(v, e, f, z)
  BY <1>1 DEF ValidEndpoints, HasEndpoint, HasNode
<1> HIDE DEF v
<1>3. [kind |-> kind, a |-> a, b |-> b, delay |-> d, rate |-> r] \in Segment
  BY DEF Segment
<1>. QED
  <2>1. WorldOK(v)
    BY <1>1, <1>2, <1>3 DEF WorldOK
  <2>. QED
    BY <2>1 DEF v

LEMMA WithCableKeeps ==
  ASSUME NEW w, WorldOK(w), PlugsAgree(w), NEW kind \in {"Hd", "Fd"},
         NEW a \in Endpoint, NEW b \in Endpoint, NEW d \in Nat, NEW r \in BitRate,
         ValidEndpoints(w, a, b, d), {a, b} \cap DOMAIN w.plugs = {}
  PROVE  /\ WorldOK(WithCable(w, kind, a, b, d, r))
         /\ PlugsAgree(WithCable(w, kind, a, b, d, r))
<1> DEFINE u == WithSegment(w, kind, a, b, d, r)
           v == WithCable(w, kind, a, b, d, r)
<1>1. WorldOK(u)
  BY WithSegmentKeeps
<1>2. /\ v = [nodes |-> w.nodes, nodeSlots |-> w.nodeSlots, segments |-> u.segments,
              segmentSlots |-> w.segmentSlots + 1,
              plugs |-> With(w.plugs, [e \in {a, b} |-> w.segmentSlots])]
      /\ u.nodes = w.nodes /\ u.nodeSlots = w.nodeSlots
      /\ u.segmentSlots = w.segmentSlots + 1
      /\ u.segments = With(w.segments, [s \in {w.segmentSlots} |->
                                 [kind |-> kind, a |-> a, b |-> b, delay |-> d, rate |-> r]])
  <2>1. IsWorld(w)
    BY DEF WorldOK, IsWorld
  <2> DEFINE more == With(w.segments, [s \in {w.segmentSlots} |->
                            [kind |-> kind, a |-> a, b |-> b, delay |-> d, rate |-> r]])
             slots == With(u.plugs, [e \in {a, b} |-> w.segmentSlots])
  <2>2. u = [w EXCEPT !.segments = more, !.segmentSlots = @ + 1]
    BY DEF WithSegment
  <2>3. v = [u EXCEPT !.plugs = slots]
    BY DEF WithCable
  <2> HIDE DEF u, v, more, slots
  <2>4. u = [nodes |-> w.nodes, nodeSlots |-> w.nodeSlots, segments |-> more,
             segmentSlots |-> w.segmentSlots + 1, plugs |-> w.plugs]
    BY <2>1, <2>2 DEF IsWorld
  <2>5. v = [nodes |-> w.nodes, nodeSlots |-> w.nodeSlots, segments |-> u.segments,
             segmentSlots |-> w.segmentSlots + 1, plugs |-> slots]
    BY <2>3, <2>4
  <2>. QED
    BY <2>4, <2>5 DEF more, slots
<1>3. /\ DOMAIN v.segments = DOMAIN w.segments \cup {w.segmentSlots}
      /\ v.segments[w.segmentSlots] = [kind |-> kind, a |-> a, b |-> b, delay |-> d, rate |-> r]
      /\ \A s \in DOMAIN w.segments : v.segments[s] = w.segments[s]
      /\ w.segmentSlots \notin DOMAIN w.segments
  <2>1. w.segmentSlots \notin DOMAIN w.segments
    BY DEF WorldOK
  <2> HIDE DEF u, v
  <2>. QED
    BY <1>2, <2>1 DEF With
<1>4. /\ DOMAIN v.plugs = DOMAIN w.plugs \cup {a, b}
      /\ \A e \in {a, b} : v.plugs[e] = w.segmentSlots
      /\ \A e \in DOMAIN w.plugs : e \notin {a, b} /\ v.plugs[e] = w.plugs[e]
  <2> HIDE DEF u, v
  <2>. QED
    BY <1>2 DEF With
<1> HIDE DEF u, v
<1>5. WorldOK(v)
  <2>1. \A e, f, z : ValidEndpoints(u, e, f, z) => ValidEndpoints(v, e, f, z)
    BY <1>2 DEF ValidEndpoints, HasEndpoint, HasNode
  <2>. QED
    BY <1>1, <1>2, <2>1 DEF WorldOK
<1>6. PlugsAgree(v)
  <2>1. Ends(v, w.segmentSlots) = {a, b}
    BY <1>3 DEF Ends
  <2>2. \A s \in DOMAIN w.segments : Ends(v, s) = Ends(w, s)
    BY <1>3 DEF Ends
  <2>3. DOMAIN v.plugs = UNION {Ends(v, s) : s \in DOMAIN v.segments}
    BY <1>3, <1>4, <2>1, <2>2 DEF PlugsAgree
  <2>4. ASSUME NEW s \in DOMAIN v.segments, NEW e \in DOMAIN v.plugs
        PROVE  v.plugs[e] = s <=> e \in Ends(v, s)
    <3>1. CASE s = w.segmentSlots
      <4>1. \A x \in DOMAIN w.plugs : w.plugs[x] \in DOMAIN w.segments
        BY DEF PlugsAgree
      <4>. QED
        BY <3>1, <1>3, <1>4, <2>1, <4>1
    <3>2. CASE s \in DOMAIN w.segments
      <4>1. e \in {a, b} => e \notin Ends(w, s)
        BY <3>2 DEF PlugsAgree
      <4>. QED
        BY <3>2, <1>3, <1>4, <2>2, <4>1 DEF PlugsAgree
    <3>. QED
      BY <1>3, <3>1, <3>2
  <2>. QED
    BY <2>3, <2>4 DEF PlugsAgree
<1>. QED
  BY <1>5, <1>6 DEF v

LEMMA AllPluggedKeeps ==
  ASSUME NEW w, WorldOK(w), SingleAttachment(w)
  PROVE  WorldOK(AllPlugged(w)) /\ PlugsAgree(AllPlugged(w))
<1> DEFINE v == AllPlugged(w)
           ends == UNION {Ends(w, s) : s \in DOMAIN w.segments}
<1>1. /\ v = [nodes |-> w.nodes, nodeSlots |-> w.nodeSlots, segments |-> w.segments,
              segmentSlots |-> w.segmentSlots, plugs |-> v.plugs]
      /\ DOMAIN v.plugs = ends
      /\ \A e \in ends : v.plugs[e] = PluggedInto(w, e)
  BY DEF WorldOK, AllPlugged
<1>2. \A e, f, z : ValidEndpoints(w, e, f, z) => ValidEndpoints(v, e, f, z)
  BY <1>1 DEF ValidEndpoints, HasEndpoint, HasNode
<1>3. \A e \in ends : PluggedInto(w, e) \in DOMAIN w.segments /\ e \in Ends(w, PluggedInto(w, e))
  BY DEF PluggedInto
<1>4. \A s : Ends(v, s) = Ends(w, s)
  BY <1>1 DEF Ends
<1> HIDE DEF v
<1>5. WorldOK(v)
  BY <1>1, <1>2 DEF WorldOK
<1>6. PlugsAgree(v)
  BY <1>1, <1>3, <1>4 DEF PlugsAgree, SingleAttachment
<1>. QED
  BY <1>5, <1>6 DEF v

LEMMA WithoutSegmentsKeeps ==
  ASSUME NEW w, WorldOK(w), PlugsAgree(w), NEW S
  PROVE  /\ WorldOK(WithoutSegments(w, S))
         /\ PlugsAgree(WithoutSegments(w, S))
<1> DEFINE v == WithoutSegments(w, S)
<1>1. /\ v = [nodes |-> w.nodes, nodeSlots |-> w.nodeSlots, segments |-> v.segments,
              segmentSlots |-> w.segmentSlots, plugs |-> v.plugs]
      /\ DOMAIN v.segments = DOMAIN w.segments \ S
      /\ \A s \in DOMAIN v.segments : v.segments[s] = w.segments[s]
      /\ DOMAIN v.plugs = {e \in DOMAIN w.plugs :
                             ~\E s \in S : e \in Ends(w, s) /\ w.plugs[e] = s}
      /\ \A e \in DOMAIN v.plugs : v.plugs[e] = w.plugs[e]
  <2> DEFINE kept == {e \in DOMAIN w.plugs : ~\E s \in S : e \in Ends(w, s) /\ w.plugs[e] = s}
  <2>1. IsWorld(w)
    BY DEF WorldOK, IsWorld
  <2>2. v = [nodes |-> w.nodes, nodeSlots |-> w.nodeSlots,
             segments |-> [s \in DOMAIN w.segments \ S |-> w.segments[s]],
             segmentSlots |-> w.segmentSlots, plugs |-> [e \in kept |-> w.plugs[e]]]
    <3> HIDE DEF kept
    <3>1. v = [w EXCEPT !.segments = [s \in DOMAIN w.segments \ S |-> w.segments[s]],
                        !.plugs = [e \in kept |-> w.plugs[e]]]
      BY DEF WithoutSegments, Restrict, kept
    <3> HIDE DEF v
    <3>. QED
      BY <2>1, <3>1 DEF IsWorld
  <2> HIDE DEF v
  <2>. QED
    BY <2>2
<1>2. \A e, f, z : ValidEndpoints(w, e, f, z) => ValidEndpoints(v, e, f, z)
  BY <1>1 DEF ValidEndpoints, HasEndpoint, HasNode
<1>3. \A s \in DOMAIN v.segments : Ends(v, s) = Ends(w, s)
  BY <1>1 DEF Ends
<1> HIDE DEF v
<1>4. WorldOK(v)
  BY <1>1, <1>2 DEF WorldOK
<1>5. PlugsAgree(v)
  <2>1. \A e \in DOMAIN w.plugs : \E s \in DOMAIN w.segments : e \in Ends(w, s) /\ w.plugs[e] = s
    BY DEF PlugsAgree
  <2>2. DOMAIN v.plugs = {e \in DOMAIN w.plugs : w.plugs[e] \notin S}
    BY <1>1, <2>1
  <2>3. DOMAIN v.plugs = UNION {Ends(v, s) : s \in DOMAIN v.segments}
    BY <1>1, <1>3, <2>1, <2>2 DEF PlugsAgree
  <2>. QED
    BY <1>1, <1>3, <2>3 DEF PlugsAgree
<1>. QED
  BY <1>4, <1>5 DEF v

(* A node goes only after every segment that ends at it.                   *)
LEMMA WithoutNodeKeeps ==
  ASSUME NEW w, WorldOK(w), PlugsAgree(w), NEW n
  PROVE  LET v == WithoutNode(WithoutSegments(w, SegmentsIncidentTo(w, n)), n)
         IN WorldOK(v) /\ PlugsAgree(v)
<1> DEFINE u == WithoutSegments(w, SegmentsIncidentTo(w, n))
           v == WithoutNode(u, n)
<1>1. WorldOK(u) /\ PlugsAgree(u)
  BY WithoutSegmentsKeeps
<1>2. \A s \in DOMAIN u.segments : \A e \in Ends(u, s) : e.node # n
  <2>1. /\ DOMAIN u.segments = DOMAIN w.segments \ SegmentsIncidentTo(w, n)
        /\ \A s \in DOMAIN u.segments : u.segments[s] = w.segments[s]
    BY DEF WorldOK, WithoutSegments, Restrict
  <2> HIDE DEF u
  <2>2. \A s \in DOMAIN u.segments : Ends(u, s) = Ends(w, s)
    BY <2>1 DEF Ends
  <2>. QED
    BY <2>1, <2>2 DEF PlugsAgree, SegmentsIncidentTo
<1> HIDE DEF u
<1>3. /\ v = [nodes |-> v.nodes, nodeSlots |-> u.nodeSlots, segments |-> u.segments,
              segmentSlots |-> u.segmentSlots, plugs |-> u.plugs]
      /\ DOMAIN v.nodes = DOMAIN u.nodes \ {n}
      /\ \A i \in DOMAIN v.nodes : v.nodes[i] = u.nodes[i]
  BY <1>1 DEF WorldOK, WithoutNode, Restrict
<1> HIDE DEF v
<1>4. \A s \in DOMAIN u.segments :
        ValidEndpoints(v, v.segments[s].a, v.segments[s].b, v.segments[s].delay)
  BY <1>1, <1>2, <1>3 DEF WorldOK, ValidEndpoints, HasEndpoint, HasNode, Ends
<1>5. WorldOK(v)
  BY <1>1, <1>3, <1>4 DEF WorldOK
<1>6. PlugsAgree(v)
  BY <1>1, <1>3 DEF PlugsAgree, Ends
<1>. QED
  BY <1>5, <1>6 DEF u, v

(* New parameters for a segment, which stays where it is.                  *)
WithParameters(w, s, x) == [w EXCEPT !.segments[s] = x]
SamePlace(x, y) == x.kind = y.kind /\ x.a = y.a /\ x.b = y.b

LEMMA WithParametersKeeps ==
  ASSUME NEW w, WorldOK(w), PlugsAgree(w), NEW s \in DOMAIN w.segments,
         NEW x \in Segment, SamePlace(x, w.segments[s]), x.delay # 0
  PROVE  /\ WorldOK(WithParameters(w, s, x)) /\ PlugsAgree(WithParameters(w, s, x))
<1> DEFINE v == WithParameters(w, s, x)
<1>1. /\ v = [nodes |-> w.nodes, nodeSlots |-> w.nodeSlots, segments |-> v.segments,
              segmentSlots |-> w.segmentSlots, plugs |-> w.plugs]
      /\ DOMAIN v.segments = DOMAIN w.segments
      /\ \A t \in DOMAIN w.segments : v.segments[t] = IF t = s THEN x ELSE w.segments[t]
  BY DEF WorldOK, WithParameters
<1> HIDE DEF v
<1>2. \A t \in DOMAIN v.segments : /\ v.segments[t].kind = w.segments[t].kind
                                   /\ v.segments[t].a = w.segments[t].a
                                   /\ v.segments[t].b = w.segments[t].b
                                   /\ v.segments[t].delay \in {w.segments[t].delay, x.delay}
                                   /\ v.segments[t] \in Segment
  BY <1>1 DEF WorldOK, SamePlace
<1>3. \A t \in DOMAIN v.segments :
        ValidEndpoints(v, v.segments[t].a, v.segments[t].b, v.segments[t].delay)
  BY <1>1, <1>2 DEF WorldOK, ValidEndpoints, HasEndpoint, HasNode
<1>4. WorldOK(v)
  BY <1>1, <1>2, <1>3 DEF WorldOK
<1>5. PlugsAgree(v)
  BY <1>1, <1>2 DEF PlugsAgree, Ends
<1>. QED
  BY <1>4, <1>5 DEF v

(* Both edits of parameters are of that form.                              *)
LEMMA ParametersSet ==
  ASSUME NEW s \in DOMAIN world.segments, WorldOK(world),
         \/ \E d \in Delays : SetSegmentDelay(s, d)
         \/ \E r \in Rates : SetSegmentRate(s, r)
  PROVE  /\ phase = "running" /\ phase' = phase /\ ids' = ids
         /\ \E x \in Segment : /\ SamePlace(x, world.segments[s]) /\ x.delay # 0
                               /\ world' = WithParameters(world, s, x)
<1>1. /\ IsWorld(world) /\ world.segments[s] \in Segment
      /\ world.segments[s].delay # 0
  BY DEF WorldOK, IsWorld, ValidEndpoints
<1>2. ASSUME NEW d \in Delays, SetSegmentDelay(s, d)
      PROVE  \E x \in Segment : /\ SamePlace(x, world.segments[s]) /\ x.delay # 0
                               /\ world' = WithParameters(world, s, x)
  <2> DEFINE x == [world.segments[s] EXCEPT !.delay = d]
  <2>1. x \in Segment /\ SamePlace(x, world.segments[s]) /\ x.delay = d
    BY <1>1, TopologyAssumption DEF Segment, SamePlace
  <2>2. world' = WithParameters(world, s, x) /\ d # 0
    BY <1>1, <1>2 DEF SetSegmentDelay, WithParameters, IsWorld
  <2>. QED
    BY <2>1, <2>2
<1>3. ASSUME NEW r \in Rates, SetSegmentRate(s, r)
      PROVE  \E x \in Segment : /\ SamePlace(x, world.segments[s]) /\ x.delay # 0
                               /\ world' = WithParameters(world, s, x)
  <2> DEFINE x == [world.segments[s] EXCEPT !.rate = r]
  <2>1. x \in Segment /\ SamePlace(x, world.segments[s]) /\ x.delay # 0
    BY <1>1, TopologyAssumption DEF Segment, SamePlace
  <2>2. world' = WithParameters(world, s, x)
    BY <1>1, <1>3 DEF SetSegmentRate, WithParameters, IsWorld
  <2>. QED
    BY <2>1, <2>2
<1>. QED
  BY <1>2, <1>3 DEF SetSegmentDelay, SetSegmentRate

---------------------------------------------------------------------------
(* The invariant.                                                          *)

TopologyInv == TypeOK /\ PortsAndCablesAgree

LEMMA InitTopology == Init => TopologyInv
BY DEF Init, TopologyInv, TypeOK, PortsAndCablesAgree, WorldOK, EmptyMap

LEMMA CablesTyped ==
  ASSUME NEW c \in Cables, NEW d \in Delays, NEW r \in Rates
  PROVE  c[1] \in Endpoint /\ c[2] \in Endpoint /\ d \in Nat /\ r \in BitRate
BY TopologyAssumption

LEMMA NextTopology == TopologyInv /\ [Next]_vars => TopologyInv'
<1>. SUFFICES ASSUME TopologyInv, [Next]_vars
              PROVE  phase' \in {"building", "running"} /\ WorldOK(world')
                     /\ (phase' = "running" => PlugsAgree(world'))
  BY DEF TopologyInv, TypeOK, PortsAndCablesAgree, PlugsAgree, Ends, WorldOK, ValidEndpoints,
         HasEndpoint, HasNode
<1>0. /\ phase \in {"building", "running"} /\ WorldOK(world)
      /\ phase = "running" => PlugsAgree(world)
  BY DEF TopologyInv, TypeOK, PortsAndCablesAgree
<1>1. ASSUME NEW m \in Models, BuildNode(m) \/ AddNode(m) PROVE phase' = phase /\ world' = WithNode(world, m)
  BY <1>1 DEF BuildNode, AddNode
<1>2. CASE \E m \in Models : BuildNode(m) \/ AddNode(m)
  BY <1>0, <1>1, <1>2, WithNodeKeeps
<1>3. ASSUME NEW c \in Cables, NEW d \in Delays, NEW r \in Rates, NEW kind \in {"Hd", "Fd"},
             BuildSegment(kind, c[1], c[2], d, r)
      PROVE  WorldOK(world') /\ phase' = "building"
  BY <1>0, <1>3, CablesTyped, WithSegmentKeeps DEF BuildSegment
<1>4. ASSUME NEW c \in Cables, NEW d \in Delays, NEW r \in Rates,
             AddHdSegment(c[1], c[2], d, r) \/ AddFdSegment(c[1], c[2], d, r)
      PROVE  WorldOK(world') /\ PlugsAgree(world') /\ phase' = "running"
  <2>1. PICK kind \in {"Hd", "Fd"} :
          /\ world' = WithCable(world, kind, c[1], c[2], d, r)
          /\ phase = "running" /\ phase' = "running"
          /\ ValidEndpoints(world, c[1], c[2], d) /\ PortsFree(c[1], c[2])
    BY <1>4 DEF AddHdSegment, AddFdSegment
  <2>. QED
    BY <1>0, <2>1, CablesTyped, WithCableKeeps DEF PortsFree
<1>5. CASE Build
  BY <1>0, <1>5, AllPluggedKeeps DEF Build, BuildAccepts
<1>6. ASSUME NEW s, RemoveSegment(s) PROVE WorldOK(world') /\ PlugsAgree(world') /\ phase' = "running"
  BY <1>0, <1>6, WithoutSegmentsKeeps DEF RemoveSegment
<1>7. ASSUME NEW s \in DOMAIN world.segments,
             \/ \E d \in Delays : SetSegmentDelay(s, d)
             \/ \E r \in Rates : SetSegmentRate(s, r)
      PROVE  WorldOK(world') /\ PlugsAgree(world') /\ phase' = "running"
  BY <1>0, <1>7, ParametersSet, WithParametersKeeps
<1>8. ASSUME NEW n, RemoveNode(n) PROVE WorldOK(world') /\ PlugsAgree(world') /\ phase' = "running"
  BY <1>0, <1>8, WithoutNodeKeeps DEF RemoveNode
<1>9. CASE UNCHANGED vars
  BY <1>0, <1>9 DEF vars
<1>. QED
  BY <1>2, <1>3, <1>4, <1>5, <1>6, <1>7, <1>8, <1>9 DEF Next, DisconnectPort

LEMMA TopologyInvariant == Spec => []TopologyInv
<1>1. Init => TopologyInv
  BY InitTopology
<1>2. TopologyInv /\ [Next]_vars => TopologyInv'
  BY NextTopology
<1>. QED
  BY <1>1, <1>2, PTL DEF Spec

(* Nodes and segments are numbered below the slot counts and every segment *)
(* joins two existing ports of live nodes, after any builds and edits.      *)
THEOREM TypeCorrect == Spec => []TypeOK
<1>1. TopologyInv => TypeOK
  BY DEF TopologyInv
<1>. QED
  BY <1>1, TopologyInvariant, PTL

(* The port slots and the endpoints of the segments never disagree in the   *)
(* engine's world, after any edits (set_port_slot, remove_segment).         *)
THEOREM PortsAlwaysAgree == Spec => []PortsAndCablesAgree
<1>1. TopologyInv => PortsAndCablesAgree
  BY DEF TopologyInv
<1>. QED
  BY <1>1, TopologyInvariant, PTL

---------------------------------------------------------------------------
(* Ranks in finite sets.                                                   *)

LEMMA RankInRange ==
  ASSUME NEW S, IsFiniteSet(S), NEW T \in SUBSET S, NEW x \in S, x \notin T
  PROVE  Cardinality(T) \in 0 .. (Cardinality(S) - 1)
<1>1. Cardinality(T) <= Cardinality(S) /\ Cardinality(T) # Cardinality(S) /\ IsFiniteSet(T)
  BY FS_Subset
<1>2. Cardinality(S) \in Nat /\ Cardinality(T) \in Nat
  BY <1>1, FS_CardinalityType
<1>. QED
  BY <1>1, <1>2

LEMMA RankOfNumber ==
  ASSUME NEW S \in SUBSET Nat, IsFiniteSet(S)
  PROVE  /\ \A x \in S : Rank(S, x) \in 0 .. (Cardinality(S) - 1)
         /\ \A x, y \in S : x < y => Rank(S, x) < Rank(S, y)
<1> DEFINE below(x) == {m \in S : m < x}
<1>1. ASSUME NEW x \in S PROVE below(x) \in SUBSET S /\ x \notin below(x)
  OBVIOUS
<1>2. ASSUME NEW x \in S PROVE Rank(S, x) \in 0 .. (Cardinality(S) - 1)
  BY <1>1, RankInRange DEF Rank
<1>3. ASSUME NEW x \in S, NEW y \in S, x < y PROVE Rank(S, x) < Rank(S, y)
  <2>1. below(x) \in SUBSET below(y) /\ x \in below(y) /\ x \notin below(x)
    <3>1. x \in Nat /\ y \in Nat
      OBVIOUS
    <3>2. below(x) \in SUBSET below(y)
      <4>1. \A n \in S : n < x => n < y
        BY <1>3, <3>1
      <4>. QED
        BY <4>1
    <3>3. x \in below(y)
      BY <1>3
    <3>. QED
      BY <1>1, <3>2, <3>3
  <2>2. IsFiniteSet(below(y))
    BY FS_Subset
  <2>3. Cardinality(below(x)) \in 0 .. (Cardinality(below(y)) - 1)
    BY <2>1, <2>2, RankInRange
  <2>4. Cardinality(below(y)) \in Nat
    BY <2>2, FS_CardinalityType
  <2>. QED
    BY <2>3, <2>4 DEF Rank
<1>. QED
  BY <1>2, <1>3

PortRank(S, e) == Cardinality({d \in S : PortOrder(d, e)})

LEMMA RankOfPort ==
  ASSUME NEW S \in SUBSET Endpoint, IsFiniteSet(S)
  PROVE  /\ \A e \in S : PortRank(S, e) \in 0 .. (Cardinality(S) - 1)
         /\ \A d, e \in S : d # e => PortRank(S, d) # PortRank(S, e)
<1> DEFINE below(e) == {d \in S : PortOrder(d, e)}
<1>1. ASSUME NEW e \in S PROVE below(e) \in SUBSET S /\ e \notin below(e)
  BY DEF PortOrder, Endpoint
<1>2. ASSUME NEW e \in S PROVE PortRank(S, e) \in 0 .. (Cardinality(S) - 1)
  BY <1>1, RankInRange DEF PortRank
<1>3. ASSUME NEW d \in S, NEW e \in S, PortOrder(d, e) PROVE PortRank(S, d) < PortRank(S, e)
  <2>1. \A c \in S : PortOrder(c, d) => PortOrder(c, e)
    BY <1>3 DEF PortOrder, Endpoint
  <2>2. below(d) \in SUBSET below(e) /\ d \in below(e) /\ d \notin below(d)
    BY <1>1, <1>3, <2>1
  <2>3. IsFiniteSet(below(e))
    BY FS_Subset
  <2>4. Cardinality(below(d)) \in 0 .. (Cardinality(below(e)) - 1)
    BY <2>2, <2>3, RankInRange
  <2>5. Cardinality(below(e)) \in Nat
    BY <2>3, FS_CardinalityType
  <2>. QED
    BY <2>4, <2>5 DEF PortRank
<1>4. ASSUME NEW d \in S, NEW e \in S, d # e PROVE PortOrder(d, e) \/ PortOrder(e, d)
  <2>1. d.node # e.node \/ d.port # e.port
    BY <1>4 DEF Endpoint
  <2>. QED
    BY <2>1 DEF PortOrder, Endpoint
<1>5. ASSUME NEW d \in S, NEW e \in S, d # e PROVE PortRank(S, d) # PortRank(S, e)
  <2>1. PortRank(S, d) \in Int /\ PortRank(S, e) \in Int
    BY <1>2
  <2>2. PortRank(S, d) < PortRank(S, e) \/ PortRank(S, e) < PortRank(S, d)
    BY <1>3, <1>4, <1>5
  <2>. QED
    BY <2>1, <2>2
<1>. QED
  BY <1>2, <1>5

---------------------------------------------------------------------------
(* The ports of the relays.                                                *)

LEMMA PortsOfNode ==
  ASSUME NEW n \in Nat, NEW k \in Nat
  PROVE  LET P == [node : {n}, port : 0 .. (k - 1)]
         IN P \subseteq Endpoint /\ IsFiniteSet(P) /\ Cardinality(P) = k
<1> DEFINE P == [node : {n}, port : 0 .. (k - 1)]
           f == [p \in 0 .. (k - 1) |-> [node |-> n, port |-> p]]
<1>1. f \in Bijection(0 .. (k - 1), P)
  BY DEF Bijection, Injection, Surjection, IsInjective
<1>2. IsFiniteSet(0 .. (k - 1)) /\ Cardinality(0 .. (k - 1)) = k
  BY FS_Interval
<1>3. ExistsBijection(0 .. (k - 1), P)
  BY <1>1 DEF ExistsBijection
<1>4. P \subseteq Endpoint
  BY DEF Endpoint
<1>. QED
  BY <1>2, <1>3, <1>4, FS_Bijection

LEMMA RelayPortsFinite ==
  ASSUME NEW w, WorldOK(w)
  PROVE  RelayPorts(w) \subseteq Endpoint /\ IsFiniteSet(RelayPorts(w))
<1> DEFINE relays == {n \in DOMAIN w.nodes : IsRelay(w, n)}
           all == {PortsOf(w, n) : n \in relays}
           f == [n \in relays |-> PortsOf(w, n)]
<1>1. relays \subseteq 0 .. (w.nodeSlots - 1) /\ IsFiniteSet(0 .. (w.nodeSlots - 1))
  BY FS_Interval DEF WorldOK
<1>2. IsFiniteSet(relays)
  BY <1>1, FS_Subset
<1>3. \A n \in relays : PortsOf(w, n) \subseteq Endpoint /\ IsFiniteSet(PortsOf(w, n))
  <2> SUFFICES ASSUME NEW n \in relays
               PROVE PortsOf(w, n) \subseteq Endpoint /\ IsFiniteSet(PortsOf(w, n))
    OBVIOUS
  <2>1. n \in Nat /\ w.nodes[n].portCount \in Nat
    BY TopologyAssumption DEF WorldOK
  <2>. QED
    BY <2>1, PortsOfNode DEF PortsOf
<1>4. IsFiniteSet(all)
  <2>1. f \in Surjection(relays, all)
    BY DEF Surjection
  <2>. QED
    BY <1>2, <2>1, FS_Surjection
<1>5. IsFiniteSet(UNION all)
  BY <1>3, <1>4, FS_UNION
<1>. QED
  BY <1>3, <1>5 DEF RelayPorts

LEMMA FdSegmentsFinite ==
  ASSUME NEW w, WorldOK(w)
  PROVE  FdSegments(w) \in SUBSET Nat /\ IsFiniteSet(FdSegments(w))
<1>1. w.segmentSlots - 1 \in Int /\ FdSegments(w) \subseteq 0 .. (w.segmentSlots - 1)
  BY DEF WorldOK, FdSegments
<1>2. IsFiniteSet(0 .. (w.segmentSlots - 1))
  BY <1>1, FS_Interval
<1>. QED
  BY <1>1, <1>2, FS_Subset

---------------------------------------------------------------------------
(* The numbers of the serializers.                                         *)

(* Full-duplex directions have the numbers up to 2 * their count, relay     *)
(* ports different ones from there up to the first free number.            *)
SerializersOK(w, i) ==
  /\ i.fd = FdSerializers(w)
  /\ DOMAIN i.egress = RelayPorts(w)
  /\ \A e \in RelayPorts(w) :
       i.egress[e] \in (2 * Cardinality(FdSegments(w))) .. (FirstFreeSerializer(i) - 1)
  /\ \A d, e \in RelayPorts(w) : d # e => i.egress[d] # i.egress[e]

LEMMA FreshNumbers ==
  ASSUME NEW w, WorldOK(w)
  PROVE  SerializersOK(w, ResourceIds(w))
<1> DEFINE i == ResourceIds(w)
           R == RelayPorts(w)
           F == FdSegments(w)
<1>1. /\ i.fd = FdSerializers(w) /\ DOMAIN i.egress = R /\ DOMAIN i.fd = F
      /\ \A e \in R : i.egress[e] = 2 * Cardinality(F) + PortRank(R, e)
  BY DEF ResourceIds, FdSerializers, EgressSerializers, PortRank
<1>2. /\ \A e \in R : PortRank(R, e) \in 0 .. (Cardinality(R) - 1)
      /\ \A d, e \in R : d # e => PortRank(R, d) # PortRank(R, e)
  BY RelayPortsFinite, RankOfPort
<1>3. Cardinality(F) \in Nat /\ Cardinality(R) \in Nat
  BY RelayPortsFinite, FdSegmentsFinite, FS_CardinalityType
<1>4. FirstFreeSerializer(i) = Cardinality(R) + 2 * Cardinality(F)
  BY <1>1 DEF FirstFreeSerializer
<1> HIDE DEF i, R, F
<1>5. \A e \in R : i.egress[e] \in (2 * Cardinality(F)) .. (FirstFreeSerializer(i) - 1)
  BY <1>1, <1>2, <1>3, <1>4
<1>6. \A d, e \in R : d # e => i.egress[d] # i.egress[e]
  BY <1>1, <1>2, <1>3
<1>. QED
  BY <1>1, <1>5, <1>6 DEF SerializersOK, i, R, F

LEMMA NumbersOfNode ==
  ASSUME NEW w, WorldOK(w), NEW m \in Models, NEW i, SerializersOK(w, i), NEW j,
         j.fd = i.fd,
         j.egress = IF m.kind \in {"Bridge", "Switch"}
                    THEN With(i.egress, [e \in NewPorts(w, m) |-> FirstFreeSerializer(i) + e.port])
                    ELSE i.egress
  PROVE  SerializersOK(WithNode(w, m), j)
<1> DEFINE v == WithNode(w, m)
           New == NewPorts(w, m)
           c == Cardinality(FdSegments(w))
           free == FirstFreeSerializer(i)
<1>1. /\ v.segments = w.segments
      /\ DOMAIN v.nodes = DOMAIN w.nodes \cup {w.nodeSlots}
      /\ v.nodes[w.nodeSlots] = m
      /\ \A n \in DOMAIN w.nodes : v.nodes[n] = w.nodes[n] /\ n \in Nat /\ n # w.nodeSlots
  <2>1. GrownByNode(v, w) /\ v.nodes[w.nodeSlots] = m
    BY NodeAdded
  <2>2. \A n \in DOMAIN w.nodes : n \in Nat
    BY DEF WorldOK
  <2>. QED
    BY <2>1, <2>2 DEF GrownByNode
<1> HIDE DEF v
<1>2. FdSegments(v) = FdSegments(w) /\ FdSerializers(v) = FdSerializers(w)
  BY <1>1 DEF FdSegments, FdSerializers
<1>3. \A n \in DOMAIN w.nodes : /\ IsRelay(v, n) <=> IsRelay(w, n)
                                /\ PortsOf(v, n) = PortsOf(w, n)
  BY <1>1 DEF IsRelay, HasNode, PortsOf
<1>4. m.portCount \in Nat /\ w.nodeSlots \in Nat
  BY TopologyAssumption DEF WorldOK
<1>5. c \in Nat /\ Cardinality(RelayPorts(w)) \in Nat /\ free = Cardinality(RelayPorts(w)) + 2 * c
  <2>1. DOMAIN i.fd = FdSegments(w) /\ DOMAIN i.egress = RelayPorts(w)
    BY DEF SerializersOK, FdSerializers
  <2>. QED
    BY <2>1, RelayPortsFinite, FdSegmentsFinite, FS_CardinalityType DEF FirstFreeSerializer
<1>6. CASE m.kind \notin {"Bridge", "Switch"}
  <2>1. ~IsRelay(v, w.nodeSlots)
    BY <1>1, <1>6 DEF IsRelay
  <2>2. RelayPorts(v) = RelayPorts(w)
    BY <1>1, <1>3, <2>1 DEF RelayPorts
  <2>3. j.egress = i.egress /\ FirstFreeSerializer(j) = FirstFreeSerializer(i)
    BY <1>6 DEF FirstFreeSerializer
  <2>. QED
    BY <1>2, <2>2, <2>3 DEF SerializersOK, v
<1>7. CASE m.kind \in {"Bridge", "Switch"}
  <2>1. IsRelay(v, w.nodeSlots) /\ PortsOf(v, w.nodeSlots) = New
    BY <1>1, <1>7 DEF IsRelay, HasNode, PortsOf, NewPorts
  <2>2. RelayPorts(v) = RelayPorts(w) \cup New
    BY <1>1, <1>3, <2>1 DEF RelayPorts
  <2>3. RelayPorts(w) \cap New = {}
    BY <1>1 DEF RelayPorts, PortsOf, NewPorts
  <2>4. IsFiniteSet(New) /\ Cardinality(New) = m.portCount
    BY <1>4, PortsOfNode DEF NewPorts
  <2>5. Cardinality(RelayPorts(v)) = Cardinality(RelayPorts(w)) + m.portCount
    <3>1. Cardinality(RelayPorts(v)) = Cardinality(RelayPorts(w)) + Cardinality(New)
                                       - Cardinality(RelayPorts(w) \cap New)
      BY <2>2, <2>4, RelayPortsFinite, FS_Union
    <3>2. Cardinality(RelayPorts(w) \cap New) = 0
      BY <2>3, FS_EmptySet
    <3>. QED
      BY <1>4, <1>5, <2>4, <3>1, <3>2
  <2>6. /\ DOMAIN i.egress = RelayPorts(w) /\ DOMAIN j.fd = FdSegments(w)
        /\ \A e \in RelayPorts(w) : i.egress[e] \in (2 * c) .. (free - 1)
        /\ \A d, e \in RelayPorts(w) : d # e => i.egress[d] # i.egress[e]
    BY DEF SerializersOK, FdSerializers
  <2>7. /\ DOMAIN j.egress = RelayPorts(v)
        /\ \A e \in RelayPorts(w) : j.egress[e] = i.egress[e]
        /\ \A e \in New : j.egress[e] = free + e.port
    <3> HIDE DEF New, free
    <3>1. j.egress = With(i.egress, [e \in New |-> free + e.port])
      BY <1>7 DEF New, free
    <3>. QED
      BY <2>2, <2>3, <2>6, <3>1 DEF With
  <2>8. FirstFreeSerializer(j) = free + m.portCount
    <3>1. FirstFreeSerializer(j) = Cardinality(RelayPorts(v)) + 2 * c
      BY <2>6, <2>7 DEF FirstFreeSerializer
    <3>. QED
      BY <1>4, <1>5, <2>5, <3>1
  <2>9. \A e \in New : e.port \in 0 .. (m.portCount - 1)
    BY DEF NewPorts
  <2>11. \A d, e \in New : d # e => d.port # e.port
    BY DEF NewPorts
  <2> HIDE DEF free, c, New
  <2>10. \A e \in RelayPorts(v) : j.egress[e] \in (2 * c) .. (free + m.portCount - 1)
    BY <1>4, <1>5, <2>2, <2>6, <2>7, <2>9
  <2>12. \A d, e \in RelayPorts(v) : d # e => j.egress[d] # j.egress[e]
    <3>1. \A e \in RelayPorts(w) : j.egress[e] \in Int /\ j.egress[e] < free
      BY <1>4, <1>5, <2>6, <2>7
    <3>2. \A e \in New : j.egress[e] \in Int /\ j.egress[e] >= free
      BY <1>4, <1>5, <2>7, <2>9
    <3>3. \A d, e \in New : d # e => j.egress[d] # j.egress[e]
      BY <1>4, <1>5, <2>7, <2>9, <2>11
    <3>4. \A d, e \in RelayPorts(w) : d # e => j.egress[d] # j.egress[e]
      BY <2>6, <2>7
    <3>5. free \in Int
      BY <1>5
    <3>6. \A d \in RelayPorts(w), e \in New : j.egress[d] # j.egress[e]
      BY <3>1, <3>2, <3>5
    <3>. QED
      BY <2>2, <3>3, <3>4, <3>6
  <2>13. j.fd = FdSerializers(v)
    BY <1>2 DEF SerializersOK
  <2>14. c = Cardinality(FdSegments(v))
    BY <1>2 DEF c
  <2>15. SerializersOK(v, j)
    <3>0. free \in Nat /\ c \in Nat
      BY <1>5
    <3>1. \A e \in RelayPorts(v) :
            j.egress[e] \in (2 * Cardinality(FdSegments(v))) .. (FirstFreeSerializer(j) - 1)
      BY <1>4, <1>5, <2>8, <2>10, <2>14, <3>0
    <3>. QED
      BY <2>7, <2>12, <2>13, <3>1 DEF SerializersOK
  <2>. QED
    BY <2>15 DEF v
<1>. QED
  BY <1>6, <1>7

LEMMA NumbersAreUnique ==
  ASSUME NEW w, WorldOK(w), NEW i, SerializersOK(w, i)
  PROVE  NumbersDiffer(i)
<1> DEFINE F == FdSegments(w)
           number(p) == i.fd[p[1]][p[2]]
<1>1. Cardinality(F) \in Nat
  BY FdSegmentsFinite, FS_CardinalityType
<1>2. /\ F \in SUBSET Nat
      /\ \A x \in F : Rank(F, x) \in 0 .. (Cardinality(F) - 1)
      /\ \A x, y \in F : x < y => Rank(F, x) < Rank(F, y)
  BY FdSegmentsFinite, RankOfNumber
<1>3. FdEntry(i) = F \X {1, 2}
  BY DEF FdEntry, SerializersOK, FdSerializers
<1>4. ASSUME NEW x \in F PROVE i.fd[x][1] = 2 * Rank(F, x) /\ i.fd[x][2] = 2 * Rank(F, x) + 1
  BY DEF SerializersOK, FdSerializers
<1> HIDE DEF F
<1>5. ASSUME NEW x \in F, NEW y \in F, x # y PROVE Rank(F, x) # Rank(F, y)
  <2>1. x < y \/ y < x
    BY <1>2, <1>5
  <2>. QED
    BY <1>1, <1>2, <2>1
<1>6. ASSUME NEW p \in F \X {1, 2}, NEW q \in F \X {1, 2}, p # q PROVE number(p) # number(q)
  <2>1. Rank(F, p[1]) \in Nat /\ Rank(F, q[1]) \in Nat
    <3>1. \A x \in F : Rank(F, x) \in Nat
      BY <1>1, <1>2
    <3>. QED
      BY <3>1
  <2>2. p[1] # q[1] \/ p[2] # q[2]
    BY <1>6
  <2>3. number(p) \in {2 * Rank(F, p[1]), 2 * Rank(F, p[1]) + 1}
    BY <1>4
  <2>4. number(q) \in {2 * Rank(F, q[1]), 2 * Rank(F, q[1]) + 1}
    BY <1>4
  <2>5. CASE p[1] # q[1]
    <3>1. Rank(F, p[1]) # Rank(F, q[1])
      BY <1>5, <2>5
    <3>. QED
      BY <2>1, <2>3, <2>4, <3>1
  <2>6. CASE p[1] = q[1] /\ p[2] # q[2]
    <3>1. (p[2] = 1 /\ q[2] = 2) \/ (p[2] = 2 /\ q[2] = 1)
      <4>1. p[2] \in {1, 2} /\ q[2] \in {1, 2}
        OBVIOUS
      <4>. QED
        BY <2>6, <4>1
    <3>. QED
      BY <1>4, <2>1, <2>6, <3>1
  <2>. QED
    BY <2>2, <2>5, <2>6
<1>7. ASSUME NEW p \in F \X {1, 2}, NEW e \in RelayPorts(w) PROVE number(p) # i.egress[e]
  <2>1. Rank(F, p[1]) \in 0 .. (Cardinality(F) - 1)
    BY <1>2
  <2>2. number(p) \in {2 * Rank(F, p[1]), 2 * Rank(F, p[1]) + 1}
    BY <1>4
  <2>3. i.egress[e] \in Int /\ i.egress[e] >= 2 * Cardinality(F)
    <3>1. i.egress[e] \in (2 * Cardinality(F)) .. (FirstFreeSerializer(i) - 1)
      BY DEF SerializersOK, F
    <3>2. 2 * Cardinality(F) \in Int
      BY <1>1
    <3>. QED
      BY <3>1, <3>2
  <2>. QED
    BY <1>1, <2>1, <2>2, <2>3
<1>. QED
  BY <1>3, <1>6, <1>7 DEF NumbersDiffer, SerializersOK

(* In the builder no number has been handed out yet.                       *)
NumbersInv ==
  /\ ids = [collision |-> ids.collision, fd |-> ids.fd, egress |-> ids.egress]
  /\ phase = "building" => DOMAIN ids.fd = {} /\ DOMAIN ids.egress = {}
  /\ phase = "running" => SerializersOK(world, ids)

LEMMA NextNumbers == TopologyInv /\ TopologyInv' /\ NumbersInv /\ [Next]_vars => NumbersInv'
<1> SUFFICES ASSUME TopologyInv, TopologyInv', NumbersInv, [Next]_vars PROVE NumbersInv'
  OBVIOUS
<1> DEFINE whole(i) == i = [collision |-> i.collision, fd |-> i.fd, egress |-> i.egress]
<1>1. WorldOK(world) /\ WorldOK(world') /\ phase \in {"building", "running"}
  BY DEF TopologyInv, TypeOK, WorldOK, ValidEndpoints, HasEndpoint, HasNode
<1>2. ASSUME phase' = "running", ids' = ResourceIds(world') PROVE NumbersInv'
  <2>1. SerializersOK(world', ids')
    BY <1>1, <1>2, FreshNumbers
  <2>2. whole(ids')
    BY <1>2 DEF ResourceIds
  <2>. QED
    BY <1>2, <2>1, <2>2 DEF NumbersInv
<1>3. ASSUME NEW m \in Models, BuildNode(m) PROVE NumbersInv'
  BY <1>3 DEF BuildNode, NumbersInv
<1>4. ASSUME NEW m \in Models, AddNode(m) PROVE NumbersInv'
  <2> DEFINE more == With(ids.egress, [e \in NewPorts(world, m) |->
                                         FirstFreeSerializer(ids) + e.port])
  <2>1. /\ ids'.fd = ids.fd
        /\ ids'.egress = IF m.kind \in {"Bridge", "Switch"} THEN more ELSE ids.egress
        /\ whole(ids')
    <3>1. ids' = IF m.kind \in {"Bridge", "Switch"} THEN [ids EXCEPT !.egress = more] ELSE ids
      BY <1>4 DEF AddNode
    <3>2. whole(ids)
      BY DEF NumbersInv
    <3>. HIDE DEF more
    <3>. QED
      BY <3>1, <3>2
  <2>2. SerializersOK(world, ids) /\ phase' = "running" /\ world' = WithNode(world, m)
    BY <1>4 DEF AddNode, NumbersInv
  <2>3. SerializersOK(world', ids')
    BY <1>1, <2>1, <2>2, NumbersOfNode
  <2>. QED
    BY <2>1, <2>2, <2>3 DEF NumbersInv
<1>5. ASSUME NEW kind, NEW a, NEW b, NEW d, NEW r, BuildSegment(kind, a, b, d, r)
      PROVE  NumbersInv'
  BY <1>5 DEF BuildSegment, NumbersInv
<1>6. ASSUME NEW a, NEW b, NEW d, NEW r, AddHdSegment(a, b, d, r) \/ AddFdSegment(a, b, d, r)
      PROVE  NumbersInv'
  BY <1>2, <1>6 DEF AddHdSegment, AddFdSegment, Recomputed
<1>7. CASE Build
  BY <1>2, <1>7 DEF Build, Recomputed
<1>8. ASSUME NEW s, RemoveSegment(s) PROVE NumbersInv'
  BY <1>2, <1>8 DEF RemoveSegment, Recomputed
<1>9. ASSUME NEW s \in DOMAIN world.segments,
             \/ \E d \in Delays : SetSegmentDelay(s, d)
             \/ \E r \in Rates : SetSegmentRate(s, r)
      PROVE  NumbersInv'
  <2>0. PICK x \in Segment : /\ SamePlace(x, world.segments[s])
                             /\ world' = WithParameters(world, s, x)
    BY <1>1, <1>9, ParametersSet
  <2>1. /\ world'.nodes = world.nodes
        /\ DOMAIN world'.segments = DOMAIN world.segments
        /\ \A t \in DOMAIN world.segments : world'.segments[t].kind = world.segments[t].kind
    BY <1>1, <2>0 DEF WorldOK, WithParameters, SamePlace
  <2>2. FdSegments(world') = FdSegments(world)
    BY <2>1 DEF FdSegments
  <2>3. RelayPorts(world') = RelayPorts(world) /\ FdSerializers(world') = FdSerializers(world)
    BY <2>1, <2>2 DEF RelayPorts, PortsOf, IsRelay, HasNode, FdSerializers
  <2>4. phase = "running" /\ phase' = phase /\ ids' = ids
    BY <1>1, <1>9, ParametersSet
  <2>. QED
    BY <2>2, <2>3, <2>4 DEF NumbersInv, SerializersOK
<1>10. ASSUME NEW n, RemoveNode(n) PROVE NumbersInv'
  BY <1>2, <1>10 DEF RemoveNode, Recomputed
<1>11. CASE UNCHANGED vars
  BY <1>11 DEF vars, NumbersInv
<1>. QED
  BY <1>3, <1>4, <1>5, <1>6, <1>7, <1>8, <1>9, <1>10, <1>11 DEF Next, DisconnectPort

(* No two directions of full-duplex segments and ports of relays have one   *)
(* serializer number, whatever is added, removed and renumbered             *)
(* (reassign_resource_maps, push_bridge, push_switch).                      *)
THEOREM SerializersAlwaysUnique == Spec => []SerializersUnique
<1>1. Init => NumbersInv
  BY DEF Init, NumbersInv, EmptyMap
<1>2. TopologyInv /\ TopologyInv' /\ NumbersInv /\ [Next]_vars => NumbersInv'
  BY NextNumbers
<1>3. TopologyInv /\ NumbersInv => SerializersUnique
  <2> SUFFICES ASSUME TopologyInv, NumbersInv PROVE NumbersDiffer(ids)
    BY DEF SerializersUnique
  <2>1. CASE phase = "building"
    BY <2>1 DEF NumbersInv, NumbersDiffer, FdEntry
  <2>2. CASE phase = "running"
    BY <2>2, NumbersAreUnique DEF NumbersInv, TopologyInv, TypeOK
  <2>. QED
    BY <2>1, <2>2 DEF TopologyInv, TypeOK
<1>. QED
  BY <1>1, <1>2, <1>3, TopologyInvariant, PTL DEF Spec
---------------------------------------------------------------------------
(* The full-duplex attachments.                                            *)

LEMMA LeastOfNumbers ==
  ASSUME NEW S \in SUBSET Nat, S # {}
  PROVE  Min(S) \in S
<1> DEFINE Less == OpToRel(<, Nat)
<1>1. IsWellFoundedOn(Less, Nat)
  BY NatLessThanWellFounded
<1>2. \A m, n \in Nat : m < n => <<m, n>> \in Less
  BY DEF OpToRel
<1> HIDE DEF Less
<1>3. PICK n \in S : \A m \in S : <<m, n>> \notin Less
  BY <1>1, WFMin
<1>4. ASSUME NEW m \in S PROVE n <= m
  <2>1. m \in Nat /\ n \in Nat /\ ~(m < n)
    BY <1>2, <1>3
  <2>. QED
    BY <2>1
<1>. QED
  BY <1>4 DEF Min

FdSegmentsOf(w, n) == {s \in FdSegments(w) : \E e \in Ends(w, s) : e.node = n}

LEMMA FarFromIsFarEnd ==
  ASSUME NEW w, WorldOK(w), NEW s \in DOMAIN w.segments, NEW e \in Ends(w, s)
  PROVE  FarFrom(w, s, e.node) = FarEnd(w, s, e)
<1>1. w.segments[s].a.node # w.segments[s].b.node
  BY DEF WorldOK, ValidEndpoints
<1>. QED
  BY <1>1 DEF FarFrom, FarEnd, Ends

OfLiveCable(w, n, x) ==
  \E s \in FdSegments(w) : \E e \in Ends(w, s) :
    e.node = n /\ x = [node |-> FarEnd(w, s, e).node, port |-> FarEnd(w, s, e).port,
                      delay |-> w.segments[s].delay, rate |-> w.segments[s].rate]

LEMMA AttachmentsOfWorld ==
  ASSUME NEW w, WorldOK(w), NEW fd, fd = FdAttachments(w)
  PROVE  /\ DOMAIN fd = {n \in DOMAIN w.nodes : FdSegmentsOf(w, n) # {}}
         /\ \A n \in DOMAIN fd : OfLiveCable(w, n, fd[n])
<1> DEFINE first(n) == Min(FdSegmentsOf(w, n))
           far(n) == FarFrom(w, first(n), n)
<1>1. /\ DOMAIN fd = {n \in DOMAIN w.nodes : FdSegmentsOf(w, n) # {}}
      /\ \A n \in DOMAIN fd : fd[n] = [node |-> far(n).node, port |-> far(n).port,
                                       delay |-> w.segments[first(n)].delay,
                                       rate |-> w.segments[first(n)].rate]
  BY DEF FdAttachments, FdSegmentsOf
<1>2. ASSUME NEW n \in DOMAIN fd
      PROVE  first(n) \in FdSegments(w) /\ \E e \in Ends(w, first(n)) : e.node = n
  <2>1. FdSegmentsOf(w, n) # {} /\ FdSegmentsOf(w, n) \in SUBSET Nat
    BY <1>1, FdSegmentsFinite DEF FdSegmentsOf
  <2>2. first(n) \in FdSegmentsOf(w, n)
    BY <2>1, LeastOfNumbers
  <2>. QED
    BY <2>2 DEF FdSegmentsOf
<1>3. ASSUME NEW n \in DOMAIN fd PROVE OfLiveCable(w, n, fd[n])
  <2>1. PICK e \in Ends(w, first(n)) : e.node = n
    BY <1>2
  <2>2. first(n) \in FdSegments(w) /\ first(n) \in DOMAIN w.segments
    BY <1>2 DEF FdSegments
  <2>3. far(n) = FarEnd(w, first(n), e)
    BY <2>1, <2>2, FarFromIsFarEnd
  <2>4. fd[n] = [node |-> FarEnd(w, first(n), e).node, port |-> FarEnd(w, first(n), e).port,
                 delay |-> w.segments[first(n)].delay, rate |-> w.segments[first(n)].rate]
    BY <1>1, <2>3
  <2> HIDE DEF first
  <2>. QED
    BY <2>1, <2>2, <2>4 DEF OfLiveCable
<1>. QED
  BY <1>1, <1>3

(* The map is that of the world of this moment; a new node, for which it is *)
(* not computed again, has no cable yet.                                    *)
AttachmentsInv == phase = "running" => reach.fd = FdAttachments(world)

LEMMA NodeWithoutCable ==
  ASSUME NEW w, WorldOK(w), NEW m \in Models
  PROVE  FdAttachments(WithNode(w, m)) = FdAttachments(w)
<1> DEFINE v == WithNode(w, m)
<1>1. /\ v.segments = w.segments
      /\ DOMAIN v.nodes = DOMAIN w.nodes \cup {w.nodeSlots}
      /\ w.nodeSlots \notin DOMAIN w.nodes
  BY NodeAdded DEF GrownByNode
<1> HIDE DEF v
<1>2. /\ \A s : Ends(v, s) = Ends(w, s)
      /\ FdSegments(v) = FdSegments(w)
      /\ \A s, n : FarFrom(v, s, n) = FarFrom(w, s, n)
  BY <1>1 DEF Ends, FdSegments, FarFrom
<1>3. \A n : FdSegmentsOf(v, n) = FdSegmentsOf(w, n)
  BY <1>2 DEF FdSegmentsOf
<1>4. FdSegmentsOf(w, w.nodeSlots) = {}
  <2>1. \A s \in FdSegments(w) : \A e \in Ends(w, s) : e.node \in DOMAIN w.nodes
    BY DEF WorldOK, ValidEndpoints, HasEndpoint, HasNode, Ends, FdSegments
  <2>. QED
    BY <1>1, <2>1 DEF FdSegmentsOf
<1>5. ASSUME NEW x
      PROVE  FdAttachments(x) =
               [n \in {n \in DOMAIN x.nodes : FdSegmentsOf(x, n) # {}} |->
                  [node |-> FarFrom(x, Min(FdSegmentsOf(x, n)), n).node,
                   port |-> FarFrom(x, Min(FdSegmentsOf(x, n)), n).port,
                   delay |-> x.segments[Min(FdSegmentsOf(x, n))].delay,
                   rate |-> x.segments[Min(FdSegmentsOf(x, n))].rate]]
  BY DEF FdAttachments, FdSegmentsOf
<1>6. {n \in DOMAIN v.nodes : FdSegmentsOf(v, n) # {}} =
      {n \in DOMAIN w.nodes : FdSegmentsOf(w, n) # {}}
  BY <1>1, <1>3, <1>4
<1>7. FdAttachments(v) = FdAttachments(w)
  BY <1>1, <1>2, <1>3, <1>5, <1>6
<1>. QED
  BY <1>7 DEF v

LEMMA NextAttachments == TopologyInv /\ AttachmentsInv /\ [Next]_vars => AttachmentsInv'
<1> SUFFICES ASSUME TopologyInv, AttachmentsInv, [Next]_vars PROVE AttachmentsInv'
  OBVIOUS
<1>1. WorldOK(world)
  BY DEF TopologyInv, TypeOK
<1>2. ASSUME reach' = Reachability(world') PROVE AttachmentsInv'
  <2>1. reach'.fd = FdAttachments(world')
    BY <1>2 DEF Reachability
  <2>. QED
    BY <2>1 DEF AttachmentsInv, FdAttachments, FdSegments, Ends, FarFrom
<1>3. ASSUME phase' = "building" PROVE AttachmentsInv'
  BY <1>3 DEF AttachmentsInv
<1>4. ASSUME NEW m \in Models, BuildNode(m) PROVE AttachmentsInv'
  BY <1>3, <1>4 DEF BuildNode
<1>5. ASSUME NEW m \in Models, AddNode(m) PROVE AttachmentsInv'
  <2>1. phase = "running" /\ reach' = reach /\ world' = WithNode(world, m)
    BY <1>5 DEF AddNode
  <2>2. FdAttachments(world') = FdAttachments(world)
    BY <1>1, <2>1, NodeWithoutCable
  <2>. QED
    BY <2>1, <2>2 DEF AttachmentsInv
<1>6. ASSUME NEW kind, NEW a, NEW b, NEW d, NEW r,
             \/ BuildSegment(kind, a, b, d, r)
             \/ AddHdSegment(a, b, d, r) \/ AddFdSegment(a, b, d, r)
      PROVE  AttachmentsInv'
  BY <1>2, <1>3, <1>6 DEF BuildSegment, AddHdSegment, AddFdSegment, Recomputed
<1>7. CASE Build
  BY <1>2, <1>7 DEF Build, Recomputed
<1>8. ASSUME NEW s, NEW n, RemoveSegment(s) \/ RemoveNode(n) PROVE AttachmentsInv'
  BY <1>2, <1>8 DEF RemoveSegment, RemoveNode, Recomputed
<1>9. ASSUME NEW s, NEW d, NEW r, SetSegmentDelay(s, d) \/ SetSegmentRate(s, r)
      PROVE  AttachmentsInv'
  BY <1>2, <1>9 DEF SetSegmentDelay, SetSegmentRate
<1>10. CASE UNCHANGED vars
  BY <1>10 DEF vars, AttachmentsInv
<1>. QED
  BY <1>4, <1>5, <1>6, <1>7, <1>8, <1>9, <1>10 DEF Next, DisconnectPort

(* The full-duplex attachment a node sends on is always a live cable of it, *)
(* with its present delay and rate (precompute_fd_attachments and the edits *)
(* that call it).                                                           *)
THEOREM AttachmentsAlwaysLive == Spec => []AttachmentsLive
<1>1. Init => AttachmentsInv
  BY DEF Init, AttachmentsInv
<1>2. TopologyInv /\ AttachmentsInv /\ [Next]_vars => AttachmentsInv'
  BY NextAttachments
<1>3. TopologyInv /\ AttachmentsInv => AttachmentsLive
  <2> SUFFICES ASSUME TopologyInv, AttachmentsInv, phase = "running" PROVE AttachmentsLive
    BY DEF AttachmentsLive
  <2>1. WorldOK(world) /\ reach.fd = FdAttachments(world)
    BY DEF TopologyInv, TypeOK, AttachmentsInv
  <2>2. \A n : FdSegmentsOf(world, n) # {} <=>
               \E s \in FdSegments(world) : \E e \in Ends(world, s) : e.node = n
    BY DEF FdSegmentsOf
  <2>3. DOMAIN reach.fd = {n \in DOMAIN world.nodes : FdSegmentsOf(world, n) # {}}
    BY <2>1, AttachmentsOfWorld
  <2>4. \A n \in DOMAIN reach.fd : OfLiveCable(world, n, reach.fd[n])
    BY <2>1, AttachmentsOfWorld
  <2>5. DOMAIN reach.fd = {n \in DOMAIN world.nodes :
                            \E s \in FdSegments(world) : \E e \in Ends(world, s) : e.node = n}
    BY <2>2, <2>3
  <2>. QED
    BY <2>4, <2>5 DEF AttachmentsLive, OfLiveCable
<1>. QED
  BY <1>1, <1>2, <1>3, TopologyInvariant, PTL DEF Spec

(* The rate with which a relay measures an opaque signal is that of a live  *)
(* cable, so that no copy loses more than one bit, whatever rates are set    *)
(* (segment_rate_at_endpoint, signal_bits_at_rate).                         *)
THEOREM OpaqueCopiesAlwaysKeepLength == Spec => []OpaqueCopiesKeepLength
<1>1. ASSUME WorldOK(world), NEW e, NEW rate \in SegmentRateAt(world, e) PROVE rate \in BitRate
  <2>1. SegmentsAt(world, e) # {} /\ rate = world.segments[Min(SegmentsAt(world, e))].rate
    BY DEF SegmentRateAt
  <2>2. SegmentsAt(world, e) \in SUBSET Nat
    BY <1>1 DEF WorldOK, SegmentsAt
  <2>3. Min(SegmentsAt(world, e)) \in DOMAIN world.segments
    BY <2>1, <2>2, LeastOfNumbers DEF SegmentsAt
  <2>. QED
    BY <1>1, <2>1, <2>3 DEF WorldOK, Segment
<1>2. TopologyInv => OpaqueCopiesKeepLength
  BY <1>1, OpaqueCopiesLoseAtMostOneBit DEF TopologyInv, TypeOK, OpaqueCopiesKeepLength
<1>. QED
  BY <1>2, TopologyInvariant, PTL

---------------------------------------------------------------------------
(***************************************************************************)
(* Induction and recursion over the natural numbers.                       *)
(*                                                                         *)
(* The searches of Topology are functions of the number of steps, defined  *)
(* by recursion.  That such a function exists, and what it computes, is    *)
(* shown here from the least number of a set; sets take the place of the   *)
(* predicates of the usual principle of induction.                         *)
(***************************************************************************)

LEMMA LeastNumber ==
  ASSUME NEW T \in SUBSET Nat, T # {}
  PROVE  \E x \in T : \A y \in T : x <= y
<1> DEFINE Less == OpToRel(<, Nat)
<1>1. IsWellFoundedOn(Less, Nat)
  BY NatLessThanWellFounded
<1>2. \A m, n \in Nat : m < n => <<m, n>> \in Less
  BY DEF OpToRel
<1> HIDE DEF Less
<1>3. PICK n \in T : \A m \in T : <<m, n>> \notin Less
  BY <1>1, WFMin
<1>4. ASSUME NEW m \in T PROVE n <= m
  <2>1. m \in Nat /\ n \in Nat /\ ~(m < n)
    BY <1>2, <1>3
  <2>. QED
    BY <2>1
<1>. QED
  BY <1>4

LEMMA Induction ==
  ASSUME NEW T, 0 \in T, \A n \in Nat : n \in T => n + 1 \in T
  PROVE  Nat \subseteq T
<1> SUFFICES ASSUME Nat \ T # {} PROVE FALSE
  OBVIOUS
<1>1. PICK x \in Nat \ T : \A y \in Nat \ T : x <= y
  BY LeastNumber
<1>2. x - 1 \in Nat /\ ~(x <= x - 1)
  BY <1>1
<1>3. x - 1 \in T
  BY <1>1, <1>2
<1>. QED
  BY <1>1, <1>2, <1>3

(* Iterating a step.  The recursion is put together from its finite parts.  *)
Runs(f, n, start, step) ==
  /\ DOMAIN f = 0 .. n /\ f[0] = start
  /\ \A k \in 0 .. (n - 1) : f[k + 1] = step[<<k, f[k]>>]

LEMMA RunsOfAnyLength ==
  ASSUME NEW U, NEW start \in U, NEW step \in [Nat \X U -> U]
  PROVE  \A n \in Nat : \E f \in [0 .. n -> U] : Runs(f, n, start, step)
<1> DEFINE T == {n \in Nat : \E f \in [0 .. n -> U] : Runs(f, n, start, step)}
<1>1. 0 \in T
  <2>1. [k \in 0 .. 0 |-> start] \in [0 .. 0 -> U] /\ Runs([k \in 0 .. 0 |-> start], 0, start, step)
    BY DEF Runs
  <2>. QED
    BY <2>1
<1>2. ASSUME NEW n \in Nat, n \in T PROVE n + 1 \in T
  <2>1. PICK f \in [0 .. n -> U] : Runs(f, n, start, step)
    BY <1>2
  <2>2. PICK z \in U : z = step[<<n, f[n]>>]
    OBVIOUS
  <2>3. PICK g : g = [k \in 0 .. (n + 1) |-> IF k = n + 1 THEN z ELSE f[k]]
    OBVIOUS
  <2>4. g \in [0 .. (n + 1) -> U] /\ g[0] = start
    BY <2>1, <2>3 DEF Runs
  <2>5. ASSUME NEW k \in 0 .. n PROVE g[k + 1] = step[<<k, g[k]>>]
    <3>1. CASE k = n
      <4>1. g[n + 1] = z /\ g[n] = f[n] /\ k + 1 = n + 1
        BY <2>3, <3>1
      <4>. QED
        BY <2>2, <3>1, <4>1
    <3>2. CASE k # n
      <4>1. k \in 0 .. (n - 1) /\ g[k] = f[k] /\ g[k + 1] = f[k + 1]
        BY <2>3, <3>2
      <4>. QED
        BY <2>1, <4>1 DEF Runs
    <3>. QED
      BY <3>1, <3>2
  <2>6. Runs(g, n + 1, start, step)
    BY <2>4, <2>5 DEF Runs
  <2>. QED
    BY <2>4, <2>6
<1> HIDE DEF T
<1>3. Nat \subseteq T
  BY <1>1, <1>2, Induction
<1>. QED
  BY <1>3 DEF T

LEMMA RunsAgree ==
  ASSUME NEW start, NEW step, NEW m \in Nat, NEW n \in Nat, m <= n,
         NEW f, NEW g, Runs(f, m, start, step), Runs(g, n, start, step)
  PROVE  f[m] = g[m]
<1> DEFINE T == {k \in Nat : k <= m => f[k] = g[k]}
<1>1. 0 \in T
  BY DEF Runs
<1>2. ASSUME NEW k \in Nat, k \in T PROVE k + 1 \in T
  <2>. SUFFICES ASSUME k + 1 <= m PROVE f[k + 1] = g[k + 1]
    OBVIOUS
  <2>1. k \in 0 .. (m - 1) /\ k \in 0 .. (n - 1) /\ f[k] = g[k]
    BY <1>2
  <2>. QED
    BY <2>1 DEF Runs
<1> HIDE DEF T
<1>3. Nat \subseteq T
  BY <1>1, <1>2, Induction
<1>. QED
  BY <1>3 DEF T

Iterates(f, start, step) == f[0] = start /\ \A k \in Nat : f[k + 1] = step[<<k, f[k]>>]

LEMMA Iteration ==
  ASSUME NEW U, NEW start \in U, NEW step \in [Nat \X U -> U]
  PROVE  \E f \in [Nat -> U] : Iterates(f, start, step)
<1> DEFINE part(n) == CHOOSE f \in [0 .. n -> U] : Runs(f, n, start, step)
<1>1. \A n \in Nat : part(n) \in [0 .. n -> U] /\ Runs(part(n), n, start, step)
  BY RunsOfAnyLength
<1> HIDE DEF part
<1>2. PICK f : f = [n \in Nat |-> part(n)[n]]
  OBVIOUS
<1>3. f \in [Nat -> U] /\ f[0] = start
  BY <1>1, <1>2 DEF Runs
<1>4. ASSUME NEW k \in Nat PROVE f[k + 1] = step[<<k, f[k]>>]
  <2>1. part(k + 1)[k + 1] = step[<<k, part(k + 1)[k]>>]
    BY <1>1 DEF Runs
  <2>2. part(k)[k] = part(k + 1)[k]
    BY <1>1, RunsAgree
  <2>. QED
    BY <1>2, <2>1, <2>2
<1>5. Iterates(f, start, step)
  BY <1>3, <1>4 DEF Iterates
<1>. QED
  BY <1>3, <1>5

(* A set that grows by itself until it stops has stopped after as many     *)
(* steps as there are elements.                                            *)
LEMMA GrowthStops ==
  ASSUME NEW H, IsFiniteSet(H), NEW f \in [Nat -> SUBSET H], f[0] # {},
         \A k \in Nat : f[k] \subseteq f[k + 1],
         \A k \in Nat : f[k] = f[k + 1] => f[k + 1] = f[k + 2]
  PROVE  f[Cardinality(H)] = f[Cardinality(H) + 1]
<1> DEFINE T == {k \in Nat : f[k] = f[k + 1] \/ k < Cardinality(f[k])}
<1>1. \A k \in Nat : IsFiniteSet(f[k]) /\ Cardinality(f[k]) \in Nat /\ Cardinality(f[k]) <= Cardinality(H)
  BY FS_Subset, FS_CardinalityType
<1>2. 0 \in T
  BY <1>1, FS_EmptySet
<1>3. ASSUME NEW k \in Nat, k \in T PROVE k + 1 \in T
  <2>1. CASE f[k] = f[k + 1]
    <3>1. f[k + 1] = f[k + 2] /\ k + 2 = (k + 1) + 1
      BY <2>1
    <3>. QED
      BY <3>1
  <2>2. CASE f[k] # f[k + 1]
    <3>1. k < Cardinality(f[k])
      BY <1>3, <2>2
    <3>2. Cardinality(f[k]) < Cardinality(f[k + 1])
      <4>1. IsFiniteSet(f[k + 1]) /\ f[k] \in SUBSET f[k + 1]
        BY <1>1
      <4>2. Cardinality(f[k]) <= Cardinality(f[k + 1])
            /\ (Cardinality(f[k + 1]) = Cardinality(f[k]) => f[k + 1] = f[k])
        BY <4>1, FS_Subset
      <4>3. Cardinality(f[k]) \in Nat /\ Cardinality(f[k + 1]) \in Nat
        BY <1>1
      <4>. QED
        BY <2>2, <4>2, <4>3
    <3>. QED
      BY <1>1, <3>1, <3>2
  <2>. QED
    BY <2>1, <2>2
<1> HIDE DEF T
<1>4. Nat \subseteq T
  BY <1>2, <1>3, Induction
<1>5. Cardinality(H) \in Nat
  BY FS_CardinalityType
<1>. QED
  BY <1>1, <1>4, <1>5 DEF T

---------------------------------------------------------------------------
(***************************************************************************)
(* Graphs.                                                                 *)
(*                                                                         *)
(* S is a set of edges; edge s lies between the vertices x[s] and y[s].    *)
(* Two vertices are joined by S if no set of vertices that S does not      *)
(* leave separates them.                                                   *)
(***************************************************************************)

Verts(x, y, S) == UNION {{x[s], y[s]} : s \in S}
Closed(x, y, S, X) == \A s \in S : x[s] \in X <=> y[s] \in X
Joined(x, y, S, u, v) == \A X : (u \in X /\ Closed(x, y, S, X)) => v \in X

LEMMA JoinedSelf ==
  ASSUME NEW x, NEW y, NEW S, NEW u PROVE Joined(x, y, S, u, u)
BY DEF Joined

LEMMA JoinedVia ==
  ASSUME NEW x, NEW y, NEW S, NEW u, NEW v, NEW z, Joined(x, y, S, u, v), Joined(x, y, S, v, z)
  PROVE  Joined(x, y, S, u, z)
BY DEF Joined

LEMMA JoinedBack ==
  ASSUME NEW x, NEW y, NEW S, NEW u, NEW v, Joined(x, y, S, u, v)
  PROVE  Joined(x, y, S, v, u)
<1>. SUFFICES ASSUME NEW X, v \in X, Closed(x, y, S, X), u \notin X PROVE FALSE
  BY DEF Joined
<1>1. PICK Y : Y = (Verts(x, y, S) \cup {u, v}) \ X
  OBVIOUS
<1>2. Closed(x, y, S, Y)
  BY <1>1 DEF Closed, Verts
<1>. QED
  BY <1>1, <1>2 DEF Joined

LEMMA JoinedByMore ==
  ASSUME NEW x, NEW y, NEW S, NEW T, S \subseteq T, NEW u, NEW v, Joined(x, y, S, u, v)
  PROVE  Joined(x, y, T, u, v)
BY DEF Joined, Closed

LEMMA JoinedByEdge ==
  ASSUME NEW x, NEW y, NEW S, NEW s \in S
  PROVE  Joined(x, y, S, x[s], y[s]) /\ Joined(x, y, S, y[s], x[s])
BY DEF Joined, Closed

LEMMA NotJoined ==
  ASSUME NEW x, NEW y, NEW S, NEW X, Closed(x, y, S, X), NEW u, NEW v, u \in X, v \notin X
  PROVE  ~Joined(x, y, S, u, v) /\ ~Joined(x, y, S, v, u)
BY JoinedBack DEF Joined

(* An edge whose ends are joined without it joins nothing that is not       *)
(* joined anyway.                                                          *)
LEMMA RedundantEdge ==
  ASSUME NEW x, NEW y, NEW S, NEW s \in S, Joined(x, y, S \ {s}, x[s], y[s]),
         NEW u, NEW v, Joined(x, y, S, u, v)
  PROVE  Joined(x, y, S \ {s}, u, v)
<1>. SUFFICES ASSUME NEW X, u \in X, Closed(x, y, S \ {s}, X) PROVE v \in X
  BY DEF Joined
<1>1. Joined(x, y, S \ {s}, y[s], x[s])
  BY JoinedBack
<1>2. x[s] \in X <=> y[s] \in X
  BY <1>1 DEF Joined
<1>3. Closed(x, y, S, X)
  BY <1>2 DEF Closed
<1>. QED
  BY <1>3 DEF Joined

(* A new edge between vertices that were not joined closes no cycle.        *)
LEMMA EdgeAcross ==
  ASSUME NEW x, NEW y, NEW S, NEW e, ~Joined(x, y, S, x[e], y[e]),
         NEW s \in S, ~Joined(x, y, S \ {s}, x[s], y[s]),
         NEW T, T \subseteq (S \cup {e}) \ {s}
  PROVE  ~Joined(x, y, T, x[s], y[s])
<1>. SUFFICES ASSUME Joined(x, y, T, x[s], y[s]) PROVE FALSE
  OBVIOUS
<1>. DEFINE R == S \ {s}
            X(u) == {v \in Verts(x, y, S \cup {e}) : Joined(x, y, R, u, v)}
<1>1. \A u : Closed(x, y, R, X(u))
  <2>. SUFFICES ASSUME NEW u, NEW t \in R
                PROVE  Joined(x, y, R, u, x[t]) <=> Joined(x, y, R, u, y[t])
    BY DEF Closed, Verts
  <2>. QED
    BY JoinedByEdge, JoinedVia
<1>2. ASSUME NEW u, NEW v, u \in Verts(x, y, S), Joined(x, y, T, u, v), ~Joined(x, y, R, u, v)
      PROVE  \/ Joined(x, y, R, u, x[e]) /\ ~Joined(x, y, R, u, y[e])
             \/ Joined(x, y, R, u, y[e]) /\ ~Joined(x, y, R, u, x[e])
  <2>1. u \in X(u) /\ v \notin X(u)
    BY <1>2, JoinedSelf DEF Verts
  <2>2. ~Closed(x, y, T, X(u))
    BY <1>2, <2>1 DEF Joined
  <2>3. ~(x[e] \in X(u) <=> y[e] \in X(u))
    BY <1>1, <2>2 DEF Closed
  <2>. QED
    BY <2>3 DEF Verts
<1>. HIDE DEF X
<1>3. x[s] \in Verts(x, y, S) /\ y[s] \in Verts(x, y, S)
  BY DEF Verts
<1>4. Joined(x, y, T, y[s], x[s]) /\ ~Joined(x, y, R, y[s], x[s])
  BY JoinedBack
<1>5. \A u, v : Joined(x, y, R, u, v) => Joined(x, y, S, u, v)
  BY JoinedByMore
<1>6. Joined(x, y, S, x[s], y[s]) /\ Joined(x, y, S, y[s], x[s])
  BY JoinedByEdge
<1>7. \/ Joined(x, y, R, x[s], x[e]) /\ ~Joined(x, y, R, x[s], y[e])
      \/ Joined(x, y, R, x[s], y[e]) /\ ~Joined(x, y, R, x[s], x[e])
  BY <1>2, <1>3
<1>8. \/ Joined(x, y, R, y[s], x[e]) /\ ~Joined(x, y, R, y[s], y[e])
      \/ Joined(x, y, R, y[s], y[e]) /\ ~Joined(x, y, R, y[s], x[e])
  BY <1>2, <1>3, <1>4
<1>9. \A u, v, z : Joined(x, y, R, u, z) /\ Joined(x, y, R, v, z) => Joined(x, y, R, u, v)
  BY JoinedBack, JoinedVia
<1>10. \A u, v, z : Joined(x, y, S, u, v) /\ Joined(x, y, S, v, z) => Joined(x, y, S, u, z)
  BY JoinedVia
<1>11. \/ Joined(x, y, R, x[s], x[e]) /\ Joined(x, y, R, y[s], y[e])
       \/ Joined(x, y, R, x[s], y[e]) /\ Joined(x, y, R, y[s], x[e])
  BY <1>7, <1>8, <1>9
<1>12. \/ Joined(x, y, S, x[e], x[s]) /\ Joined(x, y, S, y[s], y[e])
       \/ Joined(x, y, S, x[s], y[e]) /\ Joined(x, y, S, x[e], y[s])
  BY <1>5, <1>11, JoinedBack
<1>. QED
  BY <1>6, <1>10, <1>12

(* What depends only on the ends of the edges.                              *)
LEMMA SameGraph ==
  ASSUME NEW x, NEW y, NEW a, NEW b, NEW S, \A s \in S : a[s] = x[s] /\ b[s] = y[s]
  PROVE  /\ Verts(a, b, S) = Verts(x, y, S)
         /\ \A u, v : Joined(a, b, S, u, v) <=> Joined(x, y, S, u, v)
BY DEF Verts, Joined, Closed

---------------------------------------------------------------------------
(* Trees.                                                                  *)

Connected(x, y, S) == \A s, t \in S : Joined(x, y, S, x[s], x[t])
Bridges(x, y, S) == \A s \in S : ~Joined(x, y, S \ {s}, x[s], y[s])
Distinct(x, y, S) == \A s \in S : x[s] # y[s]

(* A part of a connected graph has a neighbour.                             *)
LEMMA PartGrows ==
  ASSUME NEW x, NEW y, NEW S, Connected(x, y, S), NEW T \in SUBSET S, T # {}, T # S
  PROVE  \E s \in S \ T : x[s] \in Verts(x, y, T) \/ y[s] \in Verts(x, y, T)
<1>. SUFFICES ASSUME \A s \in S \ T : x[s] \notin Verts(x, y, T) /\ y[s] \notin Verts(x, y, T)
              PROVE  FALSE
  OBVIOUS
<1>1. PICK s \in T, t \in S \ T : TRUE
  OBVIOUS
<1>2. \A r \in T : x[r] \in Verts(x, y, T) /\ y[r] \in Verts(x, y, T)
  BY DEF Verts
<1>3. Closed(x, y, S, Verts(x, y, T))
  BY <1>2 DEF Closed
<1>. QED
  BY <1>1, <1>2, <1>3 DEF Connected, Joined

(* Growing edge by edge.                                                   *)
LEMMA GrowToAll ==
  ASSUME NEW S, IsFiniteSet(S), NEW F \in SUBSET SUBSET S, F # {},
         \A T \in F : T # S => \E s \in S \ T : T \cup {s} \in F
  PROVE  S \in F
<1>. DEFINE left == [T \in SUBSET S |-> Cardinality(S \ T)]
<1>1. \A T \in SUBSET S : IsFiniteSet(S \ T) /\ left[T] = Cardinality(S \ T) /\ left[T] \in Nat
  BY FS_Subset, FS_CardinalityType
<1>. HIDE DEF left
<1>2. PICK T \in F : \A R \in F : left[T] <= left[R]
  <2>1. PICK L : L = {left[T] : T \in F}
    OBVIOUS
  <2>2. \A T \in F : left[T] \in Nat
    BY <1>1
  <2>4. L \in SUBSET Nat
    BY <2>1, <2>2
  <2>5. L # {}
    <3>1. PICK T : T \in F
      OBVIOUS
    <3>2. left[T] \in L
      BY <2>1, <3>1
    <3>. QED
      BY <3>2
  <2>3. PICK n \in L : \A m \in L : n <= m
    BY <2>4, <2>5, LeastNumber
  <2>. QED
    BY <2>1, <2>3
<1>3. SUFFICES ASSUME T # S PROVE FALSE
  OBVIOUS
<1>4. PICK s \in S \ T : T \cup {s} \in F
  BY <1>3
<1>5. PICK R : R = S \ T
  OBVIOUS
<1>6. IsFiniteSet(R) /\ s \in R /\ S \ (T \cup {s}) = R \ {s} /\ Cardinality(R) \in Nat
  <2>1. T \in SUBSET S
    OBVIOUS
  <2>2. IsFiniteSet(R) /\ left[T] = Cardinality(R) /\ left[T] \in Nat
    BY <1>1, <1>5, <2>1
  <2>3. s \in R /\ S \ (T \cup {s}) = R \ {s}
    BY <1>4, <1>5
  <2>. QED
    BY <2>2, <2>3
<1>7. Cardinality(R \ {s}) = Cardinality(R) - 1
  BY <1>6, FS_RemoveElement
<1>8. Cardinality(R) <= Cardinality(R \ {s})
  <2>1. T \cup {s} \in SUBSET S /\ left[T] <= left[T \cup {s}]
    BY <1>2, <1>4
  <2>. QED
    BY <1>1, <1>5, <1>6, <2>1
<1>. QED
  BY <1>6, <1>7, <1>8

LEMMA ImageFinite ==
  ASSUME NEW f, NEW T, IsFiniteSet(T) PROVE IsFiniteSet({f[t] : t \in T})
<1>1. PICK R : R = {f[t] : t \in T}
  OBVIOUS
<1>2. [t \in T |-> f[t]] \in Surjection(T, R)
  BY <1>1 DEF Surjection
<1>. QED
  BY <1>1, <1>2, FS_Surjection

LEMMA OneMore ==
  ASSUME NEW R, IsFiniteSet(R), NEW v
  PROVE  /\ Cardinality(R) \in Nat /\ IsFiniteSet(R \cup {v})
         /\ Cardinality(R \cup {v}) <= Cardinality(R) + 1
         /\ v \notin R => Cardinality(R \cup {v}) = Cardinality(R) + 1
BY FS_AddElement, FS_CardinalityType

LEMMA TwoMembers ==
  ASSUME NEW u, NEW v
  PROVE  /\ Cardinality({u, v}) <= 2
         /\ u # v => Cardinality({u, v}) = 2
<1>1. PICK R : R = {u}
  OBVIOUS
<1>2. IsFiniteSet(R) /\ Cardinality(R) = 1 /\ R \cup {v} = {u, v}
  BY <1>1, FS_Singleton
<1>3. Cardinality(R \cup {v}) <= 2 /\ (v \notin R => Cardinality(R \cup {v}) = 2)
  BY <1>2, OneMore
<1>. QED
  BY <1>1, <1>2, <1>3

LEMMA VertsFinite ==
  ASSUME NEW x, NEW y, NEW T, IsFiniteSet(T) PROVE IsFiniteSet(Verts(x, y, T))
<1>2. PICK P, Q : P = {x[r] : r \in T} /\ Q = {y[r] : r \in T}
  OBVIOUS
<1>3. IsFiniteSet(P) /\ IsFiniteSet(Q)
  BY <1>2, ImageFinite
<1>4. Verts(x, y, T) = P \cup Q
  BY <1>2 DEF Verts
<1>5. IsFiniteSet(P \cup Q)
  BY <1>3, FS_Union
<1>. QED
  BY <1>4, <1>5

(* A connected graph has at most one vertex more than it has edges.         *)
LEMMA FewVerts ==
  ASSUME NEW x, NEW y, NEW S, IsFiniteSet(S), S # {}, Connected(x, y, S)
  PROVE  Cardinality(Verts(x, y, S)) <= Cardinality(S) + 1
<1>. DEFINE F == {T \in SUBSET S : T # {} /\ Cardinality(Verts(x, y, T)) <= Cardinality(T) + 1}
<1>1. \A T \in SUBSET S : /\ IsFiniteSet(T) /\ Cardinality(T) \in Nat
                          /\ IsFiniteSet(Verts(x, y, T)) /\ Cardinality(Verts(x, y, T)) \in Nat
  BY FS_Subset, FS_CardinalityType, VertsFinite
<1>2. F # {}
  <2>1. PICK s \in S : TRUE
    OBVIOUS
  <2>2. Verts(x, y, {s}) = {x[s], y[s]}
    BY DEF Verts
  <2>3. Cardinality({x[s], y[s]}) <= 2
    BY TwoMembers
  <2>4. Cardinality({s}) = 1
    BY FS_Singleton
  <2>5. {s} \in F
    BY <2>2, <2>3, <2>4
  <2>. QED
    BY <2>5
<1>3. ASSUME NEW T \in F, T # S PROVE \E s \in S \ T : T \cup {s} \in F
  <2>1. PICK s \in S \ T : x[s] \in Verts(x, y, T) \/ y[s] \in Verts(x, y, T)
    BY <1>3, PartGrows
  <2>2. /\ T \in SUBSET S /\ IsFiniteSet(T) /\ IsFiniteSet(Verts(x, y, T))
        /\ Cardinality(Verts(x, y, T)) <= Cardinality(T) + 1
    BY <1>1
  <2>3. Verts(x, y, T \cup {s}) = Verts(x, y, T) \cup {x[s], y[s]}
    BY DEF Verts
  <2>4. PICK v : Verts(x, y, T) \cup {x[s], y[s]} = Verts(x, y, T) \cup {v}
    BY <2>1
  <2>5. Cardinality(T \cup {s}) = Cardinality(T) + 1 /\ Cardinality(T) \in Nat
    BY <2>1, <2>2, OneMore
  <2>6. /\ Cardinality(Verts(x, y, T) \cup {v}) <= Cardinality(Verts(x, y, T)) + 1
        /\ Cardinality(Verts(x, y, T) \cup {v}) \in Nat /\ Cardinality(Verts(x, y, T)) \in Nat
    BY <2>2, OneMore, FS_CardinalityType
  <2>7. Cardinality(Verts(x, y, T \cup {s})) <= Cardinality(T \cup {s}) + 1
    <3>1. Verts(x, y, T \cup {s}) = Verts(x, y, T) \cup {v}
      BY <2>3, <2>4
    <3>2. PICK p, q : p = Cardinality(Verts(x, y, T)) /\ q = Cardinality(T)
      OBVIOUS
    <3>3. p \in Nat /\ q \in Nat /\ p <= q + 1
      BY <2>2, <2>5, <2>6, <3>2
    <3>4. PICK o : o = Cardinality(Verts(x, y, T) \cup {v})
      OBVIOUS
    <3>5. o \in Nat /\ o <= p + 1
      BY <2>6, <3>2, <3>4
    <3>6. Cardinality(T \cup {s}) = q + 1
      BY <2>5, <3>2
    <3>7. o <= (q + 1) + 1
      BY <3>3, <3>5
    <3>. QED
      BY <3>1, <3>4, <3>6, <3>7
  <2>8. T \cup {s} \in F
    BY <2>1, <2>2, <2>7
  <2>. QED
    BY <2>1, <2>8
<1>. HIDE DEF F
<1>4. F \in SUBSET SUBSET S
  BY DEF F
<1>5. S \in F
  BY <1>2, <1>3, <1>4, GrowToAll
<1>. QED
  BY <1>5 DEF F

(* With just one vertex more, no edge is redundant.                         *)
LEMMA TreeHasBridges ==
  ASSUME NEW x, NEW y, NEW S, IsFiniteSet(S), S # {}, Connected(x, y, S), Distinct(x, y, S),
         Cardinality(Verts(x, y, S)) = Cardinality(S) + 1
  PROVE  Bridges(x, y, S)
<1>. SUFFICES ASSUME NEW s \in S, Joined(x, y, S \ {s}, x[s], y[s]) PROVE FALSE
  BY DEF Bridges
<1>. DEFINE R == S \ {s}
<1>1. x[s] # y[s]
  BY DEF Distinct
<1>2. x[s] \in Verts(x, y, R)
  <2>1. CASE x[s] \notin Verts(x, y, R)
    <3>1. Closed(x, y, R, {x[s]})
      BY <2>1 DEF Closed, Verts
    <3>. QED
      BY <1>1, <3>1 DEF Joined
  <2>. QED
    BY <2>1
<1>3. y[s] \in Verts(x, y, R)
  <2>1. CASE y[s] \notin Verts(x, y, R)
    <3>1. Closed(x, y, R, {y[s]})
      BY <2>1 DEF Closed, Verts
    <3>. QED
      BY <1>1, <3>1, JoinedBack DEF Joined
  <2>. QED
    BY <2>1
<1>4. Connected(x, y, R)
  BY RedundantEdge DEF Connected
<1>5. IsFiniteSet(R) /\ Cardinality(R) = Cardinality(S) - 1 /\ Cardinality(S) \in Nat
  BY FS_RemoveElement, FS_CardinalityType
<1>6. R \cup {s} = S
  OBVIOUS
<1>. HIDE DEF R
<1>7. Verts(x, y, S) = Verts(x, y, R)
  <2>1. Verts(x, y, R \cup {s}) = Verts(x, y, R) \cup {x[s], y[s]}
    BY DEF Verts
  <2>. QED
    BY <1>2, <1>3, <1>6, <2>1
<1>8. R # {}
  BY <1>2 DEF Verts
<1>9. Cardinality(Verts(x, y, R)) <= Cardinality(R) + 1
  BY <1>4, <1>5, <1>8, FewVerts
<1>. QED
  BY <1>5, <1>7, <1>9

(* And if no edge is redundant, there is one vertex more.                   *)
LEMMA BridgesMakeTree ==
  ASSUME NEW x, NEW y, NEW S, IsFiniteSet(S), S # {}, Connected(x, y, S), Distinct(x, y, S),
         Bridges(x, y, S)
  PROVE  Cardinality(Verts(x, y, S)) = Cardinality(S) + 1
<1>. DEFINE F == {T \in SUBSET S : /\ T # {} /\ Connected(x, y, T)
                                   /\ Cardinality(Verts(x, y, T)) = Cardinality(T) + 1}
<1>1. \A T \in SUBSET S : /\ IsFiniteSet(T) /\ Cardinality(T) \in Nat
                          /\ IsFiniteSet(Verts(x, y, T)) /\ Cardinality(Verts(x, y, T)) \in Nat
  BY FS_Subset, FS_CardinalityType, VertsFinite
<1>2. F # {}
  <2>1. PICK s \in S : TRUE
    OBVIOUS
  <2>2. Verts(x, y, {s}) = {x[s], y[s]} /\ x[s] # y[s]
    BY DEF Verts, Distinct
  <2>3. Cardinality({x[s], y[s]}) = 2
    BY <2>2, TwoMembers
  <2>4. Cardinality({s}) = 1
    BY FS_Singleton
  <2>5. Connected(x, y, {s})
    BY JoinedSelf DEF Connected
  <2>6. {s} \in F
    BY <2>2, <2>3, <2>4, <2>5
  <2>. QED
    BY <2>6
<1>3. ASSUME NEW T \in F, T # S PROVE \E s \in S \ T : T \cup {s} \in F
  <2>1. PICK s \in S \ T : x[s] \in Verts(x, y, T) \/ y[s] \in Verts(x, y, T)
    BY <1>3, PartGrows
  <2>. DEFINE R == T \cup {s}
  <2>2. \A u, v \in Verts(x, y, T) : Joined(x, y, T, u, v)
    <3>1. \A r \in T : Joined(x, y, T, x[r], y[r]) /\ Joined(x, y, T, y[r], x[r])
      BY JoinedByEdge
    <3>2. \A u \in Verts(x, y, T) : \E r \in T : Joined(x, y, T, u, x[r]) /\ Joined(x, y, T, x[r], u)
      BY <3>1, JoinedSelf DEF Verts
    <3>. QED
      BY <3>2, JoinedVia DEF Connected
  <2>3. ~(x[s] \in Verts(x, y, T) /\ y[s] \in Verts(x, y, T))
    <3>1. T \subseteq S \ {s}
      OBVIOUS
    <3>. QED
      BY <2>2, <3>1, JoinedByMore DEF Bridges
  <2>4. PICK v : Verts(x, y, R) = Verts(x, y, T) \cup {v} /\ v \notin Verts(x, y, T)
    <3>1. Verts(x, y, R) = Verts(x, y, T) \cup {x[s], y[s]}
      BY DEF Verts
    <3>. QED
      BY <2>1, <2>3, <3>1
  <2>5. Cardinality(R) = Cardinality(T) + 1
    BY <1>1, <2>1, OneMore
  <2>6. Cardinality(Verts(x, y, R)) = Cardinality(Verts(x, y, T)) + 1
    <3>1. IsFiniteSet(Verts(x, y, T))
      BY <1>1
    <3>. QED
      BY <2>4, <3>1, OneMore
  <2>7. Connected(x, y, R)
    <3>1. \A r, t \in T : Joined(x, y, R, x[r], x[t])
      BY JoinedByMore DEF Connected
    <3>2. Joined(x, y, R, x[s], y[s]) /\ Joined(x, y, R, y[s], x[s])
      BY JoinedByEdge
    <3>3. \A u, b \in Verts(x, y, T) : Joined(x, y, R, u, b)
      BY <2>2, JoinedByMore
    <3>4. ASSUME NEW r \in T PROVE Joined(x, y, R, x[s], x[r])
      <4>1. x[r] \in Verts(x, y, T)
        BY DEF Verts
      <4>. QED
        BY <2>1, <3>2, <3>3, <4>1, JoinedVia
    <3>5. \A r \in T : Joined(x, y, R, x[r], x[s])
      BY <3>4, JoinedBack
    <3>. QED
      BY <3>1, <3>4, <3>5, JoinedSelf DEF Connected
  <2>. HIDE DEF R
  <2>8. R \in SUBSET S /\ R # {} /\ Cardinality(Verts(x, y, T)) = Cardinality(T) + 1
    BY DEF R
  <2>9. R \in F
    BY <2>5, <2>6, <2>7, <2>8
  <2>. QED
    BY <2>9 DEF R
<1>. HIDE DEF F
<1>4. F \in SUBSET SUBSET S
  BY DEF F
<1>5. S \in F
  BY <1>2, <1>3, <1>4, GrowToAll
<1>. QED
  BY <1>5 DEF F

---------------------------------------------------------------------------
(* The collision domains of a graph are its components.                    *)

Component(x, y, S, s) == {t \in S : Joined(x, y, S, x[s], x[t])}

LEMMA JoinedInside ==
  ASSUME NEW x, NEW y, NEW S, NEW D, NEW V, \A t \in S \ D : {x[t], y[t]} \cap V = {},
         \A t \in D : {x[t], y[t]} \subseteq V, NEW u \in V, NEW v, Joined(x, y, S, u, v)
  PROVE  Joined(x, y, D, u, v) /\ v \in V
<1>1. ASSUME NEW X, u \in X, Closed(x, y, D, X) PROVE v \in X \cap V
  <2>1. Closed(x, y, S, X \cap V)
    BY <1>1 DEF Closed
  <2>. QED
    BY <1>1, <2>1 DEF Joined
<1>2. Closed(x, y, D, V)
  BY DEF Closed
<1>. QED
  BY <1>1, <1>2 DEF Joined

LEMMA ComponentApart ==
  ASSUME NEW x, NEW y, NEW S, NEW s \in S, NEW C, C = Component(x, y, S, s)
  PROVE  /\ s \in C /\ C \subseteq S
         /\ \A t \in S \ C : {x[t], y[t]} \cap Verts(x, y, C) = {}
         /\ \A t \in C : {x[t], y[t]} \subseteq Verts(x, y, C)
         /\ Connected(x, y, C)
<1>1. s \in C /\ C \subseteq S
  BY JoinedSelf DEF Component
<1>2. \A t \in C : {x[t], y[t]} \subseteq Verts(x, y, C)
  BY DEF Verts
<1>3. \A z \in Verts(x, y, C) : Joined(x, y, S, x[s], z)
  <2>1. \A t \in C : Joined(x, y, S, x[s], x[t]) /\ Joined(x, y, S, x[t], y[t])
    BY <1>1, JoinedByEdge DEF Component
  <2>2. \A t \in C : Joined(x, y, S, x[s], y[t])
    BY <2>1, JoinedVia
  <2>. QED
    BY <2>1, <2>2 DEF Verts
<1>4. \A t \in S : x[t] \in Verts(x, y, C) => t \in C
  BY <1>3 DEF Component
<1>5. \A t \in S : y[t] \in Verts(x, y, C) => t \in C
  <2>1. \A t \in S : Joined(x, y, S, y[t], x[t])
    BY JoinedByEdge
  <2>. QED
    BY <1>3, <2>1, JoinedVia DEF Component
<1>6. \A t \in S \ C : {x[t], y[t]} \cap Verts(x, y, C) = {}
  BY <1>4, <1>5
<1>7. Connected(x, y, C)
  <2>1. SUFFICES ASSUME NEW r \in C, NEW t \in C PROVE Joined(x, y, C, x[r], x[t])
    BY DEF Connected
  <2>2. Joined(x, y, S, x[r], x[t])
    BY JoinedBack, JoinedVia DEF Component
  <2>3. x[r] \in Verts(x, y, C)
    BY <1>2
  <2>. QED
    BY <1>2, <1>6, <2>2, <2>3, JoinedInside
<1>. QED
  BY <1>1, <1>2, <1>6, <1>7

(* No edge is redundant if and only if each component has one vertex more  *)
(* than edges: what build counts is what the edits keep.                   *)
LEMMA ComponentsAreTrees ==
  ASSUME NEW x, NEW y, NEW S, IsFiniteSet(S), Distinct(x, y, S)
  PROVE  Bridges(x, y, S) <=>
           \A s \in S : LET C == Component(x, y, S, s)
                        IN Cardinality(C) + 1 = Cardinality(Verts(x, y, C))
<1>1. ASSUME NEW s \in S, NEW C, C = Component(x, y, S, s)
      PROVE  /\ Bridges(x, y, S) => Cardinality(Verts(x, y, C)) = Cardinality(C) + 1
             /\ Cardinality(Verts(x, y, C)) = Cardinality(C) + 1 => ~Joined(x, y, S \ {s}, x[s], y[s])
  <2>1. /\ s \in C /\ C \subseteq S /\ Connected(x, y, C)
        /\ \A t \in S \ C : {x[t], y[t]} \cap Verts(x, y, C) = {}
        /\ \A t \in C : {x[t], y[t]} \subseteq Verts(x, y, C)
    BY <1>1, ComponentApart
  <2>2. IsFiniteSet(C) /\ C # {} /\ Distinct(x, y, C)
    BY <2>1, FS_Subset DEF Distinct
  <2>3. ASSUME Bridges(x, y, S) PROVE Bridges(x, y, C)
    <3>1. SUFFICES ASSUME NEW t \in C, Joined(x, y, C \ {t}, x[t], y[t]) PROVE FALSE
      BY DEF Bridges
    <3>2. C \ {t} \subseteq S \ {t} /\ t \in S
      BY <2>1
    <3>3. Joined(x, y, S \ {t}, x[t], y[t])
      BY <3>1, <3>2, JoinedByMore
    <3>. QED
      BY <2>3, <3>2, <3>3 DEF Bridges
  <2>4. ASSUME Cardinality(Verts(x, y, C)) = Cardinality(C) + 1, Joined(x, y, S \ {s}, x[s], y[s])
        PROVE  FALSE
    <3>1. Bridges(x, y, C)
      BY <2>1, <2>2, <2>4, TreeHasBridges
    <3>2. PICK D, R, V : D = C \ {s} /\ R = S \ {s} /\ V = Verts(x, y, C)
      OBVIOUS
    <3>3. /\ \A t \in R \ D : {x[t], y[t]} \cap V = {}
          /\ \A t \in D : {x[t], y[t]} \subseteq V
          /\ x[s] \in V /\ Joined(x, y, R, x[s], y[s])
      BY <2>1, <2>4, <3>2
    <3>4. Joined(x, y, D, x[s], y[s])
      BY <3>3, JoinedInside
    <3>. QED
      BY <2>1, <3>1, <3>2, <3>4 DEF Bridges
  <2>. QED
    BY <2>1, <2>2, <2>3, <2>4, BridgesMakeTree
<1>. QED
  BY <1>1 DEF Bridges

---------------------------------------------------------------------------
(* Searches.                                                               *)

(* The steps of a search in H from s along the pairs of R.                  *)
Steps(f, H, R, s) ==
  /\ f \in [Nat -> SUBSET H] /\ f[0] = {s}
  /\ \A k \in Nat : f[k + 1] = f[k] \cup {t \in H : \E u \in f[k] : <<u, t>> \in R}

LEMMA SearchExists ==
  ASSUME NEW H, NEW R, NEW s \in H
  PROVE  \E f : Steps(f, H, R, s)
<1>1. PICK step : step = [p \in Nat \X SUBSET H |-> p[2] \cup {t \in H : \E u \in p[2] : <<u, t>> \in R}]
  OBVIOUS
<1>2. PICK U, z : U = SUBSET H /\ z = {s}
  OBVIOUS
<1>5. step \in [Nat \X U -> U] /\ z \in U
  BY <1>1, <1>2
<1>3. PICK f \in [Nat -> U] : Iterates(f, z, step)
  BY <1>5, Iteration
<1>4. \A k \in Nat : f[k + 1] = f[k] \cup {t \in H : \E u \in f[k] : <<u, t>> \in R}
  BY <1>1, <1>2, <1>3 DEF Iterates
<1>. QED
  BY <1>2, <1>3, <1>4 DEF Steps, Iterates

LEMMA SearchFinds ==
  ASSUME NEW H, IsFiniteSet(H), NEW R, NEW s, NEW f, Steps(f, H, R, s),
         NEW D, D = f[Cardinality(H)]
  PROVE  /\ s \in D /\ D \subseteq H
         /\ \A u \in D, t \in H : <<u, t>> \in R => t \in D
         /\ \A X : (s \in X /\ \A u \in X, t \in H : <<u, t>> \in R => t \in X) => D \subseteq X
<1>1. \A k \in Nat : f[k] \subseteq f[k + 1] /\ f[k] \subseteq H
  BY DEF Steps
<1>2. ASSUME NEW k \in Nat, f[k] = f[k + 1] PROVE f[k + 1] = f[k + 2]
  <2>1. /\ f[k + 1] = f[k] \cup {t \in H : \E u \in f[k] : <<u, t>> \in R}
        /\ f[k + 2] = f[k + 1] \cup {t \in H : \E u \in f[k + 1] : <<u, t>> \in R}
    <3>1. k + 1 \in Nat /\ (k + 1) + 1 = k + 2
      OBVIOUS
    <3>. QED
      BY <3>1 DEF Steps
  <2>. QED
    BY <1>2, <2>1
<1>3. Cardinality(H) \in Nat
  BY FS_CardinalityType
<1>4. f[Cardinality(H)] = f[Cardinality(H) + 1]
  <2>1. f \in [Nat -> SUBSET H] /\ f[0] # {}
    BY DEF Steps
  <2>. QED
    BY <1>1, <1>2, <2>1, GrowthStops
<1>5. \A u \in D, t \in H : <<u, t>> \in R => t \in D
  BY <1>3, <1>4 DEF Steps
<1>6. ASSUME NEW X, s \in X, \A u \in X, t \in H : <<u, t>> \in R => t \in X PROVE D \subseteq X
  <2> DEFINE T == {k \in Nat : f[k] \subseteq X}
  <2>1. 0 \in T
    BY <1>6 DEF Steps
  <2>2. ASSUME NEW k \in Nat, k \in T PROVE k + 1 \in T
    <3>1. f[k + 1] = f[k] \cup {t \in H : \E u \in f[k] : <<u, t>> \in R} /\ f[k] \subseteq X
      BY <2>2 DEF Steps
    <3>2. \A t \in H : (\E u \in f[k] : <<u, t>> \in R) => t \in X
      BY <1>6, <3>1
    <3>. QED
      BY <3>1, <3>2
  <2> HIDE DEF T
  <2>3. Nat \subseteq T
    BY <2>1, <2>2, Induction
  <2>. QED
    BY <1>3, <2>3 DEF T
<1>7. s \in D
  <2> DEFINE T == {k \in Nat : s \in f[k]}
  <2>1. 0 \in T
    BY DEF Steps
  <2>2. ASSUME NEW k \in Nat, k \in T PROVE k + 1 \in T
    BY <1>1, <2>2
  <2> HIDE DEF T
  <2>3. Nat \subseteq T
    BY <2>1, <2>2, Induction
  <2>. QED
    BY <1>3, <2>3 DEF T
<1>. QED
  BY <1>1, <1>3, <1>5, <1>6, <1>7

---------------------------------------------------------------------------
(* The half-duplex segments of a world as a graph.                         *)

EndA(w) == [s \in DOMAIN w.segments |-> Vertex(w, w.segments[s].a)]
EndB(w) == [s \in DOMAIN w.segments |-> Vertex(w, w.segments[s].b)]

LEMMA GraphOfWorld ==
  ASSUME NEW w, NEW S \in SUBSET DOMAIN w.segments
  PROVE  /\ VerticesOf(w, S) = Verts(EndA(w), EndB(w), S)
         /\ \A u, v : Linked(w, S, u, v) <=> Joined(EndA(w), EndB(w), S, u, v)
<1> DEFINE x == EndA(w)
           y == EndB(w)
<1>1. \A s \in S : x[s] = Vertex(w, w.segments[s].a) /\ y[s] = Vertex(w, w.segments[s].b)
  BY DEF EndA, EndB
<1> HIDE DEF x, y
<1>2. VerticesOf(w, S) = Verts(x, y, S)
  <2>1. \A s \in S : {Vertex(w, e) : e \in Ends(w, s)} = {x[s], y[s]}
    BY <1>1 DEF Ends
  <2>. QED
    BY <2>1 DEF VerticesOf, Verts
<1>3. ASSUME NEW u, NEW v, Joined(x, y, S, u, v) PROVE Linked(w, S, u, v)
  BY <1>1, <1>3 DEF Joined, Closed, Linked
<1>4. ASSUME NEW u, NEW v, Linked(w, S, u, v) PROVE Joined(x, y, S, u, v)
  <2>1. SUFFICES ASSUME NEW X, u \in X, Closed(x, y, S, X) PROVE v \in X
    BY DEF Joined
  <2>2. PICK Y : Y = X \cap (VerticesOf(w, S) \cup {u, v})
    OBVIOUS
  <2>3. \A s \in S : x[s] \in Y <=> y[s] \in Y
    BY <1>2, <2>1, <2>2 DEF Closed, Verts
  <2>4. Y \in SUBSET (VerticesOf(w, S) \cup {u, v}) /\ u \in Y
    BY <2>1, <2>2
  <2>5. v \in Y
    BY <1>1, <1>4, <2>3, <2>4 DEF Linked
  <2>. QED
    BY <2>2, <2>5
<1>. QED
  BY <1>2, <1>3, <1>4 DEF x, y

LEMMA SameVertex ==
  ASSUME NEW w, NEW d, NEW e
  PROVE  Vertex(w, d) = Vertex(w, e) <=>
           d.node = e.node /\ (IsRelay(w, d.node) => d.port = e.port)
<1>1. \A n, m, p : <<n>> # <<m, p>>
  OBVIOUS
<1>. QED
  BY <1>1 DEF Vertex

(* What the graph needs of a world.                                         *)
CablesOK(w) ==
  /\ w.segmentSlots \in Nat /\ DOMAIN w.segments \subseteq 0 .. (w.segmentSlots - 1)
  /\ \A s \in DOMAIN w.segments : w.segments[s].a.node # w.segments[s].b.node

LEMMA CablesOfWorld ==
  ASSUME NEW w, WorldOK(w) PROVE CablesOK(w)
BY DEF WorldOK, CablesOK, ValidEndpoints

LEMMA HdSegmentsFinite ==
  ASSUME NEW w, CablesOK(w)
  PROVE  /\ HdSegments(w) \in SUBSET Nat /\ IsFiniteSet(HdSegments(w))
         /\ HdSegments(w) \in SUBSET DOMAIN w.segments
<1>1. w.segmentSlots - 1 \in Int /\ HdSegments(w) \subseteq 0 .. (w.segmentSlots - 1)
  BY DEF CablesOK, HdSegments
<1>2. IsFiniteSet(0 .. (w.segmentSlots - 1))
  BY <1>1, FS_Interval
<1>. QED
  BY <1>1, <1>2, FS_Subset DEF HdSegments

LEMMA EndsDiffer ==
  ASSUME NEW w, CablesOK(w)
  PROVE  Distinct(EndA(w), EndB(w), DOMAIN w.segments)
<1>1. \A s \in DOMAIN w.segments : w.segments[s].a.node # w.segments[s].b.node
  BY DEF CablesOK
<1>2. \A s \in DOMAIN w.segments : Vertex(w, w.segments[s].a) # Vertex(w, w.segments[s].b)
  BY <1>1, SameVertex
<1>. QED
  BY <1>2 DEF Distinct, EndA, EndB

(* The breadth-first search from a segment finds its component.            *)
LEMMA DomainIsComponent ==
  ASSUME NEW w, CablesOK(w), NEW s \in HdSegments(w)
  PROVE  Domain(w, s) = Component(EndA(w), EndB(w), HdSegments(w), s)
<1> DEFINE H == HdSegments(w)
           x == EndA(w)
           y == EndB(w)
           R == {p \in H \X H : Meet(w, p[2], p[1])}
           n == Cardinality(H)
           Body(r) == [k \in Nat |-> IF k = 0 THEN {s}
                         ELSE r[k - 1] \cup {t \in H : \E u \in r[k - 1] : Meet(w, t, u)}]
<1>0. H \in SUBSET DOMAIN w.segments /\ IsFiniteSet(H) /\ n \in Nat
  BY HdSegmentsFinite, FS_CardinalityType
<1>1. PICK g : g = Body(g) /\ Domain(w, s) = g[n]
  <2>1. PICK f : Steps(f, H, R, s)
    BY SearchExists
  <2>2. f = Body(f)
    <3>1. f \in [Nat -> SUBSET H]
      BY <2>1 DEF Steps
    <3>2. ASSUME NEW k \in Nat PROVE f[k] = Body(f)[k]
      <4>1. CASE k = 0
        BY <2>1, <4>1 DEF Steps
      <4>2. CASE k # 0
        <5>1. k - 1 \in Nat /\ (k - 1) + 1 = k
          BY <4>2
        <5>2. f[k] = f[k - 1] \cup {t \in H : \E u \in f[k - 1] : <<u, t>> \in R}
          BY <2>1, <5>1 DEF Steps
        <5>3. f[k - 1] \subseteq H
          BY <3>1, <5>1
        <5>. QED
          BY <4>2, <5>2, <5>3
      <4>. QED
        BY <4>1, <4>2
    <3>. QED
      BY <3>1, <3>2
  <2>3. PICK g : g = CHOOSE r : r = Body(r)
    OBVIOUS
  <2>4. g = Body(g)
    BY <2>2, <2>3
  <2>5. Domain(w, s) = g[n]
    BY <2>3 DEF Domain
  <2>. QED
    BY <2>4, <2>5
<1>2. Steps(g, H, R, s)
  <2>1. g[0] = {s}
    BY <1>1
  <2>2. ASSUME NEW k \in Nat
        PROVE  g[k + 1] = g[k] \cup {t \in H : \E u \in g[k] : Meet(w, t, u)}
    <3>1. k + 1 \in Nat /\ k + 1 # 0 /\ (k + 1) - 1 = k
      OBVIOUS
    <3>2. g[k + 1] = Body(g)[k + 1]
      BY <1>1
    <3>. QED
      BY <3>1, <3>2
  <2>3. \A k \in Nat : g[k] \subseteq H
    <3> DEFINE T == {k \in Nat : g[k] \subseteq H}
    <3>1. 0 \in T
      BY <2>1
    <3>2. ASSUME NEW k \in Nat, k \in T PROVE k + 1 \in T
      BY <2>2, <3>2
    <3> HIDE DEF T
    <3>3. Nat \subseteq T
      BY <3>1, <3>2, Induction
    <3>. QED
      BY <3>3 DEF T
  <2>4. g \in [Nat -> SUBSET H]
    BY <1>1, <2>3
  <2>5. \A k \in Nat : g[k + 1] = g[k] \cup {t \in H : \E u \in g[k] : <<u, t>> \in R}
    BY <2>2, <2>3
  <2>. QED
    BY <2>1, <2>4, <2>5 DEF Steps
<1>3. PICK D : D = Domain(w, s)
  OBVIOUS
<1>4. /\ s \in D /\ D \subseteq H
      /\ \A u \in D, t \in H : <<u, t>> \in R => t \in D
      /\ \A X : (s \in X /\ \A u \in X, t \in H : <<u, t>> \in R => t \in X) => D \subseteq X
  <2>1. D = g[Cardinality(H)]
    BY <1>1, <1>3
  <2> HIDE DEF R, H, n, Body
  <2>. QED
    BY <1>0, <1>2, <2>1, SearchFinds
<1>5. \A t, u \in H : <<u, t>> \in R <=> {x[t], y[t]} \cap {x[u], y[u]} # {}
  <2>1. \A t \in H : x[t] = Vertex(w, w.segments[t].a) /\ y[t] = Vertex(w, w.segments[t].b)
    BY <1>0 DEF EndA, EndB
  <2>2. \A t, u \in H : <<u, t>> \in R <=> Meet(w, t, u)
    OBVIOUS
  <2> HIDE DEF x, y, R, H
  <2>3. ASSUME NEW t \in H, NEW u \in H
        PROVE  Meet(w, t, u) <=> {x[t], y[t]} \cap {x[u], y[u]} # {}
    <3>1. Meet(w, t, u) <=> \/ x[t] = x[u] \/ x[t] = y[u] \/ y[t] = x[u] \/ y[t] = y[u]
      BY <2>1 DEF Meet, Ends
    <3>. QED
      BY <3>1
  <2>. QED
    BY <2>2, <2>3
<1> HIDE DEF H, R, x, y
<1>6. D \subseteq Component(x, y, H, s)
  <2>1. s \in Component(x, y, H, s)
    BY JoinedSelf DEF Component, H
  <2>2. ASSUME NEW u \in Component(x, y, H, s), NEW t \in H, <<u, t>> \in R
        PROVE  t \in Component(x, y, H, s)
    <3>1. u \in H /\ Joined(x, y, H, x[s], x[u]) /\ Joined(x, y, H, x[s], y[u])
      BY JoinedByEdge, JoinedVia DEF Component
    <3>2. Joined(x, y, H, x[s], x[t]) \/ Joined(x, y, H, x[s], y[t])
      BY <1>5, <2>2, <3>1
    <3>. QED
      BY <3>2, JoinedByEdge, JoinedVia DEF Component
  <2>. QED
    BY <1>4, <2>1, <2>2
<1>7. Component(x, y, H, s) \subseteq D
  <2>1. SUFFICES ASSUME NEW t \in H, Joined(x, y, H, x[s], x[t]) PROVE t \in D
    BY DEF Component
  <2>2. \A r \in H : x[r] \in Verts(x, y, D) \/ y[r] \in Verts(x, y, D) => r \in D
    <3>1. \A r \in H, u \in D : {x[r], y[r]} \cap {x[u], y[u]} # {} => r \in D
      BY <1>4, <1>5
    <3>2. \A z \in Verts(x, y, D) : \E u \in D : z \in {x[u], y[u]}
      BY DEF Verts
    <3>. QED
      BY <3>1, <3>2
  <2>3. \A r \in D : x[r] \in Verts(x, y, D) /\ y[r] \in Verts(x, y, D)
    BY DEF Verts
  <2>4. Closed(x, y, H, Verts(x, y, D))
    BY <2>2, <2>3 DEF Closed
  <2>5. x[t] \in Verts(x, y, D)
    BY <1>4, <2>1, <2>3, <2>4 DEF Joined
  <2>. QED
    BY <2>2, <2>5
<1>. QED
  BY <1>3, <1>6, <1>7 DEF H, x, y

---------------------------------------------------------------------------
(* What the changes of a world do to its graph.                             *)

SameGraphOf(v, w) == /\ HdSegments(v) = HdSegments(w)
                     /\ EndA(v) = EndA(w) /\ EndB(v) = EndB(w)

(* Part of the graph of w.                                                  *)
SubgraphOf(v, w) == /\ HdSegments(v) \subseteq HdSegments(w)
                    /\ \A s \in HdSegments(v) : EndA(v)[s] = EndA(w)[s] /\ EndB(v)[s] = EndB(w)[s]

LEMMA GraphWithNode ==
  ASSUME NEW w, WorldOK(w), NEW m \in Models
  PROVE  SameGraphOf(WithNode(w, m), w)
<1> DEFINE v == WithNode(w, m)
<1>1. /\ v.segments = w.segments
      /\ DOMAIN v.nodes = DOMAIN w.nodes \cup {w.nodeSlots}
      /\ \A n \in DOMAIN w.nodes : v.nodes[n] = w.nodes[n]
  BY NodeAdded DEF GrownByNode
<1> HIDE DEF v
<1>2. \A e : e.node \in DOMAIN w.nodes => Vertex(v, e) = Vertex(w, e)
  BY <1>1 DEF Vertex, IsRelay, HasNode
<1>3. \A s \in DOMAIN w.segments : /\ w.segments[s].a.node \in DOMAIN w.nodes
                                   /\ w.segments[s].b.node \in DOMAIN w.nodes
  BY DEF WorldOK, ValidEndpoints, HasEndpoint, HasNode
<1>4. SameGraphOf(v, w)
  BY <1>1, <1>2, <1>3 DEF SameGraphOf, HdSegments, EndA, EndB
<1>. QED
  BY <1>4 DEF v

LEMMA SegmentAdded ==
  ASSUME NEW w, WorldOK(w), NEW kind, NEW a, NEW b, NEW d, NEW r, NEW v,
         v = WithSegment(w, kind, a, b, d, r) \/ v = WithCable(w, kind, a, b, d, r)
  PROVE  /\ v.nodes = w.nodes
         /\ DOMAIN v.segments = DOMAIN w.segments \cup {w.segmentSlots}
         /\ w.segmentSlots \notin DOMAIN w.segments
         /\ v.segments[w.segmentSlots] = [kind |-> kind, a |-> a, b |-> b, delay |-> d, rate |-> r]
         /\ \A s \in DOMAIN w.segments : v.segments[s] = w.segments[s]
<1> DEFINE u == WithSegment(w, kind, a, b, d, r)
           more == With(w.segments, [s \in {w.segmentSlots} |->
                            [kind |-> kind, a |-> a, b |-> b, delay |-> d, rate |-> r]])
<1>1. IsWorld(w) /\ w.segmentSlots \notin DOMAIN w.segments
  BY DEF WorldOK, IsWorld
<1>2. u = [w EXCEPT !.segments = more, !.segmentSlots = @ + 1]
  BY DEF WithSegment
<1>3. PICK slots : v = u \/ v = [u EXCEPT !.plugs = slots]
  BY DEF WithCable
<1> HIDE DEF u, more
<1>4. u = [nodes |-> w.nodes, nodeSlots |-> w.nodeSlots, segments |-> more,
           segmentSlots |-> w.segmentSlots + 1, plugs |-> w.plugs]
  BY <1>1, <1>2 DEF IsWorld
<1>5. v.nodes = w.nodes /\ v.segments = more
  BY <1>3, <1>4
<1>. QED
  BY <1>1, <1>5 DEF With, more

GraphGrownBy(v, w, kind, a, b) ==
  /\ HdSegments(v) = HdSegments(w) \cup (IF kind = "Hd" THEN {w.segmentSlots} ELSE {})
  /\ w.segmentSlots \notin HdSegments(w)
  /\ \A s \in HdSegments(w) : EndA(v)[s] = EndA(w)[s] /\ EndB(v)[s] = EndB(w)[s]
  /\ EndA(v)[w.segmentSlots] = Vertex(w, a)
  /\ EndB(v)[w.segmentSlots] = Vertex(w, b)

LEMMA GraphWithSegment ==
  ASSUME NEW w, WorldOK(w), NEW kind, NEW a, NEW b, NEW d, NEW r, NEW v,
         v = WithSegment(w, kind, a, b, d, r) \/ v = WithCable(w, kind, a, b, d, r)
  PROVE  GraphGrownBy(v, w, kind, a, b)
<1>1. /\ v.nodes = w.nodes
      /\ DOMAIN v.segments = DOMAIN w.segments \cup {w.segmentSlots}
      /\ w.segmentSlots \notin DOMAIN w.segments
      /\ v.segments[w.segmentSlots] = [kind |-> kind, a |-> a, b |-> b, delay |-> d, rate |-> r]
      /\ \A s \in DOMAIN w.segments : v.segments[s] = w.segments[s]
  BY SegmentAdded
<1>2. \A e : Vertex(v, e) = Vertex(w, e)
  BY <1>1 DEF Vertex, IsRelay, HasNode
<1>3. /\ v.segments[w.segmentSlots].kind = kind /\ v.segments[w.segmentSlots].a = a
      /\ v.segments[w.segmentSlots].b = b
  BY <1>1
<1>. QED
  BY <1>1, <1>2, <1>3 DEF GraphGrownBy, HdSegments, EndA, EndB

LEMMA GraphAllPlugged ==
  ASSUME NEW w, WorldOK(w) PROVE SameGraphOf(AllPlugged(w), w)
<1>1. AllPlugged(w).segments = w.segments /\ AllPlugged(w).nodes = w.nodes
  BY DEF WorldOK, AllPlugged
<1>. QED
  BY <1>1 DEF SameGraphOf, HdSegments, EndA, EndB, Vertex, IsRelay, HasNode

LEMMA GraphWithParameters ==
  ASSUME NEW w, WorldOK(w), NEW s \in DOMAIN w.segments, NEW x, SamePlace(x, w.segments[s])
  PROVE  SameGraphOf(WithParameters(w, s, x), w)
<1> DEFINE v == WithParameters(w, s, x)
<1>1. /\ v.nodes = w.nodes
      /\ DOMAIN v.segments = DOMAIN w.segments
      /\ \A t \in DOMAIN w.segments : v.segments[t] = IF t = s THEN x ELSE w.segments[t]
  BY DEF WorldOK, WithParameters
<1> HIDE DEF v
<1>2. \A e : Vertex(v, e) = Vertex(w, e)
  BY <1>1 DEF Vertex, IsRelay, HasNode
<1>3. \A t \in DOMAIN w.segments : SamePlace(v.segments[t], w.segments[t])
  BY <1>1 DEF SamePlace
<1>4. SameGraphOf(v, w)
  BY <1>1, <1>2, <1>3 DEF SameGraphOf, HdSegments, EndA, EndB, SamePlace
<1>. QED
  BY <1>4 DEF v

LEMMA GraphWithout ==
  ASSUME NEW w, WorldOK(w), NEW S
  PROVE  SubgraphOf(WithoutSegments(w, S), w)
<1> DEFINE v == WithoutSegments(w, S)
<1>1. /\ v.nodes = w.nodes
      /\ DOMAIN v.segments = DOMAIN w.segments \ S
      /\ \A s \in DOMAIN v.segments : v.segments[s] = w.segments[s]
  BY DEF WorldOK, WithoutSegments, Restrict
<1> HIDE DEF v
<1>2. \A e : Vertex(v, e) = Vertex(w, e)
  BY <1>1 DEF Vertex, IsRelay, HasNode
<1>3. SubgraphOf(v, w)
  BY <1>1, <1>2 DEF SubgraphOf, HdSegments, EndA, EndB
<1>. QED
  BY <1>3 DEF v

LEMMA GraphWithoutNode ==
  ASSUME NEW w, WorldOK(w), PlugsAgree(w), NEW n, NEW v,
         v = WithoutNode(WithoutSegments(w, SegmentsIncidentTo(w, n)), n)
  PROVE  SubgraphOf(v, w)
<1> DEFINE u == WithoutSegments(w, SegmentsIncidentTo(w, n))
<1>1. WorldOK(u) /\ SubgraphOf(u, w)
  BY WithoutSegmentsKeeps, GraphWithout
<1>2. \A s \in DOMAIN u.segments : u.segments[s].a.node # n /\ u.segments[s].b.node # n
  <2>1. /\ DOMAIN u.segments = DOMAIN w.segments \ SegmentsIncidentTo(w, n)
        /\ \A s \in DOMAIN u.segments : u.segments[s] = w.segments[s]
    BY DEF WorldOK, WithoutSegments, Restrict
  <2> HIDE DEF u
  <2>2. \A s \in DOMAIN w.segments : \A e \in Ends(w, s) : e.node = n => s \in SegmentsIncidentTo(w, n)
    BY DEF PlugsAgree, SegmentsIncidentTo
  <2>. QED
    BY <2>1, <2>2 DEF Ends
<1> HIDE DEF u
<1>3. /\ v.segments = u.segments
      /\ DOMAIN v.nodes = DOMAIN u.nodes \ {n}
      /\ \A i \in DOMAIN v.nodes : v.nodes[i] = u.nodes[i]
  BY <1>1 DEF WorldOK, WithoutNode, Restrict, u
<1>4. \A e : e.node # n => Vertex(v, e) = Vertex(u, e)
  BY <1>3 DEF Vertex, IsRelay, HasNode
<1>5. SubgraphOf(v, u)
  BY <1>2, <1>3, <1>4 DEF SubgraphOf, HdSegments, EndA, EndB
<1>. QED
  BY <1>1, <1>5 DEF SubgraphOf

---------------------------------------------------------------------------
(* No cycles.                                                              *)

Forest(w) == Bridges(EndA(w), EndB(w), HdSegments(w))

LEMMA ForestIsTrees ==
  ASSUME NEW w, CablesOK(w)
  PROVE  Forest(w) <=> \A s \in HdSegments(w) : DomainIsTree(w, s)
<1> DEFINE x == EndA(w)
           y == EndB(w)
           H == HdSegments(w)
<1>1. H \in SUBSET DOMAIN w.segments /\ IsFiniteSet(H) /\ Distinct(x, y, H)
  BY HdSegmentsFinite, EndsDiffer DEF Distinct
<1>2. ASSUME NEW s \in H
      PROVE  DomainIsTree(w, s) <=> LET C == Component(x, y, H, s)
                                    IN Cardinality(C) + 1 = Cardinality(Verts(x, y, C))
  <2>1. PICK C : C = Component(x, y, H, s)
    OBVIOUS
  <2>2. Domain(w, s) = C /\ C \in SUBSET DOMAIN w.segments
    BY <1>1, <2>1, DomainIsComponent DEF Component
  <2>3. VerticesOf(w, C) = Verts(x, y, C)
    BY <2>2, GraphOfWorld
  <2>. QED
    BY <2>1, <2>2, <2>3 DEF DomainIsTree
<1> HIDE DEF x, y, H
<1>3. Bridges(x, y, H) <=> \A s \in H : LET C == Component(x, y, H, s)
                                        IN Cardinality(C) + 1 = Cardinality(Verts(x, y, C))
  BY <1>1, ComponentsAreTrees
<1>. QED
  BY <1>2, <1>3 DEF Forest, x, y, H

LEMMA SubgraphOfForest ==
  ASSUME NEW v, NEW w, SubgraphOf(v, w), Forest(w) PROVE Forest(v)
<1>1. SUFFICES ASSUME NEW s \in HdSegments(v),
                      Joined(EndA(v), EndB(v), HdSegments(v) \ {s}, EndA(v)[s], EndB(v)[s])
               PROVE  FALSE
  BY DEF Forest, Bridges
<1>2. PICK R, T : R = HdSegments(v) \ {s} /\ T = HdSegments(w) \ {s}
  OBVIOUS
<1>3. Joined(EndA(w), EndB(w), R, EndA(v)[s], EndB(v)[s])
  BY <1>1, <1>2, SameGraph DEF SubgraphOf
<1>4. Joined(EndA(w), EndB(w), T, EndA(w)[s], EndB(w)[s])
  BY <1>1, <1>2, <1>3, JoinedByMore DEF SubgraphOf
<1>. QED
  BY <1>1, <1>2, <1>4 DEF Forest, Bridges, SubgraphOf

(* A new segment leaves the world without cycles if and only if its ends    *)
(* were not joined.                                                        *)
LEMMA ForestWithSegment ==
  ASSUME NEW w, WorldOK(w), Forest(w), NEW a, NEW b, NEW d, NEW r, NEW v,
         v = WithSegment(w, "Hd", a, b, d, r) \/ v = WithCable(w, "Hd", a, b, d, r)
  PROVE  Forest(v) <=> ~Joined(EndA(w), EndB(w), HdSegments(w), Vertex(w, a), Vertex(w, b))
<1> DEFINE H == HdSegments(w)
           e == w.segmentSlots
           x == EndA(v)
           y == EndB(v)
<1>1. /\ HdSegments(v) = H \cup {e} /\ e \notin H
      /\ \A s \in H : x[s] = EndA(w)[s] /\ y[s] = EndB(w)[s]
      /\ x[e] = Vertex(w, a) /\ y[e] = Vertex(w, b)
  <2>1. GraphGrownBy(v, w, "Hd", a, b)
    BY GraphWithSegment
  <2>. QED
    BY <2>1 DEF GraphGrownBy
<1> HIDE DEF x, y, e, H
<1>2. \A S \in SUBSET H : \A p, q : Joined(EndA(w), EndB(w), S, p, q) <=> Joined(x, y, S, p, q)
  <2>1. SUFFICES ASSUME NEW S \in SUBSET H
                 PROVE  \A p, q : Joined(EndA(w), EndB(w), S, p, q) <=> Joined(x, y, S, p, q)
    OBVIOUS
  <2>2. \A s \in S : x[s] = EndA(w)[s] /\ y[s] = EndB(w)[s]
    BY <1>1
  <2>. QED
    BY <2>2, SameGraph
<1>3. ASSUME ~Joined(x, y, H, x[e], y[e]), NEW s \in H \cup {e},
             Joined(x, y, (H \cup {e}) \ {s}, x[s], y[s])
      PROVE  FALSE
  <2>1. CASE s = e
    <3>1. (H \cup {e}) \ {s} = H
      BY <1>1, <2>1
    <3>. QED
      BY <1>3, <2>1, <3>1
  <2>2. CASE s \in H
    <3>1. ~Joined(x, y, H \ {s}, x[s], y[s])
      <4>1. ~Joined(EndA(w), EndB(w), H \ {s}, x[s], y[s])
        BY <1>1, <2>2 DEF Forest, Bridges, H
      <4>2. PICK R : R = H \ {s}
        OBVIOUS
      <4>. QED
        BY <1>2, <4>1, <4>2
    <3>2. PICK T : T = (H \cup {e}) \ {s}
      OBVIOUS
    <3>. QED
      BY <1>3, <2>2, <3>1, <3>2, EdgeAcross
  <2>. QED
    BY <1>3, <2>1, <2>2
<1>4. ASSUME Joined(x, y, H, x[e], y[e]), Bridges(x, y, H \cup {e}) PROVE FALSE
  <2>1. (H \cup {e}) \ {e} = H
    BY <1>1
  <2>. QED
    BY <1>4, <2>1 DEF Bridges
<1>5. Bridges(x, y, H \cup {e}) <=> ~Joined(x, y, H, x[e], y[e])
  BY <1>3, <1>4 DEF Bridges
<1>6. Joined(EndA(w), EndB(w), H, Vertex(w, a), Vertex(w, b)) <=> Joined(x, y, H, x[e], y[e])
  BY <1>1, <1>2
<1>. QED
  BY <1>1, <1>5, <1>6 DEF Forest, H, x, y

---------------------------------------------------------------------------
(* The check of an edit.                                                   *)

LEMMA FiniteNodes ==
  ASSUME NEW w, WorldOK(w)
  PROVE  IsFiniteSet(DOMAIN w.nodes) /\ DOMAIN w.nodes \in SUBSET Nat
<1>1. w.nodeSlots - 1 \in Int /\ DOMAIN w.nodes \subseteq 0 .. (w.nodeSlots - 1)
  BY DEF WorldOK
<1>2. IsFiniteSet(0 .. (w.nodeSlots - 1))
  BY <1>1, FS_Interval
<1>. QED
  BY <1>1, <1>2, FS_Subset

(* The cables between which the search of an edit goes on.                 *)
Neighbours(w) ==
  {p \in (DOMAIN w.nodes) \X DOMAIN w.nodes :
     ~IsRelay(w, p[1]) /\ \E s \in HdSegmentsAt(w, p[1]) : FarFrom(w, s, p[1]).node = p[2]}

(* The smallest set of nodes with a that the search does not leave.        *)
IsReachOf(D, w, a) ==
  LET N == DOMAIN w.nodes
      R == Neighbours(w)
  IN /\ a \in D /\ D \subseteq N
     /\ \A u \in D, t \in N : <<u, t>> \in R => t \in D
     /\ \A X : (a \in X /\ \A u \in X, t \in N : <<u, t>> \in R => t \in X) => D \subseteq X

LEMMA ReachableIsLeast ==
  ASSUME NEW w, WorldOK(w), NEW a \in DOMAIN w.nodes
  PROVE  \E D : /\ IsReachOf(D, w, a)
                /\ \A b : HdReachable(w, a, b) <=> ~IsRelay(w, a) /\ ~IsRelay(w, b) /\ b \in D
<1> DEFINE N == DOMAIN w.nodes
           R == Neighbours(w)
           n == Cardinality(N)
           Body(r) == [k \in Nat |-> IF k = 0 THEN {a}
                         ELSE r[k - 1] \cup {v \in N : \E u \in r[k - 1] :
                                ~IsRelay(w, u) /\ \E s \in HdSegmentsAt(w, u) : FarFrom(w, s, u).node = v}]
<1>0. IsFiniteSet(N) /\ n \in Nat
  BY FiniteNodes, FS_CardinalityType
<1>1. PICK g : g = Body(g) /\ \A b : HdReachable(w, a, b) <=> ~IsRelay(w, a) /\ ~IsRelay(w, b) /\ b \in g[n]
  <2>1. PICK f : Steps(f, N, R, a)
    BY SearchExists
  <2>2. f = Body(f)
    <3>1. f \in [Nat -> SUBSET N]
      BY <2>1 DEF Steps
    <3>2. ASSUME NEW k \in Nat PROVE f[k] = Body(f)[k]
      <4>1. CASE k = 0
        BY <2>1, <4>1 DEF Steps
      <4>2. CASE k # 0
        <5>1. k - 1 \in Nat /\ (k - 1) + 1 = k
          BY <4>2
        <5>2. f[k] = f[k - 1] \cup {t \in N : \E u \in f[k - 1] : <<u, t>> \in R}
          BY <2>1, <5>1 DEF Steps
        <5>3. f[k - 1] \subseteq N
          BY <3>1, <5>1
        <5>4. \A u, t \in N : <<u, t>> \in R <=>
                 ~IsRelay(w, u) /\ \E s \in HdSegmentsAt(w, u) : FarFrom(w, s, u).node = t
          BY DEF Neighbours
        <5>. QED
          BY <4>2, <5>2, <5>3, <5>4
      <4>. QED
        BY <4>1, <4>2
    <3>. QED
      BY <3>1, <3>2
  <2>3. PICK g : g = CHOOSE r : r = Body(r)
    OBVIOUS
  <2>4. g = Body(g)
    <3>. HIDE DEF Body
    <3>. QED
      BY <2>2, <2>3
  <2>5. \A b : HdReachable(w, a, b) <=> ~IsRelay(w, a) /\ ~IsRelay(w, b) /\ b \in g[n]
    BY <2>3 DEF HdReachable
  <2>. QED
    BY <2>4, <2>5
<1>2. Steps(g, N, R, a)
  <2>1. g[0] = {a}
    BY <1>1
  <2>2. ASSUME NEW k \in Nat
        PROVE  g[k + 1] = g[k] \cup {v \in N : \E u \in g[k] :
                  ~IsRelay(w, u) /\ \E s \in HdSegmentsAt(w, u) : FarFrom(w, s, u).node = v}
    <3>1. k + 1 \in Nat /\ k + 1 # 0 /\ (k + 1) - 1 = k
      OBVIOUS
    <3>2. g[k + 1] = Body(g)[k + 1]
      BY <1>1
    <3>. QED
      BY <3>1, <3>2
  <2>3. \A k \in Nat : g[k] \subseteq N
    <3> DEFINE T == {k \in Nat : g[k] \subseteq N}
    <3>1. 0 \in T
      BY <2>1
    <3>2. ASSUME NEW k \in Nat, k \in T PROVE k + 1 \in T
      BY <2>2, <3>2
    <3> HIDE DEF T
    <3>3. Nat \subseteq T
      BY <3>1, <3>2, Induction
    <3>. QED
      BY <3>3 DEF T
  <2>4. g \in [Nat -> SUBSET N]
    BY <1>1, <2>3
  <2>5. \A u, t \in N : <<u, t>> \in R <=>
          ~IsRelay(w, u) /\ \E s \in HdSegmentsAt(w, u) : FarFrom(w, s, u).node = t
    BY DEF Neighbours
  <2>6. \A k \in Nat : g[k + 1] = g[k] \cup {t \in N : \E u \in g[k] : <<u, t>> \in R}
    <3>1. SUFFICES ASSUME NEW k \in Nat, NEW t \in N
                   PROVE  (\E u \in g[k] : <<u, t>> \in R) <=>
                            \E u \in g[k] :
                              ~IsRelay(w, u) /\ \E s \in HdSegmentsAt(w, u) : FarFrom(w, s, u).node = t
      BY <2>2
    <3>2. g[k] \subseteq N
      BY <2>3
    <3>3. \A u \in g[k] : <<u, t>> \in R <=>
            ~IsRelay(w, u) /\ \E s \in HdSegmentsAt(w, u) : FarFrom(w, s, u).node = t
      BY <2>5, <3>2
    <3>. QED
      BY <3>3
  <2>. QED
    BY <2>1, <2>4, <2>6 DEF Steps
<1>3. PICK D : D = g[Cardinality(N)]
  OBVIOUS
<1>4. /\ a \in D /\ D \subseteq N
      /\ \A u \in D, t \in N : <<u, t>> \in R => t \in D
      /\ \A X : (a \in X /\ \A u \in X, t \in N : <<u, t>> \in R => t \in X) => D \subseteq X
  <2> HIDE DEF R, N, n, Body
  <2>. QED
    BY <1>0, <1>2, <1>3, SearchFinds
<1>5. IsReachOf(D, w, a)
  BY <1>4 DEF IsReachOf
<1>. QED
  BY <1>1, <1>3, <1>5

(* What a half-duplex segment of a world is between.                       *)
HdBetween(w, s, d, e) == s \in HdSegments(w) /\ d # e /\ Ends(w, s) = {d, e}

LEMMA FarFromBetween ==
  ASSUME NEW w, WorldOK(w), NEW s, NEW d, NEW e, HdBetween(w, s, d, e)
  PROVE  /\ d \in Endpoint /\ e \in Endpoint
         /\ d.node \in DOMAIN w.nodes /\ e.node \in DOMAIN w.nodes /\ d.node # e.node
         /\ s \in HdSegmentsAt(w, d.node) /\ FarFrom(w, s, d.node) = e
<1>1. s \in DOMAIN w.segments
  BY DEF HdBetween, HdSegments
<1>2. /\ w.segments[s].a \in Endpoint /\ w.segments[s].b \in Endpoint
      /\ w.segments[s].a.node # w.segments[s].b.node
      /\ w.segments[s].a.node \in DOMAIN w.nodes /\ w.segments[s].b.node \in DOMAIN w.nodes
  BY <1>1 DEF WorldOK, ValidEndpoints, HasEndpoint, HasNode, Segment
<1>3. \/ d = w.segments[s].a /\ e = w.segments[s].b
      \/ d = w.segments[s].b /\ e = w.segments[s].a
  BY DEF HdBetween, Ends
<1>4. d.node # e.node
  BY <1>2, <1>3
<1>. QED
  BY <1>2, <1>3, <1>4 DEF HdBetween, HdSegmentsAt, FarFrom

LEMMA EdgesOfWorld ==
  ASSUME NEW w, WorldOK(w), NEW s \in HdSegments(w)
  PROVE  \E d, e : HdBetween(w, s, d, e) /\ EndA(w)[s] = Vertex(w, d) /\ EndB(w)[s] = Vertex(w, e)
<1>1. s \in DOMAIN w.segments
  BY DEF HdSegments
<1>2. w.segments[s].a # w.segments[s].b
  BY <1>1 DEF WorldOK, ValidEndpoints
<1>. QED
  BY <1>1, <1>2 DEF HdBetween, Ends, EndA, EndB

LEMMA NeighbourAlong ==
  ASSUME NEW w, WorldOK(w), NEW s, NEW d, NEW e, HdBetween(w, s, d, e), ~IsRelay(w, d.node)
  PROVE  <<d.node, e.node>> \in Neighbours(w)
BY FarFromBetween DEF Neighbours

LEMMA NeighbourBy ==
  ASSUME NEW w, WorldOK(w), NEW u, NEW v, <<u, v>> \in Neighbours(w)
  PROVE  /\ ~IsRelay(w, u)
         /\ \E s, d, e : HdBetween(w, s, d, e) /\ d.node = u /\ e.node = v
<1>1. PICK s \in HdSegmentsAt(w, u) : ~IsRelay(w, u) /\ FarFrom(w, s, u).node = v
  BY DEF Neighbours
<1>2. PICK d \in Ends(w, s) : s \in HdSegments(w) /\ d.node = u
  BY <1>1 DEF HdSegmentsAt
<1>3. s \in DOMAIN w.segments
  BY <1>2 DEF HdSegments
<1>4. PICK e : e # d /\ Ends(w, s) = {d, e}
  <2>1. w.segments[s].a # w.segments[s].b
    BY <1>3 DEF WorldOK, ValidEndpoints
  <2>. QED
    BY <1>2, <2>1 DEF Ends
<1>5. HdBetween(w, s, d, e)
  BY <1>2, <1>4 DEF HdBetween
<1>6. FarFrom(w, s, u) = e
  BY <1>2, <1>5, FarFromBetween
<1>. QED
  BY <1>1, <1>2, <1>5, <1>6

(* A port has one cable, so its vertex, at a relay, has one segment.        *)
LEMMA OneSegmentAtRelayPort ==
  ASSUME NEW w, WorldOK(w), PlugsAgree(w), NEW s, NEW d, NEW e, HdBetween(w, s, d, e),
         NEW t, NEW f, NEW g, HdBetween(w, t, f, g),
         IsRelay(w, d.node), Vertex(w, d) = Vertex(w, f)
  PROVE  s = t /\ d = f
<1>1. d.node = f.node /\ d.port = f.port
  BY SameVertex
<1>2. d = f
  BY <1>1, FarFromBetween DEF Endpoint
<1>3. s \in DOMAIN w.segments /\ t \in DOMAIN w.segments /\ d \in Ends(w, s) /\ d \in Ends(w, t)
  BY <1>2 DEF HdBetween, HdSegments
<1>. QED
  BY <1>2, <1>3 DEF PlugsAgree

(* The search among nodes finds what the graph joins.                      *)
LEMMA ReachIsJoined ==
  ASSUME NEW w, WorldOK(w), PlugsAgree(w), NEW a \in DOMAIN w.nodes, ~IsRelay(w, a),
         NEW D, IsReachOf(D, w, a), NEW n \in DOMAIN w.nodes, ~IsRelay(w, n)
  PROVE  n \in D <=> Joined(EndA(w), EndB(w), HdSegments(w), <<a>>, <<n>>)
<1> DEFINE x == EndA(w)
           y == EndB(w)
           H == HdSegments(w)
<1>1. /\ a \in D /\ D \subseteq DOMAIN w.nodes
      /\ \A u \in D, t \in DOMAIN w.nodes : <<u, t>> \in Neighbours(w) => t \in D
      /\ \A X : (a \in X /\ \A u \in X, t \in DOMAIN w.nodes : <<u, t>> \in Neighbours(w) => t \in X)
                 => D \subseteq X
  BY DEF IsReachOf
<1>2. \A e : ~IsRelay(w, e.node) => Vertex(w, e) = <<e.node>>
  BY DEF Vertex
<1>3. ASSUME NEW s, NEW d, NEW e, HdBetween(w, s, d, e)
      PROVE  Joined(x, y, H, Vertex(w, d), Vertex(w, e))
  <2>1. s \in H /\ s \in DOMAIN w.segments
    BY <1>3 DEF HdBetween, HdSegments
  <2>2. \/ x[s] = Vertex(w, d) /\ y[s] = Vertex(w, e)
        \/ x[s] = Vertex(w, e) /\ y[s] = Vertex(w, d)
    BY <1>3, <2>1 DEF HdBetween, Ends, EndA, EndB
  <2>. QED
    BY <2>1, <2>2, JoinedByEdge
<1> HIDE DEF x, y, H
<1>4. ASSUME n \in D PROVE Joined(x, y, H, <<a>>, <<n>>)
  <2> DEFINE X == {v \in DOMAIN w.nodes : ~IsRelay(w, v) => Joined(x, y, H, <<a>>, <<v>>)}
  <2>1. a \in X
    BY JoinedSelf
  <2>2. ASSUME NEW u \in X, NEW t \in DOMAIN w.nodes, <<u, t>> \in Neighbours(w) PROVE t \in X
    <3>1. SUFFICES ASSUME ~IsRelay(w, t) PROVE Joined(x, y, H, <<a>>, <<t>>)
      OBVIOUS
    <3>2. ~IsRelay(w, u)
      BY <2>2, NeighbourBy
    <3>3. PICK s, d, e : HdBetween(w, s, d, e) /\ d.node = u /\ e.node = t
      BY <2>2, NeighbourBy
    <3>4. Joined(x, y, H, <<u>>, <<t>>)
      BY <1>2, <1>3, <3>1, <3>2, <3>3
    <3>. QED
      BY <3>2, <3>4, JoinedVia
  <2> HIDE DEF X
  <2>3. D \subseteq X
    BY <1>1, <2>1, <2>2
  <2>. QED
    BY <1>4, <2>3 DEF X
<1>5. ASSUME Joined(x, y, H, <<a>>, <<n>>) PROVE n \in D
  <2> DEFINE P == {<<v>> : v \in {v \in D : ~IsRelay(w, v)}}
             Q == {z \in Verts(x, y, H) : \E s, d, e : /\ HdBetween(w, s, d, e) /\ d.node \in D
                                                       /\ ~IsRelay(w, d.node) /\ IsRelay(w, e.node)
                                                       /\ z = Vertex(w, e)}
  <2>1. ASSUME NEW s, NEW d, NEW e, HdBetween(w, s, d, e), Vertex(w, d) \in P \cup Q
        PROVE  Vertex(w, e) \in P \cup Q
    <3>0. s \in H /\ Vertex(w, e) \in Verts(x, y, H)
      <4>1. s \in H /\ s \in DOMAIN w.segments
        BY <2>1 DEF HdBetween, HdSegments, H
      <4>2. Vertex(w, e) \in {x[s], y[s]}
        BY <2>1, <4>1 DEF HdBetween, Ends, EndA, EndB, x, y
      <4>. QED
        BY <4>1, <4>2 DEF Verts
    <3>1. CASE ~IsRelay(w, d.node)
      <4>1. Vertex(w, d) = <<d.node>>
        BY <1>2, <3>1
      <4>2. d.node \in D
        <5>1. CASE Vertex(w, d) \in P
          BY <4>1, <5>1
        <5>2. CASE Vertex(w, d) \in Q
          <6>1. PICK t, f, g : IsRelay(w, g.node) /\ Vertex(w, d) = Vertex(w, g)
            BY <5>2
          <6>2. d.node = g.node
            BY <6>1, SameVertex
          <6>. QED
            BY <3>1, <6>1, <6>2
        <5>. QED
          BY <2>1, <5>1, <5>2
      <4>3. e.node \in D
        BY <1>1, <2>1, <3>1, <4>2, NeighbourAlong, FarFromBetween
      <4>4. CASE IsRelay(w, e.node)
        <5>1. Vertex(w, e) \in Q
          BY <2>1, <3>0, <3>1, <4>2, <4>4
        <5>. QED
          BY <5>1
      <4>5. CASE ~IsRelay(w, e.node)
        BY <1>2, <4>3, <4>5
      <4>. QED
        BY <4>4, <4>5
    <3>2. CASE IsRelay(w, d.node)
      <4>1. Vertex(w, d) = <<d.node, d.port>>
        BY <3>2 DEF Vertex
      <4>2. Vertex(w, d) \notin P
        <5>1. \A v : <<v>> # <<d.node, d.port>>
          OBVIOUS
        <5>. QED
          BY <4>1, <5>1
      <4>3. PICK t, f, g : /\ HdBetween(w, t, f, g) /\ f.node \in D
                           /\ ~IsRelay(w, f.node) /\ Vertex(w, d) = Vertex(w, g)
        BY <2>1, <4>2
      <4>4. HdBetween(w, t, g, f)
        BY <4>3 DEF HdBetween
      <4>5. s = t /\ d = g
        BY <2>1, <3>2, <4>3, <4>4, OneSegmentAtRelayPort
      <4>6. e = f
        BY <2>1, <4>4, <4>5 DEF HdBetween
      <4>. QED
        BY <1>2, <4>3, <4>6
    <3>. QED
      BY <3>1, <3>2
  <2>2. Closed(x, y, H, P \cup Q)
    <3>1. SUFFICES ASSUME NEW s \in H PROVE x[s] \in P \cup Q <=> y[s] \in P \cup Q
      BY DEF Closed
    <3>2. PICK d, e : HdBetween(w, s, d, e) /\ x[s] = Vertex(w, d) /\ y[s] = Vertex(w, e)
      BY EdgesOfWorld DEF x, y, H
    <3>3. HdBetween(w, s, e, d)
      BY <3>2 DEF HdBetween
    <3> HIDE DEF P, Q
    <3>. QED
      BY <2>1, <3>2, <3>3
  <2>3. <<a>> \in P
    BY <1>1
  <2>4. <<n>> \in P \cup Q
    BY <1>5, <2>2, <2>3 DEF Joined
  <2>5. CASE <<n>> \in P
    BY <2>5
  <2>6. CASE <<n>> \in Q
    <3>1. PICK e : IsRelay(w, e.node) /\ <<n>> = Vertex(w, e)
      BY <2>6
    <3>2. Vertex(w, e) = <<e.node, e.port>>
      BY <3>1 DEF Vertex
    <3>. QED
      BY <3>1, <3>2
  <2>. QED
    BY <2>4, <2>5, <2>6
<1>. QED
  BY <1>4, <1>5 DEF x, y, H

(* So does the check of an edit, which also refuses nothing at a relay: the *)
(* vertex of a free port is that of no segment.                            *)
LEMMA EditCheck ==
  ASSUME NEW w, WorldOK(w), PlugsAgree(w), NEW a \in Endpoint, NEW b \in Endpoint, NEW d,
         ValidEndpoints(w, a, b, d), {a, b} \cap DOMAIN w.plugs = {}
  PROVE  HdReachable(w, a.node, b.node) <=>
           Joined(EndA(w), EndB(w), HdSegments(w), Vertex(w, a), Vertex(w, b))
<1> DEFINE x == EndA(w)
           y == EndB(w)
           H == HdSegments(w)
<1>1. a.node \in DOMAIN w.nodes /\ b.node \in DOMAIN w.nodes /\ a.node # b.node
  BY DEF ValidEndpoints, HasEndpoint, HasNode
<1>2. ASSUME NEW e \in {a, b}, IsRelay(w, e.node) PROVE Closed(x, y, H, {Vertex(w, e)})
  <2>1. SUFFICES ASSUME NEW s \in H PROVE x[s] # Vertex(w, e) /\ y[s] # Vertex(w, e)
    BY DEF Closed
  <2>2. PICK f, g : HdBetween(w, s, f, g) /\ x[s] = Vertex(w, f) /\ y[s] = Vertex(w, g)
    BY EdgesOfWorld
  <2>3. f \in Endpoint /\ g \in Endpoint
    <3>1. HdBetween(w, s, g, f)
      BY <2>2 DEF HdBetween
    <3>. QED
      BY <2>2, <3>1, FarFromBetween
  <2>4. f \in DOMAIN w.plugs /\ g \in DOMAIN w.plugs
    BY <2>2 DEF HdBetween, HdSegments, PlugsAgree
  <2>5. \A h \in Endpoint : Vertex(w, h) = Vertex(w, e) => h = e
    BY <1>2, SameVertex DEF Endpoint
  <2>. QED
    BY <2>2, <2>3, <2>4, <2>5
<1>3. Vertex(w, a) # Vertex(w, b)
  BY <1>1, SameVertex
<1>4. CASE IsRelay(w, a.node) \/ IsRelay(w, b.node)
  <2>1. ~HdReachable(w, a.node, b.node)
    BY <1>4 DEF HdReachable
  <2>2. ~Joined(x, y, H, Vertex(w, a), Vertex(w, b))
    <3>1. CASE IsRelay(w, a.node)
      BY <1>2, <1>3, <3>1, NotJoined
    <3>2. CASE IsRelay(w, b.node)
      BY <1>2, <1>3, <3>2, NotJoined
    <3>. QED
      BY <1>4, <3>1, <3>2
  <2>. QED
    BY <2>1, <2>2
<1>5. CASE ~IsRelay(w, a.node) /\ ~IsRelay(w, b.node)
  <2>1. Vertex(w, a) = <<a.node>> /\ Vertex(w, b) = <<b.node>>
    BY <1>5 DEF Vertex
  <2>2. PICK D : /\ IsReachOf(D, w, a.node)
                 /\ HdReachable(w, a.node, b.node) <=>
                      ~IsRelay(w, a.node) /\ ~IsRelay(w, b.node) /\ b.node \in D
    BY <1>1, ReachableIsLeast
  <2>3. b.node \in D <=> Joined(x, y, H, <<a.node>>, <<b.node>>)
    BY <1>1, <1>5, <2>2, ReachIsJoined
  <2>. QED
    BY <1>5, <2>1, <2>2, <2>3
<1>. QED
  BY <1>4, <1>5

---------------------------------------------------------------------------
(* The collision domains stay trees.                                        *)

ForestInv == phase = "running" => Forest(world)

LEMMA ForestOfSame ==
  ASSUME NEW v, NEW w, SameGraphOf(v, w), Forest(w) PROVE Forest(v)
BY DEF SameGraphOf, Forest

LEMMA NextForest == TopologyInv /\ ForestInv /\ [Next]_vars => ForestInv'
<1> SUFFICES ASSUME TopologyInv, ForestInv, [Next]_vars, phase' = "running" PROVE Forest(world')
  BY DEF ForestInv, Forest, Bridges, Joined, Closed, EndA, EndB, HdSegments, Vertex, IsRelay, HasNode
<1>1. WorldOK(world) /\ (phase = "running" => PlugsAgree(world) /\ Forest(world))
  BY DEF TopologyInv, TypeOK, PortsAndCablesAgree, ForestInv
<1>2. ASSUME NEW m \in Models, BuildNode(m) \/ AddNode(m) PROVE Forest(world')
  <2>1. phase = "running" /\ world' = WithNode(world, m)
    BY <1>2 DEF BuildNode, AddNode
  <2>. QED
    BY <1>1, <2>1, GraphWithNode, ForestOfSame
<1>3. ASSUME NEW c \in Cables, NEW d \in Delays, NEW r \in Rates, AddHdSegment(c[1], c[2], d, r)
      PROVE  Forest(world')
  <2>1. PICK a, b : a = c[1] /\ b = c[2]
    OBVIOUS
  <2>2. /\ a \in Endpoint /\ b \in Endpoint /\ phase = "running"
        /\ ValidEndpoints(world, a, b, d) /\ {a, b} \cap DOMAIN world.plugs = {}
        /\ ~HdReachable(world, a.node, b.node)
        /\ world' = WithCable(world, "Hd", a, b, d, r)
    BY <1>3, <2>1, CablesTyped DEF AddHdSegment, PortsFree
  <2>3. ~Joined(EndA(world), EndB(world), HdSegments(world), Vertex(world, a), Vertex(world, b))
    BY <1>1, <2>2, EditCheck
  <2>. QED
    BY <1>1, <2>2, <2>3, ForestWithSegment
<1>4. ASSUME NEW a, NEW b, NEW d, NEW r, AddFdSegment(a, b, d, r) PROVE Forest(world')
  <2>1. phase = "running" /\ world' = WithCable(world, "Fd", a, b, d, r)
    BY <1>4 DEF AddFdSegment
  <2>2. GraphGrownBy(world', world, "Fd", a, b)
    BY <1>1, <2>1, GraphWithSegment
  <2>3. SubgraphOf(world', world)
    BY <2>2 DEF GraphGrownBy, SubgraphOf
  <2>. QED
    BY <1>1, <2>1, <2>3, SubgraphOfForest
<1>5. CASE Build
  <2>1. world' = AllPlugged(world) /\ BuildAccepts(world)
    BY <1>5 DEF Build
  <2>2. Forest(world)
    BY <1>1, <2>1, CablesOfWorld, ForestIsTrees DEF BuildAccepts
  <2>. QED
    BY <1>1, <2>1, <2>2, GraphAllPlugged, ForestOfSame
<1>6. ASSUME NEW s, RemoveSegment(s) PROVE Forest(world')
  <2>1. phase = "running" /\ world' = WithoutSegments(world, {s})
    BY <1>6 DEF RemoveSegment
  <2>. QED
    BY <1>1, <2>1, GraphWithout, SubgraphOfForest
<1>7. ASSUME NEW n, RemoveNode(n) PROVE Forest(world')
  <2>1. /\ phase = "running"
        /\ world' = WithoutNode(WithoutSegments(world, SegmentsIncidentTo(world, n)), n)
    BY <1>7 DEF RemoveNode
  <2>2. SubgraphOf(world', world)
    BY <1>1, <2>1, GraphWithoutNode
  <2>. QED
    BY <1>1, <2>1, <2>2, SubgraphOfForest
<1>8. ASSUME NEW s \in DOMAIN world.segments,
             \/ \E d \in Delays : SetSegmentDelay(s, d)
             \/ \E r \in Rates : SetSegmentRate(s, r)
      PROVE  Forest(world')
  <2>1. PICK x \in Segment : SamePlace(x, world.segments[s]) /\ world' = WithParameters(world, s, x)
    BY <1>1, <1>8, ParametersSet
  <2>2. phase = "running"
    BY <1>1, <1>8, ParametersSet
  <2>. QED
    BY <1>1, <2>1, <2>2, GraphWithParameters, ForestOfSame
<1>9. CASE UNCHANGED vars
  BY <1>1, <1>9 DEF vars
<1>10. ASSUME NEW kind, NEW a, NEW b, NEW d, NEW r, BuildSegment(kind, a, b, d, r) PROVE FALSE
  BY <1>10 DEF BuildSegment
<1>. QED
  BY <1>2, <1>3, <1>4, <1>5, <1>6, <1>7, <1>8, <1>9, <1>10 DEF Next, DisconnectPort

LEMMA ForestInvariant == Spec => [](TopologyInv /\ ForestInv)
<1>1. Init => ForestInv
  BY DEF Init, ForestInv
<1>2. TopologyInv /\ ForestInv /\ [Next]_vars => ForestInv'
  BY NextForest
<1>. QED
  BY <1>1, <1>2, TopologyInvariant, PTL DEF Spec

(* Axiom A7 for any number of nodes and segments and any sequence of edits: *)
(* what build counts, one vertex more than segments in each domain, is that *)
(* no segment is redundant, and the search of do_add_hd_segment lets in no   *)
(* segment that closes a cycle.                                             *)
THEOREM CollisionDomainsAlwaysTrees == Spec => []CollisionDomainsAreTrees
<1>1. TopologyInv /\ ForestInv => CollisionDomainsAreTrees
  <2> SUFFICES ASSUME Forest(world), NEW s \in HdSegments(world)
               PROVE  ~Linked(world, HdSegments(world) \ {s},
                              Vertex(world, world.segments[s].a), Vertex(world, world.segments[s].b))
    BY DEF CollisionDomainsAreTrees, ForestInv
  <2>1. PICK R : R = HdSegments(world) \ {s}
    OBVIOUS
  <2>2. R \in SUBSET DOMAIN world.segments /\ s \in DOMAIN world.segments
    BY <2>1 DEF HdSegments
  <2>3. ~Joined(EndA(world), EndB(world), R, EndA(world)[s], EndB(world)[s])
    BY <2>1 DEF Forest, Bridges
  <2>. QED
    BY <2>1, <2>2, <2>3, GraphOfWorld DEF EndA, EndB
<1>. QED
  BY <1>1, ForestInvariant, PTL

---------------------------------------------------------------------------
(* The check of an edit and the check of a build.                           *)

LEMMA CablesWithSegment ==
  ASSUME NEW w, WorldOK(w), NEW a, NEW b, NEW d, NEW r, a.node # b.node
  PROVE  CablesOK(WithSegment(w, "Hd", a, b, d, r))
<1>1. PICK v, kind : v = WithSegment(w, kind, a, b, d, r) /\ kind = "Hd"
  OBVIOUS
<1>2. /\ DOMAIN v.segments = DOMAIN w.segments \cup {w.segmentSlots}
      /\ v.segments[w.segmentSlots] = [kind |-> kind, a |-> a, b |-> b, delay |-> d, rate |-> r]
      /\ \A s \in DOMAIN w.segments : v.segments[s] = w.segments[s]
  BY <1>1, SegmentAdded
<1>3. v.segmentSlots = w.segmentSlots + 1
  <2>1. IsWorld(w)
    BY DEF WorldOK, IsWorld
  <2>2. PICK more : v = [w EXCEPT !.segments = more, !.segmentSlots = @ + 1]
    BY <1>1 DEF WithSegment
  <2>. QED
    BY <2>1, <2>2 DEF IsWorld
<1>4. v.segments[w.segmentSlots].a = a /\ v.segments[w.segmentSlots].b = b
  BY <1>2
<1>5. CablesOK(v)
  BY <1>2, <1>3, <1>4 DEF CablesOK, WorldOK, ValidEndpoints
<1>. QED
  BY <1>1, <1>5

LEMMA StillSingle ==
  ASSUME NEW w, WorldOK(w), PlugsAgree(w), NEW a, NEW b, NEW d, NEW r,
         {a, b} \cap DOMAIN w.plugs = {}
  PROVE  SingleAttachment(WithSegment(w, "Hd", a, b, d, r))
<1>1. PICK v, kind : v = WithSegment(w, kind, a, b, d, r) /\ kind = "Hd"
  OBVIOUS
<1>2. /\ DOMAIN v.segments = DOMAIN w.segments \cup {w.segmentSlots}
      /\ v.segments[w.segmentSlots] = [kind |-> kind, a |-> a, b |-> b, delay |-> d, rate |-> r]
      /\ \A s \in DOMAIN w.segments : v.segments[s] = w.segments[s]
  BY <1>1, SegmentAdded
<1>3. Ends(v, w.segmentSlots) = {a, b} /\ \A s \in DOMAIN w.segments : Ends(v, s) = Ends(w, s)
  BY <1>2 DEF Ends
<1>4. \A s \in DOMAIN w.segments : Ends(w, s) \subseteq DOMAIN w.plugs
  BY DEF PlugsAgree
<1>5. \A s, t \in DOMAIN w.segments : s # t => Ends(w, s) \cap Ends(w, t) = {}
  BY DEF PlugsAgree
<1>6. SingleAttachment(v)
  BY <1>2, <1>3, <1>4, <1>5 DEF SingleAttachment
<1>. QED
  BY <1>1, <1>6

(* Between free ports the search of do_add_hd_segment, which walks nodes,   *)
(* and the check of build, which counts vertices and edges, refuse the same  *)
(* half-duplex cables, at stations, repeaters and relays alike.              *)
THEOREM EditAlwaysAgreesWithBuild == Spec => []EditAgreesWithBuild
<1>1. TopologyInv /\ ForestInv => EditAgreesWithBuild
  <2> SUFFICES ASSUME TopologyInv, ForestInv, phase = "running", NEW c \in Cables,
                      ValidEndpoints(world, c[1], c[2], 1), PortsFree(c[1], c[2])
               PROVE  ~HdReachable(world, c[1].node, c[2].node)
                        <=> BuildAccepts(WithSegment(world, "Hd", c[1], c[2], 1, 1))
    BY DEF EditAgreesWithBuild
  <2>1. WorldOK(world) /\ PlugsAgree(world) /\ Forest(world)
    BY DEF TopologyInv, TypeOK, PortsAndCablesAgree, ForestInv
  <2>2. PICK a, b : a = c[1] /\ b = c[2]
    OBVIOUS
  <2>3. /\ a \in Endpoint /\ b \in Endpoint /\ ValidEndpoints(world, a, b, 1)
        /\ {a, b} \cap DOMAIN world.plugs = {} /\ a.node # b.node
    BY <2>2, TopologyAssumption DEF PortsFree, ValidEndpoints
  <2>4. PICK v : v = WithSegment(world, "Hd", a, b, 1, 1)
    OBVIOUS
  <2>5. HdReachable(world, a.node, b.node) <=>
          Joined(EndA(world), EndB(world), HdSegments(world), Vertex(world, a), Vertex(world, b))
    BY <2>1, <2>3, EditCheck
  <2>6. Forest(v) <=>
          ~Joined(EndA(world), EndB(world), HdSegments(world), Vertex(world, a), Vertex(world, b))
    BY <2>1, <2>4, ForestWithSegment
  <2>7. SingleAttachment(v) /\ CablesOK(v)
    BY <2>1, <2>3, <2>4, StillSingle, CablesWithSegment
  <2>8. BuildAccepts(v) <=> Forest(v)
    BY <2>7, ForestIsTrees DEF BuildAccepts
  <2>. QED
    BY <2>2, <2>4, <2>5, <2>6, <2>8
<1>. QED
  BY <1>1, ForestInvariant, PTL

---------------------------------------------------------------------------
(* The numbers of collision domains.                                        *)

NumberedByDomain(w, c) ==
  /\ DOMAIN c = HdSegments(w)
  /\ \A s, t \in HdSegments(w) :
       c[s] = c[t] <=> Joined(EndA(w), EndB(w), HdSegments(w), EndA(w)[s], EndA(w)[t])

LEMMA FreshDomainNumbers ==
  ASSUME NEW w, WorldOK(w) PROVE NumberedByDomain(w, CollisionIds(w))
<1> DEFINE H == HdSegments(w)
           x == EndA(w)
           y == EndB(w)
           first == [s \in H |-> Min(Domain(w, s))]
           F == {first[t] : t \in H}
<1>1. CablesOK(w) /\ H \in SUBSET Nat /\ IsFiniteSet(H)
  BY CablesOfWorld, HdSegmentsFinite
<1>2. CollisionIds(w) = [s \in H |-> Rank(F, first[s])]
  BY DEF CollisionIds
<1>3. \A s \in H : Domain(w, s) = Component(x, y, H, s)
  BY <1>1, DomainIsComponent
<1>4. \A s \in H : first[s] = Min(Component(x, y, H, s))
  BY <1>3
<1> HIDE DEF H, x, y, first
<1>5. ASSUME NEW s \in H PROVE first[s] \in H /\ Joined(x, y, H, x[s], x[first[s]])
  <2>1. PICK C : C = Component(x, y, H, s)
    OBVIOUS
  <2>2. C \in SUBSET Nat /\ C # {}
    BY <1>1, <2>1, JoinedSelf DEF Component
  <2>3. Min(C) \in C
    BY <2>2, LeastOfNumbers
  <2>. QED
    BY <1>4, <2>1, <2>3 DEF Component
<1>6. ASSUME NEW s \in H, NEW t \in H PROVE first[s] = first[t] <=> Joined(x, y, H, x[s], x[t])
  <2>1. ASSUME Joined(x, y, H, x[s], x[t]) PROVE Component(x, y, H, s) = Component(x, y, H, t)
    BY <2>1, JoinedBack, JoinedVia DEF Component
  <2>2. ASSUME first[s] = first[t] PROVE Joined(x, y, H, x[s], x[t])
    BY <1>5, <2>2, JoinedBack, JoinedVia
  <2>. QED
    BY <1>4, <2>1, <2>2
<1>7. F \in SUBSET Nat /\ IsFiniteSet(F)
  <2>1. F \in SUBSET H
    BY <1>5
  <2>. QED
    BY <1>1, <2>1, FS_Subset
<1>8. \A i, j \in F : Rank(F, i) = Rank(F, j) => i = j
  <2> HIDE DEF F
  <2>1. \A i, j \in F : i < j => Rank(F, i) < Rank(F, j)
    BY <1>7, RankOfNumber
  <2>2. \A i \in F : Rank(F, i) \in Int
    BY <1>7, RankOfNumber
  <2>. QED
    BY <1>7, <2>1, <2>2
<1>9. \A s, t \in H : Rank(F, first[s]) = Rank(F, first[t]) <=> Joined(x, y, H, x[s], x[t])
  BY <1>6, <1>8
<1>. QED
  BY <1>2, <1>9 DEF NumberedByDomain, H, x, y

DomainNumbersInv == phase = "running" => NumberedByDomain(world, ids.collision)

LEMMA NumberedInSame ==
  ASSUME NEW v, NEW w, SameGraphOf(v, w), NEW c, NumberedByDomain(w, c) PROVE NumberedByDomain(v, c)
BY DEF SameGraphOf, NumberedByDomain

LEMMA NextDomainNumbers ==
  TopologyInv /\ TopologyInv' /\ NumbersInv /\ DomainNumbersInv /\ [Next]_vars => DomainNumbersInv'
<1> SUFFICES ASSUME TopologyInv, TopologyInv', NumbersInv, DomainNumbersInv, [Next]_vars,
                    phase' = "running"
             PROVE  NumberedByDomain(world', ids'.collision)
  BY DEF DomainNumbersInv, NumberedByDomain, Joined, Closed, EndA, EndB, HdSegments, Vertex,
         IsRelay, HasNode
<1>1. /\ WorldOK(world) /\ WorldOK(world')
      /\ phase = "running" => NumberedByDomain(world, ids.collision)
  BY DEF TopologyInv, TypeOK, DomainNumbersInv, WorldOK, ValidEndpoints, HasEndpoint, HasNode
<1>2. ASSUME ids' = ResourceIds(world') PROVE NumberedByDomain(world', ids'.collision)
  <2>1. ids'.collision = CollisionIds(world')
    BY <1>2 DEF ResourceIds
  <2>. QED
    BY <1>1, <2>1, FreshDomainNumbers
<1>3. ASSUME NEW m \in Models, BuildNode(m) \/ AddNode(m)
      PROVE  NumberedByDomain(world', ids'.collision)
  <2>1. phase = "running" /\ world' = WithNode(world, m)
    BY <1>3 DEF BuildNode, AddNode
  <2>2. ids'.collision = ids.collision
    <3>1. ids = [collision |-> ids.collision, fd |-> ids.fd, egress |-> ids.egress]
      BY DEF NumbersInv
    <3>2. PICK more : ids' = [ids EXCEPT !.egress = more] \/ ids' = ids
      BY <1>3, <2>1 DEF BuildNode, AddNode
    <3>. QED
      BY <3>1, <3>2
  <2>. QED
    BY <1>1, <2>1, <2>2, GraphWithNode, NumberedInSame
<1>4. ASSUME NEW kind, NEW a, NEW b, NEW d, NEW r,
             \/ BuildSegment(kind, a, b, d, r)
             \/ AddHdSegment(a, b, d, r) \/ AddFdSegment(a, b, d, r)
      PROVE  NumberedByDomain(world', ids'.collision)
  BY <1>2, <1>4 DEF BuildSegment, AddHdSegment, AddFdSegment, Recomputed
<1>5. CASE Build
  BY <1>2, <1>5 DEF Build, Recomputed
<1>6. ASSUME NEW s, NEW n, RemoveSegment(s) \/ RemoveNode(n)
      PROVE  NumberedByDomain(world', ids'.collision)
  BY <1>2, <1>6 DEF RemoveSegment, RemoveNode, Recomputed
<1>7. ASSUME NEW s \in DOMAIN world.segments,
             \/ \E d \in Delays : SetSegmentDelay(s, d)
             \/ \E r \in Rates : SetSegmentRate(s, r)
      PROVE  NumberedByDomain(world', ids'.collision)
  <2>1. PICK x \in Segment : SamePlace(x, world.segments[s]) /\ world' = WithParameters(world, s, x)
    BY <1>1, <1>7, ParametersSet
  <2>2. phase = "running" /\ ids' = ids
    BY <1>1, <1>7, ParametersSet
  <2>. QED
    BY <1>1, <2>1, <2>2, GraphWithParameters, NumberedInSame
<1>8. CASE UNCHANGED vars
  BY <1>1, <1>8 DEF vars
<1>. QED
  BY <1>3, <1>4, <1>5, <1>6, <1>7, <1>8 DEF Next, DisconnectPort

(* Two half-duplex segments have one collision number exactly when signals  *)
(* pass from one to the other, and every live one has a number, however the  *)
(* segments come and go (collision_resource_of, reassign_resource_maps).     *)
THEOREM DomainsAlwaysShareIds == Spec => []DomainsShareIds
<1>1. Init => NumbersInv /\ DomainNumbersInv
  BY DEF Init, NumbersInv, DomainNumbersInv, EmptyMap
<1>2. /\ TopologyInv /\ TopologyInv' /\ NumbersInv /\ [Next]_vars => NumbersInv'
      /\ TopologyInv /\ TopologyInv' /\ NumbersInv /\ DomainNumbersInv /\ [Next]_vars => DomainNumbersInv'
  BY NextNumbers, NextDomainNumbers
<1>3. DomainNumbersInv => DomainsShareIds
  <2> SUFFICES ASSUME NumberedByDomain(world, ids.collision)
               PROVE  /\ DOMAIN ids.collision = HdSegments(world)
                      /\ \A s, t \in HdSegments(world) :
                           ids.collision[s] = ids.collision[t]
                             <=> Linked(world, HdSegments(world), Vertex(world, world.segments[s].a),
                                        Vertex(world, world.segments[t].a))
    BY DEF DomainsShareIds, DomainNumbersInv
  <2>1. HdSegments(world) \in SUBSET DOMAIN world.segments
    BY DEF HdSegments
  <2>2. \A u, v : Linked(world, HdSegments(world), u, v) <=>
                  Joined(EndA(world), EndB(world), HdSegments(world), u, v)
    BY <2>1, GraphOfWorld
  <2>3. \A s \in HdSegments(world) : EndA(world)[s] = Vertex(world, world.segments[s].a)
    BY <2>1 DEF EndA
  <2>. QED
    BY <2>2, <2>3 DEF NumberedByDomain
<1>. QED
  BY <1>1, <1>2, <1>3, TopologyInvariant, PTL DEF Spec

---------------------------------------------------------------------------
(* Sums of delays.                                                         *)

LEMMA SubsetInduction ==
  ASSUME NEW S, IsFiniteSet(S), NEW F, {} \in F,
         \A T \in SUBSET S : (T # {} /\ \A x \in T : T \ {x} \in F) => T \in F
  PROVE  SUBSET S \subseteq F
<1> SUFFICES ASSUME (SUBSET S) \ F # {} PROVE FALSE
  OBVIOUS
<1>. DEFINE size == [T \in SUBSET S |-> Cardinality(T)]
<1>1. \A T \in SUBSET S : IsFiniteSet(T) /\ size[T] = Cardinality(T) /\ size[T] \in Nat
  BY FS_Subset, FS_CardinalityType
<1>. HIDE DEF size
<1>2. PICK T \in (SUBSET S) \ F : \A R \in (SUBSET S) \ F : size[T] <= size[R]
  <2>1. PICK L : L = {size[T] : T \in (SUBSET S) \ F}
    OBVIOUS
  <2>2. \A T \in (SUBSET S) \ F : size[T] \in Nat
    BY <1>1
  <2>3. L \in SUBSET Nat
    BY <2>1, <2>2
  <2>4. L # {}
    <3>1. PICK T : T \in (SUBSET S) \ F
      OBVIOUS
    <3>2. size[T] \in L
      BY <2>1, <3>1
    <3>. QED
      BY <3>2
  <2>5. PICK n \in L : \A m \in L : n <= m
    BY <2>3, <2>4, LeastNumber
  <2>. QED
    BY <2>1, <2>5
<1>3. PICK x \in T : T \ {x} \notin F
  BY <1>2
<1>4. IsFiniteSet(T) /\ size[T] = Cardinality(T) /\ size[T] \in Nat
  BY <1>1, <1>2
<1>5. Cardinality(T \ {x}) = Cardinality(T) - 1
  BY <1>3, <1>4, FS_RemoveElement
<1>6. T \ {x} \in SUBSET S /\ size[T \ {x}] = Cardinality(T \ {x})
  BY <1>1, <1>2
<1>7. size[T] <= size[T \ {x}]
  BY <1>2, <1>3, <1>6
<1>. QED
  BY <1>4, <1>5, <1>6, <1>7

DelaySum(w, S) == MapThenSumSet(LAMBDA s : w.segments[s].delay, S)

FirstOf(T) == CHOOSE x \in T : TRUE

(* f adds the delays one by one.                                           *)
AddsUp(f, w, S) ==
  f = [T \in SUBSET S |-> IF T = {} THEN 0
                          ELSE w.segments[FirstOf(T)].delay + f[T \ {FirstOf(T)}]]

LEMMA FirstOfIsMember == ASSUME NEW T, T # {} PROVE FirstOf(T) \in T
BY DEF FirstOf

LEMMA SumExists ==
  ASSUME NEW w, WorldOK(w), NEW S \in SUBSET DOMAIN w.segments, IsFiniteSet(S)
  PROVE  \E f : AddsUp(f, w, S)
<1> DEFINE d(s) == w.segments[s].delay
           U == [SUBSET S -> Nat]
           zero == [T \in SUBSET S |-> 0]
           step == [p \in Nat \X U |->
                      [T \in SUBSET S |-> IF T = {} THEN 0
                                          ELSE d(FirstOf(T)) + p[2][T \ {FirstOf(T)}]]]
           n == Cardinality(S)
<1>1. \A s \in S : d(s) \in Nat
  BY DEF WorldOK, Segment
<1>2. zero \in U /\ step \in [Nat \X U -> U]
  <2>1. zero \in U
    OBVIOUS
  <2>2. ASSUME NEW g \in U, NEW T \in SUBSET S
        PROVE  (IF T = {} THEN 0 ELSE d(FirstOf(T)) + g[T \ {FirstOf(T)}]) \in Nat
    <3>1. CASE T = {}
      BY <3>1
    <3>2. CASE T # {}
      <4>1. FirstOf(T) \in S /\ T \ {FirstOf(T)} \in SUBSET S
        BY <3>2, FirstOfIsMember
      <4>2. d(FirstOf(T)) \in Nat /\ g[T \ {FirstOf(T)}] \in Nat
        BY <1>1, <4>1
      <4> HIDE DEF d
      <4>. QED
        BY <3>2, <4>2
    <3>. QED
      BY <3>1, <3>2
  <2> HIDE DEF d
  <2>3. \A g \in U : [T \in SUBSET S |-> IF T = {} THEN 0 ELSE d(FirstOf(T)) + g[T \ {FirstOf(T)}]] \in U
    BY <2>2
  <2>. QED
    BY <2>1, <2>3
<1>3. \A p \in Nat \X U : step[p] = [T \in SUBSET S |-> IF T = {} THEN 0
                                       ELSE d(FirstOf(T)) + p[2][T \ {FirstOf(T)}]]
  OBVIOUS
<1> HIDE DEF U, zero, step
<1>4. PICK h \in [Nat -> U] : Iterates(h, zero, step)
  BY <1>2, Iteration
<1>5. \A k \in Nat : h[k] \in U
  OBVIOUS
<1>6. \A k \in Nat : h[k + 1] = [T \in SUBSET S |-> IF T = {} THEN 0
                                       ELSE d(FirstOf(T)) + h[k][T \ {FirstOf(T)}]]
  BY <1>3, <1>4, <1>5 DEF Iterates
<1>7. h[0] = [T \in SUBSET S |-> 0]
  BY <1>4 DEF Iterates, zero
<1> DEFINE P == {k \in Nat : \A T \in SUBSET S : Cardinality(T) <= k => h[k][T] = h[k + 1][T]}
<1>8. \A T \in SUBSET S : IsFiniteSet(T) /\ Cardinality(T) \in Nat
  BY FS_Subset, FS_CardinalityType
<1> HIDE DEF d
<1>9. 0 \in P
  <2>1. \A T \in SUBSET S : Cardinality(T) <= 0 => T = {}
    BY <1>8, FS_EmptySet
  <2>2. h[0][{}] = 0 /\ h[0 + 1][{}] = 0
    BY <1>6, <1>7
  <2>. QED
    BY <2>1, <2>2
<1>10. ASSUME NEW k \in Nat, k \in P PROVE k + 1 \in P
  <2>1. SUFFICES ASSUME NEW T \in SUBSET S, Cardinality(T) <= k + 1
                 PROVE  h[k + 1][T] = h[(k + 1) + 1][T]
    OBVIOUS
  <2>0. /\ h[k + 1][T] = IF T = {} THEN 0 ELSE d(FirstOf(T)) + h[k][T \ {FirstOf(T)}]
        /\ h[(k + 1) + 1][T] = IF T = {} THEN 0 ELSE d(FirstOf(T)) + h[k + 1][T \ {FirstOf(T)}]
    <3>1. k + 1 \in Nat
      OBVIOUS
    <3>2. h[(k + 1) + 1] = [R \in SUBSET S |-> IF R = {} THEN 0
                                       ELSE d(FirstOf(R)) + h[k + 1][R \ {FirstOf(R)}]]
      BY <1>6, <3>1
    <3>. QED
      BY <1>6, <3>2
  <2>2. CASE T = {}
    BY <2>0, <2>2
  <2>3. CASE T # {}
    <3>1. PICK x : x = FirstOf(T)
      OBVIOUS
    <3>2. x \in T /\ T \ {x} \in SUBSET S
      BY <2>3, <3>1, FirstOfIsMember
    <3>3. Cardinality(T \ {x}) <= k
      <4>1. Cardinality(T \ {x}) = Cardinality(T) - 1
        BY <1>8, <3>2, FS_RemoveElement
      <4>. QED
        BY <1>8, <2>1, <4>1
    <3>4. h[k][T \ {x}] = h[k + 1][T \ {x}]
      BY <1>10, <3>2, <3>3
    <3>5. h[k + 1][T] = d(x) + h[k][T \ {x}] /\ h[(k + 1) + 1][T] = d(x) + h[k + 1][T \ {x}]
      BY <2>0, <2>3, <3>1
    <3>. QED
      BY <3>4, <3>5
  <2>. QED
    BY <2>2, <2>3
<1> HIDE DEF P
<1>11. Nat \subseteq P
  BY <1>9, <1>10, Induction
<1>12. n \in Nat /\ \A T \in SUBSET S : Cardinality(T) <= n
  BY FS_Subset, FS_CardinalityType
<1> HIDE DEF n
<1>13. \A T \in SUBSET S : h[n][T] = h[n + 1][T]
  BY <1>11, <1>12 DEF P
<1>14. h[n] = h[n + 1]
  <2>1. h[n] \in U /\ h[n + 1] \in U
    BY <1>5, <1>12
  <2>. QED
    BY <1>13, <2>1 DEF U
<1>15. AddsUp(h[n], w, S)
  BY <1>6, <1>12, <1>14 DEF AddsUp, d
<1>. QED
  BY <1>15

LEMMA SumsAgree ==
  ASSUME NEW w, NEW S, IsFiniteSet(S), NEW R, S \subseteq R,
         NEW f, AddsUp(f, w, S), NEW g, AddsUp(g, w, R)
  PROVE  \A T \in SUBSET S : f[T] = g[T]
<1> DEFINE F == {T \in SUBSET S : f[T] = g[T]}
<1>1. \A T \in SUBSET S : /\ f[T] = IF T = {} THEN 0 ELSE w.segments[FirstOf(T)].delay + f[T \ {FirstOf(T)}]
                          /\ g[T] = IF T = {} THEN 0 ELSE w.segments[FirstOf(T)].delay + g[T \ {FirstOf(T)}]
  BY DEF AddsUp
<1>2. {} \in F
  BY <1>1
<1>3. ASSUME NEW T \in SUBSET S, T # {}, \A x \in T : T \ {x} \in F PROVE T \in F
  <2>1. T \ {FirstOf(T)} \in F
    BY <1>3, FirstOfIsMember
  <2>. QED
    BY <1>1, <1>3, <2>1
<1> HIDE DEF F
<1>4. SUBSET S \subseteq F
  BY <1>2, <1>3, SubsetInduction
<1>. QED
  BY <1>4 DEF F

LEMMA SumIsAddedUp ==
  ASSUME NEW w, WorldOK(w), NEW S \in SUBSET DOMAIN w.segments, IsFiniteSet(S)
  PROVE  \E f : AddsUp(f, w, S) /\ DelaySum(w, S) = f[S]
<1>1. PICK f : AddsUp(f, w, S)
  BY SumExists
<1> DEFINE Body(r) == [T \in SUBSET S |-> IF T = {} THEN 0
                          ELSE w.segments[FirstOf(T)].delay + r[T \ {FirstOf(T)}]]
<1>2. PICK g : g = CHOOSE r : r = Body(r)
  OBVIOUS
<1>3. g = Body(g)
  <2>1. f = Body(f)
    BY <1>1 DEF AddsUp
  <2> HIDE DEF Body
  <2>. QED
    BY <1>2, <2>1
<1>4. DelaySum(w, S) = g[S]
  BY <1>2 DEF DelaySum, MapThenSumSet, MapThenFoldSet, FirstOf
<1>. QED
  BY <1>3, <1>4 DEF AddsUp

(* One more delay, whichever is taken first.                               *)
LEMMA SumOneMore ==
  ASSUME NEW w, WorldOK(w), NEW S \in SUBSET DOMAIN w.segments, IsFiniteSet(S),
         NEW s \in DOMAIN w.segments, s \notin S
  PROVE  /\ DelaySum(w, S) \in Nat
         /\ DelaySum(w, S \cup {s}) = w.segments[s].delay + DelaySum(w, S)
<1>1. PICK H : H = S \cup {s}
  OBVIOUS
<1>2. H \in SUBSET DOMAIN w.segments /\ IsFiniteSet(H)
  BY <1>1, FS_AddElement
<1>3. PICK f : AddsUp(f, w, H)
  BY <1>2, SumExists
<1>4. ASSUME NEW T \in SUBSET H PROVE DelaySum(w, T) = f[T]
  <2>1. T \in SUBSET DOMAIN w.segments /\ IsFiniteSet(T)
    BY <1>2, FS_Subset
  <2>2. PICK g : AddsUp(g, w, T) /\ DelaySum(w, T) = g[T]
    BY <2>1, SumIsAddedUp
  <2>3. \A R \in SUBSET T : g[R] = f[R]
    BY <1>3, <2>1, <2>2, SumsAgree
  <2>. QED
    BY <2>2, <2>3
<1> DEFINE d(t) == w.segments[t].delay
<1>5. \A T \in SUBSET H : f[T] = IF T = {} THEN 0 ELSE d(FirstOf(T)) + f[T \ {FirstOf(T)}]
  BY <1>3 DEF AddsUp
<1>6. \A t \in H : d(t) \in Nat
  BY <1>2 DEF WorldOK, Segment
<1> HIDE DEF d
<1> DEFINE N == {T \in SUBSET H : f[T] \in Nat}
<1>13. SUBSET H \subseteq N
  <2>1. {} \in N
    <3>1. f[{}] = 0
      BY <1>5
    <3>. QED
      BY <3>1
  <2>2. ASSUME NEW T \in SUBSET H, T # {}, \A x \in T : T \ {x} \in N PROVE T \in N
    <3>1. PICK x : x = FirstOf(T)
      OBVIOUS
    <3>2. x \in T /\ f[T] = d(x) + f[T \ {x}] /\ f[T \ {x}] \in Nat
      BY <1>5, <2>2, <3>1, FirstOfIsMember
    <3>. QED
      BY <1>6, <3>2
  <2> HIDE DEF N
  <2>. QED
    BY <1>2, <2>1, <2>2, SubsetInduction
<1>14. \A T \in SUBSET H : f[T] \in Nat
  BY <1>13
<1> HIDE DEF N
<1> DEFINE F == {T \in SUBSET H : \A t \in T : f[T] = d(t) + f[T \ {t}]}
<1>7. {} \in F
  OBVIOUS
<1>8. ASSUME NEW T \in SUBSET H, T # {}, \A x \in T : T \ {x} \in F PROVE T \in F
  <2>1. PICK x : x = FirstOf(T)
    OBVIOUS
  <2>2. x \in T /\ f[T] = d(x) + f[T \ {x}] /\ T \ {x} \in F
    BY <1>5, <1>8, <2>1, FirstOfIsMember
  <2>4. ASSUME NEW t \in T, t # x PROVE f[T] = d(t) + f[T \ {t}]
    <3>1. PICK R : R = T \ {x, t}
      OBVIOUS
    <3>2. T \ {x} \in F /\ T \ {t} \in F /\ (T \ {x}) \ {t} = R /\ (T \ {t}) \ {x} = R
      BY <1>8, <2>2, <3>1
    <3>3. f[T \ {x}] = d(t) + f[R] /\ f[T \ {t}] = d(x) + f[R]
      BY <2>2, <2>4, <3>2
    <3>4. d(x) \in Nat /\ d(t) \in Nat /\ f[R] \in Nat
      <4>1. R \in SUBSET H
        BY <3>1
      <4>. QED
        BY <1>6, <1>14, <2>2, <4>1
    <3>. QED
      BY <2>2, <3>3, <3>4
  <2>. QED
    BY <2>2, <2>4
<1> HIDE DEF F
<1>9. SUBSET H \subseteq F
  BY <1>2, <1>7, <1>8, SubsetInduction
<1>10. H \ {s} = S /\ s \in H
  BY <1>1
<1>11. f[H] = d(s) + f[S] /\ f[S] \in Nat
  <2>1. H \in F /\ S \in SUBSET H
    BY <1>1, <1>9
  <2>. QED
    BY <1>10, <1>14, <2>1 DEF F
<1>12. DelaySum(w, H) = f[H] /\ DelaySum(w, S) = f[S]
  BY <1>1, <1>4
<1>. QED
  BY <1>1, <1>11, <1>12 DEF d

LEMMA SumOfNone ==
  ASSUME NEW w PROVE DelaySum(w, {}) = 0
<1> DEFINE Body(r) == [T \in SUBSET {} |-> IF T = {} THEN 0
                          ELSE w.segments[FirstOf(T)].delay + r[T \ {FirstOf(T)}]]
<1>1. PICK f : f = [T \in SUBSET {} |-> 0]
  OBVIOUS
<1>2. f = Body(f)
  BY <1>1
<1>3. PICK g : g = CHOOSE r : r = Body(r)
  OBVIOUS
<1>4. g = Body(g)
  <2> HIDE DEF Body
  <2>. QED
    BY <1>2, <1>3
<1>5. g[{}] = 0
  BY <1>4
<1>6. DelaySum(w, {}) = g[{}]
  BY <1>3 DEF DelaySum, MapThenSumSet, MapThenFoldSet, FirstOf
<1>. QED
  BY <1>5, <1>6

---------------------------------------------------------------------------
(* Paths.                                                                  *)

PathIn(x, y, S, u, v) == {t \in S : ~Joined(x, y, S \ {t}, u, v)}

LEMMA PathOfWorld ==
  ASSUME NEW w, NEW u, NEW v
  PROVE  Path(w, u, v) = PathIn(EndA(w), EndB(w), HdSegments(w), u, v)
<1>1. SUFFICES ASSUME NEW s \in HdSegments(w)
               PROVE  Linked(w, HdSegments(w) \ {s}, u, v) <=>
                        Joined(EndA(w), EndB(w), HdSegments(w) \ {s}, u, v)
  BY DEF Path, PathIn
<1>2. PICK R : R = HdSegments(w) \ {s}
  OBVIOUS
<1>3. R \in SUBSET DOMAIN w.segments
  BY <1>2 DEF HdSegments
<1>. QED
  BY <1>2, <1>3, GraphOfWorld

LongerBy(x, y, S, root, u, v, s) ==
  /\ PathIn(x, y, S, root, v) = PathIn(x, y, S, root, u) \cup {s}
  /\ s \notin PathIn(x, y, S, root, u)

(* The path to a neighbour that was reached otherwise than through the edge *)
(* between is longer by that edge.                                          *)
LEMMA PathGrows ==
  ASSUME NEW x, NEW y, NEW S, Bridges(x, y, S), NEW s \in S, NEW u, NEW v, NEW root,
         \/ u = x[s] /\ v = y[s]
         \/ u = y[s] /\ v = x[s],
         NEW E, E \subseteq S \ {s}, Joined(x, y, E, root, u)
  PROVE  LongerBy(x, y, S, root, u, v, s)
<1>1. Joined(x, y, S \ {s}, root, u)
  BY JoinedByMore
<1>2. ~Joined(x, y, S \ {s}, root, v)
  <2>1. SUFFICES ASSUME Joined(x, y, S \ {s}, root, v) PROVE FALSE
    OBVIOUS
  <2>2. PICK R : R = S \ {s}
    OBVIOUS
  <2>3. Joined(x, y, R, u, v) /\ Joined(x, y, R, v, u)
    BY <1>1, <2>1, <2>2, JoinedBack, JoinedVia
  <2>. QED
    BY <2>2, <2>3 DEF Bridges
<1>3. ASSUME NEW t \in S, t # s
      PROVE  Joined(x, y, S \ {t}, root, u) <=> Joined(x, y, S \ {t}, root, v)
  <2>1. PICK R : R = S \ {t}
    OBVIOUS
  <2>2. s \in R
    BY <1>3, <2>1
  <2>3. Joined(x, y, R, u, v) /\ Joined(x, y, R, v, u)
    BY <2>2, JoinedByEdge
  <2>. QED
    BY <2>1, <2>3, JoinedVia
<1>. QED
  BY <1>1, <1>2, <1>3 DEF PathIn, LongerBy

Between(w, P) ==
  {n \in DOMAIN w.nodes : w.nodes[n].kind = "Repeater" /\ Cardinality(P \cap HdSegmentsAt(w, n)) = 2}

DelayAlong(w, P) == DelaySum(w, P) + DeltaH * Cardinality(Between(w, P))

LEMMA PathDelayIsAlong ==
  ASSUME NEW w, NEW u, NEW v
  PROVE  PathDelay(w, u, v) = DelayAlong(w, Path(w, u, v))
BY DEF PathDelay, DelayAlong, DelaySum, Between

LEMMA NoPathNoDelay ==
  ASSUME NEW w PROVE DelayAlong(w, {}) = 0
<1>1. Between(w, {}) = {}
  <2>1. \A n : Cardinality({} \cap HdSegmentsAt(w, n)) = 0
    BY FS_EmptySet
  <2>. QED
    BY <2>1 DEF Between
<1>2. Cardinality(Between(w, {})) = 0
  BY <1>1, FS_EmptySet
<1>. QED
  BY <1>2, SumOfNone, TopologyAssumption DEF DelayAlong

(* One segment more, from a node where the path arrives with one segment,   *)
(* or starts, to one it does not touch.                                     *)
ArrivesAt(w, P, n) == \E r : P \cap HdSegmentsAt(w, n) = {r}

OneSegmentFurther(w, P, s, d, e) ==
  /\ (P \cup {s}) \cap HdSegmentsAt(w, e.node) = {s}
  /\ DelayAlong(w, P) \in Nat
  /\ DelayAlong(w, P \cup {s}) =
       DelayAlong(w, P)
         + (IF P # {} /\ w.nodes[d.node].kind = "Repeater" THEN DeltaH ELSE 0)
         + w.segments[s].delay

LEMMA AlongOneMore ==
  ASSUME NEW w, WorldOK(w), NEW P \in SUBSET HdSegments(w), NEW s, NEW d, NEW e,
         HdBetween(w, s, d, e), s \notin P, P \cap HdSegmentsAt(w, e.node) = {},
         P = {} \/ ArrivesAt(w, P, d.node)
  PROVE  OneSegmentFurther(w, P, s, d, e)
<1> DEFINE Q == P \cup {s}
           through == P # {} /\ w.nodes[d.node].kind = "Repeater"
           extra == IF through THEN {d.node} ELSE {}
<1>0. HdBetween(w, s, e, d)
  BY DEF HdBetween
<1>1. /\ d.node \in DOMAIN w.nodes /\ e.node \in DOMAIN w.nodes /\ d.node # e.node
      /\ s \in HdSegmentsAt(w, d.node) /\ s \in HdSegmentsAt(w, e.node)
  BY <1>0, FarFromBetween
<1>2. \A n : n # d.node /\ n # e.node => s \notin HdSegmentsAt(w, n)
  BY DEF HdBetween, HdSegmentsAt
<1>3. s \in HdSegments(w) /\ HdSegments(w) \in SUBSET DOMAIN w.segments /\ IsFiniteSet(HdSegments(w))
  BY CablesOfWorld, HdSegmentsFinite DEF HdBetween
<1>4. IsFiniteSet(P)
  BY <1>3, FS_Subset
<1>5. Between(w, Q) = Between(w, P) \cup extra /\ d.node \notin Between(w, P)
  <2> DEFINE before(n) == Cardinality(P \cap HdSegmentsAt(w, n))
             after(n) == Cardinality(Q \cap HdSegmentsAt(w, n))
  <2>1. ASSUME NEW n, n # d.node, n # e.node PROVE after(n) = before(n)
    <3>1. Q \cap HdSegmentsAt(w, n) = P \cap HdSegmentsAt(w, n)
      BY <1>2, <2>1
    <3>. QED
      BY <3>1
  <2>2. after(e.node) = 1 /\ before(e.node) = 0
    <3>1. Q \cap HdSegmentsAt(w, e.node) = {s}
      BY <1>1
    <3>2. Cardinality({s}) = 1
      BY FS_Singleton
    <3>. QED
      BY <3>1, <3>2, FS_EmptySet
  <2>3. before(d.node) # 2 /\ after(d.node) = IF P = {} THEN 1 ELSE 2
    <3>1. CASE P = {}
      <4>1. Q \cap HdSegmentsAt(w, d.node) = {s} /\ P \cap HdSegmentsAt(w, d.node) = {}
        BY <1>1, <3>1
      <4>2. Cardinality({s}) = 1
        BY FS_Singleton
      <4>3. after(d.node) = 1 /\ before(d.node) = 0
        BY <4>1, <4>2, FS_EmptySet
      <4>. QED
        BY <3>1, <4>3
    <3>2. CASE P # {}
      <4>1. PICK r : P \cap HdSegmentsAt(w, d.node) = {r}
        BY <3>2 DEF ArrivesAt
      <4>2. Q \cap HdSegmentsAt(w, d.node) = {r, s} /\ r # s
        BY <1>1, <4>1
      <4>3. Cardinality({r, s}) = 2 /\ Cardinality({r}) = 1
        BY <4>2, TwoMembers, FS_Singleton
      <4>4. after(d.node) = 2 /\ before(d.node) = 1
        BY <4>1, <4>2, <4>3
      <4>. QED
        BY <3>2, <4>4
    <3>. QED
      BY <3>1, <3>2
  <2>4. /\ Between(w, P) = {n \in DOMAIN w.nodes : w.nodes[n].kind = "Repeater" /\ before(n) = 2}
        /\ Between(w, Q) = {n \in DOMAIN w.nodes : w.nodes[n].kind = "Repeater" /\ after(n) = 2}
    BY DEF Between
  <2> HIDE DEF before, after, Q
  <2>5. ASSUME NEW n \in DOMAIN w.nodes
        PROVE  n \in Between(w, Q) <=> n \in Between(w, P) \/ n \in extra
    <3>1. CASE n = d.node
      BY <2>3, <2>4, <3>1
    <3>2. CASE n = e.node
      BY <1>1, <2>2, <2>4, <3>2
    <3>3. CASE n # d.node /\ n # e.node
      BY <2>1, <2>4, <3>3
    <3>. QED
      BY <3>1, <3>2, <3>3
  <2>. QED
    BY <1>1, <2>3, <2>4, <2>5
<1>6. PICK b : b = Cardinality(Between(w, P))
  OBVIOUS
<1>7. IsFiniteSet(Between(w, P))
  BY FiniteNodes, FS_Subset DEF Between
<1>8. b \in Nat /\ Cardinality(Between(w, Q)) = IF through THEN b + 1 ELSE b
  <2>1. b \in Nat
    BY <1>6, <1>7, FS_CardinalityType
  <2>2. CASE through
    <3>1. PICK B, n : B = Between(w, P) /\ n = d.node
      OBVIOUS
    <3>2. IsFiniteSet(B) /\ n \notin B /\ Between(w, Q) = B \cup {n} /\ b = Cardinality(B)
      BY <1>5, <1>6, <1>7, <2>2, <3>1
    <3>3. Cardinality(B \cup {n}) = Cardinality(B) + 1
      BY <3>2, OneMore
    <3>. QED
      BY <2>1, <2>2, <3>2, <3>3
  <2>3. CASE ~through
    <3>1. Between(w, Q) = Between(w, P)
      BY <1>5, <2>3
    <3>. QED
      BY <1>6, <2>1, <2>3, <3>1
  <2>. QED
    BY <2>1, <2>2, <2>3
<1>9. PICK z, a : z = DelaySum(w, P) /\ a = w.segments[s].delay
  OBVIOUS
<1>10. z \in Nat /\ DelaySum(w, Q) = a + z
  BY <1>3, <1>4, <1>9, SumOneMore
<1>11. a \in Nat /\ DeltaH \in Nat
  BY <1>3, <1>9, TopologyAssumption DEF WorldOK, Segment
<1>12. DelayAlong(w, P) = z + DeltaH * b
  BY <1>6, <1>9 DEF DelayAlong
<1>13. DelayAlong(w, Q) = (a + z) + DeltaH * (IF through THEN b + 1 ELSE b)
  BY <1>8, <1>10 DEF DelayAlong
<1>14. PICK m : m = DeltaH * b
  OBVIOUS
<1>15. m \in Nat /\ DeltaH * (b + 1) = m + DeltaH
  BY <1>8, <1>11, <1>14
<1>16. DelayAlong(w, P) = z + m /\ DelayAlong(w, P) \in Nat
  BY <1>10, <1>12, <1>14, <1>15
<1>17. DelayAlong(w, Q) = DelayAlong(w, P) + (IF through THEN DeltaH ELSE 0) + a
  <2>1. CASE through
    BY <1>10, <1>11, <1>13, <1>14, <1>15, <1>16, <2>1
  <2>2. CASE ~through
    BY <1>10, <1>11, <1>13, <1>14, <1>15, <1>16, <2>2
  <2>. QED
    BY <2>1, <2>2
<1>. QED
  BY <1>1, <1>9, <1>16, <1>17 DEF OneSegmentFurther

---------------------------------------------------------------------------
(* The search of bfs_hd_delays.                                             *)

Visitor == [node : Nat, port : Nat, delay : Nat]
Entry(r) == [node |-> r.node, port |-> r.port]
Found(f) == {f[i].node : i \in 1 .. Len(f)}
Inside(w, f) == {s \in HdSegments(w) : \A e \in Ends(w, s) : e.node \in Found(f)}
Longer(g, f) == Len(f) <= Len(g) /\ \A i \in 1 .. Len(f) : g[i] = f[i]

(* The i-th node found: joined to the root within what is found, and with   *)
(* the delay of the path, whose last segment is the only one at the node.   *)
PathFound(w, n, f, i) ==
  LET v == Vertex(w, Entry(f[i]))
      P == Path(w, <<n>>, v)
  IN /\ Joined(EndA(w), EndB(w), Inside(w, f), <<n>>, v)
     /\ P \subseteq Inside(w, f)
     /\ f[i].delay = DelayAlong(w, P)
     /\ IF i = 1 THEN P = {}
        ELSE \E s : Entry(f[i]) \in Ends(w, s) /\ P \cap HdSegmentsAt(w, f[i].node) = {s}

Searching(w, n, f) ==
  /\ f \in Seq(Visitor) /\ Len(f) >= 1 /\ f[1].node = n
  /\ \A i \in 1 .. Len(f) : f[i].node \in DOMAIN w.nodes /\ PathFound(w, n, f, i)
  /\ \A i, j \in 1 .. Len(f) : f[i].node = f[j].node => i = j

Root(w, n) == /\ WorldOK(w) /\ PlugsAgree(w) /\ Forest(w)
              /\ n \in DOMAIN w.nodes /\ ~IsRelay(w, n)

LEMMA SearchStarts ==
  ASSUME NEW w, NEW n, Root(w, n)
  PROVE  Searching(w, n, <<[node |-> n, port |-> 0, delay |-> 0]>>)
<1> DEFINE r == [node |-> n, port |-> 0, delay |-> 0]
           f == <<r>>
<1>1. n \in Nat /\ n \in DOMAIN w.nodes /\ ~IsRelay(w, n)
  BY FiniteNodes DEF Root
<1>2. r \in Visitor /\ r.node = n /\ r.delay = 0
  BY <1>1 DEF Visitor
<1>3. Entry(r).node = n
  BY DEF Entry
<1> HIDE DEF r
<1>4. f \in Seq(Visitor) /\ Len(f) = 1 /\ f[1] = r
  BY <1>2
<1>5. Vertex(w, Entry(r)) = <<n>>
  BY <1>1, <1>3 DEF Vertex
<1>6. Path(w, <<n>>, <<n>>) = {}
  <2>1. \A R : Joined(EndA(w), EndB(w), R, <<n>>, <<n>>)
    BY JoinedSelf
  <2>. QED
    BY <2>1, PathOfWorld DEF PathIn
<1>7. PathFound(w, n, f, 1)
  <2>1. Joined(EndA(w), EndB(w), Inside(w, f), <<n>>, <<n>>)
    BY JoinedSelf
  <2> HIDE DEF f
  <2>. QED
    BY <1>2, <1>4, <1>5, <1>6, <2>1, NoPathNoDelay DEF PathFound
<1> HIDE DEF f
<1>8. Searching(w, n, f)
  BY <1>1, <1>2, <1>4, <1>7 DEF Searching
<1>. QED
  BY <1>8 DEF f, r

LEMMA NewNodeFound ==
  ASSUME NEW w, NEW n, Root(w, n), NEW f, Searching(w, n, f), NEW k \in 1 .. Len(f),
         k = 1 \/ ~IsRelay(w, f[k].node),
         NEW s, NEW d, NEW e, HdBetween(w, s, d, e), d.node = f[k].node, e.node \notin Found(f),
         NEW r, r = [node |-> e.node, port |-> e.port,
                     delay |-> f[k].delay
                                 + (IF k # 1 /\ w.nodes[f[k].node].kind = "Repeater" THEN DeltaH ELSE 0)
                                 + w.segments[s].delay],
         NEW g, g = Append(f, r)
  PROVE  Searching(w, n, g)
<1> DEFINE x == EndA(w)
           y == EndB(w)
           H == HdSegments(w)
           P == Path(w, <<n>>, Vertex(w, Entry(f[k])))
<1>1. /\ WorldOK(w) /\ ~IsRelay(w, n) /\ n \in DOMAIN w.nodes /\ Bridges(x, y, H)
      /\ f \in Seq(Visitor) /\ Len(f) \in Nat /\ Len(f) >= 1 /\ f[1].node = n
      /\ PathFound(w, n, f, k)
  BY DEF Root, Searching, Forest
<1>2. /\ d.node \in DOMAIN w.nodes /\ e.node \in DOMAIN w.nodes /\ d.node # e.node
      /\ e \in Endpoint /\ d \in Endpoint /\ s \in H /\ s \in DOMAIN w.segments
      /\ d \in Ends(w, s) /\ e \in Ends(w, s)
  BY <1>1, FarFromBetween DEF HdBetween, HdSegments
<1>3. ~IsRelay(w, d.node) /\ Vertex(w, Entry(f[k])) = Vertex(w, d)
  <2>1. ~IsRelay(w, d.node)
    BY <1>1
  <2>. QED
    BY <2>1 DEF Vertex, Entry
<1>4. d.node \in Found(f)
  BY DEF Found
<1>5. s \notin Inside(w, f) /\ Inside(w, f) \subseteq H
  BY <1>2 DEF Inside
<1>6. \/ Vertex(w, d) = x[s] /\ Vertex(w, e) = y[s]
      \/ Vertex(w, d) = y[s] /\ Vertex(w, e) = x[s]
  BY <1>2 DEF HdBetween, Ends, EndA, EndB
<1>7. /\ Joined(x, y, Inside(w, f), <<n>>, Vertex(w, d)) /\ P \subseteq Inside(w, f)
      /\ f[k].delay = DelayAlong(w, P)
      /\ IF k = 1 THEN P = {}
         ELSE \E t : Entry(f[k]) \in Ends(w, t) /\ P \cap HdSegmentsAt(w, f[k].node) = {t}
  BY <1>1, <1>3 DEF PathFound
<1>8. Path(w, <<n>>, Vertex(w, e)) = P \cup {s} /\ s \notin P
  <2>1. /\ P = PathIn(x, y, H, <<n>>, Vertex(w, d))
        /\ Path(w, <<n>>, Vertex(w, e)) = PathIn(x, y, H, <<n>>, Vertex(w, e))
    BY <1>3, PathOfWorld
  <2>2. Inside(w, f) \subseteq H \ {s}
    BY <1>5
  <2> HIDE DEF x, y, H, P
  <2>3. /\ PathIn(x, y, H, <<n>>, Vertex(w, e)) = PathIn(x, y, H, <<n>>, Vertex(w, d)) \cup {s}
        /\ s \notin PathIn(x, y, H, <<n>>, Vertex(w, d))
    <3>1. PICK u, v, root, E : /\ u = Vertex(w, d) /\ v = Vertex(w, e) /\ root = <<n>>
                               /\ E = Inside(w, f)
      OBVIOUS
    <3>2. /\ \/ u = x[s] /\ v = y[s]
             \/ u = y[s] /\ v = x[s]
          /\ E \subseteq H \ {s} /\ Joined(x, y, E, root, u) /\ Bridges(x, y, H) /\ s \in H
      BY <1>1, <1>2, <1>6, <1>7, <2>2, <3>1
    <3>3. LongerBy(x, y, H, root, u, v, s)
      BY <3>2, PathGrows
    <3>. QED
      BY <3>1, <3>3 DEF LongerBy
  <2>. QED
    BY <2>1, <2>3
<1>9. P \cap HdSegmentsAt(w, e.node) = {}
  BY <1>7 DEF Inside, HdSegmentsAt
<1>10. (k = 1 => P = {}) /\ (k # 1 => P # {} /\ ArrivesAt(w, P, d.node))
  BY <1>7 DEF ArrivesAt
<1> HIDE DEF P, x, y, H
<1>11. /\ (P \cup {s}) \cap HdSegmentsAt(w, e.node) = {s}
       /\ DelayAlong(w, P \cup {s}) =
            DelayAlong(w, P)
              + (IF P # {} /\ w.nodes[d.node].kind = "Repeater" THEN DeltaH ELSE 0)
              + w.segments[s].delay
  <2>1. P \in SUBSET HdSegments(w)
    BY <1>5, <1>7 DEF H
  <2>2. P = {} \/ ArrivesAt(w, P, d.node)
    BY <1>10
  <2>3. OneSegmentFurther(w, P, s, d, e)
    BY <1>1, <1>8, <1>9, <2>1, <2>2, AlongOneMore
  <2>. QED
    BY <2>3 DEF OneSegmentFurther
<1>12. r.delay = DelayAlong(w, P \cup {s}) /\ r.node = e.node /\ Entry(r) = e
  <2>1. Entry(r) = e
    BY <1>2 DEF Entry, Endpoint
  <2>2. r.delay = f[k].delay
                    + (IF k # 1 /\ w.nodes[f[k].node].kind = "Repeater" THEN DeltaH ELSE 0)
                    + w.segments[s].delay
    OBVIOUS
  <2>. QED
    BY <1>7, <1>10, <1>11, <2>1, <2>2
<1>13. r \in Visitor
  <2>1. f[k] \in Visitor
    BY <1>1
  <2>2. f[k].delay \in Nat /\ DeltaH \in Nat /\ w.segments[s].delay \in Nat
    BY <1>1, <1>2, <2>1, TopologyAssumption DEF Visitor, WorldOK, Segment
  <2>3. r.delay \in Nat
    BY <2>2
  <2>4. r = [node |-> r.node, port |-> r.port, delay |-> r.delay] /\ r.node \in Nat /\ r.port \in Nat
    BY <1>2 DEF Endpoint
  <2>. QED
    BY <2>3, <2>4 DEF Visitor
<1>14. /\ g \in Seq(Visitor) /\ Len(g) = Len(f) + 1
       /\ g[Len(f) + 1] = r /\ \A i \in 1 .. Len(f) : g[i] = f[i]
  BY <1>1, <1>13
<1>15. Found(g) = Found(f) \cup {e.node}
  <2>1. 1 .. Len(g) = (1 .. Len(f)) \cup {Len(f) + 1}
    BY <1>1, <1>14
  <2>. QED
    BY <1>12, <1>14, <2>1 DEF Found
<1>16. Inside(w, f) \subseteq Inside(w, g) /\ s \in Inside(w, g)
  <2>1. Ends(w, s) = {d, e}
    BY DEF HdBetween
  <2>. QED
    BY <1>2, <1>4, <1>15, <2>1 DEF Inside, H
<1>17. ASSUME NEW i \in 1 .. Len(f) PROVE PathFound(w, n, g, i)
  <2>1. PathFound(w, n, f, i) /\ g[i] = f[i]
    BY <1>14 DEF Searching
  <2>2. Joined(EndA(w), EndB(w), Inside(w, g), <<n>>, Vertex(w, Entry(f[i])))
    BY <1>16, <2>1, JoinedByMore DEF PathFound
  <2>. QED
    BY <1>16, <2>1, <2>2 DEF PathFound
<1>18. PathFound(w, n, g, Len(f) + 1)
  <2>1. Joined(x, y, Inside(w, g), <<n>>, Vertex(w, e))
    <3>1. Joined(x, y, Inside(w, g), <<n>>, Vertex(w, d))
      BY <1>7, <1>16, JoinedByMore
    <3>2. Joined(x, y, Inside(w, g), Vertex(w, d), Vertex(w, e))
      BY <1>6, <1>16, JoinedByEdge
    <3>. QED
      BY <3>1, <3>2, JoinedVia
  <2>2. P \cup {s} \subseteq Inside(w, g)
    BY <1>7, <1>16
  <2>3. Len(f) + 1 # 1
    BY <1>1
  <2>4. g[Len(f) + 1] = r
    BY <1>14
  <2>. QED
    BY <1>2, <1>8, <1>11, <1>12, <2>1, <2>2, <2>3, <2>4 DEF PathFound, x, y
<1>19. \A i \in 1 .. Len(g) : g[i].node \in DOMAIN w.nodes /\ PathFound(w, n, g, i)
  <2>1. \A i \in 1 .. Len(g) : i \in 1 .. Len(f) \/ i = Len(f) + 1
    BY <1>1, <1>14
  <2>2. \A i \in 1 .. Len(f) : g[i].node \in DOMAIN w.nodes
    BY <1>14 DEF Searching
  <2>3. g[Len(f) + 1].node \in DOMAIN w.nodes
    BY <1>2, <1>12, <1>14
  <2>. QED
    BY <1>17, <1>18, <2>1, <2>2, <2>3
<1>20. \A i, j \in 1 .. Len(g) : g[i].node = g[j].node => i = j
  <2>1. \A i \in 1 .. Len(g) : i \in 1 .. Len(f) \/ i = Len(f) + 1
    BY <1>1, <1>14
  <2>2. \A i \in 1 .. Len(f) : g[i].node \in Found(f)
    BY <1>14 DEF Found
  <2>3. g[Len(f) + 1].node \notin Found(f)
    BY <1>12, <1>14
  <2>4. \A i, j \in 1 .. Len(f) : g[i].node = g[j].node => i = j
    BY <1>14 DEF Searching
  <2>. QED
    BY <2>1, <2>2, <2>3, <2>4
<1>21. Len(g) >= 1 /\ g[1].node = n
  <2>1. 1 \in 1 .. Len(f)
    BY <1>1
  <2>. QED
    BY <1>1, <1>14, <2>1
<1>. QED
  BY <1>14, <1>19, <1>20, <1>21 DEF Searching

(* What taking a segment of the k-th node does.                            *)
SearchedFurther(w, n, g, f, m) == Searching(w, n, g) /\ Longer(g, f) /\ m \in Found(g)

LEMMA SegmentTaken ==
  ASSUME NEW w, NEW n, Root(w, n), NEW f, Searching(w, n, f), NEW k \in 1 .. Len(f),
         k = 1 \/ ~IsRelay(w, f[k].node), NEW s \in HdSegmentsAt(w, f[k].node)
  PROVE  SearchedFurther(w, n, Discover(w, f, k, s), f, FarFrom(w, s, f[k].node).node)
<1>1. WorldOK(w) /\ f \in Seq(Visitor) /\ Len(f) \in Nat /\ DOMAIN f = 1 .. Len(f)
  BY DEF Root, Searching
<1>2. PICK d \in Ends(w, s) : s \in HdSegments(w) /\ d.node = f[k].node
  BY DEF HdSegmentsAt
<1>3. PICK e : HdBetween(w, s, d, e)
  <2>1. s \in DOMAIN w.segments
    BY <1>2 DEF HdSegments
  <2>2. w.segments[s].a # w.segments[s].b
    BY <1>1, <2>1 DEF WorldOK, ValidEndpoints
  <2>. QED
    BY <1>2, <2>2 DEF Ends, HdBetween
<1>4. FarFrom(w, s, f[k].node) = e
  BY <1>1, <1>2, <1>3, FarFromBetween
<1>5. PICK r : r = [node |-> e.node, port |-> e.port,
                    delay |-> f[k].delay
                                + (IF k # 1 /\ w.nodes[f[k].node].kind = "Repeater" THEN DeltaH ELSE 0)
                                + w.segments[s].delay]
  OBVIOUS
<1>6. Discover(w, f, k, s) = IF e.node \in Found(f) THEN f ELSE Append(f, r)
  BY <1>1, <1>4, <1>5 DEF Discover, Found
<1>7. CASE e.node \in Found(f)
  BY <1>1, <1>4, <1>6, <1>7 DEF SearchedFurther, Longer
<1>8. CASE e.node \notin Found(f)
  <2>1. PICK g : g = Append(f, r)
    OBVIOUS
  <2>2. Searching(w, n, g)
    BY <1>2, <1>3, <1>5, <1>8, <2>1, NewNodeFound
  <2>3. Longer(g, f)
    BY <1>1, <2>1 DEF Longer
  <2>4. e.node \in Found(g)
    <3>1. g[Len(f) + 1] = r /\ Len(g) = Len(f) + 1 /\ r.node = e.node
      BY <1>1, <1>5, <2>1
    <3>. QED
      BY <1>1, <3>1 DEF Found
  <2>. QED
    BY <1>4, <1>6, <1>8, <2>1, <2>2, <2>3, <2>4 DEF SearchedFurther
<1>. QED
  BY <1>7, <1>8

(* Taking a node from the queue takes all its segments, unless it is a     *)
(* relay away from the root.                                               *)
Expanded(w, f, j) == j = 1 \/ ~IsRelay(w, f[j].node)
Done(w, f, j) == \A s \in HdSegmentsAt(w, f[j].node) : FarFrom(w, s, f[j].node).node \in Found(f)

VisitedFurther(w, n, g, f, k) ==
  /\ Searching(w, n, g) /\ Longer(g, f)
  /\ k > Len(f) => g = f
  /\ k <= Len(f) /\ Expanded(w, f, k) => Done(w, g, k)

LEMMA LongerFinds ==
  ASSUME NEW f \in Seq(Visitor), NEW g \in Seq(Visitor), Longer(g, f)
  PROVE  Found(f) \subseteq Found(g)
<1>1. Len(f) \in Nat /\ Len(g) \in Nat
  OBVIOUS
<1>. QED
  BY <1>1 DEF Longer, Found

LEMMA LongerStill ==
  ASSUME NEW f \in Seq(Visitor), NEW g \in Seq(Visitor), NEW h \in Seq(Visitor),
         Longer(g, f), Longer(h, g)
  PROVE  Longer(h, f)
<1>1. Len(f) \in Nat /\ Len(g) \in Nat /\ Len(h) \in Nat
  OBVIOUS
<1>. QED
  BY <1>1 DEF Longer

LEMMA NodeVisited ==
  ASSUME NEW w, NEW n, Root(w, n), NEW f, Searching(w, n, f), NEW k \in Nat, k >= 1
  PROVE  VisitedFurther(w, n, Visit(w, f, k), f, k)
<1>1. WorldOK(w) /\ f \in Seq(Visitor) /\ Len(f) \in Nat
  BY DEF Root, Searching
<1>2. Longer(f, f)
  BY <1>1 DEF Longer
<1>3. CASE k > Len(f) \/ (k # 1 /\ IsRelay(w, f[k].node))
  <2>1. Visit(w, f, k) = f
    BY <1>3 DEF Visit
  <2>2. ~(k <= Len(f) /\ Expanded(w, f, k))
    BY <1>1, <1>3 DEF Expanded
  <2>. QED
    BY <1>2, <2>1, <2>2 DEF VisitedFurther
<1>4. CASE ~(k > Len(f) \/ (k # 1 /\ IsRelay(w, f[k].node)))
  <2> DEFINE u == f[k].node
             S == HdSegmentsAt(w, u)
             U == {g \in Seq(Visitor) : Searching(w, n, g) /\ Longer(g, f)}
             step == [p \in Nat \X U |-> IF p[1] \in S THEN Discover(w, p[2], k, p[1]) ELSE p[2]]
             Body(r) == [i \in Nat |-> IF i = 0 THEN f
                           ELSE IF i - 1 \in HdSegmentsAt(w, f[k].node) THEN Discover(w, r[i - 1], k, i - 1)
                           ELSE r[i - 1]]
  <2>1. k \in 1 .. Len(f) /\ (k = 1 \/ ~IsRelay(w, u))
    BY <1>1, <1>4
  <2>2. f \in U
    BY <1>1, <1>2
  <2>3. ASSUME NEW g \in U, NEW s \in S
        PROVE  /\ Discover(w, g, k, s) \in U
               /\ Found(g) \subseteq Found(Discover(w, g, k, s))
               /\ FarFrom(w, s, u).node \in Found(Discover(w, g, k, s))
    <3>1. Searching(w, n, g) /\ Longer(g, f) /\ g \in Seq(Visitor) /\ Len(g) \in Nat
      OBVIOUS
    <3>2. k \in 1 .. Len(g) /\ g[k] = f[k] /\ g[k].node = u
      BY <1>1, <2>1, <3>1 DEF Longer
    <3>3. s \in HdSegmentsAt(w, g[k].node) /\ (k = 1 \/ ~IsRelay(w, g[k].node))
      BY <2>1, <3>2
    <3>4. PICK h : h = Discover(w, g, k, s)
      OBVIOUS
    <3>5. SearchedFurther(w, n, h, g, FarFrom(w, s, g[k].node).node)
      BY <3>1, <3>2, <3>3, <3>4, SegmentTaken
    <3>6. Searching(w, n, h) /\ Longer(h, g) /\ FarFrom(w, s, u).node \in Found(h)
      BY <3>2, <3>5 DEF SearchedFurther
    <3>7. h \in Seq(Visitor)
      BY <3>6 DEF Searching
    <3>8. Longer(h, f) /\ Found(g) \subseteq Found(h)
      BY <1>1, <3>1, <3>6, <3>7, LongerStill, LongerFinds
    <3>. QED
      BY <3>4, <3>6, <3>7, <3>8
  <2>4. step \in [Nat \X U -> U]
    <3> SUFFICES ASSUME NEW i \in Nat, NEW g \in U
                 PROVE  (IF i \in S THEN Discover(w, g, k, i) ELSE g) \in U
      OBVIOUS
    <3> HIDE DEF U, S
    <3>. QED
      BY <2>3
  <2> HIDE DEF U, S
  <2>5. PICK g : g = Body(g) /\ Visit(w, f, k) = g[w.segmentSlots]
    <3>1. PICK h \in [Nat -> U] : Iterates(h, f, step)
      BY <2>2, <2>4, Iteration
    <3>2. h = Body(h)
      <4>1. ASSUME NEW i \in Nat PROVE h[i] = Body(h)[i]
        <5>1. CASE i = 0
          BY <3>1, <5>1 DEF Iterates
        <5>2. CASE i # 0
          <6>1. i - 1 \in Nat /\ (i - 1) + 1 = i
            BY <5>2
          <6>2. h[i] = step[<<i - 1, h[i - 1]>>]
            BY <3>1, <6>1 DEF Iterates
          <6>3. h[i - 1] \in U
            BY <3>1, <6>1
          <6>4. h[i] = IF i - 1 \in S THEN Discover(w, h[i - 1], k, i - 1) ELSE h[i - 1]
            BY <6>1, <6>2, <6>3
          <6>. QED
            BY <5>2, <6>4 DEF S
        <5>. QED
          BY <5>1, <5>2
      <4>. QED
        BY <3>1, <4>1
    <3>3. PICK g : g = CHOOSE r : r = Body(r)
      OBVIOUS
    <3>4. g = Body(g)
      <4> HIDE DEF Body
      <4>. QED
        BY <3>2, <3>3
    <3>5. Visit(w, f, k) = g[w.segmentSlots]
      BY <1>4, <3>3 DEF Visit
    <3>. QED
      BY <3>4, <3>5
  <2>6. g[0] = f
    BY <2>5
  <2>7. ASSUME NEW i \in Nat
        PROVE  g[i + 1] = IF i \in S THEN Discover(w, g[i], k, i) ELSE g[i]
    <3>1. i + 1 \in Nat /\ i + 1 # 0 /\ (i + 1) - 1 = i
      OBVIOUS
    <3>2. g[i + 1] = Body(g)[i + 1]
      BY <2>5
    <3>. QED
      BY <3>1, <3>2 DEF S
  <2> HIDE DEF Body, u
  <2> DEFINE T == {i \in Nat : g[i] \in U /\ \A s \in S : s < i => FarFrom(w, s, u).node \in Found(g[i])}
  <2>8. S \in SUBSET Nat /\ \A s \in S : s < w.segmentSlots
    <3>1. S \subseteq DOMAIN w.segments
      BY DEF S, HdSegmentsAt, HdSegments
    <3>. QED
      BY <1>1, <3>1 DEF WorldOK
  <2>9. 0 \in T
    <3>1. \A s \in S : ~(s < 0)
      BY <2>8
    <3>. QED
      BY <2>2, <2>6, <3>1
  <2>10. ASSUME NEW i \in Nat, i \in T PROVE i + 1 \in T
    <3>1. g[i] \in U /\ \A s \in S : s < i => FarFrom(w, s, u).node \in Found(g[i])
      BY <2>10
    <3>2. \A s \in S : s < i + 1 => s < i \/ s = i
      BY <2>8
    <3>3. CASE i \in S
      <4>1. g[i + 1] = Discover(w, g[i], k, i)
        BY <2>7, <3>3
      <4>2. /\ g[i + 1] \in U /\ Found(g[i]) \subseteq Found(g[i + 1])
            /\ FarFrom(w, i, u).node \in Found(g[i + 1])
        BY <2>3, <3>1, <3>3, <4>1
      <4>. QED
        BY <3>1, <3>2, <4>2
    <3>4. CASE i \notin S
      <4>1. g[i + 1] = g[i]
        BY <2>7, <3>4
      <4>. QED
        BY <3>1, <3>2, <3>4, <4>1
    <3>. QED
      BY <3>3, <3>4
  <2> HIDE DEF T
  <2>11. Nat \subseteq T
    BY <2>9, <2>10, Induction
  <2>12. PICK h : h = g[w.segmentSlots]
    OBVIOUS
  <2>13. h \in U /\ \A s \in S : FarFrom(w, s, u).node \in Found(h)
    <3>1. w.segmentSlots \in T
      BY <1>1, <2>11 DEF WorldOK
    <3>. QED
      BY <2>8, <2>12, <3>1 DEF T
  <2>14. Searching(w, n, h) /\ Longer(h, f)
    BY <2>13 DEF U
  <2>15. h[k] = f[k]
    BY <2>1, <2>14 DEF Longer
  <2>16. Done(w, h, k)
    BY <2>13, <2>15 DEF Done, S, u
  <2>17. ~(k > Len(f))
    BY <1>4
  <2>18. VisitedFurther(w, n, h, f, k)
    BY <2>14, <2>16, <2>17 DEF VisitedFurther
  <2>. QED
    BY <2>5, <2>12, <2>18
<1>. QED
  BY <1>3, <1>4

(* The whole search: there are at most as many nodes in the queue as there  *)
(* are nodes, so all of them have been taken from it.                       *)
SearchedAll(w, n, f) == Searching(w, n, f) /\ \A j \in 1 .. Len(f) : Expanded(w, f, j) => Done(w, f, j)

LEMMA QueueIsShort ==
  ASSUME NEW w, NEW n, Root(w, n), NEW f, Searching(w, n, f)
  PROVE  Len(f) <= Cardinality(DOMAIN w.nodes)
<1> DEFINE N == DOMAIN w.nodes
           J == 1 .. Len(f)
           node == [i \in J |-> f[i].node]
<1>1. Len(f) \in Nat /\ IsFiniteSet(N)
  BY FiniteNodes DEF Root, Searching
<1>2. node \in Injection(J, N)
  <2>1. node \in [J -> N]
    BY DEF Searching
  <2>2. \A i, j \in J : node[i] = node[j] => i = j
    BY DEF Searching
  <2> HIDE DEF node
  <2>. QED
    BY <2>1, <2>2 DEF Injection, IsInjective
<1>3. Cardinality(J) = Len(f)
  <2>1. PICK l : l = Len(f) /\ l \in Nat
    BY <1>1
  <2>2. Cardinality(1 .. l) = l
    <3>1. PICK a : a = 1 /\ a \in Int
      OBVIOUS
    <3>2. Cardinality(a .. l) = IF a > l THEN 0 ELSE l - a + 1
      <4>1. l \in Int
        BY <2>1
      <4>. QED
        BY <3>1, <4>1, FS_Interval
    <3>. QED
      BY <2>1, <3>1, <3>2
  <2>. QED
    BY <2>1, <2>2
<1> HIDE DEF node, J, N
<1>4. Cardinality(J) <= Cardinality(N)
  BY <1>1, <1>2, FS_Injection
<1>. QED
  BY <1>3, <1>4 DEF N

LEMMA SearchedThrough ==
  ASSUME NEW w, NEW n, Root(w, n)
  PROVE  \E f : SearchedAll(w, n, f) /\ BfsHdDelays(w, n) = Tail(f)
<1> DEFINE start == <<[node |-> n, port |-> 0, delay |-> 0]>>
           U == {g \in Seq(Visitor) : Searching(w, n, g)}
           step == [p \in Nat \X U |-> Visit(w, p[2], p[1] + 1)]
           N == Cardinality(DOMAIN w.nodes)
           Body(r) == [k \in Nat |-> IF k = 0 THEN <<[node |-> n, port |-> 0, delay |-> 0]>>
                                     ELSE Visit(w, r[k - 1], k)]
<1>1. start \in U
  BY SearchStarts DEF Searching
<1>2. ASSUME NEW g \in U, NEW k \in Nat
      PROVE  Visit(w, g, k + 1) \in U /\ VisitedFurther(w, n, Visit(w, g, k + 1), g, k + 1)
  <2>1. PICK h, m : h = Visit(w, g, k + 1) /\ m = k + 1
    OBVIOUS
  <2>2. VisitedFurther(w, n, h, g, m)
    BY <2>1, NodeVisited
  <2>3. h \in U
    BY <2>2 DEF VisitedFurther, Searching
  <2>. QED
    BY <2>1, <2>2, <2>3
<1>3. step \in [Nat \X U -> U]
  <2> HIDE DEF U
  <2>. QED
    BY <1>2
<1> HIDE DEF U
<1>4. PICK g : g = Body(g) /\ BfsHdDelays(w, n) = Tail(g[N])
  <2>1. PICK h \in [Nat -> U] : Iterates(h, start, step)
    BY <1>1, <1>3, Iteration
  <2>2. h = Body(h)
    <3>1. ASSUME NEW i \in Nat PROVE h[i] = Body(h)[i]
      <4>1. CASE i = 0
        BY <2>1, <4>1 DEF Iterates
      <4>2. CASE i # 0
        <5>1. i - 1 \in Nat /\ (i - 1) + 1 = i
          BY <4>2
        <5>2. h[i] = step[<<i - 1, h[i - 1]>>]
          BY <2>1, <5>1 DEF Iterates
        <5>3. h[i - 1] \in U
          BY <2>1, <5>1
        <5>4. h[i] = Visit(w, h[i - 1], i)
          BY <5>1, <5>2, <5>3
        <5>. QED
          BY <4>2, <5>4
      <4>. QED
        BY <4>1, <4>2
    <3>. QED
      BY <2>1, <3>1
  <2>3. PICK g : g = CHOOSE r : r = Body(r)
    OBVIOUS
  <2>4. g = Body(g)
    <3> HIDE DEF Body
    <3>. QED
      BY <2>2, <2>3
  <2>5. BfsHdDelays(w, n) = Tail(g[N])
    BY <2>3 DEF BfsHdDelays
  <2>. QED
    BY <2>4, <2>5
<1>5. g[0] = start
  BY <1>4
<1>6. ASSUME NEW i \in Nat PROVE g[i + 1] = Visit(w, g[i], i + 1)
  <2>1. i + 1 \in Nat /\ i + 1 # 0 /\ (i + 1) - 1 = i
    OBVIOUS
  <2>2. g[i + 1] = Body(g)[i + 1]
    BY <1>4
  <2>. QED
    BY <2>1, <2>2
<1> HIDE DEF Body, start, step
<1> DEFINE T == {k \in Nat : g[k] \in U /\ \A j \in 1 .. Len(g[k]) :
                               j <= k /\ Expanded(w, g[k], j) => Done(w, g[k], j)}
<1>7. 0 \in T
  <2>1. \A j \in 1 .. Len(g[0]) : ~(j <= 0)
    OBVIOUS
  <2>. QED
    BY <1>1, <1>5, <2>1
<1>8. ASSUME NEW k \in Nat, k \in T PROVE k + 1 \in T
  <2>1. PICK f, h : f = g[k] /\ h = g[k + 1]
    OBVIOUS
  <2>2. /\ f \in U
        /\ \A j \in 1 .. Len(f) : j <= k /\ Expanded(w, f, j) => Done(w, f, j)
    BY <1>8, <2>1
  <2>3. h \in U /\ VisitedFurther(w, n, h, f, k + 1)
    BY <1>2, <1>6, <2>1, <2>2
  <2>4. /\ f \in Seq(Visitor) /\ h \in Seq(Visitor) /\ Len(f) \in Nat /\ Len(h) \in Nat
        /\ Longer(h, f) /\ Found(f) \subseteq Found(h)
    BY <2>2, <2>3, LongerFinds DEF U, VisitedFurther
  <2>5. ASSUME NEW j \in 1 .. Len(h), j <= k + 1, Expanded(w, h, j) PROVE Done(w, h, j)
    <3>1. CASE k + 1 > Len(f)
      <4>1. h = f
        BY <2>3, <3>1 DEF VisitedFurther
      <4>2. j <= k
        BY <2>4, <3>1, <4>1
      <4>. QED
        BY <2>2, <2>5, <4>1, <4>2
    <3>2. CASE k + 1 <= Len(f)
      <4>1. j \in 1 .. Len(f) /\ h[j] = f[j]
        BY <2>4, <2>5, <3>2 DEF Longer
      <4>2. Expanded(w, f, j)
        BY <2>5, <4>1 DEF Expanded
      <4>3. CASE j = k + 1
        BY <2>3, <3>2, <4>2, <4>3 DEF VisitedFurther
      <4>4. CASE j # k + 1
        <5>1. j <= k
          BY <2>5, <4>4
        <5>2. Done(w, f, j)
          BY <2>2, <4>1, <4>2, <5>1
        <5>. QED
          BY <2>4, <4>1, <5>2 DEF Done
      <4>. QED
        BY <4>3, <4>4
    <3>. QED
      BY <2>4, <3>1, <3>2
  <2>. QED
    BY <2>1, <2>3, <2>5
<1> HIDE DEF T
<1>9. Nat \subseteq T
  BY <1>7, <1>8, Induction
<1>10. PICK f : f = g[N]
  OBVIOUS
<1>11. N \in Nat
  BY FiniteNodes, FS_CardinalityType DEF Root
<1>12. /\ f \in U
       /\ \A j \in 1 .. Len(f) : j <= N /\ Expanded(w, f, j) => Done(w, f, j)
  BY <1>9, <1>10, <1>11 DEF T
<1>13. Searching(w, n, f) /\ Len(f) \in Nat
  BY <1>12 DEF U
<1>14. Len(f) <= N
  BY <1>13, QueueIsShort
<1>15. \A j \in 1 .. Len(f) : j <= N
  BY <1>11, <1>13, <1>14
<1>16. SearchedAll(w, n, f)
  BY <1>12, <1>13, <1>15 DEF SearchedAll
<1>. QED
  BY <1>4, <1>10, <1>16

---------------------------------------------------------------------------
(* What the search finds is what hears the root.                           *)

LEMMA HeardAt ==
  ASSUME NEW w, NEW u, NEW n, NEW e
  PROVE  e \in Hears(w, u, n) <=>
           /\ e.node = n
           /\ \E s \in HdSegments(w) : e \in Ends(w, s)
           /\ Joined(EndA(w), EndB(w), HdSegments(w), u, Vertex(w, e))
<1>1. HdSegments(w) \in SUBSET DOMAIN w.segments
  BY DEF HdSegments
<1>2. Linked(w, HdSegments(w), u, Vertex(w, e))
        <=> Joined(EndA(w), EndB(w), HdSegments(w), u, Vertex(w, e))
  BY <1>1, GraphOfWorld
<1>. QED
  BY <1>2 DEF Hears

LEMMA OtherEnd ==
  ASSUME NEW w, WorldOK(w), NEW s \in HdSegments(w), NEW e \in Ends(w, s)
  PROVE  \E d : HdBetween(w, s, d, e)
<1>1. w.segments[s].a # w.segments[s].b
  BY DEF HdSegments, WorldOK, ValidEndpoints
<1>. QED
  BY <1>1 DEF Ends, HdBetween

LEMMA JoinedBetween ==
  ASSUME NEW w, NEW s, NEW d, NEW e, HdBetween(w, s, d, e)
  PROVE  Joined(EndA(w), EndB(w), HdSegments(w), Vertex(w, d), Vertex(w, e))
<1>1. s \in HdSegments(w) /\ s \in DOMAIN w.segments
  BY DEF HdBetween, HdSegments
<1>2. \/ EndA(w)[s] = Vertex(w, d) /\ EndB(w)[s] = Vertex(w, e)
      \/ EndA(w)[s] = Vertex(w, e) /\ EndB(w)[s] = Vertex(w, d)
  BY <1>1 DEF HdBetween, Ends, EndA, EndB
<1>. QED
  BY <1>1, <1>2, JoinedByEdge

(* A cable between two relays is a domain by itself.                       *)
LEMMA RelayCable ==
  ASSUME NEW w, WorldOK(w), PlugsAgree(w), NEW s, NEW d, NEW e, HdBetween(w, s, d, e),
         IsRelay(w, d.node), IsRelay(w, e.node), NEW n
  PROVE  ~Joined(EndA(w), EndB(w), HdSegments(w), <<n>>, Vertex(w, e))
<1> DEFINE X == {Vertex(w, d), Vertex(w, e)}
<1>1. HdBetween(w, s, e, d)
  BY DEF HdBetween
<1>2. ASSUME NEW t, NEW f, NEW g, HdBetween(w, t, f, g), Vertex(w, f) \in X
      PROVE  Vertex(w, g) \in X
  <2>1. CASE Vertex(w, f) = Vertex(w, d)
    <3>1. s = t /\ d = f
      BY <1>2, <2>1, OneSegmentAtRelayPort
    <3>2. g = e
      BY <1>2, <3>1 DEF HdBetween
    <3>. QED
      BY <3>2
  <2>2. CASE Vertex(w, f) = Vertex(w, e)
    <3>1. s = t /\ e = f
      BY <1>1, <1>2, <2>2, OneSegmentAtRelayPort
    <3>2. g = d
      BY <1>1, <1>2, <3>1 DEF HdBetween
    <3>. QED
      BY <3>2
  <2>. QED
    BY <1>2, <2>1, <2>2
<1>3. Closed(EndA(w), EndB(w), HdSegments(w), X)
  <2>1. SUFFICES ASSUME NEW t \in HdSegments(w) PROVE EndA(w)[t] \in X <=> EndB(w)[t] \in X
    BY DEF Closed
  <2>2. PICK f, g : HdBetween(w, t, f, g) /\ EndA(w)[t] = Vertex(w, f) /\ EndB(w)[t] = Vertex(w, g)
    BY EdgesOfWorld
  <2>3. HdBetween(w, t, g, f)
    BY <2>2 DEF HdBetween
  <2> HIDE DEF X
  <2>. QED
    BY <1>2, <2>2, <2>3
<1>4. <<n>> \notin X
  <2>1. \A p, q : <<n>> # <<p, q>>
    OBVIOUS
  <2>. QED
    BY <2>1 DEF Vertex
<1>. QED
  BY <1>3, <1>4, NotJoined

(* The i-th node found, other than the root, hears it at the port of entry, *)
(* by the last segment of the path.                                        *)
HeardByPath(w, n, r) ==
  LET e == Entry(r)
  IN /\ r.node # n /\ e \in Hears(w, <<n>>, r.node)
     /\ w.plugs[e] \in Path(w, <<n>>, Vertex(w, e))
     /\ r.delay = PathDelay(w, <<n>>, Vertex(w, e))

LEMMA FoundByPath ==
  ASSUME NEW w, NEW n, Root(w, n), NEW f, Searching(w, n, f), NEW i \in 1 .. Len(f), i # 1
  PROVE  HeardByPath(w, n, f[i])
<1> DEFINE e == Entry(f[i])
           v == Vertex(w, e)
           P == Path(w, <<n>>, v)
           m == f[i].node
<1>1. e.node = m
  BY DEF Entry
<1>2. m # n
  <2>1. Len(f) \in Nat /\ Len(f) >= 1 /\ f[1].node = n
    BY DEF Searching
  <2>2. 1 \in 1 .. Len(f)
    BY <2>1
  <2>. QED
    BY <2>1, <2>2 DEF Searching
<1>3. /\ Joined(EndA(w), EndB(w), Inside(w, f), <<n>>, v)
      /\ f[i].delay = DelayAlong(w, P)
      /\ \E s : e \in Ends(w, s) /\ P \cap HdSegmentsAt(w, m) = {s}
  BY DEF Searching, PathFound
<1>4. PICK s : e \in Ends(w, s) /\ P \cap HdSegmentsAt(w, m) = {s}
  BY <1>3
<1>5. s \in P /\ s \in HdSegments(w) /\ s \in DOMAIN w.segments
  BY <1>4 DEF HdSegmentsAt, HdSegments
<1>6. w.plugs[e] = s
  BY <1>4, <1>5 DEF Root, PlugsAgree
<1>7. Joined(EndA(w), EndB(w), HdSegments(w), <<n>>, v)
  <2>1. Inside(w, f) \subseteq HdSegments(w)
    BY DEF Inside
  <2>. QED
    BY <1>3, <2>1, JoinedByMore
<1>8. e \in Hears(w, <<n>>, m)
  BY <1>1, <1>4, <1>5, <1>7, HeardAt
<1>9. f[i].delay = PathDelay(w, <<n>>, v)
  BY <1>3, PathDelayIsAlong
<1>. QED
  BY <1>2, <1>5, <1>6, <1>8, <1>9 DEF HeardByPath

LEMMA FoundIsHeard ==
  ASSUME NEW w, NEW n, Root(w, n), NEW f, SearchedAll(w, n, f), NEW m, m # n
  PROVE  m \in Found(f) <=> Hears(w, <<n>>, m) # {}
<1>1. /\ WorldOK(w) /\ PlugsAgree(w) /\ n \in DOMAIN w.nodes /\ ~IsRelay(w, n)
      /\ Searching(w, n, f) /\ Len(f) \in Nat /\ Len(f) >= 1 /\ f[1].node = n
  BY DEF Root, SearchedAll, Searching
<1>2. ASSUME m \in Found(f) PROVE Hears(w, <<n>>, m) # {}
  <2>1. PICK i \in 1 .. Len(f) : f[i].node = m
    BY <1>2 DEF Found
  <2>2. i # 1
    BY <1>1, <2>1
  <2>. QED
    BY <1>1, <2>1, <2>2, FoundByPath DEF HeardByPath
<1>3. ASSUME Hears(w, <<n>>, m) # {} PROVE m \in Found(f)
  <2>1. PICK D : IsReachOf(D, w, n)
    BY <1>1, ReachableIsLeast
  <2>2. D \subseteq Found(f)
    <3>1. n \in Found(f)
      BY <1>1 DEF Found
    <3>2. ASSUME NEW u \in Found(f), NEW t \in DOMAIN w.nodes, <<u, t>> \in Neighbours(w)
          PROVE  t \in Found(f)
      <4>1. PICK j \in 1 .. Len(f) : f[j].node = u
        BY DEF Found
      <4>2. PICK s \in HdSegmentsAt(w, u) : ~IsRelay(w, u) /\ FarFrom(w, s, u).node = t
        BY <3>2 DEF Neighbours
      <4>3. Done(w, f, j)
        BY <4>1, <4>2 DEF SearchedAll, Expanded
      <4>. QED
        BY <4>1, <4>2, <4>3 DEF Done
    <3>. QED
      BY <2>1, <3>1, <3>2 DEF IsReachOf
  <2>3. PICK e : e \in Hears(w, <<n>>, m)
    BY <1>3
  <2>4. PICK s \in HdSegments(w) : e \in Ends(w, s)
    BY <2>3, HeardAt
  <2>5. e.node = m /\ Joined(EndA(w), EndB(w), HdSegments(w), <<n>>, Vertex(w, e))
    BY <2>3, HeardAt
  <2>6. PICK d : HdBetween(w, s, d, e)
    BY <1>1, <2>4, OtherEnd
  <2>7. HdBetween(w, s, e, d)
    BY <2>6 DEF HdBetween
  <2>8. m \in DOMAIN w.nodes /\ d.node \in DOMAIN w.nodes
    BY <1>1, <2>5, <2>6, FarFromBetween
  <2>9. CASE ~IsRelay(w, m)
    <3>1. Vertex(w, e) = <<m>>
      BY <2>5, <2>9 DEF Vertex
    <3>. QED
      BY <1>1, <2>1, <2>2, <2>5, <2>8, <2>9, <3>1, ReachIsJoined
  <2>10. CASE IsRelay(w, m) /\ ~IsRelay(w, d.node)
    <3>1. Vertex(w, d) = <<d.node>>
      BY <2>10 DEF Vertex
    <3>2. Joined(EndA(w), EndB(w), HdSegments(w), <<n>>, <<d.node>>)
      BY <2>5, <2>7, <3>1, JoinedBetween, JoinedVia
    <3>3. d.node \in D
      BY <1>1, <2>1, <2>8, <2>10, <3>2, ReachIsJoined
    <3>4. <<d.node, m>> \in Neighbours(w)
      BY <1>1, <2>5, <2>6, <2>10, NeighbourAlong
    <3>5. m \in D
      BY <2>1, <2>8, <3>3, <3>4 DEF IsReachOf
    <3>. QED
      BY <2>2, <3>5
  <2>11. CASE IsRelay(w, m) /\ IsRelay(w, d.node)
    BY <1>1, <2>5, <2>6, <2>11, RelayCable
  <2>. QED
    BY <2>9, <2>10, <2>11
<1>. QED
  BY <1>2, <1>3

---------------------------------------------------------------------------
(* The two properties of the maps, of any world.                           *)

PathsOK(w, hd) ==
  /\ DOMAIN hd = {p \in (DOMAIN w.nodes) \X DOMAIN w.nodes :
                    p[1] # p[2] /\ ~IsRelay(w, p[1]) /\ Hears(w, <<p[1]>>, p[2]) # {}}
  /\ \A p \in DOMAIN hd :
       LET e == [node |-> p[2], port |-> hd[p].port]
       IN /\ e \in Hears(w, <<p[1]>>, p[2])
          /\ w.plugs[e] \in Path(w, <<p[1]>>, Vertex(w, e))
          /\ hd[p].delay = PathDelay(w, <<p[1]>>, Vertex(w, e))

Hearing(w, e) == {n \in DOMAIN w.nodes : ~IsRelay(w, n) /\ Hears(w, Vertex(w, e), n) # {}}

EgressAt(w, egress, e) ==
  LET s == w.plugs[e]
  IN /\ egress[e].rate = w.segments[s].rate
     /\ {r.node : r \in egress[e].peers} =
          {FarEnd(w, s, e).node} \cup IF s \in HdSegments(w) THEN Hearing(w, e) ELSE {}

EgressOK(w, egress) ==
  /\ DOMAIN egress = RelayPorts(w) \cap DOMAIN w.plugs
  /\ \A e \in DOMAIN egress : EgressAt(w, egress, e)

IsReachFrom(R, w, n) ==
  /\ \A r \in R : HeardByPath(w, n, r)
  /\ \A m : (\E r \in R : r.node = m) <=> m # n /\ Hears(w, <<n>>, m) # {}

LEMMA ReachFromRoot ==
  ASSUME NEW w, NEW n, Root(w, n)
  PROVE  IsReachFrom(ToSet(BfsHdDelays(w, n)), w, n)
<1>1. PICK f : SearchedAll(w, n, f) /\ BfsHdDelays(w, n) = Tail(f)
  BY SearchedThrough
<1>2. /\ Searching(w, n, f) /\ f \in Seq(Visitor) /\ Len(f) \in Nat /\ Len(f) >= 1
      /\ f[1].node = n /\ \A i, j \in 1 .. Len(f) : f[i].node = f[j].node => i = j
  BY <1>1 DEF SearchedAll, Searching
<1>3. PICK g : g = Tail(f)
  OBVIOUS
<1>4. DOMAIN g = 1 .. (Len(f) - 1) /\ \A i \in 1 .. (Len(f) - 1) : g[i] = f[i + 1]
  BY <1>2, <1>3
<1>5. PICK R : R = ToSet(g)
  OBVIOUS
<1>6. \A r : r \in R <=> \E i \in 1 .. Len(f) : i # 1 /\ r = f[i]
  <2>1. R = {g[i] : i \in 1 .. (Len(f) - 1)}
    BY <1>4, <1>5 DEF ToSet
  <2>2. \A i \in 1 .. (Len(f) - 1) : i + 1 \in 1 .. Len(f) /\ i + 1 # 1
    BY <1>2
  <2>3. \A i \in 1 .. Len(f) : i # 1 => i - 1 \in 1 .. (Len(f) - 1) /\ (i - 1) + 1 = i
    BY <1>2
  <2>4. ASSUME NEW i \in 1 .. Len(f), i # 1 PROVE f[i] \in R
    <3>1. g[i - 1] = f[i] /\ i - 1 \in 1 .. (Len(f) - 1)
      BY <1>4, <2>3, <2>4
    <3>. QED
      BY <2>1, <3>1
  <2>5. ASSUME NEW i \in 1 .. (Len(f) - 1)
        PROVE  \E j \in 1 .. Len(f) : j # 1 /\ g[i] = f[j]
    BY <1>4, <2>2
  <2>. QED
    BY <2>1, <2>4, <2>5
<1>7. \A r \in R : HeardByPath(w, n, r)
  BY <1>2, <1>6, FoundByPath
<1>8. ASSUME NEW m PROVE (\E r \in R : r.node = m) <=> m # n /\ Hears(w, <<n>>, m) # {}
  <2>1. (\E r \in R : r.node = m) <=> m # n /\ m \in Found(f)
    <3>1. 1 \in 1 .. Len(f)
      BY <1>2
    <3>2. \A i \in 1 .. Len(f) : f[i].node = n <=> i = 1
      BY <1>2, <3>1
    <3>. QED
      BY <1>6, <3>2 DEF Found
  <2>2. m # n => (m \in Found(f) <=> Hears(w, <<n>>, m) # {})
    BY <1>1, FoundIsHeard
  <2>. QED
    BY <2>1, <2>2
<1>. QED
  BY <1>1, <1>3, <1>5, <1>7, <1>8 DEF IsReachFrom

LEMMA PathsComputed ==
  ASSUME NEW w, WorldOK(w), PlugsAgree(w), Forest(w)
  PROVE  /\ PathsOK(w, HdReach(w))
         /\ \A p \in DOMAIN HdReach(w) : HdReach(w)[p].node = p[2]
<1> DEFINE N == DOMAIN w.nodes
           M == {n \in N : ~IsRelay(w, n)}
           from == [n \in M |-> ToSet(BfsHdDelays(w, n))]
           pairs == {p \in (DOMAIN from) \X N : \E r \in from[p[1]] : r.node = p[2]}
           value(p) == CHOOSE r \in from[p[1]] : r.node = p[2]
<1>1. HdReach(w) = [p \in pairs |-> value(p)]
  BY DEF HdReach
<1>2. \A n \in M : IsReachFrom(from[n], w, n)
  <2>1. \A n \in M : IsReachFrom(ToSet(BfsHdDelays(w, n)), w, n)
    BY ReachFromRoot DEF Root
  <2>. QED
    BY <2>1
<1>3. DOMAIN from = M
  OBVIOUS
<1> HIDE DEF from
<1>4. pairs = {p \in N \X N : p[1] # p[2] /\ ~IsRelay(w, p[1]) /\ Hears(w, <<p[1]>>, p[2]) # {}}
  <2>1. ASSUME NEW p \in M \X N
        PROVE  (\E r \in from[p[1]] : r.node = p[2]) <=> p[1] # p[2] /\ Hears(w, <<p[1]>>, p[2]) # {}
    BY <1>2 DEF IsReachFrom
  <2>. QED
    BY <1>3, <2>1
<1>5. ASSUME NEW p \in pairs
      PROVE  value(p) \in from[p[1]] /\ value(p).node = p[2] /\ p[1] \in M
  BY <1>3
<1> HIDE DEF pairs, value
<1>6. PICK hd : hd = HdReach(w)
  OBVIOUS
<1>7. DOMAIN hd = pairs /\ \A p \in pairs : hd[p] = value(p)
  BY <1>1, <1>6
<1>8. ASSUME NEW p \in pairs
      PROVE  LET e == [node |-> p[2], port |-> hd[p].port]
             IN /\ e \in Hears(w, <<p[1]>>, p[2])
                /\ w.plugs[e] \in Path(w, <<p[1]>>, Vertex(w, e))
                /\ hd[p].delay = PathDelay(w, <<p[1]>>, Vertex(w, e))
  <2>1. PICK r : r = hd[p]
    OBVIOUS
  <2>2. r \in from[p[1]] /\ r.node = p[2] /\ p[1] \in M
    BY <1>5, <1>7, <2>1
  <2>3. HeardByPath(w, p[1], r)
    BY <1>2, <2>2 DEF IsReachFrom
  <2>4. Entry(r) = [node |-> p[2], port |-> r.port]
    BY <2>2 DEF Entry
  <2>. QED
    BY <2>1, <2>2, <2>3, <2>4 DEF HeardByPath
<1>9. DOMAIN hd = {p \in N \X N : p[1] # p[2] /\ ~IsRelay(w, p[1]) /\ Hears(w, <<p[1]>>, p[2]) # {}}
  BY <1>4, <1>7
<1>10. PathsOK(w, hd)
  BY <1>7, <1>8, <1>9 DEF PathsOK
<1>11. \A p \in DOMAIN hd : hd[p].node = p[2]
  BY <1>5, <1>7
<1>. QED
  BY <1>6, <1>10, <1>11

LEMMA PeersComputed ==
  ASSUME NEW w, NEW hd, \A p \in DOMAIN hd : hd[p].node = p[2],
         NEW s, NEW f, NEW P, P = PeersBehind(w, hd, s, f), NEW m
  PROVE  (\E r \in P : r.node = m) <=>
           \E p \in DOMAIN hd : p[1] = f.node /\ p[2] = m /\ ~IsRelay(w, m)
<1> DEFINE Q == {p \in DOMAIN hd : p[1] = f.node /\ ~IsRelay(w, p[2])}
           late(p) == [hd[p] EXCEPT !.delay = @ + w.segments[s].delay]
<1>1. P = {late(p) : p \in Q}
  BY DEF PeersBehind
<1>2. \A p \in Q : late(p).node = p[2]
  BY DEF late
<1> HIDE DEF late
<1>. QED
  BY <1>1, <1>2

(* Whoever hears the port hears the node at the other end of its cable, if  *)
(* that is not a relay; if it is, nobody else does.                        *)
LEMMA EgressHeard ==
  ASSUME NEW w, WorldOK(w), PlugsAgree(w), NEW s, NEW e, NEW f, HdBetween(w, s, e, f),
         IsRelay(w, e.node), NEW hd, PathsOK(w, hd), NEW m
  PROVE  m \in {f.node} \cup Hearing(w, e) <=>
           m = f.node \/ \E p \in DOMAIN hd : p[1] = f.node /\ p[2] = m /\ ~IsRelay(w, m)
<1>1. HdBetween(w, s, f, e)
  BY DEF HdBetween
<1>2. f.node \in DOMAIN w.nodes
  BY FarFromBetween
<1>3. CASE IsRelay(w, f.node)
  <2>1. Hearing(w, e) = {}
    <3>1. SUFFICES ASSUME NEW n, ~IsRelay(w, n), NEW d \in Hears(w, Vertex(w, e), n) PROVE FALSE
      BY DEF Hearing
    <3>2. d.node = n /\ Joined(EndA(w), EndB(w), HdSegments(w), Vertex(w, e), Vertex(w, d))
      BY HeardAt
    <3>3. Vertex(w, d) = <<n>>
      BY <3>1, <3>2 DEF Vertex
    <3>4. Joined(EndA(w), EndB(w), HdSegments(w), <<n>>, Vertex(w, e))
      BY <3>2, <3>3, JoinedBack
    <3>. QED
      BY <1>1, <1>3, <3>4, RelayCable
  <2>2. \A p \in DOMAIN hd : p[1] # f.node
    BY <1>3 DEF PathsOK
  <2>. QED
    BY <2>1, <2>2
<1>4. CASE ~IsRelay(w, f.node)
  <2>1. Vertex(w, f) = <<f.node>>
    BY <1>4 DEF Vertex
  <2>2. /\ Joined(EndA(w), EndB(w), HdSegments(w), Vertex(w, e), <<f.node>>)
        /\ Joined(EndA(w), EndB(w), HdSegments(w), <<f.node>>, Vertex(w, e))
    BY <1>1, <2>1, JoinedBetween
  <2>3. Hears(w, <<f.node>>, m) = Hears(w, Vertex(w, e), m)
    <3>1. ASSUME NEW d PROVE d \in Hears(w, <<f.node>>, m) <=> d \in Hears(w, Vertex(w, e), m)
      BY <2>2, HeardAt, JoinedVia
    <3>. QED
      BY <3>1
  <2>4. Hears(w, <<f.node>>, m) # {} => m \in DOMAIN w.nodes
    <3>1. SUFFICES ASSUME NEW d \in Hears(w, <<f.node>>, m) PROVE m \in DOMAIN w.nodes
      OBVIOUS
    <3>2. PICK t \in HdSegments(w) : d \in Ends(w, t)
      BY HeardAt
    <3>3. d.node = m
      BY HeardAt
    <3>. QED
      BY <3>2, <3>3, OtherEnd, FarFromBetween
  <2>5. m # f.node =>
          (<<f.node, m>> \in DOMAIN hd <=> m \in DOMAIN w.nodes /\ Hears(w, <<f.node>>, m) # {})
    BY <1>2, <1>4 DEF PathsOK
  <2>6. (\E p \in DOMAIN hd : p[1] = f.node /\ p[2] = m) <=> <<f.node, m>> \in DOMAIN hd
    <3>1. \A p \in DOMAIN hd : p = <<p[1], p[2]>>
      BY DEF PathsOK
    <3>2. <<f.node, m>>[1] = f.node /\ <<f.node, m>>[2] = m
      OBVIOUS
    <3>. QED
      BY <3>1, <3>2
  <2>7. m \in Hearing(w, e) <=> m \in DOMAIN w.nodes /\ ~IsRelay(w, m) /\ Hears(w, <<f.node>>, m) # {}
    BY <2>3 DEF Hearing
  <2>. QED
    BY <2>5, <2>6, <2>7
<1>. QED
  BY <1>3, <1>4

LEMMA EgressComputed ==
  ASSUME NEW w, WorldOK(w), PlugsAgree(w), NEW hd, PathsOK(w, hd),
         \A p \in DOMAIN hd : hd[p].node = p[2]
  PROVE  EgressOK(w, EgressReach(w, hd))
<1> DEFINE D == {e \in RelayPorts(w) : \E s \in DOMAIN w.segments : e \in Ends(w, s)}
           cable(e) == CHOOSE s \in DOMAIN w.segments : e \in Ends(w, s)
           value(e) == LET s == cable(e)
                           f == FarEnd(w, s, e)
                       IN [rate |-> w.segments[s].rate,
                           peers |-> {[node |-> f.node, port |-> f.port, delay |-> w.segments[s].delay]}
                                     \cup IF s \in HdSegments(w) THEN PeersBehind(w, hd, s, f) ELSE {}]
<1>1. EgressReach(w, hd) = [e \in D |-> value(e)]
  BY DEF EgressReach
<1>2. D = RelayPorts(w) \cap DOMAIN w.plugs
  BY DEF PlugsAgree
<1>3. ASSUME NEW e \in D
      PROVE  cable(e) \in DOMAIN w.segments /\ e \in Ends(w, cable(e)) /\ cable(e) = w.plugs[e]
  <2>1. cable(e) \in DOMAIN w.segments /\ e \in Ends(w, cable(e))
    OBVIOUS
  <2> HIDE DEF cable
  <2>. QED
    BY <1>2, <2>1 DEF PlugsAgree
<1>4. ASSUME NEW e \in D, NEW g, g = EgressReach(w, hd) PROVE EgressAt(w, g, e)
  <2>1. PICK s, f : s = cable(e) /\ f = FarEnd(w, s, e)
    OBVIOUS
  <2>2. s \in DOMAIN w.segments /\ e \in Ends(w, s) /\ s = w.plugs[e]
    BY <1>3, <2>1
  <2>3. PICK r, Q : /\ r = [node |-> f.node, port |-> f.port, delay |-> w.segments[s].delay]
                    /\ Q = IF s \in HdSegments(w) THEN PeersBehind(w, hd, s, f) ELSE {}
    OBVIOUS
  <2>4. g[e] = value(e)
    <3> HIDE DEF value
    <3>. QED
      BY <1>1, <1>4
  <2>5. value(e) = [rate |-> w.segments[s].rate, peers |-> {r} \cup Q]
    <3> HIDE DEF cable
    <3>. QED
      BY <2>1, <2>3
  <2>6. g[e].rate = w.segments[s].rate /\ g[e].peers = {r} \cup Q /\ r.node = f.node
    <3> HIDE DEF value
    <3>. QED
      BY <2>3, <2>4, <2>5
  <2> HIDE DEF value, cable, D
  <2>7. IsRelay(w, e.node)
    <3>1. e \in RelayPorts(w)
      BY DEF D
    <3>. QED
      BY <3>1 DEF RelayPorts, PortsOf
  <2>8. {q.node : q \in g[e].peers} = {f.node} \cup {q.node : q \in Q}
    BY <2>6
  <2>9. CASE s \in HdSegments(w)
    <3>1. HdBetween(w, s, e, f)
      <4>1. w.segments[s].a # w.segments[s].b
        BY <2>2 DEF WorldOK, ValidEndpoints
      <4>. QED
        BY <2>1, <2>2, <2>9, <4>1 DEF FarEnd, Ends, HdBetween
    <3>2. ASSUME NEW m
          PROVE  m \in {f.node} \cup {q.node : q \in Q} <=> m \in {f.node} \cup Hearing(w, e)
      <4>1. Q = PeersBehind(w, hd, s, f)
        BY <2>3, <2>9
      <4>2. (\E q \in Q : q.node = m) <=>
              \E p \in DOMAIN hd : p[1] = f.node /\ p[2] = m /\ ~IsRelay(w, m)
        BY <4>1, PeersComputed
      <4>3. m \in {f.node} \cup Hearing(w, e) <=>
              m = f.node \/ \E p \in DOMAIN hd : p[1] = f.node /\ p[2] = m /\ ~IsRelay(w, m)
        BY <2>7, <3>1, EgressHeard
      <4>. QED
        BY <4>2, <4>3
    <3>3. {f.node} \cup {q.node : q \in Q} = {f.node} \cup Hearing(w, e)
      BY <3>2
    <3>. QED
      BY <2>1, <2>2, <2>6, <2>8, <2>9, <3>3 DEF EgressAt
  <2>10. CASE s \notin HdSegments(w)
    <3>1. Q = {}
      BY <2>3, <2>10
    <3>2. {q.node : q \in g[e].peers} = {f.node} \cup {}
      BY <2>8, <3>1
    <3>. QED
      BY <2>1, <2>2, <2>6, <2>10, <3>2 DEF EgressAt
  <2>. QED
    BY <2>9, <2>10
<1>5. DOMAIN EgressReach(w, hd) = D
  <2> HIDE DEF value, D
  <2>. QED
    BY <1>1
<1> HIDE DEF D, value, cable
<1>. QED
  BY <1>2, <1>4, <1>5 DEF EgressOK

LEMMA ReachComputed ==
  ASSUME NEW w, WorldOK(w), PlugsAgree(w), Forest(w)
  PROVE  PathsOK(w, Reachability(w).hd) /\ EgressOK(w, Reachability(w).egress)
<1>1. PICK hd : hd = HdReach(w)
  OBVIOUS
<1>2. Reachability(w).hd = hd /\ Reachability(w).egress = EgressReach(w, hd)
  BY <1>1 DEF Reachability
<1>3. PathsOK(w, hd) /\ \A p \in DOMAIN hd : hd[p].node = p[2]
  BY <1>1, PathsComputed
<1>. QED
  BY <1>2, <1>3, EgressComputed

---------------------------------------------------------------------------
(* A new node has no cable: the maps, which are not computed again when it  *)
(* is added, stay right.                                                    *)

LEMMA SameDelays ==
  ASSUME NEW v, NEW w, WorldOK(v), WorldOK(w), v.segments = w.segments,
         NEW S \in SUBSET DOMAIN w.segments, IsFiniteSet(S)
  PROVE  DelaySum(v, S) = DelaySum(w, S)
<1>1. PICK f : AddsUp(f, w, S) /\ DelaySum(w, S) = f[S]
  BY SumIsAddedUp
<1>2. PICK g : AddsUp(g, v, S) /\ DelaySum(v, S) = g[S]
  BY SumIsAddedUp
<1>3. AddsUp(g, w, S)
  BY <1>2 DEF AddsUp
<1>4. f[S] = g[S]
  BY <1>1, <1>3, SumsAgree
<1>. QED
  BY <1>1, <1>2, <1>4

LEMMA OldNodesOnly ==
  ASSUME NEW v, NEW w, WorldOK(w), GrownByNode(v, w)
  PROVE  /\ \A s : Ends(v, s) = Ends(w, s)
         /\ HdSegments(v) = HdSegments(w)
         /\ \A n : HdSegmentsAt(v, n) = HdSegmentsAt(w, n)
         /\ \A s \in DOMAIN w.segments : \A e \in Ends(w, s) :
              e.node \in DOMAIN w.nodes /\ Vertex(v, e) = Vertex(w, e)
         /\ \A n \in DOMAIN w.nodes : IsRelay(v, n) <=> IsRelay(w, n)
         /\ EndA(v) = EndA(w) /\ EndB(v) = EndB(w)
<1>1. \A s : Ends(v, s) = Ends(w, s)
  BY DEF Ends, GrownByNode
<1>2. HdSegments(v) = HdSegments(w)
  BY DEF HdSegments, GrownByNode
<1>3. \A n : HdSegmentsAt(v, n) = HdSegmentsAt(w, n)
  BY <1>1, <1>2 DEF HdSegmentsAt
<1>4. \A n \in DOMAIN w.nodes : IsRelay(v, n) <=> IsRelay(w, n)
  BY DEF IsRelay, HasNode, GrownByNode
<1>5. \A e : e.node \in DOMAIN w.nodes => Vertex(v, e) = Vertex(w, e)
  BY <1>4 DEF Vertex
<1>6. \A s \in DOMAIN w.segments : \A e \in Ends(w, s) : e.node \in DOMAIN w.nodes
  BY DEF WorldOK, ValidEndpoints, HasEndpoint, HasNode, Ends
<1>7. \A s \in DOMAIN w.segments : w.segments[s].a \in Ends(w, s) /\ w.segments[s].b \in Ends(w, s)
  BY DEF Ends
<1>8. EndA(v) = EndA(w) /\ EndB(v) = EndB(w)
  BY <1>5, <1>6, <1>7 DEF EndA, EndB, GrownByNode
<1>. QED
  BY <1>1, <1>2, <1>3, <1>4, <1>5, <1>6, <1>8

LEMMA SameHearing ==
  ASSUME NEW v, NEW w, WorldOK(w), GrownByNode(v, w), NEW u, NEW n
  PROVE  /\ Hears(v, u, n) = Hears(w, u, n)
         /\ n \notin DOMAIN w.nodes => Hears(w, u, n) = {}
         /\ n # w.nodeSlots => Hears(w, <<w.nodeSlots>>, n) = {}
<1>1. \A s \in HdSegments(w) : s \in DOMAIN w.segments
  BY DEF HdSegments
<1>2. Hears(v, u, n) = Hears(w, u, n)
  <2>1. ASSUME NEW e PROVE e \in Hears(v, u, n) <=> e \in Hears(w, u, n)
    BY <1>1, HeardAt, OldNodesOnly
  <2>. QED
    BY <2>1
<1>3. ASSUME NEW e \in Hears(w, u, n) PROVE n \in DOMAIN w.nodes
  BY <1>1, HeardAt, OldNodesOnly
<1>4. ASSUME NEW e \in Hears(w, <<w.nodeSlots>>, n), n # w.nodeSlots PROVE FALSE
  <2> DEFINE X == {<<w.nodeSlots>>}
  <2>1. \A d : Vertex(w, d) \in X => d.node = w.nodeSlots
    <3>1. \A p, q, r : <<p>> # <<q, r>> /\ (<<p>> = <<q>> => p = q)
      OBVIOUS
    <3>. QED
      BY <3>1 DEF Vertex
  <2> HIDE DEF X
  <2>2. w.nodeSlots \notin DOMAIN w.nodes
    BY DEF GrownByNode
  <2>3. \A s \in HdSegments(w) : EndA(w)[s] \notin X /\ EndB(w)[s] \notin X
    <3>1. \A s \in HdSegments(w) : w.segments[s].a \in Ends(w, s) /\ w.segments[s].b \in Ends(w, s)
      BY DEF Ends
    <3>. QED
      BY <1>1, <2>1, <2>2, <3>1, OldNodesOnly DEF EndA, EndB
  <2>4. Closed(EndA(w), EndB(w), HdSegments(w), X)
    BY <2>3 DEF Closed
  <2>5. Vertex(w, e) \notin X
    BY <1>4, <2>1, HeardAt
  <2>. QED
    BY <1>4, <2>4, <2>5, HeardAt, NotJoined DEF X
<1>. QED
  BY <1>2, <1>3, <1>4

LEMMA SamePaths ==
  ASSUME NEW v, NEW w, WorldOK(w), WorldOK(v), GrownByNode(v, w), NEW u, NEW z
  PROVE  Path(v, u, z) = Path(w, u, z) /\ PathDelay(v, u, z) = PathDelay(w, u, z)
<1>1. Path(v, u, z) = Path(w, u, z)
  BY OldNodesOnly, PathOfWorld
<1>2. PICK P : P = Path(w, u, z)
  OBVIOUS
<1>3. P \subseteq HdSegments(w)
  BY <1>2 DEF Path
<1>4. P \in SUBSET DOMAIN w.segments /\ IsFiniteSet(P)
  BY <1>3, CablesOfWorld, HdSegmentsFinite, FS_Subset
<1>5. DelaySum(v, P) = DelaySum(w, P)
  BY <1>4, SameDelays DEF GrownByNode
<1>6. Between(v, P) = Between(w, P)
  <2>1. P \cap HdSegmentsAt(w, w.nodeSlots) = {}
    <3>1. \A s \in HdSegments(w) : s \in DOMAIN w.segments
      BY DEF HdSegments
    <3>2. w.nodeSlots \notin DOMAIN w.nodes
      BY DEF GrownByNode
    <3>. QED
      BY <3>1, <3>2, OldNodesOnly DEF HdSegmentsAt
  <2>2. Cardinality(P \cap HdSegmentsAt(w, w.nodeSlots)) = 0
    BY <2>1, FS_EmptySet
  <2>3. \A n : HdSegmentsAt(v, n) = HdSegmentsAt(w, n)
    BY OldNodesOnly
  <2> DEFINE count(n) == Cardinality(P \cap HdSegmentsAt(w, n))
  <2>4. Between(v, P) = {n \in DOMAIN v.nodes : v.nodes[n].kind = "Repeater" /\ count(n) = 2}
    BY <2>3 DEF Between
  <2>5. Between(w, P) = {n \in DOMAIN w.nodes : w.nodes[n].kind = "Repeater" /\ count(n) = 2}
    BY DEF Between
  <2>6. count(w.nodeSlots) = 0
    BY <2>2
  <2> HIDE DEF count
  <2>. QED
    BY <2>4, <2>5, <2>6 DEF GrownByNode
<1>7. DelayAlong(v, P) = DelayAlong(w, P)
  BY <1>5, <1>6 DEF DelayAlong
<1>. QED
  BY <1>1, <1>2, <1>7, PathDelayIsAlong

LEMMA PathsStillOK ==
  ASSUME NEW v, NEW w, WorldOK(w), WorldOK(v), GrownByNode(v, w), NEW hd, PathsOK(w, hd)
  PROVE  PathsOK(v, hd)
<1>1. /\ DOMAIN v.nodes = DOMAIN w.nodes \cup {w.nodeSlots} /\ w.nodeSlots \notin DOMAIN w.nodes
      /\ v.plugs = w.plugs
  BY DEF GrownByNode
<1>2. \A n \in DOMAIN w.nodes : IsRelay(v, n) <=> IsRelay(w, n)
  BY OldNodesOnly
<1>3. \A u, n : /\ Hears(v, u, n) = Hears(w, u, n)
                /\ n \notin DOMAIN w.nodes => Hears(w, u, n) = {}
                /\ n # w.nodeSlots => Hears(w, <<w.nodeSlots>>, n) = {}
  BY SameHearing
<1>4. DOMAIN hd = {p \in (DOMAIN v.nodes) \X DOMAIN v.nodes :
                     p[1] # p[2] /\ ~IsRelay(v, p[1]) /\ Hears(v, <<p[1]>>, p[2]) # {}}
  <2>1. DOMAIN hd = {p \in (DOMAIN w.nodes) \X DOMAIN w.nodes :
                     p[1] # p[2] /\ ~IsRelay(w, p[1]) /\ Hears(w, <<p[1]>>, p[2]) # {}}
    BY DEF PathsOK
  <2>2. ASSUME NEW p \in (DOMAIN v.nodes) \X DOMAIN v.nodes,
               p[1] # p[2], Hears(v, <<p[1]>>, p[2]) # {}
        PROVE  p \in (DOMAIN w.nodes) \X DOMAIN w.nodes
    <3>1. p[2] \in DOMAIN w.nodes
      BY <1>3, <2>2
    <3>2. p[1] # w.nodeSlots
      BY <1>3, <2>2
    <3>. QED
      BY <1>1, <3>1, <3>2
  <2>. QED
    BY <1>1, <1>2, <1>3, <2>1, <2>2
<1>5. ASSUME NEW p \in DOMAIN hd, NEW e, e = [node |-> p[2], port |-> hd[p].port]
      PROVE  /\ e \in Hears(v, <<p[1]>>, p[2])
             /\ v.plugs[e] \in Path(v, <<p[1]>>, Vertex(v, e))
             /\ hd[p].delay = PathDelay(v, <<p[1]>>, Vertex(v, e))
  <2>1. /\ e \in Hears(w, <<p[1]>>, p[2])
        /\ w.plugs[e] \in Path(w, <<p[1]>>, Vertex(w, e))
        /\ hd[p].delay = PathDelay(w, <<p[1]>>, Vertex(w, e))
    BY <1>5 DEF PathsOK
  <2>2. p[2] \in DOMAIN w.nodes
    BY DEF PathsOK
  <2>3. Vertex(v, e) = Vertex(w, e)
    BY <1>2, <1>5, <2>2 DEF Vertex
  <2>. QED
    BY <1>1, <1>3, <2>1, <2>3, SamePaths
<1>. QED
  BY <1>4, <1>5 DEF PathsOK

LEMMA EgressStillOK ==
  ASSUME NEW v, NEW w, WorldOK(w), PlugsAgree(w), GrownByNode(v, w), NEW egress, EgressOK(w, egress)
  PROVE  EgressOK(v, egress)
<1>1. /\ DOMAIN v.nodes = DOMAIN w.nodes \cup {w.nodeSlots} /\ w.nodeSlots \notin DOMAIN w.nodes
      /\ v.plugs = w.plugs /\ v.segments = w.segments
      /\ \A n \in DOMAIN w.nodes : v.nodes[n] = w.nodes[n]
  BY DEF GrownByNode
<1>2. \A n \in DOMAIN w.nodes : IsRelay(v, n) <=> IsRelay(w, n)
  BY OldNodesOnly
<1>3. \A e \in DOMAIN w.plugs : e.node \in DOMAIN w.nodes /\ w.plugs[e] \in DOMAIN w.segments
  BY OldNodesOnly DEF PlugsAgree
<1>4. RelayPorts(v) \cap DOMAIN v.plugs = RelayPorts(w) \cap DOMAIN w.plugs
  <2>1. \A n \in DOMAIN w.nodes : PortsOf(v, n) = PortsOf(w, n)
    BY <1>1 DEF PortsOf
  <2>2. \A u, n, e : e \in PortsOf(u, n) => e.node = n
    BY DEF PortsOf
  <2>3. ASSUME NEW e \in DOMAIN w.plugs PROVE e \in RelayPorts(v) <=> e \in RelayPorts(w)
    BY <1>1, <1>2, <1>3, <2>1, <2>2 DEF RelayPorts
  <2>. QED
    BY <1>1, <2>3
<1>5. ASSUME NEW e \in DOMAIN w.plugs PROVE Hearing(v, e) = Hearing(w, e)
  <2>1. Vertex(v, e) = Vertex(w, e)
    BY <1>2, <1>3 DEF Vertex
  <2>2. \A n : /\ Hears(v, Vertex(w, e), n) = Hears(w, Vertex(w, e), n)
               /\ n \notin DOMAIN w.nodes => Hears(w, Vertex(w, e), n) = {}
    BY SameHearing
  <2>. QED
    BY <1>1, <1>2, <2>1, <2>2 DEF Hearing
<1>6. HdSegments(v) = HdSegments(w) /\ \A s, e : FarEnd(v, s, e) = FarEnd(w, s, e)
  BY <1>1 DEF HdSegments, FarEnd
<1>7. ASSUME NEW e \in DOMAIN egress PROVE EgressAt(v, egress, e)
  <2>1. e \in DOMAIN w.plugs /\ EgressAt(w, egress, e)
    BY DEF EgressOK
  <2>. QED
    BY <1>1, <1>5, <1>6, <2>1 DEF EgressAt
<1>. QED
  BY <1>4, <1>7 DEF EgressOK

---------------------------------------------------------------------------
(* The maps of the engine are right for the world of this moment.          *)
ReachInv ==
  phase = "running" =>
    \A w, r : w = world /\ r = reach => PathsOK(w, r.hd) /\ EgressOK(w, r.egress)

LEMMA NextReach ==
  TopologyInv /\ TopologyInv' /\ ForestInv' /\ ReachInv /\ [Next]_vars => ReachInv'
<1> SUFFICES ASSUME TopologyInv, TopologyInv', ForestInv', ReachInv, [Next]_vars, phase' = "running",
                    NEW v, v = world', NEW r, r = reach'
             PROVE  PathsOK(v, r.hd) /\ EgressOK(v, r.egress)
  BY DEF ReachInv
<1>1. WorldOK(world) /\ (phase = "running" => PlugsAgree(world))
  BY DEF TopologyInv, TypeOK, PortsAndCablesAgree
<1>2. WorldOK(world') /\ PlugsAgree(world')
  BY DEF TopologyInv, TypeOK, PortsAndCablesAgree, PlugsAgree, Ends, WorldOK, ValidEndpoints,
         HasEndpoint, HasNode
<1>3. Forest(world')
  BY DEF ForestInv, Forest, Bridges, Joined, Closed, EndA, EndB, HdSegments, Vertex, IsRelay, HasNode
<1>4. WorldOK(v) /\ PlugsAgree(v) /\ Forest(v)
  BY <1>2, <1>3
<1>5. ASSUME reach' = Reachability(world') PROVE PathsOK(v, r.hd) /\ EgressOK(v, r.egress)
  <2>1. r = Reachability(v)
    BY <1>5
  <2>. QED
    BY <1>4, <2>1, ReachComputed
<1>6. ASSUME NEW m \in Models, BuildNode(m) \/ AddNode(m)
      PROVE  PathsOK(v, r.hd) /\ EgressOK(v, r.egress)
  <2>1. phase = "running" /\ world' = WithNode(world, m) /\ reach' = reach
    BY <1>6 DEF BuildNode, AddNode
  <2>2. PICK w : w = world
    OBVIOUS
  <2>3. PathsOK(w, r.hd) /\ EgressOK(w, r.egress) /\ WorldOK(w) /\ PlugsAgree(w)
    BY <1>1, <2>1, <2>2 DEF ReachInv
  <2>4. v = WithNode(w, m)
    BY <2>1, <2>2
  <2>5. GrownByNode(v, w)
    BY <2>3, <2>4, NodeAdded
  <2>. QED
    BY <1>4, <2>3, <2>5, PathsStillOK, EgressStillOK
<1>7. ASSUME NEW kind, NEW a, NEW b, NEW d, NEW q,
             \/ BuildSegment(kind, a, b, d, q)
             \/ AddHdSegment(a, b, d, q) \/ AddFdSegment(a, b, d, q)
      PROVE  PathsOK(v, r.hd) /\ EgressOK(v, r.egress)
  BY <1>5, <1>7 DEF BuildSegment, AddHdSegment, AddFdSegment, Recomputed
<1>8. CASE Build
  BY <1>5, <1>8 DEF Build, Recomputed
<1>9. ASSUME NEW s, NEW n, RemoveSegment(s) \/ RemoveNode(n)
      PROVE  PathsOK(v, r.hd) /\ EgressOK(v, r.egress)
  BY <1>5, <1>9 DEF RemoveSegment, RemoveNode, Recomputed
<1>10. ASSUME NEW s, NEW d, NEW q, SetSegmentDelay(s, d) \/ SetSegmentRate(s, q)
       PROVE  PathsOK(v, r.hd) /\ EgressOK(v, r.egress)
  BY <1>5, <1>10 DEF SetSegmentDelay, SetSegmentRate
<1>11. CASE UNCHANGED vars
  <2>1. phase = "running" /\ v = world /\ r = reach
    BY <1>11 DEF vars
  <2>. QED
    BY <2>1 DEF ReachInv
<1>. QED
  BY <1>6, <1>7, <1>8, <1>9, <1>10, <1>11 DEF Next, DisconnectPort

LEMMA ReachInvariant == Spec => []ReachInv
<1>1. Init => ReachInv
  BY DEF Init, ReachInv
<1>2. TopologyInv /\ TopologyInv' /\ ForestInv' /\ ReachInv /\ [Next]_vars => ReachInv'
  BY NextReach
<1>. QED
  BY <1>1, <1>2, ForestInvariant, PTL DEF Spec

(* After any sequence of edits the map of bfs_hd_delays has an entry for     *)
(* exactly the pairs of nodes between which signals pass, with the delay of  *)
(* the one path there is, repeaters on the way included, and the port at     *)
(* which that path ends.                                                    *)
THEOREM ReachAlwaysTreePath == Spec => []ReachIsTreePath
<1>1. ReachInv => ReachIsTreePath
  BY DEF ReachInv, PathsOK, ReachIsTreePath
<1>. QED
  BY <1>1, ReachInvariant, PTL

(* After any sequence of edits what a relay sends on a port reaches exactly  *)
(* the stations and repeaters of the domain behind it, and the node at the   *)
(* other end of its cable (precompute_bridge_egress_reach).                 *)
THEOREM EgressAlwaysReachesDomain == Spec => []EgressReachesDomain
<1>1. ReachInv => EgressReachesDomain
  BY DEF ReachInv, EgressOK, EgressAt, Hearing, EgressReachesDomain
<1>. QED
  BY <1>1, ReachInvariant, PTL
=============================================================================
