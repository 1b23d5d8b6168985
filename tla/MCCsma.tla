-------------------------------- MODULE MCCsma --------------------------------
(* Small instances of CsmaCd: who is wired to whom, and how far apart.       *)
EXTENDS CsmaCd, TLC

CONSTANTS a, b, c, x, y, sa, sb, sc, xy, f, g, h

(* Two stations at the ends of one cable.                                    *)
LinkAccess == (a :> sa) @@ (b :> sa)
LinkRoute == [p \in {<<a, b>>, <<b, a>>} |-> {sa}]
LinkDelay == [p \in {<<a, b>>, <<b, a>>} |-> 2]

(* Three stations on the ports of a repeater, each with a cable of its own,  *)
(* c farther away than a and b.                                              *)
HubAccess == (a :> sa) @@ (b :> sb) @@ (c :> sc)
HubPairs == {p \in {a, b, c} \X {a, b, c} : p[1] # p[2]}
HubRoute == [p \in HubPairs |-> {HubAccess[p[1]], HubAccess[p[2]]}]
HubDelayFar == [p \in HubPairs |-> IF c \in {p[1], p[2]} THEN 3 ELSE 2]

(* A half-duplex pair and, beside it, a full-duplex pair.                    *)
MixedAccess == LinkAccess @@ (x :> xy) @@ (y :> xy)
MixedRoute == LinkRoute @@ [p \in {<<x, y>>, <<y, x>>} |-> {xy}]
MixedDelay == [p \in DOMAIN MixedRoute |-> 2]

Ordered == {o \in [Node -> 0 .. (NumNodes - 1)] :
              \A m, n \in Node : o[m] = o[n] => m = n}
(* Stations in one order or its reverse: any two peers come either way.      *)
Ascending == CHOOSE o \in Ordered : TRUE
BothWays == {Ascending, [n \in Node |-> NumNodes - 1 - Ascending[n]]}
(* With two stations per domain there is one peer and only one order.        *)
AnyOne == {Ascending}

Long == [z \in Frame |-> 5]
(* Frames of different lengths, so that a signal shows which frame it is.    *)
Graded == [z \in Frame |-> CASE z = f -> 6 [] z = g -> 7 [] z = h -> 8]
AllFrames == [z \in Frame |-> "Frame"]
OneJam == [z \in Frame |-> IF z = f THEN "Jam" ELSE "Frame"]

(* What the host offers: any frame at any station; or one frame each.        *)
FewOffers == {0, 3} \X Node \X Frame
OneEach == {0, 1, 2, 9} \X {<<a, f>>, <<b, g>>, <<c, h>>}
OwnOffers == {<<o[1], o[2][1], o[2][2]>> : o \in {p \in OneEach : p[2][1] \in Node}}
HubOffers == {0, 2} \X {a} \X {f} \cup {0, 1} \X {b} \X {g} \cup {0, 3} \X {c} \X {h}
MixedOffers == {<<0, b, h>>, <<0, y, h>>, <<3, y, f>>} \cup {0, 1} \X {a} \X {g} \cup {<<0, x, g>>}

(* Every segment at one rate, with the slot of six bits; the gap and the   *)
(* limits of the backoff differ between the instances.                     *)
CONSTANTS IfgBits, AttemptLimit
Usual == [attempts |-> AttemptLimit, backoff |-> 1, jam |-> 2, ifg |-> IfgBits]
JustUsual == {Usual}
Uniform == [s \in Segment |-> 1]
SixBits == [t \in BitTimes |-> 6]
Unchanging == {Delay}
(* The instances use configurations that the code's constructors accept.     *)
Values == INSTANCE Quantities WITH PicosPerSecond <- 12, MaxQuantity <- 31
ASSUME ConfigsConstructible ==
  \A k \in Configs :
    /\ Values!NewBackoffPolicy(k.attempts, k.backoff) # {}
    /\ Values!NewJamPolicy(k.jam) # {} /\ Values!NewIfgPolicy(k.ifg) # {}

(* And they are built of media as Theorem 1 takes them.                      *)
ASSUME MediumIsProper == ProperMedium

(* For edits: a longer jam, a cable that becomes longer or shorter, a slower *)
(* rate.                                                                     *)
LongJam == [Usual EXCEPT !.jam = 3]
TwoConfigs == {Usual, LongJam}
TwoDelays == {Delay, [p \in Pairs |-> 1]}
===========================================================================
