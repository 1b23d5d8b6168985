-------------------------------- MODULE MCRelay --------------------------------
(* Small instances of Relay: a bridge between collision domains and links.     *)
EXTENDS Relay, TLC

CONSTANTS a, b, c, p, q, r, sa, sb, sc, sp, f, g, h

(* Two stations and bridge port p on the ports of a repeater; station c on a   *)
(* full-duplex cable to port q.                                                *)
HubAccess == (a :> sa) @@ (b :> sb) @@ (p :> sp) @@ (c :> sc) @@ (q :> sc)
Domains == {{a, b, p}, {c, q}}
HubPairs == UNION {{z \in d \X d : z[1] # z[2]} : d \in Domains}
HubRoute == [z \in HubPairs |-> {HubAccess[z[1]], HubAccess[z[2]]}]
(* Cables of delay 1 around a repeater that adds 1, which the engine leaves    *)
(* out on the way from the bridge; and a cable of c so long that a frame has   *)
(* left c before it reaches q.                                                 *)
HubDelay == [z \in HubPairs |-> CASE c \in {z[1], z[2]} -> 10
                                  [] z[1] = p -> 2
                                  [] OTHER -> 3]
TwoPorts == (p :> 0) @@ (q :> 1)

(* One station per port, on full-duplex cables.                                *)
StarAccess == (a :> sa) @@ (p :> sa) @@ (b :> sb) @@ (q :> sb) @@ (c :> sc) @@ (r :> sc)
StarPairs == {z \in {a, b, c, p, q, r} \X {a, b, c, p, q, r} :
                z[1] # z[2] /\ StarAccess[z[1]] = StarAccess[z[2]]}
StarRoute == [z \in StarPairs |-> {StarAccess[z[1]]}]
StarDelay == [z \in StarPairs |-> 2]
ThreePorts == (p :> 0) @@ (q :> 1) @@ (r :> 2)

(* Any two peers of one source are listed in one order.                        *)
Ascending == CHOOSE o \in [Node -> 0 .. (NumNodes - 1)] :
               \A m, n \in Node : o[m] = o[n] => m = n
AnyOne == {Ascending}

(* Frames of different lengths, so that a signal shows which frame it is.      *)
Graded == [z \in Frame |-> CASE z = f -> 6 [] z = g -> 7 [] z = h -> 9]
AllFrames == [z \in Frame |-> "Frame"]

(* What the host offers: each station its own frame; or one station two.       *)
EachItsOwn == {<<t, o[1], o[2]>> : t \in {0, 7}, o \in {<<a, f>>, <<b, g>>, <<c, h>>}}
OneFrame == {<<0, a, f>>}
TwoSenders == {<<0, a, f>>, <<0, b, g>>}
TwoFrames == {0, 1} \X {a} \X {f, g}

(* Every segment at one rate, with the slot of six bits; the gap and the   *)
(* limits of the backoff differ between the instances.                     *)
CONSTANTS IfgBits, AttemptLimit
Usual == [attempts |-> AttemptLimit, backoff |-> 1, jam |-> 2, ifg |-> IfgBits]
JustUsual == {Usual}
Uniform == [s \in Segment |-> 1]
SixBits == [t \in BitTimes |-> 6]
Unchanging == {Delay}
===============================================================================
