----------------------------- MODULE Quantities -----------------------------
(***************************************************************************)
(* Durations, bit counts and bit rates (time.rs) and the values built from *)
(* them: signals, claims and transmissions (signal.rs, resource.rs), the   *)
(* jam and gap policies (policy.rs), and the two conversions of a relay    *)
(* (bridge.rs, engine.rs).                                                 *)
(*                                                                         *)
(* Nothing here has state.  An operation that may panic or refuse its      *)
(* arguments is the set of its results: {} when it panics or refuses.      *)
(***************************************************************************)
EXTENDS Integers

CONSTANTS
  PicosPerSecond,  \* PICOSECONDS_PER_SECOND
  MaxQuantity      \* u64::MAX

ASSUME QuantitiesAssumption ==
  PicosPerSecond \in Nat \ {0} /\ MaxQuantity \in Nat

-----------------------------------------------------------------------------
(* BitTime, in picoseconds, and Bits have one range and one checked         *)
(* arithmetic; a BitRate, in bits per second, is not zero.                  *)
Quantity == 0 .. MaxQuantity
BitRate == 1 .. MaxQuantity
Fits(n) == {n} \cap Quantity

Plus(a, b) == Fits(a + b)
Minus(a, b) == Fits(a - b)

(* The product has 128 bits and the quotient is rounded down.               *)
AtRate(bits, rate) == Fits((bits * PicosPerSecond) \div rate)

-----------------------------------------------------------------------------
(* Signals, claims and transmissions.                                       *)
NewSignal(t0, bits, rate) ==
  {[t0 |-> t0, dur |-> d] : d \in IF bits = 0 THEN {} ELSE AtRate(bits, rate)}
SignalEnd(sig) == Plus(sig.t0, sig.dur)

Claim == {c \in [start : Quantity, end : Quantity] : c.start < c.end}
NewClaim(start, end) == {c \in {[start |-> start, end |-> end]} : c.start < c.end}

Later(a, b) == IF a >= b THEN a ELSE b
Earlier(a, b) == IF a <= b THEN a ELSE b
Overlaps(c, d) == Later(c.start, d.start) < Earlier(c.end, d.end)

NewTransmission(sig, c) ==
  {[signal |-> sig, claim |-> c] :
     d \in {d \in Minus(c.end, c.start) : sig.t0 = c.start /\ sig.dur = d}}

(* A jam must have bits, a gap between frames need not; a backoff window    *)
(* of 2^backoff slots must fit 32 bits.                                     *)
NewJamPolicy(bits) == {bits} \ {0}
NewIfgPolicy(bits) == {bits}
NewBackoffPolicy(attempts, backoff) ==
  {[attempts |-> attempts, backoff |-> b] :
     b \in IF attempts = 0 THEN {} ELSE {backoff} \cap 1 .. 31}

-----------------------------------------------------------------------------
(* A relay: when a frame may leave, and how many bits an opaque copy of a   *)
(* signal has.  The cast of the quotient to 64 bits drops what is above.    *)
EligibilityTime(firstBitIn, decode, rate, processing) ==
  LET decoded == UNION {Plus(firstBitIn, d) : d \in AtRate(decode, rate)}
  IN  UNION {Plus(t, processing) : t \in decoded}

BitsByPeriod(dur, rate) == dur \div (PicosPerSecond \div rate)  \* mutant
BitsAtRate(dur, rate) == ((dur * rate) \div PicosPerSecond) % (MaxQuantity + 1)

-----------------------------------------------------------------------------
(* What is said of them.                                                    *)
HeldAt(c, t) == c.start <= t /\ t < c.end

(* A signal that is measured and sent again at the same rate loses no more  *)
(* than its last bit: none if it took a whole number of picoseconds.        *)
LosesAtMostOneBit(rate) ==
  \A bits \in Quantity : \A dur \in AtRate(bits, rate) :
    BitsAtRate(dur, rate) =
      IF (bits * PicosPerSecond) % rate = 0 THEN bits ELSE bits - 1
=============================================================================
