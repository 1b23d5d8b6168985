----------------------------- MODULE EgressQueue -----------------------------
(***************************************************************************)
(* EgressQueue of bridge.rs: a first-in first-out queue of frames waiting  *)
(* at an egress port, with an optional capacity.  What a port of a bridge  *)
(* or of a switch does to its frames implements the unbounded one.         *)
(***************************************************************************)
EXTENDS Integers, Sequences

CONSTANTS
  Item,
  Unbounded,     (* capacity None                                          *)
  Capacity       (* a number, or Unbounded                                 *)

VARIABLES
  items,         (* what is waiting, front first                           *)
  accepted,      (* history: every item that enqueue has taken in          *)
  taken          (* history: every item that dequeue has returned          *)

fifo == <<items, accepted, taken>>

AtCapacity == Capacity # Unbounded /\ Len(items) >= Capacity

Enqueue(x) ==
  /\ ~AtCapacity
  /\ items' = Append(items, x)
  /\ accepted' = Append(accepted, x)
  /\ UNCHANGED taken

(* QueueFull hands the item back to the caller.                            *)
EnqueueRejected == AtCapacity /\ UNCHANGED fifo

Dequeue ==
  /\ items # <<>>
  /\ taken' = Append(taken, Head(items))
  /\ items' = Tail(items)
  /\ UNCHANGED accepted

(* dequeue on an empty queue, and peek, which only reads.                  *)
DequeueNone == items = <<>> /\ UNCHANGED fifo

Init == items = <<>> /\ accepted = <<>> /\ taken = <<>>

Next == (\E x \in Item : Enqueue(x)) \/ EnqueueRejected \/ Dequeue \/ DequeueNone

Spec == Init /\ [][Next]_fifo
---------------------------------------------------------------------------
(* Items and histories have their types.                                   *)
TypeOK == items \in Seq(Item) /\ accepted \in Seq(Item) /\ taken \in Seq(Item)

(* The queue never holds more than its capacity.                           *)
WithinCapacity == Capacity # Unbounded => Len(items) <= Capacity

(* First in, first out, and nothing lost: what was taken, followed by what *)
(* is still waiting, is what was accepted, in that order.                  *)
FirstInFirstOut == accepted = taken \o items
===========================================================================
