------------------------- MODULE EgressQueue_proofs -------------------------
(***************************************************************************)
(* Proofs about EgressQueue, for any items and any capacity.               *)
(***************************************************************************)
EXTENDS EgressQueue, SequenceTheorems, TLAPS

LEMMA HeadAndTail ==
  ASSUME NEW q \in Seq(Item), q # <<>>
  PROVE  /\ Head(q) \in Item /\ Tail(q) \in Seq(Item) /\ Len(Tail(q)) < Len(q)
         /\ q = <<Head(q)>> \o Tail(q)
BY HeadTailProperties, ConcatProperties

LEMMA NextTyped == TypeOK /\ [Next]_fifo => TypeOK'
<1> SUFFICES ASSUME TypeOK, [Next]_fifo PROVE TypeOK'
  OBVIOUS
<1>1. ASSUME NEW x \in Item, Enqueue(x) PROVE TypeOK'
  BY <1>1, AppendProperties DEF TypeOK, Enqueue
<1>2. CASE Dequeue
  BY <1>2, HeadAndTail, AppendProperties DEF TypeOK, Dequeue
<1>3. CASE EnqueueRejected \/ DequeueNone \/ UNCHANGED fifo
  BY <1>3 DEF TypeOK, EnqueueRejected, DequeueNone, fifo
<1>. QED
  BY <1>1, <1>2, <1>3 DEF Next

(* Only items that were given to the queue are in it or come out of it.    *)
THEOREM QueueTypeCorrect == Spec => []TypeOK
<1>1. Init => TypeOK
  BY EmptySeq DEF Init, TypeOK
<1>. QED
  BY <1>1, NextTyped, PTL DEF Spec

(* enqueue refuses what would make the queue longer than its capacity, with *)
(* capacity zero everything (bridge.rs, EgressQueue::enqueue).             *)
THEOREM CapacityNeverExceeded ==
  ASSUME Capacity # Unbounded => Capacity \in Nat
  PROVE  Spec => []WithinCapacity
<1>1. Init => WithinCapacity
  BY EmptySeq DEF Init, WithinCapacity
<1>2. TypeOK /\ WithinCapacity /\ [Next]_fifo => WithinCapacity'
  <2> SUFFICES ASSUME TypeOK, WithinCapacity, [Next]_fifo, Capacity # Unbounded
               PROVE  Len(items') <= Capacity
    BY DEF WithinCapacity
  <2>1. Len(items) \in Nat /\ Len(items) <= Capacity /\ Capacity \in Nat
    BY LenProperties DEF TypeOK, WithinCapacity
  <2>2. ASSUME NEW x \in Item, Enqueue(x) PROVE Len(items') <= Capacity
    <3>1. Len(items') = Len(items) + 1 /\ Len(items) < Capacity
      BY <2>1, <2>2, AppendProperties DEF Enqueue, AtCapacity, TypeOK
    <3>. QED
      BY <2>1, <3>1
  <2>3. CASE Dequeue
    <3>1. Len(items') = Len(items) - 1
      BY <2>3, HeadTailProperties DEF Dequeue, TypeOK
    <3>. QED
      BY <2>1, <3>1
  <2>4. CASE EnqueueRejected \/ DequeueNone \/ UNCHANGED fifo
    BY <2>1, <2>4 DEF EnqueueRejected, DequeueNone, fifo
  <2>. QED
    BY <2>2, <2>3, <2>4 DEF Next
<1>. QED
  BY <1>1, <1>2, QueueTypeCorrect, PTL DEF Spec

LEMMA AcceptingIsConcat ==
  ASSUME NEW q \in Seq(Item), NEW x \in Item
  PROVE  Append(q, x) = q \o <<x>> /\ <<x>> \in Seq(Item)
BY AppendProperties, ConcatProperties

(* First in, first out, whatever is accepted, refused and taken: what has   *)
(* been taken, followed by what waits, is what was accepted                 *)
(* (bridge.rs, EgressQueue::enqueue and dequeue).                           *)
THEOREM AlwaysFirstInFirstOut == Spec => []FirstInFirstOut
<1>1. Init => FirstInFirstOut
  BY EmptySeq, ConcatEmptySeq DEF Init, FirstInFirstOut
<1>2. TypeOK /\ FirstInFirstOut /\ [Next]_fifo => FirstInFirstOut'
  <2> SUFFICES ASSUME TypeOK, FirstInFirstOut, [Next]_fifo PROVE FirstInFirstOut'
    OBVIOUS
  <2>1. accepted = taken \o items /\ taken \in Seq(Item) /\ items \in Seq(Item)
    BY DEF TypeOK, FirstInFirstOut
  <2>2. ASSUME NEW x \in Item, Enqueue(x) PROVE FirstInFirstOut'
    <3>1. accepted' = (taken \o items) \o <<x>> /\ items' = items \o <<x>> /\ taken' = taken
      BY <2>1, <2>2, AcceptingIsConcat, ConcatProperties DEF Enqueue
    <3>2. (taken \o items) \o <<x>> = taken \o (items \o <<x>>)
      BY <2>1, AcceptingIsConcat, ConcatAssociative
    <3>. QED
      BY <3>1, <3>2 DEF FirstInFirstOut
  <2>3. CASE Dequeue
    <3>1. /\ accepted' = taken \o items /\ taken' = taken \o <<Head(items)>>
          /\ items' = Tail(items) /\ items = <<Head(items)>> \o Tail(items)
          /\ <<Head(items)>> \in Seq(Item) /\ Tail(items) \in Seq(Item)
      BY <2>1, <2>3, HeadAndTail, AcceptingIsConcat DEF Dequeue
    <3>2. (taken \o <<Head(items)>>) \o Tail(items) = taken \o (<<Head(items)>> \o Tail(items))
      BY <2>1, <3>1, ConcatAssociative
    <3>. QED
      BY <3>1, <3>2 DEF FirstInFirstOut
  <2>4. CASE EnqueueRejected \/ DequeueNone \/ UNCHANGED fifo
    BY <2>4 DEF EnqueueRejected, DequeueNone, fifo, FirstInFirstOut
  <2>. QED
    BY <2>2, <2>3, <2>4 DEF Next
<1>. QED
  BY <1>1, <1>2, QueueTypeCorrect, PTL DEF Spec
=============================================================================
