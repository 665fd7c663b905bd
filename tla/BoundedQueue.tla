---------------------------- MODULE BoundedQueue ----------------------------
(***************************************************************************)
(* The ring buffer behind the datagram queue                               *)
(* (packages/core/src/utilities/bounded-queue.ts).                         *)
(*                                                                         *)
(* Slots are numbered from 0 as in the code; a slot that was never written,*)
(* was cut off by clear() or was vacated by dequeue() holds Undefined.     *)
(***************************************************************************)
EXTENDS Integers, Sequences

CONSTANTS Values, Capacity, Undefined

ASSUME CapacityPositive == Capacity \in Nat \ {0}
ASSUME UndefinedIsNoValue == Undefined \notin Values

VARIABLES overflow, items, head, size, result

vars == <<overflow, items, head, size, result>>

Policies == {"drop-oldest", "drop-newest", "reject", "close-session"}
Slots == 0..(Capacity - 1)

TypeOK ==
    /\ overflow \in Policies
    /\ items \in [Slots -> Values \cup {Undefined}]
    /\ head \in Slots
    /\ size \in 0..Capacity

Init ==
    /\ overflow \in Policies
    /\ items = [i \in Slots |-> Undefined]
    /\ head = 0
    /\ size = 0
    /\ result = Undefined

IsEmpty == size = 0
IsFull == size = Capacity

-----------------------------------------------------------------------------
(* enqueue() *)

\* Mutant: the write position forgets the head.
EnqueueAtSize(v) ==
    /\ ~IsFull
    /\ items' = [items EXCEPT ![size] = v]
    /\ size' = size + 1
    /\ result' = <<"enqueued">>
    /\ UNCHANGED head

EnqueueFree(v) ==
    /\ ~IsFull
    /\ items' = [items EXCEPT ![(head + size) % Capacity] = v]
    /\ size' = size + 1
    /\ result' = <<"enqueued">>
    /\ UNCHANGED head

EnqueueDropOldest(v) ==
    /\ IsFull
    /\ overflow = "drop-oldest"
    /\ items' = [items EXCEPT ![head] = v]
    /\ head' = (head + 1) % Capacity
    /\ result' = <<"dropped-oldest", items[head]>>
    /\ UNCHANGED size

RefusedAs(policy) ==
    CASE policy = "drop-newest" -> "dropped-newest"
      [] policy = "reject" -> "rejected"
      [] OTHER -> "close-session"

EnqueueRefused(v) ==
    /\ IsFull
    /\ overflow # "drop-oldest"
    /\ result' = <<RefusedAs(overflow), v>>
    /\ UNCHANGED <<items, head, size>>

Enqueue(v) ==
    /\ EnqueueFree(v) \/ EnqueueDropOldest(v) \/ EnqueueRefused(v)
    /\ UNCHANGED overflow

-----------------------------------------------------------------------------
(* dequeue(), peek(), clear() *)

\* Mutant: the vacated slot keeps its value.
DequeueKeepsValue ==
    /\ ~IsEmpty
    /\ result' = items[head]
    /\ head' = IF size = 1 THEN 0 ELSE (head + 1) % Capacity
    /\ size' = size - 1
    /\ UNCHANGED items

DequeueItem ==
    /\ ~IsEmpty
    /\ result' = items[head]
    /\ items' = [items EXCEPT ![head] = Undefined]
    /\ head' = IF size = 1 THEN 0 ELSE (head + 1) % Capacity
    /\ size' = size - 1

DequeueEmpty ==
    /\ IsEmpty
    /\ result' = Undefined
    /\ UNCHANGED <<items, head, size>>

Dequeue == (DequeueItem \/ DequeueEmpty) /\ UNCHANGED overflow

Peek ==
    /\ result' = IF IsEmpty THEN Undefined ELSE items[head]
    /\ UNCHANGED <<overflow, items, head, size>>

Clear ==
    /\ items' = [i \in Slots |-> Undefined]
    /\ head' = 0
    /\ size' = 0
    /\ result' = Undefined
    /\ UNCHANGED overflow

Next == (\E v \in Values : Enqueue(v)) \/ Dequeue \/ Peek \/ Clear

Spec == Init /\ [][Next]_vars

-----------------------------------------------------------------------------
(* Properties *)

\* The slot that holds the k-th oldest value, counted from 1.
SlotOf(k) == (head + (k - 1)) % Capacity

\* toArray(), which is also what iteration yields.
ToArray == [k \in 1..size |-> items[SlotOf(k)]]

\* The live slots hold values and every other slot is vacated, so the queue
\* neither loses a value nor keeps one reachable after it was handed out.
SlotsExact ==
    /\ \A k \in 1..size : items[SlotOf(k)] \in Values
    /\ \A i \in Slots : (\A k \in 1..size : SlotOf(k) # i) => items[i] = Undefined

\* The ring buffer behaves, result by result, like a bounded FIFO sequence:
\* wrap-around, the reset of the head, and overwriting the oldest value are
\* invisible to callers.
Fifo == INSTANCE FifoQueue WITH queue <- ToArray
RefinesFifo == Fifo!Spec
=============================================================================
