------------------------------ MODULE FifoQueue ------------------------------
(***************************************************************************)
(* What a bounded queue promises its callers: a sequence of at most        *)
(* Capacity values, served in arrival order, with one of four policies for *)
(* a value that arrives while the queue is full.  BoundedQueue implements  *)
(* it.                                                                     *)
(***************************************************************************)
EXTENDS Integers, Sequences

CONSTANTS Values, Capacity, Undefined

VARIABLES overflow,  \* the policy the queue was built with
          queue,     \* the values, oldest first
          result     \* what the last call returned

vars == <<overflow, queue, result>>

Policies == {"drop-oldest", "drop-newest", "reject", "close-session"}

\* The outcome of a refused enqueue, by policy.
Refusal(policy) ==
    CASE policy = "drop-newest" -> "dropped-newest"
      [] policy = "reject" -> "rejected"
      [] OTHER -> "close-session"

Init ==
    /\ overflow \in Policies
    /\ queue = <<>>
    /\ result = Undefined

Accept(v) ==
    /\ Len(queue) < Capacity
    /\ queue' = Append(queue, v)
    /\ result' = <<"enqueued">>

ReplaceOldest(v) ==
    /\ Len(queue) = Capacity
    /\ overflow = "drop-oldest"
    /\ queue' = Append(Tail(queue), v)
    /\ result' = <<"dropped-oldest", Head(queue)>>

Refuse(v) ==
    /\ Len(queue) = Capacity
    /\ overflow # "drop-oldest"
    /\ queue' = queue
    /\ result' = <<Refusal(overflow), v>>

Take ==
    /\ queue # <<>>
    /\ queue' = Tail(queue)
    /\ result' = Head(queue)

Look ==
    /\ queue # <<>>
    /\ queue' = queue
    /\ result' = Head(queue)

\* dequeue() and peek() of an empty queue.
NothingThere ==
    /\ queue = <<>>
    /\ queue' = queue
    /\ result' = Undefined

Clear ==
    /\ queue' = <<>>
    /\ result' = Undefined

Next ==
    /\ \/ \E v \in Values : Accept(v) \/ ReplaceOldest(v) \/ Refuse(v)
       \/ Take \/ Look \/ NothingThere \/ Clear
    /\ UNCHANGED overflow

Spec == Init /\ [][Next]_vars
=============================================================================
