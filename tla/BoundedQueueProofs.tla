------------------------- MODULE BoundedQueueProofs -------------------------
(***************************************************************************)
(* Proofs about BoundedQueue, for every capacity and every set of values.  *)
(***************************************************************************)
EXTENDS BoundedQueue, SequenceTheorems, TLAPS

\* The slot of the k-th oldest value, without the remainder.
Place(h, k) == IF h + k - 1 < Capacity THEN h + k - 1 ELSE h + k - 1 - Capacity

\* Live slots are distinct and lie in the buffer.
LEMMA PlaceFacts ==
    ASSUME NEW h \in Slots
    PROVE  /\ \A k \in 1..Capacity : Place(h, k) \in Slots
           /\ \A j, k \in 1..Capacity : Place(h, j) = Place(h, k) => j = k
           /\ \A i \in Slots : \E k \in 1..Capacity : Place(h, k) = i
           /\ \A k \in 1..Capacity : (h + (k - 1)) % Capacity = Place(h, k)
           /\ \A k \in 1..(Capacity - 1) : Place((h + 1) % Capacity, k) = Place(h, k + 1)
           /\ Place((h + 1) % Capacity, Capacity) = h
           /\ (h + 1) % Capacity \in Slots
           /\ Place(h, 1) = h
           /\ \A n \in 0..(Capacity - 1) : (h + n) % Capacity = Place(h, n + 1)
<1>1. Capacity \in Nat /\ Capacity > 0
  BY CapacityPositive
<1>2. \A k \in 1..Capacity : Place(h, k) \in Slots
  BY <1>1 DEF Place, Slots
<1>3. \A j, k \in 1..Capacity : Place(h, j) = Place(h, k) => j = k
  BY <1>1 DEF Place, Slots
<1>4. \A i \in Slots : \E k \in 1..Capacity : Place(h, k) = i
  <2> SUFFICES ASSUME NEW i \in Slots PROVE \E k \in 1..Capacity : Place(h, k) = i
    OBVIOUS
  <2>1. CASE i >= h
    <3>1. i - h + 1 \in 1..Capacity /\ Place(h, i - h + 1) = i
      BY <1>1, <2>1 DEF Place, Slots
    <3> QED  BY <3>1
  <2>2. CASE i < h
    <3>1. i - h + 1 + Capacity \in 1..Capacity /\ Place(h, i - h + 1 + Capacity) = i
      BY <1>1, <2>2 DEF Place, Slots
    <3> QED  BY <3>1
  <2> QED  BY <2>1, <2>2 DEF Slots
<1>5. \A n \in 0..Capacity : (h + n) % Capacity = IF h + n < Capacity THEN h + n ELSE h + n - Capacity
  <2> TAKE n \in 0..Capacity
  <2>1. h + n \in Nat /\ h + n < 2 * Capacity
    BY <1>1 DEF Slots
  <2>2. CASE h + n < Capacity
    BY <1>1, <2>1, <2>2 DEF Slots
  <2>3. CASE h + n >= Capacity
    BY <1>1, <2>1, <2>3 DEF Slots
  <2>4. h + n < Capacity \/ h + n >= Capacity
    BY <1>1, <2>1
  <2> QED  BY <2>2, <2>3, <2>4
<1>6. \A k \in 1..Capacity : (h + (k - 1)) % Capacity = Place(h, k)
  <2> TAKE k \in 1..Capacity
  <2>1. k - 1 \in 0..Capacity /\ h + (k - 1) = h + k - 1
    BY <1>1 DEF Slots
  <2> QED  BY <1>5, <2>1 DEF Place
<1>7. \A n \in 0..(Capacity - 1) : (h + n) % Capacity = Place(h, n + 1)
  <2> TAKE n \in 0..(Capacity - 1)
  <2>1. n \in 0..Capacity /\ h + (n + 1) - 1 = h + n
    BY <1>1 DEF Slots
  <2> QED  BY <1>5, <2>1 DEF Place
<1>8. (h + 1) % Capacity = IF h + 1 < Capacity THEN h + 1 ELSE 0
  <2>1. 1 \in 0..Capacity /\ (h + 1 < Capacity \/ h + 1 = Capacity)
    BY <1>1 DEF Slots
  <2> QED  BY <1>1, <1>5, <2>1 DEF Slots
<1>9. (h + 1) % Capacity \in Slots
  BY <1>1, <1>8 DEF Slots
<1>10. \A k \in 1..(Capacity - 1) : Place((h + 1) % Capacity, k) = Place(h, k + 1)
  BY <1>1, <1>8 DEF Place, Slots
<1>11. Place((h + 1) % Capacity, Capacity) = h
  BY <1>1, <1>8 DEF Place, Slots
<1>12. Place(h, 1) = h
  BY <1>1 DEF Place, Slots
<1> QED  BY <1>2, <1>3, <1>4, <1>6, <1>7, <1>9, <1>10, <1>11, <1>12

\* The inductive invariant, stated without remainders.
PlacesExact ==
    /\ \A k \in 1..size : items[Place(head, k)] \in Values
    /\ \A k \in (size + 1)..Capacity : items[Place(head, k)] = Undefined

IndInv == TypeOK /\ PlacesExact

\* It says what SlotsExact says.
LEMMA PlacesAreSlots == IndInv => SlotsExact
<1> SUFFICES ASSUME IndInv PROVE SlotsExact
  OBVIOUS
<1> USE DEF IndInv
<1>1. /\ size \in Nat /\ size <= Capacity /\ Capacity \in Nat /\ head \in Slots
  BY CapacityPositive DEF TypeOK
<1>2. \A k \in 1..Capacity : SlotOf(k) = Place(head, k)
  BY <1>1, PlaceFacts DEF SlotOf
<1>3. \A k \in 1..size : items[SlotOf(k)] \in Values
  BY <1>1, <1>2 DEF PlacesExact
<1>4. ASSUME NEW i \in Slots, \A k \in 1..size : SlotOf(k) # i PROVE items[i] = Undefined
  <2>1. PICK k \in 1..Capacity : Place(head, k) = i
    BY <1>1, PlaceFacts
  <2>2. k \in (size + 1)..Capacity
    BY <1>1, <1>2, <1>4, <2>1
  <2> QED  BY <2>1, <2>2 DEF PlacesExact
<1> QED  BY <1>3, <1>4 DEF SlotsExact

-----------------------------------------------------------------------------
(* What each operation does to the buffer, seen as the sequence toArray(). *)

Contents(it, h, n) == [k \in 1..n |-> it[Place(h, k)]]

\* The capacity is positive, and size and head are within it.
LEMMA Bounds ==
    ASSUME TypeOK
    PROVE  /\ Capacity \in Nat /\ Capacity > 0
           /\ size \in Nat /\ size <= Capacity /\ head \in Slots /\ head \in Nat
           /\ 0 \in Slots
BY CapacityPositive DEF TypeOK, Slots

\* Contents() is a sequence of values when every place it reads holds one.
LEMMA ContentsIsSequence ==
    ASSUME NEW it, NEW h, NEW n \in Nat, \A k \in 1..n : it[Place(h, k)] \in Values
    PROVE  /\ Contents(it, h, n) \in Seq(Values)
           /\ Len(Contents(it, h, n)) = n
           /\ \A k \in 1..n : Contents(it, h, n)[k] = it[Place(h, k)]
BY DEF Contents

\* The k-th element that toArray() reads is that at the k-th place from the head.
LEMMA ArrayIsContents ==
    ASSUME NEW h \in Slots, NEW n \in 0..Capacity
    PROVE  \A k \in 1..n : (h + (k - 1)) % Capacity = Place(h, k)
<1>1. \A k \in 1..n : k \in 1..Capacity
  BY CapacityPositive
<1> QED  BY <1>1, PlaceFacts

\* toArray() returns the occupied slots in order.
LEMMA ArrayNow ==
    ASSUME IndInv
    PROVE  /\ ToArray = Contents(items, head, size)
           /\ ToArray \in Seq(Values) /\ Len(ToArray) = size
           /\ \A k \in 1..size : ToArray[k] = items[Place(head, k)]
<1> USE DEF IndInv
<1>1. \A k \in 1..size : (head + (k - 1)) % Capacity = Place(head, k)
  BY ArrayIsContents DEF TypeOK
<1>2. ToArray = Contents(items, head, size)
  BY <1>1 DEF ToArray, Contents, SlotOf
<1> QED  BY <1>2, Bounds, ContentsIsSequence DEF PlacesExact

\* The same of the next state.
LEMMA ArrayNext ==
    ASSUME IndInv'
    PROVE  /\ ToArray' = Contents(items', head', size')
           /\ ToArray' \in Seq(Values) /\ Len(ToArray') = size'
           /\ \A k \in 1..size' : ToArray'[k] = items'[Place(head', k)]
<1> USE DEF IndInv
<1>1. \A k \in 1..size' : (head' + (k - 1)) % Capacity = Place(head', k)
  BY ArrayIsContents DEF TypeOK
<1>2. ToArray' = Contents(items', head', size')
  BY <1>1 DEF ToArray, Contents, SlotOf
<1>3. size' \in Nat /\ \A k \in 1..size' : items'[Place(head', k)] \in Values
  BY CapacityPositive DEF TypeOK, PlacesExact
<1> QED  BY <1>2, <1>3, ContentsIsSequence

\* An enqueue into a free slot appends.
LEMMA EnqueueFreeEffect ==
    ASSUME IndInv, NEW v \in Values, EnqueueFree(v), UNCHANGED overflow
    PROVE  IndInv' /\ ToArray' = Append(ToArray, v)
<1> USE DEF IndInv
<1>0. Capacity \in Nat /\ Capacity > 0 /\ size \in Nat /\ size <= Capacity /\ head \in Slots
  BY Bounds
<1>1. /\ size \in 0..(Capacity - 1) /\ size + 1 \in 1..Capacity
      /\ size' = size + 1 /\ head' = head
  BY <1>0 DEF EnqueueFree, IsFull
<1> DEFINE p == Place(head, size + 1)
<1>2. items' = [items EXCEPT ![p] = v] /\ p \in Slots
  <2>1. (head + size) % Capacity = p /\ p \in Slots
    BY <1>0, <1>1, PlaceFacts
  <2> QED  BY <2>1 DEF EnqueueFree
<1>3. \A k \in 1..Capacity : Place(head, k) \in Slots /\ (k # size + 1 => Place(head, k) # p)
  BY <1>0, <1>1, PlaceFacts
<1>4. TypeOK'
  BY <1>0, <1>1, <1>2 DEF TypeOK
<1>5. \A k \in 1..Capacity : items'[Place(head', k)] =
                               IF k = size + 1 THEN v ELSE items[Place(head, k)]
  <2>1. items \in [Slots -> Values \cup {Undefined}]
    BY DEF TypeOK
  <2> HIDE DEF p
  <2>2. ASSUME NEW k \in 1..Capacity, k # size + 1 PROVE items'[Place(head', k)] = items[Place(head, k)]
    BY <1>1, <1>2, <1>3, <2>1, <2>2
  <2>3. items'[p] = v
    BY <1>2, <2>1
  <2> QED  BY <1>1, <2>2, <2>3 DEF p
<1>6. PlacesExact'
  BY <1>0, <1>1, <1>5 DEF PlacesExact
<1>7. IndInv'
  BY <1>4, <1>6
<1>8. ToArray' = Append(ToArray, v)
  <2>1. /\ ToArray \in Seq(Values) /\ Len(ToArray) = size
        /\ \A k \in 1..size : ToArray[k] = items[Place(head, k)]
    BY ArrayNow
  <2>2. /\ ToArray' \in Seq(Values) /\ Len(ToArray') = size + 1
        /\ \A k \in 1..(size + 1) : ToArray'[k] = items'[Place(head', k)]
    BY <1>1, <1>7, ArrayNext
  <2> DEFINE a == Append(ToArray, v)
  <2>3. /\ a \in Seq(Values) /\ Len(a) = size + 1 /\ a[size + 1] = v
        /\ \A k \in 1..size : a[k] = items[Place(head, k)]
    BY <1>0, <2>1
  <2> HIDE DEF a
  <2>4. ASSUME NEW k \in 1..(size + 1) PROVE ToArray'[k] = a[k]
    <3>1. k \in 1..Capacity /\ (k = size + 1 \/ k \in 1..size)
      BY <1>0, <1>1
    <3>2. CASE k = size + 1
      BY <1>5, <2>2, <2>3, <3>1, <3>2
    <3>3. CASE k \in 1..size
      <4>1. k # size + 1
        BY <1>0, <3>3
      <4> QED  BY <1>5, <2>2, <2>3, <3>1, <3>3, <4>1
    <3> QED  BY <3>1, <3>2, <3>3
  <2>5. ToArray' = a
    BY <2>2, <2>3, <2>4, SeqEqual
  <2> QED  BY <2>5 DEF a
<1> QED  BY <1>7, <1>8

\* An enqueue that drops the oldest appends to the tail and returns the head.
LEMMA EnqueueDropOldestEffect ==
    ASSUME IndInv, NEW v \in Values, EnqueueDropOldest(v), UNCHANGED overflow
    PROVE  /\ IndInv' /\ ToArray # <<>>
           /\ ToArray' = Append(Tail(ToArray), v)
           /\ items[head] = Head(ToArray)
<1> USE DEF IndInv
<1>0. Capacity \in Nat /\ Capacity > 0 /\ size = Capacity /\ size' = Capacity /\ head \in Slots
  BY Bounds DEF EnqueueDropOldest, IsFull
<1>1. items' = [items EXCEPT ![head] = v] /\ head' = (head + 1) % Capacity
  BY DEF EnqueueDropOldest
<1>2. /\ \A k \in 1..(Capacity - 1) : Place(head', k) = Place(head, k + 1)
      /\ Place(head', Capacity) = head /\ head' \in Slots
      /\ Place(head, 1) = head
  BY <1>0, <1>1, PlaceFacts
<1>3. \A k \in 1..(Capacity - 1) : Place(head, k + 1) \in Slots /\ Place(head, k + 1) # head
  <2> TAKE k \in 1..(Capacity - 1)
  <2>1. k + 1 \in 1..Capacity /\ 1 \in 1..Capacity /\ k + 1 # 1
    BY <1>0
  <2>2. Place(head, k + 1) \in Slots
    BY <1>0, <2>1, PlaceFacts
  <2>3. Place(head, k + 1) = Place(head, 1) => k + 1 = 1
    <3>1. \A i, j \in 1..Capacity : Place(head, i) = Place(head, j) => i = j
      BY <1>0, PlaceFacts
    <3> HIDE DEF IndInv
    <3> QED  BY <2>1, <3>1
  <2> QED  BY <1>2, <2>1, <2>2, <2>3
<1>4. items \in [Slots -> Values \cup {Undefined}]
  BY DEF TypeOK
<1>5. \A k \in 1..(Capacity - 1) : items'[Place(head', k)] = items[Place(head, k + 1)]
  BY <1>1, <1>2, <1>3, <1>4
<1>6. items'[Place(head', Capacity)] = v
  BY <1>0, <1>1, <1>2, <1>4
<1>7. TypeOK'
  BY <1>0, <1>1, <1>2 DEF TypeOK
<1>8. PlacesExact'
  <2>1. \A k \in 1..Capacity : items[Place(head, k)] \in Values
    BY <1>0 DEF PlacesExact
  <2> QED  BY <1>0, <1>5, <1>6, <2>1 DEF PlacesExact
<1>9. IndInv'
  BY <1>7, <1>8
<1>10. /\ ToArray \in Seq(Values) /\ Len(ToArray) = Capacity
       /\ \A k \in 1..Capacity : ToArray[k] = items[Place(head, k)]
  BY <1>0, ArrayNow
<1>11. /\ ToArray' \in Seq(Values) /\ Len(ToArray') = Capacity
       /\ \A k \in 1..Capacity : ToArray'[k] = items'[Place(head', k)]
  BY <1>0, <1>9, ArrayNext
<1>12. ToArray' = Append(Tail(ToArray), v)
  <2>1. /\ Tail(ToArray) \in Seq(Values) /\ Len(Tail(ToArray)) = Capacity - 1
        /\ \A k \in 1..(Capacity - 1) : Tail(ToArray)[k] = items[Place(head, k + 1)]
    BY <1>0, <1>10
  <2> DEFINE a == Append(Tail(ToArray), v)
  <2>2. /\ a \in Seq(Values) /\ Len(a) = Capacity /\ a[Capacity] = v
        /\ \A k \in 1..(Capacity - 1) : a[k] = items[Place(head, k + 1)]
    BY <1>0, <2>1
  <2> HIDE DEF a
  <2>3. \A k \in 1..Capacity : ToArray'[k] = a[k]
    BY <1>0, <1>5, <1>6, <1>11, <2>2
  <2>4. ToArray' = a
    BY <1>11, <2>2, <2>3, SeqEqual
  <2> QED  BY <2>4 DEF a
<1>13. ToArray # <<>> /\ items[head] = Head(ToArray)
  BY <1>0, <1>2, <1>10
<1> QED  BY <1>9, <1>12, <1>13

\* A dequeue returns the head and leaves the tail.
LEMMA DequeueItemEffect ==
    ASSUME IndInv, DequeueItem, UNCHANGED overflow
    PROVE  /\ IndInv' /\ ToArray # <<>>
           /\ ToArray' = Tail(ToArray)
           /\ items[head] = Head(ToArray)
<1> USE DEF IndInv
<1>0. /\ Capacity \in Nat /\ Capacity > 0 /\ size \in 1..Capacity /\ size' = size - 1
      /\ head \in Slots /\ 0 \in Slots
  BY Bounds DEF DequeueItem, IsEmpty
<1>1. /\ items' = [items EXCEPT ![head] = Undefined]
      /\ head' = IF size = 1 THEN 0 ELSE (head + 1) % Capacity
      /\ items \in [Slots -> Values \cup {Undefined}]
  BY DEF DequeueItem, TypeOK
<1>2. /\ Place(head, 1) = head
      /\ \A k \in 1..Capacity : Place(head, k) \in Slots /\ (k # 1 => Place(head, k) # head)
  <2>1. 1 \in 1..Capacity
    BY <1>0
  <2>2. /\ Place(head, 1) = head
        /\ \A k \in 1..Capacity : Place(head, k) \in Slots
        /\ \A j, k \in 1..Capacity : Place(head, j) = Place(head, k) => j = k
    BY <1>0, PlaceFacts
  <2> QED  BY <2>1, <2>2
<1>3. items'[head] = Undefined /\ \A i \in Slots : i # head => items'[i] = items[i]
  BY <1>0, <1>1
<1>4. /\ ToArray \in Seq(Values) /\ Len(ToArray) = size
      /\ \A k \in 1..size : ToArray[k] = items[Place(head, k)]
  BY ArrayNow
<1>5. ToArray # <<>> /\ items[head] = Head(ToArray)
  BY <1>0, <1>2, <1>4
<1>6. CASE size = 1
  <2>1. \A i \in Slots : items'[i] = Undefined
    <3> SUFFICES ASSUME NEW i \in Slots PROVE items'[i] = Undefined
      OBVIOUS
    <3>1. PICK k \in 1..Capacity : Place(head, k) = i
      BY <1>0, PlaceFacts
    <3>2. k = 1 \/ k \in (size + 1)..Capacity
      BY <1>0, <1>6
    <3> QED  BY <1>2, <1>3, <3>1, <3>2 DEF PlacesExact
  <2>2. head' = 0 /\ size' = 0
    BY <1>0, <1>1, <1>6
  <2>3. TypeOK'
    BY <1>0, <1>1, <2>2 DEF TypeOK
  <2>4. \A k \in 1..Capacity : Place(0, k) \in Slots
    BY <1>0, PlaceFacts
  <2>5. PlacesExact'
    BY <1>0, <2>1, <2>2, <2>4 DEF PlacesExact
  <2>6. ToArray' = <<>>
    BY <2>2, <2>3, <2>5, ArrayNext
  <2>7. Tail(ToArray) = <<>>
    <3>1. Tail(ToArray) \in Seq(Values) /\ Len(Tail(ToArray)) = 0
      BY <1>4, <1>5, <1>6
    <3> QED  BY <3>1, EmptySeq
  <2> QED  BY <1>5, <2>3, <2>5, <2>6, <2>7
<1>7. CASE size # 1
  <2>1. head' = (head + 1) % Capacity /\ size \in 2..Capacity /\ size' \in 1..(Capacity - 1)
    BY <1>0, <1>1, <1>7
  <2>2. /\ \A k \in 1..(Capacity - 1) : Place(head', k) = Place(head, k + 1)
        /\ Place(head', Capacity) = head /\ head' \in Slots
    BY <1>0, <2>1, PlaceFacts
  <2>3. \A k \in 1..(Capacity - 1) : items'[Place(head', k)] = items[Place(head, k + 1)]
    <3> TAKE k \in 1..(Capacity - 1)
    <3>1. k + 1 \in 1..Capacity /\ k + 1 # 1
      BY <1>0
    <3> QED  BY <1>2, <1>3, <2>2, <3>1
  <2>4. items'[Place(head', Capacity)] = Undefined
    BY <1>3, <2>2
  <2>5. TypeOK'
    BY <1>0, <1>1, <2>1, <2>2 DEF TypeOK
  <2>6. PlacesExact'
    <3>1. \A k \in 1..size' : items'[Place(head', k)] \in Values
      BY <1>0, <2>1, <2>3 DEF PlacesExact
    <3>2. \A k \in (size' + 1)..(Capacity - 1) : items'[Place(head', k)] = Undefined
      <4> TAKE k \in (size' + 1)..(Capacity - 1)
      <4>1. k \in 1..(Capacity - 1) /\ k + 1 \in (size + 1)..Capacity
        BY <1>0, <2>1
      <4> QED  BY <2>3, <4>1 DEF PlacesExact
    <3>3. \A k \in (size' + 1)..Capacity : k = Capacity \/ k \in (size' + 1)..(Capacity - 1)
      BY <1>0, <2>1
    <3> QED  BY <2>4, <3>1, <3>2, <3>3 DEF PlacesExact
  <2>7. IndInv'
    BY <2>5, <2>6
  <2>8. /\ ToArray' \in Seq(Values) /\ Len(ToArray') = size - 1
        /\ \A k \in 1..(size - 1) : ToArray'[k] = items'[Place(head', k)]
    BY <1>0, <2>7, ArrayNext
  <2>9. /\ Tail(ToArray) \in Seq(Values) /\ Len(Tail(ToArray)) = size - 1
        /\ \A k \in 1..(size - 1) : Tail(ToArray)[k] = items[Place(head, k + 1)]
    BY <1>0, <1>4
  <2>10. \A k \in 1..(size - 1) : ToArray'[k] = Tail(ToArray)[k]
    <3> TAKE k \in 1..(size - 1)
    <3>1. k \in 1..(Capacity - 1)
      BY <1>0, <2>1
    <3> QED  BY <2>3, <2>8, <2>9, <3>1
  <2>11. ToArray' = Tail(ToArray)
    BY <2>8, <2>9, <2>10, SeqEqual
  <2> QED  BY <1>5, <2>7, <2>11
<1> QED  BY <1>6, <1>7

\* clear() leaves nothing.
LEMMA ClearEffect ==
    ASSUME IndInv, Clear
    PROVE  IndInv' /\ ToArray' = <<>>
<1> USE DEF IndInv
<1>1. /\ Capacity \in Nat /\ 0 \in Slots /\ head' = 0 /\ size' = 0 /\ overflow' = overflow
      /\ items' = [i \in Slots |-> Undefined]
  BY Bounds DEF Clear
<1>2. TypeOK'
  BY <1>1 DEF TypeOK
<1>3. \A k \in 1..Capacity : Place(0, k) \in Slots
  BY <1>1, PlaceFacts
<1>4. PlacesExact'
  BY <1>1, <1>3 DEF PlacesExact
<1> QED  BY <1>1, <1>2, <1>4, ArrayNext

\* A new queue is empty.
LEMMA InitInv == Init => IndInv /\ ToArray = <<>>
<1> SUFFICES ASSUME Init PROVE IndInv /\ ToArray = <<>>
  OBVIOUS
<1>1. Capacity \in Nat /\ 0 \in Slots
  BY CapacityPositive DEF Slots
<1>2. TypeOK
  BY <1>1 DEF Init, TypeOK
<1>3. \A k \in 1..Capacity : Place(0, k) \in Slots
  BY <1>1, PlaceFacts
<1>4. PlacesExact
  BY <1>1, <1>3 DEF PlacesExact, Init
<1>5. IndInv
  BY <1>2, <1>4 DEF IndInv
<1>6. size = 0
  BY DEF Init
<1> QED  BY <1>5, <1>6, ArrayNow

\* An operation that leaves the buffer alone leaves its contents alone.
LEMMA SameBuffer ==
    ASSUME IndInv, UNCHANGED <<overflow, items, head, size>>
    PROVE  IndInv' /\ ToArray' = ToArray
BY DEF IndInv, TypeOK, PlacesExact, ToArray, SlotOf

\* Every step keeps the invariant and is a step of the FIFO queue.
LEMMA StepRefines ==
    ASSUME IndInv, [Next]_vars
    PROVE  IndInv' /\ [Fifo!Next]_(Fifo!vars)
<1>0. ToArray \in Seq(Values) /\ Len(ToArray) = size /\ size \in Nat /\ size <= Capacity
  BY ArrayNow, Bounds DEF IndInv
<1>1. ASSUME NEW v \in Values, Enqueue(v) PROVE IndInv' /\ Fifo!Next
  <2>0. UNCHANGED overflow
    BY <1>1 DEF Enqueue
  <2>1. CASE EnqueueFree(v)
    <3>1. IndInv' /\ ToArray' = Append(ToArray, v)
      BY <2>0, <2>1, EnqueueFreeEffect
    <3>2. Len(ToArray) < Capacity /\ result' = <<"enqueued">>
      BY <1>0, <2>1, CapacityPositive DEF EnqueueFree, IsFull
    <3>3. Fifo!Accept(v)
      BY <3>1, <3>2 DEF Fifo!Accept
    <3> QED  BY <2>0, <3>1, <3>3 DEF Fifo!Next
  <2>2. CASE EnqueueDropOldest(v)
    <3>1. /\ IndInv' /\ ToArray' = Append(Tail(ToArray), v) /\ items[head] = Head(ToArray)
      BY <2>0, <2>2, EnqueueDropOldestEffect
    <3>2. /\ Len(ToArray) = Capacity /\ overflow = "drop-oldest"
          /\ result' = <<"dropped-oldest", Head(ToArray)>>
      BY <1>0, <2>2, <3>1 DEF EnqueueDropOldest, IsFull
    <3>3. Fifo!ReplaceOldest(v)
      BY <3>1, <3>2 DEF Fifo!ReplaceOldest
    <3> QED  BY <2>0, <3>1, <3>3 DEF Fifo!Next
  <2>3. CASE EnqueueRefused(v)
    <3>1. IndInv' /\ ToArray' = ToArray
      BY <2>0, <2>3, SameBuffer DEF EnqueueRefused
    <3>2. /\ Len(ToArray) = Capacity /\ overflow # "drop-oldest"
          /\ result' = <<RefusedAs(overflow), v>>
      BY <1>0, <2>3 DEF EnqueueRefused, IsFull
    <3>3. RefusedAs(overflow) = Fifo!Refusal(overflow)
      BY DEF RefusedAs, Fifo!Refusal
    <3>4. Fifo!Refuse(v)
      BY <3>1, <3>2, <3>3 DEF Fifo!Refuse
    <3> QED  BY <2>0, <3>1, <3>4 DEF Fifo!Next
  <2> QED  BY <1>1, <2>1, <2>2, <2>3 DEF Enqueue
<1>2. ASSUME Dequeue PROVE IndInv' /\ Fifo!Next
  <2>0. UNCHANGED overflow
    BY <1>2 DEF Dequeue
  <2>1. CASE DequeueItem
    <3>1. IndInv' /\ ToArray # <<>> /\ ToArray' = Tail(ToArray) /\ items[head] = Head(ToArray)
      BY <2>0, <2>1, DequeueItemEffect
    <3>2. Fifo!Take
      BY <2>1, <3>1 DEF DequeueItem, Fifo!Take
    <3> QED  BY <2>0, <3>1, <3>2 DEF Fifo!Next
  <2>2. CASE DequeueEmpty
    <3>1. IndInv' /\ ToArray' = ToArray
      BY <2>0, <2>2, SameBuffer DEF DequeueEmpty
    <3>2. ToArray = <<>> /\ result' = Undefined
      BY <1>0, <2>2 DEF DequeueEmpty, IsEmpty
    <3>3. Fifo!NothingThere
      BY <3>1, <3>2 DEF Fifo!NothingThere
    <3> QED  BY <2>0, <3>1, <3>3 DEF Fifo!Next
  <2> QED  BY <1>2, <2>1, <2>2 DEF Dequeue
<1>3. ASSUME Peek PROVE IndInv' /\ Fifo!Next
  <2>1. IndInv' /\ ToArray' = ToArray /\ UNCHANGED overflow
    BY <1>3, SameBuffer DEF Peek
  <2>2. CASE size = 0
    <3>1. ToArray = <<>> /\ result' = Undefined
      BY <1>0, <1>3, <2>2 DEF Peek, IsEmpty
    <3>2. Fifo!NothingThere
      BY <2>1, <3>1 DEF Fifo!NothingThere
    <3> QED  BY <2>1, <3>2 DEF Fifo!Next
  <2>3. CASE size # 0
    <3>1. ToArray[1] = items[Place(head, 1)] /\ Place(head, 1) = head
      <4>1. head \in Slots /\ 1 \in 1..size
        BY <1>0, <2>3, Bounds DEF IndInv
      <4>2. Place(head, 1) = head
        BY <4>1, PlaceFacts
      <4> QED  BY <4>1, <4>2, ArrayNow
    <3>2. ToArray # <<>> /\ Head(ToArray) = items[head]
      BY <1>0, <2>3, <3>1
    <3>3. result' = Head(ToArray)
      BY <1>3, <2>3, <3>2 DEF Peek, IsEmpty
    <3>4. Fifo!Look
      BY <2>1, <3>2, <3>3 DEF Fifo!Look
    <3> QED  BY <2>1, <3>4 DEF Fifo!Next
  <2> QED  BY <2>2, <2>3
<1>4. ASSUME Clear PROVE IndInv' /\ Fifo!Next
  <2>1. IndInv' /\ ToArray' = <<>>
    BY <1>4, ClearEffect
  <2>2. Fifo!Clear /\ UNCHANGED overflow
    BY <1>4, <2>1 DEF Clear, Fifo!Clear
  <2> QED  BY <2>1, <2>2 DEF Fifo!Next
<1>5. ASSUME UNCHANGED vars PROVE IndInv' /\ UNCHANGED Fifo!vars
  BY <1>5, SameBuffer DEF vars, Fifo!vars
<1> QED  BY <1>1, <1>2, <1>3, <1>4, <1>5 DEF Next

\* For every capacity the live slots hold values and the others are vacated.
THEOREM QueueSlotsExact == Spec => []SlotsExact
<1>1. Init => IndInv
  BY InitInv
<1>2. IndInv /\ [Next]_vars => IndInv'
  BY StepRefines
<1> QED  BY <1>1, <1>2, PlacesAreSlots, PTL DEF Spec

\* The ring buffer implements the bounded FIFO queue, for every capacity, every
\* policy and every set of values.
THEOREM QueueRefinesFifo == Spec => RefinesFifo
<1>1. Init => IndInv /\ Fifo!Init
  <2>1. Fifo!Policies = Policies
    BY DEF Fifo!Policies, Policies
  <2> QED  BY <2>1, InitInv DEF Init, Fifo!Init
<1>2. IndInv /\ [Next]_vars => IndInv' /\ [Fifo!Next]_(Fifo!vars)
  BY StepRefines
<1> QED  BY <1>1, <1>2, PTL DEF Spec, RefinesFifo, Fifo!Spec
=============================================================================
