-------------------------- MODULE DatagramFlowProofs --------------------------
(***************************************************************************)
(* Theorems about the datagram path, for any sessions, datagrams, sizes,   *)
(* policies and limits: every byte and every reservation is accounted for, *)
(* and pump and drainer never miss each other.  There may be infinitely    *)
(* many datagrams; only those in the server at one time are finitely many. *)
(***************************************************************************)
EXTENDS DatagramFlow, FiniteSetTheorems, SequenceTheorems, TLAPS

Live == {t \in Tasks : state[t] \in {"queued", "pending", "active"}}
Held == {d \in Datagrams : state[d] \in {"queued", "pending", "active"}}
PendingOf(s) == {t \in Tasks : state[t] = "pending" /\ owner[t] = s}

\* The sequence holds exactly the elements of S, each once.
Holds(seq, S) ==
    /\ \A i \in 1..Len(seq) : seq[i] \in S
    /\ \A x \in S : \E i \in 1..Len(seq) : seq[i] = x
    /\ \A i, j \in 1..Len(seq) : seq[i] = seq[j] => i = j

\* Where a task is, so says its state: in the queue or in the scheduler of its
\* owner.
PlacesExact ==
    /\ IsFiniteSet(Live)
    /\ \A t \in Live : owner[t] \in Sessions /\ (state[t] = "queued" => t \in Datagrams)
    /\ \A s \in Sessions : Holds(queue[s], InQueue(s)) /\ Holds(pending[s], PendingOf(s))

\* The scheduler is open exactly while intake is, and an aborted session's is not.
IntakeExact == \A s \in Sessions : accepting[s] = intake[s] /\ (aborted[s] => ~intake[s])

IndInv == AccountsExact /\ NoLostWakeup /\ PlacesExact /\ IntakeExact

-----------------------------------------------------------------------------
(* Sums of bytes *)

\* Only datagrams weigh anything.
LEMMA BytesNatural ==
    ASSUME NEW t \in Tasks
    PROVE  /\ Bytes(t) \in Nat
           /\ t \in Datagrams => Bytes(t) = Size[t] /\ Size[t] > 0
           /\ t \in StreamTasks => Bytes(t) = 0
BY SizesPositive, TasksDisjoint DEF Bytes, Tasks

\* A finite set of tasks has a finite weight.
LEMMA BytesFinite ==
    ASSUME NEW S, S \subseteq Tasks, IsFiniteSet(S)
    PROVE  IsFiniteSet(BytesOf(S)) /\ SumBytes(S) \in Nat
<1> DEFINE f == [t \in S |-> {t} \X (1..Bytes(t))]
<1> DEFINE cells == {{t} \X (1..Bytes(t)) : t \in S}
<1>1. f \in Surjection(S, cells)
  BY DEF Surjection
<1>2. IsFiniteSet(cells)
  <2> HIDE DEF f, cells
  <2> QED  BY <1>1, FS_Surjection
<1>3. ASSUME NEW t \in S
      PROVE  IsFiniteSet({t} \X (1..Bytes(t)))
  <2>1. Bytes(t) \in Int /\ 1 \in Int
    BY BytesNatural
  <2>2. IsFiniteSet(1..Bytes(t))
    BY <2>1, FS_Interval
  <2>3. IsFiniteSet({t})
    BY FS_Singleton
  <2> QED  BY <2>2, <2>3, FS_Product
<1>4. \A C \in cells : IsFiniteSet(C)
  BY <1>3
<1>5. IsFiniteSet(BytesOf(S))
  <2>1. BytesOf(S) = UNION cells
    BY DEF BytesOf
  <2> HIDE DEF cells
  <2> QED  BY <1>2, <1>4, <2>1, FS_UNION
<1> QED  BY <1>5, FS_CardinalityType DEF SumBytes

\* The weights of disjoint sets add up.
LEMMA BytesUnion ==
    ASSUME NEW S, NEW T, S \subseteq Tasks, T \subseteq Tasks, IsFiniteSet(S), IsFiniteSet(T),
           S \cap T = {}
    PROVE  SumBytes(S \cup T) = SumBytes(S) + SumBytes(T)
<1>1. BytesOf(S \cup T) = BytesOf(S) \cup BytesOf(T)
  BY DEF BytesOf
<1>2. BytesOf(S) \cap BytesOf(T) = {}
  BY DEF BytesOf
<1>3. IsFiniteSet(BytesOf(S)) /\ IsFiniteSet(BytesOf(T)) /\ SumBytes(S) \in Nat /\ SumBytes(T) \in Nat
  BY BytesFinite
<1>4. /\ Cardinality(BytesOf(S) \cup BytesOf(T))
           = Cardinality(BytesOf(S)) + Cardinality(BytesOf(T)) - Cardinality(BytesOf(S) \cap BytesOf(T))
      /\ Cardinality({}) = 0
  BY <1>3, FS_Union, FS_EmptySet
<1>5. SumBytes(S \cup T) = SumBytes(S) + SumBytes(T) - 0
  BY <1>1, <1>2, <1>4 DEF SumBytes
<1> QED  BY <1>3, <1>5

\* The weight of one task is its size.
LEMMA BytesOfOne ==
    ASSUME NEW t \in Tasks
    PROVE  SumBytes({t}) = Bytes(t) /\ SumBytes({}) = 0
<1>1. BytesOf({t}) = {t} \X (1..Bytes(t)) /\ BytesOf({}) = {}
  BY DEF BytesOf
<1>2. Bytes(t) \in Nat
  BY BytesNatural
<1>3. IsFiniteSet({t}) /\ Cardinality({t}) = 1
  BY FS_Singleton
<1>4. IsFiniteSet(1..Bytes(t)) /\ Cardinality(1..Bytes(t)) = Bytes(t)
  BY <1>2, FS_Interval
<1>5. Cardinality({t} \X (1..Bytes(t))) = Cardinality({t}) * Cardinality(1..Bytes(t))
  BY <1>3, <1>4, FS_Product
<1>6. SumBytes({t}) = 1 * Bytes(t)
  BY <1>1, <1>3, <1>4, <1>5 DEF SumBytes
<1>7. SumBytes({}) = 0
  BY <1>1, FS_EmptySet DEF SumBytes
<1> QED  BY <1>2, <1>6, <1>7

\* Adding a task adds its size.
LEMMA BytesAdd ==
    ASSUME NEW S, NEW t \in Tasks, S \subseteq Tasks, IsFiniteSet(S), t \notin S
    PROVE  SumBytes(S \cup {t}) = SumBytes(S) + Bytes(t) /\ SumBytes(S) \in Nat
<1>1. IsFiniteSet({t}) /\ {t} \subseteq Tasks /\ S \cap {t} = {}
  BY FS_Singleton
<1> QED  BY <1>1, BytesFinite, BytesUnion, BytesOfOne

\* Removing tasks subtracts their weight.
LEMMA BytesRemove ==
    ASSUME NEW S, NEW T, S \subseteq Tasks, IsFiniteSet(S), T \subseteq S
    PROVE  /\ SumBytes(S \ T) = SumBytes(S) - SumBytes(T)
           /\ SumBytes(S) \in Nat /\ SumBytes(T) \in Nat /\ SumBytes(S \ T) \in Nat
<1>1. IsFiniteSet(T) /\ IsFiniteSet(S \ T) /\ T \subseteq Tasks /\ S \ T \subseteq Tasks
  BY FS_Subset
<1>2. (S \ T) \cap T = {} /\ (S \ T) \cup T = S
  OBVIOUS
<1>3. SumBytes(S) \in Nat /\ SumBytes(T) \in Nat /\ SumBytes(S \ T) \in Nat
  BY <1>1, BytesFinite
<1>4. SumBytes((S \ T) \cup T) = SumBytes(S \ T) + SumBytes(T)
  BY <1>1, <1>2, BytesUnion
<1> QED  BY <1>2, <1>3, <1>4

\* A stream task holds no bytes of the budget.
LEMMA BytesOfDatagrams ==
    ASSUME NEW S, S \subseteq Tasks
    PROVE  SumBytes(S) = SumBytes(S \cap Datagrams)
<1>1. \A t \in S \ Datagrams : (1..Bytes(t)) = {}
  BY DEF Bytes
<1>2. BytesOf(S) = BytesOf(S \cap Datagrams)
  BY <1>1 DEF BytesOf
<1> QED  BY <1>2 DEF SumBytes

-----------------------------------------------------------------------------
(* Sequences that hold a set *)

\* The empty queue holds nothing.
LEMMA HoldsEmpty == Holds(<<>>, {})
BY DEF Holds

\* Appending a new element keeps each element once.
LEMMA HoldsAppend ==
    ASSUME NEW T, NEW seq \in Seq(T), NEW S, NEW x \in T, x \notin S, Holds(seq, S)
    PROVE  Holds(Append(seq, x), S \cup {x}) /\ Append(seq, x) \in Seq(T)
<1> DEFINE new == Append(seq, x)
<1>1. /\ Len(seq) \in Nat /\ Len(new) = Len(seq) + 1 /\ new[Len(seq) + 1] = x
      /\ \A i \in 1..Len(seq) : new[i] = seq[i]
      /\ new \in Seq(T)
  OBVIOUS
<1> HIDE DEF new
<1>2. \A i \in 1..Len(new) : i \in 1..Len(seq) \/ i = Len(seq) + 1
  BY <1>1
<1>3. \A i \in 1..Len(new) : new[i] \in S \cup {x}
  BY <1>1, <1>2 DEF Holds
<1>4. \A y \in S \cup {x} : \E i \in 1..Len(new) : new[i] = y
  BY <1>1 DEF Holds
<1>5. \A i, j \in 1..Len(new) : new[i] = new[j] => i = j
  BY <1>1, <1>2 DEF Holds
<1> QED  BY <1>1, <1>3, <1>4, <1>5 DEF Holds, new

\* Taking the head removes exactly that element.
LEMMA HoldsTail ==
    ASSUME NEW T, NEW seq \in Seq(T), NEW S, seq # <<>>, Holds(seq, S)
    PROVE  /\ Head(seq) \in S /\ Head(seq) \in T
           /\ Holds(Tail(seq), S \ {Head(seq)}) /\ Tail(seq) \in Seq(T)
<1> DEFINE rest == Tail(seq)
<1>1. /\ Len(seq) \in Nat /\ Len(seq) > 0 /\ Len(rest) = Len(seq) - 1 /\ Head(seq) = seq[1]
      /\ \A i \in 1..Len(rest) : rest[i] = seq[i + 1] /\ i + 1 \in 1..Len(seq)
      /\ rest \in Seq(T) /\ 1 \in 1..Len(seq) /\ Head(seq) \in T
  OBVIOUS
<1> HIDE DEF rest
<1>2. Head(seq) \in S
  BY <1>1 DEF Holds
<1>3. \A i \in 1..Len(rest) : rest[i] \in S \ {Head(seq)}
  BY <1>1 DEF Holds
<1>4. \A x \in S \ {Head(seq)} : \E i \in 1..Len(rest) : rest[i] = x
  <2>1. ASSUME NEW x \in S \ {Head(seq)}
        PROVE  \E i \in 1..Len(rest) : rest[i] = x
    <3>1. PICK i \in 1..Len(seq) : seq[i] = x
      BY DEF Holds
    <3>2. i - 1 \in 1..Len(rest) /\ (i - 1) + 1 = i
      BY <1>1, <3>1
    <3> QED  BY <1>1, <3>1, <3>2
  <2> QED  BY <2>1
<1>5. \A i, j \in 1..Len(rest) : rest[i] = rest[j] => i = j
  <2>1. ASSUME NEW i \in 1..Len(rest), NEW j \in 1..Len(rest), rest[i] = rest[j]
        PROVE  i = j
    <3>1. i + 1 = j + 1
      BY <1>1, <2>1 DEF Holds
    <3> QED  BY <1>1, <3>1
  <2> QED  BY <2>1
<1> QED  BY <1>1, <1>2, <1>3, <1>4, <1>5 DEF Holds, rest

\* A queue is as long as the set that it holds is large.
LEMMA HoldsCount ==
    ASSUME NEW T, NEW seq \in Seq(T), NEW S, Holds(seq, S)
    PROVE  /\ IsFiniteSet(S) /\ Cardinality(S) = Len(seq) /\ S = {seq[i] : i \in 1..Len(seq)}
           /\ S = {} <=> seq = <<>>
<1> DEFINE f == [i \in 1..Len(seq) |-> seq[i]]
<1>1. Len(seq) \in Nat /\ (seq = <<>> <=> Len(seq) = 0)
  OBVIOUS
<1>2. S = {seq[i] : i \in 1..Len(seq)}
  BY DEF Holds
<1>3. f \in Bijection(1..Len(seq), S)
  <2>1. f \in [1..Len(seq) -> S] /\ \A i \in 1..Len(seq) : f[i] = seq[i]
    BY DEF Holds
  <2>2. \A i, j \in 1..Len(seq) : f[i] = f[j] => i = j
    BY DEF Holds
  <2>3. \A x \in S : \E i \in 1..Len(seq) : f[i] = x
    BY DEF Holds
  <2> HIDE DEF f
  <2> QED  BY <2>1, <2>2, <2>3 DEF Bijection, Injection, IsInjective, Surjection
<1>4. ExistsBijection(1..Len(seq), S)
  BY <1>3 DEF ExistsBijection
<1>5. IsFiniteSet(S) /\ Cardinality(S) = Len(seq)
  BY <1>1, <1>4, FS_NatBijection, FS_CountingElements
<1>6. S = {} <=> seq = <<>>
  BY <1>1, <1>5, FS_EmptySet
<1> QED  BY <1>2, <1>5, <1>6

-----------------------------------------------------------------------------
(* What the invariant says of the sets of tasks *)

\* All sets that the counters count are finite.
LEMMA LiveSets ==
    ASSUME PlacesExact
    PROVE  /\ IsFiniteSet(Held) /\ Held \subseteq Tasks /\ IsFiniteSet(Scheduled) /\ Cardinality(Scheduled) \in Nat
           /\ \A s \in Sessions :
                 /\ IsFiniteSet(InQueue(s)) /\ InQueue(s) \subseteq Held
                 /\ IsFiniteSet(PendingOf(s)) /\ PendingOf(s) \subseteq Scheduled
                 /\ IsFiniteSet(Active(s)) /\ Active(s) \subseteq Scheduled /\ Cardinality(Active(s)) \in Nat
<1>1. IsFiniteSet(Live) /\ Held \subseteq Live /\ Scheduled \subseteq Live /\ Held \subseteq Tasks
  BY DEF PlacesExact, Live, Held, Scheduled, Tasks
<1>2. \A s \in Sessions : InQueue(s) \subseteq Held /\ PendingOf(s) \subseteq Scheduled /\ Active(s) \subseteq Scheduled
  BY DEF InQueue, Held, PendingOf, Scheduled, Active
<1>3. IsFiniteSet(Held) /\ IsFiniteSet(Scheduled) /\ Cardinality(Scheduled) \in Nat
  BY <1>1, FS_Subset, FS_CardinalityType
<1>4. ASSUME NEW s \in Sessions
      PROVE  /\ IsFiniteSet(InQueue(s)) /\ IsFiniteSet(PendingOf(s)) /\ IsFiniteSet(Active(s))
             /\ Cardinality(Active(s)) \in Nat
  BY <1>2, <1>3, FS_Subset, FS_CardinalityType
<1> QED  BY <1>1, <1>2, <1>3, <1>4

\* The bytes that the shared counter shows are those of Held.
LEMMA HeldBytes ==
    ASSUME IndInv
    PROVE  /\ queuedDatagramBytes = SumBytes(Held) /\ queuedDatagramBytes \in Nat
           /\ queuedDatagramBytes <= MaxQueuedDatagramBytes
           /\ \A s \in Sessions : managedBytes[s] = SumBytes(InQueue(s)) /\ managedBytes[s] \in Nat
BY DEF IndInv, AccountsExact, BytesExact, TypeOK, Held

\* A step after which the places are exact and the counters equal the sums.
LEMMA AccountsFollow ==
    ASSUME TypeOK', PlacesExact',
           queuedDatagramBytes' = SumBytes(Held'), queuedDatagramBytes' <= MaxQueuedDatagramBytes,
           \A s \in Sessions : managedBytes'[s] = SumBytes(InQueue(s)'),
           reserved' = Cardinality(Scheduled')
    PROVE  AccountsExact'
<1>1. Held' = {d \in Datagrams : state'[d] \in {"queued", "pending", "active"}}
  BY DEF Held
<1>2. BytesExact'
  BY <1>1 DEF BytesExact, SumBytes, BytesOf, Bytes
<1>3. ReservationsExact'
  BY DEF ReservationsExact
<1> QED  BY <1>2, <1>3 DEF AccountsExact

-----------------------------------------------------------------------------
(* The drainer *)

\* After AwaitCapacity() the drainer of s waits only if it must, and the others
\* are as they were.
LEMMA AwaitKeepsAwake ==
    ASSUME TypeOK, DrainerNotStranded, NEW s \in Sessions, AwaitCapacity(s),
           accepting' = accepting, \A q \in Sessions \ {s} : HasCapacity(q)' = HasCapacity(q)
    PROVE  /\ DrainerNotStranded' /\ drainer' \in [Sessions -> {None, "waiting", "resuming", "submitted"}]
           /\ drainer'[s] # None /\ \A q \in Sessions \ {s} : drainer'[q] = drainer[q]
<1>1. /\ drainer'[s] \in {"resuming", "waiting"} /\ \A q \in Sessions \ {s} : drainer'[q] = drainer[q]
      /\ drainer'[s] = "waiting" => ~HasCapacity(s)' /\ accepting'[s]
      /\ drainer' \in [Sessions -> {None, "waiting", "resuming", "submitted"}]
  BY DEF AwaitCapacity, TypeOK
<1>2. DrainerNotStranded'
  BY <1>1 DEF DrainerNotStranded
<1> QED  BY <1>1, <1>2 DEF None

\* flushWaiters() leaves nobody waiting for a place that is there.
LEMMA FlushKeepsAwake ==
    ASSUME TypeOK, DrainerNotStranded, NEW s \in Sessions, FlushWaiters(s),
           \A q \in Sessions \ {s} : accepting'[q] = accepting[q] /\ HasCapacity(q)' = HasCapacity(q)
    PROVE  /\ DrainerNotStranded' /\ drainer' \in [Sessions -> {None, "waiting", "resuming", "submitted"}]
           /\ \A q \in Sessions : drainer'[q] = None <=> drainer[q] = None
<1>1. /\ \A q \in Sessions \ {s} : drainer'[q] = drainer[q]
      /\ drainer'[s] = drainer[s] \/ (drainer[s] = "waiting" /\ drainer'[s] = "resuming")
      /\ drainer'[s] = "waiting" => ~HasCapacity(s)' /\ accepting'[s]
      /\ drainer' \in [Sessions -> {None, "waiting", "resuming", "submitted"}]
  BY DEF FlushWaiters, TypeOK
<1>2. DrainerNotStranded'
  BY <1>1 DEF DrainerNotStranded
<1> QED  BY <1>1, <1>2 DEF None

\* The loop of the drainer: it goes on exactly while there is something to drain.
LEMMA DrainLoopKeepsAwake ==
    ASSUME IndInv, NEW s \in Sessions, DrainLoop(s), UNCHANGED <<queue, sessionVars, state, owner, pending>>
    PROVE  /\ NoLostWakeup' /\ drainer' \in [Sessions -> {None, "waiting", "resuming", "submitted"}]
           /\ drainingDatagrams' \in [Sessions -> BOOLEAN]
<1>1. TypeOK /\ QueuedIsDrained /\ DrainerNotStranded
  BY DEF IndInv, AccountsExact, NoLostWakeup
<1>2. \A q \in Sessions : HasCapacity(q)' = HasCapacity(q)
  BY DEF HasCapacity, Active, sessionVars
<1>3. CASE queue'[s] # <<>> /\ ~aborted'[s] /\ intake'[s]
  <2>1. AwaitCapacity(s) /\ drainingDatagrams' = drainingDatagrams
    BY <1>3 DEF DrainLoop
  <2>2. /\ DrainerNotStranded' /\ drainer' \in [Sessions -> {None, "waiting", "resuming", "submitted"}]
        /\ drainer'[s] # None /\ \A q \in Sessions \ {s} : drainer'[q] = drainer[q]
    BY <1>1, <1>2, <2>1, AwaitKeepsAwake DEF sessionVars
  <2>3. QueuedIsDrained'
    <3>1. drainingDatagrams[s]
      BY <1>1, <1>3 DEF QueuedIsDrained
    <3> QED  BY <1>1, <1>3, <2>1, <2>2, <3>1 DEF QueuedIsDrained, sessionVars
  <2> QED  BY <1>1, <2>1, <2>2, <2>3 DEF NoLostWakeup, TypeOK
<1>4. CASE ~(queue'[s] # <<>> /\ ~aborted'[s] /\ intake'[s])
  <2>1. /\ drainer' = [drainer EXCEPT ![s] = None]
        /\ drainingDatagrams' = [drainingDatagrams EXCEPT ![s] = FALSE]
    BY <1>4 DEF DrainLoop
  <2>2. queue[s] = <<>>
    BY <1>1, <1>4 DEF QueuedIsDrained, sessionVars
  <2>3. QueuedIsDrained' /\ DrainerNotStranded'
    BY <1>1, <1>2, <2>1, <2>2 DEF QueuedIsDrained, DrainerNotStranded, sessionVars, TypeOK, None
  <2> QED  BY <1>1, <2>1, <2>3 DEF NoLostWakeup, TypeOK
<1> QED  BY <1>3, <1>4

\* The pump starts a drainer after every datagram, unless there is one.
LEMMA StartDrainerKeepsAwake ==
    ASSUME IndInv, NEW s \in Sessions, StartDrainer(s), intake[s], ~aborted[s],
           UNCHANGED sessionVars, \A q \in Sessions : HasCapacity(q)' = HasCapacity(q),
           \A q \in Sessions \ {s} : queue'[q] = queue[q]
    PROVE  /\ NoLostWakeup' /\ drainer' \in [Sessions -> {None, "waiting", "resuming", "submitted"}]
           /\ drainingDatagrams' \in [Sessions -> BOOLEAN]
<1>1. TypeOK /\ QueuedIsDrained /\ DrainerNotStranded
  BY DEF IndInv, AccountsExact, NoLostWakeup
<1>2. CASE drainingDatagrams[s]
  <2>1. UNCHANGED <<drainer, drainingDatagrams>>
    BY <1>2 DEF StartDrainer
  <2>2. QueuedIsDrained' /\ DrainerNotStranded'
    BY <1>1, <1>2, <2>1 DEF QueuedIsDrained, DrainerNotStranded, sessionVars
  <2> QED  BY <1>1, <2>1, <2>2 DEF NoLostWakeup, TypeOK
<1>3. CASE ~drainingDatagrams[s]
  <2>1. AwaitCapacity(s) /\ drainingDatagrams' = [drainingDatagrams EXCEPT ![s] = TRUE]
    BY <1>3 DEF StartDrainer
  <2>2. /\ DrainerNotStranded' /\ drainer' \in [Sessions -> {None, "waiting", "resuming", "submitted"}]
        /\ drainer'[s] # None /\ \A q \in Sessions \ {s} : drainer'[q] = drainer[q]
    BY <1>1, <2>1, AwaitKeepsAwake DEF sessionVars
  <2>3. QueuedIsDrained'
    BY <1>1, <2>1, <2>2 DEF QueuedIsDrained, sessionVars, TypeOK
  <2> QED  BY <1>1, <2>1, <2>2, <2>3 DEF NoLostWakeup, TypeOK
<1> QED  BY <1>2, <1>3

-----------------------------------------------------------------------------
(* The steps of the pump and the drainer *)

\* Steps that move no datagram; one that was never taken may be dropped.
LEMMA NothingMovesKeeps ==
    ASSUME IndInv,
           \/ state' = state
           \/ \E d \in Tasks : state[d] = "new" /\ state' = [state EXCEPT ![d] = "dropped"],
           UNCHANGED <<queueOverflow, queue, queuedDatagramBytes, managedBytes, sessionVars, pending,
                       reserved, owner>>,
           pump' \in [Sessions -> {"reading", "closing", "ended"}],
           drainer' \in [Sessions -> {None, "waiting", "resuming", "submitted"}],
           drainingDatagrams' \in [Sessions -> BOOLEAN],
           NoLostWakeup'
    PROVE  IndInv'
<1>1. TypeOK /\ PlacesExact /\ IntakeExact /\ ReservationsExact
  BY DEF IndInv, AccountsExact
<1>2. TypeOK'
  BY <1>1 DEF TypeOK, sessionVars
<1>3. /\ Live' = Live /\ Held' = Held /\ Scheduled' = Scheduled
      /\ \A s \in Sessions : InQueue(s)' = InQueue(s) /\ PendingOf(s)' = PendingOf(s)
      /\ \A t \in Live : state'[t] = state[t]
  BY <1>1 DEF Live, Held, Scheduled, InQueue, PendingOf, TypeOK, Tasks
<1>4. PlacesExact'
  BY <1>1, <1>3 DEF PlacesExact, Holds
<1>5. AccountsExact'
  BY <1>1, <1>2, <1>3, <1>4, HeldBytes, AccountsFollow DEF ReservationsExact
<1>6. IntakeExact'
  BY <1>1 DEF IntakeExact, sessionVars
<1> QED  BY <1>4, <1>5, <1>6 DEF IndInv

\* A datagram that is not scheduled changes the capacity of no scheduler.
LEMMA SameCapacity ==
    ASSUME TypeOK, NEW d \in Tasks, state[d] \notin {"active", "pending"},
           state' = state \/ (\E v \in {"dropped", "queued"} : state' = [state EXCEPT ![d] = v]),
           \A t \in Tasks \ {d} : owner'[t] = owner[t], UNCHANGED <<accepting, pending>>
    PROVE  \A q \in Sessions : HasCapacity(q)' = HasCapacity(q)
<1>1. \A q \in Sessions : Active(q)' = Active(q)
  BY DEF Active, TypeOK
<1> QED  BY <1>1 DEF HasCapacity

\* A datagram that is refused, or that the queue refuses, is counted nowhere.
LEMMA PumpDropsKeeps ==
    ASSUME IndInv, NEW s \in Sessions, NEW d \in Datagrams, PumpDrops(s, d) \/ PumpOverflows(s, d)
    PROVE  IndInv'
<1>1. TypeOK /\ QueuedIsDrained /\ DrainerNotStranded /\ d \in Tasks
  BY DEF IndInv, AccountsExact, NoLostWakeup, Tasks
<1>2. /\ intake[s] /\ ~aborted[s] /\ state[d] = "new" /\ state' = [state EXCEPT ![d] = "dropped"]
      /\ UNCHANGED <<queueOverflow, queue, queuedDatagramBytes, managedBytes, sessionVars, pending,
                     reserved, owner>>
      /\ UNCHANGED <<drainer, drainingDatagrams>> \/ StartDrainer(s)
      /\ pump' = pump \/ pump' = [pump EXCEPT ![s] = "closing"]
  BY DEF PumpDrops, PumpOverflows, Reading
<1>3. \A q \in Sessions : HasCapacity(q)' = HasCapacity(q)
  BY <1>1, <1>2, SameCapacity DEF sessionVars
<1>4. /\ NoLostWakeup' /\ drainer' \in [Sessions -> {None, "waiting", "resuming", "submitted"}]
      /\ drainingDatagrams' \in [Sessions -> BOOLEAN]
  <2>1. CASE UNCHANGED <<drainer, drainingDatagrams>>
    BY <1>1, <1>2, <1>3, <2>1 DEF NoLostWakeup, QueuedIsDrained, DrainerNotStranded, sessionVars, TypeOK
  <2>2. CASE StartDrainer(s)
    BY <1>2, <1>3, <2>2, StartDrainerKeepsAwake
  <2> QED  BY <1>2, <2>1, <2>2
<1>5. pump' \in [Sessions -> {"reading", "closing", "ended"}]
  BY <1>1, <1>2 DEF TypeOK
<1> QED  BY <1>1, <1>2, <1>4, <1>5, NothingMovesKeeps

\* A pump that ends leaves queue and drainer as they are.
LEMMA PumpEndsKeeps ==
    ASSUME IndInv, NEW s \in Sessions, PumpEnds(s)
    PROVE  IndInv'
<1>1. TypeOK /\ QueuedIsDrained /\ DrainerNotStranded
  BY DEF IndInv, AccountsExact, NoLostWakeup
<1>2. \A q \in Sessions : HasCapacity(q)' = HasCapacity(q)
  BY DEF PumpEnds, HasCapacity, Active, sessionVars
<1>3. NoLostWakeup'
  BY <1>1, <1>2 DEF PumpEnds, NoLostWakeup, QueuedIsDrained, DrainerNotStranded, sessionVars
<1>4. /\ drainer' \in [Sessions -> {None, "waiting", "resuming", "submitted"}]
      /\ drainingDatagrams' \in [Sessions -> BOOLEAN]
      /\ pump' \in [Sessions -> {"reading", "closing", "ended"}]
  BY <1>1 DEF PumpEnds, TypeOK
<1> QED  BY <1>3, <1>4, NothingMovesKeeps DEF PumpEnds

\* A drainer that finds nothing, or no place, returns or waits where it will be woken.
LEMMA DrainerIdlesKeeps ==
    ASSUME IndInv, NEW s \in Sessions, DrainerFindsNothing(s) \/ DrainerContinues(s)
    PROVE  IndInv'
<1>1. TypeOK /\ QueuedIsDrained /\ DrainerNotStranded /\ IntakeExact
  BY DEF IndInv, AccountsExact, NoLostWakeup
<1>2. UNCHANGED <<queueOverflow, queue, queuedDatagramBytes, managedBytes, sessionVars, pump,
                  pending, reserved, state, owner>>
  BY DEF DrainerFindsNothing, DrainerContinues
<1>3. /\ NoLostWakeup' /\ drainer' \in [Sessions -> {None, "waiting", "resuming", "submitted"}]
      /\ drainingDatagrams' \in [Sessions -> BOOLEAN]
  <2>1. CASE DrainLoop(s)
    BY <1>2, <2>1, DrainLoopKeepsAwake
  <2>2. CASE DrainerReturns(s) /\ (~accepting[s] \/ aborted[s] \/ ~intake[s] \/ queue[s] = <<>>)
    <3>1. queue[s] = <<>>
      BY <1>1, <2>2 DEF QueuedIsDrained, IntakeExact
    <3>2. \A q \in Sessions : HasCapacity(q)' = HasCapacity(q)
      BY <1>2 DEF HasCapacity, Active, sessionVars
    <3> QED  BY <1>1, <1>2, <2>2, <3>1, <3>2
             DEF DrainerReturns, NoLostWakeup, QueuedIsDrained, DrainerNotStranded, sessionVars, TypeOK, None
  <2> QED  BY <2>1, <2>2 DEF DrainerFindsNothing, DrainerContinues
<1>4. pump' \in [Sessions -> {"reading", "closing", "ended"}]
  BY <1>1, <1>2 DEF TypeOK
<1> QED  BY <1>2, <1>3, <1>4, NothingMovesKeeps

\* An enqueued datagram is charged, and its enqueue starts a drainer if none runs.
LEMMA PumpEnqueuesKeeps ==
    ASSUME IndInv, NEW s \in Sessions, NEW d \in Datagrams, PumpEnqueues(s, d)
    PROVE  IndInv'
<1>1. TypeOK /\ PlacesExact /\ IntakeExact /\ ReservationsExact /\ d \in Tasks
  BY DEF IndInv, AccountsExact, Tasks
<1>2. /\ intake[s] /\ ~aborted[s] /\ state[d] = "new" /\ Fits(s, d) /\ ~IsFull(s)
      /\ queue' = [queue EXCEPT ![s] = Append(@, d)]
      /\ queuedDatagramBytes' = queuedDatagramBytes + Size[d]
      /\ managedBytes' = [managedBytes EXCEPT ![s] = @ + Size[d]]
      /\ state' = [state EXCEPT ![d] = "queued"] /\ owner' = [owner EXCEPT ![d] = s]
      /\ UNCHANGED <<queueOverflow, sessionVars, pump, pending, reserved>> /\ StartDrainer(s)
  BY DEF PumpEnqueues, Reading
<1>3. /\ d \notin Live /\ Live' = Live \cup {d} /\ Held' = Held \cup {d} /\ Scheduled' = Scheduled
      /\ InQueue(s)' = InQueue(s) \cup {d} /\ d \notin Held /\ d \notin InQueue(s)
      /\ \A q \in Sessions \ {s} : InQueue(q)' = InQueue(q)
      /\ \A q \in Sessions : PendingOf(q)' = PendingOf(q)
  BY <1>1, <1>2 DEF Live, Held, Scheduled, InQueue, PendingOf, TypeOK, Tasks
<1>4. PlacesExact'
  <2>1. IsFiniteSet(Live')
    BY <1>1, <1>3, FS_AddElement DEF PlacesExact
  <2>2. \A t \in Live' : owner'[t] \in Sessions /\ (state'[t] = "queued" => t \in Datagrams)
    BY <1>1, <1>2, <1>3 DEF PlacesExact, TypeOK, Live
  <2>3. Holds(queue'[s], InQueue(s)')
    BY <1>1, <1>2, <1>3, HoldsAppend DEF PlacesExact, TypeOK
  <2>4. \A q \in Sessions : Holds(queue'[q], InQueue(q)') /\ Holds(pending'[q], PendingOf(q)')
    <3>1. \A q \in Sessions \ {s} : queue'[q] = queue[q] /\ InQueue(q)' = InQueue(q)
      BY <1>1, <1>2, <1>3 DEF TypeOK
    <3>2. \A q \in Sessions \ {s} : Holds(queue'[q], InQueue(q)')
      BY <1>1, <3>1 DEF PlacesExact
    <3>3. \A q \in Sessions : Holds(pending'[q], PendingOf(q)')
      BY <1>1, <1>2, <1>3 DEF PlacesExact
    <3> QED  BY <2>3, <3>2, <3>3
  <2> QED  BY <2>1, <2>2, <2>4 DEF PlacesExact, Holds
<1>5. Bytes(d) = Size[d] /\ Size[d] \in Nat
  BY BytesNatural, SizesPositive DEF Tasks
<1>6. queuedDatagramBytes' = SumBytes(Held')
  BY <1>1, <1>2, <1>3, <1>5, LiveSets, HeldBytes, BytesAdd
<1>7. \A q \in Sessions : managedBytes'[q] = SumBytes(InQueue(q)')
  <2>1. InQueue(s) \subseteq Tasks /\ IsFiniteSet(InQueue(s))
    BY <1>1, LiveSets
  <2>2. SumBytes(InQueue(s)') = SumBytes(InQueue(s)) + Size[d]
    BY <1>1, <1>3, <1>5, <2>1, BytesAdd
  <2>3. \A q \in Sessions \ {s} : managedBytes'[q] = managedBytes[q] /\ InQueue(q)' = InQueue(q)
    BY <1>1, <1>2, <1>3 DEF TypeOK
  <2>4. managedBytes'[s] = managedBytes[s] + Size[d]
    BY <1>1, <1>2 DEF TypeOK
  <2>5. \A q \in Sessions : managedBytes[q] = SumBytes(InQueue(q))
    BY HeldBytes
  <2>6. managedBytes'[s] = SumBytes(InQueue(s)')
    BY <2>2, <2>4, <2>5
  <2>7. \A q \in Sessions \ {s} : managedBytes'[q] = SumBytes(InQueue(q)')
    BY <2>3, <2>5
  <2> QED  BY <2>6, <2>7
<1>8. queuedDatagramBytes' <= MaxQueuedDatagramBytes
  BY <1>2, <1>5, HeldBytes DEF Fits, WithinByteLimit, ReplacedBytes
<1>9. \A q \in Sessions : HasCapacity(q)' = HasCapacity(q)
  <2>1. \A q \in Sessions : Active(q)' = Active(q)
    BY <1>1, <1>2 DEF Active, TypeOK
  <2> QED  BY <1>2, <2>1 DEF HasCapacity, sessionVars
<1>10. /\ NoLostWakeup' /\ drainer' \in [Sessions -> {None, "waiting", "resuming", "submitted"}]
       /\ drainingDatagrams' \in [Sessions -> BOOLEAN]
  BY <1>1, <1>2, <1>9, StartDrainerKeepsAwake DEF TypeOK
<1>11. TypeOK'
  <2>1. queue' \in [Sessions -> Seq(Datagrams)]
    BY <1>1, <1>2 DEF TypeOK
  <2>2. queuedDatagramBytes' \in Nat /\ managedBytes' \in [Sessions -> Nat]
    BY <1>1, <1>2, <1>5 DEF TypeOK
  <2> QED  BY <1>1, <1>2, <1>10, <2>1, <2>2 DEF TypeOK, sessionVars
<1>12. AccountsExact'
  BY <1>1, <1>2, <1>3, <1>4, <1>6, <1>7, <1>8, <1>11, AccountsFollow DEF ReservationsExact
<1> QED  BY <1>1, <1>2, <1>4, <1>10, <1>12 DEF IndInv, IntakeExact, sessionVars

\* A datagram that replaces the oldest takes over its place in the queue.
LEMMA PumpReplacesKeeps ==
    ASSUME IndInv, NEW s \in Sessions, NEW d \in Datagrams, PumpReplacesOldest(s, d)
    PROVE  IndInv'
<1> DEFINE oldest == Head(queue[s])
<1>1. TypeOK /\ PlacesExact /\ IntakeExact /\ ReservationsExact /\ d \in Tasks
  BY DEF IndInv, AccountsExact, Tasks
<1>2. /\ intake[s] /\ ~aborted[s] /\ state[d] = "new" /\ Fits(s, d) /\ IsFull(s) /\ queueOverflow = "drop-oldest"
      /\ queue' = [queue EXCEPT ![s] = Append(Tail(@), d)]
      /\ queuedDatagramBytes' = queuedDatagramBytes + Size[d] - Size[oldest]
      /\ managedBytes' = [managedBytes EXCEPT ![s] = @ + Size[d] - Size[oldest]]
      /\ state' = [state EXCEPT ![d] = "queued", ![oldest] = "dropped"] /\ owner' = [owner EXCEPT ![d] = s]
      /\ UNCHANGED <<queueOverflow, sessionVars, pump, pending, reserved>> /\ StartDrainer(s)
  BY DEF PumpReplacesOldest, Reading
<1>3. queue[s] \in Seq(Datagrams) /\ queue[s] # <<>>
  BY <1>1, <1>2, LimitsPositive DEF TypeOK, IsFull
<1>4. /\ oldest \in InQueue(s) /\ oldest \in Datagrams /\ Tail(queue[s]) \in Seq(Datagrams)
      /\ Holds(Tail(queue[s]), InQueue(s) \ {oldest})
  BY <1>1, <1>3, HoldsTail DEF PlacesExact
<1> HIDE DEF oldest
<1>5. oldest \in Held /\ oldest \in Live /\ oldest # d /\ state[oldest] = "queued" /\ owner[oldest] = s /\ oldest \in Tasks
  BY <1>2, <1>4 DEF InQueue, Held, Live, Tasks
<1>6. /\ d \notin Live /\ Live' = (Live \ {oldest}) \cup {d} /\ Held' = (Held \ {oldest}) \cup {d}
      /\ Scheduled' = Scheduled
      /\ InQueue(s)' = (InQueue(s) \ {oldest}) \cup {d} /\ d \notin Held /\ d \notin InQueue(s)
      /\ \A q \in Sessions \ {s} : InQueue(q)' = InQueue(q)
      /\ \A q \in Sessions : PendingOf(q)' = PendingOf(q)
  BY <1>1, <1>2, <1>4, <1>5 DEF Live, Held, Scheduled, InQueue, PendingOf, TypeOK, Tasks
<1>7. PlacesExact'
  <2>1. IsFiniteSet(Live')
    BY <1>1, <1>6, FS_AddElement, FS_RemoveElement DEF PlacesExact
  <2>2. \A t \in Live' : owner'[t] \in Sessions /\ (state'[t] = "queued" => t \in Datagrams)
    BY <1>1, <1>2, <1>5, <1>6 DEF PlacesExact, TypeOK, Live
  <2>3. Holds(queue'[s], InQueue(s)') /\ queue'[s] \in Seq(Datagrams)
    <3>1. queue'[s] = Append(Tail(queue[s]), d) /\ d \notin InQueue(s) \ {oldest}
      BY <1>1, <1>2, <1>6 DEF TypeOK
    <3>2. /\ Holds(Append(Tail(queue[s]), d), (InQueue(s) \ {oldest}) \cup {d})
          /\ Append(Tail(queue[s]), d) \in Seq(Datagrams)
      BY <1>4, <3>1, HoldsAppend
    <3> QED  BY <1>6, <3>1, <3>2
  <2>4. \A q \in Sessions : Holds(queue'[q], InQueue(q)') /\ Holds(pending'[q], PendingOf(q)')
    <3>1. \A q \in Sessions \ {s} : queue'[q] = queue[q] /\ InQueue(q)' = InQueue(q)
      BY <1>1, <1>2, <1>6 DEF TypeOK
    <3>2. \A q \in Sessions \ {s} : Holds(queue'[q], InQueue(q)')
      BY <1>1, <3>1 DEF PlacesExact
    <3>3. \A q \in Sessions : Holds(pending'[q], PendingOf(q)')
      BY <1>1, <1>2, <1>6 DEF PlacesExact
    <3> QED  BY <2>3, <3>2, <3>3
  <2> QED  BY <2>1, <2>2, <2>4 DEF PlacesExact, Holds
<1>8. Bytes(d) = Size[d] /\ Size[d] \in Nat /\ Bytes(oldest) = Size[oldest] /\ Size[oldest] \in Nat
  BY <1>4, BytesNatural, SizesPositive DEF Tasks
<1>9. ASSUME NEW S, S \subseteq Tasks, IsFiniteSet(S), oldest \in S, d \notin S
      PROVE  /\ SumBytes((S \ {oldest}) \cup {d}) = SumBytes(S) + Size[d] - Size[oldest]
             /\ SumBytes((S \ {oldest}) \cup {d}) \in Nat
  <2>1. /\ SumBytes(S \ {oldest}) = SumBytes(S) - Size[oldest]
        /\ SumBytes(S \ {oldest}) \in Nat /\ SumBytes(S) \in Nat
    <3>1. {oldest} \subseteq S
      BY <1>9
    <3>2. SumBytes({oldest}) = Size[oldest]
      BY <1>5, <1>8, BytesOfOne
    <3>3. /\ SumBytes(S \ {oldest}) = SumBytes(S) - SumBytes({oldest})
          /\ SumBytes(S) \in Nat /\ SumBytes(S \ {oldest}) \in Nat
      BY <1>9, <3>1, BytesRemove
    <3> QED  BY <3>2, <3>3
  <2>2. IsFiniteSet(S \ {oldest}) /\ S \ {oldest} \subseteq Tasks /\ d \notin S \ {oldest}
    BY <1>9, FS_RemoveElement
  <2>3. SumBytes((S \ {oldest}) \cup {d}) = SumBytes(S \ {oldest}) + Size[d]
    BY <1>1, <1>8, <2>2, BytesAdd
  <2> QED  BY <1>8, <2>1, <2>3
<1>10. queuedDatagramBytes' = SumBytes(Held')
  BY <1>1, <1>2, <1>5, <1>6, <1>9, LiveSets, HeldBytes
<1>11. \A q \in Sessions : managedBytes'[q] = SumBytes(InQueue(q)')
  <2>1. InQueue(s) \subseteq Tasks /\ IsFiniteSet(InQueue(s))
    BY <1>1, LiveSets
  <2>2. SumBytes(InQueue(s)') = SumBytes(InQueue(s)) + Size[d] - Size[oldest]
    BY <1>4, <1>6, <1>9, <2>1
  <2>3. \A q \in Sessions \ {s} : managedBytes'[q] = managedBytes[q] /\ InQueue(q)' = InQueue(q)
    BY <1>1, <1>2, <1>6 DEF TypeOK
  <2>4. managedBytes'[s] = managedBytes[s] + Size[d] - Size[oldest]
    BY <1>1, <1>2 DEF TypeOK
  <2>5. \A q \in Sessions : managedBytes[q] = SumBytes(InQueue(q))
    BY HeldBytes
  <2>6. managedBytes'[s] = SumBytes(InQueue(s)')
    BY <2>2, <2>4, <2>5
  <2>7. \A q \in Sessions \ {s} : managedBytes'[q] = SumBytes(InQueue(q)')
    BY <2>3, <2>5
  <2> QED  BY <2>6, <2>7
<1>12. queuedDatagramBytes' <= MaxQueuedDatagramBytes
  BY <1>2, <1>8, HeldBytes DEF Fits, WithinByteLimit, ReplacedBytes, oldest
<1>13. \A q \in Sessions : HasCapacity(q)' = HasCapacity(q)
  <2>1. \A q \in Sessions : Active(q)' = Active(q)
    BY <1>1, <1>2, <1>5 DEF Active, TypeOK
  <2> QED  BY <1>2, <2>1 DEF HasCapacity, sessionVars
<1>14. /\ NoLostWakeup' /\ drainer' \in [Sessions -> {None, "waiting", "resuming", "submitted"}]
       /\ drainingDatagrams' \in [Sessions -> BOOLEAN]
  BY <1>1, <1>2, <1>13, StartDrainerKeepsAwake DEF TypeOK
<1>15. TypeOK'
  <2>1. queue' \in [Sessions -> Seq(Datagrams)]
    BY <1>1, <1>2, <1>4 DEF TypeOK
  <2>2. queuedDatagramBytes' \in Nat /\ managedBytes' \in [Sessions -> Nat]
    <3>1. SumBytes(Held') \in Nat /\ SumBytes(InQueue(s)') \in Nat
      <4>1. InQueue(s) \subseteq Tasks /\ IsFiniteSet(InQueue(s)) /\ Held \subseteq Tasks /\ IsFiniteSet(Held)
        BY <1>1, LiveSets
      <4> QED  BY <1>4, <1>5, <1>6, <1>9, <4>1
    <3> QED  BY <1>1, <1>2, <1>10, <1>11, <3>1 DEF TypeOK
  <2>3. state' \in [Tasks -> {"new", "dropped", "queued", "pending", "active", "settled"}]
    BY <1>1, <1>2, <1>5 DEF TypeOK
  <2> QED  BY <1>1, <1>2, <1>14, <2>1, <2>2, <2>3 DEF TypeOK, sessionVars
<1>16. AccountsExact'
  BY <1>1, <1>2, <1>6, <1>7, <1>10, <1>11, <1>12, <1>15, AccountsFollow DEF ReservationsExact
<1> QED  BY <1>1, <1>2, <1>7, <1>14, <1>16 DEF IndInv, IntakeExact, sessionVars

-----------------------------------------------------------------------------
(* The steps of the scheduler *)

\* submit(): whichever way it goes, the task's bytes and reservation end up where
\* the task does.  A datagram comes from the queue of s, a stream from nowhere.
LEMMA SubmitKeeps ==
    ASSUME IndInv, NEW s \in Sessions, NEW t \in Tasks, SubmitTask(s, t), accepting' = accepting,
           \/ t \in StreamTasks /\ state[t] = "new"
           \/ t \in Datagrams /\ state[t] = "queued" /\ owner[t] = s
    PROVE  /\ IsFiniteSet(Live') /\ \A u \in Live' : owner'[u] \in Sessions /\ (state'[u] = "queued" => u \in Datagrams)
           /\ \A q \in Sessions : Holds(pending'[q], PendingOf(q)')
           /\ pending' \in [Sessions -> Seq(Tasks)]
           /\ state' \in [Tasks -> {"new", "dropped", "queued", "pending", "active", "settled"}]
           /\ owner' \in [Tasks -> Sessions \cup {None}]
           /\ queuedDatagramBytes' = SumBytes(Held') /\ queuedDatagramBytes' \in Nat
           /\ queuedDatagramBytes' <= MaxQueuedDatagramBytes
           /\ reserved' = Cardinality(Scheduled') /\ reserved' \in 0..HandlerLimit
           /\ \A q \in Sessions : InQueue(q)' = InQueue(q) \ {t}
           /\ \A q \in Sessions : HasCapacity(q)' => HasCapacity(q)
<1>1. TypeOK /\ PlacesExact /\ ReservationsExact
  BY DEF IndInv, AccountsExact
<1>2. t \notin Scheduled
  BY TasksDisjoint DEF Scheduled
<1>3. CASE SubmitStarted(s, t) \/ SubmitQueued(s, t)
  <2>1. /\ reserved < HandlerLimit /\ reserved' = reserved + 1 /\ queuedDatagramBytes' = queuedDatagramBytes
        /\ owner' = [owner EXCEPT ![t] = s]
        /\ \/ state' = [state EXCEPT ![t] = "active"] /\ pending' = pending
           \/ state' = [state EXCEPT ![t] = "pending"] /\ pending' = [pending EXCEPT ![s] = Append(@, t)]
    BY <1>3 DEF SubmitStarted, SubmitQueued
  <2>2. /\ Live' = Live \cup {t} /\ Held' = Held /\ Scheduled' = Scheduled \cup {t}
        /\ \A q \in Sessions : InQueue(q)' = InQueue(q) \ {t}
        /\ \A q \in Sessions \ {s} : PendingOf(q)' = PendingOf(q) /\ Active(q)' = Active(q)
    <3>1. /\ state'[t] \in {"active", "pending"} /\ \A u \in Tasks \ {t} : state'[u] = state[u] /\ owner'[u] = owner[u]
          /\ owner'[t] = s /\ state[t] \in {"new", "queued"} /\ (state[t] = "new" => t \notin Datagrams)
      BY <1>1, <2>1, TasksDisjoint DEF TypeOK
    <3>2. Live' = Live \cup {t} /\ Scheduled' = Scheduled \cup {t}
      BY <3>1 DEF Live, Scheduled
    <3>3. Held' = Held
      BY <3>1 DEF Held, Tasks
    <3>4. \A q \in Sessions : InQueue(q)' = InQueue(q) \ {t}
      BY <3>1 DEF InQueue, Tasks
    <3>5. \A q \in Sessions \ {s} : PendingOf(q)' = PendingOf(q) /\ Active(q)' = Active(q)
      BY <1>2, <3>1 DEF PendingOf, Active, Scheduled
    <3> QED  BY <3>2, <3>3, <3>4, <3>5
  <2>3. IsFiniteSet(Live') /\ \A u \in Live' : owner'[u] \in Sessions /\ (state'[u] = "queued" => u \in Datagrams)
    <3>1. IsFiniteSet(Live')
      BY <1>1, <2>2, FS_AddElement DEF PlacesExact
    <3> QED  BY <1>1, <2>1, <2>2, <3>1 DEF PlacesExact, TypeOK, Live
  <2>4. reserved' = Cardinality(Scheduled') /\ reserved' \in 0..HandlerLimit
    <3>1. Cardinality(Scheduled') = Cardinality(Scheduled) + 1
      BY <1>1, <1>2, <2>2, LiveSets, FS_AddElement
    <3>2. reserved = Cardinality(Scheduled) /\ reserved \in 0..HandlerLimit /\ HandlerLimit \in Nat
      BY <1>1, LimitsPositive DEF ReservationsExact, TypeOK
    <3> QED  BY <2>1, <3>1, <3>2
  <2>5. /\ queuedDatagramBytes' = SumBytes(Held') /\ queuedDatagramBytes' \in Nat
        /\ queuedDatagramBytes' <= MaxQueuedDatagramBytes
    BY <2>1, <2>2, HeldBytes
  <2>6. /\ state' \in [Tasks -> {"new", "dropped", "queued", "pending", "active", "settled"}]
        /\ owner' \in [Tasks -> Sessions \cup {None}]
    BY <1>1, <2>1 DEF TypeOK
  <2>7. CASE state' = [state EXCEPT ![t] = "active"] /\ pending' = pending
    <3>1. PendingOf(s)' = PendingOf(s) /\ Active(s)' = Active(s) \cup {t} /\ t \notin Active(s)
      BY <1>1, <1>2, <2>1, <2>7 DEF PendingOf, Active, TypeOK, Scheduled
    <3>2. \A q \in Sessions : Holds(pending'[q], PendingOf(q)')
      BY <1>1, <2>2, <2>7, <3>1 DEF PlacesExact
    <3>3. Cardinality(Active(s)') = Cardinality(Active(s)) + 1 /\ Cardinality(Active(s)) \in Nat
      BY <1>1, <3>1, LiveSets, FS_AddElement
    <3>4. HasCapacity(s)' => HasCapacity(s)
      <4>1. Len(pending[s]) \in Nat /\ MaxConcurrent \in Nat /\ MaxPending \in Nat
        BY <1>1, LimitsPositive DEF TypeOK
      <4> QED  BY <2>7, <3>3, <4>1 DEF HasCapacity
    <3>5. \A q \in Sessions \ {s} : HasCapacity(q)' => HasCapacity(q)
      BY <2>2, <2>7 DEF HasCapacity
    <3>6. \A q \in Sessions : HasCapacity(q)' => HasCapacity(q)
      BY <3>4, <3>5
    <3>7. pending' \in [Sessions -> Seq(Tasks)]
      BY <1>1, <2>7 DEF TypeOK
    <3> QED  BY <2>2, <2>3, <2>4, <2>5, <2>6, <3>2, <3>6, <3>7
  <2>8. CASE state' = [state EXCEPT ![t] = "pending"] /\ pending' = [pending EXCEPT ![s] = Append(@, t)]
    <3>1. PendingOf(s)' = PendingOf(s) \cup {t} /\ t \notin PendingOf(s) /\ Active(s)' = Active(s)
      BY <1>1, <1>2, <2>1, <2>8 DEF PendingOf, Active, TypeOK, Scheduled
    <3>2. /\ Holds(Append(pending[s], t), PendingOf(s) \cup {t}) /\ Append(pending[s], t) \in Seq(Tasks)
          /\ pending'[s] = Append(pending[s], t) /\ \A q \in Sessions \ {s} : pending'[q] = pending[q]
      BY <1>1, <2>8, <3>1, HoldsAppend DEF PlacesExact, TypeOK
    <3>3. \A q \in Sessions : Holds(pending'[q], PendingOf(q)')
      <4>1. Holds(pending'[s], PendingOf(s)')
        BY <3>1, <3>2
      <4>2. \A q \in Sessions \ {s} : Holds(pending'[q], PendingOf(q)')
        BY <1>1, <2>2, <3>2 DEF PlacesExact
      <4> QED  BY <4>1, <4>2
    <3>4. HasCapacity(s)' => HasCapacity(s)
      <4>1. /\ Len(pending[s]) \in Nat /\ Len(pending'[s]) = Len(pending[s]) + 1
            /\ MaxConcurrent \in Nat /\ MaxPending \in Nat
            /\ Cardinality(Active(s)) \in Nat
        BY <1>1, <3>2, LiveSets, LimitsPositive DEF TypeOK
      <4> QED  BY <3>1, <4>1 DEF HasCapacity
    <3>5. \A q \in Sessions \ {s} : HasCapacity(q)' => HasCapacity(q)
      BY <2>2, <3>2 DEF HasCapacity
    <3>6. \A q \in Sessions : HasCapacity(q)' => HasCapacity(q)
      BY <3>4, <3>5
    <3>7. pending' \in [Sessions -> Seq(Tasks)]
      BY <1>1, <2>8, <3>2 DEF TypeOK
    <3> QED  BY <2>2, <2>3, <2>4, <2>5, <2>6, <3>3, <3>6, <3>7
  <2> QED  BY <2>1, <2>7, <2>8
<1>4. CASE SubmitRefused(s, t)
  <2>1. /\ state' = [state EXCEPT ![t] = "settled"] /\ queuedDatagramBytes' = queuedDatagramBytes - Bytes(t)
        /\ UNCHANGED <<reserved, pending, owner>>
    BY <1>4 DEF SubmitRefused, Settled
  <2>2. /\ Live' = Live \ {t} /\ Held' = Held \ {t} /\ Scheduled' = Scheduled
        /\ \A q \in Sessions : InQueue(q)' = InQueue(q) \ {t}
        /\ \A q \in Sessions : PendingOf(q)' = PendingOf(q) /\ Active(q)' = Active(q)
    BY <1>1, <1>2, <2>1 DEF Live, Held, Scheduled, InQueue, PendingOf, Active, TypeOK
  <2>3. IsFiniteSet(Live') /\ \A u \in Live' : owner'[u] \in Sessions /\ (state'[u] = "queued" => u \in Datagrams)
    <3>1. IsFiniteSet(Live')
      BY <1>1, <2>2, FS_RemoveElement DEF PlacesExact
    <3> QED  BY <1>1, <2>1, <2>2, <3>1 DEF PlacesExact, TypeOK, Live
  <2>4. /\ queuedDatagramBytes' = SumBytes(Held') /\ queuedDatagramBytes' \in Nat
        /\ queuedDatagramBytes' <= MaxQueuedDatagramBytes
    <3>1. IsFiniteSet(Held) /\ Held \subseteq Tasks
      BY <1>1, LiveSets
    <3>2. CASE t \in Held
      <4>1. /\ SumBytes(Held \ {t}) = SumBytes(Held) - Bytes(t) /\ SumBytes(Held \ {t}) \in Nat
            /\ Bytes(t) \in Nat
        <5>1. {t} \subseteq Held
          BY <3>2
        <5>2. SumBytes({t}) = Bytes(t) /\ Bytes(t) \in Nat
          BY BytesOfOne, BytesNatural
        <5>3. SumBytes(Held \ {t}) = SumBytes(Held) - SumBytes({t}) /\ SumBytes(Held \ {t}) \in Nat
          BY <3>1, <5>1, BytesRemove
        <5> QED  BY <5>2, <5>3
      <4>2. MaxQueuedDatagramBytes \in Nat
        BY LimitsPositive
      <4> QED  BY <2>1, <2>2, <4>1, <4>2, HeldBytes
    <3>3. CASE t \notin Held
      <4>1. Bytes(t) = 0
        BY <3>3, BytesNatural DEF Held
      <4>2. Held' = Held
        BY <2>2, <3>3
      <4>3. queuedDatagramBytes' = queuedDatagramBytes
        BY <2>1, <4>1, HeldBytes
      <4> QED  BY <4>2, <4>3, HeldBytes
    <3> QED  BY <3>2, <3>3
  <2>5. reserved' = Cardinality(Scheduled') /\ reserved' \in 0..HandlerLimit
    BY <1>1, <2>1, <2>2 DEF ReservationsExact, TypeOK
  <2>6. \A q \in Sessions : HasCapacity(q)' => HasCapacity(q)
    BY <2>1, <2>2 DEF HasCapacity
  <2>7. \A q \in Sessions : Holds(pending'[q], PendingOf(q)')
    BY <1>1, <2>1, <2>2 DEF PlacesExact
  <2>8. /\ pending' \in [Sessions -> Seq(Tasks)] /\ owner' \in [Tasks -> Sessions \cup {None}]
        /\ state' \in [Tasks -> {"new", "dropped", "queued", "pending", "active", "settled"}]
    BY <1>1, <2>1 DEF TypeOK
  <2> QED  BY <2>2, <2>3, <2>4, <2>5, <2>6, <2>7, <2>8
<1> QED  BY <1>3, <1>4 DEF SubmitTask

\* A datagram that the drainer submits moves, still charged, from the queue to the scheduler.
LEMMA DrainerSubmitsKeeps ==
    ASSUME IndInv, NEW s \in Sessions, DrainerSubmits(s)
    PROVE  IndInv'
<1> DEFINE d == Head(queue[s])
<1>1. TypeOK /\ PlacesExact /\ IntakeExact /\ QueuedIsDrained /\ DrainerNotStranded
  BY DEF IndInv, AccountsExact, NoLostWakeup
<1>2. /\ drainer[s] = "resuming" /\ queue[s] # <<>>
      /\ managedBytes' = [managedBytes EXCEPT ![s] = @ - Size[d]]
      /\ queue' = [queue EXCEPT ![s] = Tail(@)] /\ SubmitTask(s, d)
      /\ drainer' = [drainer EXCEPT ![s] = "submitted"]
      /\ UNCHANGED <<queueOverflow, sessionVars, pump, drainingDatagrams>>
  BY DEF DrainerSubmits
<1>3. queue[s] \in Seq(Datagrams)
  BY <1>1 DEF TypeOK
<1>4. d \in InQueue(s) /\ d \in Datagrams /\ Tail(queue[s]) \in Seq(Datagrams) /\ Holds(Tail(queue[s]), InQueue(s) \ {d})
  BY <1>1, <1>2, <1>3, HoldsTail DEF PlacesExact
<1> HIDE DEF d
<1>5. d \in Tasks /\ state[d] = "queued" /\ owner[d] = s /\ accepting' = accepting
  BY <1>2, <1>4 DEF InQueue, Tasks, sessionVars
<1>6. /\ IsFiniteSet(Live') /\ \A u \in Live' : owner'[u] \in Sessions /\ (state'[u] = "queued" => u \in Datagrams)
      /\ \A q \in Sessions : Holds(pending'[q], PendingOf(q)')
      /\ pending' \in [Sessions -> Seq(Tasks)]
      /\ state' \in [Tasks -> {"new", "dropped", "queued", "pending", "active", "settled"}]
      /\ owner' \in [Tasks -> Sessions \cup {None}]
      /\ queuedDatagramBytes' = SumBytes(Held') /\ queuedDatagramBytes' \in Nat
      /\ queuedDatagramBytes' <= MaxQueuedDatagramBytes
      /\ reserved' = Cardinality(Scheduled') /\ reserved' \in 0..HandlerLimit
      /\ \A q \in Sessions : InQueue(q)' = InQueue(q) \ {d}
      /\ \A q \in Sessions : HasCapacity(q)' => HasCapacity(q)
  BY <1>2, <1>4, <1>5, SubmitKeeps
<1>7. /\ \A q \in Sessions \ {s} : queue'[q] = queue[q] /\ InQueue(q)' = InQueue(q) /\ managedBytes'[q] = managedBytes[q]
      /\ queue'[s] = Tail(queue[s]) /\ managedBytes'[s] = managedBytes[s] - Size[d]
  BY <1>1, <1>2, <1>5, <1>6 DEF InQueue, TypeOK
<1>8. PlacesExact'
  <2>1. Holds(queue'[s], InQueue(s)')
    BY <1>4, <1>6, <1>7
  <2>2. \A q \in Sessions \ {s} : Holds(queue'[q], InQueue(q)')
    BY <1>1, <1>7 DEF PlacesExact
  <2> QED  BY <1>6, <2>1, <2>2 DEF PlacesExact, Holds
<1>9. (\A q \in Sessions : managedBytes'[q] = SumBytes(InQueue(q)')) /\ managedBytes' \in [Sessions -> Nat]
  <2>1. InQueue(s) \subseteq Tasks /\ IsFiniteSet(InQueue(s)) /\ {d} \subseteq InQueue(s) /\ Bytes(d) = Size[d]
    BY <1>1, <1>4, LiveSets, BytesNatural DEF Tasks
  <2>2. SumBytes(InQueue(s) \ {d}) = SumBytes(InQueue(s)) - Size[d] /\ SumBytes(InQueue(s) \ {d}) \in Nat
    BY <1>5, <2>1, BytesRemove, BytesOfOne
  <2>3. managedBytes'[s] = SumBytes(InQueue(s)') /\ managedBytes'[s] \in Nat
    BY <1>6, <1>7, <2>2, HeldBytes
  <2>4. \A q \in Sessions \ {s} : managedBytes'[q] = SumBytes(InQueue(q)')
    BY <1>7, HeldBytes
  <2> QED  BY <1>1, <1>2, <2>3, <2>4 DEF TypeOK
<1>10. TypeOK'
  <2>1. queue' \in [Sessions -> Seq(Datagrams)]
    BY <1>1, <1>2, <1>4 DEF TypeOK
  <2>2. drainer' \in [Sessions -> {None, "waiting", "resuming", "submitted"}]
    BY <1>1, <1>2 DEF TypeOK
  <2> QED  BY <1>1, <1>2, <1>6, <1>9, <2>1, <2>2 DEF TypeOK, sessionVars
<1>11. NoLostWakeup'
  <2>1. QueuedIsDrained'
    <3>1. \A q \in Sessions : queue'[q] # <<>> => queue[q] # <<>>
      BY <1>2, <1>7
    <3>2. \A q \in Sessions : (drainer'[q] # None) <=> (drainer[q] # None)
      BY <1>1, <1>2 DEF TypeOK, None
    <3> QED  BY <1>1, <1>2, <3>1, <3>2 DEF QueuedIsDrained, sessionVars
  <2>2. DrainerNotStranded'
    <3>1. \A q \in Sessions : drainer'[q] = "waiting" => drainer[q] = "waiting"
      BY <1>1, <1>2 DEF TypeOK
    <3> QED  BY <1>1, <1>5, <1>6, <3>1 DEF DrainerNotStranded
  <2> QED  BY <2>1, <2>2 DEF NoLostWakeup
<1>12. AccountsExact'
  BY <1>6, <1>8, <1>9, <1>10, AccountsFollow
<1> QED  BY <1>1, <1>2, <1>8, <1>11, <1>12 DEF IndInv, IntakeExact, sessionVars

\* A stream handler takes its reservation with its place.
LEMMA SubmitStreamKeeps ==
    ASSUME IndInv, NEW s \in Sessions, NEW t \in StreamTasks, SubmitStream(s, t)
    PROVE  IndInv'
<1>1. TypeOK /\ PlacesExact /\ IntakeExact /\ QueuedIsDrained /\ DrainerNotStranded
  BY DEF IndInv, AccountsExact, NoLostWakeup
<1>2. /\ state[t] = "new" /\ SubmitTask(s, t) /\ t \in Tasks /\ accepting' = accepting
      /\ UNCHANGED <<queueOverflow, queue, managedBytes, sessionVars, pump, drainer, drainingDatagrams>>
  BY DEF SubmitStream, Tasks, sessionVars
<1>3. /\ IsFiniteSet(Live') /\ \A u \in Live' : owner'[u] \in Sessions /\ (state'[u] = "queued" => u \in Datagrams)
      /\ \A q \in Sessions : Holds(pending'[q], PendingOf(q)')
      /\ pending' \in [Sessions -> Seq(Tasks)]
      /\ state' \in [Tasks -> {"new", "dropped", "queued", "pending", "active", "settled"}]
      /\ owner' \in [Tasks -> Sessions \cup {None}]
      /\ queuedDatagramBytes' = SumBytes(Held') /\ queuedDatagramBytes' \in Nat
      /\ queuedDatagramBytes' <= MaxQueuedDatagramBytes
      /\ reserved' = Cardinality(Scheduled') /\ reserved' \in 0..HandlerLimit
      /\ \A q \in Sessions : InQueue(q)' = InQueue(q) \ {t}
      /\ \A q \in Sessions : HasCapacity(q)' => HasCapacity(q)
  BY <1>2, SubmitKeeps
<1>4. \A q \in Sessions : InQueue(q)' = InQueue(q)
  BY <1>2, <1>3 DEF InQueue
<1>5. PlacesExact'
  BY <1>1, <1>2, <1>3, <1>4 DEF PlacesExact, Holds
<1>6. \A q \in Sessions : managedBytes'[q] = SumBytes(InQueue(q)')
  BY <1>2, <1>4, HeldBytes
<1>7. TypeOK'
  BY <1>1, <1>2, <1>3 DEF TypeOK, sessionVars
<1>8. NoLostWakeup'
  BY <1>1, <1>2, <1>3 DEF NoLostWakeup, QueuedIsDrained, DrainerNotStranded, sessionVars
<1>9. AccountsExact'
  BY <1>3, <1>5, <1>6, <1>7, AccountsFollow
<1> QED  BY <1>1, <1>2, <1>5, <1>8, <1>9 DEF IndInv, IntakeExact, sessionVars

\* A task that settles gives back its bytes and its place, to the oldest pending one.
LEMMA TaskSettlesKeeps ==
    ASSUME IndInv, NEW t \in Tasks, NEW s \in Sessions, owner[t] = s, TaskSettles(t)
    PROVE  IndInv'
<1> DEFINE next == Head(pending[s])
<1>1. TypeOK /\ PlacesExact /\ IntakeExact /\ QueuedIsDrained /\ DrainerNotStranded /\ ReservationsExact
  BY DEF IndInv, AccountsExact, NoLostWakeup
<1>2. t \in Live /\ t \in Scheduled /\ state[t] = "active"
  BY <1>1 DEF TaskSettles, Live, Scheduled, PlacesExact
<1>3. /\ \/ pending[s] = <<>> /\ state' = [state EXCEPT ![t] = "settled"] /\ pending' = pending
         \/ /\ pending[s] # <<>> /\ state' = [state EXCEPT ![t] = "settled", ![next] = "active"]
            /\ pending' = [pending EXCEPT ![s] = Tail(@)]
      /\ reserved' = reserved - 1 /\ queuedDatagramBytes' = queuedDatagramBytes - Bytes(t)
      /\ UNCHANGED <<queueOverflow, queue, managedBytes, sessionVars, pump, drainingDatagrams, owner>>
      /\ FlushWaiters(s)
  BY DEF TaskSettles, Settled
<1>4. pending[s] # <<>> =>
         /\ next \in PendingOf(s) /\ next \in Tasks /\ next # t
         /\ Holds(Tail(pending[s]), PendingOf(s) \ {next}) /\ Tail(pending[s]) \in Seq(Tasks)
  <2>1. pending[s] \in Seq(Tasks) /\ Holds(pending[s], PendingOf(s))
    BY <1>1 DEF TypeOK, PlacesExact
  <2>2. ASSUME pending[s] # <<>>
        PROVE  /\ next \in PendingOf(s) /\ next \in Tasks
               /\ Holds(Tail(pending[s]), PendingOf(s) \ {next}) /\ Tail(pending[s]) \in Seq(Tasks)
    BY <2>1, <2>2, HoldsTail
  <2> QED  BY <1>2, <2>2 DEF PendingOf
<1> HIDE DEF next
<1>5. /\ Live' = Live \ {t} /\ Held' = Held \ {t} /\ Scheduled' = Scheduled \ {t}
      /\ \A q \in Sessions : InQueue(q)' = InQueue(q)
      /\ \A q \in Sessions \ {s} : PendingOf(q)' = PendingOf(q) /\ Active(q)' = Active(q)
      /\ PendingOf(s)' = IF pending[s] = <<>> THEN PendingOf(s) ELSE PendingOf(s) \ {next}
  <2>1. CASE pending[s] = <<>>
    <3>1. state'[t] = "settled" /\ owner' = owner /\ \A u \in Tasks \ {t} : state'[u] = state[u]
      BY <1>1, <1>3, <2>1 DEF TypeOK
    <3>2. Live' = Live \ {t} /\ Held' = Held \ {t} /\ Scheduled' = Scheduled \ {t}
      BY <3>1 DEF Live, Held, Scheduled, Tasks
    <3>3. \A q \in Sessions : InQueue(q)' = InQueue(q) /\ PendingOf(q)' = PendingOf(q)
      BY <1>2, <3>1 DEF InQueue, PendingOf, Tasks
    <3>4. \A q \in Sessions \ {s} : Active(q)' = Active(q)
      BY <3>1 DEF Active
    <3> QED  BY <2>1, <3>2, <3>3, <3>4
  <2>2. CASE pending[s] # <<>>
    <3>1. /\ state'[t] = "settled" /\ state'[next] = "active" /\ owner' = owner
          /\ \A u \in Tasks \ {t, next} : state'[u] = state[u]
          /\ state[next] = "pending" /\ owner[next] = s /\ next \in Tasks /\ next # t
      BY <1>1, <1>3, <1>4, <2>2 DEF TypeOK, PendingOf
    <3>2. Live' = Live \ {t} /\ Held' = Held \ {t} /\ Scheduled' = Scheduled \ {t}
      BY <3>1 DEF Live, Held, Scheduled, Tasks
    <3>3. \A q \in Sessions : InQueue(q)' = InQueue(q)
      BY <1>2, <3>1 DEF InQueue, Tasks
    <3>4. \A q \in Sessions \ {s} : PendingOf(q)' = PendingOf(q) /\ Active(q)' = Active(q)
      BY <1>2, <3>1 DEF PendingOf, Active
    <3>5. PendingOf(s)' = PendingOf(s) \ {next}
      BY <1>2, <3>1 DEF PendingOf
    <3> QED  BY <2>2, <3>2, <3>3, <3>4, <3>5
  <2> QED  BY <2>1, <2>2
<1>6. /\ pending' \in [Sessions -> Seq(Tasks)]
      /\ state' \in [Tasks -> {"new", "dropped", "queued", "pending", "active", "settled"}]
      /\ \A q \in Sessions \ {s} : pending'[q] = pending[q]
  <2>1. CASE pending[s] = <<>>
    BY <1>1, <1>3, <2>1 DEF TypeOK
  <2>2. CASE pending[s] # <<>>
    <3>1. Tail(pending[s]) \in Seq(Tasks) /\ next \in Tasks
      BY <1>4, <2>2
    <3>2. pending' = [pending EXCEPT ![s] = Tail(@)] /\ state' = [state EXCEPT ![t] = "settled", ![next] = "active"]
      BY <1>3, <2>2
    <3>3. pending' \in [Sessions -> Seq(Tasks)] /\ \A q \in Sessions \ {s} : pending'[q] = pending[q]
      BY <1>1, <3>1, <3>2 DEF TypeOK
    <3>4. state' \in [Tasks -> {"new", "dropped", "queued", "pending", "active", "settled"}]
      BY <1>1, <3>1, <3>2 DEF TypeOK
    <3> QED  BY <3>3, <3>4
  <2> QED  BY <2>1, <2>2
<1>7. PlacesExact'
  <2>1. IsFiniteSet(Live')
    BY <1>1, <1>5, FS_RemoveElement DEF PlacesExact
  <2>2. \A u \in Live' : owner'[u] \in Sessions /\ (state'[u] = "queued" => u \in Datagrams)
    BY <1>1, <1>3, <1>4, <1>5 DEF PlacesExact, TypeOK, Live
  <2>3. Holds(pending'[s], PendingOf(s)')
    <3>1. CASE pending[s] = <<>>
      BY <1>1, <1>2, <1>3, <1>5, <3>1 DEF PlacesExact
    <3>2. CASE pending[s] # <<>>
      BY <1>1, <1>2, <1>3, <1>4, <1>5, <3>2 DEF TypeOK
    <3> QED  BY <3>1, <3>2
  <2>4. \A q \in Sessions \ {s} : Holds(pending'[q], PendingOf(q)')
    BY <1>1, <1>5, <1>6 DEF PlacesExact
  <2>5. \A q \in Sessions : Holds(queue'[q], InQueue(q)')
    BY <1>1, <1>3, <1>5 DEF PlacesExact
  <2>6. \A q \in Sessions : Holds(queue'[q], InQueue(q)') /\ Holds(pending'[q], PendingOf(q)')
    BY <2>3, <2>4, <2>5
  <2> QED  BY <2>1, <2>2, <2>6 DEF PlacesExact, Holds
<1>8. reserved' = Cardinality(Scheduled') /\ reserved' \in 0..HandlerLimit
  <2>1. /\ IsFiniteSet(Scheduled) /\ Cardinality(Scheduled') = Cardinality(Scheduled) - 1
        /\ IsFiniteSet(Scheduled')
    BY <1>1, <1>2, <1>5, LiveSets, FS_RemoveElement
  <2>2. Cardinality(Scheduled') \in Nat
    BY <2>1, FS_CardinalityType
  <2>3. reserved = Cardinality(Scheduled) /\ reserved \in 0..HandlerLimit /\ HandlerLimit \in Nat
    BY <1>1, LimitsPositive DEF ReservationsExact, TypeOK
  <2> QED  BY <1>3, <2>1, <2>2, <2>3
<1>9. /\ queuedDatagramBytes' = SumBytes(Held') /\ queuedDatagramBytes' \in Nat
      /\ queuedDatagramBytes' <= MaxQueuedDatagramBytes
  <2>1. IsFiniteSet(Held) /\ Held \subseteq Tasks
    BY <1>1, LiveSets
  <2>2. CASE t \in Held
    <3>1. {t} \subseteq Held
      BY <2>2
    <3>2. SumBytes({t}) = Bytes(t) /\ Bytes(t) \in Nat
      BY BytesOfOne, BytesNatural
    <3>3. SumBytes(Held \ {t}) = SumBytes(Held) - SumBytes({t}) /\ SumBytes(Held \ {t}) \in Nat
      BY <2>1, <3>1, BytesRemove
    <3>4. MaxQueuedDatagramBytes \in Nat
      BY LimitsPositive
    <3> QED  BY <1>3, <1>5, <3>2, <3>3, <3>4, HeldBytes
  <2>3. CASE t \notin Held
    <3>1. Bytes(t) = 0
      BY <1>2, <2>3, BytesNatural DEF Held, Tasks
    <3>2. Held' = Held
      BY <1>5, <2>3
    <3>3. queuedDatagramBytes' = queuedDatagramBytes
      BY <1>3, <3>1, HeldBytes
    <3> QED  BY <3>2, <3>3, HeldBytes
  <2> QED  BY <2>2, <2>3
<1>10. \A q \in Sessions \ {s} : accepting'[q] = accepting[q] /\ HasCapacity(q)' = HasCapacity(q)
  BY <1>3, <1>5, <1>6 DEF HasCapacity, sessionVars
<1>11. /\ DrainerNotStranded' /\ drainer' \in [Sessions -> {None, "waiting", "resuming", "submitted"}]
       /\ \A q \in Sessions : drainer'[q] = None <=> drainer[q] = None
  BY <1>1, <1>2, <1>3, <1>10, FlushKeepsAwake
<1>12. NoLostWakeup'
  BY <1>1, <1>3, <1>11 DEF NoLostWakeup, QueuedIsDrained, sessionVars
<1>13. TypeOK'
  BY <1>1, <1>3, <1>6, <1>8, <1>9, <1>11 DEF TypeOK, sessionVars
<1>14. \A q \in Sessions : managedBytes'[q] = SumBytes(InQueue(q)')
  BY <1>3, <1>5, HeldBytes
<1>15. AccountsExact'
  BY <1>7, <1>8, <1>9, <1>13, <1>14, AccountsFollow
<1> QED  BY <1>1, <1>3, <1>7, <1>12, <1>15 DEF IndInv, IntakeExact, sessionVars

-----------------------------------------------------------------------------
(* The ends *)

\* Whatever of a session's work is taken away at once, its queue, its pending
\* tasks or both, leaves the counters with all that it held.
LEMMA TakingAwayKeeps ==
    ASSUME IndInv, NEW s \in Sessions, NEW Q, NEW P,
           Q = {} \/ Q = InQueue(s), P = {} \/ P = PendingOf(s),
           state' = [t \in Tasks |-> IF t \in P THEN "settled" ELSE IF t \in Q THEN "dropped" ELSE state[t]],
           (Q = {} /\ queue' = queue) \/ (Q = InQueue(s) /\ queue' = [queue EXCEPT ![s] = <<>>]),
           (P = {} /\ pending' = pending) \/ (P = PendingOf(s) /\ pending' = [pending EXCEPT ![s] = <<>>]),
           reserved' = reserved - Cardinality(P),
           queuedDatagramBytes' = queuedDatagramBytes - SumBytes(Q) - SumBytes(P),
           (Q = {} /\ managedBytes' = managedBytes) \/ (Q = InQueue(s) /\ managedBytes' = [managedBytes EXCEPT ![s] = 0]),
           \/ UNCHANGED <<intake, accepting, aborted>>
           \/ /\ Q = InQueue(s) /\ intake' = [intake EXCEPT ![s] = FALSE]
              /\ accepting' = [accepting EXCEPT ![s] = FALSE]
              /\ aborted' = aborted \/ aborted' = [aborted EXCEPT ![s] = TRUE],
           UNCHANGED <<queueOverflow, pump, drainingDatagrams, owner>>, FlushWaiters(s)
    PROVE  IndInv'
<1>1. TypeOK /\ PlacesExact /\ IntakeExact /\ QueuedIsDrained /\ DrainerNotStranded /\ ReservationsExact
  BY DEF IndInv, AccountsExact, NoLostWakeup
<1>2. /\ \A t \in Q : t \in Datagrams /\ t \in Tasks /\ state[t] = "queued" /\ owner[t] = s
      /\ \A t \in P : t \in Tasks /\ state[t] = "pending" /\ owner[t] = s
      /\ \A t \in Tasks : /\ t \in P => state'[t] = "settled"
                          /\ t \in Q \ P => state'[t] = "dropped"
                          /\ t \notin P \cup Q => state'[t] = state[t]
  BY DEF InQueue, PendingOf, Tasks
<1>3. /\ Live' = Live \ (Q \cup P) /\ Held' = Held \ (Q \cup (P \cap Datagrams)) /\ Scheduled' = Scheduled \ P
      /\ InQueue(s)' = InQueue(s) \ Q /\ PendingOf(s)' = PendingOf(s) \ P /\ Active(s)' = Active(s)
      /\ \A q \in Sessions \ {s} : InQueue(q)' = InQueue(q) /\ PendingOf(q)' = PendingOf(q) /\ Active(q)' = Active(q)
  <2>1. Live' = Live \ (Q \cup P)
    BY <1>2 DEF Live
  <2>2. Held' = Held \ (Q \cup (P \cap Datagrams))
    BY <1>2 DEF Held, Tasks
  <2>3. Scheduled' = Scheduled \ P
    BY <1>2 DEF Scheduled
  <2>4. InQueue(s)' = InQueue(s) \ Q /\ \A q \in Sessions \ {s} : InQueue(q)' = InQueue(q)
    BY <1>2 DEF InQueue, Tasks
  <2>5. PendingOf(s)' = PendingOf(s) \ P /\ \A q \in Sessions \ {s} : PendingOf(q)' = PendingOf(q)
    BY <1>2 DEF PendingOf
  <2>6. \A q \in Sessions : Active(q)' = Active(q)
    BY <1>2 DEF Active
  <2> QED  BY <2>1, <2>2, <2>3, <2>4, <2>5, <2>6
<1>4. PlacesExact'
  <2>1. IsFiniteSet(Live')
    BY <1>1, <1>3, FS_Difference DEF PlacesExact
  <2>2. \A u \in Live' : owner'[u] \in Sessions /\ (state'[u] = "queued" => u \in Datagrams)
    BY <1>1, <1>2, <1>3 DEF PlacesExact, Live
  <2>3. Holds(queue'[s], InQueue(s)') /\ Holds(pending'[s], PendingOf(s)')
    <3>1. Holds(queue'[s], InQueue(s)')
      <4>1. CASE Q = {} /\ queue' = queue
        BY <1>1, <1>3, <4>1 DEF PlacesExact
      <4>2. CASE Q = InQueue(s) /\ queue' = [queue EXCEPT ![s] = <<>>]
        BY <1>1, <1>3, <4>2, HoldsEmpty DEF TypeOK
      <4> QED  BY <4>1, <4>2
    <3>2. Holds(pending'[s], PendingOf(s)')
      <4>1. CASE P = {} /\ pending' = pending
        BY <1>1, <1>3, <4>1 DEF PlacesExact
      <4>2. CASE P = PendingOf(s) /\ pending' = [pending EXCEPT ![s] = <<>>]
        BY <1>1, <1>3, <4>2, HoldsEmpty DEF TypeOK
      <4> QED  BY <4>1, <4>2
    <3> QED  BY <3>1, <3>2
  <2>4. \A q \in Sessions \ {s} : queue'[q] = queue[q] /\ pending'[q] = pending[q]
    BY <1>1 DEF TypeOK
  <2>5. \A q \in Sessions \ {s} : Holds(queue'[q], InQueue(q)') /\ Holds(pending'[q], PendingOf(q)')
    BY <1>1, <1>3, <2>4 DEF PlacesExact
  <2>6. \A q \in Sessions : Holds(queue'[q], InQueue(q)') /\ Holds(pending'[q], PendingOf(q)')
    BY <2>3, <2>5
  <2> QED  BY <2>1, <2>2, <2>6 DEF PlacesExact, Holds
<1>5. /\ IsFiniteSet(Q) /\ Q \subseteq Held /\ Q \subseteq Tasks /\ SumBytes(Q) \in Nat
      /\ IsFiniteSet(P) /\ P \subseteq Scheduled /\ P \subseteq Tasks
      /\ IsFiniteSet(Held) /\ Held \subseteq Tasks /\ IsFiniteSet(Scheduled)
  <2>1. /\ IsFiniteSet(Held) /\ Held \subseteq Tasks /\ IsFiniteSet(Scheduled)
        /\ IsFiniteSet(InQueue(s)) /\ InQueue(s) \subseteq Held
        /\ IsFiniteSet(PendingOf(s)) /\ PendingOf(s) \subseteq Scheduled
    BY <1>1, LiveSets
  <2>2. IsFiniteSet({})
    BY FS_EmptySet
  <2>3. IsFiniteSet(Q) /\ Q \subseteq Held /\ IsFiniteSet(P) /\ P \subseteq Scheduled /\ Scheduled \subseteq Tasks
    BY <2>1, <2>2 DEF Scheduled
  <2> QED  BY <2>1, <2>3, BytesFinite
<1>6. reserved' = Cardinality(Scheduled') /\ reserved' \in 0..HandlerLimit
  <2>1. /\ Cardinality(Scheduled \ P) = Cardinality(Scheduled) - Cardinality(Scheduled \cap P)
        /\ IsFiniteSet(Scheduled \ P) /\ Scheduled \cap P = P
    BY <1>5, FS_Difference
  <2>2. Cardinality(Scheduled \ P) \in Nat /\ Cardinality(P) \in Nat
    BY <1>5, <2>1, FS_CardinalityType
  <2>3. reserved = Cardinality(Scheduled) /\ reserved \in 0..HandlerLimit /\ HandlerLimit \in Nat
    BY <1>1, LimitsPositive DEF ReservationsExact, TypeOK
  <2>4. Cardinality(Scheduled') = Cardinality(Scheduled) - Cardinality(P) /\ Cardinality(Scheduled') \in Nat
    BY <1>3, <2>1, <2>2
  <2> QED  BY <2>2, <2>3, <2>4
<1>7. /\ queuedDatagramBytes' = SumBytes(Held') /\ queuedDatagramBytes' \in Nat
      /\ queuedDatagramBytes' <= MaxQueuedDatagramBytes
  <2> DEFINE D == P \cap Datagrams
  <2>1. SumBytes(P) = SumBytes(D)
    BY <1>5, BytesOfDatagrams
  <2>2. Q \cap D = {} /\ D \subseteq Held /\ D \subseteq Tasks /\ IsFiniteSet(D)
    <3>1. Q \cap D = {} /\ D \subseteq Held
      BY <1>2 DEF Held
    <3> QED  BY <1>5, <3>1, FS_Intersection
  <2> HIDE DEF D
  <2>3. SumBytes(Q \cup D) = SumBytes(Q) + SumBytes(D)
    BY <1>5, <2>2, BytesUnion
  <2>4. SumBytes(D) \in Nat
    BY <2>2, BytesFinite
  <2>5. /\ SumBytes(Held \ (Q \cup D)) = SumBytes(Held) - SumBytes(Q \cup D)
        /\ SumBytes(Held \ (Q \cup D)) \in Nat
    <3>1. Q \cup D \subseteq Held
      BY <1>5, <2>2
    <3> QED  BY <1>5, <3>1, BytesRemove
  <2>6. Held' = Held \ (Q \cup D)
    BY <1>3 DEF D
  <2>7. MaxQueuedDatagramBytes \in Nat /\ queuedDatagramBytes = SumBytes(Held) /\ queuedDatagramBytes \in Nat
    BY LimitsPositive, HeldBytes
  <2>8. queuedDatagramBytes' = SumBytes(Held \ (Q \cup D))
    BY <1>5, <2>1, <2>3, <2>4, <2>5, <2>7
  <2>9. queuedDatagramBytes' <= queuedDatagramBytes
    BY <1>5, <2>1, <2>4, <2>7
  <2>10. queuedDatagramBytes <= MaxQueuedDatagramBytes
    BY HeldBytes
  <2> QED  BY <2>5, <2>6, <2>7, <2>8, <2>9, <2>10
<1>8. (\A q \in Sessions : managedBytes'[q] = SumBytes(InQueue(q)')) /\ managedBytes' \in [Sessions -> Nat]
  <2>1. CASE Q = {} /\ managedBytes' = managedBytes
    <3>1. \A q \in Sessions : InQueue(q)' = InQueue(q)
      BY <1>3, <2>1
    <3> QED  BY <1>1, <2>1, <3>1, HeldBytes DEF TypeOK
  <2>2. CASE Q = InQueue(s) /\ managedBytes' = [managedBytes EXCEPT ![s] = 0]
    <3>1. SumBytes({}) = 0
      BY FS_EmptySet DEF SumBytes, BytesOf
    <3>2. managedBytes'[s] = SumBytes(InQueue(s)')
      BY <1>1, <1>3, <2>2, <3>1 DEF TypeOK
    <3>3. \A q \in Sessions \ {s} : managedBytes'[q] = SumBytes(InQueue(q)')
      BY <1>1, <1>3, <2>2, HeldBytes DEF TypeOK
    <3> QED  BY <1>1, <2>2, <3>2, <3>3 DEF TypeOK
  <2> QED  BY <2>1, <2>2
<1>9. \A q \in Sessions \ {s} : accepting'[q] = accepting[q] /\ HasCapacity(q)' = HasCapacity(q)
  <2>1. \A q \in Sessions \ {s} : accepting'[q] = accepting[q] /\ pending'[q] = pending[q] /\ Active(q)' = Active(q)
    BY <1>1, <1>3 DEF TypeOK
  <2> QED  BY <2>1 DEF HasCapacity
<1>10. /\ DrainerNotStranded' /\ drainer' \in [Sessions -> {None, "waiting", "resuming", "submitted"}]
       /\ \A q \in Sessions : drainer'[q] = None <=> drainer[q] = None
  BY <1>1, <1>9, FlushKeepsAwake
<1>11. NoLostWakeup' /\ IntakeExact'
  <2>1. CASE UNCHANGED <<intake, accepting, aborted>>
    <3>1. \A q \in Sessions : queue'[q] # <<>> => queue[q] # <<>>
      BY <1>1 DEF TypeOK
    <3> QED  BY <1>1, <1>10, <2>1, <3>1 DEF NoLostWakeup, QueuedIsDrained, IntakeExact
  <2>2. CASE ~UNCHANGED <<intake, accepting, aborted>>
    <3>1. /\ Q = InQueue(s) /\ intake' = [intake EXCEPT ![s] = FALSE] /\ accepting' = [accepting EXCEPT ![s] = FALSE]
          /\ aborted' = aborted \/ aborted' = [aborted EXCEPT ![s] = TRUE]
      BY <2>2
    <3>2. queue'[s] = <<>> /\ \A q \in Sessions \ {s} : queue'[q] = queue[q]
      <4>1. CASE queue' = [queue EXCEPT ![s] = <<>>]
        BY <1>1, <4>1 DEF TypeOK
      <4>2. CASE Q = {} /\ queue' = queue
        BY <1>1, <3>1, <4>2, HoldsCount DEF TypeOK, PlacesExact
      <4> QED  BY <4>1, <4>2
    <3>3. IntakeExact'
      BY <1>1, <3>1 DEF IntakeExact, TypeOK
    <3>4. QueuedIsDrained'
      BY <1>1, <1>10, <3>1, <3>2 DEF QueuedIsDrained, TypeOK
    <3> QED  BY <1>10, <3>3, <3>4 DEF NoLostWakeup
  <2> QED  BY <2>1, <2>2
<1>12. TypeOK'
  <2>1. queue' \in [Sessions -> Seq(Datagrams)] /\ pending' \in [Sessions -> Seq(Tasks)]
    <3>1. <<>> \in Seq(Datagrams) /\ <<>> \in Seq(Tasks)
      OBVIOUS
    <3>2. queue' = queue \/ queue' = [queue EXCEPT ![s] = <<>>]
      OBVIOUS
    <3>3. pending' = pending \/ pending' = [pending EXCEPT ![s] = <<>>]
      OBVIOUS
    <3>4. queue \in [Sessions -> Seq(Datagrams)] /\ pending \in [Sessions -> Seq(Tasks)]
      BY <1>1 DEF TypeOK
    <3>5. queue' \in [Sessions -> Seq(Datagrams)]
      BY <3>1, <3>2, <3>4
    <3>6. pending' \in [Sessions -> Seq(Tasks)]
      BY <3>1, <3>3, <3>4
    <3> QED  BY <3>5, <3>6
  <2>3. intake' \in [Sessions -> BOOLEAN] /\ aborted' \in [Sessions -> BOOLEAN] /\ accepting' \in [Sessions -> BOOLEAN]
    BY <1>1 DEF TypeOK
  <2>2. state' \in [Tasks -> {"new", "dropped", "queued", "pending", "active", "settled"}]
    BY <1>1 DEF TypeOK
  <2> QED  BY <1>1, <1>6, <1>7, <1>8, <1>10, <2>1, <2>2, <2>3 DEF TypeOK
<1>13. AccountsExact'
  BY <1>4, <1>6, <1>7, <1>8, <1>12, AccountsFollow
<1> QED  BY <1>4, <1>11, <1>13 DEF IndInv

\* What close() discards is exactly what is pending.
LEMMA DiscardedArePending ==
    ASSUME IndInv, NEW s \in Sessions
    PROVE  /\ Discarded(s) = PendingOf(s) /\ Len(pending[s]) = Cardinality(PendingOf(s))
           /\ Cardinality({}) = 0 /\ SumBytes({}) = 0
<1>1. pending[s] \in Seq(Tasks) /\ Holds(pending[s], PendingOf(s))
  BY DEF IndInv, AccountsExact, TypeOK, PlacesExact
<1>2. Discarded(s) = PendingOf(s) /\ Len(pending[s]) = Cardinality(PendingOf(s))
  BY <1>1, HoldsCount DEF Discarded
<1> QED  BY <1>2, FS_EmptySet DEF SumBytes, BytesOf

\* Stopping the intake gives back the bytes of the queue that it clears.
LEMMA StopIntakeKeeps ==
    ASSUME IndInv, NEW s \in Sessions, StopIntake(s)
    PROVE  IndInv'
<1> DEFINE Q == InQueue(s)
<1>1. /\ reserved \in Nat /\ queuedDatagramBytes \in Nat /\ managedBytes[s] = SumBytes(Q) /\ SumBytes(Q) \in Nat
  BY HeldBytes DEF IndInv, AccountsExact, TypeOK
<1>2. state' = [t \in Tasks |-> IF t \in {} THEN "settled" ELSE IF t \in Q THEN "dropped" ELSE state[t]]
  <2>1. \A t \in Tasks : (state[t] = "queued" /\ owner[t] = s) <=> t \in Q
    BY DEF IndInv, PlacesExact, InQueue, Live
  <2> QED  BY <2>1 DEF StopIntake
<1>3. /\ queue' = [queue EXCEPT ![s] = <<>>] /\ pending' = pending
      /\ reserved' = reserved - Cardinality({})
      /\ queuedDatagramBytes' = queuedDatagramBytes - SumBytes(Q) - SumBytes({})
      /\ managedBytes' = [managedBytes EXCEPT ![s] = 0]
  BY <1>1, DiscardedArePending DEF StopIntake, ClearDatagrams
<1>4. /\ intake' = [intake EXCEPT ![s] = FALSE] /\ accepting' = [accepting EXCEPT ![s] = FALSE] /\ aborted' = aborted
      /\ UNCHANGED <<queueOverflow, pump, drainingDatagrams, owner>> /\ FlushWaiters(s)
  BY DEF StopIntake
<1> DEFINE P == {}
<1>5. /\ Q = {} \/ Q = InQueue(s)
      /\ P = {} \/ P = PendingOf(s)
      /\ (Q = {} /\ queue' = queue) \/ (Q = InQueue(s) /\ queue' = [queue EXCEPT ![s] = <<>>])
      /\ (P = {} /\ pending' = pending) \/ (P = PendingOf(s) /\ pending' = [pending EXCEPT ![s] = <<>>])
      /\ (Q = {} /\ managedBytes' = managedBytes) \/ (Q = InQueue(s) /\ managedBytes' = [managedBytes EXCEPT ![s] = 0])
  BY <1>3
<1>6. \/ UNCHANGED <<intake, accepting, aborted>>
      \/ /\ Q = InQueue(s) /\ intake' = [intake EXCEPT ![s] = FALSE]
         /\ accepting' = [accepting EXCEPT ![s] = FALSE]
         /\ aborted' = aborted \/ aborted' = [aborted EXCEPT ![s] = TRUE]
  BY <1>4
<1>7. /\ state' = [t \in Tasks |-> IF t \in P THEN "settled" ELSE IF t \in Q THEN "dropped" ELSE state[t]]
      /\ reserved' = reserved - Cardinality(P)
      /\ queuedDatagramBytes' = queuedDatagramBytes - SumBytes(Q) - SumBytes(P)
  BY <1>2, <1>3
<1> HIDE DEF P, Q
<1> QED  BY <1>4, <1>5, <1>6, <1>7, TakingAwayKeeps

\* Closing the scheduler gives back what its pending tasks hold.
LEMMA DiscardPendingKeeps ==
    ASSUME IndInv, NEW s \in Sessions, DiscardPending(s)
    PROVE  IndInv'
<1> DEFINE P == PendingOf(s)
<1>1. queuedDatagramBytes \in Nat
  BY HeldBytes
<1>2. state' = [t \in Tasks |-> IF t \in P THEN "settled" ELSE IF t \in {} THEN "dropped" ELSE state[t]]
  BY DiscardedArePending DEF DiscardPending
<1>3. /\ pending' = [pending EXCEPT ![s] = <<>>] /\ reserved' = reserved - Cardinality(P)
      /\ queuedDatagramBytes' = queuedDatagramBytes - SumBytes({}) - SumBytes(P)
  BY <1>1, DiscardedArePending DEF DiscardPending, ReleaseDiscarded
<1>4. /\ UNCHANGED <<queue, managedBytes, intake, accepting, aborted>>
      /\ UNCHANGED <<queueOverflow, pump, drainingDatagrams, owner>> /\ FlushWaiters(s)
  BY DEF DiscardPending, sessionVars
<1> DEFINE Q == {}
<1>5. /\ Q = {} \/ Q = InQueue(s)
      /\ P = {} \/ P = PendingOf(s)
      /\ (Q = {} /\ queue' = queue) \/ (Q = InQueue(s) /\ queue' = [queue EXCEPT ![s] = <<>>])
      /\ (P = {} /\ pending' = pending) \/ (P = PendingOf(s) /\ pending' = [pending EXCEPT ![s] = <<>>])
      /\ (Q = {} /\ managedBytes' = managedBytes) \/ (Q = InQueue(s) /\ managedBytes' = [managedBytes EXCEPT ![s] = 0])
  BY <1>3, <1>4
<1>6. /\ state' = [t \in Tasks |-> IF t \in P THEN "settled" ELSE IF t \in Q THEN "dropped" ELSE state[t]]
      /\ queuedDatagramBytes' = queuedDatagramBytes - SumBytes(Q) - SumBytes(P)
  BY <1>2, <1>3
<1> HIDE DEF P, Q
<1> QED  BY <1>3, <1>4, <1>5, <1>6, TakingAwayKeeps

\* Finalization does both.
LEMMA FinalizeKeeps ==
    ASSUME IndInv, NEW s \in Sessions, Finalize(s)
    PROVE  IndInv'
<1> DEFINE Q == InQueue(s)
<1> DEFINE P == PendingOf(s)
<1>1. managedBytes[s] = SumBytes(Q)
  BY HeldBytes
<1>2. state' = [t \in Tasks |-> IF t \in P THEN "settled" ELSE IF t \in Q THEN "dropped" ELSE state[t]]
  <2>1. \A t \in Tasks : (state[t] = "queued" /\ owner[t] = s) <=> t \in Q
    BY DEF IndInv, PlacesExact, InQueue, Live
  <2> QED  BY <2>1, DiscardedArePending DEF Finalize
<1>3. /\ queue' = [queue EXCEPT ![s] = <<>>] /\ pending' = [pending EXCEPT ![s] = <<>>]
      /\ reserved' = reserved - Cardinality(P)
      /\ queuedDatagramBytes' = queuedDatagramBytes - SumBytes(Q) - SumBytes(P)
      /\ managedBytes' = [managedBytes EXCEPT ![s] = 0]
  BY <1>1, DiscardedArePending DEF Finalize, ReleaseDiscarded, ClearDatagrams
<1>4. /\ intake' = [intake EXCEPT ![s] = FALSE] /\ accepting' = [accepting EXCEPT ![s] = FALSE]
      /\ aborted' = [aborted EXCEPT ![s] = TRUE]
      /\ UNCHANGED <<queueOverflow, pump, drainingDatagrams, owner>> /\ FlushWaiters(s)
  BY DEF Finalize
<1>5. /\ Q = {} \/ Q = InQueue(s)
      /\ P = {} \/ P = PendingOf(s)
      /\ (Q = {} /\ queue' = queue) \/ (Q = InQueue(s) /\ queue' = [queue EXCEPT ![s] = <<>>])
      /\ (P = {} /\ pending' = pending) \/ (P = PendingOf(s) /\ pending' = [pending EXCEPT ![s] = <<>>])
      /\ (Q = {} /\ managedBytes' = managedBytes) \/ (Q = InQueue(s) /\ managedBytes' = [managedBytes EXCEPT ![s] = 0])
  BY <1>3
<1>6. \/ UNCHANGED <<intake, accepting, aborted>>
      \/ /\ Q = InQueue(s) /\ intake' = [intake EXCEPT ![s] = FALSE]
         /\ accepting' = [accepting EXCEPT ![s] = FALSE]
         /\ aborted' = aborted \/ aborted' = [aborted EXCEPT ![s] = TRUE]
  BY <1>4
<1> HIDE DEF P, Q
<1> QED  BY <1>2, <1>3, <1>4, <1>5, <1>6, TakingAwayKeeps

-----------------------------------------------------------------------------
\* Nothing is held before the first datagram.
LEMMA InitEstablishes ==
    ASSUME Init
    PROVE  IndInv
<1>1. Live = {} /\ Held = {} /\ Scheduled = {}
  BY DEF Init, Live, Held, Scheduled, Tasks
<1>2. \A s \in Sessions : InQueue(s) = {} /\ PendingOf(s) = {}
  BY DEF Init, InQueue, PendingOf, Tasks
<1>3. Cardinality({}) = 0 /\ IsFiniteSet({}) /\ SumBytes({}) = 0
  BY FS_EmptySet DEF SumBytes, BytesOf
<1>4. TypeOK
  <2>1. <<>> \in Seq(Datagrams) /\ <<>> \in Seq(Tasks) /\ reserved \in 0..HandlerLimit
    BY LimitsPositive DEF Init
  <2> QED  BY <2>1 DEF Init, TypeOK
<1>5. BytesExact
  <2>1. {d \in Datagrams : state[d] \in {"queued", "pending", "active"}} = {}
    BY <1>1 DEF Held
  <2>2. \A s \in Sessions : managedBytes[s] = SumBytes(InQueue(s))
    BY <1>2, <1>3 DEF Init
  <2>3. queuedDatagramBytes = 0 /\ queuedDatagramBytes <= MaxQueuedDatagramBytes
    BY LimitsPositive DEF Init
  <2> QED  BY <1>3, <2>1, <2>2, <2>3 DEF BytesExact
<1>6. ReservationsExact
  BY <1>1, <1>3 DEF Init, ReservationsExact
<1>7. NoLostWakeup
  BY DEF Init, NoLostWakeup, QueuedIsDrained, DrainerNotStranded, None
<1>8. PlacesExact
  <2>1. \A s \in Sessions : Holds(queue[s], InQueue(s)) /\ Holds(pending[s], PendingOf(s))
    BY <1>2, HoldsEmpty DEF Init
  <2> QED  BY <1>1, <1>3, <2>1 DEF PlacesExact
<1>9. IntakeExact
  BY DEF Init, IntakeExact
<1> QED  BY <1>4, <1>5, <1>6, <1>7, <1>8, <1>9 DEF IndInv, AccountsExact

\* Every step keeps the invariant.
LEMMA NextKeeps ==
    ASSUME IndInv, [Next]_vars
    PROVE  IndInv'
<1>1. ASSUME NEW s \in Sessions, NEW d \in Datagrams,
             PumpDrops(s, d) \/ PumpEnqueues(s, d) \/ PumpReplacesOldest(s, d) \/ PumpOverflows(s, d)
      PROVE  IndInv'
  BY <1>1, PumpDropsKeeps, PumpEnqueuesKeeps, PumpReplacesKeeps
<1>2. ASSUME NEW s \in Sessions, NEW t \in StreamTasks, SubmitStream(s, t)
      PROVE  IndInv'
  BY <1>2, SubmitStreamKeeps
<1>3. ASSUME NEW s \in Sessions, PumpEnds(s)
      PROVE  IndInv'
  BY <1>3, PumpEndsKeeps
<1>4. ASSUME NEW s \in Sessions, DrainerStep(s)
      PROVE  IndInv'
  BY <1>4, DrainerIdlesKeeps, DrainerSubmitsKeeps DEF DrainerStep
<1>5. ASSUME NEW s \in Sessions, StopIntake(s) \/ DiscardPending(s) \/ Finalize(s)
      PROVE  IndInv'
  BY <1>5, StopIntakeKeeps, DiscardPendingKeeps, FinalizeKeeps
<1>6. ASSUME NEW t \in Tasks, TaskSettles(t)
      PROVE  IndInv'
  <2>1. owner[t] \in Sessions
    BY <1>6 DEF TaskSettles, IndInv, PlacesExact, Live
  <2> QED  BY <1>6, <2>1, TaskSettlesKeeps
<1>7. CASE UNCHANGED vars
  <2>1. NoLostWakeup'
    <3>1. \A q \in Sessions : HasCapacity(q)' = HasCapacity(q)
      BY <1>7 DEF vars, HasCapacity, Active
    <3> QED  BY <1>7, <3>1 DEF vars, IndInv, NoLostWakeup, QueuedIsDrained, DrainerNotStranded
  <2>2. /\ pump' \in [Sessions -> {"reading", "closing", "ended"}]
        /\ drainer' \in [Sessions -> {None, "waiting", "resuming", "submitted"}]
        /\ drainingDatagrams' \in [Sessions -> BOOLEAN]
    BY <1>7 DEF vars, IndInv, AccountsExact, TypeOK
  <2> QED  BY <1>7, <2>1, <2>2, NothingMovesKeeps DEF vars, sessionVars
<1> QED  BY <1>1, <1>2, <1>3, <1>4, <1>5, <1>6, <1>7 DEF Next

\* The datagram path always satisfies it.
LEMMA AlwaysIndInv == Spec => []IndInv
<1>1. Init => IndInv
  BY InitEstablishes
<1>2. IndInv /\ [Next]_vars => IndInv'
  BY NextKeeps
<1> QED  BY <1>1, <1>2, PTL DEF Spec

-----------------------------------------------------------------------------
(* The theorems *)

\* pumpDatagrams(), drainDatagrams(), submit() and clearDatagrams(): the byte
\* counters of the runtime and of each session are exactly the bytes of the
\* datagrams that are queued, scheduled or handled, within the limit, and every
\* task of a scheduler holds one reservation of the handler budget.
THEOREM AccountsAreExact == Spec => []AccountsExact
<1>1. IndInv => AccountsExact
  BY DEF IndInv
<1> QED  BY <1>1, AlwaysIndInv, PTL

\* pumpDatagrams(), drainDatagrams() and the scheduler's waiters: no datagram is
\* left in a queue without a drainer, and no drainer waits for a place that is
\* there or that will never come.
THEOREM NoWakeupIsLost == Spec => []NoLostWakeup
<1>1. IndInv => NoLostWakeup
  BY DEF IndInv
<1> QED  BY <1>1, AlwaysIndInv, PTL
=============================================================================
