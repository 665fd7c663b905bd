----------------------------- MODULE LimitsProofs ------------------------------
(***************************************************************************)
(* Theorems about the two limits that the runtime keeps outside of a       *)
(* session.                                                                *)
(*                                                                         *)
(* HandlerBudget, for every set of tasks and every limit: counters, bounds *)
(* and waiters are exact, and no slot idles while somebody waits.          *)
(*                                                                         *)
(* IpSlots, for any number of sessions and addresses, any limits and any   *)
(* length of the window: the table counts the sessions that hold a slot,   *)
(* it stays bounded, and what is released, swept and shifted from it is    *)
(* never what a limit still depends on.                                    *)
(*                                                                         *)
(* Neither reads the other's state: the two parts share only the theorems  *)
(* of the library.                                                         *)
(***************************************************************************)
EXTENDS HandlerBudget, IpSlots, FiniteSetTheorems, SequenceTheorems, TLAPS

-----------------------------------------------------------------------------
(* The handler budget *)

\* The inductive invariant.  CallsReserved and the exact counters carry the
\* bound on the waiters; work conservation carries the bound on the slots.
IndInv ==
    /\ TypeOK
    /\ CountersExact
    /\ NoIdleSlotWhileWaiting
    /\ running <= Concurrency
    /\ reserved <= Concurrency + Pending
    /\ WaitersExact
    /\ CallsReserved

\* The sets the counters count are finite.
LEMMA FiniteSets_ ==
    ASSUME NEW S, S \subseteq Tasks
    PROVE  IsFiniteSet(S) /\ Cardinality(S) \in Nat
BY TasksFinite, FS_Subset, FS_CardinalityType

\* Without() removes one position of a sequence and keeps the others in order.
LEMMA WithoutType ==
    ASSUME NEW w \in Seq(Tasks), NEW i \in 1..Len(w)
    PROVE  /\ Without(w, i) \in Seq(Tasks)
           /\ Len(Without(w, i)) = Len(w) - 1
           /\ \A j \in 1..(Len(w) - 1) : Without(w, i)[j] = IF j < i THEN w[j] ELSE w[j + 1]
BY DEF Without

\* wake() without a free slot, or without waiters, changes nothing.
LEMMA WakeNobody ==
    ASSUME NEW r \in Int, NEW w \in Seq(Tasks), NEW c \in [Tasks -> CallStates],
           r >= Concurrency \/ w = <<>>, Wake(r, w, c)
    PROVE  running' = r /\ waiters' = w /\ call' = c
<1>1. GrantCount(r, w) = 0
  BY ConcurrencyPositive DEF GrantCount
<1>2. SubSeq(w, 1, Len(w)) = w
  OBVIOUS
<1> QED  BY <1>1, <1>2 DEF Wake

\* wake() with one free slot and a waiter grants the oldest waiter.
LEMMA WakeOldest ==
    ASSUME NEW w \in Seq(Tasks), NEW c \in [Tasks -> CallStates],
           w # <<>>, Wake(Concurrency - 1, w, c)
    PROVE  /\ running' = Concurrency
           /\ waiters' = Tail(w)
           /\ call' = [c EXCEPT ![w[1]] = "granted"]
           /\ w[1] \in Tasks
<1>0. Len(w) \in Nat /\ Len(w) >= 1 /\ Concurrency - (Concurrency - 1) = 1
      /\ ~(Concurrency - 1 >= Concurrency)
  BY ConcurrencyPositive
<1>1. GrantCount(Concurrency - 1, w) = 1
  <2>1. GrantCount(Concurrency - 1, w) = IF Len(w) <= 1 THEN Len(w) ELSE 1
    BY <1>0, Zenon DEF GrantCount
  <2> QED  BY <1>0, <2>1
<1>2. SubSeq(w, 2, Len(w)) = Tail(w)
  OBVIOUS
<1>3. w[1] \in Tasks
  OBVIOUS
<1>4. \A t \in Tasks : (\E i \in 1..1 : w[i] = t) <=> w[1] = t
  OBVIOUS
<1>5. /\ running' = (Concurrency - 1) + 1
      /\ waiters' = SubSeq(w, 1 + 1, Len(w))
      /\ call' = [t \in Tasks |-> IF \E i \in 1..1 : w[i] = t THEN "granted" ELSE c[t]]
  BY <1>1, Zenon DEF Wake
<1>6. call' = [t \in Tasks |-> IF w[1] = t THEN "granted" ELSE c[t]]
  BY <1>4, <1>5
<1>7. call' = [c EXCEPT ![w[1]] = "granted"]
  BY <1>6
<1>8. running' = Concurrency
  BY <1>5, ConcurrencyPositive
<1>9. waiters' = Tail(w)
  BY <1>2, <1>5
<1> QED  BY <1>3, <1>7, <1>8, <1>9

\* A new budget satisfies the invariant.
LEMMA InitInv == Init => IndInv
<1> SUFFICES ASSUME Init PROVE IndInv
  OBVIOUS
<1>1. Held = {} /\ Holders = {} /\ Waiting = {}
  BY DEF Init, Held, Holders, Waiting
<1>2. CountersExact
  BY <1>1, FS_EmptySet DEF CountersExact, Init
<1> QED  BY <1>1, <1>2, ConcurrencyPositive, PendingNatural
         DEF Init, IndInv, TypeOK, TokenStates, CallStates, NoIdleSlotWhileWaiting,
             WaitersExact, CallsReserved

-----------------------------------------------------------------------------
(* One lemma per operation. *)

\* reserve() takes at most what is free.
LEMMA ReserveInv ==
    ASSUME IndInv, NEW t \in Tasks, Reserve(t)
    PROVE  IndInv'
<1> USE DEF IndInv
<1>1. TypeOK' /\ reserved' <= Concurrency + Pending
  BY PendingNatural, ConcurrencyPositive DEF TypeOK, Reserve, TokenStates
<1>2. Held' = Held \cup {t} /\ t \notin Held /\ Holders' = Holders /\ Waiting' = Waiting
  BY DEF TypeOK, Reserve, Held, Holders, Waiting
<1>3. CountersExact'
  BY <1>2, FiniteSets_, FS_AddElement DEF CountersExact, Reserve, Held
<1>4. CallsReserved'
  BY DEF CallsReserved, Reserve, TypeOK
<1> QED  BY <1>1, <1>2, <1>3, <1>4 DEF Reserve, NoIdleSlotWhileWaiting, WaitersExact

\* A release gives back its reservation once.
LEMMA ReleaseInv ==
    ASSUME IndInv, NEW t \in Tasks, Release(t)
    PROVE  IndInv'
<1> USE DEF IndInv, Release
<1>1. Holders' = Holders /\ Waiting' = Waiting /\ Held' = Held \ {t}
  BY DEF TypeOK, GiveBack, Held, Holders, Waiting
<1>2. CountersExact'
  <2>1. Cardinality(Held \ {t}) = IF t \in Held THEN Cardinality(Held) - 1 ELSE Cardinality(Held)
    BY FiniteSets_, FS_RemoveElement DEF Held
  <2>2. t \in Held <=> token[t] = "held"
    BY DEF Held
  <2> QED  BY <1>1, <2>1, <2>2 DEF CountersExact, GiveBack
<1>3. TypeOK'
  <2>1. reserved' = Cardinality(Held') /\ Held' \subseteq Tasks
    BY <1>2 DEF CountersExact, Held
  <2>2. reserved' \in Nat
    BY <2>1, FiniteSets_
  <2> QED  BY <2>2 DEF TypeOK, GiveBack, TokenStates
<1>4. reserved' <= Concurrency + Pending
  BY PendingNatural, ConcurrencyPositive DEF TypeOK, GiveBack
<1>5. CallsReserved'
  BY DEF CallsReserved, GiveBack, TypeOK
<1> QED  BY <1>1, <1>2, <1>3, <1>4, <1>5 DEF NoIdleSlotWhileWaiting, WaitersExact

\* run() takes a free slot or joins the line.
LEMMA RunInv ==
    ASSUME IndInv, NEW t \in Tasks, Run(t)
    PROVE  IndInv'
<1> USE DEF IndInv
<1>1. token[t] = "held" /\ call[t] = "none" /\ UNCHANGED <<reserved, token, aborted>>
  BY DEF Run
<1>2. Held' = Held
  BY <1>1 DEF Held
<1>3. CASE RunAborted(t)
  <2>1. Holders' = Holders /\ Waiting' = Waiting
    BY <1>1, <1>3 DEF TypeOK, RunAborted, Holders, Waiting
  <2>2. TypeOK' /\ CallsReserved'
    BY <1>1, <1>3 DEF TypeOK, RunAborted, CallStates, CallsReserved
  <2> QED  BY <1>1, <1>2, <1>3, <2>1, <2>2
           DEF RunAborted, CountersExact, NoIdleSlotWhileWaiting, WaitersExact
<1>4. CASE RunAcquire(t)
  <2>1. Holders' = Holders \cup {t} /\ t \notin Holders /\ Waiting' = Waiting
    BY <1>1, <1>4 DEF TypeOK, RunAcquire, Holders, Waiting
  <2>2. CountersExact'
    BY <1>1, <1>2, <1>4, <2>1, FiniteSets_, FS_AddElement DEF CountersExact, RunAcquire, Holders
  <2>3. TypeOK' /\ CallsReserved' /\ running' <= Concurrency
    BY <1>1, <1>4, ConcurrencyPositive
       DEF TypeOK, RunAcquire, SlotFree, CallStates, CallsReserved
  <2> QED  BY <1>1, <1>4, <2>1, <2>2, <2>3
           DEF RunAcquire, SlotFree, NoIdleSlotWhileWaiting, WaitersExact
<1>5. CASE RunWait(t)
  <2>1. Holders' = Holders /\ Waiting' = Waiting \cup {t} /\ t \notin Waiting
    BY <1>1, <1>5 DEF TypeOK, RunWait, Holders, Waiting
  <2>2. TypeOK' /\ CallsReserved'
    BY <1>1, <1>5 DEF TypeOK, RunWait, CallStates, CallsReserved
  <2>3. /\ Len(waiters') = Len(waiters) + 1 /\ Len(waiters) \in Nat
        /\ waiters'[Len(waiters) + 1] = t
        /\ \A i \in 1..Len(waiters) : waiters'[i] = waiters[i]
    BY <1>5 DEF TypeOK, RunWait
  <2>4. \A i \in 1..Len(waiters) : waiters[i] # t
    BY <2>1 DEF WaitersExact
  <2>5. WaitersExact'
    <3>1. \A i, j \in 1..Len(waiters') : waiters'[i] = waiters'[j] => i = j
      BY <2>3, <2>4 DEF WaitersExact
    <3>2. \A u \in Tasks : u \in Waiting' <=> \E i \in 1..Len(waiters') : waiters'[i] = u
      <4>1. \A u \in Tasks : u \in Waiting => \E i \in 1..Len(waiters') : waiters'[i] = u
        BY <2>3 DEF WaitersExact
      <4>2. Len(waiters) + 1 \in 1..Len(waiters')
        BY <2>3
      <4>3. \A u \in Tasks, i \in 1..Len(waiters') : waiters'[i] = u => u \in Waiting \cup {t}
        BY <2>3 DEF WaitersExact
      <4> QED  BY <2>1, <2>3, <4>1, <4>2, <4>3
    <3> QED  BY <1>1, <1>5, <2>1, <3>1, <3>2 DEF WaitersExact, RunWait
  <2>6. NoIdleSlotWhileWaiting'
    BY <1>5, ConcurrencyPositive DEF RunWait, SlotFree, NoIdleSlotWhileWaiting, TypeOK
  <2> QED  BY <1>1, <1>2, <1>5, <2>1, <2>2, <2>5, <2>6 DEF RunWait, CountersExact
<1> QED  BY <1>3, <1>4, <1>5 DEF Run

\* A granted call starts only once.
LEMMA StartInv ==
    ASSUME IndInv, NEW t \in Tasks, Start(t)
    PROVE  IndInv'
<1> USE DEF IndInv
<1>1. Held' = Held /\ Holders' = Holders /\ Waiting' = Waiting
  BY DEF Start, TypeOK, Held, Holders, Waiting
<1>2. TypeOK' /\ CallsReserved'
  BY DEF Start, TypeOK, CallStates, CallsReserved
<1> QED  BY <1>1, <1>2 DEF Start, CountersExact, NoIdleSlotWhileWaiting, WaitersExact

\* wake() after a call that held no waiter's place has left: either nobody is
\* waiting, or every slot but the one just freed is taken.
LEMMA SettleInv ==
    ASSUME IndInv, NEW t \in Tasks, Settle(t)
    PROVE  IndInv'
<1> USE DEF IndInv
<1> DEFINE c == [call EXCEPT ![t] = "settled"]
<1>1. t \in Holders /\ t \notin Waiting /\ c \in [Tasks -> CallStates]
  BY DEF Settle, Holders, Waiting, TypeOK, CallStates
<1>2. Wake(running - 1, waiters, c) /\ UNCHANGED <<reserved, token, aborted>>
  BY DEF Settle
<1>3. Cardinality(Holders \ {t}) = running - 1 /\ running - 1 \in Nat
  <2>1. Holders \subseteq Tasks /\ Holders \ {t} \subseteq Tasks
    BY DEF Holders
  <2>2. IsFiniteSet(Holders) /\ Cardinality(Holders \ {t}) \in Nat
    BY <2>1, FiniteSets_
  <2>3. Cardinality(Holders \ {t}) = Cardinality(Holders) - 1
    BY <1>1, <2>2, FS_RemoveElement
  <2> QED  BY <2>2, <2>3 DEF CountersExact
<1>4. Held' = Held
  BY <1>2 DEF Held
<1>5. CASE waiters = <<>>
  <2>1. running' = running - 1 /\ waiters' = <<>> /\ call' = c
    <3> HIDE DEF c
    <3>1. running - 1 \in Int /\ waiters \in Seq(Tasks)
      BY <1>3 DEF TypeOK
    <3> QED  BY <1>1, <1>2, <1>5, <3>1, WakeNobody
  <2>2. Holders' = Holders \ {t} /\ Waiting' = Waiting
    BY <1>1, <2>1 DEF Holders, Waiting, TypeOK
  <2>3. CountersExact'
    BY <1>2, <1>3, <1>4, <2>1, <2>2 DEF CountersExact
  <2>4. TypeOK' /\ CallsReserved' /\ running' <= Concurrency
    BY <1>1, <1>2, <1>3, <2>1, ConcurrencyPositive DEF TypeOK, CallStates, CallsReserved
  <2>5. WaitersExact'
    <3>1. waiters' = waiters /\ aborted' = aborted
      BY <1>2, <1>5, <2>1
    <3> QED  BY <2>2, <3>1 DEF WaitersExact
  <2> QED  BY <1>2, <2>1, <2>3, <2>4, <2>5 DEF NoIdleSlotWhileWaiting
<1>6. CASE waiters # <<>>
  <2> DEFINE h == waiters[1]
  <2>0. running = Concurrency /\ waiters \in Seq(Tasks)
    BY <1>6 DEF NoIdleSlotWhileWaiting, TypeOK
  <2>1. running' = Concurrency /\ waiters' = Tail(waiters) /\ call' = [c EXCEPT ![h] = "granted"] /\ h \in Tasks
    <3>1. Wake(Concurrency - 1, waiters, c)
      BY <1>2, <2>0
    <3> HIDE DEF c
    <3> QED  BY <1>1, <1>6, <2>0, <3>1, WakeOldest
  <2>2. /\ Len(waiters) \in Nat /\ Len(waiters) >= 1
        /\ Len(waiters') = Len(waiters) - 1
        /\ \A i \in 1..Len(waiters') : waiters'[i] = waiters[i + 1]
        /\ waiters' \in Seq(Tasks)
    BY <1>6, <2>0, <2>1
  <2>3. h \in Waiting
    BY <2>1, <2>2 DEF WaitersExact
  <2>4. h # t /\ h \notin Holders
    BY <1>1, <2>3 DEF Waiting, Holders
  <2>5. Holders' = (Holders \ {t}) \cup {h} /\ Waiting' = Waiting \ {h}
    BY <1>1, <2>1, <2>3, <2>4 DEF Holders, Waiting, TypeOK
  <2>6. CountersExact'
    <3>1. IsFiniteSet(Holders \ {t}) /\ h \notin Holders \ {t}
      BY <2>4, FiniteSets_ DEF Holders
    <3>2. Cardinality((Holders \ {t}) \cup {h}) = Cardinality(Holders \ {t}) + 1
      BY <3>1, FS_AddElement
    <3> QED  BY <1>2, <1>3, <1>4, <2>0, <2>1, <2>5, <3>2, ConcurrencyPositive DEF CountersExact
  <2>7. TypeOK'
    BY <1>1, <1>2, <2>1, <2>2, ConcurrencyPositive DEF TypeOK, CallStates
  <2>8. CallsReserved'
    BY <1>2, <2>1, <2>3 DEF CallsReserved, Waiting, TypeOK
  <2>9. WaitersExact'
    <3>1. \A i, j \in 1..Len(waiters') : waiters'[i] = waiters'[j] => i = j
      BY <2>2 DEF WaitersExact
    <3>2. \A i \in 1..Len(waiters') : waiters'[i] \in Waiting \ {h}
      BY <2>2 DEF WaitersExact
    <3>3. \A u \in Waiting \ {h} : \E i \in 1..Len(waiters') : waiters'[i] = u
      <4> SUFFICES ASSUME NEW u \in Waiting \ {h}
                   PROVE  \E i \in 1..Len(waiters') : waiters'[i] = u
        OBVIOUS
      <4>1. PICK k \in 1..Len(waiters) : waiters[k] = u
        BY DEF WaitersExact, Waiting
      <4>2. k # 1
        BY <4>1
      <4>3. k - 1 \in 1..Len(waiters') /\ waiters'[k - 1] = u
        BY <2>2, <4>1, <4>2
      <4> QED  BY <4>3
    <3>4. Waiting' \cap aborted' = {}
      BY <1>2, <2>5 DEF WaitersExact
    <3>5. \A u \in Tasks : u \in Waiting' <=> \E i \in 1..Len(waiters') : waiters'[i] = u
      BY <2>5, <3>2, <3>3
    <3> QED  BY <3>1, <3>4, <3>5 DEF WaitersExact
  <2> QED  BY <1>2, <2>1, <2>6, <2>7, <2>8, <2>9, ConcurrencyPositive DEF NoIdleSlotWhileWaiting
<1> QED  BY <1>5, <1>6

\* An aborted call leaves the line; the others keep their order.
LEMMA AbortInv ==
    ASSUME IndInv, NEW t \in Tasks, Abort(t)
    PROVE  IndInv'
<1> USE DEF IndInv
<1>1. aborted' = aborted \cup {t} /\ UNCHANGED <<reserved, token>>
  BY DEF Abort
<1>2. Held' = Held
  BY <1>1 DEF Held
<1>3. CASE AbortOther(t)
  <2>1. Holders' = Holders /\ Waiting' = Waiting /\ t \notin Waiting
    BY <1>3 DEF AbortOther, Holders, Waiting
  <2>2. TypeOK' /\ CallsReserved'
    BY <1>1, <1>3 DEF TypeOK, AbortOther, CallsReserved
  <2>3. WaitersExact'
    BY <1>1, <1>3, <2>1 DEF AbortOther, WaitersExact
  <2> QED  BY <1>1, <1>2, <1>3, <2>1, <2>2, <2>3
           DEF AbortOther, CountersExact, NoIdleSlotWhileWaiting
<1>4. CASE AbortWaiting(t)
  <2> DEFINE c == [call EXCEPT ![t] = "settled"]
  <2>1. PICK k \in 1..Len(waiters) : waiters[k] = t /\ Wake(running, Without(waiters, k), c)
    BY <1>4 DEF AbortWaiting
  <2>2. /\ waiters \in Seq(Tasks) /\ Len(waiters) \in Nat /\ waiters # <<>>
        /\ running = Concurrency /\ running \in Int /\ running >= Concurrency
    BY <2>1, ConcurrencyPositive DEF TypeOK, NoIdleSlotWhileWaiting
  <2>3. c \in [Tasks -> CallStates] /\ t \in Waiting
    BY <2>1 DEF TypeOK, CallStates, WaitersExact
  <2>4. /\ Without(waiters, k) \in Seq(Tasks)
        /\ Len(Without(waiters, k)) = Len(waiters) - 1
        /\ \A j \in 1..(Len(waiters) - 1) :
              Without(waiters, k)[j] = IF j < k THEN waiters[j] ELSE waiters[j + 1]
    BY <2>2, WithoutType
  <2>5. running' = running /\ waiters' = Without(waiters, k) /\ call' = c
    <3> HIDE DEF c
    <3> QED  BY <2>1, <2>2, <2>3, <2>4, WakeNobody
  <2>6. Holders' = Holders /\ Waiting' = Waiting \ {t}
    BY <2>3, <2>5 DEF Holders, Waiting, TypeOK
  <2>7. TypeOK' /\ CallsReserved'
    BY <1>1, <2>3, <2>4, <2>5 DEF TypeOK, CallsReserved
  <2>8. WaitersExact'
    <3>1. /\ Len(waiters') = Len(waiters) - 1
          /\ \A j \in 1..Len(waiters') : waiters'[j] = IF j < k THEN waiters[j] ELSE waiters[j + 1]
      BY <2>4, <2>5
    <3>2. \A i, j \in 1..Len(waiters') : waiters'[i] = waiters'[j] => i = j
      BY <2>2, <3>1 DEF WaitersExact
    <3>3. \A i \in 1..Len(waiters') : waiters'[i] \in Waiting \ {t}
      <4> TAKE i \in 1..Len(waiters')
      <4>1. PICK m \in 1..Len(waiters) : m # k /\ waiters'[i] = waiters[m]
        BY <2>2, <3>1
      <4>2. waiters[m] # t /\ waiters[m] \in Tasks
        BY <2>1, <2>2, <4>1 DEF WaitersExact
      <4> QED  BY <4>1, <4>2 DEF WaitersExact
    <3>4. \A u \in Waiting \ {t} : \E i \in 1..Len(waiters') : waiters'[i] = u
      <4> SUFFICES ASSUME NEW u \in Waiting \ {t}
                   PROVE  \E i \in 1..Len(waiters') : waiters'[i] = u
        OBVIOUS
      <4>1. PICK m \in 1..Len(waiters) : waiters[m] = u
        BY DEF WaitersExact, Waiting
      <4>2. m # k
        BY <2>1, <4>1
      <4>3. CASE m < k
        <5>1. m \in 1..Len(waiters') /\ waiters'[m] = u
          BY <2>2, <3>1, <4>1, <4>3
        <5> QED  BY <5>1
      <4>4. CASE m > k
        <5>1. m - 1 \in 1..Len(waiters') /\ ~(m - 1 < k) /\ (m - 1) + 1 = m
          BY <2>2, <3>1, <4>4
        <5>2. waiters'[m - 1] = u
          BY <3>1, <4>1, <5>1
        <5> QED  BY <5>1, <5>2
      <4> QED  BY <4>2, <4>3, <4>4
    <3>5. Waiting' \cap aborted' = {}
      BY <1>1, <2>6 DEF WaitersExact
    <3>6. \A u \in Tasks : u \in Waiting' <=> \E i \in 1..Len(waiters') : waiters'[i] = u
      BY <2>6, <3>3, <3>4
    <3> QED  BY <3>2, <3>5, <3>6 DEF WaitersExact
  <2> QED  BY <1>1, <1>2, <2>2, <2>5, <2>6, <2>7, <2>8
           DEF CountersExact, NoIdleSlotWhileWaiting
<1> QED  BY <1>3, <1>4 DEF Abort

\* Stuttering keeps everything.
LEMMA StutterInv ==
    ASSUME IndInv, UNCHANGED vars
    PROVE  IndInv'
BY DEF IndInv, vars, TypeOK, CountersExact, NoIdleSlotWhileWaiting, WaitersExact,
       CallsReserved, Held, Holders, Waiting

\* The inductive invariant holds in every state of every behaviour of the
\* budget: reserve, release, run, abort and wake keep it together.
THEOREM Invariance == Spec => []IndInv
<1>1. IndInv /\ [Next]_vars => IndInv'
  BY ReserveInv, ReleaseInv, RunInv, StartInv, SettleInv, AbortInv, StutterInv DEF Next
<1> QED  BY <1>1, InitInv, PTL DEF Spec

\* What the inductive invariant says of the bounds: the waiters are calls that
\* hold a reservation next to the Concurrency calls that hold a slot.
LEMMA BoundedFromInv == IndInv => Bounded
<1> SUFFICES ASSUME IndInv PROVE Bounded
  OBVIOUS
<1> USE DEF IndInv
<1>1. Len(waiters) \in Nat /\ waiters \in Seq(Tasks)
  BY DEF TypeOK
<1>2. IsFiniteSet(Waiting) /\ IsFiniteSet(Holders) /\ IsFiniteSet(Held)
  BY FiniteSets_ DEF Waiting, Holders, Held
<1>3. Cardinality(Waiting) = Len(waiters)
  <2>1. waiters \in Bijection(1..Len(waiters), Waiting)
    BY <1>1 DEF WaitersExact, Waiting, Bijection, Injection, Surjection, IsInjective
  <2> QED  BY <1>1, <2>1, FS_CountingElements DEF ExistsBijection
<1>4. Cardinality(Waiting \cup Holders) = Len(waiters) + running
  <2>1. Waiting \cap Holders = {}
    BY DEF Waiting, Holders
  <2>2. Cardinality(Waiting \cup Holders)
          = Cardinality(Waiting) + Cardinality(Holders) - Cardinality(Waiting \cap Holders)
    BY <1>2, FS_Union
  <2>3. Cardinality(Waiting \cap Holders) = 0
    BY <2>1, FS_EmptySet
  <2>4. Cardinality(Holders) = running /\ running \in Nat
    BY DEF CountersExact, TypeOK
  <2> QED  BY <1>1, <1>3, <2>2, <2>3, <2>4
<1>5. Cardinality(Waiting \cup Holders) <= reserved
  <2>1. Waiting \cup Holders \subseteq Held
    BY DEF Waiting, Holders, Held, CallsReserved
  <2>2. Cardinality(Waiting \cup Holders) <= Cardinality(Held)
    BY <1>2, <2>1, FS_Subset
  <2> QED  BY <2>2 DEF CountersExact
<1>6. CASE waiters = <<>>
  BY <1>6, ConcurrencyPositive, PendingNatural DEF Bounded, TypeOK
<1>7. CASE waiters # <<>>
  <2>1. running = Concurrency
    BY <1>7 DEF NoIdleSlotWhileWaiting
  <2>2. Len(waiters) + Concurrency <= Concurrency + Pending
    BY <1>1, <1>4, <1>5, <2>1, ConcurrencyPositive, PendingNatural DEF TypeOK
  <2> QED  BY <1>1, <2>1, <2>2, ConcurrencyPositive, PendingNatural DEF Bounded, TypeOK
<1> QED  BY <1>6, <1>7

\* For every set of tasks and every limit, the slots, the reservations and the
\* waiters of the budget stay within their bounds.
THEOREM BudgetBounded == Spec => []Bounded
BY Invariance, BoundedFromInv, PTL

\* The counters and the waiters never drift from the calls, within the bounds.
THEOREM BudgetAlwaysExact == Spec => []BudgetExact
<1>1. IndInv => TypeOK /\ CountersExact /\ WaitersExact
  BY DEF IndInv
<1>2. IndInv => BudgetExact
  BY <1>1, BoundedFromInv DEF BudgetExact
<1> QED  BY <1>2, Invariance, PTL

\* No wakeup is lost: nobody waits while a slot is free.
THEOREM BudgetWorkConserving == Spec => []NoIdleSlotWhileWaiting
<1>1. IndInv => NoIdleSlotWhileWaiting
  BY DEF IndInv
<1> QED  BY <1>1, Invariance, PTL

\* No call overtakes an older waiter.  Only a settling call grants while others
\* wait, and what it grants is the first element of the waiters.
THEOREM BudgetNoOvertaking == Spec => NoOvertaking
<1> DEFINE Step ==
      \A t \in Tasks :
          (call[t] \in {"none", "waiting"} /\ call'[t] = "granted") =>
             \A u \in Tasks : (call[u] = "waiting" /\ call'[u] = "waiting") =>
                \E i, j \in 1..Len(waiters) : i < j /\ waiters[i] = t /\ waiters[j] = u
<1>1. ASSUME IndInv, Next PROVE Step
  <2> SUFFICES ASSUME NEW t \in Tasks, NEW u \in Tasks,
                      call[t] \in {"none", "waiting"}, call'[t] = "granted",
                      call[u] = "waiting", call'[u] = "waiting"
               PROVE  \E i, j \in 1..Len(waiters) : i < j /\ waiters[i] = t /\ waiters[j] = u
    OBVIOUS
  <2> USE <1>1 DEF IndInv
  <2>1. PICK k \in 1..Len(waiters) : waiters[k] = u
    BY DEF WaitersExact, Waiting
  <2>2. /\ waiters # <<>> /\ running = Concurrency /\ waiters \in Seq(Tasks)
        /\ Len(waiters) \in Nat /\ call \in [Tasks -> CallStates] /\ running \in Int
    BY <2>1, ConcurrencyPositive DEF TypeOK, NoIdleSlotWhileWaiting
  <2>3. PICK s \in Tasks : Reserve(s) \/ Release(s) \/ Run(s) \/ Start(s) \/ Settle(s) \/ Abort(s)
    BY DEF Next
  <2>4. CASE Reserve(s) \/ Release(s)
    BY <2>4 DEF Reserve, Release
  <2>5. CASE Run(s)
    BY <2>2, <2>5 DEF Run, RunAborted, RunAcquire, RunWait, SlotFree
  <2>6. CASE Start(s)
    BY <2>2, <2>6 DEF Start
  <2>7. CASE Settle(s)
    <3> DEFINE c == [call EXCEPT ![s] = "settled"]
    <3>1. Wake(Concurrency - 1, waiters, c) /\ c \in [Tasks -> CallStates]
      BY <2>2, <2>7 DEF Settle, CallStates
    <3>2. call' = [c EXCEPT ![waiters[1]] = "granted"] /\ waiters[1] \in Tasks
      <4> HIDE DEF c
      <4> QED  BY <2>2, <3>1, WakeOldest
    <3>3. waiters[1] = t
      BY <2>2, <3>2
    <3>4. k # 1
      BY <2>1, <3>3
    <3>5. 1 \in 1..Len(waiters) /\ 1 < k
      BY <2>1, <2>2, <3>4
    <3> QED  BY <2>1, <3>3, <3>5
  <2>8. CASE Abort(s)
    <3>1. CASE AbortOther(s)
      BY <3>1 DEF AbortOther
    <3>2. CASE AbortWaiting(s)
      <4> DEFINE c == [call EXCEPT ![s] = "settled"]
      <4>1. PICK i \in 1..Len(waiters) : Wake(running, Without(waiters, i), c)
        BY <3>2 DEF AbortWaiting
      <4>2. c \in [Tasks -> CallStates] /\ running >= Concurrency
        BY <2>2, ConcurrencyPositive DEF CallStates
      <4>3. call' = c
        <5> HIDE DEF c
        <5> QED  BY <2>2, <4>1, <4>2, WithoutType, WakeNobody
      <4> QED  BY <2>2, <4>3
    <3> QED  BY <2>8, <3>1, <3>2 DEF Abort
  <2> QED  BY <2>3, <2>4, <2>5, <2>6, <2>7, <2>8
<1>2. ASSUME UNCHANGED vars PROVE [Step]_vars
  BY <1>2
<1>3. IndInv /\ [Next]_vars => [Step]_vars
  BY <1>1, <1>2
<1> QED  BY <1>3, Invariance, PTL DEF Spec, NoOvertaking

-----------------------------------------------------------------------------
(* The per-address limits *)

\* The sessions of ip that got their slot after the time w, and the places of
\* the attempts made after it.
GrantedSince(ip, w) == {s \in Sessions : IpOf[s] = ip /\ granted[s] > w}
PlacesSince(times, w) == {i \in 1..Len(times) : times[i] > w}

Ordered(times) == \A i, j \in 1..Len(times) : i <= j => times[i] <= times[j]

\* Attempts are recorded in the order of time, and nothing was granted later
\* than now.
TimesOrdered ==
    /\ \A ip \in Ips : Ordered(attempts[ip]) /\ \A i \in 1..Len(attempts[ip]) : attempts[ip][i] <= now
    /\ \A s \in Sessions : granted[s] <= now

\* An address without a record has no attempts.
ForgottenHaveNone == \A ip \in Ips \ records : attempts[ip] = <<>>

\* Of the window that counts nothing is ever forgotten: since any time in it, as
\* many attempts are recorded as slots were granted.
GrantsRemembered ==
    \A ip \in Ips : \A w \in (now - Window)..now :
        Cardinality(GrantedSince(ip, w)) = Cardinality(PlacesSince(attempts[ip], w))

IpIndInv ==
    /\ IpTypeOK /\ SlotsExact /\ TableBounded /\ RateRespected
    /\ IsFiniteSet(records) /\ TimesOrdered /\ ForgottenHaveNone /\ GrantsRemembered

-----------------------------------------------------------------------------
(* The shift of expired attempts *)

\* All limits are positive.
LEMMA Limits ==
    /\ MaxSessions \in Nat \ {0} /\ IpMaxSessions \in Nat \ {0} /\ SessionsPerSecond \in Nat \ {0}
    /\ Window \in Nat \ {0}
BY IpLimitsPositive

\* Sets of sessions can be counted.
LEMMA SessionSetsFinite ==
    ASSUME NEW S, S \subseteq Sessions
    PROVE  IsFiniteSet(S) /\ Cardinality(S) \in Nat
BY SessionsFinite, FS_Subset, FS_CardinalityType

\* Sets of indices can be counted.
LEMMA IndicesFinite ==
    ASSUME NEW n \in Nat
    PROVE  /\ IsFiniteSet(1..n) /\ Cardinality(1..n) = n
           /\ \A S : S \subseteq 1..n =>
                 IsFiniteSet(S) /\ Cardinality(S) \in Nat /\ Cardinality(S) <= n
<1>1. IsFiniteSet(1..n) /\ Cardinality(1..n) = IF 1 > n THEN 0 ELSE n - 1 + 1
  BY FS_Interval
<1>2. Cardinality(1..n) = n
  BY <1>1
<1>3. ASSUME NEW S, S \subseteq 1..n
      PROVE  IsFiniteSet(S) /\ Cardinality(S) \in Nat /\ Cardinality(S) <= n
  <2>1. IsFiniteSet(S) /\ Cardinality(S) <= Cardinality(1..n)
    BY <1>1, <1>3, FS_Subset
  <2> QED  BY <1>2, <2>1, FS_CardinalityType
<1> QED  BY <1>1, <1>2, <1>3

\* The loop of the shift stops at the first attempt that counts.
LEMMA ExpiredIsPrefix ==
    ASSUME NEW times \in Seq(Nat)
    PROVE  /\ Expired(times) \in 0..Len(times)
           /\ \A i \in 1..Len(times) :
                 i <= Expired(times) <=> \A j \in 1..i : times[j] <= now - Window
<1> DEFINE P == {i \in 1..Len(times) : \A j \in 1..i : times[j] <= now - Window}
<1> DEFINE c == Cardinality(P)
<1>1. Len(times) \in Nat
  BY LenProperties
<1>2. P \subseteq 1..Len(times)
  OBVIOUS
<1>3. IsFiniteSet(P) /\ c \in Nat /\ c <= Len(times)
  <2> HIDE DEF P
  <2> QED  BY <1>1, <1>2, IndicesFinite
<1>4. ASSUME NEW i \in P
      PROVE  i \in 1..c
  <2>1. i \in Nat /\ i >= 1 /\ 1..i \subseteq P
    BY <1>1
  <2> HIDE DEF P
  <2>2. Cardinality(1..i) = i
    BY <2>1, IndicesFinite
  <2>3. Cardinality(1..i) <= Cardinality(P)
    BY <1>3, <2>1, FS_Subset
  <2> QED  BY <1>3, <2>1, <2>2, <2>3
<1>5. P = 1..c
  <2> HIDE DEF P
  <2>1. P \subseteq 1..c
    BY <1>4
  <2>2. IsFiniteSet(1..c) /\ Cardinality(1..c) = c
    BY <1>3, IndicesFinite
  <2> QED  BY <2>1, <2>2, FS_Subset
<1>6. Expired(times) = c
  BY DEF Expired
<1>7. ASSUME NEW i \in 1..Len(times)
      PROVE  i <= c <=> \A j \in 1..i : times[j] <= now - Window
  <2>1. i \in P <=> \A j \in 1..i : times[j] <= now - Window
    OBVIOUS
  <2>2. i \in P <=> i \in 1..c
    BY ONLY <1>5
  <2>3. i \in 1..c <=> i <= c
    BY <1>1, <1>3
  <2> HIDE DEF c, P
  <2> QED  BY <2>1, <2>2, <2>3
<1>8. \A i \in 1..Len(times) : i <= c <=> \A j \in 1..i : times[j] <= now - Window
  BY <1>7
<1>9. c \in 0..Len(times)
  BY <1>1, <1>3
<1> HIDE DEF c, P
<1> QED  BY <1>6, <1>8, <1>9

\* What is left after the shift are the attempts of the window.
LEMMA RecentAreTheRest ==
    ASSUME IpTypeOK, NEW times \in Seq(Nat), Ordered(times)
    PROVE  /\ Recent(times) \in Seq(Nat) /\ Expired(times) \in 0..Len(times)
           /\ Len(Recent(times)) = Len(times) - Expired(times)
           /\ \A i \in 1..Len(Recent(times)) :
                 Recent(times)[i] = times[Expired(times) + i] /\ Recent(times)[i] > now - Window
           /\ \A i \in 1..Expired(times) : times[i] <= now - Window
<1> DEFINE c == Expired(times)
<1> DEFINE R == Recent(times)
<1>1. Len(times) \in Nat /\ (\A i \in 1..Len(times) : times[i] \in Nat) /\ now \in Nat /\ Window \in Nat
  BY LenProperties, Limits DEF IpTypeOK
<1>2. /\ c \in 0..Len(times)
      /\ \A i \in 1..Len(times) : i <= c <=> \A j \in 1..i : times[j] <= now - Window
  BY ExpiredIsPrefix
<1> HIDE DEF c
<1>3. R = SubSeq(times, c + 1, Len(times))
  BY DEF Recent, c
<1> HIDE DEF R
<1>4. c + 1 \in Int /\ Len(times) \in Int /\ \A i \in (c + 1)..Len(times) : times[i] \in Nat
  BY <1>1, <1>2
<1>5. /\ SubSeq(times, c + 1, Len(times)) \in Seq(Nat)
      /\ Len(SubSeq(times, c + 1, Len(times))) =
            IF c + 1 <= Len(times) THEN Len(times) - (c + 1) + 1 ELSE 0
      /\ \A i \in 1..(Len(times) - (c + 1) + 1) :
            SubSeq(times, c + 1, Len(times))[i] = times[(c + 1) + i - 1]
  BY <1>4, SubSeqProperties
<1>6. R \in Seq(Nat) /\ Len(R) = Len(times) - c
  BY <1>1, <1>2, <1>3, <1>5
<1>7. ASSUME NEW i \in 1..Len(R)
      PROVE  R[i] = times[c + i] /\ R[i] > now - Window
  <2>1. i \in 1..(Len(times) - (c + 1) + 1) /\ (c + 1) + i - 1 = c + i
    BY <1>1, <1>2, <1>6
  <2>2. R[i] = times[c + i]
    BY <1>3, <1>5, <2>1
  <2>3. c + 1 \in 1..Len(times) /\ ~(c + 1 <= c) /\ c + i \in 1..Len(times) /\ c + 1 <= c + i
    BY <1>1, <1>2, <1>6
  <2>4. PICK j \in 1..(c + 1) : ~(times[j] <= now - Window)
    BY <1>2, <2>3
  <2>5. j \in 1..Len(times) /\ j <= c + i
    BY <1>1, <1>2, <2>3, <2>4
  <2>6. times[j] <= times[c + i] /\ times[j] \in Nat /\ times[c + i] \in Nat
    BY <1>1, <2>3, <2>5 DEF Ordered
  <2> QED  BY <1>1, <2>2, <2>4, <2>6
<1>8. ASSUME NEW i \in 1..c
      PROVE  times[i] <= now - Window
  <2>1. i \in 1..Len(times) /\ i <= c /\ i \in 1..i
    BY <1>1, <1>2
  <2> QED  BY <1>2, <2>1
<1> QED  BY <1>2, <1>6, <1>7, <1>8 DEF c, R

\* A list of attempts that is as good as another one for every limit.
KeepsWindow(old, new) ==
    /\ new \in Seq(Nat) /\ Ordered(new) /\ \A i \in 1..Len(new) : new[i] <= now
    /\ \A w \in (now - Window)..now :
          Cardinality(PlacesSince(new, w)) = Cardinality(PlacesSince(old, w))

\* The shift only drops attempts that no longer count.
LEMMA RecentKeepsWindow ==
    ASSUME IpTypeOK, NEW times \in Seq(Nat), Ordered(times), \A i \in 1..Len(times) : times[i] <= now
    PROVE  KeepsWindow(times, Recent(times))
<1> DEFINE c == Expired(times)
<1> DEFINE R == Recent(times)
<1>1. /\ R \in Seq(Nat) /\ c \in 0..Len(times) /\ Len(R) = Len(times) - c
      /\ \A i \in 1..Len(R) : R[i] = times[c + i] /\ R[i] > now - Window
      /\ \A i \in 1..c : times[i] <= now - Window
  BY RecentAreTheRest
<1> HIDE DEF c, R
<1>2. Len(times) \in Nat /\ (\A i \in 1..Len(times) : times[i] \in Nat) /\ now \in Nat /\ Window \in Nat
  BY LenProperties, Limits DEF IpTypeOK
<1>3. \A i \in 1..Len(R) : c + i \in 1..Len(times)
  BY <1>1, <1>2
<1>4. Ordered(R)
  <2> SUFFICES ASSUME NEW i \in 1..Len(R), NEW j \in 1..Len(R), i <= j
               PROVE  R[i] <= R[j]
    BY DEF Ordered
  <2>1. c + i \in 1..Len(times) /\ c + j \in 1..Len(times) /\ c + i <= c + j
    BY <1>1, <1>2, <1>3
  <2>2. times[c + i] <= times[c + j]
    BY <2>1 DEF Ordered
  <2> QED  BY <1>1, <2>2
<1>5. \A i \in 1..Len(R) : R[i] <= now
  BY <1>1, <1>3
<1>6. ASSUME NEW w \in (now - Window)..now
      PROVE  Cardinality(PlacesSince(R, w)) = Cardinality(PlacesSince(times, w))
  <2> DEFINE A == PlacesSince(R, w)
  <2> DEFINE B == PlacesSince(times, w)
  <2> DEFINE f == [i \in A |-> c + i]
  <2>1. A \subseteq 1..Len(R) /\ Len(R) \in Nat
    BY <1>1, <1>2 DEF PlacesSince
  <2>2. ASSUME NEW i \in A
        PROVE  c + i \in B
    <3>1. i \in 1..Len(R) /\ R[i] > w
      BY DEF PlacesSince
    <3> QED  BY <1>1, <1>3, <3>1 DEF PlacesSince
  <2>3. ASSUME NEW k \in B
        PROVE  k - c \in A /\ c + (k - c) = k
    <3>1. k \in 1..Len(times) /\ times[k] > w
      BY DEF PlacesSince
    <3>2. ~(k \in 1..c)
      <4>1. w \in Int /\ now - Window <= w
        BY <1>2
      <4> QED  BY <1>1, <1>2, <3>1, <4>1
    <3>3. k - c \in 1..Len(R) /\ c + (k - c) = k
      BY <1>1, <1>2, <3>1, <3>2
    <3> QED  BY <1>1, <3>1, <3>3 DEF PlacesSince
  <2>4. IsFiniteSet(A)
    <3> HIDE DEF A
    <3> QED  BY <2>1, IndicesFinite
  <2>5. \A i, j \in A : c + i = c + j => i = j
    BY <1>1, <1>2, <2>1
  <2> HIDE DEF A, B
  <2>6. f \in Bijection(A, B)
    <3>1. f \in [A -> B]
      BY <2>2
    <3>2. \A i, j \in A : f[i] = f[j] => i = j
      BY <2>5
    <3>3. \A k \in B : \E i \in A : f[i] = k
      <4> TAKE k \in B
      <4> QED  BY <2>3
    <3> QED  BY <3>1, <3>2, <3>3 DEF Bijection, Injection, IsInjective, Surjection
  <2>7. ExistsBijection(A, B)
    BY <2>6 DEF ExistsBijection
  <2>8. Cardinality(B) = Cardinality(A)
    BY <2>4, <2>7, FS_Bijection
  <2> QED  BY <2>8 DEF A, B
<1> QED  BY <1>1, <1>4, <1>5, <1>6 DEF R, KeepsWindow

\* An address whose attempts have all expired is as good as a new one.
LEMMA NothingRecent ==
    ASSUME IpTypeOK, NEW times \in Seq(Nat), Ordered(times), \A i \in 1..Len(times) : times[i] <= now,
           Recent(times) = <<>>
    PROVE  KeepsWindow(times, <<>>)
BY RecentKeepsWindow

\* Attempts that nobody touches stay in their window.
LEMMA UnchangedKeepsWindow ==
    ASSUME IpTypeOK, NEW times \in Seq(Nat), Ordered(times), \A i \in 1..Len(times) : times[i] <= now
    PROVE  KeepsWindow(times, times)
BY DEF KeepsWindow

\* The attempts that count are those that the shift leaves.
LEMMA RecentIsCounted ==
    ASSUME IpIndInv, NEW ip \in Ips
    PROVE  Cardinality(GrantedSince(ip, now - Window)) = Len(Recent(attempts[ip]))
<1> DEFINE R == Recent(attempts[ip])
<1>1. /\ IpTypeOK /\ attempts[ip] \in Seq(Nat) /\ Ordered(attempts[ip])
      /\ \A i \in 1..Len(attempts[ip]) : attempts[ip][i] <= now
      /\ now - Window \in (now - Window)..now
  BY Limits DEF IpIndInv, IpTypeOK, TimesOrdered
<1>2. KeepsWindow(attempts[ip], R)
  BY <1>1, RecentKeepsWindow
<1>3. \A i \in 1..Len(R) : R[i] > now - Window
  BY <1>1, RecentAreTheRest
<1> HIDE DEF R
<1>4. PlacesSince(R, now - Window) = 1..Len(R)
  BY <1>3 DEF PlacesSince
<1>5. Len(R) \in Nat
  BY <1>2, LenProperties DEF KeepsWindow
<1>6. Cardinality(PlacesSince(R, now - Window)) = Len(R)
  BY <1>4, <1>5, IndicesFinite
<1>7. Cardinality(PlacesSince(attempts[ip], now - Window)) = Len(R)
  BY <1>1, <1>2, <1>6 DEF KeepsWindow
<1>8. Cardinality(GrantedSince(ip, now - Window)) = Cardinality(PlacesSince(attempts[ip], now - Window))
  BY <1>1 DEF IpIndInv, GrantsRemembered
<1> QED  BY <1>7, <1>8 DEF R

-----------------------------------------------------------------------------
(* The table *)

\* Making room for an address forgets only addresses without sessions and
\* recent attempts, and keeps the table bounded.
LEMMA TableMadeRoom ==
    ASSUME IpIndInv, NEW ip \in Ips
    PROVE  /\ RecordsFor(ip) \subseteq Ips /\ RecordsFor(ip) \subseteq records \cup {ip}
           /\ IsFiniteSet(RecordsFor(ip)) /\ Cardinality(RecordsFor(ip)) <= MaxSessions
           /\ \A a \in records \ RecordsFor(ip) : active[a] = 0 /\ Recent(attempts[a]) = <<>>
<1> DEFINE kept == records \ Swept(ip \notin records /\ Full)
<1>1. records \subseteq Ips /\ IsFiniteSet(records) /\ Cardinality(records) <= MaxSessions
  BY DEF IpIndInv, IpTypeOK, TableBounded
<1>2. kept \subseteq records /\ \A a \in records \ kept : active[a] = 0 /\ Recent(attempts[a]) = <<>>
  BY DEF Swept
<1>3. RecordsFor(ip) = IF ip \in kept \/ Cardinality(kept) < MaxSessions THEN kept \cup {ip} ELSE kept
  BY DEF RecordsFor
<1> HIDE DEF kept
<1>4. /\ IsFiniteSet(kept) /\ Cardinality(kept) <= Cardinality(records)
      /\ Cardinality(kept) \in Nat /\ Cardinality(records) \in Nat
  BY <1>1, <1>2, FS_Subset, FS_CardinalityType
<1>5. /\ IsFiniteSet(kept \cup {ip})
      /\ Cardinality(kept \cup {ip}) = IF ip \in kept THEN Cardinality(kept) ELSE Cardinality(kept) + 1
  BY <1>4, FS_AddElement
<1>6. IsFiniteSet(RecordsFor(ip)) /\ Cardinality(RecordsFor(ip)) <= MaxSessions
  BY <1>1, <1>3, <1>4, <1>5, Limits
<1>7. kept \subseteq RecordsFor(ip) /\ RecordsFor(ip) \subseteq kept \cup {ip}
  BY <1>3
<1> QED  BY <1>1, <1>2, <1>6, <1>7

\* What the sweep and the shift leave in the table is as good as before.
LEMMA TableKeepsWindow ==
    ASSUME IpIndInv, NEW ip \in Ips, NEW a \in Ips
    PROVE  /\ KeepsWindow(attempts[a], AttemptsFor(ip, RecordsFor(ip))[a])
           /\ a \notin RecordsFor(ip) => AttemptsFor(ip, RecordsFor(ip))[a] = <<>>
<1> DEFINE table == RecordsFor(ip)
<1> DEFINE new == AttemptsFor(ip, table)[a]
<1>1. /\ IpTypeOK /\ attempts[a] \in Seq(Nat) /\ Ordered(attempts[a])
      /\ \A i \in 1..Len(attempts[a]) : attempts[a][i] <= now
  BY DEF IpIndInv, IpTypeOK, TimesOrdered
<1>2. \A b \in records \ table : Recent(attempts[b]) = <<>>
  BY TableMadeRoom
<1> HIDE DEF table
<1>3. CASE a \notin table
  <2>1. new = <<>>
    BY <1>3 DEF AttemptsFor
  <2>2. CASE a \in records
    <3>1. Recent(attempts[a]) = <<>>
      BY <1>2, <1>3, <2>2
    <3>2. KeepsWindow(attempts[a], <<>>)
      BY <1>1, <3>1, NothingRecent
    <3> QED  BY <2>1, <3>2 DEF table
  <2>3. CASE a \notin records
    <3>1. attempts[a] = <<>>
      BY <2>3 DEF IpIndInv, ForgottenHaveNone
    <3>2. KeepsWindow(attempts[a], attempts[a])
      BY <1>1, UnchangedKeepsWindow
    <3> QED  BY <2>1, <3>1, <3>2 DEF table
  <2> QED  BY <2>2, <2>3
<1>4. CASE a \in table
  <2>1. new = Recent(attempts[a]) \/ new = attempts[a]
    BY <1>4 DEF AttemptsFor
  <2>2. KeepsWindow(attempts[a], Recent(attempts[a])) /\ KeepsWindow(attempts[a], attempts[a])
    BY <1>1, RecentKeepsWindow, UnchangedKeepsWindow
  <2> QED  BY <1>4, <2>1, <2>2 DEF table
<1> QED  BY <1>3, <1>4

\* Such a change of the attempts keeps what is said of them, if no slot is
\* granted.
LEMMA WindowKept ==
    ASSUME IpIndInv, UNCHANGED <<now, granted>>,
           attempts' \in [Ips -> Seq(Nat)], \A a \in Ips : KeepsWindow(attempts[a], attempts'[a])
    PROVE  TimesOrdered' /\ GrantsRemembered' /\ RateRespected'
<1>1. TimesOrdered'
  BY DEF IpIndInv, TimesOrdered, KeepsWindow, Ordered
<1>2. GrantsRemembered'
  <2> SUFFICES ASSUME NEW a \in Ips, NEW w \in (now - Window)..now
               PROVE  Cardinality(GrantedSince(a, w)) = Cardinality(PlacesSince(attempts'[a], w))
    BY DEF GrantsRemembered, GrantedSince, PlacesSince
  <2>1. Cardinality(GrantedSince(a, w)) = Cardinality(PlacesSince(attempts[a], w))
    BY DEF IpIndInv, GrantsRemembered
  <2>2. Cardinality(PlacesSince(attempts'[a], w)) = Cardinality(PlacesSince(attempts[a], w))
    BY DEF KeepsWindow
  <2> QED  BY <2>1, <2>2
<1>3. RateRespected'
  BY DEF IpIndInv, RateRespected
<1> QED  BY <1>1, <1>2, <1>3

\* A session that holds a slot keeps its record through the sweep.
LEMMA HeldKeepsRecord ==
    ASSUME IpIndInv, NEW ip \in Ips, NEW u \in held
    PROVE  IpOf[u] \in RecordsFor(ip)
<1>1. IpOf[u] \in records /\ IpOf[u] \in Ips /\ held \subseteq Sessions
  BY DEF IpIndInv, SlotsExact, IpTypeOK
<1>2. u \in HeldBy(IpOf[u]) /\ HeldBy(IpOf[u]) \subseteq Sessions
  BY <1>1 DEF HeldBy
<1>3. Cardinality(HeldBy(IpOf[u])) # 0
  BY <1>2, SessionSetsFinite, FS_EmptySet
<1>4. active[IpOf[u]] # 0
  BY <1>1, <1>3 DEF IpIndInv, SlotsExact
<1> QED  BY <1>1, <1>4, TableMadeRoom

-----------------------------------------------------------------------------
(* acquireIpSlot() *)

\* One more attempt, at the present time.
LEMMA OneMoreAttempt ==
    ASSUME IpTypeOK, NEW times \in Seq(Nat), Ordered(times), \A i \in 1..Len(times) : times[i] <= now
    PROVE  /\ Append(times, now) \in Seq(Nat) /\ Ordered(Append(times, now))
           /\ \A i \in 1..Len(Append(times, now)) : Append(times, now)[i] <= now
           /\ \A w \in (now - Window)..now :
                 Cardinality(PlacesSince(Append(times, now), w)) =
                     IF w < now THEN Cardinality(PlacesSince(times, w)) + 1 ELSE 0
<1> DEFINE n == Len(times)
<1> DEFINE more == Append(times, now)
<1>1. now \in Nat /\ Window \in Nat /\ n \in Nat /\ \A i \in 1..n : times[i] \in Nat
  BY LenProperties, Limits DEF IpTypeOK
<1>2. /\ more \in Seq(Nat) /\ Len(more) = n + 1 /\ more[n + 1] = now
      /\ \A i \in 1..n : more[i] = times[i]
  BY <1>1, AppendProperties
<1> HIDE DEF more
<1>3. \A i \in 1..Len(more) : more[i] <= now
  BY <1>1, <1>2
<1>4. Ordered(more)
  <2> SUFFICES ASSUME NEW i \in 1..Len(more), NEW j \in 1..Len(more), i <= j
               PROVE  more[i] <= more[j]
    BY DEF Ordered
  <2>1. CASE j = n + 1
    BY <1>2, <1>3, <2>1
  <2>2. CASE j # n + 1
    <3>1. i \in 1..n /\ j \in 1..n
      BY <1>1, <1>2, <2>2
    <3> QED  BY <1>2, <3>1 DEF Ordered
  <2> QED  BY <2>1, <2>2
<1>5. ASSUME NEW w \in (now - Window)..now
      PROVE  Cardinality(PlacesSince(more, w)) =
                 IF w < now THEN Cardinality(PlacesSince(times, w)) + 1 ELSE 0
  <2>1. CASE w < now
    <3> DEFINE P == PlacesSince(times, w)
    <3>1. PlacesSince(more, w) = P \cup {n + 1} /\ n + 1 \notin P /\ P \subseteq 1..n
      BY <1>1, <1>2, <2>1 DEF PlacesSince
    <3> HIDE DEF P
    <3>2. IsFiniteSet(P)
      BY <1>1, <3>1, IndicesFinite
    <3>3. Cardinality(P \cup {n + 1}) = Cardinality(P) + 1
      BY <3>1, <3>2, FS_AddElement
    <3> QED  BY <2>1, <3>1, <3>3 DEF P
  <2>2. CASE ~(w < now)
    <3>1. w = now
      BY <1>1, <2>2
    <3>2. PlacesSince(more, w) = {}
      BY <1>1, <1>2, <1>3, <3>1, LenProperties DEF PlacesSince
    <3> QED  BY <2>2, <3>2, FS_EmptySet
  <2> QED  BY <2>1, <2>2
<1> QED  BY <1>2, <1>3, <1>4, <1>5 DEF more

\* A granted slot is counted, and its attempt recorded.
LEMMA GrantKeeps ==
    ASSUME IpIndInv, NEW s \in Sessions, s \notin held, granted[s] = Never, Grant(s), UNCHANGED now
    PROVE  IpIndInv'
<1> DEFINE ip == IpOf[s]
<1> DEFINE table == RecordsFor(ip)
<1> DEFINE A == AttemptsFor(ip, table)
<1>1. /\ ip \in table /\ active[ip] < IpMaxSessions /\ Len(Recent(attempts[ip])) < SessionsPerSecond
      /\ records' = table
      /\ active' = [active EXCEPT ![ip] = @ + 1]
      /\ attempts' = [A EXCEPT ![ip] = Append(@, now)]
      /\ held' = held \cup {s}
      /\ granted' = [granted EXCEPT ![s] = now] /\ refused' = refused
  BY DEF Grant, SlotAvailable
<1>2. ip \in Ips
  BY IpOfType
<1>3. table \subseteq Ips /\ IsFiniteSet(table) /\ Cardinality(table) <= MaxSessions
  BY <1>2, TableMadeRoom
<1>4. A = [a \in Ips |-> A[a]]
  BY DEF AttemptsFor
<1>5. \A a \in Ips : KeepsWindow(attempts[a], A[a]) /\ (a \notin table => A[a] = <<>>)
  BY <1>2, TableKeepsWindow
<1>6. \A u \in held : IpOf[u] \in table
  BY <1>2, HeldKeepsRecord
<1>7. RateRespected /\ IpTypeOK /\ SlotsExact /\ TimesOrdered /\ GrantsRemembered
  BY DEF IpIndInv
<1>8. Cardinality(GrantedSince(ip, now - Window)) = Len(Recent(attempts[ip]))
  BY <1>2, RecentIsCounted
<1> HIDE DEF ip, table, A
<1>9. now \in Nat /\ Window \in Nat \ {0} /\ SessionsPerSecond \in Nat
  BY <1>7, Limits DEF IpTypeOK
<1>10. \A a \in Ips : attempts'[a] = IF a = ip THEN Append(A[ip], now) ELSE A[a]
  BY <1>1, <1>2, <1>4
<1>11. /\ Append(A[ip], now) \in Seq(Nat) /\ Ordered(Append(A[ip], now))
       /\ \A i \in 1..Len(Append(A[ip], now)) : Append(A[ip], now)[i] <= now
       /\ \A w \in (now - Window)..now :
             Cardinality(PlacesSince(Append(A[ip], now), w)) =
                 IF w < now THEN Cardinality(PlacesSince(A[ip], w)) + 1 ELSE 0
  BY <1>2, <1>5, <1>7, OneMoreAttempt DEF KeepsWindow
<1>12. \A u \in Sessions : granted'[u] = IF u = s THEN now ELSE granted[u]
  BY <1>1, <1>7 DEF IpTypeOK
<1>13. IpTypeOK'
  <2>1. attempts' \in [Ips -> Seq(Nat)]
    <3>1. \A a \in Ips : attempts'[a] \in Seq(Nat)
      BY <1>5, <1>10, <1>11 DEF KeepsWindow
    <3> QED  BY <1>1, <1>4, <3>1
  <2>2. active' \in [Ips -> 0..IpMaxSessions]
    BY <1>1, <1>2, <1>7, Limits DEF IpTypeOK
  <2>3. granted' \in [Sessions -> Int]
    BY <1>1, <1>7, <1>9 DEF IpTypeOK
  <2> QED  BY <1>1, <1>3, <1>7, <2>1, <2>2, <2>3 DEF IpTypeOK
<1>14. SlotsExact'
  <2>1. ASSUME NEW a \in Ips
        PROVE  active'[a] = Cardinality(HeldBy(a)')
    <3>1. CASE a = ip
      <4>1. HeldBy(a)' = HeldBy(a) \cup {s} /\ s \notin HeldBy(a) /\ HeldBy(a) \subseteq Sessions
        BY <1>1, <1>7, <3>1 DEF HeldBy, ip, IpTypeOK
      <4>2. Cardinality(HeldBy(a) \cup {s}) = Cardinality(HeldBy(a)) + 1
        BY <4>1, SessionSetsFinite, FS_AddElement
      <4>3. active'[a] = active[a] + 1 /\ active[a] = Cardinality(HeldBy(a))
        BY <1>1, <1>7, <3>1 DEF IpTypeOK, SlotsExact
      <4> QED  BY <4>1, <4>2, <4>3
    <3>2. CASE a # ip
      <4>1. HeldBy(a)' = HeldBy(a)
        BY <1>1, <3>2 DEF HeldBy, ip
      <4>2. active'[a] = active[a] /\ active[a] = Cardinality(HeldBy(a))
        BY <1>1, <1>7, <3>2 DEF IpTypeOK, SlotsExact
      <4> QED  BY <4>1, <4>2
    <3> QED  BY <3>1, <3>2
  <2>2. \A u \in held' : IpOf[u] \in records'
    BY <1>1, <1>6 DEF ip
  <2> QED  BY <2>1, <2>2 DEF SlotsExact, HeldBy
<1>15. TimesOrdered'
  <2>1. \A u \in Sessions : granted'[u] <= now
    BY <1>7, <1>9, <1>12 DEF TimesOrdered
  <2>2. \A a \in Ips : Ordered(attempts'[a]) /\ \A i \in 1..Len(attempts'[a]) : attempts'[a][i] <= now
    BY <1>5, <1>10, <1>11 DEF KeepsWindow
  <2> QED  BY <2>1, <2>2 DEF TimesOrdered, Ordered
<1>16. \A w \in (now - Window)..now : ~(granted[s] > w)
  BY <1>9 DEF Never
<1>17. ASSUME NEW w \in (now - Window)..now, w < now
       PROVE  Cardinality(GrantedSince(ip, w)') = Cardinality(GrantedSince(ip, w)) + 1
  <2>1. GrantedSince(ip, w)' = GrantedSince(ip, w) \cup {s} /\ s \notin GrantedSince(ip, w)
    BY <1>12, <1>16, <1>17 DEF GrantedSince, ip
  <2>2. IsFiniteSet(GrantedSince(ip, w))
    BY SessionSetsFinite DEF GrantedSince
  <2> QED  BY <2>1, <2>2, FS_AddElement
<1>18. ASSUME NEW a \in Ips, a # ip, NEW w \in (now - Window)..now
       PROVE  GrantedSince(a, w)' = GrantedSince(a, w)
  BY <1>12, <1>18 DEF GrantedSince, ip
<1>19. GrantsRemembered'
  <2> SUFFICES ASSUME NEW a \in Ips, NEW w \in (now - Window)..now
               PROVE  Cardinality(GrantedSince(a, w)') = Cardinality(PlacesSince(attempts'[a], w))
    BY DEF GrantsRemembered, GrantedSince, PlacesSince
  <2>1. Cardinality(GrantedSince(a, w)) = Cardinality(PlacesSince(A[a], w))
    BY <1>5, <1>7 DEF GrantsRemembered, KeepsWindow
  <2>2. CASE a # ip
    BY <1>10, <1>18, <2>1, <2>2
  <2>3. CASE a = ip /\ w < now
    BY <1>10, <1>11, <1>17, <2>1, <2>3
  <2>4. CASE a = ip /\ ~(w < now)
    <3>1. GrantedSince(a, w)' = {}
      <4>1. w = now
        BY <1>9, <2>4
      <4>2. \A u \in Sessions : ~(granted'[u] > now) /\ granted'[u] \in Int
        BY <1>9, <1>13, <1>15 DEF TimesOrdered, IpTypeOK
      <4> QED  BY <4>1, <4>2 DEF GrantedSince
    <3>2. Cardinality(PlacesSince(attempts'[a], w)) = 0
      BY <1>10, <1>11, <2>4
    <3> QED  BY <3>1, <3>2, FS_EmptySet
  <2> QED  BY <2>2, <2>3, <2>4
<1>20. RateRespected'
  <2>1. now - Window \in (now - Window)..now /\ now - Window < now
    BY <1>9
  <2>2. ASSUME NEW a \in Ips
        PROVE  Cardinality(GrantedSince(a, now - Window)') <= SessionsPerSecond
    <3>1. CASE a = ip
      <4>1. Len(Recent(attempts[ip])) \in Nat
        BY <1>8, SessionSetsFinite DEF GrantedSince
      <4> QED  BY <1>1, <1>8, <1>9, <1>17, <2>1, <3>1, <4>1
    <3>2. CASE a # ip
      <4>1. Cardinality(GrantedSince(a, now - Window)) <= SessionsPerSecond
        BY <1>7 DEF RateRespected, GrantedSince
      <4> QED  BY <1>18, <2>1, <3>2, <4>1
    <3> QED  BY <3>1, <3>2
  <2> QED  BY <2>2 DEF RateRespected, GrantedSince
<1>21. TableBounded' /\ IsFiniteSet(records)' /\ ForgottenHaveNone'
  BY <1>1, <1>3, <1>5, <1>10 DEF TableBounded, ForgottenHaveNone
<1> QED  BY <1>13, <1>14, <1>15, <1>19, <1>20, <1>21 DEF IpIndInv

\* A refusal counts nothing.
LEMMA RefuseKeeps ==
    ASSUME IpIndInv, NEW s \in Sessions, Refuse(s), UNCHANGED now
    PROVE  IpIndInv'
<1> DEFINE ip == IpOf[s]
<1> DEFINE table == RecordsFor(ip)
<1> DEFINE A == AttemptsFor(ip, table)
<1>1. records' = table /\ attempts' = A /\ UNCHANGED <<active, held, granted>> /\ refused' = refused \cup {s}
  BY DEF Refuse
<1>2. ip \in Ips
  BY IpOfType
<1>3. table \subseteq Ips /\ IsFiniteSet(table) /\ Cardinality(table) <= MaxSessions
  BY <1>2, TableMadeRoom
<1>4. A = [a \in Ips |-> A[a]]
  BY DEF AttemptsFor
<1>5. \A a \in Ips : KeepsWindow(attempts[a], A[a]) /\ (a \notin table => A[a] = <<>>)
  BY <1>2, TableKeepsWindow
<1>6. \A u \in held : IpOf[u] \in table
  BY <1>2, HeldKeepsRecord
<1> HIDE DEF ip, table, A
<1>7. attempts' \in [Ips -> Seq(Nat)]
  BY <1>1, <1>4, <1>5 DEF KeepsWindow
<1>8. TimesOrdered' /\ GrantsRemembered' /\ RateRespected'
  BY <1>1, <1>5, <1>7, WindowKept
<1>9. IpTypeOK'
  BY <1>1, <1>3, <1>7 DEF IpIndInv, IpTypeOK
<1>10. SlotsExact'
  BY <1>1, <1>6 DEF IpIndInv, SlotsExact, HeldBy
<1>11. TableBounded' /\ IsFiniteSet(records)' /\ ForgottenHaveNone'
  BY <1>1, <1>3, <1>5 DEF TableBounded, ForgottenHaveNone
<1> QED  BY <1>8, <1>9, <1>10, <1>11 DEF IpIndInv

-----------------------------------------------------------------------------
(* releaseIpSlot() and time *)

\* A release gives back one slot, and drops the record only if no attempt is recent.
LEMMA ReleaseKeeps ==
    ASSUME IpIndInv, NEW s \in Sessions, ReleaseIpSlot(s)
    PROVE  IpIndInv'
<1> DEFINE ip == IpOf[s]
<1>1. /\ s \in held /\ held' = held \ {s} /\ UNCHANGED <<now, granted, refused>>
      /\ ip \in records /\ ip \in Ips /\ ReleaseRecord(ip)
  BY IpOfType DEF ReleaseIpSlot, IpIndInv, SlotsExact
<1>2. IpTypeOK /\ SlotsExact /\ TimesOrdered
  BY DEF IpIndInv
<1>3. HeldBy(ip) \subseteq Sessions /\ s \in HeldBy(ip) /\ HeldBy(ip)' = HeldBy(ip) \ {s}
  BY <1>1, <1>2 DEF HeldBy, IpTypeOK
<1>4. \A a \in Ips : a # ip => HeldBy(a)' = HeldBy(a)
  BY <1>1 DEF HeldBy
<1>5. KeepsWindow(attempts[ip], Recent(attempts[ip]))
  BY <1>1, <1>2, RecentKeepsWindow DEF TimesOrdered, IpTypeOK
<1>6. \A a \in Ips : KeepsWindow(attempts[a], attempts[a])
  BY <1>2, UnchangedKeepsWindow DEF TimesOrdered, IpTypeOK
<1> HIDE DEF ip
<1>7. /\ IsFiniteSet(HeldBy(ip)) /\ Cardinality(HeldBy(ip)) \in Nat
      /\ Cardinality(HeldBy(ip) \ {s}) = Cardinality(HeldBy(ip)) - 1
      /\ Cardinality(HeldBy(ip) \ {s}) \in Nat
  <2>1. IsFiniteSet(HeldBy(ip))
    BY <1>3, SessionSetsFinite
  <2>2. /\ IsFiniteSet(HeldBy(ip) \ {s})
        /\ Cardinality(HeldBy(ip) \ {s}) = Cardinality(HeldBy(ip)) - 1
    BY <1>3, <2>1, FS_RemoveElement
  <2> QED  BY <2>1, <2>2, FS_CardinalityType
<1>8. active[ip] = Cardinality(HeldBy(ip)) /\ active[ip] >= 1 /\ active[ip] \in 0..IpMaxSessions
  BY <1>1, <1>2, <1>7 DEF SlotsExact, IpTypeOK
<1>9. \A a \in Ips : a # ip => active[a] = Cardinality(HeldBy(a)')
  BY <1>2, <1>4 DEF SlotsExact
<1>10. CASE KeepsRecord(ip)
  <2>1. /\ active' = [active EXCEPT ![ip] = @ - 1]
        /\ attempts' = [attempts EXCEPT ![ip] = Recent(@)]
        /\ records' = records
    BY <1>1, <1>8, <1>10 DEF ReleaseRecord
  <2>2. \A a \in Ips : KeepsWindow(attempts[a], attempts'[a])
    BY <1>1, <1>2, <1>5, <1>6, <2>1 DEF IpTypeOK
  <2>3. attempts' \in [Ips -> Seq(Nat)]
    BY <1>2, <1>5, <2>1 DEF IpTypeOK, KeepsWindow
  <2>4. TimesOrdered' /\ GrantsRemembered' /\ RateRespected'
    BY <1>1, <2>2, <2>3, WindowKept
  <2>5. active' \in [Ips -> 0..IpMaxSessions]
    <3>1. active[ip] - 1 \in 0..IpMaxSessions
      BY <1>8, Limits
    <3> QED  BY <1>1, <1>2, <2>1, <3>1 DEF IpTypeOK
  <2>6. IpTypeOK'
    BY <1>1, <1>2, <2>1, <2>3, <2>5 DEF IpTypeOK
  <2>7. \A a \in Ips : active'[a] = Cardinality(HeldBy(a)')
    BY <1>2, <1>3, <1>7, <1>8, <1>9, <2>1 DEF IpTypeOK
  <2>8. SlotsExact'
    BY <1>1, <1>2, <2>1, <2>7 DEF SlotsExact, HeldBy
  <2>9. TableBounded' /\ IsFiniteSet(records)' /\ ForgottenHaveNone'
    BY <1>1, <2>1 DEF IpIndInv, TableBounded, ForgottenHaveNone
  <2> QED  BY <2>4, <2>6, <2>8, <2>9 DEF IpIndInv
<1>11. CASE ~KeepsRecord(ip)
  <2>1. /\ active' = [active EXCEPT ![ip] = 0]
        /\ attempts' = [attempts EXCEPT ![ip] = <<>>]
        /\ records' = records \ {ip}
    BY <1>1, <1>11 DEF ReleaseRecord
  <2>2. ~(active[ip] > 1) /\ Recent(attempts[ip]) = <<>>
    BY <1>11 DEF KeepsRecord
  <2>3. \A a \in Ips : KeepsWindow(attempts[a], attempts'[a])
    BY <1>1, <1>2, <1>5, <1>6, <2>1, <2>2 DEF IpTypeOK
  <2>4. attempts' \in [Ips -> Seq(Nat)]
    <3>1. <<>> \in Seq(Nat)
      BY EmptySeq
    <3> QED  BY <1>2, <2>1, <3>1 DEF IpTypeOK
  <2>5. TimesOrdered' /\ GrantsRemembered' /\ RateRespected'
    BY <1>1, <2>3, <2>4, WindowKept
  <2>6. IpTypeOK'
    BY <1>1, <1>2, <2>1, <2>4, Limits DEF IpTypeOK
  <2>7. Cardinality(HeldBy(ip) \ {s}) = 0 /\ HeldBy(ip) \ {s} = {}
    <3>1. Cardinality(HeldBy(ip) \ {s}) = 0
      BY <1>7, <1>8, <2>2
    <3>2. IsFiniteSet(HeldBy(ip) \ {s})
      BY <1>7, FS_RemoveElement
    <3> QED  BY <3>1, <3>2, FS_EmptySet
  <2>8. SlotsExact'
    <3>1. \A a \in Ips : active'[a] = Cardinality(HeldBy(a)')
      BY <1>1, <1>2, <1>3, <1>9, <2>1, <2>7 DEF IpTypeOK
    <3>2. \A u \in held' : IpOf[u] \in records'
      BY <1>1, <1>2, <2>1, <2>7 DEF SlotsExact, HeldBy
    <3> QED  BY <3>1, <3>2 DEF SlotsExact, HeldBy
  <2>9. TableBounded' /\ IsFiniteSet(records)'
    <3>1. IsFiniteSet(records) /\ Cardinality(records) <= MaxSessions
      BY DEF IpIndInv, TableBounded
    <3>2. /\ IsFiniteSet(records \ {ip}) /\ Cardinality(records \ {ip}) <= Cardinality(records)
          /\ Cardinality(records) \in Nat /\ Cardinality(records \ {ip}) \in Nat
      BY <3>1, FS_Subset, FS_CardinalityType
    <3> QED  BY <2>1, <3>1, <3>2, Limits DEF TableBounded
  <2>10. ForgottenHaveNone'
    BY <1>1, <1>2, <2>1 DEF IpIndInv, ForgottenHaveNone, IpTypeOK
  <2> QED  BY <2>5, <2>6, <2>8, <2>9, <2>10 DEF IpIndInv
<1> QED  BY <1>10, <1>11

\* As time passes grants and attempts leave the window together.
LEMMA TickKeeps ==
    ASSUME IpIndInv, Tick
    PROVE  IpIndInv'
<1>1. now' = now + 1 /\ UNCHANGED <<records, active, attempts, held, granted, refused>> /\ now \in Nat
      /\ Window \in Nat \ {0}
  BY Limits DEF IpIndInv, IpTypeOK, Tick
<1>2. IpTypeOK
  BY DEF IpIndInv
<1>3. IpTypeOK' /\ SlotsExact' /\ TableBounded' /\ IsFiniteSet(records)' /\ ForgottenHaveNone'
  BY <1>1 DEF IpIndInv, IpTypeOK, SlotsExact, HeldBy, TableBounded, ForgottenHaveNone
<1>4. TimesOrdered'
  <2>1. \A ip \in Ips : \A i \in 1..Len(attempts[ip]) : attempts[ip][i] \in Nat /\ attempts[ip][i] <= now
    BY <1>2, LenProperties DEF IpIndInv, IpTypeOK, TimesOrdered
  <2>2. \A s \in Sessions : granted[s] \in Int /\ granted[s] <= now
    BY <1>2 DEF IpIndInv, IpTypeOK, TimesOrdered
  <2>3. \A ip \in Ips : Ordered(attempts[ip])
    BY DEF IpIndInv, TimesOrdered
  <2> QED  BY <1>1, <2>1, <2>2, <2>3 DEF TimesOrdered, Ordered
<1>5. GrantsRemembered'
  <2> SUFFICES ASSUME NEW ip \in Ips, NEW w \in (now + 1 - Window)..(now + 1)
               PROVE  Cardinality(GrantedSince(ip, w)) = Cardinality(PlacesSince(attempts[ip], w))
    BY <1>1 DEF GrantsRemembered, GrantedSince, PlacesSince
  <2>1. CASE w \in (now - Window)..now
    BY <2>1 DEF IpIndInv, GrantsRemembered
  <2>2. CASE w \notin (now - Window)..now
    <3>1. w = now + 1
      BY <1>1, <2>2
    <3>2. \A i \in 1..Len(attempts[ip]) : attempts[ip][i] \in Nat /\ attempts[ip][i] <= now
      BY <1>2, LenProperties DEF IpIndInv, IpTypeOK, TimesOrdered
    <3>3. \A s \in Sessions : granted[s] \in Int /\ granted[s] <= now
      BY <1>2 DEF IpIndInv, IpTypeOK, TimesOrdered
    <3>4. GrantedSince(ip, w) = {} /\ PlacesSince(attempts[ip], w) = {}
      BY <1>1, <3>1, <3>2, <3>3 DEF GrantedSince, PlacesSince
    <3> QED  BY <3>4
  <2> QED  BY <2>1, <2>2
<1>6. RateRespected'
  <2> SUFFICES ASSUME NEW ip \in Ips
               PROVE  Cardinality(GrantedSince(ip, now + 1 - Window)) <= SessionsPerSecond
    BY <1>1 DEF RateRespected, GrantedSince
  <2>1. GrantedSince(ip, now + 1 - Window) \subseteq GrantedSince(ip, now - Window)
    BY <1>1, <1>2 DEF GrantedSince, IpTypeOK
  <2>2. GrantedSince(ip, now - Window) \subseteq Sessions /\ GrantedSince(ip, now + 1 - Window) \subseteq Sessions
    BY DEF GrantedSince
  <2>3. Cardinality(GrantedSince(ip, now + 1 - Window)) <= Cardinality(GrantedSince(ip, now - Window))
    BY <2>1, <2>2, SessionSetsFinite, FS_Subset
  <2>4. Cardinality(GrantedSince(ip, now - Window)) <= SessionsPerSecond
    BY DEF IpIndInv, RateRespected, GrantedSince
  <2>5. /\ Cardinality(GrantedSince(ip, now + 1 - Window)) \in Nat
        /\ Cardinality(GrantedSince(ip, now - Window)) \in Nat
    BY <2>2, SessionSetsFinite
  <2> QED  BY <2>3, <2>4, <2>5, Limits
<1> QED  BY <1>3, <1>4, <1>5, <1>6 DEF IpIndInv

-----------------------------------------------------------------------------
(* The theorems *)

\* The empty table satisfies the invariant.
LEMMA IpInitInv == IpInit => IpIndInv
<1> SUFFICES ASSUME IpInit PROVE IpIndInv
  OBVIOUS
<1>1. /\ now = 0 /\ records = {} /\ active = [ip \in Ips |-> 0] /\ attempts = [ip \in Ips |-> <<>>]
      /\ held = {} /\ granted = [s \in Sessions |-> Never] /\ refused = {}
  BY DEF IpInit
<1>2. Cardinality({}) = 0 /\ IsFiniteSet({})
  BY FS_EmptySet
<1>3. Never \in Int /\ Never <= 0 /\ \A w \in (0 - Window)..0 : ~(Never > w)
  BY Limits DEF Never
<1>4. <<>> \in Seq(Nat) /\ Len(<<>>) = 0
  BY EmptySeq
<1>5. IpTypeOK
  BY <1>1, <1>3, <1>4, Limits DEF IpTypeOK
<1>6. SlotsExact /\ TableBounded /\ IsFiniteSet(records) /\ ForgottenHaveNone
  <2>1. \A ip \in Ips : HeldBy(ip) = {}
    BY <1>1 DEF HeldBy
  <2>2. \A ip \in Ips : active[ip] = Cardinality(HeldBy(ip))
    <3> TAKE ip \in Ips
    <3>1. active[ip] = 0
      BY <1>1
    <3> QED  BY <1>2, <2>1, <3>1
  <2>3. SlotsExact
    BY <1>1, <2>2 DEF SlotsExact
  <2>4. Cardinality(records) <= MaxSessions
    BY <1>1, <1>2, Limits
  <2> QED  BY <1>1, <1>2, <2>3, <2>4 DEF TableBounded, ForgottenHaveNone
<1>7. \A ip \in Ips : \A w \in (now - Window)..now :
         GrantedSince(ip, w) = {} /\ PlacesSince(attempts[ip], w) = {}
  BY <1>1, <1>3, <1>4 DEF GrantedSince, PlacesSince
<1>8. TimesOrdered
  BY <1>1, <1>3, <1>4 DEF TimesOrdered, Ordered
<1>9. GrantsRemembered
  BY <1>7 DEF GrantsRemembered
<1>10. RateRespected
  <2>1. now - Window \in (now - Window)..now
    BY <1>1, Limits
  <2>2. \A ip \in Ips : Cardinality(GrantedSince(ip, now - Window)) = 0
    BY <1>2, <1>7, <2>1
  <2> QED  BY <2>2, Limits DEF RateRespected, GrantedSince
<1> QED  BY <1>5, <1>6, <1>8, <1>9, <1>10 DEF IpIndInv

\* Every step keeps the invariant.
LEMMA NextKeepsInv == IpIndInv /\ [IpNext]_ipVars => IpIndInv'
<1> SUFFICES ASSUME IpIndInv, [IpNext]_ipVars PROVE IpIndInv'
  OBVIOUS
<1>1. ASSUME NEW s \in Sessions, AcquireIpSlot(s) PROVE IpIndInv'
  <2>1. s \notin held /\ granted[s] = Never /\ UNCHANGED now /\ (Grant(s) \/ Refuse(s))
    BY <1>1 DEF AcquireIpSlot
  <2> QED  BY <2>1, GrantKeeps, RefuseKeeps
<1>2. ASSUME NEW s \in Sessions, ReleaseIpSlot(s) PROVE IpIndInv'
  BY <1>2, ReleaseKeeps
<1>3. CASE Tick
  BY <1>3, TickKeeps
<1>4. CASE UNCHANGED ipVars
  BY <1>4 DEF ipVars, IpIndInv, IpTypeOK, SlotsExact, HeldBy, TableBounded, RateRespected, TimesOrdered, Ordered,
              ForgottenHaveNone, GrantsRemembered, GrantedSince, PlacesSince
<1> QED  BY <1>1, <1>2, <1>3, <1>4 DEF IpNext

\* The invariant that the theorems below rest on.
THEOREM SlotsInvariant == IpSpec => []IpIndInv
<1> QED  BY IpInitInv, NextKeepsInv, PTL DEF IpSpec

\* acquireIpSlot(), its sweep and releaseIpSlot() keep a bounded table that
\* counts exactly the sessions holding a slot, and lose no live record.
THEOREM TableIsExact == IpSpec => []TableExact
<1>1. IpIndInv => TableExact
  BY DEF IpIndInv, TableExact
<1> QED  BY <1>1, SlotsInvariant, PTL

\* sessionsPerSecond holds in every window, although acquireIpSlot() forgets
\* attempts and the sweep and releaseIpSlot() whole records.
THEOREM RateIsRespected == IpSpec => []RateRespected
<1>1. IpIndInv => RateRespected
  BY DEF IpIndInv
<1> QED  BY <1>1, SlotsInvariant, PTL

\* Each time acquireIpSlot() answers false, a limit of the address is reached or
\* every record of a full table is in use; also when the answer leaves the table
\* as it was.
THEOREM RefusalIsJustified == IpSpec => RefusalJustified
<1> DEFINE Why(s) ==
         \/ Cardinality(HeldBy(IpOf[s])) >= IpMaxSessions
         \/ Cardinality({u \in Sessions : IpOf[u] = IpOf[s] /\ granted[u] > now - Window})
                >= SessionsPerSecond
         \/ /\ Cardinality(records) >= MaxSessions
            /\ \A ip \in records : \E u \in Sessions :
                  IpOf[u] = ip /\ (u \in held \/ granted[u] > now - Window)
<1>1. ASSUME IpIndInv, NEW s \in Sessions, Refuse(s)
      PROVE  Why(s)
  <2> DEFINE ip == IpOf[s]
  <2> DEFINE kept == records \ Swept(ip \notin records /\ Full)
  <2>1. ip \in Ips /\ ~SlotAvailable(ip, RecordsFor(ip))
    BY <1>1, IpOfType DEF Refuse
  <2>2. /\ IpTypeOK /\ SlotsExact /\ IsFiniteSet(records) /\ Cardinality(records) <= MaxSessions
        /\ Cardinality(GrantedSince(ip, now - Window)) = Len(Recent(attempts[ip]))
    BY <1>1, <2>1, RecentIsCounted DEF IpIndInv, TableBounded
  <2>3. CASE ~(active[ip] < IpMaxSessions)
    <3>1. active[ip] = Cardinality(HeldBy(ip)) /\ active[ip] \in Nat
      BY <2>1, <2>2 DEF SlotsExact, IpTypeOK
    <3> QED  BY <2>3, <3>1, Limits
  <2>4. CASE ~(Len(Recent(attempts[ip])) < SessionsPerSecond)
    <3>1. Cardinality(GrantedSince(ip, now - Window)) \in Nat
      BY SessionSetsFinite DEF GrantedSince
    <3>2. Cardinality(GrantedSince(ip, now - Window)) >= SessionsPerSecond
      BY <2>2, <2>4, <3>1, Limits
    <3> QED  BY <3>2 DEF GrantedSince
  <2>5. CASE ip \notin RecordsFor(ip)
    <3>1. ip \notin kept /\ ~(Cardinality(kept) < MaxSessions) /\ kept \subseteq records
      BY <2>5 DEF RecordsFor
    <3>2. kept = records /\ Cardinality(records) >= MaxSessions
      <4> HIDE DEF kept
      <4>1. Cardinality(kept) <= Cardinality(records) /\ Cardinality(kept) \in Nat /\ Cardinality(records) \in Nat
        BY <2>2, <3>1, FS_Subset, FS_CardinalityType
      <4>2. Cardinality(records) = Cardinality(kept) /\ Cardinality(records) >= MaxSessions
        BY <2>2, <3>1, <4>1, Limits
      <4> QED  BY <2>2, <3>1, <4>2, FS_Subset
    <3>3. \A a \in records : ~(active[a] = 0 /\ Recent(attempts[a]) = <<>>)
      <4>1. ip \notin records
        BY <3>1, <3>2
      <4>2. Cardinality(records) \in Nat /\ Full
        BY <2>2, <3>2, FS_CardinalityType DEF Full
      <4> QED  BY <3>2, <4>1, <4>2 DEF Swept
    <3>4. ASSUME NEW a \in records
          PROVE  \E u \in Sessions : IpOf[u] = a /\ (u \in held \/ granted[u] > now - Window)
      <4>1. a \in Ips /\ held \subseteq Sessions
        BY <2>2 DEF IpTypeOK
      <4>2. CASE active[a] # 0
        <5>1. Cardinality(HeldBy(a)) # 0
          BY <2>2, <4>1, <4>2 DEF SlotsExact
        <5>2. HeldBy(a) # {}
          BY <5>1, FS_EmptySet
        <5> QED  BY <4>1, <5>2 DEF HeldBy
      <4>3. CASE Recent(attempts[a]) # <<>>
        <5>1. Recent(attempts[a]) \in Seq(Nat)
          BY <1>1, <2>2, <4>1, RecentAreTheRest DEF IpIndInv, IpTypeOK, TimesOrdered
        <5>2. Cardinality(GrantedSince(a, now - Window)) # 0
          BY <1>1, <4>1, <4>3, <5>1, RecentIsCounted, EmptySeq
        <5>3. GrantedSince(a, now - Window) # {}
          BY <5>2, FS_EmptySet
        <5> QED  BY <5>3 DEF GrantedSince
      <4> QED  BY <3>3, <4>2, <4>3
    <3> QED  BY <3>2, <3>4
  <2> QED  BY <2>1, <2>3, <2>4, <2>5 DEF SlotAvailable
\* The sessions refused in a step are refused by acquireIpSlot(), one at a time.
<1>2. ASSUME [IpNext]_ipVars, NEW s \in refused' \ refused
      PROVE  s \in Sessions /\ Refuse(s)
  <2>1. refused' # refused
    BY <1>2
  <2>2. ~Tick /\ \A u \in Sessions : ~ReleaseIpSlot(u) /\ ~Grant(u)
    BY <2>1 DEF Tick, ReleaseIpSlot, Grant
  <2>3. PICK u \in Sessions : AcquireIpSlot(u) /\ Refuse(u)
    BY <1>2, <2>1, <2>2 DEF IpNext, ipVars, AcquireIpSlot
  <2> QED  BY <1>2, <2>3 DEF Refuse
<1>3. IpIndInv /\ [IpNext]_ipVars => [\A s \in refused' \ refused : Why(s)]_ipVars
  <2> HIDE DEF Why
  <2> QED  BY <1>1, <1>2
<1> QED  BY <1>3, SlotsInvariant, PTL DEF IpSpec, RefusalJustified
=============================================================================
