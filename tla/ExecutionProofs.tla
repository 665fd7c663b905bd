--------------------------- MODULE ExecutionProofs -----------------------------
(***************************************************************************)
(* Theorems about the two parts of the runtime's execution directory.      *)
(*                                                                         *)
(* BoundedTaskScheduler, for every set of tasks and waiters and every pair *)
(* of limits: places, order and waiters are exact.                         *)
(*                                                                         *)
(* Dispatch, for any number of events, any registry and any parameters,    *)
(* none included: each handler is reached once, with permission, and never *)
(* after the session's end.                                                *)
(*                                                                         *)
(* An event is the body of a task; what a task does inside is nothing to   *)
(* the scheduler, and the two parts are independent.                       *)
(***************************************************************************)
EXTENDS BoundedTaskScheduler, Dispatch, FiniteSetTheorems, SequenceTheorems, TLAPS

-----------------------------------------------------------------------------
(* The scheduler of a session *)

\* The inductive invariant: the four safety properties hold each other up.
\* PlacesExact needs work conservation (a place is handed over only if the
\* queue was non-empty), and NoStrandedWaiter needs the exact queue.
IndInv ==
    /\ TypeOK
    /\ PlacesExact
    /\ NoIdlePlaceWhileQueued
    /\ SettledExactlyOnce
    /\ NoStrandedWaiter

\* Sets of tasks are finite.
LEMMA FiniteTasks ==
    ASSUME NEW S, S \subseteq Tasks
    PROVE  IsFiniteSet(S) /\ Cardinality(S) \in Nat
BY TasksFinite, FS_Subset, FS_CardinalityType

\* flushWaiters() leaves a waiter only where it must still wait.
LEMMA FlushLeavesNobody ==
    ASSUME TypeOK, FlushWaiters
    PROVE  NoStrandedWaiter' /\ capacityWaiters' \subseteq Waiters /\ idleWaiters' \subseteq Waiters
BY DEF TypeOK, FlushWaiters, NoStrandedWaiter

\* A new scheduler satisfies the invariant.
LEMMA InitInv == Init => IndInv
<1> SUFFICES ASSUME Init PROVE IndInv
  OBVIOUS
<1>1. Active = {} /\ Queued = {}
  BY DEF Init, Active, Queued, Occupying
<1>2. PlacesExact
  BY <1>1, FS_EmptySet, MaxConcurrentPositive, MaxPendingNatural DEF PlacesExact, Init
<1> QED  BY <1>2 DEF Init, IndInv, TypeOK, TaskStates, NoIdlePlaceWhileQueued,
                     SettledExactlyOnce, NoStrandedWaiter

-----------------------------------------------------------------------------
\* submit() fills a place, the queue, or nothing.
LEMMA SubmitInv ==
    ASSUME IndInv, NEW t \in Tasks, Submit(t)
    PROVE  IndInv'
<1> USE DEF IndInv
<1>1. /\ task[t] = "new"
      /\ UNCHANGED <<accepting, capacityWaiters, idleWaiters, settled, abortedWaiters>>
  BY DEF Submit
<1>2. t \notin Active /\ t \notin Queued /\ Active \subseteq Tasks
  BY <1>1 DEF Active, Queued, Occupying
<1>3. CASE SubmitStarts(t)
  <2>1. pending = <<>>
    BY <1>3, MaxConcurrentPositive DEF SubmitStarts, NoIdlePlaceWhileQueued, TypeOK
  <2>2. Active' = Active \cup {t} /\ Queued' = Queued
    BY <1>1, <1>3 DEF SubmitStarts, Active, Queued, Occupying, TypeOK
  <2>3. activeCount' = Cardinality(Active')
    BY <1>2, <1>3, <2>2, FiniteTasks, FS_AddElement DEF SubmitStarts, PlacesExact
  <2>4. TypeOK' /\ SettledExactlyOnce'
    BY <1>1, <1>3 DEF SubmitStarts, TypeOK, TaskStates, SettledExactlyOnce
  <2>5. NoStrandedWaiter'
    BY <1>1, <1>3, MaxConcurrentPositive, MaxPendingNatural
       DEF SubmitStarts, NoStrandedWaiter, HasCapacity, IsIdle, TypeOK
  <2>6. PlacesExact'
    BY <1>3, <2>2, <2>3, MaxConcurrentPositive DEF SubmitStarts, PlacesExact, TypeOK
  <2> QED  BY <1>3, <2>1, <2>4, <2>5, <2>6 DEF SubmitStarts, NoIdlePlaceWhileQueued
<1>4. CASE SubmitQueues(t)
  <2>1. Active' = Active /\ Queued' = Queued \cup {t}
    BY <1>1, <1>4 DEF SubmitQueues, Active, Queued, Occupying, TypeOK
  <2>2. TypeOK' /\ SettledExactlyOnce'
    BY <1>1, <1>4 DEF SubmitQueues, TypeOK, TaskStates, SettledExactlyOnce
  <2>3. /\ Len(pending') = Len(pending) + 1 /\ Len(pending) \in Nat
        /\ pending'[Len(pending) + 1] = t
        /\ \A i \in 1..Len(pending) : pending'[i] = pending[i]
    BY <1>4 DEF SubmitQueues, TypeOK
  <2>4. \A i \in 1..Len(pending) : pending[i] # t
    BY <1>2 DEF PlacesExact
  <2>5. PlacesExact'
    <3>1. \A i, j \in 1..Len(pending') : pending'[i] = pending'[j] => i = j
      BY <2>3, <2>4 DEF PlacesExact
    <3>2. \A u \in Tasks : u \in Queued' <=> \E i \in 1..Len(pending') : pending'[i] = u
      <4>1. \A u \in Tasks : u \in Queued => \E i \in 1..Len(pending') : pending'[i] = u
        BY <2>3 DEF PlacesExact
      <4>2. Len(pending) + 1 \in 1..Len(pending')
        BY <2>3
      <4>3. \A u \in Tasks, i \in 1..Len(pending') : pending'[i] = u => u \in Queued \cup {t}
        BY <2>3 DEF PlacesExact
      <4> QED  BY <2>1, <2>3, <4>1, <4>2, <4>3
    <3>3. Len(pending') <= MaxPending
      BY <1>4, <2>3, MaxPendingNatural DEF SubmitQueues
    <3> QED  BY <1>4, <2>1, <3>1, <3>2, <3>3 DEF SubmitQueues, PlacesExact
  <2>6. activeCount = MaxConcurrent
    BY <1>4, MaxConcurrentPositive DEF SubmitQueues, PlacesExact, TypeOK
  <2>7. NoStrandedWaiter'
    BY <1>1, <1>4, <2>3, <2>6, MaxConcurrentPositive, MaxPendingNatural
       DEF SubmitQueues, NoStrandedWaiter, HasCapacity, IsIdle, TypeOK
  <2> QED  BY <1>4, <2>2, <2>5, <2>6, <2>7 DEF SubmitQueues, NoIdlePlaceWhileQueued
<1>5. CASE SubmitRefuses(t)
  <2>1. Active' = Active /\ Queued' = Queued
    BY <1>1, <1>5 DEF SubmitRefuses, Active, Queued, Occupying, TypeOK
  <2>2. TypeOK' /\ SettledExactlyOnce'
    BY <1>1, <1>5 DEF SubmitRefuses, TypeOK, TaskStates, SettledExactlyOnce
  <2>3. PlacesExact'
    BY <1>5, <2>1 DEF SubmitRefuses, PlacesExact
  <2> QED  BY <1>1, <1>5, <2>2, <2>3
           DEF SubmitRefuses, NoIdlePlaceWhileQueued, NoStrandedWaiter
<1> QED  BY <1>3, <1>4, <1>5 DEF Submit

\* A task that throws is not settled before it finishes.
LEMMA FailInv ==
    ASSUME IndInv, NEW t \in Tasks, Fail(t)
    PROVE  IndInv'
<1> USE DEF IndInv
<1>1. Active' = Active /\ Queued' = Queued
  BY DEF Fail, Active, Queued, Occupying, TypeOK
<1>2. TypeOK' /\ SettledExactlyOnce'
  BY DEF Fail, TypeOK, TaskStates, SettledExactlyOnce
<1>3. PlacesExact'
  BY <1>1 DEF Fail, PlacesExact
<1> QED  BY <1>2, <1>3 DEF Fail, NoIdlePlaceWhileQueued, NoStrandedWaiter

\* A finished task hands its place to the oldest in the queue, or wakes those who wait for it.
LEMMA FinishInv ==
    ASSUME IndInv, NEW t \in Tasks, Finish(t)
    PROVE  IndInv'
<1> USE DEF IndInv
<1>1. /\ task[t] \in Occupying /\ settled' = [settled EXCEPT ![t] = @ + 1]
      /\ UNCHANGED <<accepting, abortedWaiters>> /\ FlushWaiters
  BY DEF Finish
<1>2. t \in Active /\ t \notin Queued /\ settled[t] = 0
  BY <1>1 DEF Active, Queued, Occupying, SettledExactlyOnce
<1>3. NoStrandedWaiter' /\ capacityWaiters' \subseteq Waiters /\ idleWaiters' \subseteq Waiters
  BY <1>1, FlushLeavesNobody
<1>4. Cardinality(Active \ {t}) = activeCount - 1 /\ activeCount - 1 \in Nat /\ IsFiniteSet(Active \ {t})
  <2>1. IsFiniteSet(Active) /\ IsFiniteSet(Active \ {t}) /\ Cardinality(Active \ {t}) \in Nat
    BY FiniteTasks DEF Active
  <2>2. Cardinality(Active \ {t}) = Cardinality(Active) - 1
    BY <1>2, <2>1, FS_RemoveElement
  <2> QED  BY <2>1, <2>2 DEF PlacesExact
<1>5. CASE NothingToStart(t)
  <2>1. Active' = Active \ {t} /\ Queued' = Queued
    BY <1>2, <1>5 DEF NothingToStart, Active, Queued, Occupying, TypeOK
  <2>2. TypeOK' /\ SettledExactlyOnce'
    BY <1>1, <1>2, <1>3, <1>4, <1>5 DEF NothingToStart, TypeOK, TaskStates, SettledExactlyOnce
  <2>3. PlacesExact'
    BY <1>4, <1>5, <2>1, MaxConcurrentPositive DEF NothingToStart, PlacesExact, TypeOK
  <2> QED  BY <1>3, <1>5, <2>2, <2>3 DEF NothingToStart, NoIdlePlaceWhileQueued
<1>6. CASE StartNext(t)
  <2> DEFINE h == pending[1]
  <2>1. /\ pending \in Seq(Tasks) /\ pending # <<>> /\ Len(pending) \in Nat /\ Len(pending) >= 1
        /\ Head(pending) = h /\ h \in Tasks
    BY <1>6 DEF StartNext, TypeOK
  <2>2. /\ task' = [task EXCEPT ![t] = "done", ![h] = "running"]
        /\ pending' = Tail(pending) /\ activeCount' = activeCount
    BY <1>6, <2>1 DEF StartNext
  <2>3. /\ Len(pending') = Len(pending) - 1 /\ pending' \in Seq(Tasks)
        /\ \A i \in 1..Len(pending') : pending'[i] = pending[i + 1]
    BY <2>1, <2>2
  <2>4. h \in Queued /\ h # t /\ h \notin Active
    BY <1>2, <2>1 DEF PlacesExact, Queued, Active, Occupying
  <2>5. Active' = (Active \ {t}) \cup {h} /\ Queued' = Queued \ {h}
    BY <1>2, <2>1, <2>2, <2>4 DEF Active, Queued, Occupying, TypeOK
  <2>6. activeCount' = Cardinality(Active')
    <3>1. Cardinality((Active \ {t}) \cup {h}) = Cardinality(Active \ {t}) + 1
      BY <1>4, <2>4, FS_AddElement
    <3> QED  BY <1>4, <2>2, <2>5, <3>1 DEF TypeOK
  <2>7. TypeOK' /\ SettledExactlyOnce'
    <3>0. task' \in [Tasks -> TaskStates] /\ settled' \in [Tasks -> Nat]
      <4>1. settled' \in [Tasks -> Nat]
        BY <1>1 DEF TypeOK
      <4>2. [task EXCEPT ![t] = "done"] \in [Tasks -> TaskStates]
        BY DEF TypeOK, TaskStates
      <4> QED  BY <2>1, <2>2, <4>1, <4>2 DEF TaskStates
    <3>1. TypeOK'
      BY <1>1, <1>3, <2>2, <2>3, <3>0 DEF TypeOK
    <3>2. settled[h] = 0 /\ settled'[h] = 0 /\ task'[h] = "running"
      BY <1>1, <2>1, <2>2, <2>4 DEF TypeOK, SettledExactlyOnce, Queued
    <3>3. settled'[t] = 1 /\ task'[t] = "done"
      BY <1>1, <1>2, <2>2, <2>4 DEF TypeOK
    <3>4. \A u \in Tasks \ {t, h} : settled'[u] = settled[u] /\ task'[u] = task[u]
      BY <1>1, <2>2 DEF TypeOK
    <3> QED  BY <3>1, <3>2, <3>3, <3>4 DEF SettledExactlyOnce
  <2>8. PlacesExact'
    <3>1. \A i, j \in 1..Len(pending') : pending'[i] = pending'[j] => i = j
      BY <2>1, <2>3 DEF PlacesExact
    <3>2. \A i \in 1..Len(pending') : pending'[i] \in Queued \ {h}
      BY <2>1, <2>3 DEF PlacesExact
    <3>3. \A u \in Queued \ {h} : \E i \in 1..Len(pending') : pending'[i] = u
      <4> SUFFICES ASSUME NEW u \in Queued \ {h}
                   PROVE  \E i \in 1..Len(pending') : pending'[i] = u
        OBVIOUS
      <4>1. PICK k \in 1..Len(pending) : pending[k] = u
        BY DEF PlacesExact, Queued
      <4>2. k # 1
        BY <4>1
      <4>3. k - 1 \in 1..Len(pending') /\ pending'[k - 1] = u
        BY <2>1, <2>3, <4>1, <4>2
      <4> QED  BY <4>3
    <3>4. \A u \in Tasks : u \in Queued' <=> \E i \in 1..Len(pending') : pending'[i] = u
      BY <2>5, <3>2, <3>3
    <3>5. Len(pending') <= MaxPending /\ activeCount' <= MaxConcurrent
      BY <2>1, <2>2, <2>3, MaxPendingNatural DEF PlacesExact
    <3> QED  BY <2>6, <3>1, <3>4, <3>5 DEF PlacesExact
  <2> QED  BY <1>3, <2>1, <2>2, <2>7, <2>8 DEF NoIdlePlaceWhileQueued
<1> QED  BY <1>5, <1>6 DEF Finish

\* close() settles the queue and leaves what runs.
LEMMA CloseInv ==
    ASSUME IndInv, NEW discardPending \in BOOLEAN, Close(discardPending)
    PROVE  IndInv'
<1> USE DEF IndInv
<1>1. accepting' = FALSE /\ UNCHANGED <<activeCount, abortedWaiters>> /\ FlushWaiters
  BY DEF Close
<1>2. NoStrandedWaiter' /\ capacityWaiters' \subseteq Waiters /\ idleWaiters' \subseteq Waiters
  BY <1>1, FlushLeavesNobody
<1>3. CASE discardPending
  <2>0. Discard(pending)
    BY <1>3 DEF Close
  <2>1. \A u \in Tasks : (\E i \in 1..Len(pending) : pending[i] = u) <=> task[u] = "queued"
    BY DEF PlacesExact, Queued
  <2>2. /\ pending' = <<>>
        /\ task' = [u \in Tasks |-> IF task[u] = "queued" THEN "discarded" ELSE task[u]]
        /\ settled' = [u \in Tasks |-> IF task[u] = "queued" THEN settled[u] + 1 ELSE settled[u]]
    BY <2>0, <2>1 DEF Discard
  <2>3. Active' = Active /\ Queued' = {}
    BY <2>2 DEF Active, Queued, Occupying
  <2>4. TypeOK' /\ SettledExactlyOnce'
    <3>1. pending' \in Seq(Tasks)
      BY <2>2
    <3>2. task' \in [Tasks -> TaskStates] /\ settled' \in [Tasks -> Nat]
      BY <2>2 DEF TypeOK, TaskStates
    <3>3. TypeOK'
      BY <1>1, <1>2, <3>1, <3>2 DEF TypeOK
    <3> QED  BY <2>2, <3>3 DEF TypeOK, SettledExactlyOnce
  <2>5. PlacesExact'
    BY <1>1, <2>2, <2>3, MaxPendingNatural DEF PlacesExact
  <2> QED  BY <1>2, <2>2, <2>4, <2>5 DEF NoIdlePlaceWhileQueued
<1>4. CASE ~discardPending
  <2>1. UNCHANGED <<pending, task, settled>>
    BY <1>4 DEF Close
  <2>2. TypeOK' /\ SettledExactlyOnce' /\ PlacesExact' /\ NoIdlePlaceWhileQueued'
    BY <1>1, <1>2, <2>1
       DEF TypeOK, SettledExactlyOnce, PlacesExact, Active, Queued, NoIdlePlaceWhileQueued
  <2> QED  BY <1>2, <2>2
<1> QED  BY <1>3, <1>4

\* A wait ends at once if there is nothing to wait for.
LEMMA WaiterInv ==
    ASSUME IndInv, NEW w \in Waiters,
           WaitForCapacity(w) \/ WaitForIdle(w) \/ AbortWaiter(w)
    PROVE  IndInv'
<1> USE DEF IndInv
<1>1. UNCHANGED <<activeCount, pending, accepting, task, settled>>
  BY DEF WaitForCapacity, WaitForIdle, AbortWaiter
<1>2. PlacesExact' /\ SettledExactlyOnce' /\ NoIdlePlaceWhileQueued'
  BY <1>1 DEF PlacesExact, Active, Queued, SettledExactlyOnce, NoIdlePlaceWhileQueued
<1>3. TypeOK'
  BY <1>1 DEF TypeOK, WaitForCapacity, WaitForIdle, AbortWaiter
<1>4. NoStrandedWaiter'
  BY <1>1 DEF NoStrandedWaiter, HasCapacity, IsIdle, WaitForCapacity, WaitForIdle, AbortWaiter
<1> QED  BY <1>2, <1>3, <1>4

\* Steps of others change nothing.
LEMMA StutterInv ==
    ASSUME IndInv, UNCHANGED vars
    PROVE  IndInv'
BY DEF IndInv, vars, TypeOK, PlacesExact, Active, Queued, NoIdlePlaceWhileQueued,
       SettledExactlyOnce, NoStrandedWaiter, HasCapacity, IsIdle

-----------------------------------------------------------------------------
\* The inductive invariant holds in every behaviour of the scheduler.
THEOREM Invariance == Spec => []IndInv
<1>1. IndInv /\ [Next]_vars => IndInv'
  BY SubmitInv, FailInv, FinishInv, CloseInv, WaiterInv, StutterInv DEF Next
<1> QED  BY <1>1, InitInv, PTL DEF Spec

\* onSettled runs exactly once for every accepted task, for every limit.
THEOREM SchedulerSettlesOnce == Spec => []SettledExactlyOnce
<1>1. IndInv => SettledExactlyOnce
  BY DEF IndInv
<1> QED  BY <1>1, Invariance, PTL

\* No pump and no retirement waits for a condition that already holds.
THEOREM SchedulerStrandsNobody == Spec => []NoStrandedWaiter
<1>1. IndInv => NoStrandedWaiter
  BY DEF IndInv
<1> QED  BY <1>1, Invariance, PTL

\* The limits hold and the bookkeeping is exact; no place is idle while a task
\* is queued.
THEOREM SchedulerPlaces == Spec => []SchedulerExact
<1>1. IndInv => SchedulerExact
  BY DEF IndInv, SchedulerExact
<1> QED  BY <1>1, Invariance, PTL

\* Tasks start in submission order, and a settled task never starts again.
THEOREM SchedulerOrder == Spec => StartsInOrder
<1> DEFINE TaskStep ==
      \A t \in Tasks : (task[t] # "running" /\ task'[t] = "running") =>
          \/ task[t] = "new" /\ pending = <<>>
          \/ task[t] = "queued" /\ \E k \in 1..Len(pending) : pending[k] = t /\
                \A j \in 1..(k - 1) : task'[pending[j]] # "queued"
<1>1. ASSUME IndInv, Next PROVE TaskStep
  <2> SUFFICES ASSUME NEW t \in Tasks, task[t] # "running", task'[t] = "running"
               PROVE  \/ task[t] = "new" /\ pending = <<>>
                      \/ task[t] = "queued" /\ \E k \in 1..Len(pending) : pending[k] = t /\
                            \A j \in 1..(k - 1) : task'[pending[j]] # "queued"
    OBVIOUS
  <2> USE <1>1 DEF IndInv
  <2>1. ASSUME NEW u \in Tasks, Submit(u) PROVE task[t] = "new" /\ pending = <<>>
    <3>1. SubmitStarts(u) /\ task[u] = "new" /\ u = t
      BY <2>1 DEF Submit, SubmitStarts, SubmitQueues, SubmitRefuses, TypeOK
    <3> QED  BY <3>1, MaxConcurrentPositive DEF SubmitStarts, NoIdlePlaceWhileQueued, TypeOK
  <2>2. ASSUME NEW u \in Tasks, Fail(u) PROVE FALSE
    BY <2>2 DEF Fail, TypeOK
  <2>3. ASSUME NEW u \in Tasks, Finish(u)
        PROVE  task[t] = "queued" /\ 1 \in 1..Len(pending) /\ pending[1] = t
    <3>1. StartNext(u)
      BY <2>3 DEF Finish, NothingToStart, TypeOK
    <3>2. pending \in Seq(Tasks) /\ pending # <<>> /\ Head(pending) = pending[1] /\ pending[1] \in Tasks
      BY <3>1 DEF StartNext, TypeOK
    <3>3. pending[1] = t /\ 1 \in 1..Len(pending)
      BY <3>1, <3>2 DEF StartNext, TypeOK
    <3> QED  BY <3>3 DEF PlacesExact, Queued
  <2>4. ASSUME NEW b \in BOOLEAN, Close(b) PROVE FALSE
    BY <2>4 DEF Close, Discard
  <2>5. ASSUME NEW w \in Waiters, WaitForCapacity(w) \/ WaitForIdle(w) \/ AbortWaiter(w) PROVE FALSE
    BY <2>5 DEF WaitForCapacity, WaitForIdle, AbortWaiter
  <2>6. \A j \in 1..(1 - 1) : task'[pending[j]] # "queued"
    OBVIOUS
  <2> QED  BY <1>1, <2>1, <2>2, <2>3, <2>4, <2>5, <2>6 DEF Next
<1>2. IndInv /\ [Next]_vars => [TaskStep]_vars
  BY <1>1
<1> QED  BY <1>2, Invariance, PTL DEF Spec, StartsInOrder

-----------------------------------------------------------------------------
(* The dispatch of events *)

Phases == {"routing", "gateway", "enhancers", "guard", "interceptors",
           "interceptor", "pipes", "handler", "filters", "filter", "over"}

\* What holds of an event in the phase ph whose handlers left are r, which waits
\* for the parameters ps, was allowed al and has called c: nothing that is left
\* was called, and what passed the guard is allowed.
Sound(ph, r, ps, al, c, h, ab) ==
    /\ IsInjective(r) /\ IsInjective(c) /\ Range(c) \subseteq al
    /\ ph \notin {"routing", "over"} => r # <<>>
    /\ ph # "pipes" => ps = {}
    /\ ph = "routing" => r = <<>> /\ c = <<>>
    /\ ph \in {"handler", "filters", "filter"} => Range(c) \cap Range(Tail(r)) = {}
    /\ ph \notin {"handler", "filters", "filter", "over"} => Range(c) \cap Range(r) = {}
    /\ ph \in {"interceptors", "interceptor", "pipes"} => Head(r) \in al
    /\ ph = "over" => ab \/ h \/ Len(r) <= 1

SoundAt(e) == Sound(phase[e], rest[e], parsing[e], allowed[e], called[e], halted[e], aborted)

EventTypes ==
    /\ phase \in [Events -> Phases] /\ rest \in [Events -> Seq(Handlers)]
    /\ parsing \in [Events -> SUBSET Parameters] /\ allowed \in [Events -> SUBSET Handlers]
    /\ called \in [Events -> Seq(Handlers)] /\ halted \in [Events -> BOOLEAN]
    /\ aborted \in BOOLEAN

DispatchInv == EventTypes /\ \A e \in Events : SoundAt(e)

\* The rest of a sequence without repetition.
LEMMA TailKeepsDistinct ==
    ASSUME NEW S, NEW s \in Seq(S), s # <<>>, IsInjective(s)
    PROVE  /\ Tail(s) \in Seq(S) /\ IsInjective(Tail(s)) /\ Len(Tail(s)) = Len(s) - 1
           /\ Range(Tail(s)) \subseteq Range(s) /\ Head(s) \in Range(s) /\ Head(s) \in S
           /\ Head(s) \notin Range(Tail(s))
<1>1. Len(s) \in Nat \ {0} /\ DOMAIN s = 1..Len(s) /\ Head(s) = s[1] /\ s[1] \in S
  OBVIOUS
<1>2. /\ Tail(s) \in Seq(S) /\ Len(Tail(s)) = Len(s) - 1 /\ DOMAIN Tail(s) = 1..(Len(s) - 1)
      /\ \A i \in 1..(Len(s) - 1) : Tail(s)[i] = s[i + 1]
  OBVIOUS
<1>3. IsInjective(Tail(s))
  <2> SUFFICES ASSUME NEW i \in 1..(Len(s) - 1), NEW j \in 1..(Len(s) - 1), Tail(s)[i] = Tail(s)[j]
               PROVE  i = j
    BY <1>2 DEF IsInjective
  <2>1. s[i + 1] = s[j + 1] /\ i + 1 \in DOMAIN s /\ j + 1 \in DOMAIN s
    BY <1>1, <1>2
  <2> QED
    BY <2>1 DEF IsInjective
<1>4. \A i \in 1..(Len(s) - 1) : Tail(s)[i] \in Range(s) /\ Tail(s)[i] # s[1]
  <2> SUFFICES ASSUME NEW i \in 1..(Len(s) - 1) PROVE Tail(s)[i] \in Range(s) /\ Tail(s)[i] # s[1]
    OBVIOUS
  <2>1. i + 1 \in DOMAIN s /\ 1 \in DOMAIN s /\ i + 1 # 1 /\ Tail(s)[i] = s[i + 1]
    BY <1>1, <1>2
  <2> QED
    BY <2>1 DEF IsInjective, Range
<1> QED
  BY <1>1, <1>2, <1>3, <1>4 DEF Range

\* Appending what is not there keeps a sequence without repetition.
LEMMA AppendNew ==
    ASSUME NEW S, NEW s \in Seq(S), IsInjective(s), NEW x \in S, x \notin Range(s)
    PROVE  /\ Append(s, x) \in Seq(S) /\ IsInjective(Append(s, x))
           /\ Range(Append(s, x)) = Range(s) \cup {x}
<1> DEFINE a == Append(s, x)
<1>1. /\ a \in Seq(S) /\ Len(s) \in Nat /\ DOMAIN s = 1..Len(s) /\ DOMAIN a = 1..(Len(s) + 1)
      /\ \A i \in 1..Len(s) : a[i] = s[i]
      /\ a[Len(s) + 1] = x
  OBVIOUS
<1> HIDE DEF a
<1>2. \A i \in 1..Len(s) : a[i] # x
  BY <1>1 DEF Range
<1>3. IsInjective(a)
  <2> SUFFICES ASSUME NEW i \in 1..(Len(s) + 1), NEW j \in 1..(Len(s) + 1), a[i] = a[j] PROVE i = j
    BY <1>1 DEF IsInjective
  <2>1. CASE i \in 1..Len(s) /\ j \in 1..Len(s)
    BY <1>1, <2>1 DEF IsInjective
  <2>2. CASE ~(i \in 1..Len(s) /\ j \in 1..Len(s))
    BY <1>1, <1>2, <2>2
  <2> QED
    BY <2>1, <2>2
<1>4. Range(a) = Range(s) \cup {x}
  <2>1. \A i \in DOMAIN a : a[i] \in Range(s) \cup {x}
    BY <1>1 DEF Range
  <2>2. \A i \in DOMAIN s : i \in DOMAIN a /\ a[i] = s[i]
    BY <1>1
  <2>3. Len(s) + 1 \in DOMAIN a
    BY <1>1
  <2> QED
    BY <1>1, <2>1, <2>2, <2>3 DEF Range
<1> QED
  BY <1>1, <1>3, <1>4 DEF a

\* find() names registered handlers, each once.
LEMMA FoundFacts ==
    ASSUME NEW route
    PROVE  Found(route) \in Seq(Handlers) /\ IsInjective(Found(route))
<1> DEFINE all == Named \o Fallback
<1>1. /\ Named \in Seq(Range(Named)) /\ Fallback \in Seq(Range(Fallback))
  BY Registered
<1>2. /\ Len(Named) \in Nat /\ Len(Fallback) \in Nat /\ DOMAIN all = 1..(Len(Named) + Len(Fallback))
      /\ DOMAIN Fallback = 1..Len(Fallback) /\ DOMAIN Named = 1..Len(Named)
      /\ \A i \in 1..Len(Fallback) : all[Len(Named) + i] = Fallback[i]
      /\ \A i \in 1..Len(Named) : all[i] = Named[i]
  BY <1>1
<1>3. IsInjective(all)
  BY EachOnce
<1>4. IsInjective(Fallback)
  <2> SUFFICES ASSUME NEW i \in 1..Len(Fallback), NEW j \in 1..Len(Fallback), Fallback[i] = Fallback[j]
               PROVE  i = j
    BY <1>2 DEF IsInjective
  <2>1. Len(Named) + i \in DOMAIN all /\ Len(Named) + j \in DOMAIN all
    BY <1>2
  <2>2. Len(Named) + i = Len(Named) + j
    BY <1>2, <1>3, <2>1 DEF IsInjective
  <2> QED
    BY <1>2, <2>2
<1>5. \A i \in 1..Len(Fallback) : Fallback[i] \in Range(all)
  <2> SUFFICES ASSUME NEW i \in 1..Len(Fallback) PROVE Fallback[i] \in Range(all)
    OBVIOUS
  <2>1. Len(Named) + i \in DOMAIN all /\ Fallback[i] = all[Len(Named) + i]
    BY <1>2
  <2> QED
    BY <2>1 DEF Range
<1>6. \A i \in 1..Len(Named) : Named[i] \in Range(all)
  <2> SUFFICES ASSUME NEW i \in 1..Len(Named) PROVE Named[i] \in Range(all)
    OBVIOUS
  <2>1. i \in DOMAIN all /\ Named[i] = all[i]
    BY <1>2
  <2> QED
    BY <2>1 DEF Range
<1>7. Fallback \in Seq(Range(all)) /\ Named \in Seq(Range(all))
  BY <1>1, <1>2, <1>5, <1>6
<1>8. all \in Seq(Range(all)) /\ <<>> \o Fallback = Fallback
  BY <1>7
<1> QED
  BY <1>3, <1>4, <1>7, <1>8 DEF Found, Handlers

\* What a step makes of one event leaves the others as they are: they stay sound
\* even if the session ends.
LEMMA OneEvent ==
    ASSUME DispatchInv, NEW e \in Events,
           NEW ph \in Phases, NEW r \in Seq(Handlers), NEW ps \in SUBSET Parameters,
           NEW al \in SUBSET Handlers, NEW c \in Seq(Handlers), NEW h \in BOOLEAN,
           phase' = [phase EXCEPT ![e] = ph], rest' = [rest EXCEPT ![e] = r],
           parsing' = [parsing EXCEPT ![e] = ps], allowed' = [allowed EXCEPT ![e] = al],
           called' = [called EXCEPT ![e] = c], halted' = [halted EXCEPT ![e] = h],
           aborted' \in BOOLEAN, aborted => aborted',
           Sound(ph, r, ps, al, c, h, aborted')
    PROVE  DispatchInv'
<1>1. EventTypes'
  BY DEF DispatchInv, EventTypes
<1>2. ASSUME NEW d \in Events PROVE SoundAt(d)'
  <2>1. CASE d = e
    <3>1. /\ phase'[e] = ph /\ rest'[e] = r /\ parsing'[e] = ps /\ allowed'[e] = al
          /\ called'[e] = c /\ halted'[e] = h
      BY DEF DispatchInv, EventTypes
    <3> QED
      BY <2>1, <3>1 DEF SoundAt
  <2>2. CASE d # e
    <3>1. /\ phase'[d] = phase[d] /\ rest'[d] = rest[d] /\ parsing'[d] = parsing[d]
          /\ allowed'[d] = allowed[d] /\ called'[d] = called[d] /\ halted'[d] = halted[d]
      BY <2>2 DEF DispatchInv, EventTypes
    <3>2. SoundAt(d)
      BY DEF DispatchInv
    <3> QED
      BY <3>1, <3>2 DEF SoundAt, Sound
  <2> QED
    BY <2>1, <2>2
<1>3. \A d \in Events : SoundAt(d)'
  BY <1>2
<1> QED
  BY <1>1, <1>3 DEF DispatchInv, SoundAt

\* A step that only takes one event to another place, and perhaps to the next
\* of its handlers.
LEMMA EventMoves ==
    ASSUME DispatchInv, NEW e \in Events,
           NEW ph \in Phases, NEW r \in Seq(Handlers), NEW ps \in SUBSET Parameters,
           phase' = [phase EXCEPT ![e] = ph], rest' = [rest EXCEPT ![e] = r],
           parsing' = [parsing EXCEPT ![e] = ps],
           UNCHANGED <<aborted, allowed, called, halted>>,
           Sound(ph, r, ps, allowed[e], called[e], halted[e], aborted)
    PROVE  DispatchInv'
<1>1. /\ allowed' = [allowed EXCEPT ![e] = allowed[e]] /\ called' = [called EXCEPT ![e] = called[e]]
      /\ halted' = [halted EXCEPT ![e] = halted[e]]
      /\ allowed[e] \in SUBSET Handlers /\ called[e] \in Seq(Handlers) /\ halted[e] \in BOOLEAN
      /\ aborted' \in BOOLEAN
  BY DEF DispatchInv, EventTypes
<1> DEFINE al == allowed[e]  c == called[e]  h == halted[e]
<1>2. Sound(ph, r, ps, al, c, h, aborted') /\ (aborted => aborted')
  OBVIOUS
<1>3. /\ allowed' = [allowed EXCEPT ![e] = al] /\ called' = [called EXCEPT ![e] = c]
      /\ halted' = [halted EXCEPT ![e] = h]
      /\ al \in SUBSET Handlers /\ c \in Seq(Handlers) /\ h \in BOOLEAN /\ aborted' \in BOOLEAN
  BY <1>1
<1>4. /\ phase' = [phase EXCEPT ![e] = ph] /\ rest' = [rest EXCEPT ![e] = r]
      /\ parsing' = [parsing EXCEPT ![e] = ps]
      /\ ph \in Phases /\ r \in Seq(Handlers) /\ ps \in SUBSET Parameters
  OBVIOUS
<1> HIDE DEF al, c, h
<1> QED
  BY ONLY DispatchInv, e \in Events, <1>2, <1>3, <1>4, OneEvent

\* The state of an event, without repeating what it means.
LEMMA HereSound ==
    ASSUME DispatchInv, NEW e \in Events
    PROVE  /\ phase[e] \in Phases /\ rest[e] \in Seq(Handlers) /\ parsing[e] \in SUBSET Parameters
           /\ allowed[e] \in SUBSET Handlers /\ called[e] \in Seq(Handlers) /\ halted[e] \in BOOLEAN
           /\ Sound(phase[e], rest[e], parsing[e], allowed[e], called[e], halted[e], aborted)
           /\ phase = [phase EXCEPT ![e] = phase[e]] /\ rest = [rest EXCEPT ![e] = rest[e]]
           /\ parsing = [parsing EXCEPT ![e] = parsing[e]]
           /\ allowed = [allowed EXCEPT ![e] = allowed[e]]
           /\ called = [called EXCEPT ![e] = called[e]]
           /\ halted = [halted EXCEPT ![e] = halted[e]]
BY DEF DispatchInv, EventTypes, SoundAt

\* An event is over because the session is.
LEMMA OverAborted ==
    ASSUME DispatchInv, NEW e \in Events, Over(e), aborted, parsing' = [parsing EXCEPT ![e] = {}],
           UNCHANGED <<aborted, allowed, called, halted>>
    PROVE  DispatchInv'
<1>1. phase' = [phase EXCEPT ![e] = "over"] /\ rest' = [rest EXCEPT ![e] = rest[e]]
  BY HereSound DEF Over, Becomes
<1>2. Sound("over", rest[e], {}, allowed[e], called[e], halted[e], aborted)
  BY HereSound DEF Sound
<1>3. "over" \in Phases /\ rest[e] \in Seq(Handlers) /\ {} \in SUBSET Parameters
  BY HereSound DEF Phases
<1> QED
  BY <1>1, <1>2, <1>3, EventMoves

\* Outside of the pipes no parameter is waited for.
LEMMA NoneParsing ==
    ASSUME DispatchInv, NEW e \in Events, phase[e] # "pipes", UNCHANGED parsing
    PROVE  parsing' = [parsing EXCEPT ![e] = {}]
BY HereSound DEF Sound

\* After a wait the invocation goes on in the phase next, or is over.
LEMMA PassesKeeps ==
    ASSUME DispatchInv, NEW e \in Events, NEW next \in Phases, Passes(e, next),
           phase[e] # "pipes",
           UNCHANGED <<aborted, parsing, allowed, called, halted>>,
           Sound(next, rest[e], {}, allowed[e], called[e], halted[e], aborted)
    PROVE  DispatchInv'
<1>1. parsing' = [parsing EXCEPT ![e] = {}]
  BY NoneParsing
<1>2. CASE aborted
  BY <1>1, <1>2, OverAborted DEF Passes
<1>3. CASE ~aborted
  <2>1. phase' = [phase EXCEPT ![e] = next] /\ rest' = [rest EXCEPT ![e] = rest[e]]
    BY <1>3, HereSound DEF Passes, Becomes
  <2>2. rest[e] \in Seq(Handlers) /\ {} \in SUBSET Parameters
    BY HereSound
  <2> QED
    BY <1>1, <2>1, <2>2, EventMoves
<1> QED
  BY <1>2, <1>3

\* An error goes to the filters, or is over.
LEMMA ThrownKeeps ==
    ASSUME DispatchInv, NEW e \in Events, Thrown(e), phase[e] \notin {"routing", "over"},
           parsing' = [parsing EXCEPT ![e] = {}],
           UNCHANGED <<aborted, allowed, called, halted>>
    PROVE  DispatchInv'
<1>1. CASE aborted
  BY <1>1, OverAborted DEF Thrown
<1>2. CASE ~aborted
  <2>1. phase' = [phase EXCEPT ![e] = "filters"] /\ rest' = [rest EXCEPT ![e] = rest[e]]
    BY <1>2, HereSound DEF Thrown, Becomes
  <2>2. rest[e] \in Seq(Handlers) /\ {} \in SUBSET Parameters /\ "filters" \in Phases /\ rest[e] # <<>>
        /\ IsInjective(rest[e]) /\ IsInjective(called[e]) /\ Range(called[e]) \subseteq allowed[e]
    BY HereSound DEF Phases, Sound
  <2>3. Range(called[e]) \cap Range(Tail(rest[e])) = {}
    <3>1. CASE phase[e] \in {"handler", "filters", "filter"}
      BY <3>1, HereSound DEF Sound
    <3>2. CASE phase[e] \notin {"handler", "filters", "filter"}
      <4>1. Range(called[e]) \cap Range(rest[e]) = {}
        BY <3>2, HereSound DEF Sound
      <4>2. Range(Tail(rest[e])) \subseteq Range(rest[e])
        BY <2>2, TailKeepsDistinct
      <4> QED
        BY <4>1, <4>2
    <3> QED
      BY <3>1, <3>2
  <2>4. Sound("filters", rest[e], {}, allowed[e], called[e], halted[e], aborted)
    BY <2>2, <2>3 DEF Sound
  <2> QED
    BY <2>1, <2>2, <2>4, EventMoves
<1> QED
  BY <1>1, <1>2

\* The loop goes on with handlers none of which was called.
LEMMA LoopKeeps ==
    ASSUME DispatchInv, NEW e \in Events, phase[e] # "pipes", UNCHANGED parsing,
           NEW handlers \in Seq(Handlers), IsInjective(handlers), Loop(e, handlers),
           Range(called[e]) \cap Range(handlers) = {},
           handlers = <<>> => Len(rest[e]) <= 1,
           UNCHANGED <<aborted, allowed, called, halted>>
    PROVE  DispatchInv'
<1>1. parsing' = [parsing EXCEPT ![e] = {}]
  BY NoneParsing
<1>2. CASE aborted
  BY <1>1, <1>2, OverAborted DEF Loop
<1>3. CASE ~aborted /\ handlers = <<>>
  <2>1. phase' = [phase EXCEPT ![e] = "over"] /\ rest' = [rest EXCEPT ![e] = rest[e]]
    BY <1>3, HereSound DEF Loop, Over, Becomes
  <2>2. Sound("over", rest[e], {}, allowed[e], called[e], halted[e], aborted)
    BY <1>3, HereSound DEF Sound
  <2>3. "over" \in Phases /\ rest[e] \in Seq(Handlers) /\ {} \in SUBSET Parameters
    BY HereSound DEF Phases
  <2> QED
    BY <1>1, <2>1, <2>2, <2>3, EventMoves
<1>4. CASE ~aborted /\ handlers # <<>>
  <2>1. phase' = [phase EXCEPT ![e] = "gateway"] /\ rest' = [rest EXCEPT ![e] = handlers]
    BY <1>4 DEF Loop, Becomes
  <2>2. Sound("gateway", handlers, {}, allowed[e], called[e], halted[e], aborted)
    BY <1>4, HereSound DEF Sound
  <2>3. "gateway" \in Phases /\ {} \in SUBSET Parameters
    BY DEF Phases
  <2> QED
    BY <1>1, <2>1, <2>2, <2>3, EventMoves
<1> QED
  BY <1>2, <1>3, <1>4

\* What is left after the handler under way is there once, and was not called.
LEMMA NextHandlers ==
    ASSUME DispatchInv, NEW e \in Events, phase[e] \notin {"routing", "over"}
    PROVE  /\ Tail(rest[e]) \in Seq(Handlers) /\ IsInjective(Tail(rest[e]))
           /\ Range(called[e]) \cap Range(Tail(rest[e])) = {}
           /\ Tail(rest[e]) = <<>> => Len(rest[e]) <= 1
<1>1. rest[e] \in Seq(Handlers) /\ rest[e] # <<>> /\ IsInjective(rest[e])
  BY HereSound DEF Sound
<1>2. /\ Tail(rest[e]) \in Seq(Handlers) /\ IsInjective(Tail(rest[e])) /\ Len(Tail(rest[e])) = Len(rest[e]) - 1
      /\ Range(Tail(rest[e])) \subseteq Range(rest[e])
  BY <1>1, TailKeepsDistinct
<1>3. ASSUME phase[e] \in {"handler", "filters", "filter"} PROVE Range(called[e]) \cap Range(Tail(rest[e])) = {}
  BY <1>3, HereSound DEF Sound
<1>4. ASSUME phase[e] \notin {"handler", "filters", "filter"} PROVE Range(called[e]) \cap Range(Tail(rest[e])) = {}
  <2>1. Range(called[e]) \cap Range(rest[e]) = {}
    BY <1>4, HereSound DEF Sound
  <2> QED
    BY <1>1, <1>2, <2>1
<1>5. ASSUME Tail(rest[e]) = <<>> PROVE Len(rest[e]) <= 1
  <2>1. Len(Tail(rest[e])) = 0
    BY <1>5, EmptySeq
  <2>2. Len(Tail(rest[e])) = Len(rest[e]) - 1 /\ Len(rest[e]) \in Nat
    BY <1>1, <1>2
  <2> DEFINE n == Len(rest[e])  k == Len(Tail(rest[e]))
  <2>3. k = 0 /\ k = n - 1 /\ n \in Nat
    BY <2>1, <2>2
  <2> HIDE DEF n, k
  <2>4. n <= 1
    BY <2>3
  <2> QED
    BY <2>4 DEF n
<1> QED
  BY <1>2, <1>3, <1>4, <1>5

\* The answer of a handler, an interceptor or a filter.
LEMMA IsolatedKeeps ==
    ASSUME DispatchInv, NEW e \in Events, phase[e] \notin {"routing", "over", "pipes"},
           Loop(e, Tail(rest[e])), UNCHANGED parsing,
           UNCHANGED <<aborted, allowed, called, halted>>
    PROVE  DispatchInv'
BY NextHandlers, LoopKeeps

\* handleRuntimeError() goes on, or ends the event and perhaps the session.
LEMMA PolicyKeeps ==
    ASSUME DispatchInv, NEW e \in Events, phase[e] \notin {"routing", "over", "pipes"}, Policy(e),
           UNCHANGED <<parsing, allowed, called>>
    PROVE  DispatchInv'
<1>1. CASE Isolated(e) /\ UNCHANGED <<aborted, halted>>
  BY <1>1, IsolatedKeeps DEF Isolated
<1>2. CASE Over(e) /\ halted' = [halted EXCEPT ![e] = TRUE] /\ aborted' \in {aborted, TRUE}
  <2>1. phase' = [phase EXCEPT ![e] = "over"] /\ rest' = [rest EXCEPT ![e] = rest[e]]
    BY <1>2, HereSound DEF Over, Becomes
  <2>2. parsing' = [parsing EXCEPT ![e] = {}]
    BY NoneParsing
  <2>3. allowed' = [allowed EXCEPT ![e] = allowed[e]] /\ called' = [called EXCEPT ![e] = called[e]]
    BY HereSound
  <2>4. aborted' \in BOOLEAN /\ (aborted => aborted')
    <3>1. aborted \in BOOLEAN
      BY DEF DispatchInv, EventTypes
    <3>2. aborted' = aborted \/ aborted' = TRUE
      BY <1>2
    <3> QED
      BY <3>1, <3>2, Zenon
  <2>5. Sound("over", rest[e], {}, allowed[e], called[e], TRUE, aborted')
    BY HereSound DEF Sound
  <2>6. "over" \in Phases /\ {} \in SUBSET Parameters /\ TRUE \in BOOLEAN
    BY DEF Phases
  <2>7. rest[e] \in Seq(Handlers) /\ allowed[e] \in SUBSET Handlers /\ called[e] \in Seq(Handlers)
    BY HereSound
  <2> QED
    BY <1>2, <2>1, <2>2, <2>3, <2>4, <2>5, <2>6, <2>7, OneEvent
<1> QED
  BY <1>1, <1>2 DEF Policy

\* Nobody has asked for anything before the first event.
LEMMA DispatchInitInv == DispatchInit => DispatchInv
<1> SUFFICES ASSUME DispatchInit PROVE DispatchInv
  OBVIOUS
<1>1. EventTypes
  <2>1. aborted \in BOOLEAN /\ halted \in [Events -> BOOLEAN]
    BY Zenon DEF DispatchInit
  <2>2. <<>> \in Seq(Handlers)
    BY EmptySeq
  <2>3. rest \in [Events -> Seq(Handlers)] /\ called \in [Events -> Seq(Handlers)]
    BY <2>2, Zenon DEF DispatchInit
  <2> QED
    BY <2>1, <2>3 DEF DispatchInit, EventTypes, Phases
<1>2. ASSUME NEW e \in Events PROVE SoundAt(e)
  <2>1. IsInjective(<<>>) /\ Range(<<>>) = {}
    BY DEF IsInjective, Range
  <2>2. /\ phase[e] = "routing" /\ rest[e] = <<>> /\ parsing[e] = {} /\ allowed[e] = {}
        /\ called[e] = <<>> /\ halted[e] = FALSE
    BY DEF DispatchInit
  <2> QED
    BY <2>1, <2>2 DEF SoundAt, Sound
<1> QED
  BY <1>1, <1>2 DEF DispatchInv

\* Steps that concern no event in particular.
LEMMA NoEventKeeps ==
    ASSUME DispatchInv, UNCHANGED <<phase, rest, parsing, allowed, called, halted>>,
           aborted' \in BOOLEAN, aborted => aborted'
    PROVE  DispatchInv'
<1>1. EventTypes'
  BY DEF DispatchInv, EventTypes
<1>2. \A e \in Events : SoundAt(e)'
  BY DEF DispatchInv, SoundAt, Sound
<1> QED
  BY <1>1, <1>2 DEF DispatchInv, SoundAt

\* Routing: the handlers that were found, none of which was called.
LEMMA RoutingKeeps ==
    ASSUME DispatchInv, NEW e \in Events, Route(e) \/ RouteFails(e)
    PROVE  DispatchInv'
<1>1. CASE Route(e)
  <2>1. PICK route \in Routes : Loop(e, Found(route))
    BY <1>1 DEF Route
  <2>2. phase[e] = "routing" /\ UNCHANGED <<aborted, parsing, allowed, called, halted>>
    BY <1>1 DEF Route
  <2>3. Found(route) \in Seq(Handlers) /\ IsInjective(Found(route))
    BY FoundFacts
  <2>4. called[e] = <<>> /\ rest[e] = <<>>
    BY <2>2, HereSound DEF Sound
  <2>5. Range(called[e]) \cap Range(Found(route)) = {}
    BY <2>4 DEF Range
  <2>6. Len(rest[e]) <= 1
    <3>1. Len(<<>>) = 0
      BY EmptySeq
    <3> QED
      BY <3>1, <2>4
  <2> QED
    BY <2>1, <2>2, <2>3, <2>5, <2>6, LoopKeeps
<1>2. CASE RouteFails(e)
  <2>1. /\ phase' = [phase EXCEPT ![e] = "over"] /\ halted' = [halted EXCEPT ![e] = TRUE]
        /\ UNCHANGED <<rest, aborted, parsing, allowed, called>> /\ phase[e] = "routing"
    BY <1>2 DEF RouteFails, Over, Becomes
  <2>2. /\ rest' = [rest EXCEPT ![e] = rest[e]] /\ allowed' = [allowed EXCEPT ![e] = allowed[e]]
        /\ called' = [called EXCEPT ![e] = called[e]]
        /\ rest[e] \in Seq(Handlers) /\ allowed[e] \in SUBSET Handlers /\ called[e] \in Seq(Handlers)
    BY <2>1, HereSound
  <2>3. parsing' = [parsing EXCEPT ![e] = {}]
    BY <2>1, NoneParsing
  <2>4. Sound("over", rest[e], {}, allowed[e], called[e], TRUE, aborted')
    BY HereSound DEF Sound
  <2>5. /\ "over" \in Phases /\ {} \in SUBSET Parameters /\ TRUE \in BOOLEAN
        /\ aborted' \in BOOLEAN /\ (aborted => aborted')
    BY <2>1 DEF Phases, DispatchInv, EventTypes
  <2> QED
    BY <2>1, <2>2, <2>3, <2>4, <2>5, OneEvent
<1> QED
  BY <1>1, <1>2

\* The gateway, the guards and the interceptors have come.
LEMMA ResolvedKeeps ==
    ASSUME DispatchInv, NEW e \in Events,
           GatewayResolved(e) \/ EnhancersResolved(e) \/ InterceptorsResolved(e)
    PROVE  DispatchInv'
<1>1. CASE GatewayResolved(e)
  <2>1. Sound("enhancers", rest[e], {}, allowed[e], called[e], halted[e], aborted)
    BY <1>1, HereSound DEF GatewayResolved, Sound
  <2> QED
    BY <1>1, <2>1, PassesKeeps DEF GatewayResolved, Phases
<1>2. CASE EnhancersResolved(e)
  <2>1. Sound("guard", rest[e], {}, allowed[e], called[e], halted[e], aborted)
    BY <1>2, HereSound DEF EnhancersResolved, Sound
  <2> QED
    BY <1>2, <2>1, PassesKeeps DEF EnhancersResolved, Phases
<1>3. CASE InterceptorsResolved(e)
  <2>1. Sound("interceptor", rest[e], {}, allowed[e], called[e], halted[e], aborted)
    BY <1>3, HereSound DEF InterceptorsResolved, Sound
  <2> QED
    BY <1>3, <2>1, PassesKeeps DEF InterceptorsResolved, Phases
<1> QED
  BY <1>1, <1>2, <1>3

\* A filter is called for the error: what was called, and what is left, stays.
LEMMA FilterKeeps ==
    ASSUME DispatchInv, NEW e \in Events, FiltersResolved(e)
    PROVE  DispatchInv'
<1>1. /\ phase[e] = "filters" /\ phase' = [phase EXCEPT ![e] = "filter"]
      /\ UNCHANGED <<aborted, rest, parsing, allowed, called, halted>>
  BY DEF FiltersResolved, Becomes
<1>2. rest' = [rest EXCEPT ![e] = rest[e]] /\ parsing' = [parsing EXCEPT ![e] = {}]
  BY <1>1, HereSound, NoneParsing
<1>3. Sound("filter", rest[e], {}, allowed[e], called[e], halted[e], aborted)
  BY <1>1, HereSound DEF Sound
<1>4. "filter" \in Phases /\ rest[e] \in Seq(Handlers) /\ {} \in SUBSET Parameters
  BY HereSound DEF Phases
<1> QED
  BY <1>1, <1>2, <1>3, <1>4, EventMoves

\* The guard's permission is remembered, also if the session has ended.
LEMMA GuardKeeps ==
    ASSUME DispatchInv, NEW e \in Events, GuardAllows(e)
    PROVE  DispatchInv'
<1> DEFINE al == allowed[e] \cup {Head(rest[e])}
<1>1. /\ phase[e] = "guard" /\ Passes(e, "interceptors") /\ allowed' = [allowed EXCEPT ![e] = al]
      /\ UNCHANGED <<aborted, parsing, called, halted>>
  BY DEF GuardAllows
<1>2. rest[e] \in Seq(Handlers) /\ rest[e] # <<>> /\ IsInjective(rest[e])
  BY <1>1, HereSound DEF Sound
<1>3. Head(rest[e]) \in Handlers
  BY <1>2, TailKeepsDistinct
<1>4. al \in SUBSET Handlers /\ called[e] \in Seq(Handlers) /\ halted[e] \in BOOLEAN
  BY <1>3, HereSound
<1>5. /\ rest' = [rest EXCEPT ![e] = rest[e]] /\ called' = [called EXCEPT ![e] = called[e]]
      /\ halted' = [halted EXCEPT ![e] = halted[e]] /\ parsing' = [parsing EXCEPT ![e] = {}]
  BY <1>1, HereSound, NoneParsing DEF Passes, Over
<1>6. aborted' \in BOOLEAN /\ (aborted => aborted')
  BY <1>1 DEF DispatchInv, EventTypes
<1>7. CASE aborted
  <2>1. phase' = [phase EXCEPT ![e] = "over"]
    BY <1>1, <1>7 DEF Passes, Over, Becomes
  <2>2. Sound("over", rest[e], {}, al, called[e], halted[e], aborted')
    BY <1>1, <1>7, HereSound DEF Sound
  <2>3. "over" \in Phases /\ {} \in SUBSET Parameters
    BY DEF Phases
  <2>4. allowed' = [allowed EXCEPT ![e] = al] /\ rest[e] \in Seq(Handlers)
    BY <1>1, <1>2
  <2> HIDE DEF al
  <2> QED
    BY ONLY DispatchInv, e \in Events, <1>4, <1>5, <1>6, <2>1, <2>2, <2>3, <2>4, OneEvent
<1>8. CASE ~aborted
  <2>1. phase' = [phase EXCEPT ![e] = "interceptors"]
    BY <1>1, <1>8 DEF Passes, Becomes
  <2>2. Sound("interceptors", rest[e], {}, al, called[e], halted[e], aborted')
    BY <1>1, <1>8, HereSound DEF Sound
  <2>3. "interceptors" \in Phases /\ {} \in SUBSET Parameters
    BY DEF Phases
  <2>4. allowed' = [allowed EXCEPT ![e] = al] /\ rest[e] \in Seq(Handlers)
    BY <1>1, <1>2
  <2> HIDE DEF al
  <2> QED
    BY ONLY DispatchInv, e \in Events, <1>4, <1>5, <1>6, <2>1, <2>2, <2>3, <2>4, OneEvent
<1> QED
  BY <1>7, <1>8

\* The pipes start, and answer one by one.
LEMMA PipesKeep ==
    ASSUME DispatchInv, NEW e \in Events, Handle(e) \/ PipesFail(e) \/ \E p \in Parameters : PipesPass(e, p)
    PROVE  DispatchInv'
<1>1. CASE Handle(e)
  <2>1. phase[e] = "interceptor" /\ UNCHANGED <<aborted, allowed, called, halted>>
    BY <1>1 DEF Handle
  <2>2. CASE aborted
    <3>1. Over(e) /\ UNCHANGED parsing
      BY <1>1, <2>2 DEF Handle
    <3>2. parsing' = [parsing EXCEPT ![e] = {}]
      BY <2>1, <3>1, NoneParsing
    <3> QED
      BY <2>1, <2>2, <3>1, <3>2, OverAborted
  <2>3. CASE ~aborted
    <3>1. /\ phase' = [phase EXCEPT ![e] = "pipes"] /\ rest' = [rest EXCEPT ![e] = rest[e]]
          /\ parsing' = [parsing EXCEPT ![e] = Parameters]
      BY <1>1, <2>3, HereSound DEF Handle, Becomes
    <3>2. Sound("pipes", rest[e], Parameters, allowed[e], called[e], halted[e], aborted)
      BY <2>1, HereSound DEF Sound
    <3>3. "pipes" \in Phases /\ rest[e] \in Seq(Handlers) /\ Parameters \in SUBSET Parameters
      BY HereSound DEF Phases
    <3> QED
      BY <2>1, <3>1, <3>2, <3>3, EventMoves
  <2> QED
    BY <2>2, <2>3
<1>2. CASE PipesFail(e)
  BY <1>2, ThrownKeeps DEF PipesFail
<1>3. ASSUME NEW p \in Parameters, PipesPass(e, p) PROVE DispatchInv'
  <2> DEFINE left == parsing[e] \ {p}
  <2>1. /\ p \in parsing[e] /\ parsing' = [parsing EXCEPT ![e] = left]
        /\ UNCHANGED <<aborted, phase, rest, allowed, called, halted>>
    BY <1>3 DEF PipesPass
  <2>2. phase[e] = "pipes" /\ left \in SUBSET Parameters
    BY <2>1, HereSound DEF Sound
  <2>3. Sound("pipes", rest[e], left, allowed[e], called[e], halted[e], aborted)
    BY <2>2, HereSound DEF Sound
  <2>4. /\ phase' = [phase EXCEPT ![e] = "pipes"] /\ rest' = [rest EXCEPT ![e] = rest[e]]
        /\ "pipes" \in Phases /\ rest[e] \in Seq(Handlers)
    BY <2>1, <2>2, HereSound DEF Phases
  <2> HIDE DEF left
  <2> QED
    BY <2>1, <2>2, <2>3, <2>4, EventMoves
<1> QED
  BY <1>1, <1>2, <1>3

\* A handler is called: it was allowed, and was not called before.
LEMMA CallKeeps ==
    ASSUME DispatchInv, NEW e \in Events, Call(e)
    PROVE  DispatchInv'
<1>1. /\ phase[e] = "pipes" /\ parsing[e] = {}
      /\ UNCHANGED <<aborted, parsing, allowed, halted>>
  BY DEF Call, Complete
<1>2. parsing' = [parsing EXCEPT ![e] = {}]
  BY <1>1, HereSound
<1>3. CASE aborted
  <2>1. Over(e) /\ UNCHANGED called
    BY <1>3 DEF Call, InTime
  <2> QED
    BY <1>1, <1>2, <1>3, <2>1, OverAborted
<1>4. CASE ~aborted
  <2> DEFINE x == Head(rest[e])  c == Append(called[e], x)
  <2>1. /\ phase' = [phase EXCEPT ![e] = "handler"] /\ rest' = [rest EXCEPT ![e] = rest[e]]
        /\ called' = [called EXCEPT ![e] = c]
    BY <1>4, HereSound DEF Call, InTime, Becomes
  <2>2. /\ rest[e] \in Seq(Handlers) /\ rest[e] # <<>> /\ IsInjective(rest[e]) /\ x \in allowed[e]
        /\ Range(called[e]) \cap Range(rest[e]) = {}
        /\ called[e] \in Seq(Handlers) /\ IsInjective(called[e]) /\ Range(called[e]) \subseteq allowed[e]
    BY <1>1, HereSound DEF Sound
  <2>3. /\ x \in Handlers /\ x \in Range(rest[e]) /\ x \notin Range(Tail(rest[e]))
        /\ Range(Tail(rest[e])) \subseteq Range(rest[e])
    BY <2>2, TailKeepsDistinct
  <2>4. x \notin Range(called[e])
    BY <2>2, <2>3
  <2> HIDE DEF x
  <2>5. c \in Seq(Handlers) /\ IsInjective(c) /\ Range(c) = Range(called[e]) \cup {x}
    BY <2>2, <2>3, <2>4, AppendNew
  <2> HIDE DEF c
  <2>6. Range(c) \cap Range(Tail(rest[e])) = {} /\ Range(c) \subseteq allowed[e]
    BY <2>2, <2>3, <2>5
  <2>7. Sound("handler", rest[e], {}, allowed[e], c, halted[e], aborted')
    BY <2>2, <2>5, <2>6 DEF Sound
  <2>8. /\ allowed' = [allowed EXCEPT ![e] = allowed[e]] /\ halted' = [halted EXCEPT ![e] = halted[e]]
        /\ allowed[e] \in SUBSET Handlers /\ halted[e] \in BOOLEAN
        /\ "handler" \in Phases /\ {} \in SUBSET Parameters
    BY <1>1, HereSound DEF Phases
  <2>9. aborted' \in BOOLEAN /\ (aborted => aborted')
    BY <1>1 DEF DispatchInv, EventTypes
  <2> QED
    BY <1>2, <2>1, <2>2, <2>5, <2>7, <2>8, <2>9, OneEvent
<1> QED
  BY <1>3, <1>4

\* Every step keeps the invariant.
LEMMA DispatchNextInv == DispatchInv /\ [DispatchNext]_dispatchVars => DispatchInv'
<1> SUFFICES ASSUME DispatchInv, [DispatchNext]_dispatchVars PROVE DispatchInv'
  OBVIOUS
<1>1. aborted \in BOOLEAN
  BY DEF DispatchInv, EventTypes
<1>2. CASE Abort
  BY <1>2, NoEventKeeps DEF Abort
<1>3. ASSUME NEW e \in Events, Step(e) PROVE DispatchInv'
  <2>1. CASE Route(e) \/ RouteFails(e)
    BY <2>1, RoutingKeeps
  <2>2. CASE GatewayResolved(e) \/ EnhancersResolved(e) \/ InterceptorsResolved(e)
    BY <2>2, ResolvedKeeps
  <2>3. CASE GatewayFails(e) \/ FilterFails(e)
    BY <2>3, PolicyKeeps DEF GatewayFails, FilterFails
  <2>4. CASE FiltersResolved(e)
    BY <2>4, FilterKeeps
  <2>5. CASE GuardAllows(e)
    BY <2>5, GuardKeeps
  <2>6. CASE StageFails(e) \/ EnhancersFail(e)
    <3>1. phase[e] \notin {"routing", "over", "pipes"} /\ UNCHANGED parsing
      BY <2>6 DEF StageFails, EnhancersFail
    <3>2. parsing' = [parsing EXCEPT ![e] = {}]
      BY <3>1, NoneParsing
    <3> QED
      BY <2>6, <3>1, <3>2, ThrownKeeps DEF StageFails, EnhancersFail, EnhancersMissing
  <2>7. CASE Answered(e) \/ FilterCatches(e)
    BY <2>7, IsolatedKeeps DEF Answered, FilterCatches
  <2>8. CASE Handle(e) \/ PipesFail(e) \/ \E p \in Parameters : PipesPass(e, p)
    BY <2>8, PipesKeep
  <2>9. CASE Call(e)
    BY <2>9, CallKeeps
  <2> QED
    BY <1>3, <2>1, <2>2, <2>3, <2>4, <2>5, <2>6, <2>7, <2>8, <2>9 DEF Step
<1>4. CASE UNCHANGED dispatchVars
  BY <1>1, <1>4, NoEventKeeps DEF dispatchVars
<1> QED
  BY <1>2, <1>3, <1>4 DEF DispatchNext

\* The events of a session always satisfy the invariant.
LEMMA AlwaysDispatchInv == DispatchSpec => []DispatchInv
BY DispatchInitInv, DispatchNextInv, PTL DEF DispatchSpec

\* For any number of events and any registry, each handler found for a route is
\* called at most once and only after a guard has allowed it, and no error of one
\* keeps the event from the others (the loops of dispatch*(), invoke()).
THEOREM HandlersAlwaysReached == DispatchSpec => []HandlersReached
<1>1. DispatchInv => HandlersReached
  <2> SUFFICES ASSUME DispatchInv PROVE HandlersReached
    OBVIOUS
  <2>1. DispatchTypeOK
    <3>1. \A e \in Events : /\ phase[e] \notin {"routing", "over"} => rest[e] # <<>>
                            /\ phase[e] # "pipes" => parsing[e] = {}
      BY DEF DispatchInv, SoundAt, Sound
    <3> QED
      BY <3>1 DEF DispatchTypeOK, DispatchInv, EventTypes, Phases
  <2>2. CalledOnceAllowed
    BY DEF CalledOnceAllowed, DispatchInv, SoundAt, Sound
  <2>3. NobodySkipped
    BY DEF NobodySkipped, DispatchInv, SoundAt, Sound
  <2> QED
    BY <2>1, <2>2, <2>3 DEF HandlersReached
<1> QED  BY <1>1, AlwaysDispatchInv, PTL

\* Once the session's signal has aborted, no handler is called and no invocation
\* goes on to its next stage, whatever answers late; only a filter that was being
\* looked up by then is still called.
THEOREM NothingEverBegunAfterAbort == DispatchSpec => NothingBegunAfterAbort
<1> DEFINE Moved(d) == \/ phase'[d] = phase[d] \/ phase'[d] = "over"
                       \/ phase[d] = "filters" /\ phase'[d] = "filter"
           Late == called' # called => ~aborted
           Staged == \A e \in Events :
                        phase'[e] # phase[e] => \/ ~aborted
                                                \/ phase'[e] = "over"
                                                \/ phase[e] = "filters" /\ phase'[e] = "filter"
<1>1. DispatchInv /\ [DispatchNext]_dispatchVars => [Late /\ Staged]_dispatchVars
  <2> SUFFICES ASSUME DispatchInv, DispatchNext, aborted
               PROVE  called' = called /\ \A d \in Events : Moved(d)
    BY DEF dispatchVars
  <2>1. phase \in [Events -> Phases]
    BY DEF DispatchInv, EventTypes
  <2>2. ASSUME NEW e \in Events, Over(e) PROVE \A d \in Events : Moved(d)
    BY <2>1, <2>2 DEF Over, Becomes
  <2>3. ASSUME NEW e \in Events, NEW hs, Loop(e, hs) PROVE Over(e)
    BY <2>3 DEF Loop
  <2>4. ASSUME NEW e \in Events, NEW next, Passes(e, next) \/ Thrown(e) PROVE Over(e)
    BY <2>4 DEF Passes, Thrown
  <2>5. ASSUME NEW e \in Events, Policy(e) PROVE Over(e)
    BY <2>3, <2>5 DEF Policy, Isolated
  <2>6. ASSUME NEW e \in Events, Step(e) PROVE called' = called /\ \A d \in Events : Moved(d)
    <3>1. CASE \E p \in Parameters : PipesPass(e, p)
      BY <3>1 DEF PipesPass
    <3>2. CASE FiltersResolved(e)
      BY <2>1, <3>2 DEF FiltersResolved, Becomes
    <3>3. CASE ~FiltersResolved(e) /\ ~\E p \in Parameters : PipesPass(e, p)
      <4>1. Over(e) /\ called' = called
        BY <2>3, <2>4, <2>5, <2>6, <3>3
           DEF Step, Route, RouteFails, GatewayResolved, GatewayFails, EnhancersResolved, EnhancersFail,
               EnhancersMissing, GuardAllows, StageFails, InterceptorsResolved, Answered, Handle, PipesFail,
               Call, InTime, FilterCatches, FilterFails
      <4> QED
        BY <4>1, <2>2
    <3> QED
      BY <3>1, <3>2, <3>3
  <2>7. ASSUME Abort PROVE called' = called /\ \A d \in Events : Moved(d)
    BY <2>7 DEF Abort
  <2> QED
    BY <2>6, <2>7 DEF DispatchNext
<1>2. DispatchSpec => [][Late /\ Staged]_dispatchVars
  BY <1>1, AlwaysDispatchInv, PTL DEF DispatchSpec
<1>3. [Late /\ Staged]_dispatchVars => [Late]_dispatchVars /\ [Staged]_dispatchVars
  OBVIOUS
<1> QED
  BY <1>2, <1>3, PTL DEF NothingBegunAfterAbort, NoLateCall, NoLateStage
=============================================================================
