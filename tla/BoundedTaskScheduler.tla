------------------------ MODULE BoundedTaskScheduler ------------------------
(***************************************************************************)
(* The handler scheduler every session owns                                *)
(* (packages/nest-webtransport/src/execution/bounded-task-scheduler.ts).   *)
(*                                                                         *)
(* submit() starts a task, queues it or refuses it; a task that ends hands *)
(* its place to the oldest queued task; close() stops submissions and may  *)
(* discard the queue.  The pumps of a session wait for capacity, and the   *)
(* retirement of a session waits for idleness; both waits also end when    *)
(* the waiter's signal is aborted.                                         *)
(*                                                                         *)
(* One JavaScript turn is one action.  onSettled runs inside the turn that *)
(* ends or discards its task, so it is counted there.                      *)
(***************************************************************************)
EXTENDS Integers, Sequences, FiniteSets

CONSTANTS Tasks,          \* the tasks handed to submit(), each once
          Waiters,        \* the coroutines that wait for capacity or idleness
          MaxConcurrent,
          MaxPending

ASSUME TasksFinite == IsFiniteSet(Tasks)
ASSUME MaxConcurrentPositive == MaxConcurrent \in Nat \ {0}
ASSUME MaxPendingNatural == MaxPending \in Nat

VARIABLES activeCount,
          pending,
          accepting,
          capacityWaiters,
          idleWaiters,
          task,            \* what became of each task
          settled,         \* how often onSettled ran for each task
          abortedWaiters   \* the waiters whose signal has been aborted

vars == <<activeCount, pending, accepting, capacityWaiters, idleWaiters, task,
          settled, abortedWaiters>>

\* "reporting": the task threw and its onError observer is awaited.
TaskStates == {"new", "queued", "running", "reporting", "done", "discarded", "refused"}
Occupying == {"running", "reporting"}

TypeOK ==
    /\ activeCount \in Nat
    /\ pending \in Seq(Tasks)
    /\ accepting \in BOOLEAN
    /\ capacityWaiters \subseteq Waiters
    /\ idleWaiters \subseteq Waiters
    /\ task \in [Tasks -> TaskStates]
    /\ settled \in [Tasks -> Nat]
    /\ abortedWaiters \subseteq Waiters

Init ==
    /\ activeCount = 0
    /\ pending = <<>>
    /\ accepting = TRUE
    /\ capacityWaiters = {}
    /\ idleWaiters = {}
    /\ task = [t \in Tasks |-> "new"]
    /\ settled = [t \in Tasks |-> 0]
    /\ abortedWaiters = {}

HasCapacity(open, n, queue) == open /\ n + Len(queue) < MaxConcurrent + MaxPending
IsIdle(n, queue) == n = 0 /\ queue = <<>>

\* Mutant: only an idle scheduler wakes anybody.
FlushIdleOnly ==
    /\ capacityWaiters' = capacityWaiters
    /\ idleWaiters' = IF IsIdle(activeCount', pending') THEN {} ELSE idleWaiters

\* flushWaiters(), at the end of the turn.
FlushWaiters ==
    /\ capacityWaiters' = IF HasCapacity(accepting', activeCount', pending') \/ ~accepting'
                          THEN {} ELSE capacityWaiters
    /\ idleWaiters' = IF IsIdle(activeCount', pending') THEN {} ELSE idleWaiters

-----------------------------------------------------------------------------
(* submit() *)

SubmitStarts(t) ==
    /\ accepting
    /\ activeCount < MaxConcurrent
    /\ activeCount' = activeCount + 1
    /\ task' = [task EXCEPT ![t] = "running"]
    /\ UNCHANGED pending

\* Mutant: queues one task too many.
SubmitQueuesOffByOne(t) ==
    /\ accepting
    /\ activeCount >= MaxConcurrent
    /\ Len(pending) <= MaxPending
    /\ pending' = Append(pending, t)
    /\ task' = [task EXCEPT ![t] = "queued"]
    /\ UNCHANGED activeCount

SubmitQueues(t) ==
    /\ accepting
    /\ activeCount >= MaxConcurrent
    /\ Len(pending) < MaxPending
    /\ pending' = Append(pending, t)
    /\ task' = [task EXCEPT ![t] = "queued"]
    /\ UNCHANGED activeCount

\* 'closed', or the overflow policy: the task is left to its owner.
SubmitRefuses(t) ==
    /\ accepting => activeCount >= MaxConcurrent /\ Len(pending) >= MaxPending
    /\ task' = [task EXCEPT ![t] = "refused"]
    /\ UNCHANGED <<activeCount, pending>>

Submit(t) ==
    /\ task[t] = "new"
    /\ SubmitStarts(t) \/ SubmitQueues(t) \/ SubmitRefuses(t)
    /\ UNCHANGED <<accepting, capacityWaiters, idleWaiters, settled, abortedWaiters>>

-----------------------------------------------------------------------------
(* start(): the task's promise chain *)

\* Mutant: the catch block gives the place back as well.
FailFreesPlace(t) ==
    /\ task[t] = "running"
    /\ task' = [task EXCEPT ![t] = "reporting"]
    /\ activeCount' = activeCount - 1
    /\ UNCHANGED <<pending, accepting, capacityWaiters, idleWaiters, settled, abortedWaiters>>

\* The task rejected: catch awaits onError, whose own failure is swallowed.
Fail(t) ==
    /\ task[t] = "running"
    /\ task' = [task EXCEPT ![t] = "reporting"]
    /\ UNCHANGED <<activeCount, pending, accepting, capacityWaiters, idleWaiters,
                   settled, abortedWaiters>>

\* Mutant: the newest queued task is started first.
StartNewest(t) ==
    /\ pending # <<>>
    /\ LET n == Len(pending)
       IN  task' = [task EXCEPT ![t] = "done", ![pending[n]] = "running"]
    /\ pending' = SubSeq(pending, 1, Len(pending) - 1)
    /\ UNCHANGED activeCount

\* The place of t goes to the oldest queued task.
StartNext(t) ==
    /\ pending # <<>>
    /\ task' = [task EXCEPT ![t] = "done", ![Head(pending)] = "running"]
    /\ pending' = Tail(pending)
    /\ UNCHANGED activeCount

\* Mutant: the queue is looked at only when the scheduler drains completely.
StartNothing(t) ==
    /\ pending = <<>> \/ activeCount > 1
    /\ task' = [task EXCEPT ![t] = "done"]
    /\ activeCount' = activeCount - 1
    /\ UNCHANGED pending

NothingToStart(t) ==
    /\ pending = <<>>
    /\ task' = [task EXCEPT ![t] = "done"]
    /\ activeCount' = activeCount - 1
    /\ UNCHANGED pending

\* finally: settle, start the next task, flush the waiters.
Finish(t) ==
    /\ task[t] \in Occupying
    /\ settled' = [settled EXCEPT ![t] = @ + 1]
    /\ StartNext(t) \/ NothingToStart(t)
    /\ UNCHANGED <<accepting, abortedWaiters>>
    /\ FlushWaiters

-----------------------------------------------------------------------------
(* close() *)

\* Mutant: settles the queue but leaves it in place.
DiscardWithoutSplice(discarded) ==
    /\ pending' = pending
    /\ task' = [t \in Tasks |-> IF \E i \in 1..Len(discarded) : discarded[i] = t
                                THEN "discarded" ELSE task[t]]
    /\ settled' = [t \in Tasks |-> IF \E i \in 1..Len(discarded) : discarded[i] = t
                                   THEN settled[t] + 1 ELSE settled[t]]

\* Mutant: empties the queue and forgets to settle what was in it.
DiscardUnsettled(discarded) ==
    /\ pending' = <<>>
    /\ task' = [t \in Tasks |-> IF \E i \in 1..Len(discarded) : discarded[i] = t
                                THEN "discarded" ELSE task[t]]
    /\ settled' = settled

\* The queue is emptied and every task that was in it is settled.
Discard(discarded) ==
    /\ pending' = <<>>
    /\ task' = [t \in Tasks |-> IF \E i \in 1..Len(discarded) : discarded[i] = t
                                THEN "discarded" ELSE task[t]]
    /\ settled' = [t \in Tasks |-> IF \E i \in 1..Len(discarded) : discarded[i] = t
                                   THEN settled[t] + 1 ELSE settled[t]]

Close(discardPending) ==
    /\ accepting' = FALSE
    /\ IF discardPending THEN Discard(pending) ELSE UNCHANGED <<pending, task, settled>>
    /\ UNCHANGED <<activeCount, abortedWaiters>>
    /\ FlushWaiters

-----------------------------------------------------------------------------
(* whenCapacityAvailable() and onIdle() *)

Free(w) == w \notin capacityWaiters \cup idleWaiters

\* A wait that returns at once leaves no trace; these are the ones that do not.
WaitForCapacity(w) ==
    /\ Free(w)
    /\ ~HasCapacity(accepting, activeCount, pending)
    /\ accepting
    /\ w \notin abortedWaiters
    /\ capacityWaiters' = capacityWaiters \cup {w}
    /\ UNCHANGED <<activeCount, pending, accepting, idleWaiters, task, settled, abortedWaiters>>

WaitForIdle(w) ==
    /\ Free(w)
    /\ ~IsIdle(activeCount, pending)
    /\ w \notin abortedWaiters
    /\ idleWaiters' = idleWaiters \cup {w}
    /\ UNCHANGED <<activeCount, pending, accepting, capacityWaiters, task, settled, abortedWaiters>>

\* The abort listener ends the wait and forgets the waiter.
AbortWaiter(w) ==
    /\ w \notin abortedWaiters
    /\ abortedWaiters' = abortedWaiters \cup {w}
    /\ capacityWaiters' = capacityWaiters \ {w}
    /\ idleWaiters' = idleWaiters \ {w}
    /\ UNCHANGED <<activeCount, pending, accepting, task, settled>>

-----------------------------------------------------------------------------
Next ==
    \/ \E t \in Tasks : Submit(t) \/ Fail(t) \/ Finish(t)
    \/ \E discardPending \in BOOLEAN : Close(discardPending)
    \/ \E w \in Waiters : WaitForCapacity(w) \/ WaitForIdle(w) \/ AbortWaiter(w)

\* A task that started is assumed to settle, and so is its onError.
Fairness == \A t \in Tasks : WF_vars(Finish(t))

Spec == Init /\ [][Next]_vars /\ Fairness

-----------------------------------------------------------------------------
(* Properties *)

Active == {t \in Tasks : task[t] \in Occupying}
Queued == {t \in Tasks : task[t] = "queued"}

\* The limits hold, and the counter and the queue are exactly the tasks that
\* occupy a place and the tasks that wait for one, each once: no error path of
\* start() leaks a place.
PlacesExact ==
    /\ activeCount = Cardinality(Active)
    /\ activeCount <= MaxConcurrent
    /\ Len(pending) <= MaxPending
    /\ \A i, j \in 1..Len(pending) : pending[i] = pending[j] => i = j
    /\ \A t \in Tasks : t \in Queued <=> \E i \in 1..Len(pending) : pending[i] = t

\* A task is queued only while every place is taken, also after close().
NoIdlePlaceWhileQueued == pending # <<>> => activeCount = MaxConcurrent

\* onSettled, which gives back the budget reservation and the datagram bytes,
\* runs exactly once for every task that was accepted, whether it ended, failed
\* or was discarded, and never before.
SettledExactlyOnce ==
    \A t \in Tasks : settled[t] = IF task[t] \in {"done", "discarded"} THEN 1 ELSE 0

\* Nobody waits for what is already there: a capacity waiter only while the
\* scheduler is open and full, an idle waiter only while work is left.  A pump
\* stranded here would stop its session's intake, a retirement stranded here
\* would keep its session's slot for ever.
NoStrandedWaiter ==
    /\ capacityWaiters # {} => accepting /\ ~HasCapacity(accepting, activeCount, pending)
    /\ idleWaiters # {} => ~IsIdle(activeCount, pending)

\* A task that was discarded, refused or done never runs (again), and queued
\* tasks start in submission order.
StartsInOrder ==
    [][\A t \in Tasks : (task[t] # "running" /\ task'[t] = "running") =>
          \/ task[t] = "new" /\ pending = <<>>
          \/ task[t] = "queued" /\ \E k \in 1..Len(pending) : pending[k] = t /\
                \A j \in 1..(k - 1) : task'[pending[j]] # "queued"]_vars

\* Every accepted task is settled in the end.
AcceptedSettles ==
    \A t \in Tasks : task[t] \in {"queued", "running", "reporting"} ~> settled[t] = 1

\* Every wait ends: for capacity and for idleness, without help from an abort.
WaitsEnd == \A w \in Waiters : ~Free(w) ~> Free(w)

\* Nothing that was promised stays open: accepted tasks settle and waits end.
SchedulerProgress == AcceptedSettles /\ WaitsEnd

\* The scheduler knows exactly who works and who is queued, within its limits,
\* and leaves no place idle.
SchedulerExact == TypeOK /\ PlacesExact /\ NoIdlePlaceWhileQueued
=============================================================================
