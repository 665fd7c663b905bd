---------------------------- MODULE DatagramFlow ----------------------------
(***************************************************************************)
(* The datagram path of the runtime                                        *)
(* (packages/nest-webtransport/src/server/webtransport-runtime.ts): for    *)
(* every session a pump reads datagrams into a bounded queue, a drainer    *)
(* moves them into the session's scheduler, and the handlers settle them.  *)
(* All sessions share one byte budget and one handler budget; the stream   *)
(* pumps compete for the same scheduler places.                            *)
(*                                                                         *)
(* The queue is the sequence that FifoQueue promises, the scheduler is the *)
(* one of BoundedTaskScheduler with its counter read off the tasks, and    *)
(* the handler budget is its reservation counter: whether an active task   *)
(* still waits for a slot inside HandlerBudget.run makes no difference to  *)
(* the bytes, which it holds until it settles.                             *)
(*                                                                         *)
(* An action is one turn, from one await to the next.                      *)
(***************************************************************************)
EXTENDS Integers, Sequences, FiniteSets

CONSTANTS Sessions, Datagrams, StreamTasks,
          Size,                    \* byteLength of each datagram
          MaxDatagramSize,         \* maximumDatagramSize()
          QueueCapacity,           \* options.datagrams.queue.size
          MaxQueuedDatagramBytes,  \* options.limits.server.maxQueuedDatagramBytes
          MaxConcurrent, MaxPending,  \* options.execution, per session
          HandlerLimit             \* concurrency + pending of the handler budget

ASSUME SizesPositive == Size \in [Datagrams -> Nat \ {0}]
ASSUME TasksDisjoint == Datagrams \cap StreamTasks = {}
ASSUME LimitsPositive ==
    /\ {QueueCapacity, MaxConcurrent, HandlerLimit, MaxQueuedDatagramBytes} \subseteq Nat \ {0}
    /\ MaxPending \in Nat

Tasks == Datagrams \cup StreamTasks
Bytes(t) == IF t \in Datagrams THEN Size[t] ELSE 0

\* The bytes of some tasks together: every byte of a task is one element.
BytesOf(S) == UNION {{t} \X (1..Bytes(t)) : t \in S}
SumBytes(S) == Cardinality(BytesOf(S))

VARIABLES queueOverflow,       \* options.datagrams.queue.overflow
          queue,               \* managed.datagrams, oldest first
          queuedDatagramBytes, \* of the runtime: all sessions
          managedBytes,        \* managed.queuedDatagramBytes
          intake,              \* ~managed.intakeController.signal.aborted
          aborted,             \* managed.session.signal.aborted
          pump,                \* pumpDatagrams()
          drainer,             \* drainDatagrams()
          drainingDatagrams,   \* managed.drainingDatagrams
          accepting, pending,  \* managed.scheduler
          reserved,            \* handlerBudget.reserved
          state, owner         \* what became of each task, and whose it is

sessionVars == <<intake, aborted, accepting>>
vars == <<queueOverflow, queue, queuedDatagramBytes, managedBytes, intake, aborted, pump,
          drainer, drainingDatagrams, accepting, pending, reserved, state, owner>>

Policies == {"drop-oldest", "drop-newest", "reject", "close-session"}
None == "none"

TypeOK ==
    /\ queueOverflow \in Policies
    /\ queue \in [Sessions -> Seq(Datagrams)]
    /\ queuedDatagramBytes \in Nat
    /\ managedBytes \in [Sessions -> Nat]
    /\ intake \in [Sessions -> BOOLEAN]
    /\ aborted \in [Sessions -> BOOLEAN]
    /\ pump \in [Sessions -> {"reading", "closing", "ended"}]
    /\ drainer \in [Sessions -> {None, "waiting", "resuming", "submitted"}]
    /\ drainingDatagrams \in [Sessions -> BOOLEAN]
    /\ accepting \in [Sessions -> BOOLEAN]
    /\ pending \in [Sessions -> Seq(Tasks)]
    /\ reserved \in 0..HandlerLimit
    /\ state \in [Tasks -> {"new", "dropped", "queued", "pending", "active", "settled"}]
    /\ owner \in [Tasks -> Sessions \cup {None}]

Init ==
    /\ queueOverflow \in Policies
    /\ queue = [s \in Sessions |-> <<>>]
    /\ queuedDatagramBytes = 0
    /\ managedBytes = [s \in Sessions |-> 0]
    /\ intake = [s \in Sessions |-> TRUE]
    /\ aborted = [s \in Sessions |-> FALSE]
    /\ pump = [s \in Sessions |-> "reading"]
    /\ drainer = [s \in Sessions |-> None]
    /\ drainingDatagrams = [s \in Sessions |-> FALSE]
    /\ accepting = [s \in Sessions |-> TRUE]
    /\ pending = [s \in Sessions |-> <<>>]
    /\ reserved = 0
    /\ state = [t \in Tasks |-> "new"]
    /\ owner = [t \in Tasks |-> None]

-----------------------------------------------------------------------------
(* The scheduler of a session *)

Active(s) == {t \in Tasks : state[t] = "active" /\ owner[t] = s}
HasCapacity(s) ==
    accepting[s] /\ Cardinality(Active(s)) + Len(pending[s]) < MaxConcurrent + MaxPending

\* Mutant: registers without looking whether there is capacity already.
AwaitCapacityBlindly(s) == drainer' = [drainer EXCEPT ![s] = "waiting"]

\* whenCapacityAvailable() at the end of a turn of the drainer: an async
\* function, so even a wait that is over at once resumes in a later turn.
AwaitCapacity(s) ==
    drainer' = [drainer EXCEPT ![s] =
                  IF HasCapacity(s)' \/ ~accepting'[s] \/ aborted'[s] THEN "resuming" ELSE "waiting"]

\* Mutant: a closed scheduler wakes nobody.
FlushOnCapacityOnly(s) ==
    drainer' = [drainer EXCEPT ![s] = IF @ = "waiting" /\ HasCapacity(s)' THEN "resuming" ELSE @]

\* flushWaiters(), and the abort listener of a capacity wait.
FlushWaiters(s) ==
    drainer' = [drainer EXCEPT ![s] =
                  IF @ = "waiting" /\ (HasCapacity(s)' \/ ~accepting'[s]) THEN "resuming" ELSE @]

Settled(t) == state' = [state EXCEPT ![t] = "settled"]

-----------------------------------------------------------------------------
(* submit(): the budget, then the scheduler *)

\* Mutant: starts a task that got no reservation.
SubmitStartedUnreserved(s, t) ==
    /\ accepting[s]
    /\ Cardinality(Active(s)) < MaxConcurrent
    /\ reserved' = reserved + 1
    /\ state' = [state EXCEPT ![t] = "active"]
    /\ owner' = [owner EXCEPT ![t] = s]
    /\ UNCHANGED <<pending, queuedDatagramBytes>>

SubmitStarted(s, t) ==
    /\ reserved < HandlerLimit
    /\ accepting[s]
    /\ Cardinality(Active(s)) < MaxConcurrent
    /\ reserved' = reserved + 1
    /\ state' = [state EXCEPT ![t] = "active"]
    /\ owner' = [owner EXCEPT ![t] = s]
    /\ UNCHANGED <<pending, queuedDatagramBytes>>

SubmitQueued(s, t) ==
    /\ reserved < HandlerLimit
    /\ accepting[s]
    /\ Cardinality(Active(s)) >= MaxConcurrent
    /\ Len(pending[s]) < MaxPending
    /\ reserved' = reserved + 1
    /\ pending' = [pending EXCEPT ![s] = Append(@, t)]
    /\ state' = [state EXCEPT ![t] = "pending"]
    /\ owner' = [owner EXCEPT ![t] = s]
    /\ UNCHANGED queuedDatagramBytes

\* Mutant: a refused task keeps its bytes.
SubmitRefusedKeepsBytes(s, t) ==
    /\ \/ reserved >= HandlerLimit
       \/ ~accepting[s]
       \/ Cardinality(Active(s)) >= MaxConcurrent /\ Len(pending[s]) >= MaxPending
    /\ Settled(t)
    /\ UNCHANGED <<reserved, pending, owner, queuedDatagramBytes>>

\* No reservation, or refused by the scheduler: onSettled runs here, and a
\* reservation that was taken is given back.
SubmitRefused(s, t) ==
    /\ \/ reserved >= HandlerLimit
       \/ ~accepting[s]
       \/ Cardinality(Active(s)) >= MaxConcurrent /\ Len(pending[s]) >= MaxPending
    /\ Settled(t)
    /\ queuedDatagramBytes' = queuedDatagramBytes - Bytes(t)
    /\ UNCHANGED <<reserved, pending, owner>>

SubmitTask(s, t) == SubmitStarted(s, t) \/ SubmitQueued(s, t) \/ SubmitRefused(s, t)

-----------------------------------------------------------------------------
(* pumpDatagrams() *)

\* drainDatagrams() up to its first await.
StartDrainer(s) ==
    IF drainingDatagrams[s]
    THEN UNCHANGED <<drainer, drainingDatagrams>>
    ELSE /\ drainingDatagrams' = [drainingDatagrams EXCEPT ![s] = TRUE]
         /\ AwaitCapacity(s)

IsFull(s) == Len(queue[s]) = QueueCapacity
ReplacedBytes(s) ==
    IF IsFull(s) /\ queueOverflow = "drop-oldest" THEN Size[Head(queue[s])] ELSE 0

WithinByteLimit(s, d) ==
    queuedDatagramBytes - ReplacedBytes(s) + Size[d] <= MaxQueuedDatagramBytes

\* Reading on is possible: the checks of the loop and after the read.
Reading(s, d) ==
    /\ pump[s] = "reading"
    /\ intake[s] /\ ~aborted[s]
    /\ state[d] = "new"

\* size-limit, rate-limit (a choice of the environment here) or byte limit.
PumpDrops(s, d) ==
    /\ Reading(s, d)
    /\ state' = [state EXCEPT ![d] = "dropped"]
    /\ UNCHANGED <<queueOverflow, queue, queuedDatagramBytes, managedBytes, sessionVars, pump,
                   drainer, drainingDatagrams, pending, reserved, owner>>

Fits(s, d) == Size[d] <= MaxDatagramSize /\ WithinByteLimit(s, d)

PumpEnqueues(s, d) ==
    /\ Reading(s, d)
    /\ Fits(s, d)
    /\ ~IsFull(s)
    /\ queue' = [queue EXCEPT ![s] = Append(@, d)]
    /\ queuedDatagramBytes' = queuedDatagramBytes + Size[d]
    /\ managedBytes' = [managedBytes EXCEPT ![s] = @ + Size[d]]
    /\ state' = [state EXCEPT ![d] = "queued"]
    /\ owner' = [owner EXCEPT ![d] = s]
    /\ UNCHANGED <<queueOverflow, sessionVars, pump, pending, reserved>>
    /\ StartDrainer(s)

PumpReplacesOldest(s, d) ==
    /\ Reading(s, d)
    /\ Fits(s, d)
    /\ IsFull(s) /\ queueOverflow = "drop-oldest"
    /\ LET oldest == Head(queue[s])
       IN  /\ queuedDatagramBytes' = queuedDatagramBytes + Size[d] - Size[oldest]
           /\ managedBytes' = [managedBytes EXCEPT ![s] = @ + Size[d] - Size[oldest]]
           /\ state' = [state EXCEPT ![d] = "queued", ![oldest] = "dropped"]
    /\ queue' = [queue EXCEPT ![s] = Append(Tail(@), d)]
    /\ owner' = [owner EXCEPT ![d] = s]
    /\ UNCHANGED <<queueOverflow, sessionVars, pump, pending, reserved>>
    /\ StartDrainer(s)

\* The queue refuses the datagram; close-session also ends the pump, after
\* closeSession() has returned.
PumpOverflows(s, d) ==
    /\ Reading(s, d)
    /\ Fits(s, d)
    /\ IsFull(s) /\ queueOverflow # "drop-oldest"
    /\ state' = [state EXCEPT ![d] = "dropped"]
    /\ IF queueOverflow = "close-session"
       THEN /\ pump' = [pump EXCEPT ![s] = "closing"]
            /\ UNCHANGED <<drainer, drainingDatagrams>>
       ELSE /\ StartDrainer(s)
            /\ UNCHANGED pump
    /\ UNCHANGED <<queueOverflow, queue, queuedDatagramBytes, managedBytes, sessionVars,
                   pending, reserved, owner>>

\* The read ended or failed, the loop saw an abort, or closeSession() returned.
PumpEnds(s) ==
    /\ pump[s] # "ended"
    /\ pump' = [pump EXCEPT ![s] = "ended"]
    /\ UNCHANGED <<queueOverflow, queue, queuedDatagramBytes, managedBytes, sessionVars,
                   drainer, drainingDatagrams, pending, reserved, state, owner>>

-----------------------------------------------------------------------------
(* drainDatagrams() *)

\* The condition of the while loop, then the wait or the end of the drainer.
DrainLoop(s) ==
    IF queue'[s] # <<>> /\ ~aborted'[s] /\ intake'[s]
    THEN AwaitCapacity(s) /\ UNCHANGED drainingDatagrams
    ELSE /\ drainer' = [drainer EXCEPT ![s] = None]
         /\ drainingDatagrams' = [drainingDatagrams EXCEPT ![s] = FALSE]

\* Mutant: an early return that skips the finally block.
DrainerLeavesFlag(s) ==
    /\ drainer' = [drainer EXCEPT ![s] = None]
    /\ UNCHANGED drainingDatagrams

DrainerReturns(s) ==
    /\ drainer' = [drainer EXCEPT ![s] = None]
    /\ drainingDatagrams' = [drainingDatagrams EXCEPT ![s] = FALSE]

\* Resumed, but somebody else took the place, the scheduler was closed, or the
\* queue was emptied meanwhile.
DrainerFindsNothing(s) ==
    /\ drainer[s] = "resuming"
    /\ ~HasCapacity(s) \/ queue[s] = <<>>
    /\ UNCHANGED <<queueOverflow, queue, queuedDatagramBytes, managedBytes, sessionVars, pump,
                   pending, reserved, state, owner>>
    /\ IF ~accepting[s] \/ aborted[s] \/ ~intake[s] \/ queue[s] = <<>>
       THEN DrainerReturns(s) ELSE DrainLoop(s)

\* The oldest datagram goes to the scheduler; then handleSubmissionOutcome()
\* is awaited, closeSession() included.
DrainerSubmits(s) ==
    /\ drainer[s] = "resuming"
    /\ HasCapacity(s)
    /\ queue[s] # <<>>
    /\ LET d == Head(queue[s])
       IN  /\ managedBytes' = [managedBytes EXCEPT ![s] = @ - Size[d]]
           /\ queue' = [queue EXCEPT ![s] = Tail(@)]
           /\ SubmitTask(s, d)
    /\ drainer' = [drainer EXCEPT ![s] = "submitted"]
    /\ UNCHANGED <<queueOverflow, sessionVars, pump, drainingDatagrams>>

DrainerContinues(s) ==
    /\ drainer[s] = "submitted"
    /\ UNCHANGED <<queueOverflow, queue, queuedDatagramBytes, managedBytes, sessionVars, pump,
                   pending, reserved, state, owner>>
    /\ DrainLoop(s)

-----------------------------------------------------------------------------
(* The stream pumps and the handlers *)

\* A stream pump submits: it found capacity before it read, not necessarily now.
SubmitStream(s, t) ==
    /\ state[t] = "new"
    /\ intake[s] /\ ~aborted[s]
    /\ SubmitTask(s, t)
    /\ UNCHANGED <<queueOverflow, queue, managedBytes, sessionVars, pump, drainer,
                   drainingDatagrams>>

\* The end of a task: settle() gives back the reservation and the bytes, the
\* oldest pending task takes the place, the waiters are flushed.
TaskSettles(t) ==
    /\ state[t] = "active"
    /\ LET s == owner[t]
       IN  /\ IF pending[s] = <<>>
              THEN /\ Settled(t)
                   /\ UNCHANGED pending
              ELSE /\ state' = [state EXCEPT ![t] = "settled", ![Head(pending[s])] = "active"]
                   /\ pending' = [pending EXCEPT ![s] = Tail(@)]
           /\ reserved' = reserved - 1
           /\ queuedDatagramBytes' = queuedDatagramBytes - Bytes(t)
           /\ UNCHANGED <<queueOverflow, queue, managedBytes, sessionVars, pump,
                          drainingDatagrams, owner>>
           /\ FlushWaiters(s)

-----------------------------------------------------------------------------
(* stopIntake(), close({discardPending}), finalizeSession() *)

\* Mutant: the queue is cleared but the shared counter keeps its bytes.
ClearDatagramsLocally(s, freed) ==
    /\ queuedDatagramBytes' = queuedDatagramBytes - freed
    /\ managedBytes' = [managedBytes EXCEPT ![s] = 0]
    /\ queue' = [queue EXCEPT ![s] = <<>>]

\* clearDatagrams(), together with the bytes the same turn freed otherwise.
ClearDatagrams(s, freed) ==
    /\ queuedDatagramBytes' = queuedDatagramBytes - managedBytes[s] - freed
    /\ managedBytes' = [managedBytes EXCEPT ![s] = 0]
    /\ queue' = [queue EXCEPT ![s] = <<>>]

\* The server drains: intake ends, accepted work goes on.
StopIntake(s) ==
    /\ intake[s]
    /\ intake' = [intake EXCEPT ![s] = FALSE]
    /\ accepting' = [accepting EXCEPT ![s] = FALSE]
    /\ ClearDatagrams(s, 0)
    /\ state' = [t \in Tasks |-> IF state[t] = "queued" /\ owner[t] = s THEN "dropped" ELSE state[t]]
    /\ UNCHANGED <<queueOverflow, aborted, pump, drainingDatagrams, pending, reserved, owner>>
    /\ FlushWaiters(s)

Discarded(s) == {pending[s][i] : i \in 1..Len(pending[s])}

\* Mutant: discarded tasks keep their reservations.
KeepReservations(s) == reserved' = reserved

\* The release() of every discarded task's settle().
ReleaseDiscarded(s) == reserved' = reserved - Len(pending[s])

\* The drain is over: scheduler.close({ discardPending: true }).
DiscardPending(s) ==
    /\ ~intake[s]
    /\ pending[s] # <<>>
    /\ pending' = [pending EXCEPT ![s] = <<>>]
    /\ ReleaseDiscarded(s)
    /\ queuedDatagramBytes' = queuedDatagramBytes - SumBytes(Discarded(s))
    /\ state' = [t \in Tasks |-> IF t \in Discarded(s) THEN "settled" ELSE state[t]]
    /\ UNCHANGED <<queueOverflow, queue, managedBytes, sessionVars, pump, drainingDatagrams, owner>>
    /\ FlushWaiters(s)

\* The session's signal is aborted: finalizeSession() runs in its listener.
Finalize(s) ==
    /\ ~aborted[s]
    /\ aborted' = [aborted EXCEPT ![s] = TRUE]
    /\ intake' = [intake EXCEPT ![s] = FALSE]
    /\ accepting' = [accepting EXCEPT ![s] = FALSE]
    /\ pending' = [pending EXCEPT ![s] = <<>>]
    /\ ReleaseDiscarded(s)
    /\ ClearDatagrams(s, SumBytes(Discarded(s)))
    /\ state' = [t \in Tasks |->
                   IF t \in Discarded(s) THEN "settled"
                   ELSE IF state[t] = "queued" /\ owner[t] = s THEN "dropped" ELSE state[t]]
    /\ UNCHANGED <<queueOverflow, pump, drainingDatagrams, owner>>
    /\ FlushWaiters(s)

-----------------------------------------------------------------------------
DrainerStep(s) == DrainerFindsNothing(s) \/ DrainerSubmits(s) \/ DrainerContinues(s)

Next ==
    \/ \E s \in Sessions :
          \/ \E d \in Datagrams : PumpDrops(s, d) \/ PumpEnqueues(s, d)
                                  \/ PumpReplacesOldest(s, d) \/ PumpOverflows(s, d)
          \/ \E t \in StreamTasks : SubmitStream(s, t)
          \/ PumpEnds(s) \/ DrainerStep(s)
          \/ StopIntake(s) \/ DiscardPending(s) \/ Finalize(s)
    \/ \E t \in Tasks : TaskSettles(t)

Spec == Init /\ [][Next]_vars

-----------------------------------------------------------------------------
(* Properties *)

InQueue(s) == {d \in Datagrams : state[d] = "queued" /\ owner[d] = s}
Scheduled == {t \in Tasks : state[t] \in {"pending", "active"}}

\* The shared byte counter is what the datagrams in queues, in schedulers and
\* in handlers hold, and each session's counter is what its queue holds, after
\* every replacement, refusal, discard and clear; so the counter returns to 0
\* and the limit is never exceeded.
BytesExact ==
    /\ queuedDatagramBytes = SumBytes({d \in Datagrams : state[d] \in {"queued", "pending", "active"}})
    /\ \A s \in Sessions : managedBytes[s] = SumBytes(InQueue(s))
    /\ queuedDatagramBytes <= MaxQueuedDatagramBytes

\* The handler budget holds one reservation for every scheduled task.
ReservationsExact == reserved = Cardinality(Scheduled)

\* No lost wakeup between pump and drainer: a datagram lies in the queue only
\* while the one drainer of its session is on its way to it, and never after
\* intake was stopped; the flag that keeps a second drainer out is exact.
QueuedIsDrained ==
    \A s \in Sessions :
        /\ queue[s] # <<>> => intake[s] /\ ~aborted[s] /\ drainer[s] # None
        /\ drainingDatagrams[s] <=> drainer[s] # None

\* The drainer waits for a place only while the scheduler is open and full.
DrainerNotStranded ==
    \A s \in Sessions : drainer[s] = "waiting" => accepting[s] /\ ~HasCapacity(s)

\* Every byte and every reservation is accounted for.
AccountsExact == TypeOK /\ BytesExact /\ ReservationsExact

\* Pump and drainer never miss each other: no datagram is left without a
\* drainer and no drainer waits for a place that is there.
NoLostWakeup == QueuedIsDrained /\ DrainerNotStranded
=============================================================================
