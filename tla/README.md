# Verification of nest-webtransport

TLA+ models of the server side of `nest-webtransport`, checked with TLC and
partly proved with TLAPS. Paths are relative to the repository; `runtime.ts`
stands for `packages/nest-webtransport/src/server/webtransport-runtime.ts`.

## The system

A NestJS application starts a **runtime**, which owns a **driver**. The driver
delivers sessions; the runtime admits them, pumps their datagrams and streams
into handlers under several limits, and retires them. All of it runs on one
JavaScript thread: the concurrency is that of callbacks and promise
continuations, and everything read before an `await` may be stale after it.

| Component | State | Operations | Hard because |
|---|---|---|---|
| Handler budget (`handler-budget.ts`) | `running`, `reserved`, waiting line | `reserve`, release, `run`, abort | grants race aborts; a lost wakeup stalls the server |
| Session scheduler (`bounded-task-scheduler.ts`) | active count, queue, two sets of waiters | `submit`, task end, `close`, `whenCapacityAvailable`, `onIdle` | tasks fail, are discarded and pull from the queue; waiters are woken from four places |
| Bounded queue (`core/.../bounded-queue.ts`) | ring, head, size | `enqueue` (four policies), `dequeue`, `peek`, `clear` | wraparound |
| Datagram path (`runtime.ts` 709-831, 1304-1336, 1354-1435) | queue and byte counters per session, shared byte counter, drainer flag | pump, drainer, handler settlement, intake stop, finalization | three coroutines per session share counters across awaits |
| Address limits (`runtime.ts` 1218-1275) | table of counts and recent attempts | `acquireIpSlot`, sweep, `releaseIpSlot` | records come and go while counts and rates must persist |
| Admission and retirement (`runtime.ts` 420-707, 1360-1447) | `sessions`, `outstandingSessions`, one `ManagedSession` each | `acceptSession`, timeout, abort, `finalizeSession`, `retireSession` | user promises outlive timeouts and disconnects |
| Start and stop (`runtime.ts` 157-418, `core/.../lifecycle.ts`, health service) | lifecycle state, two in-flight promises | bootstrap, `stop`, abort signal | stop during start, failed stops, restart, the driver dies by itself |
| Streams and idle timer (`runtime.ts` 861-1130, 1277-1302) | stream counters, timers | pumps, `trackStream`, `touch` | several releases of one stream; timer against activity |
| Dispatch (`runtime.ts` 1132-1200, 1448-1595, `execution-pipeline.ts`, registry) | the phase of each event, what it was allowed and what it has called | resolver, guard, interceptor, pipes, handler, filters | application code answers when it likes, the session's signal aborts meanwhile |
| RWebTransport driver (`driver-rwebtransport/src`) | state, two promises; one server adapter per start | `start`, `stop`, drain, deadline | coalesced starts and stops, drain and deadlines, a native server that dies |
| Session and stream adapters (same package) | state, bridges over native streams, locks, signals | read, write, open, cancel, close, reset | native callbacks in any order against calls of the application and the session's end |
| Testing package (`testing/src`) | session pairs, streams, queues of streams, counters | connect, open, accept, close, stop | promises of both ends of a pair, ceilings, stop against connect |
| Rate windows, driver sessions and statistics, datagram adapter, decorators, options, error mapper, OpenTelemetry, examples | see `PROJECT.json` | | not modelled, see below |

Interaction: the runtime calls the driver (`start`, `stop`, `onSession`); the
driver's session signal calls back into `finalizeSession()`; every handler and
every admission takes a reservation of the one handler budget and runs inside a
session scheduler (handlers) or directly (admissions); settling gives back the
reservation and, for datagrams, the bytes.

What makes the parts correct: limits are never exceeded and every counter is
exactly what is held (so nothing leaks over a long run); nobody waits for what
is already there; what is accepted is settled once; a session's place and
address slot live exactly as long as its work; nothing is brought to life after
the session or the server was told to stop.

`PROJECT.json` lists the hazards behind these properties line by line.

## Modules

An action is one turn: from the start of a callback or continuation to its next
`await`. Comments in each module name the functions. Every module holds, before
the definition concerned, the mutants (plausible bugs) that show that each
property can fail.

| Module | Models | State and actions |
|---|---|---|
| `HandlerBudget` | `handler-budget.ts` | tokens of `reserve()` and calls of `run()` per task; `Reserve`, `Release`, `Run`, `Start`, `Settle`, `Abort`, with `Wake` inside |
| `BoundedTaskScheduler` | `bounded-task-scheduler.ts` | its fields, and what became of each task; `Submit`, `Fail`, `Finish`, `Close`, the two waits, `AbortWaiter`, with `FlushWaiters` inside |
| `FifoQueue` | the promise of a bounded queue | a sequence and the last result |
| `BoundedQueue` | `bounded-queue.ts` | ring, head and size; refines `FifoQueue` |
| `DatagramFlow` | the datagram path; composes queue, scheduler, both budgets and the session's signals | pump, drainer and tasks as program counters |
| `IpSlots` | the address limits | table, attempts and clock; each session's answer as history (`granted`, `refused`) |
| `SessionAdmission` | admission to retirement, shutdown and restart | the life of each session: `acceptSession()`'s program counter, the admission promise, pumps, tasks; the lifecycle state |
| `Lifecycle` | the promise of `lifecycle.ts` | the states of a server and the transitions allowed |
| `DriverLifecycle` | `driver.ts` start and stop, `server.adapter.ts`; no `Next` of its own | the driver's state and its two promises, one adapter and one native server per start; `Start`, `Stop`, drain, deadline, death of the server |
| `RuntimeLifecycle` | start and stop of the runtime, its signal, the health service | extends `DriverLifecycle`: the runtime is the only caller of the driver; implements `Lifecycle` |
| `StreamTracking` | stream pumps, `trackStream`, `touch` | counters, timers and a clock; each pump as a program counter |
| `Dispatch` | `dispatch*` of the runtime, the pipeline, `find()` | the phase of each event, the parameters it waits for, what was allowed and called |
| `SessionAdapter` | `session.adapter.ts` | where each stream is; `Pull` and its three outcomes, `Open` and its three, `Cancel`, `Close`, `Finish` |
| `StreamAdapter` | `stream.adapter.ts` | halves, parts, operations on the native halves |
| `VirtualDriver` | `virtual-driver.ts`, `mock-session.ts`, `mock-stream.ts` | sessions, streams, queues of incoming streams, counters |
| `LimitsProofs` | theorems on `HandlerBudget` and `IpSlots` | |
| `ExecutionProofs` | theorems on `BoundedTaskScheduler` and `Dispatch` | |
| `DriverProofs` | theorems on `SessionAdapter`, `StreamAdapter` and `VirtualDriver` | |
| the other `*Proofs` | theorems on the module they are named after; `RuntimeLifecycleProofs` also on `DriverLifecycle` | |
| `MC*.tla` | the functions, and for `MCIpSlots` the symmetry, that TLC needs | |
| `MC*.cfg` | one for each run; a module without an `MC` module is run as it stands | |

`DatagramFlow` uses the queue as the sequence of `FifoQueue`, which
`BoundedQueue` is proved to implement, and the scheduler by the same rules as
`BoundedTaskScheduler`. `SessionAdmission` leaves to the other modules when the
budget lets a waiting call run (here at any time), the rate limit and table of
the addresses (here a refusal at any time) and which datagrams and streams
arrive. Waits that a timer bounds (handshake, drain, forced close) may end at
any time.

`RuntimeLifecycle` and the driver share one state: every interleaving of the
runtime's promises with those of the driver and of its native server is
explored. `DriverLifecycle` is the driver's part, with its own properties
(`RunningServes`, `DriverProgress`), checked under the calls that the runtime
makes. The adapters and the testing package follow the Web Streams standard
where the code relies on it (what `enqueue()`, `close()` and `error()` of a
controller do in each state, when `pull()` is called, that a sink's `abort()`
waits for its write); these rules are the definitions marked external. Where
`StreamTracking` and `SessionAdapter` leave the inside of a stream open, a
stream may end at any time, which `StreamAdapter` refines.

## Runs

The bounds are the smallest at which every action fires and the limits that a
component enforces itself are reached and exceeded: a race needs two actors, a
retry needs two attempts, and the next bound adds only more of the same. One run
checks the safety and the liveness of a component; `datagram_flow` and `ip_slots`
are safety only.

| Run | Bounds, and why they are enough | Shows |
|---|---|---|
| `handler_budget` | 4 calls at 1 slot and 2 pending places: one runs, two wait, one is refused | `BudgetExact` (types, counters, bounds, waiting line), no idle slot while a call waits, no overtaking, a waiting call is served or aborted |
| `scheduler` | 5 tasks, 2 waiters; 2 places and a queue of 2, so that a fifth is refused | `SchedulerExact` (types, places, no idle place while something is queued), each task settled once, order, no stranded waiter; accepted tasks settle, waits end (`SchedulerProgress`) |
| `bounded_queue` | 3 values, ring of 3, four policies: every head and size | refinement of `FifoQueue`, vacated slots cleared |
| `datagram_flow` | 2 sessions, 3 datagrams of two sizes, 1 stream handler; queue of 1, one running and one pending per session, budget of 2 | `AccountsExact` (shared bytes and reservations), `NoLostWakeup` (what is queued has a drainer, and the drainer is not stranded) |
| `ip_slots` | 6 sessions, 4 addresses against a table of 3, 2 sessions per address, rate of 2 in a window of 2, clock 0..4 | `TableExact` (counts, bound), rate respected across sweeps, every refusal justified, also one that leaves the table as it was |
| `session_admission` | 2 sessions of one id from different addresses; 2 places, budget of 2, 1 + 1 handlers each | `ChargesExact` (places, reservations, work stays charged), `RegistryKept` (registry exact, a stopped server is quiet), nothing is started after a stop; ended and rejected sessions retire, a stop ends every session |
| `stream_tracking` | 1 session, 4 streams of 2 kinds against ceilings of 1 and 2 and 2 in all; idle timeout of 1 tick | `TrackingExact` (counters exact whatever releases a stream, no stream outlives its signal, an open session is watched), no idle close of a busy session; idle sessions close and sessions told to stop become empty |
| `runtime_lifecycle` | 2 native servers, one for each start: a start, a stop, a restart, and a stop that fails | a running driver serves; `StateTruthful` (ready serves, stopped is down); the transitions are those of `Lifecycle`; aborts, stops, starts and deaths take effect (`RuntimeProgress`) |
| `stream_adapter` | one stream of each shape, 1 other stream | `PartsCounted` (metric and parts), no needless reset, the signal frees both halves |
| `session_adapter` | 2 incoming and 2 outgoing streams | every stream ends with its session and none is left in a queue, unless a stream before it could not be adapted, which the application is told (`NoStreamEscapes`); none is handed to nobody, nothing stays pending |
| `dispatch` | 2 events, 2 handlers, 2 parameters | `HandlersReached` (each handler at most once, after its guard, none skipped for another's error); after an abort no call and no new stage but a filter that was being looked up (`NothingBegunAfterAbort`); every event ends |
| `virtual_driver` | 2 sessions at a ceiling of 1, 2 streams, queues of 1 | `VirtualStateExact` (counters, stopped is empty, every end complete); `stop()` and failed connects settle |

Larger sets than these add no new kind of step: sessions meet each other only
through an id, an address and the counts. In `session_admission` the two share
their id and reach the server's ceiling without exceeding it; a refusal at a
ceiling may happen at any time there, and the ceilings themselves, exceeded by
sessions of one address and of several, are the subject of `ip_slots`. An idle timeout of one tick is
enough because a timer armed for too long shows as a close that never comes,
and one armed for too short as a close without a tick.

Only `ip_slots` uses symmetry (sessions of one address are interchangeable, and
it checks no liveness). Deadlock is checked for the queue, which always
accepts a call; the other systems stop when all their sessions or tasks are
over.

Fairness. A settled promise's continuation runs, a due timer fires and a pull
that is due is made, so these steps are weakly fair. User work (handlers,
`onError`, authentication) is assumed to settle; the code does not enforce
that, and says so (`runtime.ts` 539): such work keeps its place until it
settles, which is what `WorkStaysCharged` states without any fairness. In
`SessionAdmission` nothing is assumed of `session.close()`:
`RejectedSessionsRetire` has its working as a hypothesis, while
`StopRetiresSessions` holds even if it hangs and `driver.stop()` fails. A
session that was rejected and whose `close()` fails keeps its place until the
peer leaves or the server stops. Of the native transport it is assumed that a
server told to stop, or a session told to close, ends, and that operations on
its streams settle; nothing is assumed of what the peer or the application
starts. In `virtual_driver` callbacks of a test may never return.

## Proofs

Every invariant and every action property that a run checks, and both
refinements, are also theorems: they hold for every value of the constants that
the modules' `ASSUME`s allow. These ask for positive limits and capacities,
pending places that are natural numbers, kinds of streams that exist, disjoint
sets of streams and of tasks, and a registry that is a sequence of different
handlers. Sessions, tasks and streams that counters add up are finite sets,
except in `DatagramFlow` and `VirtualDriver`, where there may be infinitely many
and the invariant says that those held at one time are finitely many. The
number of starts, the length of a window and the bound on the clock are any.

Where modules share no state, one module holds the theorems of several: their
names differ, and each part has its own invariant.

Hardly any property is inductive as it stands. What each invariant adds, and why:

* `LimitsProofs`, the budget. A grant must find its waiter in the state it
  expects. `IndInv` adds the type invariant, that the line holds exactly the
  waiting calls, each once, and that every call belongs to a held reservation,
  from which the bound of the line follows. `WakeOldest` and `WakeNobody` are
  the lemmas about the wake loop: since no slot idles while a call waits, it
  grants at most one slot per turn.
* `LimitsProofs`, the addresses. That the rate is respected is about sessions
  that may have gone and records that may have been swept. `GrantsRemembered`
  relates the two: since every time within the window that counts, as many
  attempts are recorded as slots were granted. A sweep, the shift of expired
  attempts and a released record keep it (`KeepsWindow`), because what they
  forget is older than the window; the attempts are ordered in time, which
  makes the shift exact. `RefusalIsJustified` reads the same relation the other
  way: what a refusal counts in the table are sessions that hold a slot or were
  granted one within the window.
* `ExecutionProofs`, the scheduler. The invariant joins the type invariant with
  the four safety properties: that a waiter is not stranded needs that a place
  idles only when nothing is queued, which in turn needs the counter to be
  exact.
* `ExecutionProofs`, the dispatch. `Sound` says of each phase of an event which
  of its handlers may have been called: none of those that are left, the first
  one only while it runs or its error is being filtered, and from the guard on
  only an allowed one. An event is over with handlers left only if the session
  has aborted or an error ended the event as a whole.
* `BoundedQueueProofs`. The invariant says which slots are occupied; the
  effects of each operation on `ToArray` are lemmas about positions modulo the
  capacity, and `StepRefines` maps each step to one of `FifoQueue`.
* `DatagramFlowProofs`. Bytes are the size of the set of pairs of a datagram and
  one of its bytes, so that sums need no induction: they follow from the
  theorems about finite sets (`BytesAdd`, `BytesRemove`). `PlacesExact` says
  that a task's state tells where it is, in the queue or in the scheduler of its
  owner, in each exactly once (`Holds`), and `IntakeExact` that the scheduler
  accepts as long as the intake is on. With these each step moves its bytes and
  reservations, and `NoLostWakeup` follows case by case: whoever adds to the
  queue starts a drainer, and whoever frees a place wakes the one that waits.
* `SessionAdmissionProofs`. Three things make the charges inductive: a session
  being admitted is outstanding or was finalized meanwhile, a finalized session
  takes nothing new and all that it still does is among what its retirement
  waits for (`FinalizedIsWaitedFor`), and a server that does not run has turned
  off the intake of every session that is left (`DownIsOff`). The action
  property is proved with one lemma per action that takes work.
* `StreamTrackingProofs`. A tracked stream was read by a pump, an aborted session
  is finalized and a finalized one has its intake off, and the age in the code's
  `lastActivityAt` never exceeds the time that the session has really been quiet
  (`QuietAtLeastAge`): so the timer may fire late but not early. Which streams an
  abort releases is counted by subtraction (`CountOfRest`).
* `RuntimeLifecycleProofs`. For any number of starts: `RunningServes`,
  `StateTruthful` and that the runtime implements `Lifecycle`. `DriverInv` says
  that the driver knows the one native server that may be alive, that start and
  stop concern that server, and that an adapter whose start is still due was
  never told to stop; `RuntimeInv` says where `stop()` is in each state, that a
  start which still waits for a stop finds its signal aborted unless the runtime
  waits for it, and that nothing is alive once a start was rejected or a stop
  resolved. The lemma of each action keeps one of the two; a native server is
  made only by a bootstrap, when the runtime is stopped and nothing is alive.
* `DriverProofs`, the session. `BridgeExact` adds what the bridge's flag tells:
  the session is over, or nobody reads, only if it is set, and a `pull()` that
  waits has left nothing queued. `FailureIsTold` belongs to the invariant too: it
  is why no stream is read once the bridge has let go of the native collection.
* `DriverProofs`, the stream. `AbortFacts` and `FinishFacts` state what
  `lifecycle.abort()` and `finish()` do, once for the actions that call them. The
  invariant adds that only halves that are there are operated on, and that a
  session which has ended leaves no writer that could still be reset
  (`SessionLeavesNoWriter`), which is what `NoNeedlessReset` needs.
* `DriverProofs`, the virtual driver. `TrackedIsOpen` (a stream that is still to
  be reset belongs to an open session) makes the end of a session complete,
  `EndsFit` relates the state of a session to how it ended, and `CallsFit` says
  that a `stop()` waits for whatever is left, so that a stopped driver is empty.

Only model-checked: liveness, that is `WaiterServed`, `SchedulerProgress`,
`EndedSessionsRetire`, `RejectedSessionsRetire`, `StopRetiresSessions`,
`TrackingProgress`, `RuntimeProgress`, `SignalReleasesHalves`, `NothingPends`,
`EventsEnd` and `StopsAndRejects`. The prover has no rule for fairness and
`ENABLED`.

## Observations

Behaviours met while modelling that a reader of the code may not expect. The
models have them; no run is about them.

* A stream's error is handled by `reset()` (`runtime.ts` 898). When that itself
  rejects, the error leaves the pump, and the session takes no more streams of
  that kind. `TrackingProgress` does not exclude it: it says what pumps and
  sessions come to, not that a pump survives.
* When the constructor of a stream adapter throws inside `pull()`
  (`session.adapter.ts` 90-98), the application's collection fails and
  `release()` marks the bridge as finished without cancelling the native
  collection. The stream just read is neither handed over nor discarded, and
  what the native collection keeps or still gets is cancelled by nobody, not
  even by `close()`, whose `cancel()` returns early. `createBidirectionalStream()`
  and `createUnidirectionalStream()` drop the native stream in the same way
  (225-236, 243-249). `NothingLeftBehind` excepts this case by name (`Unadapted`).
* `createdEnhancers` (`execution-pipeline.ts` 288-296) is for invocations without
  a context id. The runtime passes one with every call, so that each invocation
  creates its own instance of an enhancer that is no provider.
* `handleException()` does not look at the signal: a filter that was being
  looked up when the session ended is still called (`FiltersResolved`).
* The adapter keeps the promise of its first `stop()` (`server.adapter.ts`
  119), so that a stop that has failed fails again when it is repeated, even
  after the native server has closed. A `start()` of the driver in that state
  replaces the server; the runtime never makes one, which is why
  `StateTruthful` holds.
* Cancelling the readable of a stream during a pull aborts the stream as a whole
  (`StreamAdapter`).
* Pipes run under `Promise.all`: when one fails, the others go on after the event
  has ended and its reservation was given back (`Dispatch`).

## Not modelled

* Rate windows: `FixedWindowRateLimiter`, the datagram rate and the log limit of
  the runtime. They are synchronous counters that nothing else reads; of the
  clocks, `IpSlots` has one that advances, and clocks that step back are left out.
* Sessions and statistics of the RWebTransport driver, and its datagram
  adapter: the first count and forward what `SessionAdmission` then admits, the
  second follows the pattern of `StreamAdapter` with two independent halves.
* The byte pipes and datagram queues of the testing package, and its client:
  `VirtualDriver` takes bytes and datagrams as they come.
* Decorators, discovery and option validation: they run once, sequentially,
  before anything is served, and keep no state afterwards.
* The content of messages, codecs, error mapping, logging text, metrics and
  OpenTelemetry: no control depends on them.
* Chains of several guards or interceptors, Observables, and an interceptor
  that does not wait for its handler or calls `next.handle()` more than once.
* A session that ends with a reason of scope `STREAM`, which `StreamAdapter`
  would have to treat as an error of the stream; a test that cancels its
  collection of incoming streams (`VirtualDriver`).
* `ConcurrencyLimiter`: a counter that holds nothing across turns.
* The vendored native transport, which is third-party code and appears as the
  external definitions, and the example applications.

## What is left

1. That `DatagramFlow` uses its queue and its scheduler as `FifoQueue` and
   `BoundedTaskScheduler` allow, as refinements instead of by the same rules.
2. The safety facts behind the liveness properties: for each `~>`, that a step
   which must happen stays possible until it does.
3. The sessions and the datagram adapter of the RWebTransport driver.
