---------------------------- MODULE HandlerBudget ----------------------------
(***************************************************************************)
(* The process-wide handler budget of the WebTransport runtime             *)
(* (packages/nest-webtransport/src/server/handler-budget.ts).              *)
(*                                                                         *)
(* A caller first takes a reservation, then calls run() with its task and  *)
(* an abort signal, and gives the reservation back once run() has settled  *)
(* (or without ever calling run(), when its task is discarded).  At most   *)
(* Concurrency tasks hold a slot; the others wait in insertion order.      *)
(*                                                                         *)
(* One JavaScript turn is one action.  A granted waiter only continues in  *)
(* a later microtask, so an abort can fall between the grant and the       *)
(* check that follows it.  Every task has a signal of its own: a signal    *)
(* shared by several tasks is the same as several Abort steps in a row.    *)
(***************************************************************************)
EXTENDS Integers, Sequences, FiniteSets

CONSTANTS Tasks,        \* the calls of one budget, each used once
          Concurrency,  \* the slots: HandlerBudget.concurrency
          Pending       \* the extra reservations: HandlerBudget.pending

ASSUME TasksFinite == IsFiniteSet(Tasks)
ASSUME ConcurrencyPositive == Concurrency \in Nat \ {0}
ASSUME PendingNatural == Pending \in Nat

VARIABLES reserved,   \* HandlerBudget.reserved
          running,    \* HandlerBudget.running
          waiters,    \* HandlerBudget.waiters: a JavaScript Set, insertion ordered
          token,      \* the closure reserve() returned to each task
          call,       \* where each task's call of run() is
          aborted     \* the tasks whose signal has been aborted

vars == <<reserved, running, waiters, token, call, aborted>>

TokenStates == {"none", "held", "released"}
CallStates == {"none", "waiting", "granted", "running", "settled"}

TypeOK ==
    /\ reserved \in Nat
    /\ running \in Nat
    /\ waiters \in Seq(Tasks)
    /\ token \in [Tasks -> TokenStates]
    /\ call \in [Tasks -> CallStates]
    /\ aborted \subseteq Tasks

Init ==
    /\ reserved = 0
    /\ running = 0
    /\ waiters = <<>>
    /\ token = [t \in Tasks |-> "none"]
    /\ call = [t \in Tasks |-> "none"]
    /\ aborted = {}

-----------------------------------------------------------------------------
(* reserve() and the release closure *)

\* Mutant: admits one reservation too many.
ReserveOffByOne(t) ==
    /\ token[t] = "none"
    /\ reserved <= Concurrency + Pending
    /\ reserved' = reserved + 1
    /\ token' = [token EXCEPT ![t] = "held"]
    /\ UNCHANGED <<running, waiters, call, aborted>>

Reserve(t) ==
    /\ token[t] = "none"
    /\ reserved < Concurrency + Pending
    /\ reserved' = reserved + 1
    /\ token' = [token EXCEPT ![t] = "held"]
    /\ UNCHANGED <<running, waiters, call, aborted>>

\* Mutant: forgets the released flag.
GiveBackAlways(t) ==
    /\ reserved' = reserved - 1
    /\ token' = [token EXCEPT ![t] = "released"]

\* The closure gives the reservation back on its first call only.
GiveBack(t) ==
    /\ reserved' = IF token[t] = "held" THEN reserved - 1 ELSE reserved
    /\ token' = [token EXCEPT ![t] = "released"]

\* Callers release before run() is called or once it has settled; they may
\* release more than once.
Release(t) ==
    /\ token[t] # "none"
    /\ call[t] \in {"none", "settled"}
    /\ GiveBack(t)
    /\ UNCHANGED <<running, waiters, call, aborted>>

-----------------------------------------------------------------------------
(* run(), acquire() and wake() *)

\* Mutant: a wakeup that never grants.
GrantNone(r, w) == 0

\* How many waiters the loop of wake() grants when r slots are taken and w waits.
GrantCount(r, w) ==
    IF r >= Concurrency THEN 0
    ELSE IF Len(w) <= Concurrency - r THEN Len(w) ELSE Concurrency - r

\* Mutant: the newest waiters are served first.
WakeNewest(r, w, c) ==
    LET kept == Len(w) - GrantCount(r, w)
    IN  /\ running' = r + GrantCount(r, w)
        /\ waiters' = SubSeq(w, 1, kept)
        /\ call' = [t \in Tasks |-> IF \E i \in (kept + 1)..Len(w) : w[i] = t THEN "granted" ELSE c[t]]

\* wake(), run with r slots taken, the waiters w and the calls c.
Wake(r, w, c) ==
    LET n == GrantCount(r, w)
    IN  /\ running' = r + n
        /\ waiters' = SubSeq(w, n + 1, Len(w))
        /\ call' = [t \in Tasks |-> IF \E i \in 1..n : w[i] = t THEN "granted" ELSE c[t]]

\* acquire() of an aborted signal rejects and takes nothing.
RunAborted(t) ==
    /\ t \in aborted
    /\ call' = [call EXCEPT ![t] = "settled"]
    /\ UNCHANGED <<running, waiters>>

SlotFree == running < Concurrency /\ waiters = <<>>

RunAcquire(t) ==
    /\ t \notin aborted
    /\ SlotFree
    /\ running' = running + 1
    /\ call' = [call EXCEPT ![t] = "granted"]
    /\ UNCHANGED waiters

RunWait(t) ==
    /\ t \notin aborted
    /\ ~SlotFree
    /\ waiters' = Append(waiters, t)
    /\ call' = [call EXCEPT ![t] = "waiting"]
    /\ UNCHANGED running

Run(t) ==
    /\ token[t] = "held"
    /\ call[t] = "none"
    /\ RunAborted(t) \/ RunAcquire(t) \/ RunWait(t)
    /\ UNCHANGED <<reserved, token, aborted>>

\* The continuation of a granted acquire(): throwIfAborted, then the task.
Start(t) ==
    /\ call[t] = "granted"
    /\ t \notin aborted
    /\ call' = [call EXCEPT ![t] = "running"]
    /\ UNCHANGED <<reserved, running, waiters, token, aborted>>

\* Mutant: the finally block is skipped when throwIfAborted threw.
SettleStartedOnly(t) ==
    \/ /\ call[t] = "running"
       /\ Wake(running - 1, waiters, [call EXCEPT ![t] = "settled"])
       /\ UNCHANGED <<reserved, token, aborted>>
    \/ /\ call[t] = "granted" /\ t \in aborted
       /\ call' = [call EXCEPT ![t] = "settled"]
       /\ UNCHANGED <<reserved, running, waiters, token, aborted>>

\* The finally block, after the task or after throwIfAborted threw.
Settle(t) ==
    /\ call[t] = "running" \/ (call[t] = "granted" /\ t \in aborted)
    /\ Wake(running - 1, waiters, [call EXCEPT ![t] = "settled"])
    /\ UNCHANGED <<reserved, token, aborted>>

\* The sequence w without its i-th element.
Without(w, i) == [j \in 1..(Len(w) - 1) |-> IF j < i THEN w[j] ELSE w[j + 1]]

\* Mutant: the listener rejects but leaves its waiter in the set.
AbortWithoutDelete(t) ==
    \E i \in 1..Len(waiters) :
        /\ waiters[i] = t
        /\ Wake(running, waiters, [call EXCEPT ![t] = "settled"])

\* The abort listener of a waiter: leave the set, reject, wake the others.
AbortWaiting(t) ==
    \E i \in 1..Len(waiters) :
        /\ waiters[i] = t
        /\ Wake(running, Without(waiters, i), [call EXCEPT ![t] = "settled"])

AbortOther(t) ==
    /\ call[t] # "waiting"
    /\ UNCHANGED <<running, waiters, call>>

Abort(t) ==
    /\ t \notin aborted
    /\ aborted' = aborted \cup {t}
    /\ AbortWaiting(t) \/ AbortOther(t)
    /\ UNCHANGED <<reserved, token>>

-----------------------------------------------------------------------------
Next ==
    \E t \in Tasks :
        Reserve(t) \/ Release(t) \/ Run(t) \/ Start(t) \/ Settle(t) \/ Abort(t)

\* Promise continuations always run; a task that started is assumed to finish.
Fairness == \A t \in Tasks : WF_vars(Start(t)) /\ WF_vars(Settle(t))

Spec == Init /\ [][Next]_vars /\ Fairness

-----------------------------------------------------------------------------
(* Properties *)

Held == {t \in Tasks : token[t] = "held"}
Holders == {t \in Tasks : call[t] \in {"granted", "running"}}
Waiting == {t \in Tasks : call[t] = "waiting"}

\* The two counters count exactly the reservations not given back and the
\* calls that hold a slot: no path of run(), abort or release leaks a unit of
\* capacity or gives one back twice.
CountersExact ==
    /\ reserved = Cardinality(Held)
    /\ running = Cardinality(Holders)

\* Work conservation: a call waits only while every slot is taken.  acquire()
\* queues behind other waiters, so it rests on wake() never losing a wakeup
\* when a holder settles or a waiter is aborted.
NoIdleSlotWhileWaiting == waiters # <<>> => running = Concurrency

\* The bounds the runtime relies on: slots, reservations, and, although run()
\* itself never refuses a waiter, at most Pending calls wait.
Bounded ==
    /\ running \in 0..Concurrency
    /\ reserved \in 0..(Concurrency + Pending)
    /\ Len(waiters) <= Pending

\* The waiter set holds exactly the calls that wait, each once, and none of
\* them is aborted: an abort never leaves its listener's waiter behind.
WaitersExact ==
    /\ \A i, j \in 1..Len(waiters) : waiters[i] = waiters[j] => i = j
    /\ \A t \in Tasks : t \in Waiting <=> \E i \in 1..Len(waiters) : waiters[i] = t
    /\ Waiting \cap aborted = {}

\* A call inside run() still holds its reservation.
CallsReserved == \A t \in Tasks : call[t] \in {"waiting", "granted", "running"} => token[t] = "held"

\* No call overtakes one that waited before it: when a call gets a slot, every
\* waiter that stays was behind it in insertion order, and a call that never
\* waited gets one only when nobody waits.
NoOvertaking ==
    [][\A t \in Tasks :
          (call[t] \in {"none", "waiting"} /\ call'[t] = "granted") =>
             \A u \in Tasks : (call[u] = "waiting" /\ call'[u] = "waiting") =>
                \E i, j \in 1..Len(waiters) : i < j /\ waiters[i] = t /\ waiters[j] = u]_vars

\* Every waiting call is granted or aborted in the end, if tasks finish.
WaiterServed == \A t \in Tasks : call[t] = "waiting" ~> call[t] # "waiting"

\* The budget knows exactly who holds, works and waits, within its bounds.
BudgetExact == TypeOK /\ CountersExact /\ Bounded /\ WaitersExact
=============================================================================
