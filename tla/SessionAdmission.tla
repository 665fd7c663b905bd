--------------------------- MODULE SessionAdmission ---------------------------
(***************************************************************************)
(* The life of a session in webtransport-runtime.ts: admission, pumps,     *)
(* handlers, finalizeSession(), retireSession(), and server shutdown with  *)
(* a possible restart.  A session keeps its place among the outstanding    *)
(* sessions, and its address slot, until the last of its work has ended;   *)
(* user work is a Promise that an abort cannot end.                        *)
(*                                                                         *)
(* Abstracted: when the handler budget lets waiting work run (see          *)
(* HandlerBudget: here, at any time), the rate and the table of the        *)
(* address limit (see IpSlots: here, a refusal at any time), starting the  *)
(* driver (one step, from STOPPED to RUNNING), and datagrams and streams   *)
(* themselves (see DatagramFlow).  Waits that a timer bounds may end at    *)
(* any time.                                                               *)
(***************************************************************************)
EXTENDS Integers, FiniteSets

CONSTANTS Sessions, Ids, Ips,
          IdOf, IpOf,            \* session.id and session.remoteAddress
          Kinds,                 \* the incoming collections that have handlers
          MaxSessions,           \* options.limits.server.maxSessions
          IpMaxSessions,         \* options.limits.ip.maxSessions
          HandlerLimit,          \* the budget's concurrency + pending
          MaxConcurrentHandlers, \* options.execution.maxConcurrentHandlers
          MaxPendingHandlers,    \* options.execution.maxPendingHandlers
          NoSession

ASSUME AdmissionSessions ==
    /\ IsFiniteSet(Sessions) /\ NoSession \notin Sessions
    /\ IdOf \in [Sessions -> Ids] /\ IpOf \in [Sessions -> Ips]
ASSUME AdmissionKinds == Kinds \subseteq {"datagrams", "bidirectional", "unidirectional"}
ASSUME AdmissionLimits ==
    /\ {MaxSessions, IpMaxSessions, HandlerLimit, MaxConcurrentHandlers} \subseteq Nat \ {0}
    /\ MaxPendingHandlers \in Nat

VARIABLES
    pc,           \* how far acceptSession() has come
    work,         \* the admission Promise
    closed,       \* the sessions whose signal has aborted
    closing,      \* the managed sessions that close() was called on, until it takes effect
    cancelled,    \* admissionController.signal.aborted
    intakeOff,    \* intakeController.signal.aborted: scheduler closed, readers gone
    finalized,    \* managed.finalized
    sessions,     \* the sessions map, by id
    outstanding,  \* the outstandingSessions set
    ipActive,     \* the active count of each address
    pumps,        \* managed.pumps
    active,       \* started tasks of the schedulers
    queued,       \* pending tasks of the schedulers
    reserved,     \* handlerBudget.reserved
    awaits,       \* what retireSession() waits for
    lifecycle,    \* lifecycle.state
    stopping,     \* stopPromise # undefined
    accepted      \* history: the sessions counted in acceptedSessions

managedVars == <<cancelled, intakeOff, finalized, sessions, queued, reserved, awaits>>
serverVars == <<lifecycle, stopping>>
vars == <<pc, work, closed, closing, managedVars, outstanding, ipActive, pumps, active,
          serverVars, accepted>>

\* drainDatagrams() is started as a pump of its own.
Pumps == Kinds \cup {"drainer"}
Tasks == Sessions \X (1..MaxConcurrentHandlers + MaxPendingHandlers)
Of(s, tasks) == {t \in tasks : t[1] = s}
OfAny(S, tasks) == {t \in tasks : t[1] \in S}

TypeOK ==
    /\ pc \in [Sessions -> {"new", "admitting", "returned"}]
    /\ work \in [Sessions -> {"none", "waiting", "running", "ok", "failed"}]
    /\ \A S \in {closed, closing, cancelled, intakeOff, finalized, outstanding, accepted} :
          S \subseteq Sessions
    /\ sessions \in [Ids -> Sessions \cup {NoSession}]
    /\ ipActive \in [Ips -> 0..IpMaxSessions]
    /\ pumps \in [Sessions -> SUBSET Pumps]
    /\ active \subseteq Tasks /\ queued \subseteq Tasks
    /\ reserved \in 0..HandlerLimit
    /\ awaits \in [Sessions -> SUBSET (Pumps \cup {"admission", "handlers"})]
    /\ lifecycle \in {"RUNNING", "DRAINING", "STOPPING", "STOPPED"}
    /\ stopping \in BOOLEAN

Init ==
    /\ pc = [s \in Sessions |-> "new"]
    /\ work = [s \in Sessions |-> "none"]
    /\ closed = {} /\ closing = {} /\ cancelled = {} /\ intakeOff = {}
    /\ finalized = {} /\ outstanding = {} /\ accepted = {}
    /\ sessions = [id \in Ids |-> NoSession]
    /\ ipActive = [ip \in Ips |-> 0]
    /\ pumps = [s \in Sessions |-> {}]
    /\ active = {} /\ queued = {} /\ reserved = 0
    /\ awaits = [s \in Sessions |-> {}]
    /\ lifecycle = "RUNNING" /\ stopping = FALSE

-----------------------------------------------------------------------------
(* finalizeSession() and retireSession() *)

\* The work of s that has not ended.
Live(s) ==
    (IF work[s] \in {"waiting", "running"} THEN {"admission"} ELSE {})
        \cup (IF Of(s, active) \cup Of(s, queued) # {} THEN {"handlers"} ELSE {})
        \cup pumps[s]

\* Mutant: retires a session without its admission.
AwaitedWithoutAdmission(s) ==
    (IF Of(s, active) # {} THEN {"handlers"} ELSE {}) \cup pumps[s]

\* What retireSession() finds unsettled, once the queue has been discarded.
Awaited(s) ==
    (IF work[s] \in {"waiting", "running"} THEN {"admission"} ELSE {})
        \cup (IF Of(s, active) # {} THEN {"handlers"} ELSE {})
        \cup pumps[s]

\* Mutant: discarded tasks keep their reservations.
DiscardUnreleased(S) ==
    queued' = queued \ OfAny(S, queued) /\ UNCHANGED reserved

\* scheduler.close({ discardPending: true }) of the sessions in S.
Discard(S) ==
    /\ queued' = queued \ OfAny(S, queued)
    /\ reserved' = reserved - Cardinality(OfAny(S, queued))

\* finalizeSession() of every session in S; those finalized before are left alone.
Finalize(S) ==
    LET new == S \ finalized
    IN  /\ finalized' = finalized \cup new
        /\ intakeOff' = intakeOff \cup new
        /\ cancelled' = cancelled \cup new
        /\ Discard(new)
        /\ sessions' = [id \in Ids |-> IF \E s \in new : IdOf[s] = id THEN NoSession ELSE sessions[id]]
        /\ awaits' = [s \in Sessions |-> IF s \in new THEN Awaited(s) ELSE awaits[s]]

\* Mutant: the address slot is not returned.
ReleaseNothing(s) == UNCHANGED ipActive

\* releaseIpSlot(): the count of the address.
ReleaseIpSlot(s) == ipActive' = [ipActive EXCEPT ![IpOf[s]] = IF @ > 0 THEN @ - 1 ELSE @]

\* retireSession() continues after its allSettled().
Retire(s) ==
    /\ s \in finalized \cap outstanding
    /\ awaits[s] \cap Live(s) = {}
    /\ outstanding' = outstanding \ {s}
    /\ ReleaseIpSlot(s)
    /\ awaits' = [awaits EXCEPT ![s] = {}]
    /\ UNCHANGED <<pc, work, closed, closing, cancelled, intakeOff, finalized, sessions, queued,
                   reserved, pumps, active, serverVars, accepted>>

\* Mutant: the abort listener is installed after admission.
OnAbortAccepted(s) == {s} \cap accepted

\* The sessions that the abort listener finalizes.
OnAbort(s) == {s} \cap outstanding

\* The session's signal aborts: the peer left, or close() took effect.  Of a
\* session that was rejected or has retired nobody listens.
SessionAborts(s) ==
    /\ s \notin closed
    /\ pc[s] = "new" \/ s \in outstanding
    /\ closed' = closed \cup {s}
    /\ closing' = closing \ {s}
    /\ Finalize(OnAbort(s))
    /\ UNCHANGED <<pc, work, outstanding, ipActive, pumps, active, serverVars, accepted>>

-----------------------------------------------------------------------------
(* acceptSession(), up to its first await *)

\* Mutant: one reservation too many.
BudgetFreeOffByOne == reserved <= HandlerLimit

BudgetFree == reserved < HandlerLimit

\* Mutant: a session may come under an id that is in use.
AdmissibleTwice(s) == Cardinality(outstanding) < MaxSessions

\* The checks of validateSession() that depend on other sessions.
Admissible(s) ==
    /\ Cardinality(outstanding) < MaxSessions
    /\ sessions[IdOf[s]] = NoSession

\* Every early return: the slot and the reservation taken so far are given
\* back, and close() is called on a session that nothing refers to any more.
Reject(s) ==
    /\ pc[s] = "new"
    /\ pc' = [pc EXCEPT ![s] = "returned"]
    /\ UNCHANGED <<work, closed, closing, managedVars, outstanding, ipActive, pumps, active,
                   serverVars, accepted>>

\* The session is registered.  One whose signal has aborted is finalized at
\* once and its reservation returned; any other starts its admission.
Accept(s) ==
    /\ pc[s] = "new"
    /\ lifecycle = "RUNNING"
    /\ Admissible(s)
    /\ ipActive[IpOf[s]] < IpMaxSessions
    /\ BudgetFree
    /\ outstanding' = outstanding \cup {s}
    /\ ipActive' = [ipActive EXCEPT ![IpOf[s]] = @ + 1]
    /\ IF s \in closed
       THEN /\ pc' = [pc EXCEPT ![s] = "returned"]
            /\ Finalize({s})
            /\ UNCHANGED work
       ELSE /\ pc' = [pc EXCEPT ![s] = "admitting"]
            /\ work' = [work EXCEPT ![s] = "waiting"]
            /\ sessions' = [sessions EXCEPT ![IdOf[s]] = s]
            /\ reserved' = reserved + 1
            /\ UNCHANGED <<cancelled, intakeOff, finalized, queued, awaits>>
    /\ UNCHANGED <<closed, closing, pumps, active, serverVars, accepted>>

-----------------------------------------------------------------------------
(* The admission work, and acceptSession() after it *)

\* context.signal: the session's signal or the admission's.
ContextAborted(s) == s \in closed \cup cancelled

\* The budget lets authenticateAndRunSessionHandlers() run.
WorkStarts(s) ==
    /\ work[s] = "waiting"
    /\ ~ContextAborted(s)
    /\ work' = [work EXCEPT ![s] = "running"]
    /\ UNCHANGED <<pc, closed, closing, managedVars, outstanding, ipActive, pumps, active,
                   serverVars, accepted>>

\* The work settles, and only then gives its reservation back.  It succeeds
\* only if throwIfAdmissionEnded() finds nothing after its last await; while
\* it waits for the budget, an abort ends it.
WorkSettles(s, outcome) ==
    /\ \/ work[s] = "running" /\ (outcome = "failed" \/ (~ContextAborted(s) /\ s \notin finalized))
       \/ work[s] = "waiting" /\ outcome = "failed" /\ ContextAborted(s)
    /\ work' = [work EXCEPT ![s] = outcome]
    /\ reserved' = reserved - 1
    /\ UNCHANGED <<pc, closed, closing, cancelled, intakeOff, finalized, sessions, queued, awaits,
                   outstanding, ipActive, pumps, active, serverVars, accepted>>

\* Mutant: a failed admission is not closed.
FailWithoutClose(s) == UNCHANGED closing

\* closeSession() of a session whose admission failed.
CloseFailed(s) == closing' = closing \cup ({s} \ closed)

\* The admission fails: the work failed, or the context's signal aborted.
AdmissionFails(s) ==
    /\ pc[s] = "admitting"
    /\ work[s] = "failed" \/ ContextAborted(s)
    /\ pc' = [pc EXCEPT ![s] = "returned"]
    /\ CloseFailed(s)
    /\ UNCHANGED <<work, closed, managedVars, outstanding, ipActive, pumps, active,
                   serverVars, accepted>>

\* The handshake timer fires first: it aborts the admission and rejects.
AdmissionTimesOut(s) ==
    /\ pc[s] = "admitting"
    /\ work[s] \in {"waiting", "running"}
    /\ ~ContextAborted(s)
    /\ pc' = [pc EXCEPT ![s] = "returned"]
    /\ cancelled' = cancelled \cup {s}
    /\ CloseFailed(s)
    /\ UNCHANGED <<work, closed, intakeOff, finalized, sessions, queued, reserved, awaits,
                   outstanding, ipActive, pumps, active, serverVars, accepted>>

\* Mutant: checks the server's state and not the session's intake.
MayServeByState(s) == lifecycle = "RUNNING"

\* The checks after a successful admission.
MayServe(s) == s \notin closed /\ s \notin intakeOff /\ lifecycle = "RUNNING"

\* The admission succeeds.  A reader is there unless the intake was stopped.
AdmissionSucceeds(s) ==
    /\ pc[s] = "admitting"
    /\ work[s] = "ok"
    /\ pc' = [pc EXCEPT ![s] = "returned"]
    /\ IF MayServe(s)
       THEN /\ accepted' = accepted \cup {s}
            /\ pumps' = [pumps EXCEPT ![s] = IF s \in intakeOff THEN {} ELSE Kinds]
       ELSE UNCHANGED <<accepted, pumps>>
    /\ UNCHANGED <<work, closed, closing, managedVars, outstanding, ipActive, active, serverVars>>

-----------------------------------------------------------------------------
(* Pumps and handlers *)

\* A pump ends; one that failed while its session was open closes the session.
PumpEnds(s, k) ==
    /\ k \in pumps[s]
    /\ pumps' = [pumps EXCEPT ![s] = @ \ {k}]
    /\ closing' \in {closing} \cup (IF s \in closed \cup intakeOff THEN {} ELSE {closing \cup {s}})
    /\ UNCHANGED <<pc, work, closed, managedVars, outstanding, ipActive, active, serverVars, accepted>>

\* The datagram pump starts the drainer.
DrainerStarts(s) ==
    /\ "datagrams" \in pumps[s]
    /\ "drainer" \notin pumps[s]
    /\ s \notin closed \cup intakeOff
    /\ pumps' = [pumps EXCEPT ![s] = @ \cup {"drainer"}]
    /\ UNCHANGED <<pc, work, closed, closing, managedVars, outstanding, ipActive, active,
                   serverVars, accepted>>

\* The idle timer, an error of session scope or an overflow policy closes the session.
RuntimeCloses(s) ==
    /\ s \in accepted \ (closed \cup intakeOff)
    /\ closing' = closing \cup {s}
    /\ UNCHANGED <<pc, work, closed, managedVars, outstanding, ipActive, pumps, active,
                   serverVars, accepted>>

\* A task that is neither started nor queued.
FreshTask(s) == CHOOSE t \in Of(s, Tasks) : t \notin active \cup queued

\* A pump submits a handler, which starts or is queued.  A refusal returns the
\* reservation at once.
HandlerSubmitted(s) ==
    /\ pumps[s] # {}
    /\ s \notin intakeOff
    /\ BudgetFree
    /\ \/ /\ Cardinality(Of(s, active)) < MaxConcurrentHandlers
          /\ active' = active \cup {FreshTask(s)}
          /\ UNCHANGED queued
       \/ /\ Cardinality(Of(s, active)) >= MaxConcurrentHandlers
          /\ Cardinality(Of(s, queued)) < MaxPendingHandlers
          /\ queued' = queued \cup {FreshTask(s)}
          /\ UNCHANGED active
    /\ reserved' = reserved + 1
    /\ UNCHANGED <<pc, work, closed, closing, cancelled, intakeOff, finalized, sessions, awaits,
                   outstanding, ipActive, pumps, serverVars, accepted>>

\* A handler settles and a pending one takes its place, also after
\* scheduler.close() unless it was discarded.
HandlerSettles(t) ==
    /\ t \in active
    /\ reserved' = reserved - 1
    /\ LET waiting == Of(t[1], queued)
       IN  IF waiting = {}
           THEN active' = active \ {t} /\ UNCHANGED queued
           ELSE \E next \in waiting :
                   /\ active' = (active \ {t}) \cup {next}
                   /\ queued' = queued \ {next}
    /\ UNCHANGED <<pc, work, closed, closing, cancelled, intakeOff, finalized, sessions, awaits,
                   outstanding, ipActive, pumps, serverVars, accepted>>

-----------------------------------------------------------------------------
(* stop() and a later start *)

\* stopIntake() of the sessions in S.
StopIntake(S) == intakeOff' = intakeOff \cup S

\* stop() of a running server, up to the wait for the drain.
StopBegins ==
    /\ lifecycle = "RUNNING"
    /\ ~stopping
    /\ stopping' = TRUE
    /\ lifecycle' = "DRAINING"
    /\ StopIntake(outstanding)
    /\ UNCHANGED <<pc, work, closed, closing, cancelled, finalized, sessions, queued, reserved,
                   awaits, outstanding, ipActive, pumps, active, accepted>>

\* The drain is over or timed out: admissions are aborted, pending handlers
\* discarded, and the registered sessions closed.
StopForces ==
    /\ lifecycle = "DRAINING"
    /\ lifecycle' = "STOPPING"
    /\ cancelled' = cancelled \cup outstanding
    /\ Discard(outstanding)
    /\ closing' = closing \cup {s \in Sessions \ closed : sessions[IdOf[s]] = s}
    /\ UNCHANGED <<pc, work, closed, intakeOff, finalized, sessions, awaits, outstanding, ipActive,
                   pumps, active, stopping, accepted>>

\* Mutant: leaves the sessions to their own signals.
FinalizeNobody(stopped) == UNCHANGED managedVars

\* Mutant: a failed driver.stop() leaves the sessions as they are.
FinalizeOnSuccess(stopped) ==
    IF stopped THEN Finalize({s \in Sessions : sessions[IdOf[s]] = s}) ELSE UNCHANGED managedVars

\* The finally block: every registered session is finalized.
FinalizeAll(stopped) == Finalize({s \in Sessions : sessions[IdOf[s]] = s})

\* driver.stop() returned or failed, and performStop() ends.
StopEnds(stopped) ==
    /\ stopping
    /\ lifecycle = "STOPPING"
    /\ FinalizeAll(stopped)
    /\ lifecycle' = IF stopped THEN "STOPPED" ELSE "STOPPING"
    /\ stopping' = FALSE
    /\ UNCHANGED <<pc, work, closed, closing, outstanding, ipActive, pumps, active, accepted>>

\* stop() after a stop whose driver.stop() failed; its steps up to driver.stop()
\* find everything done.
StopAgain ==
    /\ ~stopping
    /\ lifecycle = "STOPPING"
    /\ stopping' = TRUE
    /\ StopIntake(outstanding)
    /\ cancelled' = cancelled \cup outstanding
    /\ Discard(outstanding)
    /\ UNCHANGED <<pc, work, closed, closing, finalized, sessions, awaits, outstanding, ipActive,
                   pumps, active, lifecycle, accepted>>

\* The server is started again; retained sessions of the last run are still counted.
Start ==
    /\ lifecycle = "STOPPED"
    /\ lifecycle' = "RUNNING"
    /\ UNCHANGED <<pc, work, closed, closing, managedVars, outstanding, ipActive, pumps, active,
                   stopping, accepted>>

-----------------------------------------------------------------------------
AdmissionStep(s) ==
    \/ WorkStarts(s) \/ \E outcome \in {"ok", "failed"} : WorkSettles(s, outcome)
    \/ AdmissionFails(s) \/ AdmissionTimesOut(s) \/ AdmissionSucceeds(s)

Next ==
    \/ \E s \in Sessions :
          \/ Accept(s) \/ Reject(s) \/ AdmissionStep(s) \/ SessionAborts(s) \/ Retire(s)
          \/ DrainerStarts(s) \/ HandlerSubmitted(s) \/ RuntimeCloses(s)
          \/ \E k \in Pumps : PumpEnds(s, k)
    \/ \E t \in Tasks : HandlerSettles(t)
    \/ StopBegins \/ StopForces \/ StopAgain \/ Start
    \/ \E stopped \in BOOLEAN : StopEnds(stopped)

Spec == Init /\ [][Next]_vars

\* Promises settle and callbacks run: admission work and handlers end (their
\* authors' part), the budget serves its waiters, a reader that was cancelled
\* ends its pump, and timers bound the steps of stop().  Nothing is assumed of
\* close(): it may fail or hang.
LiveSpec ==
    /\ Spec
    /\ \A s \in Sessions :
          /\ WF_vars(AdmissionStep(s)) /\ WF_vars(Retire(s))
          /\ \A k \in Pumps : WF_vars(s \in closed \cup intakeOff /\ PumpEnds(s, k))
    /\ \A t \in Tasks : WF_vars(HandlerSettles(t))
    /\ WF_vars(StopForces) /\ WF_vars(\E stopped \in BOOLEAN : StopEnds(stopped))

-----------------------------------------------------------------------------
(* Properties *)

Admitting == {s \in Sessions : work[s] \in {"waiting", "running"}}

\* Each address counts exactly its outstanding sessions, and all limits on
\* sessions hold, whichever way a session ends and also after a restart.
SlotsExact ==
    /\ \A ip \in Ips : ipActive[ip] = Cardinality({s \in outstanding : IpOf[s] = ip})
    /\ Cardinality(outstanding) <= MaxSessions

\* Every reservation of the budget belongs to an admission or a handler that
\* has not ended: none is leaked, none returned early or twice.
ReservationsExact == reserved = Cardinality(Admitting) + Cardinality(active \cup queued)

\* The comment in acceptSession(): real work stays charged to the server and
\* address limits until it settles, including after disconnect.
WorkStaysCharged == \A s \in Sessions : Live(s) # {} => s \in outstanding

\* The sessions map holds exactly the outstanding sessions that are not
\* finalized, so that a stop closes all of them and finalizing one session
\* never unregisters another of the same id.
RegistryExact ==
    \A s \in Sessions : (s \in outstanding \ finalized) <=> (sessions[IdOf[s]] = s)

\* A stopped server has no session left that could be served, and nothing queued.
StoppedIsQuiet == lifecycle = "STOPPED" => outstanding \subseteq finalized /\ queued = {}

\* A session is accepted, a pump started and a handler submitted only while
\* the server is running and the session is registered: an admission that ends
\* late, even in a later run of the server, brings nothing to life.
TakesWorkOnlyWhileServing ==
    [][\A s \in Sessions :
         \/ s \in accepted' \ accepted
         \/ pumps'[s] \ pumps[s] # {}
         \/ Cardinality(Of(s, active' \cup queued')) > Cardinality(Of(s, active \cup queued))
         => lifecycle = "RUNNING" /\ sessions[IdOf[s]] = s]_vars

\* A session whose signal has aborted gives its place and its address slot
\* back, at whatever point of its life that happened.
EndedSessionsRetire == \A s \in Sessions : s \in closed ~> s \notin outstanding

\* A session that was not admitted gives its place back, if close() works: no
\* path of acceptSession() forgets to close a session that it registered.
RejectedSessionsRetire ==
    \A s \in Sessions :
        (s \in closing ~> s \notin closing) =>
            (pc[s] = "returned" /\ s \notin accepted ~> s \notin outstanding)

\* Once the server stops, so does every session, also if close() hangs and
\* driver.stop() fails.
StopRetiresSessions ==
    \A s \in Sessions : lifecycle # "RUNNING" /\ s \in outstanding ~> s \notin outstanding

\* All that a session may hold (place, address slot, reservations) is charged,
\* to the right account and for as long as any of its work goes on.
ChargesExact == TypeOK /\ SlotsExact /\ ReservationsExact /\ WorkStaysCharged

\* The registry is what stop() needs: it finds every session to be finalized,
\* and nothing is left over when the server is stopped.
RegistryKept == RegistryExact /\ StoppedIsQuiet
=============================================================================
