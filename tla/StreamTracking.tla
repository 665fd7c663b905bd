---------------------------- MODULE StreamTracking ----------------------------
(***************************************************************************)
(* Incoming streams in webtransport-runtime.ts: the two stream pumps of a  *)
(* session, trackStream() with its counters and lifetime timer, the idle   *)
(* timer of touch(), and what an intake stop, an abort of the session and  *)
(* finalizeSession() do to them.  A session is "open" from the start of    *)
(* its pumps on.                                                           *)
(*                                                                         *)
(* Abstracted: when the scheduler has capacity and whether it takes a      *)
(* handler (see BoundedTaskScheduler; here, at any time), and what a       *)
(* handler does with its stream (it may end at any time).  reset() and     *)
(* stop() of a stream abort its signal before they return, as              *)
(* stream.adapter.ts does, and may then fail.                              *)
(***************************************************************************)
EXTENDS Integers, FiniteSets, FiniteSetsExt

CONSTANTS Sessions, Streams,
          Kinds,              \* the kinds of streams that have handlers
          SessionOf, KindOf,  \* the session and the kind of each stream
          MaxStreams,         \* options.limits.server.maxStreams
          MaxOfKind,          \* options.limits.session.max(Bi|Uni)directionalStreams
          IdleTimeout         \* options.security.idleTimeoutMs, in ticks

ASSUME TrackingStreams ==
    /\ IsFiniteSet(Streams) /\ Kinds \subseteq {"bidirectional", "unidirectional"}
    /\ SessionOf \in [Streams -> Sessions] /\ KindOf \in [Streams -> Kinds]
ASSUME TrackingLimits ==
    /\ MaxStreams \in Nat \ {0} /\ MaxOfKind \in [Kinds -> Nat \ {0}]
    /\ IdleTimeout \in Nat \ {0}

VARIABLES
    pump,          \* where each pump is
    unread,        \* streams that no pump has read yet
    ended,         \* streams whose signal has aborted
    tracked,       \* streams whose release() has not run
    activeStreams, \* the runtime's counter
    streamCount,   \* managed.bidirectionalStreams and managed.unidirectionalStreams
    waiters,       \* sessions with a resolver in streamIdleWaiters
    aborted,       \* session.signal.aborted
    intakeOff,     \* intakeController.signal.aborted
    finalized,     \* managed.finalized
    age,           \* now - managed.lastActivityAt, at most IdleTimeout
    timer,         \* what the idle timer has left, or NoTimer
    idleClosed,    \* history: sessions closed for being idle
    quiet          \* history: time without activity and without an open stream

sessionVars == <<aborted, intakeOff, finalized>>
idleVars == <<age, timer, idleClosed, quiet>>
streamVars == <<unread, ended, tracked, activeStreams, streamCount, waiters>>
vars == <<pump, streamVars, sessionVars, idleVars>>

NoTimer == -1
Of(s, X) == {x \in X : SessionOf[x] = s}
OfKind(s, k, X) == {x \in X : SessionOf[x] = s /\ KindOf[x] = k}

TypeOK ==
    /\ pump \in [Sessions \X Kinds -> {"waiting", "reading", "refusing", "rejecting", "leaving", "over"}]
    /\ \A X \in {unread, ended, tracked} : X \subseteq Streams
    /\ activeStreams \in 0..Cardinality(Streams)
    /\ streamCount \in [Sessions \X Kinds -> 0..Cardinality(Streams)]
    /\ \A S \in {waiters, aborted, intakeOff, finalized, idleClosed} : S \subseteq Sessions
    /\ age \in [Sessions -> 0..IdleTimeout] /\ quiet \in [Sessions -> 0..IdleTimeout]
    /\ timer \in [Sessions -> {NoTimer} \cup 0..IdleTimeout]

Init ==
    /\ pump = [p \in Sessions \X Kinds |-> "waiting"]
    /\ unread = Streams /\ ended = {} /\ tracked = {}
    /\ activeStreams = 0 /\ streamCount = [p \in Sessions \X Kinds |-> 0]
    /\ waiters = {} /\ aborted = {} /\ intakeOff = {} /\ finalized = {}
    /\ age = [s \in Sessions |-> 0] /\ quiet = [s \in Sessions |-> 0]
    /\ timer = [s \in Sessions |-> IdleTimeout] /\ idleClosed = {}

-----------------------------------------------------------------------------
(* The idle timer *)

\* touch(): the sessions in S have been active.  An armed timer is left alone;
\* checkIdle() looks at lastActivityAt when it fires.
Touch(S) ==
    LET live == S \ (finalized \cup aborted)
    IN  /\ age' = [s \in Sessions |-> IF s \in live THEN 0 ELSE age[s]]
        /\ timer' = [s \in Sessions |-> IF s \in live /\ timer[s] = NoTimer THEN IdleTimeout ELSE timer[s]]
        /\ quiet' = [s \in Sessions |-> IF s \in S THEN 0 ELSE quiet[s]]
        /\ UNCHANGED idleClosed

\* context.touch(), or a datagram was read.
Activity(s) ==
    /\ s \notin aborted \cup finalized
    /\ Touch({s})
    /\ UNCHANGED <<pump, streamVars, sessionVars>>

\* Mutant: the timer is not set again for the time that remains.
RearmNever(s) == timer' = [timer EXCEPT ![s] = NoTimer]

\* checkIdle() of a session that was active since the timer was set.
Rearm(s) == timer' = [timer EXCEPT ![s] = IdleTimeout - age[s]]

HasStreams(s) == \E k \in Kinds : streamCount[<<s, k>>] > 0

\* checkIdle(), as long as the session is served: with open streams it counts
\* as activity; otherwise the session is closed if its time is up.
CheckIdle(s) ==
    IF s \in finalized \cup intakeOff
    THEN timer' = [timer EXCEPT ![s] = NoTimer] /\ UNCHANGED <<age, idleClosed>>
    ELSE IF HasStreams(s)
    THEN /\ timer' = [timer EXCEPT ![s] = IdleTimeout]
         /\ age' = [age EXCEPT ![s] = 0]
         /\ UNCHANGED idleClosed
    ELSE IF age[s] < IdleTimeout
    THEN Rearm(s) /\ UNCHANGED <<age, idleClosed>>
    ELSE /\ idleClosed' = idleClosed \cup {s}
         /\ timer' = [timer EXCEPT ![s] = NoTimer]
         /\ UNCHANGED age

IdleTimerFires(s) ==
    /\ timer[s] = 0
    /\ CheckIdle(s)
    /\ UNCHANGED <<pump, streamVars, sessionVars, quiet>>

\* Time passes; a timer that is due may fire late.
Tick ==
    /\ age' = [s \in Sessions |-> Min({age[s] + 1, IdleTimeout})]
    /\ timer' = [s \in Sessions |-> IF timer[s] > 0 THEN timer[s] - 1 ELSE timer[s]]
    /\ quiet' = [s \in Sessions |-> IF Of(s, tracked) # {} THEN 0 ELSE Min({quiet[s] + 1, IdleTimeout})]
    /\ UNCHANGED <<pump, streamVars, sessionVars, idleClosed>>

-----------------------------------------------------------------------------
(* trackStream() *)

\* Mutant: a stream is released by every signal that aborts.
ReleasableByEverySignal(X) == X \ unread

\* The streams whose release() does something: it runs once.
Releasable(X) == X \cap tracked

\* Mutant: the end of the last stream is not activity.
LastStreamSilent(S) == UNCHANGED idleVars

\* When the last stream of a session ends its idle time begins.
LastStreamEnded(S) == Touch(S)

\* release() of the streams in X: counters, the waiters for the streams, and
\* the idle timer.
Release(X) ==
    LET gone == Releasable(X)
        left(s, k) == streamCount[<<s, k>>] - Cardinality(OfKind(s, k, gone))
        empty == {s \in Sessions : Of(s, gone) # {} /\ \A k \in Kinds : left(s, k) = 0}
    IN  /\ tracked' = tracked \ gone
        /\ activeStreams' = activeStreams - Cardinality(gone)
        /\ streamCount' = [p \in Sessions \X Kinds |-> left(p[1], p[2])]
        /\ waiters' = waiters \ empty
        /\ LastStreamEnded(empty)

\* A stream's signal aborts: peer, handler, error or session ended it.
StreamEnds(x) ==
    /\ x \notin ended
    /\ ended' = ended \cup {x}
    /\ Release({x})
    /\ UNCHANGED <<pump, unread, sessionVars>>

\* Mutant: finalizing a session clears the lifetime timers of its streams.
LifetimeOfServed(x) == x \in tracked /\ SessionOf[x] \notin finalized /\ StreamEnds(x)

\* The lifetime timer, which release() clears: reset() aborts the signal.
LifetimeExpires(x) == x \in tracked /\ StreamEnds(x)

-----------------------------------------------------------------------------
(* pumpBidirectionalStreams() and pumpUnidirectionalStreams() *)

GoTo(s, k, where) == pump' = [pump EXCEPT ![<<s, k>>] = where]

\* whenCapacityAvailable() resolves; the loop ends when the intake is off.
PumpResumes(s, k) ==
    /\ pump[<<s, k>>] = "waiting"
    /\ GoTo(s, k, IF s \in intakeOff \cup aborted THEN "over" ELSE "reading")
    /\ UNCHANGED <<streamVars, sessionVars, idleVars>>

\* read() resolves with a stream after the intake was stopped: the stream is
\* refused and the pump returns.
PumpReadsTooLate(s, k, x) ==
    /\ pump[<<s, k>>] = "reading"
    /\ x \in OfKind(s, k, unread)
    /\ s \in intakeOff \cup aborted
    /\ unread' = unread \ {x} /\ ended' = ended \cup {x}
    /\ GoTo(s, k, "leaving")
    /\ UNCHANGED <<tracked, activeStreams, streamCount, waiters, sessionVars, idleVars>>

\* Mutant: off by one.
WithinLimitsOffByOne(s, k) == activeStreams <= MaxStreams /\ streamCount[<<s, k>>] < MaxOfKind[k]

\* The check before trackStream().
WithinLimits(s, k) == activeStreams < MaxStreams /\ streamCount[<<s, k>>] < MaxOfKind[k]

\* A stream beyond a limit is reset.
PumpRefuses(s, k, x) ==
    /\ pump[<<s, k>>] = "reading"
    /\ x \in OfKind(s, k, unread)
    /\ s \notin intakeOff \cup aborted
    /\ ~WithinLimits(s, k)
    /\ unread' = unread \ {x} /\ ended' = ended \cup {x}
    /\ Touch({s})
    /\ GoTo(s, k, "refusing")
    /\ UNCHANGED <<tracked, activeStreams, streamCount, waiters, sessionVars>>

\* trackStream(): counters and listeners.  A stream that has already ended is
\* released again before the pump goes on.
TrackStream(s, k, x) ==
    /\ unread' = unread \ {x}
    /\ Touch({s})
    /\ IF x \in ended
       THEN /\ waiters' = IF HasStreams(s) THEN waiters ELSE waiters \ {s}
            /\ UNCHANGED <<tracked, activeStreams, streamCount>>
       ELSE /\ tracked' = tracked \cup {x}
            /\ activeStreams' = activeStreams + 1
            /\ streamCount' = [streamCount EXCEPT ![<<s, k>>] = @ + 1]
            /\ UNCHANGED waiters

\* The stream is tracked and its handler started or queued.
PumpTracks(s, k, x) ==
    /\ pump[<<s, k>>] = "reading"
    /\ x \in OfKind(s, k, unread)
    /\ s \notin intakeOff \cup aborted
    /\ WithinLimits(s, k)
    /\ TrackStream(s, k, x)
    /\ GoTo(s, k, "waiting")
    /\ UNCHANGED <<ended, sessionVars>>

\* The stream is tracked and its handler refused: handleStreamSubmissionOutcome()
\* resets the stream, which releases it again, or closes the session.
PumpRejects(s, k, x) ==
    /\ pump[<<s, k>>] = "reading"
    /\ x \in OfKind(s, k, unread)
    /\ s \notin intakeOff \cup aborted
    /\ WithinLimits(s, k)
    /\ \/ /\ unread' = unread \ {x} /\ ended' = ended \cup {x}
          /\ Touch({s})
          /\ waiters' = IF HasStreams(s) THEN waiters ELSE waiters \ {s}
          /\ UNCHANGED <<tracked, activeStreams, streamCount>>
       \/ TrackStream(s, k, x) /\ UNCHANGED ended
    /\ GoTo(s, k, "rejecting")
    /\ UNCHANGED sessionVars

\* reset() or close() of a stream or session that was turned away settles.  A
\* failed reset() of a refused stream goes to the pump's catch block, which
\* ends the pump; handleStreamSubmissionOutcome() catches its own.
PumpSettles(s, k) ==
    /\ \/ pump[<<s, k>>] = "rejecting" /\ GoTo(s, k, "waiting")
       \/ pump[<<s, k>>] = "refusing" /\ \E where \in {"waiting", "over"} : GoTo(s, k, where)
       \/ pump[<<s, k>>] = "leaving" /\ GoTo(s, k, "over")
    /\ UNCHANGED <<streamVars, sessionVars, idleVars>>

\* Mutant: only the end of the session cancels the pump's reader.
ReaderCancelledByAbort(s) == s \in aborted

\* The intake signal cancels the reader, and the session's signal aborts it.
ReaderCancelled(s) == s \in intakeOff \cup aborted

\* read() finds the end of the collection, or fails: once the reader is
\* cancelled, and possibly at any other time.
PumpReadEnds(s, k) ==
    /\ pump[<<s, k>>] = "reading"
    /\ GoTo(s, k, "over")
    /\ UNCHANGED <<streamVars, sessionVars, idleVars>>

-----------------------------------------------------------------------------
(* Stop, abort and finalization *)

\* Mutant: waits also if there is no stream.
MustWaitAlways(s) == TRUE

\* waitForStreams() registers a resolver only if there is something to wait for.
MustWait(s) == HasStreams(s)

\* stop(): stopIntake(), and waitForStreams() of the graceful drain.
StopIntake(s) ==
    /\ s \notin intakeOff
    /\ intakeOff' = intakeOff \cup {s}
    /\ waiters' = IF MustWait(s) THEN waiters \cup {s} ELSE waiters
    /\ UNCHANGED <<pump, unread, ended, tracked, activeStreams, streamCount, aborted, finalized, idleVars>>

\* finalizeSession() as far as streams and timers go.
Finalize(s) ==
    /\ finalized' = finalized \cup {s}
    /\ intakeOff' = intakeOff \cup {s}

\* finalizeSession() at the end of a stop, without an abort: tracked streams
\* stay tracked.
StopFinalizes(s) ==
    /\ s \in intakeOff \ finalized
    /\ Finalize(s)
    /\ waiters' = waiters \ {s}
    /\ timer' = [timer EXCEPT ![s] = NoTimer]
    /\ UNCHANGED <<pump, unread, ended, tracked, activeStreams, streamCount, aborted, age, idleClosed, quiet>>

\* Mutant: an abort does not release the session's streams.
ReleasedByAbortNone(s) == {}

\* The streams with a listener on the session's signal.
ReleasedByAbort(s) == Of(s, tracked)

\* The session's signal aborts: finalizeSession(), then release() of its streams.
SessionAborts(s) ==
    /\ s \notin aborted
    /\ aborted' = aborted \cup {s}
    /\ Finalize(s)
    /\ LET gone == ReleasedByAbort(s)
       IN  /\ tracked' = tracked \ gone
           /\ activeStreams' = activeStreams - Cardinality(gone)
           /\ streamCount' = [p \in Sessions \X Kinds |->
                                streamCount[p] - Cardinality(OfKind(p[1], p[2], gone))]
    /\ waiters' = waiters \ {s}
    /\ timer' = [timer EXCEPT ![s] = NoTimer]
    /\ UNCHANGED <<pump, unread, ended, age, idleClosed, quiet>>

-----------------------------------------------------------------------------
PumpStep(s, k) ==
    \/ PumpResumes(s, k) \/ PumpSettles(s, k) \/ PumpReadEnds(s, k)
    \/ \E x \in Streams :
          PumpReadsTooLate(s, k, x) \/ PumpRefuses(s, k, x) \/ PumpTracks(s, k, x) \/ PumpRejects(s, k, x)

Next ==
    \/ \E s \in Sessions :
          \/ Activity(s) \/ IdleTimerFires(s) \/ StopIntake(s) \/ StopFinalizes(s) \/ SessionAborts(s)
          \/ \E k \in Kinds : PumpStep(s, k)
    \/ \E x \in Streams : StreamEnds(x) \/ LifetimeExpires(x)
    \/ Tick

Spec == Init /\ [][Next]_vars

\* Time passes and timers fire; promises settle, so that a pump whose reader
\* was cancelled comes to its end.
LiveSpec ==
    /\ Spec /\ WF_vars(Tick)
    /\ \A s \in Sessions :
          /\ WF_vars(IdleTimerFires(s))
          /\ \A k \in Kinds : WF_vars(ReaderCancelled(s) /\ PumpStep(s, k))
    /\ \A x \in Streams : WF_vars(LifetimeExpires(x))

-----------------------------------------------------------------------------
(* Properties *)

\* The server's and the session's counters are the streams that are open, by
\* whichever of the two signals, the timer or a refusal they end, and the
\* configured limits hold.
StreamsExact ==
    /\ activeStreams = Cardinality(tracked) /\ activeStreams <= MaxStreams
    /\ \A s \in Sessions, k \in Kinds :
          /\ streamCount[<<s, k>>] = Cardinality(OfKind(s, k, tracked))
          /\ streamCount[<<s, k>>] <= MaxOfKind[k]

\* Nobody waits for the streams of a session that has none: a graceful stop
\* is not held up until its timeout.
NoWaitForNothing == \A s \in waiters : Of(s, tracked) # {}

\* No stream of a session that has ended is counted any more, and a stream
\* whose signal has aborted is not either.
NothingOutlivesItsSignal == \A x \in tracked : x \notin ended /\ SessionOf[x] \notin aborted

\* "Decorator-managed streams suspend idle expiration while active": a session
\* is closed as idle only after a full timeout without activity and without an
\* open stream.
IdleCloseJustified ==
    [][\A s \in idleClosed' \ idleClosed : quiet[s] = IdleTimeout]_vars

\* A session that is served is watched: its timer is set, or has closed it.
AlwaysWatched ==
    \A s \in Sessions : s \notin aborted \cup intakeOff => timer[s] # NoTimer \/ s \in idleClosed

\* A session that stays idle is closed.
IdleSessionsClosed ==
    \A s \in Sessions :
        quiet[s] = IdleTimeout /\ s \notin intakeOff ~>
            s \in idleClosed \/ quiet[s] < IdleTimeout \/ s \in intakeOff

\* Once the intake has stopped the session empties: its pumps end and every
\* stream is released, also in a session that was finalized without an abort,
\* so that it can retire.
SessionsEmpty ==
    \A s \in Sessions :
        s \in intakeOff ~> Of(s, tracked) = {} /\ \A k \in Kinds : pump[<<s, k>>] = "over"

\* What is counted, waited for and watched is what is there.
TrackingExact ==
    TypeOK /\ StreamsExact /\ NoWaitForNothing /\ NothingOutlivesItsSignal /\ AlwaysWatched

\* Nothing is kept for ever: neither an idle session, nor a stream, nor a pump.
TrackingProgress == IdleSessionsClosed /\ SessionsEmpty
=============================================================================
