----------------------------- MODULE VirtualDriver -----------------------------
(***************************************************************************)
(* The in-memory transport of the testing package: the driver of           *)
(* virtual-driver.ts, the session pairs of mock-session.ts, their streams  *)
(* and the queues in which one end finds the streams that the other opens. *)
(* Whatever a test asserts about counters and ends rests on it.            *)
(*                                                                         *)
(* Abstracted: one collection of incoming streams for each session, the    *)
(* bytes of a stream and the datagrams.  Several calls of stop() wait for  *)
(* the same promises and go on in the same turn.                           *)
(***************************************************************************)
EXTENDS Integers, FiniteSets

CONSTANTS
    Sessions,          \* what tests may connect
    VirtualStreams,    \* what they may open
    MaxSessions,       \* ceiling of the driver
    QueueSize,         \* streams that an end keeps for its reader
    NoSession          \* the owner of a stream that is not there yet

ASSUME VirtualAssumption ==
    MaxSessions \in Nat \ {0} /\ QueueSize \in Nat \ {0} /\ NoSession \notin Sessions

VARIABLES
    state,             \* the driver
    waits,             \* the sessions that a stop() waits for
    conn,              \* the state of a session pair
    call,              \* where the connect() of a session is
    how,               \* how a session pair was terminated
    known,             \* the driver's map
    sessionsActive,    \* the counters of sessions and of streams
    streamsActive,
    stream,            \* where a stream is
    owner,             \* the session of a stream
    tracked,           \* the streams that their session resets when it ends
    reader             \* a read of the incoming streams of a session

virtualVars == <<state, waits, conn, call, how, known, sessionsActive,
                 streamsActive, stream, owner, tracked, reader>>
countedVars == <<streamsActive, stream, owner, tracked>>

Stopping == state \in {"DRAINING", "STOPPING"}

VirtualTypeOK ==
    /\ state \in {"STOPPED", "RUNNING", "DRAINING", "STOPPING"}
    /\ waits \subseteq Sessions
    /\ conn \in [Sessions -> {"none", "CONNECTED", "CLOSING", "CLOSED"}]
    /\ call \in [Sessions -> {"none", "callbacks", "returned", "rejecting", "rejected"}]
    /\ how \in [Sessions -> {"open", "close", "abort"}]
    /\ known \subseteq Sessions /\ Cardinality(known) <= MaxSessions
    /\ sessionsActive \in Nat /\ streamsActive \in Nat
    /\ stream \in [VirtualStreams -> {"none", "queued", "taken", "ended"}]
    /\ owner \in [VirtualStreams -> Sessions \cup {NoSession}] /\ tracked \subseteq VirtualStreams
    /\ reader \in [Sessions -> {"none", "waiting", "done", "error"}]

VirtualInit ==
    /\ state = "STOPPED" /\ waits = {}
    /\ conn = [s \in Sessions |-> "none"] /\ call = [s \in Sessions |-> "none"]
    /\ how = [s \in Sessions |-> "open"]
    /\ known = {} /\ sessionsActive = 0 /\ streamsActive = 0
    /\ stream = [t \in VirtualStreams |-> "none"] /\ owner = [t \in VirtualStreams |-> NoSession]
    /\ tracked = {} /\ reader = [s \in Sessions |-> "none"]

-----------------------------------------------------------------------------
(* The end of session pairs *)

TrackedOf(S) == {t \in tracked : owner[t] \in S}

\* Mutant: a second termination replaces the first.
FreshUnlessClosed(S) == {s \in S : conn[s] \in {"CONNECTED", "CLOSING"}}

\* The pairs of S that no termination has begun for.
Fresh(S) == {s \in S : conn[s] = "CONNECTED"}

\* closeIncomingStreams() and terminateIncomingStreams().
ReadsAfter(S, kind) ==
    [s \in Sessions |->
        IF s \in S /\ reader[s] = "waiting" THEN (IF kind = "close" THEN "done" ELSE "error")
        ELSE reader[s]]

\* terminate(), of several pairs: the signal, the streams and the collections.
Terminate(S, kind) ==
    LET ending == Fresh(S)
        reset == TrackedOf(ending)
    IN  /\ conn' = [s \in Sessions |-> IF s \in ending THEN "CLOSING" ELSE conn[s]]
        /\ how' = [s \in Sessions |-> IF s \in ending THEN kind ELSE how[s]]
        /\ reader' = ReadsAfter(ending, kind)
        /\ stream' = [t \in VirtualStreams |-> IF t \in reset THEN "ended" ELSE stream[t]]
        /\ tracked' = tracked \ reset
        /\ streamsActive' = streamsActive - Cardinality(reset)

\* close() and abort(), by either end.
EndSession(s, kind) ==
    /\ conn[s] \in {"CONNECTED", "CLOSING"}
    /\ Terminate({s}, kind)
    /\ UNCHANGED <<state, waits, call, known, sessionsActive, owner>>

\* The resets have settled; onClosed deletes the session.
TerminationEnds(s) ==
    /\ conn[s] = "CLOSING" /\ conn' = [conn EXCEPT ![s] = "CLOSED"]
    /\ known' = known \ {s} /\ sessionsActive' = sessionsActive - 1
    /\ UNCHANGED <<state, waits, call, how, countedVars, reader>>

-----------------------------------------------------------------------------
(* The driver *)

Start ==
    /\ state = "STOPPED" /\ state' = "RUNNING"
    /\ UNCHANGED <<waits, conn, call, how, known, sessionsActive, countedVars, reader>>

\* stop(), or the abort of start's signal, possibly again.
Stop(kind) ==
    /\ state # "STOPPED"
    /\ state' = IF kind = "close" THEN "DRAINING" ELSE "STOPPING"
    /\ waits' = waits \cup known
    /\ Terminate(known, kind)
    /\ UNCHANGED <<call, known, sessionsActive, owner>>

\* Mutant: stop() waits for the callbacks, too.
AllReturned == Stopping /\ \A s \in waits : conn[s] = "CLOSED" /\ call[s] # "callbacks"

\* Promise.all of the terminations.
AllEnded == Stopping /\ \A s \in waits : conn[s] = "CLOSED"

StopEnds ==
    /\ AllEnded /\ state' = "STOPPED" /\ waits' = {}
    /\ UNCHANGED <<conn, call, how, known, sessionsActive, countedVars, reader>>

\* Mutants: one session too many; a driver that drains still accepts.
AcceptsOneMore == state = "RUNNING" /\ Cardinality(known) <= MaxSessions
AcceptsUnlessStopped == state # "STOPPED" /\ Cardinality(known) < MaxSessions

Accepts == state = "RUNNING" /\ Cardinality(known) < MaxSessions

\* connect(), up to the first callback.
Connect(s) ==
    /\ call[s] = "none"
    /\ IF Accepts
       THEN /\ call' = [call EXCEPT ![s] = "callbacks"]
            /\ conn' = [conn EXCEPT ![s] = "CONNECTED"]
            /\ known' = known \cup {s} /\ sessionsActive' = sessionsActive + 1
       ELSE call' = [call EXCEPT ![s] = "rejected"] /\ UNCHANGED <<conn, known, sessionsActive>>
    /\ UNCHANGED <<state, waits, how, countedVars, reader>>

CallbacksReturn(s) ==
    /\ call[s] = "callbacks" /\ call' = [call EXCEPT ![s] = "returned"]
    /\ UNCHANGED <<state, waits, conn, how, known, sessionsActive, countedVars, reader>>

CallbackThrows(s) ==
    /\ call[s] = "callbacks" /\ call' = [call EXCEPT ![s] = "rejecting"]
    /\ Terminate({s}, "abort")
    /\ UNCHANGED <<state, waits, known, sessionsActive, owner>>

\* connect() waits for the abort before it rejects.
Rejected(s) ==
    /\ call[s] = "rejecting" /\ conn[s] = "CLOSED"
    /\ call' = [call EXCEPT ![s] = "rejected"]
    /\ UNCHANGED <<state, waits, conn, how, known, sessionsActive, countedVars, reader>>

-----------------------------------------------------------------------------
(* Streams *)

Queued(s) == {t \in VirtualStreams : owner[t] = s /\ stream[t] = "queued"}

\* Mutant: a stream that is refused stays open.
RefusedKept(t) == tracked \cup {t}

\* onDrop and reset(): a stream that the queue refuses ends.
Refused(t) == tracked

\* createBidirectionalStream() and createUnidirectionalStream(): to a read that
\* waits, to the queue, or nowhere.
OpenStream(s, t) ==
    /\ stream[t] = "none" /\ conn[s] = "CONNECTED"
    /\ owner' = [owner EXCEPT ![t] = s]
    /\ IF reader[s] # "waiting" /\ Cardinality(Queued(s)) >= QueueSize
       THEN /\ stream' = [stream EXCEPT ![t] = "ended"]
            /\ tracked' = Refused(t) /\ UNCHANGED <<streamsActive, reader>>
       ELSE /\ stream' = [stream EXCEPT ![t] = IF reader[s] = "waiting" THEN "taken" ELSE "queued"]
            /\ reader' = [reader EXCEPT ![s] = "none"]
            /\ tracked' = tracked \cup {t} /\ streamsActive' = streamsActive + 1
    /\ UNCHANGED <<state, waits, conn, call, how, known, sessionsActive>>

\* A read of the collection takes a stream, waits, or finds the end.
Read(s) ==
    /\ conn[s] # "none" /\ reader[s] = "none"
    /\ IF conn[s] # "CONNECTED"
       THEN /\ reader' = [reader EXCEPT ![s] = IF how[s] = "close" THEN "done" ELSE "error"]
            /\ UNCHANGED stream
       ELSE IF Queued(s) = {} THEN reader' = [reader EXCEPT ![s] = "waiting"] /\ UNCHANGED stream
       ELSE \E t \in Queued(s) : stream' = [stream EXCEPT ![t] = "taken"] /\ UNCHANGED reader
    /\ UNCHANGED <<state, waits, conn, call, how, known, sessionsActive, streamsActive, owner, tracked>>

\* Both directions have ended, or one end resets the stream.
StreamCloses(t) ==
    /\ t \in tracked /\ tracked' = tracked \ {t}
    /\ streamsActive' = streamsActive - 1
    /\ stream' = [stream EXCEPT ![t] = IF @ = "queued" THEN @ ELSE "ended"]
    /\ UNCHANGED <<state, waits, conn, call, how, known, sessionsActive, owner, reader>>

-----------------------------------------------------------------------------
VirtualNext ==
    \/ Start \/ StopEnds \/ \E kind \in {"close", "abort"} : Stop(kind)
    \/ \E s \in Sessions :
          \/ Connect(s) \/ CallbacksReturn(s) \/ CallbackThrows(s) \/ Rejected(s)
          \/ TerminationEnds(s) \/ Read(s)
          \/ \E kind \in {"close", "abort"} : EndSession(s, kind)
          \/ \E t \in VirtualStreams : OpenStream(s, t)
    \/ \E t \in VirtualStreams : StreamCloses(t)

VirtualSpec == VirtualInit /\ [][VirtualNext]_virtualVars

\* Promises settle.
LiveVirtualSpec ==
    /\ VirtualSpec /\ WF_virtualVars(StopEnds)
    /\ \A s \in Sessions : WF_virtualVars(TerminationEnds(s)) /\ WF_virtualVars(Rejected(s))

-----------------------------------------------------------------------------
(* Properties *)

\* The counters of getStats() are those of what is there.
CountersExact ==
    /\ known = {s \in Sessions : conn[s] \in {"CONNECTED", "CLOSING"}}
    /\ sessionsActive = Cardinality(known) /\ streamsActive = Cardinality(tracked)

\* A stopped driver has neither sessions nor streams.
StoppedIsEmpty == state = "STOPPED" => known = {} /\ tracked = {}

\* docs/testing.md, "Close and abort semantics": ending a session ends its
\* streams, and its pending reads the way it was ended first.
EndIsComplete ==
    \A s \in Sessions : conn[s] \in {"CLOSING", "CLOSED"} =>
        /\ TrackedOf({s}) = {}
        /\ reader[s] # "waiting"
        /\ reader[s] = "done" => how[s] = "close"
        /\ reader[s] = "error" => how[s] = "abort"

\* stop() comes to an end, and a rejected connect() rejects.
StopsAndRejects ==
    /\ Stopping ~> state = "STOPPED"
    /\ \A s \in Sessions : call[s] = "rejecting" ~> call[s] = "rejected"

\* What the double keeps agrees with how its sessions and streams ended.
VirtualStateExact == VirtualTypeOK /\ CountersExact /\ StoppedIsEmpty /\ EndIsComplete
=============================================================================
