---------------------------- MODULE DriverLifecycle ----------------------------
(***************************************************************************)
(* Start and stop of the RWebTransport driver: driver.ts (start, stop,     *)
(* performStart, performStop, handleServerError), one server.adapter.ts    *)
(* per start and the native server behind it.  The module has no Next: the *)
(* caller of start() and stop() is RuntimeLifecycle, and the driver itself *)
(* when its server reports an error.  A call that only returns a promise   *)
(* the driver already holds changes nothing and is left out.               *)
(*                                                                         *)
(* Abstracted: the sessions, so that a drain may end at any time, by the   *)
(* end of its work, its timeout or its signal, and a stop that closes may  *)
(* fail at any time, by its deadline, its signal or a session that does    *)
(* not close; the port, the TLS and the diagnostics.                       *)
(* Promise reactions run before the next event of the native server.       *)
(***************************************************************************)
EXTENDS FiniteSets

CONSTANTS Servers,    \* the server adapters, one for each start()
          NoServer

ASSUME NoServerIsNone == NoServer \notin Servers

VARIABLES
    state,         \* the driver's state
    server,        \* this.server
    native,        \* the native server of each adapter
    stopAsked,     \* adapters whose stop() was called: it runs once
    listens,       \* the adapter whose start signal the driver listens to
    abortedSignals,\* adapters whose start signal has aborted
    startOp,       \* where start() is, "none" without startPromise
    startServer,   \* the adapter it starts
    startOutcome,  \* how the start() of each adapter settled
    stopOp,        \* where stop() is, "none" without stopPromise
    stopServer,    \* the server that performStop() has read
    awaited,       \* the start it waits for, if any
    stopOutcome    \* how the last stop() settled

startVars == <<startOp, startServer, startOutcome>>
stopVars == <<stopOp, stopServer, awaited, stopOutcome>>
adapterVars == <<native, stopAsked, abortedSignals>>
driverVars == <<state, server, listens, adapterVars, startVars, stopVars>>

States == {"STOPPED", "STARTING", "RUNNING", "DRAINING", "STOPPING"}
Alive == {"opening", "listening"}
Dead == {"failed", "closed"}

DriverTypeOK ==
    /\ state \in States
    /\ {server, listens, startServer, stopServer, awaited} \subseteq Servers \cup {NoServer}
    /\ native \in [Servers -> {"unused", "queued", "absent"} \cup Alive \cup Dead]
    /\ stopAsked \subseteq Servers /\ abortedSignals \subseteq Servers
    /\ startOp \in {"none", "chained", "released", "opening", "failing", "stopping"}
    /\ startOutcome \in [Servers -> {"pending", "resolved", "rejected"}]
    /\ stopOp \in {"none", "draining", "closing"}
    /\ stopOutcome \in {"pending", "resolved", "rejected"}

DriverInit ==
    /\ state = "STOPPED" /\ server = NoServer /\ listens = NoServer
    /\ native = [a \in Servers |-> "unused"] /\ stopAsked = {} /\ abortedSignals = {}
    /\ startOp = "none" /\ startServer = NoServer /\ startOutcome = [a \in Servers |-> "pending"]
    /\ stopOp = "none" /\ stopServer = NoServer /\ awaited = NoServer /\ stopOutcome = "resolved"

-----------------------------------------------------------------------------
(* start() *)

\* Mutant: a signal that has already aborted is not looked at.
MayCreateRegardless(a) == TRUE

\* RWebTransportServerAdapter.performStart() throws at once for an aborted signal.
MayCreate(a) == a \notin abortedSignals

\* performStart(): the adapter creates the native server and its pump, or throws.
PerformStart(a) ==
    /\ state' = "STARTING" /\ server' = a /\ listens' = a /\ startServer' = a
    /\ \/ MayCreate(a) /\ startOp' = "opening" /\ native' = [native EXCEPT ![a] = "opening"]
       \/ startOp' = "failing" /\ native' = [native EXCEPT ![a] = "absent"]

\* start(): without a stop at work it begins at once, otherwise it is chained to it.
Start(a) ==
    /\ state # "RUNNING" /\ startOp = "none" /\ native[a] = "unused"
    /\ IF stopOp = "none"
       THEN PerformStart(a)
       ELSE /\ startOp' = "chained" /\ startServer' = a
            /\ native' = [native EXCEPT ![a] = "queued"]
            /\ UNCHANGED <<state, server, listens>>
    /\ UNCHANGED <<stopAsked, abortedSignals, startOutcome, stopVars>>

\* The chained start, after the stop.
StartReleased ==
    /\ startOp = "released"
    /\ PerformStart(startServer)
    /\ UNCHANGED <<stopAsked, abortedSignals, startOutcome, stopVars>>

\* Mutant: a start that was overtaken by a stop reports the driver as running.
StartedEvenIfStopped(a) == TRUE

StillStarting(a) == server = a /\ state = "STARTING"

\* server.ready wins the race.
StartReady ==
    /\ startOp = "opening" /\ native[startServer] = "listening"
    /\ state' = IF StillStarting(startServer) THEN "RUNNING" ELSE state
    /\ startOp' = "none" /\ startOutcome' = [startOutcome EXCEPT ![startServer] = "resolved"]
    /\ UNCHANGED <<server, listens, startServer, adapterVars, stopVars>>

\* Mutant: a clean close before the server is ready is overlooked.
DiesIfItFails(a) == native[a] = "failed"

\* server.closed settles first, either way.
DiesBeforeReady(a) == native[a] \in Dead

\* The native server ends before it is ready: the adapter stops, then throws.
StartDies ==
    /\ startOp = "opening" /\ DiesBeforeReady(startServer)
    /\ startOp' = "stopping" /\ stopAsked' = stopAsked \cup {startServer}
    /\ UNCHANGED <<state, server, listens, startServer, startOutcome, native, abortedSignals, stopVars>>

\* The stop() of an adapter has settled: its native server has ended, well or not.
AdapterStopped(a) == a \in stopAsked /\ native[a] \in Dead \cup {"absent"}

\* The catch block of the driver's performStart().
StartFails ==
    /\ startOp = "failing" \/ (startOp = "stopping" /\ AdapterStopped(startServer))
    /\ state' = "STOPPED" /\ listens' = NoServer
    /\ server' = IF server = startServer THEN NoServer ELSE server
    /\ startOp' = "none" /\ startOutcome' = [startOutcome EXCEPT ![startServer] = "rejected"]
    /\ UNCHANGED <<startServer, adapterVars, stopVars>>

-----------------------------------------------------------------------------
(* stop() *)

\* Mutant: an expired deadline skips the native shutdown.
AskedToStopIfTime(a, expired) == IF expired THEN stopAsked ELSE stopAsked \cup {a}

\* "Initiate native shutdown even if the deadline/signal has already expired."
AskedToStop(a, expired) == stopAsked \cup {a}

\* A stop during a start waits for the start to come to its end.
Awaited == IF state = "STARTING" /\ startOp # "none" THEN startServer ELSE NoServer

\* The second half of performStop(): close the server and the sessions.
BeginClose(a, expired) ==
    /\ state' = "STOPPING" /\ stopOp' = "closing" /\ stopServer' = a
    /\ awaited' = Awaited
    /\ stopAsked' = AskedToStop(a, expired)

\* Mutant: there always is something to stop.
SomethingToStop == FALSE

NothingToStop == server = NoServer

\* performStop() as far as its first wait; asked are the adapters that stop on
\* their own in the same step.
PerformStop(graceful, asked) ==
    IF NothingToStop
    THEN /\ state' = "STOPPED" /\ stopOutcome' = "resolved"
         /\ stopAsked' = stopAsked \cup asked
         /\ UNCHANGED <<stopOp, stopServer, awaited>>
    ELSE /\ stopOutcome' = "pending"
         /\ IF graceful /\ state \notin {"STARTING", "STOPPING"}
            THEN /\ state' = "DRAINING" /\ stopOp' = "draining" /\ stopServer' = server
                 /\ stopAsked' = stopAsked \cup asked
                 /\ UNCHANGED awaited
            ELSE BeginClose(server, FALSE)

\* The two early returns of stop().
MayStop == stopOp = "none" /\ (state # "STOPPED" \/ startOp # "none")

Stop(graceful) ==
    /\ MayStop
    /\ PerformStop(graceful, {})
    /\ UNCHANGED <<server, listens, native, abortedSignals, startVars>>

\* waitForDrainWork() is over, with or without time left.
DrainEnds ==
    /\ stopOp = "draining"
    /\ \E expired \in BOOLEAN : BeginClose(stopServer, expired)
    /\ UNCHANGED <<server, listens, native, abortedSignals, startVars, stopOutcome>>

\* Everything that performStop() waits for has succeeded.
Closed == /\ AdapterStopped(stopServer) /\ native[stopServer] # "failed"
          /\ awaited # NoServer => startOutcome[awaited] # "pending"

StopSucceeds ==
    /\ stopOp = "closing" /\ Closed
    /\ server' = NoServer /\ state' = "STOPPED" /\ listens' = NoServer
    /\ stopOp' = "none" /\ stopOutcome' = "resolved"
    /\ startOp' = IF startOp = "chained" THEN "released" ELSE startOp
    /\ UNCHANGED <<startServer, startOutcome, adapterVars, stopServer, awaited>>

\* The deadline, the signal, the native server or a session makes stop() fail,
\* and with it a start that was chained to it.
StopFails ==
    /\ stopOp = "closing"
    /\ state' = "STOPPING" /\ listens' = NoServer
    /\ stopOp' = "none" /\ stopOutcome' = "rejected"
    /\ IF startOp = "chained"
       THEN /\ startOp' = "none" /\ native' = [native EXCEPT ![startServer] = "absent"]
            /\ startOutcome' = [startOutcome EXCEPT ![startServer] = "rejected"]
       ELSE UNCHANGED <<startOp, native, startOutcome>>
    /\ UNCHANGED <<server, startServer, stopAsked, abortedSignals, stopServer, awaited>>

-----------------------------------------------------------------------------
(* Signals and the native server *)

\* The signals given to the start() of the adapters in A abort.  The driver's
\* listener runs first; an adapter's, which its stop() removes, stops the native
\* server at once.
AbortSignals(A) ==
    /\ abortedSignals' = abortedSignals \cup A
    /\ LET own == {a \in A : native[a] \in Alive \cup Dead}
       IN  IF listens \in A /\ MayStop
           THEN PerformStop(TRUE, own)
           ELSE stopAsked' = stopAsked \cup own /\ UNCHANGED <<state, stopVars>>
    /\ UNCHANGED <<server, listens, native, startVars>>

Abort(a) == native[a] # "unused" /\ a \notin abortedSignals /\ AbortSignals({a})

\* The native server reports "listening".
NativeListens(a) ==
    /\ native[a] = "opening" /\ native' = [native EXCEPT ![a] = "listening"]
    /\ UNCHANGED <<state, server, listens, stopAsked, abortedSignals, startVars, stopVars>>

\* It reports "serverClosed" or "serverError", asked to or not.
NativeEnds(a, how) ==
    /\ native[a] \in Alive
    /\ ~(startOp = "opening" /\ startServer = a /\ native[a] = "listening")
    /\ native' = [native EXCEPT ![a] = how]
    /\ UNCHANGED <<state, server, listens, stopAsked, abortedSignals, startVars, stopVars>>

\* Mutant: only failures are reported.
EndsUnaskedByFailure(a) == native[a] = "failed" /\ a \notin stopAsked

\* server.closed settles after the start, and nobody has called stop().
EndsUnasked(a) == native[a] \in Dead /\ a \notin stopAsked

\* What makes the adapter call reportError(): an end it has not asked for, or a
\* pump or a dispatch that failed.
Reports(a) ==
    \/ EndsUnasked(a) /\ (startServer = a => startOp = "none")
    \/ native[a] \in Alive

\* handleServerError().
ServerReports(a) ==
    /\ Reports(a) /\ state \in {"RUNNING", "STARTING"}
    /\ Stop(FALSE)

-----------------------------------------------------------------------------
DriverInternal ==
    \/ StartReleased \/ StartReady \/ StartDies \/ StartFails
    \/ DrainEnds \/ StopSucceeds \/ StopFails
    \/ \E a \in Servers :
          \/ NativeListens(a) \/ ServerReports(a)
          \/ \E how \in Dead : NativeEnds(a, how)

-----------------------------------------------------------------------------
(* Properties *)

\* A stop wins against the start it overtakes: a driver that says it runs has
\* a server that nobody has asked to close.
RunningServes == state = "RUNNING" => server # NoServer /\ server \notin stopAsked

\* However a stop settles, deadline or not, the native server was told to close.
StopReachesNative ==
    [][stopOp # "none" /\ stopOp' = "none" => stopServer \in stopAsked]_driverVars

\* An aborted start signal never leaves a driver that starts or runs with it.
AbortStops ==
    \A a \in Servers : a \in abortedSignals ~> ~(server = a /\ state \in {"STARTING", "RUNNING"})

\* start() always settles, whatever stop() and the native server do meanwhile.
StartSettles == startOp # "none" ~> startOp = "none"

\* A driver whose native server has ended does not go on as running.
DeathNoticed == \A a \in Servers : (server = a /\ native[a] \in Dead) ~> ~(server = a /\ state = "RUNNING")

\* start(), stop(), an abort and the death of a server have their effect.
DriverProgress == StopReachesNative /\ AbortStops /\ StartSettles /\ DeathNoticed
=============================================================================
