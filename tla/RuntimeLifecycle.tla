--------------------------- MODULE RuntimeLifecycle ----------------------------
(***************************************************************************)
(* Bootstrap and shutdown of webtransport-runtime.ts, and the health       *)
(* service, on top of the driver of DriverLifecycle: the runtime is the    *)
(* only one who starts and stops the driver.                               *)
(*                                                                         *)
(* Abstracted: the sessions (see SessionAdmission and StreamTracking), so  *)
(* that draining and closing them takes any time, up to their timeouts.    *)
(***************************************************************************)
EXTENDS DriverLifecycle

VARIABLES
    rtState,        \* this.lifecycle.state
    joined,         \* the start() of the driver that startPromise waits for, or NoServer
    controls,       \* the start() that was given startupController's signal, or NoServer
    rtStop,         \* where stop() is, "none" without stopPromise
    subscribed,     \* this.unsubscribeFromDriver is set
    signalListened, \* the listener on options.server.signal is in place
    serverAborted,  \* options.server.signal.aborted
    stopQueued      \* a bootstrap found the signal aborted and has queued a stop()

rtVars == <<rtState, joined, controls, rtStop, subscribed, signalListened, serverAborted, stopQueued>>
vars == <<driverVars, rtVars>>

TypeOK ==
    /\ DriverTypeOK /\ rtState \in States
    /\ joined \in Servers \cup {NoServer} /\ controls \in Servers \cup {NoServer}
    /\ rtStop \in {"none", "draining", "closing", "driver", "done"}
    /\ {subscribed, signalListened, serverAborted, stopQueued} \subseteq BOOLEAN

Init ==
    /\ DriverInit /\ rtState = "STOPPED" /\ joined = NoServer /\ controls = NoServer
    /\ rtStop = "none" /\ subscribed = FALSE /\ signalListened = FALSE /\ serverAborted = FALSE /\ stopQueued = FALSE

-----------------------------------------------------------------------------
(* onApplicationBootstrap() *)

\* driver.start() by the runtime: a running driver and a start at hand are joined.
StartDriver ==
    \/ /\ state = "RUNNING" /\ joined' = server /\ controls' = NoServer
       /\ UNCHANGED driverVars
    \/ /\ state # "RUNNING" /\ startOp # "none" /\ joined' = startServer /\ controls' = NoServer
       /\ UNCHANGED driverVars
    \/ \E a \in Servers : Start(a) /\ joined' = a /\ controls' = a

\* Bootstrap of a stopped runtime.  It returns at once in every other state,
\* and throws without a change if a handler is not supported by the driver.
Bootstrap ==
    /\ joined = NoServer /\ rtState = "STOPPED"
    /\ rtState' = "STARTING" /\ subscribed' = TRUE /\ signalListened' = TRUE
    /\ stopQueued' = serverAborted
    /\ StartDriver
    /\ UNCHANGED <<rtStop, serverAborted>>

\* Mutant: the lifecycle is not looked at again after the driver has started.
StartIsCurrentAlways == TRUE

StartIsCurrent == rtState = "STARTING"

\* driver.start() has resolved.
Started ==
    /\ joined # NoServer /\ startOutcome[joined] = "resolved"
    /\ rtState' = IF StartIsCurrent THEN "RUNNING" ELSE rtState
    /\ joined' = NoServer /\ controls' = NoServer
    /\ UNCHANGED <<driverVars, rtStop, subscribed, signalListened, serverAborted, stopQueued>>

\* driver.start() has rejected: the transition to STOPPED passes STOPPING.
StartRejected ==
    /\ joined # NoServer /\ startOutcome[joined] = "rejected"
    /\ subscribed' = FALSE /\ signalListened' = FALSE
    /\ rtState' = IF StartIsCurrent THEN "STOPPED" ELSE rtState
    /\ joined' = NoServer /\ controls' = NoServer
    /\ UNCHANGED <<driverVars, rtStop, serverAborted, stopQueued>>

-----------------------------------------------------------------------------
(* stop() *)

\* performStop() of the runtime as far as its first wait, without the abort of
\* startupController.
BeginStop ==
    /\ rtStop = "none" /\ rtState # "STOPPED"
    /\ rtState' = IF rtState = "RUNNING" THEN "DRAINING" ELSE "STOPPING"
    /\ rtStop' = IF rtState = "RUNNING" THEN "draining" ELSE "closing"
    /\ subscribed' = FALSE /\ signalListened' = FALSE

\* The start that startupController?.abort() cancels.
Cancelled == {controls} \ {NoServer}

CancelStart ==
    /\ BeginStop
    /\ AbortSignals(Cancelled)
    /\ UNCHANGED <<joined, controls, serverAborted>>

RuntimeStop == CancelStart /\ UNCHANGED stopQueued

\* The drain is over, or its timeout.
Drained ==
    /\ rtStop = "draining"
    /\ rtState' = "STOPPING" /\ rtStop' = "closing"
    /\ UNCHANGED <<driverVars, joined, controls, subscribed, signalListened, serverAborted, stopQueued>>

\* The start was cancelled and the sessions closed, or the time is up:
\* driver.stop().
StopDriver ==
    /\ rtStop = "closing"
    /\ IF MayStop
       THEN rtStop' = "driver" /\ \E graceful \in BOOLEAN : Stop(graceful)
       ELSE rtStop' = (IF stopOp = "none" THEN "done" ELSE "driver") /\ UNCHANGED driverVars
    /\ UNCHANGED <<rtState, joined, controls, subscribed, signalListened, serverAborted, stopQueued>>

\* Mutant: the runtime is stopped even if the driver is not.
StoppedRegardless == TRUE

\* driver.stop() has resolved.
DriverStopResolved == rtStop = "done" \/ stopOutcome = "resolved"

\* The stop of the driver has settled; a failure leaves the runtime in STOPPING.
StopSettles ==
    /\ rtStop = "done" \/ (rtStop = "driver" /\ stopOp = "none")
    /\ rtState' = IF DriverStopResolved /\ rtState = "STOPPING" THEN "STOPPED" ELSE rtState
    /\ rtStop' = "none"
    /\ UNCHANGED <<driverVars, joined, controls, subscribed, signalListened, serverAborted, stopQueued>>

\* withTimeout() gives up the stop of the driver.
StopGivesUp ==
    /\ rtStop = "driver" /\ stopOp # "none"
    /\ rtStop' = "none"
    /\ UNCHANGED <<driverVars, rtState, joined, controls, subscribed, signalListened, serverAborted, stopQueued>>

\* Mutant: the listener is there for the startup only.
SignalStopsStart == signalListened /\ rtStop = "none" /\ rtState = "STARTING"

\* The listener is in place and stop() has something to do.
SignalStopsServer == signalListened /\ rtStop = "none" /\ rtState # "STOPPED"

\* options.server.signal aborts: stop() of the runtime, then the signals that
\* depend on it, of the starts so far and to come.
ServerSignalAborts ==
    /\ ~serverAborted /\ serverAborted' = TRUE
    /\ IF SignalStopsServer THEN BeginStop ELSE UNCHANGED <<rtState, rtStop, subscribed, signalListened>>
    /\ AbortSignals(Servers)
    /\ UNCHANGED <<joined, controls, stopQueued>>

\* The stop() that a bootstrap has queued.
QueuedStop ==
    /\ stopQueued /\ stopQueued' = FALSE
    /\ \/ CancelStart
       \/ /\ rtStop # "none" \/ rtState = "STOPPED"
          /\ UNCHANGED <<driverVars, rtState, joined, controls, rtStop, subscribed, signalListened, serverAborted>>

-----------------------------------------------------------------------------
Next ==
    \/ Bootstrap \/ Started \/ StartRejected
    \/ RuntimeStop \/ Drained \/ StopDriver \/ StopSettles \/ StopGivesUp
    \/ ServerSignalAborts \/ QueuedStop
    \/ DriverInternal /\ UNCHANGED rtVars

Spec == Init /\ [][Next]_vars

\* Promises settle and timers fire, in the runtime as in the driver.
LiveSpec ==
    /\ Spec
    /\ WF_vars(Started) /\ WF_vars(StartRejected) /\ WF_vars(QueuedStop)
    /\ WF_vars(Drained) /\ WF_vars(StopDriver) /\ WF_vars(StopSettles \/ StopGivesUp)
    /\ WF_vars(StartReleased /\ UNCHANGED rtVars) /\ WF_vars(StartReady /\ UNCHANGED rtVars)
    /\ WF_vars(StartDies /\ UNCHANGED rtVars) /\ WF_vars(StartFails /\ UNCHANGED rtVars)
    /\ WF_vars(DrainEnds /\ UNCHANGED rtVars)
    /\ WF_vars((StopSucceeds \/ StopFails) /\ UNCHANGED rtVars)
    /\ \A a \in Servers :
          /\ WF_vars(NativeListens(a) /\ UNCHANGED rtVars)
          /\ WF_vars(a \in stopAsked /\ NativeEnds(a, "closed") /\ UNCHANGED rtVars)
          /\ WF_vars(native[a] \in Dead /\ ServerReports(a) /\ UNCHANGED rtVars)

-----------------------------------------------------------------------------
(* Properties *)

\* webtransport-health.service.ts, getStatus().ready.
Ready == rtState = "RUNNING" /\ state = "RUNNING"

\* What the health service calls ready takes sessions: the runtime subscribes to
\* the driver's, and nobody has asked the native server to close.
ReadyServes == Ready => subscribed /\ server \notin stopAsked

\* A runtime that is stopped leaves no native server behind, however its start
\* and stops went.
StoppedIsDown == rtState = "STOPPED" => \A a \in Servers : native[a] \notin Alive

\* No transition() of the runtime throws: the runtime implements the lifecycle
\* of core.
RuntimeStates == INSTANCE Lifecycle WITH lifecycle <- rtState
ImplementsLifecycle == RuntimeStates!Spec

\* When the server's signal aborts, the runtime stops, also if that was before
\* its bootstrap.
SignalStops == serverAborted ~> rtState \notin {"STARTING", "RUNNING"}

\* The health service does not go on to call a server ready that has ended.
DeathMakesUnready ==
    \A a \in Servers : (server = a /\ native[a] \in Dead) ~> ~(server = a /\ Ready)

\* A stop of the runtime always settles, and so does its bootstrap.
RuntimeSettles == /\ rtStop # "none" ~> rtStop = "none"
                  /\ joined # NoServer ~> joined = NoServer

\* What the runtime says of itself is true of the driver and the native servers.
StateTruthful == TypeOK /\ ReadyServes /\ StoppedIsDown

\* A stop, an abort and a dead server have their effect in the end.
RuntimeProgress == DriverProgress /\ SignalStops /\ DeathMakesUnready /\ RuntimeSettles
=============================================================================
