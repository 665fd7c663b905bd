------------------------ MODULE RuntimeLifecycleProofs -------------------------
(***************************************************************************)
(* Theorems about start and stop, for any number of starts: a driver that  *)
(* says it runs has a server nobody has asked to close, what the health    *)
(* service calls ready takes sessions, and the runtime keeps to the        *)
(* lifecycle of core.                                                      *)
(***************************************************************************)
EXTENDS RuntimeLifecycle, TLAPS

Up == {"STARTING", "RUNNING"}
Fresh == {"unused", "queued"}

\* A driver that starts or runs has a server, listens to its signal and stops
\* nothing; one that runs has no start at hand.
UpIsHeld == /\ state \in Up => server # NoServer /\ listens = server /\ stopOp = "none"
            /\ state = "RUNNING" => startOp = "none"

\* A start that may still make the driver RUNNING has a server nobody stops.
OpeningUnasked ==
    state = "STARTING" /\ startOp = "opening" /\ server = startServer => server \notin stopAsked

\* An adapter without a native server has not been told to stop it, and neither
\* the driver nor its stop() knows the adapter.
FreshUntouched ==
    /\ \A a \in Servers : native[a] \in Fresh => a \notin stopAsked
    /\ server # NoServer => native[server] \notin Fresh
    /\ stopOp # "none" => stopServer \in Servers /\ native[stopServer] \notin Fresh

\* A start at hand has its adapter; one that was chained waits for the stop.
StartHasAdapter ==
    /\ startOp # "none" => startServer \in Servers
    /\ startOp \in {"chained", "released"} => native[startServer] = "queued"
    /\ startOp = "released" => stopOp = "none" /\ server = NoServer

NobodyAlive == \A a \in Servers : native[a] \notin Alive

\* The driver knows every native server that is alive, and what it starts and
\* what it stops are that server.
OneServer ==
    /\ \A a \in Servers : native[a] \in Alive => a = server
    /\ state = "STOPPED" => server = NoServer
    /\ stopOp # "none" => server \in {stopServer, NoServer}
    /\ startOp \in {"opening", "failing", "stopping"} => server \in {startServer, NoServer}
    /\ startOp = "failing" => native[startServer] = "absent"
    /\ startOp = "chained" => stopOp # "none" /\ NobodyAlive
    /\ startOp = "released" => state = "STOPPED"

\* A start() settles when it ends, and not before.
StartPending ==
    /\ startOp # "none" => startOutcome[startServer] = "pending"
    /\ \A a \in Servers : native[a] = "unused" => startOutcome[a] = "pending"

DriverInv == /\ DriverTypeOK /\ UpIsHeld /\ RunningServes /\ OpeningUnasked
             /\ FreshUntouched /\ StartHasAdapter /\ OneServer /\ StartPending

\* Where the runtime's stop() is tells its state; it is subscribed from its
\* bootstrap to its stop, and waits for its start() that long.
RuntimePhases ==
    /\ rtStop = "draining" => rtState = "DRAINING"
    /\ rtStop \in {"closing", "driver", "done"} => rtState = "STOPPING"
    /\ rtState \in Up => subscribed
    /\ rtState = "RUNNING" => joined = NoServer
    /\ rtState = "STARTING" => joined # NoServer
    /\ controls \in {joined, NoServer}

\* A start that still waits for a stop will find its signal aborted, unless it
\* is the one the runtime waits for.
ChainedIsCurrent ==
    startOp \in {"chained", "released"} =>
        /\ startServer \in abortedSignals \/ (rtState = "STARTING" /\ controls = startServer)
        /\ rtState = "STARTING" => joined = startServer

\* Nothing is alive when the runtime is stopped, or about to be.
NothingLeft ==
    /\ StoppedIsDown
    /\ rtState = "STARTING" /\ startOutcome[joined] = "rejected" => NobodyAlive
    /\ rtStop = "done" => NobodyAlive
    /\ rtStop = "driver" /\ stopOp = "none" /\ stopOutcome = "resolved" => NobodyAlive

RuntimeInv == TypeOK /\ RuntimePhases /\ ChainedIsCurrent /\ NothingLeft

IndInv == DriverInv /\ RuntimeInv

USE NoServerIsNone

-----------------------------------------------------------------------------
(* The driver *)

\* performStart() begins with an adapter that was never told to stop.
LEMMA PerformStartKeeps ==
    ASSUME DriverInv, NEW a \in Servers, native[a] \in Fresh, stopOp = "none",
           NobodyAlive, startOutcome[a] = "pending",
           PerformStart(a), UNCHANGED <<stopAsked, abortedSignals, startOutcome, stopVars>>
    PROVE  DriverInv'
<1>1. DriverTypeOK'
  BY DEF DriverInv, DriverTypeOK, PerformStart, stopVars, States, Alive, Dead, Fresh
<1>2. a \notin stopAsked
  BY DEF DriverInv, FreshUntouched
<1>3. native[a] \in Fresh /\ native'[a] \notin Fresh /\ \A b \in Servers : b # a => native'[b] = native[b]
  BY DEF DriverInv, DriverTypeOK, PerformStart, Fresh
<1>4. UpIsHeld' /\ RunningServes' /\ OpeningUnasked'
  BY <1>2 DEF PerformStart, stopVars, UpIsHeld, RunningServes, OpeningUnasked, Up
<1>5. FreshUntouched'
  BY <1>2, <1>3 DEF DriverInv, DriverTypeOK, FreshUntouched, PerformStart, stopVars
<1>6. StartHasAdapter'
  BY DEF PerformStart, StartHasAdapter
<1>7. OneServer'
  BY <1>3 DEF DriverInv, DriverTypeOK, PerformStart, OneServer, NobodyAlive, stopVars
<1>8. StartPending'
  BY <1>3 DEF DriverInv, StartPending, PerformStart, Fresh
<1> QED  BY <1>1, <1>4, <1>5, <1>6, <1>7, <1>8 DEF DriverInv

\* start(), at once or chained to a stop.
LEMMA StartKeeps ==
    ASSUME DriverInv, NobodyAlive, NEW a \in Servers, Start(a)
    PROVE  DriverInv'
<1>1. native[a] \in Fresh /\ startOutcome[a] = "pending"
  BY DEF Start, Fresh, DriverInv, StartPending
<1>2. CASE stopOp = "none"
  BY <1>1, <1>2, PerformStartKeeps DEF Start
<1>3. CASE stopOp # "none"
  <2>1. /\ startOp' = "chained" /\ startServer' = a /\ native' = [native EXCEPT ![a] = "queued"]
        /\ UNCHANGED <<state, server, listens, stopAsked, abortedSignals, startOutcome,
                       stopOp, stopServer, awaited, stopOutcome>>
    BY <1>3 DEF Start, stopVars
  <2>2. DriverTypeOK'
    BY <2>1 DEF DriverInv, DriverTypeOK
  <2>3. UpIsHeld' /\ RunningServes' /\ OpeningUnasked'
    BY <1>3, <2>1 DEF DriverInv, UpIsHeld, RunningServes, OpeningUnasked, Up
  <2>4. \A b \in Servers : native'[b] \in Fresh <=> native[b] \in Fresh
    BY <1>1, <2>1 DEF DriverInv, DriverTypeOK, Fresh
  <2>5. FreshUntouched'
    BY <2>1, <2>4 DEF DriverInv, DriverTypeOK, FreshUntouched
  <2>6. StartHasAdapter'
    BY <2>1 DEF DriverInv, DriverTypeOK, StartHasAdapter
  <2>7. NobodyAlive'
    BY <2>1 DEF DriverInv, DriverTypeOK, NobodyAlive, Alive
  <2>8. OneServer'
    BY <1>3, <2>1, <2>7 DEF DriverInv, OneServer, NobodyAlive
  <2>9. StartPending'
    BY <1>1, <2>1 DEF DriverInv, DriverTypeOK, StartPending
  <2> QED  BY <2>2, <2>3, <2>5, <2>6, <2>8, <2>9 DEF DriverInv
<1> QED  BY <1>2, <1>3

\* performStop() as far as its first wait leaves nothing that is up; the
\* adapters that stop on their own have a native server.
LEMMA PerformStopKeeps ==
    ASSUME DriverInv, NEW graceful \in BOOLEAN, NEW asked \in SUBSET Servers,
           \A a \in asked : native[a] \notin Fresh,
           MayStop, PerformStop(graceful, asked),
           UNCHANGED <<server, listens, native, startVars>>, abortedSignals' \subseteq Servers
    PROVE  DriverInv'
<1> USE DEF PerformStop, BeginClose, AskedToStop, NothingToStop, MayStop, startVars
<1>1. state' \notin Up
  BY DEF Up
<1>2. /\ stopAsked' \subseteq stopAsked \cup asked \cup ({server} \ {NoServer})
      /\ stopOp' \in {"none", "draining", "closing"}
      /\ stopOp' # "none" => stopServer' = server /\ server # NoServer
      /\ server = NoServer => stopOp' = "none"
  BY DEF NothingToStop
<1>3. awaited' \in Servers \cup {NoServer} /\ state' \in States /\ stopServer' \in Servers \cup {NoServer}
      /\ stopOutcome' \in {"pending", "resolved", "rejected"}
  BY DEF DriverInv, DriverTypeOK, States, Awaited
<1>4. DriverTypeOK'
  BY <1>2, <1>3 DEF DriverInv, DriverTypeOK
<1>5. UpIsHeld' /\ RunningServes' /\ OpeningUnasked'
  BY <1>1 DEF UpIsHeld, RunningServes, OpeningUnasked, Up
<1>6. FreshUntouched'
  BY <1>2 DEF DriverInv, DriverTypeOK, FreshUntouched
<1>7. StartHasAdapter'
  BY <1>2 DEF DriverInv, StartHasAdapter
<1>8. OneServer'
  BY DEF DriverInv, OneServer, NobodyAlive
<1>9. StartPending'
  BY DEF DriverInv, StartPending
<1> QED  BY <1>4, <1>5, <1>6, <1>7, <1>8, <1>9 DEF DriverInv

\* stop().
LEMMA StopKeeps ==
    ASSUME DriverInv, NEW graceful \in BOOLEAN, Stop(graceful)
    PROVE  DriverInv'
BY PerformStopKeeps DEF Stop, DriverInv, DriverTypeOK

\* An aborted signal of the current server stops the driver before the adapter
\* stops its native server.
LEMMA AbortKeeps ==
    ASSUME DriverInv, NEW A \in SUBSET Servers, AbortSignals(A)
    PROVE  DriverInv'
<1> DEFINE own == {a \in A : native[a] \in Alive \cup Dead}
<1>1. own \in SUBSET Servers /\ \A a \in own : native[a] \notin Fresh
  BY DEF Alive, Dead, Fresh
<1>2. CASE listens \in A /\ MayStop
  <2>1. PerformStop(TRUE, own) /\ UNCHANGED <<server, listens, native, startVars>>
    BY <1>2 DEF AbortSignals
  <2>2. abortedSignals' \subseteq Servers
    BY DEF AbortSignals, DriverInv, DriverTypeOK
  <2> QED  BY <1>1, <1>2, <2>1, <2>2, PerformStopKeeps
<1>3. CASE ~(listens \in A /\ MayStop)
  <2>1. /\ stopAsked' = stopAsked \cup own /\ abortedSignals' = abortedSignals \cup A
        /\ UNCHANGED <<state, server, listens, native, startOp, startServer, startOutcome,
                       stopOp, stopServer, awaited, stopOutcome>>
    BY <1>3 DEF AbortSignals, startVars, stopVars
  <2>2. DriverTypeOK'
    BY <1>1, <2>1 DEF DriverInv, DriverTypeOK
  <2>3. state \in Up => server \notin own
    BY <1>3 DEF DriverInv, UpIsHeld, MayStop, Up
  <2>4. UpIsHeld' /\ RunningServes' /\ OpeningUnasked'
    BY <2>1, <2>3 DEF DriverInv, UpIsHeld, RunningServes, OpeningUnasked, Up
  <2>5. FreshUntouched' /\ StartHasAdapter'
    BY <1>1, <2>1 DEF DriverInv, FreshUntouched, StartHasAdapter
  <2>6. OneServer' /\ StartPending'
    BY <2>1 DEF DriverInv, OneServer, NobodyAlive, StartPending
  <2> QED  BY <2>2, <2>4, <2>5, <2>6 DEF DriverInv
<1> QED  BY <1>2, <1>3

\* Every step of the driver and of its native servers.
LEMMA InternalKeeps ==
    ASSUME DriverInv, DriverInternal
    PROVE  DriverInv'
<1> USE DEF DriverInv
<1>1. CASE StartReleased
  <2>1. native[startServer] \in Fresh /\ startServer \in Servers /\ stopOp = "none"
    BY <1>1 DEF StartReleased, StartHasAdapter, Fresh
  <2>2. NobodyAlive /\ startOutcome[startServer] = "pending"
    BY <1>1 DEF StartReleased, StartHasAdapter, OneServer, NobodyAlive, StartPending
  <2> QED  BY <1>1, <2>1, <2>2, PerformStartKeeps DEF StartReleased
<1>2. CASE StartReady
  <2> USE <1>2 DEF StartReady, StillStarting, adapterVars, stopVars
  <2>1. DriverTypeOK'
    BY DEF DriverTypeOK, States
  <2>2. UpIsHeld' /\ RunningServes' /\ OpeningUnasked'
    BY DEF UpIsHeld, RunningServes, OpeningUnasked, Up
  <2>3. FreshUntouched' /\ StartHasAdapter'
    BY DEF FreshUntouched, StartHasAdapter
  <2>4. OneServer' /\ StartPending'
    BY DEF OneServer, NobodyAlive, StartPending, DriverTypeOK
  <2> QED  BY <2>1, <2>2, <2>3, <2>4
<1>3. CASE StartDies
  <2> USE <1>3 DEF StartDies, DiesBeforeReady, stopVars
  <2>1. startServer \in Servers /\ native[startServer] \notin Fresh
    BY DEF StartHasAdapter, Dead, Fresh
  <2>2. DriverTypeOK'
    BY <2>1 DEF DriverTypeOK
  <2>3. state # "RUNNING"
    BY DEF UpIsHeld
  <2>4. UpIsHeld' /\ RunningServes' /\ OpeningUnasked'
    BY <2>3 DEF UpIsHeld, RunningServes, OpeningUnasked, Up
  <2>5. FreshUntouched' /\ StartHasAdapter'
    BY <2>1 DEF FreshUntouched, StartHasAdapter
  <2>6. OneServer' /\ StartPending'
    BY DEF OneServer, NobodyAlive, StartPending
  <2> QED  BY <2>2, <2>4, <2>5, <2>6
<1>4. CASE StartFails
  <2> USE <1>4 DEF StartFails, adapterVars, stopVars
  <2>1. DriverTypeOK'
    BY DEF DriverTypeOK, States
  <2>2. UpIsHeld' /\ RunningServes' /\ OpeningUnasked'
    BY DEF UpIsHeld, RunningServes, OpeningUnasked, Up
  <2>3. FreshUntouched' /\ StartHasAdapter'
    BY DEF FreshUntouched, StartHasAdapter
  <2>4. native[startServer] \notin Alive \cup {"unused"}
    BY DEF OneServer, AdapterStopped, Alive, Dead
  <2>5. OneServer' /\ StartPending'
    BY <2>4 DEF OneServer, NobodyAlive, StartPending, DriverTypeOK
  <2> QED  BY <2>1, <2>2, <2>3, <2>5
<1>5. CASE DrainEnds
  <2> USE <1>5 DEF DrainEnds, BeginClose, AskedToStop, startVars
  <2>1. stopServer \in Servers /\ native[stopServer] \notin Fresh
    BY DEF FreshUntouched
  <2>2. DriverTypeOK'
    BY <2>1 DEF DriverTypeOK, States, Awaited
  <2>3. UpIsHeld' /\ RunningServes' /\ OpeningUnasked'
    BY DEF UpIsHeld, RunningServes, OpeningUnasked, Up
  <2>4. FreshUntouched' /\ StartHasAdapter'
    BY <2>1 DEF FreshUntouched, StartHasAdapter
  <2>5. OneServer' /\ StartPending'
    BY DEF OneServer, NobodyAlive, StartPending, StartHasAdapter
  <2> QED  BY <2>2, <2>3, <2>4, <2>5
<1>6. CASE StopSucceeds
  <2> USE <1>6 DEF StopSucceeds, adapterVars
  <2>1. DriverTypeOK'
    BY DEF DriverTypeOK, States
  <2>2. UpIsHeld' /\ RunningServes' /\ OpeningUnasked'
    BY DEF UpIsHeld, RunningServes, OpeningUnasked, Up
  <2>3. FreshUntouched' /\ StartHasAdapter'
    BY DEF FreshUntouched, StartHasAdapter
  <2>4. native[stopServer] \notin Alive
    BY DEF Closed, AdapterStopped, Alive, Dead
  <2>5. OneServer' /\ StartPending'
    BY <2>4 DEF OneServer, NobodyAlive, StartPending
  <2> QED  BY <2>1, <2>2, <2>3, <2>5
<1>7. CASE StopFails
  <2> USE <1>7 DEF StopFails
  <2>1. DriverTypeOK'
    BY DEF DriverTypeOK, States
  <2>2. UpIsHeld' /\ RunningServes' /\ OpeningUnasked'
    BY DEF UpIsHeld, RunningServes, OpeningUnasked, Up
  <2>3. \A a \in Servers : native'[a] \in Fresh => native[a] \in Fresh
    BY DEF DriverTypeOK, Fresh
  <2>4. FreshUntouched' /\ StartHasAdapter'
    BY <2>3 DEF FreshUntouched, StartHasAdapter, DriverTypeOK
  <2>5. \A a \in Servers : /\ native'[a] \in Alive => native[a] \in Alive
                           /\ native'[a] = "unused" => native[a] = "unused" /\ startOutcome'[a] = startOutcome[a]
    BY DEF DriverTypeOK, Alive, StartHasAdapter
  <2>6. OneServer' /\ StartPending'
    BY <2>5 DEF OneServer, NobodyAlive, StartPending, DriverTypeOK, StartHasAdapter
  <2> QED  BY <2>1, <2>2, <2>4, <2>6
<1>8. ASSUME NEW a \in Servers, native' = [native EXCEPT ![a] = native'[a]],
             native[a] \in Alive, native'[a] \in Alive \cup Dead,
             UNCHANGED <<state, server, listens, stopAsked, abortedSignals, startVars, stopVars>>
      PROVE  DriverInv'
  <2> USE <1>8 DEF startVars, stopVars
  <2>1. DriverTypeOK'
    BY DEF DriverTypeOK, Alive, Dead
  <2>2. UpIsHeld' /\ RunningServes' /\ OpeningUnasked'
    BY DEF UpIsHeld, RunningServes, OpeningUnasked
  <2>3. \A b \in Servers : /\ native'[b] \in Fresh <=> native[b] \in Fresh
                           /\ native[b] = "queued" => native'[b] = "queued"
    BY DEF DriverTypeOK, Fresh, Alive, Dead
  <2>4. FreshUntouched' /\ StartHasAdapter'
    BY <2>3 DEF FreshUntouched, StartHasAdapter, DriverTypeOK
  <2>5. \A b \in Servers : /\ native'[b] \in Alive => native[b] \in Alive
                           /\ native[b] \in {"unused", "absent"} <=> native'[b] \in {"unused", "absent"}
                           /\ native'[b] = "unused" => native[b] = "unused"
                           /\ native[b] = "absent" => native'[b] = "absent"
    BY DEF DriverTypeOK, Alive, Dead
  <2>6. OneServer' /\ StartPending'
    BY <2>5 DEF OneServer, NobodyAlive, StartPending, StartHasAdapter
  <2> QED  BY <2>1, <2>2, <2>4, <2>6
<1>9. ASSUME NEW a \in Servers, NativeListens(a) PROVE DriverInv'
  BY <1>8, <1>9 DEF NativeListens, DriverTypeOK, Alive
<1>10. ASSUME NEW a \in Servers, NEW how \in Dead, NativeEnds(a, how) PROVE DriverInv'
  BY <1>8, <1>10 DEF NativeEnds, DriverTypeOK
<1>11. ASSUME NEW a \in Servers, ServerReports(a) PROVE DriverInv'
  BY <1>11, StopKeeps DEF ServerReports
<1> QED
  BY <1>1, <1>2, <1>3, <1>4, <1>5, <1>6, <1>7, <1>9, <1>10, <1>11 DEF DriverInternal

-----------------------------------------------------------------------------
(* What the driver's steps mean to the runtime *)

\* No step of the driver but the begin of a start makes a native server, and one
\* that was told to abort makes none.
LEMMA NobodyBorn ==
    ASSUME DriverInv, DriverInternal,
           StartReleased => startServer \in abortedSignals
    PROVE  \A a \in Servers : native'[a] \in Alive => native[a] \in Alive
<1> USE DEF DriverInv, DriverTypeOK
<1>1. CASE StartReleased
  BY <1>1 DEF StartReleased, PerformStart, MayCreate, Alive
<1>2. CASE StartReady \/ StartDies \/ StartFails \/ DrainEnds \/ StopSucceeds
  BY <1>2 DEF StartReady, StartDies, StartFails, DrainEnds, StopSucceeds, adapterVars
<1>3. CASE StopFails
  BY <1>3 DEF StopFails, Alive
<1>4. ASSUME NEW b \in Servers, NativeListens(b) \/ (\E how \in Dead : NativeEnds(b, how))
      PROVE  \A a \in Servers : native'[a] \in Alive => native[a] \in Alive
  BY <1>4 DEF NativeListens, NativeEnds, Alive
<1>5. ASSUME NEW b \in Servers, ServerReports(b)
      PROVE  native' = native
  BY <1>5 DEF ServerReports, Stop
<1> QED  BY <1>1, <1>2, <1>3, <1>4, <1>5 DEF DriverInternal

\* A start() that is rejected leaves nothing alive.
LEMMA RejectedIsDown ==
    ASSUME DriverInv, DriverInternal, NEW a \in Servers,
           startOutcome[a] # "rejected", startOutcome'[a] = "rejected"
    PROVE  NobodyAlive'
<1> USE DEF DriverInv, DriverTypeOK
<1>1. CASE StartFails
  <2>1. native[startServer] \notin Alive
    BY <1>1 DEF StartFails, OneServer, AdapterStopped, Alive, Dead
  <2> QED  BY <1>1, <2>1 DEF StartFails, OneServer, NobodyAlive, adapterVars
<1>2. CASE StopFails
  BY <1>2 DEF StopFails, OneServer, NobodyAlive, Alive
<1>3. CASE StartReady
  BY <1>3 DEF StartReady
<1>4. CASE StartReleased \/ StartDies \/ DrainEnds \/ StopSucceeds
  BY <1>4 DEF StartReleased, StartDies, DrainEnds, StopSucceeds, startVars
<1>5. ASSUME NEW b \in Servers, NativeListens(b) \/ (\E how \in Dead : NativeEnds(b, how)) \/ ServerReports(b)
      PROVE  startOutcome' = startOutcome
  BY <1>5 DEF NativeListens, NativeEnds, ServerReports, Stop, startVars
<1> QED  BY <1>1, <1>2, <1>3, <1>4, <1>5 DEF DriverInternal

\* A stop() that begins with nothing to stop finds nothing alive.
LEMMA ResolvedAtOnce ==
    ASSUME DriverInv, NEW graceful \in BOOLEAN, NEW asked, PerformStop(graceful, asked),
           native' = native, stopOp' = "none", stopOp = "none"
    PROVE  NobodyAlive'
BY DEF PerformStop, NothingToStop, BeginClose, DriverInv, OneServer, NobodyAlive

\* A stop() that resolves leaves nothing alive.
LEMMA ResolvedIsDown ==
    ASSUME DriverInv, DriverInternal, ChainedIsCurrent, rtState # "STARTING",
           stopOp = "none" /\ stopOutcome = "resolved" => NobodyAlive,
           stopOp' = "none" /\ stopOutcome' = "resolved"
    PROVE  NobodyAlive'
<1> USE DEF DriverInv, DriverTypeOK
<1>1. StartReleased => startServer \in abortedSignals
  BY DEF StartReleased, ChainedIsCurrent
<1>2. CASE stopOp = "none" /\ stopOutcome = "resolved"
  BY <1>1, <1>2, NobodyBorn DEF NobodyAlive
<1>3. CASE ~(stopOp = "none" /\ stopOutcome = "resolved")
  <2>1. CASE StartReleased \/ StartReady \/ StartDies \/ StartFails \/ DrainEnds
    BY <1>3, <2>1 DEF StartReleased, StartReady, StartDies, StartFails, DrainEnds, BeginClose, stopVars
  <2>2. CASE StopSucceeds
    <3>1. native[stopServer] \notin Alive
      BY <2>2 DEF StopSucceeds, Closed, AdapterStopped, Alive, Dead
    <3> QED  BY <2>2, <3>1 DEF StopSucceeds, OneServer, NobodyAlive, adapterVars
  <2>3. CASE StopFails
    BY <2>3 DEF StopFails
  <2>4. ASSUME NEW a \in Servers, ServerReports(a) PROVE NobodyAlive'
    BY <2>4, ResolvedAtOnce DEF ServerReports, Stop, MayStop
  <2>5. ASSUME NEW a \in Servers, NativeListens(a) \/ (\E how \in Dead : NativeEnds(a, how))
        PROVE  UNCHANGED <<stopOp, stopOutcome>>
    BY <2>5 DEF NativeListens, NativeEnds, stopVars
  <2> QED  BY <1>3, <2>1, <2>2, <2>3, <2>4, <2>5 DEF DriverInternal
<1> QED  BY <1>2, <1>3
-----------------------------------------------------------------------------
(* The runtime *)

\* How the steps of the runtime's stop() and of its signal change the driver:
\* the signals of the starts in A abort, and A holds the one it waits for.
LEMMA AbortMeans ==
    ASSUME DriverInv, NEW A \in SUBSET Servers, AbortSignals(A)
    PROVE  /\ native' = native /\ startOp' = startOp /\ startServer' = startServer
           /\ startOutcome' = startOutcome
           /\ abortedSignals' = abortedSignals \cup A
           /\ stopOp' = "none" /\ stopOutcome' = "resolved" =>
                 (stopOp = "none" /\ stopOutcome = "resolved") \/ NobodyAlive'
<1>1. native' = native /\ startOp' = startOp /\ startServer' = startServer
      /\ startOutcome' = startOutcome /\ abortedSignals' = abortedSignals \cup A
  BY DEF AbortSignals, startVars
<1>2. CASE listens \in A /\ MayStop
  <2> DEFINE own == {a \in A : native[a] \in Alive \cup Dead}
  <2>1. PerformStop(TRUE, own) /\ stopOp = "none"
    BY <1>2 DEF AbortSignals, MayStop
  <2> HIDE DEF own
  <2>2. stopOp' = "none" => NobodyAlive'
    BY <1>1, <2>1, ResolvedAtOnce
  <2> QED  BY <1>1, <2>2
<1>3. CASE ~(listens \in A /\ MayStop)
  BY <1>1, <1>3 DEF AbortSignals, stopVars
<1> QED  BY <1>2, <1>3

\* stop() of the runtime, called, queued or by the signal.
LEMMA StopBegins ==
    ASSUME IndInv, NEW A \in SUBSET Servers, controls # NoServer => controls \in A,
           BeginStop, AbortSignals(A), UNCHANGED <<joined, controls>>,
           serverAborted' \in BOOLEAN, stopQueued' \in BOOLEAN
    PROVE  IndInv'
<1> USE DEF IndInv, RuntimeInv
<1>1. DriverInv'
  BY AbortKeeps
<1>2. /\ native' = native /\ startOp' = startOp /\ startServer' = startServer
      /\ startOutcome' = startOutcome /\ abortedSignals' = abortedSignals \cup A
  BY AbortMeans
<1>3. rtState' \in {"DRAINING", "STOPPING"} /\ rtStop' \in {"draining", "closing"}
  BY DEF BeginStop
<1>4. TypeOK' /\ RuntimePhases'
  BY <1>1 DEF DriverInv, TypeOK, RuntimePhases, BeginStop, States, Up
<1>5. ChainedIsCurrent'
  BY <1>2, <1>3 DEF ChainedIsCurrent, DriverInv, StartHasAdapter
<1>6. NothingLeft'
  BY <1>3 DEF NothingLeft, StoppedIsDown
<1> QED  BY <1>1, <1>4, <1>5, <1>6

\* A step of the runtime that changes neither the driver nor what its start is.
LEMMA RuntimeOnly ==
    ASSUME IndInv, UNCHANGED <<driverVars, joined, controls>>,
           TypeOK', RuntimePhases', NothingLeft', rtState = "STARTING" <=> rtState' = "STARTING"
    PROVE  IndInv'
BY DEF IndInv, RuntimeInv, driverVars, adapterVars, startVars, stopVars, DriverInv, DriverTypeOK,
       UpIsHeld, RunningServes, OpeningUnasked, FreshUntouched, StartHasAdapter, OneServer,
       NobodyAlive, StartPending, ChainedIsCurrent

\* Bootstrap: the runtime was stopped, so nothing is alive.
LEMMA BootstrapKeeps ==
    ASSUME IndInv, Bootstrap
    PROVE  IndInv'
<1> USE DEF IndInv, RuntimeInv
<1>1. NobodyAlive
  BY DEF Bootstrap, NothingLeft, StoppedIsDown, NobodyAlive
<1>2. rtStop = "none" /\ rtStop' = "none"
  BY DEF Bootstrap, RuntimePhases, TypeOK
<1>3. CASE UNCHANGED driverVars
  <2>1. /\ joined' \in Servers /\ controls' = NoServer
        /\ (startOp # "none" /\ joined' = startServer) \/ (state = "RUNNING" /\ joined' = server)
    <3>1. \A a \in Servers : ~Start(a)
      BY <1>3 DEF Start, PerformStart, driverVars, startVars
    <3> QED  BY <3>1 DEF Bootstrap, StartDriver, DriverInv, DriverTypeOK, UpIsHeld, StartHasAdapter, Up
  <2>2. DriverInv' /\ NobodyAlive'
    BY <1>1, <1>3 DEF driverVars, adapterVars, startVars, stopVars, DriverInv, DriverTypeOK,
       UpIsHeld, RunningServes, OpeningUnasked, FreshUntouched, StartHasAdapter, OneServer,
       NobodyAlive, StartPending
  <2>3. TypeOK' /\ RuntimePhases'
    BY <1>2, <2>1, <2>2 DEF DriverInv, Bootstrap, TypeOK, RuntimePhases, States, Up
  <2>4. ChainedIsCurrent'
    BY <1>3, <2>1 DEF Bootstrap, ChainedIsCurrent, DriverInv, UpIsHeld, driverVars, adapterVars, startVars
  <2>5. NothingLeft'
    BY <1>2, <2>2 DEF NothingLeft, StoppedIsDown, NobodyAlive
  <2> QED  BY <2>2, <2>3, <2>4, <2>5
<1>4. ASSUME NEW a \in Servers, Start(a), joined' = a, controls' = a
      PROVE  IndInv'
  <2>1. DriverInv'
    BY <1>1, <1>4, StartKeeps
  <2>2. startServer' = a /\ startOutcome' = startOutcome /\ startOutcome[a] = "pending"
    BY <1>4 DEF Start, PerformStart, DriverInv, StartPending
  <2>3. TypeOK' /\ RuntimePhases'
    BY <1>2, <1>4, <2>1 DEF DriverInv, Bootstrap, TypeOK, RuntimePhases, States, Up
  <2>4. ChainedIsCurrent'
    BY <1>4, <2>2 DEF Bootstrap, ChainedIsCurrent
  <2>5. NothingLeft'
    BY <1>2, <1>4, <2>2 DEF Bootstrap, NothingLeft, StoppedIsDown
  <2> QED  BY <2>1, <2>3, <2>4, <2>5
<1> QED  BY <1>3, <1>4 DEF Bootstrap, StartDriver

\* A step of the driver or of a native server.
LEMMA DriverStepKeeps ==
    ASSUME IndInv, DriverInternal, UNCHANGED rtVars
    PROVE  IndInv'
<1> USE DEF IndInv, RuntimeInv, rtVars
<1>1. DriverInv'
  BY InternalKeeps
<1>2. TypeOK' /\ RuntimePhases'
  BY <1>1 DEF DriverInv, TypeOK, RuntimePhases, Up
<1>3. /\ startOp' \in {"chained", "released"} =>
           startOp \in {"chained", "released"} /\ startServer' = startServer
      /\ abortedSignals \subseteq abortedSignals'
  <2>1. CASE StartReleased \/ StartReady \/ StartDies \/ StartFails \/ DrainEnds \/ StopSucceeds \/ StopFails
    BY <2>1 DEF StartReleased, PerformStart, StartReady, StartDies, StartFails, DrainEnds, StopSucceeds,
       StopFails, adapterVars, startVars
  <2>2. ASSUME NEW a \in Servers,
               NativeListens(a) \/ ServerReports(a) \/ (\E how \in Dead : NativeEnds(a, how))
        PROVE  UNCHANGED <<startVars, abortedSignals>>
    BY <2>2 DEF NativeListens, NativeEnds, ServerReports, Stop
  <2> QED  BY <2>1, <2>2 DEF DriverInternal, startVars
<1>4. ChainedIsCurrent'
  BY <1>3 DEF ChainedIsCurrent
<1>5. NothingLeft'
  <2>1. CASE rtState = "STARTING"
    <3>1. joined \in Servers /\ rtStop = "none"
      BY <2>1 DEF TypeOK, RuntimePhases
    <3>2. CASE startOutcome[joined] = "rejected"
      <4>1. StartReleased => startServer \in abortedSignals
        BY <2>1, <3>2 DEF StartReleased, ChainedIsCurrent, DriverInv, StartPending
      <4> QED  BY <2>1, <3>1, <3>2, <4>1, NobodyBorn DEF NothingLeft, NobodyAlive, StoppedIsDown
    <3>3. CASE startOutcome[joined] # "rejected"
      BY <2>1, <3>1, <3>3, RejectedIsDown DEF NothingLeft, StoppedIsDown
    <3> QED  BY <3>2, <3>3
  <2>2. CASE rtState # "STARTING"
    <3>1. StartReleased => startServer \in abortedSignals
      BY <2>2 DEF StartReleased, ChainedIsCurrent
    <3>2. NobodyAlive => NobodyAlive'
      BY <3>1, NobodyBorn DEF NobodyAlive
    <3>3. StoppedIsDown' /\ (rtStop' = "done" => NobodyAlive')
      BY <3>2 DEF NothingLeft, StoppedIsDown, NobodyAlive
    <3>4. rtStop' = "driver" /\ stopOp' = "none" /\ stopOutcome' = "resolved" => NobodyAlive'
      BY <2>2, ResolvedIsDown DEF NothingLeft
    <3> QED  BY <2>2, <3>3, <3>4 DEF NothingLeft
  <2> QED  BY <2>1, <2>2
<1> QED  BY <1>1, <1>2, <1>4, <1>5

\* Every step of the runtime, the driver and the native servers keeps IndInv.
LEMMA NextKeeps ==
    ASSUME IndInv, [Next]_vars
    PROVE  IndInv'
<1> USE DEF IndInv, RuntimeInv
<1>1. CASE Bootstrap
  BY <1>1, BootstrapKeeps
<1>2. CASE Started \/ StartRejected
  <2> USE <1>2 DEF Started, StartRejected, StartIsCurrent
  <2>1. DriverInv'
    BY DEF driverVars, adapterVars, startVars, stopVars, DriverInv, DriverTypeOK,
       UpIsHeld, RunningServes, OpeningUnasked, FreshUntouched, StartHasAdapter, OneServer,
       NobodyAlive, StartPending
  <2>2. TypeOK' /\ RuntimePhases'
    BY <2>1 DEF DriverInv, TypeOK, RuntimePhases, States, Up
  <2>3. ChainedIsCurrent'
    BY DEF ChainedIsCurrent, DriverInv, StartPending, driverVars, adapterVars, startVars
  <2>4. NothingLeft'
    BY DEF NothingLeft, StoppedIsDown, NobodyAlive, RuntimePhases, driverVars, adapterVars, startVars, stopVars
  <2> QED  BY <2>1, <2>2, <2>3, <2>4
<1>3. CASE CancelStart /\ stopQueued' \in BOOLEAN
  <2>1. Cancelled \in SUBSET Servers /\ (controls # NoServer => controls \in Cancelled)
    BY DEF Cancelled, TypeOK
  <2> QED  BY <1>3, <2>1, StopBegins DEF CancelStart, TypeOK
<1>4. CASE RuntimeStop
  BY <1>3, <1>4 DEF RuntimeStop, TypeOK
<1>5. CASE Drained
  <2>1. TypeOK' /\ RuntimePhases' /\ NothingLeft'
    BY <1>5 DEF Drained, TypeOK, DriverTypeOK, RuntimePhases, NothingLeft, StoppedIsDown, NobodyAlive,
       States, Up, driverVars, adapterVars, startVars, stopVars
  <2> QED  BY <1>5, <2>1, RuntimeOnly DEF Drained, RuntimePhases
<1>6. CASE StopDriver
  <2>1. CASE MayStop
    <3>1. PICK graceful \in BOOLEAN : Stop(graceful)
      BY <1>6, <2>1 DEF StopDriver
    <3>2. DriverInv'
      BY <3>1, StopKeeps
    <3>3. rtState = "STOPPING" /\ rtStop' = "driver" /\ UNCHANGED <<rtState, joined, controls, subscribed>>
      BY <1>6, <2>1 DEF StopDriver, RuntimePhases
    <3>4. TypeOK' /\ RuntimePhases'
      BY <1>6, <3>2, <3>3 DEF StopDriver, DriverInv, TypeOK, RuntimePhases, Up
    <3>5. stopOp' = "none" => NobodyAlive'
      BY <3>1, <2>1, ResolvedAtOnce DEF Stop, MayStop
    <3>6. NothingLeft'
      BY <3>3, <3>5 DEF NothingLeft, StoppedIsDown
    <3>7. ChainedIsCurrent'
      BY <3>1, <3>3 DEF Stop, ChainedIsCurrent, startVars
    <3> QED  BY <3>2, <3>4, <3>6, <3>7
  <2>2. CASE ~MayStop
    <3>1. rtState = "STOPPING" /\ UNCHANGED driverVars
      BY <1>6, <2>2 DEF StopDriver, RuntimePhases
    <3>2. stopOp = "none" => NobodyAlive
      BY <2>2 DEF MayStop, DriverInv, OneServer, DriverTypeOK, NobodyAlive
    <3>3. NobodyAlive => NobodyAlive'
      BY <3>1 DEF driverVars, adapterVars, NobodyAlive
    <3>4. TypeOK' /\ RuntimePhases'
      BY <1>6, <2>2, <3>1 DEF StopDriver, TypeOK, DriverTypeOK, RuntimePhases, Up,
         driverVars, adapterVars, startVars, stopVars
    <3>5. NothingLeft'
      BY <1>6, <2>2, <3>1, <3>2, <3>3 DEF StopDriver, NothingLeft, StoppedIsDown, driverVars, stopVars
    <3> QED  BY <1>6, <3>1, <3>4, <3>5, RuntimeOnly DEF StopDriver
  <2> QED  BY <2>1, <2>2
<1>7. CASE StopSettles
  <2>1. TypeOK' /\ RuntimePhases'
    BY <1>7 DEF StopSettles, TypeOK, DriverTypeOK, RuntimePhases, States, Up,
       driverVars, adapterVars, startVars, stopVars
  <2>2. NothingLeft'
    BY <1>7 DEF StopSettles, DriverStopResolved, NothingLeft, StoppedIsDown, NobodyAlive, RuntimePhases,
       driverVars, adapterVars, startVars, stopVars
  <2> QED  BY <1>7, <2>1, <2>2, RuntimeOnly DEF StopSettles, RuntimePhases
<1>8. CASE StopGivesUp
  <2>1. TypeOK' /\ RuntimePhases' /\ NothingLeft'
    BY <1>8 DEF StopGivesUp, TypeOK, DriverTypeOK, RuntimePhases, NothingLeft, StoppedIsDown, NobodyAlive,
       States, Up, driverVars, adapterVars, startVars, stopVars
  <2> QED  BY <1>8, <2>1, RuntimeOnly DEF StopGivesUp
<1>9. CASE ServerSignalAborts
  <2>1. CASE SignalStopsServer
    <3>1. controls # NoServer => controls \in Servers
      BY DEF TypeOK
    <3> QED  BY <1>9, <2>1, <3>1, StopBegins DEF ServerSignalAborts, TypeOK
  <2>2. CASE ~SignalStopsServer
    <3>1. AbortSignals(Servers) /\ UNCHANGED <<rtState, rtStop, subscribed, joined, controls, signalListened, stopQueued>>
      BY <1>9, <2>2 DEF ServerSignalAborts
    <3>2. DriverInv'
      BY <3>1, AbortKeeps
    <3>3. TypeOK' /\ RuntimePhases'
      BY <1>9, <3>1, <3>2 DEF ServerSignalAborts, DriverInv, TypeOK, RuntimePhases, Up
    <3>4. /\ native' = native /\ startOp' = startOp /\ startServer' = startServer
          /\ startOutcome' = startOutcome /\ abortedSignals' = abortedSignals \cup Servers
          /\ stopOp' = "none" /\ stopOutcome' = "resolved" =>
                (stopOp = "none" /\ stopOutcome = "resolved") \/ NobodyAlive'
      BY <3>1, AbortMeans
    <3>5. ChainedIsCurrent'
      BY <3>1, <3>4 DEF ChainedIsCurrent
    <3>6. NothingLeft'
      BY <3>1, <3>4 DEF NothingLeft, StoppedIsDown, NobodyAlive
    <3> QED  BY <3>2, <3>3, <3>5, <3>6
  <2> QED  BY <2>1, <2>2
<1>10. CASE QueuedStop
  <2>1. CASE CancelStart
    BY <1>3, <1>10, <2>1 DEF QueuedStop
  <2>2. CASE UNCHANGED <<driverVars, rtState, joined, controls, rtStop, subscribed, signalListened, serverAborted>>
    <3>1. stopQueued' \in BOOLEAN
      BY <1>10 DEF QueuedStop
    <3>2. TypeOK' /\ RuntimePhases' /\ NothingLeft'
      BY <2>2, <3>1 DEF TypeOK, DriverTypeOK, RuntimePhases, NothingLeft, StoppedIsDown,
         NobodyAlive, driverVars, adapterVars, startVars, stopVars
    <3> QED  BY <2>2, <3>2, RuntimeOnly
  <2> QED  BY <1>10, <2>1, <2>2 DEF QueuedStop
<1>11. CASE DriverInternal /\ UNCHANGED rtVars
  BY <1>11, DriverStepKeeps
<1>12. CASE UNCHANGED vars
  <2>1. TypeOK' /\ RuntimePhases' /\ NothingLeft'
    BY <1>12 DEF vars, rtVars, TypeOK, DriverTypeOK, RuntimePhases, NothingLeft, StoppedIsDown,
       NobodyAlive, driverVars, adapterVars, startVars, stopVars
  <2> QED  BY <1>12, <2>1, RuntimeOnly DEF vars, rtVars
<1> QED
  BY <1>1, <1>2, <1>4, <1>5, <1>6, <1>7, <1>8, <1>9, <1>10, <1>11, <1>12 DEF Next

\* Nothing runs before the first start.
LEMMA InitEstablishes ==
    Init => IndInv
BY DEF Init, DriverInit, IndInv, RuntimeInv, DriverInv, DriverTypeOK, TypeOK, UpIsHeld, RunningServes,
   OpeningUnasked, FreshUntouched, StartHasAdapter, OneServer, StartPending, RuntimePhases, ChainedIsCurrent,
   NothingLeft, StoppedIsDown, States, Alive, Up

-----------------------------------------------------------------------------
(* Theorems *)

\* IndInv holds in every reachable state.
LEMMA AlwaysIndInv == Spec => []IndInv
<1>1. IndInv /\ [Next]_vars => IndInv'
  BY NextKeeps
<1> QED  BY InitEstablishes, <1>1, PTL DEF Spec

\* A driver that says it runs has a server that nobody has asked to close, however
\* start(), stop(), aborts and native servers interleave.
THEOREM RunningAlwaysServes == Spec => []RunningServes
<1>1. IndInv => RunningServes
  BY DEF IndInv, DriverInv
<1> QED  BY AlwaysIndInv, <1>1, PTL

\* What the runtime and the health service say is true of the driver and of the
\* native servers: ready serves, stopped is down.
THEOREM StateAlwaysTruthful == Spec => []StateTruthful
<1>1. IndInv => StateTruthful
  BY DEF IndInv, DriverInv, RuntimeInv, RuntimePhases, NothingLeft, StateTruthful, ReadyServes, Ready,
     RunningServes, Up
<1> QED  BY AlwaysIndInv, <1>1, PTL

\* No transition of the runtime is one that core's lifecycle refuses.
THEOREM RuntimeImplementsLifecycle == Spec => ImplementsLifecycle
<1> USE DEF RuntimeStates!AllowedTransitions
<1>1. Init => RuntimeStates!Init
  BY DEF Init, RuntimeStates!Init
<1>2. IndInv /\ [Next]_vars => [RuntimeStates!Next]_rtState
  <2> SUFFICES ASSUME IndInv, [Next]_vars, rtState' # rtState
               PROVE  RuntimeStates!Next
    OBVIOUS
  <2> USE DEF RuntimeStates!Next, RuntimeStates!Transition, RuntimeStates!FailedStart
  <2>1. rtState \in States /\ (rtStop = "draining" => rtState = "DRAINING")
    BY DEF IndInv, RuntimeInv, TypeOK, RuntimePhases
  <2>2. CASE Bootstrap
    BY <2>2 DEF Bootstrap
  <2>3. CASE Started
    BY <2>3 DEF Started, StartIsCurrent
  <2>4. CASE StartRejected
    BY <2>4 DEF StartRejected, StartIsCurrent
  <2>5. CASE BeginStop
    BY <2>1, <2>5 DEF BeginStop, States
  <2>6. CASE Drained
    BY <2>1, <2>6 DEF Drained
  <2>7. CASE StopSettles
    BY <2>7 DEF StopSettles
  <2>8. CASE RuntimeStop \/ ServerSignalAborts \/ QueuedStop
    BY <2>5, <2>8 DEF RuntimeStop, CancelStart, ServerSignalAborts, QueuedStop
  <2> QED
    BY <2>2, <2>3, <2>4, <2>6, <2>7, <2>8 DEF Next, StopDriver, StopGivesUp, rtVars, vars
<1> QED  BY AlwaysIndInv, <1>1, <1>2, PTL DEF Spec, ImplementsLifecycle, RuntimeStates!Spec
=============================================================================
