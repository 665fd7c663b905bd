---------------------------- MODULE DriverProofs ------------------------------
(***************************************************************************)
(* Theorems about the two drivers: the adapters of the one for             *)
(* rwebtransport, and the in-memory one of the testing package.            *)
(*                                                                         *)
(* SessionAdapter, for any sets of streams, finite or not: no stream       *)
(* escapes the end of its session, but those that a failed stream adapter  *)
(* leaves to the native one.                                               *)
(*                                                                         *)
(* StreamAdapter, for a stream of any shape among any number of others:    *)
(* the lifecycle counts the halves that are there, and nothing turns a     *)
(* close() under way into a reset.                                         *)
(*                                                                         *)
(* VirtualDriver, for any sets of sessions and streams and any ceilings:   *)
(* its counters and the ends of its sessions are exact.                    *)
(*                                                                         *)
(* The state of a stream and that of its session meet only in the signal,  *)
(* which each module takes as an input, and the virtual driver shares no   *)
(* state with them: the three parts are independent.                       *)
(***************************************************************************)
EXTENDS SessionAdapter, StreamAdapter, VirtualDriver, FiniteSetTheorems, TLAPS

-----------------------------------------------------------------------------
(* One session *)

\* What the bridge's flag tells: the session is over or nobody reads any more
\* only if it is set, and a pull() that waits has left nothing in the queue.
BridgeExact ==
    /\ current = "CLOSED" => finished
    /\ ~finished => reading
    /\ pulling /\ At("read") = {} => At("queued") = {}
    /\ At("opening") \cap Incoming = {} /\ (At("queued") \cup At("read")) \cap Outgoing = {}

IInv == TypeOK /\ StreamsFollowSession /\ NothingLeftBehind /\ FailureIsTold /\ BridgeExact

\* A native collection that is cancelled or fails loses the streams that it
\* keeps, and none else; so does cancel() of the bridge, unless it has finished.
LEMMA EmptiedFacts ==
    ASSUME TypeOK, where' = Emptied
    PROVE  /\ where' \in [Streams -> Places] /\ At("queued")' = {}
           /\ \A place \in Places \ {"queued", "discarded"} : At(place)' = At(place)
BY DEF TypeOK, Emptied, At, Places

LEMMA CancelledFacts ==
    ASSUME TypeOK, where' = Cancelled
    PROVE  /\ where' \in [Streams -> Places]
           /\ finished => where' = where
           /\ ~finished => At("queued")' = {}
           /\ \A place \in Places \ {"queued", "discarded"} : At(place)' = At(place)
           /\ At("queued")' \subseteq At("queued")
           /\ Unadapted' <=> Unadapted
<1>1. CASE finished
  BY <1>1 DEF TypeOK, Cancelled, Unadapted, At
<1>2. CASE ~finished
  <2>1. where' = Emptied
    BY <1>2 DEF Cancelled
  <2>2. "dropped" \in Places \ {"queued", "discarded"}
    BY DEF Places
  <2>3. At("dropped")' = At("dropped")
    BY <2>1, <2>2, EmptiedFacts
  <2> QED  BY <1>2, <2>1, <2>3, EmptiedFacts DEF Unadapted
<1> QED  BY <1>1, <1>2

\* The three places that the invariant is about.
LEMMA KeptPlaces ==
    ASSUME \A place \in Places \ {"queued", "discarded"} : At(place)' = At(place)
    PROVE  /\ At("read")' = At("read") /\ At("handed")' = At("handed")
           /\ At("opening")' = At("opening") /\ At("dropped")' = At("dropped")
BY DEF Places

\* A new session has no streams.
LEMMA InitIInv == Init => IInv
BY Zenon DEF Init, IInv, TypeOK, StreamsFollowSession, NothingLeftBehind, FailureIsTold, Unadapted, BridgeExact, At,
             Streams, Places

\* Every step keeps the invariant.
LEMMA NextIInv == IInv /\ [Next]_vars => IInv'
<1> SUFFICES ASSUME IInv, [Next]_vars PROVE IInv'
  OBVIOUS
<1> USE DistinctStreams DEF IInv, TypeOK, StreamsFollowSession, NothingLeftBehind, FailureIsTold, BridgeExact
<1>1. CASE Pull
  <2>1. CASE finished
    BY <1>1, <2>1 DEF Pull, At, Unadapted, Places
  <2>2. CASE ~finished /\ UNCHANGED where
    BY <1>1, <2>2 DEF Pull, At, Unadapted, Places
  <2>3. ASSUME ~finished, NEW s \in At("queued"), where' = [where EXCEPT ![s] = "read"] PROVE IInv'
    <3>1. pulling' = TRUE /\ pulling = FALSE /\ UNCHANGED <<current, closing, native, finished, reading, ended>>
      BY <1>1, <2>3 DEF Pull
    <3>2. At("read") = {} /\ At("read")' = {s}
      BY <2>3, <3>1 DEF At
    <3>3. /\ At("handed")' = At("handed") /\ At("opening")' = At("opening") /\ At("queued")' = At("queued") \ {s}
          /\ At("dropped")' = At("dropped") /\ where' \in [Streams -> Places]
      BY <2>3 DEF At, Places
    <3>4. ~Unadapted /\ ~Unadapted'
      BY <2>3, <3>3 DEF Unadapted
    <3>5. \A r, t \in At("read")' : r = t /\ pulling'
      BY <3>1, <3>2
    <3> QED
      BY <2>3, <3>1, <3>2, <3>3, <3>4, <3>5
  <2> QED
    BY <1>1, <2>1, <2>2, <2>3 DEF Pull
<1>2. CASE PullEnds
  BY <1>2 DEF PullEnds, At, Unadapted, Places, Release
<1>3. CASE Cancel
  <2>1. where' = Cancelled
    BY <1>3 DEF Cancel
  <2> QED
    BY <1>3, <2>1, CancelledFacts, KeptPlaces DEF Cancel
<1>4. CASE Close
  <2>1. CASE where' = Cancelled /\ Finish
    BY <1>4, <2>1, CancelledFacts, KeptPlaces DEF Close, Finish, Listeners
  <2>2. CASE UNCHANGED <<ended, finished, where>> /\ current' = "CLOSING" /\ closing' = "pending"
    BY <1>4, <2>2 DEF Close, At, Unadapted, Places
  <2> QED
    BY <1>4, <2>1, <2>2 DEF Close, Finish
<1>5. CASE EndSeen
  <2>1. where' = Cancelled
    BY <1>5 DEF EndSeen, Finish
  <2> QED
    BY <1>5, <2>1, CancelledFacts, KeptPlaces DEF EndSeen, Finish, Listeners
<1>6. CASE CloseSettles
  BY <1>6 DEF CloseSettles, At, Unadapted, Places
<1>7. ASSUME NEW ending \in {"closed", "failed"}, NativeEnds(ending) PROVE IInv'
  <2>1. CASE where' = Emptied
    BY <1>7, <2>1, EmptiedFacts, KeptPlaces DEF NativeEnds, Unadapted
  <2>2. CASE UNCHANGED where
    BY <1>7, <2>2 DEF NativeEnds, At, Unadapted, Places
  <2> QED
    BY <1>7, <2>1, <2>2 DEF NativeEnds
<1>8. ASSUME NEW s \in Streams, Arrives(s) PROVE IInv'
  BY <1>8 DEF Arrives, At, Unadapted, Places
<1>9. ASSUME NEW s \in Streams, PullDelivers(s) PROVE IInv'
  <2>1. pulling' = FALSE /\ UNCHANGED <<current, closing, native, finished, reading, ended>>
    BY <1>9 DEF PullDelivers
  <2>2. At("read")' = {} /\ At("queued")' = At("queued") /\ At("opening")' = At("opening")
    BY <1>9 DEF PullDelivers, Adopted, At
  <2>3. /\ At("handed")' = IF finished THEN At("handed") ELSE At("handed") \cup {s}
        /\ where' \in [Streams -> Places] /\ Unadapted' = Unadapted
    BY <1>9 DEF PullDelivers, Adopted, At, Places, Unadapted
  <2> QED
    BY <2>1, <2>2, <2>3
<1>10. ASSUME NEW s \in Streams, Open(s) PROVE IInv'
  BY <1>10 DEF Open, At, Unadapted, Places
<1>11. ASSUME NEW s \in Streams, Opened(s) PROVE IInv'
  BY <1>11 DEF Opened, Subscribed, At, Unadapted, Places
<1>12. ASSUME NEW s \in Streams, OpenFails(s) PROVE IInv'
  BY <1>12 DEF OpenFails, At, Unadapted, Places
<1>13. ASSUME NEW s \in Streams, StreamEnds(s) PROVE IInv'
  BY <1>13 DEF StreamEnds, At, Unadapted, Places
<1>14. ASSUME NEW s \in Streams, AdaptFails(s) PROVE IInv'
  <2>1. /\ ~finished /\ finished' = TRUE /\ pulling' = FALSE /\ reading' = FALSE
        /\ UNCHANGED <<current, closing, native, ended>>
    BY <1>14 DEF AdaptFails, Release
  <2>2. /\ At("read")' = {} /\ At("queued")' = At("queued") /\ At("opening")' = At("opening")
        /\ At("handed")' = At("handed") /\ where' \in [Streams -> Places]
    BY <1>14 DEF AdaptFails, At, Places
  <2>3. Unadapted'
    BY <1>14 DEF AdaptFails, Unadapted, At, Streams
  <2> QED
    BY <2>1, <2>2, <2>3
<1>15. ASSUME NEW s \in Streams, OpenedUnadapted(s) PROVE IInv'
  BY <1>15 DEF OpenedUnadapted, Unadapted, At, Places
<1>16. CASE UNCHANGED vars
  BY <1>16 DEF vars, Unadapted, At
<1> QED
  BY <1>1, <1>2, <1>3, <1>4, <1>5, <1>6, <1>7, <1>8, <1>9, <1>10, <1>11, <1>12, <1>13, <1>14, <1>15, <1>16 DEF Next

\* The session always satisfies it.
LEMMA AlwaysIInv == Spec => []IInv
BY InitIInv, NextIInv, PTL DEF Spec

\* At most one stream is between the native collection and the application,
\* and only streams that were handed over have ended.
THEOREM TypeCorrect == Spec => []TypeOK
BY AlwaysIInv, PTL DEF IInv

\* No stream outlives its session, however many were being opened.
THEOREM StreamsAlwaysFollow == Spec => []StreamsFollowSession
BY AlwaysIInv, PTL DEF IInv

\* A finished bridge leaves no stream behind that nobody can read, unless a
\* stream could not be adapted.
THEOREM NothingEverLeftBehind == Spec => []NothingLeftBehind
BY AlwaysIInv, PTL DEF IInv

\* All together: no stream escapes the end of its session, but those that a
\* failed adapter left to the native one, and then the application has been told.
THEOREM NoStreamEverEscapes == Spec => []NoStreamEscapes
<1>1. IInv => NoStreamEscapes
  BY DEF IInv, NoStreamEscapes
<1> QED  BY <1>1, AlwaysIInv, PTL

\* A stream of the peer is handed only to an application that still reads, in
\* a session that is not over.
THEOREM AlwaysHandedToReader == Spec => HandedToReader
<1>1. IInv /\ [Next]_vars =>
        [\A s \in Incoming : where[s] # "handed" /\ where'[s] = "handed" => reading /\ current # "CLOSED"]_vars
  <2> SUFFICES ASSUME IInv, Next, NEW s \in Incoming, where[s] # "handed", where'[s] = "handed"
               PROVE  reading /\ current # "CLOSED"
    BY DEF vars
  <2> s \in Streams
    BY DEF Streams
  <2>1. PullDelivers(s) /\ ~finished
    <3> USE DEF IInv, TypeOK, BridgeExact
    <3>1. ~Pull
      BY DEF Pull, At
    <3>2. ~PullEnds /\ ~CloseSettles
      BY DEF PullEnds, CloseSettles
    <3>3. where' # Cancelled
      BY CancelledFacts, KeptPlaces DEF At
    <3>4. ~Cancel /\ ~Close /\ ~EndSeen
      BY <3>3 DEF Cancel, Close, EndSeen, Finish
    <3>5. \A ending \in {"closed", "failed"} : ~NativeEnds(ending)
      <4>1. where' # Emptied
        BY EmptiedFacts, KeptPlaces DEF At
      <4> QED  BY <4>1 DEF NativeEnds
    <3>6. \A t \in Streams : /\ ~Arrives(t) /\ ~Open(t) /\ ~OpenFails(t) /\ ~StreamEnds(t)
                             /\ ~AdaptFails(t) /\ ~OpenedUnadapted(t)
      BY DEF Arrives, Open, OpenFails, StreamEnds, AdaptFails, OpenedUnadapted
    <3>7. \A t \in Streams : ~Opened(t)
      BY DEF Opened, At
    <3>8. PICK t \in Streams : PullDelivers(t)
      BY <3>1, <3>2, <3>4, <3>5, <3>6, <3>7 DEF Next
    <3> QED
      BY <3>8 DEF PullDelivers, Adopted
  <2> QED
    BY <2>1 DEF IInv, BridgeExact
<1> QED
  BY <1>1, AlwaysIInv, PTL DEF Spec, HandedToReader

-----------------------------------------------------------------------------
(* One stream *)

OpStates == {"none", "pending", "done"}

\* Only a half that is there is read or operated on, and nothing ends before
\* the stream is created.
OnlyOwnHalves ==
    /\ \A o \in Ops : op[o] # "none" => HalfOf(o) \in halves
    /\ readPending => "read" \in halves
    /\ closed => halves # {}

\* There is a reason only if the signal has aborted.  A session that has ended
\* leaves no writer that could still be reset.
LeavesNoWriter(because, fin, ops) ==
    because = "session" /\ "write" \in halves => "write" \in fin \/ Closing(ops)

SessionLeavesNoWriter ==
    /\ reason # "none" => closed
    /\ LeavesNoWriter(reason, finishedHalves, op)

StreamIInv == PartsCounted /\ OnlyOwnHalves /\ SessionLeavesNoWriter

\* What a step may do to the reset: it begins only if the application has not
\* begun to close, and not because of the session.
ResetIsNeeded(ops) ==
    op'["reset"] # ops["reset"] /\ op'["reset"] = "pending" => ~Closing(ops) /\ reason' # "session"

\* How many halves a set of halves has.
LEMMA HalvesCounted ==
    ASSUME NEW S, S \subseteq {"read", "write"}
    PROVE  /\ IsFiniteSet(S) /\ Cardinality(S) \in 0..2
           /\ Cardinality(S) = 0 <=> S = {}
           /\ \A h \in S : Cardinality(S \ {h}) = Cardinality(S) - 1
<1>1. IsFiniteSet({"read"} \cup {"write"}) /\ Cardinality({"read"} \cup {"write"}) = 2
  <2> DEFINE one == {"read"}
  <2>1. IsFiniteSet(one) /\ Cardinality(one) = 1 /\ "write" \notin one
    BY FS_Singleton
  <2> HIDE DEF one
  <2>2. IsFiniteSet(one \cup {"write"}) /\ Cardinality(one \cup {"write"}) = 2
    BY <2>1, FS_AddElement
  <2> QED
    BY <2>2 DEF one
<1>2. S \in SUBSET ({"read"} \cup {"write"})
  OBVIOUS
<1>3. IsFiniteSet(S) /\ Cardinality(S) <= 2
  BY <1>1, <1>2, FS_Subset
<1>4. Cardinality(S) \in Nat
  BY <1>3, FS_CardinalityType
<1>5. Cardinality(S) = 0 <=> S = {}
  BY <1>3, FS_EmptySet
<1>6. \A h \in S : Cardinality(S \ {h}) = Cardinality(S) - 1
  BY <1>3, FS_RemoveElement
<1> QED
  BY <1>3, <1>4, <1>5, <1>6

\* After lifecycle.abort() the signal has aborted, and its listeners have reset
\* the writer only where that was needed.
LEMMA AbortFacts ==
    ASSUME StreamTypeOK, MetricExact, SessionLeavesNoWriter, halves # {}, halves' = halves,
           NEW because \in {"session", "reset", "error"},
           NEW fin, fin \subseteq halves, finishedHalves \subseteq fin,
           NEW also, also \subseteq halves,
           NEW ops \in [Ops -> OpStates],
           \A o \in Ops : ops[o] # "none" => HalfOf(o) \in halves,
           Closing(op) => Closing(ops),
           AbortLifecycle(because, fin, ops, also)
    PROVE  /\ closed' = TRUE /\ reason' \in {"ended", "session", "reset", "error", "none"}
           /\ finishedHalves' \subseteq halves /\ over' \subseteq halves
           /\ remaining' = remaining /\ active' \in Nat /\ MetricExact'
           /\ op' \in [Ops -> OpStates]
           /\ \A o \in Ops : op'[o] # "none" => HalfOf(o) \in halves
           /\ SessionLeavesNoWriter'
           /\ ResetIsNeeded(ops)
<1> USE DEF OpStates
<1>1. "reset" \in Ops /\ "close" \in Ops /\ "stop" \in Ops
  BY DEF Ops
<1>2. closed' = TRUE /\ remaining' = remaining
  BY DEF AbortLifecycle, CloseOnce
<1>3. active' \in Nat /\ MetricExact'
  BY <1>2, OthersAreOpen DEF AbortLifecycle, CloseOnce, MetricExact, StreamTypeOK
<1>4. CASE closed
  <2>1. op' = ops /\ reason' = reason /\ finishedHalves' = fin \cup also /\ over' = over \cup also
    BY <1>4 DEF AbortLifecycle, CloseOnce
  <2>2. SessionLeavesNoWriter'
    BY <2>1, <1>2 DEF SessionLeavesNoWriter, LeavesNoWriter, Closing
  <2> QED
    BY <2>1, <2>2, <1>2, <1>3 DEF StreamTypeOK, ResetIsNeeded
<1>5. CASE ~closed
  <2>1. /\ reason' = because /\ over' = halves
        /\ op' = [o \in Ops |-> AfterSignal(ops, fin, because, o)]
        /\ finishedHalves' = fin \cup also \cup
             (IF WriterListens(fin, ops) /\ FinishedBySignal(ops, because) THEN {"write"} ELSE {})
    BY <1>5 DEF AbortLifecycle, CloseOnce
  <2>2. ASSUME NEW o \in Ops
        PROVE  /\ AfterSignal(ops, fin, because, o) \in OpStates
               /\ AfterSignal(ops, fin, because, o) # "none" => HalfOf(o) \in halves
               /\ o = "close" => AfterSignal(ops, fin, because, o) = ops[o]
    BY DEF AfterSignal, HalfOf, WriterListens, Ops
  <2>3. op' \in [Ops -> OpStates] /\ (\A o \in Ops : op'[o] # "none" => HalfOf(o) \in halves)
    BY <2>1, <2>2
  <2>4. op'["close"] = ops["close"] /\ op'["reset"] = AfterSignal(ops, fin, because, "reset")
    BY <2>1, <2>2, <1>1
  <2>5. finishedHalves' \subseteq halves
    BY <2>1 DEF WriterListens
  <2>6. SessionLeavesNoWriter'
    <3>1. reason' # "none" => closed'
      BY <1>2
    <3>2. ASSUME because = "session", "write" \in halves, ~Closing(ops) PROVE "write" \in finishedHalves'
      BY <3>2, <2>1 DEF WriterListens, FinishedBySignal
    <3> QED
      BY <3>1, <3>2, <2>1, <2>4 DEF SessionLeavesNoWriter, LeavesNoWriter, Closing
  <2>7. ResetIsNeeded(ops)
    BY <2>1, <2>4 DEF ResetIsNeeded, AfterSignal, WriterListens, FinishedBySignal
  <2> QED
    BY <2>1, <2>3, <2>5, <2>6, <2>7, <1>2, <1>3
<1> QED
  BY <1>4, <1>5

\* finish() of one half keeps the count of the others.
LEMMA FinishFacts ==
    ASSUME StreamTypeOK, MetricExact, PartsExact, SessionLeavesNoWriter,
           halves' = halves, halves # {}, NEW half \in halves, FinishHalf(half),
           Closing(op)' = Closing(op)
    PROVE  /\ finishedHalves' \subseteq halves
           /\ closed' \in BOOLEAN /\ reason' \in {"none", "ended", "session", "reset", "error"}
           /\ remaining' \in 0..2 /\ active' \in Nat /\ MetricExact' /\ PartsExact'
           /\ SessionLeavesNoWriter' /\ reason' \in {reason, "ended"}
<1>1. CASE half \in finishedHalves
  <2>1. UNCHANGED <<finishedHalves, remaining, closed, reason, active, halves>>
    BY <1>1 DEF FinishHalf
  <2> QED
    BY <2>1 DEF StreamTypeOK, MetricExact, PartsExact, SessionLeavesNoWriter, LeavesNoWriter
<1>2. CASE half \notin finishedHalves /\ closed
  <2>1. UNCHANGED <<remaining, closed, reason, active, halves>> /\ finishedHalves' = finishedHalves \cup {half}
    BY <1>2 DEF FinishHalf
  <2> QED
    BY <1>2, <2>1 DEF StreamTypeOK, MetricExact, PartsExact, SessionLeavesNoWriter, LeavesNoWriter
<1>3. CASE half \notin finishedHalves /\ ~closed
  <2>1. remaining' = remaining - 1 /\ finishedHalves' = finishedHalves \cup {half}
    BY <1>3 DEF FinishHalf
  <2>2. IF remaining = 1 THEN CloseOnce("ended") ELSE UNCHANGED <<closed, reason, active>>
    BY <1>3 DEF FinishHalf, LastPart
  <2> DEFINE left == halves \ finishedHalves
  <2>3. left \subseteq {"read", "write"} /\ half \in left /\ halves \ finishedHalves' = left \ {half}
    BY <1>3, <2>1 DEF StreamTypeOK
  <2>4. remaining = Cardinality(left)
    BY <1>3 DEF PartsExact
  <2> HIDE DEF left
  <2>5. /\ Cardinality(left) \in 1..2 /\ Cardinality(left \ {half}) = remaining - 1
        /\ Cardinality(left \ {half}) = 0 <=> left \ {half} = {}
    <3>1. /\ Cardinality(left) \in 0..2 /\ (Cardinality(left) = 0 <=> left = {})
          /\ Cardinality(left \ {half}) = Cardinality(left) - 1
      BY <2>3, HalvesCounted
    <3>2. left \ {half} \subseteq {"read", "write"}
      BY <2>3
    <3>3. Cardinality(left \ {half}) = 0 <=> left \ {half} = {}
      BY <3>2, HalvesCounted
    <3> QED
      BY <3>1, <3>3, <2>3, <2>4
  <2>6. CASE remaining = 1
    <3>1. closed' = TRUE /\ reason' = "ended" /\ active' = IF active > 0 THEN active - 1 ELSE 0
      BY <2>2, <2>6, <1>3 DEF CloseOnce
    <3>2. active' \in Nat /\ MetricExact'
      BY <3>1, <1>3, OthersAreOpen DEF MetricExact, StreamTypeOK
    <3> QED
      BY <2>1, <2>6, <3>1, <3>2 DEF StreamTypeOK, PartsExact, SessionLeavesNoWriter, LeavesNoWriter
  <2>7. CASE remaining # 1
    <3>1. UNCHANGED <<closed, reason, active>>
      BY <2>2, <2>7
    <3>2. remaining' \in 0..2 /\ PartsExact'
      BY <2>1, <2>3, <2>4, <2>5, <2>7, <3>1 DEF PartsExact
    <3>3. MetricExact' /\ SessionLeavesNoWriter'
      BY <3>1, <2>1 DEF MetricExact, SessionLeavesNoWriter, LeavesNoWriter
    <3> QED
      BY <2>1, <3>1, <3>2, <3>3 DEF StreamTypeOK
  <2> QED
    BY <2>6, <2>7
<1> QED
  BY <1>1, <1>2, <1>3 DEF StreamTypeOK

\* A stream that is not there yet counts nothing.
LEMMA StreamInitInv == StreamInit => StreamIInv
<1> SUFFICES ASSUME StreamInit PROVE StreamIInv
  OBVIOUS
<1>1. StreamTypeOK
  <2>1. {closed, readPending} \subseteq BOOLEAN
    BY Zenon DEF StreamInit
  <2>2. op \in [Ops -> {"none", "pending", "done"}]
    BY DEF StreamInit
  <2> QED
    BY <2>1, <2>2, OthersAreOpen DEF StreamInit, StreamTypeOK
<1>2. MetricExact /\ PartsExact
  BY OthersAreOpen DEF StreamInit, MetricExact, PartsExact
<1>3. OnlyOwnHalves /\ SessionLeavesNoWriter
  BY DEF StreamInit, OnlyOwnHalves, SessionLeavesNoWriter, LeavesNoWriter
<1> QED
  BY <1>1, <1>2, <1>3 DEF StreamIInv, PartsCounted

\* Steps that end the signal: they keep the invariant and do what they may to
\* the reset.
LEMMA AbortKeeps ==
    ASSUME StreamIInv, halves # {}, UNCHANGED halves, readPending' = readPending \/ readPending' = FALSE,
           NEW because \in {"session", "reset", "error"},
           NEW fin, fin \subseteq halves, finishedHalves \subseteq fin,
           NEW also, also \subseteq halves,
           NEW ops \in [Ops -> OpStates],
           \A o \in Ops : ops[o] # "none" => HalfOf(o) \in halves,
           Closing(op) => Closing(ops),
           AbortLifecycle(because, fin, ops, also)
    PROVE  StreamIInv' /\ ResetIsNeeded(ops)
<1>1. StreamTypeOK /\ MetricExact /\ SessionLeavesNoWriter /\ halves' = halves
  BY DEF StreamIInv, PartsCounted
<1>2. /\ closed' = TRUE /\ reason' \in {"ended", "session", "reset", "error", "none"}
      /\ finishedHalves' \subseteq halves /\ over' \subseteq halves
      /\ remaining' = remaining /\ active' \in Nat /\ MetricExact'
      /\ op' \in [Ops -> OpStates]
      /\ \A o \in Ops : op'[o] # "none" => HalfOf(o) \in halves
      /\ SessionLeavesNoWriter'
      /\ ResetIsNeeded(ops)
  BY <1>1, AbortFacts
<1>3. StreamTypeOK'
  BY <1>1, <1>2 DEF StreamTypeOK, OpStates
<1>4. PartsExact'
  BY <1>2 DEF PartsExact
<1>5. OnlyOwnHalves'
  <2>1. readPending' => "read" \in halves'
    <3>1. CASE readPending' = readPending
      BY <3>1, <1>1 DEF OnlyOwnHalves, StreamIInv
    <3>2. CASE readPending' = FALSE
      BY <3>2
    <3> QED
      BY <3>1, <3>2
  <2> QED
    BY <1>1, <1>2, <2>1 DEF OnlyOwnHalves
<1> QED
  BY <1>2, <1>3, <1>4, <1>5 DEF StreamIInv, PartsCounted

\* Steps that finish one half.
LEMMA FinishKeeps ==
    ASSUME StreamIInv, UNCHANGED halves, readPending' = readPending \/ readPending' = FALSE,
           NEW half \in halves, FinishHalf(half), over' \subseteq halves,
           op' \in [Ops -> OpStates], \A o \in Ops : op'[o] = "none" <=> op[o] = "none"
    PROVE  StreamIInv'
<1>1. StreamTypeOK /\ MetricExact /\ PartsExact /\ SessionLeavesNoWriter /\ halves' = halves /\ halves # {}
  BY DEF StreamIInv, PartsCounted
<1>2. Closing(op)' = Closing(op)
  BY DEF Closing, Ops
<1>3. /\ finishedHalves' \subseteq halves
      /\ closed' \in BOOLEAN /\ reason' \in {"none", "ended", "session", "reset", "error"}
      /\ remaining' \in 0..2 /\ active' \in Nat /\ MetricExact' /\ PartsExact'
      /\ SessionLeavesNoWriter'
  BY <1>1, <1>2, FinishFacts
<1>4. StreamTypeOK'
  BY <1>1, <1>3 DEF StreamTypeOK, OpStates
<1>5. OnlyOwnHalves'
  <2>1. readPending' => "read" \in halves'
    <3>1. CASE readPending' = readPending
      BY <3>1, <1>1 DEF OnlyOwnHalves, StreamIInv
    <3>2. CASE readPending' = FALSE
      BY <3>2
    <3> QED
      BY <3>1, <3>2
  <2>2. \A o \in Ops : op'[o] # "none" => HalfOf(o) \in halves'
    BY <1>1 DEF OnlyOwnHalves, StreamIInv
  <2> QED
    BY <1>1, <2>1, <2>2 DEF OnlyOwnHalves
<1> QED
  BY <1>3, <1>4, <1>5 DEF StreamIInv, PartsCounted

\* Every step keeps the invariant and resets only where that is needed.
LEMMA StreamNextInv ==
    StreamIInv /\ [StreamNext]_streamVars =>
        StreamIInv' /\ (op'["reset"] # op["reset"] /\ op'["reset"] = "pending" =>
                          ~Closing(op) /\ reason' # "session")
<1> DEFINE Need == op'["reset"] # op["reset"] /\ op'["reset"] = "pending" =>
                     ~Closing(op) /\ reason' # "session"
<1> SUFFICES ASSUME StreamIInv, [StreamNext]_streamVars PROVE StreamIInv' /\ Need
  OBVIOUS
<1>0. /\ StreamTypeOK /\ MetricExact /\ PartsExact /\ OnlyOwnHalves /\ SessionLeavesNoWriter
      /\ op \in [Ops -> OpStates] /\ {"reset", "close", "stop", "cancel", "abort"} \subseteq Ops
      /\ finishedHalves \subseteq halves /\ over \subseteq halves
      /\ \A o \in Ops : op[o] # "none" => HalfOf(o) \in halves
  BY DEF StreamIInv, PartsCounted, StreamTypeOK, OnlyOwnHalves, OpStates, Ops
<1>1. ASSUME NEW parts \in SUBSET {"read", "write"}, NEW parentAborted \in BOOLEAN, Create(parts, parentAborted)
      PROVE  StreamIInv' /\ Need
  <2>1. /\ halves = {} /\ parts # {} /\ halves' = parts /\ remaining' = Cardinality(parts)
        /\ readPending' = readPending /\ closed = FALSE /\ readPending = FALSE /\ reason = "none"
        /\ finishedHalves = {} /\ over = {} /\ op = [o \in Ops |-> "none"]
    BY <1>0, <1>1 DEF Create, OnlyOwnHalves, StreamTypeOK, SessionLeavesNoWriter, OpStates
  <2>2. Cardinality(parts) \in 0..2
    BY HalvesCounted
  <2>3. CASE parentAborted
    <3>1. /\ closed' = TRUE /\ reason' = "session" /\ active' = active
          /\ over' = parts /\ finishedHalves' = parts \ {"read"}
          /\ op' = [op EXCEPT !["stop"] = IF "read" \in parts THEN "pending" ELSE "none"]
      BY <1>1, <2>3 DEF Create
    <3>2. StreamTypeOK' /\ MetricExact' /\ PartsExact'
      BY <1>0, <2>1, <2>2, <3>1 DEF StreamTypeOK, MetricExact, PartsExact, OpStates
    <3>3. OnlyOwnHalves' /\ SessionLeavesNoWriter'
      BY <1>0, <2>1, <3>1 DEF OnlyOwnHalves, SessionLeavesNoWriter, LeavesNoWriter, HalfOf
    <3> QED
      BY <1>0, <3>1, <3>2, <3>3 DEF StreamIInv, PartsCounted
  <2>4. CASE ~parentAborted
    <3>1. active' = active + 1 /\ UNCHANGED <<closed, reason, finishedHalves, over, op>>
      BY <1>1, <2>4 DEF Create
    <3>2. StreamTypeOK'
      BY <1>0, <2>1, <2>2, <3>1 DEF StreamTypeOK
    <3>5. MetricExact'
      <4>1. active = Others
        BY <1>0, <2>1, OthersAreOpen DEF MetricExact
      <4>2. halves' # {} /\ ~closed'
        BY <2>1, <3>1
      <4> QED
        BY <3>1, <4>1, <4>2, OthersAreOpen DEF MetricExact
    <3>3. PartsExact'
      BY <2>1, <3>1 DEF PartsExact
    <3>4. OnlyOwnHalves' /\ SessionLeavesNoWriter'
      BY <1>0, <2>1, <3>1 DEF OnlyOwnHalves, SessionLeavesNoWriter, LeavesNoWriter
    <3> QED
      BY <3>1, <3>2, <3>3, <3>4, <3>5 DEF StreamIInv, PartsCounted
  <2> QED
    BY <2>3, <2>4
<1>2. CASE SessionEnds
  BY <1>0, <1>2, AbortKeeps DEF SessionEnds, ResetIsNeeded
<1>3. CASE PullReadable
  BY <1>0, <1>3 DEF PullReadable, StreamIInv, PartsCounted, StreamTypeOK, MetricExact, PartsExact,
     OnlyOwnHalves, SessionLeavesNoWriter, LeavesNoWriter, Closing
<1>4. CASE Chunk
  BY <1>0, <1>4 DEF Chunk, StreamIInv, PartsCounted, StreamTypeOK, MetricExact, PartsExact,
     OnlyOwnHalves, SessionLeavesNoWriter, LeavesNoWriter, Closing
<1>5. CASE ReadDone
  <2>1. "read" \in halves /\ UNCHANGED halves /\ readPending' = FALSE
    BY <1>0, <1>5 DEF ReadDone, OnlyOwnHalves
  <2>2. CASE "read" \in over
    <3>1. AbortLifecycle("error", finishedHalves, op, {"read"})
      BY <1>5, <2>2 DEF ReadDone
    <3> QED
      BY <1>0, <2>1, <3>1, AbortKeeps DEF ResetIsNeeded
  <2>3. CASE "read" \notin over
    <3>1. over' = over \cup {"read"} /\ FinishHalf("read") /\ op' = op
      BY <1>5, <2>3 DEF ReadDone
    <3> QED
      BY <1>0, <2>1, <3>1, FinishKeeps
  <2> QED
    BY <2>2, <2>3
<1>6. CASE CancelReadable
  BY <1>0, <1>6 DEF CancelReadable, StreamIInv, PartsCounted, StreamTypeOK, MetricExact, PartsExact,
     OnlyOwnHalves, SessionLeavesNoWriter, LeavesNoWriter, Closing, HalfOf, OpStates
<1>7. CASE Reset
  <2> DEFINE begin(o, half) ==
               IF half \in halves /\ op[o] = "none" /\ ~(half = "write" /\ Closing(op))
               THEN IF half \in finishedHalves THEN "done" ELSE "pending"
               ELSE op[o]
             ops == [op EXCEPT !["stop"] = begin("stop", "read"), !["reset"] = begin("reset", "write")]
  <2>1. AbortLifecycle("reset", finishedHalves, ops, {}) /\ UNCHANGED <<halves, readPending>> /\ halves # {}
    BY <1>7 DEF Reset
  <2>2. ops \in [Ops -> OpStates] /\ ops["close"] = op["close"] /\ ops["reset"] = begin("reset", "write")
    BY <1>0 DEF OpStates
  <2>3. \A o \in Ops : ops[o] # "none" => HalfOf(o) \in halves
    BY <1>0 DEF HalfOf
  <2>4. Closing(ops) = Closing(op)
    BY <2>2 DEF Closing
  <2>5. begin("reset", "write") # op["reset"] /\ begin("reset", "write") = "pending" =>
          ~Closing(op) /\ "write" \in halves \ finishedHalves
    OBVIOUS
  <2> HIDE DEF ops
  <2>6. StreamIInv' /\ ResetIsNeeded(ops)
    BY <1>0, <2>1, <2>2, <2>3, <2>4, AbortKeeps
  <2>7. Need
    <3>1. CASE op'["reset"] # ops["reset"]
      BY <3>1, <2>4, <2>6 DEF ResetIsNeeded
    <3>2. CASE op'["reset"] = ops["reset"]
      <4>1. reason' = IF closed THEN reason ELSE "reset"
        BY <2>1 DEF AbortLifecycle, CloseOnce
      <4> QED
        BY <3>2, <4>1, <2>2, <2>5, <1>0 DEF SessionLeavesNoWriter, LeavesNoWriter
    <3> QED
      BY <3>1, <3>2
  <2> QED
    BY <2>6, <2>7
<1>8. ASSUME NEW because \in Reasons, ReadFails(because) PROVE StreamIInv' /\ Need
  <2> DEFINE fin == finishedHalves \cup {"read"}
  <2>1. /\ AbortLifecycle(because, fin, op, {"read"}) /\ readPending' = FALSE /\ UNCHANGED halves
        /\ {"read"} \subseteq halves /\ halves # {}
    BY <1>8 DEF ReadFails
  <2>2. fin \subseteq halves /\ finishedHalves \subseteq fin
    BY <1>0, <2>1
  <2> HIDE DEF fin
  <2>3. StreamIInv' /\ ResetIsNeeded(op)
    BY <1>0, <2>1, <2>2, AbortKeeps DEF Reasons
  <2> QED
    BY <2>3 DEF ResetIsNeeded
<1>9. ASSUME NEW because \in Reasons, WriteFails(because) PROVE StreamIInv' /\ Need
  <2>1. /\ AbortLifecycle(because, finishedHalves, op, {"write"}) /\ UNCHANGED <<halves, readPending>>
        /\ {"write"} \subseteq halves /\ halves # {}
    BY <1>9 DEF WriteFails
  <2>2. StreamIInv' /\ ResetIsNeeded(op)
    BY <1>0, <2>1, AbortKeeps DEF Reasons
  <2> QED
    BY <2>2 DEF ResetIsNeeded
<1>10. ASSUME NEW because \in Reasons, CloseFails(because) PROVE StreamIInv' /\ Need
  <2> DEFINE ops == [op EXCEPT !["close"] = "done"]
  <2>1. ops \in [Ops -> OpStates] /\ ops["reset"] = op["reset"] /\ Closing(ops) /\ "write" \in halves
    BY <1>0, <1>10 DEF CloseFails, OpStates, Closing, HalfOf
  <2>2. \A o \in Ops : ops[o] # "none" => HalfOf(o) \in halves
    BY <1>0, <2>1 DEF HalfOf
  <2>3. AbortLifecycle(because, finishedHalves, ops, {"write"}) /\ UNCHANGED <<halves, readPending>>
    BY <1>10 DEF CloseFails
  <2> HIDE DEF ops
  <2>4. StreamIInv' /\ ResetIsNeeded(ops)
    BY <1>0, <2>1, <2>2, <2>3, AbortKeeps DEF Reasons
  <2> QED
    BY <2>1, <2>4 DEF ResetIsNeeded
<1>11. ASSUME NEW o \in Ops, ReaderCancelled(o) PROVE StreamIInv' /\ Need
  <2>1. "read" \in halves /\ op' = [op EXCEPT ![o] = "done"] /\ op[o] = "pending" /\ FinishHalf("read")
        /\ UNCHANGED <<halves, over, readPending>>
    BY <1>0, <1>11 DEF ReaderCancelled
  <2> QED
    BY <1>0, <2>1, FinishKeeps DEF OpStates
<1>12. ASSUME NEW o \in Ops, EndWriting(o) PROVE StreamIInv' /\ Need
  <2>1. /\ "write" \in halves /\ over' = over \cup {"write"} /\ op' = [op EXCEPT ![o] = "pending"]
        /\ o \in {"close", "abort"}
        /\ UNCHANGED <<halves, closed, reason, remaining, active, finishedHalves, readPending>>
    BY <1>0, <1>12 DEF EndWriting
  <2>2. op' \in [Ops -> OpStates] /\ op'["reset"] = op["reset"]
    BY <1>0, <2>1 DEF OpStates
  <2>3. StreamTypeOK' /\ MetricExact' /\ PartsExact'
    BY <1>0, <2>1, <2>2 DEF StreamTypeOK, MetricExact, PartsExact, OpStates
  <2>4. OnlyOwnHalves'
    BY <1>0, <2>1 DEF OnlyOwnHalves, HalfOf
  <2>5. Closing(op) => Closing(op)'
    BY <1>0, <2>1 DEF Closing
  <2>6. SessionLeavesNoWriter'
    BY <1>0, <2>1, <2>5 DEF SessionLeavesNoWriter, LeavesNoWriter
  <2>7. Need
    BY <2>2
  <2> QED
    BY <2>3, <2>4, <2>6, <2>7 DEF StreamIInv, PartsCounted
<1>13. ASSUME NEW o \in Ops, WriterSettles(o) PROVE StreamIInv' /\ Need
  <2>1. "write" \in halves /\ op' = [op EXCEPT ![o] = "done"] /\ op[o] = "pending" /\ FinishHalf("write")
        /\ UNCHANGED <<halves, over, readPending>>
    BY <1>0, <1>13 DEF WriterSettles
  <2> QED
    BY <1>0, <2>1, FinishKeeps DEF OpStates
<1>14. CASE UNCHANGED streamVars
  BY <1>0, <1>14 DEF streamVars, StreamIInv, PartsCounted, StreamTypeOK, MetricExact, PartsExact,
     OnlyOwnHalves, SessionLeavesNoWriter, LeavesNoWriter, Closing
<1> QED
  BY <1>1, <1>2, <1>3, <1>4, <1>5, <1>6, <1>7, <1>8, <1>9, <1>10, <1>11, <1>12, <1>13, <1>14 DEF StreamNext

\* The stream always satisfies it.
LEMMA AlwaysStreamIInv == StreamSpec => []StreamIInv
BY StreamInitInv, StreamNextInv, PTL DEF StreamSpec

\* The lifecycle counts the halves that are not finished and the driver's metric
\* the streams whose signal is silent, in whatever order the halves, the
\* application, the peer and the session end (finish(), abort()).
THEOREM PartsAlwaysCounted == StreamSpec => []PartsCounted
<1>1. StreamIInv => PartsCounted
  BY DEF StreamIInv
<1> QED  BY <1>1, AlwaysStreamIInv, PTL

\* No end of the stream turns a close() under way into a reset, and a session
\* that has ended sends none (the abort listener of the writable bridge).
THEOREM NeverResetNeedlessly == StreamSpec => NoNeedlessReset
<1>1. StreamIInv /\ [StreamNext]_streamVars =>
        [op'["reset"] # op["reset"] /\ op'["reset"] = "pending" =>
           ~Closing(op) /\ reason' # "session"]_streamVars
  BY StreamNextInv
<1> QED
  BY <1>1, AlwaysStreamIInv, PTL DEF StreamSpec, NoNeedlessReset
-----------------------------------------------------------------------------
(* The virtual driver *)

\* A stream that its session still resets has an open session.
TrackedIsOpen ==
    /\ IsFiniteSet(known) /\ IsFiniteSet(tracked)
    /\ \A t \in tracked : owner[t] \in Sessions /\ conn[owner[t]] = "CONNECTED" /\ stream[t] # "none"

\* How a session ended and what its reader found, in each state of the session.
EndsFit ==
    \A s \in Sessions :
        /\ conn[s] = "none" => how[s] = "open" /\ reader[s] = "none"
        /\ conn[s] = "CONNECTED" => how[s] = "open" /\ reader[s] \in {"none", "waiting"}
        /\ conn[s] \in {"CLOSING", "CLOSED"} => how[s] # "open"

\* A session exists only after its connect(), and a stop() waits for whatever
\* is left.
CallsFit ==
    /\ \A s \in Sessions : call[s] = "none" => conn[s] = "none"
    /\ Stopping => known \subseteq waits

VirtualIInv == VirtualStateExact /\ TrackedIsOpen /\ EndsFit /\ CallsFit

\* Nothing is there before the first start().
LEMMA VirtualInitInv == VirtualInit => VirtualIInv
<1> SUFFICES ASSUME VirtualInit PROVE VirtualIInv
  OBVIOUS
<1>1. IsFiniteSet({}) /\ Cardinality({}) = 0
  BY FS_EmptySet
<1> QED
  BY <1>1, VirtualAssumption DEF VirtualInit, VirtualIInv, VirtualStateExact, VirtualTypeOK, CountersExact,
     StoppedIsEmpty, EndIsComplete, TrackedIsOpen, EndsFit, CallsFit, TrackedOf, Stopping

\* Terminating session pairs keeps the counters and ends their streams and reads.
LEMMA TerminateKeeps ==
    ASSUME VirtualTypeOK, CountersExact, EndIsComplete, TrackedIsOpen, EndsFit,
           NEW S \in SUBSET Sessions, NEW kind \in {"close", "abort"}, Terminate(S, kind),
           UNCHANGED <<known, sessionsActive, owner>>
    PROVE  /\ conn' \in [Sessions -> {"none", "CONNECTED", "CLOSING", "CLOSED"}]
           /\ how' \in [Sessions -> {"open", "close", "abort"}]
           /\ reader' \in [Sessions -> {"none", "waiting", "done", "error"}]
           /\ stream' \in [VirtualStreams -> {"none", "queued", "taken", "ended"}]
           /\ tracked' \subseteq tracked /\ streamsActive' \in Nat
           /\ CountersExact' /\ EndIsComplete' /\ TrackedIsOpen' /\ EndsFit'
           /\ \A s \in Sessions : conn'[s] = "none" <=> conn[s] = "none"
<1> DEFINE ending == Fresh(S)
           gone == TrackedOf(ending)
<1>1. /\ conn' = [s \in Sessions |-> IF s \in ending THEN "CLOSING" ELSE conn[s]]
      /\ how' = [s \in Sessions |-> IF s \in ending THEN kind ELSE how[s]]
      /\ reader' = [s \in Sessions |->
                      IF s \in ending /\ reader[s] = "waiting" THEN (IF kind = "close" THEN "done" ELSE "error")
                      ELSE reader[s]]
      /\ stream' = [t \in VirtualStreams |-> IF t \in gone THEN "ended" ELSE stream[t]]
      /\ tracked' = tracked \ gone
      /\ streamsActive' = streamsActive - Cardinality(gone)
  BY DEF Terminate, ReadsAfter
<1>2. /\ \A s \in ending : s \in Sessions /\ conn[s] = "CONNECTED"
      /\ gone \subseteq tracked /\ \A t \in tracked : t \in gone <=> owner[t] \in ending
  BY DEF Fresh, TrackedOf
<1> HIDE DEF ending, gone
<1>3. /\ conn' \in [Sessions -> {"none", "CONNECTED", "CLOSING", "CLOSED"}]
      /\ how' \in [Sessions -> {"open", "close", "abort"}]
      /\ reader' \in [Sessions -> {"none", "waiting", "done", "error"}]
      /\ stream' \in [VirtualStreams -> {"none", "queued", "taken", "ended"}]
      /\ tracked' \subseteq tracked
  BY <1>1 DEF VirtualTypeOK
<1>4. \A s \in Sessions : conn'[s] = "none" <=> conn[s] = "none"
  BY <1>1, <1>2
<1>5. streamsActive' \in Nat /\ streamsActive' = Cardinality(tracked') /\ IsFiniteSet(tracked')
  <2>1. IsFiniteSet(tracked) /\ streamsActive = Cardinality(tracked)
    BY DEF TrackedIsOpen, CountersExact
  <2>2. IsFiniteSet(tracked \ gone) /\ Cardinality(tracked \ gone) = Cardinality(tracked) - Cardinality(tracked \cap gone)
    BY <2>1, FS_Difference
  <2>3. tracked \cap gone = gone
    BY <1>2
  <2>4. Cardinality(tracked \ gone) \in Nat
    BY <2>2, FS_CardinalityType
  <2> QED
    BY <1>1, <2>1, <2>2, <2>3, <2>4
<1>6. CountersExact'
  <2>1. \A s \in Sessions : conn'[s] \in {"CONNECTED", "CLOSING"} <=> conn[s] \in {"CONNECTED", "CLOSING"}
    BY <1>1, <1>2
  <2> QED
    BY <1>5, <2>1 DEF CountersExact
<1>7. TrackedIsOpen'
  <2>1. ASSUME NEW t \in tracked'
        PROVE  owner[t] \in Sessions /\ conn'[owner[t]] = "CONNECTED" /\ stream'[t] # "none"
    BY <1>1, <1>2 DEF TrackedIsOpen, VirtualTypeOK
  <2> QED
    BY <1>5, <2>1 DEF TrackedIsOpen
<1>8. EndsFit'
  BY <1>1, <1>2 DEF EndsFit
<1>9. EndIsComplete'
  <2> SUFFICES ASSUME NEW s \in Sessions, conn'[s] \in {"CLOSING", "CLOSED"}
               PROVE  /\ TrackedOf({s})' = {} /\ reader'[s] # "waiting"
                      /\ reader'[s] = "done" => how'[s] = "close"
                      /\ reader'[s] = "error" => how'[s] = "abort"
    BY DEF EndIsComplete
  <2>1. TrackedOf({s})' = {}
    BY <1>7 DEF TrackedIsOpen, TrackedOf
  <2>2. CASE s \in ending
    BY <1>1, <1>2, <2>1, <2>2 DEF EndsFit
  <2>3. CASE s \notin ending
    BY <1>1, <2>1, <2>3 DEF EndIsComplete
  <2> QED
    BY <2>2, <2>3
<1> QED
  BY <1>3, <1>4, <1>5, <1>6, <1>7, <1>8, <1>9

\* Every step keeps the invariant.
LEMMA VirtualNextInv == VirtualIInv /\ [VirtualNext]_virtualVars => VirtualIInv'
<1> SUFFICES ASSUME VirtualIInv, [VirtualNext]_virtualVars PROVE VirtualIInv'
  OBVIOUS
<1>0. /\ VirtualTypeOK /\ CountersExact /\ StoppedIsEmpty /\ EndIsComplete /\ TrackedIsOpen /\ EndsFit
      /\ CallsFit /\ IsFiniteSet(known) /\ Cardinality(known) \in Nat
  BY FS_CardinalityType DEF VirtualIInv, VirtualStateExact, TrackedIsOpen
<1> USE DEF VirtualIInv, VirtualStateExact
<1>1. CASE Start
  BY <1>0, <1>1 DEF Start, countedVars, VirtualTypeOK, CountersExact, StoppedIsEmpty, EndIsComplete,
     TrackedIsOpen, EndsFit, CallsFit, TrackedOf, Stopping
<1>2. CASE StopEnds
  <2>1. known = {} /\ tracked = {}
    <3>1. known = {}
      BY <1>0, <1>2 DEF StopEnds, AllEnded, CallsFit, CountersExact
    <3> QED
      BY <1>0, <3>1 DEF TrackedIsOpen, CountersExact
  <2> QED
    BY <1>0, <1>2, <2>1 DEF StopEnds, countedVars, VirtualTypeOK, CountersExact, StoppedIsEmpty, EndIsComplete,
       TrackedIsOpen, EndsFit, CallsFit, TrackedOf, Stopping
<1>3. ASSUME NEW kind \in {"close", "abort"}, Stop(kind) PROVE VirtualIInv'
  <2>1. /\ state' \in {"DRAINING", "STOPPING"} /\ waits' = waits \cup known
        /\ Terminate(known, kind) /\ UNCHANGED <<call, known, sessionsActive, owner>>
    BY <1>3 DEF Stop
  <2>2. known \in SUBSET Sessions
    BY <1>0 DEF VirtualTypeOK
  <2>3. /\ conn' \in [Sessions -> {"none", "CONNECTED", "CLOSING", "CLOSED"}]
        /\ how' \in [Sessions -> {"open", "close", "abort"}]
        /\ reader' \in [Sessions -> {"none", "waiting", "done", "error"}]
        /\ stream' \in [VirtualStreams -> {"none", "queued", "taken", "ended"}]
        /\ tracked' \subseteq tracked /\ streamsActive' \in Nat
        /\ CountersExact' /\ EndIsComplete' /\ TrackedIsOpen' /\ EndsFit'
        /\ \A s \in Sessions : conn'[s] = "none" <=> conn[s] = "none"
    BY <1>0, <2>1, <2>2, TerminateKeeps
  <2> QED
    BY <1>0, <2>1, <2>2, <2>3 DEF VirtualTypeOK, StoppedIsEmpty, CallsFit, Stopping
<1>4. ASSUME NEW s \in Sessions, Connect(s) PROVE VirtualIInv'
  <2>1. conn[s] = "none" /\ s \notin known
    BY <1>0, <1>4 DEF Connect, CallsFit, CountersExact
  <2>2. CASE Accepts
    <3>1. /\ call' = [call EXCEPT ![s] = "callbacks"] /\ conn' = [conn EXCEPT ![s] = "CONNECTED"]
          /\ known' = known \cup {s} /\ sessionsActive' = sessionsActive + 1
          /\ UNCHANGED <<state, waits, how, countedVars, reader>>
          /\ state = "RUNNING" /\ Cardinality(known) < MaxSessions
      BY <1>4, <2>2 DEF Connect, Accepts
    <3>2. IsFiniteSet(known') /\ Cardinality(known') = Cardinality(known) + 1
      BY <1>0, <2>1, <3>1, FS_AddElement
    <3>3. VirtualTypeOK'
      BY <1>0, <3>1, <3>2, VirtualAssumption DEF VirtualTypeOK, countedVars
    <3>4. CountersExact'
      BY <1>0, <3>1, <3>2 DEF CountersExact, VirtualTypeOK, countedVars
    <3>5. TrackedIsOpen'
      BY <1>0, <3>1, <3>2 DEF TrackedIsOpen, VirtualTypeOK, countedVars
    <3>6. EndsFit' /\ EndIsComplete'
      BY <1>0, <2>1, <3>1 DEF EndsFit, EndIsComplete, TrackedOf, VirtualTypeOK, countedVars
    <3>7. CallsFit' /\ StoppedIsEmpty'
      BY <1>0, <3>1 DEF CallsFit, StoppedIsEmpty, Stopping, VirtualTypeOK
    <3> QED
      BY <3>3, <3>4, <3>5, <3>6, <3>7
  <2>3. CASE ~Accepts
    <3>1. /\ call' = [call EXCEPT ![s] = "rejected"]
          /\ UNCHANGED <<state, waits, conn, known, sessionsActive, how, countedVars, reader>>
      BY <1>4, <2>3 DEF Connect
    <3> QED
      BY <1>0, <3>1 DEF countedVars, VirtualTypeOK, CountersExact, StoppedIsEmpty, EndIsComplete,
         TrackedIsOpen, EndsFit, CallsFit, TrackedOf, Stopping
  <2> QED
    BY <2>2, <2>3
<1>5. ASSUME NEW s \in Sessions, CallbacksReturn(s) \/ Rejected(s) PROVE VirtualIInv'
  <2>1. /\ UNCHANGED <<state, waits, conn, how, known, sessionsActive, countedVars, reader>>
        /\ call' \in [Sessions -> {"none", "callbacks", "returned", "rejecting", "rejected"}]
        /\ \A u \in Sessions : call'[u] = "none" => call[u] = "none"
    BY <1>0, <1>5 DEF CallbacksReturn, Rejected, VirtualTypeOK
  <2> QED
    BY <1>0, <2>1 DEF countedVars, VirtualTypeOK, CountersExact, StoppedIsEmpty, EndIsComplete,
       TrackedIsOpen, EndsFit, CallsFit, TrackedOf, Stopping
<1>6. ASSUME NEW s \in Sessions, NEW kind \in {"close", "abort"}, Terminate({s}, kind),
             UNCHANGED <<state, waits, known, sessionsActive, owner>>,
             call' \in [Sessions -> {"none", "callbacks", "returned", "rejecting", "rejected"}],
             \A u \in Sessions : call'[u] = "none" => call[u] = "none"
      PROVE  VirtualIInv'
  <2>1. {s} \in SUBSET Sessions
    OBVIOUS
  <2>2. /\ conn' \in [Sessions -> {"none", "CONNECTED", "CLOSING", "CLOSED"}]
        /\ how' \in [Sessions -> {"open", "close", "abort"}]
        /\ reader' \in [Sessions -> {"none", "waiting", "done", "error"}]
        /\ stream' \in [VirtualStreams -> {"none", "queued", "taken", "ended"}]
        /\ tracked' \subseteq tracked /\ streamsActive' \in Nat
        /\ CountersExact' /\ EndIsComplete' /\ TrackedIsOpen' /\ EndsFit'
        /\ \A u \in Sessions : conn'[u] = "none" <=> conn[u] = "none"
    BY <1>0, <1>6, <2>1, TerminateKeeps
  <2> QED
    BY <1>0, <1>6, <2>2 DEF VirtualTypeOK, StoppedIsEmpty, CallsFit, Stopping
<1>7. ASSUME NEW s \in Sessions, CallbackThrows(s) PROVE VirtualIInv'
  <2>1. /\ call' \in [Sessions -> {"none", "callbacks", "returned", "rejecting", "rejected"}]
        /\ \A u \in Sessions : call'[u] = "none" => call[u] = "none"
        /\ Terminate({s}, "abort") /\ UNCHANGED <<state, waits, known, sessionsActive, owner>>
    BY <1>0, <1>7 DEF CallbackThrows, VirtualTypeOK
  <2> QED
    BY <1>6, <2>1
<1>8. ASSUME NEW s \in Sessions, NEW kind \in {"close", "abort"}, EndSession(s, kind) PROVE VirtualIInv'
  <2>1. Terminate({s}, kind) /\ UNCHANGED <<state, waits, call, known, sessionsActive, owner>>
    BY <1>8 DEF EndSession
  <2>2. call' \in [Sessions -> {"none", "callbacks", "returned", "rejecting", "rejected"}]
    BY <1>0, <2>1 DEF VirtualTypeOK
  <2> QED
    BY <1>6, <2>1, <2>2
<1>9. ASSUME NEW s \in Sessions, TerminationEnds(s) PROVE VirtualIInv'
  <2>1. /\ conn[s] = "CLOSING" /\ conn' = [conn EXCEPT ![s] = "CLOSED"]
        /\ known' = known \ {s} /\ sessionsActive' = sessionsActive - 1
        /\ UNCHANGED <<state, waits, call, how, countedVars, reader>>
    BY <1>9 DEF TerminationEnds
  <2>2. s \in known
    BY <1>0, <2>1 DEF CountersExact
  <2>3. IsFiniteSet(known') /\ Cardinality(known') = Cardinality(known) - 1 /\ Cardinality(known') \in Nat
    BY <1>0, <2>1, <2>2, FS_RemoveElement, FS_CardinalityType
  <2>4. VirtualTypeOK'
    BY <1>0, <2>1, <2>3, VirtualAssumption DEF VirtualTypeOK, CountersExact, countedVars
  <2>5. CountersExact'
    BY <1>0, <2>1, <2>3 DEF CountersExact, VirtualTypeOK, countedVars
  <2>6. TrackedIsOpen'
    BY <1>0, <2>1, <2>3 DEF TrackedIsOpen, VirtualTypeOK, countedVars
  <2>7. EndsFit' /\ EndIsComplete'
    BY <1>0, <2>1 DEF EndsFit, EndIsComplete, TrackedOf, VirtualTypeOK, countedVars
  <2>8. CallsFit' /\ StoppedIsEmpty'
    BY <1>0, <2>1 DEF CallsFit, StoppedIsEmpty, Stopping, VirtualTypeOK, countedVars
  <2> QED
    BY <2>4, <2>5, <2>6, <2>7, <2>8
<1>10. ASSUME NEW s \in Sessions, Read(s) PROVE VirtualIInv'
  <2>1. /\ conn[s] # "none" /\ reader[s] = "none"
        /\ UNCHANGED <<state, waits, conn, call, how, known, sessionsActive, streamsActive, owner, tracked>>
    BY <1>10 DEF Read
  <2>2. /\ stream' \in [VirtualStreams -> {"none", "queued", "taken", "ended"}]
        /\ \A t \in VirtualStreams : stream[t] # "none" => stream'[t] # "none"
    BY <1>0, <1>10 DEF Read, VirtualTypeOK
  <2>3. \/ reader' = reader
        \/ conn[s] = "CONNECTED" /\ reader' = [reader EXCEPT ![s] = "waiting"]
        \/ conn[s] # "CONNECTED" /\ reader' = [reader EXCEPT ![s] = IF how[s] = "close" THEN "done" ELSE "error"]
    BY <1>10 DEF Read
  <2>4. VirtualTypeOK'
    BY <1>0, <2>1, <2>2, <2>3 DEF VirtualTypeOK
  <2>5. EndsFit' /\ EndIsComplete'
    BY <1>0, <2>1, <2>3 DEF EndsFit, EndIsComplete, TrackedOf, VirtualTypeOK
  <2>6. CountersExact' /\ TrackedIsOpen' /\ CallsFit' /\ StoppedIsEmpty'
    BY <1>0, <2>1, <2>2 DEF CountersExact, TrackedIsOpen, CallsFit, StoppedIsEmpty, Stopping, VirtualTypeOK
  <2> QED
    BY <2>4, <2>5, <2>6
<1>11. ASSUME NEW s \in Sessions, NEW t \in VirtualStreams, OpenStream(s, t) PROVE VirtualIInv'
  <2>1. /\ stream[t] = "none" /\ conn[s] = "CONNECTED" /\ owner' = [owner EXCEPT ![t] = s]
        /\ UNCHANGED <<state, waits, conn, call, how, known, sessionsActive>>
    BY <1>11 DEF OpenStream
  <2>2. /\ t \notin tracked /\ IsFiniteSet(tracked) /\ streamsActive = Cardinality(tracked)
    BY <1>0, <2>1 DEF TrackedIsOpen, CountersExact
  <2>3. \/ reader' = reader /\ stream' = [stream EXCEPT ![t] = "ended"] /\ UNCHANGED <<tracked, streamsActive>>
        \/ /\ reader' = [reader EXCEPT ![s] = "none"]
           /\ \E place \in {"taken", "queued"} : stream' = [stream EXCEPT ![t] = place]
           /\ tracked' = tracked \cup {t} /\ streamsActive' = streamsActive + 1
    BY <1>11 DEF OpenStream, Refused
  <2>4. IsFiniteSet(tracked') /\ streamsActive' = Cardinality(tracked') /\ streamsActive' \in Nat
    BY <1>0, <2>2, <2>3, FS_AddElement DEF VirtualTypeOK
  <2>5. /\ stream' \in [VirtualStreams -> {"none", "queued", "taken", "ended"}]
        /\ stream'[t] # "none" /\ \A u \in VirtualStreams : u # t => stream'[u] = stream[u]
    BY <1>0, <2>3 DEF VirtualTypeOK
  <2>6. VirtualTypeOK'
    BY <1>0, <2>1, <2>3, <2>4, <2>5 DEF VirtualTypeOK
  <2>7. TrackedIsOpen'
    BY <1>0, <2>1, <2>3, <2>4, <2>5 DEF TrackedIsOpen, VirtualTypeOK
  <2>8. EndsFit'
    BY <1>0, <2>1, <2>3 DEF EndsFit, VirtualTypeOK
  <2>9. EndIsComplete'
    <3> SUFFICES ASSUME NEW u \in Sessions, conn[u] \in {"CLOSING", "CLOSED"}
                 PROVE  TrackedOf({u})' = {} /\ reader'[u] = reader[u]
      BY <1>0, <2>1 DEF EndIsComplete
    <3>1. TrackedOf({u})' = {}
      BY <2>1, <2>7 DEF TrackedIsOpen, TrackedOf
    <3> QED
      BY <1>0, <2>1, <2>3, <3>1 DEF VirtualTypeOK
  <2>10. CountersExact' /\ CallsFit' /\ StoppedIsEmpty'
    <3>1. state # "STOPPED"
      BY <1>0, <2>1 DEF StoppedIsEmpty, CountersExact
    <3> QED
      BY <1>0, <2>1, <2>4, <3>1 DEF CountersExact, CallsFit, StoppedIsEmpty, Stopping
  <2> QED
    BY <2>6, <2>7, <2>8, <2>9, <2>10
<1>12. ASSUME NEW t \in VirtualStreams, StreamCloses(t) PROVE VirtualIInv'
  <2>1. /\ t \in tracked /\ tracked' = tracked \ {t} /\ streamsActive' = streamsActive - 1
        /\ stream' = [stream EXCEPT ![t] = IF @ = "queued" THEN @ ELSE "ended"]
        /\ UNCHANGED <<state, waits, conn, call, how, known, sessionsActive, owner, reader>>
    BY <1>12 DEF StreamCloses
  <2>2. IsFiniteSet(tracked') /\ streamsActive' = Cardinality(tracked') /\ streamsActive' \in Nat
    <3>1. IsFiniteSet(tracked) /\ streamsActive = Cardinality(tracked)
      BY <1>0 DEF TrackedIsOpen, CountersExact
    <3>2. IsFiniteSet(tracked \ {t}) /\ Cardinality(tracked \ {t}) = Cardinality(tracked) - 1
      BY <2>1, <3>1, FS_RemoveElement
    <3> QED
      BY <2>1, <3>1, <3>2, FS_CardinalityType
  <2>3. VirtualTypeOK'
    BY <1>0, <2>1, <2>2 DEF VirtualTypeOK
  <2>4. TrackedIsOpen'
    BY <1>0, <2>1, <2>2 DEF TrackedIsOpen, VirtualTypeOK
  <2>5. EndsFit' /\ EndIsComplete' /\ CallsFit' /\ StoppedIsEmpty' /\ CountersExact'
    BY <1>0, <2>1, <2>2 DEF EndsFit, EndIsComplete, CallsFit, StoppedIsEmpty, CountersExact, TrackedOf, Stopping
  <2> QED
    BY <2>3, <2>4, <2>5
<1>13. CASE UNCHANGED virtualVars
  BY <1>0, <1>13 DEF virtualVars, VirtualTypeOK, CountersExact, StoppedIsEmpty, EndIsComplete,
     TrackedIsOpen, EndsFit, CallsFit, TrackedOf, Stopping
<1> QED
  BY <1>1, <1>2, <1>3, <1>4, <1>5, <1>7, <1>8, <1>9, <1>10, <1>11, <1>12, <1>13 DEF VirtualNext

\* For any number of sessions and streams and any ceilings, the counters of
\* getStats() are those of what is there, a stopped driver is empty, and what a
\* session's streams and reads find at its end is how it was ended first.
THEOREM VirtualAlwaysExact == VirtualSpec => []VirtualStateExact
<1>1. VirtualIInv => VirtualStateExact
  BY DEF VirtualIInv
<1> QED  BY <1>1, VirtualInitInv, VirtualNextInv, PTL DEF VirtualSpec
=============================================================================
