-------------------------- MODULE StreamTrackingProofs --------------------------
(***************************************************************************)
(* Theorems about the incoming streams of a session, for any number of     *)
(* sessions and streams, any limits and any idle timeout: the counters are *)
(* the streams that are open, and a session is closed for being idle only  *)
(* when it is.                                                             *)
(***************************************************************************)
EXTENDS StreamTracking, FiniteSetTheorems, TLAPS

\* A stream is tracked only after a pump has read it.
UnreadIsNotTracked == tracked \cap unread = {}

\* An aborted session is finalized, and a finalized one takes nothing.
EndedSessionsAreOff == aborted \subseteq finalized /\ finalized \subseteq intakeOff

\* What the code believes is what happened: a session without open streams has
\* been quiet for at least as long as lastActivityAt says.
QuietAtLeastAge ==
    \A s \in Sessions : s \notin finalized /\ Of(s, tracked) = {} => age[s] <= quiet[s]

\* The type invariant in two parts.
StreamTypes ==
    /\ pump \in [Sessions \X Kinds -> {"waiting", "reading", "refusing", "rejecting", "leaving", "over"}]
    /\ unread \subseteq Streams /\ ended \subseteq Streams /\ tracked \subseteq Streams
    /\ activeStreams \in 0..Cardinality(Streams)
    /\ streamCount \in [Sessions \X Kinds -> 0..Cardinality(Streams)]
    /\ waiters \subseteq Sessions /\ aborted \subseteq Sessions
    /\ intakeOff \subseteq Sessions /\ finalized \subseteq Sessions

IdleTypes ==
    /\ age \in [Sessions -> 0..IdleTimeout] /\ quiet \in [Sessions -> 0..IdleTimeout]
    /\ timer \in [Sessions -> {NoTimer} \cup 0..IdleTimeout] /\ idleClosed \subseteq Sessions

IndInv ==
    /\ TypeOK /\ StreamsExact /\ NoWaitForNothing /\ NothingOutlivesItsSignal /\ AlwaysWatched
    /\ UnreadIsNotTracked /\ EndedSessionsAreOff /\ QuietAtLeastAge

-----------------------------------------------------------------------------
(* Helpers *)

\* Sets of streams can be counted.
LEMMA StreamSetsFinite ==
    ASSUME NEW X, X \subseteq Streams
    PROVE  /\ IsFiniteSet(X) /\ Cardinality(X) \in Nat /\ Cardinality(X) <= Cardinality(Streams)
           /\ Cardinality(Streams) \in Nat
BY TrackingStreams, FS_Subset, FS_CardinalityType

\* What is left of a set of streams is counted by subtraction.
LEMMA CountOfRest ==
    ASSUME NEW X, NEW Y, X \subseteq Streams, Y \subseteq X
    PROVE  Cardinality(X \ Y) = Cardinality(X) - Cardinality(Y)
<1>1. IsFiniteSet(X)
  BY StreamSetsFinite
<1>2. X \cap Y = Y
  OBVIOUS
<1> QED  BY <1>1, <1>2, FS_Difference

\* The counters tell whether a session has open streams.
LEMMA CountersTellStreams ==
    ASSUME StreamsExact, tracked \subseteq Streams, NEW s \in Sessions
    PROVE  HasStreams(s) <=> Of(s, tracked) # {}
<1>1. ASSUME NEW k \in Kinds
      PROVE  streamCount[<<s, k>>] > 0 <=> OfKind(s, k, tracked) # {}
  <2>1. OfKind(s, k, tracked) \subseteq Streams
    BY DEF OfKind
  <2>2. IsFiniteSet(OfKind(s, k, tracked)) /\ Cardinality(OfKind(s, k, tracked)) \in Nat
    BY <2>1, StreamSetsFinite
  <2>3. Cardinality(OfKind(s, k, tracked)) = 0 <=> OfKind(s, k, tracked) = {}
    BY <2>2, FS_EmptySet
  <2>4. streamCount[<<s, k>>] = Cardinality(OfKind(s, k, tracked))
    BY DEF StreamsExact
  <2> QED  BY <2>2, <2>3, <2>4
<1>2. Of(s, tracked) # {} <=> \E k \in Kinds : OfKind(s, k, tracked) # {}
  BY TrackingStreams DEF Of, OfKind
<1> QED  BY <1>1, <1>2 DEF HasStreams

\* A timer advances by one tick, up to the timeout.
LEMMA CappedStep ==
    ASSUME NEW n \in 0..IdleTimeout
    PROVE  Min({n + 1, IdleTimeout}) = IF n < IdleTimeout THEN n + 1 ELSE IdleTimeout
<1> DEFINE m == IF n < IdleTimeout THEN n + 1 ELSE IdleTimeout
<1>1. IdleTimeout \in Nat /\ n \in Nat
  BY TrackingLimits
<1>2. m \in {n + 1, IdleTimeout} /\ \A y \in {n + 1, IdleTimeout} : m <= y
  BY <1>1
<1>3. \A x \in {n + 1, IdleTimeout} :
         (\A y \in {n + 1, IdleTimeout} : x <= y) => x = m
  BY <1>1
<1> QED  BY <1>2, <1>3, Zenon DEF Min

-----------------------------------------------------------------------------
(* Counting *)

\* Releasing a set of open streams keeps the counters exact.
LEMMA ReleaseKeepsCounts ==
    ASSUME TypeOK, StreamsExact, NEW gone, gone \subseteq tracked
    PROVE  /\ activeStreams - Cardinality(gone) = Cardinality(tracked \ gone)
           /\ activeStreams - Cardinality(gone) \in 0..Cardinality(Streams)
           /\ activeStreams - Cardinality(gone) <= MaxStreams
           /\ \A s \in Sessions, k \in Kinds :
                 /\ streamCount[<<s, k>>] - Cardinality(OfKind(s, k, gone))
                      = Cardinality(OfKind(s, k, tracked \ gone))
                 /\ streamCount[<<s, k>>] - Cardinality(OfKind(s, k, gone)) \in 0..Cardinality(Streams)
                 /\ streamCount[<<s, k>>] - Cardinality(OfKind(s, k, gone)) <= MaxOfKind[k]
<1>1. tracked \subseteq Streams
  BY DEF TypeOK
<1>2. /\ Cardinality(tracked \ gone) = Cardinality(tracked) - Cardinality(gone)
      /\ Cardinality(tracked \ gone) \in Nat /\ Cardinality(gone) \in Nat
      /\ Cardinality(tracked) \in Nat
      /\ Cardinality(tracked \ gone) <= Cardinality(Streams) /\ Cardinality(Streams) \in Nat
  BY <1>1, CountOfRest, StreamSetsFinite
<1>3. activeStreams = Cardinality(tracked) /\ activeStreams <= MaxStreams /\ MaxStreams \in Nat
  BY TrackingLimits DEF StreamsExact
<1>4. ASSUME NEW s \in Sessions, NEW k \in Kinds
      PROVE  /\ streamCount[<<s, k>>] - Cardinality(OfKind(s, k, gone))
                  = Cardinality(OfKind(s, k, tracked \ gone))
             /\ streamCount[<<s, k>>] - Cardinality(OfKind(s, k, gone)) \in 0..Cardinality(Streams)
             /\ streamCount[<<s, k>>] - Cardinality(OfKind(s, k, gone)) <= MaxOfKind[k]
  <2> DEFINE X == OfKind(s, k, tracked)
  <2> DEFINE Y == OfKind(s, k, gone)
  <2>1. X \subseteq Streams /\ Y \subseteq X /\ OfKind(s, k, tracked \ gone) = X \ Y
    BY <1>1 DEF OfKind
  <2>2. streamCount[<<s, k>>] = Cardinality(X) /\ streamCount[<<s, k>>] <= MaxOfKind[k] /\ MaxOfKind[k] \in Nat
    BY TrackingLimits DEF StreamsExact
  <2> HIDE DEF X, Y
  <2>3. /\ Cardinality(X \ Y) = Cardinality(X) - Cardinality(Y)
        /\ Cardinality(X \ Y) \in Nat /\ Cardinality(X) \in Nat /\ Cardinality(Y) \in Nat
        /\ Cardinality(X \ Y) <= Cardinality(Streams)
    BY <2>1, CountOfRest, StreamSetsFinite
  <2>4. /\ streamCount[<<s, k>>] - Cardinality(Y) = Cardinality(X \ Y)
        /\ streamCount[<<s, k>>] - Cardinality(Y) \in 0..Cardinality(Streams)
        /\ streamCount[<<s, k>>] - Cardinality(Y) <= MaxOfKind[k]
    BY <1>2, <2>2, <2>3
  <2> QED  BY <2>1, <2>4 DEF X, Y
<1>5. /\ activeStreams - Cardinality(gone) = Cardinality(tracked \ gone)
      /\ activeStreams - Cardinality(gone) \in 0..Cardinality(Streams)
      /\ activeStreams - Cardinality(gone) <= MaxStreams
  BY <1>2, <1>3
<1>6. \A s \in Sessions, k \in Kinds :
         /\ streamCount[<<s, k>>] - Cardinality(OfKind(s, k, gone))
              = Cardinality(OfKind(s, k, tracked \ gone))
         /\ streamCount[<<s, k>>] - Cardinality(OfKind(s, k, gone)) \in 0..Cardinality(Streams)
         /\ streamCount[<<s, k>>] - Cardinality(OfKind(s, k, gone)) <= MaxOfKind[k]
  BY <1>4
<1> QED  BY <1>5, <1>6

\* So does tracking one more stream within the limits.
LEMMA TrackingKeepsCounts ==
    ASSUME TypeOK, StreamsExact, NEW s \in Sessions, NEW k \in Kinds,
           NEW x \in OfKind(s, k, Streams), x \notin tracked, WithinLimits(s, k)
    PROVE  /\ activeStreams + 1 = Cardinality(tracked \cup {x})
           /\ activeStreams + 1 \in 0..Cardinality(Streams) /\ activeStreams + 1 <= MaxStreams
           /\ streamCount[<<s, k>>] + 1 = Cardinality(OfKind(s, k, tracked \cup {x}))
           /\ streamCount[<<s, k>>] + 1 \in 0..Cardinality(Streams)
           /\ streamCount[<<s, k>>] + 1 <= MaxOfKind[k]
<1>1. tracked \subseteq Streams /\ x \in Streams /\ SessionOf[x] = s /\ KindOf[x] = k
  BY DEF TypeOK, OfKind
<1>2. /\ Cardinality(tracked \cup {x}) = Cardinality(tracked) + 1 /\ Cardinality(tracked) \in Nat
      /\ Cardinality(tracked \cup {x}) <= Cardinality(Streams) /\ Cardinality(Streams) \in Nat
  BY <1>1, StreamSetsFinite, FS_AddElement
<1>3. activeStreams = Cardinality(tracked) /\ activeStreams < MaxStreams /\ MaxStreams \in Nat
  BY TrackingLimits DEF StreamsExact, WithinLimits
<1>4. activeStreams + 1 \in 0..Cardinality(Streams) /\ activeStreams + 1 <= MaxStreams
  BY <1>2, <1>3
<1> DEFINE X == OfKind(s, k, tracked)
<1>5. X \cup {x} \subseteq Streams /\ x \notin X /\ OfKind(s, k, tracked \cup {x}) = X \cup {x}
  BY <1>1 DEF OfKind
<1>6. streamCount[<<s, k>>] = Cardinality(X) /\ streamCount[<<s, k>>] < MaxOfKind[k] /\ MaxOfKind[k] \in Nat
  BY TrackingLimits DEF StreamsExact, WithinLimits
<1> HIDE DEF X
<1>7. /\ Cardinality(X \cup {x}) = Cardinality(X) + 1 /\ Cardinality(X) \in Nat
      /\ Cardinality(X \cup {x}) <= Cardinality(Streams)
  BY <1>5, FS_AddElement, StreamSetsFinite
<1>8. /\ streamCount[<<s, k>>] + 1 \in 0..Cardinality(Streams)
      /\ streamCount[<<s, k>>] + 1 <= MaxOfKind[k]
  BY <1>2, <1>6, <1>7
<1> QED  BY <1>2, <1>3, <1>4, <1>5, <1>6, <1>7, <1>8

\* Steps that touch no stream keep the counters.
LEMMA CountsStay ==
    ASSUME StreamsExact, UNCHANGED <<tracked, activeStreams, streamCount>>
    PROVE  StreamsExact'
BY DEF StreamsExact, OfKind

-----------------------------------------------------------------------------
(* Activity and the release of streams *)

\* touch() keeps a served session watched, and brings age and quiet together.
LEMMA TouchKeeps ==
    ASSUME TypeOK, AlwaysWatched, EndedSessionsAreOff, QuietAtLeastAge,
           NEW S, S \subseteq Sessions, Touch(S), UNCHANGED sessionVars
    PROVE  /\ IdleTypes' /\ AlwaysWatched'
           /\ \A s \in Sessions :
                 s \notin finalized /\ (s \in S \/ Of(s, tracked) = {}) => age'[s] <= quiet'[s]
<1> DEFINE live == S \ (finalized \cup aborted)
<1>1. /\ age' = [s \in Sessions |-> IF s \in live THEN 0 ELSE age[s]]
      /\ timer' = [s \in Sessions |-> IF s \in live /\ timer[s] = NoTimer THEN IdleTimeout ELSE timer[s]]
      /\ quiet' = [s \in Sessions |-> IF s \in S THEN 0 ELSE quiet[s]]
      /\ idleClosed' = idleClosed
  BY DEF Touch
<1>2. IdleTypes /\ IdleTimeout \in Nat
  BY TrackingLimits DEF TypeOK, IdleTypes
<1>3. aborted' = aborted /\ intakeOff' = intakeOff /\ finalized' = finalized
  BY DEF sessionVars
<1>4. 0 \in 0..IdleTimeout /\ IdleTimeout \in 0..IdleTimeout
  BY <1>2
<1>5. IdleTypes'
  BY <1>1, <1>2, <1>4 DEF IdleTypes
<1>6. AlwaysWatched'
  <2> SUFFICES ASSUME NEW s \in Sessions, s \notin aborted \cup intakeOff
               PROVE  timer'[s] # NoTimer \/ s \in idleClosed
    BY <1>1, <1>3 DEF AlwaysWatched
  <2>1. timer[s] # NoTimer \/ s \in idleClosed
    BY DEF AlwaysWatched
  <2>2. timer'[s] = timer[s] \/ timer'[s] = IdleTimeout
    BY <1>1
  <2> QED  BY <1>2, <2>1, <2>2 DEF NoTimer
<1>7. ASSUME NEW s \in Sessions, s \notin finalized, s \in S \/ Of(s, tracked) = {}
      PROVE  age'[s] <= quiet'[s]
  <2>1. CASE s \in S
    <3>1. s \in live
      BY <1>7, <2>1 DEF EndedSessionsAreOff
    <3> QED  BY <1>1, <2>1, <3>1
  <2>2. CASE s \notin S
    <3>1. age'[s] = age[s] /\ quiet'[s] = quiet[s]
      BY <1>1, <2>2
    <3> QED  BY <1>7, <2>2, <3>1 DEF QuietAtLeastAge
  <2> QED  BY <2>1, <2>2
<1> QED  BY <1>5, <1>6, <1>7

\* release() of any set of streams keeps the counters, the waiters and the
\* idle timer in step.
LEMMA ReleaseKeeps ==
    ASSUME IndInv, NEW X, Release(X), UNCHANGED sessionVars
    PROVE  /\ tracked' = tracked \ X
           /\ activeStreams' \in 0..Cardinality(Streams)
           /\ streamCount' \in [Sessions \X Kinds -> 0..Cardinality(Streams)]
           /\ waiters' \subseteq Sessions
           /\ StreamsExact' /\ NoWaitForNothing'
           /\ IdleTypes' /\ AlwaysWatched' /\ QuietAtLeastAge'
<1> DEFINE gone == X \cap tracked
<1> DEFINE left(s, k) == streamCount[<<s, k>>] - Cardinality(OfKind(s, k, gone))
<1> DEFINE empty == {s \in Sessions : Of(s, gone) # {} /\ \A k \in Kinds : left(s, k) = 0}
<1>1. /\ tracked' = tracked \ gone
      /\ activeStreams' = activeStreams - Cardinality(gone)
      /\ streamCount' = [p \in Sessions \X Kinds |-> left(p[1], p[2])]
      /\ waiters' = waiters \ empty
      /\ Touch(empty)
  BY DEF Release, Releasable, LastStreamEnded
<1>2. TypeOK /\ StreamsExact /\ AlwaysWatched /\ EndedSessionsAreOff /\ QuietAtLeastAge
  BY DEF IndInv
<1>3. tracked \subseteq Streams
  BY <1>2 DEF TypeOK
<1>4. gone \subseteq tracked /\ tracked \ gone = tracked \ X
  OBVIOUS
<1> HIDE DEF gone
<1>5. /\ activeStreams - Cardinality(gone) = Cardinality(tracked \ gone)
      /\ activeStreams - Cardinality(gone) \in 0..Cardinality(Streams)
      /\ activeStreams - Cardinality(gone) <= MaxStreams
      /\ \A s \in Sessions, k \in Kinds :
            /\ streamCount[<<s, k>>] - Cardinality(OfKind(s, k, gone))
                 = Cardinality(OfKind(s, k, tracked \ gone))
            /\ streamCount[<<s, k>>] - Cardinality(OfKind(s, k, gone)) \in 0..Cardinality(Streams)
            /\ streamCount[<<s, k>>] - Cardinality(OfKind(s, k, gone)) <= MaxOfKind[k]
  BY <1>2, <1>4, ReleaseKeepsCounts
<1>6. \A s \in Sessions, k \in Kinds :
         /\ left(s, k) = Cardinality(OfKind(s, k, tracked \ gone))
         /\ left(s, k) \in 0..Cardinality(Streams) /\ left(s, k) <= MaxOfKind[k]
  BY <1>5
<1>7. ASSUME NEW s \in Sessions
      PROVE  s \in empty <=> Of(s, gone) # {} /\ Of(s, tracked \ gone) = {}
  <2>1. ASSUME NEW k \in Kinds
        PROVE  left(s, k) = 0 <=> OfKind(s, k, tracked \ gone) = {}
    <3>1. OfKind(s, k, tracked \ gone) \subseteq Streams
      BY <1>3 DEF OfKind
    <3>2. IsFiniteSet(OfKind(s, k, tracked \ gone))
      BY <3>1, StreamSetsFinite
    <3>3. Cardinality(OfKind(s, k, tracked \ gone)) = 0 <=> OfKind(s, k, tracked \ gone) = {}
      BY <3>2, FS_EmptySet
    <3> QED  BY <1>6, <3>3
  <2>2. Of(s, tracked \ gone) = {} <=> \A k \in Kinds : OfKind(s, k, tracked \ gone) = {}
    BY <1>3, TrackingStreams DEF Of, OfKind
  <2> HIDE DEF left
  <2> QED  BY <2>1, <2>2
<1> HIDE DEF left
<1>8. empty \subseteq Sessions
  OBVIOUS
<1> HIDE DEF empty
<1>9. /\ IdleTypes' /\ AlwaysWatched'
      /\ \A s \in Sessions :
            s \notin finalized /\ (s \in empty \/ Of(s, tracked) = {}) => age'[s] <= quiet'[s]
  BY <1>1, <1>2, <1>8, TouchKeeps
<1>10. \A s \in Sessions, k \in Kinds : streamCount'[<<s, k>>] = left(s, k)
  BY <1>1
<1>11. streamCount' \in [Sessions \X Kinds -> 0..Cardinality(Streams)]
  BY <1>1, <1>6
<1>12. StreamsExact'
  <2>1. activeStreams' = Cardinality(tracked') /\ activeStreams' <= MaxStreams
    BY <1>1, <1>5
  <2>2. \A s \in Sessions, k \in Kinds : OfKind(s, k, tracked)' = OfKind(s, k, tracked \ gone)
    BY <1>1 DEF OfKind
  <2>3. \A s \in Sessions, k \in Kinds :
           /\ streamCount'[<<s, k>>] = Cardinality(OfKind(s, k, tracked)')
           /\ streamCount'[<<s, k>>] <= MaxOfKind[k]
    BY <1>6, <1>10, <2>2
  <2> QED  BY <2>1, <2>3 DEF StreamsExact, OfKind
<1>13. waiters \subseteq Sessions
  BY <1>2 DEF TypeOK
<1>14. NoWaitForNothing'
  <2> SUFFICES ASSUME NEW s \in waiters, s \notin empty
               PROVE  Of(s, tracked \ gone) # {}
    BY <1>1 DEF NoWaitForNothing, Of
  <2>1. Of(s, tracked) # {}
    BY DEF IndInv, NoWaitForNothing
  <2>2. Of(s, tracked) \subseteq Of(s, gone) \cup Of(s, tracked \ gone)
    BY DEF Of
  <2> QED  BY <1>7, <1>13, <2>1, <2>2
<1>15. QuietAtLeastAge'
  <2> SUFFICES ASSUME NEW s \in Sessions, s \notin finalized, Of(s, tracked \ gone) = {}
               PROVE  age'[s] <= quiet'[s]
    BY <1>1 DEF QuietAtLeastAge, Of, sessionVars
  <2>1. Of(s, tracked) # {} => Of(s, gone) # {}
    BY DEF Of
  <2> QED  BY <1>7, <1>9, <2>1
<1> QED  BY <1>1, <1>4, <1>5, <1>9, <1>11, <1>12, <1>13, <1>14, <1>15

-----------------------------------------------------------------------------
(* The actions, by what they change *)

PumpPlaces == {"waiting", "reading", "refusing", "rejecting", "leaving", "over"}

\* A pump goes from one place of its loop to another.
LEMMA GoToKeepsType ==
    ASSUME TypeOK, NEW s \in Sessions, NEW k \in Kinds, NEW where \in PumpPlaces, GoTo(s, k, where)
    PROVE  pump' \in [Sessions \X Kinds -> PumpPlaces]
BY DEF TypeOK, GoTo, PumpPlaces

\* A pump that moves on, or a session that is touched, changes no stream.
LEMMA StreamsUntouched ==
    ASSUME IndInv, UNCHANGED <<streamVars, sessionVars>>,
           pump' \in [Sessions \X Kinds -> PumpPlaces],
           IdleTypes', AlwaysWatched', QuietAtLeastAge'
    PROVE  IndInv'
<1>1. StreamsExact'
  BY CountsStay DEF IndInv, streamVars
<1>2. TypeOK'
  BY DEF IndInv, TypeOK, IdleTypes, streamVars, sessionVars, PumpPlaces
<1>3. NoWaitForNothing' /\ NothingOutlivesItsSignal' /\ UnreadIsNotTracked' /\ EndedSessionsAreOff'
  BY DEF IndInv, NoWaitForNothing, NothingOutlivesItsSignal, UnreadIsNotTracked, EndedSessionsAreOff,
         Of, streamVars, sessionVars
<1> QED  BY <1>1, <1>2, <1>3 DEF IndInv

\* Nothing changes about the idle timer.
LEMMA IdleUntouched ==
    ASSUME IndInv, UNCHANGED <<idleVars, sessionVars, tracked>>
    PROVE  IdleTypes' /\ AlwaysWatched' /\ QuietAtLeastAge'
BY DEF IndInv, TypeOK, IdleTypes, AlwaysWatched, QuietAtLeastAge, Of, idleVars, sessionVars

\* Activity of one session, which opens or releases no stream.
LEMMA TouchedUntracked ==
    ASSUME IndInv, NEW s \in Sessions, Touch({s}), UNCHANGED <<sessionVars, tracked>>
    PROVE  IdleTypes' /\ AlwaysWatched' /\ QuietAtLeastAge'
<1>1. TypeOK /\ AlwaysWatched /\ EndedSessionsAreOff /\ QuietAtLeastAge /\ {s} \subseteq Sessions
  BY DEF IndInv
<1>2. UNCHANGED sessionVars
  OBVIOUS
<1>3. /\ IdleTypes' /\ AlwaysWatched'
      /\ \A q \in Sessions :
            q \notin finalized /\ (q \in {s} \/ Of(q, tracked) = {}) => age'[q] <= quiet'[q]
  BY <1>1, <1>2, TouchKeeps
<1> QED  BY <1>3 DEF QuietAtLeastAge, Of, sessionVars

\* A stream is turned away: it was never tracked.
LEMMA TurnedAway ==
    ASSUME IndInv, NEW x \in unread, unread' = unread \ {x}, ended' = ended \cup {x},
           UNCHANGED <<tracked, activeStreams, streamCount, sessionVars>>,
           waiters' \subseteq waiters,
           pump' \in [Sessions \X Kinds -> PumpPlaces],
           IdleTypes', AlwaysWatched', QuietAtLeastAge'
    PROVE  IndInv'
<1>1. StreamsExact'
  BY CountsStay DEF IndInv
<1>2. TypeOK'
  BY DEF IndInv, TypeOK, IdleTypes, sessionVars, PumpPlaces
<1>3. NoWaitForNothing' /\ NothingOutlivesItsSignal' /\ UnreadIsNotTracked' /\ EndedSessionsAreOff'
  BY DEF IndInv, NoWaitForNothing, NothingOutlivesItsSignal, UnreadIsNotTracked, EndedSessionsAreOff,
         Of, sessionVars
<1> QED  BY <1>1, <1>2, <1>3 DEF IndInv

\* trackStream() of a stream within the limits.
LEMMA TrackStreamKeeps ==
    ASSUME IndInv, NEW s \in Sessions, NEW k \in Kinds, NEW x \in OfKind(s, k, unread),
           s \notin intakeOff \cup aborted, WithinLimits(s, k), TrackStream(s, k, x),
           UNCHANGED <<ended, sessionVars>>, pump' \in [Sessions \X Kinds -> PumpPlaces]
    PROVE  IndInv'
<1>1. /\ TypeOK /\ StreamsExact /\ AlwaysWatched /\ EndedSessionsAreOff /\ QuietAtLeastAge
      /\ {s} \subseteq Sessions
  BY DEF IndInv
<1>2. UNCHANGED sessionVars /\ unread' = unread \ {x} /\ Touch({s})
  BY DEF TrackStream
<1>3. /\ IdleTypes' /\ AlwaysWatched'
      /\ \A q \in Sessions :
            q \notin finalized /\ (q \in {s} \/ Of(q, tracked) = {}) => age'[q] <= quiet'[q]
  BY <1>1, <1>2, TouchKeeps
<1>4. /\ x \in unread /\ x \in OfKind(s, k, Streams) /\ x \notin tracked
      /\ SessionOf[x] = s /\ KindOf[x] = k
  BY DEF IndInv, TypeOK, OfKind, UnreadIsNotTracked
<1>5. CASE x \in ended
  <2>1. UNCHANGED <<tracked, activeStreams, streamCount>> /\ waiters' \subseteq waiters
    BY <1>5 DEF TrackStream
  <2>2. QuietAtLeastAge'
    BY <1>2, <1>3, <2>1 DEF QuietAtLeastAge, Of, sessionVars
  <2>3. ended' = ended \cup {x}
    BY <1>5
  <2> QED  BY <1>2, <1>3, <1>4, <2>1, <2>2, <2>3, TurnedAway
<1>6. CASE x \notin ended
  <2>1. /\ tracked' = tracked \cup {x} /\ activeStreams' = activeStreams + 1
        /\ streamCount' = [streamCount EXCEPT ![<<s, k>>] = @ + 1] /\ waiters' = waiters
    BY <1>6 DEF TrackStream
  <2>2. /\ activeStreams' = Cardinality(tracked')
        /\ activeStreams' \in 0..Cardinality(Streams) /\ activeStreams' <= MaxStreams
        /\ streamCount[<<s, k>>] + 1 = Cardinality(OfKind(s, k, tracked \cup {x}))
        /\ streamCount[<<s, k>>] + 1 \in 0..Cardinality(Streams)
        /\ streamCount[<<s, k>>] + 1 <= MaxOfKind[k]
    BY <1>1, <1>4, <2>1, TrackingKeepsCounts
  <2>3. streamCount \in [Sessions \X Kinds -> 0..Cardinality(Streams)]
    BY <1>1 DEF TypeOK
  <2>4. StreamsExact'
    <3>1. \A p \in Sessions, j \in Kinds : OfKind(p, j, tracked)' = OfKind(p, j, tracked \cup {x})
      BY <2>1 DEF OfKind
    <3>2. activeStreams' = Cardinality(tracked') /\ activeStreams' <= MaxStreams
      BY <2>2
    <3>3. ASSUME NEW p \in Sessions, NEW j \in Kinds
          PROVE  /\ streamCount'[<<p, j>>] = Cardinality(OfKind(p, j, tracked)')
                 /\ streamCount'[<<p, j>>] <= MaxOfKind[j]
      <4>1. CASE p = s /\ j = k
        <5>1. streamCount'[<<p, j>>] = streamCount[<<s, k>>] + 1
          BY <2>1, <2>3, <4>1
        <5> QED  BY <2>2, <3>1, <4>1, <5>1
      <4>2. CASE p # s \/ j # k
        <5>1. streamCount'[<<p, j>>] = streamCount[<<p, j>>]
          BY <2>1, <2>3, <4>2
        <5>2. OfKind(p, j, tracked \cup {x}) = OfKind(p, j, tracked)
          BY <1>4, <4>2 DEF OfKind
        <5>3. /\ streamCount[<<p, j>>] = Cardinality(OfKind(p, j, tracked))
              /\ streamCount[<<p, j>>] <= MaxOfKind[j]
          BY <1>1 DEF StreamsExact
        <5> QED  BY <3>1, <5>1, <5>2, <5>3
      <4> QED  BY <4>1, <4>2
    <3> QED  BY <3>2, <3>3 DEF StreamsExact, OfKind
  <2>5. TypeOK'
    <3>1. activeStreams' \in 0..Cardinality(Streams)
      BY <2>2
    <3>2. streamCount' \in [Sessions \X Kinds -> 0..Cardinality(Streams)]
      BY <2>1, <2>2, <2>3
    <3> QED  BY <1>1, <1>2, <1>3, <1>4, <2>1, <3>1, <3>2
             DEF TypeOK, IdleTypes, OfKind, sessionVars, PumpPlaces
  <2>6. NoWaitForNothing' /\ NothingOutlivesItsSignal' /\ UnreadIsNotTracked' /\ EndedSessionsAreOff'
    BY <1>2, <1>4, <1>6, <2>1
       DEF IndInv, NoWaitForNothing, NothingOutlivesItsSignal, UnreadIsNotTracked, EndedSessionsAreOff,
           Of, sessionVars
  <2>7. QuietAtLeastAge'
    <3> SUFFICES ASSUME NEW q \in Sessions, q \notin finalized, Of(q, tracked \cup {x}) = {}
                 PROVE  age'[q] <= quiet'[q]
      BY <1>2, <2>1 DEF QuietAtLeastAge, Of, sessionVars
    <3>1. Of(q, tracked) = {}
      BY DEF Of
    <3> QED  BY <1>3, <3>1
  <2> QED  BY <1>3, <2>4, <2>5, <2>6, <2>7 DEF IndInv
<1> QED  BY <1>5, <1>6

\* Whatever ends a stream: its signal aborts, and release() runs.
LEMMA StreamEndsKeeps ==
    ASSUME IndInv, NEW x \in Streams, StreamEnds(x)
    PROVE  IndInv'
<1>1. Release({x}) /\ ended' = ended \cup {x} /\ UNCHANGED <<pump, unread, sessionVars>>
  BY DEF StreamEnds
<1>2. UNCHANGED sessionVars
  BY <1>1
<1>3. /\ tracked' = tracked \ {x}
      /\ activeStreams' \in 0..Cardinality(Streams)
      /\ streamCount' \in [Sessions \X Kinds -> 0..Cardinality(Streams)]
      /\ waiters' \subseteq Sessions
      /\ StreamsExact' /\ NoWaitForNothing'
      /\ IdleTypes' /\ AlwaysWatched' /\ QuietAtLeastAge'
  BY <1>1, <1>2, ReleaseKeeps
<1>4. TypeOK'
  BY <1>1, <1>3 DEF IndInv, TypeOK, IdleTypes, sessionVars
<1>5. NothingOutlivesItsSignal' /\ UnreadIsNotTracked' /\ EndedSessionsAreOff'
  BY <1>1, <1>3 DEF IndInv, NothingOutlivesItsSignal, UnreadIsNotTracked, EndedSessionsAreOff, sessionVars
<1> QED  BY <1>3, <1>4, <1>5 DEF IndInv

\* checkIdle(): the timer is set again, or has closed the session.
LEMMA CheckIdleKeeps ==
    ASSUME IndInv, NEW s \in Sessions, CheckIdle(s), UNCHANGED <<streamVars, sessionVars, quiet>>
    PROVE  IdleTypes' /\ AlwaysWatched' /\ QuietAtLeastAge'
<1>1. /\ IdleTypes /\ IdleTimeout \in Nat /\ 0 \in 0..IdleTimeout /\ IdleTimeout \in 0..IdleTimeout
      /\ quiet' = quiet /\ tracked' = tracked
      /\ aborted' = aborted /\ intakeOff' = intakeOff /\ finalized' = finalized
  BY TrackingLimits DEF IndInv, TypeOK, IdleTypes, streamVars, sessionVars
<1>2. age' = age \/ age' = [age EXCEPT ![s] = 0]
  BY DEF CheckIdle
<1>3. \E t \in {NoTimer} \cup 0..IdleTimeout :
         /\ timer' = [timer EXCEPT ![s] = t]
         /\ t = NoTimer => s \in finalized \cup intakeOff \cup idleClosed'
  <2>1. IdleTimeout - age[s] \in 0..IdleTimeout
    BY <1>1 DEF IdleTypes
  <2>2. IdleTimeout # NoTimer /\ IdleTimeout - age[s] # NoTimer
    BY <1>1, <2>1 DEF NoTimer
  <2> QED  BY <1>1, <2>1, <2>2 DEF CheckIdle, Rearm
<1>4. idleClosed \subseteq idleClosed' /\ idleClosed' \subseteq Sessions
  BY <1>1 DEF CheckIdle, IdleTypes
<1>5. IdleTypes'
  BY <1>1, <1>2, <1>3, <1>4 DEF IdleTypes
<1>6. AlwaysWatched'
  <2> SUFFICES ASSUME NEW q \in Sessions, q \notin aborted \cup intakeOff
               PROVE  timer'[q] # NoTimer \/ q \in idleClosed'
    BY <1>1 DEF AlwaysWatched
  <2>1. timer[q] # NoTimer \/ q \in idleClosed
    BY DEF IndInv, AlwaysWatched
  <2>2. CASE q = s
    BY <1>1, <1>3, <2>2 DEF IndInv, EndedSessionsAreOff, IdleTypes
  <2>3. CASE q # s
    <3>1. timer'[q] = timer[q]
      BY <1>1, <1>3, <2>3 DEF IdleTypes
    <3> QED  BY <1>4, <2>1, <3>1
  <2> QED  BY <2>2, <2>3
<1>7. QuietAtLeastAge'
  <2> SUFFICES ASSUME NEW q \in Sessions, q \notin finalized, Of(q, tracked) = {}
               PROVE  age'[q] <= quiet[q]
    BY <1>1 DEF QuietAtLeastAge, Of
  <2>1. age[q] <= quiet[q]
    BY DEF IndInv, QuietAtLeastAge
  <2>2. age'[q] = age[q] \/ age'[q] = 0
    BY <1>1, <1>2 DEF IdleTypes
  <2>3. quiet[q] \in Nat
    BY <1>1 DEF IdleTypes
  <2> QED  BY <2>1, <2>2, <2>3
<1> QED  BY <1>5, <1>6, <1>7

\* Time passes.
LEMMA TickKeeps ==
    ASSUME IndInv, Tick
    PROVE  IdleTypes' /\ AlwaysWatched' /\ QuietAtLeastAge'
<1>1. /\ age' = [s \in Sessions |-> Min({age[s] + 1, IdleTimeout})]
      /\ timer' = [s \in Sessions |-> IF timer[s] > 0 THEN timer[s] - 1 ELSE timer[s]]
      /\ quiet' = [s \in Sessions |-> IF Of(s, tracked) # {} THEN 0 ELSE Min({quiet[s] + 1, IdleTimeout})]
      /\ tracked' = tracked /\ aborted' = aborted /\ intakeOff' = intakeOff
      /\ finalized' = finalized /\ idleClosed' = idleClosed
  BY DEF Tick, streamVars, sessionVars
<1>2. IdleTypes /\ IdleTimeout \in Nat /\ 0 \in 0..IdleTimeout
  BY TrackingLimits DEF IndInv, TypeOK, IdleTypes
<1>3. ASSUME NEW s \in Sessions
      PROVE  /\ age[s] \in 0..IdleTimeout /\ quiet[s] \in 0..IdleTimeout
             /\ age'[s] = (IF age[s] < IdleTimeout THEN age[s] + 1 ELSE IdleTimeout)
             /\ quiet'[s] = (IF Of(s, tracked) # {} THEN 0
                             ELSE IF quiet[s] < IdleTimeout THEN quiet[s] + 1 ELSE IdleTimeout)
             /\ timer'[s] = (IF timer[s] > 0 THEN timer[s] - 1 ELSE timer[s])
             /\ timer[s] \in {NoTimer} \cup 0..IdleTimeout
  <2>1. age[s] \in 0..IdleTimeout /\ quiet[s] \in 0..IdleTimeout /\ timer[s] \in {NoTimer} \cup 0..IdleTimeout
    BY <1>2 DEF IdleTypes
  <2>2. Min({age[s] + 1, IdleTimeout}) = IF age[s] < IdleTimeout THEN age[s] + 1 ELSE IdleTimeout
    BY <2>1, CappedStep
  <2>3. Min({quiet[s] + 1, IdleTimeout}) = IF quiet[s] < IdleTimeout THEN quiet[s] + 1 ELSE IdleTimeout
    BY <2>1, CappedStep
  <2> QED  BY <1>1, <2>1, <2>2, <2>3
<1>4. ASSUME NEW s \in Sessions
      PROVE  /\ age'[s] \in 0..IdleTimeout /\ quiet'[s] \in 0..IdleTimeout
             /\ timer'[s] \in {NoTimer} \cup 0..IdleTimeout /\ (timer[s] # NoTimer => timer'[s] # NoTimer)
  <2>1. age'[s] \in 0..IdleTimeout /\ quiet'[s] \in 0..IdleTimeout
    BY <1>2, <1>3
  <2>2. timer'[s] \in {NoTimer} \cup 0..IdleTimeout /\ (timer[s] # NoTimer => timer'[s] # NoTimer)
    BY <1>2, <1>3 DEF NoTimer
  <2> QED  BY <2>1, <2>2
<1>5. IdleTypes'
  <2>1. idleClosed' \subseteq Sessions
    BY <1>1, <1>2 DEF IdleTypes
  <2>2. /\ age' \in [Sessions -> 0..IdleTimeout] /\ quiet' \in [Sessions -> 0..IdleTimeout]
        /\ timer' \in [Sessions -> {NoTimer} \cup 0..IdleTimeout]
    BY <1>1, <1>4
  <2> QED  BY <2>1, <2>2 DEF IdleTypes
<1>6. AlwaysWatched'
  BY <1>1, <1>4 DEF IndInv, AlwaysWatched
<1>7. QuietAtLeastAge'
  <2> SUFFICES ASSUME NEW s \in Sessions, s \notin finalized, Of(s, tracked) = {}
               PROVE  age'[s] <= quiet'[s]
    BY <1>1 DEF QuietAtLeastAge, Of
  <2>1. age[s] <= quiet[s]
    BY DEF IndInv, QuietAtLeastAge
  <2> QED  BY <1>2, <1>3, <2>1
<1> QED  BY <1>5, <1>6, <1>7

-----------------------------------------------------------------------------
(* Stop and abort *)

\* Stopping the intake waits only if streams are open.
LEMMA StopIntakeKeeps ==
    ASSUME IndInv, NEW s \in Sessions, StopIntake(s)
    PROVE  IndInv'
<1>1. /\ intakeOff' = intakeOff \cup {s}
      /\ waiters' = IF HasStreams(s) THEN waiters \cup {s} ELSE waiters
      /\ UNCHANGED <<pump, unread, ended, tracked, activeStreams, streamCount, aborted, finalized, idleVars>>
  BY DEF StopIntake, MustWait
<1>2. StreamsExact'
  BY <1>1, CountsStay DEF IndInv
<1>3. TypeOK'
  BY <1>1 DEF IndInv, TypeOK, idleVars
<1>4. HasStreams(s) <=> Of(s, tracked) # {}
  BY CountersTellStreams DEF IndInv, TypeOK
<1>5. NoWaitForNothing'
  BY <1>1, <1>4 DEF IndInv, NoWaitForNothing, Of
<1>6. /\ NothingOutlivesItsSignal' /\ UnreadIsNotTracked' /\ EndedSessionsAreOff'
      /\ AlwaysWatched' /\ QuietAtLeastAge'
  BY <1>1 DEF IndInv, NothingOutlivesItsSignal, UnreadIsNotTracked, EndedSessionsAreOff,
              AlwaysWatched, QuietAtLeastAge, Of, idleVars
<1> QED  BY <1>2, <1>3, <1>5, <1>6 DEF IndInv

\* Finalization stops the timer of a session that it marks.
LEMMA StopFinalizesKeeps ==
    ASSUME IndInv, NEW s \in Sessions, StopFinalizes(s)
    PROVE  IndInv'
<1>1. /\ finalized' = finalized \cup {s} /\ intakeOff' = intakeOff \cup {s}
      /\ waiters' = waiters \ {s} /\ timer' = [timer EXCEPT ![s] = NoTimer]
      /\ UNCHANGED <<pump, unread, ended, tracked, activeStreams, streamCount, aborted, age, idleClosed, quiet>>
  BY DEF StopFinalizes, Finalize
<1>2. StreamsExact'
  BY <1>1, CountsStay DEF IndInv
<1>3. TypeOK'
  BY <1>1 DEF IndInv, TypeOK
<1>4. NoWaitForNothing' /\ NothingOutlivesItsSignal' /\ UnreadIsNotTracked' /\ EndedSessionsAreOff'
  BY <1>1 DEF IndInv, NoWaitForNothing, NothingOutlivesItsSignal, UnreadIsNotTracked,
              EndedSessionsAreOff, Of
<1>5. AlwaysWatched' /\ QuietAtLeastAge'
  BY <1>1 DEF IndInv, TypeOK, AlwaysWatched, QuietAtLeastAge, Of
<1> QED  BY <1>2, <1>3, <1>4, <1>5 DEF IndInv

\* The session's end aborts all its streams, and releases each once.
LEMMA SessionAbortsKeeps ==
    ASSUME IndInv, NEW s \in Sessions, SessionAborts(s)
    PROVE  IndInv'
<1> DEFINE gone == Of(s, tracked)
<1>1. /\ aborted' = aborted \cup {s} /\ finalized' = finalized \cup {s} /\ intakeOff' = intakeOff \cup {s}
      /\ tracked' = tracked \ gone
      /\ activeStreams' = activeStreams - Cardinality(gone)
      /\ streamCount' = [p \in Sessions \X Kinds |->
                           streamCount[p] - Cardinality(OfKind(p[1], p[2], gone))]
      /\ waiters' = waiters \ {s} /\ timer' = [timer EXCEPT ![s] = NoTimer]
      /\ UNCHANGED <<pump, unread, ended, age, idleClosed, quiet>>
  BY DEF SessionAborts, Finalize, ReleasedByAbort
<1>2. gone \subseteq tracked /\ \A q \in Sessions : q # s => Of(q, tracked \ gone) = Of(q, tracked)
  BY DEF Of
<1>3. \A x \in tracked \ gone : SessionOf[x] # s
  BY DEF Of
<1> HIDE DEF gone
<1>4. TypeOK /\ StreamsExact
  BY DEF IndInv
<1>5. /\ activeStreams - Cardinality(gone) = Cardinality(tracked \ gone)
      /\ activeStreams - Cardinality(gone) \in 0..Cardinality(Streams)
      /\ activeStreams - Cardinality(gone) <= MaxStreams
      /\ \A q \in Sessions, k \in Kinds :
            /\ streamCount[<<q, k>>] - Cardinality(OfKind(q, k, gone))
                 = Cardinality(OfKind(q, k, tracked \ gone))
            /\ streamCount[<<q, k>>] - Cardinality(OfKind(q, k, gone)) \in 0..Cardinality(Streams)
            /\ streamCount[<<q, k>>] - Cardinality(OfKind(q, k, gone)) <= MaxOfKind[k]
  BY <1>2, <1>4, ReleaseKeepsCounts
<1>6. \A q \in Sessions, k \in Kinds :
         streamCount'[<<q, k>>] = streamCount[<<q, k>>] - Cardinality(OfKind(q, k, gone))
  BY <1>1
<1>7. StreamsExact'
  <2>1. \A q \in Sessions, k \in Kinds : OfKind(q, k, tracked)' = OfKind(q, k, tracked \ gone)
    BY <1>1 DEF OfKind
  <2>2. \A q \in Sessions, k \in Kinds :
           /\ streamCount'[<<q, k>>] = Cardinality(OfKind(q, k, tracked)')
           /\ streamCount'[<<q, k>>] <= MaxOfKind[k]
    BY <1>5, <1>6, <2>1
  <2> QED  BY <1>1, <1>5, <2>2 DEF StreamsExact, OfKind
<1>8. TypeOK'
  <2>1. streamCount' \in [Sessions \X Kinds -> 0..Cardinality(Streams)]
    BY <1>1, <1>5
  <2> QED  BY <1>1, <1>4, <1>5, <2>1 DEF TypeOK
<1>9. NoWaitForNothing'
  <2> SUFFICES ASSUME NEW q \in waiters, q # s
               PROVE  Of(q, tracked \ gone) # {}
    BY <1>1 DEF NoWaitForNothing, Of
  <2> QED  BY <1>2, <1>4 DEF IndInv, NoWaitForNothing, TypeOK
<1>10. NothingOutlivesItsSignal' /\ UnreadIsNotTracked' /\ EndedSessionsAreOff'
  BY <1>1, <1>3 DEF IndInv, NothingOutlivesItsSignal, UnreadIsNotTracked, EndedSessionsAreOff
<1>11. AlwaysWatched'
  BY <1>1 DEF IndInv, TypeOK, AlwaysWatched
<1>12. QuietAtLeastAge'
  <2> SUFFICES ASSUME NEW q \in Sessions, q \notin finalized, q # s, Of(q, tracked \ gone) = {}
               PROVE  age[q] <= quiet[q]
    BY <1>1 DEF QuietAtLeastAge, Of
  <2> QED  BY <1>2 DEF IndInv, QuietAtLeastAge
<1> QED  BY <1>7, <1>8, <1>9, <1>10, <1>11, <1>12 DEF IndInv

-----------------------------------------------------------------------------
(* The pumps *)

\* A pump tracks a stream only below the ceilings.
LEMMA PumpStepKeeps ==
    ASSUME IndInv, NEW s \in Sessions, NEW k \in Kinds, PumpStep(s, k)
    PROVE  IndInv'
<1>1. TypeOK
  BY DEF IndInv
<1>2. ASSUME \E where \in PumpPlaces : GoTo(s, k, where), UNCHANGED <<streamVars, sessionVars, idleVars>>
      PROVE  IndInv'
  <2>1. pump' \in [Sessions \X Kinds -> PumpPlaces]
    BY <1>1, <1>2, GoToKeepsType
  <2>2. UNCHANGED <<idleVars, sessionVars, tracked>> /\ UNCHANGED <<streamVars, sessionVars>>
    BY <1>2 DEF streamVars
  <2>3. IdleTypes' /\ AlwaysWatched' /\ QuietAtLeastAge'
    BY <2>2, IdleUntouched
  <2> QED  BY <2>1, <2>2, <2>3, StreamsUntouched
<1>3. CASE PumpResumes(s, k)
  BY <1>2, <1>3 DEF PumpResumes, PumpPlaces
<1>4. CASE PumpSettles(s, k)
  BY <1>2, <1>4 DEF PumpSettles, PumpPlaces
<1>5. CASE PumpReadEnds(s, k)
  BY <1>2, <1>5 DEF PumpReadEnds, PumpPlaces
<1>6. ASSUME NEW x \in Streams, PumpReadsTooLate(s, k, x)
      PROVE  IndInv'
  <2>1. /\ x \in unread /\ unread' = unread \ {x} /\ ended' = ended \cup {x}
        /\ GoTo(s, k, "leaving") /\ "leaving" \in PumpPlaces
        /\ UNCHANGED <<tracked, activeStreams, streamCount, sessionVars>> /\ waiters' \subseteq waiters
        /\ UNCHANGED <<idleVars, sessionVars, tracked>>
    BY <1>6 DEF PumpReadsTooLate, OfKind, PumpPlaces
  <2>2. pump' \in [Sessions \X Kinds -> PumpPlaces]
    BY <1>1, <2>1, GoToKeepsType
  <2>3. IdleTypes' /\ AlwaysWatched' /\ QuietAtLeastAge'
    BY <2>1, IdleUntouched
  <2> QED  BY <2>1, <2>2, <2>3, TurnedAway
<1>7. ASSUME NEW x \in Streams, NEW where \in PumpPlaces,
             x \in OfKind(s, k, unread), unread' = unread \ {x}, ended' = ended \cup {x}, Touch({s}),
             waiters' \subseteq waiters, GoTo(s, k, where),
             UNCHANGED <<tracked, activeStreams, streamCount, sessionVars>>
      PROVE  IndInv'
  <2>1. x \in unread /\ UNCHANGED <<sessionVars, tracked>>
    BY <1>7 DEF OfKind
  <2>2. pump' \in [Sessions \X Kinds -> PumpPlaces]
    BY <1>1, <1>7, GoToKeepsType
  <2>3. IdleTypes' /\ AlwaysWatched' /\ QuietAtLeastAge'
    BY <1>7, <2>1, TouchedUntracked
  <2> QED  BY <1>7, <2>1, <2>2, <2>3, TurnedAway
<1>8. ASSUME NEW x \in Streams, PumpRefuses(s, k, x)
      PROVE  IndInv'
  <2>1. /\ x \in OfKind(s, k, unread) /\ unread' = unread \ {x} /\ ended' = ended \cup {x} /\ Touch({s})
        /\ waiters' \subseteq waiters /\ GoTo(s, k, "refusing") /\ "refusing" \in PumpPlaces
        /\ UNCHANGED <<tracked, activeStreams, streamCount, sessionVars>>
    BY <1>8 DEF PumpRefuses, PumpPlaces
  <2> QED  BY <1>7, <2>1
<1>9. ASSUME NEW x \in Streams, NEW where \in PumpPlaces,
             x \in OfKind(s, k, unread), s \notin intakeOff \cup aborted, WithinLimits(s, k),
             TrackStream(s, k, x), GoTo(s, k, where), UNCHANGED <<ended, sessionVars>>
      PROVE  IndInv'
  <2>1. pump' \in [Sessions \X Kinds -> PumpPlaces]
    BY <1>1, <1>9, GoToKeepsType
  <2> QED  BY <1>9, <2>1, TrackStreamKeeps
<1>10. ASSUME NEW x \in Streams, PumpTracks(s, k, x)
       PROVE  IndInv'
  BY <1>9, <1>10 DEF PumpTracks, PumpPlaces
<1>11. ASSUME NEW x \in Streams, PumpRejects(s, k, x)
       PROVE  IndInv'
  <2>1. /\ x \in OfKind(s, k, unread) /\ s \notin intakeOff \cup aborted /\ WithinLimits(s, k)
        /\ GoTo(s, k, "rejecting") /\ "rejecting" \in PumpPlaces /\ UNCHANGED sessionVars
    BY <1>11 DEF PumpRejects, PumpPlaces
  <2>2. CASE TrackStream(s, k, x) /\ UNCHANGED ended
    <3>1. UNCHANGED <<ended, sessionVars>>
      BY <2>1, <2>2
    <3> QED  BY <1>9, <2>1, <2>2, <3>1
  <2>3. CASE /\ unread' = unread \ {x} /\ ended' = ended \cup {x} /\ Touch({s})
             /\ waiters' = (IF HasStreams(s) THEN waiters ELSE waiters \ {s})
             /\ UNCHANGED <<tracked, activeStreams, streamCount>>
    <3>1. waiters' \subseteq waiters /\ UNCHANGED <<tracked, activeStreams, streamCount, sessionVars>>
      BY <2>1, <2>3
    <3> QED  BY <1>7, <2>1, <2>3, <3>1
  <2> QED  BY <1>11, <2>2, <2>3 DEF PumpRejects
<1> QED  BY <1>3, <1>4, <1>5, <1>6, <1>8, <1>10, <1>11 DEF PumpStep

-----------------------------------------------------------------------------
(* The theorems *)

\* No stream is open before the first session.
LEMMA InitInv == Init => IndInv
<1> SUFFICES ASSUME Init PROVE IndInv
  OBVIOUS
<1> USE DEF Init
<1>1. Cardinality({}) = 0 /\ Cardinality(Streams) \in Nat /\ IdleTimeout \in Nat /\ IdleTimeout # NoTimer
  BY FS_EmptySet, StreamSetsFinite, TrackingLimits DEF NoTimer
<1>2. \A s \in Sessions : Of(s, tracked) = {} /\ \A k \in Kinds : OfKind(s, k, tracked) = {}
  BY DEF Of, OfKind
<1>3. TypeOK
  BY <1>1 DEF TypeOK
<1>4. StreamsExact
  <2>1. activeStreams = Cardinality(tracked) /\ activeStreams <= MaxStreams
    BY <1>1, TrackingLimits
  <2>2. ASSUME NEW s \in Sessions, NEW k \in Kinds
        PROVE  /\ streamCount[<<s, k>>] = Cardinality(OfKind(s, k, tracked))
               /\ streamCount[<<s, k>>] <= MaxOfKind[k]
    <3>1. streamCount[<<s, k>>] = 0
      OBVIOUS
    <3>2. MaxOfKind[k] \in Nat
      BY TrackingLimits
    <3>3. OfKind(s, k, tracked) = {}
      BY <1>2
    <3>4. Cardinality(OfKind(s, k, tracked)) = 0
      BY ONLY <1>1, <3>3
    <3> HIDE DEF Init
    <3> QED  BY <3>1, <3>2, <3>4
  <2> QED  BY <2>1, <2>2 DEF StreamsExact
<1>5. NoWaitForNothing /\ NothingOutlivesItsSignal /\ UnreadIsNotTracked /\ EndedSessionsAreOff
  BY DEF NoWaitForNothing, NothingOutlivesItsSignal, UnreadIsNotTracked, EndedSessionsAreOff
<1>6. AlwaysWatched /\ QuietAtLeastAge
  BY <1>1 DEF AlwaysWatched, QuietAtLeastAge
<1> QED  BY <1>3, <1>4, <1>5, <1>6 DEF IndInv

\* A step of the idle timer alone.
LEMMA IdleStepKeeps ==
    ASSUME IndInv, UNCHANGED <<pump, streamVars, sessionVars>>,
           IdleTypes', AlwaysWatched', QuietAtLeastAge'
    PROVE  IndInv'
<1>1. pump' \in [Sessions \X Kinds -> PumpPlaces] /\ UNCHANGED <<streamVars, sessionVars>>
  BY DEF IndInv, TypeOK, PumpPlaces
<1> QED  BY <1>1, StreamsUntouched

\* Every step keeps the invariant.
LEMMA NextKeepsInv == IndInv /\ [Next]_vars => IndInv'
<1> SUFFICES ASSUME IndInv, [Next]_vars PROVE IndInv'
  OBVIOUS
<1>1. ASSUME NEW s \in Sessions, Activity(s) PROVE IndInv'
  <2>1. /\ Touch({s}) /\ UNCHANGED <<sessionVars, tracked>>
        /\ UNCHANGED <<pump, streamVars, sessionVars>>
    BY <1>1 DEF Activity, streamVars
  <2>2. IdleTypes' /\ AlwaysWatched' /\ QuietAtLeastAge'
    BY <2>1, TouchedUntracked
  <2> QED  BY <2>1, <2>2, IdleStepKeeps
<1>2. ASSUME NEW s \in Sessions, IdleTimerFires(s) PROVE IndInv'
  <2>1. /\ CheckIdle(s) /\ UNCHANGED <<streamVars, sessionVars, quiet>>
        /\ UNCHANGED <<pump, streamVars, sessionVars>>
    BY <1>2 DEF IdleTimerFires
  <2>2. IdleTypes' /\ AlwaysWatched' /\ QuietAtLeastAge'
    BY <2>1, CheckIdleKeeps
  <2> QED  BY <2>1, <2>2, IdleStepKeeps
<1>3. ASSUME NEW s \in Sessions, StopIntake(s) PROVE IndInv'
  BY <1>3, StopIntakeKeeps
<1>4. ASSUME NEW s \in Sessions, StopFinalizes(s) PROVE IndInv'
  BY <1>4, StopFinalizesKeeps
<1>5. ASSUME NEW s \in Sessions, SessionAborts(s) PROVE IndInv'
  BY <1>5, SessionAbortsKeeps
<1>6. ASSUME NEW s \in Sessions, NEW k \in Kinds, PumpStep(s, k) PROVE IndInv'
  BY <1>6, PumpStepKeeps
<1>7. ASSUME NEW x \in Streams, StreamEnds(x) \/ LifetimeExpires(x) PROVE IndInv'
  <2>1. StreamEnds(x)
    BY <1>7 DEF LifetimeExpires
  <2> QED  BY <2>1, StreamEndsKeeps
<1>8. CASE Tick
  <2>1. UNCHANGED <<pump, streamVars, sessionVars>>
    BY <1>8 DEF Tick
  <2>2. IdleTypes' /\ AlwaysWatched' /\ QuietAtLeastAge'
    BY <1>8, TickKeeps
  <2> QED  BY <2>1, <2>2, IdleStepKeeps
<1>9. CASE UNCHANGED vars
  <2>1. UNCHANGED <<pump, streamVars, sessionVars>> /\ UNCHANGED <<idleVars, sessionVars, tracked>>
    BY <1>9 DEF vars, streamVars
  <2>2. IdleTypes' /\ AlwaysWatched' /\ QuietAtLeastAge'
    BY <2>1, IdleUntouched
  <2> QED  BY <2>1, <2>2, IdleStepKeeps
<1> QED  BY <1>1, <1>2, <1>3, <1>4, <1>5, <1>6, <1>7, <1>8, <1>9 DEF Next

\* The invariant that the theorems below rest on.
THEOREM TrackingInvariant == Spec => []IndInv
<1> QED  BY InitInv, NextKeepsInv, PTL DEF Spec

\* The stream counters of the server and of every session are the open streams
\* and stay within the limits, nobody waits for a session without streams, no
\* stream outlives its signal or that of its session, and a served session is
\* watched by its idle timer: trackStream(), release() and touch().
THEOREM TrackingIsExact == Spec => []TrackingExact
<1>1. IndInv => TrackingExact
  BY DEF IndInv, TrackingExact
<1> QED  BY <1>1, TrackingInvariant, PTL

\* checkIdle() closes a session only after a full timeout without activity and
\* without an open stream, whatever the order of timers, streams and activity.
THEOREM IdleCloseIsJustified == Spec => IdleCloseJustified
<1> DEFINE Justified == \A s \in idleClosed' \ idleClosed : quiet[s] = IdleTimeout
<1>1. IndInv /\ [Next]_vars => [Justified]_vars
  <2> SUFFICES ASSUME IndInv, Next, NEW s \in idleClosed' \ idleClosed
               PROVE  quiet[s] = IdleTimeout
    OBVIOUS
  <2>1. \A x : ~(StreamEnds(x) \/ LifetimeExpires(x))
    BY DEF LifetimeExpires, StreamEnds, Release, LastStreamEnded, Touch
  <2>2. \A q, k : ~PumpStep(q, k)
    BY DEF PumpStep, PumpResumes, PumpSettles, PumpReadEnds, PumpReadsTooLate, PumpRefuses, PumpTracks,
           PumpRejects, TrackStream, Touch, idleVars
  <2>3. \A q : ~(Activity(q) \/ StopIntake(q) \/ StopFinalizes(q) \/ SessionAborts(q)) /\ ~Tick
    BY DEF Activity, Touch, StopIntake, StopFinalizes, SessionAborts, Tick, idleVars
  <2>4. PICK q \in Sessions : IdleTimerFires(q)
    BY <2>1, <2>2, <2>3 DEF Next
  <2>5. /\ q = s /\ s \notin finalized /\ ~HasStreams(s) /\ ~(age[s] < IdleTimeout)
    BY <2>4 DEF IdleTimerFires, CheckIdle, Rearm
  <2>6. Of(s, tracked) = {}
    BY <2>4, <2>5, CountersTellStreams DEF IndInv, TypeOK
  <2>7. age[s] <= quiet[s] /\ age[s] \in 0..IdleTimeout /\ quiet[s] \in 0..IdleTimeout
    BY <2>4, <2>5, <2>6 DEF IndInv, QuietAtLeastAge, TypeOK
  <2> QED  BY <2>5, <2>7, TrackingLimits
<1> QED  BY <1>1, TrackingInvariant, PTL DEF Spec, IdleCloseJustified
=============================================================================
