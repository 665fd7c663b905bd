------------------------ MODULE SessionAdmissionProofs -------------------------
(***************************************************************************)
(* Theorems about admission and retirement, for any number of sessions,    *)
(* ids, addresses and limits: what a session holds is charged exactly, the *)
(* registry is what stop() needs, and nothing is brought to life by a      *)
(* server or a session that was told to stop.                              *)
(***************************************************************************)
EXTENDS SessionAdmission, FiniteSetTheorems, TLAPS

\* A task is started or queued, and the scheduler of a session keeps its limits.
TasksExact ==
    /\ active \cap queued = {}
    /\ \A s \in Sessions : /\ Cardinality(Of(s, active)) <= MaxConcurrentHandlers
                           /\ Cardinality(Of(s, queued)) <= MaxPendingHandlers

\* A session that acceptSession() has not seen has no part in the server yet.
NewIsUntouched ==
    \A s \in Sessions : pc[s] = "new" => work[s] = "none" /\ s \notin outstanding \cup finalized

\* A session that is being admitted is outstanding, or was finalized meanwhile.
AdmittingIsKnown == \A s \in Sessions : pc[s] = "admitting" => s \in outstanding \cup finalized

\* A finalized session takes nothing new, has nothing queued, and all that it
\* still does is waited for before it retires.
FinalizedIsWaitedFor ==
    /\ finalized \subseteq intakeOff
    /\ \A s \in finalized : Of(s, queued) = {} /\ Live(s) \subseteq awaits[s]

\* A server that does not run takes nothing from the sessions it still has.
DownIsOff == lifecycle # "RUNNING" => outstanding \subseteq intakeOff

IndInv ==
    /\ ChargesExact /\ RegistryKept
    /\ TasksExact /\ NewIsUntouched /\ AdmittingIsKnown /\ FinalizedIsWaitedFor /\ DownIsOff

-----------------------------------------------------------------------------
(* Finite sets of sessions and tasks *)

\* Sets of tasks can be counted.
LEMMA TaskSetsFinite ==
    ASSUME NEW T, T \subseteq Tasks
    PROVE  IsFiniteSet(T) /\ Cardinality(T) \in Nat
<1>1. MaxConcurrentHandlers + MaxPendingHandlers \in Nat
  BY AdmissionLimits
<1>2. IsFiniteSet(1..MaxConcurrentHandlers + MaxPendingHandlers)
  BY <1>1, FS_Interval
<1>3. IsFiniteSet(Tasks)
  BY <1>2, FS_Product, AdmissionSessions DEF Tasks
<1> QED  BY <1>3, FS_Subset, FS_CardinalityType

\* One more element makes a set larger by at most one.
LEMMA AtMostOneMore ==
    ASSUME NEW S, NEW x, IsFiniteSet(S)
    PROVE  Cardinality(S \cup {x}) \in Nat /\ Cardinality(S \cup {x}) <= Cardinality(S) + 1
<1>1. Cardinality(S) \in Nat /\ Cardinality(S \cup {x}) \in Nat
  BY FS_AddElement, FS_CardinalityType
<1>2. Cardinality(S \cup {x}) = Cardinality(S) \/ Cardinality(S \cup {x}) = Cardinality(S) + 1
  BY FS_AddElement
<1> QED  BY <1>1, <1>2

\* Sets of sessions can be counted.
LEMMA SessionSetsFinite ==
    ASSUME NEW S, S \subseteq Sessions
    PROVE  IsFiniteSet(S) /\ Cardinality(S) \in Nat
BY AdmissionSessions, FS_Subset, FS_CardinalityType

\* While the scheduler of s is not full, there is a task that is neither started
\* nor queued.
LEMMA FreshTaskIsFresh ==
    ASSUME TypeOK, TasksExact, NEW s \in Sessions,
           \/ Cardinality(Of(s, active)) < MaxConcurrentHandlers
           \/ Cardinality(Of(s, queued)) < MaxPendingHandlers
    PROVE  FreshTask(s) \in Tasks /\ FreshTask(s)[1] = s /\ FreshTask(s) \notin active \cup queued
<1> DEFINE n == MaxConcurrentHandlers + MaxPendingHandlers
<1> DEFINE A == Of(s, active)
<1> DEFINE Q == Of(s, queued)
<1>1. n \in Nat /\ MaxConcurrentHandlers \in Nat /\ MaxPendingHandlers \in Nat
  BY AdmissionLimits
<1>2. Of(s, Tasks) = {s} \X (1..n)
  <2>1. ASSUME NEW t \in Of(s, Tasks)
        PROVE  t \in {s} \X (1..n)
    BY DEF Of, Tasks
  <2>2. ASSUME NEW t \in {s} \X (1..n)
        PROVE  t \in Of(s, Tasks)
    BY DEF Of, Tasks
  <2> QED  BY <2>1, <2>2
<1>3. IsFiniteSet({s}) /\ Cardinality({s}) = 1
  BY FS_Singleton
<1>4. IsFiniteSet(1..n) /\ Cardinality(1..n) = n
  BY <1>1, FS_Interval
<1>5. Cardinality(Of(s, Tasks)) = n
  <2>1. Cardinality({s} \X (1..n)) = Cardinality({s}) * Cardinality(1..n)
    BY <1>3, <1>4, FS_Product
  <2>2. Cardinality(Of(s, Tasks)) = 1 * n
    BY <1>2, <1>3, <1>4, <2>1
  <2> HIDE DEF n
  <2> QED  BY <1>1, <2>2
<1>6. A \subseteq Tasks /\ Q \subseteq Tasks /\ A \cup Q \subseteq Of(s, Tasks) /\ Of(s, Tasks) \subseteq Tasks
  BY DEF TypeOK, Of
<1>7. IsFiniteSet(A) /\ Cardinality(A) \in Nat /\ IsFiniteSet(Q) /\ Cardinality(Q) \in Nat
  BY <1>6, TaskSetsFinite
<1>8. Cardinality(A) + Cardinality(Q) < n
  <2>1. Cardinality(A) <= MaxConcurrentHandlers /\ Cardinality(Q) <= MaxPendingHandlers
    BY DEF TasksExact
  <2>2. Cardinality(A) < MaxConcurrentHandlers \/ Cardinality(Q) < MaxPendingHandlers
    OBVIOUS
  <2> HIDE DEF A, Q
  <2> QED  BY <1>1, <1>7, <2>1, <2>2
<1>9. Cardinality(A \cap Q) \in Nat /\ Cardinality(A \cup Q) = Cardinality(A) + Cardinality(Q) - Cardinality(A \cap Q)
  <2>1. A \cap Q \subseteq Tasks
    BY <1>6
  <2> HIDE DEF A, Q
  <2> QED  BY <1>7, <2>1, FS_Union, TaskSetsFinite
<1>10. A \cup Q # Of(s, Tasks)
  <2>1. Cardinality(A \cup Q) < n
    <3> HIDE DEF A, Q
    <3> QED  BY <1>1, <1>7, <1>8, <1>9
  <2>2. SUFFICES ASSUME A \cup Q = Of(s, Tasks)
                 PROVE  FALSE
    OBVIOUS
  <2>3. Cardinality(A \cup Q) = n
    BY <1>5, <2>2
  <2> HIDE DEF n
  <2> QED  BY <1>1, <2>1, <2>3
<1>11. \E t \in Of(s, Tasks) : t \notin active \cup queued
  BY <1>6, <1>10 DEF Of
<1>12. FreshTask(s) \in Of(s, Tasks) /\ FreshTask(s) \notin active \cup queued
  BY <1>11 DEF FreshTask
<1> QED  BY <1>12 DEF Of

\* Taking the queued tasks of some sessions out leaves as many as the budget then
\* counts.
LEMMA DiscardCounts ==
    ASSUME TypeOK, ReservationsExact, TasksExact, NEW S \in SUBSET Sessions,
           Discard(S), UNCHANGED <<work, active>>
    PROVE  /\ ReservationsExact' /\ TasksExact'
           /\ reserved' \in 0..HandlerLimit /\ queued' \subseteq queued
           /\ \A s \in S : Of(s, queued)' = {}
<1> DEFINE gone == OfAny(S, queued)
<1>1. queued' = queued \ gone /\ reserved' = reserved - Cardinality(gone) /\ gone \subseteq queued
  BY DEF Discard, OfAny
<1>2. active \cup queued \subseteq Tasks /\ queued' \subseteq queued /\ active \cup queued' = (active \cup queued) \ gone
  BY <1>1 DEF TypeOK, TasksExact
<1>3. Admitting' = Admitting /\ Cardinality(Admitting) \in Nat
  BY SessionSetsFinite DEF Admitting
<1>4. /\ IsFiniteSet(active \cup queued) /\ Cardinality(active \cup queued) \in Nat
      /\ Cardinality(gone) \in Nat /\ Cardinality(active \cup queued') \in Nat
  BY <1>1, <1>2, TaskSetsFinite
<1>5. Cardinality(active \cup queued') = Cardinality(active \cup queued) - Cardinality(gone)
  <2>1. (active \cup queued) \cap gone = gone
    BY <1>1
  <2> HIDE DEF gone
  <2> QED  BY <1>2, <1>4, <2>1, FS_Difference
<1>6. ReservationsExact'
  BY <1>1, <1>3, <1>4, <1>5 DEF ReservationsExact
<1>7. reserved' \in 0..HandlerLimit
  BY <1>1, <1>3, <1>4, <1>6, AdmissionLimits DEF ReservationsExact, TypeOK
<1>8. ASSUME NEW s \in Sessions
      PROVE  Cardinality(Of(s, queued')) <= MaxPendingHandlers
  <2>1. Of(s, queued') \subseteq Of(s, queued) /\ Of(s, queued) \subseteq Tasks /\ Of(s, queued') \subseteq Tasks
    BY <1>2 DEF Of
  <2>2. /\ IsFiniteSet(Of(s, queued)) /\ Cardinality(Of(s, queued)) \in Nat
        /\ Cardinality(Of(s, queued')) \in Nat
    BY <2>1, TaskSetsFinite
  <2>3. Cardinality(Of(s, queued')) <= Cardinality(Of(s, queued))
    BY <2>1, <2>2, FS_Subset
  <2> QED  BY <2>2, <2>3, AdmissionLimits DEF TasksExact
<1>9. TasksExact'
  BY <1>1, <1>8 DEF TasksExact, Of
<1>10. \A s \in S : Of(s, queued)' = {}
  BY <1>1 DEF Of, OfAny
<1> QED  BY <1>2, <1>6, <1>7, <1>9, <1>10

\* Finalizing registered sessions, or one that is being registered right now,
\* keeps the charges and the registry, and what each session waits for.
LEMMA FinalizeKeeps ==
    ASSUME IndInv, NEW S \in SUBSET Sessions, Finalize(S),
           \A s \in S : s \in outstanding \/ sessions[IdOf[s]] = NoSession,
           UNCHANGED <<work, active, pumps>>, outstanding' = outstanding \cup S
    PROVE  /\ cancelled' \subseteq Sessions /\ intakeOff' \subseteq Sessions /\ intakeOff \subseteq intakeOff'
           /\ finalized' = finalized \cup S /\ S \subseteq intakeOff'
           /\ sessions' \in [Ids -> Sessions \cup {NoSession}]
           /\ queued' \subseteq queued /\ reserved' \in 0..HandlerLimit
           /\ awaits' \in [Sessions -> SUBSET (Pumps \cup {"admission", "handlers"})]
           /\ ReservationsExact' /\ WorkStaysCharged' /\ RegistryExact'
           /\ TasksExact' /\ FinalizedIsWaitedFor'
           /\ \A s \in S : Of(s, queued)' = {}
<1> DEFINE new == S \ finalized
<1>1. /\ finalized' = finalized \cup new /\ intakeOff' = intakeOff \cup new /\ cancelled' = cancelled \cup new
      /\ Discard(new)
      /\ sessions' = [i \in Ids |-> IF \E s \in new : IdOf[s] = i THEN NoSession ELSE sessions[i]]
      /\ awaits' = [s \in Sessions |-> IF s \in new THEN Awaited(s) ELSE awaits[s]]
  BY DEF Finalize
<1>2. TypeOK /\ SlotsExact /\ ReservationsExact /\ WorkStaysCharged /\ RegistryExact /\ TasksExact /\ FinalizedIsWaitedFor
  BY DEF IndInv, ChargesExact, RegistryKept
<1>3. /\ ReservationsExact' /\ TasksExact' /\ reserved' \in 0..HandlerLimit /\ queued' \subseteq queued
      /\ \A s \in new : Of(s, queued)' = {}
  BY <1>1, <1>2, DiscardCounts
<1>4. \A s \in Sessions : Live(s)' \subseteq Live(s)
  BY <1>3 DEF Live, Of
<1>5. WorkStaysCharged'
  BY <1>2, <1>4 DEF WorkStaysCharged
<1>6. RegistryExact'
  BY <1>1, <1>2, AdmissionSessions DEF RegistryExact, TypeOK
<1>7. \A s \in Sessions : Of(s, queued') \subseteq Of(s, queued)
  BY <1>3 DEF Of
<1>8. FinalizedIsWaitedFor'
  <2>1. finalized' \subseteq intakeOff'
    BY <1>1, <1>2 DEF FinalizedIsWaitedFor
  <2>2. ASSUME NEW s \in finalized'
        PROVE  Of(s, queued)' = {} /\ Live(s)' \subseteq awaits'[s]
    <3>0. s \in Sessions
      BY <1>1, <1>2 DEF TypeOK
    <3>1. CASE s \in new
      <4>1. Of(s, queued)' = {}
        BY <1>3, <3>1
      <4>2. awaits'[s] = Awaited(s)
        BY <1>1, <3>0, <3>1
      <4>3. Live(s)' = Awaited(s)
        BY <4>1 DEF Live, Awaited, Of
      <4> QED  BY <4>1, <4>2, <4>3
    <3>2. CASE s \notin new
      <4>1. s \in finalized
        BY <1>1, <3>2
      <4>2. awaits'[s] = awaits[s]
        BY <1>1, <3>0, <3>2
      <4> QED  BY <1>2, <1>4, <1>7, <3>0, <4>1, <4>2 DEF FinalizedIsWaitedFor, Of
    <3> QED  BY <3>1, <3>2
  <2> QED  BY <2>1, <2>2 DEF FinalizedIsWaitedFor
<1>9. awaits' \in [Sessions -> SUBSET (Pumps \cup {"admission", "handlers"})]
  <2>1. \A s \in Sessions : Awaited(s) \in SUBSET (Pumps \cup {"admission", "handlers"})
    BY <1>2 DEF Awaited, TypeOK
  <2> QED  BY <1>1, <1>2, <2>1 DEF TypeOK
<1>10. sessions' \in [Ids -> Sessions \cup {NoSession}]
  BY <1>1, <1>2 DEF TypeOK
<1>11. cancelled' \subseteq Sessions /\ intakeOff' \subseteq Sessions
  BY <1>1, <1>2 DEF TypeOK
<1>12. \A s \in S : Of(s, queued)' = {}
  BY <1>1, <1>3, <1>8 DEF FinalizedIsWaitedFor
<1>13. S \subseteq intakeOff'
  BY <1>1, <1>2 DEF FinalizedIsWaitedFor
<1> QED  BY <1>1, <1>3, <1>5, <1>6, <1>8, <1>9, <1>10, <1>11, <1>12, <1>13

-----------------------------------------------------------------------------
(* The steps *)

\* Steps that change no charge and no registration: signals, close() and the
\* progress of acceptSession().
LEMMA QuietStepKeeps ==
    ASSUME IndInv, TypeOK',
           UNCHANGED <<finalized, sessions, outstanding, ipActive, active, queued, reserved, awaits>>,
           Admitting' = Admitting, intakeOff \subseteq intakeOff',
           \A s \in Sessions : Live(s)' \subseteq Live(s),
           NewIsUntouched', AdmittingIsKnown', DownIsOff',
           lifecycle' = "STOPPED" => lifecycle = "STOPPED"
    PROVE  IndInv'
<1> USE DEF IndInv, ChargesExact, RegistryKept
<1>1. SlotsExact'
  BY DEF SlotsExact
<1>2. ReservationsExact'
  BY DEF ReservationsExact
<1>3. WorkStaysCharged'
  BY DEF WorkStaysCharged
<1>4. RegistryExact'
  BY DEF RegistryExact
<1>5. StoppedIsQuiet'
  BY DEF StoppedIsQuiet
<1>6. TasksExact'
  BY DEF TasksExact, Of
<1>7. FinalizedIsWaitedFor'
  BY DEF FinalizedIsWaitedFor, Of, TypeOK
<1> QED  BY <1>1, <1>2, <1>3, <1>4, <1>5, <1>6, <1>7

\* acceptSession() charges the session and its admission at once.
LEMMA AcceptKeeps ==
    ASSUME IndInv, NEW s \in Sessions, Accept(s)
    PROVE  IndInv'
<1>1. /\ TypeOK /\ SlotsExact /\ ReservationsExact /\ WorkStaysCharged /\ RegistryExact
      /\ StoppedIsQuiet /\ TasksExact /\ NewIsUntouched /\ AdmittingIsKnown /\ FinalizedIsWaitedFor
      /\ DownIsOff
  BY DEF IndInv, ChargesExact, RegistryKept
<1>2. /\ pc[s] = "new" /\ lifecycle = "RUNNING" /\ Cardinality(outstanding) < MaxSessions
      /\ sessions[IdOf[s]] = NoSession /\ ipActive[IpOf[s]] < IpMaxSessions /\ reserved < HandlerLimit
      /\ outstanding' = outstanding \cup {s} /\ ipActive' = [ipActive EXCEPT ![IpOf[s]] = @ + 1]
      /\ UNCHANGED <<closed, closing, pumps, active, serverVars, accepted>>
  BY DEF Accept, Admissible, BudgetFree
<1>3. work[s] = "none" /\ s \notin outstanding \cup finalized
  BY <1>1, <1>2 DEF NewIsUntouched
<1>4. outstanding \subseteq Sessions /\ outstanding' \subseteq Sessions /\ IpOf[s] \in Ips /\ IdOf[s] \in Ids
  BY <1>1, <1>2, AdmissionSessions DEF TypeOK
<1>5. SlotsExact'
  <2>1. Cardinality(outstanding') <= MaxSessions
    BY <1>2, <1>3, <1>4, SessionSetsFinite, FS_AddElement, AdmissionLimits
  <2>2. ASSUME NEW ip \in Ips
        PROVE  ipActive'[ip] = Cardinality({t \in outstanding' : IpOf[t] = ip})
    <3> DEFINE of == {t \in outstanding : IpOf[t] = ip}
    <3>1. IsFiniteSet(of) /\ Cardinality(of) \in Nat /\ of \subseteq Sessions /\ s \notin of
      BY <1>3, <1>4, SessionSetsFinite
    <3>2. ipActive[ip] = Cardinality(of) /\ ipActive \in [Ips -> 0..IpMaxSessions]
      BY <1>1 DEF SlotsExact, TypeOK
    <3>3. CASE ip = IpOf[s]
      <4>1. {t \in outstanding' : IpOf[t] = ip} = of \cup {s}
        BY <1>2, <3>3
      <4>2. Cardinality(of \cup {s}) = Cardinality(of) + 1
        <5> HIDE DEF of
        <5> QED  BY <3>1, FS_AddElement
      <4> QED  BY <1>2, <1>4, <3>2, <3>3, <4>1, <4>2
    <3>4. CASE ip # IpOf[s]
      <4>1. {t \in outstanding' : IpOf[t] = ip} = of
        BY <1>2, <3>4
      <4> QED  BY <1>2, <1>4, <3>2, <3>4, <4>1
    <3> QED  BY <3>3, <3>4
  <2> QED  BY <2>1, <2>2 DEF SlotsExact
<1>6. ipActive' \in [Ips -> 0..IpMaxSessions]
  BY <1>1, <1>2, <1>4, AdmissionLimits DEF TypeOK
<1>7. StoppedIsQuiet' /\ DownIsOff'
  BY <1>2 DEF StoppedIsQuiet, DownIsOff, serverVars
<1>8. CASE s \in closed
  <2>1. pc' = [pc EXCEPT ![s] = "returned"] /\ Finalize({s}) /\ work' = work
    BY <1>8 DEF Accept
  <2>2. {s} \in SUBSET Sessions /\ \A t \in {s} : t \in outstanding \/ sessions[IdOf[t]] = NoSession
    BY <1>2
  <2>3. UNCHANGED <<work, active, pumps>> /\ outstanding' = outstanding \cup {s}
    BY <1>2, <2>1
  <2>4. /\ cancelled' \subseteq Sessions /\ intakeOff' \subseteq Sessions
        /\ finalized' = finalized \cup {s}
        /\ sessions' \in [Ids -> Sessions \cup {NoSession}]
        /\ queued' \subseteq queued /\ reserved' \in 0..HandlerLimit
        /\ awaits' \in [Sessions -> SUBSET (Pumps \cup {"admission", "handlers"})]
        /\ ReservationsExact' /\ WorkStaysCharged' /\ RegistryExact'
        /\ TasksExact' /\ FinalizedIsWaitedFor'
    BY <2>1, <2>2, <2>3, FinalizeKeeps
  <2>5. TypeOK'
    <3>1. pc' \in [Sessions -> {"new", "admitting", "returned"}] /\ finalized' \subseteq Sessions
      BY <1>1, <2>1, <2>4 DEF TypeOK
    <3>2. UNCHANGED <<work, closed, closing, accepted, pumps, active, lifecycle, stopping>>
      BY <1>2, <2>1 DEF serverVars
    <3>3. queued' \subseteq Tasks
      BY <1>1, <2>4 DEF TypeOK
    <3> QED  BY <1>1, <1>4, <1>6, <2>4, <3>1, <3>2, <3>3 DEF TypeOK
  <2>6. NewIsUntouched' /\ AdmittingIsKnown'
    BY <1>1, <1>2, <2>1, <2>4 DEF NewIsUntouched, AdmittingIsKnown, TypeOK
  <2> QED  BY <1>5, <1>7, <2>4, <2>5, <2>6 DEF IndInv, ChargesExact, RegistryKept
<1>9. CASE s \notin closed
  <2>1. /\ pc' = [pc EXCEPT ![s] = "admitting"] /\ work' = [work EXCEPT ![s] = "waiting"]
        /\ sessions' = [sessions EXCEPT ![IdOf[s]] = s] /\ reserved' = reserved + 1
        /\ UNCHANGED <<cancelled, intakeOff, finalized, queued, awaits>>
    BY <1>9 DEF Accept
  <2>2. TypeOK'
    <3>1. reserved' \in 0..HandlerLimit
      BY <1>1, <1>2, <2>1, AdmissionLimits DEF TypeOK
    <3>2. sessions' \in [Ids -> Sessions \cup {NoSession}]
      BY <1>1, <1>4, <2>1 DEF TypeOK
    <3> QED  BY <1>1, <1>2, <1>4, <1>6, <2>1, <3>1, <3>2 DEF TypeOK, serverVars
  <2>3. ReservationsExact'
    <3>1. Admitting' = Admitting \cup {s} /\ s \notin Admitting /\ Admitting \subseteq Sessions
      BY <1>1, <1>3, <2>1 DEF Admitting, TypeOK
    <3>2. Cardinality(Admitting') = Cardinality(Admitting) + 1 /\ Cardinality(Admitting) \in Nat
      BY <3>1, SessionSetsFinite, FS_AddElement
    <3>3. active \cup queued \subseteq Tasks /\ Cardinality(active \cup queued) \in Nat
      BY <1>1, TaskSetsFinite DEF TypeOK
    <3> QED  BY <1>1, <1>2, <2>1, <3>2, <3>3 DEF ReservationsExact
  <2>4. \A t \in Sessions : t # s => Live(t)' = Live(t)
    BY <1>1, <1>2, <2>1 DEF Live, Of, TypeOK
  <2>5. WorkStaysCharged'
    BY <1>1, <1>2, <2>4 DEF WorkStaysCharged
  <2>6. RegistryExact'
    BY <1>1, <1>2, <1>3, <1>4, <2>1, AdmissionSessions DEF RegistryExact, TypeOK
  <2>7. TasksExact'
    BY <1>1, <1>2, <2>1 DEF TasksExact, Of
  <2>8. NewIsUntouched' /\ AdmittingIsKnown'
    BY <1>1, <1>2, <2>1 DEF NewIsUntouched, AdmittingIsKnown, TypeOK
  <2>9. FinalizedIsWaitedFor'
    BY <1>1, <1>3, <2>1, <2>4 DEF FinalizedIsWaitedFor, Of, TypeOK
  <2> QED  BY <1>5, <1>7, <2>2, <2>3, <2>5, <2>6, <2>7, <2>8, <2>9 DEF IndInv, ChargesExact, RegistryKept
<1> QED  BY <1>8, <1>9

\* A session that is refused is charged nowhere.
LEMMA RejectKeeps ==
    ASSUME IndInv, NEW s \in Sessions, Reject(s)
    PROVE  IndInv'
<1> USE DEF managedVars, serverVars
<1>1. TypeOK' /\ Admitting' = Admitting /\ \A t \in Sessions : Live(t)' = Live(t)
  BY DEF IndInv, ChargesExact, TypeOK, Reject, Admitting, Live, Of
<1>2. NewIsUntouched' /\ AdmittingIsKnown' /\ DownIsOff'
  BY DEF IndInv, ChargesExact, TypeOK, Reject, NewIsUntouched, AdmittingIsKnown, DownIsOff
<1> QED  BY <1>1, <1>2, QuietStepKeeps DEF Reject

\* Authentication runs under the reservation of its admission.
LEMMA WorkStartsKeeps ==
    ASSUME IndInv, NEW s \in Sessions, WorkStarts(s)
    PROVE  IndInv'
<1> USE DEF managedVars, serverVars
<1>1. TypeOK' /\ Admitting' = Admitting /\ \A t \in Sessions : Live(t)' = Live(t)
  BY DEF IndInv, ChargesExact, TypeOK, WorkStarts, Admitting, Live, Of
<1>2. NewIsUntouched' /\ AdmittingIsKnown' /\ DownIsOff'
  BY DEF IndInv, ChargesExact, TypeOK, WorkStarts, NewIsUntouched, AdmittingIsKnown, DownIsOff
<1> QED  BY <1>1, <1>2, QuietStepKeeps DEF WorkStarts

\* A failed or late admission leaves the charge to the retirement.
LEMMA AdmissionFailsKeeps ==
    ASSUME IndInv, NEW s \in Sessions, AdmissionFails(s) \/ AdmissionTimesOut(s)
    PROVE  IndInv'
<1> USE DEF managedVars, serverVars
<1>1. /\ pc[s] = "admitting" /\ pc' = [pc EXCEPT ![s] = "returned"] /\ CloseFailed(s)
      /\ cancelled' \in {cancelled, cancelled \cup {s}}
      /\ UNCHANGED <<work, closed, intakeOff, finalized, sessions, queued, reserved, awaits,
                     outstanding, ipActive, pumps, active, serverVars, accepted>>
  BY DEF AdmissionFails, AdmissionTimesOut
<1>2. TypeOK' /\ Admitting' = Admitting /\ \A t \in Sessions : Live(t)' = Live(t)
  BY <1>1 DEF IndInv, ChargesExact, TypeOK, Admitting, Live, Of, CloseFailed
<1>3. NewIsUntouched' /\ AdmittingIsKnown' /\ DownIsOff'
  BY <1>1 DEF IndInv, ChargesExact, TypeOK, NewIsUntouched, AdmittingIsKnown, DownIsOff
<1> QED  BY <1>1, <1>2, <1>3, QuietStepKeeps

\* A close() under way keeps what the session holds.
LEMMA RuntimeClosesKeeps ==
    ASSUME IndInv, NEW s \in Sessions, RuntimeCloses(s)
    PROVE  IndInv'
<1> USE DEF managedVars, serverVars
<1>1. TypeOK' /\ Admitting' = Admitting /\ \A t \in Sessions : Live(t)' = Live(t)
  BY DEF IndInv, ChargesExact, TypeOK, RuntimeCloses, Admitting, Live, Of
<1>2. NewIsUntouched' /\ AdmittingIsKnown' /\ DownIsOff'
  BY DEF IndInv, RuntimeCloses, NewIsUntouched, AdmittingIsKnown, DownIsOff
<1> QED  BY <1>1, <1>2, QuietStepKeeps DEF RuntimeCloses

\* A pump that ends holds nothing.
LEMMA PumpEndsKeeps ==
    ASSUME IndInv, NEW s \in Sessions, NEW k \in Pumps, PumpEnds(s, k)
    PROVE  IndInv'
<1> USE DEF managedVars, serverVars
<1>1. /\ pumps' = [pumps EXCEPT ![s] = @ \ {k}]
      /\ closing' = closing \/ closing' = closing \cup {s}
      /\ UNCHANGED <<pc, work, closed, managedVars, outstanding, ipActive, active, serverVars, accepted>>
  BY DEF PumpEnds
<1>2. TypeOK' /\ Admitting' = Admitting
  BY <1>1 DEF IndInv, ChargesExact, TypeOK, Admitting
<1>3. \A t \in Sessions : Live(t)' \subseteq Live(t)
  BY <1>1 DEF IndInv, ChargesExact, TypeOK, Live, Of
<1>4. NewIsUntouched' /\ AdmittingIsKnown' /\ DownIsOff'
  BY <1>1 DEF IndInv, NewIsUntouched, AdmittingIsKnown, DownIsOff
<1> QED  BY <1>1, <1>2, <1>3, <1>4, QuietStepKeeps

\* A stop that begins ends the intake and takes no charge away.
LEMMA StopBeginsKeeps ==
    ASSUME IndInv, StopBegins
    PROVE  IndInv'
<1>1. TypeOK' /\ Admitting' = Admitting /\ \A t \in Sessions : Live(t)' = Live(t)
  BY DEF IndInv, ChargesExact, TypeOK, StopBegins, StopIntake, Admitting, Live, Of
<1>2. NewIsUntouched' /\ AdmittingIsKnown' /\ DownIsOff'
  BY DEF IndInv, StopBegins, StopIntake, NewIsUntouched, AdmittingIsKnown, DownIsOff
<1> QED  BY <1>1, <1>2, QuietStepKeeps DEF StopBegins, StopIntake

\* A start finds a stopped server, which holds nothing.
LEMMA StartKeeps ==
    ASSUME IndInv, Start
    PROVE  IndInv'
<1> USE DEF managedVars, serverVars
<1>1. TypeOK' /\ Admitting' = Admitting /\ \A t \in Sessions : Live(t)' = Live(t)
  BY DEF IndInv, ChargesExact, TypeOK, Start, Admitting, Live, Of
<1>2. NewIsUntouched' /\ AdmittingIsKnown' /\ DownIsOff'
  BY DEF IndInv, Start, NewIsUntouched, AdmittingIsKnown, DownIsOff
<1> QED  BY <1>1, <1>2, QuietStepKeeps DEF Start

\* Stuttering keeps the invariant.
LEMMA StutterKeeps ==
    ASSUME IndInv, UNCHANGED vars
    PROVE  IndInv'
<1> USE DEF managedVars, serverVars, vars
<1>1. TypeOK' /\ Admitting' = Admitting /\ \A t \in Sessions : Live(t)' = Live(t)
  BY DEF IndInv, ChargesExact, TypeOK, Admitting, Live, Of
<1>2. NewIsUntouched' /\ AdmittingIsKnown' /\ DownIsOff'
  BY DEF IndInv, NewIsUntouched, AdmittingIsKnown, DownIsOff
<1> QED  BY <1>1, <1>2, QuietStepKeeps

\* A started pump belongs to a session that is registered with a running server.
LEMMA IntakeOpenIsServing ==
    ASSUME IndInv, NEW s \in Sessions, s \in outstanding, s \notin intakeOff
    PROVE  lifecycle = "RUNNING" /\ sessions[IdOf[s]] = s /\ s \notin finalized
BY DEF IndInv, RegistryKept, RegistryExact, FinalizedIsWaitedFor, DownIsOff

\* User work gives back its reservation only when it settles.
LEMMA WorkSettlesKeeps ==
    ASSUME IndInv, NEW s \in Sessions, NEW outcome \in {"ok", "failed"}, WorkSettles(s, outcome)
    PROVE  IndInv'
<1> USE DEF serverVars
<1>1. /\ TypeOK /\ SlotsExact /\ ReservationsExact /\ WorkStaysCharged /\ RegistryExact
      /\ StoppedIsQuiet /\ TasksExact /\ NewIsUntouched /\ AdmittingIsKnown /\ FinalizedIsWaitedFor
      /\ DownIsOff
  BY DEF IndInv, ChargesExact, RegistryKept
<1>2. /\ work[s] \in {"waiting", "running"} /\ work' = [work EXCEPT ![s] = outcome]
      /\ reserved' = reserved - 1
      /\ UNCHANGED <<pc, closed, closing, cancelled, intakeOff, finalized, sessions, queued, awaits,
                     outstanding, ipActive, pumps, active, serverVars, accepted>>
  BY DEF WorkSettles
<1>3. Admitting' = Admitting \ {s} /\ s \in Admitting /\ Admitting \subseteq Sessions
  BY <1>1, <1>2 DEF Admitting, TypeOK
<1>4. /\ Cardinality(Admitting') = Cardinality(Admitting) - 1
      /\ Cardinality(Admitting) \in Nat /\ Cardinality(Admitting') \in Nat
  <2>1. IsFiniteSet(Admitting) /\ Cardinality(Admitting) \in Nat
    BY <1>3, SessionSetsFinite
  <2>2. Admitting' \subseteq Sessions
    BY <1>3
  <2> QED  BY <1>3, <2>1, <2>2, FS_RemoveElement, SessionSetsFinite
<1>5. active \cup queued \subseteq Tasks /\ Cardinality(active \cup queued) \in Nat
  BY <1>1, TaskSetsFinite DEF TypeOK
<1>6. ReservationsExact'
  BY <1>1, <1>2, <1>4, <1>5 DEF ReservationsExact
<1>7. reserved' \in 0..HandlerLimit
  BY <1>1, <1>2, <1>4, <1>5, <1>6, AdmissionLimits DEF ReservationsExact, TypeOK
<1>8. TypeOK'
  BY <1>1, <1>2, <1>7 DEF TypeOK
<1>9. \A t \in Sessions : Live(t)' \subseteq Live(t)
  BY <1>1, <1>2 DEF Live, Of, TypeOK
<1>10. WorkStaysCharged'
  BY <1>1, <1>2, <1>9 DEF WorkStaysCharged
<1>11. FinalizedIsWaitedFor'
  BY <1>1, <1>2, <1>9 DEF FinalizedIsWaitedFor, Of, TypeOK
<1>12. SlotsExact' /\ RegistryExact' /\ StoppedIsQuiet' /\ TasksExact' /\ AdmittingIsKnown' /\ DownIsOff'
  BY <1>1, <1>2 DEF SlotsExact, RegistryExact, StoppedIsQuiet, TasksExact, Of, AdmittingIsKnown, DownIsOff
<1>13. NewIsUntouched'
  BY <1>1, <1>2 DEF NewIsUntouched, TypeOK
<1> QED  BY <1>6, <1>8, <1>10, <1>11, <1>12, <1>13 DEF IndInv, ChargesExact, RegistryKept

\* Pumps are added to sessions that are registered and whose intake is open.
LEMMA PumpsStartKeeps ==
    ASSUME IndInv, NEW s \in Sessions, s \in outstanding, s \notin intakeOff,
           pumps' \in [Sessions -> SUBSET Pumps], \A t \in Sessions \ {s} : pumps'[t] = pumps[t],
           accepted' \subseteq Sessions,
           pc' = pc \/ pc' = [pc EXCEPT ![s] = "returned"],
           UNCHANGED <<work, closed, closing, managedVars, outstanding, ipActive, active, serverVars>>
    PROVE  IndInv'
<1> USE DEF serverVars, managedVars
<1>1. /\ TypeOK /\ SlotsExact /\ ReservationsExact /\ WorkStaysCharged /\ RegistryExact
      /\ StoppedIsQuiet /\ TasksExact /\ NewIsUntouched /\ AdmittingIsKnown /\ FinalizedIsWaitedFor
      /\ DownIsOff
  BY DEF IndInv, ChargesExact, RegistryKept
<1>2. s \notin finalized
  BY IntakeOpenIsServing
<1>3. TypeOK'
  BY <1>1 DEF TypeOK
<1>4. \A t \in Sessions \ {s} : Live(t)' = Live(t)
  BY <1>1 DEF Live, Of
<1>5. WorkStaysCharged'
  BY <1>1, <1>4 DEF WorkStaysCharged
<1>6. FinalizedIsWaitedFor'
  BY <1>1, <1>2, <1>4 DEF FinalizedIsWaitedFor, Of, TypeOK
<1>7. SlotsExact' /\ RegistryExact' /\ StoppedIsQuiet' /\ TasksExact' /\ DownIsOff'
  BY <1>1 DEF SlotsExact, RegistryExact, StoppedIsQuiet, TasksExact, Of, DownIsOff
<1>8. NewIsUntouched' /\ AdmittingIsKnown'
  BY <1>1 DEF NewIsUntouched, AdmittingIsKnown, TypeOK
<1>9. ReservationsExact'
  <2>1. Admitting' = Admitting
    BY DEF Admitting
  <2> QED  BY <1>1, <2>1 DEF ReservationsExact
<1> QED  BY <1>3, <1>5, <1>6, <1>7, <1>8, <1>9 DEF IndInv, ChargesExact, RegistryKept

\* An admitted session starts its pumps in the same turn, if it still may.
LEMMA AdmissionSucceedsKeeps ==
    ASSUME IndInv, NEW s \in Sessions, AdmissionSucceeds(s)
    PROVE  IndInv'
<1> USE DEF serverVars, managedVars
<1>1. TypeOK /\ AdmittingIsKnown /\ FinalizedIsWaitedFor
  BY DEF IndInv, ChargesExact
<1>2. /\ pc[s] = "admitting" /\ pc' = [pc EXCEPT ![s] = "returned"]
      /\ UNCHANGED <<work, closed, closing, managedVars, outstanding, ipActive, active, serverVars>>
  BY DEF AdmissionSucceeds
<1>3. CASE MayServe(s)
  <2>1. s \in outstanding /\ s \notin intakeOff
    BY <1>1, <1>2, <1>3 DEF AdmittingIsKnown, FinalizedIsWaitedFor, MayServe
  <2>2. pumps' = [pumps EXCEPT ![s] = Kinds] /\ accepted' = accepted \cup {s}
    BY <1>3, <2>1 DEF AdmissionSucceeds
  <2>3. /\ pumps' \in [Sessions -> SUBSET Pumps] /\ accepted' \subseteq Sessions
        /\ \A t \in Sessions \ {s} : pumps'[t] = pumps[t]
    BY <1>1, <2>2 DEF TypeOK, Pumps
  <2> QED  BY <1>2, <2>1, <2>3, PumpsStartKeeps
<1>4. CASE ~MayServe(s)
  <2>1. UNCHANGED <<accepted, pumps>>
    BY <1>4 DEF AdmissionSucceeds
  <2>2. TypeOK' /\ Admitting' = Admitting /\ \A t \in Sessions : Live(t)' = Live(t)
    BY <1>1, <1>2, <2>1 DEF TypeOK, Admitting, Live, Of
  <2>3. NewIsUntouched' /\ AdmittingIsKnown' /\ DownIsOff'
    BY <1>1, <1>2 DEF IndInv, TypeOK, NewIsUntouched, AdmittingIsKnown, DownIsOff
  <2> QED  BY <1>2, <2>1, <2>2, <2>3, QuietStepKeeps
<1> QED  BY <1>3, <1>4

\* Only a session whose pump runs gets a drainer.
LEMMA DrainerStartsKeeps ==
    ASSUME IndInv, NEW s \in Sessions, DrainerStarts(s)
    PROVE  IndInv'
<1>1. TypeOK /\ WorkStaysCharged
  BY DEF IndInv, ChargesExact
<1>2. s \in outstanding /\ s \notin intakeOff
  BY <1>1 DEF DrainerStarts, WorkStaysCharged, Live
<1>3. /\ pumps' \in [Sessions -> SUBSET Pumps]
      /\ \A t \in Sessions \ {s} : pumps'[t] = pumps[t]
  BY <1>1 DEF DrainerStarts, TypeOK, Pumps
<1>4. accepted' \subseteq Sessions
  BY <1>1 DEF DrainerStarts, TypeOK
<1> QED  BY <1>2, <1>3, <1>4, PumpsStartKeeps DEF DrainerStarts

\* The signal's abort finalizes the session but keeps its charge.
LEMMA SessionAbortsKeeps ==
    ASSUME IndInv, NEW s \in Sessions, SessionAborts(s)
    PROVE  IndInv'
<1> USE DEF serverVars
<1>1. /\ TypeOK /\ SlotsExact /\ ReservationsExact /\ WorkStaysCharged /\ RegistryExact
      /\ StoppedIsQuiet /\ TasksExact /\ NewIsUntouched /\ AdmittingIsKnown /\ FinalizedIsWaitedFor
      /\ DownIsOff
  BY DEF IndInv, ChargesExact, RegistryKept
<1>2. /\ closed' = closed \cup {s} /\ closing' = closing \ {s} /\ Finalize(OnAbort(s))
      /\ UNCHANGED <<pc, work, outstanding, ipActive, pumps, active, serverVars, accepted>>
  BY DEF SessionAborts
<1>3. OnAbort(s) \in SUBSET Sessions /\ OnAbort(s) \subseteq outstanding
  BY DEF OnAbort
<1>4. outstanding' = outstanding \cup OnAbort(s)
  BY <1>2, <1>3
<1>5. /\ cancelled' \subseteq Sessions /\ intakeOff' \subseteq Sessions /\ intakeOff \subseteq intakeOff'
      /\ finalized' = finalized \cup OnAbort(s)
      /\ sessions' \in [Ids -> Sessions \cup {NoSession}]
      /\ queued' \subseteq queued /\ reserved' \in 0..HandlerLimit
      /\ awaits' \in [Sessions -> SUBSET (Pumps \cup {"admission", "handlers"})]
      /\ ReservationsExact' /\ WorkStaysCharged' /\ RegistryExact'
      /\ TasksExact' /\ FinalizedIsWaitedFor'
  BY <1>2, <1>3, <1>4, FinalizeKeeps
<1>6. TypeOK'
  <2>1. /\ closed' \subseteq Sessions /\ closing' \subseteq Sessions /\ finalized' \subseteq Sessions
        /\ queued' \subseteq Tasks
    BY <1>1, <1>2, <1>3, <1>5 DEF TypeOK
  <2> QED  BY <1>1, <1>2, <1>5, <2>1 DEF TypeOK
<1>7. SlotsExact' /\ StoppedIsQuiet' /\ DownIsOff'
  BY <1>1, <1>2, <1>5 DEF SlotsExact, StoppedIsQuiet, DownIsOff
<1>8. NewIsUntouched' /\ AdmittingIsKnown'
  BY <1>1, <1>2, <1>3, <1>5 DEF NewIsUntouched, AdmittingIsKnown
<1> QED  BY <1>5, <1>6, <1>7, <1>8 DEF IndInv, ChargesExact, RegistryKept

\* A session gives back its place only when none of its work is left.
LEMMA RetireKeeps ==
    ASSUME IndInv, NEW s \in Sessions, Retire(s)
    PROVE  IndInv'
<1> USE DEF serverVars
<1>1. /\ TypeOK /\ SlotsExact /\ ReservationsExact /\ WorkStaysCharged /\ RegistryExact
      /\ StoppedIsQuiet /\ TasksExact /\ NewIsUntouched /\ AdmittingIsKnown /\ FinalizedIsWaitedFor
      /\ DownIsOff
  BY DEF IndInv, ChargesExact, RegistryKept
<1>2. /\ s \in finalized /\ s \in outstanding /\ awaits[s] \cap Live(s) = {}
      /\ outstanding' = outstanding \ {s} /\ awaits' = [awaits EXCEPT ![s] = {}]
      /\ ipActive' = [ipActive EXCEPT ![IpOf[s]] = IF @ > 0 THEN @ - 1 ELSE @]
      /\ UNCHANGED <<pc, work, closed, closing, cancelled, intakeOff, finalized, sessions, queued,
                     reserved, pumps, active, serverVars, accepted>>
  BY DEF Retire, ReleaseIpSlot
\* All the work that goes on is waited for: none does.
<1>3. Live(s) = {}
  BY <1>1, <1>2 DEF FinalizedIsWaitedFor
<1>4. \A t \in Sessions : Live(t)' = Live(t)
  BY <1>2 DEF Live, Of
<1>5. WorkStaysCharged'
  BY <1>1, <1>2, <1>3, <1>4 DEF WorkStaysCharged
<1>6. outstanding \subseteq Sessions /\ IpOf[s] \in Ips
  BY <1>1, AdmissionSessions DEF TypeOK
<1>7. ASSUME NEW ip \in Ips
      PROVE  ipActive'[ip] = Cardinality({t \in outstanding' : IpOf[t] = ip}) /\ ipActive'[ip] \in 0..IpMaxSessions
  <2> DEFINE of == {t \in outstanding : IpOf[t] = ip}
  <2>1. IsFiniteSet(of) /\ Cardinality(of) \in Nat
    BY <1>6, SessionSetsFinite
  <2>2. ipActive[ip] = Cardinality(of) /\ ipActive \in [Ips -> 0..IpMaxSessions] /\ IpMaxSessions \in Nat
    BY <1>1, AdmissionLimits DEF SlotsExact, TypeOK
  <2>3. CASE ip = IpOf[s]
    <3>1. {t \in outstanding' : IpOf[t] = ip} = of \ {s} /\ s \in of
      BY <1>2, <2>3
    <3>2. Cardinality(of \ {s}) = Cardinality(of) - 1 /\ Cardinality(of) > 0
      <4>1. of # {}
        BY <3>1
      <4> HIDE DEF of
      <4> QED  BY <2>1, <3>1, <4>1, FS_RemoveElement, FS_EmptySet
    <3>3. ipActive'[ip] = ipActive[ip] - 1
      BY <1>2, <1>6, <2>2, <2>3, <3>2
    <3> QED  BY <2>1, <2>2, <3>1, <3>2, <3>3
  <2>4. CASE ip # IpOf[s]
    <3>1. {t \in outstanding' : IpOf[t] = ip} = of
      BY <1>2, <2>4
    <3>2. ipActive'[ip] = ipActive[ip]
      BY <1>2, <1>6, <2>2, <2>4
    <3> QED  BY <2>2, <3>1, <3>2
  <2> QED  BY <2>3, <2>4
<1>8. SlotsExact'
  <2>1. /\ Cardinality(outstanding') <= Cardinality(outstanding)
        /\ Cardinality(outstanding) \in Nat /\ Cardinality(outstanding') \in Nat
    <3>1. IsFiniteSet(outstanding) /\ outstanding' \in SUBSET outstanding /\ outstanding' \subseteq Sessions
      BY <1>2, <1>6, SessionSetsFinite
    <3> QED  BY <1>6, <3>1, SessionSetsFinite, FS_Subset
  <2>2. Cardinality(outstanding') <= MaxSessions
    BY <1>1, <2>1, AdmissionLimits DEF SlotsExact
  <2> QED  BY <1>7, <2>2 DEF SlotsExact
<1>9. ipActive' \in [Ips -> 0..IpMaxSessions]
  BY <1>1, <1>2, <1>7 DEF TypeOK
<1>10. awaits' \in [Sessions -> SUBSET (Pumps \cup {"admission", "handlers"})]
  BY <1>1, <1>2 DEF TypeOK
<1>11. TypeOK'
  <2>1. outstanding' \subseteq Sessions
    BY <1>2, <1>6
  <2> QED  BY <1>1, <1>2, <1>9, <1>10, <2>1 DEF TypeOK
<1>12. ReservationsExact'
  <2>1. Admitting' = Admitting
    BY <1>2 DEF Admitting
  <2> QED  BY <1>1, <1>2, <2>1 DEF ReservationsExact
<1>13. RegistryExact'
  BY <1>1, <1>2 DEF RegistryExact
<1>14. FinalizedIsWaitedFor'
  BY <1>1, <1>2, <1>3, <1>4 DEF FinalizedIsWaitedFor, Of, TypeOK
<1>15. StoppedIsQuiet' /\ TasksExact' /\ DownIsOff'
  BY <1>1, <1>2 DEF StoppedIsQuiet, TasksExact, Of, DownIsOff
<1>16. NewIsUntouched' /\ AdmittingIsKnown'
  BY <1>1, <1>2 DEF NewIsUntouched, AdmittingIsKnown
<1> QED  BY <1>5, <1>8, <1>11, <1>12, <1>13, <1>14, <1>15, <1>16 DEF IndInv, ChargesExact, RegistryKept

\* While the server stops, only pending handlers are taken from the sessions.
LEMMA StopForcesKeeps ==
    ASSUME IndInv, StopForces \/ StopAgain
    PROVE  IndInv'
<1>1. /\ TypeOK /\ SlotsExact /\ ReservationsExact /\ WorkStaysCharged /\ RegistryExact
      /\ StoppedIsQuiet /\ TasksExact /\ NewIsUntouched /\ AdmittingIsKnown /\ FinalizedIsWaitedFor
      /\ DownIsOff
  BY DEF IndInv, ChargesExact, RegistryKept
<1>2. /\ lifecycle # "RUNNING" /\ lifecycle' = "STOPPING" /\ Discard(outstanding)
      /\ cancelled' = cancelled \cup outstanding
      /\ closing' \subseteq closing \cup Sessions /\ stopping' \in BOOLEAN
      /\ intakeOff' = intakeOff \/ intakeOff' = intakeOff \cup outstanding
      /\ UNCHANGED <<pc, work, closed, finalized, sessions, awaits, outstanding, ipActive,
                     pumps, active, accepted>>
  BY <1>1 DEF StopForces, StopAgain, StopIntake, TypeOK
<1>3. outstanding \in SUBSET Sessions
  BY <1>1 DEF TypeOK
<1>4. ReservationsExact' /\ TasksExact' /\ reserved' \in 0..HandlerLimit /\ queued' \subseteq queued
  BY <1>1, <1>2, <1>3, DiscardCounts
<1>5. \A s \in Sessions : Live(s)' \subseteq Live(s) /\ Of(s, queued') \subseteq Of(s, queued)
  BY <1>2, <1>4 DEF Live, Of
<1>6. TypeOK'
  <2>1. /\ closing' \subseteq Sessions /\ cancelled' \subseteq Sessions /\ intakeOff' \subseteq Sessions
        /\ queued' \subseteq Tasks
    BY <1>1, <1>2, <1>4 DEF TypeOK
  <2> QED  BY <1>1, <1>2, <1>4, <2>1 DEF TypeOK
<1>7. WorkStaysCharged'
  BY <1>1, <1>2, <1>5 DEF WorkStaysCharged
<1>8. FinalizedIsWaitedFor'
  BY <1>1, <1>2, <1>5 DEF FinalizedIsWaitedFor, Of, TypeOK
<1>9. SlotsExact' /\ RegistryExact' /\ StoppedIsQuiet' /\ NewIsUntouched' /\ AdmittingIsKnown' /\ DownIsOff'
  BY <1>1, <1>2 DEF SlotsExact, RegistryExact, StoppedIsQuiet, NewIsUntouched, AdmittingIsKnown, DownIsOff
<1> QED  BY <1>4, <1>6, <1>7, <1>8, <1>9 DEF IndInv, ChargesExact, RegistryKept

\* The sessions map leads the finally block to every session that it must finalize.
LEMMA StopEndsKeeps ==
    ASSUME IndInv, NEW stopped \in BOOLEAN, StopEnds(stopped)
    PROVE  IndInv'
<1> DEFINE registered == {s \in Sessions : sessions[IdOf[s]] = s}
<1>1. /\ TypeOK /\ SlotsExact /\ ReservationsExact /\ WorkStaysCharged /\ RegistryExact
      /\ StoppedIsQuiet /\ TasksExact /\ NewIsUntouched /\ AdmittingIsKnown /\ FinalizedIsWaitedFor
      /\ DownIsOff
  BY DEF IndInv, ChargesExact, RegistryKept
<1>2. /\ lifecycle = "STOPPING" /\ lifecycle' \in {"STOPPED", "STOPPING"} /\ stopping' = FALSE
      /\ Finalize(registered)
      /\ UNCHANGED <<pc, work, closed, closing, outstanding, ipActive, pumps, active, accepted>>
  BY DEF StopEnds, FinalizeAll
<1>3. registered = outstanding \ finalized /\ registered \in SUBSET Sessions
  BY <1>1 DEF RegistryExact, TypeOK
<1>4. outstanding' = outstanding \cup registered
  BY <1>2, <1>3
<1> HIDE DEF registered
<1>5. /\ cancelled' \subseteq Sessions /\ intakeOff' \subseteq Sessions /\ intakeOff \subseteq intakeOff'
      /\ finalized' = finalized \cup registered
      /\ sessions' \in [Ids -> Sessions \cup {NoSession}]
      /\ queued' \subseteq queued /\ reserved' \in 0..HandlerLimit
      /\ awaits' \in [Sessions -> SUBSET (Pumps \cup {"admission", "handlers"})]
      /\ ReservationsExact' /\ WorkStaysCharged' /\ RegistryExact'
      /\ TasksExact' /\ FinalizedIsWaitedFor'
  BY <1>2, <1>3, <1>4, FinalizeKeeps
<1>6. TypeOK'
  <2>1. finalized' \subseteq Sessions /\ queued' \subseteq Tasks
    BY <1>1, <1>3, <1>5 DEF TypeOK
  <2> QED  BY <1>1, <1>2, <1>5, <2>1 DEF TypeOK
<1>7. StoppedIsQuiet'
  <2>1. outstanding' \subseteq finalized'
    BY <1>2, <1>3, <1>5
  <2>2. ASSUME NEW t \in queued'
        PROVE  FALSE
    <3>1. t \in Of(t[1], queued) /\ t \in Of(t[1], queued') /\ t[1] \in Sessions
      BY <1>1, <1>5 DEF Of, TypeOK, Tasks
    <3>2. t[1] \in outstanding
      BY <1>1, <3>1 DEF WorkStaysCharged, Live
    <3> QED  BY <1>2, <1>5, <2>1, <3>1, <3>2 DEF FinalizedIsWaitedFor, Of
  <2> QED  BY <2>1, <2>2 DEF StoppedIsQuiet
<1>8. SlotsExact' /\ DownIsOff' /\ NewIsUntouched' /\ AdmittingIsKnown'
  BY <1>1, <1>2, <1>3, <1>5 DEF SlotsExact, DownIsOff, NewIsUntouched, AdmittingIsKnown
<1> QED  BY <1>5, <1>6, <1>7, <1>8 DEF IndInv, ChargesExact, RegistryKept

\* A handler takes a reservation of its registered session.
LEMMA HandlerSubmittedKeeps ==
    ASSUME IndInv, NEW s \in Sessions, HandlerSubmitted(s)
    PROVE  IndInv'
<1> USE DEF serverVars
<1> DEFINE t == FreshTask(s)
<1>1. /\ TypeOK /\ SlotsExact /\ ReservationsExact /\ WorkStaysCharged /\ RegistryExact
      /\ StoppedIsQuiet /\ TasksExact /\ NewIsUntouched /\ AdmittingIsKnown /\ FinalizedIsWaitedFor
      /\ DownIsOff
  BY DEF IndInv, ChargesExact, RegistryKept
<1>2. /\ pumps[s] # {} /\ s \notin intakeOff /\ reserved < HandlerLimit /\ reserved' = reserved + 1
      /\ \/ /\ Cardinality(Of(s, active)) < MaxConcurrentHandlers
            /\ active' = active \cup {t} /\ queued' = queued
         \/ /\ Cardinality(Of(s, queued)) < MaxPendingHandlers
            /\ queued' = queued \cup {t} /\ active' = active
      /\ UNCHANGED <<pc, work, closed, closing, cancelled, intakeOff, finalized, sessions, awaits,
                     outstanding, ipActive, pumps, serverVars, accepted>>
  BY DEF HandlerSubmitted, BudgetFree
<1>3. s \in outstanding /\ s \notin finalized
  BY <1>1, <1>2 DEF WorkStaysCharged, Live, FinalizedIsWaitedFor
<1>4. t \in Tasks /\ t[1] = s /\ t \notin active \cup queued
  BY <1>1, <1>2, FreshTaskIsFresh
<1> HIDE DEF t
<1>5. ReservationsExact' /\ reserved' \in 0..HandlerLimit
  <2>1. active' \cup queued' = (active \cup queued) \cup {t} /\ active \cup queued \subseteq Tasks
    BY <1>1, <1>2 DEF TypeOK
  <2>2. IsFiniteSet(active \cup queued) /\ Cardinality(active \cup queued) \in Nat
    BY <2>1, TaskSetsFinite
  <2>3. Cardinality(active' \cup queued') = Cardinality(active \cup queued) + 1
    BY <1>4, <2>1, <2>2, FS_AddElement
  <2>4. Admitting' = Admitting
    BY <1>2 DEF Admitting
  <2>5. Cardinality(Admitting) \in Nat
    BY SessionSetsFinite DEF Admitting
  <2> QED  BY <1>1, <1>2, <2>2, <2>3, <2>4, <2>5, AdmissionLimits DEF ReservationsExact, TypeOK
<1>6. TypeOK'
  <2>1. active' \subseteq Tasks /\ queued' \subseteq Tasks
    BY <1>1, <1>2, <1>4 DEF TypeOK
  <2> QED  BY <1>1, <1>2, <1>5, <2>1 DEF TypeOK
<1>7. TasksExact'
  <2>1. active' \cap queued' = {}
    BY <1>1, <1>2, <1>4 DEF TasksExact
  <2>2. ASSUME NEW q \in Sessions
        PROVE  Cardinality(Of(q, active')) <= MaxConcurrentHandlers /\ Cardinality(Of(q, queued')) <= MaxPendingHandlers
    <3>1. CASE q # s
      <4>1. Of(q, active') = Of(q, active) /\ Of(q, queued') = Of(q, queued)
        BY <1>2, <1>4, <3>1 DEF Of
      <4> QED  BY <1>1, <4>1 DEF TasksExact
    <3>2. CASE q = s
      <4>1. Of(s, active) \subseteq Tasks /\ Of(s, queued) \subseteq Tasks
        BY <1>1 DEF Of, TypeOK
      <4>2. /\ IsFiniteSet(Of(s, active)) /\ Cardinality(Of(s, active)) \in Nat
            /\ IsFiniteSet(Of(s, queued)) /\ Cardinality(Of(s, queued)) \in Nat
        BY <4>1, TaskSetsFinite
      <4>3. /\ Cardinality(Of(s, active) \cup {t}) <= Cardinality(Of(s, active)) + 1
            /\ Cardinality(Of(s, queued) \cup {t}) <= Cardinality(Of(s, queued)) + 1
            /\ Cardinality(Of(s, active) \cup {t}) \in Nat /\ Cardinality(Of(s, queued) \cup {t}) \in Nat
        BY <4>2, AtMostOneMore
      <4>4. \/ /\ Cardinality(Of(s, active)) < MaxConcurrentHandlers
               /\ Of(s, active') = Of(s, active) \cup {t} /\ Of(s, queued') = Of(s, queued)
            \/ /\ Cardinality(Of(s, queued)) < MaxPendingHandlers
               /\ Of(s, queued') = Of(s, queued) \cup {t} /\ Of(s, active') = Of(s, active)
        BY <1>2, <1>4 DEF Of
      <4>5. /\ Cardinality(Of(s, active)) <= MaxConcurrentHandlers /\ MaxConcurrentHandlers \in Nat
            /\ Cardinality(Of(s, queued)) <= MaxPendingHandlers /\ MaxPendingHandlers \in Nat
        BY <1>1, AdmissionLimits DEF TasksExact
      <4>6. Cardinality(Of(s, active')) <= MaxConcurrentHandlers
        BY <4>2, <4>3, <4>4, <4>5
      <4>7. Cardinality(Of(s, queued')) <= MaxPendingHandlers
        BY <4>2, <4>3, <4>4, <4>5
      <4> QED  BY <3>2, <4>6, <4>7
    <3> QED  BY <3>1, <3>2
  <2> QED  BY <2>1, <2>2 DEF TasksExact, Of
<1>8. \A q \in Sessions \ {s} : Live(q)' = Live(q) /\ Of(q, queued') = Of(q, queued)
  BY <1>2, <1>4 DEF Live, Of
<1>9. WorkStaysCharged'
  BY <1>1, <1>2, <1>3, <1>8 DEF WorkStaysCharged
<1>10. FinalizedIsWaitedFor'
  BY <1>1, <1>2, <1>3, <1>8 DEF FinalizedIsWaitedFor, Of, TypeOK
<1>11. SlotsExact' /\ RegistryExact' /\ NewIsUntouched' /\ AdmittingIsKnown' /\ DownIsOff'
  BY <1>1, <1>2 DEF SlotsExact, RegistryExact, NewIsUntouched, AdmittingIsKnown, DownIsOff
<1>12. StoppedIsQuiet'
  BY <1>2, <1>3, IntakeOpenIsServing DEF StoppedIsQuiet
<1> QED  BY <1>5, <1>6, <1>7, <1>9, <1>10, <1>11, <1>12 DEF IndInv, ChargesExact, RegistryKept

\* A task that settles leaves the tasks; one that takes its place was counted before.
LEMMA HandlerSettlesKeeps ==
    ASSUME IndInv, NEW t \in Tasks, HandlerSettles(t)
    PROVE  IndInv'
<1> USE DEF serverVars
<1> DEFINE s == t[1]
<1> DEFINE waiting == Of(s, queued)
<1>1. /\ TypeOK /\ SlotsExact /\ ReservationsExact /\ WorkStaysCharged /\ RegistryExact
      /\ StoppedIsQuiet /\ TasksExact /\ NewIsUntouched /\ AdmittingIsKnown /\ FinalizedIsWaitedFor
      /\ DownIsOff
  BY DEF IndInv, ChargesExact, RegistryKept
<1>2. /\ t \in active /\ reserved' = reserved - 1
      /\ \/ active' = active \ {t} /\ queued' = queued
         \/ \E next \in waiting : active' = (active \ {t}) \cup {next} /\ queued' = queued \ {next}
      /\ UNCHANGED <<pc, work, closed, closing, cancelled, intakeOff, finalized, sessions, awaits,
                     outstanding, ipActive, pumps, serverVars, accepted>>
  BY DEF HandlerSettles
<1>3. s \in Sessions
  BY DEF Tasks
<1>4. active' \cup queued' = (active \cup queued) \ {t} /\ queued' \subseteq queued /\ active' \cap queued' = {}
  BY <1>1, <1>2 DEF TasksExact, Of
<1>5. ReservationsExact' /\ reserved' \in 0..HandlerLimit
  <2>1. active \cup queued \subseteq Tasks /\ active' \cup queued' \subseteq Tasks
    BY <1>1, <1>4 DEF TypeOK
  <2>2. /\ IsFiniteSet(active \cup queued) /\ Cardinality(active \cup queued) \in Nat
        /\ Cardinality(active' \cup queued') \in Nat
    BY <2>1, TaskSetsFinite
  <2>3. Cardinality(active' \cup queued') = Cardinality(active \cup queued) - 1
    BY <1>2, <1>4, <2>2, FS_RemoveElement
  <2>4. Admitting' = Admitting
    BY <1>2 DEF Admitting
  <2>5. Cardinality(Admitting) \in Nat
    BY SessionSetsFinite DEF Admitting
  <2> QED  BY <1>1, <1>2, <2>2, <2>3, <2>4, <2>5, AdmissionLimits DEF ReservationsExact, TypeOK
<1>6. TypeOK'
  <2>1. active' \subseteq Tasks /\ queued' \subseteq Tasks
    BY <1>1, <1>4 DEF TypeOK
  <2> QED  BY <1>1, <1>2, <1>5, <2>1 DEF TypeOK
<1>7. TasksExact'
  <2>1. ASSUME NEW q \in Sessions
        PROVE  Cardinality(Of(q, active')) <= MaxConcurrentHandlers /\ Cardinality(Of(q, queued')) <= MaxPendingHandlers
    <3>1. Of(q, active) \subseteq Tasks /\ Of(q, queued) \subseteq Tasks /\ Of(q, queued') \subseteq Of(q, queued)
      BY <1>1, <1>4 DEF Of, TypeOK
    <3>2. /\ IsFiniteSet(Of(q, active)) /\ Cardinality(Of(q, active)) \in Nat
          /\ IsFiniteSet(Of(q, queued)) /\ Cardinality(Of(q, queued)) \in Nat
      BY <3>1, TaskSetsFinite
    <3>3. Cardinality(Of(q, queued')) <= Cardinality(Of(q, queued)) /\ Cardinality(Of(q, queued')) \in Nat
      BY <3>1, <3>2, FS_Subset, FS_CardinalityType
    <3>4. Cardinality(Of(q, active')) <= Cardinality(Of(q, active)) /\ Cardinality(Of(q, active')) \in Nat
      <4>1. CASE q # s \/ active' = active \ {t}
        <5>1. Of(q, active') \subseteq Of(q, active)
          BY <1>2, <4>1 DEF Of
        <5> QED  BY <3>2, <5>1, FS_Subset, FS_CardinalityType
      <4>2. CASE q = s /\ \E next \in waiting : active' = (active \ {t}) \cup {next}
        <5>1. PICK next \in waiting : active' = (active \ {t}) \cup {next}
          BY <4>2
        <5>2. Of(q, active') = (Of(q, active) \ {t}) \cup {next} /\ t \in Of(q, active)
          BY <1>2, <4>2, <5>1 DEF Of
        <5>3. /\ IsFiniteSet(Of(q, active) \ {t}) /\ Cardinality(Of(q, active) \ {t}) = Cardinality(Of(q, active)) - 1
              /\ Cardinality(Of(q, active) \ {t}) \in Nat
          BY <3>2, <5>2, FS_RemoveElement, FS_CardinalityType
        <5>4. /\ Cardinality((Of(q, active) \ {t}) \cup {next}) <= Cardinality(Of(q, active) \ {t}) + 1
              /\ Cardinality((Of(q, active) \ {t}) \cup {next}) \in Nat
          BY <5>3, AtMostOneMore
        <5> QED  BY <3>2, <5>2, <5>3, <5>4
      <4> QED  BY <1>2, <4>1, <4>2
    <3> QED  BY <1>1, <3>2, <3>3, <3>4, AdmissionLimits DEF TasksExact
  <2> QED  BY <1>4, <2>1 DEF TasksExact, Of
<1>8. \A q \in Sessions : Live(q)' \subseteq Live(q) /\ Of(q, queued') \subseteq Of(q, queued)
  <2>1. \A q \in Sessions : Of(q, active') \cup Of(q, queued') \subseteq Of(q, active) \cup Of(q, queued)
    BY <1>4 DEF Of
  <2>2. \A q \in Sessions : Of(q, active)' = Of(q, active') /\ Of(q, queued)' = Of(q, queued')
    BY DEF Of
  <2>3. \A q \in Sessions : Of(q, queued') \subseteq Of(q, queued)
    BY <1>4 DEF Of
  <2> QED  BY <1>2, <2>1, <2>2, <2>3 DEF Live
<1>9. WorkStaysCharged'
  BY <1>1, <1>2, <1>8 DEF WorkStaysCharged
<1>10. FinalizedIsWaitedFor'
  <2>1. \A q \in Sessions : Of(q, queued)' = Of(q, queued')
    BY DEF Of
  <2> QED  BY <1>1, <1>2, <1>8, <2>1 DEF FinalizedIsWaitedFor, TypeOK
<1>11. SlotsExact' /\ RegistryExact' /\ NewIsUntouched' /\ AdmittingIsKnown' /\ DownIsOff'
  BY <1>1, <1>2 DEF SlotsExact, RegistryExact, NewIsUntouched, AdmittingIsKnown, DownIsOff
<1>12. StoppedIsQuiet'
  BY <1>1, <1>2, <1>4 DEF StoppedIsQuiet
<1> QED  BY <1>5, <1>6, <1>7, <1>9, <1>10, <1>11, <1>12 DEF IndInv, ChargesExact, RegistryKept

-----------------------------------------------------------------------------
\* Nothing is charged before the first session.
LEMMA InitEstablishes ==
    ASSUME Init
    PROVE  IndInv
<1>1. TypeOK
  <2>1. reserved \in 0..HandlerLimit /\ ipActive \in [Ips -> 0..IpMaxSessions]
    BY AdmissionLimits DEF Init
  <2> QED  BY <2>1 DEF Init, TypeOK
<1>2. Cardinality({}) = 0
  BY FS_EmptySet
<1>3. SlotsExact
  <2>1. \A ip \in Ips : {s \in outstanding : IpOf[s] = ip} = {}
    BY DEF Init
  <2> QED  BY <1>2, <2>1, AdmissionLimits DEF Init, SlotsExact
<1>4. ReservationsExact
  <2>1. Admitting = {} /\ active \cup queued = {}
    BY DEF Init, Admitting
  <2> QED  BY <1>2, <2>1 DEF Init, ReservationsExact
<1>5. WorkStaysCharged
  BY DEF Init, WorkStaysCharged, Live, Of
<1>6. RegistryExact /\ StoppedIsQuiet
  BY AdmissionSessions DEF Init, RegistryExact, StoppedIsQuiet
<1>7. TasksExact
  <2>1. \A s \in Sessions : Of(s, active) = {} /\ Of(s, queued) = {}
    BY DEF Init, Of
  <2> QED  BY <1>2, <2>1, AdmissionLimits DEF Init, TasksExact
<1>8. NewIsUntouched /\ AdmittingIsKnown /\ FinalizedIsWaitedFor /\ DownIsOff
  BY DEF Init, NewIsUntouched, AdmittingIsKnown, FinalizedIsWaitedFor, DownIsOff
<1> QED  BY <1>1, <1>3, <1>4, <1>5, <1>6, <1>7, <1>8 DEF IndInv, ChargesExact, RegistryKept

\* Every step keeps the invariant.
LEMMA NextKeeps ==
    ASSUME IndInv, [Next]_vars
    PROVE  IndInv'
<1>1. ASSUME NEW s \in Sessions, Accept(s)
      PROVE  IndInv'
  BY <1>1, AcceptKeeps
<1>2. ASSUME NEW s \in Sessions, Reject(s)
      PROVE  IndInv'
  BY <1>2, RejectKeeps
<1>3. ASSUME NEW s \in Sessions, AdmissionStep(s)
      PROVE  IndInv'
  <2>1. CASE WorkStarts(s)
    BY <2>1, WorkStartsKeeps
  <2>2. ASSUME NEW outcome \in {"ok", "failed"}, WorkSettles(s, outcome)
        PROVE  IndInv'
    BY <2>2, WorkSettlesKeeps
  <2>3. CASE AdmissionFails(s) \/ AdmissionTimesOut(s)
    BY <2>3, AdmissionFailsKeeps
  <2>4. CASE AdmissionSucceeds(s)
    BY <2>4, AdmissionSucceedsKeeps
  <2> QED  BY <1>3, <2>1, <2>2, <2>3, <2>4 DEF AdmissionStep
<1>4. ASSUME NEW s \in Sessions, SessionAborts(s)
      PROVE  IndInv'
  BY <1>4, SessionAbortsKeeps
<1>5. ASSUME NEW s \in Sessions, Retire(s)
      PROVE  IndInv'
  BY <1>5, RetireKeeps
<1>6. ASSUME NEW s \in Sessions, DrainerStarts(s)
      PROVE  IndInv'
  BY <1>6, DrainerStartsKeeps
<1>7. ASSUME NEW s \in Sessions, HandlerSubmitted(s)
      PROVE  IndInv'
  BY <1>7, HandlerSubmittedKeeps
<1>8. ASSUME NEW s \in Sessions, RuntimeCloses(s)
      PROVE  IndInv'
  BY <1>8, RuntimeClosesKeeps
<1>9. ASSUME NEW s \in Sessions, NEW k \in Pumps, PumpEnds(s, k)
      PROVE  IndInv'
  BY <1>9, PumpEndsKeeps
<1>10. ASSUME NEW t \in Tasks, HandlerSettles(t)
       PROVE  IndInv'
  BY <1>10, HandlerSettlesKeeps
<1>11. CASE StopBegins \/ StopForces \/ StopAgain \/ Start
  BY <1>11, StopBeginsKeeps, StopForcesKeeps, StartKeeps
<1>12. ASSUME NEW stopped \in BOOLEAN, StopEnds(stopped)
       PROVE  IndInv'
  BY <1>12, StopEndsKeeps
<1>13. CASE UNCHANGED vars
  BY <1>13, StutterKeeps
<1> QED
  BY <1>1, <1>2, <1>3, <1>4, <1>5, <1>6, <1>7, <1>8, <1>9, <1>10, <1>11, <1>12, <1>13 DEF Next

\* The server always satisfies it.
LEMMA AlwaysIndInv == Spec => []IndInv
<1>1. Init => IndInv
  BY InitEstablishes
<1>2. IndInv /\ [Next]_vars => IndInv'
  BY NextKeeps
<1> QED  BY <1>1, <1>2, PTL DEF Spec

-----------------------------------------------------------------------------
\* A step brings nothing new to s: no acceptance, no pump, no handler.
NothingNew(s) ==
    /\ s \in accepted' => s \in accepted
    /\ pumps'[s] \subseteq pumps[s]
    /\ Of(s, active' \cup queued') \subseteq Of(s, active \cup queued)

\* No step brings anything new to a session that has retired, that was rejected, or
\* whose intake was stopped.
LEMMA StoppedIntakeTakesNothing ==
    ASSUME IndInv, Next, NEW s \in Sessions, s \notin outstanding \/ s \in intakeOff
    PROVE  NothingNew(s)
<1> USE DEF NothingNew
<1>1. /\ TypeOK /\ WorkStaysCharged /\ TasksExact /\ NewIsUntouched /\ AdmittingIsKnown
      /\ FinalizedIsWaitedFor
  BY DEF IndInv, ChargesExact
<1>2. ASSUME UNCHANGED <<accepted, pumps, active>>, queued' \subseteq queued
      PROVE  NothingNew(s)
  BY <1>2 DEF Of
<1>3. ASSUME NEW q \in Sessions, Accept(q)
      PROVE  NothingNew(s)
  BY <1>2, <1>3 DEF Accept, Finalize, Discard
<1>4. ASSUME NEW q \in Sessions, Reject(q) \/ WorkStarts(q) \/ AdmissionFails(q) \/ AdmissionTimesOut(q)
      PROVE  NothingNew(s)
  BY <1>2, <1>4 DEF Reject, WorkStarts, AdmissionFails, AdmissionTimesOut, managedVars
<1>5. ASSUME NEW q \in Sessions, \E outcome \in {"ok", "failed"} : WorkSettles(q, outcome)
      PROVE  NothingNew(s)
  BY <1>2, <1>5 DEF WorkSettles
<1>6. ASSUME NEW q \in Sessions, AdmissionSucceeds(q)
      PROVE  NothingNew(s)
  <2>1. active' = active /\ queued' = queued
    BY <1>6 DEF AdmissionSucceeds, managedVars
  <2>2. CASE MayServe(q)
    <3>1. q \in outstanding /\ q \notin intakeOff
      BY <1>1, <1>6, <2>2 DEF AdmissionSucceeds, MayServe, AdmittingIsKnown, FinalizedIsWaitedFor
    <3>2. pumps'[s] = pumps[s] /\ (s \in accepted' => s \in accepted)
      BY <1>1, <1>6, <2>2, <3>1 DEF AdmissionSucceeds, TypeOK
    <3> QED  BY <2>1, <3>2
  <2>3. CASE ~MayServe(q)
    BY <1>2, <1>6, <2>1, <2>3 DEF AdmissionSucceeds
  <2> QED  BY <2>2, <2>3
<1>7. ASSUME NEW q \in Sessions, SessionAborts(q) \/ Retire(q)
      PROVE  NothingNew(s)
  BY <1>2, <1>7 DEF SessionAborts, Retire, Finalize, Discard
<1>8. ASSUME NEW q \in Sessions, DrainerStarts(q)
      PROVE  NothingNew(s)
  <2>1. active' = active /\ queued' = queued /\ accepted' = accepted
    BY <1>8 DEF DrainerStarts, managedVars
  <2>2. q \in outstanding /\ q \notin intakeOff
    BY <1>1, <1>8 DEF DrainerStarts, WorkStaysCharged, Live
  <2>3. pumps'[s] = pumps[s]
    BY <1>1, <1>8, <2>2 DEF DrainerStarts, TypeOK
  <2> QED  BY <2>1, <2>3
<1>9. ASSUME NEW q \in Sessions, HandlerSubmitted(q)
      PROVE  NothingNew(s)
  <2>1. pumps' = pumps /\ accepted' = accepted
    BY <1>9 DEF HandlerSubmitted
  <2>2. q \in outstanding /\ q \notin intakeOff
    BY <1>1, <1>9 DEF HandlerSubmitted, WorkStaysCharged, Live
  <2>3. active' \cup queued' = (active \cup queued) \cup {FreshTask(q)} /\ FreshTask(q)[1] = q
    BY <1>1, <1>9, FreshTaskIsFresh DEF HandlerSubmitted
  <2> QED  BY <2>1, <2>2, <2>3 DEF Of
<1>10. ASSUME NEW q \in Sessions, RuntimeCloses(q)
       PROVE  NothingNew(s)
  BY <1>2, <1>10 DEF RuntimeCloses, managedVars
<1>11. ASSUME NEW q \in Sessions, NEW k \in Pumps, PumpEnds(q, k)
       PROVE  NothingNew(s)
  BY <1>1, <1>11 DEF PumpEnds, TypeOK, managedVars
<1>12. ASSUME NEW t \in Tasks, HandlerSettles(t)
       PROVE  NothingNew(s)
  <2>1. active' \cup queued' \subseteq active \cup queued
    BY <1>12 DEF HandlerSettles, Of
  <2> QED  BY <1>12, <2>1 DEF HandlerSettles, Of
<1>13. CASE StopBegins \/ StopForces \/ StopAgain \/ Start \/ \E stopped \in BOOLEAN : StopEnds(stopped)
  BY <1>2, <1>13
     DEF StopBegins, StopForces, StopAgain, Start, StopEnds, FinalizeAll, Finalize, Discard, managedVars
<1> QED
  BY <1>3, <1>4, <1>5, <1>6, <1>7, <1>8, <1>9, <1>10, <1>11, <1>12, <1>13 DEF Next, AdmissionStep

-----------------------------------------------------------------------------
(* The theorems *)

\* finalizeSession(), retireSession() and the early returns of acceptSession():
\* the places, address slots and handler reservations counted are exactly those
\* of sessions some of whose work goes on, and no limit is exceeded.
THEOREM ChargesAreExact == Spec => []ChargesExact
<1>1. IndInv => ChargesExact
  BY DEF IndInv
<1> QED  BY <1>1, AlwaysIndInv, PTL

\* validateSession(), finalizeSession() and performStop(): the sessions map holds
\* exactly the outstanding sessions that are not finalized, each under its own
\* id, and a stopped server has nothing left to serve.
THEOREM RegistryIsKept == Spec => []RegistryKept
<1>1. IndInv => RegistryKept
  BY DEF IndInv
<1> QED  BY <1>1, AlwaysIndInv, PTL

\* The checks after the awaits of acceptSession() and those of the pumps: no
\* session is accepted, no pump started and no handler submitted once the server
\* stops or the session is finalized.
THEOREM WorkIsTakenOnlyWhileServing == Spec => TakesWorkOnlyWhileServing
<1> DEFINE Takes(s) ==
             \/ s \in accepted' \ accepted
             \/ pumps'[s] \ pumps[s] # {}
             \/ Cardinality(Of(s, active' \cup queued')) > Cardinality(Of(s, active \cup queued))
<1> DEFINE Served == \A s \in Sessions : Takes(s) => lifecycle = "RUNNING" /\ sessions[IdOf[s]] = s
<1>1. ASSUME IndInv, NEW s \in Sessions, NothingNew(s)
      PROVE  ~Takes(s)
  <2>1. Of(s, active \cup queued) \subseteq Tasks /\ Of(s, active' \cup queued') \subseteq Of(s, active \cup queued)
    BY <1>1 DEF IndInv, ChargesExact, Of, TypeOK, NothingNew
  <2>2. /\ Cardinality(Of(s, active' \cup queued')) <= Cardinality(Of(s, active \cup queued))
        /\ Cardinality(Of(s, active \cup queued)) \in Nat /\ Cardinality(Of(s, active' \cup queued')) \in Nat
    BY <2>1, TaskSetsFinite, FS_Subset, FS_CardinalityType
  <2> QED  BY <1>1, <2>2 DEF NothingNew
<1>2. IndInv /\ Next => Served
  BY <1>1, StoppedIntakeTakesNothing, IntakeOpenIsServing
<1>3. IndInv /\ [Next]_vars => [Served]_vars
  BY <1>2
<1>4. TakesWorkOnlyWhileServing <=> [][Served]_vars
  BY DEF TakesWorkOnlyWhileServing
<1> QED  BY <1>3, <1>4, AlwaysIndInv, PTL DEF Spec
=============================================================================
