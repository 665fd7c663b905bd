------------------------------- MODULE IpSlots -------------------------------
(***************************************************************************)
(* The per-address session limits of the runtime (acquireIpSlot,           *)
(* sweepExpiredIpRecords and releaseIpSlot of webtransport-runtime.ts): a  *)
(* bounded table of records, each with the sessions its address holds and  *)
(* the times of its recent successful attempts.                            *)
(*                                                                         *)
(* The caller asks for a slot once per session, holds at most one for it   *)
(* and releases it once; it asks only while fewer than MaxSessions         *)
(* sessions hold one, which is the global limit validateSession() checks   *)
(* first.  The clock is Date.now(), assumed not to step back; Window       *)
(* stands for its 1000 ms.                                                 *)
(*                                                                         *)
(* granted and refused are history variables: they record the answers, so  *)
(* that a refusal is a step also when it leaves the table as it was.       *)
(***************************************************************************)
EXTENDS Integers, Sequences, FiniteSets

CONSTANTS Sessions, Ips,
          IpOf,               \* remoteAddress of each session
          MaxSessions,        \* options.limits.server.maxSessions
          IpMaxSessions,      \* options.limits.ip.maxSessions
          SessionsPerSecond,  \* options.limits.ip.sessionsPerSecond
          Window,             \* one second, in ticks
          MaxTime             \* bound: how far the clock runs

ASSUME IpOfType == IpOf \in [Sessions -> Ips]
ASSUME SessionsFinite == IsFiniteSet(Sessions)
ASSUME IpLimitsPositive ==
    {MaxSessions, IpMaxSessions, SessionsPerSecond, Window, MaxTime} \subseteq Nat \ {0}

VARIABLES now,
          records,   \* the keys of ipRecords
          active,    \* record.active
          attempts,  \* record.attempts, oldest first
          held,      \* the sessions that hold a slot
          granted,   \* history: the time of each grant
          refused    \* history: the sessions that were refused

ipVars == <<now, records, active, attempts, held, granted, refused>>
Never == -1 - Window

IpTypeOK ==
    /\ now \in Nat
    /\ records \subseteq Ips
    /\ active \in [Ips -> 0..IpMaxSessions]
    /\ attempts \in [Ips -> Seq(Nat)]
    /\ held \subseteq Sessions
    /\ granted \in [Sessions -> Int]
    /\ refused \subseteq Sessions

IpInit ==
    /\ now = 0
    /\ records = {}
    /\ active = [ip \in Ips |-> 0]
    /\ attempts = [ip \in Ips |-> <<>>]
    /\ held = {}
    /\ granted = [s \in Sessions |-> Never]
    /\ refused = {}

-----------------------------------------------------------------------------
\* The loop that shifts expired attempts from the front.
Expired(times) == Cardinality({i \in 1..Len(times) : \A j \in 1..i : times[j] <= now - Window})
Recent(times) == SubSeq(times, Expired(times) + 1, Len(times))

\* Mutant: sweeps every record without sessions, recent or not.
SweptIdle(full) == IF full THEN {ip \in records : active[ip] = 0} ELSE {}

\* Mutant: the table is never swept.
SweptNever(full) == {}

\* The records sweepExpiredIpRecords() deletes; it runs when the table is full.
Swept(full) ==
    IF full THEN {ip \in records : active[ip] = 0 /\ Recent(attempts[ip]) = <<>>} ELSE {}

Full == Cardinality(records) >= MaxSessions

\* Mutant: adds the record even if the sweep made no room.
RecordsForAlways(ip) == (records \ Swept(ip \notin records /\ Full)) \cup {ip}

\* The table once room was made for ip, or could not be.
RecordsFor(ip) ==
    LET kept == records \ Swept(ip \notin records /\ Full)
    IN  IF ip \in kept \/ Cardinality(kept) < MaxSessions THEN kept \cup {ip} ELSE kept

\* Attempts after the sweep and the shift for ip; a record that is not in the
\* table has none.
AttemptsFor(ip, table) ==
    [a \in Ips |->
        IF a \notin table THEN <<>>
        ELSE IF a = ip \/ (ip \notin records /\ Full /\ active[a] = 0) THEN Recent(attempts[a])
        ELSE attempts[a]]

\* Mutant: the last slot of an address is never given.
SlotAvailableTooEarly(ip, table) ==
    /\ ip \in table
    /\ active[ip] + 1 < IpMaxSessions
    /\ Len(Recent(attempts[ip])) < SessionsPerSecond

\* Mutant: one session too many.
SlotAvailableOffByOne(ip, table) ==
    /\ ip \in table
    /\ active[ip] <= IpMaxSessions
    /\ Len(Recent(attempts[ip])) < SessionsPerSecond

SlotAvailable(ip, table) ==
    /\ ip \in table
    /\ active[ip] < IpMaxSessions
    /\ Len(Recent(attempts[ip])) < SessionsPerSecond

Grant(s) ==
    LET ip == IpOf[s]
        table == RecordsFor(ip)
    IN  /\ SlotAvailable(ip, table)
        /\ records' = table
        /\ active' = [active EXCEPT ![ip] = @ + 1]
        /\ attempts' = [AttemptsFor(ip, table) EXCEPT ![ip] = Append(@, now)]
        /\ held' = held \cup {s}
        /\ granted' = [granted EXCEPT ![s] = now]
        /\ UNCHANGED refused

Refuse(s) ==
    LET ip == IpOf[s]
        table == RecordsFor(ip)
    IN  /\ ~SlotAvailable(ip, table)
        /\ records' = table
        /\ attempts' = AttemptsFor(ip, table)
        /\ refused' = refused \cup {s}
        /\ UNCHANGED <<active, held, granted>>

AcquireIpSlot(s) ==
    /\ s \notin held
    /\ granted[s] = Never /\ s \notin refused
    /\ Cardinality(held) < MaxSessions
    /\ Grant(s) \/ Refuse(s)
    /\ UNCHANGED now

\* Mutant: forgets the address when one of its sessions ends.
KeepsNothing(ip) == FALSE

\* Whether releaseIpSlot() keeps the record.
KeepsRecord(ip) == active[ip] > 1 \/ Recent(attempts[ip]) # <<>>

\* A record that is deleted takes its count along.
ReleaseRecord(ip) ==
    IF KeepsRecord(ip)
    THEN /\ active' = [active EXCEPT ![ip] = IF @ > 0 THEN @ - 1 ELSE 0]
         /\ attempts' = [attempts EXCEPT ![ip] = Recent(@)]
         /\ UNCHANGED records
    ELSE /\ active' = [active EXCEPT ![ip] = 0]
         /\ attempts' = [attempts EXCEPT ![ip] = <<>>]
         /\ records' = records \ {ip}

ReleaseIpSlot(s) ==
    /\ s \in held
    /\ held' = held \ {s}
    /\ IF IpOf[s] \in records
       THEN ReleaseRecord(IpOf[s])
       ELSE UNCHANGED <<records, active, attempts>>
    /\ UNCHANGED <<now, granted, refused>>

Tick ==
    /\ now < MaxTime
    /\ now' = now + 1
    /\ UNCHANGED <<records, active, attempts, held, granted, refused>>

IpNext == (\E s \in Sessions : AcquireIpSlot(s) \/ ReleaseIpSlot(s)) \/ Tick

IpSpec == IpInit /\ [][IpNext]_ipVars

-----------------------------------------------------------------------------
(* Properties *)

HeldBy(ip) == {s \in held : IpOf[s] = ip}

\* Each record counts exactly the sessions that hold one of its slots, and an
\* address without a record holds none: neither the sweep nor a release loses
\* a live record, so the clamp in releaseIpSlot() never hides a miscount.
SlotsExact ==
    /\ \A ip \in Ips : active[ip] = Cardinality(HeldBy(ip))
    /\ \A s \in held : IpOf[s] \in records

\* At most SessionsPerSecond grants to an address in any window, however its
\* record was released, swept and created again in between.
RateRespected ==
    \A ip \in Ips :
        Cardinality({s \in Sessions : IpOf[s] = ip /\ granted[s] > now - Window})
            <= SessionsPerSecond

\* The table is bounded by the global session limit.
TableBounded == Cardinality(records) <= MaxSessions

\* acquireIpSlot() answers false only because the address of the session holds
\* all its slots, was given all its attempts of this window, or because every
\* record of a full table has sessions or recent attempts.
RefusalJustified ==
    [][\A s \in refused' \ refused :
         \/ Cardinality(HeldBy(IpOf[s])) >= IpMaxSessions
         \/ Cardinality({u \in Sessions : IpOf[u] = IpOf[s] /\ granted[u] > now - Window})
                >= SessionsPerSecond
         \/ /\ Cardinality(records) >= MaxSessions
            /\ \A ip \in records : \E u \in Sessions :
                  IpOf[u] = ip /\ (u \in held \/ granted[u] > now - Window)]_ipVars

\* The table of addresses is exact and bounded.
TableExact == IpTypeOK /\ SlotsExact /\ TableBounded
=============================================================================
