SPECIFICATION LiveSpec
CONSTANTS
    s1 = s1
    s2 = s2
    id = id
    ipA = ipA
    ipB = ipB
    NoSession = NoSession
    Sessions = {s1, s2}
    Ids = {id}
    Ips = {ipA, ipB}
    IdOf <- MCIdOf
    IpOf <- MCIpOf
    Kinds = {"datagrams"}
    MaxSessions = 2
    IpMaxSessions = 1
    HandlerLimit = 2
    MaxConcurrentHandlers = 1
    MaxPendingHandlers = 1
INVARIANTS ChargesExact RegistryKept
PROPERTIES TakesWorkOnlyWhileServing EndedSessionsRetire RejectedSessionsRetire StopRetiresSessions
CHECK_DEADLOCK FALSE
