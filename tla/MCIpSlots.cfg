SPECIFICATION IpSpec
CONSTANTS
    s1 = s1
    s2 = s2
    s3 = s3
    s4 = s4
    s5 = s5
    s6 = s6
    ipA = ipA
    ipB = ipB
    ipC = ipC
    ipD = ipD
    Sessions = {s1, s2, s3, s4, s5, s6}
    Ips = {ipA, ipB, ipC, ipD}
    IpOf <- MCIpOf
    MaxSessions = 3
    IpMaxSessions = 2
    SessionsPerSecond = 2
    Window = 2
    MaxTime = 4
SYMMETRY SessionSymmetry
INVARIANTS TableExact RateRespected
PROPERTIES RefusalJustified
CHECK_DEADLOCK FALSE
