CONSTANTS
    a = a
    b = b
    c = c
    m1 = m1
    m2 = m2
    m3 = m3
    m4 = m4
    s1 = s1
    s2 = s2
    Peer <- TwoPeers
    Msg = {m1, m2}
    Src <- FromA
    Dst <- ToB
    Mode <- AllDirect
    Faulty = {}
    SendRetries = 0
    RelayRetries = 0
    SeenLimit = 1
    Slot = {s1, s2}
    Churner = {b}
    HttpFaults = FALSE
    InMemory = FALSE
    MaxSends = 2
    MaxRestarts = 1
SPECIFICATION Spec
CHECK_DEADLOCK FALSE
SYMMETRY Alike
INVARIANTS
    StatsBalance
    NoSilentLoss
    AtMostOnce
    SeenIsBounded
