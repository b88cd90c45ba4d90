CONSTANTS
    a = a
    b = b
    c = c
    m1 = m1
    m2 = m2
    m3 = m3
    m4 = m4
    s1 = s1
    s2 = s2
    Peer <- TwoPeers
    Msg = {m1}
    Src <- FromA
    Dst <- ToB
    Mode <- AllDirect
    Faulty = {m1}
    SendRetries = 1
    RelayRetries = 0
    SeenLimit = 1
    Slot = {}
    Churner = {}
    HttpFaults = FALSE
    InMemory = FALSE
    MaxSends = 1
    MaxRestarts = 0
SPECIFICATION Spec
CHECK_DEADLOCK FALSE
INVARIANTS
    AckMeansHandled
