CONSTANTS
    a = a
    b = b
    c = c
    m1 = m1
    m2 = m2
    m3 = m3
    m4 = m4
    s1 = s1
    s2 = s2
    Peer <- ThreePeers
    Msg = {m1, m2, m3, m4}
    Src <- FromA
    Dst <- ToB
    Mode <- EachMode
    Faulty = {m4}
    SendRetries = 1
    RelayRetries = 1
    SeenLimit = 1
    Slot = {s1}
    Churner = {b}
    HttpFaults = TRUE
    InMemory = TRUE
    MaxSends = 1
    MaxRestarts = 0
SPECIFICATION FairSpec
CHECK_DEADLOCK FALSE
INVARIANTS
    TypeOK
    DeliveredWasHandled
    LedgerTruthful
    RowsTruthful
    DeliveredFileArrives
    NoSilentLoss
PROPERTIES
    SendTerminates
    QueueDrains
    ImplementsFate
    SendAdvances
