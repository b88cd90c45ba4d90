CONSTANTS
    t1 = t1
    t2 = t2
    Task = {t1, t2}
    ChurnTask = {t1}
    HttpFaults = TRUE
    MaxWipes = 1
SPECIFICATION FairSpec
CHECK_DEADLOCK FALSE
INVARIANTS
    TypeOK
    OnlineMeansListening
PROPERTIES
    PresentPeerIsListed
    DeadPeerIsDelisted
    AwayPeerIsDelisted
