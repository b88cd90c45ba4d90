CONSTANTS
    t1 = t1
    t2 = t2
    Task = {t1, t2}
    ChurnTask = {t1, t2}
    HttpFaults = FALSE
    MaxWipes = 0
SPECIFICATION Spec
CHECK_DEADLOCK FALSE
INVARIANTS
    StopChurnRestores
