CONSTANTS
    a = a
    b = b
    r1 = r1
    r2 = r2
    c1 = c1
    c2 = c2
    c3 = c3
    none = none
    Port = {1, 2}
    None = none
    PeerId = {a, b}
    Request = {r1}
    Child = {c1, c2, c3}
SPECIFICATION Spec
CHECK_DEADLOCK FALSE
SYMMETRY Processes
INVARIANTS
    TypeOK
    RecordsTellTheTruth
    NoOrphans
