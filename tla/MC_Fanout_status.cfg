CONSTANTS
    a = a
    b = b
    c = c
    g1 = g1
    s1 = s1
    Peer = {a, b, c}
    Self = a
    Group = {g1}
    Owner <- ByB
    Named <- NamesA
    Joins <- AddsC
    Send = {s1}
    InMemory = TRUE
    Faulty <- FaultyAtB
SPECIFICATION FairSpec
CHECK_DEADLOCK FALSE
INVARIANTS
    TypeOK
    CreatedIsWhole
    CopyWithinGroup
    NoStrangers
    NobodyForgotten
    StatusIsTrue
PROPERTIES
    CopyCatchesUp
    AnswersStand
