CONSTANTS
    a = a
    b = b
    c = c
    g1 = g1
    s1 = s1
    Peer = {a, b, c}
    Self = a
    Group = {g1}
    Owner <- ByB
    Named <- NamesA
    Joins <- AddsC
    Send = {s1}
    InMemory = FALSE
    Faulty = {}
SPECIFICATION Spec
CHECK_DEADLOCK FALSE
INVARIANTS
    EachMemberIsServed
