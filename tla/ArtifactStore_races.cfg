CONSTANTS
    w1 = w1
    w2 = w2
    w3 = w3
    x1 = x1
    x2 = x2
    p1 = p1
    p2 = p2
    Writers = {w1, w2, w3}
    Readers = {x1, x2}
    Paths = {p1, p2}
    PathOf <- MCPathOf
    Faulty = {w1, w2}
    Mortal = {w1, w3}
SPECIFICATION Spec
INVARIANTS
    TypeOK
    ReturnedStaysWritten
    ReadersGetWhatWasWritten
CHECK_DEADLOCK FALSE
