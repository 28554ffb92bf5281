CONSTANTS
    c1 = c1
    c2 = c2
    c3 = c3
    c4 = c4
    Callers = {c1, c2, c3, c4}
    Persisting = {c1}
    Faulty = {c1}
    Cancelled = {}
    Overlapping = FALSE
SPECIFICATION Spec
INVARIANTS
    StoppedAtMostOnce
CHECK_DEADLOCK FALSE
