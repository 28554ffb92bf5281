CONSTANTS
    c1 = c1
    c2 = c2
    c3 = c3
    c4 = c4
    Callers = {c1, c2, c3, c4}
    Persisting = {c1, c3}
    Faulty = {c1, c2, c4}
    Cancelled = {c2, c3}
    Overlapping = TRUE
SPECIFICATION Spec
INVARIANTS
    TypeOK
    StateTellsWhatWasKept
    ReturnMeansTracingSettled
CHECK_DEADLOCK FALSE
