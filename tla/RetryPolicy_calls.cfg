SPECIFICATION Spec
CONSTANTS
    Failures <- MCFailures
    Kinds <- MCKinds
    MaxAttempts = 3
    Delays = {0, 3}
    NoFailure = NoFailure
INVARIANTS
    NeverMoreThanDeclared
    NothingFinalIsRepeated
    CallerIsToldOfTheLast
    DelaysAreBounded
CHECK_DEADLOCK FALSE
