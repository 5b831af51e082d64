SPECIFICATION Spec
CONSTANTS
    Bridges = {b1}
    Operators = {op}
    MaxRuns = 3
    MaxFaults = 1
    TimeLimit = 1
INVARIANTS
    TypeOK
    OkMeansExecuted
    SetupInOrder
    RefusedOnlyForRival
PROPERTIES
    CallsReturn
CHECK_DEADLOCK FALSE
