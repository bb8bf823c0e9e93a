CONSTANTS
    Incarnations = 3
    MaxStarting = 2
    MaxOvertaken = 1
    MaxAttempts = 3
    None = None
SPECIFICATION Spec
INVARIANTS SupervisedOneOwner DiagnosisTruthful
PROPERTIES StartsSettle
CHECK_DEADLOCK FALSE
