SPECIFICATION Spec
CONSTANTS
    Text = {"a", "b"}
    MaxBytes = 6
INVARIANTS
    TypeOK
    OneEach
    NothingMixed
    WholeInTwo
CHECK_DEADLOCK FALSE
