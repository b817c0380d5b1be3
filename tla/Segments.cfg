SPECIFICATION Spec
CONSTANTS
    Text = {"a", "b"}
    MaxBytes = 5
INVARIANT LinesArrive
CHECK_DEADLOCK FALSE
