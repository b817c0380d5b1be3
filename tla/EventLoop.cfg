SPECIFICATION Spec
CONSTANTS
    Fd = {4, 5}
    Listen = 3
    MaxInput = 1
    MaxLines = 1
    MaxBacklog = 1
INVARIANTS
    TypeOK
    EntriesMatch
    LinesAwaitPollout
    StopsClean
PROPERTIES
    NothingDropped
    LinesExecuted
    ConnectionsAccepted
    StopsUnlessQuiet
    ImplementsService
CHECK_DEADLOCK FALSE
