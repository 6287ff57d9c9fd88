SPECIFICATION Spec
CONSTANTS
    LastTick = 3
    ForceTick = 2
    MaxEntryRuns = 3
CHECK_DEADLOCK FALSE
INVARIANTS OneOrderEach MisstatedHasACause DayEndsClosed
