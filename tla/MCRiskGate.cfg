SPECIFICATION Spec
CONSTANTS
    Strategy = {s1, s2}
    MaxSeq = 1
    MaxTotal = 2
    MaxInstances = 2
    DailyLossCap = 1
    WeeklyLossCap = 2
    Window = 1
    MaxInFlight = 2
    MaxNow = 2
    MaxEvents = 4
    MaxMark = 1
    MaxClaims = 4
CHECK_DEADLOCK FALSE
SYMMETRY Symmetry
CONSTRAINT OneAtATime
INVARIANTS ResumesOnlyReconciled PositionCapOverrun OncePerWindow
PROPERTY NoOrderPastLossCap
