SPECIFICATION FeatureSpec
CONSTANTS
    Sessions <- MCSessions
    Setups <- MCSetups
    Calendar <- MCCalendar
    Entry = 20
    Exit = 10
    LongA = FALSE
    RthLow = 0
    RthHigh = 80
    MaxHolding = 2
    MaxAttempts = 1
    Days = 6
    Horizon = 6
    MaxTears = 1
    Samples = 2
CHECK_DEADLOCK FALSE
INVARIANTS ValidatedIsTrue PanelIsLive PairRulesHold
PROPERTY RowsAreFinal
