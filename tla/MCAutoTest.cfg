SPECIFICATION AutoTestSpec
CONSTANTS
    SpecIds = {a, b}
    Content = {c1}
    Budget = 3
    MaxSpecs = 3
    Qualities <- MCQualities
    FirstYears = 4
    MaxYears = 6
    TrainYears = 3
    TestYears = 1
    RollYears = 1
    HoldoutLengths = {0, 1, 2}
    HoldoutPct = 50
    MinTrades = 30
    MinSharpe = 8
    TwoLog <- MCTwoLog
    MaxRun = 2
    OosPct = 50
    MedianSharpe = 8
    NegativePct = 20
SYMMETRY Alike
CHECK_DEADLOCK FALSE
INVARIANTS EveryVariantAccounted OverturnedOnlyByFewer HoldoutFresh
