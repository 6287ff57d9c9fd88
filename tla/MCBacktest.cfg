SPECIFICATION Spec
CONSTANTS
    Strategies <- MCStrategies
    MaxPrice = 2
    MaxSession = 2
    Far = 2
CHECK_DEADLOCK FALSE
INVARIANTS OneTradePerEntry DecidedThisSession StopFromOwnPrices SignalIsRecent
