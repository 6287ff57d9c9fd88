SPECIFICATION Spec
CONSTANTS
    MaxDay = 2
    MaxEntry = 1
    MaxRun = 3
    MaxOrder = 4
    MaxElsewhere = 1
    Foreign = {f}
    f = f
    StrategyOf <- OneStrategy
    LearnsFills = TRUE
    BrokerDedups = TRUE
CHECK_DEADLOCK FALSE
INVARIANTS NeverInverted RegistryIsTrue DivergenceHasACause
