SPECIFICATION ComboSpec
CONSTANTS
    Coid = {o1}
    Quantity = {2}
    NoFill = NoFill
    Caller = {k1, k2}
    MaxPlace = 2
    PartialStatus = {"Submitted", "Filled"}
CHECK_DEADLOCK FALSE
INVARIANT OverIsOver
PROPERTY CombosImplementLifecycle
