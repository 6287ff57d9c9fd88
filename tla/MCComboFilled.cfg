SPECIFICATION ComboSpec
CONSTANTS
    Coid = {o1}
    Quantity = {1}
    NoFill = NoFill
    Caller = {k1}
    MaxPlace = 1
    PartialStatus = {"Submitted"}
CHECK_DEADLOCK FALSE
INVARIANT FilledIsLearned
