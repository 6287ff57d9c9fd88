SPECIFICATION Spec
CONSTANTS
    Order = {o1, o2}
    Quantity = {1, 2}
    Fill = {0, 1, 2, 3}
    NoFill = NoFill
    MaxLog = 5
SYMMETRY Symmetry
CHECK_DEADLOCK FALSE
INVARIANTS LogIsLegalPath FillsAreAccounted
PROPERTY TerminalIsFinal
