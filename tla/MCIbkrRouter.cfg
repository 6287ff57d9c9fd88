SPECIFICATION Spec
CONSTANTS
    Coid = {o1}
    Quantity = {2}
    NoFill = NoFill
    MaxPlace = 2
    PartialStatus = {"Submitted", "Filled"}
CHECK_DEADLOCK FALSE
INVARIANT TerminalAgrees
PROPERTIES ImplementsLifecycle OutcomeIsLearned
