SPECIFICATION ReconcileSpec
CONSTANTS
    OrderId = {o1}
    Instrument = {mes}
    MaxQuantity = 1
    Funds = 1
    Cadence <- MCCadence
    SleepTime = 1
    Delay = 1
    MaxAge = 9
INVARIANT RunsOnTime
PROPERTY EscalationIsGrounded DifferenceIsEscalated
