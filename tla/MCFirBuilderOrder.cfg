\* Two FIRs of one MAC, the second with more coefficients than the first.
SPECIFICATION Spec
CONSTANTS
    NumTimeSlots = 16
    MaxInputs = 2
    FirNumbers = {0, 1}
    TapCounts = {2, 4}
    Rates = {32}
    DefaultRate = 32
INVARIANTS
    SlotsReadOwnFifo
CHECK_DEADLOCK FALSE
