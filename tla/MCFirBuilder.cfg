SPECIFICATION Spec
CONSTANTS
    NumTimeSlots = 16
    MaxInputs = 2
    FirNumbers = {0, 1, 2}
    TapCounts = {1, 3, 4, 6}
    Rates = {0, 1, 8, 12, 32}
    DefaultRate = 32
INVARIANTS
    TypeOK
    RowsWhole
    UpdatedInTime
    RegionsApart
    OnlyWholeFirs
PROPERTIES
    SlotsKept
CHECK_DEADLOCK FALSE
