SPECIFICATION Spec
CONSTANTS
    NumTimeSlots = 16
    MaxInputs = 15
    Filters <- MCFilters
    MaxSamples <- MCSamples
    ResetSamples <- MCResetSamples
    MaxResets = 1
INVARIANTS
    TypeOK
    TakenInOrder
    BufferHoldsWindow
PROPERTIES
    AnswersHoldSamples
    EverySampleAnswered
