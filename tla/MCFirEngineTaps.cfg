\* The first sample of one channel: its answer.
SPECIFICATION Spec
CONSTANTS
    NumTimeSlots = 16
    MaxInputs = 15
    Filters <- MCFilters
    MaxSamples <- OneSample
    ResetSamples <- OneSample
    MaxResets = 0
PROPERTIES
    AnswersAreWindows
CHECK_DEADLOCK FALSE
