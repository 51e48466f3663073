\* Single presses written at any time: the timers they initialise.
CONSTANTS
    led = led
    rxw = rxw
    Tasks <- OneTasks
    LedWriters = {led}
    RxWriters = {rxw}
    Timers <- One
    Nobody = Nobody
    Outside = Outside
    SmpBuild = TRUE
    MaxTries = 7
    Keys = {0}
    Gestures = {"SINGLE_PRESS"}
SPECIFICATION HSpec
INVARIANT NoPendingInit
CHECK_DEADLOCK FALSE
