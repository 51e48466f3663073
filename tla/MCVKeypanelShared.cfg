\* One LED writer and one writer of single and double presses of one key.
CONSTANTS
    led = led
    rxw = rxw
    Tasks <- TwoTasks
    LedWriters = {led}
    RxWriters = {rxw}
    Timers <- Two
    Nobody = Nobody
    Outside = Outside
    SmpBuild = TRUE
    MaxTries = 0
    Keys = {0}
    Gestures = {"SINGLE_PRESS", "DOUBLE_PRESS"}
SPECIFICATION HSpec
INVARIANT TypeOK
INVARIANT OneDecoder
INVARIANT HandleLostByGiveUp
INVARIANT KeyStuckByGiveUp
PROPERTY PressStaysInRegister
PROPERTY TrackerSpec
CHECK_DEADLOCK FALSE
