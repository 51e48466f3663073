\* The interrupt handler on an SMP build: three keys of which two
\* are "few", frames with rotations of either sign, no writer.
CONSTANTS
    Tasks = {}
    Nobody = Nobody
    Outside = Outside
    SmpBuild = TRUE
    MaxTries = 0
    NumKeys = 3
    FewKeys = 2
    Rotations <- LeftRight
    Leds = {l1}
SPECIFICATION LiveSpec
INVARIANT ViewFollowsFrame
INVARIANT NoChangeLeft
PROPERTY NoRedundantEvent
PROPERTY TrackerSpec
PROPERTY KeysConverge
