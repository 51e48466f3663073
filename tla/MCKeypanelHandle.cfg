\* Two writers contending for the device, with the scheduling of the
\* single-core target; frames without keys.
CONSTANTS
    Tasks = {w1, w2}
    Nobody = Nobody
    Outside = Outside
    SmpBuild = FALSE
    MaxTries = 2
    NumKeys = 0
    FewKeys = 0
    Rotations <- NoRotation
    Leds = {l1, l2}
SPECIFICATION LiveSpec
INVARIANT TypeOK
INVARIANT HandleExclusive
INVARIANT HandleOwned
PROPERTY SerializedAccess
PROPERTY HandleSpec
PROPERTY WriteEnds
