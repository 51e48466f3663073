\* Two writers, the seven retries of the code: what is freed on giving up.
CONSTANTS
    Tasks = {w1, w2}
    Nobody = Nobody
    Outside = Outside
    SmpBuild = TRUE
    MaxTries = 7
    NumKeys = 0
    FewKeys = 0
    Rotations <- NoRotation
    Leds = {l1, l2}
SPECIFICATION Spec
INVARIANT FreeGetsHandle
