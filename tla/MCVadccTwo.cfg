\* Two writers; the reader sees single events.
CONSTANTS
    QueueCap = 0
    EventDevices = {FALSE}
    Stale <- NoEvent
    Writers = {w1, w2}
    Pairs <- SomePairs
SPECIFICATION Spec
INVARIANT TypeOK
INVARIANT NothingInvented
