\* Two channels of three readings each; the reader sees whole reports, or
\* single events.
CONSTANTS
    QueueCap = 2
    EventDevices = {TRUE, FALSE}
    Stale <- NoEvent
    ChannelMask <- TwoChannels
    Measured <- Disjoint
SPECIFICATION LiveSpec
INVARIANT TypeOK
INVARIANT OwnReadings
PROPERTY NoReadingSkipped
PROPERTY FeedSpec
PROPERTY LastReadingTold
