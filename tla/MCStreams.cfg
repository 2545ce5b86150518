SPECIFICATION MCSpec
CONSTANTS
    Publishers = {p1, p2}
    Clients = {c1}
    RingSize = 1
    SubBuf = 1
    MaxEvents = 3
    MaxTopics = 2
    MaxConns = 2
    Panels = {a, b}
    MaxReaders = 2
    Linger = 1
    MaxTicks = 3
    MaxTimers = 2
\* Streams may come to rest: nobody has to publish, read, watch or reconnect.
CHECK_DEADLOCK FALSE
INVARIANT Conservation
INVARIANT WatchedIsRead
PROPERTY PublishNeverBlocks
PROPERTY UnwatchedStops
