SPECIFICATION FairSpec
CONSTANTS
    Conns = {c1, c2}
    Urls = {u1}
    Kinds = {"warmup", "refresh", "refused", "variant"}
    Senders = {s1}
    None = None
    MaxSends = 2
    SockBuf = 3
    max_connections = 1
    max_buffer_size = 3
INVARIANTS
    TypeOK
    ContextOutlivesHandles
    CountersExact
    HeldRefreshHasItem
    GracefulStopIsIdle
    FramesAligned
    DeliveredAtMostOnce
PROPERTIES
    NotificationsHandled
    HeldRefreshRuns
    ShutdownCompletes
CHECK_DEADLOCK FALSE
