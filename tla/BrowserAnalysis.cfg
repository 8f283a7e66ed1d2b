SPECIFICATION Spec
CONSTANTS
    Templates = {a, b}
    Vouched = {a}
    Workers = {w}
    browser_queue_size = 1
    kNumViewports = 2
    kMaxReanalysisRetries = 1
    kMaxTemplates = 1
    kRestartDelayMs = 2000
    kMaxRestartDelayMs = 300000
    enable_script_analysis = TRUE
    agent_optimize = TRUE
    MaxFailures = 1
    MaxNotifications = 2
    MaxFaults = 1
    MaxCacheEvents = 1
CHECK_DEADLOCK FALSE
INVARIANTS
    TypeOK
    QueueExact
    
    OrphanAlone
    RecordedIsWritten
    ShutdownQuiesces
PROPERTIES
    
    QueuedGetsTaken
    ServiceRefined
