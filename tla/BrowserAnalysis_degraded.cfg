SPECIFICATION Spec
CONSTANTS
    Templates = {a}
    Vouched = {}
    Workers = {w}
    browser_queue_size = 1
    kNumViewports = 1
    kMaxReanalysisRetries = 1
    kMaxTemplates = 1
    kRestartDelayMs = 2000
    kMaxRestartDelayMs = 300000
    enable_script_analysis = FALSE
    agent_optimize = FALSE
    MaxFailures = 1
    MaxNotifications = 2
    MaxFaults = 0
    MaxCacheEvents = 0
CHECK_DEADLOCK FALSE
PROPERTIES
    GoodProfileKept
