SPECIFICATION Spec
CONSTANTS
    MaxPatches = 4
PROPERTIES
    FailedNeverWritten
CHECK_DEADLOCK FALSE
