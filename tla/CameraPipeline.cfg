\* Five frames, five forgiven failures in a row.
SPECIFICATION CamSpec
CONSTANTS
    RETRY_COUNT = 5
    MaxFrames = 5
INVARIANTS
    CamTypeOK
    Accounted
PROPERTIES
    Ends
CHECK_DEADLOCK FALSE
