\* Two processes in any calls, an ioctl and a forced unload.
SPECIFICATION Spec
CONSTANTS
    Procs = {p1, p2}
    Cap = 2
    Forced = TRUE
INVARIANTS
    TypeOK
    NoLostWakeup
    FreedUnused
PROPERTIES
    Unblocked
CHECK_DEADLOCK FALSE
