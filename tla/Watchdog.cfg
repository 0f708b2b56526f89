\* Two threads of the owner, with and without nowayout and overlapping calls.
SPECIFICATION FairSpec
CONSTANTS
    Threads = {t1, t2}
INVARIANTS
    TypeOK
    GoneQuietly
    ArmedAlone
PROPERTIES
    Recovers
CHECK_DEADLOCK FALSE
