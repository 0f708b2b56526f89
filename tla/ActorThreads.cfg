SPECIFICATION Spec
CONSTANTS
    Clients = {main}
    Main = main
    Cleaner = cleaner
    None = None
    Wild = Wild
    Total = 1
    Indeterminate = {1, Wild}
    MailboxSize = 2
    MaxActors = 2
    MaxMessages = 3
INVARIANTS TypeOK Woken Survives
PROPERTIES Ended Restored
CHECK_DEADLOCK FALSE
