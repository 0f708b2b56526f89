\* Three slots: full, empty and in between, and indices that wrap.
SPECIFICATION Spec
CONSTANTS
    Items = {a, b}
    NoItem = NoItem
    Capacity = 2
INVARIANTS
    TypeOK
    Ordered
PROPERTIES
    ImplementsFifo
    SizesHold
    KeepsMoving
