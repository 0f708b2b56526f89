\* Two users, the button and the blink work, and the removal of the driver.
SPECIFICATION Spec
CONSTANTS
    Users = {u1, u2}
    Blinker = blinker
    Button = button
    Remover = remover
    Nobody = nobody
    MaxCalls = 2
SYMMETRY Symm
INVARIANTS
    TypeOK
    HwAgrees
    BlinkGoesOn
    OnlyActiveAlone
CHECK_DEADLOCK FALSE
