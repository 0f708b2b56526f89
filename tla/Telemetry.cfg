SPECIFICATION TelFairSpec
CONSTANTS
  Procs = {p1, p2}
  Size = 3
  MaxRead = 2
  MaxSeq = 5
CHECK_DEADLOCK FALSE
INVARIANTS TelTypeOK RingTrue
PROPERTIES CallsReturn
