SPECIFICATION Spec
CONSTANTS
  Producers = {p1, p2}
  Consumers = {c1, c2}
  Items = {a, b}
  NoItem = NoItem
  Capacity = 2
  SpinLimit = 1
  MaxTicket = 3
SYMMETRY Symm
INVARIANTS TypeOK SlotExclusive LiveObjects
PROPERTIES ImplementsFifo RefusalsTrue
