SPECIFICATION Spec
CONSTANTS
  NumActors = 1
  Workers = {w1, w2}
  Clients = {c1, c2}
  Cleaner = cleaner
  Owner = owner
  Msgs = {m1, m2, m3}
  NoMsg = none
  Failing = {m2, m3}
  Foreign = {m3}
  MailboxSize = 2
  Direct = {c1}
  Destroyed = TRUE
SYMMETRY Symm
INVARIANTS TypeOK NotStranded Once
