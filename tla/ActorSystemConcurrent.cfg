SPECIFICATION Spec
CONSTANTS
  NumActors = 1
  Workers = {w1, w2}
  Clients = {c1, c2}
  Cleaner = cleaner
  Owner = owner
  Msgs = {m1, m2}
  NoMsg = none
  Failing = {}
  Foreign = {}
  MailboxSize = 2
  Direct = {}
  Destroyed = FALSE
INVARIANT OneHandler
