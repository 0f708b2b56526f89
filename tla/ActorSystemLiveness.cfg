SPECIFICATION FairSpec
CONSTANTS
  NumActors = 2
  Workers = {w1, w2}
  Clients = {c1}
  Cleaner = cleaner
  Owner = owner
  Msgs = {m1, m2}
  NoMsg = none
  Failing = {m2}
  Foreign = {m2}
  MailboxSize = 2
  Direct = {c1}
  Destroyed = TRUE
PROPERTIES ActorsServed
