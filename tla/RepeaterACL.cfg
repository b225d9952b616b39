SPECIFICATION Spec
CONSTANTS
  Clients = {c1, c2}
  Guest = Guest
  Admin = Admin
  Roles = {Guest, Admin}
  Plain = Plain
  NoEntry = NoEntry
  None = None
  QueueDepth = 2
  Senders = {c1}
  MaxSent = 2
  MaxSets = 1
  MaxGen = 2
INVARIANTS RunsOnce GrantHolds
CHECK_DEADLOCK FALSE
