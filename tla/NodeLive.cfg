SPECIFICATION Spec
CONSTANTS
  Neighbors = {"n"}
  Clients = {"c"}
  MaxPolls = 2
  MaxChanges = 2
  MaxFaults = 1
PROPERTY Heals
CHECK_DEADLOCK FALSE
