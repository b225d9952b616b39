SPECIFICATION Spec
CONSTANTS
  Sensors = {1, 2}
  MaxSpan = 2
  MaxOpens = 1
  MaxEdits = 1
  MaxElse = 0
  MaxFaults = 1
PROPERTY BlankSecretsKept
CHECK_DEADLOCK FALSE
