SPECIFICATION LiveSpec
CONSTANTS
  Modems = {"good", "bad"}
  Working = {"good"}
  initialRetryDelay = 1
  maxRetryDelay = 3
  MaxSaves = 2
  MaxFaults = 2
  MaxResets = 1
INVARIANTS RetryIffDown RunsItsConfig NoSaveForgotten
CHECK_DEADLOCK FALSE
PROPERTY RadioComesBack
