SPECIFICATION Spec
CONSTANTS
  NoRoute = NoRoute
  Routes = {r1, r2}
  Droppers = {d1, d2}
  Logins = {d1}
  writerQueueDepth = 2
  MaxChanges = 3
  MaxRebuilds = 1
CHECK_DEADLOCK FALSE
INVARIANTS AgreeUnlessRaced HydratesWhatWasQueued
