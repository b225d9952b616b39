SPECIFICATION LiveSpec
CONSTANTS
  NoRoute = NoRoute
  DMs = {d1, d2}
  Routes = {r1}
  dmAttempts = 5
  dmDirectAttempts = 3
  dmUnroutedAttempts = 3
  writerQueueDepth = 1
  MaxLearned = 1
INVARIANTS RowAgreesWithChat
PROPERTIES FirstOutcomeCounts RouteDroppedOnlyWhenExhausted EverySettled
CHECK_DEADLOCK FALSE
