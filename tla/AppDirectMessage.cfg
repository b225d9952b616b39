SPECIFICATION LiveSpec
CONSTANT MaxSends = 3
INVARIANTS RowAgrees
PROPERTIES DeliveredIsFinal EverySettled
CHECK_DEADLOCK FALSE
