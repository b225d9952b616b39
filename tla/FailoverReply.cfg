SPECIFICATION TriggerLiveSpec
CONSTANTS
  Channels = {{1, 2}, {3}}
  maxPendingReplies = 2
  MaxHeard = 4
INVARIANTS OneReplyPerWait
PROPERTIES NoLateReply NeverSilent
CHECK_DEADLOCK FALSE
