CONSTANTS
  SyncCalls = {s1, s2}
  AsyncCalls = {a1}
  Closers = {k1, k2}
  writerQueueDepth = 2
  None = None
SPECIFICATION WriterSpec
INVARIANTS ExactlyOnce Barrier SavedIsDurable
PROPERTY CallsReturn
