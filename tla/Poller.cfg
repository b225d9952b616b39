SPECIFICATION LiveSpec
CONSTANTS
  Nodes = {n1, n2}
  Requests = {"p1"}
  MaxRetries = 2
  NoOne = NoOne
INVARIANTS PollSoonKept
PROPERTY EveryNodePolled
