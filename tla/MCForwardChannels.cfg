\* A node, endpoint or relay, with two channels that share the failures queue.
CONSTANTS
  Channels = {c1, c2}
  RayCap = 3
  ChanCap = 2
  FailCap = 2
  Batch = 1
SPECIFICATION FairSpec
PROPERTY ForwardReturns
CHECK_DEADLOCK FALSE
