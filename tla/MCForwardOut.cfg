\* One reverse channel; batches as large as the failures queue.  An endpoint may
\* stop for ever in its failure handler.  Four probe intervals to a timeout, as in
\* the code; lost probes and delays long enough for the peer to be forgotten.
CONSTANTS
  Channels = {c1}
  RayCap = 3
  ChanCap = 2
  FailCap = 2
  Batch = 2
  ProbeInterval = 1
  PeerTimeout = 4
  MaxLate = 4
  MaxLost = 3
SPECIFICATION ReverseSpec
INVARIANTS TypeOK NoMutualWait PeerKept
PROPERTY ForwardReturns
CHECK_DEADLOCK FALSE
