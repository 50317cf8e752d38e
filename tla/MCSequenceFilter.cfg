\* Endpoint use of the filter: soft cap 1, four-bit window, 5-bit time stamps
\* that wrap at tick 32 in the middle of the run.
CONSTANTS
  s1 = s1
  s2 = s2
  SeqIds <- MCSeqIds
  Packets <- MCPackets
  WindowBits = 4
  TimeMod = 32
  MaxPast = 3
  MaxFuture = 1
  SoftCap = 1
  First = 26
  Last = 37
SPECIFICATION Spec
INVARIANTS TypeOK NoReplay BitsJustified ExpiryDeadlineExact IInv
CHECK_DEADLOCK FALSE
