\* Two samples outstanding, a third after the one local failure of a sample;
\* four packets would let a fourth be outstanding.  Polls are up to a tick late.
CONSTANTS
  Interval = 2
  Timeout = 1
  Late = 1
  KeepTicks <- MCKeepTicks
  Senders = {"A"}
  MaxNo <- MCMaxNo
  MaxFails = 1
SPECIFICATION Spec
INVARIANTS CountedOnce ChainsEnd MaxOutstanding
CHECK_DEADLOCK FALSE
