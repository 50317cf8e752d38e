\* Retransmission timeouts between one and two flush intervals, a close
\* deadline and a sleep limit of two intervals; a poll may start one tick late.
CONSTANTS
  Interval = 2
  MinRto = 3
  MaxRto = 4
  FastResend = 1
  FastLimit = 1
  SendWindow = 2
  CloseTicks = 4
  TombTicks = 2
  MaxSleep = 4
  IdleSleep = 8
  Stall = 1
  MaxOwed = 1
SPECIFICATION Spec
INVARIANTS TypeOK DeadlinesMet
PROPERTIES IdlePollOnlyBeforeFlush ClosingEnds
