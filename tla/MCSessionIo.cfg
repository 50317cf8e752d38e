\* Both directions carry more than a queue holds and end in every order.
CONSTANTS
  Window = 2
  IoCap = 1
  Batch = 2
  MaxIn = 3
  MaxOut = 2
  Closes = TRUE
SPECIFICATION FairSpec
INVARIANTS NoOrphan NoLostWakeup
PROPERTIES ShellReleased OneWayWriteEnds
CHECK_DEADLOCK FALSE
