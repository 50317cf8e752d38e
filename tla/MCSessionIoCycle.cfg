\* Both directions carry more than the queues hold.
CONSTANTS
  Window = 1
  IoCap = 1
  Batch = 2
  MaxIn = 3
  MaxOut = 4
  Closes = FALSE
SPECIFICATION FairSpec
PROPERTY BlockedWriteEnds
CHECK_DEADLOCK FALSE
