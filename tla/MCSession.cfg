\* One of the processes may restart; polls may come late; two packets in flight, so
\* that they overtake each other.  The client's keepalives make its new instance
\* known to the server; the server's is known by its acknowledgements.  The
\* server's first message may be Data, which reaches a client that forgot the
\* conversation.
CONSTANTS
  CloseTicks = 1
  TombTicks = 2
  MaxPast = 1
  MaxFuture = 0
  Skew = 0
  SendWindow <- MCSendWindow
  MaxData = 1
  Writers = {"client", "server"}
  MaxInst = 2
  MaxRestarts = 1
  KeepAlive = {"client"}
  PromptPoll = FALSE
  NetCap = 2
SPECIFICATION Spec
INVARIANTS TypeOK CleanCloseAgreed NoLateWrite PendingCloseOnlyWhenFull AcksAreBound
PROPERTY NoStaleRevival
CHECK_DEADLOCK FALSE
