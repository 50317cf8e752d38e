\* The client's clock is one tick ahead, within MAX_FUTURE_TICKS.
CONSTANTS
  CloseTicks = 1
  TombTicks = 2
  MaxPast = 1
  MaxFuture = 1
  Skew = 1
  SendWindow <- MCSendWindow
  MaxData = 0
  Writers = {"client", "server"}
  MaxInst = 1
  MaxRestarts = 0
  KeepAlive = {}
  PromptPoll = TRUE
  NetCap = 2
SPECIFICATION Spec
PROPERTY NoStaleRevival
CHECK_DEADLOCK FALSE
