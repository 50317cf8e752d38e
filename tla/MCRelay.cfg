\* A network that loses, repeats and delays beyond the freshness limit, or a
\* reliable one.  KcpMtu is 3 and Mss 2: messages of one and of two fragments, the
\* last fragment full or not, with and without an acknowledgement before them.
CONSTANTS
  RouteMod = 4
  MaxPacket = 18
  EntryGraph <- MCGraph
  EntryMtu = 16
  PaddingReserve = 2
  MaxPadding = 5
  SendWindow = 2
  ReceiveWindow = 3
  MessageSizes = {1, 4}
  MaxAcks = 1
  Relays = {"r1", "r2"}
  Exit = "exit"
  To <- MCTo
  Local <- MCLocal
  Mtus <- MCMtus
  Stamps <- MCStamps
  Idle = {2}
  MaxPast = 1
  NetCap = 2
SPECIFICATION FairSpec
INVARIANTS HandledOnce DecodesToPlan ReserveIsKept
PROPERTY Arrives
