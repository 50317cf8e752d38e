\* Serial numbers modulo 16 that wrap after two segments; one- and two-fragment
\* messages, windows smaller than the stream, so that the receiver's closes.
CONSTANTS
  SnMod = 16
  FirstSn = 14
  SndWnd = 3
  OwnWnd = 3
  RcvWnd = 2
  Fragments = {1, 2}
  MaxSegments = 4
  NetCap = 2
SPECIFICATION FairSpec
INVARIANTS TypeOK AckedIsHeld WindowsHold
PROPERTIES ImplementsStream Drains
