\* The energy counter published without " W": does the parse stop?
CONSTANTS
  Values = {0, 7, 305}
  BufLen = 4
  WBufLen = 20
  Bare = {"energy"}
  Missing = {"power_cap"}
  ArraySize = 2
SPECIFICATION Spec
INVARIANT NoBufferOverrun
