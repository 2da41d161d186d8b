SPECIFICATION FairSpec
CONSTANTS
  Options <- MCOptions
  Certs <- MCCerts
  Depth = 1
  MaxErrors = 1
  Addresses = 2
  Residue = {"NUL"}
  FD_SETSIZE = 8
  Text <- MCText
  BufLen = 4
  Request <- MCRequest
  PrintfMax = 2
  MaxPolls = 3
INVARIANTS LinesWhole CheckedPeer NothingLeft
CHECK_DEADLOCK FALSE
