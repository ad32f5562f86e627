CONSTANTS
  short = short
  middle = middle
  long = long
  Messages = {short, middle, long}
  Size <- MCSize
  Header <- MCHeader
  Preamble = 2
  BufSize = 4
  Capacity = 8
  OneSender = TRUE
  Garbage <- MCGarbage
SPECIFICATION Spec
CHECK_DEADLOCK FALSE
INVARIANT ReceivedIsDispatched
