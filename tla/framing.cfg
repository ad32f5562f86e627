CONSTANTS
  short = short
  middle = middle
  long = long
  Messages = {short, middle, long}
  Size <- MCSize
  Header <- MCHeader
  Preamble = 2
  BufSize = 4
  Capacity = 4
  OneSender = FALSE
  Garbage <- MCGarbage
SPECIFICATION Spec
CHECK_DEADLOCK FALSE
INVARIANT TypeOK
PROPERTY ImplementsChannel
