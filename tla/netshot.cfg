CONSTANTS
  Requests = {1, 2, 3}
  Threads = {t1, t2}
  Days = 2
  MaxDisplays = 2
  Existing <- MCExisting
  Connections = {1, 2}
  NoRequestYet = 0
SPECIFICATION FairSpec
CHECK_DEADLOCK FALSE
INVARIANTS TypeOK OneCapture StopEndsCapture NothingOverwritten 
PROPERTY CaptureEnds
