CONSTANTS
  r1 = r1
  m1 = m1
  Fds = {1}
  MaxSessions = 1
  Calls = {c1}
  Requests = {r1}
  Ids = {i1}
  Methods = {m1}
  OwnerOps = {"shutdown"}
  MethodOf <- MCMethodOf
  NoReply = none
SPECIFICATION Spec
CHECK_DEADLOCK FALSE
INVARIANT ShutdownKeepsRunning
