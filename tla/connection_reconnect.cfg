CONSTANTS
  r1 = r1
  m1 = m1
  Fds = {1}
  MaxSessions = 2
  Calls = {c1}
  Requests = {}
  Ids = {i1}
  Methods = {m1}
  OwnerOps = {"shutdown", "reset", "destroy", "early"}
  MethodOf <- MCMethodOf
  NoReply = none
SPECIFICATION Spec
CHECK_DEADLOCK FALSE
INVARIANTS NoFalseError ShutdownAwaitsListener ReadCanEnd
