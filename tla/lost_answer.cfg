CONSTANTS
  r1 = r1
  m1 = m1
  Fds = {1}
  MaxSessions = 1
  Calls = {c1}
  Requests = {r1}
  Ids = {i1}
  Methods = {m1}
  OwnerOps = {}
  MethodOf <- MCMethodOf
  NoReply = none
SPECIFICATION FairSpec
CHECK_DEADLOCK FALSE
PROPERTY QueuedAnswerReturned
