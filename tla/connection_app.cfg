CONSTANTS
  r1 = r1
  m1 = m1
  Fds = {1}
  MaxSessions = 1
  Calls = {c1, c2}
  Requests = {r1}
  Ids = {i1, i2}
  Methods = {m1}
  OwnerOps = {"remove"}
  MethodOf <- MCMethodOf
  NoReply = none
SPECIFICATION Spec
CHECK_DEADLOCK FALSE
SYMMETRY MCSymmetry
INVARIANTS TypeOK AnswerKept ReplyMatchesCall NoFalseError ConsoleUntouched FatalOnlyAfterPeerLeft
