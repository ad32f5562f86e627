CONSTANTS
  Clients = {c1}
  Server = server
  Lines = {hello, empty}
  Empty = empty
  Typists <- MCTypists
  MaxLines = 2
SPECIFICATION FairSpec
CHECK_DEADLOCK FALSE
INVARIANTS TypeOK PrintedInOrder EndsOnlyAfterLoss
PROPERTIES NeverBothStarved LossReleasesChat
