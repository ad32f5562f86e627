CONSTANTS
  Tokens = {"-l", "-i", "-p", "-d", "5555", "host", ""}
  Numbers = {"5555"}
  MaxArgs = 5
SPECIFICATION Spec
CHECK_DEADLOCK FALSE
INVARIANT StartsAsSaid
