CONSTANTS
  Clients = {c1, c2}
  Methods = {m1}
  MaxListens = 2
  MaxOpen = 1
  OwnerOps = {"shutdown", "reset", "destroy"}
SPECIFICATION FairSpec
CHECK_DEADLOCK FALSE
INVARIANTS TypeOK HandedReady OpenSocketIsBound FatalOnlyAfterShutdown DeferredWaits
PROPERTIES ImplementsAcceptor ClientServed
