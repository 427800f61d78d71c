SPECIFICATION Spec
INVARIANTS
  TypeOK
  DoneIsClosed
  StopReachesClient
  TeardownOrder
  NullOnlyAfterExit
PROPERTIES
  ClosedLoopEnds
  HandlerReturns
  SignalEndsProgram
  ServedIsSubscribed
CHECK_DEADLOCK FALSE
