SPECIFICATION Spec
CONSTANTS
  Suites = {"s01", "s02", "s03"}
  MaxInvocations = 2
INVARIANTS
  TypeOK
  AcceptedIsFresh
  ServedByOwnServer
  NoServerLeft
  BlamedEndpointFailed
PROPERTIES
  RunnerReturns
  ImplementsPhase
