SPECIFICATION FairSpec
CONSTANTS
  Mode = "real"
  ExecIds = {e1, e2, e3}
  e1 = e1
  e2 = e2
  e3 = e3
  None = None
  Targets <- DeployOnly
  TypeOf <- DeployTypeOf
  UsedActions <- ScaleOnly
  Deltas <- UpOnly
  InitReplicas = 3
  DriftReplicas = {}
  Flaky = TRUE
INVARIANTS
  TypeOK
  RollbackLinks
  ReversedOnce
  ApprovalGate
  StatusTellsEffect
  AutoRollbackStops
PROPERTIES
  ImplementsLifecycle
  AutoRollbackResolves
CHECK_DEADLOCK FALSE
