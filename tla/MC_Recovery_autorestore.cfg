SPECIFICATION Spec
CONSTANTS
  Mode = "real"
  e1 = e1
  e2 = e2
  e3 = e3
  ExecIds = {e1, e2, e3}
  None = None
  Targets <- DeployOnly
  TypeOf <- DeployTypeOf
  InitReplicas = 3
  UsedActions <- ScaleOnly
  Deltas <- UpOnly
  DriftReplicas = {}
  Flaky = TRUE
INVARIANT AutoRollbackRestores
CHECK_DEADLOCK FALSE
