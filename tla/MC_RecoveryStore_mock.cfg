SPECIFICATION StoreSpec
CONSTANTS
  Mode = "mock"
  e1 = e1
  e2 = e2
  e3 = e3
  c1 = c1
  c2 = c2
  ExecIds = {e1, e2}
  Callers = {c1, c2}
  None = None
  Targets <- DeployOnly
  TypeOf <- DeployTypeOf
  UsedActions <- DeployActions
  Deltas <- UpOnly
  InitReplicas = 3
  DriftReplicas = {}
  Flaky = FALSE
  MaxFaults = 1
  Asked = {"execute", "confirm", "cancel", "rollback", "reverify"}
INVARIANTS
  ConfirmedEachTime
SYMMETRY StoreSymmetry
CHECK_DEADLOCK FALSE
