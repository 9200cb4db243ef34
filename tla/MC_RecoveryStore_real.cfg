SPECIFICATION StoreFairSpec
CONSTANTS
  Mode = "real"
  e1 = e1
  e2 = e2
  e3 = e3
  c1 = c1
  c2 = c2
  ExecIds = {e1, e2}
  Callers = {c1, c2}
  None = None
  Targets <- DeployOnly
  TypeOf <- DeployTypeOf
  UsedActions <- ScaleOnly
  Deltas <- UpOnly
  InitReplicas = 3
  DriftReplicas = {3}
  Flaky = FALSE
  MaxFaults = 1
  Asked = {"execute", "confirm", "rollback"}
INVARIANTS
  StoreFollows
  StoreIsPast
PROPERTY CommandsAnswer
CHECK_DEADLOCK FALSE
