SPECIFICATION ChainFairSpec
CONSTANTS
  Mode = "real"
  e1 = e1
  e2 = e2
  e3 = e3
  e4 = e4
  e5 = e5
  k1 = k1
  ExecIds = {e1, e2, e3, e4, e5}
  ChainIds = {k1}
  None = None
  Targets <- DeployAndNode
  TypeOf <- DeployAndNodeTypeOf
  UsedActions = {}
  UsedTemplates <- TwoTemplates
  Deltas = {}
  InitReplicas = 3
  DriftReplicas = {3}
  MaxByHand = 1
  Flaky = TRUE
INVARIANTS
  ChainGate
  UndoneOrReported
  ReversedOnce
PROPERTIES
  StepsAwaitVerdict
  VerdictIsTrue
  UndoNewestFirst
  ChainEnds
CHECK_DEADLOCK FALSE
