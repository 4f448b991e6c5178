\* One of two Deployments can never be given back; the limit stays exceeded.
CONSTANTS
  Workloads = {"dep", "dep2"}
  KindOf <- TwoOfAKind
  MaxReplicas = 1
  None = None
  Shapes <- GpuOnly
  Stuck = {"dep2"}
  Moves = {"reset", "calm"}
  Faults = {}
  Budgets = {"b"}
  Limits = {1}
  Usages = {2}
  Steps = 2
  MaxEdits = 0
SPECIFICATION FairSpec
PROPERTIES
  OverBudgetStops
