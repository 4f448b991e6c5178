\* A reconcile starts from a GpuBudget its cache has not caught up with.
CONSTANTS
  Workloads = {"dep"}
  KindOf <- OneDeployment
  MaxReplicas = 1
  None = None
  Shapes <- GpuOnly
  Stuck = {}
  Moves = {"usage"}
  Faults = {"lagBudgets"}
  Budgets = {"b"}
  Limits = {1}
  Usages = {1, 2}
  Steps = 2
  MaxEdits = 0
SPECIFICATION Spec
PROPERTIES
  StickyEnforcement
