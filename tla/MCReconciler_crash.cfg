\* The operator dies after it has acted and before it has recorded it.
CONSTANTS
  Workloads = {"dep"}
  KindOf <- OneDeployment
  MaxReplicas = 1
  None = None
  Shapes <- GpuOnly
  Stuck = {}
  Moves = {}
  Faults = {"crash"}
  Budgets = {"b"}
  Limits = {1}
  Usages = {2}
  Steps = 2
  MaxEdits = 0
SPECIFICATION Spec
INVARIANTS
  NoOrphan
