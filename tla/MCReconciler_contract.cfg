\* Two GpuBudgets against the contract of the operator.
CONSTANTS
  Workloads = {"dep", "pod"}
  KindOf <- DeploymentAndPod
  MaxReplicas = 1
  None = None
  Shapes <- GpuOnly
  Stuck = {}
  Moves = {"create", "remove", "scale", "reset", "withdraw", "usage"}
  Faults = {"enforceErr", "restoreErr"}
  Budgets = {"b1", "b2"}
  Limits = {1}
  Usages = {1, 2}
  Steps = 2
  MaxEdits = 1
SPECIFICATION Spec
INVARIANTS
  NoOrphan
PROPERTIES
  ImplementsContract
  StickyEnforcement
