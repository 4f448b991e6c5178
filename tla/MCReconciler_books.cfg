\* Workloads come and stay, nobody edits a GpuBudget under a reconcile, and one
\* Deployment can never be given back.
CONSTANTS
  Workloads = {"dep", "dep2"}
  KindOf <- TwoOfAKind
  MaxReplicas = 1
  None = None
  Shapes <- GpuOnly
  Stuck = {"dep2"}
  Moves = {"create", "scale", "reset", "usage", "limit", "calm"}
  Faults = {"enforceErr", "restoreErr", "queryErr"}
  Budgets = {"b"}
  Limits = {1, 2}
  Usages = {1, 2}
  Steps = 2
  MaxEdits = 0
SPECIFICATION FairSpec
INVARIANTS
  NoOrphan
  NoPhantom
PROPERTIES
  GivesBack
