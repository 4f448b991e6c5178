\* Liveness from any state that failures and lags leave behind.
CONSTANTS
  Workloads = {"dep"}
  KindOf <- OneDeployment
  MaxReplicas = 1
  None = None
  Shapes <- GpuOnly
  Stuck = {}
  Moves = {"scale", "reset", "usage", "calm"}
  Faults = {"enforceErr", "restoreErr", "queryErr", "budgetErr", "crash", "lagObjects", "lagBudgets"}
  Budgets = {"b"}
  Limits = {1}
  Usages = {1, 2}
  Steps = 2
  MaxEdits = 1
SPECIFICATION FairSpec
INVARIANTS
  TypeOK
  PhaseTruth
PROPERTIES
  CallsRunOut
  OverBudgetStops
  ResetServed
