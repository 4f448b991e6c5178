\* A bare GPU Pod is replaced under its name between the List and the Delete.
CONSTANTS
  Workloads = {"dep", "pod"}
  KindOf <- DeploymentAndPod
  MaxReplicas = 1
  None = None
  Shapes <- GpuOrNot
  Stuck = {}
  Moves = {"create", "remove"}
  Faults = {}
SPECIFICATION EnforcerSpec
PROPERTIES
  OnlyEligibleDeleted
