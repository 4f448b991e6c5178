\* Passes and restores over four objects, while their owners interfere.
CONSTANTS
  isvc = isvc
  rs1 = rs1
  rs2 = rs2
  pod = pod
  Workloads = {isvc, rs1, rs2, pod}
  KindOf <- FourObjects
  MaxReplicas = 1
  None = None
  Shapes <- OwnedOrNot
  Stuck = {}
  Moves = {"create", "remove", "scale"}
  Faults = {"enforceErr", "restoreErr", "crash"}
SYMMETRY Alike
SPECIFICATION PassSpec
INVARIANTS
  EnforcerTypeOK
  Recoverable
  EveryKindAttempted
  RestoreAttemptsAll
PROPERTIES
  OnlyEligibleUpdated
