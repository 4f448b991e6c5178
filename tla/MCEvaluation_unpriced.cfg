\* Both limits, and no price for the H100.
CONSTANTS
  Products = {"a100", "h100", "t4"}
  GPUTypeOf <- ThreeTypes
  FamilyOf <- TheirFamilies
  Flags <- ManyFlags
  Instants <- SomeInstants
  Starts <- AtNewYear
  HoursLimits = {8}
  DollarsLimits = {1}
  None = None
SPECIFICATION Spec
INVARIANTS
  HoursLimitEnforced
