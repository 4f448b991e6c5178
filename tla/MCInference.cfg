\* A service of two components that its owner and KServe write to.
CONSTANTS
  Services <- OneService
  Components = {"predictor", "transformer"}
  Asked <- ThreeWishes
  Rejected = {}
  Moves = {"create", "remove", "edit", "gpu", "reset", "garble", "fail", "calm"}
  None = None
  Unset = Unset
  Garbled = Garbled
SPECIFICATION FairSpec
INVARIANTS
  TypeOK
  OriginalIsOwners
  FreeAsAsked
  EnforcedIsListed
PROPERTIES
  OriginalKept
  KeepsContract
  ServicesComeDown
