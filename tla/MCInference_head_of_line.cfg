\* The first service of the list can never be written to.
CONSTANTS
  Services <- TwoServices
  Components = {"predictor"}
  Asked <- OneWish
  Rejected = {}
  Moves = {"edit", "garble", "calm"}
  None = None
  Unset = Unset
  Garbled = Garbled
SPECIFICATION FairSpec
PROPERTIES
  EveryServiceComesDown
