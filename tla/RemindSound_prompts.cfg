SPECIFICATION HFairSpec
CONSTANTS
  Kinds = {"Line", "Bt", "Media"}
  Missing = TRUE
  MaxActs = 3
  MaxModes = 2
INVARIANTS OneOwner NoHandOverIsLost
PROPERTIES ServiceRests DecoderReturns PlayerIsHeard
CHECK_DEADLOCK FALSE
