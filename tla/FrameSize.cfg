SPECIFICATION FairSpec
CONSTANTS
  Frames = {"small", "middle", "large"}
  First = "middle"
  Overlaps = FALSE
  MaxActs = 5
INVARIANTS TypeOK CoreHasBuffers
PROPERTIES ChangeCompletes
CHECK_DEADLOCK FALSE
