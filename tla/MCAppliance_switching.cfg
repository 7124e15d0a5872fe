SPECIFICATION FairSpec
CONSTANTS
  ModeLoop <- FourModes
  MainQLen = 10
  Static = {"BtPlay", "I2SIn"}
  PlugSet = {"CARD", "HDMI"}
  Acts = {"plug", "mode", "fail", "hang", "playback", "record", "alarm"}
  MaxActs = 3
  LateAnswers = FALSE
INVARIANTS WaitsHold PriorityAgrees NextAgrees
PROPERTIES EntersWithSource Settles HasSource IdlesOnlyWithoutSource
CHECK_DEADLOCK FALSE
