SPECIFICATION FairSpec
CONSTANTS
  ModeLoop <- ThreeModes
  MainQLen = 10
  Static = {"BtPlay"}
  PlugSet = {}
  Acts = {"call"}
  MaxActs = 2
  LateAnswers = FALSE
PROPERTY ExitKeptEarly
CHECK_DEADLOCK FALSE
