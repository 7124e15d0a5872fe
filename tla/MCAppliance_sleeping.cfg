SPECIFICATION FairSpec
CONSTANTS
  ModeLoop <- ThreeModes
  MainQLen = 10
  Static = {"BtPlay"}
  PlugSet = {"CARD"}
  Acts = {"plug", "sleep", "hang", "call", "alarm"}
  MaxActs = 3
  LateAnswers = FALSE
INVARIANT ExitInHandsFree
PROPERTIES Settles CallEndIsFollowed
CHECK_DEADLOCK FALSE
