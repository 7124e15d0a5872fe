SPECIFICATION Spec
CONSTANTS
  ModeLoop <- ThreeModes
  MainQLen = 3
  Static = {"BtPlay"}
  PlugSet = {"CARD"}
  Acts = {"plug", "sleep", "createfail", "connect"}
  MaxActs = 2
  LateAnswers = TRUE
INVARIANTS TypeOK SleepIsQuiet WorkMeansStarted
PROPERTY ModesTakeTurns
CHECK_DEADLOCK FALSE
