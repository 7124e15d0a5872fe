SPECIFICATION Spec
CONSTANTS
  Settings = {v0, v1, v2}
  Default = v0
  Blocks = 4
  Subs = 2
  Blank = Blank Torn = Torn
INVARIANTS TypeOK NewestIsLoaded
PROPERTIES EraseKeepsNewest NothingOlderComesBack
