\* Two phones; a user and the phones act three times, at any moment.
SPECIFICATION FairSpec
CONSTANTS
  Device = {phone, other}
  None = None
  PorTries = 1
  LostTries = 2
  AbortTries = 1
  MaxActs = 3
INVARIANTS TypeOK LinkHonest LastIsLinked
PROPERTIES NoStranger PagingEnds
CHECK_DEADLOCK FALSE
