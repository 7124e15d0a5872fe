\* The link is broken off by the protocol.
SPECIFICATION Spec
CONSTANTS
  Device = {phone}
  None = None
  PorTries = 1
  LostTries = 2
  AbortTries = 1
  MaxActs = 2
PROPERTIES AbortReconnects
CHECK_DEADLOCK FALSE
