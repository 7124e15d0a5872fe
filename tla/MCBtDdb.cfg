SPECIFICATION Spec
CONSTANTS
  d1 = d1 d2 = d2 d3 = d3 k1 = k1 k2 = k2
  Device = {d1, d2, d3}
  Key = {k1, k2}
  Profile <- TwoProfiles
  MaxDevices = 2
  Blocks = 2
  Straddling = 2
  LastSlots = 2
  MaxPairings = 3
  Blank = Blank Mixed = Mixed None = None
SYMMETRY Interchangeable
INVARIANTS TypeOK SavedListSurvives CutLeavesOldOrNew LastDeviceAgrees LinkedDeviceIsKnown
