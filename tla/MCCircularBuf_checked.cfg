SPECIFICATION Spec
CONSTANTS
  BufDepth = 4
  MaxLen = 3
  MaxBytes = 9
  Checked = TRUE
INVARIANTS TypeOK FifoIntact LenExact
PROPERTY ImplementsFifo
