SPECIFICATION Spec
CONSTANTS
  w1 = w1
  w2 = w2
  w3 = w3
  Writers <- TwoWriters
  CanFault = FALSE
  CanCrash = FALSE
  MaxRecords = 2
INVARIANTS
  ChainIsValid
