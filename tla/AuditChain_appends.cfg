SPECIFICATION Spec
CONSTANTS
  w1 = w1
  w2 = w2
  w3 = w3
  Writers <- ThreeWriters
  CanFault = TRUE
  CanCrash = TRUE
  MaxRecords = 5
SYMMETRY Interchangeable
INVARIANTS
  LinksPointBack
  ForksAreBounded
  SerialChainIsValid
  DeletionIsDetected
PROPERTIES
  TornLogIsClosed
