SPECIFICATION Spec
CONSTANTS
  None = None
  Creator = Creator
  p1 = p1
  p2 = p2
  a1 = a1
  a2 = a2
  u1 = u1
  u2 = u2
  Options <- TwoOptions
  Approvers <- TwoApprovers
  Reporters <- OneReporter
  CanFault = TRUE
  CanCrash = TRUE
SYMMETRY Interchangeable
INVARIANTS
  RecordIsConsistent
  LedgersAgree
PROPERTIES
  EscalationIsFinal
