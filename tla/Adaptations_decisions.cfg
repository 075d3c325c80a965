SPECIFICATION Spec
CONSTANTS
  None = None
  Creator = Creator
  a1 = a1
  a2 = a2
  Approvers <- TwoApprovers
  Evidences <- FewEvidences
  Framings <- FewFramings
  CanFault = TRUE
  CanCrash = TRUE
SYMMETRY Interchangeable
INVARIANTS
  DecisionsAreOnAllowed
  LedgersTellStatus
  MoreCareRelaxesNothing
  PrimaryIsNearlyWeakest
