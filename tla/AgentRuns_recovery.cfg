SPECIFICATION Spec
CONSTANTS
  None = None
  r1 = r1
  r2 = r2
  a1 = a1
  a2 = a2
  a3 = a3
  Runs <- OneRun
  Approvers <- TwoApprovers
  AtomicLock = TRUE
  LockExpires = TRUE
  CanFault = TRUE
  CanCrash = TRUE
INVARIANTS
  FinalRunsCarryTheirDecision
PROPERTIES
  OnlyFailureErasesDecision
