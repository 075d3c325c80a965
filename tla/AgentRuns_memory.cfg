SPECIFICATION FairSpec
CONSTANTS
  None = None
  r1 = r1
  r2 = r2
  a1 = a1
  a2 = a2
  a3 = a3
  Runs <- OneRun
  Approvers <- TwoApprovers
  AtomicLock = FALSE
  LockExpires = FALSE
  CanFault = FALSE
  CanCrash = FALSE
PROPERTIES
  LockedRunSettles
