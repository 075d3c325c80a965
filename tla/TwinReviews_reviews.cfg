SPECIFICATION Spec
CONSTANTS
  None = None
  p1 = p1
  p2 = p2
  p3 = p3
  d1 = d1
  d2 = d2
  d3 = d3
  u1 = u1
  u2 = u2
  Options <- TwoOptions
  Unsafe <- OneUnsafe
  Reviewers <- TwoReviewers
  Reporters <- TwoReporters
  CanFault = TRUE
  CanCrash = TRUE
SYMMETRY Interchangeable
INVARIANTS
  RecordIsConsistent
  EventsFollowAudit
  LedgersAgree
PROPERTIES
  HistoryOnlyGrows
