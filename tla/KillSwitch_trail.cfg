SPECIFICATION Spec
CONSTANTS
  a1 = a1
  a2 = a2
  s1 = s1
  s2 = s2
  Admins <- TwoAdmins
  Scorers <- TwoScorers
  CanFault = TRUE
  CanCrash = TRUE
SYMMETRY Interchangeable
INVARIANTS
  ShutStaysShut
  ScoresAreTraced
  SwitchIsRecorded
