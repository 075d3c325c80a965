---------------------------- MODULE MCKillSwitch ----------------------------
(* Instances of KillSwitch for TLC. *)
EXTENDS KillSwitch, TLC

CONSTANTS a1, a2, s1, s2

TwoAdmins == {a1, a2}
TwoScorers == {s1, s2}

Interchangeable == Permutations(Admins) \cup Permutations(Scorers)
=============================================================================
