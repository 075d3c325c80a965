--------------------------- MODULE MCDeployments ---------------------------
(* Instances of Deployments for TLC. *)
EXTENDS Deployments, TLC

CONSTANTS p1, p2, a1, a2, u1, u2

TwoOptions == {p1, p2}
TwoApprovers == {a1, a2}
OneReporter == {u1}
TwoReporters == {u1, u2}

\* Options are interchangeable, and so are calls of one kind.
Interchangeable ==
  Permutations(Options) \cup Permutations(Approvers) \cup Permutations(Reporters)
=============================================================================
