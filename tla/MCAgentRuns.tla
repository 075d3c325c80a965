---------------------------- MODULE MCAgentRuns ----------------------------
(* Instances of AgentRuns for TLC. *)
EXTENDS AgentRuns, TLC

CONSTANTS r1, r2, a1, a2, a3

OneRun == {r1}
TwoRuns == {r1, r2}
OneApprover == {a1}
TwoApprovers == {a1, a2}
ThreeApprovers == {a1, a2, a3}

\* Handlers of one kind are interchangeable (safety runs only).
Interchangeable == Permutations(Runs) \cup Permutations(Approvers)
=============================================================================
