--------------------------- MODULE MCAdaptations ---------------------------
(* Instances of Adaptations for TLC. *)
EXTENDS Adaptations, TLC

CONSTANTS a1, a2

TwoApprovers == {a1, a2}

\* Skills at both ends of the order and those with an inject that changes the
\* terrain; little and much evidence; pressures on both sides of the limits.
FewEvidences ==
  {[d \in Dimensions |->
      CASE d = skill -> scores
        [] d = "leadership_communication" -> <<55>>
        [] d = "sleep_fatigue" -> <<100 - pressure>>
        [] OTHER -> <<>>] :
     skill \in {"sensemaking", "systems_thinking", "team_trust"},
     scores \in {<<30>>, <<60>>, <<60, 61, 62, 60>>},
     pressure \in {0, 35, 36, 55, 56, 68, 76, 100}}

\* The default framing of much evidence, and of little a decision of
\* consequence that cannot be taken back.
FewFramings ==
  LET Framed(pressure, reversibility, impact, pieces) ==
        [context |-> [filled |-> 4, constrained |-> TRUE, pressure |-> pressure,
                      reversibility |-> reversibility, impact |-> impact],
         pieces |-> pieces]
  IN  {Framed("medium", "partially_reversible", "medium", 5),
       Framed("high", "irreversible", "high", 1)}

Interchangeable == Permutations(Approvers)
=============================================================================
