---------------------------- MODULE InjectAdvice ----------------------------
(***************************************************************************)
(* What an adaptation says beside its injects: how far a human should rely *)
(* on each of them and on the whole, and what each is worth                *)
(* (assess_scenario_inject and assess_cognitive_adaptation of              *)
(* decision_quality.py).  Nothing an adaptation goes through later looks   *)
(* at it.                                                                  *)
(*                                                                         *)
(* Risks are hundredths as in Direction, what DecisionQuality is given     *)
(* hundred-thousandths.  The risk of unfair exposure is never the greatest *)
(* of the three an inject has, and left out.                               *)
(*                                                                         *)
(* A definition commented as a variant is no part of the model: it is a    *)
(* mistake the property it names must detect.                              *)
(***************************************************************************)
EXTENDS Direction

DQ == INSTANCE DecisionQuality

\* How a request frames the decision, and how many pieces of evidence it has.
Framing == [context : DQ!DecisionContext, pieces : Nat \ {0}]

\* Of an estimate made of this many scores.
ConfidenceScore(count) == IF count >= 3 THEN 90 ELSE IF count >= 1 THEN 65 ELSE 35

InjectRisk(inject, pressure) ==
  Greatest(SafetyRisk(inject, pressure), FatigueRisk(inject, pressure))

\* direct_pressure is the riskiest inject, allowed or blocked.
WholeRisk(pressure) == InjectRisk("direct_pressure", pressure)

-----------------------------------------------------------------------------
(* Quality: of an inject, for a skill with this many scores.               *)

InjectEvidence(count) == (55000 * Least(count, 3)) \div 3 + 450 * ConfidenceScore(count)

InjectQuality(framing, gated, count, risk, blocked) ==
  DQ!Quality(framing.context, InjectEvidence(count),
             700 * (100 - ConfidenceScore(count)) + 300 * risk,
             blocked \/ risk >= 72 \/ InjectEvidence(count) < 45000 \/ ~gated)

WholeEvidence(framing, count) ==
  15000 * Least(framing.pieces, 3) + 15000 + 400 * ConfidenceScore(count)

WholeUncertainty(count, pressure, allowed) ==
  550 * (100 - ConfidenceScore(count)) + 350 * WholeRisk(pressure)
    + IF allowed = InjectTypes THEN 0 ELSE 10000

\* Some injects blocked are a reason to escalate, and so are all.
WholeEscalates(framing, gated, count, pressure, allowed) ==
  \/ allowed # InjectTypes
  \/ WholeEvidence(framing, count) < 45000
  \/ WholeRisk(pressure) >= 72
  \/ ~gated

WholeQuality(framing, gated, count, pressure, allowed) ==
  DQ!Quality(framing.context, WholeEvidence(framing, count),
             WholeUncertainty(count, pressure, allowed),
             WholeEscalates(framing, gated, count, pressure, allowed))

-----------------------------------------------------------------------------
(* Utility.                                                                *)

LearningGain == [direct_pressure |-> 78, skill_isolation |-> 64, transfer_test |-> 62]
TransferValue == [direct_pressure |-> 58, skill_isolation |-> 38, transfer_test |-> 82]

InjectUtility(framing, inject, pressure) ==
  DQ!NetUtility(framing.context, 1000 * Greatest(LearningGain[inject], TransferValue[inject]),
                1000 * InjectRisk(inject, pressure))

\* The learning to be gained from what is allowed, in the order of the gains.
WholeBenefit(allowed) ==
  IF "direct_pressure" \in allowed THEN 78
  ELSE IF "skill_isolation" \in allowed THEN 64
  ELSE IF "transfer_test" \in allowed THEN 62 ELSE 0

WholeUtility(framing, pressure, allowed) ==
  DQ!NetUtility(framing.context, 1000 * WholeBenefit(allowed), 1000 * WholeRisk(pressure))
=============================================================================
