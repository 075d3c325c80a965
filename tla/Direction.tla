----------------------------- MODULE Direction -----------------------------
(***************************************************************************)
(* How an adaptation is directed: estimate_cognitive_state picks the skill *)
(* to develop and the pressure a team is under, direct_scenarios builds    *)
(* three injects for that skill and blocks those the instructor's          *)
(* constraints do not allow.                                               *)
(*                                                                         *)
(* The floats of the code are in hundredths, products of two of them in    *)
(* ten thousandths; a mean is rounded down.  What a piece of evidence      *)
(* scores for a dimension (its metrics, or the keywords in its text) is    *)
(* given.  Texts are left out, but for whether an inject changes the       *)
(* terrain.                                                                *)
(*                                                                         *)
(* A definition commented as a variant is no part of the model: it is a    *)
(* mistake the property it names must detect.                              *)
(***************************************************************************)
EXTENDS Integers, SequencesExt

Bounded(x) == IF x > 100 THEN 100 ELSE x   \* _clamp of what is not negative

Least(x, y) == IF x < y THEN x ELSE y
Greatest(x, y) == IF x > y THEN x ELSE y

-----------------------------------------------------------------------------
(* estimate_cognitive_state                                                *)

\* SKILL_DIMENSIONS, in order.
Skills == <<"sensemaking", "critical_thinking", "systems_thinking",
            "leadership_communication", "execution_reliability", "team_trust">>

\* The scores of the evidence that touches a dimension, or the neutral prior.
CurrentScore(scores) ==
  IF scores = <<>> THEN 72 ELSE FoldSeq(LAMBDA x, y : x + y, 0, scores) \div Len(scores)

\* Variant (PrimaryIsNearlyWeakest): the priority grows with the score.
PriorityOfStrength(scores) == CurrentScore(scores) * 82 + Least(Len(scores), 4) * 400

DevelopmentPriority(scores) ==
  (100 - CurrentScore(scores)) * 82 + Least(Len(scores), 4) * 400

\* max() keeps the first of several.
PrimaryDimension(evidence) ==
  LET Leads(i, j) ==
        LET p == DevelopmentPriority(evidence[Skills[i]])
            q == DevelopmentPriority(evidence[Skills[j]])
        IN  p > q \/ (p = q /\ i <= j)
  IN  Skills[CHOOSE i \in 1 .. Len(Skills) : \A j \in 1 .. Len(Skills) : Leads(i, j)]

Pressure(evidence) ==
  100 - Least(CurrentScore(evidence["sleep_fatigue"]), CurrentScore(evidence["cognitive_load"]))

-----------------------------------------------------------------------------
(* direct_scenarios                                                        *)

InjectTypes == {"direct_pressure", "skill_isolation", "transfer_test"}

\* The risk of the template, and more of it under pressure.
BaseRisk == [direct_pressure |-> 44, skill_isolation |-> 18, transfer_test |-> 36]

SafetyRisk(inject, pressure) ==
  BaseRisk[inject] + IF pressure > 55 /\ inject # "skill_isolation" THEN 18 ELSE 0

\* Variant (MoreCareRelaxesNothing): a score taken for a pressure.
FatigueRiskOfScore(inject, score) ==
  Bounded(100 - score + IF inject = "direct_pressure" THEN 12 ELSE 4)

FatigueRisk(inject, pressure) ==
  Bounded(pressure + IF inject = "direct_pressure" THEN 12 ELSE 4)

\* _risk_level, as a place in _RISK_ORDER: low, medium, high.
RiskLevel(inject, pressure) ==
  LET risk == Greatest(SafetyRisk(inject, pressure) * 100, FatigueRisk(inject, pressure) * 85)
  IN  IF risk >= 6800 THEN 2 ELSE IF risk >= 3400 THEN 1 ELSE 0

\* The injects whose text speaks of terrain.
ChangesTerrain(inject, skill) ==
  \/ inject = "skill_isolation" /\ skill = "systems_thinking"
  \/ inject = "transfer_test" /\ skill = "sensemaking"

\* Constraints: max_safety_risk, blocked_inject_types, allow_environmental_stress.
Constraint == [maxRisk : 0 .. 2, blocked : SUBSET InjectTypes, stress : BOOLEAN]

\* _audit_recommendation.
PassesAudit(inject, skill, pressure, constraint) ==
  /\ RiskLevel(inject, pressure) <= constraint.maxRisk
  /\ inject \notin constraint.blocked
  /\ constraint.stress \/ ~ ChangesTerrain(inject, skill)

Allowed(skill, pressure, constraint) ==
  {inject \in InjectTypes : PassesAudit(inject, skill, pressure, constraint)}

=============================================================================
