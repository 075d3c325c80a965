--------------------------- MODULE DecisionQuality ---------------------------
(***************************************************************************)
(* What decision_quality.py says beside a recommendation: how ready it is  *)
(* to be acted on, what acting on it is worth, and how far a human should  *)
(* rely on it.  Numbers are hundred-thousandths, as in Critic.             *)
(*                                                                         *)
(* The texts of a decision context are blank or not; of the reasons to     *)
(* escalate only whether there is one counts.  A third of the weight of    *)
(* the observations is cut to the unit; a half thousandth is rounded up.   *)
(*                                                                         *)
(* A definition commented as a variant is no part of the model: it is a    *)
(* mistake the property it names must detect.                              *)
(***************************************************************************)
EXTENDS Critic

\* filled: how many of decision point, role, objective and fallback are not
\* blank.
DecisionContext ==
  [filled : 0 .. 4, constrained : BOOLEAN,
   pressure : {"low", "medium", "high"},
   reversibility : {"reversible", "partially_reversible", "irreversible"},
   impact : {"low", "medium", "high"}]

Lower(a, b) == IF a < b THEN a ELSE b

-----------------------------------------------------------------------------
(* Quality.                                                                *)

FramingCompleteness(context) ==
  20000 * context.filled + IF context.constrained THEN 20000 ELSE 13000

\* A mismatch of markings counts for both of the checks it may fail, an
\* overload for safety and fatigue, a missing gate for none.  (Where a check
\* fails the decision is escalated whatever the evidence.)
FailedChecks(findings) ==
  LET Weight(finding, n) == IF finding \in findings THEN n ELSE 0
  IN  Weight("markings", 2) + Weight("overload", 2) + Weight("thin", 1)
        + Weight("stale", 1)

\* Of a bundle with this many sources and observations, and the average
\* confidence of the latter.
TwinEvidenceSufficiency(sources, observed, average, findings) ==
  10000 * Lower(sources, 2) + (25000 * Lower(observed, 3)) \div 3
    + (35 * average) \div 100 + (20000 * (6 - FailedChecks(findings))) \div 6

\* alarmed: the caller has reasons to escalate.
Quality(context, evidence, uncertainty, alarmed) ==
  [readiness |->
     IF \/ alarmed
        \/ context.reversibility = "irreversible" /\ uncertainty >= 45000
        \/ context.impact = "high" /\ evidence < 50000
       THEN "escalate"
     ELSE IF \/ evidence < 62000
             \/ uncertainty > 42000
             \/ FramingCompleteness(context) < 72000
       THEN "review"
     ELSE "ready",
   evidence |-> Rounded(Clamped(0, One, evidence)),
   uncertainty |-> Rounded(Clamped(0, One, uncertainty))]

\* Variant (RelianceIsEarned): the guidance looks at the numbers only.
GuidanceByNumbers(quality) ==
  IF quality.evidence < 55000 \/ quality.uncertainty > 45000
    THEN "defer_for_more_info"
  ELSE IF quality.readiness = "review" THEN "challenge_model"
  ELSE "accept_with_review"

\* The thresholds of the guidance are met by the rounded numbers, those of the
\* readiness by the ones before.
RelianceGuidance(quality) ==
  IF quality.readiness = "escalate" THEN "escalate"
  ELSE IF quality.evidence < 55000 \/ quality.uncertainty > 45000
    THEN "defer_for_more_info"
  ELSE IF quality.readiness = "review" THEN "challenge_model"
  ELSE "accept_with_review"

-----------------------------------------------------------------------------
(* Utility.                                                                *)

DelayCost == [pressure \in {"low", "medium", "high"} |->
  CASE pressure = "low" -> 18000 [] pressure = "medium" -> 42000
    [] pressure = "high" -> 72000]

ImpactCost == [impact \in {"low", "medium", "high"} |->
  CASE impact = "low" -> 20000 [] impact = "medium" -> 50000
    [] impact = "high" -> 82000]

FalsePositiveCost(context, harm) ==
  (70 * harm + 30 * ImpactCost[context.impact]) \div 100

NetUtility(context, benefit, harm) ==
  Rounded(Clamped(-One, One,
    (100 * benefit - 55 * harm - 20 * FalsePositiveCost(context, harm)
       - 15 * DelayCost[context.pressure]) \div 100))

-----------------------------------------------------------------------------
(* Options of an operational twin.                                         *)

\* _option_benefit(), where the option states an effect or does not.
OptionBenefit(stated, effect, confidence) ==
  IF stated THEN (75 * effect + 25 * confidence) \div 100
            ELSE (55 * confidence) \div 100

OptionUncertainty(uncertainty, option) ==
  (45 * uncertainty + 35 * (One - option.confidence) + 20 * option.risk) \div 100

\* assess_scenario_option(): every finding of the policy checks is a reason,
\* the missing gate among them.
OptionQuality(context, evidence, findings, uncertainty, option) ==
  Quality(context, evidence, OptionUncertainty(uncertainty, option),
          \/ findings # {}
          \/ option.verdict \in {"reject", "escalate"}
          \/ option.risk >= 72000)

\* The greatest of a number for each option.
Worst(number) ==
  number[CHOOSE i \in Options : \A j \in Options : number[j] <= number[i]]

RunUncertainty(uncertainty, options) ==
  LET doubt == [i \in Options |-> One - options[i].confidence]
      risk == [i \in Options |-> options[i].risk]
  IN  (55 * uncertainty + 25 * Worst(doubt) + 20 * Worst(risk)) \div 100

\* assess_operational_twin_run(): there are always three options.
RunQuality(context, evidence, findings, uncertainty, options) ==
  Quality(context, evidence, RunUncertainty(uncertainty, options),
          \/ findings # {}
          \/ \E i \in Options : options[i].verdict \in {"reject", "escalate"})
=============================================================================
