------------------------------- MODULE Critic -------------------------------
(***************************************************************************)
(* The deterministic critic of the operational twin: what verdict an       *)
(* option gets for its risk and confidence, the state of the team and the  *)
(* findings of the policy checks (operational_twin.py).                    *)
(*                                                                         *)
(* The code's floats are integers here, in hundred-thousandths: what it    *)
(* stores is rounded to thousandths and the risks it computes are exact in *)
(* this unit; the confidence of a baseline option is cut to it.            *)
(***************************************************************************)
EXTENDS Integers

One == 100000
Share == 0 .. One

\* max(low, min(high, value))
Clamped(low, high, value) ==
  IF value < low THEN low ELSE IF value > high THEN high ELSE value

\* round(value, 3)
Rounded(value) == 100 * ((value + 50) \div 100)

Verdicts == {"pass", "modify", "escalate", "reject"}

Severity == [verdict \in Verdicts |->
               CASE verdict = "pass" -> 0 [] verdict = "modify" -> 1
                 [] verdict = "escalate" -> 2 [] verdict = "reject" -> 3]

MoreRestrictive(current, proposed) ==
  IF Severity[proposed] > Severity[current] THEN proposed ELSE current

-----------------------------------------------------------------------------

\* The parts of OperationalStateVector that anything below depends on.
StateVector == [fatigue : Share, tempo : Share]

\* The evidence bundle's policy_checks: what they found amiss.  A control
\* mismatch counts with a classification mismatch: nothing tells them apart.
Findings == {"markings", "overload", "unapproved", "thin", "stale"}

Overloaded(vector) == vector.fatigue > 88000 /\ vector.tempo > 72000

Options == 1 .. 3

\* The second option is the "safer fallback".
OptionRisk(i, vector) ==
  LET base == IF i = 1 THEN 42000 ELSE IF i = 2 THEN 20000 ELSE 34000
      ofFatigue == IF i = 2 THEN 8 ELSE 20
      ofTempo == IF i = 2 THEN 5 ELSE 14
  IN  Clamped(0, One, base + (ofFatigue * vector.fatigue) \div 100
                           + (ofTempo * vector.tempo) \div 100)

\* 1 - uncertainty - 0.08 risk, within its bounds.
OptionConfidence(uncertainty, risk) ==
  Clamped(5000, 95000, One - uncertainty - (8 * risk) \div 100)

Forbidden(findings) == "markings" \in findings \/ "overload" \in findings

Doubtful(findings, risk, confidence) ==
  \/ findings \cap {"unapproved", "thin", "stale"} # {}
  \/ confidence < 64000
  \/ risk > 74000

CriticStatus(findings, vector, risk, confidence) ==
  IF Forbidden(findings) THEN "reject"
  ELSE IF Doubtful(findings, risk, confidence) THEN "escalate"
  ELSE IF vector.fatigue > 72000 /\ risk > 44000 THEN "modify"
  ELSE "pass"
=============================================================================
