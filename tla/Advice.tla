------------------------------- MODULE Advice -------------------------------
(***************************************************************************)
(* What is made of three governed options: the quality and the reliance    *)
(* guidance the operational twin attaches to each of them and to the run   *)
(* (decision_quality.py), and the posture a deployment recommendation      *)
(* derives from both (deployment.py).                                      *)
(*                                                                         *)
(* The service assesses, the caller derives: two functions of what was     *)
(* drafted.  The decision context, the effects options claim, how rich the *)
(* bundle is and the dimensions of the state no verdict depends on are     *)
(* inputs.  Rationales, notes, required controls and references are left   *)
(* out.                                                                    *)
(***************************************************************************)
EXTENDS ScenarioOptions, DecisionQuality

CONSTANTS
  Settings  \* the inputs considered

\* rest: the sum of clarity, cohesion and leader decision quality.
Setting ==
  [context : DecisionContext, sources : Nat, observed : Nat, average : Share,
   stated : BOOLEAN, effects : [Options -> Share], rest : 0 .. 3 * One]

ASSUME AdviceAssumption == Settings \subseteq Setting

VARIABLES
  turn,         \* how far the advice is
  setting,      \* the inputs
  quality,      \* the quality of each option
  runQuality,   \* and of the run
  utility,      \* net utility of each option
  recommended,  \* the option a deployment recommends, if any
  posture       \* and its posture

ownVars == <<turn, setting, quality, runQuality, utility, recommended, posture>>
adviceVars == <<optionsVars, ownVars>>

NoQuality == [readiness |-> "escalate", evidence |-> 0, uncertainty |-> 0]
NoOption == 0

\* A placeholder for inputs not chosen yet.
NoSetting ==
  [context |-> [filled |-> 0, constrained |-> FALSE, pressure |-> "low",
                reversibility |-> "reversible", impact |-> "low"],
   sources |-> 0, observed |-> 0, average |-> 0, stated |-> FALSE,
   effects |-> [i \in Options |-> 0], rest |-> 0]

NothingAdvised ==
  /\ turn = "waiting"
  /\ setting = NoSetting
  /\ quality = [i \in Options |-> NoQuality]
  /\ runQuality = NoQuality
  /\ utility = [i \in Options |-> 0]
  /\ recommended = NoOption
  /\ posture = "none"

AdviceInit == OptionsInit /\ NothingAdvised

-----------------------------------------------------------------------------
(* The twin assesses what it has drafted.                                  *)

Sufficiency(s) == TwinEvidenceSufficiency(s.sources, s.observed, s.average, findings)

\* The evidence is thin exactly when there are fewer than two observations.
Possible(s) == "thin" \in findings <=> s.observed < 2

Assess ==
  /\ step = "drafted" /\ turn = "waiting"
  /\ \E s \in Settings :
       /\ Possible(s)
       /\ setting' = s
       /\ quality' = [i \in Options |->
            OptionQuality(s.context, Sufficiency(s), findings, uncertainty, options[i])]
       /\ runQuality' = RunQuality(s.context, Sufficiency(s), findings, uncertainty, options)
       /\ utility' = [i \in Options |->
            NetUtility(s.context,
                       OptionBenefit(s.stated, s.effects[i], options[i].confidence),
                       options[i].risk)]
  /\ turn' = "assessed"
  /\ UNCHANGED <<recommended, posture>>

-----------------------------------------------------------------------------
(* A deployment recommendation made of a mission-mode run.                 *)

ReadinessScore == Rounded((2 * One - vector.fatigue - vector.tempo + setting.rest) \div 5)

\* _recommended_option() compares utility, then confidence, then risk, and of
\* equals takes the first.
Better(i, j) ==
  \/ utility[i] > utility[j]
  \/ /\ utility[i] = utility[j]
     /\ \/ options[i].confidence > options[j].confidence
        \/ /\ options[i].confidence = options[j].confidence
           /\ \/ options[i].risk < options[j].risk
              \/ options[i].risk = options[j].risk /\ i < j

Unrejected == {i \in Options : options[i].verdict # "reject"}

RecommendedOption ==
  IF Unrejected = {} THEN NoOption
  ELSE CHOOSE i \in Unrejected : \A j \in Unrejected \ {i} : Better(i, j)

\* Variant (DeployIsEarned): the posture looks at the recommended option only.
PostureOfOption(option) ==
  IF option = NoOption THEN "escalate_review"
  ELSE IF ReadinessScore < 45000 \/ vector.fatigue > 78000 THEN "hold"
  ELSE IF options[option].risk > 55000 \/ options[option].verdict \in {"modify", "escalate"}
    THEN "deploy_with_controls"
  ELSE "deploy"

\* An option that is escalated leaves nothing to deploy: its run is escalated.
DeploymentPosture(option) ==
  IF runQuality.readiness = "escalate" \/ option = NoOption THEN "escalate_review"
  ELSE IF ReadinessScore < 45000 \/ vector.fatigue > 78000 THEN "hold"
  ELSE IF options[option].risk > 55000 \/ options[option].verdict \in {"modify", "escalate"}
    THEN "deploy_with_controls"
  ELSE "deploy"

\* A deployment sends at least two artifacts: what was observed, and the
\* context of the mission.
Recommend ==
  /\ turn = "assessed" /\ setting.sources >= 2
  /\ recommended' = RecommendedOption
  /\ posture' = DeploymentPosture(RecommendedOption)
  /\ turn' = "advised"
  /\ UNCHANGED <<setting, quality, runQuality, utility>>

AdviceNext ==
  \/ OptionsNext /\ UNCHANGED ownVars
  \/ (Assess \/ Recommend) /\ UNCHANGED optionsVars

AdviceSpec == AdviceInit /\ [][AdviceNext]_adviceVars

-----------------------------------------------------------------------------
(* Properties.                                                             *)

Supported(i) == options[i].verdict \in {"pass", "modify"} /\ i \notin alike

\* docs/architecture.md: deploy when readiness and critic review support
\* action, escalate when evidence quality, governance or option rejection
\* requires higher review.  A team is told to deploy, with controls or
\* without, only if the policy checks found nothing and the critic let all
\* three options stand, not merely the recommended one; without controls only
\* if that one passed with numbers that earn it and the team is ready, however
\* models answered and whatever utility they claimed.
DeployIsEarned ==
  turn = "advised" =>
    /\ posture \in {"deploy", "deploy_with_controls"} =>
         /\ findings = {}
         /\ \A i \in Options : Supported(i)
         /\ vector.fatigue <= 78000
    /\ posture = "deploy" =>
         /\ options[recommended].verdict = "pass"
         /\ Sound(options[recommended], findings, vector)
         /\ options[recommended].risk <= 55000

\* What the guidance lets a human rely on, reviewed or challenged.
Relied(q) == RelianceGuidance(q) \in {"accept_with_review", "challenge_model"}

\* docs/frontend-integration.md shows the guidance where a human decides.  They
\* are told to rely on an option only if its critic let it stand, on a run only
\* if that holds of all its options, on neither if a policy check failed; and
\* what is to be accepted is what is ready, although the guidance looks at
\* rounded numbers and the readiness at those before.
RelianceIsEarned ==
  turn # "waiting" =>
    /\ \A i \in Options : Relied(quality[i]) => findings = {} /\ Supported(i)
    /\ Relied(runQuality) => findings = {} /\ \A i \in Options : Supported(i)
    /\ \A q \in {quality[i] : i \in Options} \cup {runQuality} :
         RelianceGuidance(q) = "accept_with_review" <=> q.readiness = "ready"
=============================================================================
