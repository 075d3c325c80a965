-------------------------- MODULE ScenarioOptions ---------------------------
(***************************************************************************)
(* The second half of OperationalTwinService.run(): from a bundle of       *)
(* evidence to three options.  The scenario director and the critic each   *)
(* ask a language model, again when its answer is of no use, and fall back *)
(* to what the code computes itself; after each of the two, the governance *)
(* checks judge the options anew and keep the more restrictive verdict.    *)
(* (The first half, from a request to the bundle, is Evidence.)            *)
(*                                                                         *)
(* A stage is a function of what the one before returned, in one thread:   *)
(* nothing interleaves, but a model may answer anything.  Titles and       *)
(* narratives are left out but for which options are near-duplicates; the  *)
(* templates of the code are not.  The ids of options are fresh and cite   *)
(* the current bundle, and their status is draft, so the checks of both    *)
(* find nothing.  The trace of the stages is left out.                     *)
(*                                                                         *)
(* A definition commented as a variant is no part of the model: it is a    *)
(* mistake the property it names must detect.                              *)
(***************************************************************************)
EXTENDS Critic, FiniteSets

CONSTANTS
  ModelEnabled,  \* a client is configured and the provider is auto or openai
  MaxRetries,    \* agent_max_retries
  Reports,       \* the numbers a model may report, in hundred-thousandths
  Bundles        \* what a bundle and its estimate may come to

\* What the policy checks find, an overload apart, and the estimated state.
Bundle == [findings : SUBSET (Findings \ {"overload"}), vector : StateVector,
           uncertainty : Share]

ASSUME OptionsAssumption ==
  /\ ModelEnabled \in BOOLEAN
  /\ MaxRetries \in Nat
  /\ Reports \subseteq Int
  /\ Bundles \subseteq Bundle

Option == [risk : Share, confidence : Share, verdict : Verdicts]

VARIABLES
  step,         \* the stage under way
  findings,     \* policy_checks of the bundle
  vector,       \* the estimated state
  uncertainty,  \* and how uncertain it is
  options,      \* the three options, once drafted
  alike,        \* those that are a near-duplicate of another
  attempts,     \* failed attempts of the stage under way
  reviewed      \* the last option the critic's answer has been applied to

optionsVars == <<step, findings, vector, uncertainty, options, alike,
                 attempts, reviewed>>

Steps == {"idle", "directing", "criticising", "reviewing", "drafted"}
HasOptions == {"criticising", "reviewing", "drafted"}

OptionsTypeOK ==
  /\ step \in Steps
  /\ findings \in SUBSET Findings
  /\ vector \in StateVector
  /\ uncertainty \in Share
  /\ options \in [Options -> Option]
  /\ alike \in SUBSET Options
  /\ attempts \in 0 .. MaxRetries
  /\ reviewed \in 0 .. 3

\* A placeholder: no option has been drafted.
NoOptions == [i \in Options |-> [risk |-> 0, confidence |-> 0, verdict |-> "pass"]]

OptionsInit ==
  /\ step = "idle"
  /\ \E bundle \in Bundles :
       /\ findings = bundle.findings
       /\ vector = bundle.vector
       /\ uncertainty = bundle.uncertainty
  /\ options = NoOptions
  /\ alike = {}
  /\ attempts = 0
  /\ reviewed = 0

-----------------------------------------------------------------------------
(* Operators on options.                                                   *)

\* Python's "reported or default": 0 stands for a missing number as well.
Given(reported, default) == IF reported = 0 THEN default ELSE reported

Judged(f, v, risk, confidence) ==
  [risk |-> Rounded(risk), confidence |-> Rounded(confidence),
   verdict |-> CriticStatus(f, v, risk, confidence)]

\* _scenario_options(): a hold option in place of the first has its numbers.
Baseline(f, v, u) ==
  [i \in Options |-> LET risk == OptionRisk(i, v)
                     IN  Judged(f, v, risk, OptionConfidence(u, risk))]

Report == [risk : Reports, confidence : Reports]

\* _options_from_agent_payload() on a usable answer.
Directed(answer, f, v, u) ==
  [i \in Options |->
     Judged(f, v, Clamped(0, One, Given(answer[i].risk, OptionRisk(i, v))),
                  Clamped(5000, 95000, Given(answer[i].confidence, One - u)))]

\* What _duplicate_option_indexes() may return: both options of each pair.
DuplicateSets == {d \in SUBSET Options : Cardinality(d) # 1}

Governed(drafts, f, v, duplicates) ==
  [i \in Options |->
     LET draft == drafts[i]
         deterministic == CriticStatus(f, v, draft.risk, draft.confidence)
         status == MoreRestrictive(draft.verdict, deterministic)
     IN  [draft EXCEPT !.verdict =
            IF i \in duplicates THEN MoreRestrictive(status, "escalate") ELSE status]]

\* One review of _apply_agent_critic_reviews(); "pass" is also a status that
\* is missing or unknown.
Review == [verdict : Verdicts, risk : Reports, confidence : Reports]

\* The option with the worse numbers and the given verdict.
Numbers(option, review, verdict) ==
  LET risk == Clamped(0, One, Given(review.risk, option.risk))
      confidence == Clamped(0, One, Given(review.confidence, option.confidence))
  IN  [verdict |-> verdict,
       risk |-> Rounded(IF risk > option.risk THEN risk ELSE option.risk),
       confidence |->
         Rounded(IF confidence < option.confidence THEN confidence ELSE option.confidence)]

\* Variant (NoVerdictSoftens): the critic's verdict replaces the option's.
ReviewedAnew(option, review) == Numbers(option, review, review.verdict)

Reviewed(option, review) ==
  Numbers(option, review, MoreRestrictive(option.verdict, review.verdict))

-----------------------------------------------------------------------------

\* The bundle is there: its checks have found an overload in the estimate
\* exactly when the vector shows one.
ReceiveBundle ==
  /\ step = "idle"
  /\ step' = "directing"
  /\ findings' = findings \cup IF Overloaded(vector) THEN {"overload"} ELSE {}
  /\ UNCHANGED <<vector, uncertainty, options, alike, attempts, reviewed>>

\* An answer that raises, or has not exactly three usable options (the
\* director) or no array of reviews (the critic), and is not the last try.
AttemptFails ==
  /\ step \in {"directing", "criticising"}
  /\ ModelEnabled /\ attempts < MaxRetries
  /\ attempts' = attempts + 1
  /\ UNCHANGED <<step, findings, vector, uncertainty, options, alike, reviewed>>

\* Without a model, or when the last try fails too.
FallsBack == ~ModelEnabled \/ attempts = MaxRetries

DirectorAnswers ==
  /\ step = "directing" /\ ModelEnabled
  /\ \E answer \in [Options -> Report], duplicates \in DuplicateSets :
       /\ alike' = duplicates
       /\ options' = Governed(Directed(answer, findings, vector, uncertainty),
                              findings, vector, duplicates)
  /\ step' = "criticising"
  /\ attempts' = 0
  /\ UNCHANGED <<findings, vector, uncertainty, reviewed>>

DirectorFallsBack ==
  /\ step = "directing" /\ FallsBack
  /\ options' = Governed(Baseline(findings, vector, uncertainty), findings, vector, {})
  /\ step' = "criticising"
  /\ attempts' = 0
  /\ UNCHANGED <<findings, vector, uncertainty, alike, reviewed>>

CriticAnswers ==
  /\ step = "criticising" /\ ModelEnabled
  /\ step' = "reviewing"
  /\ attempts' = 0
  /\ UNCHANGED <<findings, vector, uncertainty, options, alike, reviewed>>

\* One review of the answer.  Reviews of different options do not touch each
\* other, and two of the same option come to one with the worse of their
\* verdicts and numbers, so one for each option, in order, stands for all.
ApplyReview(i) ==
  /\ step = "reviewing" /\ reviewed < i
  /\ \E review \in Review : options' = [options EXCEPT ![i] = Reviewed(@, review)]
  /\ reviewed' = i
  /\ UNCHANGED <<step, findings, vector, uncertainty, alike, attempts>>

\* Variant (PassIsEarned): nobody looks at the options after the critic.
ConcludeUnchecked ==
  /\ \/ step = "reviewing"
     \/ step = "criticising" /\ FallsBack
  /\ step' = "drafted"
  /\ UNCHANGED <<findings, vector, uncertainty, options, alike, attempts, reviewed>>

\* The last review has been applied, or the critic falls back to the verdicts
\* there are: the governance checks once more.
Conclude ==
  /\ \/ step = "reviewing"
     \/ step = "criticising" /\ FallsBack
  /\ options' = Governed(options, findings, vector, alike)
  /\ step' = "drafted"
  /\ UNCHANGED <<findings, vector, uncertainty, alike, attempts, reviewed>>

OptionsNext ==
  \/ ReceiveBundle
  \/ AttemptFails
  \/ DirectorAnswers \/ DirectorFallsBack
  \/ CriticAnswers \/ Conclude
  \/ \E i \in Options : ApplyReview(i)

OptionsSpec == OptionsInit /\ [][OptionsNext]_optionsVars

-----------------------------------------------------------------------------
(* Properties.                                                             *)

Sound(option, f, v) ==
  /\ f = {}
  /\ option.confidence >= 64000
  /\ option.risk <= 74000
  /\ v.fatigue > 72000 => option.risk <= 44000

\* A verdict fits the numbers stored beside it, not those it was first given
\* for: in what run() returns only a sound option that is no duplicate has
\* passed the critic, however the models answered, whether their answers came
\* at the first attempt or never, and though the numbers were rounded after
\* the first verdict.  Failed markings and an overloaded team reject all
\* three options, whatever any review said of them.
PassIsEarned ==
  step = "drafted" =>
    \A i \in Options :
      /\ options[i].verdict = "pass" => Sound(options[i], findings, vector) /\ i \notin alike
      /\ options[i].verdict = "modify" => findings = {} /\ i \notin alike
      /\ Forbidden(findings) => options[i].verdict = "reject"

Hardens(before, after) ==
  /\ Severity[after.verdict] >= Severity[before.verdict]
  /\ after.risk >= before.risk
  /\ after.confidence <= before.confidence

\* docs/architecture.md: deterministic safety gates cannot be weakened.  Once
\* there are options, no answer of a model and no later check makes a verdict
\* milder, a risk smaller or a confidence greater.
NoVerdictSoftens ==
  [][\A i \in Options :
       step \in HasOptions => Hardens(options[i], options'[i])]_optionsVars
=============================================================================
