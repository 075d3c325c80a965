--------------------------- MODULE RequestsProofs ---------------------------
(***************************************************************************)
(* Proofs about the two halves of a twin run, Evidence and                 *)
(* ScenarioOptions, and about Advice, what is made of its options: for any *)
(* requests, controls, estimates, numbers of retries, answers of a model   *)
(* and decision contexts.  Then about Ingest, for any batches, about       *)
(* Selection, for any candidates, slots and costs, and about               *)
(* CandidatePool, for any rows, pools and projections.                     *)
(***************************************************************************)
EXTENDS Evidence, Advice, Ingest, Selection, CandidatePool, SequenceTheorems, FiniteSetTheorems,
        WellFoundedInduction, TLAPS

-----------------------------------------------------------------------------
(* Numbers and verdicts.                                                   *)

LEMMA OneFact == One = 100000
BY SMT DEF One

LEMMA ShareFacts == \A x : x \in Share <=> x \in Int /\ 0 <= x /\ x <= One
<1>1. One \in Int
  BY OneFact, SMT
<1>2. \A n \in Int : \A x : x \in 0 .. n <=> x \in Int /\ 0 <= x /\ x <= n
  BY SMT
<1>3. \A x : x \in 0 .. One <=> x \in Int /\ 0 <= x /\ x <= One
  BY <1>1, <1>2, Zenon
<1>. QED  BY <1>3, Zenon DEF Share

LEMMA RoundedNear ==
  ASSUME NEW x \in Int
  PROVE  \E q \in Int : Rounded(x) = 100 * q /\ 100 * q <= x + 50 /\ x + 50 < 100 * q + 100
<1>1. \A z \in Int : /\ z \div 100 \in Int
                     /\ 100 * (z \div 100) <= z
                     /\ z < 100 * (z \div 100) + 100
  BY SMT
<1>. QED  BY <1>1 DEF Rounded

LEMMA RoundedFacts ==
  ASSUME NEW x \in Int, NEW y \in Int
  PROVE  /\ Rounded(x) \in Int
         /\ x \in Share => Rounded(x) \in Share
         /\ Rounded(Rounded(x)) = Rounded(x)
         /\ x <= y => Rounded(x) <= Rounded(y)
<1>1. PICK p \in Int : Rounded(x) = 100 * p /\ 100 * p <= x + 50 /\ x + 50 < 100 * p + 100
  BY RoundedNear
<1>2. PICK q \in Int : Rounded(y) = 100 * q /\ 100 * q <= y + 50 /\ y + 50 < 100 * q + 100
  BY RoundedNear
<1>3. Rounded(x) \in Int
  BY <1>1, SMT
<1>4. PICK r \in Int : /\ Rounded(Rounded(x)) = 100 * r
                       /\ 100 * r <= Rounded(x) + 50 /\ Rounded(x) + 50 < 100 * r + 100
  BY <1>3, RoundedNear
<1>5. x \in Share => Rounded(x) \in Share
  BY <1>1, OneFact, ShareFacts, SMT
<1>6. p = r
  BY <1>1, <1>4, SMT
<1>7. x <= y => p <= q
  BY <1>1, <1>2, SMT
<1>. QED  BY <1>1, <1>2, <1>3, <1>4, <1>5, <1>6, <1>7, SMT

LEMMA ClampedFacts ==
  ASSUME NEW low \in Int, NEW high \in Int, low <= high, NEW x \in Int
  PROVE  Clamped(low, high, x) \in Int /\ Clamped(low, high, x) \in low .. high
BY DEF Clamped

LEMMA SeverityFacts ==
  /\ Severity \in [Verdicts -> 0 .. 3]
  /\ Severity["pass"] = 0 /\ Severity["modify"] = 1
  /\ Severity["escalate"] = 2 /\ Severity["reject"] = 3
<1>1. Verdicts = {"pass", "modify", "escalate", "reject"}
  BY DEF Verdicts
<1>2. Severity = [verdict \in Verdicts |->
                    CASE verdict = "pass" -> 0 [] verdict = "modify" -> 1
                      [] verdict = "escalate" -> 2 [] verdict = "reject" -> 3]
  BY DEF Severity
<1>. QED  BY <1>1, <1>2

\* Of two verdicts the result is one and as severe as both.
LEMMA MoreRestrictiveFacts ==
  ASSUME NEW a \in Verdicts, NEW b \in Verdicts
  PROVE  /\ MoreRestrictive(a, b) \in {a, b}
         /\ MoreRestrictive(a, b) \in Verdicts
         /\ Severity[MoreRestrictive(a, b)] >= Severity[a]
         /\ Severity[MoreRestrictive(a, b)] >= Severity[b]
BY SeverityFacts DEF MoreRestrictive

LEMMA CriticStatusType ==
  ASSUME NEW f, NEW v, NEW risk, NEW confidence
  PROVE  CriticStatus(f, v, risk, confidence) \in Verdicts
BY SMT DEF CriticStatus, Verdicts, Doubtful

\* The deterministic critic never answers a greater risk, a smaller confidence
\* or more findings with a milder verdict (_critic_status()).
THEOREM CriticIsMonotone ==
  ASSUME NEW f1 \in SUBSET Findings, NEW f2 \in SUBSET Findings, f1 \subseteq f2,
         NEW v \in StateVector,
         NEW r1 \in Share, NEW r2 \in Share, NEW c1 \in Share, NEW c2 \in Share,
         r1 <= r2, c2 <= c1
  PROVE  Severity[CriticStatus(f2, v, r2, c2)] >= Severity[CriticStatus(f1, v, r1, c1)]
<1>1. r1 \in Int /\ r2 \in Int /\ c1 \in Int /\ c2 \in Int /\ v.fatigue \in Int
  BY ShareFacts, SMT DEF StateVector
<1>2. CASE Forbidden(f2)
  <2>1. Severity[CriticStatus(f1, v, r1, c1)] \in 0 .. 3
    BY SeverityFacts, CriticStatusType
  <2>2. Severity[CriticStatus(f2, v, r2, c2)] = 3
    BY <1>2, SeverityFacts DEF CriticStatus
  <2>. QED  BY <2>1, <2>2
<1>3. CASE ~Forbidden(f2)
  <2>1. ~Forbidden(f1)
    BY <1>3 DEF Forbidden
  <2>2. Doubtful(f1, r1, c1) => Doubtful(f2, r2, c2)
    BY <1>1, SMT DEF Doubtful
  <2>. QED  BY <1>1, <1>3, <2>1, <2>2, SeverityFacts, SMT DEF CriticStatus
<1>. QED  BY <1>2, <1>3

-----------------------------------------------------------------------------
(* ScenarioOptions.                                                        *)

LEMMA VectorFacts ==
  ASSUME NEW v \in StateVector
  PROVE  v.fatigue \in Int /\ v.tempo \in Int
BY ShareFacts, SMT DEF StateVector

LEMMA ClampedInShare ==
  ASSUME NEW x \in Int
  PROVE  Clamped(0, One, x) \in Share /\ Clamped(5000, 95000, x) \in Share
<1>1. 0 \in Int /\ One \in Int /\ 0 <= One
  BY OneFact, SMT
<1>2. Clamped(0, One, x) \in 0 .. One
  BY <1>1, ClampedFacts
<1>3. Clamped(0, One, x) \in Share
  BY <1>2 DEF Share
<1>. DEFINE c == Clamped(5000, 95000, x)
<1>4. c \in Int /\ 0 <= c /\ c <= One
  BY OneFact, SMT DEF Clamped
<1>. HIDE DEF c
<1>5. c \in Share
  BY <1>4, ShareFacts, Zenon
<1>. QED  BY <1>3, <1>5, SMT DEF c

LEMMA OptionRiskType ==
  ASSUME NEW i \in Options, NEW v \in StateVector
  PROVE  OptionRisk(i, v) \in Share
<1>1. \A z \in Int : z \div 100 \in Int
  BY SMT
<1>. DEFINE base == IF i = 1 THEN 42000 ELSE IF i = 2 THEN 20000 ELSE 34000
            ofFatigue == IF i = 2 THEN 8 ELSE 20
            ofTempo == IF i = 2 THEN 5 ELSE 14
            total == base + (ofFatigue * v.fatigue) \div 100
                          + (ofTempo * v.tempo) \div 100
<1>2. ofFatigue * v.fatigue \in Int /\ ofTempo * v.tempo \in Int /\ base \in Int
  BY VectorFacts, SMT
<1>. HIDE DEF base, ofFatigue, ofTempo
<1>3. total \in Int
  BY <1>1, <1>2, SMT
<1>4. OptionRisk(i, v) = Clamped(0, One, total)
  BY SMT DEF OptionRisk, base, ofFatigue, ofTempo
<1>. HIDE DEF total
<1>. QED  BY <1>3, <1>4, ClampedInShare

LEMMA OptionConfidenceType ==
  ASSUME NEW u \in Share, NEW risk \in Share
  PROVE  OptionConfidence(u, risk) \in Share
<1>1. One - u - (8 * risk) \div 100 \in Int
  BY OneFact, ShareFacts, SMT
<1>. QED  BY <1>1, ClampedInShare DEF OptionConfidence

\* What is stored is rounded: to round it again changes nothing.
Settled(option) == Rounded(option.risk) = option.risk
                   /\ Rounded(option.confidence) = option.confidence

LEMMA JudgedType ==
  ASSUME NEW f, NEW v, NEW risk \in Share, NEW confidence \in Share
  PROVE  Judged(f, v, risk, confidence) \in Option /\ Settled(Judged(f, v, risk, confidence))
<1>1. risk \in Int /\ confidence \in Int
  BY ShareFacts
<1>2. Rounded(risk) \in Share /\ Rounded(confidence) \in Share
  BY <1>1, RoundedFacts
<1>3. Rounded(Rounded(risk)) = Rounded(risk)
      /\ Rounded(Rounded(confidence)) = Rounded(confidence)
  BY <1>1, RoundedFacts
<1>. QED  BY <1>2, <1>3, CriticStatusType DEF Judged, Option, Settled

LEMMA BaselineTypes ==
  ASSUME NEW f, NEW v \in StateVector, NEW u \in Share
  PROVE  /\ Baseline(f, v, u) \in [Options -> Option]
         /\ \A i \in Options : Settled(Baseline(f, v, u)[i])
<1>. DEFINE draft(i) == Judged(f, v, OptionRisk(i, v), OptionConfidence(u, OptionRisk(i, v)))
<1>1. Baseline(f, v, u) = [i \in Options |-> draft(i)]
  BY DEF Baseline
<1>2. \A i \in Options : draft(i) \in Option /\ Settled(draft(i))
  BY OptionRiskType, OptionConfidenceType, JudgedType
<1>. HIDE DEF draft
<1>. QED  BY <1>1, <1>2

LEMMA DirectedTypes ==
  ASSUME NEW f, NEW v \in StateVector, NEW u \in Share,
         Reports \subseteq Int, NEW reports \in [Options -> Report]
  PROVE  /\ Directed(reports, f, v, u) \in [Options -> Option]
         /\ \A i \in Options : Settled(Directed(reports, f, v, u)[i])
<1>. DEFINE risk(i) == Clamped(0, One, Given(reports[i].risk, OptionRisk(i, v)))
            confidence(i) == Clamped(5000, 95000, Given(reports[i].confidence, One - u))
            draft(i) == Judged(f, v, risk(i), confidence(i))
<1>1. Directed(reports, f, v, u) = [i \in Options |-> draft(i)]
  BY SMT DEF Directed
<1>2. ASSUME NEW i \in Options PROVE risk(i) \in Share /\ confidence(i) \in Share
  <2>1. reports[i].risk \in Int /\ reports[i].confidence \in Int
    BY DEF Report
  <2>2. OptionRisk(i, v) \in Int /\ One - u \in Int
    BY OptionRiskType, OneFact, ShareFacts, SMT
  <2>3. Given(reports[i].risk, OptionRisk(i, v)) \in Int
        /\ Given(reports[i].confidence, One - u) \in Int
    BY <2>1, <2>2, SMT DEF Given
  <2>. QED  BY <2>3, ClampedInShare
<1>. HIDE DEF risk, confidence
<1>3. \A i \in Options : draft(i) \in Option /\ Settled(draft(i))
  BY <1>2, JudgedType
<1>. HIDE DEF draft
<1>. QED  BY <1>1, <1>3

\* What the governance checks make of drafts: their numbers, a verdict no
\* milder, and one that fits both the numbers and the findings.
Governs(before, after, f, v, duplicate) ==
  /\ after \in Option /\ Settled(after)
  /\ Hardens(before, after)
  /\ after.verdict = "pass" => Sound(after, f, v) /\ ~duplicate
  /\ after.verdict = "modify" => f = {} /\ ~duplicate
  /\ Forbidden(f) => after.verdict = "reject"

LEMMA GovernedFacts ==
  ASSUME NEW drafts \in [Options -> Option], NEW f \in SUBSET Findings,
         NEW v \in StateVector, NEW duplicates \in SUBSET Options, NEW i \in Options,
         Settled(drafts[i])
  PROVE  Governs(drafts[i], Governed(drafts, f, v, duplicates)[i], f, v, i \in duplicates)
<1>. DEFINE draft == drafts[i]
            critic == CriticStatus(f, v, draft.risk, draft.confidence)
            status == MoreRestrictive(draft.verdict, critic)
            verdict == IF i \in duplicates THEN MoreRestrictive(status, "escalate")
                                           ELSE status
            option == Governed(drafts, f, v, duplicates)[i]
<1>1. /\ draft \in Option /\ draft.verdict \in Verdicts
      /\ draft.risk \in Share /\ draft.confidence \in Share
  BY DEF Option
<1>2. option = [draft EXCEPT !.verdict = verdict]
  BY DEF Governed
<1>3. critic \in Verdicts /\ "escalate" \in Verdicts
  BY CriticStatusType DEF Verdicts
<1>4. (critic = "pass" => Sound(draft, f, v))
      /\ (critic \in {"pass", "modify"} => f = {})
      /\ (Forbidden(f) => critic = "reject")
  <2>1. draft.risk \in Int /\ draft.confidence \in Int /\ v.fatigue \in Int
    BY <1>1, ShareFacts, VectorFacts
  <2>2. ~Forbidden(f) /\ f \cap {"unapproved", "thin", "stale"} = {} => f = {}
    BY DEF Forbidden, Findings
  <2>. HIDE DEF draft
  <2>. QED  BY <2>1, <2>2, SMT DEF CriticStatus, Doubtful, Sound
<1>. HIDE DEF critic, draft
<1>5. status \in Verdicts /\ Severity[status] >= Severity[draft.verdict]
      /\ Severity[status] >= Severity[critic]
  BY <1>1, <1>3, MoreRestrictiveFacts
<1>. HIDE DEF status
<1>6. /\ verdict \in Verdicts /\ Severity[verdict] >= Severity[draft.verdict]
      /\ Severity[verdict] >= Severity[critic]
      /\ i \in duplicates => Severity[verdict] >= Severity["escalate"]
  BY <1>1, <1>3, <1>5, MoreRestrictiveFacts, SeverityFacts
<1>. HIDE DEF verdict
<1>7. /\ option.verdict = verdict /\ option.risk = draft.risk
      /\ option.confidence = draft.confidence /\ option \in Option
  BY <1>1, <1>2, <1>6 DEF Option
<1>8. Settled(option)
  BY <1>7 DEF Settled, draft
<1>9. Hardens(draft, option)
  BY <1>1, <1>6, <1>7, ShareFacts DEF Hardens
<1>10. verdict = "pass" => critic = "pass" /\ i \notin duplicates
  BY <1>3, <1>6, SeverityFacts DEF Verdicts
<1>11. verdict = "modify" => critic \in {"pass", "modify"} /\ i \notin duplicates
  BY <1>3, <1>6, SeverityFacts DEF Verdicts
<1>12. critic = "reject" => verdict = "reject"
  BY <1>6, SeverityFacts DEF Verdicts
<1>13. Sound(draft, f, v) => Sound(option, f, v)
  BY <1>7, SMT DEF Sound
<1>. HIDE DEF option
<1>. QED  BY <1>4, <1>7, <1>8, <1>9, <1>10, <1>11, <1>12, <1>13
       DEF Governs, option, draft

\* What a review makes of an option.
LEMMA ReviewedFacts ==
  ASSUME NEW option \in Option, Settled(option), Reports \subseteq Int,
         NEW review \in Review
  PROVE  /\ Reviewed(option, review) \in Option /\ Settled(Reviewed(option, review))
         /\ Hardens(option, Reviewed(option, review))
<1>. DEFINE risk == Clamped(0, One, Given(review.risk, option.risk))
            confidence == Clamped(0, One, Given(review.confidence, option.confidence))
            greater == IF risk > option.risk THEN risk ELSE option.risk
            smaller == IF confidence < option.confidence THEN confidence
                                                         ELSE option.confidence
            verdict == MoreRestrictive(option.verdict, review.verdict)
            after == Reviewed(option, review)
<1>1. /\ option.verdict \in Verdicts /\ review.verdict \in Verdicts
      /\ option.risk \in Share /\ option.confidence \in Share
      /\ review.risk \in Int /\ review.confidence \in Int
  BY DEF Option, Review
<1>2. option.risk \in Int /\ option.confidence \in Int
  BY <1>1, ShareFacts
<1>3. Given(review.risk, option.risk) \in Int
      /\ Given(review.confidence, option.confidence) \in Int
  BY <1>1, <1>2 DEF Given
<1>4. risk \in Share /\ confidence \in Share
  BY <1>3, ClampedInShare
<1>5. after = [verdict |-> verdict, risk |-> Rounded(greater),
               confidence |-> Rounded(smaller)]
  BY DEF Reviewed, Numbers
<1>. HIDE DEF risk, confidence
<1>6. /\ greater \in Share /\ greater \in Int /\ option.risk <= greater
      /\ smaller \in Share /\ smaller \in Int /\ smaller <= option.confidence
  BY <1>1, <1>4, ShareFacts
<1>. HIDE DEF greater, smaller
<1>7. /\ Rounded(greater) \in Share /\ Rounded(smaller) \in Share
      /\ Rounded(Rounded(greater)) = Rounded(greater)
      /\ Rounded(Rounded(smaller)) = Rounded(smaller)
  BY <1>6, RoundedFacts
<1>8. Rounded(option.risk) <= Rounded(greater)
  BY <1>2, <1>6, RoundedFacts
<1>9. Rounded(smaller) <= Rounded(option.confidence)
  BY <1>2, <1>6, RoundedFacts
<1>10. verdict \in Verdicts /\ Severity[verdict] >= Severity[option.verdict]
  BY <1>1, MoreRestrictiveFacts
<1>. HIDE DEF verdict, after
<1>11. after.verdict = verdict /\ after.risk = Rounded(greater)
       /\ after.confidence = Rounded(smaller) /\ after \in Option
  BY <1>5, <1>7, <1>10 DEF Option
<1>12. Settled(after)
  BY <1>7, <1>11 DEF Settled
<1>13. Hardens(option, after)
  BY <1>8, <1>9, <1>10, <1>11 DEF Hardens, Settled
<1>. QED  BY <1>11, <1>12, <1>13 DEF after

\* The inductive invariant: what is stored is rounded, and what is drafted has
\* been through the governance checks.
OptionsInv ==
  /\ OptionsTypeOK
  /\ \A i \in Options : Settled(options[i])
  /\ PassIsEarned

LEMMA OptionsInitInv == OptionsInit => OptionsInv
<1>. SUFFICES ASSUME OptionsInit PROVE OptionsInv
  OBVIOUS
<1>1. 0 \in Share /\ Rounded(0) = 0
  BY OneFact, ShareFacts, SMT DEF Rounded
<1>2. options \in [Options -> Option] /\ \A i \in Options : Settled(options[i])
  BY <1>1 DEF OptionsInit, NoOptions, Option, Settled, Verdicts
<1>3. /\ vector \in StateVector /\ uncertainty \in Share
      /\ findings \in SUBSET Findings
  BY OptionsAssumption DEF OptionsInit, Bundle
<1>4. OptionsTypeOK
  BY <1>2, <1>3, OptionsAssumption DEF OptionsInit, OptionsTypeOK, Steps
<1>5. PassIsEarned
  BY DEF OptionsInit, PassIsEarned
<1>. QED  BY <1>2, <1>4, <1>5 DEF OptionsInv

\* Each step keeps the invariant, and hardens the options there are.
StepKeeps == OptionsInv' /\ \A i \in Options : step \in HasOptions => Hardens(options[i], options'[i])

LEMMA SameHardens ==
  ASSUME OptionsTypeOK, options' = options
  PROVE  \A i \in Options : Hardens(options[i], options'[i])
<1>. SUFFICES ASSUME NEW i \in Options PROVE Hardens(options[i], options[i])
  BY Zenon
<1>1. options[i].verdict \in Verdicts /\ options[i].risk \in Share
      /\ options[i].confidence \in Share
  BY DEF OptionsTypeOK, Option
<1>. QED  BY <1>1, ShareFacts, SeverityFacts DEF Hardens

LEMMA StageKeeps ==
  ASSUME OptionsInv,
         ReceiveBundle \/ AttemptFails \/ CriticAnswers \/ UNCHANGED optionsVars
  PROVE  StepKeeps
<1>1. options' = options
  BY DEF ReceiveBundle, AttemptFails, CriticAnswers, optionsVars
<1>2. \A i \in Options : Settled(options'[i])
  BY <1>1 DEF OptionsInv
<1>3. findings' \in SUBSET Findings
  BY OptionsAssumption
  DEF ReceiveBundle, AttemptFails, CriticAnswers, optionsVars, OptionsInv,
      OptionsTypeOK, Findings
<1>4. attempts' \in 0 .. MaxRetries
  BY OptionsAssumption
  DEF ReceiveBundle, AttemptFails, CriticAnswers, optionsVars, OptionsInv, OptionsTypeOK
<1>5. OptionsTypeOK'
  BY <1>1, <1>3, <1>4
  DEF ReceiveBundle, AttemptFails, CriticAnswers, optionsVars, OptionsInv,
      OptionsTypeOK, Steps
<1>6. PassIsEarned'
  <2>1. CASE UNCHANGED optionsVars
    BY <2>1 DEF optionsVars, OptionsInv, PassIsEarned, Sound, Forbidden
  <2>2. CASE ReceiveBundle \/ AttemptFails \/ CriticAnswers
    BY <2>2 DEF ReceiveBundle, AttemptFails, CriticAnswers, PassIsEarned
  <2>. QED  BY <2>1, <2>2
<1>. QED  BY <1>1, <1>2, <1>5, <1>6, SameHardens DEF StepKeeps, OptionsInv

LEMMA DirectorKeeps ==
  ASSUME OptionsInv, DirectorAnswers \/ DirectorFallsBack
  PROVE  StepKeeps
<1>1. PICK drafts \in [Options -> Option], duplicates \in SUBSET Options :
        /\ \A i \in Options : Settled(drafts[i])
        /\ options' = Governed(drafts, findings, vector, duplicates)
        /\ alike' \in SUBSET Options
  <2>1. CASE DirectorAnswers
    <3>1. PICK reports \in [Options -> Report], duplicates \in DuplicateSets :
            /\ alike' = duplicates
            /\ options' = Governed(Directed(reports, findings, vector, uncertainty),
                                   findings, vector, duplicates)
      BY <2>1 DEF DirectorAnswers
    <3>. DEFINE drafts == Directed(reports, findings, vector, uncertainty)
    <3>2. drafts \in [Options -> Option] /\ \A i \in Options : Settled(drafts[i])
      BY DirectedTypes, OptionsAssumption DEF OptionsInv, OptionsTypeOK
    <3>3. duplicates \in SUBSET Options
      BY <3>1 DEF DuplicateSets
    <3>. QED  BY <3>1, <3>2, <3>3
  <2>2. CASE DirectorFallsBack
    <3>. DEFINE drafts == Baseline(findings, vector, uncertainty)
    <3>1. options' = Governed(drafts, findings, vector, {}) /\ alike' = alike
      BY <2>2 DEF DirectorFallsBack
    <3>2. drafts \in [Options -> Option] /\ \A i \in Options : Settled(drafts[i])
      BY BaselineTypes DEF OptionsInv, OptionsTypeOK
    <3>. QED  BY <3>1, <3>2 DEF OptionsInv, OptionsTypeOK
  <2>. QED  BY <2>1, <2>2
<1>2. \A i \in Options : options'[i] \in Option /\ Settled(options'[i])
  <2>1. findings \in SUBSET Findings /\ vector \in StateVector
    BY DEF OptionsInv, OptionsTypeOK
  <2>2. SUFFICES ASSUME NEW i \in Options
                 PROVE  options'[i] \in Option /\ Settled(options'[i])
    OBVIOUS
  <2>3. Governs(drafts[i], options'[i], findings, vector, i \in duplicates)
    BY <1>1, <2>1, GovernedFacts
  <2>. QED  BY <2>3 DEF Governs
<1>3. options' \in [Options -> Option]
  BY <1>1, <1>2 DEF Governed
<1>4. OptionsTypeOK'
  BY <1>1, <1>3, OptionsAssumption
  DEF DirectorAnswers, DirectorFallsBack, OptionsInv, OptionsTypeOK, Steps
<1>5. PassIsEarned' /\ step \notin HasOptions
  BY DEF DirectorAnswers, DirectorFallsBack, PassIsEarned, HasOptions
<1>. QED  BY <1>2, <1>4, <1>5 DEF StepKeeps, OptionsInv

LEMMA ReviewKeeps ==
  ASSUME OptionsInv, NEW i \in Options, ApplyReview(i)
  PROVE  StepKeeps
<1>1. PICK review \in Review : options' = [options EXCEPT ![i] = Reviewed(@, review)]
  BY DEF ApplyReview
<1>2. options \in [Options -> Option] /\ Settled(options[i])
  BY DEF OptionsInv, OptionsTypeOK
<1>3. /\ Reviewed(options[i], review) \in Option /\ Settled(Reviewed(options[i], review))
      /\ Hardens(options[i], Reviewed(options[i], review))
  BY <1>2, ReviewedFacts, OptionsAssumption
<1>4. options' \in [Options -> Option]
      /\ \A j \in Options : Settled(options'[j])
  BY <1>1, <1>2, <1>3 DEF OptionsInv
<1>5. \A j \in Options : Hardens(options[j], options'[j])
  <2>. SUFFICES ASSUME NEW j \in Options PROVE Hardens(options[j], options'[j])
    OBVIOUS
  <2>1. options[j].verdict \in Verdicts /\ options[j].risk \in Share
        /\ options[j].confidence \in Share
    BY <1>2 DEF Option
  <2>2. CASE j = i
    BY <1>1, <1>2, <1>3, <2>2
  <2>3. CASE j # i
    <3>1. options'[j] = options[j]
      BY <1>1, <1>2, <2>3
    <3>. QED  BY <2>1, <3>1, ShareFacts, SeverityFacts DEF Hardens
  <2>. QED  BY <2>2, <2>3
<1>6. OptionsTypeOK'
  BY <1>4 DEF ApplyReview, OptionsInv, OptionsTypeOK, Options
<1>7. PassIsEarned'
  BY DEF ApplyReview, PassIsEarned
<1>. QED  BY <1>4, <1>5, <1>6, <1>7 DEF StepKeeps, OptionsInv

LEMMA ConcludeKeeps ==
  ASSUME OptionsInv, Conclude
  PROVE  StepKeeps
<1>1. /\ options' = Governed(options, findings, vector, alike)
      /\ step' = "drafted"
      /\ UNCHANGED <<findings, vector, uncertainty, alike, attempts, reviewed>>
  BY DEF Conclude
<1>2. /\ options \in [Options -> Option] /\ findings \in SUBSET Findings
      /\ vector \in StateVector /\ alike \in SUBSET Options
      /\ \A i \in Options : Settled(options[i])
  BY DEF OptionsInv, OptionsTypeOK
<1>3. \A i \in Options : Governs(options[i], options'[i], findings, vector, i \in alike)
  BY <1>1, <1>2, GovernedFacts
<1>4. options' \in [Options -> Option] /\ \A i \in Options : Settled(options'[i])
  BY <1>1, <1>3 DEF Governed, Governs
<1>5. OptionsTypeOK'
  BY <1>1, <1>4 DEF OptionsInv, OptionsTypeOK, Steps
<1>6. PassIsEarned'
  BY <1>1, <1>3 DEF PassIsEarned, Governs, Sound, Forbidden
<1>. QED  BY <1>3, <1>4, <1>5, <1>6 DEF StepKeeps, OptionsInv, Governs

LEMMA OptionsStep ==
  ASSUME OptionsInv, [OptionsNext]_optionsVars
  PROVE  StepKeeps
BY StageKeeps, DirectorKeeps, ReviewKeeps, ConcludeKeeps DEF OptionsNext

\* The variables of ScenarioOptions keep their types, whatever the models
\* report: risks and confidences stay shares.
THEOREM OptionsTypeCorrect == OptionsSpec => []OptionsTypeOK
<1>1. OptionsInv /\ [OptionsNext]_optionsVars => OptionsInv'
  BY OptionsStep DEF StepKeeps
<1>2. OptionsInv => OptionsTypeOK
  BY DEF OptionsInv
<1>. QED  BY OptionsInitInv, <1>1, <1>2, PTL DEF OptionsSpec

\* Whatever the models answer, and however often they fail, only an option
\* that earns it has passed the critic in what run() returns.
THEOREM PassesAreEarned == OptionsSpec => []PassIsEarned
<1>1. OptionsInv /\ [OptionsNext]_optionsVars => OptionsInv'
  BY OptionsStep DEF StepKeeps
<1>2. OptionsInv => PassIsEarned
  BY DEF OptionsInv
<1>. QED  BY OptionsInitInv, <1>1, <1>2, PTL DEF OptionsSpec

\* From the first draft on no step makes a verdict milder or a number better.
THEOREM VerdictsHarden == OptionsSpec => NoVerdictSoftens
<1>1. OptionsInv /\ [OptionsNext]_optionsVars => OptionsInv'
  BY OptionsStep DEF StepKeeps
<1>2. OptionsInv /\ [OptionsNext]_optionsVars =>
        [\A i \in Options :
           step \in HasOptions => Hardens(options[i], options'[i])]_optionsVars
  BY OptionsStep DEF StepKeeps
<1>. QED  BY OptionsInitInv, <1>1, <1>2, PTL DEF OptionsSpec, NoVerdictSoftens

-----------------------------------------------------------------------------
(* Advice.                                                                 *)

\* What is asked of a quality: reasons to escalate escalate it, and its
\* guidance accepts exactly what is ready.
Advises(q, alarmed) ==
  /\ alarmed => q.readiness = "escalate"
  /\ q.readiness = "escalate" => ~Relied(q)
  /\ RelianceGuidance(q) = "accept_with_review" <=> q.readiness = "ready"

LEMMA QualityFacts ==
  ASSUME NEW context, NEW evidence \in Int, NEW doubt \in Int, NEW alarmed \in BOOLEAN
  PROVE  Advises(Quality(context, evidence, doubt, alarmed), alarmed)
<1>. DEFINE q == Quality(context, evidence, doubt, alarmed)
            e == Clamped(0, One, evidence)
            u == Clamped(0, One, doubt)
<1>1. /\ q.readiness \in {"escalate", "review", "ready"}
      /\ q.evidence = Rounded(e) /\ q.uncertainty = Rounded(u)
      /\ alarmed => q.readiness = "escalate"
      /\ q.readiness = "ready" => ~(evidence < 62000) /\ ~(doubt > 42000)
  BY SMT DEF Quality
<1>2. e \in Int /\ u \in Int
  BY OneFact, SMT DEF Clamped
<1>3. ASSUME q.readiness = "ready" PROVE ~(q.evidence < 55000) /\ ~(q.uncertainty > 45000)
  <2>1. 62000 <= e /\ u <= 42000
    BY <1>1, <1>3, OneFact, SMT DEF Clamped
  <2>2. Rounded(62000) = 62000 /\ Rounded(42000) = 42000
    BY SMT DEF Rounded
  <2>. HIDE DEF e, u, q
  <2>3. Rounded(62000) <= Rounded(e) /\ Rounded(u) <= Rounded(42000)
        /\ Rounded(e) \in Int /\ Rounded(u) \in Int
    BY <1>2, <2>1, RoundedFacts, SMT
  <2>. QED  BY <1>1, <2>2, <2>3, SMT
<1>. HIDE DEF q, e, u
<1>4. q.readiness = "ready" => RelianceGuidance(q) = "accept_with_review"
  BY <1>3, SMT DEF RelianceGuidance
<1>5. RelianceGuidance(q) = "accept_with_review" => q.readiness = "ready"
  BY <1>1, SMT DEF RelianceGuidance
<1>6. q.readiness = "escalate" => ~Relied(q)
  BY SMT DEF RelianceGuidance, Relied
<1>7. Advises(q, alarmed)
  BY <1>1, <1>4, <1>5, <1>6, SMT DEF Advises
<1>. QED  BY <1>7 DEF q

LEMMA OptionQualityFacts ==
  ASSUME NEW context, NEW evidence \in Int, NEW f, NEW u, NEW option,
         OptionUncertainty(u, option) \in Int
  PROVE  Advises(OptionQuality(context, evidence, f, u, option),
                 f # {} \/ option.verdict \in {"reject", "escalate"})
<1>. DEFINE alarmed == \/ f # {}
                       \/ option.verdict \in {"reject", "escalate"}
                       \/ option.risk >= 72000
<1>1. OptionQuality(context, evidence, f, u, option)
        = Quality(context, evidence, OptionUncertainty(u, option), alarmed)
  BY DEF OptionQuality
<1>2. alarmed \in BOOLEAN
  OBVIOUS
<1>3. f # {} \/ option.verdict \in {"reject", "escalate"} => alarmed
  OBVIOUS
<1>. HIDE DEF alarmed
<1>4. Advises(OptionQuality(context, evidence, f, u, option), alarmed)
  BY <1>1, <1>2, QualityFacts, Zenon
<1>. QED  BY <1>3, <1>4, Zenon DEF Advises

LEMMA WorstFacts ==
  ASSUME NEW number \in [Options -> Int]
  PROVE  Worst(number) \in Int
<1>1. \E i \in Options : \A j \in Options : number[j] <= number[i]
  BY SMT DEF Options
<1>. QED  BY <1>1 DEF Worst

LEMMA DoubtFacts ==
  ASSUME NEW u \in Share, NEW o \in [Options -> Option]
  PROVE  /\ \A i \in Options : OptionUncertainty(u, o[i]) \in Int
         /\ RunUncertainty(u, o) \in Int
<1>1. u \in Int /\ One \in Int
      /\ \A i \in Options : o[i].confidence \in Int /\ o[i].risk \in Int
  BY OneFact, ShareFacts, SMT DEF Option
<1>2. \A i \in Options : OptionUncertainty(u, o[i]) \in Int
  BY <1>1, SMT DEF OptionUncertainty
<1>. DEFINE doubt == [i \in Options |-> One - o[i].confidence]
            risk == [i \in Options |-> o[i].risk]
<1>3. Worst(doubt) \in Int /\ Worst(risk) \in Int
  <2>1. doubt \in [Options -> Int] /\ risk \in [Options -> Int]
    BY <1>1, SMT
  <2>. QED  BY <2>1, WorstFacts
<1>4. RunUncertainty(u, o) =
        (55 * u + 25 * Worst(doubt) + 20 * Worst(risk)) \div 100
  BY DEF RunUncertainty
<1>. HIDE DEF doubt, risk
<1>. QED  BY <1>1, <1>2, <1>3, <1>4, SMT

LEMMA SufficiencyFacts ==
  ASSUME NEW s \in Setting
  PROVE  Sufficiency(s) \in Int
<1>1. s.sources \in Int /\ s.observed \in Int /\ s.average \in Int
  BY ShareFacts, SMT DEF Setting
<1>2. FailedChecks(findings) \in Int
  BY SMT DEF FailedChecks
<1>3. Lower(s.sources, 2) \in Int /\ Lower(s.observed, 3) \in Int
  BY <1>1, SMT DEF Lower
<1>. QED  BY <1>1, <1>2, <1>3, SMT DEF Sufficiency, TwinEvidenceSufficiency

LEMMA UtilityFacts ==
  ASSUME NEW s \in Setting, NEW option \in Option, NEW i \in Options
  PROVE  NetUtility(s.context, OptionBenefit(s.stated, s.effects[i], option.confidence),
                    option.risk) \in Int
<1>1. option.confidence \in Int /\ option.risk \in Int /\ s.effects[i] \in Int
  BY ShareFacts DEF Option, Setting
<1>2. s.context.pressure \in {"low", "medium", "high"}
      /\ s.context.impact \in {"low", "medium", "high"}
  BY DEF Setting, DecisionContext
<1>3. DelayCost[s.context.pressure] \in Int
  BY <1>2, SMT DEF DelayCost
<1>4. ImpactCost[s.context.impact] \in Int
  BY <1>2, SMT DEF ImpactCost
<1>. DEFINE benefit == OptionBenefit(s.stated, s.effects[i], option.confidence)
            cost == FalsePositiveCost(s.context, option.risk)
<1>5. benefit \in Int
  BY <1>1, SMT DEF OptionBenefit
<1>6. cost \in Int
  BY <1>1, <1>4, SMT DEF FalsePositiveCost
<1>. DEFINE net == (100 * benefit - 55 * option.risk - 20 * cost
                      - 15 * DelayCost[s.context.pressure]) \div 100
<1>7. NetUtility(s.context, benefit, option.risk) = Rounded(Clamped(-One, One, net))
  BY DEF NetUtility
<1>. HIDE DEF benefit, cost
<1>8. net \in Int
  BY <1>1, <1>3, <1>5, <1>6, SMT
<1>. HIDE DEF net
<1>9. Clamped(-One, One, net) \in Int
  BY <1>8, OneFact, SMT DEF Clamped
<1>10. NetUtility(s.context, benefit, option.risk) \in Int
  BY <1>7, <1>9, RoundedFacts
<1>. QED  BY <1>10 DEF benefit

\* The option recommended exists: the order of the options is total.
LEMMA RecommendedFacts ==
  ASSUME OptionsInv, utility \in [Options -> Int]
  PROVE  RecommendedOption \in Options \cup {NoOption}
<1>1. \A i \in Options : /\ utility[i] \in Int
                         /\ options[i].confidence \in Int /\ options[i].risk \in Int
  BY ShareFacts DEF OptionsInv, OptionsTypeOK, Option
<1>2. /\ \A i, j \in Options : i # j => Better(i, j) \/ Better(j, i)
      /\ \A i, j, k \in Options : Better(i, j) /\ Better(j, k) => Better(i, k)
  BY <1>1, SMT DEF Better, Options
<1>3. ASSUME NEW S \in SUBSET Options, S # {}
      PROVE  \E i \in S : \A j \in S \ {i} : Better(i, j)
  <2>1. Options = {1, 2, 3}
    BY SMT DEF Options
  <2>2. PICK a \in S : TRUE
    BY <1>3
  <2>3. CASE \A j \in S \ {a} : Better(a, j)
    BY <2>3
  <2>4. CASE \E b \in S \ {a} : ~Better(a, b)
    <3>1. PICK b \in S \ {a} : Better(b, a)
      BY <1>2, <2>4
    <3>2. CASE \A j \in S \ {b} : Better(b, j)
      BY <3>2
    <3>3. CASE \E c \in S \ {b} : ~Better(b, c)
      <4>1. PICK c \in S \ {b} : ~Better(b, c)
        BY <3>3
      <4>2. Better(c, b) /\ c # a
        BY <1>2, <3>1, <4>1
      <4>3. Better(c, a)
        BY <1>2, <3>1, <4>2
      <4>4. \A j \in S : j \in {a, b, c}
        BY <2>1, <3>1, <4>1, <4>2
      <4>. QED  BY <4>2, <4>3, <4>4
    <3>. QED  BY <3>2, <3>3
  <2>. QED  BY <2>3, <2>4
<1>4. Unrejected \in SUBSET Options
  BY DEF Unrejected
<1>5. CASE Unrejected = {}
  BY <1>5 DEF RecommendedOption
<1>6. CASE Unrejected # {}
  BY <1>3, <1>4, <1>6 DEF RecommendedOption
<1>. QED  BY <1>5, <1>6

\* What the policy checks and the critic hold against an option, a run.
AgainstOption(i) == findings # {} \/ options[i].verdict \in {"reject", "escalate"}
AgainstRun == findings # {} \/ \E i \in Options : options[i].verdict \in {"reject", "escalate"}

\* The inductive invariant: the options a quality was given for are still the
\* ones drafted.
AdviceInv ==
  /\ OptionsInv
  /\ turn \in {"waiting", "assessed", "advised"}
  /\ turn # "waiting" =>
       /\ step = "drafted"
       /\ \A i \in Options : Advises(quality[i], AgainstOption(i))
       /\ Advises(runQuality, AgainstRun)
       /\ utility \in [Options -> Int]
  /\ turn = "advised" => posture = DeploymentPosture(recommended)
                         /\ recommended \in Options \cup {NoOption}

LEMMA AssessKeeps ==
  ASSUME OptionsInv, OptionsInv', Assess, UNCHANGED optionsVars
  PROVE  AdviceInv'
<1>1. PICK s \in Settings :
        /\ quality' = [i \in Options |->
             OptionQuality(s.context, Sufficiency(s), findings, uncertainty, options[i])]
        /\ runQuality' = RunQuality(s.context, Sufficiency(s), findings, uncertainty, options)
        /\ utility' = [i \in Options |->
             NetUtility(s.context,
                        OptionBenefit(s.stated, s.effects[i], options[i].confidence),
                        options[i].risk)]
  BY DEF Assess
<1>. DEFINE e == Sufficiency(s)
            doubt(i) == OptionUncertainty(uncertainty, options[i])
            runDoubt == RunUncertainty(uncertainty, options)
<1>2. e \in Int
  BY AdviceAssumption, SufficiencyFacts
<1>3. runDoubt \in Int /\ \A i \in Options : doubt(i) \in Int
  BY DoubtFacts DEF OptionsInv, OptionsTypeOK
<1>4. ASSUME NEW i \in Options PROVE Advises(quality'[i], AgainstOption(i))
  <2>1. quality'[i] = OptionQuality(s.context, e, findings, uncertainty, options[i])
    BY <1>1
  <2>. QED  BY <1>2, <1>3, <2>1, OptionQualityFacts DEF AgainstOption
<1>5. Advises(runQuality', AgainstRun)
  <2>1. runQuality' = Quality(s.context, e, runDoubt, AgainstRun)
    BY <1>1, Zenon DEF RunQuality, AgainstRun
  <2>2. AgainstRun \in BOOLEAN
    BY DEF AgainstRun
  <2>. HIDE DEF e, runDoubt
  <2>. QED  BY <1>2, <1>3, <2>1, <2>2, QualityFacts, Zenon
<1>6. /\ \A i \in Options : AgainstOption(i)' = AgainstOption(i)
      /\ AgainstRun' = AgainstRun
  BY DEF AgainstOption, AgainstRun, optionsVars
<1>7. /\ \A i \in Options : Advises(quality[i], AgainstOption(i))'
      /\ Advises(runQuality, AgainstRun)'
  BY <1>4, <1>5, <1>6 DEF Advises, Relied
<1>8. turn' = "assessed" /\ step' = "drafted"
  BY DEF Assess, optionsVars
<1>9. utility' \in [Options -> Int]
  BY <1>1, AdviceAssumption, UtilityFacts DEF OptionsInv, OptionsTypeOK
<1>. QED  BY <1>7, <1>8, <1>9 DEF AdviceInv

LEMMA AdviceStep ==
  ASSUME AdviceInv, [AdviceNext]_adviceVars
  PROVE  AdviceInv'
<1>1. OptionsInv'
  BY OptionsStep DEF AdviceInv, AdviceNext, adviceVars, StepKeeps, Assess, Recommend
<1>2. CASE OptionsNext /\ UNCHANGED ownVars
  <2>1. turn = "waiting"
    BY <1>2 DEF AdviceInv, OptionsNext, ReceiveBundle, AttemptFails, DirectorAnswers,
                DirectorFallsBack, CriticAnswers, Conclude, ApplyReview
  <2>. QED  BY <1>1, <1>2, <2>1 DEF AdviceInv, ownVars
<1>3. CASE Assess /\ UNCHANGED optionsVars
  BY <1>1, <1>3, AssessKeeps DEF AdviceInv
<1>4. CASE Recommend /\ UNCHANGED optionsVars
  <2>1. /\ AgainstRun' = AgainstRun
        /\ \A i \in Options : AgainstOption(i)' = AgainstOption(i)
    BY <1>4 DEF AgainstOption, AgainstRun, optionsVars
  <2>2. /\ \A i \in Options : Advises(quality[i], AgainstOption(i))'
        /\ Advises(runQuality, AgainstRun)'
    BY <1>4, <2>1 DEF AdviceInv, Recommend, Advises, Relied
  <2>3. turn' = "advised" /\ step' = "drafted"
    BY <1>4 DEF AdviceInv, Recommend, optionsVars
  <2>4. RecommendedOption \in Options \cup {NoOption}
    BY <1>4, RecommendedFacts DEF AdviceInv, Recommend
  <2>5. posture' = DeploymentPosture(recommended)'
    BY <1>4 DEF Recommend, DeploymentPosture, ReadinessScore, optionsVars
  <2>. QED  BY <1>1, <1>4, <2>2, <2>3, <2>4, <2>5 DEF AdviceInv, Recommend
<1>5. CASE UNCHANGED adviceVars
  BY <1>1, <1>5
  DEF AdviceInv, adviceVars, ownVars, optionsVars, AgainstOption, AgainstRun, Advises,
      Relied, DeploymentPosture, ReadinessScore
<1>. QED  BY <1>2, <1>3, <1>4, <1>5 DEF AdviceNext

LEMMA AdviceInvariant == AdviceSpec => []AdviceInv
<1>1. AdviceInit => AdviceInv
  BY OptionsInitInv DEF AdviceInit, NothingAdvised, AdviceInv
<1>. QED  BY <1>1, AdviceStep, PTL DEF AdviceSpec

\* Whatever the models answer and whatever the settings are: a team is told to
\* deploy only if nothing was found and every option stands.
THEOREM DeploymentsAreEarned == AdviceSpec => []DeployIsEarned
<1>1. AdviceInv => DeployIsEarned
  <2>. SUFFICES ASSUME AdviceInv, turn = "advised" PROVE DeployIsEarned
    BY DEF DeployIsEarned
  <2>1. /\ posture = DeploymentPosture(recommended) /\ step = "drafted"
        /\ recommended \in Options \cup {NoOption}
        /\ AgainstRun => runQuality.readiness = "escalate"
    BY DEF AdviceInv, Advises
  <2>2. \A i \in Options :
          /\ options[i].verdict \in Verdicts
          /\ options[i].verdict = "pass" => Sound(options[i], findings, vector) /\ i \notin alike
          /\ options[i].verdict = "modify" => i \notin alike
    BY <2>1 DEF AdviceInv, OptionsInv, OptionsTypeOK, Option, PassIsEarned
  <2>3. vector.fatigue \in Int /\ \A i \in Options : options[i].risk \in Int
    BY ShareFacts DEF AdviceInv, OptionsInv, OptionsTypeOK, Option, StateVector
  <2>4. ASSUME posture \in {"deploy", "deploy_with_controls"}
        PROVE  /\ findings = {} /\ \A i \in Options : Supported(i)
               /\ vector.fatigue <= 78000
    <3>1. ~AgainstRun /\ ~(vector.fatigue > 78000)
      BY <2>1, <2>4, SMT DEF DeploymentPosture
    <3>. QED  BY <2>2, <2>3, <3>1, SMT DEF AgainstRun, Supported, Verdicts
  <2>5. ASSUME posture = "deploy"
        PROVE  /\ options[recommended].verdict = "pass"
               /\ Sound(options[recommended], findings, vector)
               /\ options[recommended].risk <= 55000
    <3>1. /\ recommended \in Options /\ ~(options[recommended].risk > 55000)
          /\ options[recommended].verdict \notin {"modify", "escalate"}
      BY <2>1, <2>5, SMT DEF DeploymentPosture
    <3>2. options[recommended].verdict # "reject"
      BY <2>4, <2>5, <3>1 DEF Supported
    <3>. QED  BY <2>2, <2>3, <3>1, <3>2, SMT DEF Verdicts
  <2>. QED  BY <2>4, <2>5 DEF DeployIsEarned
<1>. QED  BY <1>1, AdviceInvariant, PTL

\* A human is told to rely on an option or a run only if nothing speaks
\* against it, and to accept exactly what is ready.
THEOREM RelianceIsSupported == AdviceSpec => []RelianceIsEarned
<1>1. AdviceInv => RelianceIsEarned
  <2>. SUFFICES ASSUME AdviceInv, turn # "waiting" PROVE RelianceIsEarned
    BY DEF RelianceIsEarned
  <2>1. /\ step = "drafted"
        /\ \A i \in Options : Advises(quality[i], AgainstOption(i))
        /\ Advises(runQuality, AgainstRun)
    BY DEF AdviceInv
  <2>2. \A i \in Options :
          /\ options[i].verdict \in Verdicts
          /\ options[i].verdict \in {"pass", "modify"} => i \notin alike
    BY <2>1 DEF AdviceInv, OptionsInv, OptionsTypeOK, Option, PassIsEarned
  <2>3. ASSUME NEW i \in Options, Relied(quality[i])
        PROVE  findings = {} /\ Supported(i)
    BY <2>1, <2>2, <2>3 DEF Advises, AgainstOption, Supported, Verdicts
  <2>4. ASSUME Relied(runQuality)
        PROVE  findings = {} /\ \A i \in Options : Supported(i)
    BY <2>1, <2>2, <2>4 DEF Advises, AgainstRun, Supported, Verdicts
  <2>5. \A q \in {quality[i] : i \in Options} \cup {runQuality} :
          RelianceGuidance(q) = "accept_with_review" <=> q.readiness = "ready"
    BY <2>1 DEF Advises
  <2>. QED  BY <2>3, <2>4, <2>5 DEF RelianceIsEarned
<1>. QED  BY <1>1, AdviceInvariant, PTL

-----------------------------------------------------------------------------
(* Evidence: one observation.                                              *)

ArtifactRecord == [kind : Kinds, controls : Controls, fresh : BOOLEAN,
                   text : Supplied \cup {"blank"}]
Observation == [source : Nat \cup {Absent}, controls : Controls, fresh : BOOLEAN,
                text : Supplied \cup Stored, confidence : Share]

SourceOf(o, arts) == IF o.source \in 1 .. Len(arts) THEN o.source ELSE 1

\* What validation makes of an observation.
IsFit(w, o, arts) ==
  /\ w \in Observation
  /\ w.source = SourceOf(o, arts) /\ w.source \in 1 .. Len(arts)
  /\ w.controls = Inherited(o.controls, arts[w.source].controls)
  /\ w.text \in Stored
  /\ w.text = "redacted" => w.confidence <= 35000 \/ o.text = "redacted"
  /\ w.text = "flagged" => w.confidence <= 60000 \/ o.text = "flagged"
  /\ w.text = "marked" => w.confidence <= 60000
  /\ Rounded(w.confidence) = w.confidence

LEMMA CappedFacts ==
  ASSUME NEW x \in Share, Rounded(x) = x, NEW limit \in {35000, 60000}
  PROVE  /\ Clamped(0, limit, x) \in Share
         /\ Clamped(0, limit, x) <= limit
         /\ Rounded(Clamped(0, limit, x)) = Clamped(0, limit, x)
<1>1. x \in Int /\ 0 <= x /\ x <= One
  BY ShareFacts
<1>2. limit \in Int /\ 0 <= limit /\ limit <= One
  BY OneFact, SMT
<1>3. Rounded(limit) = limit
  BY SMT DEF Rounded
<1>4. /\ Clamped(0, limit, x) \in {x, limit} /\ Clamped(0, limit, x) <= limit
  BY <1>1, <1>2, SMT DEF Clamped
<1>5. limit \in Share
  BY <1>2, ShareFacts, SMT
<1>. QED  BY <1>3, <1>4, <1>5, SMT

LEMMA WholeFacts ==
  ASSUME NEW x \in Share
  PROVE  /\ Rounded(Clamped(0, One, x)) = Rounded(x)
         /\ Rounded(x) \in Share
         /\ Rounded(Rounded(x)) = Rounded(x)
<1>1. x \in Int /\ 0 <= x /\ x <= One /\ One \in Int
  BY OneFact, ShareFacts, SMT
<1>2. Clamped(0, One, x) = x
  BY <1>1, SMT DEF Clamped
<1>. QED  BY <1>1, <1>2, RoundedFacts

\* What sanitising makes of an observation whose confidence is rounded.
SanitisedFits(z, q) ==
  /\ z \in Observation /\ z.text \in Stored
  /\ z.source = q.source /\ z.controls = q.controls
  /\ Rounded(z.confidence) = z.confidence
  /\ z.text = "redacted" => z.confidence <= 35000 \/ q.text = "redacted"
  /\ z.text = "flagged" => z.confidence <= 60000 \/ q.text = "flagged"
  /\ z.text = "marked" => z.confidence <= 60000
  /\ q.text \in Stored => z = q \/ (q.text = "marked" /\ q.confidence > 60000)

LEMMA SanitisedFacts ==
  ASSUME NEW q \in Observation, Rounded(q.confidence) = q.confidence
  PROVE  SanitisedFits(Sanitised(q), q)
<1>1. q.text \in Supplied \cup Stored /\ q.confidence \in Share
  BY DEF Observation
<1>. DEFINE edited(text, c) == [q EXCEPT !.text = text, !.confidence = c]
<1>2. ASSUME NEW text \in {"redacted", "flagged", "marked"}, NEW c \in Share
      PROVE  /\ edited(text, c) \in Observation
             /\ edited(text, c).text = text /\ edited(text, c).confidence = c
             /\ edited(text, c).source = q.source
             /\ edited(text, c).controls = q.controls
  BY DEF Observation, Stored
<1>3. CASE q.text = "prohibited"
  <2>. DEFINE c == Clamped(0, 35000, q.confidence)
              z == edited("redacted", c)
  <2>1. c \in Share /\ c <= 35000 /\ Rounded(c) = c
    BY <1>1, CappedFacts, SMT
  <2>2. Sanitised(q) = z
    BY <1>3, SMT DEF Sanitised
  <2>. HIDE DEF c, edited
  <2>3. /\ z \in Observation /\ z.text = "redacted" /\ z.confidence = c
        /\ z.source = q.source /\ z.controls = q.controls
    BY <1>2, <2>1
  <2>. HIDE DEF z
  <2>. QED  BY <1>3, <2>1, <2>2, <2>3, SMT DEF SanitisedFits, Stored
<1>4. CASE q.text = "instruction"
  <2>. DEFINE c == Clamped(0, 60000, q.confidence)
              z == edited("flagged", c)
  <2>1. c \in Share /\ c <= 60000 /\ Rounded(c) = c
    BY <1>1, CappedFacts, SMT
  <2>2. Sanitised(q) = z
    BY <1>4, SMT DEF Sanitised
  <2>. HIDE DEF c, edited
  <2>3. /\ z \in Observation /\ z.text = "flagged" /\ z.confidence = c
        /\ z.source = q.source /\ z.controls = q.controls
    BY <1>2, <2>1
  <2>. HIDE DEF z
  <2>. QED  BY <1>4, <2>1, <2>2, <2>3, SMT DEF SanitisedFits, Stored
<1>5. CASE q.text \in {"buried", "marked"}
  <2>. DEFINE c == Clamped(0, 60000, q.confidence)
              z == edited("marked", c)
  <2>1. c \in Share /\ c <= 60000 /\ Rounded(c) = c
    BY <1>1, CappedFacts, SMT
  <2>2. Sanitised(q) = z
    BY <1>5, SMT DEF Sanitised
  <2>3. q.text = "marked" => z = q \/ q.confidence > 60000
    <3>. SUFFICES ASSUME q.text = "marked", ~ (q.confidence > 60000)  PROVE z = q
      OBVIOUS
    <3>1. c = q.confidence
      BY <1>1, ShareFacts, SMT DEF Clamped
    <3>2. [q EXCEPT !.text = q.text, !.confidence = q.confidence] = q
      BY ONLY q \in Observation DEF Observation
    <3>. HIDE DEF c
    <3>. QED  BY <3>1, <3>2
  <2>. HIDE DEF c, edited
  <2>4. /\ z \in Observation /\ z.text = "marked" /\ z.confidence = c
        /\ z.source = q.source /\ z.controls = q.controls
    BY <1>2, <2>1
  <2>. HIDE DEF z
  <2>. QED  BY <1>5, <2>1, <2>2, <2>3, <2>4, SMT DEF SanitisedFits, Stored
<1>6. CASE q.text \notin {"prohibited", "instruction", "buried", "marked"}
  <2>1. Sanitised(q) = q
    BY <1>6, SMT DEF Sanitised
  <2>. QED  BY <1>1, <1>6, <2>1, SMT DEF Stored, Supplied, Written, SanitisedFits
<1>. QED  BY <1>3, <1>4, <1>5, <1>6

LEMMA ValidatedFacts ==
  ASSUME NEW arts \in Seq(ArtifactRecord), arts # <<>>, NEW o \in Observation
  PROVE  /\ IsFit(Validated(o, arts), o, arts)
         /\ Validated(Validated(o, arts), arts) = Validated(o, arts)
<1>. DEFINE source(p) == SourceOf(p, arts)
            tied(p) == [p EXCEPT !.source = source(p),
                                 !.controls = Inherited(@, arts[source(p)].controls),
                                 !.confidence = Rounded(Clamped(0, One, @))]
            w == Validated(o, arts)
<1>1. \A p : Validated(p, arts) = Sanitised(tied(p))
  BY SMT DEF Validated, SourceOf
<1>2. \A p \in Observation : source(p) \in 1 .. Len(arts) /\ source(p) \in Nat
  BY EmptySeq, LenProperties DEF Observation, SourceOf
<1>3. \A k \in 1 .. Len(arts) : arts[k].controls \in Controls
  <2>1. \A k \in 1 .. Len(arts) : arts[k] \in ArtifactRecord
    BY ElementOfSeq
  <2>. QED  BY <2>1 DEF ArtifactRecord
<1>4. ASSUME NEW p \in Observation
      PROVE  /\ tied(p) \in Observation
             /\ tied(p).source = source(p) /\ tied(p).text = p.text
             /\ tied(p).controls = Inherited(p.controls, arts[source(p)].controls)
             /\ tied(p).confidence = Rounded(p.confidence)
             /\ tied(p).fresh = p.fresh
  <2>1. Rounded(Clamped(0, One, p.confidence)) = Rounded(p.confidence)
        /\ Rounded(p.confidence) \in Share
    BY WholeFacts DEF Observation
  <2>2. Inherited(p.controls, arts[source(p)].controls) \in Controls
    BY <1>2, <1>3 DEF Inherited, Observation
  <2>. HIDE DEF source
  <2>. QED  BY <1>2, <2>1, <2>2 DEF Observation
<1>. HIDE DEF tied
<1>5. IsFit(w, o, arts)
  <2>1. o.confidence \in Share
    BY DEF Observation
  <2>2. tied(o) \in Observation /\ Rounded(tied(o).confidence) = tied(o).confidence
    BY <1>4, <2>1, WholeFacts
  <2>3. w = Sanitised(tied(o))
    BY <1>1
  <2>. HIDE DEF w
  <2>4. SanitisedFits(w, tied(o))
    BY <2>2, <2>3, SanitisedFacts
  <2>5. w.source = source(o) /\ w.controls = Inherited(o.controls, arts[source(o)].controls)
        /\ tied(o).text = o.text
    BY <1>4, <2>4 DEF SanitisedFits
  <2>. QED  BY <1>2, <2>4, <2>5 DEF IsFit, SanitisedFits
<1>6. Validated(w, arts) = w
  <2>1. w \in Observation /\ w.source \in 1 .. Len(arts) /\ w.text \in Stored
        /\ Rounded(w.confidence) = w.confidence
        /\ Inherited(w.controls, arts[w.source].controls) = w.controls
    BY <1>5 DEF IsFit, Inherited
  <2>2. source(w) = w.source /\ Rounded(Clamped(0, One, w.confidence)) = w.confidence
    BY <2>1, WholeFacts DEF SourceOf, Observation
  <2>. HIDE DEF w, source
  <2>3. tied(w) = w
    BY <2>1, <2>2 DEF Observation, tied
  <2>4. SanitisedFits(Sanitised(w), w)
    BY <2>1, SanitisedFacts
  <2>5. ~ (w.text = "marked" /\ w.confidence > 60000)
    <3>1. w.confidence \in Int /\ (w.text = "marked" => w.confidence <= 60000)
      BY <1>5, <2>1, ShareFacts DEF IsFit, Observation
    <3>. QED  BY <3>1
  <2>6. Sanitised(w) = w
    BY <2>1, <2>4, <2>5 DEF SanitisedFits
  <2>. QED  BY <1>1, <2>3, <2>6
<1>. QED  BY <1>5, <1>6 DEF w

-----------------------------------------------------------------------------
(* Evidence: the artifacts and the observations of a request.              *)

ArtifactsFit(arts, r) ==
  /\ arts \in Seq(ArtifactRecord)
  /\ Len(r.artifacts) <= Len(arts)
  /\ \A i \in 1 .. Len(r.artifacts) :
       /\ arts[i].controls = Inherited(r.artifacts[i].controls, r.controls)
       /\ arts[i].text = Retrieved(r.artifacts[i], r)
  /\ \A k \in 1 .. Len(arts) :
       k \notin 1 .. Len(r.artifacts) => arts[k].controls = r.controls
  /\ arts = <<>> => r.observations = <<>>
  /\ r.environment # "blank" => \E k \in 1 .. Len(arts) : arts[k].text # "blank"

LEMMA RequestFacts ==
  ASSUME NEW r \in Request
  PROVE  /\ r.artifacts \in Seq(ArtifactIn) /\ r.observations \in Seq(ObservationIn)
         /\ r.environment \in Supplied \cup {"blank"} /\ r.controls \in Controls
BY DEF Request

LEMMA ArtifactsFacts ==
  ASSUME NEW r \in Request
  PROVE  ArtifactsFit(Artifacts(r), r)
<1>. DEFINE record(kind, controls, fresh, text) ==
              [kind |-> kind, controls |-> controls, fresh |-> fresh, text |-> text]
            rec(a) == record(a.kind, Inherited(a.controls, r.controls), a.fresh,
                             Retrieved(a, r))
            n == Len(r.artifacts)
            own == [i \in 1 .. n |-> rec(r.artifacts[i])]
            env == record("weather", r.controls, TRUE, r.environment)
            batch == record("manual_note", r.controls, TRUE, "clean")
            sent == IF r.environment = "blank" THEN own ELSE Append(own, env)
            arts == IF sent = <<>> /\ r.observations # <<>> THEN <<batch>> ELSE sent
<1>1. Artifacts(r) = arts
  BY DEF Artifacts
<1>2. n \in Nat
  BY RequestFacts, LenProperties
<1>3. ASSUME NEW i \in 1 .. n
      PROVE  rec(r.artifacts[i]) \in ArtifactRecord
  <2>1. r.artifacts[i] \in ArtifactIn
    BY RequestFacts, ElementOfSeq
  <2>. QED  BY <2>1, RequestFacts
       DEF ArtifactIn, ArtifactRecord, Inherited, Retrieved, SentKinds, Supplied
<1>4. batch \in ArtifactRecord /\ env \in ArtifactRecord
  BY RequestFacts DEF ArtifactRecord, Kinds, Supplied, Written
<1>5. /\ \A i \in 1 .. n : /\ rec(r.artifacts[i]).controls
                               = Inherited(r.artifacts[i].controls, r.controls)
                          /\ rec(r.artifacts[i]).text = Retrieved(r.artifacts[i], r)
      /\ env.controls = r.controls /\ batch.controls = r.controls
      /\ env.text = r.environment
  OBVIOUS
<1>. HIDE DEF rec, env, batch, record
<1>6. own \in Seq(ArtifactRecord) /\ Len(own) = n
  BY <1>2, <1>3, SeqDef, LenProperties
<1>7. \A i \in 1 .. n : own[i] = rec(r.artifacts[i])
  OBVIOUS
<1>. HIDE DEF own, n
<1>8. /\ Append(own, env) \in Seq(ArtifactRecord) /\ Len(Append(own, env)) = n + 1
      /\ \A i \in 1 .. n : Append(own, env)[i] = own[i]
      /\ Append(own, env)[n + 1] = env
  BY <1>2, <1>4, <1>6, AppendProperties
<1>9. CASE sent = <<>> /\ r.observations # <<>>
  <2>1. n = 0 /\ r.environment = "blank" /\ arts = <<batch>>
    BY <1>2, <1>6, <1>8, <1>9, EmptySeq
  <2>2. <<batch>> \in Seq(ArtifactRecord) /\ Len(<<batch>>) = 1 /\ <<batch>>[1] = batch
    BY <1>4
  <2>. HIDE DEF arts, batch
  <2>3. arts \in Seq(ArtifactRecord) /\ Len(arts) = 1 /\ arts[1] = batch /\ arts # <<>>
    BY <2>1, <2>2
  <2>4. 1 .. n = {} /\ \A k \in 1 .. Len(arts) : k = 1
    BY <2>1, <2>3
  <2>. QED  BY <1>1, <1>5, <2>1, <2>3, <2>4 DEF ArtifactsFit, n
<1>10. CASE ~(sent = <<>> /\ r.observations # <<>>) /\ r.environment = "blank"
  <2>1. arts = own
    BY <1>10
  <2>. QED  BY <1>1, <1>2, <1>5, <1>6, <1>7, <1>10, <2>1 DEF ArtifactsFit, n
<1>11. CASE ~(sent = <<>> /\ r.observations # <<>>) /\ r.environment # "blank"
  <2>1. arts = Append(own, env)
    BY <1>11
  <2>2. env.text # "blank"
    BY <1>5, <1>11
  <2>. HIDE DEF arts, sent
  <2>3. arts # <<>>
    <3>1. Len(arts) = n + 1 /\ n + 1 # 0
      BY <1>2, <1>8, <2>1
    <3>. QED  BY <3>1, EmptySeq
  <2>4. \A k \in 1 .. Len(arts) : k \notin 1 .. n => k = n + 1
    BY <1>2, <1>8, <2>1
  <2>. QED  BY <1>1, <1>2, <1>5, <1>7, <1>8, <2>1, <2>2, <2>3, <2>4 DEF ArtifactsFit, n
<1>. QED  BY <1>9, <1>10, <1>11

\* A set of indices has a greatest one.
LEMMA LastIndex ==
  ASSUME NEW n \in Nat, NEW T, T \subseteq 1 .. n, T # {}
  PROVE  \E i \in T : \A j \in T : j <= i
<1>. DEFINE D == {m \in Nat : \E i \in T : m = n - i}
            R == OpToRel(<, Nat)
<1>1. PICK first \in T : TRUE
  OBVIOUS
<1>2. n - first \in D
  BY <1>1
<1>3. D \subseteq Nat /\ D # {}
  BY <1>2
<1>4. IsWellFoundedOn(R, Nat)
  BY NatLessThanWellFounded
<1>. HIDE DEF D, R
<1>5. PICK m \in D : \A y \in D : ~(<<y, m>> \in R)
  BY <1>3, <1>4, WFMin
<1>6. \A a, b \in Nat : a < b => <<a, b>> \in R
  BY DEF R, OpToRel
<1>7. \A y \in D : m <= y
  <2>. SUFFICES ASSUME NEW y \in D PROVE m <= y
    OBVIOUS
  <2>1. m \in Nat /\ y \in Nat
    BY <1>3
  <2>2. ~(y < m)
    BY <1>5, <1>6, <2>1, Zenon
  <2>. QED  BY <2>1, <2>2
<1>8. PICK i \in T : m = n - i
  BY <1>5 DEF D
<1>9. \A j \in T : n - j \in D
  BY DEF D
<1>. QED  BY <1>7, <1>8, <1>9

LEMMA NoElements ==
  ASSUME NEW S, NEW s \in Seq(S), 1 .. Len(s) = {}
  PROVE  s = <<>>
<1>1. Len(s) \in Nat
  BY LenProperties
<1>2. 1 \notin 1 .. Len(s)
  OBVIOUS
<1>3. Len(s) = 0
  BY <1>1, <1>2
<1>. QED  BY <1>3, EmptySeq

Indices(r) == 1 .. Len(r.observations)

LEMMA FromRequestFacts ==
  ASSUME NEW r \in Request
  PROVE  /\ \A id \in DOMAIN FromRequest(r) : \E i \in Indices(r) :
              /\ id = SuppliedId(r, i)
              /\ FromRequest(r)[id] \in Observation
              /\ FromRequest(r)[id].text \in Supplied
              /\ FromRequest(r)[id].controls = r.observations[i].controls
         /\ \A i \in Indices(r) : SuppliedId(r, i) \in DOMAIN FromRequest(r)
         /\ \A i \in Indices(r) : Survives(r, i) =>
              FromRequest(r)[SuppliedId(r, i)].controls = r.observations[i].controls
<1>. DEFINE ids == {SuppliedId(r, i) : i \in Indices(r)}
            IsLast(id, i) == /\ SuppliedId(r, i) = id
                             /\ \A j \in Indices(r) : SuppliedId(r, j) = id => j <= i
            LastWith(id) == CHOOSE i \in Indices(r) : IsLast(id, i)
            copy(o) == [source |-> o.source, controls |-> o.controls, fresh |-> o.fresh,
                        text |-> o.text, confidence |-> o.confidence]
            obs == [id \in ids |-> copy(r.observations[LastWith(id)])]
<1>1. FromRequest(r) = obs
  BY DEF FromRequest, Indices
<1>2. Len(r.observations) \in Nat
  BY RequestFacts, LenProperties
<1>3. ASSUME NEW id \in ids PROVE \E i \in Indices(r) : IsLast(id, i)
  <2>. DEFINE T == {i \in Indices(r) : SuppliedId(r, i) = id}
  <2>1. T # {} /\ T \subseteq 1 .. Len(r.observations)
    BY DEF Indices
  <2>2. PICK i \in T : \A j \in T : j <= i
    BY <1>2, <2>1, LastIndex
  <2>. QED  BY <2>2
<1>4. \A id \in ids : LastWith(id) \in Indices(r) /\ IsLast(id, LastWith(id))
  BY <1>3
<1>5. ASSUME NEW i \in Indices(r)
      PROVE  /\ copy(r.observations[i]) \in Observation
             /\ copy(r.observations[i]).text \in Supplied
             /\ copy(r.observations[i]).controls = r.observations[i].controls
  <2>1. r.observations[i] \in ObservationIn
    BY RequestFacts, ElementOfSeq DEF Indices
  <2>. QED  BY <2>1 DEF ObservationIn, Observation
<1>6. ASSUME NEW i \in Indices(r), Survives(r, i)
      PROVE  LastWith(SuppliedId(r, i)) = i
  <2>. DEFINE k == LastWith(SuppliedId(r, i))
  <2>1. SuppliedId(r, i) \in ids
    OBVIOUS
  <2>2. k \in Indices(r) /\ SuppliedId(r, k) = SuppliedId(r, i) /\ i <= k
    BY <1>4, <2>1
  <2>3. k <= i
    BY <1>6, <2>2 DEF Survives, Indices
  <2>. HIDE DEF k
  <2>4. k = i
    BY <1>2, <2>2, <2>3 DEF Indices
  <2>. QED  BY <2>4 DEF k
<1>. HIDE DEF copy, LastWith
<1>7. DOMAIN obs = ids /\ \A id \in ids : obs[id] = copy(r.observations[LastWith(id)])
  OBVIOUS
<1>8. \A i \in Indices(r) : SuppliedId(r, i) \in ids
  OBVIOUS
<1>9. \A id \in ids : SuppliedId(r, LastWith(id)) = id
  BY <1>4
<1>. HIDE DEF ids, obs
<1>. QED  BY <1>1, <1>4, <1>5, <1>6, <1>7, <1>8, <1>9

LEMMA FromArtifactsFacts ==
  ASSUME NEW arts \in Seq(ArtifactRecord)
  PROVE  /\ \A id \in DOMAIN FromArtifacts(arts) : \E k \in 1 .. Len(arts) :
              id = ArtifactId(k) /\ arts[k].text # "blank"
         /\ \A k \in 1 .. Len(arts) : arts[k].text # "blank" =>
              /\ ArtifactId(k) \in DOMAIN FromArtifacts(arts)
              /\ FromArtifacts(arts)[ArtifactId(k)] \in Observation
              /\ FromArtifacts(arts)[ArtifactId(k)].text \in Supplied
              /\ FromArtifacts(arts)[ArtifactId(k)].source = k
              /\ FromArtifacts(arts)[ArtifactId(k)].controls = arts[k].controls
<1>. DEFINE spoken == {k \in 1 .. Len(arts) : arts[k].text # "blank"}
            Text(a) == IF a.kind = "ocr_text" /\ a.text = "instruction" THEN "clean" ELSE a.text
            made(k) == [source |-> k, controls |-> arts[k].controls, fresh |-> arts[k].fresh,
                        text |-> Text(arts[k]), confidence |-> ArtifactConfidence[arts[k].kind]]
            obs == [id \in {ArtifactId(k) : k \in spoken} |-> made(id[2])]
<1>1. FromArtifacts(arts) = obs
  BY DEF FromArtifacts
<1>2. \A kind \in Kinds : ArtifactConfidence[kind] \in Share
  <2>1. 96000 \in Share /\ 86000 \in Share /\ 80000 \in Share
    BY OneFact, ShareFacts, SMT
  <2>. QED  BY <2>1, SMT DEF ArtifactConfidence, Kinds
<1>3. ASSUME NEW k \in spoken
      PROVE  /\ made(k) \in Observation /\ made(k).text \in Supplied
             /\ made(k).source = k /\ made(k).controls = arts[k].controls
  <2>1. arts[k] \in ArtifactRecord /\ k \in Nat
    BY ElementOfSeq, LenProperties
  <2>2. Text(arts[k]) \in Supplied
    BY <2>1 DEF ArtifactRecord, Supplied, Written
  <2>. HIDE DEF Text
  <2>. QED  BY <1>2, <2>1, <2>2 DEF ArtifactRecord, Observation
<1>. HIDE DEF made
<1>4. \A k \in spoken : ArtifactId(k) \in DOMAIN obs /\ obs[ArtifactId(k)] = made(k)
  BY DEF ArtifactId
<1>5. \A id \in DOMAIN obs : \E k \in spoken : id = ArtifactId(k)
  OBVIOUS
<1>. HIDE DEF obs
<1>. QED  BY <1>1, <1>3, <1>4, <1>5

FitIn(o, arts) ==
  /\ o.source \in 1 .. Len(arts)
  /\ o.text \in Stored
  /\ o.text = "redacted" => o.confidence <= 35000
  /\ o.text \in {"flagged", "marked"} => o.confidence <= 60000

\* A raw observation, once validated.
LEMMA RawFacts ==
  ASSUME NEW r \in Request, NEW arts, ArtifactsFit(arts, r), arts # <<>>,
         NEW o \in Observation, o.text \in Supplied
  PROVE  LET w == Validated(o, arts)
         IN  /\ FitIn(w, arts) /\ Validated(w, arts) = w
             /\ o.controls # DefaultControls => w.controls = o.controls
             /\ Consistent(r) /\ Fits(o.controls, r) => w.controls = r.controls
<1>. DEFINE w == Validated(o, arts)
<1>1. IsFit(w, o, arts) /\ Validated(w, arts) = w
  BY ValidatedFacts DEF ArtifactsFit
<1>2. o.text \notin {"redacted", "flagged"}
  BY DEF Supplied, Written
<1>. HIDE DEF w
<1>3. FitIn(w, arts)
  BY <1>1, <1>2, SMT DEF IsFit, FitIn
<1>4. w.controls = Inherited(o.controls, arts[w.source].controls) /\ w.source \in 1 .. Len(arts)
  BY <1>1 DEF IsFit
<1>5. o.controls # DefaultControls => w.controls = o.controls
  BY <1>4 DEF Inherited
<1>6. ASSUME Consistent(r), NEW k \in 1 .. Len(arts) PROVE arts[k].controls = r.controls
  BY <1>6 DEF ArtifactsFit, Consistent, Fits, Inherited
<1>7. Consistent(r) /\ Fits(o.controls, r) => w.controls = r.controls
  BY <1>4, <1>6 DEF Fits, Inherited
<1>. QED  BY <1>1, <1>3, <1>5, <1>7 DEF w

LEMMA BaselinedFacts ==
  ASSUME NEW r \in Request
  PROVE  LET arts == Artifacts(r)
             b == Baselined(r, arts)
         IN  /\ \A id \in DOMAIN b :
                  /\ FitIn(b[id], arts) /\ Validated(b[id], arts) = b[id]
                  /\ id \notin {"added"} \X Nat
                  /\ Consistent(r) => b[id].controls = r.controls
             /\ Mismarked(r) => \/ r.controls \in Unclassified
                               \/ \E id \in DOMAIN b : b[id].controls # r.controls
             /\ DOMAIN b = {} =>
                  /\ r.observations = <<>> /\ r.environment = "blank"
                  /\ \A i \in 1 .. Len(r.artifacts) : Retrieved(r.artifacts[i], r) = "blank"
<1>. DEFINE arts == Artifacts(r)
            raw == Over(FromArtifacts(arts), FromRequest(r))
            b == Baselined(r, arts)
            made == FromArtifacts(arts)
            sent == FromRequest(r)
<1>1. ArtifactsFit(arts, r)
  BY ArtifactsFacts
<1>2. arts \in Seq(ArtifactRecord) /\ Len(arts) \in Nat
  BY <1>1, LenProperties DEF ArtifactsFit
<1>. HIDE DEF arts
<1>3. /\ DOMAIN raw = DOMAIN made \cup DOMAIN sent
      /\ \A id \in DOMAIN made : raw[id] = made[id]
      /\ \A id \in DOMAIN sent : id \notin DOMAIN made => raw[id] = sent[id]
  BY DEF Over
<1>4. CASE arts = <<>>
  <2>1. b = <<>> /\ r.observations = <<>>
    BY <1>1, <1>4 DEF Baselined, ValidatedAll, ArtifactsFit
  <2>2. DOMAIN b = {}
    BY <2>1
  <2>3. Len(arts) = 0
    BY <1>4
  <2>4. r.environment = "blank" /\ 1 .. Len(r.artifacts) = {} /\ Indices(r) = {}
    <3>1. Len(r.artifacts) \in Nat
      BY RequestFacts, LenProperties
    <3>. QED  BY <1>1, <2>1, <2>3, <3>1 DEF ArtifactsFit, Indices
  <2>5. ~Mismarked(r) \/ r.controls \in Unclassified
    BY <2>4 DEF Mismarked, Indices
  <2>. HIDE DEF b
  <2>. QED  BY <2>1, <2>2, <2>4, <2>5 DEF b, arts
<1>5. CASE arts # <<>>
  <2>1. b = [id \in DOMAIN raw |-> Validated(raw[id], arts)]
    BY <1>5 DEF Baselined, ValidatedAll
  <2>2. DOMAIN b = DOMAIN raw /\ \A id \in DOMAIN raw : b[id] = Validated(raw[id], arts)
    BY <2>1
  <2>. HIDE DEF b, raw
  <2>3. ASSUME NEW id \in DOMAIN made
        PROVE  \E k \in 1 .. Len(arts) :
                 /\ id = ArtifactId(k) /\ arts[k].text # "blank"
                 /\ raw[id] \in Observation /\ raw[id].text \in Supplied
                 /\ raw[id].controls = arts[k].controls
    BY <1>2, <1>3, FromArtifactsFacts
  <2>4. ASSUME NEW id \in DOMAIN sent, id \notin DOMAIN made
        PROVE  \E i \in Indices(r) :
                 /\ id = SuppliedId(r, i)
                 /\ raw[id] \in Observation /\ raw[id].text \in Supplied
                 /\ raw[id].controls = r.observations[i].controls
    BY <1>3, <2>4, FromRequestFacts
  <2>5. \A i \in Indices(r) : SuppliedId(r, i) \notin {"artifact", "added"} \X Nat
    <3>1. \A i \in Indices(r) : r.observations[i] \in ObservationIn
      BY RequestFacts, ElementOfSeq DEF Indices
    <3>. QED  BY <3>1, EvidenceAssumption DEF ObservationIn, SuppliedId
  <2>6. ASSUME NEW id \in DOMAIN raw
        PROVE  /\ raw[id] \in Observation /\ raw[id].text \in Supplied
               /\ id \notin {"added"} \X Nat
               /\ Consistent(r) => Fits(raw[id].controls, r)
    <3>1. CASE id \in DOMAIN made
      <4>1. PICK k \in 1 .. Len(arts) :
              /\ id = ArtifactId(k)
              /\ raw[id] \in Observation /\ raw[id].text \in Supplied
              /\ raw[id].controls = arts[k].controls
        BY <2>3, <3>1
      <4>2. Consistent(r) => Fits(raw[id].controls, r)
        BY <1>1, <4>1 DEF ArtifactsFit, Consistent, Fits, Inherited
      <4>. QED  BY <4>1, <4>2 DEF ArtifactId
    <3>2. CASE id \in DOMAIN sent /\ id \notin DOMAIN made
      <4>1. PICK i \in Indices(r) :
              /\ id = SuppliedId(r, i)
              /\ raw[id] \in Observation /\ raw[id].text \in Supplied
              /\ raw[id].controls = r.observations[i].controls
        BY <2>4, <3>2
      <4>2. Consistent(r) => Fits(raw[id].controls, r)
        BY <4>1 DEF Consistent, Indices
      <4>. QED  BY <2>5, <4>1, <4>2
    <3>. QED  BY <1>3, <3>1, <3>2
  <2>7. ASSUME NEW id \in DOMAIN b
        PROVE  /\ FitIn(b[id], arts) /\ Validated(b[id], arts) = b[id]
               /\ id \notin {"added"} \X Nat
               /\ Consistent(r) => b[id].controls = r.controls
    BY <1>1, <1>5, <2>2, <2>6, RawFacts
  <2>8. ASSUME NEW id \in DOMAIN raw, raw[id].controls # DefaultControls
        PROVE  b[id].controls = raw[id].controls
    BY <1>1, <1>5, <2>2, <2>6, <2>8, RawFacts
  <2>9. ASSUME Mismarked(r), r.controls \notin Unclassified
        PROVE  \E id \in DOMAIN b : b[id].controls # r.controls
    <3>1. CASE \E i \in 1 .. Len(r.artifacts) :
                 r.artifacts[i].text # "blank" /\ ~Fits(r.artifacts[i].controls, r)
      <4>1. PICK i \in 1 .. Len(r.artifacts) :
                 r.artifacts[i].text # "blank" /\ ~Fits(r.artifacts[i].controls, r)
        BY <3>1
      <4>2. /\ arts[i].text # "blank" /\ i \in 1 .. Len(arts)
            /\ arts[i].controls = r.artifacts[i].controls
            /\ arts[i].controls # DefaultControls /\ arts[i].controls # r.controls
        <5>1. Len(r.artifacts) \in Nat
          BY RequestFacts, LenProperties
        <5>. QED  BY <1>1, <1>2, <4>1, <5>1
             DEF ArtifactsFit, Retrieved, Inherited, Fits
      <4>3. /\ ArtifactId(i) \in DOMAIN made
            /\ made[ArtifactId(i)].controls = arts[i].controls
        BY <1>2, <4>2, FromArtifactsFacts
      <4>4. ArtifactId(i) \in DOMAIN raw /\ raw[ArtifactId(i)].controls = arts[i].controls
        BY <1>3, <4>3
      <4>. QED  BY <2>2, <2>8, <4>2, <4>4
    <3>2. CASE \E i \in Indices(r) : Survives(r, i) /\ ~Fits(r.observations[i].controls, r)
      <4>1. PICK i \in Indices(r) : Survives(r, i) /\ ~Fits(r.observations[i].controls, r)
        BY <3>2
      <4>. DEFINE id == SuppliedId(r, i)
      <4>2. id \in DOMAIN sent /\ sent[id].controls = r.observations[i].controls
        BY <4>1, FromRequestFacts
      <4>3. id \notin DOMAIN made
        <5>1. id \notin {"artifact", "added"} \X Nat
          BY <2>5
        <5>. HIDE DEF id
        <5>2. \A k \in 1 .. Len(arts) : ArtifactId(k) \in {"artifact", "added"} \X Nat
          BY <1>2 DEF ArtifactId
        <5>. QED  BY <2>3, <5>1, <5>2
      <4>. HIDE DEF id
      <4>4. id \in DOMAIN raw /\ raw[id].controls = r.observations[i].controls
        BY <1>3, <4>2, <4>3
      <4>. QED  BY <2>2, <2>8, <4>1, <4>4 DEF Fits
    <3>. QED  BY <2>9, <3>1, <3>2 DEF Mismarked, Indices
  <2>10. ASSUME DOMAIN b = {}
         PROVE  /\ r.observations = <<>> /\ r.environment = "blank"
                /\ \A i \in 1 .. Len(r.artifacts) : Retrieved(r.artifacts[i], r) = "blank"
    <3>1. DOMAIN made = {} /\ DOMAIN sent = {}
      BY <1>3, <2>2, <2>10
    <3>2. Indices(r) = {}
      BY <3>1, FromRequestFacts
    <3>3. r.observations = <<>>
      <4>1. r.observations \in Seq(ObservationIn)
        BY RequestFacts
      <4>. QED  BY <3>2, <4>1, NoElements DEF Indices
    <3>4. \A k \in 1 .. Len(arts) : arts[k].text = "blank"
      BY <1>2, <3>1, FromArtifactsFacts
    <3>5. Len(r.artifacts) \in Nat
      BY RequestFacts, LenProperties
    <3>. QED  BY <1>1, <1>2, <3>3, <3>4, <3>5 DEF ArtifactsFit
  <2>. HIDE DEF made, sent
  <2>. QED  BY <2>7, <2>9, <2>10 DEF b, arts
<1>. QED  BY <1>4, <1>5

-----------------------------------------------------------------------------
(* Evidence: the specification.                                            *)

\* What perception returns has the baseline in it, unchanged, and besides only
\* validated observations that carry the request's markings if all do.
Extends(obs, b, r, arts) ==
  /\ \A id \in DOMAIN b : id \in DOMAIN obs /\ obs[id] = b[id]
  /\ \A id \in DOMAIN obs :
       FitIn(obs[id], arts) /\ (Consistent(r) => obs[id].controls = r.controls)

Perceived == {"estimating", "checking", "bundled", "refused"}

EvidenceInv ==
  /\ phase \in Phases
  /\ request \in Request
  /\ phase # "idle" => artifacts = Artifacts(request)
                       /\ baseline = Baselined(request, artifacts)
  /\ phase \in Perceived => Extends(observations, baseline, request, artifacts)
  /\ phase = "refused" => DOMAIN observations = {}
  /\ phase = "bundled" => checks = PolicyFindings(request, observations, estimate)

\* Perception, with or without a model, returns such observations.
LEMMA PerceptionExtends ==
  ASSUME EvidenceInv, phase = "perceiving"
  PROVE  /\ Extends(ValidatedAll(baseline, artifacts), baseline, request, artifacts)
         /\ \A added \in Answers(request, artifacts) :
              artifacts # <<>> => Extends(Perceive(added), baseline, request, artifacts)
<1>1. /\ request \in Request /\ artifacts = Artifacts(request)
      /\ baseline = Baselined(request, artifacts)
  BY DEF EvidenceInv
<1>2. ArtifactsFit(artifacts, request) /\ artifacts \in Seq(ArtifactRecord)
  BY <1>1, ArtifactsFacts DEF ArtifactsFit
<1>3. \A id \in DOMAIN baseline :
        /\ FitIn(baseline[id], artifacts) /\ Validated(baseline[id], artifacts) = baseline[id]
        /\ id \notin {"added"} \X Nat
        /\ Consistent(request) => baseline[id].controls = request.controls
  BY <1>1, BaselinedFacts
<1>4. Extends(ValidatedAll(baseline, artifacts), baseline, request, artifacts)
  <2>1. CASE artifacts = <<>>
    <3>1. ValidatedAll(baseline, artifacts) = <<>> /\ baseline = <<>>
      BY <1>1, <2>1 DEF ValidatedAll, Baselined
    <3>. QED  BY <1>3, <3>1 DEF Extends
  <2>2. CASE artifacts # <<>>
    <3>1. ValidatedAll(baseline, artifacts)
            = [id \in DOMAIN baseline |-> Validated(baseline[id], artifacts)]
      BY <2>2 DEF ValidatedAll
    <3>. QED  BY <1>3, <3>1 DEF Extends
  <2>. QED  BY <2>1, <2>2
<1>5. ASSUME NEW added \in Answers(request, artifacts), artifacts # <<>>
      PROVE  Extends(Perceive(added), baseline, request, artifacts)
  <2>1. PICK n \in 1 .. MaxAdded :
          added \in [{AddedId(m) : m \in 1 .. n} -> AddedObservation(request, artifacts)]
    BY DEF Answers
  <2>2. \A id \in DOMAIN added : id \in {"added"} \X Nat
    BY <2>1, EvidenceAssumption DEF AddedId
  <2>3. \A id \in DOMAIN added : added[id] \in AddedObservation(request, artifacts)
    BY <2>1
  <2>4. ASSUME NEW o \in AddedObservation(request, artifacts)
        PROVE  o \in Observation /\ o.text \in Supplied /\ o.controls = request.controls
    <3>1. AddedConfidences \subseteq Share
      BY OneFact, ShareFacts, SMT DEF AddedConfidences
    <3>2. 1 .. Len(artifacts) \subseteq Nat
      BY <1>2, LenProperties
    <3>3. request.controls \in Controls
      BY <1>1 DEF Request
    <3>4. /\ o.source \in 1 .. Len(artifacts) /\ o.controls = request.controls
          /\ o.text \in Supplied /\ o.confidence \in AddedConfidences
          /\ o = [source |-> o.source, controls |-> o.controls, fresh |-> o.fresh,
                  text |-> o.text, confidence |-> o.confidence]
      BY SMT DEF AddedObservation
    <3>5. o.fresh \in BOOLEAN
      BY Zenon DEF AddedObservation
    <3>6. /\ o.source \in Nat \cup {Absent} /\ o.controls \in Controls
          /\ o.text \in Supplied \cup Stored /\ o.confidence \in Share
      BY <3>1, <3>2, <3>3, <3>4
    <3>7. o \in Observation
      BY <3>4, <3>5, <3>6, Zenon DEF Observation
    <3>. QED  BY <3>4, <3>7
  <2>5. ASSUME NEW o \in AddedObservation(request, artifacts)
        PROVE  /\ FitIn(Validated(o, artifacts), artifacts)
               /\ Consistent(request) =>
                    Validated(o, artifacts).controls = request.controls
    BY <1>1, <1>2, <1>5, <2>4, RawFacts DEF Fits
  <2>6. Perceive(added) = [id \in DOMAIN added \cup DOMAIN baseline |->
           Validated(IF id \in DOMAIN added THEN added[id] ELSE baseline[id], artifacts)]
    BY <1>5 DEF Perceive, ValidatedAll, Over
  <2>. QED  BY <1>3, <2>2, <2>3, <2>5, <2>6 DEF Extends
<1>. QED  BY <1>4, <1>5

LEMMA EvidenceInitInv == EvidenceInit => EvidenceInv
BY EvidenceAssumption DEF EvidenceInit, EvidenceInv, Phases, Perceived

LEMMA EvidenceStep ==
  ASSUME EvidenceInv, [EvidenceNext]_evidenceVars
  PROVE  EvidenceInv'
<1>1. CASE ReceiveRequest
  BY <1>1 DEF ReceiveRequest, EvidenceInv, Phases, Perceived
<1>2. CASE TryFails
  BY <1>2 DEF TryFails, EvidenceInv, Perceived
<1>3. CASE PerceptionAnswers \/ PerceptionFallsBack
  <2>1. PICK obs : /\ Extends(obs, baseline, request, artifacts) /\ Returns(obs)
                   /\ phase = "perceiving"
    BY <1>3, PerceptionExtends DEF PerceptionAnswers, PerceptionFallsBack
  <2>. QED  BY <2>1 DEF Returns, EvidenceInv, Phases, Perceived
<1>4. CASE EstimatorAnswers \/ EstimatorFallsBack
  BY <1>4 DEF EstimatorAnswers, EstimatorFallsBack, Estimated, EvidenceInv, Phases, Perceived
<1>5. CASE CheckPolicy
  BY <1>5 DEF CheckPolicy, EvidenceInv, Phases, Perceived
<1>6. CASE UNCHANGED evidenceVars
  BY <1>6 DEF evidenceVars, EvidenceInv
<1>. QED  BY <1>1, <1>2, <1>3, <1>4, <1>5, <1>6 DEF EvidenceNext

\* For any requests, controls, answers and retries: the markings of a request
\* decide the marking check, in both directions.
THEOREM MarkingsAreDecisive == EvidenceSpec => []MarkingsDecide
<1>1. EvidenceInv => MarkingsDecide
  <2>. SUFFICES ASSUME EvidenceInv, phase = "bundled"
                PROVE  /\ Consistent(request) => "markings" \notin checks
                       /\ Mismarked(request) => "markings" \in checks
    BY DEF MarkingsDecide
  <2>1. /\ request \in Request /\ baseline = Baselined(request, Artifacts(request))
        /\ Extends(observations, baseline, request, artifacts)
        /\ checks = PolicyFindings(request, observations, estimate)
    BY DEF EvidenceInv, Perceived
  <2>2. "markings" \in checks <=> ~MarkingsAgree(request, observations)
    <3>1. "markings" \in Findings
      BY DEF Findings
    <3>. QED  BY <2>1, <3>1 DEF PolicyFindings
  <2>3. Consistent(request) => MarkingsAgree(request, observations)
    BY <2>1 DEF Consistent, Extends, MarkingsAgree
  <2>4. Mismarked(request) => ~MarkingsAgree(request, observations)
    BY <2>1, BaselinedFacts DEF Extends, MarkingsAgree
  <2>. QED  BY <2>2, <2>3, <2>4
<1>. QED  BY EvidenceInitInv, EvidenceStep, <1>1, PTL DEF EvidenceSpec

\* For any requests, controls, answers and retries: what the estimate and the
\* checks see is tied to an artifact and holds nothing prohibited, and the
\* request's own observations are in it unchanged.
THEOREM PerceptionIsFit == EvidenceSpec => []ObservationsAreFit
<1>1. EvidenceInv => ObservationsAreFit
  <2>. SUFFICES ASSUME EvidenceInv PROVE ObservationsAreFit
    OBVIOUS
  <2>1. ASSUME phase \in {"estimating", "checking", "bundled"}
        PROVE  /\ \A id \in DOMAIN observations : Fit(observations[id])
               /\ \A id \in DOMAIN baseline :
                    id \in DOMAIN observations /\ observations[id] = baseline[id]
    BY <2>1, SMT DEF EvidenceInv, Perceived, Extends, FitIn, Fit
  <2>2. ASSUME phase = "refused"
        PROVE  /\ request.observations = <<>> /\ request.environment = "blank"
               /\ \A i \in 1 .. Len(request.artifacts) :
                    Retrieved(request.artifacts[i], request) = "blank"
    <3>1. /\ request \in Request /\ baseline = Baselined(request, Artifacts(request))
          /\ DOMAIN baseline = {}
      BY <2>2 DEF EvidenceInv, Perceived, Extends
    <3>. QED  BY <3>1, BaselinedFacts
  <2>. QED  BY <2>1, <2>2 DEF ObservationsAreFit
<1>. QED  BY EvidenceInitInv, EvidenceStep, <1>1, PTL DEF EvidenceSpec

-----------------------------------------------------------------------------
(* Ingestion, in each backend.                                             *)

LEMMA BatchFacts ==
  ASSUME NEW r \in Ingests
  PROVE  /\ Len(Batches[r]) \in Nat
         /\ \A k \in 1 .. Len(Batches[r]) : Batches[r][k] \in ChunkIds
BY IngestAssumption

LEMMA RowFacts ==
  ASSUME NEW id \in ChunkIds
  PROVE  /\ NoChunk \notin RowsOf(id)
         /\ \A row \in RowsOf(id) :
              /\ row[1] \in Ingests /\ row[2] \in 1 .. Len(Batches[row[1]])
              /\ row = <<row[1], row[2]>> /\ Batches[row[1]][row[2]] = id
         /\ \A r \in Ingests : \A k \in 1 .. Len(Batches[r]) :
              Batches[r][k] = id => <<r, k>> \in RowsOf(id)
BY IngestAssumption DEF RowsOf

\* A list a batch is merged into holds the last row given under each id of the
\* batch, and what it held under the others.
LEMMA MergedFacts ==
  ASSUME NEW list, Lists(list), NEW r \in Ingests
  PROVE  LET new == Merged(list, r, Len(Batches[r]))
         IN  /\ Lists(new) /\ Backed(new, r, Len(Batches[r]))
             /\ \A id \in Own(r) : id \in ChunkIds /\ new[id] # NoChunk /\ new[id][1] = r
             /\ \A id \in ChunkIds \ Own(r) : new[id] = list[id]
<1>. DEFINE n == Len(Batches[r])
            new == Merged(list, r, n)
            At(id) == {k \in 1 .. n : Batches[r][k] = id}
            Latest(id) == CHOOSE k \in At(id) : \A j \in At(id) : j <= k
<1>1. n \in Nat /\ \A k \in 1 .. n : Batches[r][k] \in ChunkIds
  BY BatchFacts
<1>2. \A id \in ChunkIds : At(id) # {} =>
        Latest(id) \in At(id) /\ \A j \in At(id) : j <= Latest(id)
  <2>. SUFFICES ASSUME NEW id \in ChunkIds, At(id) # {}
                PROVE  Latest(id) \in At(id) /\ \A j \in At(id) : j <= Latest(id)
    OBVIOUS
  <2>1. At(id) \subseteq 1 .. n
    OBVIOUS
  <2>. HIDE DEF At
  <2>2. \E k \in At(id) : \A j \in At(id) : j <= k
    BY <1>1, <2>1, LastIndex
  <2>. QED  BY <2>2
<1>3. /\ new = [id \in ChunkIds |-> new[id]]
      /\ \A id \in ChunkIds :
           new[id] = IF At(id) = {} THEN list[id] ELSE <<r, Latest(id)>>
  BY DEF Merged
<1>4. \A id \in ChunkIds : id \in Own(r) <=> At(id) # {}
  BY DEF Own
<1>5. \A id \in Own(r) : id \in ChunkIds
  BY <1>1 DEF Own
<1>6. \A k \in 1 .. n : k \in At(Batches[r][k])
  OBVIOUS
<1>7. \A id \in ChunkIds : \A k \in At(id) : k \in 1 .. n /\ Batches[r][k] = id
  OBVIOUS
<1>. HIDE DEF At, Last, new
<1>8. \A id \in ChunkIds : At(id) # {} => <<r, Latest(id)>> \in RowsOf(id)
  BY <1>2, <1>7, RowFacts
<1>9. Lists(new)
  BY <1>3, <1>8 DEF Lists
<1>10. Backed(new, r, n)
  <2>. SUFFICES ASSUME NEW k \in 1 .. n
                PROVE  /\ new[Batches[r][k]] # NoChunk
                       /\ new[Batches[r][k]][2] >= k
    BY DEF Backed
  <2>1. Batches[r][k] \in ChunkIds /\ k \in At(Batches[r][k])
    BY <1>1, <1>6
  <2>2. new[Batches[r][k]] = <<r, Latest(Batches[r][k])>>
    BY <1>3, <2>1
  <2>3. Latest(Batches[r][k]) \in 1 .. n /\ k <= Latest(Batches[r][k])
    BY <1>2, <1>7, <2>1
  <2>. QED  BY <1>1, <1>8, <2>1, <2>2, <2>3, RowFacts
<1>11. \A id \in Own(r) : new[id] # NoChunk /\ new[id][1] = r
  BY <1>3, <1>4, <1>5, <1>8, RowFacts
<1>12. \A id \in ChunkIds \ Own(r) : new[id] = list[id]
  BY <1>3, <1>4
<1>. QED  BY <1>5, <1>9, <1>10, <1>11, <1>12 DEF new

LEMMA IngestInitInv == IngestInit => IngestInv
<1>. SUFFICES ASSUME IngestInit PROVE IngestInv
  OBVIOUS
<1>1. /\ backend \in Backends /\ chunks = [id \in ChunkIds |-> NoChunk]
      /\ doing = [r \in Ingests |-> "idle"] /\ through = [r \in Ingests |-> 0]
      /\ copies = [r \in Ingests |-> Empty]
  BY DEF IngestInit, IngestAtRest, Empty
<1>2. Lists(chunks)
  BY <1>1 DEF Lists
<1>3. \A r \in Ingests : 0 <= Len(Batches[r])
  BY BatchFacts
<1>4. \A r \in Ingests : Left(r, 0) /\ through[r] = 0
  BY <1>1 DEF Left, Backed
<1>5. FailuresArePrefixes
  <2>1. \A r \in Ingests : 0 \in Partial(r)
    BY <1>1, <1>3, BatchFacts DEF Backends, Partial
  <2>. QED  BY <1>4, <2>1 DEF FailuresArePrefixes
<1>. QED
  BY <1>1, <1>2, <1>3, <1>4, <1>5
  DEF IngestInv, Doings, CopiesAreFit, EventsAreBacked, HasStored

\* In memory only requests that have stored all their rows have any.
LEMMA LocalRows ==
  ASSUME IngestInv, backend = "local", NEW id \in ChunkIds, chunks[id] # NoChunk
  PROVE  chunks[id][1] \in Ingests /\ HasStored(chunks[id][1])
<1>1. chunks[id][1] \in Ingests /\ chunks[id][2] \in 1 .. Len(Batches[chunks[id][1]])
  BY RowFacts DEF IngestInv, Lists
<1>2. ~ HasStored(chunks[id][1]) => Left(chunks[id][1], 0)
  BY <1>1 DEF IngestInv, FailuresArePrefixes, Partial
<1>3. ~ Left(chunks[id][1], 0)
  BY <1>1, BatchFacts DEF Left
<1>. QED  BY <1>1, <1>2, <1>3

\* A step that leaves the list and the copies alone and takes no request back.
LEMMA SameListKeeps ==
  ASSUME IngestInv, UNCHANGED <<backend, chunks, copies, lost>>,
         doing' \in [Ingests -> Doings],
         through' \in [Ingests -> Nat],
         \A r \in Ingests : through'[r] <= Len(Batches[r]),
         \A r \in Ingests : HasStored(r)' <=> HasStored(r),
         \A r \in Ingests : doing[r] = "unstored" => doing'[r] = "unstored",
         \A r \in Ingests : backend = "graph" => through'[r] = through[r],
         \A r \in Ingests : backend = "local" /\ doing'[r] = "storing" => doing[r] = "storing"
  PROVE  IngestInv'
<1>1. CopiesAreFit'
  <2>. SUFFICES ASSUME NEW r \in Ingests, backend = "local", doing'[r] = "storing"
                PROVE  /\ Lists(copies[r]) /\ Backed(copies[r], r, Len(Batches[r]))
                       /\ \A id \in Own(r) : copies[r][id][1] = r
                       /\ \A id \in ChunkIds : copies[r][id] # NoChunk =>
                            copies[r][id][1] = r \/ HasStored(copies[r][id][1])'
    BY DEF CopiesAreFit, Lists, Backed
  <2>1. /\ Lists(copies[r]) /\ Backed(copies[r], r, Len(Batches[r]))
        /\ \A id \in Own(r) : copies[r][id][1] = r
        /\ \A id \in ChunkIds : copies[r][id] # NoChunk =>
             copies[r][id][1] = r \/ HasStored(copies[r][id][1])
    BY DEF IngestInv, CopiesAreFit
  <2>2. \A id \in ChunkIds : copies[r][id] # NoChunk => copies[r][id][1] \in Ingests
    BY <2>1, RowFacts DEF Lists
  <2>. QED  BY <2>1, <2>2
<1>2. EventsAreBacked'
  BY DEF IngestInv, EventsAreBacked
<1>3. FailuresArePrefixes'
  <2>. SUFFICES ASSUME NEW r \in Ingests, ~ HasStored(r)'
                PROVE  \E n \in Partial(r)' : Left(r, n)'
    BY DEF FailuresArePrefixes
  <2>1. PICK n \in Partial(r) : Left(r, n)
    BY DEF IngestInv, FailuresArePrefixes
  <2>2. n \in Partial(r)'
    BY DEF IngestInv, Backends, Partial
  <2>3. Left(r, n)'
    BY <2>1 DEF Left, Backed
  <2>. QED  BY <2>2, <2>3
<1>4. Lists(chunks)' /\ (backend = "graph" => \A r \in Ingests : Left(r, through[r]))'
  BY DEF IngestInv, Lists, Left, Backed
<1>. QED  BY <1>1, <1>2, <1>3, <1>4 DEF IngestInv

\* A request has become one that has stored all its rows, whether it knows it or
\* not, over a list that holds them and, of others, what it held or lost.
LEMMA StoredKeeps ==
  ASSUME IngestInv, NEW r \in Ingests, backend # "graph",
         NEW next \in {"logging", "unstored"}, next = "unstored" => backend = "vectors",
         doing[r] = "storing", doing' = [doing EXCEPT ![r] = next],
         UNCHANGED <<backend, copies>>,
         through' \in [Ingests -> Nat],
         \A q \in Ingests : through'[q] <= Len(Batches[q]),
         Lists(chunks'), Backed(chunks', r, Len(Batches[r])), lost \subseteq lost',
         \A id \in ChunkIds : \/ chunks'[id] = chunks[id]
                              \/ chunks'[id] # NoChunk /\ chunks'[id][1] = r
                              \/ backend = "local" /\ id \in lost',
         backend = "local" =>
           \A id \in ChunkIds : chunks'[id] # NoChunk =>
             chunks'[id][1] = r \/ HasStored(chunks'[id][1])
  PROVE  IngestInv'
<1>1. /\ \A q \in Ingests : HasStored(q) => HasStored(q)'
      /\ \A q \in Ingests : HasStored(q)' => HasStored(q) \/ q = r
      /\ HasStored(r)' \/ (doing'[r] = "unstored" /\ backend = "vectors")
      /\ ~HasStored(r)
      /\ doing' \in [Ingests -> Doings]
  BY DEF IngestInv, Doings, HasStored
<1>2. CopiesAreFit'
  <2>. SUFFICES ASSUME NEW q \in Ingests, backend = "local", doing'[q] = "storing"
                PROVE  /\ Lists(copies[q]) /\ Backed(copies[q], q, Len(Batches[q]))
                       /\ \A id \in Own(q) : copies[q][id][1] = q
                       /\ \A id \in ChunkIds : copies[q][id] # NoChunk =>
                            copies[q][id][1] = q \/ HasStored(copies[q][id][1])'
    BY DEF CopiesAreFit, Lists, Backed
  <2>1. doing[q] = "storing"
    BY DEF IngestInv
  <2>2. /\ Lists(copies[q]) /\ Backed(copies[q], q, Len(Batches[q]))
        /\ \A id \in Own(q) : copies[q][id][1] = q
        /\ \A id \in ChunkIds : copies[q][id] # NoChunk =>
             copies[q][id][1] = q \/ HasStored(copies[q][id][1])
    BY <2>1 DEF IngestInv, CopiesAreFit
  <2>3. \A id \in ChunkIds : copies[q][id] # NoChunk => copies[q][id][1] \in Ingests
    BY <2>2, RowFacts DEF Lists
  <2>. QED  BY <1>1, <2>2, <2>3
<1>3. EventsAreBacked'
  <2>. SUFFICES ASSUME NEW q \in Ingests, HasStored(q)', NEW k \in 1 .. Len(Batches[q])
                PROVE  \/ Batches[q][k] \in lost'
                       \/ /\ chunks'[Batches[q][k]] # NoChunk
                          /\ chunks'[Batches[q][k]][1] = q => chunks'[Batches[q][k]][2] >= k
    BY DEF EventsAreBacked
  <2>1. CASE q = r
    BY <2>1 DEF Backed
  <2>2. CASE q # r
    <3>1. /\ Batches[q][k] \in ChunkIds
          /\ \/ Batches[q][k] \in lost
             \/ /\ chunks[Batches[q][k]] # NoChunk
                /\ chunks[Batches[q][k]][1] = q => chunks[Batches[q][k]][2] >= k
      BY <1>1, <2>2, BatchFacts DEF IngestInv, EventsAreBacked
    <3>. QED  BY <2>2, <3>1
  <2>. QED  BY <2>1, <2>2
<1>4. FailuresArePrefixes'
  <2>. SUFFICES ASSUME NEW q \in Ingests, ~ HasStored(q)'
                PROVE  \E n \in Partial(q)' : Left(q, n)'
    BY DEF FailuresArePrefixes
  <2>1. \A id \in ChunkIds : chunks'[id] # NoChunk =>
          /\ chunks'[id][1] \in Ingests
          /\ chunks'[id][2] \in 1 .. Len(Batches[chunks'[id][1]])
    BY RowFacts DEF Lists
  <2>2. CASE q = r
    <3>1. Len(Batches[r]) \in Partial(r)'
      BY <1>1, <2>2 DEF Partial
    <3>2. Left(r, Len(Batches[r]))'
      BY <2>1, BatchFacts DEF Left, Backed
    <3>. QED  BY <2>2, <3>1, <3>2
  <2>3. CASE q # r
    <3>1. doing'[q] = doing[q] /\ ~ HasStored(q)
      BY <1>1, <2>3 DEF IngestInv
    <3>2. PICK n \in Partial(q) : Left(q, n)
      BY <3>1 DEF IngestInv, FailuresArePrefixes
    <3>3. n \in Partial(q)' /\ (backend = "local" => n = 0)
      BY <3>1 DEF Partial
    <3>4. n \in 0 .. Len(Batches[q]) /\ Len(Batches[q]) \in Nat
      BY BatchFacts DEF IngestInv, Backends, Partial
    <3>5. Backed(chunks', q, n)
      <4>. SUFFICES ASSUME NEW k \in 1 .. n
                    PROVE  /\ chunks'[Batches[q][k]] # NoChunk
                           /\ chunks'[Batches[q][k]][1] = q => chunks'[Batches[q][k]][2] >= k
        BY DEF Backed
      <4>1. k \in 1 .. Len(Batches[q]) /\ backend # "local"
        BY <3>3, <3>4
      <4>2. Batches[q][k] \in ChunkIds
        BY <4>1, BatchFacts
      <4>3. /\ chunks[Batches[q][k]] # NoChunk
            /\ chunks[Batches[q][k]][1] = q => chunks[Batches[q][k]][2] >= k
        BY <3>2 DEF Left, Backed
      <4>. QED  BY <2>3, <4>1, <4>2, <4>3
    <3>6. ASSUME NEW id \in ChunkIds, chunks'[id] # NoChunk, chunks'[id][1] = q
          PROVE  chunks'[id][2] <= n
      <4>1. chunks'[id] = chunks[id] \/ HasStored(q)
        BY <2>3, <3>6
      <4>. QED  BY <3>1, <3>2, <3>6, <4>1 DEF Left
    <3>7. Left(q, n)'
      BY <3>5, <3>6 DEF Left, Backed
    <3>. QED  BY <3>3, <3>7
  <2>. QED  BY <2>2, <2>3
<1>5. Lists(chunks)'
  BY DEF Lists
<1>. QED  BY <1>1, <1>2, <1>3, <1>4, <1>5 DEF IngestInv

LEMMA IngestStep ==
  ASSUME IngestInv, [IngestNext]_ingestVars
  PROVE  IngestInv'
<1>. USE DEF HasStored
<1>1. ASSUME NEW r \in Ingests, CopyList(r) PROVE IngestInv'
  <2>1. /\ backend = "local" /\ doing[r] = "idle" /\ ~HasStored(r)
        /\ doing' = [doing EXCEPT ![r] = "storing"]
        /\ copies' = [copies EXCEPT ![r] = Merged(chunks, r, Len(Batches[r]))]
        /\ UNCHANGED <<backend, chunks, through, lost>>
    BY <1>1 DEF CopyList
  <2>2. \A q \in Ingests : HasStored(q)' <=> HasStored(q)
    BY <2>1 DEF IngestInv
  <2>3. CopiesAreFit'
    <3>. SUFFICES ASSUME NEW q \in Ingests, doing'[q] = "storing"
                  PROVE  (/\ Lists(copies[q]) /\ Backed(copies[q], q, Len(Batches[q]))
                          /\ \A id \in Own(q) : copies[q][id][1] = q
                          /\ \A id \in ChunkIds : copies[q][id] # NoChunk =>
                               copies[q][id][1] = q \/ HasStored(copies[q][id][1]))'
      BY DEF CopiesAreFit, Lists, Backed
    <3>. HIDE DEF HasStored
    <3>1. CASE q = r
      <4>1. copies'[q] = Merged(chunks, r, Len(Batches[r])) /\ Lists(chunks)
        BY <2>1, <3>1 DEF IngestInv
      <4>2. /\ Lists(copies'[q]) /\ Backed(copies'[q], q, Len(Batches[q]))
            /\ \A id \in Own(r) : id \in ChunkIds /\ copies'[q][id][1] = r
            /\ \A id \in ChunkIds \ Own(r) : copies'[q][id] = chunks[id]
        BY <3>1, <4>1, MergedFacts
      <4>3. \A id \in ChunkIds : chunks[id] # NoChunk =>
              chunks[id][1] \in Ingests /\ HasStored(chunks[id][1])
        BY <2>1, LocalRows
      <4>4. \A id \in ChunkIds : copies'[q][id] # NoChunk =>
              \/ copies'[q][id][1] = q
              \/ copies'[q][id][1] \in Ingests /\ HasStored(copies'[q][id][1])
        <5>. TAKE id \in ChunkIds
        <5>1. CASE id \in Own(r)
          BY <3>1, <4>2, <5>1
        <5>2. CASE id \notin Own(r)
          BY <4>2, <4>3, <5>2
        <5>. QED  BY <5>1, <5>2
      <4>. QED  BY <2>2, <3>1, <4>2, <4>4 DEF Lists, Backed
    <3>2. CASE q # r
      <4>1. doing[q] = "storing" /\ copies'[q] = copies[q]
        BY <2>1, <3>2 DEF IngestInv
      <4>2. /\ Lists(copies[q]) /\ Backed(copies[q], q, Len(Batches[q]))
            /\ \A id \in Own(q) : copies[q][id][1] = q
            /\ \A id \in ChunkIds : copies[q][id] # NoChunk =>
                 copies[q][id][1] = q \/ HasStored(copies[q][id][1])
        BY <2>1, <4>1 DEF IngestInv, CopiesAreFit
      <4>3. \A id \in ChunkIds : copies[q][id] # NoChunk => copies[q][id][1] \in Ingests
        BY <4>2, RowFacts DEF Lists
      <4>. QED  BY <2>2, <4>1, <4>2, <4>3
    <3>. QED  BY <3>1, <3>2
  <2>4. FailuresArePrefixes'
    <3>. HIDE DEF HasStored
    <3>1. \A q \in Ingests : Partial(q) = {0} /\ Partial(q)' = {0}
      BY <2>1 DEF Partial
    <3>2. \A q \in Ingests : Left(q, 0)' <=> Left(q, 0)
      BY <2>1 DEF Left, Backed
    <3>. QED  BY <2>1, <2>2, <3>1, <3>2 DEF IngestInv, FailuresArePrefixes
  <2>5. EventsAreBacked'
    <3>. HIDE DEF HasStored
    <3>. QED  BY <2>1, <2>2 DEF IngestInv, EventsAreBacked
  <2>6. Lists(chunks)' /\ copies' = [q \in Ingests |-> copies'[q]]
    BY <2>1 DEF IngestInv, Lists
  <2>. QED  BY <2>1, <2>3, <2>4, <2>5, <2>6 DEF IngestInv, Doings
<1>2. ASSUME NEW r \in Ingests, ReplaceList(r) PROVE IngestInv'
  <2>1. /\ backend = "local" /\ doing[r] = "storing"
        /\ chunks' = copies[r]
        /\ lost' = lost \cup {id \in ChunkIds \ Own(r) : chunks[id] # copies[r][id]}
        /\ doing' = [doing EXCEPT ![r] = "logging"]
        /\ through' = [through EXCEPT ![r] = Len(Batches[r])]
        /\ UNCHANGED <<backend, copies>>
    BY <1>2 DEF ReplaceList
  <2>2. /\ Lists(copies[r]) /\ Backed(copies[r], r, Len(Batches[r]))
        /\ \A id \in Own(r) : copies[r][id][1] = r
        /\ \A id \in ChunkIds : copies[r][id] # NoChunk =>
             copies[r][id][1] = r \/ HasStored(copies[r][id][1])
    BY <2>1 DEF IngestInv, CopiesAreFit
  <2>3. \A id \in Own(r) : copies[r][id] # NoChunk
    BY <2>2 DEF Own, Backed
  <2>4. \A id \in ChunkIds : \/ copies[r][id] = chunks[id]
                             \/ copies[r][id] # NoChunk /\ copies[r][id][1] = r
                             \/ backend = "local" /\ id \in lost'
    <3>. SUFFICES ASSUME NEW id \in ChunkIds, copies[r][id] # chunks[id], id \notin lost'
                  PROVE  copies[r][id] # NoChunk /\ copies[r][id][1] = r
      BY <2>1
    <3>1. id \in Own(r)
      BY <2>1
    <3>. QED  BY <2>1, <2>2, <2>3, <3>1
  <2>5. /\ through' \in [Ingests -> Nat]
        /\ \A q \in Ingests : through'[q] <= Len(Batches[q])
    BY <2>1, BatchFacts DEF IngestInv
  <2>. HIDE DEF HasStored
  <2>. QED  BY <2>1, <2>2, <2>4, <2>5, StoredKeeps
<1>3. ASSUME NEW r \in Ingests, Commit(r) PROVE IngestInv'
  <2>. HIDE DEF HasStored
  <2>1. PICK o \in Outcomes :
          /\ chunks' = Effect(o, chunks, Merged(chunks, r, Len(Batches[r])))
          /\ doing' = [doing EXCEPT ![r] = Reply(o, "logging", "unstored")]
    BY <1>3 DEF Commit
  <2>2. /\ backend = "vectors" /\ doing[r] = "storing"
        /\ UNCHANGED <<backend, through, copies, lost>>
    BY <1>3 DEF Commit
  <2>3. CASE o = "unsent"
    <3>1. chunks' = chunks /\ doing' = [doing EXCEPT ![r] = "unstored"]
      BY <2>1, <2>3 DEF Effect, Reply
    <3>2. /\ doing' \in [Ingests -> Doings]
          /\ \A q \in Ingests : HasStored(q)' <=> HasStored(q)
          /\ \A q \in Ingests : doing[q] = "unstored" => doing'[q] = "unstored"
      BY <2>2, <3>1 DEF IngestInv, Doings, HasStored
    <3>3. through' \in [Ingests -> Nat] /\ \A q \in Ingests : through'[q] <= Len(Batches[q])
      BY <2>2 DEF IngestInv
    <3>. QED  BY <2>2, <3>1, <3>2, <3>3, SameListKeeps
  <2>4. CASE o # "unsent"
    <3>1. chunks' = Merged(chunks, r, Len(Batches[r]))
      BY <2>1, <2>4 DEF Effect
    <3>2. PICK next \in {"logging", "unstored"} : doing' = [doing EXCEPT ![r] = next]
      BY <2>1 DEF Reply
    <3>3. Lists(chunks)
      BY DEF IngestInv
    <3>4. /\ Lists(chunks') /\ Backed(chunks', r, Len(Batches[r]))
          /\ \A id \in Own(r) : id \in ChunkIds /\ chunks'[id] # NoChunk /\ chunks'[id][1] = r
          /\ \A id \in ChunkIds \ Own(r) : chunks'[id] = chunks[id]
      BY <3>1, <3>3, MergedFacts
    <3>5. \A id \in ChunkIds : \/ chunks'[id] = chunks[id]
                               \/ chunks'[id] # NoChunk /\ chunks'[id][1] = r
      BY <3>4
    <3>6. /\ through' \in [Ingests -> Nat] /\ lost \subseteq lost'
          /\ \A q \in Ingests : through'[q] <= Len(Batches[q])
      BY <2>2 DEF IngestInv
    <3>. QED  BY <2>2, <3>2, <3>4, <3>5, <3>6, StoredKeeps
  <2>. QED  BY <2>3, <2>4
<1>4. ASSUME NEW r \in Ingests, Merge(r) PROVE IngestInv'
  <2>. /\ Lists(chunks) /\ through \in [Ingests -> Nat]
       /\ Len(Batches[r]) \in Nat /\ \A k \in 1 .. Len(Batches[r]) : Batches[r][k] \in ChunkIds
    BY BatchFacts DEF IngestInv
  <2>0. CASE UNCHANGED <<chunks, through>> /\ doing' = [doing EXCEPT ![r] = "unstored"]
    <3>1. backend = "graph" /\ doing[r] = "storing" /\ UNCHANGED <<backend, copies, lost>>
      BY <1>4 DEF Merge
    <3>2. /\ doing' \in [Ingests -> Doings]
          /\ \A q \in Ingests : HasStored(q)' <=> HasStored(q)
          /\ \A q \in Ingests : doing[q] = "unstored" => doing'[q] = "unstored"
      BY <2>0, <3>1 DEF IngestInv, Doings
    <3>3. through' \in [Ingests -> Nat] /\ \A q \in Ingests : through'[q] <= Len(Batches[q])
      BY <2>0 DEF IngestInv
    <3>. HIDE DEF HasStored
    <3>. QED  BY <2>0, <3>1, <3>2, <3>3, SameListKeeps
  <2>. SUFFICES ASSUME ~ (UNCHANGED <<chunks, through>> /\ doing' = [doing EXCEPT ![r] = "unstored"])
                PROVE  IngestInv'
    BY <2>0
  <2>1. PICK k \in 1 .. Len(Batches[r]), next \in {"logging", "storing", "unstored"} :
          /\ k = through[r] + 1
          /\ next = "logging" => k = Len(Batches[r])
          /\ chunks' = [chunks EXCEPT ![Batches[r][k]] = <<r, k>>]
          /\ through' = [through EXCEPT ![r] = k]
          /\ doing' = [doing EXCEPT ![r] = next]
    <3>. DEFINE k == through[r] + 1
                next == IF k = Len(Batches[r]) THEN "logging" ELSE "storing"
    <3>1. through[r] \in Nat /\ through[r] < Len(Batches[r])
      BY <1>4 DEF Merge
    <3>2. k \in 1 .. Len(Batches[r])
      BY <3>1
    <3>3. PICK o \in Outcomes :
            /\ chunks' = Effect(o, chunks, [chunks EXCEPT ![Batches[r][k]] = <<r, k>>])
            /\ through' = Effect(o, through, [through EXCEPT ![r] = k])
            /\ doing' = [doing EXCEPT ![r] = Reply(o, next, "unstored")]
      BY <1>4 DEF Merge
    <3>. HIDE DEF k
    <3>4. o # "unsent"
      BY <3>3 DEF Effect, Reply
    <3>5. /\ chunks' = [chunks EXCEPT ![Batches[r][k]] = <<r, k>>]
          /\ through' = [through EXCEPT ![r] = k]
      BY <3>3, <3>4 DEF Effect
    <3>6. /\ Reply(o, next, "unstored") \in {"logging", "storing", "unstored"}
          /\ Reply(o, next, "unstored") = "logging" => k = Len(Batches[r])
      BY DEF Reply
    <3>. QED  BY <3>2, <3>3, <3>5, <3>6 DEF k
  <2>2. /\ backend = "graph" /\ doing[r] = "storing" /\ UNCHANGED <<backend, copies, lost>>
    BY <1>4 DEF Merge
  <2>3. /\ Lists(chunks') /\ Batches[r][k] \in ChunkIds
        /\ chunks'[Batches[r][k]] # NoChunk
        /\ chunks'[Batches[r][k]][1] = r /\ chunks'[Batches[r][k]][2] = k
        /\ \A id \in ChunkIds \ {Batches[r][k]} : chunks'[id] = chunks[id]
    <3>1. Batches[r][k] \in ChunkIds
      OBVIOUS
    <3>2. <<r, k>> \in RowsOf(Batches[r][k]) /\ NoChunk \notin RowsOf(Batches[r][k])
      BY <3>1, RowFacts
    <3>3. /\ chunks'[Batches[r][k]] = <<r, k>>
          /\ \A id \in ChunkIds \ {Batches[r][k]} : chunks'[id] = chunks[id]
          /\ chunks' = [id \in ChunkIds |-> chunks'[id]]
      BY <2>1, <3>1 DEF Lists
    <3>4. \A id \in ChunkIds : chunks[id] \in RowsOf(id) \cup {NoChunk}
      BY DEF Lists
    <3>5. Lists(chunks')
      BY <3>1, <3>2, <3>3, <3>4 DEF Lists
    <3>. QED  BY <3>1, <3>2, <3>3, <3>5
  <2>4. /\ \A q \in Ingests : HasStored(q) => HasStored(q)'
        /\ \A q \in Ingests \ {r} : HasStored(q)' => HasStored(q)
        /\ HasStored(r)' => k = Len(Batches[r])
        /\ doing' \in [Ingests -> Doings]
    BY <2>1, <2>2 DEF IngestInv, Doings
  <2>. HIDE DEF HasStored
  <2>5. /\ through' \in [Ingests -> Nat] /\ through'[r] = k /\ k = through[r] + 1
        /\ \A q \in Ingests \ {r} : through'[q] = through[q]
        /\ \A q \in Ingests : through'[q] <= Len(Batches[q])
    BY <2>1 DEF IngestInv
  <2>6. ASSUME NEW q \in Ingests, NEW j \in 1 .. Len(Batches[q]),
               j <= through[q] \/ HasStored(q) \/ (q = r /\ j = k)
        PROVE  \/ Batches[q][j] \in lost
               \/ /\ chunks'[Batches[q][j]] # NoChunk
                  /\ chunks'[Batches[q][j]][1] = q => chunks'[Batches[q][j]][2] >= j
    <3>1. Batches[q][j] \in ChunkIds /\ j \in Nat /\ through[q] \in Nat /\ through[r] \in Nat
      BY <2>2, BatchFacts
    <3>2. CASE Batches[q][j] = Batches[r][k]
      <4>1. q = r => j <= k
        BY <2>2, <2>4, <2>5, <2>6, <3>1
      <4>. QED  BY <2>2, <2>3, <3>1, <3>2, <4>1
    <3>3. CASE Batches[q][j] # Batches[r][k]
      <4>1. j <= through[q] \/ HasStored(q)
        BY <2>6, <3>3
      <4>2. \/ Batches[q][j] \in lost
            \/ /\ chunks[Batches[q][j]] # NoChunk
               /\ chunks[Batches[q][j]][1] = q => chunks[Batches[q][j]][2] >= j
        BY <2>2, <3>1, <4>1 DEF IngestInv, EventsAreBacked, Left, Backed
      <4>. QED  BY <2>3, <3>1, <3>3, <4>2
    <3>. QED  BY <3>2, <3>3
  <2>7. EventsAreBacked'
    <3>. SUFFICES ASSUME NEW q \in Ingests, HasStored(q)', NEW j \in 1 .. Len(Batches[q])
                  PROVE  \/ Batches[q][j] \in lost'
                         \/ /\ chunks'[Batches[q][j]] # NoChunk
                            /\ chunks'[Batches[q][j]][1] = q => chunks'[Batches[q][j]][2] >= j
      BY DEF EventsAreBacked
    <3>1. j <= through[q] \/ HasStored(q) \/ (q = r /\ j = k)
      <4>1. CASE q = r
        BY <2>1, <2>4, <4>1
      <4>2. CASE q # r
        BY <2>4, <4>2
      <4>. QED  BY <4>1, <4>2
    <3>. QED  BY <2>2, <2>6, <3>1
  <2>8. \A q \in Ingests : Backed(chunks', q, through'[q])
    <3>. SUFFICES ASSUME NEW q \in Ingests, NEW j \in 1 .. through'[q]
                  PROVE  /\ chunks'[Batches[q][j]] # NoChunk
                         /\ chunks'[Batches[q][j]][1] = q => chunks'[Batches[q][j]][2] >= j
      BY DEF Backed
    <3>1. /\ j \in 1 .. Len(Batches[q]) /\ j \in Nat /\ Batches[q][j] \in ChunkIds
          /\ j <= through[q] \/ (q = r /\ j = k)
      BY <2>1, <2>5, BatchFacts
    <3>2. CASE Batches[q][j] = Batches[r][k]
      BY <2>3, <2>5, <3>1, <3>2
    <3>3. CASE Batches[q][j] # Batches[r][k]
      <4>1. j \in 1 .. through[q] /\ Backed(chunks, q, through[q])
        BY <2>2, <3>1, <3>3 DEF IngestInv, Left
      <4>. QED  BY <2>3, <3>1, <3>3, <4>1 DEF Backed
    <3>. QED  BY <3>2, <3>3
  <2>9. \A q \in Ingests : Left(q, through[q])'
    <3>. SUFFICES ASSUME NEW q \in Ingests, NEW id \in ChunkIds,
                         chunks'[id] # NoChunk, chunks'[id][1] = q
                  PROVE  chunks'[id][2] <= through'[q]
      BY <2>8 DEF Left, Backed
    <3>1. CASE id = Batches[r][k]
      BY <2>3, <2>5, <3>1
    <3>2. CASE id # Batches[r][k]
      <4>1. /\ chunks'[id] = chunks[id] /\ chunks[id] # NoChunk
            /\ chunks[id][2] \in Nat /\ through[q] \in Nat
        BY <2>3, <3>2, RowFacts DEF Lists
      <4>2. chunks[id][2] <= through[q]
        BY <2>2, <4>1 DEF IngestInv, Left
      <4>. QED  BY <2>5, <4>1, <4>2
    <3>. QED  BY <3>1, <3>2
  <2>10. FailuresArePrefixes'
    <3>1. \A q \in Ingests : through'[q] \in Partial(q)'
      BY <2>2, <2>5, BatchFacts DEF Partial
    <3>. QED  BY <2>9, <3>1 DEF FailuresArePrefixes
  <2>11. CopiesAreFit' /\ copies' = [q \in Ingests |-> copies'[q]] /\ backend' \in Backends
    BY <2>2 DEF IngestInv, CopiesAreFit
  <2>. QED  BY <2>3, <2>4, <2>5, <2>7, <2>9, <2>10, <2>11 DEF IngestInv, Lists
<1>5. ASSUME NEW r \in Ingests, Begin(r) \/ Insert(r) \/ StoringFails(r)
      PROVE  IngestInv'
  <2>1. /\ UNCHANGED <<backend, chunks, copies, lost>> /\ backend # "local"
    BY <1>5 DEF Begin, Insert, StoringFails
  <2>2. /\ doing' \in [Ingests -> Doings]
        /\ \A q \in Ingests : HasStored(q)' <=> HasStored(q)
        /\ \A q \in Ingests : doing[q] = "unstored" => doing'[q] = "unstored"
    BY <1>5 DEF IngestInv, Doings, Begin, Insert, StoringFails
  <2>3. /\ through' \in [Ingests -> Nat]
        /\ \A q \in Ingests : through'[q] <= Len(Batches[q])
        /\ backend = "graph" => through' = through
    <3>1. ASSUME Insert(r) PROVE through[r] \in Nat /\ through[r] + 1 <= Len(Batches[r])
      BY <3>1, BatchFacts DEF IngestInv, Insert
    <3>. QED  BY <1>5, <3>1 DEF IngestInv, Begin, Insert, StoringFails
  <2>. HIDE DEF HasStored
  <2>. QED  BY <2>1, <2>2, <2>3, SameListKeeps
<1>6. ASSUME NEW r \in Ingests, Log(r) PROVE IngestInv'
  <2>1. PICK next \in {"logging", "answered", "unlogged"} : doing' = [doing EXCEPT ![r] = next]
    BY <1>6 DEF Log, Reply
  <2>2. doing[r] = "logging" /\ UNCHANGED <<backend, chunks, through, copies, lost>>
    BY <1>6 DEF Log
  <2>. QED  BY <2>1, <2>2, SameListKeeps DEF IngestInv, Doings
<1>7. CASE UNCHANGED ingestVars
  BY <1>7, SameListKeeps DEF IngestInv, ingestVars
<1>. QED  BY <1>1, <1>2, <1>3, <1>4, <1>5, <1>6, <1>7 DEF IngestNext

LEMMA IngestInvariant == IngestSpec => []IngestInv
BY IngestInitInv, IngestStep, PTL DEF IngestSpec

\* For any batches, in each backend: what the events of a request tell of is
\* stored, but for what a stale list has replaced.
THEOREM EventsTellTheTruth == IngestSpec => []EventsAreBacked
<1>1. IngestInv => EventsAreBacked
  BY DEF IngestInv
<1>. QED  BY IngestInvariant, <1>1, PTL

\* For any batches, in each backend: a request that fails to store its rows
\* leaves nothing in memory, nothing or all in Postgres, and in the graph the
\* first rows up to some one, whatever replies are lost.
THEOREM FailuresLeavePrefixes == IngestSpec => []FailuresArePrefixes
<1>1. IngestInv => FailuresArePrefixes
  BY DEF IngestInv
<1>. QED  BY IngestInvariant, <1>1, PTL

-----------------------------------------------------------------------------
(* The roster.  Nothing the provers can instantiate proves by induction    *)
(* over a finite set, so a set with a least counterexample stands for it.  *)

\* Among some subsets of a finite set there is one no other is part of.
LEMMA LeastSubset ==
  ASSUME NEW S, IsFiniteSet(S), NEW G \in SUBSET (SUBSET S), G # {}
  PROVE  \E s \in G : \A t \in G : t \subseteq s => t = s
<1>. DEFINE O == StrictSubsetOrdering(S)
<1>1. G \subseteq FiniteSubsetsOf(S)
  BY FS_FiniteSubsetsOfFinite
<1>2. IsWellFoundedOn(O, FiniteSubsetsOf(S))
  BY FS_StrictSubsetOrderingWellFounded
<1>3. \E s \in G : \A t \in G : <<t, s>> \notin O
  <2>. HIDE DEF O
  <2>. QED  BY <1>1, <1>2, WFMin
<1>4. \A s \in G, t \in G : t \subseteq s /\ t # s => <<t, s>> \in O
  BY DEF StrictSubsetOrdering
<1>. QED  BY <1>3, <1>4

\* What a fold of S is: the elements are picked one after the other, and each is
\* put on top of what is folded of those after it.
Picks(pick, S) == \A s \in SUBSET S : s # {} => pick[s] \in s

Folds(g, base, f, pick, S) ==
  g = [s \in SUBSET S |-> IF s = {} THEN base ELSE f[<<pick[s], g[s \ {pick[s]}]>>]]

LEMMA FoldUnfolds ==
  ASSUME NEW base, NEW f, NEW pick, NEW S, NEW g, Folds(g, base, f, pick, S)
  PROVE  /\ g[{}] = base
         /\ \A s \in SUBSET S : s # {} => g[s] = f[<<pick[s], g[s \ {pick[s]}]>>]
<1>. DEFINE e(s) == IF s = {} THEN base ELSE f[<<pick[s], g[s \ {pick[s]}]>>]
<1>1. g = [s \in SUBSET S |-> e(s)]
  BY DEF Folds
<1>. HIDE DEF e
<1>2. \A s \in SUBSET S : g[s] = e(s)
  BY <1>1
<1>. QED  BY <1>2 DEF e

LEMMA FoldIsUnique ==
  ASSUME NEW base, NEW f, NEW pick, NEW S, IsFiniteSet(S), Picks(pick, S),
         NEW g, NEW h, Folds(g, base, f, pick, S), Folds(h, base, f, pick, S)
  PROVE  \A s \in SUBSET S : g[s] = h[s]
<1>. DEFINE G == {s \in SUBSET S : g[s] # h[s]}
<1>1. SUFFICES ASSUME G # {}  PROVE FALSE
  OBVIOUS
<1>2. PICK s \in G : \A t \in G : t \subseteq s => t = s
  <2>1. G \in SUBSET (SUBSET S)
    OBVIOUS
  <2>. HIDE DEF G
  <2>. QED  BY <1>1, <2>1, LeastSubset
<1>3. s \in SUBSET S /\ g[s] # h[s]
  BY <1>2
<1>4. g[{}] = h[{}]
  BY FoldUnfolds
<1>5. s # {}
  BY <1>3, <1>4
<1>6. pick[s] \in s /\ s \ {pick[s]} \in SUBSET S /\ s \ {pick[s]} # s
  BY <1>3, <1>5 DEF Picks
<1>7. g[s \ {pick[s]}] = h[s \ {pick[s]}]
  BY <1>2, <1>6
<1>8. /\ g[s] = f[<<pick[s], g[s \ {pick[s]}]>>]
      /\ h[s] = f[<<pick[s], h[s \ {pick[s]}]>>]
  BY <1>3, <1>5, FoldUnfolds
<1>. QED  BY <1>3, <1>7, <1>8

LEMMA FoldOfLess ==
  ASSUME NEW base, NEW f, NEW pick, NEW S, Picks(pick, S),
         NEW g, Folds(g, base, f, pick, S), NEW T \in SUBSET S
  PROVE  Folds([s \in SUBSET T |-> g[s]], base, f, pick, T)
<1>. DEFINE h == [s \in SUBSET T |-> g[s]]
            e(s) == IF s = {} THEN base ELSE f[<<pick[s], h[s \ {pick[s]}]>>]
<1>1. \A s \in SUBSET T : h[s] = g[s]
  OBVIOUS
<1>. HIDE DEF h
<1>2. ASSUME NEW s \in SUBSET T PROVE g[s] = e(s)
  <2>1. CASE s = {}
    BY <2>1, FoldUnfolds
  <2>2. CASE s # {}
    <3>1. s \in SUBSET S /\ s \ {pick[s]} \in SUBSET T
      OBVIOUS
    <3>2. g[s] = f[<<pick[s], g[s \ {pick[s]}]>>]
      BY <2>2, <3>1, FoldUnfolds
    <3>. QED  BY <1>1, <2>2, <3>1, <3>2
  <2>. QED  BY <2>1, <2>2
<1>3. h = [s \in SUBSET T |-> e(s)]
  <2>. HIDE DEF e
  <2>. QED  BY <1>2 DEF h
<1>. QED  BY <1>3 DEF h, Folds

LEMMA FoldExists ==
  ASSUME NEW base, NEW f, NEW pick, NEW S, IsFiniteSet(S), Picks(pick, S)
  PROVE  \E g : Folds(g, base, f, pick, S)
<1>. DEFINE Has(T) == \E g : Folds(g, base, f, pick, T)
            G == {T \in SUBSET S : ~ Has(T)}
<1>1. SUFFICES ASSUME G # {}  PROVE FALSE
  OBVIOUS
<1>2. PICK T \in G : \A U \in G : U \subseteq T => U = T
  <2>1. G \in SUBSET (SUBSET S)
    OBVIOUS
  <2>. HIDE DEF G
  <2>. QED  BY <1>1, <2>1, LeastSubset
<1>3. T \in SUBSET S /\ ~ Has(T) /\ \A U \in SUBSET T : U # T => Has(U)
  BY <1>2
<1>. DEFINE Of(U) == CHOOSE g : Folds(g, base, f, pick, U)
            Top(s) == s \ {pick[s]}
            e(s) == IF s = {} THEN base ELSE f[<<pick[s], Of(Top(s))[Top(s)]>>]
            h == [s \in SUBSET T |-> e(s)]
<1>4. \A U \in SUBSET T : U # T => Folds(Of(U), base, f, pick, U)
  <2>. HIDE DEF G
  <2>. QED  BY <1>3
<1>. HIDE DEF G, Has, Of
<1>5. ASSUME NEW u \in SUBSET T, u # T
      PROVE  h[u] = Of(u)[u]
  <2>1. Folds(Of(u), base, f, pick, u) /\ h[u] = e(u)
    BY <1>4, <1>5
  <2>2. CASE u = {}
    BY <2>1, <2>2, FoldUnfolds
  <2>3. CASE u # {}
    <3>1. /\ pick[u] \in u /\ Top(u) \in SUBSET u /\ Top(u) \in SUBSET T /\ Top(u) # T
          /\ Top(u) \in SUBSET Top(u)
      BY <1>3, <1>5, <2>3 DEF Picks
    <3>2. Of(u)[u] = f[<<pick[u], Of(u)[Top(u)]>>]
      BY <2>1, <2>3, FoldUnfolds
    <3>3. Of(u)[Top(u)] = Of(Top(u))[Top(u)]
      <4>. DEFINE r == [s \in SUBSET Top(u) |-> Of(u)[s]]
      <4>1. Picks(pick, u) /\ Picks(pick, Top(u)) /\ IsFiniteSet(Top(u))
        BY <1>3, <3>1, FS_Subset DEF Picks
      <4>. HIDE DEF Top
      <4>2. Folds(r, base, f, pick, Top(u))
        BY <2>1, <3>1, <4>1, FoldOfLess
      <4>3. Folds(Of(Top(u)), base, f, pick, Top(u))
        BY <1>4, <3>1
      <4>4. r[Top(u)] = Of(Top(u))[Top(u)]
        <5>. HIDE DEF r
        <5>. QED  BY <3>1, <4>1, <4>2, <4>3, FoldIsUnique
      <4>. QED  BY <3>1, <4>4
    <3>. QED  BY <2>1, <2>3, <3>2, <3>3
  <2>. QED  BY <2>2, <2>3
<1>6. ASSUME NEW s \in SUBSET T, s # {}
      PROVE  h[s] = f[<<pick[s], h[Top(s)]>>]
  <2>1. pick[s] \in s /\ Top(s) \in SUBSET T /\ Top(s) # T
    BY <1>3, <1>6 DEF Picks
  <2>2. h[s] = e(s)
    OBVIOUS
  <2>3. h[Top(s)] = Of(Top(s))[Top(s)]
    <3>. HIDE DEF Top, h
    <3>. QED  BY <2>1, <1>5
  <2>. QED  BY <1>6, <2>2, <2>3
<1>7. h[{}] = base
  OBVIOUS
<1>8. h = [s \in SUBSET T |-> h[s]]
  OBVIOUS
<1>. HIDE DEF h
<1>9. Folds(h, base, f, pick, T)
  <2>. DEFINE d(s) == IF s = {} THEN base ELSE f[<<pick[s], h[s \ {pick[s]}]>>]
  <2>1. \A s \in SUBSET T : h[s] = d(s)
    BY <1>6, <1>7
  <2>2. h = [s \in SUBSET T |-> d(s)]
    <3>. HIDE DEF d
    <3>. QED  BY <1>8, <2>1
  <2>. QED  BY <2>2 DEF Folds
<1>. QED  BY <1>3, <1>9 DEF Has

\* The sum of the costs c of some slots: of none it is nought, and no slot costs
\* more than it, nor all of them more than the dearest as often.
SumOf(c, S) ==
  CHOOSE g : g = [s \in SUBSET S |->
    IF s = {} THEN 0 ELSE c[CHOOSE x \in s : TRUE] + g[s \ {CHOOSE x \in s : TRUE}]]

LEMMA SumExists ==
  ASSUME NEW S, IsFiniteSet(S), NEW c \in [S -> Nat]
  PROVE  /\ SumOf(c, S)[{}] = 0
         /\ \A s \in SUBSET S : s # {} =>
              \E x \in s : SumOf(c, S)[s] = c[x] + SumOf(c, S)[s \ {x}]
         /\ \A s \in SUBSET S : SumOf(c, S)[s] \in Nat
<1>. DEFINE f == [p \in S \X Nat |-> c[p[1]] + p[2]]
            pick == [s \in SUBSET S |-> CHOOSE x \in s : TRUE]
            e(g, s) == IF s = {} THEN 0 ELSE c[CHOOSE x \in s : TRUE] + g[s \ {CHOOSE x \in s : TRUE}]
            Sums(g) == g = [s \in SUBSET S |-> e(g, s)]
<1>1. /\ Picks(pick, S)
      /\ \A s \in SUBSET S : pick[s] = CHOOSE x \in s : TRUE
  BY DEF Picks
<1>2. \A x \in S, n \in Nat : f[<<x, n>>] = c[x] + n /\ c[x] + n \in Nat
  OBVIOUS
<1>. HIDE DEF f, pick
<1>3. PICK g : Folds(g, 0, f, pick, S)
  BY <1>1, FoldExists
<1>4. /\ g[{}] = 0
      /\ \A s \in SUBSET S : s # {} => g[s] = f[<<pick[s], g[s \ {pick[s]}]>>]
  BY <1>3, FoldUnfolds
<1>5. \A s \in SUBSET S : g[s] \in Nat
  <2>. DEFINE G == {s \in SUBSET S : g[s] \notin Nat}
  <2>1. SUFFICES ASSUME G # {}  PROVE FALSE
    OBVIOUS
  <2>2. PICK s \in G : \A t \in G : t \subseteq s => t = s
    <3>1. G \in SUBSET (SUBSET S)
      OBVIOUS
    <3>. HIDE DEF G
    <3>. QED  BY <2>1, <3>1, LeastSubset
  <2>3. s \in SUBSET S /\ g[s] \notin Nat /\ g[{}] \in Nat
    BY <2>2, <1>4
  <2>4. pick[s] \in s /\ s \ {pick[s]} \in SUBSET S /\ s \ {pick[s]} # s /\ s # {}
    BY <1>1, <2>3 DEF Picks
  <2>5. g[s \ {pick[s]}] \in Nat
    BY <2>2, <2>4
  <2>6. g[s] = f[<<pick[s], g[s \ {pick[s]}]>>]
    BY <1>4, <2>3
  <2>. QED  BY <1>2, <2>3, <2>4, <2>5, <2>6
<1>6. Sums(g)
  <2>1. \A s \in SUBSET S : g[s] = e(g, s)
    <3>. SUFFICES ASSUME NEW s \in SUBSET S, s # {}  PROVE g[s] = e(g, s)
      BY <1>4
    <3>. DEFINE x == CHOOSE x \in s : TRUE
    <3>1. pick[s] = x /\ x \in S /\ s \ {x} \in SUBSET S
      BY <1>1
    <3>. HIDE DEF x
    <3>2. g[s] = f[<<x, g[s \ {x}]>>] /\ g[s \ {x}] \in Nat
      BY <1>4, <1>5, <3>1
    <3>3. g[s] = c[x] + g[s \ {x}]
      BY <1>2, <3>1, <3>2
    <3>. QED  BY <3>3 DEF x
  <2>2. g = [s \in SUBSET S |-> g[s]]
    BY <1>3 DEF Folds
  <2>. HIDE DEF e
  <2>. QED  BY <2>1, <2>2
<1>7. Sums(SumOf(c, S))
  BY <1>6 DEF SumOf
<1>. DEFINE h == SumOf(c, S)
<1>. HIDE DEF h
<1>8. Sums(h)
  BY <1>7 DEF h
<1>9. \A s \in SUBSET S : h[s] = e(h, s)
  <2>. HIDE DEF e
  <2>. QED  BY <1>8
<1>10. \A s \in SUBSET S : s # {} =>
         \E x \in s : h[s] = c[x] + h[s \ {x}] /\ s \ {x} \in SUBSET S
  BY <1>9
<1>11. \A s \in SUBSET S : h[s] \in Nat
  <2>. DEFINE G == {s \in SUBSET S : h[s] \notin Nat}
  <2>1. SUFFICES ASSUME G # {}  PROVE FALSE
    OBVIOUS
  <2>2. PICK s \in G : \A t \in G : t \subseteq s => t = s
    <3>1. G \in SUBSET (SUBSET S)
      OBVIOUS
    <3>. HIDE DEF G
    <3>. QED  BY <2>1, <3>1, LeastSubset
  <2>3. s \in SUBSET S /\ h[s] \notin Nat /\ s # {}
    BY <2>2, <1>9
  <2>4. PICK x \in s : h[s] = c[x] + h[s \ {x}] /\ s \ {x} \in SUBSET S
    BY <1>10, <2>3
  <2>5. h[s \ {x}] \in Nat /\ c[x] \in Nat
    BY <2>2, <2>3, <2>4
  <2>. QED  BY <2>3, <2>4, <2>5
<1>. QED  BY <1>9, <1>10, <1>11 DEF h

LEMMA SumBounds ==
  ASSUME NEW S, IsFiniteSet(S), NEW c \in [S -> Nat]
  PROVE  /\ \A x \in S : c[x] <= SumOf(c, S)[S]
         /\ (\A x \in S : c[x] <= 461) => SumOf(c, S)[S] <= 461 * Cardinality(S)
         /\ SumOf(c, S)[S] \in Nat /\ Cardinality(S) \in Nat
<1>. DEFINE h == SumOf(c, S)
            Capped(s) == /\ \A x \in s : c[x] <= h[s]
                         /\ (\A x \in S : c[x] <= 461) => h[s] <= 461 * Cardinality(s)
            G == {s \in SUBSET S : ~ Capped(s)}
<1>1. /\ h[{}] = 0
      /\ \A s \in SUBSET S : s # {} => \E x \in s : h[s] = c[x] + h[s \ {x}]
      /\ \A s \in SUBSET S : h[s] \in Nat
  BY SumExists
<1>. HIDE DEF h
<1>2. G = {}
  <2>1. SUFFICES ASSUME G # {}  PROVE FALSE
    OBVIOUS
  <2>2. PICK s \in G : \A t \in G : t \subseteq s => t = s
    <3>1. G \in SUBSET (SUBSET S)
      OBVIOUS
    <3>. HIDE DEF G
    <3>. QED  BY <2>1, <3>1, LeastSubset
  <2>3. s \in SUBSET S /\ ~ Capped(s)
    BY <2>2
  <2>4. Capped({})
    BY <1>1, FS_EmptySet
  <2>5. PICK x \in s : h[s] = c[x] + h[s \ {x}]
    BY <1>1, <2>3, <2>4
  <2>6. s \ {x} \in SUBSET S /\ Capped(s \ {x})
    BY <2>2, <2>3
  <2>7. /\ IsFiniteSet(s) /\ Cardinality(s) \in Nat
        /\ Cardinality(s \ {x}) = Cardinality(s) - 1
    BY <2>3, FS_Subset, FS_RemoveElement, FS_CardinalityType
  <2>8. c[x] \in Nat /\ h[s \ {x}] \in Nat /\ \A y \in s : c[y] \in Nat
    BY <1>1, <2>3, <2>6
  <2>9. \A y \in s : c[y] <= h[s]
    <3>1. \A y \in s \ {x} : c[y] <= h[s \ {x}]
      BY <2>6
    <3>. QED  BY <2>5, <2>8, <3>1
  <2>10. ASSUME \A y \in S : c[y] <= 461
         PROVE  h[s] <= 461 * Cardinality(s)
    <3>1. h[s \ {x}] <= 461 * (Cardinality(s) - 1) /\ c[x] <= 461
      BY <2>3, <2>6, <2>7, <2>10
    <3>. QED  BY <2>5, <2>7, <2>8, <3>1
  <2>. QED  BY <2>3, <2>9, <2>10
<1>3. Capped(S)
  BY <1>2
<1>. QED  BY <1>1, <1>3, FS_CardinalityType DEF h

\* What the solver adds up.
LEMMA TotalIsSum ==
  ASSUME NEW barred, NEW assignment
  PROVE  LET c == [slot \in slots |-> PairCost(barred, <<assignment[slot], slot>>)]
         IN  TotalCost(barred, assignment) = SumOf(c, slots)[slots]
<1>. DEFINE c == [slot \in slots |-> PairCost(barred, <<assignment[slot], slot>>)]
<1>1. TotalCost(barred, assignment) = FoldFunction(+, 0, c) /\ DOMAIN c = slots
  BY DEF TotalCost
<1>. HIDE DEF c
<1>2. FoldFunction(+, 0, c) = SumOf(c, DOMAIN c)[DOMAIN c]
  BY DEF FoldFunction, FoldFunctionOnSet, MapThenFoldSet, SumOf
<1>3. TotalCost(barred, assignment) = SumOf(c, slots)[slots]
  BY <1>1, <1>2
<1>. QED  BY <1>3 DEF c

\* The penalty is more than any cost.
LEMMA PenaltyIs == Penalty \in Nat /\ 461 < Penalty
BY SMT DEF Penalty

\* The costs of an assignment of places to the slots.
LEMMA CostFacts ==
  ASSUME RosterInv, NEW barred, NEW a \in Injection(slots, Places)
  PROVE  LET c == [slot \in slots |-> PairCost(barred, <<a[slot], slot>>)]
         IN  /\ c \in [slots -> Nat]
             /\ DOMAIN a = slots
             /\ \A slot \in slots :
                  /\ <<a[slot], slot>> \in Places \X slots
                  /\ c[slot] = PairCost(barred, <<a[slot], slot>>)
                  /\ c[slot] < Penalty => c[slot] <= 461
                  /\ c[slot] < Penalty <=>
                       scores[<<a[slot], slot>>] # Disqualified /\ <<a[slot], slot>> \notin barred
             /\ IsFiniteSet(slots) /\ 461 * Cardinality(slots) < Penalty
<1>. DEFINE c == [slot \in slots |-> PairCost(barred, <<a[slot], slot>>)]
<1>1. DOMAIN a = slots /\ \A slot \in slots : a[slot] \in Places
  BY DEF Injection
<1>2. ASSUME NEW slot \in slots
      PROVE  /\ <<a[slot], slot>> \in Places \X slots
             /\ scores[<<a[slot], slot>>] \in Costs \cup {Disqualified}
  BY <1>1, <1>2 DEF RosterInv
<1>3. \A pair \in Places \X slots :
        /\ PairCost(barred, pair) \in Nat
        /\ PairCost(barred, pair) < Penalty => PairCost(barred, pair) <= 461
        /\ PairCost(barred, pair) < Penalty <=> scores[pair] # Disqualified /\ pair \notin barred
  <2>. TAKE pair \in Places \X slots
  <2>1. scores[pair] \in Costs \cup {Disqualified}
    BY DEF RosterInv
  <2>2. scores[pair] # Disqualified => scores[pair] \in Nat /\ scores[pair] <= 461
    <3>1. \A cost \in Costs : cost \in 0 .. 461
      BY SelectionAssumption
    <3>2. \A cost \in 0 .. 461 : cost \in Nat /\ cost <= 461
      OBVIOUS
    <3>. QED  BY <2>1, <3>1, <3>2
  <2>3. CASE scores[pair] = Disqualified \/ pair \in barred
    BY <2>3, PenaltyIs DEF PairCost
  <2>4. CASE scores[pair] # Disqualified /\ pair \notin barred
    BY <2>2, <2>4, PenaltyIs DEF PairCost
  <2>. QED  BY <2>3, <2>4
<1>4. \A slot \in slots : c[slot] = PairCost(barred, <<a[slot], slot>>)
  OBVIOUS
<1>5. IsFiniteSet(slots) /\ 461 * Cardinality(slots) < Penalty
  <2>1. IsFiniteSet(slots) /\ Cardinality(slots) <= Cardinality(RoleSlots)
    BY SelectionAssumption, FS_Subset DEF RosterInv
  <2>2. Cardinality(slots) \in Nat /\ Cardinality(RoleSlots) \in Nat
    BY <2>1, SelectionAssumption, FS_CardinalityType
  <2>. QED  BY <2>1, <2>2, SelectionAssumption, PenaltyIs
<1>6. c \in [slots -> Nat]
  BY <1>2, <1>3
<1>. HIDE DEF c
<1>7. \A slot \in slots :
        /\ c[slot] < Penalty => c[slot] <= 461
        /\ c[slot] < Penalty <=>
             scores[<<a[slot], slot>>] # Disqualified /\ <<a[slot], slot>> \notin barred
  BY <1>2, <1>3, <1>4
<1>. QED  BY <1>1, <1>2, <1>4, <1>5, <1>6, <1>7 DEF c

\* An assignment costs less than one penalty exactly if it fills every slot with
\* a qualified candidate that is not barred.
LEMMA FilledFacts ==
  ASSUME RosterInv, NEW barred, NEW a \in Injection(slots, Places)
  PROVE  /\ Filled(barred, a) <=> a \in Rosters /\ \A slot \in slots : <<a[slot], slot>> \notin barred
         /\ Filled(barred, a) => TotalCost(barred, a) < Penalty
         /\ ~ Filled(barred, a) => TotalCost(barred, a) >= Penalty
         /\ Filled(barred, a) => TotalCost(barred, a) = TotalCost({}, a)
         /\ TotalCost(barred, a) \in Nat
<1>. DEFINE c == [slot \in slots |-> PairCost(barred, <<a[slot], slot>>)]
            d == [slot \in slots |-> PairCost({}, <<a[slot], slot>>)]
<1>1. /\ c \in [slots -> Nat] /\ DOMAIN a = slots
      /\ \A slot \in slots :
           /\ <<a[slot], slot>> \in Places \X slots
           /\ c[slot] = PairCost(barred, <<a[slot], slot>>)
           /\ c[slot] < Penalty => c[slot] <= 461
           /\ c[slot] < Penalty <=>
                scores[<<a[slot], slot>>] # Disqualified /\ <<a[slot], slot>> \notin barred
      /\ IsFiniteSet(slots) /\ 461 * Cardinality(slots) < Penalty
  BY CostFacts
<1>2. TotalCost(barred, a) = SumOf(c, slots)[slots] /\ TotalCost({}, a) = SumOf(d, slots)[slots]
  BY TotalIsSum
<1>3. /\ \A slot \in slots : c[slot] <= SumOf(c, slots)[slots]
      /\ (\A slot \in slots : c[slot] <= 461) => SumOf(c, slots)[slots] <= 461 * Cardinality(slots)
      /\ SumOf(c, slots)[slots] \in Nat /\ Cardinality(slots) \in Nat
  <2>. HIDE DEF c
  <2>. QED  BY <1>1, SumBounds
<1>4. (\A slot \in slots : <<a[slot], slot>> \notin barred) => c = d
  BY DEF PairCost
<1>. HIDE DEF c, d
<1>5. Filled(barred, a) <=> \A slot \in slots : c[slot] < Penalty
  <2>1. Pairs(a) = {<<a[slot], slot>> : slot \in slots}
    BY <1>1 DEF Pairs
  <2>2. Filled(barred, a) <=> \A slot \in slots : PairCost(barred, <<a[slot], slot>>) < Penalty
    BY <2>1 DEF Filled
  <2>3. \A slot \in slots : c[slot] = PairCost(barred, <<a[slot], slot>>)
    BY <1>1
  <2>. QED  BY <2>2, <2>3
<1>6. a \in Rosters <=> \A slot \in slots : scores[<<a[slot], slot>>] # Disqualified
  BY DEF Rosters
<1>. DEFINE total == SumOf(c, slots)[slots]
<1>. HIDE DEF total
<1>7. ASSUME Filled(barred, a)
      PROVE  TotalCost(barred, a) < Penalty /\ TotalCost(barred, a) = TotalCost({}, a)
  <2>1. \A slot \in slots : c[slot] <= 461 /\ <<a[slot], slot>> \notin barred
    BY <1>1, <1>5, <1>7
  <2>2. TotalCost(barred, a) = TotalCost({}, a)
    BY <1>2, <1>4, <2>1
  <2>3. /\ total <= 461 * Cardinality(slots) /\ 461 * Cardinality(slots) < Penalty
        /\ total \in Nat /\ Cardinality(slots) \in Nat
    BY <1>1, <1>3, <2>1 DEF total
  <2>4. total < Penalty
    BY <2>3, PenaltyIs
  <2>. QED  BY <1>2, <2>2, <2>4 DEF total
<1>8. ASSUME ~ Filled(barred, a)
      PROVE  TotalCost(barred, a) >= Penalty
  <2>1. PICK slot \in slots : ~ (c[slot] < Penalty)
    BY <1>5, <1>8
  <2>2. c[slot] <= total /\ total \in Nat /\ c[slot] \in Nat
    BY <1>1, <1>3 DEF total
  <2>3. total >= Penalty
    BY <2>1, <2>2, PenaltyIs
  <2>. QED  BY <1>2, <2>3 DEF total
<1>9. Filled(barred, a) <=>
         a \in Rosters /\ \A slot \in slots : <<a[slot], slot>> \notin barred
  BY <1>1, <1>5, <1>6, ZenonT(60)
<1>. QED  BY <1>2, <1>3, <1>7, <1>8, <1>9

\* A cheapest assignment is a cheapest roster if any roster exists that is not
\* barred; if it is not filled there is none.
LEMMA SolvedFacts ==
  ASSUME RosterInv, NEW barred, NEW a \in Solutions(barred)
  PROVE  /\ a \in Injection(slots, Places)
         /\ Filled(barred, a) =>
              /\ a \in Rosters /\ \A slot \in slots : <<a[slot], slot>> \notin barred
              /\ \A b \in Rosters :
                   (\A slot \in slots : <<b[slot], slot>> \notin barred)
                     => TotalCost({}, a) <= TotalCost({}, b)
         /\ ~ Filled(barred, a) =>
              \A b \in Rosters : \E slot \in slots : <<b[slot], slot>> \in barred
<1>1. /\ a \in Injection(slots, Places)
      /\ \A b \in Injection(slots, Places) : TotalCost(barred, a) <= TotalCost(barred, b)
  BY DEF Solutions
<1>2. \A b \in Rosters : b \in Injection(slots, Places)
  BY DEF Rosters
<1>3. ASSUME Filled(barred, a)
      PROVE  /\ a \in Rosters /\ \A slot \in slots : <<a[slot], slot>> \notin barred
             /\ TotalCost(barred, a) = TotalCost({}, a)
  BY <1>1, <1>3, FilledFacts
<1>4. ASSUME NEW b \in Rosters, \A slot \in slots : <<b[slot], slot>> \notin barred
      PROVE  /\ Filled(barred, b) /\ TotalCost(barred, b) = TotalCost({}, b)
             /\ TotalCost(barred, a) <= TotalCost(barred, b)
             /\ TotalCost(barred, b) < Penalty
             /\ TotalCost(barred, a) \in Nat /\ TotalCost(barred, b) \in Nat
  BY <1>1, <1>2, <1>4, FilledFacts
<1>5. ASSUME ~ Filled(barred, a)
      PROVE  TotalCost(barred, a) >= Penalty /\ TotalCost(barred, a) \in Nat
  BY <1>1, <1>5, FilledFacts
<1>6. ASSUME Filled(barred, a), NEW b \in Rosters,
             \A slot \in slots : <<b[slot], slot>> \notin barred
      PROVE  TotalCost({}, a) <= TotalCost({}, b)
  BY <1>3, <1>4, <1>6
<1>7. ASSUME ~ Filled(barred, a), NEW b \in Rosters
      PROVE  \E slot \in slots : <<b[slot], slot>> \in barred
  BY <1>4, <1>5, <1>7, PenaltyIs
<1>. QED  BY <1>1, <1>3, <1>6, <1>7

\* Barring the pairs of a roster asks for one that avoids it.
LEMMA BarredFacts ==
  ASSUME NEW a, DOMAIN a = slots, NEW b
  PROVE  Avoids(b, a) <=> \A slot \in slots : <<b[slot], slot>> \notin Pairs(a)
BY DEF Avoids, Pairs

\* Where no soldier stands twice in the pool, places are soldiers.
LEMMA SeatedFacts ==
  ASSUME IsInjective(pool), NEW a \in Injection(slots, Places), NEW b \in Injection(slots, Places)
  PROVE  /\ IsInjective(Seated(a))
         /\ Avoids(b, a) => Avoids(Seated(b), Seated(a))
<1>1. \A p, q \in Places : pool[p] = pool[q] => p = q
  BY DEF IsInjective, Places
<1>2. /\ \A slot \in slots : a[slot] \in Places /\ b[slot] \in Places
      /\ \A s, t \in slots : a[s] = a[t] => s = t
  BY DEF Injection, IsInjective
<1>3. IsInjective(Seated(a))
  BY <1>1, <1>2 DEF IsInjective, Seated
<1>4. Avoids(b, a) => Avoids(Seated(b), Seated(a))
  BY <1>1, <1>2 DEF Avoids, Seated
<1>. QED  BY <1>3, <1>4

\* It depends on the slots and the scores alone.
TotalsAreSums ==
  \A b, s : TotalCost(b, s) =
             SumOf([slot \in slots |-> PairCost(b, <<s[slot], slot>>)], slots)[slots]

LEMMA TotalsStaySums == TotalsAreSums /\ TotalsAreSums'
<1>1. TotalsAreSums
  BY TotalIsSum DEF TotalsAreSums
<1>. QED  BY <1>1, PTL

LEMMA SameCosts ==
  ASSUME UNCHANGED <<slots, scores>>, NEW barred, NEW assignment
  PROVE  TotalCost(barred, assignment)' = TotalCost(barred, assignment)
<1>. DEFINE c == [slot \in slots |-> PairCost(barred, <<assignment[slot], slot>>)]
<1>1. TotalCost(barred, assignment)' = SumOf(c', slots')[slots']
  BY TotalsStaySums DEF TotalsAreSums
<1>2. TotalCost(barred, assignment) = SumOf(c, slots)[slots]
  BY TotalIsSum
<1>3. c' = c
  BY DEF PairCost
<1>. HIDE DEF c
<1>. QED  BY <1>1, <1>2, <1>3

\* So the solver's choice, and what a roster is, stay what they were while the
\* slots are filled.
LEMMA SameSolutions ==
  ASSUME UNCHANGED <<pool, slots, scores>>, NEW barred, NEW assignment
  PROVE  /\ Solutions(barred)' = Solutions(barred)
         /\ Filled(barred, assignment)' = Filled(barred, assignment)
         /\ Rosters' = Rosters
<1>1. \A a : TotalCost(barred, a)' = TotalCost(barred, a)
  BY SameCosts
<1>2. Solutions(barred)' = Solutions(barred)
  BY <1>1 DEF Solutions, Places
<1>3. Filled(barred, assignment)' = Filled(barred, assignment)
  BY DEF Filled, PairCost
<1>4. Rosters' = Rosters
  BY DEF Rosters, Places
<1>. QED  BY <1>2, <1>3, <1>4

\* The first roster is a cheapest one; what it bars leaves the cheapest of those
\* that avoid it.
LEMMA RosterStep ==
  ASSUME RosterInv, [SelectionNext]_selectionVars
  PROVE  RosterInv'
<1>1. CASE CheckPool
  <2>1. /\ UNCHANGED <<pool, slots, scores, primary, second>> /\ primary = Nobody
        /\ stage' \in {"raised", "scored"}
        /\ stage' = "raised" => Len(pool) < Cardinality(slots)
    BY <1>1 DEF CheckPool, RosterInv
  <2>2. ASSUME Len(pool) < Cardinality(slots)
        PROVE  Rosters = {}
    <3>. SUFFICES ASSUME NEW a \in Rosters  PROVE FALSE
      OBVIOUS
    <3>1. a \in Injection(slots, Places)
      BY DEF Rosters
    <3>2. pool \in Seq(Candidates) /\ IsFiniteSet(slots)
      BY SelectionAssumption, FS_Subset DEF RosterInv, Places
    <3>3. IsFiniteSet(Places) /\ Cardinality(Places) = Len(pool) /\ Len(pool) \in Nat
      <4>1. Places = 1 .. Len(pool) /\ Len(pool) \in Nat
        BY <3>2, SMT DEF Places
      <4>2. \A n \in Nat : IsFiniteSet(1 .. n) /\ Cardinality(1 .. n) = n
        <5>. TAKE n \in Nat
        <5>1. 1 \in Int /\ n \in Int /\ (IF 1 > n THEN 0 ELSE n - 1 + 1) = n
          OBVIOUS
        <5>. QED  BY <5>1, FS_Interval
      <4>. QED  BY <4>1, <4>2
    <3>4. Cardinality(slots) <= Cardinality(Places)
      BY <3>1, <3>2, <3>3, FS_Injection
    <3>. QED  BY <2>2, <3>2, <3>3, <3>4, FS_CardinalityType
  <2>3. Rosters' = Rosters
    BY <2>1 DEF Rosters, Places
  <2>4. RosterIsBest'
    BY <2>1, <2>2, <2>3 DEF RosterIsBest
  <2>. QED  BY <2>1, <2>4 DEF RosterInv, Places
<1>2. CASE SolvePrimary
  <2>1. PICK a \in Solutions({}) :
          IF Filled({}, a) THEN stage' = "chosen" /\ primary' = a
                           ELSE stage' = "raised" /\ UNCHANGED primary
    BY <1>2 DEF SolvePrimary
  <2>2. UNCHANGED <<pool, slots, scores, second>> /\ primary = Nobody
    BY <1>2 DEF SolvePrimary, RosterInv
  <2>3. CASE Filled({}, a)
    <3>1. stage' = "chosen" /\ primary' = a
      BY <2>1, <2>3
    <3>2. (a \in Solutions({}) /\ Filled({}, a))'
      BY <2>2, <2>3, <3>1, SameSolutions
    <3>. QED  BY <2>2, <3>1, <3>2 DEF RosterInv, RosterIsBest, Places
  <2>4. CASE ~ Filled({}, a)
    <3>1. stage' = "raised" /\ primary' = Nobody
      BY <2>1, <2>2, <2>4
    <3>2. \A b \in Rosters : \E slot \in slots : <<b[slot], slot>> \in {}
      BY <2>4, SolvedFacts
    <3>3. Rosters = {}
      BY <3>2
    <3>4. Rosters' = Rosters
      BY <2>2 DEF Rosters, Places
    <3>. QED  BY <2>2, <3>1, <3>3, <3>4 DEF RosterInv, RosterIsBest, Places
  <2>. QED  BY <2>3, <2>4
<1>3. CASE SolveSecond
  <2>1. PICK a \in Solutions(Pairs(primary)) :
          IF Filled(Pairs(primary), a) THEN stage' = "answered" /\ second' = a
                                       ELSE stage' = "raised" /\ UNCHANGED second
    BY <1>3 DEF SolveSecond
  <2>2. /\ UNCHANGED <<pool, slots, scores, primary>>
        /\ primary \in Solutions({}) /\ Filled({}, primary)
    BY <1>3 DEF SolveSecond, RosterInv
  <2>3. /\ primary \in Injection(slots, Places) /\ DOMAIN primary = slots
        /\ primary \in Rosters
        /\ \A b \in Rosters : TotalCost({}, primary) <= TotalCost({}, b)
    BY <2>2, SolvedFacts DEF Injection
  <2>4. /\ Rosters' = Rosters
        /\ \A b, c : Avoids(b, c)' = Avoids(b, c)
        /\ \A b : TotalCost({}, b)' = TotalCost({}, b)
        /\ \A b : Seated(b)' = Seated(b)
    BY <2>2, SameSolutions, SameCosts DEF Avoids, Seated
  <2>5. CASE Filled(Pairs(primary), a)
    <3>1. stage' = "answered" /\ second' = a
      BY <2>1, <2>5
    <3>2. /\ a \in Rosters /\ Avoids(a, primary)
          /\ \A b \in Rosters : Avoids(b, primary) => TotalCost({}, a) <= TotalCost({}, b)
      BY <2>3, <2>5, SolvedFacts, BarredFacts
    <3>3. IsInjective(pool) =>
            /\ IsInjective(Seated(primary)) /\ IsInjective(Seated(a))
            /\ Avoids(Seated(a), Seated(primary))
      BY <2>3, <3>2, SeatedFacts DEF Rosters
    <3>4. RosterIsBest'
      BY <2>2, <2>3, <2>4, <3>1, <3>2, <3>3 DEF RosterIsBest
    <3>. QED  BY <2>2, <3>1, <3>4 DEF RosterInv, Places
  <2>6. CASE ~ Filled(Pairs(primary), a)
    <3>1. stage' = "raised" /\ second' = second
      BY <2>1, <2>6
    <3>2. \A b \in Rosters : ~ Avoids(b, primary)
      BY <2>3, <2>6, SolvedFacts, BarredFacts
    <3>3. primary # Nobody
      <4>1. slots \in (SUBSET RoleSlots) \ {{}}
        BY DEF RosterInv, Places
      <4>2. DOMAIN Nobody = {}
        BY DEF Nobody
      <4>3. DOMAIN primary = slots /\ slots # {}
        BY <2>3, <4>1
      <4>. QED  BY <4>2, <4>3
    <3>4. RosterIsBest'
      BY <2>2, <2>4, <3>1, <3>2, <3>3 DEF RosterIsBest
    <3>. QED  BY <2>2, <3>1, <3>4 DEF RosterInv, Places
  <2>. QED  BY <2>5, <2>6
<1>4. CASE UNCHANGED selectionVars
  <2>1. UNCHANGED <<stage, pool, slots, scores, primary, second>>
    BY <1>4 DEF selectionVars
  <2>2. /\ Rosters' = Rosters
        /\ Solutions({})' = Solutions({})
        /\ \A b : Filled({}, b)' = Filled({}, b)
        /\ \A b, c : Avoids(b, c)' = Avoids(b, c)
        /\ \A b : TotalCost({}, b)' = TotalCost({}, b)
        /\ \A b : Seated(b)' = Seated(b)
    BY <2>1, SameSolutions, SameCosts DEF Avoids, Seated
  <2>3. RosterIsBest'
    BY <2>1, <2>2 DEF RosterInv, RosterIsBest, Places
  <2>. QED  BY <2>1, <2>2, <2>3 DEF RosterInv, Places
<1>. QED  BY <1>1, <1>2, <1>3, <1>4 DEF SelectionNext

\* score() answers with a cheapest roster of all that respect the hard
\* constraints and a cheapest one that fills each slot from another place of the
\* pool, which is another soldier if the pool names none twice, and raises only
\* where one of the two does not exist: whatever the pool, the slots and the
\* costs, and whichever of the cheapest assignments the solver returns.
THEOREM RostersAreBest == SelectionSpec => []RosterIsBest
<1>1. SelectionInit => RosterInv
  BY DEF SelectionInit, RosterInv, RosterIsBest
<1>2. RosterInv /\ [SelectionNext]_selectionVars => RosterInv'
  BY RosterStep
<1>3. RosterInv => RosterIsBest
  BY DEF RosterInv
<1>. QED  BY <1>1, <1>2, <1>3, PTL DEF SelectionSpec

-----------------------------------------------------------------------------
(* The candidate pool.                                                     *)

\* A fold of a sequence picks the indices from the last one down.
Tops(n) == [s \in SUBSET (1 .. n) |-> Max(s)]

LEMMA TopsPick ==
  ASSUME NEW n \in Nat
  PROVE  /\ IsFiniteSet(1 .. n) /\ Picks(Tops(n), 1 .. n)
         /\ \A k \in 1 .. n : /\ (1 .. k) \in SUBSET (1 .. n) /\ 1 .. k # {}
                              /\ Max(1 .. k) = k /\ (1 .. k) \ {k} = 1 .. k - 1
<1>1. ASSUME NEW s \in SUBSET (1 .. n), s # {}
      PROVE  Max(s) \in s /\ \A y \in s : Max(s) >= y
  <2>1. \E x \in s : \A y \in s : y <= x
    BY <1>1, LastIndex
  <2>2. \E x \in s : \A y \in s : x >= y
    BY <2>1
  <2>. QED  BY <2>2 DEF Max
<1>2. ASSUME NEW k \in 1 .. n
      PROVE  /\ (1 .. k) \in SUBSET (1 .. n) /\ 1 .. k # {}
             /\ Max(1 .. k) = k /\ (1 .. k) \ {k} = 1 .. k - 1
  <2>1. (1 .. k) \in SUBSET (1 .. n) /\ k \in 1 .. k
    OBVIOUS
  <2>2. Max(1 .. k) \in 1 .. k /\ \A y \in 1 .. k : Max(1 .. k) >= y
    BY <1>1, <2>1
  <2>. QED  BY <2>1, <2>2
<1>3. Picks(Tops(n), 1 .. n)
  BY <1>1 DEF Picks, Tops
<1>4. IsFiniteSet(1 .. n)
  BY FS_Interval
<1>. QED  BY <1>2, <1>3, <1>4

\* A fold stays in a set its steps stay in.
LEMMA FoldStays ==
  ASSUME NEW base, NEW f, NEW pick, NEW S, IsFiniteSet(S), Picks(pick, S),
         NEW g, Folds(g, base, f, pick, S),
         NEW V, base \in V, \A x \in S, v \in V : f[<<x, v>>] \in V
  PROVE  \A s \in SUBSET S : g[s] \in V
<1>. DEFINE G == {s \in SUBSET S : g[s] \notin V}
<1>1. SUFFICES ASSUME G # {}  PROVE FALSE
  OBVIOUS
<1>2. PICK s \in G : \A t \in G : t \subseteq s => t = s
  <2>1. G \in SUBSET (SUBSET S)
    OBVIOUS
  <2>. HIDE DEF G
  <2>. QED  BY <1>1, <2>1, LeastSubset
<1>3. s \in SUBSET S /\ g[s] \notin V
  BY <1>2
<1>4. g[{}] \in V
  BY FoldUnfolds
<1>5. pick[s] \in s /\ s \ {pick[s]} \in SUBSET S /\ s \ {pick[s]} # s /\ s # {}
  BY <1>3, <1>4 DEF Picks
<1>6. g[s \ {pick[s]}] \in V
  BY <1>2, <1>5
<1>7. g[s] = f[<<pick[s], g[s \ {pick[s]}]>>]
  BY <1>3, <1>5, FoldUnfolds
<1>. QED  BY <1>3, <1>5, <1>6, <1>7

SequenceFold(g, n, V, base, f) ==
  /\ g = [s \in SUBSET (1 .. n) |-> g[s]]
  /\ g[{}] = base
  /\ \A s \in SUBSET (1 .. n) : s # {} =>
       /\ Max(s) \in 1 .. n /\ g[s \ {Max(s)}] \in V
       /\ g[s] = f[<<Max(s), g[s \ {Max(s)}]>>]

\* There is one where the steps stay in a set.
LEMMA SequenceFolds ==
  ASSUME NEW n \in Nat, NEW V, NEW base \in V, NEW f,
         \A k \in 1 .. n, v \in V : f[<<k, v>>] \in V
  PROVE  \E g : SequenceFold(g, n, V, base, f)
<1>. DEFINE I == 1 .. n
            T == Tops(n)
<1>1. /\ IsFiniteSet(I) /\ Picks(T, I) /\ \A s \in SUBSET I : T[s] = Max(s)
      /\ \A x \in I, v \in V : f[<<x, v>>] \in V
  BY TopsPick DEF Tops
<1>. HIDE DEF I, T
<1>2. PICK g : Folds(g, base, f, T, I)
  BY <1>1, FoldExists
<1>3. \A s \in SUBSET I : g[s] \in V
  BY <1>1, <1>2, FoldStays, ZenonT(60)
<1>4. /\ g[{}] = base
      /\ \A s \in SUBSET I : s # {} => g[s] = f[<<T[s], g[s \ {T[s]}]>>]
  BY <1>2, FoldUnfolds
<1>5. g = [s \in SUBSET I |-> g[s]]
  BY <1>2 DEF Folds
<1>6. \A s \in SUBSET I : s # {} =>
        /\ Max(s) \in I /\ g[s \ {Max(s)}] \in V
        /\ g[s] = f[<<Max(s), g[s \ {Max(s)}]>>]
  BY <1>1, <1>3, <1>4 DEF Picks
<1>. QED  BY <1>4, <1>5, <1>6 DEF I, SequenceFold

\* What one view of a projection makes of a value.
Stated(current, stated) == IF stated = Unusable THEN current ELSE Within(stated)

\* Views are applied one after the other, from the value there was.
LEMMA AppliedRuns ==
  ASSUME NEW value \in Int, NEW row, row.content.values \in Seq(Int \cup {Unusable})
  PROVE  LET vals == row.content.values
         IN  \E h : /\ h[{}] = value
                    /\ \A k \in 1 .. Len(vals) : h[1 .. k] = Stated(h[1 .. k - 1], vals[k])
                    /\ Applied(value, row) = h[1 .. Len(vals)]
<1>. DEFINE vals == row.content.values
            n == Len(vals)
            e(g, s) == IF s = {} THEN value ELSE Stated(g[s \ {Max(s)}], vals[Max(s)])
            Runs(g, S) == g = [s \in SUBSET S |-> e(g, s)]
            h == CHOOSE g : Runs(g, 1 .. n)
            f == [p \in (1 .. n) \X Int |-> Stated(p[2], vals[p[1]])]
<1>1. n \in Nat /\ DOMAIN vals = 1 .. n /\ \A k \in 1 .. n : vals[k] \in Int \cup {Unusable}
  BY LenProperties, ElementOfSeq
<1>2. Applied(value, row) = h[1 .. n]
  <2>1. Applied(value, row) = (CHOOSE g : Runs(g, DOMAIN vals))[DOMAIN vals]
    BY DEF Applied, FoldLeft, MapThenFoldSet, Stated
  <2>. QED  BY <1>1, <2>1
<1>3. \A k \in 1 .. n, v \in Int : f[<<k, v>>] = Stated(v, vals[k]) /\ f[<<k, v>>] \in Int
  BY <1>1, CandidatePoolAssumption DEF Stated, Within
<1>. HIDE DEF vals, n, f
<1>4. PICK g : SequenceFold(g, n, Int, value, f)
  <2>1. n \in Nat /\ \A k \in 1 .. n, v \in Int : f[<<k, v>>] \in Int
    BY <1>1, <1>3
  <2>. QED  BY ONLY value \in Int, <2>1, SequenceFolds
<1>5. Runs(g, 1 .. n)
  <2>1. \A s \in SUBSET (1 .. n) : g[s] = e(g, s)
    BY <1>3, <1>4 DEF SequenceFold
  <2>. HIDE DEF e
  <2>. QED  BY <1>4, <2>1 DEF SequenceFold
<1>6. Runs(h, 1 .. n)
  <2>. HIDE DEF Runs
  <2>. QED  BY <1>5
<1>. HIDE DEF h
<1>7. \A s \in SUBSET (1 .. n) : h[s] = e(h, s)
  <2>. HIDE DEF e
  <2>. QED  BY <1>6
<1>8. h[{}] = value
  BY <1>7
<1>9. ASSUME NEW k \in 1 .. n
      PROVE  h[1 .. k] = Stated(h[1 .. k - 1], vals[k])
  <2>1. /\ (1 .. k) \in SUBSET (1 .. n) /\ 1 .. k # {}
        /\ Max(1 .. k) = k /\ (1 .. k) \ {k} = 1 .. k - 1
    BY <1>1, TopsPick
  <2>2. h[1 .. k] = e(h, 1 .. k)
    <3>. HIDE DEF e
    <3>. QED  BY <1>7, <2>1
  <2>. QED  BY <2>1, <2>2
<1>. QED  BY <1>2, <1>8, <1>9 DEF n, vals

\* A step of a run after which something is so that was not so before.
LEMMA FirstStep ==
  ASSUME NEW n \in Nat, NEW W, n \in W, 0 \notin W
  PROVE  \E k \in 1 .. n : k \in W /\ k - 1 \notin W
<1>. DEFINE L == {k \in 1 .. n : k - 1 \notin W}
<1>1. 1 \in L
  <2>1. n # 0
    OBVIOUS
  <2>. QED  BY <2>1
<1>2. PICK i \in L : \A j \in L : j <= i
  <2>1. L \subseteq 1 .. n /\ L # {}
    BY <1>1
  <2>. HIDE DEF L
  <2>. QED  BY <2>1, LastIndex
<1>3. i \in W
  <2>1. SUFFICES ASSUME i \notin W  PROVE FALSE
    OBVIOUS
  <2>2. i # n /\ i \in 1 .. n
    BY <1>2, <2>1
  <2>3. i + 1 \in L
    BY <2>1, <2>2
  <2>. QED  BY <1>2, <2>2, <2>3
<1>. QED  BY <1>2, <1>3

\* The last usable statement is what counts.
LEMMA AppliedIs ==
  ASSUME NEW value \in Int, NEW row, row.content.values \in Seq(Int \cup {Unusable})
  PROVE  LET vals == row.content.values
         IN  /\ Applied(value, row) \in Int
             /\ \/ /\ Applied(value, row) = value
                   /\ \A j \in DOMAIN vals : vals[j] = Unusable
                \/ \E j \in DOMAIN vals :
                     /\ vals[j] # Unusable /\ Applied(value, row) = Within(vals[j])
                     /\ \A l \in DOMAIN vals : j < l => vals[l] = Unusable
<1>. DEFINE vals == row.content.values
            n == Len(vals)
<1>1. n \in Nat /\ DOMAIN vals = 1 .. n /\ \A k \in 1 .. n : vals[k] \in Int \cup {Unusable}
  BY LenProperties, ElementOfSeq
<1>2. PICK h : /\ h[{}] = value
               /\ \A k \in 1 .. n : h[1 .. k] = Stated(h[1 .. k - 1], vals[k])
               /\ Applied(value, row) = h[1 .. n]
  BY AppliedRuns
<1>. HIDE DEF vals, n
<1>. DEFINE Good(k) == /\ h[1 .. k] \in Int
                       /\ \/ /\ h[1 .. k] = value
                             /\ \A j \in 1 .. k : vals[j] = Unusable
                          \/ \E j \in 1 .. k :
                               /\ vals[j] # Unusable /\ h[1 .. k] = Within(vals[j])
                               /\ \A l \in 1 .. k : j < l => vals[l] = Unusable
            W == {k \in 0 .. n : ~ Good(k)}
<1>3. Good(0)
  BY <1>2
<1>4. ASSUME NEW k \in 1 .. n, Good(k - 1)
      PROVE  Good(k)
  <2>1. h[1 .. k] = Stated(h[1 .. k - 1], vals[k]) /\ \A j \in 1 .. k : j = k \/ j \in 1 .. k - 1
    BY <1>1, <1>2
  <2>2. CASE vals[k] = Unusable
    <3>1. h[1 .. k] = h[1 .. k - 1]
      BY <2>1, <2>2 DEF Stated
    <3>2. \A l \in 1 .. k : l = k => vals[l] = Unusable
      BY <2>2
    <3>. QED  BY <1>4, <2>1, <2>2, <3>1, <3>2
  <2>3. CASE vals[k] # Unusable
    <3>1. h[1 .. k] = Within(vals[k]) /\ k \in 1 .. k
      BY <2>1, <2>3 DEF Stated
    <3>2. h[1 .. k] \in Int
      BY <1>1, <2>3, <3>1, CandidatePoolAssumption DEF Within
    <3>. QED  BY <2>3, <3>1, <3>2
  <2>. QED  BY <2>2, <2>3
<1>5. Good(n)
  <2>1. SUFFICES ASSUME ~ Good(n)  PROVE FALSE
    OBVIOUS
  <2>. HIDE DEF Good
  <2>2. n \in W /\ 0 \notin W
    BY <1>1, <1>3, <2>1
  <2>3. PICK k \in 1 .. n : k \in W /\ k - 1 \notin W
    <3>. HIDE DEF W
    <3>. QED  BY <1>1, <2>2, FirstStep
  <2>4. ~ Good(k) /\ Good(k - 1)
    BY <1>1, <2>3
  <2>. QED  BY <1>4, <2>4
<1>. QED  BY <1>1, <1>2, <1>5 DEF vals

\* One account after the other is applied, from the profile.
SaidRun(h, profile, said, n) ==
  /\ h[{}] = profile
  /\ \A k \in 1 .. n : h[1 .. k] = Applied(h[1 .. k - 1], said[k])
  /\ FoldLeft(Applied, profile, said) = h[1 .. n]

LEMMA SaidRuns ==
  ASSUME NEW profile \in Int, NEW said, NEW n \in Nat, DOMAIN said = 1 .. n,
         \A i \in 1 .. n : said[i].content.values \in Seq(Int \cup {Unusable})
  PROVE  \E h : SaidRun(h, profile, said, n)
<1>. DEFINE e(g, s) == IF s = {} THEN profile ELSE Applied(g[s \ {Max(s)}], said[Max(s)])
            Runs(g, S) == g = [s \in SUBSET S |-> e(g, s)]
            h == CHOOSE g : Runs(g, 1 .. n)
            f == [p \in (1 .. n) \X Int |-> Applied(p[2], said[p[1]])]
<1>1. FoldLeft(Applied, profile, said) = h[1 .. n]
  <2>1. FoldLeft(Applied, profile, said) = (CHOOSE g : Runs(g, DOMAIN said))[DOMAIN said]
    BY DEF FoldLeft, MapThenFoldSet
  <2>. QED  BY <2>1
<1>2. \A k \in 1 .. n, v \in Int : f[<<k, v>>] = Applied(v, said[k])
  OBVIOUS
<1>3. \A k \in 1 .. n, v \in Int : f[<<k, v>>] \in Int
  BY <1>2, AppliedIs
<1>. HIDE DEF f
<1>4. PICK g : SequenceFold(g, n, Int, profile, f)
  BY <1>3, SequenceFolds
<1>5. Runs(g, 1 .. n)
  <2>1. \A s \in SUBSET (1 .. n) : g[s] = e(g, s)
    BY <1>2, <1>4 DEF SequenceFold
  <2>. HIDE DEF e
  <2>. QED  BY <1>4, <2>1 DEF SequenceFold
<1>6. Runs(h, 1 .. n)
  <2>. HIDE DEF Runs
  <2>. QED  BY <1>5
<1>. HIDE DEF h
<1>7. \A s \in SUBSET (1 .. n) : h[s] = e(h, s)
  <2>. HIDE DEF e
  <2>. QED  BY <1>6
<1>8. h[{}] = profile
  BY <1>7
<1>9. ASSUME NEW k \in 1 .. n
      PROVE  h[1 .. k] = Applied(h[1 .. k - 1], said[k])
  <2>1. /\ (1 .. k) \in SUBSET (1 .. n) /\ 1 .. k # {}
        /\ Max(1 .. k) = k /\ (1 .. k) \ {k} = 1 .. k - 1
    BY TopsPick
  <2>2. h[1 .. k] = e(h, 1 .. k)
    <3>. HIDE DEF e
    <3>. QED  BY <1>7, <2>1
  <2>. QED  BY <2>1, <2>2
<1>. QED  BY <1>1, <1>8, <1>9 DEF SaidRun

\* What is said last of a soldier, and is usable, is what the fold gives.
LEMMA SaidIs ==
  ASSUME NEW profile \in Int, NEW said, NEW n \in Nat, DOMAIN said = 1 .. n,
         \A i \in 1 .. n : said[i].content.values \in Seq(Int \cup {Unusable})
  PROVE  FollowsFrom(FoldLeft(Applied, profile, said), profile, said)
<1>1. PICK h : SaidRun(h, profile, said, n)
  BY SaidRuns
<1>2. /\ h[{}] = profile
      /\ \A k \in 1 .. n : h[1 .. k] = Applied(h[1 .. k - 1], said[k])
      /\ FoldLeft(Applied, profile, said) = h[1 .. n]
  BY <1>1 DEF SaidRun
<1>. DEFINE Vals(i) == said[i].content.values
            Useless(k) == \A j \in DOMAIN Vals(k) : Vals(k)[j] = Unusable
            Counts(k, j, v) ==
              /\ Vals(k)[j] # Unusable /\ v = Within(Vals(k)[j])
              /\ \A l \in DOMAIN Vals(k) : j < l => Vals(k)[l] = Unusable
            Good(k) == /\ h[1 .. k] \in Int
                       /\ \/ h[1 .. k] = profile /\ \A i \in 1 .. k : Useless(i)
                          \/ \E i \in 1 .. k : /\ \E j \in DOMAIN Vals(i) : Counts(i, j, h[1 .. k])
                                              /\ \A m \in 1 .. k : i < m => Useless(m)
            W == {k \in 0 .. n : ~ Good(k)}
<1>3. ASSUME NEW k \in 1 .. n, h[1 .. k - 1] \in Int
      PROVE  /\ h[1 .. k] \in Int
             /\ \/ h[1 .. k] = h[1 .. k - 1] /\ Useless(k)
                \/ \E j \in DOMAIN Vals(k) : Counts(k, j, h[1 .. k])
  <2>1. h[1 .. k] = Applied(h[1 .. k - 1], said[k]) /\ Vals(k) \in Seq(Int \cup {Unusable})
    BY <1>2
  <2>. DEFINE v == h[1 .. k - 1]
              row == said[k]
  <2>2. v \in Int /\ row.content.values \in Seq(Int \cup {Unusable})
    BY <1>3, <2>1
  <2>3. /\ Applied(v, row) \in Int
        /\ \/ Applied(v, row) = v /\ \A j \in DOMAIN row.content.values : row.content.values[j] = Unusable
           \/ \E j \in DOMAIN row.content.values :
                /\ row.content.values[j] # Unusable /\ Applied(v, row) = Within(row.content.values[j])
                /\ \A l \in DOMAIN row.content.values : j < l => row.content.values[l] = Unusable
    <3>. HIDE DEF v, row
    <3>. QED  BY <2>2, AppliedIs
  <2>. QED  BY <2>1, <2>3
<1>. HIDE DEF Vals, Useless, Counts
<1>4. Good(0)
  BY <1>2
<1>5. ASSUME NEW k \in 1 .. n, Good(k - 1)
      PROVE  Good(k)
  <2>1. \A i \in 1 .. k : i = k \/ i \in 1 .. k - 1
    OBVIOUS
  <2>2. h[1 .. k] \in Int
    BY <1>3, <1>5
  <2>3. CASE h[1 .. k] = h[1 .. k - 1] /\ Useless(k)
    <3>1. CASE h[1 .. k - 1] = profile /\ \A i \in 1 .. k - 1 : Useless(i)
      <4>1. \A i \in 1 .. k : Useless(i)
        BY <2>1, <2>3, <3>1
      <4>. QED  BY <2>2, <2>3, <3>1, <4>1
    <3>2. ASSUME NEW i \in 1 .. k - 1, \E j \in DOMAIN Vals(i) : Counts(i, j, h[1 .. k - 1]),
                 \A m \in 1 .. k - 1 : i < m => Useless(m)
          PROVE  Good(k)
      <4>1. \A m \in 1 .. k : i < m => Useless(m)
        BY <2>1, <2>3, <3>2
      <4>. QED  BY <2>2, <2>3, <3>2, <4>1
    <3>. QED  BY <1>5, <3>1, <3>2
  <2>4. CASE \E j \in DOMAIN Vals(k) : Counts(k, j, h[1 .. k])
    <3>1. k \in 1 .. k /\ \A m \in 1 .. k : ~ (k < m)
      OBVIOUS
    <3>. QED  BY <2>2, <2>4, <3>1
  <2>. QED  BY <1>3, <1>5, <2>3, <2>4
<1>6. Good(n)
  <2>1. SUFFICES ASSUME ~ Good(n)  PROVE FALSE
    OBVIOUS
  <2>. HIDE DEF Good
  <2>2. n \in W /\ 0 \notin W
    BY <1>4, <2>1
  <2>3. PICK k \in 1 .. n : k \in W /\ k - 1 \notin W
    <3>. HIDE DEF W
    <3>. QED  BY <2>2, FirstStep
  <2>4. ~ Good(k) /\ Good(k - 1)
    BY <2>3
  <2>. QED  BY <1>5, <2>4
<1>7. CASE h[1 .. n] = profile /\ \A i \in 1 .. n : Useless(i)
  BY <1>2, <1>7 DEF FollowsFrom, Useless, Vals
<1>8. ASSUME NEW i \in 1 .. n, NEW j \in DOMAIN Vals(i), Counts(i, j, h[1 .. n]),
             \A m \in 1 .. n : i < m => Useless(m)
      PROVE  FollowsFrom(h[1 .. n], profile, said)
  <2>1. \A k \in 1 .. n : \A l \in DOMAIN Vals(k) :
          i < k \/ (i = k /\ j < l) => Vals(k)[l] = Unusable
    BY <1>8 DEF Useless, Counts
  <2>2. Vals(i)[j] # Unusable /\ h[1 .. n] = Within(Vals(i)[j])
    BY <1>8 DEF Counts
  <2>3. i \in DOMAIN said /\ DOMAIN said = 1 .. n /\ j \in DOMAIN Vals(i)
    BY <1>8
  <2>. QED  BY ONLY <2>1, <2>2, <2>3, Zenon DEF FollowsFrom, Vals
<1>. QED  BY <1>2, <1>6, <1>7, <1>8

\* A key tells its table.
LEMMA KeyFacts ==
  ASSUME NEW key \in Keys
  PROVE  /\ key[1] = "pool" <=> key = <<"pool">>
         /\ key[1] = "slot" <=> \E r \in Slots : key = <<"slot", r>>
         /\ key[1] = "soldier" <=> \E s \in Soldiers : key = <<"soldier", s>>
         /\ key[1] = "training" <=> \E s \in Soldiers : key = <<"training", s>>
         /\ key[1] = "outcome" <=> \E m \in Missions, s \in Soldiers : key = <<"outcome", m, s>>
         /\ key[1] \in {"pool", "slot", "soldier", "training", "outcome"}
<1>1. \/ key = <<"pool">>
      \/ \E s \in Soldiers : key = <<"soldier", s>>
      \/ \E s \in Soldiers : key = <<"training", s>>
      \/ \E r \in Slots : key = <<"slot", r>>
      \/ \E m \in Missions, s \in Soldiers : key = <<"outcome", m, s>>
  BY DEF Keys
<1>2. CASE key = <<"pool">>
  BY <1>2
<1>3. CASE \E s \in Soldiers : key = <<"soldier", s>>
  BY <1>3
<1>4. CASE \E s \in Soldiers : key = <<"training", s>>
  BY <1>4
<1>5. CASE \E r \in Slots : key = <<"slot", r>>
  BY <1>5
<1>6. CASE \E m \in Missions, s \in Soldiers : key = <<"outcome", m, s>>
  BY <1>6
<1>. QED  BY <1>1, <1>2, <1>3, <1>4, <1>5, <1>6

\* What the rows read hold.
LEMMA GotFacts ==
  ASSUME GotInv, NEW key \in DOMAIN got, got[key].content # Invalid
  PROVE  /\ key \in Keys /\ <<key, got[key]>> \in seen
         /\ key[1] = "pool" => got[key].content \in Seq(Soldiers)
         /\ key[1] = "soldier" => got[key].content \in Int
         /\ key[1] \in {"training", "outcome"} =>
              got[key].content \in Projection
<1>1. key \in Keys /\ <<key, got[key]>> \in seen
  BY DEF GotInv
<1>2. got[key] \in Rows(key, FirstLoad + loads)
  <2>. DEFINE pair == <<key, got[key]>>
  <2>1. pair[1] = key /\ pair[2] = got[key]
    OBVIOUS
  <2>2. pair[2] \in Rows(pair[1], FirstLoad + loads)
    <3>. HIDE DEF pair
    <3>. QED  BY <1>1 DEF pair, GotInv, SeenInv
  <2>. QED  BY <2>1, <2>2
<1>3. got[key].content \in (CASE key[1] = "pool"    -> Seq(Soldiers)
               [] key[1] = "soldier" -> (Lowest .. Highest) \cup {Invalid}
               [] key[1] = "slot"    -> {"role"}
               [] OTHER              -> Projection \cup {Invalid})
  BY <1>2 DEF Rows
<1>4. key[1] = "pool" => got[key].content \in Seq(Soldiers)
  BY <1>3
<1>5. key[1] = "soldier" => got[key].content \in Int
  BY <1>3, CandidatePoolAssumption
<1>6. key[1] \in {"training", "outcome"} => got[key].content \in Projection
  BY <1>3
<1>. QED  BY <1>1, <1>4, <1>5, <1>6

\* A reference with the hash of a row there has been names that row.
LEMMA NamedIs ==
  ASSUME SeenInv, NEW key, NEW row, <<key, row>> \in seen, answer.trace[key] = Hash(row)
  PROVE  IsNamed(key) /\ Named(key) = row
<1>. DEFINE pair == <<key, row>>
            Fits_(p) == p[1] = key /\ Hash(p[2]) = answer.trace[key]
<1>1. pair \in seen /\ Fits_(pair) /\ pair[2] = row /\ pair[1] = key
  OBVIOUS
<1>2. ASSUME NEW p \in seen, Fits_(p)
      PROVE  p = pair
  <2>1. p[2].version = row.version
    BY <1>2 DEF Hash
  <2>2. p[1] = pair[1] /\ p[2].version = pair[2].version
    BY <1>1, <1>2, <2>1
  <2>. HIDE DEF pair
  <2>. QED  BY <1>1, <2>2 DEF SeenInv
<1>. HIDE DEF pair
<1>3. (CHOOSE p \in seen : Fits_(p)) = pair
  BY <1>1, <1>2
<1>. QED  BY <1>1, <1>3 DEF IsNamed, Named

\* What f ++ g has, and where it is f.
LEMMA OverFacts ==
  ASSUME NEW f, NEW g
  PROVE  /\ DOMAIN (f ++ g) = DOMAIN f \cup DOMAIN g
         /\ \A x \in DOMAIN f : (f ++ g)[x] = f[x]
BY DEF ++

\* The candidates of a resolution are those of the pool, with what is told of
\* each.
LEMMA EnlistedFacts ==
  ASSUME GotInv, NEW candidates, Resolution(candidates)
  PROVE  /\ Ids \in Seq(Soldiers) /\ Len(candidates) = Len(Ids) /\ Len(Ids) \in Nat
         /\ candidates # <<>>
         /\ \A i \in 1 .. Len(Ids) : /\ candidates[i].id = Ids[i] /\ Ids[i] \in Range(Ids)
                                     /\ candidates[i].value \in Enriched(Ids[i])
         /\ \A id \in Range(Ids) : id \in Soldiers /\ \E i \in 1 .. Len(Ids) : Ids[i] = id
<1>1. /\ <<"pool">> \in DOMAIN got /\ Ids # <<>>
      /\ got[<<"pool">>].content # Invalid
  BY DEF Resolution
<1>2. Ids \in Seq(Soldiers)
  BY <1>1, GotFacts DEF Ids
<1>3. Len(Ids) \in Nat /\ DOMAIN Ids = 1 .. Len(Ids) /\ Len(Ids) # 0
  BY <1>1, <1>2, EmptySeq, LenProperties
<1>4. \A i \in 1 .. Len(Ids) : Ids[i] \in Range(Ids)
  BY <1>3 DEF Range
<1>5. \A id \in Range(Ids) : id \in Soldiers /\ \E i \in 1 .. Len(Ids) : Ids[i] = id
  BY <1>2, <1>3, ElementOfSeq DEF Range
<1>6. PICK value : /\ candidates = [i \in 1 .. Len(Ids) |-> [id |-> Ids[i], value |-> value[Ids[i]]]]
                   /\ \A id \in Range(Ids) : value[id] \in Enriched(id)
  BY DEF Resolution, Enlisted
<1>7. /\ DOMAIN candidates = 1 .. Len(Ids) /\ Len(candidates) = Len(Ids)
      /\ \A i \in 1 .. Len(Ids) : /\ candidates[i].id = Ids[i]
                                  /\ candidates[i].value = value[Ids[i]]
  BY <1>3, <1>6
<1>8. candidates # <<>>
  BY <1>3, <1>7
<1>9. \A i \in 1 .. Len(Ids) : candidates[i].value \in Enriched(Ids[i])
  BY <1>4, <1>6, <1>7
<1>. QED  BY <1>2, <1>3, <1>4, <1>5, <1>7, <1>8, <1>9

\* What the trace of a resolution refers to.
LEMMA TraceFacts ==
  ASSUME GotInv, NEW candidates, Resolution(candidates)
  PROVE  LET tr == answer.trace
         IN  /\ {key \in DOMAIN tr : key[1] = "slot"} = {<<"slot", r>> : r \in answer.roles}
             /\ \A key \in DOMAIN got : key[1] # "slot" => key \in DOMAIN tr
             /\ \A key \in DOMAIN tr :
                  \/ key \in DOMAIN got /\ tr[key] = Hash(got[key])
                  \/ key[1] = "slot" /\ asked.roles # NotGiven
                  \/ /\ key \notin DOMAIN got /\ tr[key] = Computed("projection")
                     /\ \E k \in DOMAIN got : /\ key = <<"outcome", Here, k[3]>> /\ k[1] = "outcome"
                                              /\ ~ got[k].content.tells
<1>. DEFINE roles == Roles(SlotsRead)
            silent == {key \in DOMAIN got : key[1] = "outcome" /\ ~got[key].content.tells}
            P == [key \in {<<"outcome", Here, key[3]>> : key \in silent} \ DOMAIN got |->
                    Computed("projection")]
            R == [key \in {k \in DOMAIN got : k[1] = "slot" => asked.roles = NotGiven} |->
                    Hash(got[key])]
            ids == {candidates[i].id : i \in 1 .. Len(candidates)}
            Value(id) == (CHOOSE c \in Range(candidates) : c.id = id).value
            B == [key \in {<<"slot", r>> : r \in roles} |-> Computed(key[2])]
            C == IF candidates # <<>> \/ TRUE
                   THEN [key \in {<<"soldier", id>> : id \in ids} |-> Computed(Value(key[2]))]
                   ELSE [key \in {<<"synthetic">>} |-> Computed("seed")]
            D == [key \in (IF asked.pooled THEN {<<"pool">>} ELSE {}) |-> Computed("requested")]
            tr == (((R ++ P) ++ B) ++ C) ++ D
<1>1. answer.trace = tr /\ answer.roles = roles
  BY DEF Resolution, Trace, ResolvedRefs, ProjectionRefs
<1>2. /\ DOMAIN R = {k \in DOMAIN got : k[1] = "slot" => asked.roles = NotGiven}
      /\ \A key \in DOMAIN R : R[key] = Hash(got[key])
  OBVIOUS
<1>3. \A key \in DOMAIN P :
        /\ key \notin DOMAIN got /\ P[key] = Computed("projection")
        /\ \E k \in DOMAIN got : /\ key = <<"outcome", Here, k[3]>> /\ k[1] = "outcome"
                                 /\ ~ got[k].content.tells
  OBVIOUS
<1>4. DOMAIN B = {<<"slot", r>> : r \in roles}
  OBVIOUS
<1>5. DOMAIN C = {<<"soldier", id>> : id \in ids}
  OBVIOUS
<1>6. \A key \in DOMAIN D : key = <<"pool">>
  OBVIOUS
<1>7. \A id \in ids : <<"soldier", id>> \in DOMAIN got
  <2>1. \A i \in 1 .. Len(candidates) : candidates[i].id \in Range(Ids)
    BY EnlistedFacts
  <2>2. \A id \in Range(Ids) : <<"soldier", id>> \in DOMAIN got
    BY DEF Resolution, Found
  <2>. QED  BY <2>1, <2>2
<1>8. <<"pool">> \in DOMAIN got
  BY DEF Resolution
<1>. HIDE DEF R, P, B, C, D, ids, roles
<1>9. (DOMAIN C) \cup DOMAIN D \subseteq DOMAIN R
  <2>1. \A id \in ids : <<"soldier", id>> \in DOMAIN R
    BY <1>2, <1>7
  <2>2. <<"pool">> \in DOMAIN R
    BY <1>2, <1>8
  <2>. QED  BY <1>5, <1>6, <2>1, <2>2
<1>10. /\ DOMAIN tr = (DOMAIN R \cup DOMAIN P) \cup DOMAIN B
       /\ \A key \in DOMAIN R : tr[key] = R[key]
       /\ \A key \in DOMAIN P : key \notin DOMAIN R => tr[key] = P[key]
  <2>. DEFINE E == R ++ P
              F == E ++ B
              G == F ++ C
  <2>1. /\ DOMAIN E = DOMAIN R \cup DOMAIN P
        /\ \A x \in DOMAIN R : E[x] = R[x]
        /\ \A x \in DOMAIN P : x \notin DOMAIN R => E[x] = P[x]
    BY DEF ++
  <2>. HIDE DEF E
  <2>2. DOMAIN F = DOMAIN E \cup DOMAIN B /\ \A x \in DOMAIN E : F[x] = E[x]
    BY OverFacts
  <2>. HIDE DEF F
  <2>3. DOMAIN G = DOMAIN F \cup DOMAIN C /\ \A x \in DOMAIN F : G[x] = F[x]
    BY OverFacts
  <2>. HIDE DEF G
  <2>4. DOMAIN tr = DOMAIN G \cup DOMAIN D /\ \A x \in DOMAIN G : tr[x] = G[x]
    BY OverFacts DEF E, F, G
  <2>. HIDE DEF tr
  <2>5. DOMAIN tr = (DOMAIN R \cup DOMAIN P) \cup DOMAIN B
    BY <1>9, <2>1, <2>2, <2>3, <2>4
  <2>6. ASSUME NEW key \in DOMAIN R  PROVE tr[key] = R[key]
    BY <2>1, <2>2, <2>3, <2>4
  <2>7. ASSUME NEW key \in DOMAIN P, key \notin DOMAIN R  PROVE tr[key] = P[key]
    BY <2>7, <2>1, <2>2, <2>3, <2>4
  <2>. QED  BY <2>5, <2>6, <2>7
<1>11. DOMAIN R \subseteq DOMAIN got /\ DOMAIN got \subseteq Keys
  BY <1>2 DEF GotInv
<1>12. \A key \in DOMAIN R : key[1] = "slot" => \E r \in roles : key = <<"slot", r>>
  <2>. SUFFICES ASSUME NEW key \in DOMAIN R, key[1] = "slot"
                PROVE  \E r \in roles : key = <<"slot", r>>
    OBVIOUS
  <2>1. asked.roles = NotGiven /\ key \in DOMAIN got /\ key \in Keys
    BY <1>2, <1>11
  <2>2. PICK r \in Slots : key = <<"slot", r>>
    BY <2>1, KeyFacts
  <2>3. r \in roles
    BY <2>1, <2>2 DEF roles, Roles, SlotsRead
  <2>. QED  BY <2>2, <2>3
<1>13. {key \in DOMAIN tr : key[1] = "slot"} = {<<"slot", r>> : r \in roles}
  <2>1. \A key \in DOMAIN P : key[1] = "outcome"
    BY <1>3
  <2>2. \A key \in DOMAIN B : key[1] = "slot" /\ \E r \in roles : key = <<"slot", r>>
    BY <1>4
  <2>3. \A r \in roles : <<"slot", r>> \in DOMAIN tr /\ <<"slot", r>>[1] = "slot"
    BY <1>4, <1>10
  <2>4. \A key \in DOMAIN tr : key[1] = "slot" => \E r \in roles : key = <<"slot", r>>
    BY <1>10, <1>12, <2>1, <2>2
  <2>. QED  BY <2>3, <2>4
<1>14. \A key \in DOMAIN got : key[1] # "slot" => key \in DOMAIN tr
  BY <1>2, <1>10
<1>15. ASSUME NEW key \in DOMAIN tr
       PROVE  \/ key \in DOMAIN got /\ tr[key] = Hash(got[key])
              \/ key[1] = "slot" /\ asked.roles # NotGiven
              \/ /\ key \notin DOMAIN got /\ tr[key] = Computed("projection")
                 /\ \E k \in DOMAIN got : /\ key = <<"outcome", Here, k[3]>> /\ k[1] = "outcome"
                                          /\ ~ got[k].content.tells
  <2>1. CASE key \in DOMAIN R
    BY <1>2, <1>10, <1>11, <2>1
  <2>2. CASE key \in DOMAIN P
    BY <1>3, <1>10, <1>11, <2>2
  <2>3. CASE key \in DOMAIN B /\ key \notin DOMAIN R
    <3>1. PICK r \in roles : key = <<"slot", r>>
      BY <1>4, <2>3
    <3>2. key[1] = "slot"
      BY <3>1
    <3>3. CASE asked.roles = NotGiven
      <4>1. r \in SlotsRead
        BY <3>1, <3>3 DEF roles, Roles
      <4>2. key \in DOMAIN R
        BY <1>2, <3>1, <3>3, <4>1 DEF SlotsRead
      <4>. QED  BY <2>3, <4>2
    <3>. QED  BY <3>2, <3>3
  <2>. QED  BY <1>10, <2>1, <2>2, <2>3
<1>. QED  BY <1>1, <1>13, <1>14, <1>15

\* The rows that tell of a soldier, and those among them that tell an outcome.
Training(id) == IF <<"training", id>> \in DOMAIN got THEN <<got[<<"training", id>>]>> ELSE <<>>
Told(id) == {got[key] : key \in OutcomeKeys(id) \cap DOMAIN got}

\* There is an outcome per mission at most.
LEMMA OutcomesAreFinite ==
  ASSUME NEW id
  PROVE  IsFiniteSet(Told(id))
<1>. DEFINE K == OutcomeKeys(id) \cap DOMAIN got
            M == {m \in Missions : <<"outcome", m, id>> \in DOMAIN got}
            f == [m \in M |-> got[<<"outcome", m, id>>]]
<1>1. IsFiniteSet(M)
  BY CandidatePoolAssumption, FS_Subset
<1>2. f \in Surjection(M, Told(id))
  <2>1. \A m \in M : f[m] \in Told(id)
    BY DEF Told, OutcomeKeys
  <2>2. \A row \in Told(id) : \E m \in M : f[m] = row
    BY DEF Told, OutcomeKeys
  <2>. QED  BY <2>1, <2>2 DEF Surjection
<1>. HIDE DEF f, M
<1>. QED  BY <1>1, <1>2, FS_Surjection

\* The value of a candidate is what is said last of it by the rows read.
LEMMA EnrichedIs ==
  ASSUME GotInv, NEW candidates, Resolution(candidates),
         NEW id \in Range(Ids), NEW value \in Enriched(id)
  PROVE  \E said \in Accounts(Training(id), Told(id)) :
           FollowsFrom(value, got[<<"soldier", id>>].content, said)
<1>. DEFINE profile == got[<<"soldier", id>>].content
            ofRow(row) == row.content.values \in Seq(Int \cup {Unusable})
<1>1. PICK said \in Accounts(Training(id), Told(id)) :
        value = FoldLeft(Applied, profile, said)
  BY DEF Enriched, Training, Told
<1>2. PICK o : /\ said = Training(id) \o o
               /\ o \in [1 .. Cardinality(Told(id)) -> Told(id)]
  BY <1>1 DEF Accounts, Bijection, Injection
<1>3. profile \in Int
  <2>1. <<"soldier", id>> \in DOMAIN got
    BY DEF Resolution, Found
  <2>2. got[<<"soldier", id>>].content # Invalid
    BY <2>1 DEF Resolution
  <2>. QED  BY <2>1, <2>2, GotFacts
<1>4. \A key \in DOMAIN got : key[1] \in {"training", "outcome"} => ofRow(got[key])
  <2>. SUFFICES ASSUME NEW key \in DOMAIN got, key[1] \in {"training", "outcome"}
                PROVE  ofRow(got[key])
    OBVIOUS
  <2>1. got[key].content \in Projection
    BY GotFacts DEF Resolution
  <2>. QED  BY <2>1 DEF Projection
<1>5. \A row \in Told(id) : ofRow(row)
  BY <1>4 DEF Told, OutcomeKeys
<1>6. <<"training", id>> \in DOMAIN got => ofRow(got[<<"training", id>>])
  BY <1>4
<1>. HIDE DEF ofRow
<1>. DEFINE c == Cardinality(Told(id))
            t == Len(Training(id))
            n == t + c
<1>7. c \in Nat /\ Len(o) = c /\ DOMAIN o = 1 .. c /\ \A i \in 1 .. c : ofRow(o[i])
  <2>1. c \in Nat
    BY OutcomesAreFinite, FS_CardinalityType
  <2>. QED  BY <1>2, <1>5, <2>1
<1>8. t \in Nat /\ \A i \in 1 .. t : ofRow(Training(id)[i])
  BY <1>6 DEF Training
<1>9. /\ n \in Nat /\ DOMAIN said = 1 .. n
      /\ \A i \in 1 .. n : ofRow(said[i])
  <2>. DEFINE S == Told(id) \cup {got[<<"training", id>>]}
  <2>1. Training(id) \in Seq(S)
    BY SMTT(30) DEF Training
  <2>2. o \in Seq(S)
    <3>1. o \in [1 .. c -> S]
      BY <1>2
    <3>. QED  BY <1>7, <3>1, IsASeq
  <2>. HIDE DEF S
  <2>3. /\ said \in Seq(S) /\ Len(said) = n
        /\ \A i \in 1 .. n : said[i] = IF i <= t THEN Training(id)[i] ELSE o[i - t]
    BY <1>2, <1>7, <2>1, <2>2, ConcatProperties
  <2>4. n \in Nat /\ DOMAIN said = 1 .. n
    BY <1>7, <1>8, <2>3, LenProperties
  <2>5. ASSUME NEW i \in 1 .. n
        PROVE  ofRow(said[i])
    <3>1. CASE i <= t
      BY <1>8, <2>3, <3>1
    <3>2. CASE ~ (i <= t)
      <4>1. i - t \in 1 .. c
        BY <1>7, <1>8, <3>2
      <4>. QED  BY <1>7, <2>3, <3>2, <4>1
    <3>. QED  BY <3>1, <3>2
  <2>. QED  BY <2>4, <2>5
<1>10. FollowsFrom(FoldLeft(Applied, profile, said), profile, said)
  <2>1. \A i \in 1 .. n : said[i].content.values \in Seq(Int \cup {Unusable})
    BY <1>9 DEF ofRow
  <2>. HIDE DEF n, profile
  <2>. QED  BY <1>3, <1>9, <2>1, SaidIs
<1>. QED  BY <1>1, <1>10

\* The rows the trace names are those that were read.
LEMMA TracedIs ==
  ASSUME GotInv, NEW candidates, Resolution(candidates), NEW id \in Range(Ids)
  PROVE  Traced(id) = Accounts(Training(id), Told(id))
<1>. DEFINE tr == answer.trace
<1>1. /\ \A key \in DOMAIN got : key[1] # "slot" => key \in DOMAIN tr
      /\ \A key \in DOMAIN tr :
           \/ key \in DOMAIN got /\ tr[key] = Hash(got[key])
           \/ key[1] = "slot" /\ asked.roles # NotGiven
           \/ /\ key \notin DOMAIN got /\ tr[key] = Computed("projection")
              /\ \E k \in DOMAIN got : key = <<"outcome", Here, k[3]>>
  BY TraceFacts
<1>2. ASSUME NEW key \in DOMAIN got, key[1] # "slot"
      PROVE  key \in DOMAIN tr /\ IsNamed(key) /\ Named(key) = got[key]
  <2>1. key \in DOMAIN tr /\ tr[key] = Hash(got[key])
    BY <1>1, <1>2
  <2>2. SeenInv /\ <<key, got[key]>> \in seen
    BY DEF GotInv
  <2>. QED  BY <2>1, <2>2, NamedIs
<1>3. ASSUME NEW key \in DOMAIN tr, key[1] = "outcome", IsNamed(key)
      PROVE  key \in DOMAIN got
  <2>1. \A v, w : Hash(v) # Computed(w)
    BY DEF Hash, Computed
  <2>. QED  BY <1>1, <1>3, <2>1 DEF IsNamed
<1>4. Cites(<<"training", id>>) <=> <<"training", id>> \in DOMAIN got
  BY <1>1 DEF Cites
<1>5. (IF Cites(<<"training", id>>) THEN <<Named(<<"training", id>>)>> ELSE <<>>) = Training(id)
  BY <1>2, <1>4 DEF Training
<1>6. {k \in OutcomeKeys(id) \cap DOMAIN tr : IsNamed(k)} = OutcomeKeys(id) \cap DOMAIN got
  <2>1. \A k \in OutcomeKeys(id) : k[1] = "outcome"
    BY DEF OutcomeKeys
  <2>. QED  BY <1>2, <1>3, <2>1
<1>7. {Named(key) : key \in {k \in OutcomeKeys(id) \cap DOMAIN tr : IsNamed(k)}} = Told(id)
  <2>1. \A k \in OutcomeKeys(id) : k[1] = "outcome"
    BY DEF OutcomeKeys
  <2>. QED  BY <1>2, <1>6, <2>1 DEF Told
<1>. QED  BY <1>5, <1>7 DEF Traced

\* What is read is named by the trace, and the candidates follow from it.
LEMMA ResolutionIsTraced ==
  ASSUME GotInv, NEW candidates, Resolution(candidates)
  PROVE  AnswerIsTraced
<1>. DEFINE tr == answer.trace
<1>1. /\ {key \in DOMAIN tr : key[1] = "slot"} = {<<"slot", r>> : r \in answer.roles}
      /\ \A key \in DOMAIN got : key[1] # "slot" => key \in DOMAIN tr
      /\ \A key \in DOMAIN tr :
           \/ key \in DOMAIN got /\ tr[key] = Hash(got[key])
           \/ key[1] = "slot" /\ asked.roles # NotGiven
           \/ /\ key \notin DOMAIN got /\ tr[key] = Computed("projection")
              /\ \E k \in DOMAIN got : /\ key = <<"outcome", Here, k[3]>> /\ k[1] = "outcome"
                                       /\ ~ got[k].content.tells
  BY TraceFacts
<1>2. /\ answer.candidates = candidates /\ answer.resolved
      /\ SeenInv /\ DOMAIN got \subseteq Keys
  BY DEF Resolution, GotInv
<1>3. ASSUME NEW key \in DOMAIN got, tr[key] = Hash(got[key])
      PROVE  IsNamed(key) /\ Named(key) = got[key]
  BY <1>2, <1>3, NamedIs DEF GotInv
<1>4. ASSUME NEW key \in DOMAIN got, key[1] # "slot"
      PROVE  tr[key] = Hash(got[key]) /\ Named(key) = got[key]
  BY <1>1, <1>3, <1>4
<1>5. ASSUME NEW key \in DOMAIN tr
      PROVE  \/ IsNamed(key)
             \/ key[1] = "slot" /\ asked.roles # NotGiven
             \/ \E pair \in seen : /\ key = <<"outcome", Here, pair[1][Len(pair[1])]>>
                                   /\ pair[1][1] = "outcome" /\ pair[2].content # Invalid
                                   /\ ~pair[2].content.tells
  <2>1. CASE key \in DOMAIN got /\ tr[key] = Hash(got[key])
    BY <1>3, <2>1
  <2>2. ASSUME NEW k \in DOMAIN got, key = <<"outcome", Here, k[3]>>, k[1] = "outcome",
               ~ got[k].content.tells
        PROVE  \E pair \in seen : /\ key = <<"outcome", Here, pair[1][Len(pair[1])]>>
                                  /\ pair[1][1] = "outcome" /\ pair[2].content # Invalid
                                  /\ ~pair[2].content.tells
    <3>1. \E m \in Missions, s \in Soldiers : k = <<"outcome", m, s>>
      BY <1>2, <2>2, KeyFacts
    <3>2. Len(k) = 3
      BY <3>1
    <3>3. <<k, got[k]>> \in seen /\ got[k].content # Invalid
      BY DEF GotInv, Resolution
    <3>. DEFINE pair == <<k, got[k]>>
    <3>4. pair \in seen /\ pair[1] = k /\ pair[2] = got[k]
      BY <3>3
    <3>. HIDE DEF pair
    <3>. QED  BY <2>2, <3>2, <3>3, <3>4
  <2>. QED  BY <1>1, <2>1, <2>2
<1>6. /\ Ids \in Seq(Soldiers) /\ Len(candidates) = Len(Ids) /\ Len(Ids) \in Nat
      /\ candidates # <<>>
      /\ \A i \in 1 .. Len(Ids) : /\ candidates[i].id = Ids[i] /\ Ids[i] \in Range(Ids)
                                  /\ candidates[i].value \in Enriched(Ids[i])
  BY EnlistedFacts
<1>7. Named(<<"pool">>).content = Ids
  BY <1>4 DEF Resolution, Ids
<1>8. [i \in 1 .. Len(candidates) |-> candidates[i].id] = Ids
  <2>1. Ids = [i \in 1 .. Len(Ids) |-> Ids[i]]
    BY <1>6
  <2>. QED  BY <1>6, <2>1
<1>9. ASSUME NEW i \in 1 .. Len(candidates)
      PROVE  LET id == candidates[i].id
             IN  \E said \in Traced(id) :
                   FollowsFrom(candidates[i].value, Named(<<"soldier", id>>).content, said)
  <2>. DEFINE id == candidates[i].id
              value == candidates[i].value
  <2>1. id \in Range(Ids) /\ value \in Enriched(id)
    BY <1>6
  <2>. HIDE DEF id, value
  <2>2. PICK said \in Accounts(Training(id), Told(id)) :
          FollowsFrom(value, got[<<"soldier", id>>].content, said)
    BY <2>1, EnrichedIs
  <2>3. said \in Traced(id)
    BY <2>1, <2>2, TracedIs
  <2>4. Named(<<"soldier", id>>) = got[<<"soldier", id>>]
    BY <1>4, <2>1 DEF Resolution, Found
  <2>. QED  BY <2>2, <2>3, <2>4 DEF id, value
<1>10. ~ Cites(<<"synthetic">>)
  <2>1. SUFFICES ASSUME <<"synthetic">> \in DOMAIN tr  PROVE FALSE
    BY DEF Cites
  <2>2. <<"synthetic">> \in DOMAIN got
    BY <1>1, <2>1
  <2>. QED  BY <1>2, <2>2, KeyFacts
<1>. QED  BY <1>1, <1>2, <1>5, <1>6, <1>7, <1>8, <1>9, <1>10 DEF AnswerIsTraced

\* The trace of a score without a pool.
LEMMA UnresolvedIsTraced ==
  ASSUME Unresolved
  PROVE  AnswerIsTraced
<1>. DEFINE candidates == answer.candidates
            roles == answer.roles
            ids == {candidates[i].id : i \in 1 .. Len(candidates)}
            Value(id) == (CHOOSE c \in Range(candidates) : c.id = id).value
            A == <<>>
            B == [key \in {<<"slot", r>> : r \in roles} |-> Computed(key[2])]
            C == IF candidates # <<>> \/ FALSE
                   THEN [key \in {<<"soldier", id>> : id \in ids} |-> Computed(Value(key[2]))]
                   ELSE [key \in {<<"synthetic">>} |-> Computed("seed")]
            D == [key \in (IF asked.pooled THEN {<<"pool">>} ELSE {}) |-> Computed("requested")]
            tr == ((A ++ B) ++ C) ++ D
<1>1. /\ answer.trace = tr /\ answer.roles = roles /\ answer.candidates = candidates
      /\ answer.resolved = FALSE
  BY DEF Unresolved, Trace
<1>2. DOMAIN A = {} /\ DOMAIN B = {<<"slot", r>> : r \in roles}
  OBVIOUS
<1>3. /\ candidates # <<>> => \A key \in DOMAIN C : \E id \in ids : key = <<"soldier", id>>
      /\ candidates = <<>> => DOMAIN C = {<<"synthetic">>}
  OBVIOUS
<1>4. \A key \in DOMAIN D : key = <<"pool">>
  OBVIOUS
<1>. HIDE DEF A, B, C, D, ids, candidates, roles
<1>5. DOMAIN tr = (DOMAIN B \cup DOMAIN C) \cup DOMAIN D
  <2>. DEFINE F == A ++ B
              G == F ++ C
  <2>1. DOMAIN F = DOMAIN B
    <3>1. DOMAIN F = DOMAIN A \cup DOMAIN B
      BY OverFacts
    <3>. QED  BY <1>2, <3>1
  <2>. HIDE DEF F
  <2>2. DOMAIN G = DOMAIN F \cup DOMAIN C
    BY OverFacts
  <2>. HIDE DEF G
  <2>3. DOMAIN tr = DOMAIN G \cup DOMAIN D
    BY OverFacts DEF F, G
  <2>. QED  BY <2>1, <2>2, <2>3
<1>6. /\ \A key \in DOMAIN B : key[1] = "slot"
      /\ \A key \in DOMAIN C : key[1] # "slot" /\ (key = <<"synthetic">> <=> candidates = <<>>)
      /\ candidates = <<>> => <<"synthetic">> \in DOMAIN C
      /\ \A key \in DOMAIN D : key[1] # "slot" /\ key # <<"synthetic">>
  <2>1. \A key \in DOMAIN C : key[1] # "slot" /\ (key = <<"synthetic">> <=> candidates = <<>>)
    <3>1. CASE candidates = <<>>
      BY <1>3, <3>1
    <3>2. ASSUME candidates # <<>>, NEW key \in DOMAIN C
          PROVE  key[1] # "slot" /\ key # <<"synthetic">>
      <4>1. PICK id \in ids : key = <<"soldier", id>>
        BY <1>3, <3>2
      <4>. QED  BY <4>1
    <3>. QED  BY <3>1, <3>2
  <2>2. \A key \in DOMAIN D : key[1] # "slot" /\ key # <<"synthetic">>
    BY <1>4
  <2>3. \A key \in DOMAIN B : key[1] = "slot"
    BY <1>2
  <2>. QED  BY <1>3, <2>1, <2>2, <2>3
<1>. HIDE DEF tr
<1>7. {key \in DOMAIN tr : key[1] = "slot"} = {<<"slot", r>> : r \in roles}
  BY <1>2, <1>5, <1>6
<1>8. candidates = <<>> <=> <<"synthetic">> \in DOMAIN tr
  <2>1. <<"synthetic">> \notin DOMAIN B
    BY <1>6
  <2>. QED  BY <1>5, <1>6, <2>1
<1>. QED  BY <1>1, <1>7, <1>8 DEF AnswerIsTraced, Cites

-----------------------------------------------------------------------------

\* The soldiers of a pool that was read.
LEMMA IdsFacts ==
  ASSUME GotInv, <<"pool">> \in DOMAIN got
  PROVE  Range(Ids) \subseteq Soldiers
<1>. DEFINE key == <<"pool">>
            pair == <<key, got[key]>>
<1>1. pair \in seen /\ pair[1] = key /\ pair[2] = got[key] /\ key[1] = "pool"
  BY DEF GotInv
<1>2. got[key] \in Rows(key, FirstLoad + loads)
  <2>. HIDE DEF pair
  <2>. QED  BY <1>1 DEF GotInv, SeenInv
<1>3. Ids \in Seq(Soldiers)
  BY <1>1, <1>2 DEF Rows, Ids
<1>. QED  BY <1>3, ElementOfSeq, LenProperties DEF Range

\* A row that may be there may be there later.
LEMMA RowsGrow ==
  ASSUME NEW key, NEW n \in Nat, NEW m \in Nat, n <= m
  PROVE  Rows(key, n) \subseteq Rows(key, m)
<1>. DEFINE C == CASE key[1] = "pool"    -> Seq(Soldiers)
                   [] key[1] = "soldier" -> (Lowest .. Highest) \cup {Invalid}
                   [] key[1] = "slot"    -> {"role"}
                   [] OTHER              -> Projection \cup {Invalid}
<1>1. Rows(key, n) = [version : 0 .. n - 1, content : C]
  BY DEF Rows
<1>2. Rows(key, m) = [version : 0 .. m - 1, content : C]
  BY DEF Rows
<1>. HIDE DEF C
<1>3. 0 .. n - 1 \subseteq 0 .. m - 1
  OBVIOUS
<1>. QED  BY <1>1, <1>2, <1>3

\* A row that is written has the next version.
LEMMA NewRow ==
  ASSUME NEW key, NEW content \in Contents(key), NEW n \in Nat
  PROVE  [version |-> n, content |-> content] \in Rows(key, n + 1)
<1>. DEFINE C == CASE key[1] = "pool"    -> Seq(Soldiers)
                   [] key[1] = "soldier" -> (Lowest .. Highest) \cup {Invalid}
                   [] key[1] = "slot"    -> {"role"}
                   [] OTHER              -> Projection \cup {Invalid}
<1>1. Rows(key, n + 1) = [version : 0 .. (n + 1) - 1, content : C]
  BY DEF Rows
<1>2. content \in C
  BY CandidatePoolAssumption DEF Contents
<1>. HIDE DEF C
<1>3. n \in 0 .. (n + 1) - 1
  OBVIOUS
<1>. QED  BY <1>1, <1>2, <1>3

\* At first there are the rows found, and nothing is read or answered.
LEMMA PoolInitInv == PoolInit => PoolInv
<1>. SUFFICES ASSUME PoolInit  PROVE PoolInv
  OBVIOUS
<1>1. /\ reading = "received" /\ asked \in Asks /\ rows \in Stores /\ got = <<>>
      /\ loads = 0 /\ seen = Present(rows)
  BY DEF PoolInit
<1>2. DOMAIN rows = Keys /\ \A key \in Keys : rows[key] = NoRow \/ rows[key] \in Rows(key, FirstLoad)
  BY <1>1, CandidatePoolAssumption
<1>3. FirstLoad + loads = FirstLoad /\ loads \in Nat
  BY <1>1 DEF FirstLoad
<1>4. \A pair \in seen : \E key \in Keys : /\ pair = <<key, rows[key]>> /\ pair[1] = key
                                           /\ pair[2] = rows[key] /\ rows[key] # NoRow
  BY <1>1 DEF Present
<1>5. SeenInv
  <2>1. \A pair \in seen : /\ pair = <<pair[1], pair[2]>> /\ pair[1] \in Keys
                           /\ pair[2] \in Rows(pair[1], FirstLoad + loads)
    BY <1>2, <1>3, <1>4
  <2>2. \A p, q \in seen : p[1] = q[1] => p = q
    BY <1>4
  <2>. QED  BY <2>1, <2>2 DEF SeenInv
<1>6. DOMAIN got = {}
  BY <1>1
<1>. QED  BY <1>1, <1>2, <1>3, <1>5, <1>6 DEF PoolInv, GotInv

\* A row that is read is one there has been.
LEMMA ReadKeeps ==
  ASSUME GotInv, NEW keys, keys \subseteq Keys, NEW next, Read(keys, next), next # "answered",
         next \in {"soldiers", "slots", "training", "outcomes", "resolving"} =>
           <<"pool">> \in DOMAIN got' /\ Ids' # <<>>
  PROVE  PoolInv'
<1>. DEFINE new == [key \in {k \in keys : rows[k] # NoRow} |-> rows[key]]
<1>1. /\ got' = new ++ got /\ reading' = next
      /\ UNCHANGED <<asked, rows, answer, loads, seen>>
  BY DEF Read
<1>2. /\ \A key \in DOMAIN got' : \/ key \in DOMAIN got /\ got'[key] = got[key]
                                  \/ key \in keys /\ rows[key] # NoRow /\ got'[key] = rows[key]
  BY <1>1 DEF ++
<1>3. \A key \in DOMAIN got' : key \in Keys /\ <<key, got'[key]>> \in seen
  <2>1. \A key \in Keys : rows[key] # NoRow => <<key, rows[key]>> \in seen
    BY DEF GotInv, Present
  <2>. QED  BY <1>2, <2>1 DEF GotInv
<1>4. SeenInv'
  BY <1>1 DEF GotInv, SeenInv
<1>5. GotInv'
  BY <1>1, <1>3, <1>4 DEF GotInv, Present
<1>. QED  BY <1>1, <1>5 DEF PoolInv

\* The pool stays what it is while the rest is read.
LEMMA PoolStays ==
  ASSUME <<"pool">> \in DOMAIN got, Ids # <<>>, NEW keys, <<"pool">> \notin keys, NEW next,
         Read(keys, next)
  PROVE  <<"pool">> \in DOMAIN got' /\ Ids' # <<>>
<1>1. got' = [key \in {k \in keys : rows[k] # NoRow} |-> rows[key]] ++ got
  BY DEF Read
<1>2. <<"pool">> \in DOMAIN got' /\ got'[<<"pool">>] = got[<<"pool">>]
  BY <1>1 DEF ++
<1>. QED  BY <1>2 DEF Ids

\* A load adds rows whose versions are new.
LEMMA LoadKeeps ==
  ASSUME PoolInv, Load
  PROVE  PoolInv'
<1>1. /\ reading # "answered" /\ loads' = loads + 1 /\ seen' = seen \cup Present(rows')
      /\ UNCHANGED <<reading, asked, got, answer>>
  BY DEF Load
<1>2. PICK key \in Keys :
        \/ rows' = [rows EXCEPT ![key] = NoRow]
        \/ \E content \in Contents(key) :
             rows' = [rows EXCEPT ![key] = [version |-> FirstLoad + loads, content |-> content]]
  BY DEF Load
<1>. DEFINE n == FirstLoad + loads
<1>3. /\ loads \in Nat /\ SeenInv /\ DOMAIN rows = Keys /\ Present(rows) \subseteq seen
      /\ n \in Nat /\ n + 1 = (FirstLoad + loads')
  BY <1>1 DEF PoolInv, GotInv, FirstLoad
<1>4. DOMAIN rows' = Keys
  BY <1>2, <1>3
<1>5. \A k \in Keys : k # key => rows'[k] = rows[k]
  BY <1>2, <1>3
<1>6. rows'[key] # NoRow => rows'[key].version = n /\ rows'[key] \in Rows(key, n + 1)
  <2>1. CASE rows' = [rows EXCEPT ![key] = NoRow]
    BY <1>3, <2>1
  <2>2. ASSUME NEW content \in Contents(key),
               rows' = [rows EXCEPT ![key] = [version |-> n, content |-> content]]
        PROVE  rows'[key].version = n /\ rows'[key] \in Rows(key, n + 1)
    <3>1. rows'[key] = [version |-> n, content |-> content]
      BY <1>3, <2>2
    <3>. HIDE DEF n
    <3>. QED  BY <1>3, <3>1, NewRow
  <2>. QED  BY <1>2, <2>1, <2>2
<1>7. \A pair \in seen : /\ pair = <<pair[1], pair[2]>> /\ pair[1] \in Keys
                         /\ pair[2] \in Rows(pair[1], n) /\ pair[2].version \in 0 .. n - 1
  <2>1. \A pair \in seen : /\ pair = <<pair[1], pair[2]>> /\ pair[1] \in Keys
                           /\ pair[2] \in Rows(pair[1], n)
    BY <1>3 DEF SeenInv
  <2>2. \A k : \A row \in Rows(k, n) : row.version \in 0 .. n - 1
    BY DEF Rows
  <2>. QED  BY <2>1, <2>2
<1>. HIDE DEF n
<1>. DEFINE new == <<key, rows'[key]>>
<1>8. new = <<new[1], new[2]>> /\ new[1] = key /\ new[2] = rows'[key]
  OBVIOUS
<1>9. \A pair \in seen' : pair \in seen \/ (pair = new /\ rows'[key] # NoRow)
  <2>. SUFFICES ASSUME NEW pair \in Present(rows')
                PROVE  pair \in seen \/ (pair = new /\ rows'[key] # NoRow)
    BY <1>1
  <2>1. PICK k \in Keys : rows'[k] # NoRow /\ pair = <<k, rows'[k]>>
    BY DEF Present
  <2>2. CASE k = key
    BY <2>1, <2>2
  <2>3. CASE k # key
    <3>1. <<k, rows[k]>> \in Present(rows)
      BY <1>5, <2>1, <2>3 DEF Present
    <3>. QED  BY <1>3, <1>5, <2>1, <2>3, <3>1
  <2>. QED  BY <2>2, <2>3
<1>10. SeenInv'
  <2>. HIDE DEF new
  <2>1. \A k : Rows(k, n) \subseteq Rows(k, n + 1)
    BY <1>3, RowsGrow
  <2>2. \A pair \in seen' : /\ pair = <<pair[1], pair[2]>> /\ pair[1] \in Keys
                            /\ pair[2] \in Rows(pair[1], n + 1)
    BY <1>6, <1>7, <1>8, <1>9, <2>1
  <2>3. ASSUME NEW p \in seen', NEW q \in seen', p[1] = q[1], p[2].version = q[2].version
        PROVE  p = q
    <3>1. CASE p \in seen /\ q \in seen
      BY <1>3, <2>3, <3>1 DEF SeenInv
    <3>2. CASE p \in seen /\ q = new /\ rows'[key] # NoRow
      BY <1>3, <1>6, <1>7, <1>8, <2>3, <3>2
    <3>3. CASE q \in seen /\ p = new /\ rows'[key] # NoRow
      BY <1>3, <1>6, <1>7, <1>8, <2>3, <3>3
    <3>. QED  BY <1>9, <3>1, <3>2, <3>3
  <2>. QED  BY <1>3, <2>2, <2>3 DEF SeenInv
<1>11. GotInv'
  <2>1. /\ asked' \in Asks /\ loads' \in Nat /\ DOMAIN got' \subseteq Keys
        /\ \A k \in DOMAIN got' : <<k, got'[k]>> \in seen'
        /\ reading' \in {"soldiers", "slots", "training", "outcomes", "resolving"} =>
             <<"pool">> \in DOMAIN got' /\ Ids' # <<>>
    BY <1>1 DEF PoolInv, GotInv, Ids
  <2>2. Present(rows') \subseteq seen'
    BY <1>1
  <2>. QED  BY <1>4, <1>10, <2>1, <2>2 DEF GotInv, Present
<1>. QED  BY <1>1, <1>11 DEF PoolInv

\* What is neither read nor loaded leaves the rows as they are.
LEMMA RestKeeps ==
  ASSUME GotInv, UNCHANGED <<asked, rows, got, loads, seen>>,
         reading' = reading \/ reading' \in {"raised", "answered"}
  PROVE  GotInv'
<1>1. SeenInv'
  BY DEF GotInv, SeenInv
<1>. QED  BY <1>1 DEF GotInv, Present, Ids

\* What a resolution comes to depends on the request and on the rows read.
LEMMA SameResolution ==
  ASSUME UNCHANGED <<asked, got>>, NEW candidates
  PROVE  /\ Ids' = Ids /\ SlotsRead' = SlotsRead
         /\ \A id : Found(id)' <=> Found(id)
         /\ Enlisted(Ids)' = Enlisted(Ids)
         /\ Roles(SlotsRead)' = Roles(SlotsRead)
         /\ Trace(candidates, Roles(SlotsRead), TRUE, ResolvedRefs)'
              = Trace(candidates, Roles(SlotsRead), TRUE, ResolvedRefs)
<1>1. /\ Ids' = Ids /\ SlotsRead' = SlotsRead /\ ResolvedRefs' = ResolvedRefs
      /\ \A id : Found(id)' <=> Found(id)
  BY DEF Ids, SlotsRead, ResolvedRefs, ProjectionRefs, Found
<1>2. Enlisted(Ids)' = Enlisted(Ids)
  BY <1>1 DEF Enlisted, Enriched
<1>3. Roles(SlotsRead)' = Roles(SlotsRead)
  BY <1>1 DEF Roles
<1>4. Trace(candidates, Roles(SlotsRead), TRUE, ResolvedRefs)'
        = Trace(candidates, Roles(SlotsRead), TRUE, ResolvedRefs)
  BY <1>1, <1>3 DEF Trace
<1>. QED  BY <1>1, <1>2, <1>3, <1>4

LEMMA PoolStep == PoolInv /\ [PoolNext]_poolVars => PoolInv'
<1>. SUFFICES ASSUME PoolInv, [PoolNext]_poolVars  PROVE PoolInv'
  OBVIOUS
<1>. USE DEF PoolInv
<1>1. ASSUME NEW candidates, NEW roles, Return(candidates, roles, FALSE, <<>>),
             UNCHANGED <<asked, rows, got, loads, seen>>
      PROVE  PoolInv'
  <2>1. answer' = [candidates |-> candidates, roles |-> roles, resolved |-> FALSE,
                   trace |-> Trace(candidates, roles, FALSE, <<>>)']
    BY <1>1 DEF Return, Trace
  <2>2. answer'.candidates = candidates /\ answer'.roles = roles
    BY <2>1
  <2>3. Unresolved'
    BY <2>1, <2>2 DEF Unresolved
  <2>. QED  BY <1>1, <2>3, RestKeeps DEF Return
<1>2. ASSUME Raise, UNCHANGED <<asked, rows, got, loads, seen>>
      PROVE  PoolInv'
  BY <1>2, RestKeeps DEF Raise
<1>3. CASE ScoreGiven
  <2>1. \/ Raise
        \/ Return(asked.candidates, Roles(DefaultSlots), FALSE, <<>>)
    BY <1>3 DEF ScoreGiven, Score
  <2>2. UNCHANGED <<asked, rows, got, loads, seen>>
    BY <1>3 DEF ScoreGiven
  <2>. QED  BY <1>1, <1>2, <2>1, <2>2
<1>4. CASE ScoreGenerated
  <2>1. Raise \/ Return(<<>>, Roles(DefaultSlots), FALSE, <<>>)
    BY <1>4 DEF ScoreGenerated
  <2>2. UNCHANGED <<asked, rows, got, loads, seen>>
    BY <1>4 DEF ScoreGenerated
  <2>. QED  BY <1>1, <1>2, <2>1, <2>2
<1>5. CASE ReadPool
  <2>. DEFINE row == rows[<<"pool">>]
              next == IF row = NoRow THEN "raised" ELSE IF row.content = <<>> THEN "raised"
                      ELSE "soldiers"
  <2>1. Read({<<"pool">>}, next) /\ reading = "received"
    BY <1>5 DEF ReadPool
  <2>2. {<<"pool">>} \subseteq Keys
    BY DEF Keys
  <2>3. next = "soldiers" => <<"pool">> \in DOMAIN got' /\ Ids' # <<>>
    <3>. SUFFICES ASSUME next = "soldiers"  PROVE <<"pool">> \in DOMAIN got' /\ Ids' # <<>>
      OBVIOUS
    <3>1. row # NoRow /\ row.content # <<>>
      OBVIOUS
    <3>2. got' = [key \in {k \in {<<"pool">>} : rows[k] # NoRow} |-> rows[key]] ++ got
      BY <2>1 DEF Read
    <3>3. <<"pool">> \in DOMAIN got' /\ got'[<<"pool">>] = row
      BY <3>1, <3>2 DEF ++
    <3>. QED  BY <3>1, <3>3 DEF Ids
  <2>4. next \in {"raised", "soldiers"}
    OBVIOUS
  <2>. HIDE DEF next
  <2>. QED  BY <2>1, <2>2, <2>3, <2>4, ReadKeeps
<1>6. ASSUME reading \in {"soldiers", "slots", "training", "outcomes"},
             NEW keys, keys \subseteq Keys, <<"pool">> \notin keys,
             NEW next \in {"slots", "training", "outcomes", "resolving"}, Read(keys, next)
      PROVE  PoolInv'
  <2>1. <<"pool">> \in DOMAIN got /\ Ids # <<>>
    BY <1>6 DEF GotInv
  <2>2. <<"pool">> \in DOMAIN got' /\ Ids' # <<>>
    BY <1>6, <2>1, PoolStays
  <2>. QED  BY <1>6, <2>2, ReadKeeps
<1>7. reading \in {"soldiers", "training", "outcomes"} => Range(Ids) \subseteq Soldiers
  BY IdsFacts DEF GotInv
<1>8. CASE ReadSoldiers
  <2>. DEFINE keys == {<<"soldier", id>> : id \in Range(Ids)}
  <2>1. keys \subseteq Keys /\ <<"pool">> \notin keys
    BY <1>7, <1>8 DEF ReadSoldiers, Keys
  <2>2. reading = "soldiers" /\ Read(keys, "slots")
    BY <1>8 DEF ReadSoldiers
  <2>. HIDE DEF keys
  <2>. QED  BY <1>6, <2>1, <2>2
<1>9. CASE ReadSlots
  <2>. DEFINE keys == {<<"slot", r>> : r \in Slots}
  <2>1. keys \subseteq Keys /\ <<"pool">> \notin keys
    BY DEF Keys
  <2>2. reading = "slots" /\ Read(keys, "training")
    BY <1>9 DEF ReadSlots
  <2>. HIDE DEF keys
  <2>. QED  BY <1>6, <2>1, <2>2
<1>10. CASE ReadTraining
  <2>. DEFINE keys == {<<"training", id>> : id \in Range(Ids)}
  <2>1. keys \subseteq Keys /\ <<"pool">> \notin keys
    BY <1>7, <1>10 DEF ReadTraining, Keys
  <2>2. reading = "training" /\ Read(keys, "outcomes")
    BY <1>10 DEF ReadTraining
  <2>. HIDE DEF keys
  <2>. QED  BY <1>6, <2>1, <2>2
<1>11. CASE ReadOutcomes
  <2>. DEFINE keys == {<<"outcome", m, id>> : m \in Missions, id \in Range(Ids)}
  <2>1. keys \subseteq Keys /\ <<"pool">> \notin keys
    BY <1>7, <1>11 DEF ReadOutcomes, Keys
  <2>2. reading = "outcomes" /\ Read(keys, "resolving")
    BY <1>11 DEF ReadOutcomes
  <2>. HIDE DEF keys
  <2>. QED  BY <1>6, <2>1, <2>2
<1>12. CASE Resolve
  <2>1. UNCHANGED <<asked, rows, got, loads, seen>> /\ reading = "resolving"
    BY <1>12 DEF Resolve
  <2>2. CASE ~ Raise
    <3>1. /\ \A id \in Range(Ids) : Found(id)
          /\ \A key \in DOMAIN got : got[key].content # Invalid
      BY <1>12, <2>2 DEF Resolve
    <3>2. PICK candidates \in Enlisted(Ids) : Score(candidates, Roles(SlotsRead), TRUE, ResolvedRefs)
      BY <1>12, <2>2 DEF Resolve
    <3>3. /\ reading' = "answered"
          /\ answer' = [candidates |-> candidates, roles |-> Roles(SlotsRead), resolved |-> TRUE,
                        trace |-> Trace(candidates, Roles(SlotsRead), TRUE, ResolvedRefs)]
      BY <2>2, <3>2 DEF Score, Return
    <3>4. <<"pool">> \in DOMAIN got /\ Ids # <<>>
      BY <2>1 DEF GotInv
    <3>5. UNCHANGED <<asked, got>>
      BY <2>1
    <3>6. /\ Ids' = Ids /\ SlotsRead' = SlotsRead
          /\ \A id : Found(id)' <=> Found(id)
          /\ Enlisted(Ids)' = Enlisted(Ids)
          /\ Roles(SlotsRead)' = Roles(SlotsRead)
          /\ Trace(candidates, Roles(SlotsRead), TRUE, ResolvedRefs)'
               = Trace(candidates, Roles(SlotsRead), TRUE, ResolvedRefs)
      BY <3>5, SameResolution
    <3>7. answer'.candidates = candidates
      BY <3>3
    <3>8. Resolution(answer.candidates)'
      BY <3>1, <3>2, <3>3, <3>4, <3>5, <3>6, <3>7 DEF Resolution
    <3>. QED  BY <2>1, <3>3, <3>8, RestKeeps
  <2>. QED  BY <1>2, <2>1, <2>2
<1>13. CASE Load
  BY <1>13, LoadKeeps
<1>14. CASE UNCHANGED poolVars
  <2>1. UNCHANGED <<reading, asked, rows, got, answer, loads, seen>>
    BY <1>14 DEF poolVars
  <2>2. Unresolved' <=> Unresolved
    BY <2>1 DEF Unresolved, Trace
  <2>3. Resolution(answer.candidates)' <=> Resolution(answer.candidates)
    <3>. DEFINE c == answer.candidates
    <3>1. c' = c
      BY <2>1
    <3>2. /\ Ids' = Ids /\ SlotsRead' = SlotsRead
          /\ \A id : Found(id)' <=> Found(id)
          /\ Enlisted(Ids)' = Enlisted(Ids)
          /\ Roles(SlotsRead)' = Roles(SlotsRead)
          /\ Trace(c, Roles(SlotsRead), TRUE, ResolvedRefs)'
               = Trace(c, Roles(SlotsRead), TRUE, ResolvedRefs)
      BY <2>1, SameResolution
    <3>. QED  BY <2>1, <3>1, <3>2 DEF Resolution
  <2>. QED  BY <2>1, <2>2, <2>3, RestKeeps
<1>. QED  BY <1>3, <1>4, <1>5, <1>8, <1>9, <1>10, <1>11, <1>12, <1>13, <1>14 DEF PoolNext

\* SelectionService._resolve_inputs(): whatever the other application writes
\* between the reads, the trace of a score names one version of every row that
\* its candidates and their values follow from.
THEOREM AnswersAreTraced == PoolSpec => []AnswerIsTraced
<1>1. PoolInv => AnswerIsTraced
  BY UnresolvedIsTraced, ResolutionIsTraced DEF PoolInv, AnswerIsTraced
<1>. QED  BY PoolInitInv, PoolStep, <1>1, PTL DEF PoolSpec
=============================================================================
