------------------------- MODULE AdaptationsProofs -------------------------
(***************************************************************************)
(* For any approvals and any evidence: that an adaptation is directed at   *)
(* nearly the weakest skill; that tighter constraints and more pressure    *)
(* let no inject through that was blocked, nor have milder guidance        *)
(* given; that only allowed injects are decided on; and that, while        *)
(* approvals take turns, the ledgers tell the status.                      *)
(***************************************************************************)
EXTENDS Adaptations, TLAPS

-----------------------------------------------------------------------------
(* Direction.                                                              *)

LEMMA SkillsAre ==
  /\ Len(Skills) = 6 /\ DOMAIN Skills = 1 .. 6
  /\ Range(Skills) \subseteq Dimensions
  /\ \A i \in 1 .. 6 : Skills[i] \in Range(Skills)
<1>1. Len(Skills) = 6 /\ DOMAIN Skills = 1 .. 6
  BY DEF Skills
<1>. QED  BY <1>1 DEF Range, Dimensions

LEMMA ScoresAreNumbers == \A x \in 0 .. 100 : x \in Nat
OBVIOUS

\* What an estimate of a dimension is made of.
LEMMA EstimatesAre ==
  ASSUME NEW evidence \in Evidences, NEW d \in Dimensions
  PROVE  /\ Len(evidence[d]) \in Nat
         /\ CurrentScore(evidence[d]) \in Nat /\ CurrentScore(evidence[d]) \in 0 .. 100
         /\ DevelopmentPriority(evidence[d]) \in Int
<1>1. evidence[d] \in Seq(0 .. 100)
  BY AdaptationAssumption
<1>2. Len(evidence[d]) \in Nat /\ CurrentScore(evidence[d]) \in 0 .. 100
  BY <1>1, EstimateAssumption
<1>. DEFINE c == CurrentScore(evidence[d])
            n == Len(evidence[d])
<1>3. DevelopmentPriority(evidence[d]) = (100 - c) * 82 + Least(n, 4) * 400
  BY DEF DevelopmentPriority
<1>4. c \in Nat /\ n \in Nat
  BY <1>2, ScoresAreNumbers, Zenon
<1>. HIDE DEF c, n
<1>5. DevelopmentPriority(evidence[d]) \in Int
  BY <1>3, <1>4 DEF Least
<1>. QED  BY <1>2, <1>4, <1>5 DEF c, n

\* max() finds one of the skills: of the first n there is one that leads.
LEMMA PrimaryLeads ==
  ASSUME NEW evidence \in Evidences
  PROVE  /\ PrimaryDimension(evidence) \in Range(Skills)
         /\ \A skill \in Range(Skills) :
              DevelopmentPriority(evidence[PrimaryDimension(evidence)])
                >= DevelopmentPriority(evidence[skill])
<1>. DEFINE priority(i) == DevelopmentPriority(evidence[Skills[i]])
            Leads(i, j) == LET p == priority(i)
                               q == priority(j)
                           IN  p > q \/ (p = q /\ i <= j)
            First(n) == \E i \in 1 .. n : \A j \in 1 .. n : Leads(i, j)
            leader == CHOOSE i \in 1 .. Len(Skills) : \A j \in 1 .. Len(Skills) : Leads(i, j)
<1>1. \A i \in 1 .. 6 : priority(i) \in Int
  BY SkillsAre, EstimatesAre
<1>2. PrimaryDimension(evidence) = Skills[leader]
  BY DEF PrimaryDimension
<1>. HIDE DEF priority
<1>3. ASSUME NEW n \in 1 .. 5, First(n)
      PROVE  First(n + 1)
  <2>1. PICK i \in 1 .. n : \A j \in 1 .. n : Leads(i, j)
    BY <1>3
  <2>2. priority(i) \in Int /\ priority(n + 1) \in Int /\ \A j \in 1 .. n : priority(j) \in Int
    BY <1>1
  <2>3. CASE priority(i) >= priority(n + 1)
    BY <2>1, <2>2, <2>3
  <2>4. CASE priority(i) < priority(n + 1)
    <3>1. \A j \in 1 .. n + 1 : Leads(n + 1, j)
      BY <2>1, <2>2, <2>4
    <3>. QED  BY <3>1
  <2>. QED  BY <2>2, <2>3, <2>4
<1>4. First(1)
  BY <1>1
<1>. HIDE DEF First
<1>5. First(6)
  <2>1. First(2)
    BY <1>3, <1>4
  <2>2. First(3)
    BY <1>3, <2>1
  <2>3. First(4)
    BY <1>3, <2>2
  <2>4. First(5)
    BY <1>3, <2>3
  <2>. QED  BY <1>3, <2>4
<1>6. leader \in 1 .. 6 /\ \A j \in 1 .. 6 : Leads(leader, j)
  BY <1>5, SkillsAre DEF First
<1>. HIDE DEF leader
<1>7. \A j \in 1 .. 6 : priority(leader) >= priority(j)
  BY <1>1, <1>6
<1>8. \A skill \in Range(Skills) : \E j \in 1 .. 6 : skill = Skills[j]
  BY SkillsAre DEF Range
<1>. QED  BY <1>2, <1>6, <1>7, <1>8, SkillsAre DEF priority

LEMMA PressureIs ==
  ASSUME NEW evidence \in Evidences
  PROVE  Pressure(evidence) \in 0 .. 100
<1>1. /\ CurrentScore(evidence["sleep_fatigue"]) \in 0 .. 100
      /\ CurrentScore(evidence["cognitive_load"]) \in 0 .. 100
  BY EstimatesAre DEF Dimensions
<1>. QED  BY <1>1 DEF Pressure, Least

\* A priority is worth no more than four pieces of evidence above another.
LEMMA LeaderIsNearlyWeakest ==
  ASSUME NEW evidence \in Evidences, NEW d \in Dimensions, NEW e \in Dimensions,
         DevelopmentPriority(evidence[d]) >= DevelopmentPriority(evidence[e])
  PROVE  /\ CurrentScore(evidence[d]) < CurrentScore(evidence[e]) + 20
         /\ \/ CurrentScore(evidence[d]) <= CurrentScore(evidence[e])
            \/ Len(evidence[d]) > Len(evidence[e])
<1>. DEFINE c == CurrentScore(evidence[d])
            m == Len(evidence[d])
            b == CurrentScore(evidence[e])
            n == Len(evidence[e])
<1>. evidence[d] \in Seq(0 .. 100) /\ evidence[e] \in Seq(0 .. 100)
  BY AdaptationAssumption
<1>1. /\ (100 - c) * 82 + Least(m, 4) * 400 >= (100 - b) * 82 + Least(n, 4) * 400
      /\ c \in Nat /\ b \in Nat /\ m \in Nat /\ n \in Nat
  BY EstimatesAre, ZenonT(40) DEF DevelopmentPriority
<1>. HIDE DEF c, m, b, n
<1>2. c < b + 20 /\ (c <= b \/ m > n)
  BY <1>1 DEF Least
<1>. QED  BY <1>2 DEF c, m, b, n

\* The risks of an inject grow with the pressure.
LEMMA RisksGrow ==
  ASSUME NEW inject \in InjectTypes, NEW p \in Nat, NEW q \in Nat, p >= q
  PROVE  /\ SafetyRisk(inject, p) \in Nat /\ SafetyRisk(inject, q) \in Nat
         /\ SafetyRisk(inject, p) >= SafetyRisk(inject, q)
         /\ FatigueRisk(inject, p) \in Nat /\ FatigueRisk(inject, q) \in Nat
         /\ FatigueRisk(inject, p) >= FatigueRisk(inject, q)
<1>1. BaseRisk[inject] \in Nat
  BY DEF BaseRisk, InjectTypes
<1>2. /\ SafetyRisk(inject, p) \in Nat /\ SafetyRisk(inject, q) \in Nat
      /\ SafetyRisk(inject, p) >= SafetyRisk(inject, q)
  BY <1>1 DEF SafetyRisk
<1>3. /\ FatigueRisk(inject, p) \in Nat /\ FatigueRisk(inject, q) \in Nat
      /\ FatigueRisk(inject, p) >= FatigueRisk(inject, q)
  BY DEF FatigueRisk, Bounded
<1>. QED  BY <1>2, <1>3

LEMMA RiskGrows ==
  ASSUME NEW inject \in InjectTypes, NEW p \in Nat, NEW q \in Nat, p >= q
  PROVE  /\ RiskLevel(inject, p) \in 0 .. 2 /\ RiskLevel(inject, q) \in 0 .. 2
         /\ RiskLevel(inject, p) >= RiskLevel(inject, q)
BY RisksGrow DEF RiskLevel, Greatest

LEMMA InjectRiskGrows ==
  ASSUME NEW inject \in InjectTypes, NEW p \in Nat, NEW q \in Nat, p >= q
  PROVE  /\ InjectRisk(inject, p) \in Nat /\ InjectRisk(inject, q) \in Nat
         /\ InjectRisk(inject, p) >= InjectRisk(inject, q)
BY RisksGrow DEF InjectRisk, Greatest

\* Under a tighter constraint and under more pressure, the auditor lets through
\* no inject that it blocks otherwise: docs/architecture.md has it block what
\* exceeds the limits.
LEMMA TighterConstraintsAllowLess ==
  ASSUME NEW skill, NEW p \in Nat, NEW q \in Nat, p >= q,
         NEW c \in Constraint, NEW d \in Constraint, Tighter(c, d)
  PROVE  Allowed(skill, p, c) \subseteq Allowed(skill, q, d)
<1>. SUFFICES ASSUME NEW inject \in InjectTypes, PassesAudit(inject, skill, p, c)
              PROVE  PassesAudit(inject, skill, q, d)
  BY DEF Allowed
<1>1. RiskLevel(inject, q) <= d.maxRisk
  BY RiskGrows DEF PassesAudit, Tighter, Constraint
<1>2. inject \notin d.blocked /\ (d.stress \/ ~ ChangesTerrain(inject, skill))
  BY DEF PassesAudit, Tighter, Constraint
<1>. QED  BY <1>1, <1>2 DEF PassesAudit

-----------------------------------------------------------------------------
(* The advice.                                                             *)

LEMMA OneIs == DQ!One = 100000
BY DEF DQ!One

LEMMA RoundedGrows ==
  ASSUME NEW x \in Int, NEW y \in Int, x <= y
  PROVE  /\ DQ!Rounded(x) \in Int /\ DQ!Rounded(y) \in Int
         /\ DQ!Rounded(x) <= DQ!Rounded(y)
<1>1. (x + 50) \div 100 <= (y + 50) \div 100
  OBVIOUS
<1>2. (x + 50) \div 100 \in Int /\ (y + 50) \div 100 \in Int
  OBVIOUS
<1>. QED  BY <1>1, <1>2 DEF DQ!Rounded

\* The guidance gets no milder with more doubt or more reasons to escalate.
LEMMA CareGrows ==
  ASSUME NEW context, NEW evidence \in Int,
         NEW u \in Int, NEW v \in Int, u <= v,
         NEW a \in BOOLEAN, NEW b \in BOOLEAN, a => b
  PROVE  Care(DQ!Quality(context, evidence, v, b)) >= Care(DQ!Quality(context, evidence, u, a))
<1>. DEFINE q == DQ!Quality(context, evidence, u, a)
            r == DQ!Quality(context, evidence, v, b)
            escalates(doubt, alarmed) ==
              \/ alarmed
              \/ context.reversibility = "irreversible" /\ doubt >= 45000
              \/ context.impact = "high" /\ evidence < 50000
            reviews(doubt) ==
              \/ evidence < 62000 \/ doubt > 42000
              \/ DQ!FramingCompleteness(context) < 72000
<1>1. /\ q.readiness = IF escalates(u, a) THEN "escalate" ELSE IF reviews(u) THEN "review" ELSE "ready"
      /\ r.readiness = IF escalates(v, b) THEN "escalate" ELSE IF reviews(v) THEN "review" ELSE "ready"
      /\ q.evidence = r.evidence
      /\ q.uncertainty = DQ!Rounded(DQ!Clamped(0, DQ!One, u))
      /\ r.uncertainty = DQ!Rounded(DQ!Clamped(0, DQ!One, v))
  BY DEF DQ!Quality
<1>2. (escalates(u, a) => escalates(v, b)) /\ (reviews(u) => reviews(v))
  OBVIOUS
<1>3. /\ q.uncertainty \in Int /\ r.uncertainty \in Int
      /\ q.uncertainty <= r.uncertainty
  <2>. DEFINE x == DQ!Clamped(0, DQ!One, u)
              y == DQ!Clamped(0, DQ!One, v)
  <2>1. x \in Int /\ y \in Int /\ x <= y
    BY OneIs DEF DQ!Clamped
  <2>. HIDE DEF x, y
  <2>2. DQ!Rounded(x) \in Int /\ DQ!Rounded(y) \in Int /\ DQ!Rounded(x) <= DQ!Rounded(y)
    BY <2>1, RoundedGrows
  <2>. QED  BY <1>1, <2>2 DEF x, y
<1>. HIDE DEF q, r, escalates, reviews
<1>4. \A p : Care(p) = IF p.readiness = "escalate" THEN 3
                       ELSE IF p.evidence < 55000 \/ p.uncertainty > 45000 THEN 2
                       ELSE IF p.readiness = "review" THEN 1 ELSE 0
  BY DEF Care, DQ!RelianceGuidance
<1>5. Care(r) >= Care(q)
  BY <1>1, <1>2, <1>3, <1>4
<1>. QED  BY <1>5 DEF q, r

\* An option is worth no more for less benefit and more harm.
LEMMA WorthFalls ==
  ASSUME NEW context \in DQ!DecisionContext,
         NEW b \in Int, NEW c \in Int, c <= b,
         NEW h \in Int, NEW k \in Int, h <= k
  PROVE  /\ DQ!NetUtility(context, c, k) \in Int /\ DQ!NetUtility(context, b, h) \in Int
         /\ DQ!NetUtility(context, c, k) <= DQ!NetUtility(context, b, h)
<1>. DEFINE impact == DQ!ImpactCost[context.impact]
            delay == DQ!DelayCost[context.pressure]
            cost(harm) == DQ!FalsePositiveCost(context, harm)
            worth(benefit, harm) ==
              (100 * benefit - 55 * harm - 20 * cost(harm) - 15 * delay) \div 100
<1>1. impact \in Int /\ delay \in Int
  BY DEF DQ!ImpactCost, DQ!DelayCost, DQ!DecisionContext
<1>. HIDE DEF impact, delay
<1>2. cost(h) \in Int /\ cost(k) \in Int /\ cost(h) <= cost(k)
  <2>1. /\ cost(h) = (70 * h + 30 * impact) \div 100
        /\ cost(k) = (70 * k + 30 * impact) \div 100
    BY DEF DQ!FalsePositiveCost, impact
  <2>. QED  BY <1>1, <2>1
<1>. HIDE DEF cost
<1>3. worth(c, k) \in Int /\ worth(b, h) \in Int /\ worth(c, k) <= worth(b, h)
  BY <1>1, <1>2
<1>4. /\ DQ!NetUtility(context, c, k)
           = DQ!Rounded(DQ!Clamped(-DQ!One, DQ!One, worth(c, k)))
      /\ DQ!NetUtility(context, b, h)
           = DQ!Rounded(DQ!Clamped(-DQ!One, DQ!One, worth(b, h)))
  BY DEF DQ!NetUtility, cost, delay
<1>. HIDE DEF worth
<1>. DEFINE x == DQ!Clamped(-DQ!One, DQ!One, worth(c, k))
            y == DQ!Clamped(-DQ!One, DQ!One, worth(b, h))
<1>5. x \in Int /\ y \in Int /\ x <= y
  BY <1>3, OneIs DEF DQ!Clamped
<1>. HIDE DEF x, y
<1>6. DQ!Rounded(x) \in Int /\ DQ!Rounded(y) \in Int /\ DQ!Rounded(x) <= DQ!Rounded(y)
  BY <1>5, RoundedGrows
<1>. QED  BY <1>4, <1>6 DEF x, y

LEMMA BenefitFalls ==
  ASSUME NEW A \in SUBSET InjectTypes, NEW B \in SUBSET InjectTypes, A \subseteq B
  PROVE  WholeBenefit(A) \in Nat /\ WholeBenefit(B) \in Nat /\ WholeBenefit(A) <= WholeBenefit(B)
BY DEF WholeBenefit

\* What is said under a tighter constraint and more pressure.
LEMMA CautionGrows ==
  ASSUME NEW req \in Request, NEW p \in Nat, NEW q \in Nat, p >= q,
         NEW c \in Constraint, NEW d \in Constraint, Tighter(c, d)
  PROVE  RelaxesNothing(Said(req, p, c), Said(req, q, d))
<1>. DEFINE skill == PrimaryDimension(req.evidence)
            count == Len(req.evidence[skill])
            other == Allowed(skill, p, c)
            said == Allowed(skill, q, d)
            framing == req.framing
<1>1. /\ req.gated \in BOOLEAN /\ framing \in Framing
      /\ req.evidence \in [Dimensions -> Seq(0 .. 100)] /\ skill \in Dimensions
  BY AdaptationAssumption, PrimaryLeads, SkillsAre DEF Request
<1>2. count \in Nat /\ framing.context \in DQ!DecisionContext /\ framing.pieces \in Nat
  BY <1>1 DEF Framing
<1>3. other \subseteq said /\ said \subseteq InjectTypes
  BY TighterConstraintsAllowLess DEF Allowed
<1>. HIDE DEF skill, count, other, said, framing
<1>4. ConfidenceScore(count) \in {35, 65, 90}
  BY DEF ConfidenceScore
<1>5. InjectEvidence(count) \in Int /\ WholeEvidence(framing, count) \in Int
  BY <1>2, <1>4 DEF InjectEvidence, WholeEvidence, Least
<1>6. ASSUME NEW inject \in InjectTypes
      PROVE  /\ Care(InjectQuality(framing, req.gated, count, InjectRisk(inject, p), inject \notin other))
                  >= Care(InjectQuality(framing, req.gated, count, InjectRisk(inject, q), inject \notin said))
             /\ InjectUtility(framing, inject, p) <= InjectUtility(framing, inject, q)
  <2>1. /\ InjectRisk(inject, p) \in Nat /\ InjectRisk(inject, q) \in Nat
        /\ InjectRisk(inject, q) <= InjectRisk(inject, p)
    BY InjectRiskGrows
  <2>. DEFINE doubt(risk) == 700 * (100 - ConfidenceScore(count)) + 300 * risk
              alarmed(risk, blocked) ==
                blocked \/ risk >= 72 \/ InjectEvidence(count) < 45000 \/ ~req.gated
  <2>2. /\ doubt(InjectRisk(inject, p)) \in Int /\ doubt(InjectRisk(inject, q)) \in Int
        /\ doubt(InjectRisk(inject, q)) <= doubt(InjectRisk(inject, p))
    BY <1>4, <2>1
  <2>3. /\ alarmed(InjectRisk(inject, p), inject \notin other) \in BOOLEAN
        /\ alarmed(InjectRisk(inject, q), inject \notin said) \in BOOLEAN
        /\ alarmed(InjectRisk(inject, q), inject \notin said)
             => alarmed(InjectRisk(inject, p), inject \notin other)
    BY <1>3, <2>1
  <2>. HIDE DEF doubt, alarmed
  <2>4. Care(DQ!Quality(framing.context, InjectEvidence(count), doubt(InjectRisk(inject, p)),
                        alarmed(InjectRisk(inject, p), inject \notin other)))
          >= Care(DQ!Quality(framing.context, InjectEvidence(count), doubt(InjectRisk(inject, q)),
                             alarmed(InjectRisk(inject, q), inject \notin said)))
    BY <1>5, <2>2, <2>3, CareGrows
  <2>. DEFINE gain == 1000 * Greatest(LearningGain[inject], TransferValue[inject])
  <2>5. gain \in Int
    BY DEF Greatest, LearningGain, TransferValue, InjectTypes
  <2>. HIDE DEF gain
  <2>6. DQ!NetUtility(framing.context, gain, 1000 * InjectRisk(inject, p))
          <= DQ!NetUtility(framing.context, gain, 1000 * InjectRisk(inject, q))
    BY <1>2, <2>1, <2>5, WorthFalls
  <2>. QED  BY <2>4, <2>6 DEF InjectQuality, InjectUtility, doubt, alarmed, gain
<1>7. /\ WholeRisk(p) \in Nat /\ WholeRisk(q) \in Nat /\ WholeRisk(q) <= WholeRisk(p)
  BY InjectRiskGrows DEF WholeRisk, InjectTypes
<1>8. Care(WholeQuality(framing, req.gated, count, p, other))
        >= Care(WholeQuality(framing, req.gated, count, q, said))
  <2>. DEFINE u == WholeUncertainty(count, p, other)
              v == WholeUncertainty(count, q, said)
              a == WholeEscalates(framing, req.gated, count, p, other)
              b == WholeEscalates(framing, req.gated, count, q, said)
  <2>1. other = InjectTypes => said = InjectTypes
    BY <1>3
  <2>2. u \in Int /\ v \in Int /\ v <= u
    BY <1>4, <1>7, <2>1 DEF WholeUncertainty
  <2>3. a \in BOOLEAN /\ b \in BOOLEAN /\ (b => a)
    BY <1>7, <2>1 DEF WholeEscalates
  <2>. HIDE DEF a, b, u, v
  <2>4. Care(DQ!Quality(framing.context, WholeEvidence(framing, count), u, a))
          >= Care(DQ!Quality(framing.context, WholeEvidence(framing, count), v, b))
    BY <1>5, <2>2, <2>3, CareGrows
  <2>. QED  BY <2>4 DEF WholeQuality, a, b, u, v
<1>9. WholeUtility(framing, p, other) <= WholeUtility(framing, q, said)
  <2>1. /\ 1000 * WholeBenefit(other) \in Int /\ 1000 * WholeBenefit(said) \in Int
        /\ 1000 * WholeBenefit(other) <= 1000 * WholeBenefit(said)
    BY <1>3, BenefitFalls
  <2>. QED  BY <1>2, <1>7, <2>1, WorthFalls DEF WholeUtility
<1>. QED  BY <1>3, <1>6, <1>8, <1>9
          DEF RelaxesNothing, Said, skill, count, other, said, framing

-----------------------------------------------------------------------------
(* Types.                                                                  *)

\* An update is Boolean although mishap is noted by a disjunction.
LEMMA NoteIsBoolean ==
  ASSUME NEW happens, Note(happens)
  PROVE  mishap' \in BOOLEAN
BY DEF Note

LEMMA SaveTypes ==
  ASSUME TypeOK, NEW c \in Callers, NEW new \in Adaptation, Save(c, new)
  PROVE  /\ adaptation' \in Adaptation \cup {None}
         /\ pc' \in [Callers -> Points]
         /\ mishap' \in BOOLEAN
<1>1. PICK o \in Outcomes : /\ adaptation' = Effect(o, adaptation, new)
                           /\ Moves(c, Reply(o, "saved", "raised"))
                           /\ Note(c \in Approvers /\ o # "ok")
  BY DEF Save
<1>2. adaptation' \in Adaptation \cup {None}
  BY <1>1 DEF Effect, TypeOK
<1>3. pc' \in [Callers -> Points]
  BY <1>1 DEF Moves, Reply, TypeOK, Points, InFlight
<1>4. mishap' \in BOOLEAN
  BY <1>1, NoteIsBoolean
<1>. QED  BY <1>2, <1>3, <1>4

LEMMA DirectedIsAdaptation ==
  ASSUME NEW req \in Request
  PROVE  Directed(req) \in Adaptation
<1>1. \A skill, pressure, c : Allowed(skill, pressure, c) \subseteq InjectTypes
  BY DEF Allowed
<1>. HIDE DEF Allowed
<1>2. req.gated \in BOOLEAN
  BY DEF Request
<1>3. (IF req.gated THEN "pending_approval" ELSE "completed")
         \in {"pending_approval", "completed", "rejected"}
  OBVIOUS
<1>. QED  BY <1>1, <1>2, <1>3 DEF Directed, Adaptation

\* The copy an approval saves.
LEMMA DecidedIsAdaptation ==
  ASSUME NEW ad \in Adaptation, NEW decision
  PROVE  LET new == [ad EXCEPT !.status = DecidedStatus(decision)]
         IN  /\ new \in Adaptation
             /\ new.status = DecidedStatus(decision)
             /\ new.gated = ad.gated /\ new.allowed = ad.allowed
BY DEF Adaptation, DecidedStatus

\* Each step keeps the types.
LEMMA TypesKept ==
  ASSUME TypeOK, CallsHold, [Next]_vars
  PROVE  TypeOK'
<1>. USE DEF Callers
<1>1. CASE Adapt
  <2>1. pc' \in [Callers -> Points]
    BY <1>1 DEF Adapt, Moves, TypeOK, Points, InFlight
  <2>. QED  BY <1>1, <2>1 DEF Adapt, TypeOK
<1>2. CASE SaveAdaptation
  <2>1. request \in Request \/ request = None
    BY DEF TypeOK
  <2>2. request \in Request
    BY <1>2, <2>1 DEF SaveAdaptation, CallsHold
  <2>. QED  BY <1>2, <2>2, SaveTypes, DirectedIsAdaptation DEF SaveAdaptation, TypeOK
<1>3. CASE FailToRetrieve
  <2>1. pc' \in [Callers -> Points]
    BY <1>3 DEF FailToRetrieve, Moves, TypeOK, Points
  <2>. QED  BY <1>3, <2>1 DEF FailToRetrieve, TypeOK
<1>4. ASSUME NEW a \in Approvers, ReadForApproval(a)
      PROVE  TypeOK'
  <2>1. CASE /\ adaptation # None
             /\ \E ask \in Decision : asked' = [asked EXCEPT ![a] = ask]
             /\ seen' = [seen EXCEPT ![a] = adaptation]
             /\ Moves(a, "read")
             /\ Note(\E b \in Approvers : pc[b] \in InFlight)
    <3>1. asked' \in [Approvers -> Decision \cup {None}]
      BY <2>1 DEF TypeOK
    <3>2. seen' \in [Approvers -> Adaptation \cup {None}]
      BY <2>1 DEF TypeOK
    <3>3. pc' \in [Callers -> Points]
      BY <2>1 DEF Moves, TypeOK, Points, InFlight
    <3>4. mishap' \in BOOLEAN
      BY <2>1, NoteIsBoolean
    <3>. QED  BY <1>4, <3>1, <3>2, <3>3, <3>4 DEF ReadForApproval, TypeOK
  <2>2. CASE /\ Moves(a, IF adaptation = None THEN "refused" ELSE "raised")
             /\ UNCHANGED <<seen, asked, mishap>>
    <3>1. pc' \in [Callers -> Points]
      BY <2>2 DEF Moves, TypeOK, Points
    <3>. QED  BY <1>4, <2>2, <3>1 DEF ReadForApproval, TypeOK
  <2>. QED  BY <1>4, <2>1, <2>2 DEF ReadForApproval
<1>5. ASSUME NEW a \in Approvers, RefuseApproval(a)
      PROVE  TypeOK'
  <2>1. pc' \in [Callers -> Points]
    BY <1>5 DEF RefuseApproval, Moves, TypeOK, Points
  <2>. QED  BY <1>5, <2>1 DEF RefuseApproval, TypeOK
<1>6. ASSUME NEW a \in Approvers, SaveApproval(a)
      PROVE  TypeOK'
  <2>1. seen[a] \in Adaptation
    BY <1>6 DEF SaveApproval, CallsHold, TypeOK
  <2>. QED  BY <1>6, <2>1, SaveTypes, DecidedIsAdaptation DEF SaveApproval, TypeOK
<1>7. ASSUME NEW c \in Callers, AppendAudit(c)
      PROVE  TypeOK'
  <2>1. PICK o \in Outcomes : /\ audited' = Effect(o, audited, Append(audited, c))
                             /\ Moves(c, Reply(o, "audited", "raised"))
                             /\ Note(c \in Approvers /\ o # "ok")
    BY <1>7 DEF AppendAudit
  <2>2. audited' \in Seq(Callers)
    BY <2>1 DEF Effect, TypeOK
  <2>3. pc' \in [Callers -> Points]
    BY <2>1 DEF Moves, Reply, TypeOK, Points, InFlight
  <2>4. mishap' \in BOOLEAN
    BY <2>1, NoteIsBoolean
  <2>. QED  BY <1>7, <2>2, <2>3, <2>4 DEF AppendAudit, TypeOK
<1>8. ASSUME NEW c \in Callers, AppendEvent(c)
      PROVE  TypeOK'
  <2>1. PICK o \in Outcomes : /\ events' = Effect(o, events, Append(events, c))
                             /\ Moves(c, Reply(o, "done", "raised"))
                             /\ Note(c \in Approvers /\ o # "ok")
    BY <1>8 DEF AppendEvent
  <2>2. events' \in Seq(Callers)
    BY <2>1 DEF Effect, TypeOK
  <2>3. pc' \in [Callers -> Points]
    BY <2>1 DEF Moves, Reply, TypeOK, Points, InFlight
  <2>4. mishap' \in BOOLEAN
    BY <2>1, NoteIsBoolean
  <2>. QED  BY <1>8, <2>2, <2>3, <2>4 DEF AppendEvent, TypeOK
<1>9. CASE Crash
  <2>1. pc' \in [Callers -> Points]
    BY <1>9 DEF Crash, TypeOK, Points
  <2>2. mishap' \in BOOLEAN
    BY <1>9, NoteIsBoolean DEF Crash
  <2>. QED  BY <1>9, <2>1, <2>2 DEF Crash, TypeOK
<1>10. CASE UNCHANGED vars
  BY <1>10 DEF vars, TypeOK
<1>. QED
  BY <1>1, <1>2, <1>3, <1>4, <1>5, <1>6, <1>7, <1>8, <1>9, <1>10 DEF Next

-----------------------------------------------------------------------------
(* Decisions.                                                              *)

\* What an approval saves is the adaptation but for the status.
LEMMA ApprovalKeepsContent ==
  ASSUME TypeOK, CallsHold, NEW a \in Approvers, SaveApproval(a)
  PROVE  /\ adaptation # None /\ adaptation' # None
         /\ adaptation'.gated = adaptation.gated
         /\ adaptation'.allowed = adaptation.allowed
         /\ \/ adaptation' = adaptation
            \/ adaptation'.status = DecidedStatus(asked[a].decision)
         /\ pc' = [pc EXCEPT ![a] = "saved"] \/ pc' = [pc EXCEPT ![a] = "raised"]
<1>. DEFINE new == [seen[a] EXCEPT !.status = DecidedStatus(asked[a].decision)]
<1>1. /\ seen[a] \in Adaptation /\ adaptation # None
      /\ seen[a].gated = adaptation.gated /\ seen[a].allowed = adaptation.allowed
  BY DEF SaveApproval, CallsHold, TypeOK
<1>2. /\ new \in Adaptation
      /\ new.status = DecidedStatus(asked[a].decision)
      /\ new.gated = adaptation.gated /\ new.allowed = adaptation.allowed
  BY <1>1, DecidedIsAdaptation
<1>3. Save(a, new)
  BY DEF SaveApproval
<1>4. adaptation' = adaptation \/ adaptation' = new
  BY <1>3 DEF Save, Effect
<1>5. pc' = [pc EXCEPT ![a] = "saved"] \/ pc' = [pc EXCEPT ![a] = "raised"]
  BY <1>3 DEF Save, Moves, Reply
<1>. HIDE DEF new
<1>. QED  BY <1>1, <1>2, <1>4, <1>5, NoneAssumption

\* What a step does to the adaptation, and to the calls.
LEMMA StepKeeps ==
  ASSUME TypeOK, CallsHold, [Next]_vars
  PROVE  /\ adaptation # None => /\ adaptation' # None
                                 /\ adaptation'.gated = adaptation.gated
                                 /\ adaptation'.allowed = adaptation.allowed
         /\ \A a \in Approvers : asked'[a] = asked[a] \/ pc[a] = "idle"
         /\ \A a \in Approvers :
              pc'[a] \in {"idle", "read", "refused"} => pc[a] \in {"idle", "read", "refused"}
<1>. USE DEF Callers
<1>. DEFINE Kept == /\ adaptation # None => /\ adaptation' # None
                                            /\ adaptation'.gated = adaptation.gated
                                            /\ adaptation'.allowed = adaptation.allowed
                    /\ \A a \in Approvers : asked'[a] = asked[a] \/ pc[a] = "idle"
                    /\ \A a \in Approvers :
                         pc'[a] \in {"idle", "read", "refused"}
                           => pc[a] \in {"idle", "read", "refused"}
<1>1. CASE Adapt
  BY <1>1, AdaptationAssumption DEF Adapt, Moves, TypeOK
<1>2. CASE SaveAdaptation
  BY <1>2, AdaptationAssumption DEF SaveAdaptation, Save, Moves, TypeOK, CallsHold
<1>3. CASE FailToRetrieve
  BY <1>3, AdaptationAssumption DEF FailToRetrieve, Moves, TypeOK
<1>4. ASSUME NEW a \in Approvers, ReadForApproval(a)
      PROVE  Kept
  BY <1>4 DEF ReadForApproval, Moves, TypeOK
<1>5. ASSUME NEW a \in Approvers, RefuseApproval(a)
      PROVE  Kept
  BY <1>5 DEF RefuseApproval, Moves, TypeOK
<1>6. ASSUME NEW a \in Approvers, SaveApproval(a)
      PROVE  Kept
  BY <1>6, ApprovalKeepsContent DEF SaveApproval, TypeOK
<1>7. ASSUME NEW c \in Callers, AppendAudit(c) \/ AppendEvent(c)
      PROVE  Kept
  BY <1>7 DEF AppendAudit, AppendEvent, Moves, Reply, TypeOK
<1>8. CASE Crash
  BY <1>8 DEF Crash, InFlight
<1>9. CASE UNCHANGED vars
  BY <1>9 DEF vars
<1>. QED
  BY <1>1, <1>2, <1>3, <1>4, <1>5, <1>6, <1>7, <1>8, <1>9 DEF Next

\* A decision stays one on an allowed inject.
LEMMA DecidesKept ==
  ASSUME TypeOK, CallsHold, [Next]_vars, NEW a \in Approvers, Decides(a)
  PROVE  Decides(a)' /\ asked'[a] = asked[a]
BY StepKeeps DEF Decides, TypeOK

LEMMA CallsHoldKept ==
  ASSUME TypeOK, CallsHold, [Next]_vars
  PROVE  CallsHold'
<1>. USE DEF Callers
<1>1. CASE Adapt
  <2>1. request' # None
    BY <1>1, NoneAssumption DEF Adapt
  <2>. QED  BY <1>1, <2>1, AdaptationAssumption DEF Adapt, Moves, TypeOK, CallsHold
<1>2. CASE SaveAdaptation
  <2>1. adaptation = None /\ \A a \in Approvers : seen[a] = None
    BY <1>2 DEF SaveAdaptation, CallsHold
  <2>2. pc'[Creator] \in {"saved", "raised"} /\ \A a \in Approvers : pc'[a] = pc[a]
    BY <1>2, AdaptationAssumption DEF SaveAdaptation, Save, Moves, Reply, TypeOK
  <2>. QED  BY <1>2, <2>1, <2>2 DEF SaveAdaptation, CallsHold
<1>3. CASE FailToRetrieve
  BY <1>3, AdaptationAssumption DEF FailToRetrieve, Moves, TypeOK, CallsHold
<1>4. ASSUME NEW a \in Approvers, ReadForApproval(a)
      PROVE  CallsHold'
  <2>1. CASE /\ adaptation # None
             /\ \E ask \in Decision : asked' = [asked EXCEPT ![a] = ask]
             /\ seen' = [seen EXCEPT ![a] = adaptation]
             /\ Moves(a, "read")
    <3>1. asked'[a] # None /\ \A b \in Approvers \ {a} : asked'[b] = asked[b]
      BY <2>1, NoneAssumption DEF TypeOK
    <3>2. pc'[a] = "read" /\ \A c \in Callers \ {a} : pc'[c] = pc[c]
      BY <2>1 DEF Moves, TypeOK
    <3>3. seen'[a] = adaptation /\ \A b \in Approvers \ {a} : seen'[b] = seen[b]
      BY <2>1 DEF TypeOK
    <3>4. UNCHANGED <<adaptation, request>> /\ pc'[Creator] = pc[Creator]
      BY <1>4, <3>2, AdaptationAssumption DEF ReadForApproval
    <3>5. \A b \in Approvers : pc'[b] = "read" => seen'[b] # None /\ asked'[b] # None
      BY <2>1, <3>1, <3>2, <3>3 DEF CallsHold
    <3>6. \A b \in Approvers : pc'[b] = "idle" => asked'[b] = None
      BY <3>1, <3>2 DEF CallsHold
    <3>7. \A b \in Approvers : seen'[b] # None =>
            /\ adaptation # None
            /\ seen'[b].gated = adaptation.gated /\ seen'[b].allowed = adaptation.allowed
      BY <2>1, <3>3 DEF CallsHold
    <3>. QED  BY <3>4, <3>5, <3>6, <3>7 DEF CallsHold
  <2>2. CASE /\ Moves(a, IF adaptation = None THEN "refused" ELSE "raised")
             /\ UNCHANGED <<seen, asked, mishap>>
    <3>1. pc'[a] \notin {"idle", "read"} /\ \A c \in Callers \ {a} : pc'[c] = pc[c]
      BY <2>2 DEF Moves, TypeOK
    <3>. QED  BY <1>4, <2>2, <3>1, AdaptationAssumption DEF ReadForApproval, CallsHold
  <2>. QED  BY <1>4, <2>1, <2>2 DEF ReadForApproval
<1>5. ASSUME NEW a \in Approvers, RefuseApproval(a)
      PROVE  CallsHold'
  BY <1>5, AdaptationAssumption DEF RefuseApproval, Moves, TypeOK, CallsHold
<1>6. ASSUME NEW a \in Approvers, SaveApproval(a)
      PROVE  CallsHold'
  <2>1. pc'[a] \in {"saved", "raised"} /\ \A c \in Callers \ {a} : pc'[c] = pc[c]
    BY <1>6, ApprovalKeepsContent DEF TypeOK
  <2>2. /\ adaptation # None /\ adaptation' # None
        /\ adaptation'.gated = adaptation.gated
        /\ adaptation'.allowed = adaptation.allowed
    BY <1>6, ApprovalKeepsContent
  <2>. QED  BY <1>6, <2>1, <2>2, AdaptationAssumption DEF SaveApproval, CallsHold
<1>7. ASSUME NEW c \in Callers, AppendAudit(c) \/ AppendEvent(c)
      PROVE  CallsHold'
  <2>1. pc'[c] \in {"audited", "done", "raised"} /\ \A d \in Callers \ {c} : pc'[d] = pc[d]
    BY <1>7 DEF AppendAudit, AppendEvent, Moves, Reply, TypeOK
  <2>. QED  BY <1>7, <2>1 DEF AppendAudit, AppendEvent, CallsHold
<1>8. CASE Crash
  BY <1>8 DEF Crash, CallsHold, InFlight
<1>9. CASE UNCHANGED vars
  BY <1>9 DEF vars, CallsHold
<1>. QED
  BY <1>1, <1>2, <1>3, <1>4, <1>5, <1>6, <1>7, <1>8, <1>9 DEF Next

LEMMA RangeOfAppend ==
  ASSUME NEW S, NEW s \in Seq(S), NEW c \in S
  PROVE  Range(Append(s, c)) = Range(s) \cup {c}
<1>. DEFINE t == Append(s, c)
<1>1. /\ DOMAIN s = 1 .. Len(s) /\ DOMAIN t = 1 .. Len(s) + 1 /\ Len(s) \in Nat
      /\ t[Len(s) + 1] = c /\ \A i \in 1 .. Len(s) : t[i] = s[i]
  OBVIOUS
<1>. HIDE DEF t
<1>2. Range(t) = {t[i] : i \in 1 .. Len(s) + 1} /\ Range(s) = {s[i] : i \in 1 .. Len(s)}
  BY <1>1 DEF Range
<1>3. \A x \in Range(t) : x \in Range(s) \cup {c}
  BY <1>1, <1>2
<1>4. \A x \in Range(s) \cup {c} : x \in Range(t)
  BY <1>1, <1>2
<1>5. Range(t) = Range(s) \cup {c}
  BY <1>3, <1>4
<1>. QED  BY <1>5 DEF t

\* An approval that saves decides on an allowed inject.
LEMMA SavingDecides ==
  ASSUME TypeOK, CallsHold, NEW a \in Approvers, SaveApproval(a)
  PROVE  Decides(a)'
<1>1. /\ adaptation' # None /\ adaptation'.allowed = adaptation.allowed
      /\ seen[a].allowed = adaptation.allowed
  BY ApprovalKeepsContent DEF SaveApproval, CallsHold
<1>2. asked'[a] # None /\ asked'[a].inject \in adaptation'.allowed
  BY <1>1 DEF SaveApproval, CallsHold, Approvable
<1>3. pc'[a] \in {"saved", "raised"}
  BY ApprovalKeepsContent DEF TypeOK, Callers
<1>. QED  BY <1>1, <1>2, <1>3 DEF Decides

\* A saved decision is on an allowed inject, and stays one.
LEMMA SavedDecideKept ==
  ASSUME TypeOK, CallsHold, SavedDecide, [Next]_vars
  PROVE  SavedDecide'
<1>. USE DEF Callers
<1>1. ASSUME NEW a \in Approvers, SaveApproval(a), pc'[a] = "saved"
      PROVE  Decides(a)'
  BY <1>1, SavingDecides
<1>2. ASSUME NEW a \in Approvers, pc'[a] \in {"saved", "audited", "done"},
             pc[a] \notin {"saved", "audited", "done"}
      PROVE  SaveApproval(a) /\ pc'[a] = "saved"
  <2>1. \A c \in Callers : AppendAudit(c) \/ AppendEvent(c) =>
          pc[a] \in {"saved", "audited", "done"} \/ pc'[a] = pc[a]
    BY <1>2 DEF AppendAudit, AppendEvent, Moves, TypeOK
  <2>2. Adapt \/ SaveAdaptation \/ FailToRetrieve => pc'[a] = pc[a]
    BY AdaptationAssumption DEF Adapt, SaveAdaptation, FailToRetrieve, Save, Moves, TypeOK
  <2>3. \A b \in Approvers : ReadForApproval(b) \/ RefuseApproval(b) =>
          pc'[a] = pc[a] \/ pc'[a] \in {"read", "refused", "raised"}
    BY DEF ReadForApproval, RefuseApproval, Moves, TypeOK
  <2>4. \A b \in Approvers : SaveApproval(b) =>
          \/ pc'[a] = pc[a]
          \/ pc'[a] = "raised"
          \/ b = a /\ pc'[a] = "saved"
    BY ApprovalKeepsContent DEF TypeOK
  <2>5. Crash \/ UNCHANGED vars => pc'[a] = pc[a] \/ pc'[a] = "dead"
    BY DEF Crash, vars
  <2>. QED  BY <1>2, <2>1, <2>2, <2>3, <2>4, <2>5 DEF Next
<1>. QED  BY <1>1, <1>2, DecidesKept DEF SavedDecide

\* The status is the first one, or that of a decision on an allowed inject.
LEMMA StatusKept ==
  ASSUME DecisionInv, [Next]_vars, adaptation' # None
  PROVE  \/ adaptation'.status = FirstStatus(adaptation')
         \/ \E a \in Approvers : /\ Decides(a)'
                                /\ adaptation'.status = DecidedStatus(asked'[a].decision)
<1>. USE DEF DecisionInv
<1>1. CASE adaptation' = adaptation
  BY <1>1, DecidesKept DEF DecisionsAreOnAllowed
<1>2. CASE SaveAdaptation
  <2>1. adaptation' = adaptation \/ adaptation' = Directed(request)
    BY <1>2 DEF SaveAdaptation, Save, Effect
  <2>2. CASE adaptation' = Directed(request)
    BY <2>2 DEF Directed, FirstStatus
  <2>. QED  BY <1>1, <2>1, <2>2
<1>3. ASSUME NEW a \in Approvers, SaveApproval(a)
      PROVE  \/ adaptation'.status = FirstStatus(adaptation')
             \/ \E b \in Approvers : /\ Decides(b)'
                                    /\ adaptation'.status = DecidedStatus(asked'[b].decision)
  <2>1. CASE adaptation'.status = DecidedStatus(asked[a].decision)
    <3>1. asked' = asked
      BY <1>3 DEF SaveApproval
    <3>. QED  BY <1>3, <2>1, <3>1, SavingDecides
  <2>. QED  BY <1>1, <1>3, <2>1, ApprovalKeepsContent
<1>4. \/ adaptation' = adaptation \/ SaveAdaptation
      \/ \E a \in Approvers : SaveApproval(a)
  BY DEF Next, vars, Adapt, FailToRetrieve, ReadForApproval, RefuseApproval,
         AppendAudit, AppendEvent, Crash
<1>. QED  BY <1>1, <1>2, <1>3, <1>4

\* What enters a ledger has been saved.
LEMMA LedgersKept ==
  ASSUME DecisionInv, [Next]_vars,
         NEW a \in Approvers, a \in Range(audited') \cup Range(events')
  PROVE  Decides(a)'
<1>. USE DEF DecisionInv
<1>1. CASE a \in Range(audited) \cup Range(events)
  BY <1>1, DecidesKept DEF DecisionsAreOnAllowed
<1>2. ASSUME NEW c \in Callers, AppendAudit(c), a \in Range(audited'),
             a \notin Range(audited)
      PROVE  Decides(a)'
  <2>1. audited' = audited \/ audited' = Append(audited, c)
    BY <1>2 DEF AppendAudit, Effect
  <2>2. a = c
    <3>1. audited \in Seq(Callers)
      BY DEF TypeOK
    <3>2. Range(Append(audited, c)) = Range(audited) \cup {c}
      BY <3>1, RangeOfAppend
    <3>. QED  BY <1>2, <2>1, <3>2
  <2>3. Decides(a)
    BY <1>2, <2>2 DEF AppendAudit, SavedDecide
  <2>. QED  BY <2>3, DecidesKept
<1>3. ASSUME NEW c \in Callers, AppendEvent(c), a \in Range(events'),
             a \notin Range(events)
      PROVE  Decides(a)'
  <2>1. events' = events \/ events' = Append(events, c)
    BY <1>3 DEF AppendEvent, Effect
  <2>2. a = c
    <3>1. events \in Seq(Callers)
      BY DEF TypeOK
    <3>2. Range(Append(events, c)) = Range(events) \cup {c}
      BY <3>1, RangeOfAppend
    <3>. QED  BY <1>3, <2>1, <3>2
  <2>3. Decides(a)
    BY <1>3, <2>2 DEF AppendEvent, SavedDecide
  <2>. QED  BY <2>3, DecidesKept
<1>4. \/ UNCHANGED <<audited, events>>
      \/ \E c \in Callers : AppendAudit(c) /\ events' = events
      \/ \E c \in Callers : AppendEvent(c) /\ audited' = audited
  BY DEF Next, vars, Adapt, SaveAdaptation, FailToRetrieve, ReadForApproval,
         RefuseApproval, SaveApproval, AppendAudit, AppendEvent, Crash
<1>. QED  BY <1>1, <1>2, <1>3, <1>4

\* The inductive invariant.
THEOREM Invariant == Spec => []DecisionInv
<1>1. Init => DecisionInv
  <2>. SUFFICES ASSUME Init  PROVE DecisionInv
    OBVIOUS
  <2>1. TypeOK
    <3>1. mishap \in BOOLEAN
      BY DEF Init
    <3>2. audited \in Seq(Callers) /\ events \in Seq(Callers)
      BY DEF Init
    <3>3. pc \in [Callers -> Points]
      BY DEF Init, Points
    <3>4. seen \in [Approvers -> Adaptation \cup {None}]
      BY DEF Init
    <3>5. asked \in [Approvers -> Decision \cup {None}]
      BY DEF Init
    <3>. QED  BY <3>1, <3>2, <3>3, <3>4, <3>5 DEF Init, TypeOK
  <2>2. CallsHold
    BY DEF Init, CallsHold, Callers
  <2>3. SavedDecide
    BY DEF Init, SavedDecide, Callers
  <2>4. DecisionsAreOnAllowed
    BY DEF Init, DecisionsAreOnAllowed, Range
  <2>. QED  BY <2>1, <2>2, <2>3, <2>4 DEF DecisionInv
<1>2. DecisionInv /\ [Next]_vars => DecisionInv'
  <2>. SUFFICES ASSUME DecisionInv, [Next]_vars  PROVE DecisionInv'
    OBVIOUS
  <2>1. TypeOK' /\ CallsHold' /\ SavedDecide'
    BY TypesKept, CallsHoldKept, SavedDecideKept DEF DecisionInv
  <2>2. DecisionsAreOnAllowed'
    BY StatusKept, LedgersKept DEF DecisionsAreOnAllowed
  <2>. QED  BY <2>1, <2>2 DEF DecisionInv
<1>. QED  BY <1>1, <1>2, PTL DEF Spec

\* The variables keep their types.
THEOREM TypeCorrect == Spec => []TypeOK
<1>1. DecisionInv => TypeOK
  BY DEF DecisionInv
<1>. QED  BY <1>1, Invariant, PTL

\* However many approvals decide on an adaptation, one over the other and from
\* stale copies, only injects the constraints allow are decided on.
THEOREM OnlyAllowedIsDecided == Spec => []DecisionsAreOnAllowed
<1>1. DecisionInv => DecisionsAreOnAllowed
  BY DEF DecisionInv
<1>. QED  BY <1>1, Invariant, PTL

\* What directs an adaptation would, under a tighter constraint or with a team
\* under more pressure, let no inject through that it blocks, and advise no
\* milder.
THEOREM CautionIsMonotone == Spec => []MoreCareRelaxesNothing
<1>1. DecisionInv => MoreCareRelaxesNothing
  <2>. SUFFICES ASSUME DecisionInv, request # None,
                       NEW evidence \in Evidences, NEW c \in Constraint,
                       Pressure(evidence) >= Pressure(request.evidence),
                       Tighter(c, request.constraint)
                PROVE  RelaxesNothing(
                         Said(request, Pressure(evidence), c),
                         Said(request, Pressure(request.evidence), request.constraint))
    BY DEF MoreCareRelaxesNothing
  <2>1. /\ request \in Request /\ request.evidence \in Evidences
        /\ request.constraint \in Constraint
    BY DEF DecisionInv, TypeOK, Request
  <2>2. Pressure(evidence) \in Nat /\ Pressure(request.evidence) \in Nat
    BY <2>1, PressureIs
  <2>. QED  BY <2>1, <2>2, CautionGrows
<1>. QED  BY <1>1, Invariant, PTL

-----------------------------------------------------------------------------
(* The ledgers.                                                            *)

\* What a ledger tells depends on no more of an adaptation than these.
LEMMA TellsTheSame ==
  ASSUME NEW ledger, NEW ad, NEW new, NEW ask, NEW said,
         Tells(ledger, ad, ask),
         new.status = ad.status, FirstStatus(new) = FirstStatus(ad),
         \A i \in 1 .. Len(ledger) :
           ledger[i] \in Approvers => said[ledger[i]] = ask[ledger[i]]
  PROVE  Tells(ledger, new, said)
BY DEF Tells

LEMMA AppendedEntry ==
  ASSUME NEW ledger \in Seq(Callers), NEW c \in Callers
  PROVE  /\ Len(ledger) \in Nat /\ Len(Append(ledger, c)) = Len(ledger) + 1
         /\ Append(ledger, c)[Len(ledger) + 1] = c
         /\ \A i \in 1 .. Len(ledger) : Append(ledger, c)[i] = ledger[i]
OBVIOUS

\* The record of the adaptation itself changes nothing of what is told, and that
\* of an approval tells what it has decided.
LEMMA TellsTheLast ==
  ASSUME NEW ledger \in Seq(Callers), NEW c \in Callers, NEW ad, NEW ask,
         IF c \in Approvers THEN ad.status = DecidedStatus(ask[c].decision)
                            ELSE Tells(ledger, ad, ask)
  PROVE  Tells(Append(ledger, c), ad, ask)
<1>. DEFINE longer == Append(ledger, c)
            n == Len(ledger)
<1>1. /\ n \in Nat /\ Len(longer) = n + 1 /\ longer[n + 1] = c
      /\ \A i \in 1 .. n : longer[i] = ledger[i]
  BY AppendedEntry
<1>. HIDE DEF longer, n
<1>2. CASE c \in Approvers
  <2>1. /\ n + 1 \in 1 .. Len(longer) /\ longer[n + 1] \in Approvers
        /\ \A j \in 1 .. Len(longer) : ~ (j > n + 1)
    BY <1>1, <1>2
  <2>2. ad.status = IF ask[longer[n + 1]].decision = "approved" THEN "completed" ELSE "rejected"
    BY <1>1, <1>2 DEF DecidedStatus
  <2>3. Tells(longer, ad, ask)
    BY <2>1, <2>2 DEF Tells
  <2>. QED  BY <2>3 DEF longer
<1>3. CASE c \notin Approvers
  <2>1. Tells(ledger, ad, ask)
    BY <1>3
  <2>2. \A j \in 1 .. Len(longer) :
          longer[j] \in Approvers => j \in 1 .. n /\ longer[j] = ledger[j]
    BY <1>1, <1>3
  <2>3. CASE /\ \A i \in 1 .. n : ledger[i] \notin Approvers
             /\ ad.status = FirstStatus(ad)
    BY <2>2, <2>3 DEF Tells, longer
  <2>4. ASSUME NEW i \in 1 .. n,
               ledger[i] \in Approvers,
               \A j \in 1 .. n : j > i => ledger[j] \notin Approvers,
               ad.status = IF ask[ledger[i]].decision = "approved" THEN "completed" ELSE "rejected"
        PROVE  Tells(longer, ad, ask)
    <3>1. /\ i \in 1 .. Len(longer) /\ longer[i] = ledger[i]
          /\ \A j \in 1 .. Len(longer) : j > i => longer[j] \notin Approvers
      BY <1>1, <2>2, <2>4
    <3>. QED  BY <2>4, <3>1 DEF Tells
  <2>5. Tells(longer, ad, ask)
    BY <2>1, <2>3, <2>4 DEF Tells, n, longer
  <2>. QED  BY <2>5 DEF longer
<1>. QED  BY <1>2, <1>3

\* Those whose approval is in a ledger have long asked.
LEMMA LedgersAskNoMore ==
  ASSUME DecisionInv, [Next]_vars,
         NEW a \in Approvers, a \in Range(audited) \cup Range(events)
  PROVE  asked'[a] = asked[a]
<1>1. Decides(a)
  BY DEF DecisionInv, DecisionsAreOnAllowed
<1>. QED  BY <1>1, DecidesKept DEF DecisionInv

LEMMA EntriesAreInRange ==
  ASSUME NEW ledger \in Seq(Callers)
  PROVE  \A i \in 1 .. Len(ledger) : ledger[i] \in Range(ledger)
BY DEF Range

\* A step that leaves the status and a ledger alone leaves what it tells.
LEMMA LedgersUntouched ==
  ASSUME DecisionInv, [Next]_vars, adaptation # None,
         adaptation'.status = adaptation.status
  PROVE  /\ Tells(audited, adaptation, asked) => Tells(audited, adaptation', asked')
         /\ Tells(events, adaptation, asked) => Tells(events, adaptation', asked')
<1>1. audited \in Seq(Callers) /\ events \in Seq(Callers)
  BY DEF DecisionInv, TypeOK
<1>2. /\ \A i \in 1 .. Len(audited) :
           audited[i] \in Approvers => asked'[audited[i]] = asked[audited[i]]
      /\ \A i \in 1 .. Len(events) :
           events[i] \in Approvers => asked'[events[i]] = asked[events[i]]
  BY <1>1, LedgersAskNoMore, EntriesAreInRange
<1>3. FirstStatus(adaptation') = FirstStatus(adaptation)
  BY StepKeeps DEF DecisionInv, FirstStatus
<1>. QED  BY <1>2, <1>3, TellsTheSame

Turns == ApprovalsTakeTurns /\ LedgersFollow

\* A call that stays out of both ledgers and saves nothing: it may go from one
\* that is not under way, if no other is, to have read, or leave.
LEMMA QuietStep ==
  ASSUME DecisionInv, [Next]_vars, Turns,
         UNCHANGED <<adaptation, audited, events>>,
         \A a \in Approvers :
           /\ pc'[a] \in InFlight => adaptation # None
           /\ pc'[a] \in {"saved", "audited"} => pc'[a] = pc[a]
           /\ pc[a] \in {"saved", "audited"} => pc'[a] = pc[a],
         \A a, b \in Approvers : pc'[a] \in InFlight /\ pc'[b] \in InFlight => a = b
  PROVE  Turns'
<1>1. ApprovalsTakeTurns'
  <2>1. ASSUME NEW a \in Approvers, pc'[a] \in {"saved", "audited"}
        PROVE  adaptation'.status = DecidedStatus(asked'[a].decision)
    <3>1. pc[a] \in {"saved", "audited"} /\ pc[a] # "idle"
      BY <2>1
    <3>2. asked'[a] = asked[a]
      BY <3>1, StepKeeps DEF DecisionInv
    <3>. QED  BY <3>1, <3>2 DEF Turns, ApprovalsTakeTurns
  <2>. QED  BY <2>1 DEF ApprovalsTakeTurns
<1>2. LedgersFollow'
  <2>. SUFFICES ASSUME adaptation # None
                PROVE  LedgersFollow'
    BY DEF LedgersFollow
  <2>1. /\ (\A a \in Approvers : pc'[a] # "saved") => Tells(audited, adaptation', asked')
        /\ (\A a \in Approvers : pc'[a] \notin {"saved", "audited"})
             => Tells(events, adaptation', asked')
    BY LedgersUntouched DEF Turns, LedgersFollow
  <2>. QED  BY <2>1 DEF LedgersFollow
<1>. QED  BY <1>1, <1>2 DEF Turns

\* adapt() saves the adaptation before anything is in a ledger but by itself.
LEMMA TurnsSaveAdaptation ==
  ASSUME DecisionInv, [Next]_vars, Turns, SaveAdaptation
  PROVE  Turns'
<1>1. /\ adaptation = None
      /\ \A a \in Approvers : pc'[a] = pc[a] /\ pc[a] \notin InFlight
  <2>1. adaptation = None
    BY DEF SaveAdaptation, DecisionInv, CallsHold
  <2>2. \A a \in Approvers : pc'[a] = pc[a]
    BY AdaptationAssumption DEF SaveAdaptation, Save, Moves, DecisionInv, TypeOK, Callers
  <2>. QED  BY <2>1, <2>2 DEF Turns, ApprovalsTakeTurns
<1>2. ApprovalsTakeTurns'
  BY <1>1 DEF ApprovalsTakeTurns, InFlight
<1>3. LedgersFollow'
  <2>. SUFFICES ASSUME adaptation' # None
                PROVE  Tells(audited, adaptation', asked') /\ Tells(events, adaptation', asked')
    BY DEF SaveAdaptation, LedgersFollow
  <2>1. /\ \A i \in 1 .. Len(audited) : audited[i] \notin Approvers
        /\ \A i \in 1 .. Len(events) : events[i] \notin Approvers
    BY <1>1, EntriesAreInRange DEF DecisionInv, TypeOK, DecisionsAreOnAllowed, Decides
  <2>2. adaptation' = Directed(request)
    BY <1>1 DEF SaveAdaptation, Save, Effect
  <2>3. adaptation'.status = FirstStatus(adaptation')
    BY <2>2 DEF Directed, FirstStatus
  <2>. QED  BY <2>1, <2>3 DEF Tells
<1>. QED  BY <1>2, <1>3 DEF Turns

\* An approval saves what it was asked, and no other is under way.
LEMMA TurnsSaveApproval ==
  ASSUME DecisionInv, [Next]_vars, Turns, ~ mishap',
         NEW a \in Approvers, SaveApproval(a)
  PROVE  Turns'
<1>1. PICK o \in Outcomes :
        /\ adaptation' = Effect(o, adaptation,
                           [seen[a] EXCEPT !.status = DecidedStatus(asked[a].decision)])
        /\ Moves(a, Reply(o, "saved", "raised"))
        /\ Note(a \in Approvers /\ o # "ok")
  BY DEF SaveApproval, Save
<1>2. o = "ok"
  BY <1>1 DEF Note
<1>3. /\ adaptation' # None
      /\ adaptation'.status = DecidedStatus(asked[a].decision)
      /\ pc' = [pc EXCEPT ![a] = "saved"]
  <2>1. seen[a] \in Adaptation
    BY DEF SaveApproval, DecisionInv, CallsHold, TypeOK
  <2>. QED  BY <1>1, <1>2, <2>1, DecidedIsAdaptation, NoneAssumption DEF Effect, Moves, Reply
<1>4. /\ \A b \in Approvers : b # a => pc'[b] = pc[b] /\ pc[b] \notin InFlight
      /\ pc'[a] = "saved" /\ asked' = asked
  BY <1>3 DEF SaveApproval, Turns, ApprovalsTakeTurns, DecisionInv, TypeOK, Callers, InFlight
<1>. QED  BY <1>3, <1>4 DEF Turns, ApprovalsTakeTurns, LedgersFollow, InFlight

\* What an approval puts into a ledger tells what it has saved.
LEMMA TurnsAppend ==
  ASSUME DecisionInv, [Next]_vars, Turns, ~ mishap',
         NEW c \in Callers, AppendAudit(c) \/ AppendEvent(c)
  PROVE  Turns'
<1>. USE DEF Callers
<1>1. /\ adaptation' = adaptation /\ asked' = asked
      /\ \A d \in Callers : d # c => pc'[d] = pc[d]
      /\ audited \in Seq(Callers) /\ events \in Seq(Callers)
  BY DEF AppendAudit, AppendEvent, Moves, DecisionInv, TypeOK
<1>2. /\ pc[c] \in {"saved", "audited"}
      /\ pc'[c] \in {"audited", "done", "raised"}
      /\ pc'[c] \in InFlight => pc[c] = "saved"
  BY DEF AppendAudit, AppendEvent, Moves, Reply, DecisionInv, TypeOK, InFlight
<1>3. ApprovalsTakeTurns'
  BY <1>1, <1>2 DEF Turns, ApprovalsTakeTurns, InFlight
<1>4. ASSUME c \in Approvers
      PROVE  /\ adaptation # None
             /\ adaptation.status = DecidedStatus(asked[c].decision)
             /\ \A b \in Approvers : b # c => pc[b] \notin InFlight
  BY <1>2, <1>4 DEF Turns, ApprovalsTakeTurns, InFlight
<1>5. CASE AppendAudit(c)
  <2>1. PICK o \in Outcomes : /\ audited' = Effect(o, audited, Append(audited, c))
                             /\ Moves(c, Reply(o, "audited", "raised"))
                             /\ Note(c \in Approvers /\ o # "ok")
    BY <1>5 DEF AppendAudit
  <2>2. events' = events
    BY <1>5 DEF AppendAudit
  <2>3. CASE c \in Approvers
    <3>1. o = "ok"
      BY <2>1, <2>3 DEF Note
    <3>2. audited' = Append(audited, c) /\ pc'[c] = "audited"
      BY <2>1, <3>1 DEF Effect, Moves, Reply, DecisionInv, TypeOK
    <3>3. Tells(audited', adaptation, asked)
      BY <1>1, <1>4, <2>3, <3>2, TellsTheLast
    <3>. QED  BY <1>1, <1>3, <2>3, <3>2, <3>3 DEF Turns, LedgersFollow
  <2>4. CASE c \notin Approvers
    <3>1. audited' = audited \/ audited' = Append(audited, c)
      BY <2>1 DEF Effect
    <3>2. Tells(audited, adaptation, asked) => Tells(audited', adaptation, asked)
      BY <1>1, <2>4, <3>1, TellsTheLast
    <3>3. \A b \in Approvers : pc'[b] = pc[b]
      BY <1>1, <2>4
    <3>. QED  BY <1>1, <1>3, <2>2, <3>2, <3>3 DEF Turns, LedgersFollow
  <2>. QED  BY <2>3, <2>4
<1>6. CASE AppendEvent(c)
  <2>1. PICK o \in Outcomes : /\ events' = Effect(o, events, Append(events, c))
                             /\ Moves(c, Reply(o, "done", "raised"))
                             /\ Note(c \in Approvers /\ o # "ok")
    BY <1>6 DEF AppendEvent
  <2>2. audited' = audited /\ pc[c] = "audited"
    BY <1>6 DEF AppendEvent
  <2>3. CASE c \in Approvers
    <3>1. o = "ok"
      BY <2>1, <2>3 DEF Note
    <3>2. events' = Append(events, c)
      BY <2>1, <3>1 DEF Effect
    <3>3. Tells(events', adaptation, asked)
      BY <1>1, <1>4, <2>3, <3>2, TellsTheLast
    <3>4. \A b \in Approvers : pc[b] # "saved"
      BY <1>4, <2>2, <2>3 DEF InFlight
    <3>5. Tells(audited', adaptation, asked)
      BY <1>4, <2>2, <2>3, <3>4 DEF Turns, LedgersFollow
    <3>. QED  BY <1>1, <1>3, <3>3, <3>5 DEF Turns, LedgersFollow
  <2>4. CASE c \notin Approvers
    <3>1. events' = events \/ events' = Append(events, c)
      BY <2>1 DEF Effect
    <3>2. Tells(events, adaptation, asked) => Tells(events', adaptation, asked)
      BY <1>1, <2>4, <3>1, TellsTheLast
    <3>3. \A b \in Approvers : pc'[b] = pc[b]
      BY <1>1, <2>4
    <3>. QED  BY <1>1, <1>3, <2>2, <3>2, <3>3 DEF Turns, LedgersFollow
  <2>. QED  BY <2>3, <2>4
<1>. QED  BY <1>5, <1>6

\* Unless there is a mishap, each step leaves the ledgers with the status.
LEMMA TurnsKept ==
  ASSUME DecisionInv, Turns, [Next]_vars, ~ mishap'
  PROVE  Turns'
<1>. USE DEF Callers
<1>1. TypeOK
  BY DEF DecisionInv
<1>2. CASE Adapt \/ FailToRetrieve
  <2>1. /\ UNCHANGED <<adaptation, audited, events>>
        /\ \A a \in Approvers : pc'[a] = pc[a]
    BY <1>1, <1>2, AdaptationAssumption DEF Adapt, FailToRetrieve, Moves, TypeOK
  <2>. QED  BY <2>1, QuietStep DEF Turns, ApprovalsTakeTurns
<1>3. CASE SaveAdaptation
  BY <1>3, TurnsSaveAdaptation
<1>4. ASSUME NEW a \in Approvers, ReadForApproval(a)
      PROVE  Turns'
  <2>1. /\ UNCHANGED <<adaptation, audited, events>>
        /\ pc[a] = "idle" /\ \A b \in Approvers : b # a => pc'[b] = pc[b]
    BY <1>1, <1>4 DEF ReadForApproval, Moves, TypeOK
  <2>2. CASE /\ adaptation # None /\ Moves(a, "read")
             /\ Note(\E b \in Approvers : pc[b] \in InFlight)
    <3>1. pc'[a] = "read" /\ \A b \in Approvers : pc[b] \notin InFlight
      BY <1>1, <2>2 DEF Moves, Note, TypeOK
    <3>. QED  BY <2>1, <2>2, <3>1, QuietStep DEF InFlight
  <2>3. CASE Moves(a, IF adaptation = None THEN "refused" ELSE "raised")
    <3>1. pc'[a] \in {"refused", "raised"}
      BY <1>1, <2>3 DEF Moves, TypeOK
    <3>. QED  BY <2>1, <3>1, QuietStep DEF Turns, ApprovalsTakeTurns, InFlight
  <2>. QED  BY <1>4, <2>2, <2>3 DEF ReadForApproval
<1>5. ASSUME NEW a \in Approvers, RefuseApproval(a)
      PROVE  Turns'
  <2>1. /\ UNCHANGED <<adaptation, audited, events>>
        /\ pc[a] = "read" /\ pc'[a] = "refused"
        /\ \A b \in Approvers : b # a => pc'[b] = pc[b]
    BY <1>1, <1>5 DEF RefuseApproval, Moves, TypeOK
  <2>. QED  BY <2>1, QuietStep DEF Turns, ApprovalsTakeTurns, InFlight
<1>6. ASSUME NEW a \in Approvers, SaveApproval(a)
      PROVE  Turns'
  BY <1>6, TurnsSaveApproval
<1>7. ASSUME NEW c \in Callers, AppendAudit(c) \/ AppendEvent(c)
      PROVE  Turns'
  BY <1>7, TurnsAppend
<1>8. CASE Crash
  <2>1. /\ UNCHANGED <<adaptation, audited, events>>
        /\ \A a \in Approvers : pc[a] \notin InFlight /\ pc'[a] = pc[a]
    BY <1>8 DEF Crash, Note
  <2>. QED  BY <2>1, QuietStep DEF InFlight
<1>9. CASE UNCHANGED vars
  <2>1. UNCHANGED <<adaptation, audited, events, pc>>
    BY <1>9 DEF vars
  <2>. QED  BY <2>1, QuietStep DEF Turns, ApprovalsTakeTurns
<1>. QED
  BY <1>2, <1>3, <1>4, <1>5, <1>6, <1>7, <1>8, <1>9 DEF Next

\* A mishap is not forgotten.
LEMMA MishapStays ==
  ASSUME [Next]_vars, mishap
  PROVE  mishap'
BY DEF Next, vars, Adapt, SaveAdaptation, FailToRetrieve, ReadForApproval, RefuseApproval,
       SaveApproval, Save, AppendAudit, AppendEvent, Crash, Note

LEMMA LedgerInvariant == Spec => []LedgerInv
<1>1. Init => (~ mishap => Turns)
  BY DEF Init, Turns, ApprovalsTakeTurns, LedgersFollow, Callers, InFlight
<1>2. DecisionInv /\ (~ mishap => Turns) /\ [Next]_vars => (~ mishap' => Turns')
  BY TurnsKept, MishapStays
<1>3. DecisionInv /\ (~ mishap => Turns) => LedgerInv
  BY DEF LedgerInv, Turns
<1>. QED  BY <1>1, <1>2, <1>3, Invariant, PTL DEF Spec

\* As long as approvals take their turns and none fails half-way, the last
\* decision in the audit log and the last one published are the status the
\* adaptation has, however often it is decided on.
THEOREM LedgersAreTrue == Spec => []LedgersTellStatus
<1>1. LedgerInv => LedgersTellStatus
  BY DEF LedgerInv, ApprovalsTakeTurns, LedgersFollow, LedgersTellStatus, InFlight
<1>. QED  BY <1>1, LedgerInvariant, PTL

\* The skill an adaptation is directed at is the weakest but for what the amount
\* of evidence weighs.
THEOREM PrimaryIsWeak == Spec => []PrimaryIsNearlyWeakest
<1>1. DecisionInv => PrimaryIsNearlyWeakest
  <2>. SUFFICES ASSUME DecisionInv, request # None, NEW skill \in Range(Skills)
                PROVE  LET primary == request.evidence[PrimaryDimension(request.evidence)]
                           passedOver == request.evidence[skill]
                       IN  /\ CurrentScore(primary) < CurrentScore(passedOver) + 20
                           /\ \/ CurrentScore(primary) <= CurrentScore(passedOver)
                              \/ Len(primary) > Len(passedOver)
    BY DEF PrimaryIsNearlyWeakest
  <2>1. request.evidence \in Evidences
    BY DEF DecisionInv, TypeOK, Request
  <2>. QED  BY <2>1, PrimaryLeads, SkillsAre, LeaderIsNearlyWeakest
<1>. QED  BY <1>1, Invariant, PTL
=============================================================================
