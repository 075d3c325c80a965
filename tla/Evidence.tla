------------------------------ MODULE Evidence ------------------------------
(***************************************************************************)
(* The first half of OperationalTwinService.run(): from a request to the   *)
(* policy checks of its evidence bundle.  Artifacts become observations,   *)
(* the perception stage may have a language model add to them, and each    *)
(* observation is tied to an artifact, marked and sanitised; then comes    *)
(* the state estimate.  (The second half is ScenarioOptions.)              *)
(*                                                                         *)
(* Observations are what the code's dict makes of them: a function of      *)
(* their ids, in which a later record replaces an earlier one.  The id of  *)
(* a supplied observation is its own or a hash of it, that of one made of  *)
(* an artifact a hash, that of one the model adds fresh: the answer schema *)
(* has no ids.  Artifacts are numbered and distinct.  Of the artifacts an  *)
(* observation cites only the first it shares with the run decides what it *)
(* inherits, and is kept.  What a text says is one of a few cases.         *)
(*                                                                         *)
(* A definition commented as a variant is no part of the model: it is a    *)
(* mistake the property it names must detect.                              *)
(***************************************************************************)
EXTENDS Critic, Sequences, FiniteSets

CONSTANTS
  PerceptionEnabled, \* a client is configured and the provider is auto or openai
  PerceptionRetries, \* agent_max_retries
  MaxAdded,          \* observations the model adds at most (12 in the code)
  Controls,          \* control properties
  DefaultControls,   \* ControlProperties()
  Unclassified,      \* those whose classification marking is empty
  OwnIds,            \* ids callers give observations
  Absent,            \* no id, no artifact
  Requests,          \* the requests considered
  Estimates          \* the state vectors an estimate may come to

Kinds == {"ocr_text", "manual_note", "weather"}

\* Callers may send weather of their own; here it is the environment's.
SentKinds == Kinds \ {"weather"}

\* What the content of an artifact or an observation says: nothing; something
\* harmless; a prohibited inference; an instruction, in the summary and the text
\* or (buried) under another key.  Once sanitised: what all of it is replaced
\* with (redacted); a new summary in place of the instruction (flagged), or
\* beside it (marked).
Written == {"clean", "prohibited", "instruction"}
Supplied == Written \cup {"buried"}
Stored == {"clean", "redacted", "flagged", "marked"}

\* named: it has an artifact_id.  It has no metadata.
ArtifactIn == [named : BOOLEAN, kind : SentKinds, controls : Controls,
               fresh : BOOLEAN, text : Written \cup {"blank"}]

\* hash: stands for all it holds, its time and what else is left out here
\* included.
ObservationIn == [id : OwnIds \cup {Absent}, hash : Nat, source : Nat \cup {Absent},
                  controls : Controls, fresh : BOOLEAN, text : Supplied,
                  confidence : Share]
Request == [artifacts : Seq(ArtifactIn), observations : Seq(ObservationIn),
            environment : Supplied \cup {"blank"}, controls : Controls, gated : BOOLEAN]

ASSUME EvidenceAssumption ==
  /\ PerceptionEnabled \in BOOLEAN
  /\ PerceptionRetries \in Nat /\ MaxAdded \in Nat
  /\ DefaultControls \in Controls /\ Unclassified \subseteq Controls
  /\ Absent \notin OwnIds \cup Nat
  /\ \A id \in OwnIds : id \notin {"supplied", "artifact", "added"} \X Nat
  /\ Requests \subseteq Request
  /\ \A r \in Requests : \A i, j \in 1 .. Len(r.observations) :
       r.observations[i].hash = r.observations[j].hash =>
         r.observations[i] = r.observations[j]
  /\ Estimates \subseteq StateVector

VARIABLES
  phase,         \* the stage under way
  request,       \* the argument of run()
  artifacts,     \* the artifact records
  baseline,      \* baseline_observations
  observations,  \* what perception returned
  tries,         \* failed attempts of the stage under way
  estimate,      \* the state vector
  checks         \* what the policy checks found amiss

evidenceVars == <<phase, request, artifacts, baseline, observations, tries,
                  estimate, checks>>

-----------------------------------------------------------------------------
(* Artifacts.                                                              *)

Inherited(own, parents) == IF own = DefaultControls THEN parents ELSE own

\* _raw_artifact_match(): the content of an artifact is looked up in the
\* request by id.  An artifact without one has a hash of all it holds for an
\* id, so one that has just inherited the request's markings is not found.
Retrieved(a, r) ==
  IF a.named \/ Inherited(a.controls, r.controls) = a.controls THEN a.text ELSE "blank"

\* _artifact_inputs() and _propagate_artifact_controls(), each with the content
\* _observations_from_artifacts() will find for it.  A batch of observations
\* without artifacts gets a note of its own as source.
Artifacts(r) ==
  LET Record(kind, controls, fresh, text) ==
        [kind |-> kind, controls |-> controls, fresh |-> fresh, text |-> text]
      Added(kind, text) == Record(kind, r.controls, TRUE, text)
      own == [i \in 1 .. Len(r.artifacts) |->
                LET a == r.artifacts[i]
                IN  Record(a.kind, Inherited(a.controls, r.controls), a.fresh,
                           Retrieved(a, r))]
      withWeather == IF r.environment = "blank" THEN own
                     ELSE Append(own, Added("weather", r.environment))
  IN  IF withWeather = <<>> /\ r.observations # <<>>
        THEN <<Added("manual_note", "clean")>>
        ELSE withWeather

ArtifactConfidence == [kind \in Kinds |->
  CASE kind = "weather" -> 96000 [] kind = "ocr_text" -> 86000
    [] kind = "manual_note" -> 80000]

-----------------------------------------------------------------------------
(* Observations.                                                           *)

\* The id of a supplied observation, of one made of an artifact, of one added.
SuppliedId(r, i) ==
  LET o == r.observations[i]
  IN  IF o.id # Absent THEN o.id ELSE <<"supplied", o.hash>>
ArtifactId(k) == <<"artifact", k>>
AddedId(n) == <<"added", n>>

\* _observation_records(), before they are validated: of two supplied
\* observations with one id the later stays.
FromRequest(r) ==
  LET ids == {SuppliedId(r, i) : i \in 1 .. Len(r.observations)}
      LastWith(id) == CHOOSE i \in 1 .. Len(r.observations) :
                        /\ SuppliedId(r, i) = id
                        /\ \A j \in 1 .. Len(r.observations) :
                             SuppliedId(r, j) = id => j <= i
  IN  [id \in ids |-> LET o == r.observations[LastWith(id)]
                      IN  [source |-> o.source, controls |-> o.controls,
                           fresh |-> o.fresh, text |-> o.text,
                           confidence |-> o.confidence]]

\* _observations_from_artifacts(): none of one without content; instructions
\* in OCR text are replaced here already.
FromArtifacts(arts) ==
  LET spoken == {k \in 1 .. Len(arts) : arts[k].text # "blank"}
      Text(a) == IF a.kind = "ocr_text" /\ a.text = "instruction" THEN "clean"
                                                                  ELSE a.text
  IN  [id \in {ArtifactId(k) : k \in spoken} |->
         LET a == arts[id[2]]
         IN  [source |-> id[2], controls |-> a.controls, fresh |-> a.fresh,
              text |-> Text(a), confidence |-> ArtifactConfidence[a.kind]]]

\* _sanitize_observation_content(): of content with an instruction only the
\* summary is replaced and the text dropped.
Sanitised(o) ==
  LET capped(limit) == Clamped(0, limit, o.confidence)
  IN  CASE o.text = "prohibited"  -> [o EXCEPT !.text = "redacted",
                                               !.confidence = capped(35000)]
        [] o.text = "instruction" -> [o EXCEPT !.text = "flagged",
                                               !.confidence = capped(60000)]
        [] o.text \in {"buried", "marked"} -> [o EXCEPT !.text = "marked",
                                                        !.confidence = capped(60000)]
        [] OTHER -> o

\* _validate_observation_pipeline() on one observation.
Validated(o, arts) ==
  LET source == IF o.source \in 1 .. Len(arts) THEN o.source ELSE 1
  IN  Sanitised([o EXCEPT !.source = source,
                          !.controls = Inherited(@, arts[source].controls),
                          !.confidence = Rounded(Clamped(0, One, @))])

\* Without an artifact there is nothing to tie an observation to.
ValidatedAll(obs, arts) ==
  IF arts = <<>> THEN <<>> ELSE [id \in DOMAIN obs |-> Validated(obs[id], arts)]

\* The first function where both are defined: dict semantics, last one wins.
Over(later, earlier) ==
  [id \in DOMAIN later \cup DOMAIN earlier |->
     IF id \in DOMAIN later THEN later[id] ELSE earlier[id]]

Baselined(r, arts) == ValidatedAll(Over(FromArtifacts(arts), FromRequest(r)), arts)

\* Confidences it may come with: the bounds and the default.
AddedConfidences == {20000, 72000, 98000}

\* What _observations_from_agent_payload() makes of an item the model returns.
AddedObservation(r, arts) ==
  [source : 1 .. Len(arts), controls : {r.controls}, fresh : {TRUE},
   text : Supplied, confidence : AddedConfidences]

Answers(r, arts) ==
  UNION {[{AddedId(m) : m \in 1 .. n} -> AddedObservation(r, arts)] : n \in 1 .. MaxAdded}

-----------------------------------------------------------------------------
(* Policy checks.                                                          *)

\* Variant (MarkingsDecide): only what the caller supplied is compared.
MarkingsAgreeAsGiven(r, obs) ==
  /\ r.controls \notin Unclassified
  /\ \A i \in 1 .. Len(r.observations) : r.observations[i].controls = r.controls

\* _classification_ok() and _controls_ok()
MarkingsAgree(r, obs) ==
  /\ r.controls \notin Unclassified
  /\ \A id \in DOMAIN obs : obs[id].controls = r.controls

\* _policy_checks()
PolicyFindings(r, obs, vector) ==
  {f \in Findings :
     CASE f = "markings"   -> ~MarkingsAgree(r, obs)
       [] f = "stale"      -> \E id \in DOMAIN obs : ~obs[id].fresh
       [] f = "thin"       -> Cardinality(DOMAIN obs) < 2
       [] f = "overload"   -> Overloaded(vector)
       [] f = "unapproved" -> ~r.gated}

-----------------------------------------------------------------------------

Phases == {"idle", "perceiving", "estimating", "checking", "bundled", "refused"}

NoEstimate == [fatigue |-> 0, tempo |-> 0]

EvidenceInit ==
  /\ phase = "idle"
  /\ request \in Requests
  /\ artifacts = <<>>
  /\ baseline = <<>>
  /\ observations = <<>>
  /\ tries = 0
  /\ estimate = NoEstimate
  /\ checks = {}

ReceiveRequest ==
  /\ phase = "idle"
  /\ artifacts' = Artifacts(request)
  /\ baseline' = Baselined(request, artifacts')
  /\ phase' = "perceiving"
  /\ UNCHANGED <<request, observations, tries, estimate, checks>>

\* A model that raises, or whose answer has nothing usable, before the last
\* try.  (Without an artifact nothing is usable.)
TryFails ==
  /\ phase \in {"perceiving", "estimating"}
  /\ PerceptionEnabled /\ tries < PerceptionRetries
  /\ tries' = tries + 1
  /\ UNCHANGED <<phase, request, artifacts, baseline, observations, estimate, checks>>

\* Variant (ObservationsAreFit): what the model adds replaces what was there,
\* and is not validated.
PerceiveAnew(added) == added

Perceive(added) == ValidatedAll(Over(added, baseline), artifacts)

\* PerceptionAgent.run() returned; run() raises if there is no observation.
Returns(obs) ==
  /\ observations' = obs
  /\ phase' = IF DOMAIN obs = {} THEN "refused" ELSE "estimating"
  /\ tries' = 0
  /\ UNCHANGED <<request, artifacts, baseline, estimate, checks>>

PerceptionAnswers ==
  /\ phase = "perceiving" /\ PerceptionEnabled /\ artifacts # <<>>
  /\ \E added \in Answers(request, artifacts) : Returns(Perceive(added))

PerceptionFallsBack ==
  /\ phase = "perceiving"
  /\ ~PerceptionEnabled \/ tries = PerceptionRetries
  /\ Returns(ValidatedAll(baseline, artifacts))

\* A score of words and measurements, or a model's answer with its bounds,
\* may come to any of Estimates.
Estimated ==
  /\ estimate' \in Estimates
  /\ phase' = "checking"
  /\ UNCHANGED <<request, artifacts, baseline, observations, tries, checks>>

EstimatorAnswers == phase = "estimating" /\ PerceptionEnabled /\ Estimated

EstimatorFallsBack ==
  /\ phase = "estimating"
  /\ ~PerceptionEnabled \/ tries = PerceptionRetries
  /\ Estimated

CheckPolicy ==
  /\ phase = "checking"
  /\ checks' = PolicyFindings(request, observations, estimate)
  /\ phase' = "bundled"
  /\ UNCHANGED <<request, artifacts, baseline, observations, tries, estimate>>

EvidenceNext ==
  \/ ReceiveRequest \/ TryFails
  \/ PerceptionAnswers \/ PerceptionFallsBack
  \/ EstimatorAnswers \/ EstimatorFallsBack \/ CheckPolicy

EvidenceSpec == EvidenceInit /\ [][EvidenceNext]_evidenceVars

-----------------------------------------------------------------------------
(* Properties.                                                             *)

\* No later observation of the request has the same id.
Survives(r, i) ==
  \A j \in 1 .. Len(r.observations) :
    SuppliedId(r, j) = SuppliedId(r, i) => j <= i

Fits(controls, r) == controls \in {DefaultControls, r.controls}

Consistent(r) ==
  /\ r.controls \notin Unclassified
  /\ \A i \in 1 .. Len(r.artifacts) : Fits(r.artifacts[i].controls, r)
  /\ \A i \in 1 .. Len(r.observations) : Fits(r.observations[i].controls, r)

Mismarked(r) ==
  \/ r.controls \in Unclassified
  \/ \E i \in 1 .. Len(r.artifacts) :
       r.artifacts[i].text # "blank" /\ ~Fits(r.artifacts[i].controls, r)
  \/ \E i \in 1 .. Len(r.observations) :
       Survives(r, i) /\ ~Fits(r.observations[i].controls, r)

\* The caller's markings decide the marking check, through two propagations
\* of defaults (from the request to artifacts, from artifacts to observations)
\* and whatever a model adds: what is marked like the request or not at all
\* never fails it, and one artifact with content or one observation marked
\* otherwise always does.
MarkingsDecide ==
  phase = "bundled" => /\ Consistent(request) => "markings" \notin checks
                       /\ Mismarked(request) => "markings" \in checks

Fit(o) ==
  /\ o.source \in 1 .. Len(artifacts)
  /\ o.text \in Stored
  /\ o.text = "redacted" => o.confidence <= 35000
  /\ o.text \in {"flagged", "marked"} => o.confidence <= 60000

\* docs/architecture.md: perception extracts source-linked observations and
\* no prohibited inference.  Each observation the state estimate and the
\* checks see has a source among the artifacts and no prohibited inference in
\* it, whoever supplied it, and is worth less for an instruction, which may
\* still stand outside its summary; those of the request are there unchanged:
\* models add, they never replace, and to validate twice is to validate once.
\* Only a request in whose artifacts nothing is found is refused.
ObservationsAreFit ==
  /\ phase \in {"estimating", "checking", "bundled"} =>
       /\ \A id \in DOMAIN observations : Fit(observations[id])
       /\ \A id \in DOMAIN baseline :
            id \in DOMAIN observations /\ observations[id] = baseline[id]
  /\ phase = "refused" =>
       /\ request.observations = <<>> /\ request.environment = "blank"
       /\ \A i \in 1 .. Len(request.artifacts) :
            Retrieved(request.artifacts[i], request) = "blank"

\* The same table has perception extract observations from artifacts: every
\* artifact with content is the source of one.  It is not, where an artifact
\* without an id inherits the markings of the request; and if no other is
\* there the request is refused for want of an artifact.
ContentIsObserved ==
  phase \notin {"idle", "perceiving"} =>
    \A i \in 1 .. Len(request.artifacts) :
      request.artifacts[i].text # "blank" =>
        \E id \in DOMAIN observations : observations[id].source = i
=============================================================================
