----------------------------- MODULE MCRequests -----------------------------
(***************************************************************************)
(* Six instances for TLC in one state graph: a twin run up to its evidence *)
(* bundle (Evidence), from there to its options and the advice made of     *)
(* them (Advice), the chain it is saved into (TwinChain), the inputs of a  *)
(* score (CandidatePool) and its rosters (Selection), and what is ingested *)
(* for retrieval (Ingest).  They share nothing: part says which one moves, *)
(* so that their state spaces add up.                                      *)
(***************************************************************************)
EXTENDS Evidence, Advice, TwinChain, Selection, CandidatePool,
        Ingest

CONSTANTS ordinary, secret, unmarked, given,
          t1, t2, t3, c1, c2, c3, s1, s2, here, elsewhere

VARIABLE part

vars == <<part, evidenceVars, adviceVars, chainVars, selectionVars, poolVars,
          ingestVars>>

-----------------------------------------------------------------------------

AllControls == {ordinary, secret, unmarked}
NoMarking == {unmarked}
OneId == {given}

ArtifactsIn ==
  {[named |-> n, kind |-> k, controls |-> c, fresh |-> TRUE, text |-> t] :
     n \in BOOLEAN, k \in SentKinds, c \in {ordinary, secret},
     t \in {"clean", "prohibited", "instruction", "blank"}}
  \cup {[named |-> TRUE, kind |-> "ocr_text", controls |-> ordinary, fresh |-> FALSE,
          text |-> "clean"]}

Observed(id, hash, source, controls, fresh, text) ==
  [id |-> id, hash |-> hash, source |-> source, controls |-> controls,
   fresh |-> fresh, text |-> text, confidence |-> 85000]

ObservationsIn ==
  {Observed(Absent, 1, source, c, TRUE, t) :
     source \in {Absent, 1}, c \in {ordinary, secret}, t \in Supplied}
  \cup {Observed(Absent, 1, 7, ordinary, FALSE, "clean")}

\* Two with one id, the second of which replaces the first; two that differ in
\* nothing, and two that do in their time alone.
Doubled ==
  LET same(hash) == Observed(Absent, hash, 1, ordinary, TRUE, "clean")
  IN  {<<Observed(given, 1, 1, c, TRUE, "clean"),
         Observed(given, 2, 1, d, FALSE, "prohibited")>> :
         c \in {ordinary, secret}, d \in {ordinary, secret}}
      \cup {<<same(1), same(1)>>, <<same(1), same(2)>>}

\* Every kind of one artifact and of one observation beside it, under each
\* marking of the request; a second artifact or observation, an environment
\* and a waived approval for some.
SampleRequests ==
  LET Asked(as, os, e, c, g) ==
        [artifacts |-> as, observations |-> os, environment |-> e, controls |-> c,
         gated |-> g]
      noted == [named |-> TRUE, kind |-> "manual_note", controls |-> ordinary,
                fresh |-> TRUE, text |-> "blank"]
  IN  {Asked(as, os, "blank", c, TRUE) :
         as \in {<<>>} \cup {<<a>> : a \in ArtifactsIn},
         os \in {<<>>} \cup {<<o>> : o \in ObservationsIn}, c \in AllControls}
      \cup {Asked(as, os, "blank", c, FALSE) :
              as \in {<<>>} \cup {<<noted, a>> : a \in ArtifactsIn},
              os \in {<<>>} \cup Doubled, c \in {ordinary, secret}}
      \cup {Asked(<<>>, <<>>, e, c, TRUE) : e \in Supplied, c \in AllControls}

SampleEstimates == {[fatigue |-> 30000, tempo |-> 40000],
                    [fatigue |-> 75000, tempo |-> 50000],
                    [fatigue |-> 95000, tempo |-> 80000]}

SampleReports == {0, 50000, 80000}

\* Rested, tired and overloaded teams, uncertain ones, failed checks.
SampleBundles ==
  LET Of(found, fatigue, tempo, unsure) ==
        [findings |-> found, uncertainty |-> unsure,
         vector |-> [fatigue |-> fatigue, tempo |-> tempo]]
  IN  {Of({}, 30000, 40000, 30000), Of({}, 75000, 50000, 60000), Of({}, 95000, 80000, 30000),
       Of({"thin"}, 30000, 40000, 30000), Of({"markings"}, 75000, 50000, 60000)}

\* Contexts of a mission, of one that cannot be taken back, and one that hardly
\* says anything; a rich, a poor and a thin bundle.
SampleSettings ==
  LET Context(filled, constrained, pressure, reversibility, impact) ==
        [filled |-> filled, constrained |-> constrained, pressure |-> pressure,
         reversibility |-> reversibility, impact |-> impact]
      Of(context, sources, observed, average, stated, rest) ==
        [context |-> context, sources |-> sources, observed |-> observed,
         average |-> average, stated |-> stated,
         effects |-> <<80000, 20000, 50000>>, rest |-> rest]
      mission == Context(4, TRUE, "high", "partially_reversible", "high")
      final == Context(4, TRUE, "medium", "irreversible", "medium")
      bare == Context(2, FALSE, "low", "reversible", "low")
  IN  {Of(mission, 2, 3, 85000, TRUE, 180000), Of(final, 2, 2, 30000, FALSE, 90000),
       Of(bare, 1, 2, 30000, FALSE, 180000), Of(mission, 2, 1, 20000, TRUE, 180000)}

ThreeCreators == {t1, t2, t3}

ThreeCandidates == {c1, c2, c3}
SamplePools == {<<>>, <<c1>>, <<c1, c2>>, <<c1, c1>>, <<c1, c2, c3>>, <<c1, c2, c1>>}
TwoSlots == {s1, s2}
SampleCosts == {1, 2}

TwoSoldiers == {c1, c2}
OneDefault == {s1}
TwoMissions == {here, elsewhere}
SampleProfiles == {50}
SampleProjections ==
  {[values |-> <<150, Unusable>>, tells |-> TRUE],
   [values |-> <<Unusable, 20>>, tells |-> FALSE]}
SampleCounts == {1, 3}
SampleIdLists == {<<>>, <<c2, c1>>, <<c1, c1>>}

\* A store with a version of every row, and some without.  Of one soldier both
\* outcomes were updated at one moment.
SampleStores ==
  LET Content(key) ==
        CASE key[1] = "pool" -> <<c2, c1>> [] key[1] = "soldier" -> 50
          [] key[1] = "slot" -> "role"
          [] key[1] = "training" -> [values |-> <<60, 70>>, tells |-> TRUE]
          [] OTHER -> [values |-> <<IF key[2] = here THEN 40 ELSE 80>>, tells |-> key[2] = here]
      Version(key) == IF key = <<"outcome", here, c1>> THEN 2 ELSE 1
      Without(keys) == [key \in Keys |->
        IF key \in keys THEN NoRow ELSE [version |-> Version(key), content |-> Content(key)]]
  IN  {Without({}), Without({<<"pool">>}), Without({<<"soldier", c1>>}),
       [Without({<<"slot", s1>>, <<"training", c1>>, <<"outcome", here, c1>>}) EXCEPT
          ![<<"pool">>] = [version |-> 1, content |-> <<c1, c1>>]]}

SampleAsks ==
  LET Asked(candidates, roles, pooled, persistent) ==
        [candidates |-> candidates, roles |-> roles, pooled |-> pooled,
         persistent |-> persistent]
      someone == <<[id |-> c2, value |-> 30]>>
  IN  {Asked(NotGiven, r, TRUE, TRUE) : r \in {NotGiven, {}, {s1}}}
      \cup {Asked(c, r, p, FALSE) : c \in {NotGiven, <<>>, someone},
                                  r \in {NotGiven, {s1, s2}}, p \in BOOLEAN}

\* Two that take the same rows in opposite orders, one that has a row twice.
SampleBatches == <<<<"x", "y">>, <<"y", "x">>, <<"x", "x", "z">>>>

-----------------------------------------------------------------------------

\* What a part that does not move is set to.
EvidenceAtRest ==
  /\ phase = "idle" /\ artifacts = <<>> /\ baseline = <<>> /\ observations = <<>>
  /\ tries = 0 /\ estimate = NoEstimate /\ checks = {}
  /\ request = [artifacts |-> <<>>, observations |-> <<>>, environment |-> "blank",
                controls |-> ordinary, gated |-> TRUE]

AdviceAtRest ==
  /\ NothingAdvised
  /\ step = "idle" /\ findings = {} /\ vector = NoEstimate /\ uncertainty = 0
  /\ options = NoOptions /\ alike = {} /\ attempts = 0 /\ reviewed = 0

ChainAtRest ==
  /\ saved = {} /\ previous = [c \in Creators |-> None] /\ created = [c \in Creators |-> 0]
  /\ clock = 0 /\ last = Genesis /\ pc = [c \in Creators |-> "idle"]
  /\ postgres = FALSE /\ mishaps = {}

SelectionAtRest ==
  /\ stage = "received" /\ pool = <<>> /\ slots = {} /\ scores = Nobody
  /\ primary = Nobody /\ second = Nobody

PoolAtRest ==
  /\ reading = "received" /\ got = <<>> /\ answer = NoAnswer /\ loads = 0 /\ seen = {}
  /\ asked = [candidates |-> NotGiven, roles |-> NotGiven, pooled |-> FALSE, persistent |-> FALSE]
  /\ rows = [key \in Keys |-> NoRow]

UnusedIngest == backend = "local" /\ IngestAtRest

Init ==
  \/ /\ part = "evidence" /\ EvidenceInit
     /\ AdviceAtRest /\ ChainAtRest /\ SelectionAtRest
     /\ PoolAtRest /\ UnusedIngest
  \/ /\ part = "options" /\ AdviceInit
     /\ EvidenceAtRest /\ ChainAtRest /\ SelectionAtRest
     /\ PoolAtRest /\ UnusedIngest
  \/ /\ part = "chain" /\ ChainInit
     /\ EvidenceAtRest /\ AdviceAtRest /\ SelectionAtRest
     /\ PoolAtRest /\ UnusedIngest
  \/ /\ part = "selection" /\ SelectionInit
     /\ EvidenceAtRest /\ AdviceAtRest /\ ChainAtRest
     /\ PoolAtRest /\ UnusedIngest
  \/ /\ part = "pool" /\ PoolInit
     /\ EvidenceAtRest /\ AdviceAtRest /\ ChainAtRest
     /\ SelectionAtRest /\ UnusedIngest
  \/ /\ part = "ingest" /\ IngestInit
     /\ EvidenceAtRest /\ AdviceAtRest /\ ChainAtRest
     /\ SelectionAtRest /\ PoolAtRest

Next ==
  \/ /\ part = "evidence" /\ EvidenceNext
     /\ UNCHANGED <<part, adviceVars, chainVars, selectionVars, poolVars, ingestVars>>
  \/ /\ part = "options" /\ AdviceNext
     /\ UNCHANGED <<part, evidenceVars, chainVars, selectionVars, poolVars, ingestVars>>
  \/ /\ part = "chain" /\ ChainNext
     /\ UNCHANGED <<part, evidenceVars, adviceVars, selectionVars, poolVars, ingestVars>>
  \/ /\ part = "selection" /\ SelectionNext
     /\ UNCHANGED <<part, evidenceVars, adviceVars, chainVars, poolVars, ingestVars>>
  \/ /\ part = "pool" /\ PoolNext
     /\ UNCHANGED <<part, evidenceVars, adviceVars, chainVars, selectionVars, ingestVars>>
  \/ /\ part = "ingest" /\ IngestNext
     /\ UNCHANGED <<part, evidenceVars, adviceVars, chainVars, selectionVars, poolVars>>

Spec == Init /\ [][Next]_vars
=============================================================================
