------------------------- MODULE DeploymentsProofs -------------------------
(***************************************************************************)
(* Proofs about Deployments, for any options and any number of calls.  As  *)
(* in TwinReviewsProofs, consistency needs no lock: what is saved is a     *)
(* consistent record or a consistent change of one.  That a decision lasts *)
(* and that the ledgers agree needs calls that do not overlap.             *)
(***************************************************************************)
EXTENDS Deployments, TLAPS

LEMMA CallerFacts ==
  /\ Creator \in Callers /\ Creator \notin Approvers /\ Creator \notin Reporters
  /\ Approvers \subseteq Callers /\ Reporters \subseteq Callers
  /\ Approvers \cap Reporters = {}
  /\ \A c \in Callers : c = Creator \/ c \in Approvers \/ c \in Reporters
BY DeploymentAssumption DEF Callers

-----------------------------------------------------------------------------
(* The operators.                                                          *)

LEMMA DecidedConsistent ==
  ASSUME NEW r \in Recommendation, Consistent(r), NEW ask \in Decision, Approvable(r, ask)
  PROVE  Decided(r, ask) \in Recommendation /\ Consistent(Decided(r, ask))
<1>. DEFINE new == Decided(r, ask)
            p == Chosen(r, ask)
            decision == [ask EXCEPT !.option = p]
<1>1. /\ r.gate \in BOOLEAN /\ r.unsafe \in SUBSET Options
      /\ r.recommended \in Options \cup {None}
      /\ r.option \in [Options -> Verdicts \cup {"draft"}]
      /\ r.decisions \in SUBSET Decision /\ r.outcomes \in SUBSET Outcome
      /\ r.lessons \in SUBSET (Approvers \cup Reporters)
  BY DEF Recommendation
<1>2. ask.by \in Approvers /\ ask.decision \in Verdicts /\ ask.option \in Options \cup {None}
  BY DEF Decision
<1>3. p \in Options \cup {None}
  BY <1>1, <1>2 DEF Chosen
<1>4. /\ decision \in Decision /\ decision.by = ask.by
      /\ decision.option = p /\ decision.decision = ask.decision
  BY <1>2, <1>3 DEF Decision
<1>5. /\ r.status = "pending_approval"
      /\ ask.decision = "approved" => p \in Options \ r.unsafe
  BY DEF Approvable
<1>6. /\ r.gate /\ r.decisions = {} /\ r.outcomes = {} /\ r.lessons = {}
      /\ r.recommended \notin r.unsafe
      /\ \A q \in Options : r.option[q] = "draft"
  <2>1. r.gate /\ r.decisions = {} /\ r.outcomes = {} /\ r.recommended \notin r.unsafe
    BY <1>5 DEF Consistent, DecisionFits, OutcomeFits
  <2>2. \A q \in Options : r.option[q] = "draft"
    BY <2>1 DEF Consistent, DecisionFits
  <2>3. r.lessons = {}
    BY <2>1 DEF Consistent, LessonsFit
  <2>. QED  BY <2>1, <2>2, <2>3
<1>7. /\ new.status = ask.decision /\ new.gate = r.gate /\ new.unsafe = r.unsafe
      /\ new.recommended = r.recommended
      /\ new.option = [q \in Options |-> IF q = p THEN ask.decision ELSE r.option[q]]
      /\ new.decisions = r.decisions \cup {decision} /\ new.outcomes = r.outcomes
      /\ new.lessons = IF ask.decision = "rejected" THEN r.lessons
                                                    ELSE r.lessons \cup {ask.by}
  BY DEF Decided
<1>8. new \in Recommendation
  <2>1. new.option \in [Options -> Verdicts \cup {"draft"}]
    BY <1>1, <1>2, <1>7
  <2>2. new.decisions \in SUBSET Decision /\ new.lessons \in SUBSET (Approvers \cup Reporters)
    BY <1>1, <1>2, <1>4, <1>7
  <2>3. new.status \in Statuses
    BY <1>2, <1>7 DEF Statuses
  <2>. QED  BY <1>1, <1>7, <2>1, <2>2, <2>3 DEF Recommendation, Decided
<1>9. new.decisions = {decision} /\ new.outcomes = {}
  BY <1>6, <1>7
<1>. HIDE DEF new, decision
<1>10. DecisionFits(new)
  <2>1. new.status # "pending_approval" /\ new.gate
    BY <1>2, <1>6, <1>7, Zenon DEF Verdicts
  <2>2. \A q \in Options : new.option[q] # "draft" <=> q = p
    BY <1>2, <1>6, <1>7 DEF Verdicts
  <2>. QED  BY <1>4, <1>5, <1>7, <1>9, <2>1, <2>2 DEF DecisionFits
<1>11. OutcomeFits(new)
  BY <1>2, <1>6, <1>7, <1>9 DEF OutcomeFits, Verdicts
<1>12. LessonsFit(new)
  BY <1>4, <1>6, <1>7, <1>9 DEF LessonsFit
<1>. QED  BY <1>8, <1>10, <1>11, <1>12 DEF Consistent, new

LEMMA ReportedConsistent ==
  ASSUME NEW r \in Recommendation, Consistent(r), NEW ask \in Outcome,
         Reportable(r), NEW p \in ReportedOption(r, ask)
  PROVE  Reported(r, ask, p) \in Recommendation /\ Consistent(Reported(r, ask, p))
<1>. DEFINE new == Reported(r, ask, p)
            outcome == [by |-> ask.by, option |-> p]
<1>1. /\ r.gate \in BOOLEAN /\ r.unsafe \in SUBSET Options
      /\ r.recommended \in Options \cup {None}
      /\ r.decisions \in SUBSET Decision /\ r.outcomes \in SUBSET Outcome
      /\ r.lessons \in SUBSET (Approvers \cup Reporters)
  BY DEF Recommendation
<1>2. ask.by \in Reporters /\ ask.option \in Options \cup {None}
  BY DEF Outcome
<1>3. p \in Options \cup {None}
  <2>1. \A d \in r.decisions : d.option \in Options \cup {None}
    BY <1>1 DEF Decision
  <2>. QED  BY <1>1, <1>2, <2>1 DEF ReportedOption
<1>4. outcome \in Outcome /\ outcome.by = ask.by
  BY <1>2, <1>3 DEF Outcome
<1>5. /\ new.status = "outcome_recorded" /\ new.gate = r.gate /\ new.unsafe = r.unsafe
      /\ new.recommended = r.recommended /\ new.option = r.option
      /\ new.decisions = r.decisions /\ new.outcomes = r.outcomes \cup {outcome}
      /\ new.lessons = r.lessons \cup {ask.by}
  BY DEF Reported, Recommendation
<1>6. new \in Recommendation
  BY <1>1, <1>2, <1>4 DEF Recommendation, Reported, Statuses
<1>7. r.status \in {"approved", "completed", "outcome_recorded"}
  BY DEF Reportable
<1>8. \A d \in r.decisions : d.decision = "approved"
  <2>1. \A d \in r.decisions : d.decision \in Verdicts
    BY <1>1 DEF Decision
  <2>2. \A d \in r.decisions :
          r.status = d.decision \/ (d.decision = "approved" /\ r.outcomes # {})
    BY DEF Consistent, DecisionFits
  <2>. QED  BY <1>7, <2>1, <2>2 DEF Verdicts
<1>9. r.gate => r.decisions # {}
  BY <1>7 DEF Consistent, DecisionFits
<1>. HIDE DEF new, outcome
<1>10. DecisionFits(new)
  BY <1>5, <1>7, <1>8 DEF Consistent, DecisionFits
<1>11. OutcomeFits(new)
  BY <1>5, <1>8, <1>9 DEF Consistent, OutcomeFits
<1>12. LessonsFit(new)
  <2>1. r.lessons = {u.by : u \in r.outcomes} \cup
          {d.by : d \in {e \in r.decisions : e.decision # "rejected"}}
    BY DEF Consistent, LessonsFit
  <2>2. {u.by : u \in new.outcomes} = {u.by : u \in r.outcomes} \cup {ask.by}
    BY <1>4, <1>5
  <2>. QED  BY <1>5, <2>1, <2>2 DEF LessonsFit
<1>. QED  BY <1>6, <1>10, <1>11, <1>12 DEF Consistent, new

\* The record recommend() saves.
Fresh(gate, unsafe, best) ==
  [status |-> IF gate THEN "pending_approval" ELSE "completed",
   gate |-> gate, unsafe |-> unsafe, recommended |-> best,
   option |-> [p \in Options |-> "draft"],
   decisions |-> {}, outcomes |-> {}, lessons |-> {}]

LEMMA FreshConsistent ==
  ASSUME NEW gate \in BOOLEAN, NEW unsafe \in SUBSET Options,
         NEW best \in Recommendable(unsafe)
  PROVE  Fresh(gate, unsafe, best) \in Recommendation /\ Consistent(Fresh(gate, unsafe, best))
<1>. DEFINE new == Fresh(gate, unsafe, best)
<1>1. best \in Options \cup {None} /\ best \notin unsafe
  BY DeploymentAssumption DEF Recommendable
<1>2. /\ new.status = (IF gate THEN "pending_approval" ELSE "completed")
      /\ new.gate = gate /\ new.unsafe = unsafe /\ new.recommended = best
      /\ new.option = [p \in Options |-> "draft"]
      /\ new.decisions = {} /\ new.outcomes = {} /\ new.lessons = {}
  BY Zenon DEF Fresh
<1>3. new.status \in Statuses
  BY <1>2 DEF Statuses
<1>4. new \in Recommendation
  <2>1. new.option \in [Options -> Verdicts \cup {"draft"}]
    BY <1>2
  <2>. QED  BY <1>1, <1>2, <1>3, <2>1, Zenon DEF Recommendation, Fresh
<1>. HIDE DEF new
<1>5. DecisionFits(new)
  BY <1>2, Zenon DEF DecisionFits
<1>6. OutcomeFits(new)
  BY <1>1, <1>2 DEF OutcomeFits
<1>7. LessonsFit(new)
  BY <1>2 DEF LessonsFit
<1>. QED  BY <1>4, <1>5, <1>6, <1>7 DEF Consistent, new

-----------------------------------------------------------------------------
(* Steps.                                                                  *)

\* What a call of Next is, for a save.
Saves(c, new) ==
  /\ pc[c] = "read" /\ new \in Recommendation /\ Consistent(new) /\ Save(c, new)
  /\ \/ c = Creator /\ new.decisions = {} /\ new.outcomes = {}
     \/ c \in Approvers /\ Approvable(seen[c], asked[c])
        /\ new = Decided(seen[c], asked[c])
     \/ c \in Reporters /\ Reportable(seen[c])
        /\ \E p \in ReportedOption(seen[c], asked[c]) :
             new = Reported(seen[c], asked[c], p)

Refuses(c) ==
  /\ pc[c] = "read" /\ c # Creator /\ Moves(c, "raised") /\ Forget(c)
  /\ UNCHANGED <<twin, record, ledgers, overlapped>>

\* A read with a request of the caller's own.
Reads(c) ==
  /\ c # Creator
  /\ \E requests :
       /\ Read(c, requests)
       /\ \A ask \in requests : ask.by = c
       /\ c \in Approvers => requests \subseteq Decision
       /\ c \in Reporters => requests \subseteq Outcome

LEMMA StepCases ==
  ASSUME DeploymentInv, Next
  PROVE  \/ RunTwin \/ Crash
         \/ \E c \in Callers : \/ Reads(c) \/ Refuses(c) \/ AppendAudit(c) \/ AppendEvent(c)
                             \/ \E new \in Recommendation : Saves(c, new)
<1>. USE CallerFacts
<1>1. CASE SaveRecommendation
  <2>1. PICK gate \in BOOLEAN, unsafe \in SUBSET Options :
          \E best \in Recommendable(unsafe) : Save(Creator, Fresh(gate, unsafe, best))
    BY <1>1 DEF SaveRecommendation, Fresh
  <2>2. PICK best \in Recommendable(unsafe) : Save(Creator, Fresh(gate, unsafe, best))
    BY <2>1
  <2>3. pc[Creator] = "read"
    BY <1>1 DEF SaveRecommendation
  <2>4. Fresh(gate, unsafe, best).decisions = {} /\ Fresh(gate, unsafe, best).outcomes = {}
    BY DEF Fresh
  <2>. QED  BY <2>2, <2>3, <2>4, FreshConsistent DEF Saves
<1>2. ASSUME NEW a \in Approvers, ReadForApproval(a) PROVE Reads(a)
  <2>. DEFINE requests == [by : {a}, option : Options \cup {None}, decision : Verdicts]
  <2>1. requests \subseteq Decision /\ \A ask \in requests : ask.by = a
    BY DEF Decision
  <2>2. Read(a, requests) /\ a # Creator /\ a \notin Reporters
    BY <1>2, DeploymentAssumption DEF ReadForApproval
  <2>. QED  BY <2>1, <2>2 DEF Reads
<1>3. ASSUME NEW u \in Reporters, ReadForOutcome(u) PROVE Reads(u)
  <2>. DEFINE requests == [by : {u}, option : Options \cup {None}]
  <2>1. requests \subseteq Outcome /\ \A ask \in requests : ask.by = u
    BY DEF Outcome
  <2>2. Read(u, requests) /\ u # Creator /\ u \notin Approvers
    BY <1>3, DeploymentAssumption DEF ReadForOutcome
  <2>. QED  BY <2>1, <2>2 DEF Reads
<1>4. ASSUME NEW a \in Approvers, SaveApproval(a)
      PROVE  \E new \in Recommendation : Saves(a, new)
  <2>1. pc[a] = "read" /\ Approvable(seen[a], asked[a]) /\ Save(a, Decided(seen[a], asked[a]))
    BY <1>4 DEF SaveApproval
  <2>2. seen[a] \in Recommendation /\ Consistent(seen[a]) /\ asked[a] \in Decision
    BY <2>1 DEF DeploymentInv, TypeOK, ReadsAreConsistent
  <2>. QED  BY <2>1, <2>2, DecidedConsistent DEF Saves
<1>5. ASSUME NEW u \in Reporters, SaveOutcome(u)
      PROVE  \E new \in Recommendation : Saves(u, new)
  <2>1. PICK p \in ReportedOption(seen[u], asked[u]) :
          Save(u, Reported(seen[u], asked[u], p))
    BY <1>5 DEF SaveOutcome
  <2>2. pc[u] = "read" /\ Reportable(seen[u])
    BY <1>5 DEF SaveOutcome
  <2>3. seen[u] \in Recommendation /\ Consistent(seen[u]) /\ asked[u] \in Outcome
    BY <2>2 DEF DeploymentInv, TypeOK, ReadsAreConsistent
  <2>. QED  BY <2>1, <2>2, <2>3, ReportedConsistent DEF Saves
<1>6. ASSUME NEW a \in Approvers, RefuseApproval(a) PROVE Refuses(a)
  BY <1>6 DEF RefuseApproval, Refuses
<1>7. ASSUME NEW u \in Reporters, RefuseOutcome(u) PROVE Refuses(u)
  BY <1>7 DEF RefuseOutcome, Refuses
<1>. QED  BY <1>1, <1>2, <1>3, <1>4, <1>5, <1>6, <1>7 DEF Next

LEMMA SaveFacts ==
  ASSUME DeploymentInv, NEW c \in Callers, NEW new, Saves(c, new)
  PROVE  /\ record' \in {record, new}
         /\ record' = new \/ pc'[c] = "raised"
         /\ pc'[c] \in {"saved", "raised"}
         /\ \A d \in Callers \ {c} : /\ pc'[d] = pc[d] /\ seen'[d] = seen[d]
                                    /\ asked'[d] = asked[d]
         /\ pc' \in [Callers -> {"idle", "done", "raised", "dead"} \cup InFlight]
         /\ seen' \in [Callers -> Recommendation \cup {None}]
         /\ asked' \in [Callers -> Decision \cup Outcome \cup {None}]
         /\ UNCHANGED <<twin, audited, events, overlapped>>
<1>1. PICK o \in Outcomes : /\ record' = Effect(o, record, new)
                            /\ Moves(c, Reply(o, "saved", "raised"))
  BY DEF Saves, Save
<1>2. /\ pc \in [Callers -> {"idle", "done", "raised", "dead"} \cup InFlight]
      /\ seen \in [Callers -> Recommendation \cup {None}]
      /\ asked \in [Callers -> Decision \cup Outcome \cup {None}]
  BY DEF DeploymentInv, TypeOK
<1>3. /\ seen' = [seen EXCEPT ![c] = None] /\ asked' = [asked EXCEPT ![c] = None]
      /\ UNCHANGED <<twin, audited, events, overlapped>>
  BY DEF Saves, Save, Forget, ledgers
<1>4. Reply(o, "saved", "raised") \in {"saved", "raised"}
      /\ (Effect(o, record, new) = new \/ Reply(o, "saved", "raised") = "raised")
      /\ Effect(o, record, new) \in {record, new}
  BY DEF Reply, Effect
<1>5. pc' = [pc EXCEPT ![c] = Reply(o, "saved", "raised")]
  BY <1>1 DEF Moves
<1>. QED  BY <1>1, <1>2, <1>3, <1>4, <1>5 DEF InFlight

LEMMA ReadFacts ==
  ASSUME DeploymentInv, NEW c \in Callers, Reads(c)
  PROVE  /\ pc[c] = "idle" /\ pc'[c] \in {"read", "raised"}
         /\ \A d \in Callers \ {c} : /\ pc'[d] = pc[d] /\ seen'[d] = seen[d]
                                    /\ asked'[d] = asked[d]
         /\ pc'[c] = "read" =>
              /\ record # None /\ seen'[c] = record /\ asked'[c].by = c
              /\ c \in Approvers => asked'[c] \in Decision
              /\ c \in Reporters => asked'[c] \in Outcome
         /\ pc' \in [Callers -> {"idle", "done", "raised", "dead"} \cup InFlight]
         /\ seen' \in [Callers -> Recommendation \cup {None}]
         /\ asked' \in [Callers -> Decision \cup Outcome \cup {None}]
         /\ overlapped' = (overlapped \/ \E d \in Callers : pc[d] = "read")
         /\ UNCHANGED <<twin, record, audited, events>>
<1>1. PICK requests :
        /\ Read(c, requests) /\ \A ask \in requests : ask.by = c
        /\ c \in Approvers => requests \subseteq Decision
        /\ c \in Reporters => requests \subseteq Outcome
  BY DEF Reads
<1>2. /\ pc \in [Callers -> {"idle", "done", "raised", "dead"} \cup InFlight]
      /\ seen \in [Callers -> Recommendation \cup {None}]
      /\ asked \in [Callers -> Decision \cup Outcome \cup {None}]
      /\ record \in Recommendation \cup {None}
  BY DEF DeploymentInv, TypeOK
<1>3. /\ pc[c] = "idle" /\ UNCHANGED <<twin, record, audited, events>>
      /\ overlapped' = (overlapped \/ \E d \in Callers : pc[d] = "read")
  BY <1>1 DEF Read, ledgers
<1>4. c \in Approvers \/ c \in Reporters
  BY CallerFacts DEF Reads
<1>5. CASE /\ record # None
           /\ \E ask \in requests : asked' = [asked EXCEPT ![c] = ask]
           /\ seen' = [seen EXCEPT ![c] = record]
           /\ Moves(c, "read")
  <2>1. PICK ask \in requests : asked' = [asked EXCEPT ![c] = ask]
    BY <1>5
  <2>2. ask \in Decision \cup Outcome /\ ask.by = c
        /\ (c \in Approvers => ask \in Decision) /\ (c \in Reporters => ask \in Outcome)
    BY <1>1, <1>4
  <2>3. /\ asked'[c] = ask /\ asked' \in [Callers -> Decision \cup Outcome \cup {None}]
        /\ \A d \in Callers \ {c} : asked'[d] = asked[d]
    BY <1>2, <2>1, <2>2
  <2>4. /\ seen'[c] = record /\ seen' \in [Callers -> Recommendation \cup {None}]
        /\ \A d \in Callers \ {c} : seen'[d] = seen[d]
    BY <1>2, <1>5
  <2>5. /\ pc'[c] = "read"
        /\ pc' \in [Callers -> {"idle", "done", "raised", "dead"} \cup InFlight]
        /\ \A d \in Callers \ {c} : pc'[d] = pc[d]
    BY <1>2, <1>5 DEF Moves, InFlight
  <2>. QED  BY <1>3, <1>5, <2>2, <2>3, <2>4, <2>5
<1>6. CASE Moves(c, "raised") /\ UNCHANGED <<seen, asked>>
  <2>1. /\ pc'[c] = "raised"
        /\ pc' \in [Callers -> {"idle", "done", "raised", "dead"} \cup InFlight]
        /\ \A d \in Callers \ {c} : pc'[d] = pc[d]
    BY <1>2, <1>6 DEF Moves, InFlight
  <2>. QED  BY <1>2, <1>3, <1>6, <2>1
<1>. QED  BY <1>1, <1>5, <1>6 DEF Read

-----------------------------------------------------------------------------
(* Consistency.                                                            *)

LEMMA DeploymentInit == Init => DeploymentInv
<1>. SUFFICES ASSUME Init PROVE DeploymentInv
  OBVIOUS
<1>1. twin \in BOOLEAN /\ overlapped \in BOOLEAN
  BY Zenon DEF Init
<1>2. TypeOK
  BY <1>1 DEF Init, TypeOK
<1>. QED  BY <1>2, CallerFacts
          DEF Init, DeploymentInv, RecordIsConsistent, ReadsAreConsistent, InFlight

LEMMA DeploymentStep == DeploymentInv /\ [Next]_vars => DeploymentInv'
<1>. SUFFICES ASSUME DeploymentInv, [Next]_vars PROVE DeploymentInv'
  OBVIOUS
<1>. USE CallerFacts
<1>1. ASSUME NEW c \in Callers, Reads(c) PROVE DeploymentInv'
  <2>1. TypeOK'
    BY <1>1, ReadFacts DEF DeploymentInv, TypeOK
  <2>2. RecordIsConsistent'
    BY <1>1, ReadFacts DEF DeploymentInv, RecordIsConsistent
  <2>3. ReadsAreConsistent'
    BY <1>1, ReadFacts
    DEF DeploymentInv, RecordIsConsistent, ReadsAreConsistent, Reads, InFlight
  <2>. QED  BY <2>1, <2>2, <2>3 DEF DeploymentInv
<1>2. ASSUME NEW c \in Callers, NEW new \in Recommendation, Saves(c, new)
      PROVE  DeploymentInv'
  <2>1. TypeOK'
    BY <1>2, SaveFacts DEF DeploymentInv, TypeOK
  <2>2. twin
    BY <1>2 DEF DeploymentInv, ReadsAreConsistent, Saves, InFlight
  <2>3. RecordIsConsistent'
    BY <1>2, <2>2, SaveFacts DEF DeploymentInv, RecordIsConsistent, Saves
  <2>4. ReadsAreConsistent'
    BY <1>2, <2>2, SaveFacts DEF DeploymentInv, ReadsAreConsistent, InFlight
  <2>. QED  BY <2>1, <2>3, <2>4 DEF DeploymentInv
<1>3. CASE RunTwin
  <2>1. PICK o \in Outcomes : twin' = Effect(o, twin, TRUE)
                             /\ Moves(Creator, Reply(o, "read", "raised"))
    BY <1>3 DEF RunTwin
  <2>2. (twin' = twin \/ twin' = TRUE) /\ (twin' = TRUE \/ pc'[Creator] \notin InFlight)
    BY <2>1 DEF Effect, Reply, Moves, InFlight, DeploymentInv, TypeOK
  <2>3. /\ pc' \in [Callers -> {"idle", "done", "raised", "dead"} \cup InFlight]
        /\ \A d \in Callers \ {Creator} : pc'[d] = pc[d]
    BY <2>1 DEF Reply, Moves, InFlight, DeploymentInv, TypeOK
  <2>4. twin' \in BOOLEAN /\ (twin => twin')
    <3>1. twin \in BOOLEAN
      BY DEF DeploymentInv, TypeOK
    <3>2. CASE twin' = twin
      BY <3>1, <3>2, Zenon
    <3>3. CASE twin' = TRUE
      BY <3>3, Zenon
    <3>. QED  BY <2>2, <3>2, <3>3
  <2>5. TypeOK'
    BY <1>3, <2>3, <2>4 DEF RunTwin, ledgers, DeploymentInv, TypeOK
  <2>6. RecordIsConsistent' /\ ReadsAreConsistent'
    BY <1>3, <2>2, <2>3, <2>4
    DEF RunTwin, ledgers, DeploymentInv, RecordIsConsistent, ReadsAreConsistent
  <2>. QED  BY <2>5, <2>6 DEF DeploymentInv
<1>4. ASSUME NEW c \in Callers, Refuses(c) PROVE DeploymentInv'
  <2>1. TypeOK'
    BY <1>4 DEF Refuses, ledgers, Moves, Forget, InFlight, DeploymentInv, TypeOK
  <2>2. RecordIsConsistent' /\ ReadsAreConsistent'
    BY <1>4
    DEF Refuses, ledgers, Moves, Forget, InFlight, DeploymentInv, TypeOK,
        RecordIsConsistent, ReadsAreConsistent
  <2>. QED  BY <2>1, <2>2 DEF DeploymentInv
<1>5. ASSUME NEW c \in Callers, AppendAudit(c) PROVE DeploymentInv'
  <2>1. PICK o \in Outcomes : /\ audited' = Effect(o, audited, audited \cup {c})
                              /\ Moves(c, Reply(o, "audited", "raised"))
    BY <1>5 DEF AppendAudit
  <2>. QED  BY <1>5, <2>1
            DEF AppendAudit, Effect, Reply, Moves, InFlight, DeploymentInv, TypeOK,
                RecordIsConsistent, ReadsAreConsistent
<1>6. ASSUME NEW c \in Callers, AppendEvent(c) PROVE DeploymentInv'
  <2>1. PICK o \in Outcomes : /\ events' = Effect(o, events, events \cup {c})
                              /\ Moves(c, Reply(o, "done", "raised"))
    BY <1>6 DEF AppendEvent
  <2>. QED  BY <1>6, <2>1
            DEF AppendEvent, Effect, Reply, Moves, InFlight, DeploymentInv, TypeOK,
                RecordIsConsistent, ReadsAreConsistent
<1>7. CASE Crash
  BY <1>7 DEF Crash, ledgers, InFlight, DeploymentInv, TypeOK, RecordIsConsistent,
              ReadsAreConsistent
<1>8. CASE UNCHANGED vars
  BY <1>8 DEF vars, ledgers, DeploymentInv, TypeOK, RecordIsConsistent, ReadsAreConsistent
<1>. QED  BY <1>1, <1>2, <1>3, <1>4, <1>5, <1>6, <1>7, <1>8, StepCases

LEMMA DeploymentInvariant == Spec => []DeploymentInv
BY DeploymentInit, DeploymentStep, PTL DEF Spec

\* However calls overlap, fail or are cut short: decision, status, outcomes
\* and lessons of the stored recommendation agree, nothing rejected by the
\* critic is approved, and the run it was made of exists.
THEOREM RecordStaysConsistent == Spec => []RecordIsConsistent
<1>1. DeploymentInv => RecordIsConsistent
  BY DEF DeploymentInv
<1>. QED  BY <1>1, DeploymentInvariant, PTL

-----------------------------------------------------------------------------
(* Calls that do not overlap.                                              *)

\* What a call adds to the record is its own.
LEMMA SaveRecords ==
  ASSUME SerialInv, ~overlapped, NEW c \in Callers, NEW new \in Recommendation,
         Saves(c, new), record' = new
  PROVE  \A d \in Callers : Recorded(d)' <=> Recorded(d) \/ d = c
<1>1. new # None
  BY NoneAssumption
<1>2. CASE c = Creator
  <2>1. record = None /\ new.decisions = {} /\ new.outcomes = {}
    BY <1>2, CallerFacts DEF Saves, SerialInv, SerialReadsAreCurrent
  <2>. QED  BY <1>1, <1>2, <2>1 DEF Recorded
<1>3. CASE c \in Approvers
  <2>1. /\ new = Decided(seen[c], asked[c]) /\ seen[c] = record /\ record # None
        /\ asked[c] \in Decision /\ asked[c].by = c
    BY <1>3, CallerFacts
    DEF Saves, SerialInv, SerialReadsAreCurrent, DeploymentInv, ReadsAreConsistent
  <2>. DEFINE decision == [asked[c] EXCEPT !.option = Chosen(record, asked[c])]
  <2>2. decision.by = c
    BY <2>1 DEF Decision
  <2>3. new.decisions = record.decisions \cup {decision} /\ new.outcomes = record.outcomes
    BY <2>1 DEF Decided
  <2>. HIDE DEF decision
  <2>. QED  BY <1>1, <2>1, <2>2, <2>3 DEF Recorded
<1>4. CASE c \in Reporters
  <2>1. PICK p : new = Reported(seen[c], asked[c], p)
    BY <1>4, CallerFacts DEF Saves
  <2>2. /\ seen[c] = record /\ record # None /\ asked[c].by = c
        /\ record \in Recommendation
    BY <1>4, CallerFacts
    DEF Saves, SerialInv, SerialReadsAreCurrent, DeploymentInv, ReadsAreConsistent, TypeOK
  <2>. DEFINE outcome == [by |-> c, option |-> p]
  <2>3. /\ new.decisions = record.decisions
        /\ new.outcomes = record.outcomes \cup {outcome} /\ outcome.by = c
    BY <2>1, <2>2 DEF Reported, Recommendation
  <2>. HIDE DEF outcome
  <2>. QED  BY <1>1, <2>2, <2>3 DEF Recorded
<1>. QED  BY <1>2, <1>3, <1>4, CallerFacts

LEMMA SerialStep ==
  ASSUME SerialInv, [Next]_vars
  PROVE  SerialReadsAreCurrent' /\ LedgersFollowCalls'
<1>. USE CallerFacts
<1>1. DeploymentInv /\ SerialReadsAreCurrent /\ LedgersFollowCalls
  BY DEF SerialInv
<1>2. pc \in [Callers -> {"idle", "done", "raised", "dead"} \cup InFlight]
  BY <1>1 DEF DeploymentInv, TypeOK
<1>3. ASSUME NEW c \in Callers, Reads(c)
      PROVE  SerialReadsAreCurrent' /\ LedgersFollowCalls'
  <2>1. /\ pc[c] = "idle" /\ pc'[c] \in {"read", "raised"} /\ c # Creator
        /\ \A d \in Callers \ {c} : pc'[d] = pc[d] /\ seen'[d] = seen[d]
        /\ pc'[c] = "read" => record # None /\ seen'[c] = record
        /\ overlapped' = (overlapped \/ \E d \in Callers : pc[d] = "read")
        /\ UNCHANGED <<record, audited, events>>
    BY <1>1, <1>3, ReadFacts DEF Reads
  <2>2. SerialReadsAreCurrent'
    BY <1>1, <2>1 DEF SerialReadsAreCurrent
  <2>3. LedgersFollowCalls'
    BY <1>1, <2>1 DEF LedgersFollowCalls, Recorded
  <2>. QED  BY <2>2, <2>3
<1>4. ASSUME NEW c \in Callers, NEW new \in Recommendation, Saves(c, new)
      PROVE  SerialReadsAreCurrent' /\ LedgersFollowCalls'
  <2>1. /\ pc[c] = "read" /\ pc'[c] \in {"saved", "raised"} /\ record' \in {record, new}
        /\ record' = new \/ pc'[c] = "raised"
        /\ \A d \in Callers \ {c} : pc'[d] = pc[d] /\ seen'[d] = seen[d]
        /\ UNCHANGED <<audited, events, overlapped>>
    BY <1>1, <1>4, SaveFacts DEF Saves
  <2>2. SerialReadsAreCurrent'
    <3>1. pc'[Creator] \in {"idle", "read"} => record' = None
      BY <1>1, <2>1 DEF SerialReadsAreCurrent
    <3>2. record' = None => record = None
      BY <2>1, NoneAssumption
    <3>. QED  BY <1>1, <2>1, <3>1, <3>2 DEF SerialReadsAreCurrent
  <2>3. LedgersFollowCalls'
    <3>1. CASE overlapped
      BY <2>1, <3>1 DEF LedgersFollowCalls
    <3>2. CASE ~overlapped /\ record' = record
      BY <1>1, <2>1, <3>2, <1>4, SaveRecords DEF LedgersFollowCalls, Recorded
    <3>3. CASE ~overlapped /\ record' = new
      <4>1. \A d \in Callers : Recorded(d)' <=> Recorded(d) \/ d = c
        BY <1>4, <3>3, SaveRecords
      <4>2. \A d \in audited : d \in Callers
        BY <1>1 DEF DeploymentInv, TypeOK
      <4>. QED  BY <1>1, <2>1, <3>3, <4>1, <4>2 DEF LedgersFollowCalls
    <3>. QED  BY <2>1, <3>1, <3>2, <3>3
  <2>. QED  BY <2>2, <2>3
<1>5. CASE RunTwin
  <2>1. PICK o \in Outcomes : Moves(Creator, Reply(o, "read", "raised"))
    BY <1>5 DEF RunTwin
  <2>2. /\ pc[Creator] = "idle" /\ pc'[Creator] \in {"read", "raised"}
        /\ \A d \in Callers \ {Creator} : pc'[d] = pc[d]
    BY <1>2, <1>5, <2>1 DEF RunTwin, Moves, Reply
  <2>3. /\ record = None /\ UNCHANGED <<record, audited, events, seen, overlapped>>
        /\ \A d \in Callers \ {Creator} : pc[d] # "read"
    BY <1>1, <1>5, <2>2 DEF RunTwin, ledgers, SerialReadsAreCurrent
  <2>4. SerialReadsAreCurrent'
    BY <2>2, <2>3 DEF SerialReadsAreCurrent
  <2>5. LedgersFollowCalls'
    BY <1>1, <2>2, <2>3 DEF LedgersFollowCalls, Recorded
  <2>. QED  BY <2>4, <2>5
<1>6. ASSUME NEW c \in Callers, Refuses(c)
      PROVE  SerialReadsAreCurrent' /\ LedgersFollowCalls'
  <2>1. /\ pc'[c] = "raised" /\ UNCHANGED <<record, audited, events, overlapped>>
        /\ \A d \in Callers \ {c} : pc'[d] = pc[d] /\ seen'[d] = seen[d]
    BY <1>2, <1>6 DEF Refuses, Moves, Forget, ledgers
  <2>2. SerialReadsAreCurrent'
    BY <1>1, <2>1 DEF SerialReadsAreCurrent
  <2>3. LedgersFollowCalls'
    BY <1>1, <2>1 DEF LedgersFollowCalls, Recorded
  <2>. QED  BY <2>2, <2>3
<1>7. ASSUME NEW c \in Callers, AppendAudit(c)
      PROVE  SerialReadsAreCurrent' /\ LedgersFollowCalls'
  <2>1. PICK o \in Outcomes : /\ audited' = Effect(o, audited, audited \cup {c})
                              /\ Moves(c, Reply(o, "audited", "raised"))
    BY <1>7 DEF AppendAudit
  <2>2. /\ pc[c] = "saved" /\ UNCHANGED <<record, events, seen, overlapped>>
        /\ audited' \in {audited, audited \cup {c}}
        /\ pc'[c] \in {"audited", "raised"} /\ (pc'[c] = "audited" => c \in audited')
        /\ \A d \in Callers \ {c} : pc'[d] = pc[d]
    BY <1>2, <1>7, <2>1 DEF AppendAudit, Moves, Effect, Reply
  <2>3. SerialReadsAreCurrent'
    BY <1>1, <2>2 DEF SerialReadsAreCurrent
  <2>4. LedgersFollowCalls'
    BY <1>1, <2>2 DEF LedgersFollowCalls, Recorded
  <2>. QED  BY <2>3, <2>4
<1>8. ASSUME NEW c \in Callers, AppendEvent(c)
      PROVE  SerialReadsAreCurrent' /\ LedgersFollowCalls'
  <2>1. PICK o \in Outcomes : /\ events' = Effect(o, events, events \cup {c})
                              /\ Moves(c, Reply(o, "done", "raised"))
    BY <1>8 DEF AppendEvent
  <2>2. /\ pc[c] = "audited" /\ UNCHANGED <<record, audited, seen, overlapped>>
        /\ events' \in {events, events \cup {c}}
        /\ pc'[c] \in {"done", "raised"} /\ (pc'[c] = "done" => c \in events')
        /\ \A d \in Callers \ {c} : pc'[d] = pc[d]
    BY <1>2, <1>8, <2>1 DEF AppendEvent, Moves, Effect, Reply
  <2>3. SerialReadsAreCurrent'
    BY <1>1, <2>2 DEF SerialReadsAreCurrent
  <2>4. LedgersFollowCalls'
    BY <1>1, <2>2 DEF LedgersFollowCalls, Recorded
  <2>. QED  BY <2>3, <2>4
<1>9. CASE Crash
  <2>1. /\ UNCHANGED <<record, audited, events, seen, overlapped>>
        /\ \A d \in Callers : pc'[d] = pc[d] \/ pc'[d] = "dead"
    BY <1>9 DEF Crash, ledgers
  <2>2. SerialReadsAreCurrent'
    BY <1>1, <2>1 DEF SerialReadsAreCurrent
  <2>3. LedgersFollowCalls'
    BY <1>1, <2>1 DEF LedgersFollowCalls, Recorded
  <2>. QED  BY <2>2, <2>3
<1>10. CASE UNCHANGED vars
  BY <1>1, <1>10
  DEF vars, ledgers, SerialReadsAreCurrent, LedgersFollowCalls, Recorded
<1>. QED  BY <1>1, <1>3, <1>4, <1>5, <1>6, <1>7, <1>8, <1>9, <1>10, StepCases

LEMMA SerialInvariant == Spec => []SerialInv
<1>1. Init => SerialInv
  <2>. SUFFICES ASSUME Init PROVE SerialReadsAreCurrent /\ LedgersFollowCalls
    BY DeploymentInit DEF SerialInv
  <2>1. SerialReadsAreCurrent
    BY CallerFacts DEF Init, SerialReadsAreCurrent
  <2>2. LedgersFollowCalls
    BY DEF Init, LedgersFollowCalls, Recorded
  <2>. QED  BY <2>1, <2>2
<1>2. SerialInv /\ [Next]_vars => SerialInv'
  BY DeploymentStep, SerialStep DEF SerialInv
<1>. QED  BY <1>1, <1>2, PTL DEF Spec

\* Without overlap the audit log and the events tell of what the record holds,
\* and of all of it that no failed call left behind.
THEOREM LedgersStayTrue == Spec => []LedgersAgree
<1>1. SerialInv => LedgersAgree
  <2>. SUFFICES ASSUME SerialInv, ~overlapped PROVE LedgersAgree
    BY DEF LedgersAgree
  <2>1. \A c \in Callers :
          pc[c] \in {"idle", "done", "raised", "dead", "read", "saved", "audited"}
    BY DEF SerialInv, DeploymentInv, TypeOK, InFlight
  <2>. QED  BY <2>1 DEF SerialInv, LedgersFollowCalls, LedgersAgree
<1>. QED  BY <1>1, SerialInvariant, PTL

\* A rejected or an escalated recommendation is left as it is.
THEOREM DecisionsAgainstLast == Spec => EscalationIsFinal
<1>1. SerialInv /\ [Next]_vars =>
        [~overlapped /\ record # None /\ record.status \in {"rejected", "escalated"}
           => record' = record]_record
  <2>. SUFFICES ASSUME SerialInv, [Next]_vars, ~overlapped, record # None,
                       record.status \in {"rejected", "escalated"}
                PROVE  record' = record
    OBVIOUS
  <2>1. ASSUME NEW c \in Callers, NEW new \in Recommendation, Saves(c, new)
        PROVE  FALSE
    <3>1. pc[c] = "read" /\ c # Creator
      BY <2>1 DEF Saves, SerialInv, SerialReadsAreCurrent
    <3>2. seen[c] = record
      BY <3>1, CallerFacts DEF SerialInv, SerialReadsAreCurrent
    <3>. QED  BY <2>1, <3>1, <3>2 DEF Saves, Approvable, Reportable
  <2>2. CASE Next
    BY <2>1, <2>2, StepCases
    DEF SerialInv, RunTwin, Crash, Reads, Read, Refuses, AppendAudit, AppendEvent
  <2>. QED  BY <2>2 DEF vars
<1>. QED  BY <1>1, SerialInvariant, PTL DEF Spec, EscalationIsFinal
=============================================================================
