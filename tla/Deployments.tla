---------------------------- MODULE Deployments ----------------------------
(***************************************************************************)
(* The lifecycle of a deployment recommendation: recommend,                *)
(* record_approval and record_outcome of DeploymentRecommendationService.  *)
(* recommend() runs an operational twin and saves a record built from it;  *)
(* the other two read the record, check it and save a changed copy.  All   *)
(* three then append an audit record and an update event.  Nothing         *)
(* excludes two calls from being between the read and the save at once.    *)
(*                                                                         *)
(* One recommendation is modelled: others share nothing with it.  Its      *)
(* identifier can be read from the mission's list as soon as it is saved,  *)
(* so it can be decided on before recommend() has replied.  A decision, an *)
(* outcome and a lesson have fresh identifiers and are identified with the *)
(* call that made them, so the lists of the record are sets.               *)
(*                                                                         *)
(* A definition commented as a variant is no part of the model: it is a    *)
(* mistake the property it names must detect.                              *)
(***************************************************************************)
EXTENDS FiniteSets, Calls

CONSTANTS
  Options,     \* the scenario options of the source twin run
  Creator,     \* the POST /v1/deployment-recommendations call
  Approvers,   \* POST .../approval calls
  Reporters,   \* POST .../outcome calls
  None,        \* no record, no option, nothing asked
  CanCrash     \* the process may stop and be restarted over its stores

Callers == {Creator} \cup Approvers \cup Reporters

ASSUME DeploymentAssumption ==
  /\ Approvers \cap Reporters = {} /\ Creator \notin Approvers \cup Reporters
  /\ None \notin Options

Verdicts == {"approved", "rejected", "escalated"}
Statuses == Verdicts \cup {"pending_approval", "completed", "outcome_recorded"}
Decision == [by : Approvers, option : Options \cup {None}, decision : Verdicts]
Outcome == [by : Reporters, option : Options \cup {None}]
Recommendation ==
  [status : Statuses, gate : BOOLEAN, unsafe : SUBSET Options,
   recommended : Options \cup {None},
   option : [Options -> Verdicts \cup {"draft"}],
   decisions : SUBSET Decision, outcomes : SUBSET Outcome,
   lessons : SUBSET (Approvers \cup Reporters)]

ASSUME NoneAssumption == None \notin Recommendation \cup Decision \cup Outcome

VARIABLES
  twin,     \* the source twin run is stored
  record,   \* the stored recommendation, or None
  audited,  \* calls with an audit record
  events,   \* calls with an update event
  pc,       \* where each call is
  seen,     \* the record each call has read
  asked,    \* the decision or outcome each call was made with
  overlapped  \* a call has read before another saved what it read (history)

ledgers == <<audited, events>>
vars == <<twin, record, ledgers, pc, seen, asked, overlapped>>

InFlight == {"read", "saved", "audited"}

TypeOK ==
  /\ twin \in BOOLEAN
  /\ record \in Recommendation \cup {None}
  /\ audited \in SUBSET Callers
  /\ events \in SUBSET Callers
  /\ pc \in [Callers -> {"idle", "done", "raised", "dead"} \cup InFlight]
  /\ seen \in [Callers -> Recommendation \cup {None}]
  /\ asked \in [Callers -> Decision \cup Outcome \cup {None}]
  /\ overlapped \in BOOLEAN

Init ==
  /\ twin = FALSE
  /\ record = None
  /\ audited = {}
  /\ events = {}
  /\ pc = [c \in Callers |-> "idle"]
  /\ seen = [c \in Callers |-> None]
  /\ asked = [c \in Callers |-> None]
  /\ overlapped = FALSE

-----------------------------------------------------------------------------
(* Steps the operations share.                                             *)

Moves(c, to) == pc' = [pc EXCEPT ![c] = to]

\* repository.get(), by a call made with one of these requests.  No record
\* is a 404, an error reply like the rest.  That another call has read and not
\* saved yet is noted for the properties only: the code has no notion of it.
Read(c, requests) ==
  /\ pc[c] = "idle"
  /\ overlapped' = (overlapped \/ \E d \in Callers : pc[d] = "read")
  /\ \/ /\ record # None
        /\ \E ask \in requests : asked' = [asked EXCEPT ![c] = ask]
        /\ seen' = [seen EXCEPT ![c] = record]
        /\ Moves(c, "read")
     \/ /\ record = None \/ CanFault
        /\ Moves(c, "raised")
        /\ UNCHANGED <<seen, asked>>
  /\ UNCHANGED <<twin, record, ledgers>>

\* What a call read and was asked is not looked at once it has saved or
\* refused.
Forget(c) == /\ seen' = [seen EXCEPT ![c] = None]
             /\ asked' = [asked EXCEPT ![c] = None]

\* Variant (LedgersAgree): a save that fails goes unnoticed.
SaveUnnoticed(c, new) ==
  /\ \E o \in Outcomes : /\ record' = Effect(o, record, new)
                         /\ Moves(c, "saved")
  /\ Forget(c)
  /\ UNCHANGED <<twin, ledgers, overlapped>>

\* repository.save() overwrites the whole payload.
Save(c, new) ==
  /\ \E o \in Outcomes : /\ record' = Effect(o, record, new)
                         /\ Moves(c, Reply(o, "saved", "raised"))
  /\ Forget(c)
  /\ UNCHANGED <<twin, ledgers, overlapped>>

AppendAudit(c) ==
  /\ pc[c] = "saved"
  /\ \E o \in Outcomes : /\ audited' = Effect(o, audited, audited \cup {c})
                         /\ Moves(c, Reply(o, "audited", "raised"))
  /\ UNCHANGED <<twin, record, events, seen, asked, overlapped>>

AppendEvent(c) ==
  /\ pc[c] = "audited"
  /\ \E o \in Outcomes : /\ events' = Effect(o, events, events \cup {c})
                         /\ Moves(c, Reply(o, "done", "raised"))
  /\ UNCHANGED <<twin, record, audited, seen, asked, overlapped>>

-----------------------------------------------------------------------------
(* recommend                                                               *)

\* operational_twin_service.run(): the twin run is stored for good, whatever
\* happens to the recommendation.
RunTwin ==
  /\ pc[Creator] = "idle"
  /\ \E o \in Outcomes : /\ twin' = Effect(o, twin, TRUE)
                         /\ Moves(Creator, Reply(o, "read", "raised"))
  /\ UNCHANGED <<record, ledgers, seen, asked, overlapped>>

\* _recommended_option(): an option the critic did not reject, if any.
Recommendable(unsafe) ==
  IF Options \subseteq unsafe THEN {None} ELSE Options \ unsafe

\* _deployment_response(): the critic's verdicts and the gate are given.
SaveRecommendation ==
  /\ pc[Creator] = "read"
  /\ \E gate \in BOOLEAN, unsafe \in SUBSET Options :
       \E best \in Recommendable(unsafe) :
         Save(Creator,
              [status |-> IF gate THEN "pending_approval" ELSE "completed",
               gate |-> gate, unsafe |-> unsafe, recommended |-> best,
               option |-> [p \in Options |-> "draft"],
               decisions |-> {}, outcomes |-> {}, lessons |-> {}])

-----------------------------------------------------------------------------
(* record_approval                                                         *)

ReadForApproval(a) ==
  Read(a, [by : {a}, option : Options \cup {None}, decision : Verdicts])

\* An approval that names no option is of the recommended one.
Chosen(old, ask) ==
  IF ask.decision = "approved" /\ ask.option = None THEN old.recommended
                                                    ELSE ask.option

\* Variant (EscalationIsFinal): an escalated one may be decided again.
ApprovableOnceEscalated(old, ask) ==
  /\ old.status \in {"pending_approval", "escalated"}
  /\ ask.decision = "approved" => Chosen(old, ask) \in Options \ old.unsafe

\* Only what awaits approval, and only an option the critic did not reject.
Approvable(old, ask) ==
  /\ old.status = "pending_approval"
  /\ ask.decision = "approved" => Chosen(old, ask) \in Options \ old.unsafe

\* The copy of the record read, with the decision, and a lesson unless it
\* rejects.
Decided(old, ask) ==
  [status |-> ask.decision, gate |-> old.gate, unsafe |-> old.unsafe,
   recommended |-> old.recommended,
   option |-> [p \in Options |-> IF p = Chosen(old, ask) THEN ask.decision
                                                         ELSE old.option[p]],
   decisions |-> old.decisions \cup {[ask EXCEPT !.option = Chosen(old, ask)]},
   outcomes |-> old.outcomes,
   lessons |-> IF ask.decision = "rejected" THEN old.lessons
                                            ELSE old.lessons \cup {ask.by}]

\* "not awaiting approval", "require a selected option" or "cannot be
\* approved" (409).  A request for an option the recommendation does not
\* have ends the same way, and is left out.
RefuseApproval(a) ==
  /\ pc[a] = "read" /\ ~Approvable(seen[a], asked[a])
  /\ Moves(a, "raised")
  /\ Forget(a)
  /\ UNCHANGED <<twin, record, ledgers, overlapped>>

SaveApproval(a) ==
  /\ pc[a] = "read" /\ Approvable(seen[a], asked[a])
  /\ Save(a, Decided(seen[a], asked[a]))

-----------------------------------------------------------------------------
(* record_outcome                                                          *)

ReadForOutcome(u) ==
  Read(u, [by : {u}, option : Options \cup {None}])

\* Variant (RecordIsConsistent): any recommendation has an outcome.
ReportableAtOnce(old) == old.status # "rejected"

Reportable(old) == old.status \in {"approved", "completed", "outcome_recorded"}

\* An outcome that names no option is of the approved one, or else of the
\* recommended one.
ReportedOption(old, ask) ==
  LET approved == {d.option : d \in {e \in old.decisions : e.decision = "approved"}}
  IN  IF ask.option # None THEN {ask.option}
      ELSE IF approved # {} THEN approved
      ELSE {old.recommended}

Reported(old, ask, p) ==
  [old EXCEPT !.status = "outcome_recorded",
              !.outcomes = @ \cup {[by |-> ask.by, option |-> p]},
              !.lessons = @ \cup {ask.by}]

\* "outcomes can only be captured for approved deployment recommendations".
RefuseOutcome(u) ==
  /\ pc[u] = "read" /\ ~Reportable(seen[u])
  /\ Moves(u, "raised")
  /\ Forget(u)
  /\ UNCHANGED <<twin, record, ledgers, overlapped>>

SaveOutcome(u) ==
  /\ pc[u] = "read" /\ Reportable(seen[u])
  /\ \E p \in ReportedOption(seen[u], asked[u]) :
       Save(u, Reported(seen[u], asked[u], p))

-----------------------------------------------------------------------------

\* The calls in flight are lost; the stores remain.
Crash ==
  /\ CanCrash
  /\ pc' = [c \in Callers |-> IF pc[c] \in InFlight THEN "dead" ELSE pc[c]]
  /\ UNCHANGED <<twin, record, ledgers, seen, asked, overlapped>>

Next ==
  \/ RunTwin \/ SaveRecommendation
  \/ \E a \in Approvers : ReadForApproval(a) \/ RefuseApproval(a) \/ SaveApproval(a)
  \/ \E u \in Reporters : ReadForOutcome(u) \/ RefuseOutcome(u) \/ SaveOutcome(u)
  \/ \E c \in Callers : AppendAudit(c) \/ AppendEvent(c)
  \/ Crash

Spec == Init /\ [][Next]_vars

-----------------------------------------------------------------------------
(* Properties.                                                             *)

\* The status tells of the decision: one at most, by a human if and only if
\* one was required, and never of an option the critic rejected.
DecisionFits(r) ==
  /\ \A d, e \in r.decisions : d = e
  /\ r.status = "pending_approval" => r.gate
  /\ r.gate /\ r.status # "pending_approval" <=> r.decisions # {}
  /\ \A d \in r.decisions :
       /\ r.status = d.decision \/ (d.decision = "approved" /\ r.outcomes # {})
       /\ d.decision = "approved" => d.option \in Options \ r.unsafe
  /\ \A p \in Options :
       r.option[p] # "draft" <=> \E d \in r.decisions : d.option = p

\* An outcome is of something approved, or of what needed no approval.
OutcomeFits(r) ==
  /\ r.status = "outcome_recorded" <=> r.outcomes # {}
  /\ r.gate /\ r.outcomes # {} => \E d \in r.decisions : d.decision = "approved"
  /\ r.recommended \notin r.unsafe

\* Every outcome leaves its lesson, and every decision but a rejection.
LessonsFit(r) ==
  r.lessons = {u.by : u \in r.outcomes} \cup
    {d.by : d \in {e \in r.decisions : e.decision # "rejected"}}

Consistent(r) == DecisionFits(r) /\ OutcomeFits(r) /\ LessonsFit(r)

\* However the calls overlap, fail or are cut short, the stored record is one
\* a sequence of complete calls could have left, and its source run exists.
RecordIsConsistent == record # None => Consistent(record) /\ twin

Recorded(c) ==
  /\ record # None
  /\ \/ c = Creator
     \/ \E d \in record.decisions : d.by = c
     \/ \E u \in record.outcomes : u.by = c

\* The audit log and the events tell of what is in the record only, and of
\* all of it but what a failed call left behind, as long as no call reads
\* what another is about to overwrite.
LedgersAgree ==
  ~overlapped =>
    /\ events \subseteq audited /\ \A c \in audited : Recorded(c)
    /\ \A c \in Callers : Recorded(c) =>
         c \in events \/ pc[c] \in {"saved", "audited", "raised", "dead"}

\* docs/frontend-integration.md: if the status is rejected or escalated,
\* outcome capture is locked: such a recommendation never changes again, as
\* long as no call reads what another is about to overwrite.
EscalationIsFinal ==
  [][~overlapped /\ record # None /\ record.status \in {"rejected", "escalated"}
       => record' = record]_record

-----------------------------------------------------------------------------
(* The inductive invariants (DeploymentsProofs).                           *)

\* What a call has read is consistent as well, however old it is, and what
\* it was asked is its own.
ReadsAreConsistent ==
  /\ pc[Creator] \in InFlight => twin
  /\ \A c \in Approvers \cup Reporters : pc[c] = "read" =>
       /\ seen[c] # None /\ Consistent(seen[c]) /\ twin
       /\ c \in Approvers => asked[c] \in Decision /\ asked[c].by = c
       /\ c \in Reporters => asked[c] \in Outcome /\ asked[c].by = c

DeploymentInv == TypeOK /\ RecordIsConsistent /\ ReadsAreConsistent

\* There is a record once recommend() has saved one, and before nothing to
\* read; without overlap a call holds the record that is stored, alone.
SerialReadsAreCurrent ==
  /\ pc[Creator] \in {"idle", "read"} => record = None
  /\ record = None => \A c \in Approvers \cup Reporters : pc[c] # "read"
  /\ ~overlapped =>
       \A c \in Approvers \cup Reporters : pc[c] = "read" =>
         /\ seen[c] = record
         /\ \A d \in Callers \ {c} : pc[d] # "read"

\* How far a call has got and what tells of it.
LedgersFollowCalls ==
  ~overlapped =>
    /\ events \subseteq audited /\ \A c \in audited : Recorded(c)
    /\ \A c \in Callers :
         /\ pc[c] \in {"idle", "read"} => ~Recorded(c)
         /\ pc[c] \in {"saved", "audited"} => Recorded(c)
         /\ pc[c] = "audited" => c \in audited
         /\ pc[c] = "done" => c \in events

SerialInv == DeploymentInv /\ SerialReadsAreCurrent /\ LedgersFollowCalls
=============================================================================
