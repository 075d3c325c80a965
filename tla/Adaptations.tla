---------------------------- MODULE Adaptations ----------------------------
(***************************************************************************)
(* The lifecycle of a cognitive adaptation: adapt and record_approval of   *)
(* CognitiveAdaptationService.  adapt() directs three injects and saves    *)
(* them; an approval reads the adaptation, checks that it holds the inject *)
(* decided on and saves a copy with another status.  It looks at no        *)
(* status: an adaptation can be decided on again, and one that asked for   *)
(* no approval can be decided on as well.  Both then append an audit       *)
(* record and an update event, and nothing excludes two approvals from     *)
(* being under way at once.                                                *)
(*                                                                         *)
(* One adaptation is modelled: others share nothing with it.               *)
(*                                                                         *)
(* A definition commented as a variant is no part of the model: it is a    *)
(* mistake the property it names must detect.                              *)
(***************************************************************************)
EXTENDS InjectAdvice, Calls

CONSTANTS
  Creator,    \* the POST /v1/adaptations call
  Approvers,  \* POST .../approval calls
  Evidences,  \* the evidence it may come with: scores for each dimension
  Framings,   \* and how it may be framed
  None,       \* no adaptation, nothing asked
  CanCrash    \* the process may stop and be restarted over its stores

Callers == {Creator} \cup Approvers

Dimensions == Range(Skills) \cup {"sleep_fatigue", "cognitive_load"}

ASSUME AdaptationAssumption ==
  /\ Creator \notin Approvers
  /\ Evidences \subseteq [Dimensions -> Seq(0 .. 100)]
  /\ Framings \subseteq Framing

Verdicts == {"approved", "rejected"}
Decision == [inject : InjectTypes, decision : Verdicts]
Adaptation == [status : {"pending_approval", "completed", "rejected"},
               gated : BOOLEAN, allowed : SUBSET InjectTypes]

\* A piece of evidence has one score for a dimension, or none.
Request ==
  {req \in [gated : BOOLEAN, evidence : Evidences, constraint : Constraint,
            framing : Framings] :
     \A d \in Dimensions : Len(req.evidence[d]) <= req.framing.pieces}

\* A mean of scores from 0 to 100 is one itself.
ASSUME EstimateAssumption ==
  \A evidence \in Evidences, d \in Dimensions : CurrentScore(evidence[d]) \in 0 .. 100

ASSUME NoneAssumption == None \notin Adaptation \cup Decision \cup Request

VARIABLES
  adaptation,  \* the stored adaptation, or None
  request,     \* what adapt() has been called with, until it has saved
  audited,     \* the calls with an audit record, in order
  events,      \* the calls with an update event, in order
  pc,          \* where each call is
  seen,        \* the adaptation each approval has read
  asked,       \* the decision each approval was made with
  mishap       \* approvals overlapped, one raised or was cut short (history)

vars == <<adaptation, request, audited, events, pc, seen, asked, mishap>>

InFlight == {"called", "read", "saved", "audited"}
Points == {"idle", "done", "refused", "raised", "dead"} \cup InFlight

TypeOK ==
  /\ adaptation \in Adaptation \cup {None}
  /\ request \in Request \cup {None}
  /\ audited \in Seq(Callers)
  /\ events \in Seq(Callers)
  /\ pc \in [Callers -> Points]
  /\ seen \in [Approvers -> Adaptation \cup {None}]
  /\ asked \in [Approvers -> Decision \cup {None}]
  /\ mishap \in BOOLEAN

Init ==
  /\ adaptation = None
  /\ request = None
  /\ audited = <<>>
  /\ events = <<>>
  /\ pc = [c \in Callers |-> "idle"]
  /\ seen = [a \in Approvers |-> None]
  /\ asked = [a \in Approvers |-> None]
  /\ mishap = FALSE

-----------------------------------------------------------------------------
(* Steps both operations share.                                            *)

Moves(c, to) == pc' = [pc EXCEPT ![c] = to]

\* For the properties only: the code has no notion of a mishap.
Note(happens) == mishap' = (mishap \/ happens)

Save(c, new) ==
  \E o \in Outcomes : /\ adaptation' = Effect(o, adaptation, new)
                      /\ Moves(c, Reply(o, "saved", "raised"))
                      /\ Note(c \in Approvers /\ o # "ok")

AppendAudit(c) ==
  /\ pc[c] = "saved"
  /\ \E o \in Outcomes : /\ audited' = Effect(o, audited, Append(audited, c))
                         /\ Moves(c, Reply(o, "audited", "raised"))
                         /\ Note(c \in Approvers /\ o # "ok")
  /\ UNCHANGED <<adaptation, request, events, seen, asked>>

AppendEvent(c) ==
  /\ pc[c] = "audited"
  /\ \E o \in Outcomes : /\ events' = Effect(o, events, Append(events, c))
                         /\ Moves(c, Reply(o, "done", "raised"))
                         /\ Note(c \in Approvers /\ o # "ok")
  /\ UNCHANGED <<adaptation, request, audited, seen, asked>>

-----------------------------------------------------------------------------
(* adapt                                                                   *)

Adapt ==
  /\ pc[Creator] = "idle"
  /\ request' \in Request
  /\ Moves(Creator, "called")
  /\ UNCHANGED <<adaptation, audited, events, seen, asked, mishap>>

Directed(req) ==
  [status  |-> IF req.gated THEN "pending_approval" ELSE "completed",
   gated   |-> req.gated,
   allowed |-> Allowed(PrimaryDimension(req.evidence), Pressure(req.evidence),
                       req.constraint)]

SaveAdaptation ==
  /\ pc[Creator] = "called"
  /\ Save(Creator, Directed(request))
  /\ request' = None
  /\ UNCHANGED <<audited, events, seen, asked>>

\* retriever.retrieve() raises: nothing is stored.
FailToRetrieve ==
  /\ CanFault
  /\ pc[Creator] = "called"
  /\ Moves(Creator, "raised")
  /\ request' = None
  /\ UNCHANGED <<adaptation, audited, events, seen, asked, mishap>>

-----------------------------------------------------------------------------
(* record_approval                                                         *)

\* repository.get().  No adaptation is a 404.
ReadForApproval(a) ==
  /\ pc[a] = "idle"
  /\ \/ /\ adaptation # None
        /\ \E ask \in Decision : asked' = [asked EXCEPT ![a] = ask]
        /\ seen' = [seen EXCEPT ![a] = adaptation]
        /\ Moves(a, "read")
        /\ Note(\E b \in Approvers : pc[b] \in InFlight)
     \/ /\ adaptation = None \/ CanFault
        /\ Moves(a, IF adaptation = None THEN "refused" ELSE "raised")
        /\ UNCHANGED <<seen, asked, mishap>>
  /\ UNCHANGED <<adaptation, request, audited, events>>

\* Variant (DecisionsAreOnAllowed): blocked injects are looked up as well.
ApprovableIfKnown(inject, ad) == inject \in InjectTypes

\* The inject is among the recommendations; those that are blocked are not.
Approvable(inject, ad) == inject \in ad.allowed

\* Variant (LedgersTellStatus): a rejection closes the adaptation as well.
ClosedStatus(decision) == "completed"

DecidedStatus(decision) == IF decision = "approved" THEN "completed" ELSE "rejected"

\* 409, "scenario recommendation not found".
RefuseApproval(a) ==
  /\ pc[a] = "read"
  /\ ~ Approvable(asked[a].inject, seen[a])
  /\ Moves(a, "refused")
  /\ UNCHANGED <<adaptation, request, audited, events, seen, asked, mishap>>

SaveApproval(a) ==
  /\ pc[a] = "read"
  /\ Approvable(asked[a].inject, seen[a])
  /\ Save(a, [seen[a] EXCEPT !.status = DecidedStatus(asked[a].decision)])
  /\ UNCHANGED <<request, audited, events, seen, asked>>

-----------------------------------------------------------------------------

\* The process stops and a new one starts over the same stores.
Crash ==
  /\ CanCrash
  /\ pc' = [c \in Callers |-> IF pc[c] \in InFlight THEN "dead" ELSE pc[c]]
  /\ Note(\E a \in Approvers : pc[a] \in InFlight)
  /\ request' = None
  /\ UNCHANGED <<adaptation, audited, events, seen, asked>>

Next ==
  \/ Adapt \/ SaveAdaptation \/ FailToRetrieve
  \/ \E a \in Approvers : ReadForApproval(a) \/ RefuseApproval(a) \/ SaveApproval(a)
  \/ \E c \in Callers : AppendAudit(c) \/ AppendEvent(c)
  \/ Crash

Spec == Init /\ [][Next]_vars

-----------------------------------------------------------------------------
(* Properties.                                                             *)

FirstStatus(ad) == IF ad.gated THEN "pending_approval" ELSE "completed"

Decides(a) ==
  /\ adaptation # None /\ asked[a] # None
  /\ asked[a].inject \in adaptation.allowed
  /\ pc[a] \notin {"idle", "read", "refused"}

\* An adaptation leaves its first status, and a decision enters a ledger, only
\* by an approval that was for an inject the constraints allow, however many
\* approvals decide on it, one over the other, and from stale copies.
DecisionsAreOnAllowed ==
  /\ adaptation # None => \/ adaptation.status = FirstStatus(adaptation)
                          \/ \E a \in Approvers :
                               /\ Decides(a)
                               /\ adaptation.status = DecidedStatus(asked[a].decision)
  /\ \A a \in Approvers \cap (Range(audited) \cup Range(events)) : Decides(a)

\* The last approval in a ledger tells the status of the adaptation ad, what was
\* decided by each being ask; before any, its first status does.
Tells(ledger, ad, ask) ==
  \/ /\ \A i \in 1 .. Len(ledger) : ledger[i] \notin Approvers
     /\ ad.status = FirstStatus(ad)
  \/ \E i \in 1 .. Len(ledger) :
       /\ ledger[i] \in Approvers
       /\ \A j \in 1 .. Len(ledger) : j > i => ledger[j] \notin Approvers
       /\ ad.status = IF ask[ledger[i]].decision = "approved" THEN "completed" ELSE "rejected"

\* docs/architecture.md: the service writes an audit record and an update event
\* for each adaptation and decision.  As long as no approvals overlap, raise or
\* are cut short, the last decision audited and the last one published tell the
\* status, but for an approval under way.
LedgersTellStatus ==
  adaptation # None /\ ~ mishap =>
    /\ Tells(audited, adaptation, asked) \/ \E a \in Approvers : pc[a] = "saved"
    /\ Tells(events, adaptation, asked) \/ \E a \in Approvers : pc[a] \in InFlight

\* The constraint c asks for no less care than d.
Tighter(c, d) ==
  /\ c.maxRisk <= d.maxRisk
  /\ d.blocked \subseteq c.blocked
  /\ c.stress => d.stress

\* How much care the guidance asks of a human.
Care(quality) ==
  CASE DQ!RelianceGuidance(quality) = "accept_with_review" -> 0
    [] DQ!RelianceGuidance(quality) = "challenge_model" -> 1
    [] DQ!RelianceGuidance(quality) = "defer_for_more_info" -> 2
    [] DQ!RelianceGuidance(quality) = "escalate" -> 3

\* What an adaptation for a request would say, were its constraint c and the
\* team under this pressure.
Said(req, pressure, c) ==
  LET skill == PrimaryDimension(req.evidence)
      count == Len(req.evidence[skill])
      allowed == Allowed(skill, pressure, c)
  IN  [allowed |-> allowed,
       care |-> [inject \in InjectTypes |->
         Care(InjectQuality(req.framing, req.gated, count,
                            InjectRisk(inject, pressure), inject \notin allowed))],
       worth |-> [inject \in InjectTypes |-> InjectUtility(req.framing, inject, pressure)],
       careOfWhole |-> Care(WholeQuality(req.framing, req.gated, count, pressure, allowed)),
       worthOfWhole |-> WholeUtility(req.framing, pressure, allowed)]

RelaxesNothing(other, said) ==
  /\ other.allowed \subseteq said.allowed
  /\ \A inject \in InjectTypes : /\ other.care[inject] >= said.care[inject]
                                /\ other.worth[inject] <= said.worth[inject]
  /\ other.careOfWhole >= said.careOfWhole
  /\ other.worthOfWhole <= said.worthOfWhole

\* docs/architecture.md: the auditor blocks what exceeds the limits, and every
\* response tells how far to rely on it.  Had a request come with a tighter
\* constraint, or the team been under more pressure, no inject would have been
\* let through that is blocked as it is, and no guidance would have been
\* milder and nothing worth more, for an inject or for the whole.
MoreCareRelaxesNothing ==
  request # None =>
    LET said == Said(request, Pressure(request.evidence), request.constraint)
    IN  \A pressure \in {Pressure(evidence) : evidence \in Evidences}, c \in Constraint :
          /\ pressure >= Pressure(request.evidence)
          /\ Tighter(c, request.constraint)
          => RelaxesNothing(Said(request, pressure, c), said)

\* docs/architecture.md: the injects are for the current weakest skill.  They
\* are but for what the amount of evidence weighs: no skill is weaker than the
\* primary one by 0.2, nor by anything unless the primary has more evidence.
PrimaryIsNearlyWeakest ==
  request # None =>
    LET primary == request.evidence[PrimaryDimension(request.evidence)]
    IN  \A skill \in Range(Skills) :
          LET passedOver == request.evidence[skill]
          IN  /\ CurrentScore(primary) < CurrentScore(passedOver) + 20
              /\ \/ CurrentScore(primary) <= CurrentScore(passedOver)
                 \/ Len(primary) > Len(passedOver)

-----------------------------------------------------------------------------
(* The inductive invariants (AdaptationsProofs).                           *)

\* What a call holds: adapt() its request until it has saved, before which there
\* is no adaptation; an approval a decision and a copy of the adaptation, of
\* which but the status never changes.
CallsHold ==
  /\ pc[Creator] = "called" => request # None
  /\ pc[Creator] \in {"idle", "called"} => adaptation = None
  /\ \A a \in Approvers : pc[a] = "read" => seen[a] # None /\ asked[a] # None
  /\ \A a \in Approvers : pc[a] = "idle" => asked[a] = None
  /\ \A a \in Approvers : seen[a] # None =>
       /\ adaptation # None
       /\ seen[a].gated = adaptation.gated /\ seen[a].allowed = adaptation.allowed

\* What an approval writes down once it has saved is on an allowed inject.
SavedDecide ==
  \A a \in Approvers : pc[a] \in {"saved", "audited", "done"} => Decides(a)

DecisionInv == TypeOK /\ CallsHold /\ SavedDecide /\ DecisionsAreOnAllowed

\* Unless there is a mishap, approvals take their turns: the one under way has
\* found an adaptation, and until it has written to both ledgers the status is
\* what it has saved.
ApprovalsTakeTurns ==
  /\ \A a \in Approvers : pc[a] \in InFlight => adaptation # None
  /\ \A a, b \in Approvers : pc[a] \in InFlight /\ pc[b] \in InFlight => a = b
  /\ \A a \in Approvers : pc[a] \in {"saved", "audited"} =>
       adaptation.status = DecidedStatus(asked[a].decision)

LedgersFollow ==
  adaptation # None =>
    /\ (\A a \in Approvers : pc[a] # "saved") => Tells(audited, adaptation, asked)
    /\ (\A a \in Approvers : pc[a] \notin {"saved", "audited"})
         => Tells(events, adaptation, asked)

LedgerInv == DecisionInv /\ (~ mishap => ApprovalsTakeTurns /\ LedgersFollow)
=============================================================================
