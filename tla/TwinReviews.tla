---------------------------- MODULE TwinReviews ----------------------------
(***************************************************************************)
(* The review of an operational twin run: record_decision and              *)
(* record_outcome of OperationalTwinService on one stored run.  Both read  *)
(* the record, check it, save a changed copy, append an audit record and   *)
(* append an update event, and nothing excludes two of them from being     *)
(* between the read and the save at once.                                  *)
(*                                                                         *)
(* A decision, an outcome and a lesson have fresh identifiers and are      *)
(* identified with the call that made them, so the lists of the record are *)
(* sets.  The record exists from the start, as run() saves it; another run *)
(* shares nothing with it but the hash kept by the repository (TwinChain). *)
(*                                                                         *)
(* A definition commented as a variant is no part of the model: it is a    *)
(* mistake the property it names must detect.                              *)
(***************************************************************************)
EXTENDS FiniteSets, Calls

CONSTANTS
  Options,      \* the scenario options of the run
  Unsafe,       \* those with critic_status "reject"
  Reviewers,    \* POST .../options/{id}/decision calls
  Reporters,    \* POST .../outcome calls
  None,         \* nothing read yet, nothing asked yet
  CanCrash      \* the process may stop and be restarted over its stores

Callers == Reviewers \cup Reporters

ASSUME ReviewAssumption ==
  /\ Unsafe \subseteq Options
  /\ Reviewers \cap Reporters = {}

OptionStatuses == {"draft", "approved", "rejected", "escalated"}
RunStatuses == {"draft", "partially_decided", "completed", "outcome_recorded"}
Decision == [by : Reviewers, option : Options,
             decision : OptionStatuses \ {"draft"}]
Outcome == [by : Reporters, option : Options]
TwinRun == [status : RunStatuses, option : [Options -> OptionStatuses],
            decisions : SUBSET Decision, outcomes : SUBSET Outcome,
            lessons : SUBSET Callers]

ASSUME NoneAssumption == None \notin TwinRun \cup Decision \cup Outcome

VARIABLES
  run,      \* the stored record
  audited,  \* calls with an audit record
  events,   \* calls with an update event
  pc,       \* where each call is
  seen,     \* the record each call has read
  asked,    \* the decision or outcome each call was made with
  overlapped  \* a call has read before another saved what it read (history)

vars == <<run, audited, events, pc, seen, asked, overlapped>>

InFlight == {"read", "saved", "audited"}

TypeOK ==
  /\ run \in TwinRun
  /\ audited \in SUBSET Callers
  /\ events \in SUBSET Callers
  /\ pc \in [Callers -> {"idle", "done", "raised", "dead"} \cup InFlight]
  /\ seen \in [Callers -> TwinRun \cup {None}]
  /\ asked \in [Callers -> Decision \cup Outcome \cup {None}]
  /\ overlapped \in BOOLEAN

\* The record as run() saved it.
Init ==
  /\ run = [status |-> "draft", option |-> [p \in Options |-> "draft"],
            decisions |-> {}, outcomes |-> {}, lessons |-> {}]
  /\ audited = {}
  /\ events = {}
  /\ pc = [c \in Callers |-> "idle"]
  /\ seen = [c \in Callers |-> None]
  /\ asked = [c \in Callers |-> None]
  /\ overlapped = FALSE

-----------------------------------------------------------------------------
(* Steps both operations share.                                            *)

Moves(c, to) == pc' = [pc EXCEPT ![c] = to]

\* repository.get().  That another call has read and not saved
\* yet is noted for the properties only: the code has no notion of it.
Read(c) ==
  /\ pc[c] = "idle"
  /\ overlapped' = (overlapped \/ \E d \in Callers : pc[d] = "read")
  /\ \E o \in Outcomes :
       /\ seen' = [seen EXCEPT ![c] = IF o = "ok" THEN run ELSE None]
       /\ Moves(c, Reply(o, "read", "raised"))
  /\ UNCHANGED <<run, audited, events>>

\* Variant (LedgersAgree): a save that fails goes unnoticed.
SaveUnnoticed(c, record) ==
  /\ \E o \in Outcomes : /\ run' = Effect(o, run, record)
                         /\ Moves(c, "saved")
  /\ UNCHANGED <<audited, events, seen, asked, overlapped>>

\* repository.save() overwrites the whole payload.
Save(c, record) ==
  /\ \E o \in Outcomes : /\ run' = Effect(o, run, record)
                         /\ Moves(c, Reply(o, "saved", "raised"))
  /\ UNCHANGED <<audited, events, seen, asked, overlapped>>

AppendAudit(c) ==
  /\ pc[c] = "saved"
  /\ \E o \in Outcomes : /\ audited' = Effect(o, audited, audited \cup {c})
                         /\ Moves(c, Reply(o, "audited", "raised"))
  /\ UNCHANGED <<run, events, seen, asked, overlapped>>

\* Variant (EventsFollowAudit): the event does not wait for the audit record.
AppendEventUnaudited(c) ==
  /\ pc[c] \in {"saved", "audited"}
  /\ \E o \in Outcomes : /\ events' = Effect(o, events, events \cup {c})
                         /\ Moves(c, Reply(o, "done", "raised"))
  /\ UNCHANGED <<run, audited, seen, asked, overlapped>>

AppendEvent(c) ==
  /\ pc[c] = "audited"
  /\ \E o \in Outcomes : /\ events' = Effect(o, events, events \cup {c})
                         /\ Moves(c, Reply(o, "done", "raised"))
  /\ UNCHANGED <<run, audited, seen, asked, overlapped>>

-----------------------------------------------------------------------------
(* record_decision                                                         *)

ReadForDecision(c) ==
  /\ Read(c)
  /\ \E p \in Options, d \in OptionStatuses \ {"draft"} :
       asked' = [asked EXCEPT ![c] = [by |-> c, option |-> p, decision |-> d]]

\* Only a draft option, and not to approve what the critic rejected.
Decidable(record, ask) ==
  /\ record.option[ask.option] = "draft"
  /\ ~(ask.decision = "approved" /\ ask.option \in Unsafe)

\* The lesson a decision leaves: one, if it approves.
LessonOf(ask) == IF ask.decision = "approved" THEN {ask.by} ELSE {}

\* The copy of the record read, with the decision and its lesson.
Decided(record, ask) ==
  [status |-> IF ask.decision = "approved" THEN "completed"
                                           ELSE "partially_decided",
   option |-> [record.option EXCEPT ![ask.option] = ask.decision],
   decisions |-> record.decisions \cup {ask},
   outcomes |-> record.outcomes,
   lessons |-> record.lessons \cup LessonOf(ask)]

\* 409: "already been decided" or "cannot be approved".
RefuseDecision(c) ==
  /\ pc[c] = "read"
  /\ ~Decidable(seen[c], asked[c])
  /\ Moves(c, "raised")
  /\ UNCHANGED <<run, audited, events, seen, asked, overlapped>>

SaveDecision(c) ==
  /\ pc[c] = "read"
  /\ Decidable(seen[c], asked[c])
  /\ Save(c, Decided(seen[c], asked[c]))

-----------------------------------------------------------------------------
(* record_outcome                                                          *)

ReadForOutcome(c) ==
  /\ Read(c)
  /\ \E p \in Options :
       asked' = [asked EXCEPT ![c] = [by |-> c, option |-> p]]

\* Variant (RecordIsConsistent): any decided option has an outcome.
ReportableIfDecided(record, ask) == record.option[ask.option] # "draft"

Reportable(record, ask) == record.option[ask.option] = "approved"

\* Variant (HistoryOnlyGrows): the outcome replaces the ones before it.
ReportedAnew(record, ask) ==
  [record EXCEPT !.status = "outcome_recorded",
                 !.outcomes = {ask},
                 !.lessons = @ \cup {ask.by}]

Reported(record, ask) ==
  [status |-> "outcome_recorded",
   option |-> record.option,
   decisions |-> record.decisions,
   outcomes |-> record.outcomes \cup {ask},
   lessons |-> record.lessons \cup {ask.by}]

\* 409: "outcomes can only be captured for approved options".
RefuseOutcome(c) ==
  /\ pc[c] = "read"
  /\ ~Reportable(seen[c], asked[c])
  /\ Moves(c, "raised")
  /\ UNCHANGED <<run, audited, events, seen, asked, overlapped>>

SaveOutcome(c) ==
  /\ pc[c] = "read"
  /\ Reportable(seen[c], asked[c])
  /\ Save(c, Reported(seen[c], asked[c]))

-----------------------------------------------------------------------------

\* The calls in flight are lost; the stores remain.
Crash ==
  /\ CanCrash
  /\ pc' = [c \in Callers |-> IF pc[c] \in InFlight THEN "dead" ELSE pc[c]]
  /\ UNCHANGED <<run, audited, events, seen, asked, overlapped>>

Next ==
  \/ \E c \in Reviewers : ReadForDecision(c) \/ RefuseDecision(c) \/ SaveDecision(c)
  \/ \E c \in Reporters : ReadForOutcome(c) \/ RefuseOutcome(c) \/ SaveOutcome(c)
  \/ \E c \in Callers : AppendAudit(c) \/ AppendEvent(c)
  \/ Crash

Spec == Init /\ [][Next]_vars

-----------------------------------------------------------------------------
(* Properties.                                                             *)

\* What makes a record consistent.  Its parts are written by different calls
\* from copies of different age, so none of them is settled by one guard.
OptionsFollowDecisions(record) ==
  /\ \A d \in record.decisions : record.option[d.option] = d.decision
  /\ \A d, e \in record.decisions : d.option = e.option => d = e
  /\ \A p \in Options : record.option[p] # "draft" =>
       \E d \in record.decisions : d.option = p

\* An approved option is not one the critic rejected, an outcome is about an
\* approved one, and each has its lesson, as every approval has.
ReviewIsSound(record) ==
  /\ \A p \in Unsafe : record.option[p] # "approved"
  /\ \A u \in record.outcomes : record.option[u.option] = "approved"
  /\ record.lessons = {u.by : u \in record.outcomes} \cup
       {d.by : d \in {e \in record.decisions : e.decision = "approved"}}

\* The run's status is backed by its history.
StatusIsBacked(record) ==
  /\ record.status = "draft" <=> record.decisions = {}
  /\ record.status = "completed" =>
       \E d \in record.decisions : d.decision = "approved"
  /\ record.status = "outcome_recorded" => record.outcomes # {}

Consistent(record) ==
  /\ OptionsFollowDecisions(record)
  /\ ReviewIsSound(record)
  /\ StatusIsBacked(record)

\* However the calls overlap, fail or are cut short, the stored record is one
\* whose parts agree, as if every call had been let finish: an update may be
\* lost, but never half of it.
RecordIsConsistent == Consistent(run)

\* No save takes a decision or an outcome out of the record, as long as no
\* call reads what another is about to overwrite.
HistoryOnlyGrows ==
  [][~overlapped => /\ run.decisions \subseteq run'.decisions
                    /\ run.outcomes \subseteq run'.outcomes]_run

Recorded(c) ==
  \/ \E d \in run.decisions : d.by = c
  \/ \E u \in run.outcomes : u.by = c

\* The audit log and the events tell of nothing that the record does not
\* have, and of all that it has but for what a failed call left behind.
\* As long as no call reads what another is about to overwrite.
LedgersAgree ==
  ~overlapped =>
    /\ events \cup audited \subseteq {c \in Callers : Recorded(c)}
    /\ \A c \in Callers : Recorded(c) =>
         c \in events \/ pc[c] \in {"saved", "audited", "raised", "dead"}

\* Every update event is preceded by its audit record, overlap or not.
EventsFollowAudit == events \subseteq audited

-----------------------------------------------------------------------------
(* The inductive invariants (TwinReviewsProofs).                           *)

\* What a call has read is consistent too, does not tell of the call itself,
\* and what it was asked is a decision or an outcome of its own.
ReadsAreConsistent ==
  \A c \in Callers : pc[c] = "read" =>
    /\ seen[c] # None /\ Consistent(seen[c])
    /\ c \in Reviewers => asked[c] \in Decision /\ asked[c].by = c
    /\ c \in Reporters => asked[c] \in Outcome /\ asked[c].by = c

ConsistencyInv == TypeOK /\ RecordIsConsistent /\ ReadsAreConsistent

\* Calls that do not overlap see the record they overwrite.
SerialReadsAreCurrent ==
  ~overlapped =>
    /\ \A c, d \in Callers : pc[c] = "read" /\ pc[d] = "read" => c = d
    /\ \A c \in Callers : pc[c] = "read" => seen[c] = run

\* A call that has its audit record is one that the log has.
AuditedAreLogged == \A c \in Callers : pc[c] = "audited" => c \in audited

\* How far a call has come is how far the record and the ledgers tell of it.
LedgersFollowCalls ==
  ~overlapped =>
    /\ \A c \in audited : Recorded(c)
    /\ \A c \in Callers :
         /\ pc[c] \in {"idle", "read"} => ~Recorded(c)
         /\ pc[c] \in {"saved", "audited"} => Recorded(c)
         /\ pc[c] = "done" => c \in events

SerialInv ==
  /\ ConsistencyInv
  /\ SerialReadsAreCurrent
  /\ EventsFollowAudit /\ AuditedAreLogged
  /\ LedgersFollowCalls
=============================================================================
