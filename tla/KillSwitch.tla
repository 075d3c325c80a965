----------------------------- MODULE KillSwitch -----------------------------
(***************************************************************************)
(* The kill switch: SelectionService.disabled, the admin endpoints that    *)
(* change it and the direct scores (POST /score) it must stop.  A change   *)
(* is three writes: the flag, the audit record, the update event; a score  *)
(* gathers its context, looks at the flag once, then leaves a trail of     *)
(* audit records and a snapshot.  All of these calls are threads of one    *)
(* process, and the flag is a field of it.  (Agent runs reach score() too: *)
(* AgentRuns.)                                                             *)
(*                                                                         *)
(* An admin call and a score are their own identifiers.  The audit log is  *)
(* the sequence of its records (how they are linked is AuditChain).  What  *)
(* a score computes is left out but for its failing (422).                 *)
(*                                                                         *)
(* A definition commented as a variant is no part of the model: it is a    *)
(* mistake the property it names must detect.                              *)
(***************************************************************************)
EXTENDS Naturals, Sequences, FiniteSets, Calls

CONSTANTS
  Admins,    \* POST /admin/disable and /admin/enable calls
  Scorers,   \* POST /score calls
  CanCrash   \* the process may stop and be restarted over its stores

Callers == Admins \cup Scorers

ASSUME CallersAssumption == Admins \cap Scorers = {}

\* The audit records of a score, in order, and that of one refused.
Trail == <<"score_request_received", "fairness_outcome", "recommendations_returned">>
Refusal == <<"score_request_blocked">>
Switch == "kill_switch_changed"

Kinds == {Switch, "score_request_blocked", "score_request_received",
          "fairness_outcome", "recommendations_returned"}
Record == [kind : {Switch}, by : Admins] \cup [kind : Kinds \ {Switch}, by : Scorers]

VARIABLES
  disabled,   \* SelectionService.disabled
  log,        \* the audit records
  events,     \* the admin calls with an update event, in order
  snapshots,  \* scores with a decision snapshot
  pc,         \* where each call is
  wanted,     \* the value each admin call sets
  shut,       \* scores begun since the switch was last thrown (history)
  mishaps     \* what has happened to changes of the switch (history)

trails == <<log, events, snapshots>>
vars == <<disabled, trails, pc, wanted, shut, mishaps>>

Mishaps == {"overlap", "raised", "restart"}
AdminInFlight == {"set", "recorded"}
Admitted == {"open", "received", "assessed", "returned", "answered"}
InFlight == AdminInFlight \cup {"begun", "blocking"} \cup (Admitted \ {"answered"})
Points == {"idle", "changed", "blocked", "answered", "raised", "dead"} \cup InFlight

TypeOK ==
  /\ disabled \in BOOLEAN
  /\ log \in Seq(Record)
  /\ events \in Seq(Admins)
  /\ snapshots \in SUBSET Scorers
  /\ pc \in [Callers -> Points]
  /\ wanted \in [Admins -> BOOLEAN]
  /\ shut \in SUBSET Scorers
  /\ mishaps \in SUBSET Mishaps

Init ==
  /\ disabled = FALSE
  /\ log = <<>>
  /\ events = <<>>
  /\ snapshots = {}
  /\ pc = [c \in Callers |-> "idle"]
  /\ wanted = [a \in Admins |-> FALSE]
  /\ shut = {}
  /\ mishaps = {}

Moves(c, to) == pc' = [pc EXCEPT ![c] = to]

\* For the properties only: the code has no notion of a mishap.
Note(mishap, happens) ==
  mishaps' = IF happens THEN mishaps \cup {mishap} ELSE mishaps

\* audit_log.append(): the caller goes on at to, or raises.
Audits(c, kind, to) ==
  \E o \in Outcomes :
    /\ log' = Effect(o, log, Append(log, [kind |-> kind, by |-> c]))
    /\ Moves(c, Reply(o, to, "raised"))
    /\ Note("raised", c \in Admins /\ o # "ok")

-----------------------------------------------------------------------------
(* /admin/disable and /admin/enable                                        *)

\* Variant (SwitchIsRecorded): enable() leaves the flag as it is.
SetFlagOnce(a) ==
  /\ pc[a] = "idle"
  /\ \E value \in BOOLEAN :
       /\ disabled' = (disabled \/ value)
       /\ wanted' = [wanted EXCEPT ![a] = value]
       /\ shut' = IF value THEN shut ELSE {}
  /\ Note("overlap", \E b \in Admins : pc[b] \in AdminInFlight)
  /\ Moves(a, "set")
  /\ UNCHANGED trails

\* The scores begun while the switch was thrown are forgotten once it is not.
SetFlag(a) ==
  /\ pc[a] = "idle"
  /\ \E value \in BOOLEAN :
       /\ disabled' = value
       /\ wanted' = [wanted EXCEPT ![a] = value]
       /\ shut' = IF value THEN shut ELSE {}
  /\ Note("overlap", \E b \in Admins : pc[b] \in AdminInFlight)
  /\ Moves(a, "set")
  /\ UNCHANGED trails

AuditSwitch(a) ==
  /\ pc[a] = "set"
  /\ Audits(a, Switch, "recorded")
  /\ UNCHANGED <<disabled, events, snapshots, wanted, shut>>

\* Then the call replies with the flag as it is now.
AppendSwitchEvent(a) ==
  /\ pc[a] = "recorded"
  /\ \E o \in Outcomes : /\ events' = Effect(o, events, Append(events, a))
                         /\ Moves(a, Reply(o, "changed", "raised"))
                         /\ Note("raised", o # "ok")
  /\ UNCHANGED <<disabled, log, snapshots, wanted, shut>>

-----------------------------------------------------------------------------
(* /score                                                                  *)

\* _direct_score_context_input(): retrieval and graph may raise.
GatherContext(s) ==
  /\ pc[s] = "idle"
  /\ \E o \in Outcomes : Moves(s, Reply(o, "begun", "raised"))
  /\ shut' = IF disabled THEN shut \cup {s} ELSE shut
  /\ UNCHANGED <<disabled, trails, wanted, mishaps>>

\* What the last change of the switch in the log says of it.
LastSwitch ==
  \E i \in 1 .. Len(log) : /\ log[i].kind = Switch /\ wanted[log[i].by]
                           /\ \A j \in i + 1 .. Len(log) : log[j].kind # Switch

\* Variant (ShutStaysShut): the state of the switch is taken from the log.
CheckSwitchInLog(s) ==
  /\ pc[s] = "begun"
  /\ Moves(s, IF LastSwitch THEN "blocking" ELSE "open")
  /\ UNCHANGED <<disabled, trails, wanted, shut, mishaps>>

CheckSwitch(s) ==
  /\ pc[s] = "begun"
  /\ Moves(s, IF disabled THEN "blocking" ELSE "open")
  /\ UNCHANGED <<disabled, trails, wanted, shut, mishaps>>

\* 423, "selection engine is disabled".
Refuse(s) ==
  /\ pc[s] = "blocking"
  /\ Audits(s, "score_request_blocked", "blocked")
  /\ UNCHANGED <<disabled, events, snapshots, wanted, shut>>

\* _resolve_inputs() may not find the pool (422), or raise.
ReceiveScore(s) ==
  /\ pc[s] = "open"
  /\ \/ Audits(s, "score_request_received", "received")
     \/ Moves(s, "raised") /\ UNCHANGED <<log, mishaps>>
  /\ UNCHANGED <<disabled, events, snapshots, wanted, shut>>

\* Fewer candidates than roles, or no assignment: 422.  Else the roster.
AssessScore(s) ==
  /\ pc[s] = "received"
  /\ \/ Audits(s, "fairness_outcome", "assessed")
     \/ Moves(s, "raised") /\ UNCHANGED <<log, mishaps>>
  /\ UNCHANGED <<disabled, events, snapshots, wanted, shut>>

\* Variant (ScoresAreTraced): a score is answered though its record is not
\* written.
ReturnScoreAnyway(s) ==
  /\ pc[s] = "assessed"
  /\ \E o \in Outcomes :
       log' = Effect(o, log, Append(log, [kind |-> "recommendations_returned",
                                          by |-> s]))
  /\ Moves(s, "returned")
  /\ UNCHANGED <<disabled, events, snapshots, wanted, shut, mishaps>>

ReturnScore(s) ==
  /\ pc[s] = "assessed"
  /\ Audits(s, "recommendations_returned", "returned")
  /\ UNCHANGED <<disabled, events, snapshots, wanted, shut>>

RecordScoreSnapshot(s) ==
  /\ pc[s] = "returned"
  /\ \E o \in Outcomes :
       /\ snapshots' = Effect(o, snapshots, snapshots \cup {s})
       /\ Moves(s, Reply(o, "answered", "raised"))
  /\ UNCHANGED <<disabled, log, events, wanted, shut, mishaps>>

-----------------------------------------------------------------------------

\* A restarted process has a new SelectionService, with the switch off.
Crash ==
  /\ CanCrash
  /\ pc' = [c \in Callers |-> IF pc[c] \in InFlight THEN "dead" ELSE pc[c]]
  /\ disabled' = FALSE
  /\ shut' = {}
  /\ Note("restart", disabled \/ \E a \in Admins : pc[a] \in AdminInFlight)
  /\ UNCHANGED <<trails, wanted>>

Next ==
  \/ \E a \in Admins : SetFlag(a) \/ AuditSwitch(a) \/ AppendSwitchEvent(a)
  \/ \E s \in Scorers : \/ GatherContext(s) \/ CheckSwitch(s) \/ Refuse(s)
                        \/ ReceiveScore(s) \/ AssessScore(s) \/ ReturnScore(s)
                        \/ RecordScoreSnapshot(s)
  \/ Crash

Spec == Init /\ [][Next]_vars

-----------------------------------------------------------------------------
(* Properties.                                                             *)

\* A score that begins while the switch is thrown is not let in for as long
\* as it stays thrown, although it looks at the switch later than it begins
\* and the change is not recorded yet when the switch already works.
ShutStaysShut ==
  \A s \in shut : /\ disabled
                  /\ pc[s] \notin Admitted
                  /\ \A i \in 1 .. Len(log) :
                       log[i].by = s => log[i].kind \in {Refusal[1]}

\* The positions up to i of the records by these calls, and their number: the
\* rank of the i-th record among theirs.
PlacesOf(calls, i) == {j \in 1 .. i : log[j].by \in calls}
Rank(calls, i) == Cardinality(PlacesOf(calls, i))
Count(calls) == Rank(calls, Len(log))

\* The first record of a call is the first of the story, and so on.
Follows(c, story) ==
  \A i \in 1 .. Len(log) : log[i].by = c =>
    /\ Rank({c}, i) <= Len(story)
    /\ log[i].kind = story[Rank({c}, i)]

\* Whatever fails and wherever the process stops, the log tells of each score
\* a beginning of one story: refused, or received, assessed and returned.
\* What is answered, or has a snapshot, has the whole of it.
ScoresAreTraced ==
  \A s \in Scorers :
    /\ Follows(s, Trail) \/ Follows(s, Refusal)
    /\ pc[s] = "answered" => s \in snapshots
    /\ s \in snapshots => Follows(s, Trail) /\ Count({s}) = Len(Trail)

\* docs/shared-data-contract.md: when the switch changes, an audit record is
\* written and an update event appended.  As long as no two changes overlap,
\* none raises and the process is not restarted on a switch that is thrown
\* or being changed, the last record tells the flag, but for a change under
\* way, and the events tell what the records do, one at most behind.
SwitchIsRecorded ==
  mishaps = {} =>
    /\ disabled = LastSwitch \/ \E a \in Admins : pc[a] = "set" /\ wanted[a] = disabled
    /\ \A i \in PlacesOf(Admins, Len(log)) :
         Rank(Admins, i) <= Len(events) => events[Rank(Admins, i)] = log[i].by
    /\ Count(Admins) \in {Len(events), Len(events) + 1}
    /\ (\A a \in Admins : pc[a] # "recorded") => Count(Admins) = Len(events)

-----------------------------------------------------------------------------
(* The inductive invariant behind the last two (KillSwitchProofs).         *)

\* How far its story a score has told, by its control point.
TracedSoFar(s) ==
  CASE pc[s] \in {"idle", "begun", "blocking", "open"} -> Count({s}) = 0
    [] pc[s] = "received" -> Follows(s, Trail) /\ Count({s}) = 1
    [] pc[s] = "assessed" -> Follows(s, Trail) /\ Count({s}) = 2
    [] pc[s] \in {"returned", "answered"} -> Follows(s, Trail) /\ Count({s}) = 3
    [] OTHER -> Follows(s, Trail) \/ Follows(s, Refusal)

TraceInv ==
  \A s \in Scorers :
    /\ TracedSoFar(s)
    /\ pc[s] = "answered" => s \in snapshots
    /\ s \in snapshots => /\ pc[s] \in {"answered", "raised", "dead"}
                          /\ Follows(s, Trail) /\ Count({s}) = Len(Trail)

\* As long as there is no mishap: one change at a time, set, then in the log,
\* then among the events.
SwitchInv ==
  mishaps = {} =>
    /\ \A a, b \in Admins : {pc[a], pc[b]} \subseteq AdminInFlight => a = b
    /\ \A a \in Admins : pc[a] = "set" => wanted[a] = disabled
    /\ (\A a \in Admins : pc[a] # "set") => disabled = LastSwitch
    /\ \A i \in PlacesOf(Admins, Len(log)) :
         \/ Rank(Admins, i) <= Len(events) /\ events[Rank(Admins, i)] = log[i].by
         \/ Rank(Admins, i) = Len(events) + 1 /\ pc[log[i].by] = "recorded"
    /\ Count(Admins) = IF \E a \in Admins : pc[a] = "recorded"
                       THEN Len(events) + 1 ELSE Len(events)
=============================================================================
