----------------------------- MODULE AgentRuns -----------------------------
(***************************************************************************)
(* The durable roster workflow: AgentOrchestrator.run and                  *)
(* AgentOrchestrator.record_approval over the run repository, the          *)
(* ephemeral state store (status cache and per-run lock) and the shared    *)
(* data sink.                                                              *)
(*                                                                         *)
(* FastAPI runs the synchronous handlers in a thread pool, so every        *)
(* handler is a process whose steps are its calls on shared state.  A      *)
(* run is identified with the POST /v1/agent-runs call that creates it     *)
(* (its identifier is a fresh uuid); an approver is one POST               *)
(* /v1/agent-runs/{id}/approval call.  What the handlers compute between   *)
(* two calls is local and belongs to the step of the call that follows.    *)
(*                                                                         *)
(* Four switches, CanFault of Calls among them, describe the deployment.   *)
(* The in-memory backend is AtomicLock = LockExpires = CanFault = CanCrash *)
(* = FALSE (a set shared by threads, with check-then-add); Postgres and    *)
(* Redis are all four TRUE.                                                *)
(*                                                                         *)
(* A definition commented as a variant is no part of the model: it is a    *)
(* mistake the property it names must detect.                              *)
(***************************************************************************)
EXTENDS Naturals, FiniteSets, Calls

CONSTANTS
  Runs,         \* POST /v1/agent-runs calls, and the run each one creates
  Approvers,    \* POST /v1/agent-runs/{id}/approval calls
  None,         \* no record, no status, no approval, no target
  AtomicLock,   \* Redis: acquire_lock is one step (SET NX), not
                \* check-then-add, and locks and statuses have a TTL
  LockExpires,  \* with AtomicLock: a handler may be slower than the TTL of
                \* the lock it holds
  CanCrash      \* the process may stop and be restarted over its stores

ASSUME SwitchesAssumption ==
  {AtomicLock, LockExpires, CanCrash} \subseteq BOOLEAN

Statuses == {"queued", "running", "awaiting_approval",
             "completed", "rejected", "failed"}
Decisions == {"approved", "rejected"}

Approval == [decision : Decisions, approver : Approvers]
AgentRun == [status : Statuses, gate : BOOLEAN, rec : BOOLEAN,
             approval : Approval \cup {None}]
Event == [run : Runs, approval : Approval]

ASSUME NoneAssumption ==
  /\ None \notin Runs
  /\ None \notin Statuses
  /\ None \notin Approval
  /\ None \notin AgentRun

VARIABLES
  runs,       \* system2_agent_runs: the record of each run, or None
  statuses,   \* ephemeral status of each run, or None
  locks,      \* runs whose lock key is present
  disabled,   \* SelectionService.disabled
  snapshots,  \* runs with a decision_snapshots row
  events,     \* approval rows of entity_update_events
  pc,         \* where the creating handler of each run is
  apc,        \* where each approval handler is
  target,     \* the run an approval handler was called for
  seen,       \* the record an approval handler read
  choice      \* the decision an approval handler was given

stores == <<runs, statuses, snapshots, events>>
approvers == <<apc, target, seen, choice>>
vars == <<runs, statuses, locks, disabled, snapshots, events, pc, approvers>>

-----------------------------------------------------------------------------
(* Control points.  "done" is a normal reply; "raised" an error reply.     *)

\* Between acquire_lock() and release_lock() of each handler.
LockedRunPCs == {"locked", "running", "working", "scoring", "scored",
                 "stored", "snapped", "failing", "failed",
                 "release", "releaseRaise"}
LockedApproverPCs == {"locked", "saved", "published",
                      "release", "releaseRaise"}
EndPCs == {"done", "raised", "dead"}

RunPCs == {"idle", "created", "queued", "checked"} \cup LockedRunPCs \cup EndPCs
ApproverPCs == {"idle", "read", "checked"} \cup LockedApproverPCs \cup EndPCs

TypeOK ==
  /\ runs \in [Runs -> AgentRun \cup {None}]
  /\ statuses \in [Runs -> Statuses \cup {None}]
  /\ locks \in SUBSET Runs
  /\ disabled \in BOOLEAN
  /\ snapshots \in SUBSET Runs
  /\ events \in SUBSET Event
  /\ pc \in [Runs -> RunPCs]
  /\ apc \in [Approvers -> ApproverPCs]
  /\ target \in [Approvers -> Runs \cup {None}]
  /\ seen \in [Approvers -> AgentRun \cup {None}]
  /\ choice \in [Approvers -> Decisions]

Init ==
  /\ runs = [r \in Runs |-> None]
  /\ statuses = [r \in Runs |-> None]
  /\ locks = {}
  /\ disabled = FALSE
  /\ snapshots = {}
  /\ events = {}
  /\ pc = [r \in Runs |-> "idle"]
  /\ apc = [a \in Approvers |-> "idle"]
  /\ target = [a \in Approvers |-> None]
  /\ seen = [a \in Approvers |-> None]
  /\ choice = [a \in Approvers |-> "approved"]

-----------------------------------------------------------------------------
(* Steps.                                                                  *)

RunMoves(r, to) == pc' = [pc EXCEPT ![r] = to]
ApproverMoves(a, to) == apc' = [apc EXCEPT ![a] = to]

\* save() overwrites the whole payload of run r.
Save(o, r, record) == runs' = Effect(o, runs, [runs EXCEPT ![r] = record])

SetStatus(o, r, status) ==
  statuses' = Effect(o, statuses, [statuses EXCEPT ![r] = status])

\* Variant (MutualExclusion, DecisionNeverErased): a SET without NX.
AcquireLockBlindly(r, here, to) ==
  \E o \in Outcomes : /\ locks' = Effect(o, locks, locks \cup {r})
                      /\ to = Reply(o, "locked", "raised")

\* acquire_lock() by a handler at control point here, which it leaves for
\* to: SET NX in one step, or a membership test and then, from "checked",
\* the add.  A lock that is taken is a RuntimeError (423).
AcquireLock(r, here, to) ==
  \/ /\ here # "checked" /\ r \in locks
     /\ to = "raised"
     /\ UNCHANGED locks
  \/ /\ here # "checked" /\ r \notin locks /\ ~AtomicLock
     /\ to = "checked"
     /\ UNCHANGED locks
  \/ /\ here = "checked" \/ (AtomicLock /\ r \notin locks)
     /\ \E o \in Outcomes : /\ locks' = Effect(o, locks, locks \cup {r})
                            /\ to = Reply(o, "locked", "raised")

\* release_lock() deletes the key whoever holds it.
ReleaseLock(o, r) == locks' = Effect(o, locks, locks \ {r})

-----------------------------------------------------------------------------
(* AgentOrchestrator.run                                                   *)

\* repository.create(): the request says whether a human must approve.
CreateRun(r) ==
  /\ pc[r] = "idle"
  /\ \E o \in Outcomes, gate \in BOOLEAN :
       /\ Save(o, r, [status |-> "queued", gate |-> gate, rec |-> FALSE,
                      approval |-> None])
       /\ RunMoves(r, Reply(o, "created", "raised"))
  /\ UNCHANGED <<statuses, locks, disabled, snapshots, events, approvers>>

CacheQueued(r) ==
  /\ pc[r] = "created"
  /\ \E o \in Outcomes : /\ SetStatus(o, r, "queued")
                         /\ RunMoves(r, Reply(o, "queued", "raised"))
  /\ UNCHANGED <<runs, locks, disabled, snapshots, events, approvers>>

LockRun(r) ==
  /\ pc[r] \in {"queued", "checked"}
  /\ \E to \in {"checked", "locked", "raised"} :
       AcquireLock(r, pc[r], to) /\ RunMoves(r, to)
  /\ UNCHANGED <<stores, disabled, approvers>>

\* The record the handler holds in its variable `run` once it has the lock.
Running(r) == [status |-> "running", gate |-> runs[r].gate,
               rec |-> FALSE, approval |-> None]

\* This call and the next are outside the try block: if they raise, the lock
\* is not released.
SaveRunning(r) ==
  /\ pc[r] = "locked"
  /\ \E o \in Outcomes : /\ Save(o, r, Running(r))
                         /\ RunMoves(r, Reply(o, "running", "raised"))
  /\ UNCHANGED <<statuses, locks, disabled, snapshots, events, approvers>>

CacheRunning(r) ==
  /\ pc[r] = "running"
  /\ \E o \in Outcomes : /\ SetStatus(o, r, "running")
                         /\ RunMoves(r, Reply(o, "working", "raised"))
  /\ UNCHANGED <<runs, locks, disabled, snapshots, events, approvers>>

\* Variant (LockedRunSettles): an error that skips the except clause.
CheckKillSwitchUncaught(r) ==
  /\ pc[r] = "working"
  /\ \/ ~disabled /\ RunMoves(r, "scoring")
     \/ RunMoves(r, "releaseRaise")
  /\ UNCHANGED <<stores, locks, disabled, approvers>>

\* Request, retrieval and graph context, then the one place where
\* SelectionService.score reads the kill switch.  Each may raise into the
\* except clause.
CheckKillSwitch(r) ==
  /\ pc[r] = "working"
  /\ \/ ~disabled /\ RunMoves(r, "scoring")
     \/ RunMoves(r, "failing")
  /\ UNCHANGED <<stores, locks, disabled, approvers>>

\* The rest of score(): too few candidates or an unfillable slot raise.
Score(r) ==
  /\ pc[r] = "scoring"
  /\ \E to \in {"scored", "failing"} : RunMoves(r, to)
  /\ UNCHANGED <<stores, locks, disabled, approvers>>

\* Variant (LifecycleSpec, FinalRunsCarryTheirDecision): the request's
\* require_human_approval is not looked at.
RecommendedAlwaysGated(r) ==
  [status |-> "awaiting_approval", gate |-> runs[r].gate,
   rec |-> TRUE, approval |-> None]

Recommended(r) ==
  [status |-> IF runs[r].gate THEN "awaiting_approval" ELSE "completed",
   gate |-> runs[r].gate, rec |-> TRUE, approval |-> None]

SaveRecommendation(r) ==
  /\ pc[r] = "scored"
  /\ \E o \in Outcomes : /\ Save(o, r, Recommended(r))
                         /\ RunMoves(r, Reply(o, "stored", "failing"))
  /\ UNCHANGED <<statuses, locks, disabled, snapshots, events, approvers>>

RecordSnapshot(r) ==
  /\ pc[r] = "stored"
  /\ \E o \in Outcomes :
       /\ snapshots' = Effect(o, snapshots, snapshots \cup {r})
       /\ RunMoves(r, Reply(o, "snapped", "failing"))
  /\ UNCHANGED <<runs, statuses, locks, disabled, events, approvers>>

CacheRecommended(r) ==
  /\ pc[r] = "snapped"
  /\ \E o \in Outcomes : /\ SetStatus(o, r, Recommended(r).status)
                         /\ RunMoves(r, Reply(o, "release", "failing"))
  /\ UNCHANGED <<runs, locks, disabled, snapshots, events, approvers>>

\* except Exception: the copy written is the one made when the run started,
\* so it carries no recommendation and no approval.
Failed(r) == [status |-> "failed", gate |-> runs[r].gate,
              rec |-> FALSE, approval |-> None]

SaveFailed(r) ==
  /\ pc[r] = "failing"
  /\ \E o \in Outcomes : /\ Save(o, r, Failed(r))
                         /\ RunMoves(r, Reply(o, "failed", "releaseRaise"))
  /\ UNCHANGED <<statuses, locks, disabled, snapshots, events, approvers>>

CacheFailed(r) ==
  /\ pc[r] = "failed"
  /\ \E o \in Outcomes : /\ SetStatus(o, r, "failed")
                         /\ RunMoves(r, Reply(o, "release", "releaseRaise"))
  /\ UNCHANGED <<runs, locks, disabled, snapshots, events, approvers>>

\* finally: the exception in flight, if any, goes on to the client.
ReleaseRun(r) ==
  /\ pc[r] \in {"release", "releaseRaise"}
  /\ \E o \in Outcomes :
       /\ ReleaseLock(o, r)
       /\ RunMoves(r, IF pc[r] = "release" THEN Reply(o, "done", "raised")
                                           ELSE "raised")
  /\ UNCHANGED <<stores, disabled, approvers>>

RunHandler(r) ==
  \/ CreateRun(r) \/ CacheQueued(r) \/ LockRun(r)
  \/ SaveRunning(r) \/ CacheRunning(r)
  \/ CheckKillSwitch(r) \/ Score(r) \/ SaveRecommendation(r)
  \/ RecordSnapshot(r) \/ CacheRecommended(r)
  \/ SaveFailed(r) \/ CacheFailed(r) \/ ReleaseRun(r)

-----------------------------------------------------------------------------
(* AgentOrchestrator.record_approval                                       *)

\* repository.get() comes before the lock.  Run identifiers are known to
\* every reader of the shared system2_agent_runs table, so the call may
\* come before the creating call has replied.  No record is a 404.
ReadRun(a) ==
  /\ apc[a] = "idle"
  /\ \E o \in Outcomes, r \in Runs, d \in Decisions :
       /\ target' = [target EXCEPT ![a] = r]
       /\ choice' = [choice EXCEPT ![a] = d]
       /\ seen' = [seen EXCEPT ![a] = IF o = "ok" THEN runs[r] ELSE None]
       /\ ApproverMoves(a, IF o = "ok" /\ runs[r] = None THEN "done"
                           ELSE Reply(o, "read", "raised"))
  /\ UNCHANGED <<stores, locks, disabled, pc>>

LockApproval(a) ==
  /\ apc[a] \in {"read", "checked"}
  /\ \E to \in {"checked", "locked", "raised"} :
       AcquireLock(target[a], apc[a], to) /\ ApproverMoves(a, to)
  /\ UNCHANGED <<stores, disabled, pc, target, seen, choice>>

\* Variant (DecidedRunIsFinished): anything that is not final may be decided.
ApprovableWhileOpen(record) == record.status \notin {"completed", "rejected", "failed"}

\* The status checked is that of the record read before the lock was taken.
Approvable(record) == record.status = "awaiting_approval" /\ record.rec

\* "agent run is not awaiting approval" (409).
RefuseApproval(a) ==
  /\ apc[a] = "locked"
  /\ ~Approvable(seen[a])
  /\ ApproverMoves(a, "releaseRaise")
  /\ UNCHANGED <<stores, locks, disabled, pc, target, seen, choice>>

ApprovalOf(a) == [decision |-> choice[a], approver |-> a]

DecidedStatus(decision) ==
  IF decision = "approved" THEN "completed" ELSE "rejected"

\* A copy of the record read, with the decision.
Decided(a) == [status |-> DecidedStatus(choice[a]), gate |-> seen[a].gate,
               rec |-> seen[a].rec, approval |-> ApprovalOf(a)]

SaveDecision(a) ==
  /\ apc[a] = "locked"
  /\ Approvable(seen[a])
  /\ \E o \in Outcomes :
       /\ Save(o, target[a], Decided(a))
       /\ ApproverMoves(a, Reply(o, "saved", "releaseRaise"))
  /\ UNCHANGED <<statuses, locks, disabled, snapshots, events, pc,
                 target, seen, choice>>

\* Variant (DecisionIsPublished): an event that cannot be written is ignored.
AppendApprovalEventIfPossible(a) ==
  /\ apc[a] = "saved"
  /\ \E o \in Outcomes :
       events' = Effect(o, events, events \cup
                        {[run |-> target[a], approval |-> ApprovalOf(a)]})
  /\ ApproverMoves(a, "published")
  /\ UNCHANGED <<runs, statuses, locks, disabled, snapshots, pc,
                 target, seen, choice>>

AppendApprovalEvent(a) ==
  /\ apc[a] = "saved"
  /\ \E o \in Outcomes :
       /\ events' = Effect(o, events, events \cup
                            {[run |-> target[a], approval |-> ApprovalOf(a)]})
       /\ ApproverMoves(a, Reply(o, "published", "releaseRaise"))
  /\ UNCHANGED <<runs, statuses, locks, disabled, snapshots, pc,
                 target, seen, choice>>

\* Variant (StatusCacheAgrees): the status of the record read is cached.
CacheDecisionAsRead(a) ==
  /\ apc[a] = "published"
  /\ \E o \in Outcomes : /\ SetStatus(o, target[a], seen[a].status)
                         /\ ApproverMoves(a, Reply(o, "release", "releaseRaise"))
  /\ UNCHANGED <<runs, locks, disabled, snapshots, events, pc,
                 target, seen, choice>>

CacheDecision(a) ==
  /\ apc[a] = "published"
  /\ \E o \in Outcomes : /\ SetStatus(o, target[a], DecidedStatus(choice[a]))
                         /\ ApproverMoves(a, Reply(o, "release", "releaseRaise"))
  /\ UNCHANGED <<runs, locks, disabled, snapshots, events, pc,
                 target, seen, choice>>

ReleaseApproval(a) ==
  /\ apc[a] \in {"release", "releaseRaise"}
  /\ \E o \in Outcomes :
       /\ ReleaseLock(o, target[a])
       /\ ApproverMoves(a, IF apc[a] = "release" THEN Reply(o, "done", "raised")
                                                 ELSE "raised")
  /\ UNCHANGED <<stores, disabled, pc, target, seen, choice>>

ApprovalHandler(a) ==
  \/ ReadRun(a) \/ LockApproval(a) \/ RefuseApproval(a) \/ SaveDecision(a)
  \/ AppendApprovalEvent(a) \/ CacheDecision(a) \/ ReleaseApproval(a)

-----------------------------------------------------------------------------
(* The environment.                                                        *)

\* disable() and enable(): the flag run handlers read.  Their audit record
\* and update event touch no state of this module (see KillSwitch).
SetKillSwitch ==
  /\ disabled' = ~disabled
  /\ UNCHANGED <<stores, locks, pc, approvers>>

\* A handler is between acquire_lock and release_lock.
RunHolds(r) == pc[r] \in LockedRunPCs
ApproverHolds(a, r) == target[a] = r /\ apc[a] \in LockedApproverPCs

\* Redis drops the key ttl_seconds after SET: one that was left behind by a
\* crash, by a call that raised outside the try block or by a failed release,
\* and one whose holder takes longer than that.
ExpireLock(r) ==
  /\ AtomicLock /\ r \in locks
  /\ LockExpires \/ ~(RunHolds(r) \/ \E a \in Approvers : ApproverHolds(a, r))
  /\ locks' = locks \ {r}
  /\ UNCHANGED <<stores, disabled, pc, approvers>>

\* set_status gives its key a ttl_seconds too.
ExpireStatus(r) ==
  /\ AtomicLock /\ statuses[r] # None
  /\ statuses' = [statuses EXCEPT ![r] = None]
  /\ UNCHANGED <<runs, locks, disabled, snapshots, events, pc, approvers>>

Expire(r) == ExpireLock(r) \/ ExpireStatus(r)

\* Every handler in flight is lost; the stores remain, the flag does not.
Crash ==
  /\ CanCrash
  /\ pc' = [r \in Runs |-> IF pc[r] \in {"idle", "done", "raised"}
                           THEN pc[r] ELSE "dead"]
  /\ apc' = [a \in Approvers |-> IF apc[a] \in {"idle", "done", "raised"}
                                 THEN apc[a] ELSE "dead"]
  /\ disabled' = FALSE
  /\ UNCHANGED <<stores, locks, target, seen, choice>>

Next ==
  \/ \E r \in Runs : RunHandler(r) \/ Expire(r)
  \/ \E a \in Approvers : ApprovalHandler(a)
  \/ SetKillSwitch
  \/ Crash

Spec == Init /\ [][Next]_vars

\* A handler that has begun is a running thread: each of its next steps is
\* taken in the end.  Clients, administrators, expiry and crashes are under no
\* obligation.
Fairness ==
  /\ \A r \in Runs : WF_vars(pc[r] # "idle" /\ RunHandler(r))
  /\ \A a \in Approvers : WF_vars(apc[a] # "idle" /\ ApprovalHandler(a))

FairSpec == Spec /\ Fairness

-----------------------------------------------------------------------------
(* Properties.                                                             *)

Approved(r) == runs[r] # None /\ runs[r].approval # None

\* The per-run lock excludes: the creating handler and the approval handlers
\* of one run are never together between acquire_lock and release_lock.
\* Needs an atomic acquire_lock and holders faster than the lock's TTL.
MutualExclusion ==
  \A r \in Runs :
    /\ \A a \in Approvers : ~(RunHolds(r) /\ ApproverHolds(a, r))
    /\ \A a, b \in Approvers : ApproverHolds(a, r) /\ ApproverHolds(b, r) => a = b

\* A decision is never recorded on a run whose creating handler may still
\* overwrite the record (SaveFailed would erase the decision), although
\* record_approval reads the record before it takes the lock.
DecidedRunIsFinished ==
  \A r \in Runs : Approved(r) => pc[r] \in EndPCs

\* Once a human decision is recorded no save removes it: the approval of a
\* run may be replaced (two approvers read the same record) but never lost.
DecisionNeverErased ==
  [][\A r \in Runs : Approved(r) => Approved(r)']_runs

\* A gated run is final only with a matching human decision, an ungated one
\* never carries one, and whatever carries one carries the recommendation
\* that was decided on.
CarriesDecision(run) ==
  /\ run.approval # None <=> run.gate /\ run.status \in {"completed", "rejected"}
  /\ run.approval # None => /\ run.rec
                            /\ run.status = DecidedStatus(run.approval.decision)

FinalRunsCarryTheirDecision ==
  \A r \in Runs : runs[r] # None => CarriesDecision(runs[r])

\* The recorded decision has its update event, unless its approver has just
\* saved it or ended in an error; and every event is about a decided run.
DecisionIsPublished ==
  /\ \A r \in Runs : Approved(r) =>
       \/ [run |-> r, approval |-> runs[r].approval] \in events
       \/ apc[runs[r].approval.approver] \in
            {"saved", "releaseRaise", "raised", "dead"}
  /\ \A e \in events : Approved(e.run)

Agrees(r) ==
  statuses[r] = None \/ (runs[r] # None /\ statuses[r] = runs[r].status)

\* The ephemeral status, where there is one, differs from the durable one
\* only while a handler of the run is between its calls, or after one ended
\* in an error.
StatusCacheAgrees ==
  \A r \in Runs :
    \/ Agrees(r)
    \/ pc[r] \notin {"idle", "done"}
    \/ \E a \in Approvers : target[a] = r /\ apc[a] \notin {"idle", "done"}

\* Whatever the handlers do to the record is one of the moves RunLifecycle
\* allows: the workflow implements it, with repeated decisions allowed.
Lifecycle == INSTANCE RunLifecycle WITH Once <- FALSE
LifecycleSpec == Lifecycle!Spec

\* docs/shared-data-contract.md: other systems treat a recommendation as final
\* once its run is completed and an approval payload exists: it stays final.
FinalStaysFinal ==
  [][\A r \in Runs :
       Approved(r) /\ runs[r].status = "completed"
         => Approved(r)' /\ runs'[r].status = "completed"]_runs

\* The record of r has a decision, or says that the run failed.
Accounted(r) == Approved(r) \/ (runs[r] # None /\ runs[r].status = "failed")

\* What is left of DecisionNeverErased when a lock expires under its holder and
\* two handlers, releasing each other's locks, are at the record together: a
\* decision is erased by nothing but the except clause of the creating handler,
\* and each published decision is about a run that was decided or has failed,
\* never about one that is still running or waiting.
OnlyFailureErasesDecision ==
  /\ [][\A r \in Runs : Approved(r) => Accounted(r)']_runs
  /\ [](\A e \in events : Accounted(e.run))

\* Where nothing fails and no key expires, finally gives every lock back,
\* although two may hold it at once and a handler can be refused; and a run whose
\* handler got the lock leaves queued and running, which its poller waits for.
LockedRunSettles ==
  /\ \A r \in Runs : r \in locks ~> r \notin locks
  /\ \A r \in Runs : pc[r] = "locked" ~>
       runs[r] # None /\ runs[r].status \notin {"queued", "running"}

-----------------------------------------------------------------------------
(* The inductive invariant behind the safety properties (AgentRunsProofs). *)

\* Whoever is between acquire_lock and release_lock is why the key exists.
HoldersHaveTheLock ==
  \A r \in Runs :
    RunHolds(r) \/ (\E a \in Approvers : ApproverHolds(a, r)) => r \in locks

\* An atomic acquire_lock is never seen between its test and its add.
AcquireIsAtomic ==
  AtomicLock => /\ \A r \in Runs : pc[r] # "checked"
                /\ \A a \in Approvers : apc[a] # "checked"

\* The deployments whose lock excludes: SET NX, and handlers that finish
\* within the TTL of their lock.
LockExcludes == AtomicLock /\ ~LockExpires

\* Control points after the first attempt to save the recommendation.
SavedPCs == {"stored", "snapped", "failing", "failed",
             "release", "releaseRaise"} \cup EndPCs

\* What control point p of the creating handler knows of the record.
RecordFits(p, record) ==
  /\ p = "idle" => record = None
  /\ p \in {"created", "queued", "checked", "locked"} =>
       record # None /\ record.status = "queued" /\ ~record.rec
  /\ p \in {"running", "working", "scoring", "scored"} =>
       record # None /\ record.status = "running" /\ ~record.rec
  /\ p \in SavedPCs \ EndPCs =>
       record # None /\ record.status # "queued"
  /\ record # None /\ record.status \notin {"queued", "running"} =>
       p \in SavedPCs
  /\ record # None /\ record.status = "awaiting_approval" =>
       record.gate /\ record.rec

RecordFollowsHandler == \A r \in Runs : RecordFits(pc[r], runs[r])

\* What an approval handler read is an earlier record of the same run.
ReadsAreEarlierRecords ==
  \A a \in Approvers :
    /\ apc[a] \in LockedApproverPCs \cup {"read", "checked"} =>
         target[a] \in Runs /\ seen[a] # None
    /\ target[a] \in Runs /\ seen[a] # None =>
         /\ runs[target[a]] # None /\ seen[a].gate = runs[target[a]].gate
         /\ seen[a].status = "awaiting_approval" =>
              seen[a].gate /\ pc[target[a]] \in SavedPCs
              /\ runs[target[a]].status \notin {"queued", "running"}

\* Inductive in every deployment: well formed and consistent records.
BaseInv ==
  /\ TypeOK
  /\ RecordFollowsHandler
  /\ ReadsAreEarlierRecords

\* Inductive where LockExcludes: who may be changing a record.
LockInv ==
  /\ AcquireIsAtomic
  /\ HoldersHaveTheLock
  /\ MutualExclusion
  /\ DecidedRunIsFinished

\* The records, and who may be changing them.
RecordInv == BaseInv /\ FinalRunsCarryTheirDecision /\ LockInv

\* Approval handler a made the decision in the record of r.
Signs(a, r) == target[a] = r /\ runs[r].approval = ApprovalOf(a)

\* A recorded decision is that of a handler past its save; one that is about
\* to publish or cache its decision still has it in the record.
DecisionsAreSigned ==
  /\ \A r \in Runs : Approved(r) =>
       \E a \in Approvers :
         Signs(a, r) /\ apc[a] \in {"saved", "published", "release",
                                    "releaseRaise"} \cup EndPCs
  /\ \A a \in Approvers : apc[a] \in {"saved", "published"} =>
       Approved(target[a]) /\ Signs(a, target[a])

\* An approval handler that has saved and cached its decision, or neither.
Even(a) == apc[a] \in {"idle", "read", "checked", "locked", "release", "done"}

\* What the control points of a run's handlers tell of its cached status.
CacheFollows ==
  \A r \in Runs :
    /\ pc[r] = "idle" => statuses[r] = None
    /\ pc[r] \in {"stored", "snapped"} => runs[r].status = Recommended(r).status
    /\ pc[r] = "failed" => runs[r].status = "failed"
    /\ pc[r] \in {"release", "done"}
         /\ (\A a \in Approvers : target[a] = r => Even(a))
       => Agrees(r)

\* All of it: what AgentRunsProofs proves, where LockExcludes.
IInv == RecordInv /\ DecisionsAreSigned /\ DecisionIsPublished /\ CacheFollows
=============================================================================
