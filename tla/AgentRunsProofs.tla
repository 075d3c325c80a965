-------------------------- MODULE AgentRunsProofs --------------------------
(***************************************************************************)
(* Proofs about AgentRuns for any set of runs and of approval calls: type  *)
(* correctness, and what the per-run lock gives: exclusion, decisions that *)
(* are never erased, and the implementation of RunLifecycle.               *)
(*                                                                         *)
(* Type correctness needs no assumption on the deployment.  Exclusion and  *)
(* what rests on it assume LockExcludes: acquire_lock is atomic and        *)
(* handlers finish within the TTL of their lock.  Calls may raise after or *)
(* before taking effect, and the process may crash between any two steps.  *)
(***************************************************************************)
EXTENDS AgentRuns, TLAPS

USE DEF RunMoves, ApproverMoves

\* A step of a creating handler, one disjunct per call.
LEMMA RunHandlerCases ==
  ASSUME NEW r \in Runs, RunHandler(r)
  PROVE  \/ CreateRun(r) \/ CacheQueued(r) \/ LockRun(r)
         \/ SaveRunning(r) \/ CacheRunning(r)
         \/ CheckKillSwitch(r) \/ Score(r) \/ SaveRecommendation(r)
         \/ RecordSnapshot(r) \/ CacheRecommended(r)
         \/ SaveFailed(r) \/ CacheFailed(r) \/ ReleaseRun(r)
BY DEF RunHandler

\* The records the handlers save are well formed.
LEMMA RunRecords ==
  ASSUME TypeOK, NEW r \in Runs, runs[r] # None
  PROVE  /\ runs[r] \in AgentRun
         /\ Running(r) \in AgentRun
         /\ Recommended(r) \in AgentRun
         /\ Failed(r) \in AgentRun
<1>1. runs[r] \in AgentRun
  BY DEF TypeOK
<1>2. runs[r].gate \in BOOLEAN
  BY <1>1 DEF AgentRun
<1> QED
  BY <1>1, <1>2 DEF Running, Recommended, Failed, AgentRun, Statuses

LEMMA DecidedRecord ==
  ASSUME NEW a \in Approvers, seen[a] \in AgentRun, choice[a] \in Decisions
  PROVE  Decided(a) \in AgentRun /\ ApprovalOf(a) \in Approval
<1>1. DecidedStatus(choice[a]) \in Statuses
  BY DEF DecidedStatus, Statuses
<1>2. ApprovalOf(a) \in Approval
  BY DEF ApprovalOf, Approval
<1> QED
  BY <1>1, <1>2 DEF Decided, AgentRun

\* A save, a status write and an acquire_lock keep their variable well typed.
LEMMA SaveTyped ==
  ASSUME TypeOK, NEW r \in Runs, NEW record \in AgentRun, NEW o,
         Save(o, r, record)
  PROVE  runs' \in [Runs -> AgentRun \cup {None}]
BY DEF TypeOK, Save, Effect

LEMMA SetStatusTyped ==
  ASSUME TypeOK, NEW r \in Runs, NEW s \in Statuses, NEW o,
         SetStatus(o, r, s)
  PROVE  statuses' \in [Runs -> Statuses \cup {None}]
BY DEF TypeOK, SetStatus, Effect

LEMMA AcquireLockTyped ==
  ASSUME TypeOK, NEW r \in Runs, NEW here, NEW to, AcquireLock(r, here, to)
  PROVE  locks' \in SUBSET Runs /\ to \in {"raised", "checked", "locked"}
BY DEF TypeOK, AcquireLock, Effect, Reply

-----------------------------------------------------------------------------
(* Type correctness.                                                       *)

LEMMA TypeInit == Init => TypeOK
<1> SUFFICES ASSUME Init PROVE TypeOK
  OBVIOUS
<1>1. /\ runs \in [Runs -> AgentRun \cup {None}]
      /\ statuses \in [Runs -> Statuses \cup {None}]
      /\ target \in [Approvers -> Runs \cup {None}]
      /\ seen \in [Approvers -> AgentRun \cup {None}]
      /\ choice \in [Approvers -> Decisions]
  BY DEF Init, Decisions
<1>2. pc \in [Runs -> RunPCs] /\ apc \in [Approvers -> ApproverPCs]
  BY DEF Init, RunPCs, ApproverPCs
<1>3. locks \in SUBSET Runs /\ snapshots \in SUBSET Runs /\ events \in SUBSET Event
  BY DEF Init
<1>4. disabled \in BOOLEAN
  BY DEF Init
<1> QED
  BY <1>1, <1>2, <1>3, <1>4 DEF TypeOK

\* A handler past its first calls has a record to copy, which is what makes
\* the records it saves well formed.
LEMMA HandlersHaveRecords ==
  ASSUME BaseInv
  PROVE  /\ \A r \in Runs : pc[r] \notin {"idle"} \cup EndPCs => runs[r] # None
         /\ \A a \in Approvers :
              apc[a] \in LockedApproverPCs \cup {"read", "checked"} =>
                /\ target[a] \in Runs /\ runs[target[a]] # None
                /\ seen[a] \in AgentRun
<1>1. \A r \in Runs : pc[r] \in RunPCs
  BY DEF BaseInv, TypeOK
<1>2. \A a \in Approvers : seen[a] \in AgentRun \cup {None}
  BY DEF BaseInv, TypeOK
<1> QED
  BY <1>1, <1>2 DEF BaseInv, RecordFollowsHandler, RecordFits,
                    ReadsAreEarlierRecords, RunPCs, LockedRunPCs, SavedPCs, EndPCs

LEMMA TypeRunStep ==
  ASSUME BaseInv, NEW r \in Runs, RunHandler(r)
  PROVE  TypeOK'
<1> USE DEF BaseInv, RunPCs, LockedRunPCs, EndPCs, stores, approvers, Reply
<1>1. pc \in [Runs -> RunPCs] /\ TypeOK
  BY DEF TypeOK
<1>2. CASE CreateRun(r)
  <2>1. PICK o \in Outcomes, gate \in BOOLEAN :
          /\ Save(o, r, [status |-> "queued", gate |-> gate, rec |-> FALSE,
                         approval |-> None])
          /\ RunMoves(r, Reply(o, "created", "raised"))
    BY <1>2 DEF CreateRun
  <2>2. [status |-> "queued", gate |-> gate, rec |-> FALSE, approval |-> None]
          \in AgentRun
    BY DEF AgentRun, Statuses
  <2>3. runs' \in [Runs -> AgentRun \cup {None}]
    BY <2>1, <2>2, SaveTyped
  <2> QED
    BY <1>1, <1>2, <2>1, <2>3 DEF TypeOK, CreateRun
<1>3. CASE CacheQueued(r)
  <2>1. PICK o \in Outcomes : SetStatus(o, r, "queued")
                              /\ RunMoves(r, Reply(o, "queued", "raised"))
    BY <1>3 DEF CacheQueued
  <2> QED
    BY <1>1, <1>3, <2>1, SetStatusTyped DEF TypeOK, CacheQueued, Statuses
<1>4. CASE LockRun(r)
  BY <1>1, <1>4, AcquireLockTyped DEF TypeOK, LockRun
<1>5. CASE SaveRunning(r)
  BY <1>1, <1>5, RunRecords, SaveTyped, HandlersHaveRecords
     DEF TypeOK, SaveRunning
<1>6. CASE CacheRunning(r)
  BY <1>1, <1>6, SetStatusTyped DEF TypeOK, CacheRunning, Statuses
<1>7. CASE CheckKillSwitch(r)
  BY <1>1, <1>7 DEF TypeOK, CheckKillSwitch
<1>8. CASE Score(r)
  BY <1>1, <1>8 DEF TypeOK, Score
<1>9. CASE SaveRecommendation(r)
  BY <1>1, <1>9, RunRecords, SaveTyped, HandlersHaveRecords
     DEF TypeOK, SaveRecommendation
<1>10. CASE RecordSnapshot(r)
  BY <1>1, <1>10 DEF TypeOK, RecordSnapshot, Effect
<1>11. CASE CacheRecommended(r)
  <2>1. Recommended(r).status \in Statuses
    BY <1>11, RunRecords, HandlersHaveRecords DEF CacheRecommended, AgentRun
  <2> QED
    BY <1>1, <1>11, <2>1, SetStatusTyped DEF TypeOK, CacheRecommended
<1>12. CASE SaveFailed(r)
  BY <1>1, <1>12, RunRecords, SaveTyped, HandlersHaveRecords
     DEF TypeOK, SaveFailed
<1>13. CASE CacheFailed(r)
  BY <1>1, <1>13, SetStatusTyped DEF TypeOK, CacheFailed, Statuses
<1>14. CASE ReleaseRun(r)
  BY <1>1, <1>14 DEF TypeOK, ReleaseRun, ReleaseLock, Effect
<1> QED
  BY <1>2, <1>3, <1>4, <1>5, <1>6, <1>7, <1>8, <1>9, <1>10, <1>11, <1>12,
     <1>13, <1>14, RunHandlerCases

LEMMA TypeApprovalStep ==
  ASSUME BaseInv, NEW a \in Approvers, ApprovalHandler(a)
  PROVE  TypeOK'
<1> USE DEF BaseInv, ApproverPCs, LockedApproverPCs, EndPCs, stores, Reply
<1>1. apc \in [Approvers -> ApproverPCs] /\ TypeOK
  BY DEF TypeOK
<1>2. CASE ReadRun(a)
  BY <1>1, <1>2 DEF TypeOK, ReadRun
<1>3. CASE LockApproval(a)
  BY <1>1, <1>3, AcquireLockTyped, HandlersHaveRecords DEF TypeOK, LockApproval
<1>4. CASE RefuseApproval(a)
  BY <1>1, <1>4 DEF TypeOK, RefuseApproval
<1>5. CASE SaveDecision(a)
  <2>1. target[a] \in Runs /\ seen[a] \in AgentRun /\ choice[a] \in Decisions
    BY <1>5, HandlersHaveRecords DEF SaveDecision, TypeOK
  <2>2. Decided(a) \in AgentRun
    BY <2>1, DecidedRecord
  <2>3. runs' \in [Runs -> AgentRun \cup {None}]
    BY <1>5, <2>1, <2>2, SaveTyped DEF SaveDecision
  <2> QED
    BY <1>1, <1>5, <2>3 DEF TypeOK, SaveDecision
<1>6. CASE AppendApprovalEvent(a)
  <2>1. [run |-> target[a], approval |-> ApprovalOf(a)] \in Event
    BY <1>6, HandlersHaveRecords DEF AppendApprovalEvent, TypeOK, Event,
                Approval, ApprovalOf
  <2> QED
    BY <1>1, <1>6, <2>1 DEF TypeOK, AppendApprovalEvent, Effect
<1>7. CASE CacheDecision(a)
  BY <1>1, <1>7, SetStatusTyped, HandlersHaveRecords
     DEF TypeOK, CacheDecision, DecidedStatus, Statuses
<1>8. CASE ReleaseApproval(a)
  BY <1>1, <1>8 DEF TypeOK, ReleaseApproval, ReleaseLock, Effect
<1> QED
  BY <1>2, <1>3, <1>4, <1>5, <1>6, <1>7, <1>8 DEF ApprovalHandler

LEMMA TypeEnvironmentStep ==
  ASSUME TypeOK,
         \/ SetKillSwitch \/ Crash \/ (\E r \in Runs : Expire(r))
         \/ UNCHANGED vars
  PROVE  TypeOK'
<1> USE DEF TypeOK, stores, approvers
<1>1. CASE SetKillSwitch
  BY <1>1 DEF SetKillSwitch
<1>2. CASE Crash
  BY <1>2 DEF Crash, RunPCs, ApproverPCs, EndPCs
<1>3. CASE \E r \in Runs : Expire(r)
  BY <1>3 DEF Expire, ExpireLock, ExpireStatus
<1>4. CASE UNCHANGED vars
  BY <1>4 DEF vars
<1> QED
  BY <1>1, <1>2, <1>3, <1>4

-----------------------------------------------------------------------------
(* The record of a run follows its creating handler.                       *)

\* What a save does to the record of its run and to the others.
LEMMA SaveWrites ==
  ASSUME TypeOK, NEW r \in Runs, NEW o, NEW record, Save(o, r, record)
  PROVE  /\ runs'[r] = IF o = "unsent" THEN runs[r] ELSE record
         /\ \A q \in Runs \ {r} : runs'[q] = runs[q]
BY DEF TypeOK, Save, Effect

\* A save that replies leads to control point ok with the new record; one
\* that raises leads to raised with the new record or the old one.
LEMMA SaveFits ==
  ASSUME TypeOK, NEW r \in Runs, NEW o \in Outcomes, NEW record,
         NEW ok, NEW raised,
         Save(o, r, record), pc' = [pc EXCEPT ![r] = Reply(o, ok, raised)],
         RecordFits(ok, record), RecordFits(raised, record),
         RecordFits(raised, runs[r])
  PROVE  /\ \A q \in Runs \ {r} : pc'[q] = pc[q] /\ runs'[q] = runs[q]
         /\ RecordFits(pc'[r], runs'[r])
<1>1. pc'[r] = Reply(o, ok, raised) /\ \A q \in Runs \ {r} : pc'[q] = pc[q]
  BY DEF TypeOK
<1>2. CASE o = "ok"
  BY <1>1, <1>2, SaveWrites DEF Reply
<1>3. CASE o = "unsent"
  BY <1>1, <1>3, SaveWrites DEF Reply
<1>4. CASE o \notin {"ok", "unsent"}
  BY <1>1, <1>4, SaveWrites DEF Reply
<1> QED
  BY <1>2, <1>3, <1>4

LEMMA RecordRunStep ==
  ASSUME BaseInv, NEW r \in Runs, RunHandler(r)
  PROVE  RecordFollowsHandler'
<1> USE NoneAssumption
<1>1. TypeOK /\ pc[r] \in RunPCs /\ RecordFits(pc[r], runs[r])
  BY DEF BaseInv, TypeOK, RecordFollowsHandler
<1>2. SUFFICES /\ \A q \in Runs \ {r} : pc'[q] = pc[q] /\ runs'[q] = runs[q]
               /\ RecordFits(pc'[r], runs'[r])
  BY DEF BaseInv, RecordFollowsHandler
<1> DEFINE Moves(p) == pc' = [pc EXCEPT ![r] = p]
<1>3. \A p : Moves(p) => pc'[r] = p /\ \A q \in Runs \ {r} : pc'[q] = pc[q]
  BY <1>1 DEF TypeOK
<1> USE DEF RecordFits, RunPCs, LockedRunPCs, SavedPCs, EndPCs, Reply
<1>4. CASE CreateRun(r)
  <2> DEFINE New(gate) == [status |-> "queued", gate |-> gate, rec |-> FALSE,
                           approval |-> None]
  <2>1. PICK o \in Outcomes, gate \in BOOLEAN :
          Save(o, r, New(gate)) /\ Moves(Reply(o, "created", "raised"))
    BY <1>4 DEF CreateRun
  <2>2. New(gate) \in AgentRun
    BY DEF AgentRun, Statuses
  <2>3. RecordFits("created", New(gate)) /\ RecordFits("raised", New(gate))
    BY <2>2
  <2>4. RecordFits("raised", runs[r])
    BY <1>1, <1>4 DEF CreateRun
  <2> QED
    BY ONLY <1>1, <2>1, <2>3, <2>4, SaveFits, ZenonT(60)
<1>5. CASE SaveRunning(r)
  <2>1. PICK o \in Outcomes :
          Save(o, r, Running(r)) /\ Moves(Reply(o, "running", "raised"))
    BY <1>5 DEF SaveRunning
  <2>2. Running(r) \in AgentRun
    BY <1>5, RunRecords, HandlersHaveRecords DEF BaseInv, SaveRunning
  <2>3. RecordFits("running", Running(r)) /\ RecordFits("raised", Running(r))
    BY <2>2 DEF Running
  <2>4. RecordFits("raised", runs[r])
    BY <1>1, <1>5 DEF SaveRunning
  <2> QED
    BY ONLY <1>1, <2>1, <2>3, <2>4, SaveFits, ZenonT(60)
<1>6. CASE SaveRecommendation(r)
  <2>1. PICK o \in Outcomes :
          Save(o, r, Recommended(r)) /\ Moves(Reply(o, "stored", "failing"))
    BY <1>6 DEF SaveRecommendation
  <2>2. Recommended(r) \in AgentRun
    BY <1>6, RunRecords, HandlersHaveRecords DEF BaseInv, SaveRecommendation
  <2>3. RecordFits("stored", Recommended(r)) /\ RecordFits("failing", Recommended(r))
    BY <2>2 DEF Recommended
  <2>4. RecordFits("failing", runs[r])
    BY <1>1, <1>6 DEF SaveRecommendation
  <2> QED
    BY ONLY <1>1, <2>1, <2>3, <2>4, SaveFits, ZenonT(60)
<1>7. CASE SaveFailed(r)
  <2>1. PICK o \in Outcomes :
          Save(o, r, Failed(r)) /\ Moves(Reply(o, "failed", "releaseRaise"))
    BY <1>7 DEF SaveFailed
  <2>2. Failed(r) \in AgentRun
    BY <1>7, RunRecords, HandlersHaveRecords DEF BaseInv, SaveFailed
  <2>3. RecordFits("failed", Failed(r)) /\ RecordFits("releaseRaise", Failed(r))
    BY <2>2 DEF Failed
  <2>4. RecordFits("releaseRaise", runs[r])
    BY <1>1, <1>7 DEF SaveFailed
  <2> QED
    BY ONLY <1>1, <2>1, <2>3, <2>4, SaveFits, ZenonT(60)
<1> USE DEF stores
<1>8. CASE CacheQueued(r) \/ CacheRunning(r) \/ CheckKillSwitch(r) \/ Score(r)
  BY <1>1, <1>3, <1>8 DEF CacheQueued, CacheRunning, CheckKillSwitch, Score
<1>9. CASE RecordSnapshot(r) \/ CacheRecommended(r) \/ CacheFailed(r) \/ ReleaseRun(r)
  BY <1>1, <1>3, <1>9 DEF RecordSnapshot, CacheRecommended, CacheFailed, ReleaseRun
<1>10. CASE LockRun(r)
  BY <1>1, <1>3, <1>10 DEF LockRun, AcquireLock
<1> QED
  BY <1>4, <1>5, <1>6, <1>7, <1>8, <1>9, <1>10, RunHandlerCases

\* An approval handler rewrites only a record whose creating handler has
\* already tried to save its recommendation.
LEMMA RecordApprovalStep ==
  ASSUME BaseInv, NEW a \in Approvers, ApprovalHandler(a)
  PROVE  RecordFollowsHandler'
<1> USE DEF BaseInv, TypeOK, RecordFollowsHandler, RecordFits, stores
<1>1. CASE SaveDecision(a)
  <2>1. /\ target[a] \in Runs /\ runs[target[a]] # None /\ seen[a] \in AgentRun
        /\ seen[a].status = "awaiting_approval"
        /\ pc[target[a]] \in SavedPCs /\ seen[a].gate
    BY <1>1, HandlersHaveRecords
       DEF SaveDecision, Approvable, ReadsAreEarlierRecords, LockedApproverPCs
  <2>2. \A r \in Runs \ {target[a]} : runs'[r] = runs[r]
    BY <1>1, <2>1 DEF SaveDecision, Save, Effect
  <2>3. \/ runs'[target[a]] = runs[target[a]]
        \/ /\ runs'[target[a]] \in AgentRun
           /\ runs'[target[a]].status \in {"completed", "rejected"}
    <3>1. Decided(a) \in AgentRun
      BY <2>1, DecidedRecord
    <3>2. Decided(a).status \in {"completed", "rejected"}
      BY DEF Decided, DecidedStatus
    <3>3. PICK o : Save(o, target[a], Decided(a))
      BY <1>1 DEF SaveDecision
    <3> QED
      BY <2>1, <3>1, <3>2, <3>3, SaveWrites
  <2>4. UNCHANGED pc
    BY <1>1 DEF SaveDecision
  <2> QED
    BY <2>1, <2>2, <2>3, <2>4, NoneAssumption DEF SavedPCs, EndPCs
<1>2. CASE ~SaveDecision(a)
  <2>1. UNCHANGED <<runs, pc>>
    BY <1>2 DEF ApprovalHandler, ReadRun, LockApproval, RefuseApproval,
                AppendApprovalEvent, CacheDecision, ReleaseApproval
  <2> QED
    BY <2>1
<1> QED
  BY <1>1, <1>2

LEMMA RecordEnvironmentStep ==
  ASSUME BaseInv,
         \/ SetKillSwitch \/ Crash \/ (\E r \in Runs : Expire(r))
         \/ UNCHANGED vars
  PROVE  RecordFollowsHandler'
<1> USE DEF BaseInv, TypeOK, RecordFollowsHandler, RecordFits, stores
<1>1. CASE Crash
  BY <1>1 DEF Crash, SavedPCs, EndPCs
<1>2. CASE ~Crash
  <2>1. UNCHANGED <<runs, pc>>
    BY <1>2 DEF SetKillSwitch, Expire, ExpireLock, ExpireStatus, vars
  <2> QED
    BY <2>1
<1> QED
  BY <1>1, <1>2

-----------------------------------------------------------------------------
(* What an approval handler has read stays an earlier record of its run.   *)

Settled(q) == pc[q] \in SavedPCs /\ runs[q].status \notin {"queued", "running"}

\* What no step takes back: the record exists, says whether a human must
\* approve, and once settled does not go back to queued or running.
Advances ==
  \A q \in Runs :
    runs[q] # None => /\ runs'[q] # None
                      /\ runs'[q].gate = runs[q].gate
                      /\ Settled(q) => Settled(q)'

LEMMA RunAdvances ==
  ASSUME BaseInv, NEW r \in Runs, RunHandler(r)
  PROVE  Advances
<1>1. TypeOK /\ RecordFits(pc[r], runs[r]) /\ runs[r] \in AgentRun \cup {None}
  BY DEF BaseInv, TypeOK, RecordFollowsHandler
<1>2. \A q \in Runs \ {r} : runs'[q] = runs[q] /\ pc'[q] = pc[q]
  <2>1. \A q \in Runs \ {r} : pc'[q] = pc[q]
    BY <1>1 DEF TypeOK, RunHandler, CreateRun, CacheQueued, LockRun, SaveRunning,
       CacheRunning, CheckKillSwitch, Score, SaveRecommendation, RecordSnapshot,
       CacheRecommended, SaveFailed, CacheFailed, ReleaseRun
  <2>2. \A q \in Runs \ {r} : runs'[q] = runs[q]
    BY <1>1 DEF TypeOK, RunHandler, CreateRun, CacheQueued, LockRun, SaveRunning,
       CacheRunning, CheckKillSwitch, Score, SaveRecommendation, RecordSnapshot,
       CacheRecommended, SaveFailed, CacheFailed, ReleaseRun, Save, Effect, stores
  <2> QED
    BY <2>1, <2>2
<1>3. runs[r] # None => runs'[r] # None /\ runs'[r].gate = runs[r].gate
  <2>1. CASE CreateRun(r)
    BY <1>1, <2>1 DEF CreateRun, RecordFits
  <2>2. CASE SaveRunning(r) \/ SaveRecommendation(r) \/ SaveFailed(r)
    <3> SUFFICES ASSUME runs[r] # None
                 PROVE  runs'[r] # None /\ runs'[r].gate = runs[r].gate
      OBVIOUS
    <3>1. \A x \in AgentRun : x # None
      BY NoneAssumption
    <3>2. PICK x \in {Running(r), Recommended(r), Failed(r)} :
            \E o : Save(o, r, x)
      BY <2>2 DEF SaveRunning, SaveRecommendation, SaveFailed
    <3>3. x \in AgentRun
      BY <1>1, RunRecords
    <3>4. x.gate = runs[r].gate
      BY DEF Running, Recommended, Failed
    <3> QED
      BY <1>1, <3>1, <3>2, <3>3, <3>4, SaveWrites
  <2>3. CASE ~(CreateRun(r) \/ SaveRunning(r) \/ SaveRecommendation(r) \/ SaveFailed(r))
    BY <2>3 DEF RunHandler, CacheQueued, LockRun, CacheRunning, CheckKillSwitch,
       Score, RecordSnapshot, CacheRecommended, CacheFailed, ReleaseRun, stores
  <2> QED
    BY <2>1, <2>2, <2>3
<1>4. runs[r] # None /\ Settled(r) => Settled(r)'
  <2> SUFFICES ASSUME runs[r] # None, Settled(r) PROVE Settled(r)'
    OBVIOUS
  <2>1. pc[r] \in {"stored", "snapped", "failing", "failed", "release", "releaseRaise"}
    BY RunHandlerCases DEF Settled, SavedPCs, EndPCs, CreateRun, CacheQueued, LockRun,
       SaveRunning, CacheRunning, CheckKillSwitch, Score, SaveRecommendation,
       RecordSnapshot, CacheRecommended, SaveFailed, CacheFailed, ReleaseRun
  <2>2. CASE SaveFailed(r)
    <3>1. PICK o : Save(o, r, Failed(r)) /\ RunMoves(r, Reply(o, "failed", "releaseRaise"))
      BY <2>2 DEF SaveFailed
    <3>2. runs'[r].status \notin {"queued", "running"}
      BY <1>1, <3>1, SaveWrites DEF Settled, Failed
    <3> QED
      BY <1>1, <3>1, <3>2 DEF TypeOK, Settled, SavedPCs, Reply
  <2>3. CASE ~SaveFailed(r)
    BY <1>1, <2>1, <2>3 DEF TypeOK, Settled, SavedPCs, EndPCs, Reply, RunHandler,
       CreateRun, CacheQueued, LockRun, SaveRunning, CacheRunning, CheckKillSwitch,
       Score, SaveRecommendation, RecordSnapshot, CacheRecommended, CacheFailed,
       ReleaseRun, stores
  <2> QED
    BY <2>2, <2>3
<1> QED
  BY <1>2, <1>3, <1>4 DEF Advances, Settled

LEMMA ApprovalAdvances ==
  ASSUME BaseInv, NEW a \in Approvers, ApprovalHandler(a)
  PROVE  Advances
<1>1. CASE SaveDecision(a)
  <2>1. /\ target[a] \in Runs /\ runs[target[a]] # None
        /\ seen[a] \in AgentRun /\ choice[a] \in Decisions
        /\ seen[a].gate = runs[target[a]].gate /\ UNCHANGED pc
    BY <1>1, HandlersHaveRecords, NoneAssumption
       DEF SaveDecision, LockedApproverPCs, BaseInv, TypeOK, ReadsAreEarlierRecords
  <2>2. PICK o : Save(o, target[a], Decided(a))
    BY <1>1 DEF SaveDecision
  <2>3. /\ Decided(a) # None /\ Decided(a).gate = seen[a].gate
        /\ Decided(a).status \notin {"queued", "running"}
    BY <2>1, DecidedRecord, NoneAssumption DEF Decided, DecidedStatus
  <2>4. /\ runs'[target[a]] \in {runs[target[a]], Decided(a)}
        /\ \A q \in Runs \ {target[a]} : runs'[q] = runs[q]
    BY <2>1, <2>2, SaveWrites DEF BaseInv
  <2> QED
    BY <2>1, <2>3, <2>4 DEF Advances, Settled
<1>2. CASE ~SaveDecision(a)
  BY <1>2 DEF Advances, Settled, ApprovalHandler, ReadRun, LockApproval,
     RefuseApproval, AppendApprovalEvent, CacheDecision, ReleaseApproval, stores
<1> QED
  BY <1>1, <1>2

LEMMA EnvironmentAdvances ==
  ASSUME BaseInv,
         \/ SetKillSwitch \/ Crash \/ (\E r \in Runs : Expire(r))
         \/ UNCHANGED vars
  PROVE  Advances
<1>1. UNCHANGED runs
  BY DEF SetKillSwitch, Crash, Expire, ExpireLock, ExpireStatus, vars, stores
<1>2. \A q \in Runs : pc[q] \in SavedPCs => pc'[q] \in SavedPCs
  BY DEF SetKillSwitch, Crash, Expire, ExpireLock, ExpireStatus, vars, SavedPCs, EndPCs
<1> QED
  BY <1>1, <1>2 DEF Advances, Settled

LEMMA ReadsFollow ==
  ASSUME BaseInv, Advances, [Next]_vars
  PROVE  ReadsAreEarlierRecords'
<1> DEFINE Fits(t, s) ==
             /\ t \in Runs /\ s # None =>
                  /\ runs[t] # None /\ s.gate = runs[t].gate
                  /\ s.status = "awaiting_approval" => s.gate /\ Settled(t)
           Kept(a) == target'[a] = target[a] /\ seen'[a] = seen[a]
           Has(a) == target[a] \in Runs /\ seen[a] # None
           Engaged == LockedApproverPCs \cup {"read", "checked"}
<1>1. \A a \in Approvers : Fits(target[a], seen[a]) /\ (apc[a] \in Engaged => Has(a))
  BY DEF BaseInv, ReadsAreEarlierRecords, Settled
<1>2. \A a \in Approvers :
        \/ Kept(a) /\ (apc'[a] \in Engaged => apc[a] \in Engaged)
        \/ ReadRun(a)
  <2>1. ASSUME NEW r \in Runs, RunHandler(r)
        PROVE  UNCHANGED <<apc, target, seen>>
    BY <2>1 DEF RunHandler, CreateRun, CacheQueued, LockRun, SaveRunning,
       CacheRunning, CheckKillSwitch, Score, SaveRecommendation, RecordSnapshot,
       CacheRecommended, SaveFailed, CacheFailed, ReleaseRun, approvers
  <2>2. ASSUME NEW b \in Approvers, ApprovalHandler(b), ~ReadRun(b)
        PROVE  /\ UNCHANGED <<target, seen>>
               /\ apc[b] \in Engaged
               /\ \A a \in Approvers \ {b} : apc'[a] = apc[a]
    BY <2>2 DEF BaseInv, TypeOK, ApprovalHandler, LockApproval, RefuseApproval,
       SaveDecision, AppendApprovalEvent, CacheDecision, ReleaseApproval,
       LockedApproverPCs
  <2>3. ASSUME NEW b \in Approvers, ReadRun(b)
        PROVE  \A a \in Approvers \ {b} : Kept(a) /\ apc'[a] = apc[a]
    BY <2>3 DEF BaseInv, TypeOK, ReadRun
  <2>4. CASE \/ SetKillSwitch \/ (\E r \in Runs : Expire(r)) \/ UNCHANGED vars
    BY <2>4 DEF SetKillSwitch, Expire, ExpireLock, ExpireStatus, vars, approvers
  <2>5. CASE Crash
    BY <2>5 DEF Crash, LockedApproverPCs, EndPCs
  <2> QED
    BY <2>1, <2>2, <2>3, <2>4, <2>5 DEF Next
<1>3. SUFFICES ASSUME NEW a \in Approvers
               PROVE  Fits(target[a], seen[a])' /\ (apc[a] \in Engaged => Has(a))'
  BY DEF ReadsAreEarlierRecords, Settled
<1>4. CASE Kept(a) /\ (apc'[a] \in Engaged => apc[a] \in Engaged)
  BY <1>1, <1>4 DEF Advances
<1>5. CASE ReadRun(a)
  <2>1. PICK r \in Runs : /\ target'[a] = r
                          /\ seen'[a] \in {runs[r], None}
                          /\ apc'[a] \in {"done", "read", "raised"}
                          /\ apc'[a] = "read" => seen'[a] # None
                          /\ UNCHANGED <<runs, pc>>
    BY <1>5 DEF ReadRun, BaseInv, TypeOK, Reply, stores
  <2>2. RecordFits(pc[r], runs[r])
    BY DEF BaseInv, RecordFollowsHandler
  <2> QED
    BY <2>1, <2>2 DEF RecordFits, Settled, LockedApproverPCs
<1> QED
  BY <1>2, <1>4, <1>5

-----------------------------------------------------------------------------
(* The base invariant, and type correctness.                               *)

LEMMA NextCases ==
  ASSUME [Next]_vars
  PROVE  \/ \E r \in Runs : RunHandler(r)
         \/ \E a \in Approvers : ApprovalHandler(a)
         \/ \/ SetKillSwitch \/ Crash \/ (\E r \in Runs : Expire(r))
            \/ UNCHANGED vars
BY DEF Next

LEMMA BaseInit == Init => BaseInv
<1> SUFFICES ASSUME Init PROVE BaseInv
  OBVIOUS
<1>1. RecordFollowsHandler
  BY DEF Init, RecordFollowsHandler, RecordFits, SavedPCs, EndPCs
<1>2. ReadsAreEarlierRecords
  BY DEF Init, ReadsAreEarlierRecords, LockedApproverPCs
<1> QED
  BY <1>1, <1>2, TypeInit DEF BaseInv

LEMMA BaseStep == BaseInv /\ [Next]_vars => BaseInv'
<1> SUFFICES ASSUME BaseInv, [Next]_vars PROVE BaseInv'
  OBVIOUS
<1>1. CASE \E r \in Runs : RunHandler(r)
  BY <1>1, TypeRunStep, RecordRunStep, RunAdvances, ReadsFollow DEF BaseInv
<1>2. CASE \E a \in Approvers : ApprovalHandler(a)
  BY <1>2, TypeApprovalStep, RecordApprovalStep, ApprovalAdvances, ReadsFollow
     DEF BaseInv
<1>3. CASE \/ SetKillSwitch \/ Crash \/ (\E r \in Runs : Expire(r))
           \/ UNCHANGED vars
  BY <1>3, TypeEnvironmentStep, RecordEnvironmentStep, EnvironmentAdvances,
     ReadsFollow DEF BaseInv
<1> QED
  BY <1>1, <1>2, <1>3, NextCases

LEMMA BaseInvariant == Spec => []BaseInv
BY BaseInit, BaseStep, PTL DEF Spec

\* Every variable keeps its type in every deployment: in particular no handler
\* ever builds a record from one that does not exist.
THEOREM TypeCorrect == Spec => []TypeOK
<1>1. BaseInv => TypeOK
  BY DEF BaseInv
<1> QED
  BY <1>1, BaseInvariant, PTL

-----------------------------------------------------------------------------
(* Final runs carry their decision, in every deployment.                   *)

\* The steps that save a record.
LEMMA RunWriters ==
  ASSUME NEW r \in Runs, RunHandler(r), runs' # runs
  PROVE  CreateRun(r) \/ SaveRunning(r) \/ SaveRecommendation(r) \/ SaveFailed(r)
BY DEF RunHandler, CacheQueued, LockRun, CacheRunning, CheckKillSwitch,
   Score, RecordSnapshot, CacheRecommended, CacheFailed, ReleaseRun, stores

LEMMA DecisionWriter ==
  ASSUME NEW a \in Approvers, ApprovalHandler(a), runs' # runs
  PROVE  SaveDecision(a)
BY DEF ApprovalHandler, ReadRun, LockApproval, RefuseApproval,
   AppendApprovalEvent, CacheDecision, ReleaseApproval, stores

\* The only records ever saved are consistent ones.
LEMMA DecisionStep ==
  ASSUME BaseInv, FinalRunsCarryTheirDecision, [Next]_vars
  PROVE  FinalRunsCarryTheirDecision'
<1>1. ASSUME NEW r \in Runs, NEW o, NEW record, Save(o, r, record),
             CarriesDecision(record)
      PROVE  FinalRunsCarryTheirDecision'
  BY <1>1, SaveWrites DEF FinalRunsCarryTheirDecision, BaseInv
<1>2. CASE UNCHANGED runs
  BY <1>2 DEF FinalRunsCarryTheirDecision
<1>3. ASSUME NEW r \in Runs, CreateRun(r)
      PROVE  FinalRunsCarryTheirDecision'
  <2>1. PICK o \in Outcomes, gate \in BOOLEAN :
          Save(o, r, [status |-> "queued", gate |-> gate, rec |-> FALSE,
                      approval |-> None])
    BY <1>3 DEF CreateRun
  <2> QED
    BY <1>1, <2>1 DEF CarriesDecision
<1>4. ASSUME NEW r \in Runs, SaveRunning(r) \/ SaveRecommendation(r) \/ SaveFailed(r)
      PROVE  FinalRunsCarryTheirDecision'
  <2>1. PICK x \in {Running(r), Recommended(r), Failed(r)} : \E o : Save(o, r, x)
    BY <1>4 DEF SaveRunning, SaveRecommendation, SaveFailed
  <2>2. CarriesDecision(x)
    BY DEF Running, Recommended, Failed, CarriesDecision
  <2> QED
    BY <1>1, <2>1, <2>2
<1>5. ASSUME NEW a \in Approvers, SaveDecision(a)
      PROVE  FinalRunsCarryTheirDecision'
  <2>1. /\ target[a] \in Runs /\ choice[a] \in Decisions
        /\ Approvable(seen[a]) /\ seen[a].gate
    BY <1>5, HandlersHaveRecords, NoneAssumption
       DEF SaveDecision, Approvable, LockedApproverPCs, BaseInv, TypeOK,
           ReadsAreEarlierRecords
  <2>2. ApprovalOf(a) # None
    BY <2>1, NoneAssumption DEF ApprovalOf, Approval
  <2>3. CarriesDecision(Decided(a))
    BY <2>1, <2>2 DEF CarriesDecision, Decided, DecidedStatus, Approvable, ApprovalOf
  <2> QED
    BY <1>1, <1>5, <2>1, <2>3 DEF SaveDecision
<1>6. CASE \/ SetKillSwitch \/ Crash \/ (\E r \in Runs : Expire(r))
           \/ UNCHANGED vars
  BY <1>2, <1>6 DEF SetKillSwitch, Crash, Expire, ExpireLock, ExpireStatus, vars, stores
<1> QED
  BY <1>2, <1>3, <1>4, <1>5, <1>6, RunWriters, DecisionWriter, NextCases

\* In every deployment, whatever raises, crashes or overlaps: a gated run is
\* final only with a matching decision made on its recommendation.
THEOREM DecisionsCarried == Spec => []FinalRunsCarryTheirDecision
<1>1. Init => FinalRunsCarryTheirDecision
  BY DEF Init, FinalRunsCarryTheirDecision
<1> QED
  BY <1>1, DecisionStep, BaseInvariant, PTL DEF Spec

\* A record that is decided or has failed stays one or the other: the creating
\* handler, if it saves it at all, marks it failed.
LEMMA AccountedStays ==
  ASSUME BaseInv, FinalRunsCarryTheirDecision, [Next]_vars,
         NEW r \in Runs, Accounted(r)
  PROVE  Accounted(r)'
<1> USE DEF Accounted, Approved
<1>1. CASE UNCHANGED runs
  BY <1>1
<1>2. ASSUME NEW q \in Runs, RunHandler(q), runs' # runs
      PROVE  Accounted(r)'
  <2>1. CASE q = r
    <3>1. runs[r] # None /\ runs[r].status \in {"failed", "completed", "rejected"}
      BY DEF FinalRunsCarryTheirDecision, CarriesDecision
    <3>2. pc[r] \in SavedPCs
      BY <3>1 DEF BaseInv, RecordFollowsHandler, RecordFits
    <3>3. SaveFailed(r)
      BY <1>2, <2>1, <3>2, RunWriters
         DEF CreateRun, SaveRunning, SaveRecommendation, SavedPCs, EndPCs
    <3>4. runs'[r] = runs[r] \/ runs'[r] = Failed(r)
      BY <3>3, SaveWrites DEF SaveFailed, BaseInv
    <3>5. Failed(r) # None /\ Failed(r).status = "failed"
      BY <3>1, RunRecords, NoneAssumption DEF Failed, BaseInv
    <3> QED
      BY <3>4, <3>5
  <2>2. CASE q # r
    <3>1. \E o, record : Save(o, q, record)
      BY <1>2, RunWriters DEF CreateRun, SaveRunning, SaveRecommendation, SaveFailed
    <3> QED
      BY <2>2, <3>1, SaveWrites DEF BaseInv
  <2> QED
    BY <2>1, <2>2
<1>3. ASSUME NEW a \in Approvers, SaveDecision(a)
      PROVE  Accounted(r)'
  <2>1. /\ target[a] \in Runs /\ seen[a] \in AgentRun /\ choice[a] \in Decisions
    BY <1>3, HandlersHaveRecords
       DEF SaveDecision, LockedApproverPCs, BaseInv, TypeOK
  <2>2. Decided(a) # None /\ Decided(a).approval # None
    BY <2>1, DecidedRecord, NoneAssumption DEF Decided
  <2>3. runs'[r] = runs[r] \/ runs'[r] = Decided(a)
    BY <1>3, <2>1, SaveWrites DEF SaveDecision, BaseInv
  <2> QED
    BY <2>2, <2>3
<1>4. CASE \/ SetKillSwitch \/ Crash \/ (\E q \in Runs : Expire(q))
           \/ UNCHANGED vars
  BY <1>1, <1>4 DEF SetKillSwitch, Crash, Expire, ExpireLock, ExpireStatus, vars, stores
<1> QED
  BY <1>1, <1>2, <1>3, <1>4, DecisionWriter, NextCases

\* What the events and the handlers about to write one are about.
PublishedAreAccounted ==
  /\ \A e \in events : e.run \in Runs /\ Accounted(e.run)
  /\ \A a \in Approvers : apc[a] = "saved" => Accounted(target[a])

LEMMA PublishedAccountedStep ==
  ASSUME BaseInv, FinalRunsCarryTheirDecision, PublishedAreAccounted, [Next]_vars
  PROVE  PublishedAreAccounted'
<1>1. \A a \in Approvers : apc[a] = "saved" => target[a] \in Runs
  BY HandlersHaveRecords DEF LockedApproverPCs
<1>2. \A r \in Runs : Accounted(r) => Accounted(r)'
  BY AccountedStays
<1>3. ASSUME UNCHANGED events,
             \A a \in Approvers : apc'[a] = "saved" =>
               apc[a] = "saved" /\ target'[a] = target[a]
      PROVE  PublishedAreAccounted'
  BY <1>1, <1>2, <1>3 DEF PublishedAreAccounted, Accounted, Approved
<1>4. ASSUME NEW r \in Runs, RunHandler(r)
      PROVE  PublishedAreAccounted'
  BY <1>3, <1>4 DEF RunHandler, CreateRun, CacheQueued, LockRun, SaveRunning,
     CacheRunning, CheckKillSwitch, Score, SaveRecommendation, RecordSnapshot,
     CacheRecommended, SaveFailed, CacheFailed, ReleaseRun, stores, approvers
<1>5. ASSUME NEW a \in Approvers, ApprovalHandler(a)
      PROVE  PublishedAreAccounted'
  <2>1. apc \in [Approvers -> ApproverPCs]
    BY DEF BaseInv, TypeOK
  <2>2. CASE SaveDecision(a)
    <3>1. PICK o \in Outcomes : /\ Save(o, target[a], Decided(a))
                               /\ ApproverMoves(a, Reply(o, "saved", "releaseRaise"))
      BY <2>2 DEF SaveDecision
    <3>2. /\ target[a] \in Runs /\ seen[a] \in AgentRun /\ choice[a] \in Decisions
      BY <2>2, HandlersHaveRecords
         DEF SaveDecision, LockedApproverPCs, BaseInv, TypeOK
    <3>3. apc'[a] = "saved" => runs'[target[a]] = Decided(a)
      BY <2>1, <3>1, <3>2 DEF Save, Effect, Reply, Outcomes, BaseInv, TypeOK
    <3>4. Decided(a) # None /\ Decided(a).approval # None
      BY <3>2, DecidedRecord, NoneAssumption DEF Decided
    <3>5. /\ UNCHANGED <<events, target>>
          /\ \A b \in Approvers \ {a} : apc'[b] = apc[b]
      BY <2>1, <2>2, <3>1 DEF SaveDecision
    <3> QED
      BY <1>1, <1>2, <3>3, <3>4, <3>5 DEF PublishedAreAccounted, Accounted, Approved
  <2>3. CASE AppendApprovalEvent(a)
    <3>1. /\ events' \subseteq events \cup
                          {[run |-> target[a], approval |-> ApprovalOf(a)]}
          /\ UNCHANGED <<runs, target>>
          /\ \A b \in Approvers : apc'[b] = "saved" => apc[b] = "saved"
      BY <2>1, <2>3 DEF AppendApprovalEvent, Effect, Reply
    <3>2. target[a] \in Runs /\ Accounted(target[a])
      BY <1>1, <2>3 DEF AppendApprovalEvent, PublishedAreAccounted
    <3> QED
      BY <3>1, <3>2 DEF PublishedAreAccounted, Accounted, Approved
  <2>4. CASE ReadRun(a) \/ LockApproval(a) \/ RefuseApproval(a)
             \/ CacheDecision(a) \/ ReleaseApproval(a)
    <3>1. UNCHANGED events
      BY <2>4 DEF ReadRun, LockApproval, RefuseApproval, CacheDecision,
         ReleaseApproval, stores
    <3>2. \A b \in Approvers \ {a} : apc'[b] = apc[b] /\ target'[b] = target[b]
      BY <2>1, <2>4 DEF ReadRun, LockApproval, RefuseApproval, CacheDecision,
         ReleaseApproval, BaseInv, TypeOK
    <3>3. apc'[a] # "saved"
      BY <2>1, <2>4 DEF ReadRun, LockApproval, RefuseApproval, CacheDecision,
         ReleaseApproval, Reply
    <3> QED
      BY <1>3, <3>1, <3>2, <3>3
  <2> QED
    BY <1>5, <2>2, <2>3, <2>4 DEF ApprovalHandler
<1>6. CASE \/ SetKillSwitch \/ Crash \/ (\E r \in Runs : Expire(r))
           \/ UNCHANGED vars
  BY <1>3, <1>6 DEF SetKillSwitch, Crash, Expire, ExpireLock, ExpireStatus, vars,
     stores, approvers
<1> QED
  BY <1>4, <1>5, <1>6, NextCases

\* In every deployment, locks that expire under their holders included: only the
\* failure of its run erases a decision, and a published decision is about a run
\* that was decided or has failed.
THEOREM ErasuresAreFailures == Spec => OnlyFailureErasesDecision
<1>1. Init => PublishedAreAccounted
  BY DEF Init, PublishedAreAccounted
<1>2. PublishedAreAccounted => \A e \in events : Accounted(e.run)
  BY DEF PublishedAreAccounted
<1>3. BaseInv /\ FinalRunsCarryTheirDecision /\ [Next]_vars
        => [\A r \in Runs : Approved(r) => Accounted(r)']_runs
  BY AccountedStays DEF Accounted
<1> QED
  BY <1>1, <1>2, <1>3, PublishedAccountedStep, BaseInvariant, DecisionsCarried, PTL
     DEF Spec, OnlyFailureErasesDecision
-----------------------------------------------------------------------------
(* What the lock gives.                                                    *)

\* A step of a handler whose control point leaves or enters the section
\* between acquire_lock and release_lock is a step on the lock.
LEMMA AcquireStep ==
  ASSUME LockExcludes, NEW r, NEW here, NEW to,
         here # "checked", AcquireLock(r, here, to)
  PROVE  /\ to \in {"raised", "locked"}
         /\ locks \subseteq locks' /\ locks' \subseteq locks \cup {r}
         /\ to = "locked" => r \notin locks /\ r \in locks'
BY DEF LockExcludes, AcquireLock, Effect, Reply, Outcomes

\* What a step of the creating handler of r does to holders and locks.
LEMMA RunLockStep ==
  ASSUME LockExcludes, BaseInv, LockInv, NEW r \in Runs, RunHandler(r)
  PROVE  /\ pc'[r] # "checked"
         /\ RunHolds(r)' => RunHolds(r) \/ (r \notin locks /\ r \in locks')
         /\ locks \ {r} \subseteq locks'
         /\ RunHolds(r)' \/ (\E a \in Approvers : ApproverHolds(a, r)) =>
              (r \in locks => r \in locks')
         /\ \A q \in Runs \ {r} : pc'[q] = pc[q]
         /\ UNCHANGED <<apc, target>>
<1> USE DEF RunHolds, LockedRunPCs, stores, approvers, Reply
<1>1. pc \in [Runs -> RunPCs] /\ pc[r] # "checked"
  BY DEF BaseInv, TypeOK, LockInv, AcquireIsAtomic, LockExcludes
<1>2. \A p : RunMoves(r, p) => pc'[r] = p /\ \A q \in Runs \ {r} : pc'[q] = pc[q]
  BY <1>1
<1>3. CASE LockRun(r)
  <2>1. PICK to : AcquireLock(r, pc[r], to) /\ RunMoves(r, to)
    BY <1>3 DEF LockRun
  <2>2. /\ to \in {"raised", "locked"}
        /\ locks \subseteq locks' /\ locks' \subseteq locks \cup {r}
        /\ to = "locked" => r \notin locks /\ r \in locks'
    BY <1>1, <2>1, AcquireStep
  <2>3. UNCHANGED <<apc, target>>
    BY <1>3 DEF LockRun
  <2>4. pc'[r] = to /\ \A q \in Runs \ {r} : pc'[q] = pc[q]
    BY <1>2, <2>1
  <2> QED
    BY <2>2, <2>3, <2>4
<1>4. CASE ReleaseRun(r)
  <2>1. \A a \in Approvers : ~ApproverHolds(a, r)
    BY <1>4 DEF ReleaseRun, LockInv, MutualExclusion
  <2>2. locks \ {r} \subseteq locks' /\ UNCHANGED <<apc, target>>
    BY <1>4 DEF ReleaseRun, ReleaseLock, Effect
  <2>3. \E p \in {"done", "raised"} : RunMoves(r, p)
    BY <1>4 DEF ReleaseRun
  <2>4. pc'[r] \in {"done", "raised"} /\ \A q \in Runs \ {r} : pc'[q] = pc[q]
    BY <1>2, <2>3
  <2> QED
    BY <2>1, <2>2, <2>4
<1>5. CASE ~LockRun(r) /\ ~ReleaseRun(r)
  <2>1. UNCHANGED <<locks, apc, target>>
    BY <1>5, RunHandlerCases DEF CreateRun, CacheQueued, SaveRunning, CacheRunning,
       CheckKillSwitch, Score, SaveRecommendation, RecordSnapshot,
       CacheRecommended, SaveFailed, CacheFailed
  <2>2. \/ pc[r] \in {"idle", "created"}
           /\ \E p \in {"created", "queued", "raised"} : RunMoves(r, p)
        \/ RunHolds(r) /\ \E p \in RunPCs \ {"checked"} : RunMoves(r, p)
    BY <1>5, RunHandlerCases DEF CreateRun, CacheQueued, SaveRunning,
       CacheRunning, CheckKillSwitch, Score, SaveRecommendation, RecordSnapshot,
       CacheRecommended, SaveFailed, CacheFailed, RunPCs, EndPCs
  <2>3. /\ pc'[r] # "checked" /\ (RunHolds(r)' => RunHolds(r))
        /\ \A q \in Runs \ {r} : pc'[q] = pc[q]
    BY <1>2, <2>2
  <2> QED
    BY <2>1, <2>3
<1> QED
  BY <1>3, <1>4, <1>5

\* What a step of an approval handler does to holders and locks.
LEMMA ApprovalLockStep ==
  ASSUME LockExcludes, BaseInv, LockInv, NEW a \in Approvers, ApprovalHandler(a)
  PROVE  /\ apc'[a] # "checked"
         /\ \A b \in Approvers \ {a} : apc'[b] = apc[b] /\ target'[b] = target[b]
         /\ UNCHANGED pc
         /\ \/ UNCHANGED locks /\ apc'[a] \notin LockedApproverPCs
            \/ /\ UNCHANGED <<locks, target>>
               /\ apc[a] \in LockedApproverPCs
            \/ /\ UNCHANGED target
               /\ target[a] \in Runs \ locks
               /\ locks' = locks \cup {target[a]}
               /\ apc[a] \notin LockedApproverPCs
            \/ /\ UNCHANGED target
               /\ target[a] \in Runs /\ apc[a] \in LockedApproverPCs
               /\ locks' = locks \ {target[a]}
               /\ apc'[a] \notin LockedApproverPCs
<1> USE DEF LockedApproverPCs, stores, Reply
<1>1. apc \in [Approvers -> ApproverPCs] /\ apc[a] # "checked"
  BY DEF BaseInv, TypeOK, LockInv, AcquireIsAtomic, LockExcludes
<1>2. \A p : ApproverMoves(a, p) =>
        apc'[a] = p /\ \A b \in Approvers \ {a} : apc'[b] = apc[b]
  BY <1>1
<1>3. CASE ReadRun(a)
  <2>1. \E p \in {"done", "read", "raised"} : ApproverMoves(a, p)
    BY <1>3 DEF ReadRun
  <2>2. \A b \in Approvers \ {a} : target'[b] = target[b]
    BY <1>3 DEF ReadRun, BaseInv, TypeOK
  <2>3. UNCHANGED <<locks, pc>>
    BY <1>3 DEF ReadRun
  <2> QED
    BY <1>2, <2>1, <2>2, <2>3
<1>4. CASE LockApproval(a)
  <2>1. PICK to : AcquireLock(target[a], apc[a], to) /\ ApproverMoves(a, to)
    BY <1>4 DEF LockApproval
  <2>2. target[a] \in Runs /\ apc[a] = "read" /\ UNCHANGED <<pc, target>>
    BY <1>1, <1>4, HandlersHaveRecords DEF LockApproval
  <2>3. /\ to \in {"raised", "locked"}
        /\ \/ to = "raised" /\ UNCHANGED locks
           \/ target[a] \notin locks /\ locks' = locks \cup {target[a]}
    BY <2>1, <2>2 DEF LockExcludes, AcquireLock, Effect, Outcomes
  <2> QED
    BY <1>2, <2>1, <2>2, <2>3
<1>5. CASE ReleaseApproval(a)
  <2>1. /\ target[a] \in Runs /\ UNCHANGED <<pc, target>>
        /\ apc[a] \in LockedApproverPCs
    BY <1>5, HandlersHaveRecords DEF ReleaseApproval
  <2>2. UNCHANGED locks \/ locks' = locks \ {target[a]}
    BY <1>5 DEF ReleaseApproval, ReleaseLock, Effect
  <2>3. \E p \in {"done", "raised"} : ApproverMoves(a, p)
    BY <1>5 DEF ReleaseApproval
  <2> QED
    BY <1>2, <2>1, <2>2, <2>3
<1>6. CASE RefuseApproval(a) \/ SaveDecision(a) \/ AppendApprovalEvent(a) \/ CacheDecision(a)
  <2>1. UNCHANGED <<locks, pc, target>> /\ apc[a] \in LockedApproverPCs
    BY <1>6 DEF RefuseApproval, SaveDecision, AppendApprovalEvent, CacheDecision
  <2>2. \E p \in LockedApproverPCs : ApproverMoves(a, p)
    BY <1>6 DEF RefuseApproval, SaveDecision, AppendApprovalEvent, CacheDecision
  <2> QED
    BY <1>2, <2>1, <2>2
<1> QED
  BY <1>3, <1>4, <1>5, <1>6 DEF ApprovalHandler

-----------------------------------------------------------------------------
(* The lock's part of the invariant.                                       *)

Exclusion == AcquireIsAtomic /\ HoldersHaveTheLock /\ MutualExclusion

LEMMA ExclusionRunStep ==
  ASSUME LockExcludes, BaseInv, LockInv, NEW r \in Runs, RunHandler(r)
  PROVE  Exclusion'
<1>1. /\ pc'[r] # "checked"
      /\ RunHolds(r)' => RunHolds(r) \/ (r \notin locks /\ r \in locks')
      /\ locks \ {r} \subseteq locks'
      /\ RunHolds(r)' \/ (\E a \in Approvers : ApproverHolds(a, r)) =>
           (r \in locks => r \in locks')
      /\ \A q \in Runs \ {r} : pc'[q] = pc[q]
      /\ UNCHANGED <<apc, target>>
  BY RunLockStep
<1>2. \A q \in Runs \ {r} : RunHolds(q)' <=> RunHolds(q)
  BY <1>1 DEF RunHolds
<1>3. \A a \in Approvers, q \in Runs : ApproverHolds(a, q)' <=> ApproverHolds(a, q)
  BY <1>1 DEF ApproverHolds
<1>4. AcquireIsAtomic'
  BY <1>1 DEF LockInv, AcquireIsAtomic
<1>5. HoldersHaveTheLock'
  BY <1>1, <1>2, <1>3 DEF LockInv, HoldersHaveTheLock
<1>6. MutualExclusion'
  BY <1>1, <1>2, <1>3 DEF LockInv, MutualExclusion, HoldersHaveTheLock
<1> QED
  BY <1>4, <1>5, <1>6 DEF Exclusion

LEMMA ExclusionApprovalStep ==
  ASSUME LockExcludes, BaseInv, LockInv, NEW a \in Approvers, ApprovalHandler(a)
  PROVE  Exclusion'
<1>1. /\ apc'[a] # "checked"
      /\ \A b \in Approvers \ {a} : apc'[b] = apc[b] /\ target'[b] = target[b]
      /\ UNCHANGED pc
  BY ApprovalLockStep
<1>2. \A q \in Runs : RunHolds(q)' <=> RunHolds(q)
  BY <1>1 DEF RunHolds
<1>3. \A b \in Approvers \ {a}, q \in Runs : ApproverHolds(b, q)' <=> ApproverHolds(b, q)
  BY <1>1 DEF ApproverHolds
<1>4. AcquireIsAtomic'
  BY <1>1 DEF LockInv, AcquireIsAtomic
<1> SUFFICES HoldersHaveTheLock' /\ MutualExclusion'
  BY <1>4 DEF Exclusion
<1> USE <1>2, <1>3 DEF LockInv, HoldersHaveTheLock, MutualExclusion
<1>5. CASE UNCHANGED locks /\ apc'[a] \notin LockedApproverPCs
  <2>1. \A q \in Runs : ~ApproverHolds(a, q)'
    BY <1>5 DEF ApproverHolds
  <2> QED
    BY <1>5, <2>1
<1>6. CASE UNCHANGED <<locks, target>> /\ apc[a] \in LockedApproverPCs
  <2>1. \A q \in Runs : ApproverHolds(a, q)' => ApproverHolds(a, q)
    BY <1>6 DEF ApproverHolds
  <2> QED
    BY <1>6, <2>1
<1>7. CASE /\ UNCHANGED target
           /\ target[a] \in Runs \ locks
           /\ locks' = locks \cup {target[a]}
           /\ apc[a] \notin LockedApproverPCs
  <2>1. \A q \in Runs : ApproverHolds(a, q)' => q = target[a]
    BY <1>7 DEF ApproverHolds
  <2>2. ~RunHolds(target[a]) /\ \A b \in Approvers : ~ApproverHolds(b, target[a])
    BY <1>7
  <2> QED
    BY <1>7, <2>1, <2>2
<1>8. CASE /\ UNCHANGED target
           /\ target[a] \in Runs /\ apc[a] \in LockedApproverPCs
           /\ locks' = locks \ {target[a]}
           /\ apc'[a] \notin LockedApproverPCs
  <2>1. \A q \in Runs : ~ApproverHolds(a, q)'
    BY <1>8 DEF ApproverHolds
  <2>2. ApproverHolds(a, target[a])
    BY <1>8 DEF ApproverHolds
  <2>3. ~RunHolds(target[a]) /\ \A b \in Approvers \ {a} : ~ApproverHolds(b, target[a])
    BY <1>8, <2>2
  <2> QED
    BY <1>8, <2>1, <2>3
<1> QED
  BY <1>5, <1>6, <1>7, <1>8, ApprovalLockStep

\* SetKillSwitch and Crash leave the lock alone, a crash only ends holders, and
\* a key that expires is nobody's.
LEMMA ExclusionEnvironmentStep ==
  ASSUME LockExcludes, LockInv,
         \/ SetKillSwitch \/ Crash \/ (\E r \in Runs : Expire(r))
         \/ UNCHANGED vars
  PROVE  Exclusion'
<1>1. /\ UNCHANGED target
      /\ \A q \in Runs : q \in locks /\ RunHolds(q) => q \in locks'
      /\ \A q \in Runs, a \in Approvers :
           q \in locks /\ ApproverHolds(a, q) => q \in locks'
  BY DEF SetKillSwitch, Crash, Expire, ExpireLock, ExpireStatus, LockExcludes, vars, approvers
<1>2. /\ \A q \in Runs : pc'[q] = pc[q] \/ pc'[q] = "dead"
      /\ \A a \in Approvers : apc'[a] = apc[a] \/ apc'[a] = "dead"
  BY DEF SetKillSwitch, Crash, Expire, ExpireLock, ExpireStatus, LockExcludes, vars, approvers
<1>3. /\ \A q \in Runs : RunHolds(q)' => RunHolds(q)
      /\ \A a \in Approvers, q \in Runs : ApproverHolds(a, q)' => ApproverHolds(a, q)
  BY <1>1, <1>2 DEF RunHolds, ApproverHolds, LockedRunPCs, LockedApproverPCs
<1>4. AcquireIsAtomic'
  BY <1>2 DEF LockInv, AcquireIsAtomic
<1> QED
  BY <1>1, <1>3, <1>4 DEF LockInv, Exclusion, HoldersHaveTheLock, MutualExclusion

\* The creating handler of a decided run is over, so nothing overwrites the
\* decision; an approval handler that is about to decide holds the lock and
\* has read a recommendation, so the creating handler is over.
LEMMA FinishedStep ==
  ASSUME LockExcludes, BaseInv, LockInv, [Next]_vars
  PROVE  DecidedRunIsFinished'
<1> USE DEF DecidedRunIsFinished, LockInv, Approved
<1>1. ASSUME NEW r \in Runs, RunHandler(r)
      PROVE  DecidedRunIsFinished'
  <2>1. pc[r] \notin EndPCs
    BY <1>1, RunHandlerCases DEF EndPCs, CreateRun, CacheQueued, LockRun,
       SaveRunning, CacheRunning, CheckKillSwitch, Score, SaveRecommendation,
       RecordSnapshot, CacheRecommended, SaveFailed, CacheFailed, ReleaseRun
  <2>2. \A q \in Runs \ {r} : pc'[q] = pc[q]
    BY <1>1, RunLockStep
  <2>3. CASE UNCHANGED runs
    BY <2>1, <2>2, <2>3
  <2>4. CASE runs' # runs
    <3>1. \E o, record : Save(o, r, record) /\ record.approval = None
      <4>1. CASE CreateRun(r)
        BY <4>1 DEF CreateRun
      <4>2. CASE SaveRunning(r) \/ SaveRecommendation(r) \/ SaveFailed(r)
        BY <4>2 DEF SaveRunning, SaveRecommendation, SaveFailed,
           Running, Recommended, Failed
      <4> QED
        BY <1>1, <2>4, <4>1, <4>2, RunWriters
    <3>2. /\ \A q \in Runs \ {r} : runs'[q] = runs[q]
          /\ runs'[r] = runs[r] \/ runs'[r].approval = None
      BY <3>1, SaveWrites DEF BaseInv
    <3> QED
      BY <2>1, <2>2, <3>2
  <2> QED
    BY <2>3, <2>4
<1>2. ASSUME NEW a \in Approvers, ApprovalHandler(a)
      PROVE  DecidedRunIsFinished'
  <2>1. UNCHANGED pc
    BY <1>2, ApprovalLockStep
  <2>2. CASE UNCHANGED runs
    BY <2>1, <2>2
  <2>3. CASE SaveDecision(a)
    <3>1. /\ target[a] \in Runs /\ pc[target[a]] \in SavedPCs
          /\ ApproverHolds(a, target[a])
      BY <2>3, HandlersHaveRecords, NoneAssumption
         DEF SaveDecision, Approvable, LockedApproverPCs, ApproverHolds, BaseInv,
             TypeOK, ReadsAreEarlierRecords
    <3>2. pc[target[a]] \in EndPCs
      BY <3>1 DEF MutualExclusion, RunHolds, SavedPCs, LockedRunPCs
    <3>3. \A q \in Runs \ {target[a]} : runs'[q] = runs[q]
      BY <2>3, <3>1, SaveWrites DEF SaveDecision, BaseInv
    <3> QED
      BY <2>1, <3>2, <3>3
  <2> QED
    BY <1>2, <2>2, <2>3, DecisionWriter
<1>3. CASE \/ SetKillSwitch \/ Crash \/ (\E r \in Runs : Expire(r))
           \/ UNCHANGED vars
  <2>1. UNCHANGED runs
    BY <1>3 DEF SetKillSwitch, Crash, Expire, ExpireLock, ExpireStatus, vars, stores
  <2>2. \A q \in Runs : pc[q] \in EndPCs => pc'[q] \in EndPCs
    BY <1>3 DEF SetKillSwitch, Crash, Expire, ExpireLock, ExpireStatus, vars, EndPCs
  <2> QED
    BY <2>1, <2>2
<1> QED
  BY <1>1, <1>2, <1>3, NextCases

LEMMA LockInit == Init => LockInv
BY DEF Init, LockInv, AcquireIsAtomic, HoldersHaveTheLock, MutualExclusion,
   DecidedRunIsFinished, RunHolds, ApproverHolds, Approved, LockedRunPCs,
   LockedApproverPCs

LEMMA LockStep ==
  ASSUME LockExcludes, BaseInv, LockInv, [Next]_vars
  PROVE  LockInv'
<1>1. Exclusion'
  BY NextCases, ExclusionRunStep, ExclusionApprovalStep, ExclusionEnvironmentStep
<1> QED
  BY <1>1, FinishedStep DEF LockInv, Exclusion

\* The records' part of the invariant, from which the next theorems follow.
LEMMA RecordInvariant ==
  ASSUME LockExcludes
  PROVE  Spec => []RecordInv
<1>1. BaseInv /\ LockInv /\ [Next]_vars => LockInv'
  BY LockStep
<1>2. BaseInv /\ FinalRunsCarryTheirDecision /\ LockInv => RecordInv
  BY DEF RecordInv
<1> QED
  BY <1>1, <1>2, LockInit, BaseInvariant, DecisionsCarried, PTL DEF Spec

\* The creating handler and the approval handlers of a run are never together
\* between acquire_lock and release_lock.
THEOREM LockIsExclusive ==
  ASSUME LockExcludes
  PROVE  Spec => []MutualExclusion
<1>1. RecordInv => MutualExclusion
  BY DEF RecordInv, LockInv
<1> QED
  BY <1>1, RecordInvariant, PTL

\* record_approval never decides on a run whose creating handler could still
\* overwrite the record, although it reads the record before it locks.
THEOREM DecidedRunsAreFinished ==
  ASSUME LockExcludes
  PROVE  Spec => []DecidedRunIsFinished
<1>1. RecordInv => DecidedRunIsFinished
  BY DEF RecordInv, LockInv
<1> QED
  BY <1>1, RecordInvariant, PTL

-----------------------------------------------------------------------------
(* Every step moves the record as RunLifecycle allows.                     *)

\* What the invariant knows of a record its creating handler may still save.
LEMMA UndecidedRecord ==
  ASSUME RecordInv, NEW r \in Runs, pc[r] \notin EndPCs, runs[r] # None
  PROVE  /\ runs[r] \in AgentRun
         /\ runs[r].approval = None
         /\ RecordFits(pc[r], runs[r])
BY DEF RecordInv, BaseInv, LockInv, TypeOK, RecordFollowsHandler,
   DecidedRunIsFinished, Approved

\* The moves of RunLifecycle, its constant Once replaced as in AgentRuns.
LEMMA RunMovesRecord ==
  ASSUME RecordInv, NEW r \in Runs, RunHandler(r), runs' # runs
  PROVE  \/ Lifecycle!Create(r) \/ Lifecycle!Start(r)
         \/ Lifecycle!Settle(r) \/ Lifecycle!Fail(r)
<1> USE DEF Save, Effect, Lifecycle!Exists, Lifecycle!Undecided, Lifecycle!Write
<1>1. CASE CreateRun(r)
  BY <1>1 DEF RecordInv, BaseInv, RecordFollowsHandler, RecordFits, CreateRun,
     Lifecycle!Create
<1>2. CASE SaveRunning(r)
  <2>1. pc[r] \notin EndPCs /\ runs[r] # None /\ runs[r].status = "queued"
    BY <1>2 DEF SaveRunning, EndPCs, RecordInv, BaseInv, RecordFollowsHandler, RecordFits
  <2>2. runs[r].approval = None
    BY <2>1, UndecidedRecord
  <2> QED
    BY <1>2, <2>1, <2>2 DEF SaveRunning, Running, Lifecycle!Start
<1>3. CASE SaveRecommendation(r)
  <2>1. pc[r] \notin EndPCs /\ runs[r] # None /\ runs[r].status = "running"
    BY <1>3 DEF SaveRecommendation, EndPCs, RecordInv, BaseInv, RecordFollowsHandler,
       RecordFits
  <2>2. runs[r].approval = None
    BY <2>1, UndecidedRecord
  <2> QED
    BY <1>3, <2>1, <2>2 DEF SaveRecommendation, Recommended, Lifecycle!Settle
<1>4. CASE SaveFailed(r)
  <2>1. pc[r] \notin EndPCs /\ runs[r] # None /\ runs[r].status # "queued"
    BY <1>4 DEF SaveFailed, SavedPCs, EndPCs, RecordInv, BaseInv, RecordFollowsHandler,
       RecordFits
  <2>2. runs[r].approval = None
    BY <2>1, UndecidedRecord
  <2> QED
    BY <1>4, <2>1, <2>2 DEF SaveFailed, Failed, Lifecycle!Fail
<1> QED
  BY <1>1, <1>2, <1>3, <1>4, RunWriters

LEMMA DecisionMovesRecord ==
  ASSUME RecordInv, NEW a \in Approvers, SaveDecision(a), runs' # runs
  PROVE  \E r \in Runs, d \in Decisions : Lifecycle!Decide(r, a, d)
<1> DEFINE r == target[a]
           d == choice[a]
<1>1. /\ r \in Runs /\ runs[r] # None /\ runs[r] \in AgentRun
      /\ seen[a] \in AgentRun /\ d \in Decisions
      /\ seen[a].status = "awaiting_approval" /\ seen[a].rec
  BY HandlersHaveRecords DEF RecordInv, BaseInv, TypeOK, SaveDecision, Approvable,
     LockedApproverPCs
<1>2. /\ runs[r].gate /\ seen[a].gate = runs[r].gate
      /\ runs[r].status \notin {"queued", "running"}
  BY <1>1, NoneAssumption DEF RecordInv, BaseInv, ReadsAreEarlierRecords
<1>3. Decided(a) = [status |-> IF d = "approved" THEN "completed" ELSE "rejected",
                    gate |-> runs[r].gate, rec |-> TRUE,
                    approval |-> [decision |-> d, approver |-> a]]
  BY <1>1, <1>2 DEF Decided, DecidedStatus, ApprovalOf, AgentRun
<1>4. Lifecycle!Decide(r, a, d)
  BY <1>1, <1>2, <1>3 DEF SaveDecision, Save, Effect, Lifecycle!Decide,
     Lifecycle!Write, Lifecycle!Exists
<1> QED
  BY <1>1, <1>4

LEMMA StepIsAMove ==
  ASSUME RecordInv, [Next]_vars
  PROVE  [Lifecycle!Next]_runs
<1>1. CASE \E r \in Runs : RunHandler(r)
  BY <1>1, RunMovesRecord DEF Lifecycle!Next
<1>2. CASE \E a \in Approvers : ApprovalHandler(a)
  BY <1>2, DecisionWriter, DecisionMovesRecord
     DEF Lifecycle!Next, Lifecycle!Decisions, Decisions
<1>3. CASE \/ SetKillSwitch \/ Crash \/ (\E r \in Runs : Expire(r))
           \/ UNCHANGED vars
  BY <1>3 DEF SetKillSwitch, Crash, Expire, ExpireLock, ExpireStatus, vars, stores
<1> QED
  BY <1>1, <1>2, <1>3, NextCases

\* The workflow, with all its interleavings, faults and crashes, implements
\* RunLifecycle.
THEOREM Implements ==
  ASSUME LockExcludes
  PROVE  Spec => LifecycleSpec
<1>1. Init => Lifecycle!Init
  BY DEF Init, Lifecycle!Init
<1>2. RecordInv /\ [Next]_vars => [Lifecycle!Next]_runs
  BY StepIsAMove
<1> QED
  BY <1>1, <1>2, RecordInvariant, PTL DEF Spec, LifecycleSpec, Lifecycle!Spec

LEMMA DecisionStays ==
  ASSUME RecordInv, [Next]_vars
  PROVE  \A r \in Runs : Approved(r) => Approved(r)'
<1> SUFFICES ASSUME [Lifecycle!Next]_runs, runs' # runs,
                    NEW r \in Runs, Approved(r)
             PROVE  Approved(r)'
  BY StepIsAMove DEF Approved
<1>1. PICK q \in Runs :
        \/ Lifecycle!Create(q) \/ Lifecycle!Start(q) \/ Lifecycle!Settle(q)
        \/ Lifecycle!Fail(q)
        \/ \E a \in Approvers, d \in Decisions : Lifecycle!Decide(q, a, d)
  BY DEF Lifecycle!Next, Lifecycle!Decisions, Decisions
<1>2. runs \in [Runs -> AgentRun \cup {None}]
  BY DEF RecordInv, BaseInv, TypeOK
<1>3. CASE q # r
  BY <1>1, <1>2, <1>3 DEF Approved, Lifecycle!Create, Lifecycle!Start,
     Lifecycle!Settle, Lifecycle!Fail, Lifecycle!Decide, Lifecycle!Write
<1>4. CASE q = r
  <2>1. PICK a \in Approvers, d \in Decisions : Lifecycle!Decide(r, a, d)
    BY <1>1, <1>4 DEF Approved, Lifecycle!Exists, Lifecycle!Undecided,
       Lifecycle!Create, Lifecycle!Start, Lifecycle!Settle, Lifecycle!Fail
  <2>2. [decision |-> d, approver |-> a] # None
    BY NoneAssumption DEF Approval
  <2> DEFINE status == IF d = "approved" THEN "completed" ELSE "rejected"
  <2>3. runs'[r] = [status |-> status, gate |-> runs[r].gate, rec |-> TRUE,
                    approval |-> [decision |-> d, approver |-> a]]
    BY <1>2, <2>1 DEF Lifecycle!Decide, Lifecycle!Write
  <2>4. runs[r].gate \in BOOLEAN
    BY <1>2 DEF Approved, AgentRun
  <2>5. runs'[r] \in AgentRun
    BY <2>3, <2>4 DEF AgentRun, Approval, Statuses
  <2>6. runs'[r] # None
    BY <2>5, NoneAssumption
  <2>7. runs'[r].approval # None
    BY ONLY <2>2, <2>3
  <2> QED
    BY <2>6, <2>7 DEF Approved
<1> QED
  BY <1>3, <1>4

\* No save ever removes a recorded human decision.
THEOREM DecisionsAreKept ==
  ASSUME LockExcludes
  PROVE  Spec => DecisionNeverErased
<1>1. RecordInv /\ [Next]_vars => [\A r \in Runs : Approved(r) => Approved(r)']_runs
  BY DecisionStays
<1> QED
  BY <1>1, RecordInvariant, PTL DEF Spec, DecisionNeverErased

-----------------------------------------------------------------------------
(* Decisions are published, and the cached status follows the record.      *)

\* What a step of a creating handler leaves alone; its run is undecided.
LEMMA RunStepFrame ==
  ASSUME RecordInv, NEW r \in Runs, RunHandler(r)
  PROVE  /\ pc[r] \notin EndPCs
         /\ UNCHANGED <<events, apc, target, choice>>
         /\ \A q \in Runs \ {r} : /\ runs'[q] = runs[q] /\ pc'[q] = pc[q]
                                  /\ statuses'[q] = statuses[q]
         /\ ~Approved(r) /\ ~Approved(r)'
<1> USE DEF CreateRun, CacheQueued, LockRun, SaveRunning, CacheRunning,
        CheckKillSwitch, Score, SaveRecommendation, RecordSnapshot,
        CacheRecommended, SaveFailed, CacheFailed, ReleaseRun
<1>1. TypeOK
  BY DEF RecordInv, BaseInv
<1>2. pc[r] \notin EndPCs
  BY RunHandlerCases DEF EndPCs
<1>3. UNCHANGED <<events, apc, target, choice>>
  BY RunHandlerCases DEF stores, approvers
<1>4. \A q \in Runs \ {r} : pc'[q] = pc[q]
  BY <1>1, RunHandlerCases DEF TypeOK
<1>5. \A q \in Runs \ {r} : statuses'[q] = statuses[q]
  BY <1>1, RunHandlerCases DEF TypeOK, SetStatus, Effect, stores
<1>6. ~Approved(r)
  BY <1>2 DEF RecordInv, LockInv, DecidedRunIsFinished
<1>7. CASE UNCHANGED runs
  BY <1>2, <1>3, <1>4, <1>5, <1>6, <1>7 DEF Approved
<1>8. CASE runs' # runs
  <2>1. \E o, record : Save(o, r, record) /\ record.approval = None
    <3>1. CASE CreateRun(r)
      BY <3>1
    <3>2. CASE SaveRunning(r) \/ SaveRecommendation(r) \/ SaveFailed(r)
      BY <3>2 DEF Running, Recommended, Failed
    <3> QED
      BY <1>8, <3>1, <3>2, RunWriters
  <2>2. /\ \A q \in Runs \ {r} : runs'[q] = runs[q]
        /\ runs'[r] = runs[r] \/ runs'[r].approval = None
    BY <1>1, <2>1, SaveWrites
  <2> QED
    BY <1>2, <1>3, <1>4, <1>5, <1>6, <2>2 DEF Approved
<1> QED
  BY <1>7, <1>8

\* What a step of an approval handler leaves alone, and where it leads.
LEMMA ApprovalStepFrame ==
  ASSUME RecordInv, NEW a \in Approvers, ApprovalHandler(a)
  PROVE  /\ UNCHANGED pc
         /\ \A b \in Approvers \ {a} : /\ apc'[b] = apc[b] /\ target'[b] = target[b]
                                       /\ choice'[b] = choice[b]
         /\ \/ /\ apc[a] = "idle" /\ apc'[a] \in {"read", "done", "raised"}
               /\ UNCHANGED stores
            \/ /\ UNCHANGED <<target, choice>>
               /\ \/ /\ apc[a] \in {"read", "checked"} /\ UNCHANGED stores
                     /\ apc'[a] \in {"checked", "locked", "raised"}
                  \/ /\ apc[a] = "locked" /\ UNCHANGED stores
                     /\ apc'[a] = "releaseRaise"
                  \/ SaveDecision(a) \/ AppendApprovalEvent(a) \/ CacheDecision(a)
                  \/ /\ apc[a] = "release" /\ apc'[a] \in {"done", "raised"}
                     /\ UNCHANGED stores
                  \/ /\ apc[a] = "releaseRaise" /\ apc'[a] = "raised"
                     /\ UNCHANGED stores
<1>1. TypeOK
  BY DEF RecordInv, BaseInv
<1>2. \A p : ApproverMoves(a, p) =>
        apc'[a] = p /\ \A b \in Approvers \ {a} : apc'[b] = apc[b]
  BY <1>1 DEF TypeOK
<1>3. CASE ReadRun(a)
  <2>1. \E p \in {"read", "done", "raised"} : ApproverMoves(a, p)
    BY <1>3 DEF ReadRun, Reply
  <2>2. \A b \in Approvers \ {a} : target'[b] = target[b] /\ choice'[b] = choice[b]
    BY <1>1, <1>3 DEF ReadRun, TypeOK
  <2>3. apc[a] = "idle" /\ UNCHANGED <<stores, pc>>
    BY <1>3 DEF ReadRun
  <2> QED
    BY <1>2, <2>1, <2>2, <2>3
<1>4. CASE LockApproval(a)
  <2>1. \E p \in {"checked", "locked", "raised"} : ApproverMoves(a, p)
    BY <1>4 DEF LockApproval
  <2> QED
    BY <1>2, <1>4, <2>1 DEF LockApproval
<1>5. CASE RefuseApproval(a)
  BY <1>2, <1>5 DEF RefuseApproval
<1>6. CASE SaveDecision(a) \/ AppendApprovalEvent(a) \/ CacheDecision(a)
  <2>1. /\ UNCHANGED <<pc, target, choice>>
        /\ \E p : ApproverMoves(a, p)
    BY <1>6 DEF SaveDecision, AppendApprovalEvent, CacheDecision
  <2> QED
    BY <1>2, <1>6, <2>1
<1>7. CASE ReleaseApproval(a)
  <2>1. /\ UNCHANGED <<stores, pc, target, choice>>
        /\ apc[a] \in {"release", "releaseRaise"}
        /\ \E p \in {"done", "raised"} :
             ApproverMoves(a, p) /\ (apc[a] = "releaseRaise" => p = "raised")
    BY <1>7 DEF ReleaseApproval, Reply
  <2> QED
    BY <1>2, <2>1
<1> QED
  BY <1>3, <1>4, <1>5, <1>6, <1>7 DEF ApprovalHandler

\* record_approval writes the record of its run only, and only where the
\* creating handler and every other approval handler are out of the way.
LEMMA DecisionStepFrame ==
  ASSUME RecordInv, NEW a \in Approvers, SaveDecision(a)
  PROVE  /\ target[a] \in Runs /\ runs[target[a]] # None
         /\ choice[a] \in Decisions
         /\ Decided(a) # None /\ ApprovalOf(a) # None
         /\ UNCHANGED <<statuses, events, pc, target, choice>>
         /\ apc[a] = "locked"
         /\ \/ apc'[a] = "saved" /\ runs'[target[a]] = Decided(a)
            \/ /\ apc'[a] = "releaseRaise"
               /\ runs'[target[a]] \in {runs[target[a]], Decided(a)}
         /\ \A q \in Runs \ {target[a]} : runs'[q] = runs[q]
         /\ pc[target[a]] \in EndPCs
         /\ \A b \in Approvers \ {a} :
              target[b] = target[a] => apc[b] \notin LockedApproverPCs
<1>1. BaseInv /\ TypeOK /\ MutualExclusion
  BY DEF RecordInv, BaseInv, LockInv
<1>2. /\ target[a] \in Runs /\ runs[target[a]] # None /\ seen[a] \in AgentRun
      /\ choice[a] \in Decisions /\ apc[a] = "locked"
      /\ UNCHANGED <<statuses, events, pc, target, choice>>
  BY <1>1, HandlersHaveRecords DEF SaveDecision, LockedApproverPCs, TypeOK
<1>3. Decided(a) # None /\ ApprovalOf(a) # None
  BY <1>2, DecidedRecord, NoneAssumption
<1>4. PICK o \in Outcomes : /\ Save(o, target[a], Decided(a))
                            /\ ApproverMoves(a, Reply(o, "saved", "releaseRaise"))
  BY DEF SaveDecision
<1>5. apc'[a] = Reply(o, "saved", "releaseRaise")
  BY <1>1, <1>4 DEF TypeOK
<1>6. /\ runs'[target[a]] = IF o = "unsent" THEN runs[target[a]] ELSE Decided(a)
      /\ \A q \in Runs \ {target[a]} : runs'[q] = runs[q]
  BY <1>1, <1>2, <1>4, SaveWrites
<1>7. pc[target[a]] \in SavedPCs /\ ApproverHolds(a, target[a])
  BY <1>1, <1>2, NoneAssumption
     DEF SaveDecision, Approvable, LockedApproverPCs, ApproverHolds, BaseInv,
         ReadsAreEarlierRecords
<1>8. pc[target[a]] \in EndPCs
  BY <1>1, <1>2, <1>7 DEF MutualExclusion, RunHolds, SavedPCs, LockedRunPCs
<1>9. \A b \in Approvers \ {a} :
        target[b] = target[a] => apc[b] \notin LockedApproverPCs
  BY <1>1, <1>2, <1>7 DEF MutualExclusion, ApproverHolds
<1> QED
  BY <1>2, <1>3, <1>5, <1>6, <1>8, <1>9 DEF Reply

\* What the environment does to the handlers: a crash ends those in flight.
LEMMA EnvironmentFrame ==
  ASSUME \/ SetKillSwitch \/ Crash \/ (\E r \in Runs : Expire(r))
         \/ UNCHANGED vars
  PROVE  /\ UNCHANGED <<runs, events, target, choice>>
         /\ \A r \in Runs : \/ pc'[r] = pc[r]
                            \/ pc'[r] = "dead" /\ pc[r] \notin {"idle", "done"}
         /\ \A a \in Approvers : \/ apc'[a] = apc[a]
                                 \/ apc'[a] = "dead" /\ apc[a] \notin {"idle", "done"}
<1> USE DEF stores, approvers
<1>1. CASE SetKillSwitch
  BY <1>1 DEF SetKillSwitch
<1>2. CASE Crash
  BY <1>2 DEF Crash
<1>3. CASE \E r \in Runs : Expire(r)
  BY <1>3 DEF Expire, ExpireLock, ExpireStatus
<1>4. CASE UNCHANGED vars
  BY <1>4 DEF vars
<1> QED
  BY <1>1, <1>2, <1>3, <1>4

\* The calls that follow a saved decision: its update event, and its status.
LEMMA AppendFrame ==
  ASSUME RecordInv, NEW a \in Approvers, AppendApprovalEvent(a)
  PROVE  /\ apc[a] = "saved" /\ target[a] \in Runs
         /\ UNCHANGED <<runs, statuses, pc, target, choice>>
         /\ events \subseteq events'
         /\ events' \subseteq events \cup {[run |-> target[a], approval |-> ApprovalOf(a)]}
         /\ \/ /\ apc'[a] = "published"
               /\ [run |-> target[a], approval |-> ApprovalOf(a)] \in events'
            \/ apc'[a] = "releaseRaise"
<1>1. BaseInv /\ TypeOK
  BY DEF RecordInv, BaseInv
<1>2. /\ apc[a] = "saved" /\ target[a] \in Runs
      /\ UNCHANGED <<runs, statuses, pc, target, choice>>
  BY <1>1, HandlersHaveRecords DEF AppendApprovalEvent, LockedApproverPCs
<1>3. PICK o \in Outcomes :
        /\ events' = Effect(o, events, events \cup
                             {[run |-> target[a], approval |-> ApprovalOf(a)]})
        /\ ApproverMoves(a, Reply(o, "published", "releaseRaise"))
  BY DEF AppendApprovalEvent
<1>4. apc'[a] = Reply(o, "published", "releaseRaise")
  BY <1>1, <1>3 DEF TypeOK
<1> QED
  BY <1>2, <1>3, <1>4 DEF Effect, Reply

LEMMA CacheFrame ==
  ASSUME RecordInv, NEW a \in Approvers, CacheDecision(a)
  PROVE  /\ apc[a] = "published" /\ target[a] \in Runs
         /\ UNCHANGED <<runs, events, pc, target, choice>>
         /\ \A q \in Runs \ {target[a]} : statuses'[q] = statuses[q]
         /\ \/ apc'[a] = "release" /\ statuses'[target[a]] = DecidedStatus(choice[a])
            \/ apc'[a] = "releaseRaise"
<1>1. BaseInv /\ TypeOK
  BY DEF RecordInv, BaseInv
<1>2. /\ apc[a] = "published" /\ target[a] \in Runs
      /\ UNCHANGED <<runs, events, pc, target, choice>>
  BY <1>1, HandlersHaveRecords DEF CacheDecision, LockedApproverPCs
<1>3. PICK o \in Outcomes :
        /\ SetStatus(o, target[a], DecidedStatus(choice[a]))
        /\ ApproverMoves(a, Reply(o, "release", "releaseRaise"))
  BY DEF CacheDecision
<1>4. apc'[a] = Reply(o, "release", "releaseRaise")
  BY <1>1, <1>3 DEF TypeOK
<1>5. statuses' = IF o = "unsent" THEN statuses
                  ELSE [statuses EXCEPT ![target[a]] = DecidedStatus(choice[a])]
  BY <1>3 DEF SetStatus, Effect
<1>6. statuses \in [Runs -> Statuses \cup {None}]
  BY <1>1 DEF TypeOK
<1> QED
  BY <1>2, <1>4, <1>5, <1>6 DEF Reply

\* The handlers that may have put a decision into a record.
SignedPCs == {"saved", "published", "release", "releaseRaise"} \cup EndPCs

LEMMA SignedStep ==
  ASSUME RecordInv, DecisionsAreSigned, [Next]_vars
  PROVE  DecisionsAreSigned'
<1> USE DEF SignedPCs
<1>1. /\ \A q \in Runs : Approved(q) =>
           \E b \in Approvers : Signs(b, q) /\ apc[b] \in SignedPCs
      /\ \A b \in Approvers : apc[b] \in {"saved", "published"} =>
           Approved(target[b]) /\ Signs(b, target[b])
  BY DEF DecisionsAreSigned
<1>2. SUFFICES
        /\ \A q \in Runs : Approved(q)' =>
             \E b \in Approvers : Signs(b, q)' /\ apc'[b] \in SignedPCs
        /\ \A b \in Approvers : apc'[b] \in {"saved", "published"} =>
             Approved(target[b])' /\ Signs(b, target[b])'
  BY DEF DecisionsAreSigned
<1>3. \A b \in Approvers : apc[b] \in {"saved", "published"} => target[b] \in Runs
  BY HandlersHaveRecords DEF RecordInv, LockedApproverPCs
<1>4. ASSUME NEW r \in Runs, RunHandler(r)
      PROVE  /\ \A q \in Runs : Approved(q)' =>
                  \E b \in Approvers : Signs(b, q)' /\ apc'[b] \in SignedPCs
             /\ \A b \in Approvers : apc'[b] \in {"saved", "published"} =>
                  Approved(target[b])' /\ Signs(b, target[b])'
  BY <1>1, <1>3, <1>4, RunStepFrame DEF Approved, Signs, ApprovalOf
<1>5. ASSUME NEW a \in Approvers, ApprovalHandler(a)
      PROVE  /\ \A q \in Runs : Approved(q)' =>
                  \E b \in Approvers : Signs(b, q)' /\ apc'[b] \in SignedPCs
             /\ \A b \in Approvers : apc'[b] \in {"saved", "published"} =>
                  Approved(target[b])' /\ Signs(b, target[b])'
  <2> USE DEF Approved, Signs, ApprovalOf
  <2>1. CASE SaveDecision(a)
    <3>1. Decided(a).approval = ApprovalOf(a)
      BY DEF Decided
    <3>2. \A b \in Approvers \ {a} : /\ apc'[b] = apc[b] /\ target'[b] = target[b]
                                     /\ choice'[b] = choice[b]
      BY <1>5, ApprovalStepFrame
    <3>3. ASSUME NEW q \in Runs, Approved(q)'
          PROVE  \E b \in Approvers : Signs(b, q)' /\ apc'[b] \in SignedPCs
      <4>1. CASE runs'[q] = runs[q]
        BY <1>1, <2>1, <3>2, <3>3, <4>1, DecisionStepFrame DEF EndPCs
      <4>2. CASE runs'[q] # runs[q]
        BY <2>1, <3>1, <4>2, DecisionStepFrame
      <4> QED
        BY <4>1, <4>2
    <3>4. ASSUME NEW b \in Approvers, apc'[b] \in {"saved", "published"}
          PROVE  Approved(target[b])' /\ Signs(b, target[b])'
      <4>1. CASE b = a
        BY <2>1, <3>1, <3>4, <4>1, DecisionStepFrame
      <4>2. CASE b # a
        <5>1. apc[b] \in LockedApproverPCs /\ target[b] # target[a]
          BY <2>1, <3>2, <3>4, <4>2, DecisionStepFrame DEF LockedApproverPCs
        <5> QED
          BY <1>1, <1>3, <2>1, <3>2, <3>4, <4>2, <5>1, DecisionStepFrame
      <4> QED
        BY <4>1, <4>2
    <3> QED
      BY <3>3, <3>4
  <2>2. CASE ~SaveDecision(a)
    <3>1. /\ UNCHANGED runs
          /\ apc'[a] = "published" => apc[a] = "saved"
          /\ apc'[a] # "saved"
          /\ apc[a] \in SignedPCs =>
               apc'[a] \in SignedPCs /\ target'[a] = target[a] /\ choice'[a] = choice[a]
          /\ \A b \in Approvers \ {a} : /\ apc'[b] = apc[b] /\ target'[b] = target[b]
                                        /\ choice'[b] = choice[b]
      BY <1>5, <2>2, ApprovalStepFrame, AppendFrame, CacheFrame DEF EndPCs, stores
    <3>2. \A b \in Approvers : apc[b] \in SignedPCs =>
            /\ apc'[b] \in SignedPCs
            /\ target'[b] = target[b]
            /\ \A q \in Runs : Signs(b, q)' <=> Signs(b, q)
      BY <3>1
    <3>3. ASSUME NEW q \in Runs, Approved(q)'
          PROVE  \E b \in Approvers : Signs(b, q)' /\ apc'[b] \in SignedPCs
      <4>1. PICK b \in Approvers : Signs(b, q) /\ apc[b] \in SignedPCs
        BY <1>1, <3>1, <3>3
      <4> QED
        BY <3>2, <4>1
    <3>4. ASSUME NEW b \in Approvers, apc'[b] \in {"saved", "published"}
          PROVE  Approved(target[b])' /\ Signs(b, target[b])'
      <4>1. apc[b] \in {"saved", "published"}
        BY <3>1, <3>4
      <4> QED
        BY <1>1, <1>3, <3>1, <3>2, <4>1
    <3> QED
      BY <3>3, <3>4
  <2> QED
    BY <2>1, <2>2
<1>6. CASE \/ SetKillSwitch \/ Crash \/ (\E r \in Runs : Expire(r))
           \/ UNCHANGED vars
  BY <1>1, <1>6, EnvironmentFrame DEF Approved, Signs, ApprovalOf, EndPCs
<1> QED
  BY <1>4, <1>5, <1>6, NextCases

LEMMA PublishedStep ==
  ASSUME RecordInv, DecisionsAreSigned, DecisionIsPublished, [Next]_vars,
         DecisionsAreSigned'
  PROVE  DecisionIsPublished'
<1> DEFINE Published(r) ==
             \/ [run |-> r, approval |-> runs[r].approval] \in events
             \/ apc[runs[r].approval.approver] \in
                  {"saved", "releaseRaise", "raised", "dead"}
<1>1. /\ \A r \in Runs : Approved(r) => Published(r)
      /\ \A e \in events : Approved(e.run)
  BY DEF DecisionIsPublished
<1>2. \A r \in Runs : Approved(r) =>
        /\ runs[r].approval.approver \in Approvers
        /\ apc[runs[r].approval.approver] \in SignedPCs
  <2> SUFFICES ASSUME NEW r \in Runs, Approved(r)
               PROVE  /\ runs[r].approval.approver \in Approvers
                      /\ apc[runs[r].approval.approver] \in SignedPCs
    OBVIOUS
  <2>1. PICK b \in Approvers : Signs(b, r) /\ apc[b] \in SignedPCs
    BY DEF DecisionsAreSigned, SignedPCs
  <2>2. ApprovalOf(b).approver = b
    BY DEF ApprovalOf
  <2> QED
    BY <2>1, <2>2 DEF Signs
<1>3. \A r \in Runs : Approved(r) => Approved(r)'
  BY DecisionStays
<1>4. SUFFICES /\ \A r \in Runs : Approved(r)' => Published(r)'
               /\ \A e \in events' : Approved(e.run)'
  BY DEF DecisionIsPublished
<1>5. events \in SUBSET Event
  BY DEF RecordInv, BaseInv, TypeOK
<1>6. CASE \E r \in Runs : RunHandler(r)
  BY <1>1, <1>3, <1>5, <1>6, RunStepFrame DEF Approved, Event
<1>7. ASSUME NEW a \in Approvers, ApprovalHandler(a)
      PROVE  /\ \A r \in Runs : Approved(r)' => Published(r)'
             /\ \A e \in events' : Approved(e.run)'
  <2>0. \A b \in Approvers \ {a} : apc'[b] = apc[b]
    BY <1>7, ApprovalStepFrame
  <2>1. CASE SaveDecision(a)
    <3>1. ASSUME NEW r \in Runs, Approved(r)'
          PROVE  Published(r)'
      <4>1. CASE runs'[r] = runs[r]
        <5>1. Approved(r) /\ apc[a] = "locked"
          BY <2>1, <3>1, <4>1, DecisionStepFrame DEF Approved
        <5>2. runs[r].approval.approver \in Approvers \ {a}
          BY <1>2, <5>1 DEF SignedPCs, EndPCs
        <5> QED
          BY <1>1, <2>0, <2>1, <4>1, <5>1, <5>2, DecisionStepFrame
      <4>2. CASE runs'[r] # runs[r]
        <5>1. runs'[r] = Decided(a) /\ apc'[a] \in {"saved", "releaseRaise"}
          BY <2>1, <4>2, DecisionStepFrame
        <5>2. Decided(a).approval.approver = a
          BY DEF Decided, ApprovalOf
        <5> QED
          BY <5>1, <5>2
      <4> QED
        BY <4>1, <4>2
    <3>2. UNCHANGED events
      BY <2>1, DecisionStepFrame
    <3> QED
      BY <1>1, <1>3, <1>5, <3>1, <3>2 DEF Event
  <2>2. CASE AppendApprovalEvent(a)
    <3>1. Approved(target[a]) /\ Signs(a, target[a])
      BY <2>2, AppendFrame DEF DecisionsAreSigned
    <3>2. \A e \in events' : e \in events \/ e.run = target[a]
      <4> DEFINE x == [run |-> target[a], approval |-> ApprovalOf(a)]
      <4>1. events' \subseteq events \cup {x}
        BY <2>2, AppendFrame
      <4>2. x.run = target[a]
        OBVIOUS
      <4> QED
        BY ONLY <4>1, <4>2
    <3>3. ASSUME NEW r \in Runs, Approved(r)'
          PROVE  Published(r)'
      <4>1. Approved(r) /\ runs'[r] = runs[r] /\ events \subseteq events'
        BY <2>2, <3>3, AppendFrame DEF Approved
      <4>2. PICK b \in Approvers : Signs(b, r)
        BY <4>1 DEF DecisionsAreSigned
      <4>3. runs[r].approval.approver = b /\ runs[r].approval = ApprovalOf(b)
            /\ target[b] = r
        BY <4>2 DEF Signs, ApprovalOf
      <4>4. CASE b = a
        BY <2>2, <4>1, <4>3, <4>4, AppendFrame
      <4>5. CASE b # a
        BY <1>1, <2>0, <4>1, <4>3, <4>5
      <4> QED
        BY <4>4, <4>5
    <3> QED
      BY <1>1, <1>3, <1>5, <2>2, <3>1, <3>2, <3>3, AppendFrame DEF Event
  <2>3. CASE ~(SaveDecision(a) \/ AppendApprovalEvent(a))
    <3>1. /\ UNCHANGED <<runs, events>>
          /\ apc[a] = "releaseRaise" => apc'[a] = "raised"
          /\ apc[a] \notin {"raised", "dead", "saved"}
      BY <1>7, <2>3, ApprovalStepFrame, CacheFrame DEF stores
    <3>2. ASSUME NEW r \in Runs, Approved(r)'
          PROVE  Published(r)'
      <4>1. Approved(r) /\ Published(r)
        BY <1>1, <3>1, <3>2 DEF Approved
      <4> QED
        BY <1>2, <2>0, <3>1, <4>1
    <3> QED
      BY <1>1, <1>3, <1>5, <3>1, <3>2 DEF Event
  <2> QED
    BY <2>1, <2>2, <2>3
<1>8. CASE \/ SetKillSwitch \/ Crash \/ (\E r \in Runs : Expire(r))
           \/ UNCHANGED vars
  <2>1. UNCHANGED <<runs, events>>
    BY <1>8, EnvironmentFrame
  <2>2. \A a \in Approvers : apc'[a] = apc[a] \/ apc'[a] = "dead"
    BY <1>8, EnvironmentFrame
  <2>3. \A r \in Runs : Approved(r)' => Approved(r)
    BY <2>1 DEF Approved
  <2> QED
    BY <1>1, <1>2, <1>3, <1>5, <2>1, <2>2, <2>3 DEF Event
<1> QED
  BY <1>6, <1>7, <1>8, NextCases

\* Who caches which status of a run, and when it is the durable one.
LEMMA CacheRunStep ==
  ASSUME RecordInv, CacheFollows, NEW r \in Runs, RunHandler(r)
  PROVE  CacheFollows'
<1> DEFINE Follows(q) ==
             /\ pc[q] = "idle" => statuses[q] = None
             /\ pc[q] \in {"stored", "snapped"} =>
                  runs[q].status = Recommended(q).status
             /\ pc[q] = "failed" => runs[q].status = "failed"
             /\ pc[q] \in {"release", "done"}
                  /\ (\A a \in Approvers : target[a] = q => Even(a))
                => Agrees(q)
<1>1. TypeOK /\ \A q \in Runs : Follows(q)
  BY DEF RecordInv, BaseInv, CacheFollows
<1>2. /\ UNCHANGED <<apc, target>>
      /\ \A q \in Runs \ {r} : /\ runs'[q] = runs[q] /\ pc'[q] = pc[q]
                               /\ statuses'[q] = statuses[q]
  BY RunStepFrame
<1>3. \A q \in Runs \ {r} : Follows(q)'
  BY <1>1, <1>2 DEF Even, Agrees, Recommended
<1>4. SUFFICES Follows(r)'
  BY <1>3 DEF CacheFollows
<1>5. \A p : RunMoves(r, p) => pc'[r] = p
  BY <1>1 DEF TypeOK
<1>6. \A o, s : SetStatus(o, r, s) =>
        statuses'[r] = IF o = "unsent" THEN statuses[r] ELSE s
  BY <1>1 DEF TypeOK, SetStatus, Effect
<1>7. \A o, x : Save(o, r, x) => runs'[r] = IF o = "unsent" THEN runs[r] ELSE x
  BY <1>1, SaveWrites
<1>8. CASE SaveRecommendation(r)
  <2>1. PICK o \in Outcomes : /\ Save(o, r, Recommended(r))
                              /\ RunMoves(r, Reply(o, "stored", "failing"))
    BY <1>8 DEF SaveRecommendation
  <2>2. pc'[r] = Reply(o, "stored", "failing")
    BY <1>5, <2>1
  <2>3. o = "ok" => runs'[r] = Recommended(r)
    BY <1>7, <2>1
  <2>4. o = "ok" => runs'[r].status = Recommended(r)'.status
    BY <2>3 DEF Recommended
  <2> QED
    BY <2>2, <2>4 DEF Reply
<1>9. CASE SaveFailed(r)
  <2>1. PICK o \in Outcomes : /\ Save(o, r, Failed(r))
                              /\ RunMoves(r, Reply(o, "failed", "releaseRaise"))
    BY <1>9 DEF SaveFailed
  <2>2. pc'[r] = Reply(o, "failed", "releaseRaise")
    BY <1>5, <2>1
  <2>3. o = "ok" => runs'[r] = Failed(r)
    BY <1>7, <2>1
  <2> QED
    BY <2>2, <2>3 DEF Reply, Failed
<1>10. CASE RecordSnapshot(r)
  <2>1. pc[r] = "stored" /\ pc'[r] \in {"snapped", "failing"} /\ UNCHANGED runs
    BY <1>5, <1>10 DEF RecordSnapshot, Reply
  <2> QED
    BY <1>1, <2>1 DEF Recommended
<1>11. CASE CacheRecommended(r)
  <2>1. PICK o \in Outcomes : /\ SetStatus(o, r, Recommended(r).status)
                              /\ RunMoves(r, Reply(o, "release", "failing"))
    BY <1>11 DEF CacheRecommended
  <2>2. pc'[r] = Reply(o, "release", "failing")
    BY <1>5, <2>1
  <2>3. o = "ok" => statuses'[r] = Recommended(r).status
    BY <1>6, <2>1
  <2>4. /\ UNCHANGED runs /\ runs[r] # None
        /\ runs[r].status = Recommended(r).status
    BY <1>1, <1>11, HandlersHaveRecords DEF CacheRecommended, RecordInv, EndPCs
  <2> QED
    BY <2>2, <2>3, <2>4 DEF Reply, Agrees
<1>12. CASE CacheFailed(r)
  <2>1. PICK o \in Outcomes : /\ SetStatus(o, r, "failed")
                              /\ RunMoves(r, Reply(o, "release", "releaseRaise"))
    BY <1>12 DEF CacheFailed
  <2>2. pc'[r] = Reply(o, "release", "releaseRaise")
    BY <1>5, <2>1
  <2>3. o = "ok" => statuses'[r] = "failed"
    BY <1>6, <2>1
  <2>4. UNCHANGED runs /\ runs[r] # None /\ runs[r].status = "failed"
    BY <1>1, <1>12, HandlersHaveRecords DEF CacheFailed, RecordInv, EndPCs
  <2> QED
    BY <2>2, <2>3, <2>4 DEF Reply, Agrees
<1>13. CASE ReleaseRun(r)
  <2>1. pc'[r] = "raised" \/ (pc[r] = "release" /\ pc'[r] = "done")
    BY <1>5, <1>13 DEF ReleaseRun, Reply
  <2>2. UNCHANGED <<runs, statuses>>
    BY <1>13 DEF ReleaseRun, stores
  <2> QED
    BY <1>1, <1>2, <2>1, <2>2 DEF Agrees, Even
<1>14. CASE \/ CreateRun(r) \/ CacheQueued(r) \/ LockRun(r) \/ SaveRunning(r)
            \/ CacheRunning(r) \/ CheckKillSwitch(r) \/ Score(r)
  <2>1. \E p \in {"created", "queued", "checked", "locked", "running", "working",
                  "scoring", "scored", "failing", "raised"} : RunMoves(r, p)
    BY <1>14 DEF CreateRun, CacheQueued, LockRun, SaveRunning, CacheRunning,
       CheckKillSwitch, Score, Reply
  <2> QED
    BY <1>5, <2>1
<1> QED
  BY <1>8, <1>9, <1>10, <1>11, <1>12, <1>13, <1>14, RunHandlerCases

LEMMA CacheApprovalStep ==
  ASSUME RecordInv, DecisionsAreSigned, CacheFollows,
         NEW a \in Approvers, ApprovalHandler(a)
  PROVE  CacheFollows'
<1> DEFINE Follows(q) ==
             /\ pc[q] = "idle" => statuses[q] = None
             /\ pc[q] \in {"stored", "snapped"} =>
                  runs[q].status = Recommended(q).status
             /\ pc[q] = "failed" => runs[q].status = "failed"
             /\ pc[q] \in {"release", "done"}
                  /\ (\A b \in Approvers : target[b] = q => Even(b))
                => Agrees(q)
<1>1. \A q \in Runs : Follows(q)
  BY DEF CacheFollows
<1>2. SUFFICES ASSUME NEW q \in Runs PROVE Follows(q)'
  BY DEF CacheFollows
<1>3. /\ UNCHANGED pc
      /\ \A b \in Approvers \ {a} : apc'[b] = apc[b] /\ target'[b] = target[b]
  BY ApprovalStepFrame
<1>4. CASE SaveDecision(a)
  <2>1. CASE q # target[a]
    <3>1. runs'[q] = runs[q] /\ statuses'[q] = statuses[q] /\ UNCHANGED target
      BY <1>4, <2>1, DecisionStepFrame
    <3> QED
      BY <1>1, <1>3, <2>1, <3>1 DEF Agrees, Recommended, Even
  <2>2. CASE q = target[a]
    <3>1. /\ pc'[q] \in EndPCs /\ target'[a] = q
          /\ apc'[a] \in {"saved", "releaseRaise"}
      BY <1>3, <1>4, <2>2, DecisionStepFrame
    <3> QED
      BY <3>1 DEF EndPCs, Even
  <2> QED
    BY <2>1, <2>2
<1>5. CASE CacheDecision(a)
  <2>1. CASE q # target[a]
    <3>1. runs'[q] = runs[q] /\ statuses'[q] = statuses[q] /\ UNCHANGED target
      BY <1>5, <2>1, CacheFrame
    <3> QED
      BY <1>1, <1>3, <2>1, <3>1 DEF Agrees, Recommended, Even
  <2>2. CASE q = target[a]
    <3>1. apc[a] = "published" /\ UNCHANGED <<runs, target>>
      BY <1>5, CacheFrame
    <3>2. Approved(q) /\ Signs(a, q)
      BY <2>2, <3>1 DEF DecisionsAreSigned
    <3>3. runs[q].status = DecidedStatus(choice[a])
      BY <3>2 DEF RecordInv, FinalRunsCarryTheirDecision, CarriesDecision, Approved,
         Signs, ApprovalOf
    <3>4. pc'[q] \in EndPCs
      BY <1>3, <3>2 DEF RecordInv, LockInv, DecidedRunIsFinished
    <3>5. CASE apc'[a] = "releaseRaise"
      BY <2>2, <3>1, <3>4, <3>5 DEF EndPCs, Even
    <3>6. CASE statuses'[q] = DecidedStatus(choice[a])
      BY <3>1, <3>2, <3>3, <3>4, <3>6 DEF Agrees, Approved, EndPCs
    <3> QED
      BY <1>5, <2>2, <3>5, <3>6, CacheFrame
  <2> QED
    BY <2>1, <2>2
<1>6. CASE ~SaveDecision(a) /\ ~CacheDecision(a)
  <2>1. /\ UNCHANGED <<runs, statuses>>
        /\ Even(a)' => Even(a) /\ (apc[a] # "idle" => UNCHANGED target)
    BY <1>6, ApprovalStepFrame, AppendFrame DEF Even, stores
  <2>2. (\A b \in Approvers : target[b] = q => Even(b))'
          => (\A b \in Approvers : target[b] = q => Even(b))
    <3>1. CASE apc[a] = "idle"
      BY <1>3, <3>1 DEF Even
    <3>2. CASE apc[a] # "idle"
      <4>1. UNCHANGED target
        BY <1>6, <3>2, ApprovalStepFrame, AppendFrame
      <4> QED
        BY <1>3, <2>1, <4>1 DEF Even
    <3> QED
      BY <3>1, <3>2
  <2> QED
    BY <1>1, <1>3, <2>1, <2>2 DEF Agrees, Recommended
<1> QED
  BY <1>4, <1>5, <1>6

LEMMA CacheEnvironmentStep ==
  ASSUME RecordInv, CacheFollows,
         \/ SetKillSwitch \/ Crash \/ (\E r \in Runs : Expire(r))
         \/ UNCHANGED vars
  PROVE  CacheFollows'
<1>1. /\ UNCHANGED <<runs, target>>
      /\ \A r \in Runs : \/ pc'[r] = pc[r]
                         \/ pc'[r] = "dead" /\ pc[r] \notin {"idle", "done"}
      /\ \A a \in Approvers : \/ apc'[a] = apc[a]
                              \/ apc'[a] = "dead" /\ apc[a] \notin {"idle", "done"}
  BY EnvironmentFrame
<1>2. \A r \in Runs : statuses'[r] \in {None, statuses[r]}
  BY DEF SetKillSwitch, Crash, Expire, ExpireLock, ExpireStatus, vars, stores,
     RecordInv, BaseInv, TypeOK
<1>3. \A a \in Approvers : Even(a)' => Even(a)
  BY <1>1 DEF Even
<1> QED
  BY <1>1, <1>2, <1>3 DEF CacheFollows, Agrees, Recommended

LEMMA ReplyInit == Init => DecisionsAreSigned /\ DecisionIsPublished /\ CacheFollows
<1> SUFFICES ASSUME Init
             PROVE  DecisionsAreSigned /\ DecisionIsPublished /\ CacheFollows
  OBVIOUS
<1>1. DecisionsAreSigned /\ DecisionIsPublished
  BY DEF Init, DecisionsAreSigned, DecisionIsPublished, Approved
<1>2. CacheFollows
  BY DEF Init, CacheFollows
<1> QED
  BY <1>1, <1>2

\* The whole invariant.
THEOREM Invariant ==
  ASSUME LockExcludes
  PROVE  Spec => []IInv
<1>1. IInv /\ RecordInv' /\ [Next]_vars => IInv'
  <2> SUFFICES ASSUME IInv, RecordInv', [Next]_vars PROVE IInv'
    OBVIOUS
  <2>1. RecordInv /\ DecisionsAreSigned /\ DecisionIsPublished /\ CacheFollows
    BY DEF IInv
  <2>2. DecisionsAreSigned'
    BY <2>1, SignedStep
  <2>3. DecisionIsPublished'
    BY <2>1, <2>2, PublishedStep
  <2>4. CacheFollows'
    BY <2>1, CacheRunStep, CacheApprovalStep, CacheEnvironmentStep, NextCases
  <2> QED
    BY <2>2, <2>3, <2>4 DEF IInv
<1>2. Init /\ RecordInv => IInv
  BY ReplyInit DEF IInv
<1> QED
  BY <1>1, <1>2, RecordInvariant, PTL DEF Spec

\* A recorded decision has its update event, or its approver has not reached
\* that call or was told of an error; and events are about decided runs only.
THEOREM DecisionsArePublished ==
  ASSUME LockExcludes
  PROVE  Spec => []DecisionIsPublished
<1>1. IInv => DecisionIsPublished
  BY DEF IInv
<1> QED
  BY <1>1, Invariant, PTL

\* Once the handlers of a run have all replied, what pollers read of its
\* status in the cache is what the durable record says.
THEOREM CacheAgrees ==
  ASSUME LockExcludes
  PROVE  Spec => []StatusCacheAgrees
<1>1. IInv => StatusCacheAgrees
  <2> SUFFICES ASSUME IInv, NEW r \in Runs, pc[r] \in {"idle", "done"},
                      \A a \in Approvers : target[a] = r => apc[a] \in {"idle", "done"}
               PROVE  Agrees(r)
    BY DEF StatusCacheAgrees
  <2>1. \A a \in Approvers : target[a] = r => Even(a)
    BY DEF Even
  <2> QED
    BY <2>1 DEF IInv, CacheFollows, Agrees
<1> QED
  BY <1>1, Invariant, PTL
=============================================================================
