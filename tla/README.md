# TLA+ models of Teambuilder's System 2

System 2 (`src/src/system2`) recommends rosters, reviews operational twin runs
and deployment recommendations, and keeps an audit trail of the decisions taken
on them. Its handlers are synchronous FastAPI functions run in a thread pool
over stores that raise, time out and survive restarts. This directory models
its workflows, checks them with TLC on small instances and proves the results
that matter most with TLAPS for every instance.

Line numbers are those of the commit this directory belongs to; `PROJECT.json`
maps each definition to the lines it models.

## 1. Inventory

| Component (source) | State | Operations | What is hard | What makes it correct |
|---|---|---|---|---|
| Agent runs: `agent_orchestrator`, `agent_store`, `postgres_agent_store`, `agent_state` | run record, Redis status and lock per run, decision snapshot, update event | `run`, `record_approval`, `get` | two kinds of handlers on one record; a lock with a TTL; calls before the `try` block; a read before the lock; crashes | the lock excludes, is given back, decisions are taken on finished runs, are published and never erased; final records carry the decision |
| Audit log: `audit` | JSONL file or table, each record with the hash of the one before | `append`, `validate_hash_chain`, `validate_audit_records` | read-then-write from many threads, sequence numbers before commits, rollbacks, lines cut short | every record links to an earlier one; a log validates, and shows a deletion; a torn log takes no more |
| Twin reviews: `operational_twin` | twin run: option statuses, decisions, outcomes, lessons | `record_decision`, `record_outcome` | read, check, save without a lock; three stores written one after another | the record is never half an update; nothing is lost; no event before its audit record; ledgers agree |
| Twin runs and their chain: `operational_twin` | runs, last action hash | `run`, `save`, `last_action_hash`, `record_action_hash` | hash read long before it is used; hash cache reset by saves of older runs; restart | runs form a tree, and one chain unless calls overlap |
| Twin stages: `operational_twin` | artifacts, observations, estimate, three options | perception, state, scenarios, critic, governance, with retry and fallback | malformed LLM answers, fallback; verdicts given for numbers that change later; markings inherited twice; ids that are hashes | each observation has a source and nothing prohibited; the caller's markings decide; a pass is earned and no verdict softens |
| Deployments: `deployment` | recommendation, decisions, outcomes, lessons | `recommend`, `record_approval`, `record_outcome` | as twin reviews, plus a twin run as first step; a posture derived from another service's verdicts | an unsafe option is never approved, a rejection is final; a team is deployed only on what the checks and the critic let stand |
| Kill switch: `service`, `api` | one flag per process, audit record, event | `disable`, `enable`, `score` | scores in flight, overlapping admin calls, restart | a score begun while it is thrown stays out; the ledgers tell its state and the story of each score |
| Adaptations: `cognitive`, `adaptation_store` | adaptation: status, allowed and blocked injects | `adapt`, `record_approval` | no status guard on approval; three stores written one after another; thresholds on sums of risk | only allowed injects are decided on; ledgers tell the status; tighter limits allow less, and advise nothing milder |
| Scoring and assignment: `service`, `scoring`, `context_features`, `career`, `registry` | none | `score`, matching, second choice | a penalty in place of a constraint; minimal pools | the roster is a best one that respects the constraints, each slot has a second choice from another place, an error means there is none |
| Candidate pool: `candidate_pool`, `service` | none; it reads tables another application writes | generation, resolution, projections | five statements while rows change; missing, duplicate, unreadable rows | the trace of a score names the versions its candidates follow from, and nothing else |
| Shared data sink: `shared_data` | snapshots, update events | `record_*` | written after the stores they tell of | (seen from each caller) |
| Decision quality: `decision_quality` | none | quality, utility and guidance of options, runs, injects, adaptations and rosters | four formulas, rounded and unrounded thresholds | one relies only on what stands; no greater risk gives a milder advice |
| Fairness, calibration | none | rules and thresholds | boundaries | — |
| Retrieval, graph, tools: `retrieval`, `graph`, `agent_tools`, `agent_stack`, `data` | a list in memory, tables, a graph | ingestion, search, fallback | a list replaced without a lock; batches half stored; events one by one afterwards | events tell of rows that are stored; a failure leaves no gap |
| LLM and narrative: `llm`, `narrative` | none | one HTTP call | failure, malformed answers | falls back |
| API, settings, access: `api`, `config`, `security`, `models` | none of their own | routing | — | — |

How they interact: `api` calls one service per request, in a thread.
`AgentOrchestrator.run` calls `SelectionService.score` inside its lock, which
raises when the kill switch is thrown.
`DeploymentRecommendationService.recommend` starts a twin run and stores what
it made of it. Every service writes its store, then (but for agent runs) an
audit record, then an update event to the shared data sink: three stores, no
transaction around them. Only agent runs have a lock.

The hazards, each at its line with the properties aimed at it, are in
`PROJECT.json` under `hazards`.

## 2. Modules

| Module | Models |
|---|---|
| `Calls` | what a handler sees of one backend call: it replies, or raises having taken effect (`lost`) or not (`unsent`) |
| `RunLifecycle` | abstract: what the workflow promises of the durable record of a run |
| `AgentRuns` | the workflow: creating and approval handlers over repository, status cache, lock and sink; implements `RunLifecycle` |
| `AuditChain` | both appenders of the audit log, and the validator |
| `TwinReviews` | decisions and outcomes on one stored twin run |
| `TwinChain` | the chain of action hashes through the creation of twin runs, both repositories |
| `Critic` | operators: the numbers of an option and the verdict of the deterministic critic |
| `Evidence` | the first half of a twin run: from a request to the policy checks of its evidence bundle |
| `ScenarioOptions` | the second half: from a bundle to three governed options |
| `DecisionQuality` | operators: readiness, utility and reliance guidance of options and twin runs |
| `Advice` | `ScenarioOptions` continued: the quality of what was drafted, and the posture of the deployment made of it |
| `CandidatePool` | where the candidates and slots of a score come from, and what its trace says of them |
| `Selection` | how `score()` fills the role slots |
| `Ingest` | ingestion of chunks and facts into each backend, with its update events |
| `Deployments` | one deployment recommendation from `recommend` to its outcomes |
| `KillSwitch` | the kill switch, its admin calls and the direct scores it must stop |
| `Direction` | operators: which skill an adaptation develops, which injects the limits allow |
| `InjectAdvice` | operators: readiness, utility and guidance of injects and adaptations, over `DecisionQuality` |
| `Adaptations` | one adaptation from `adapt` through its approvals, over `Direction` and `InjectAdvice` |
| `MC*` | the instances TLC checks; `MCRequests` holds six of them |
| `AgentRunsProofs` | types, records and final decisions of `AgentRuns` in every deployment; exclusion, refinement, lasting and published decisions and the cache where the lock excludes |
| `RequestsProofs` | theorems about `Critic`, `Evidence`, `ScenarioOptions`, `Advice`, `Ingest`, `Selection` and `CandidatePool` |
| `AuditChainProofs`, `TwinReviewsProofs`, `DeploymentsProofs`, `TwinChainProofs`, `KillSwitchProofs`, `AdaptationsProofs` | the theorems of section 5 |

### Correspondence

*Processes.* A handler is a process; its control point (`pc`, `apc`) says
between which of its calls on shared state it is. What it computes between two
calls is local and part of the step of the later call. A run is identified with
the call that creates it, a decision, outcome or lesson with the call that made
it (all have fresh uuids in the code), an action hash with the run it covers.

*Calls on stores.* With `CanFault`, a call may raise whether it took effect or
not; the `except` and `finally` clauses of the code are the steps that follow.

*Crashes.* With `CanCrash`, a process may stop at any point: handlers in flight
end as `dead`, what is in Postgres, Redis or a file remains, memory is gone.
Uncommitted rows are rolled back.

`AgentRuns`: `runs` is `system2_agent_runs` (status, whether a human must
approve, whether a recommendation is stored, the approval); `statuses` and
`locks` are the ephemeral store; `disabled` is the kill switch the scoring step
reads; `snapshots` and `events` are the sink. The actions of the creating
handler follow `AgentOrchestrator.run` call by call: `CreateRun`, `CacheQueued`,
`LockRun`, `SaveRunning`, ..., `SaveRecommendation`, `RecordSnapshot`, and in
the `except` clause `SaveFailed` and what follows; those of an approver follow
`record_approval`, which reads the record *before* it takes the lock. Four
constants describe the deployment: `AtomicLock` (Redis `SET NX`, against test
and add on a Python set; with it come the hour a cached status lives and the
TTL of a lock: one that nobody holds any more may expire), `LockExpires` (it
may expire while its holder is still at work, too), `CanFault`, `CanCrash`.

`AuditChain`: the log is the sequence of the places its records point back to;
`visible` are those a reader sees (in Postgres, the committed ones; the
sequence number is taken at `INSERT`). `transactional` is chosen at the start.
`tail` says of the file's last line whether it is whole, torn, or glued: a torn
one that another record was written behind, which makes neither a record.
Such a line is not JSON, so that `validate_hash_chain` raises (`unreadable`) and
the log does not validate (`Validates`).

`TwinReviews`, `Deployments`: `run`/`record` is the stored payload, `seen` what
a call has read, `asked` its request. `Save` overwrites the whole payload with
a changed copy of `seen`, as the repositories do.

`TwinChain`: `last` is `_last_action_hash`, `previous` the link in each run's
evidence, `created` its `created_at`. `postgres` is chosen at the start.

`KillSwitch`: `disabled` is the field of `SelectionService`; `log`, `events`,
`snapshots` are the audit log and the sink. `SetFlag`, `AuditSwitch`,
`AppendSwitchEvent` are the three writes of an admin call; `GatherContext`,
`CheckSwitch`, then `Refuse` or `ReceiveScore`, `AssessScore`, `ReturnScore`,
`RecordScoreSnapshot` those of a score. A restart (`Crash`) keeps the stores and
makes a new `SelectionService`, whose flag is off.

`Adaptations`: `adaptation` is the stored payload (status, whether an approval
was asked for, the injects that are not blocked), `request` the argument of
`adapt` until it has saved, `seen` and `asked` what an approval has read and
decided. In `Direction` the code's floats are integers: scores, pressures and
risks in hundredths, products in ten thousandths, so that a threshold such as
0.34 is met exactly where the decimal is. The scores a piece of evidence gives
each dimension are an input. `InjectAdvice` is a function of these numbers and
of the request's `framing`; no later step looks at it, so it is not stored. The
risk of unfair exposure is never the greatest of an inject's three and left out.

`Evidence`, `ScenarioOptions`: the stages of one `OperationalTwinService.run`,
split at the evidence bundle, which is all the second half sees of the first
(`findings`, `vector`, `uncertainty`). Each stage is an action per outcome: a
model's answer of any content, a failed attempt, the fallback. Observations are
the code's dict, a function of their ids, so that a later record replaces an
earlier one; artifacts are numbered. A supplied observation without an id gets a
hash of all it holds: equal ones become one (`hash`). What a text says is one of
a few cases, before (`Supplied`) and after it is sanitised (`Stored`): of content
with an instruction in it the code replaces the summary and drops the text, and
what stands under another key (`buried`) stays (`marked`).
Numbers are hundred-thousandths, in which the code's constants, its rounding to
thousandths and the risks it computes are exact; a reported 0 stands for a
missing number as well, for which the code's `or` takes it. What words and
measurements make of the state is an input (`Estimates`), bounded as the code
bounds it.

`DecisionQuality`, `Advice`: hundred-thousandths too, cut to the unit where the
code divides by three, and rounded where the code rounds; the texts of a
decision context are blank or not. `Assess` is what the twin does with its
options before it answers, `Recommend` what `deployment` makes of the answer.
The decision context, the claimed effects, how rich the bundle is and the
dimensions no verdict depends on are an input (`Settings`), constrained by what
the findings say of it (`Possible`).

`CandidatePool`: `rows` are the tables, each row with a version for its hash;
`got` is what the five `SELECT`s have read so far, `Load` another application
committing between two of them. The code treats the fields of a profile alike:
one bounded field stands for them. Outcomes are applied in the order of their
`updated_at`; those updated at one moment the query may return in any order,
which the choice in `Resolve` stands for. `CandidateCounts` are how many
candidates a request may have generated: 14 at least in the code, but the roles
it names may be more.

`Ingest`: `chunks` is the store, `copies` the merged list a thread of the local
backend is about to put in its place, `through` and `logged` how far a request
is in its rows and its events. `backend` is chosen at the start. A row may be
refused (`StoringFails`); a commit, a command and an event may raise before or
after taking effect (`Calls`).

`Selection`: the pool is a list, in which one soldier may stand twice
(`candidates` of a request are not checked for it, and equal `candidate_ids` of
a stored pool come to the same); rosters are made of its places, as the rows of
the cost matrix. A cost is any number in place of -log(fit); the solver of scipy is
external and may return any cheapest assignment (`Solutions`).

`MCRequests` puts `Evidence`, `Advice`, `TwinChain`, `CandidatePool`,
`Selection` and `Ingest` in one state graph: they share nothing, and `part`,
chosen at the start, says which of them moves, so that their state spaces add up.

*History variables.* `overlapped`, `mishap`, `mishaps`, `shut`, `lost` and, in
`CandidatePool`, `seen` are no state of the program. The first three note that
two calls have overlapped (or what else has gone wrong) so that one run can
both let everything overlap and say what holds as long as it has not; `shut`
notes the scores begun since the switch was thrown, `seen` the rows there have
been, `lost` the ids whose row a stale list has replaced. In `TwinReviews` and
`Deployments` the note is made only if a call reads while another has read and
not saved; any other overlap is harmless and the properties cover it.

Definitions commented "Variant" are no part of a model. Each is a plausible
mistake in the code, named with the property that must find it.

## 3. Runs

| Run | Instance | Shows |
|---|---|---|
| `AgentRuns_lock` | 1 run, 2 approvers, `SET NX`, faults, crashes, abandoned locks that expire | `MutualExclusion`, `DecidedRunIsFinished`, `DecisionNeverErased`, `DecisionIsPublished`, `StatusCacheAgrees`, `LifecycleSpec` (refinement) |
| `AgentRuns_memory` | 1 run, 2 approvers, in-memory lock | liveness: `LockedRunSettles` (every lock is given back, and every run that was locked settles) |
| `AgentRuns_recovery` | 1 run, 2 approvers, all four switches | `FinalRunsCarryTheirDecision`, and of `DecisionNeverErased` what is left (`OnlyFailureErasesDecision`), although a lock may expire under its holder |
| `AgentRuns_final` | 1 run, 2 approvers, no faults | **violation** of `FinalStaysFinal` |
| `AuditChain_appends` | 3 writers, 5 records, both backends, faults, crashes | `LinksPointBack`, `ForksAreBounded` always; `SerialChainIsValid` (but for a last line cut short), `DeletionIsDetected` unless appends overlapped; `TornLogIsClosed`: once a line is torn nothing that began later gets in |
| `AuditChain_concurrent` | 2 writers, 2 records | **violation** of `ChainIsValid` |
| `TwinReviews_reviews` | 2 decisions, 2 outcomes, 2 options (1 unsafe), faults, crashes | `RecordIsConsistent`, `EventsFollowAudit` always; `LedgersAgree`, `HistoryOnlyGrows` unless reads overlapped |
| `Requests_parts` | 2,324 requests; every answer of the models to 3 options from 5 bundles, assessed in 4 settings; 3 creating calls, both repositories, faults, crashes, re-saves; 15 requests for a score over 4 stores with 2 loads between reads; 6 pools of up to 3 places, 2 of which name a soldier twice, for up to 2 slots at every cost; 3 ingestions over each backend, with lost replies | `MarkingsDecide`, `ObservationsAreFit` of a bundle; `PassIsEarned`, `NoVerdictSoftens` of its options, `RelianceIsEarned`, `DeployIsEarned` of what is made of them; `LinksAreEarlier` always and `OrderlyChainIsLinear` of the chain; `AnswerIsTraced` of a pool; `RosterIsBest` of a selection; `EventsAreBacked`, `FailuresArePrefixes` of what is ingested |
| `Requests_content` | the same | **violation** of `ContentIsObserved` |
| `Deployments_lifecycle` | 1 creation, 2 approvals, 1 outcome, 2 options, faults, crashes | `RecordIsConsistent` always; `LedgersAgree`, `EscalationIsFinal` unless reads overlapped |
| `KillSwitch_trail` | 2 admin calls, 2 scores, faults, restarts | `ShutStaysShut` always; `ScoresAreTraced`: the log tells one story of each score, the whole of it for an answered one; `SwitchIsRecorded` unless admin calls overlap or fail or a restart clears the flag |
| `Adaptations_decisions` | 72 evidences, every constraint, 2 framings, 2 approvals, faults, crashes | `DecisionsAreOnAllowed` always; `LedgersTellStatus` unless approvals overlap or fail; `MoreCareRelaxesNothing`, `PrimaryIsNearlyWeakest` of every request |

*Bounds.* Handlers are finite programs that run once, so the number of calls is
the bound; only `MaxRecords` (records ever written to the audit log) is a bound
in a guard. Runs, twin runs and recommendations share no state with one another
but the chain of hashes, the audit log and the kill switch, so one of each
suffices where the chain is not the question. Two approvers are needed, and
enough, for one to act on what the other has made stale; two decisions and two
outcomes let each kind overwrite each other and itself; with two options one is
unsafe or undecided while the other is decided. A fork needs two writers; a
third shows that one may be late by more than one record, and five records give
each writer a second append behind the others. Three creating calls let a chain
grow after a fork, a restart or a re-save. The requests have every kind of one
artifact with every kind of one observation beside it, under each marking of
the request; what depends on more (two observations with one id, a second
artifact, the environment) is there for some. One retry and one added
observation stand for more: an attempt that failed leaves nothing, and added
observations do not touch each other. The state vectors lie on both sides of
the thresholds, the reports of a model are none, a middling and a high one. The
five bundles are a rested, a tired and an overloaded team, thin evidence and
failed markings; the four settings make, with and without claimed effects,
every readiness and every guidance. The pools have a row too many, one missing,
two equal ids and no slots; two loads between five reads can change a row
before and after it is read, or two rows that belong together. The batches take
the same two rows in opposite orders, and one has an id twice. Three places
for two slots leave room for a second choice or do not. Two admin calls throw
the switch and throw it back (or twice one of them, or over each other), and
two scores are one before and one after, or both between. The 72 evidences are
three skills (both ends of the order of ties, and the two whose injects speak
of terrain) with a weak, a middling and a much observed score, against a fourth
skill in between, under eight pressures on both sides of each threshold; the 48
constraints are all there are; the framings are the code's default with much
evidence, and an irreversible decision of high impact with little.

*Deadlock* is not checked for `MCRequests`: a request is answered or refused,
and then there is no more to do. Elsewhere it is, but has no teeth where
`Crash` (or an administrator, in `AgentRuns`) may always step; that handlers
cannot get stuck is what the liveness properties say.

*Fairness* (`AgentRuns!FairSpec`): weak fairness of each handler once it has
begun (it is a running thread, and no step of a handler waits for another: a
taken lock is an error reply, not a wait). Nothing obliges a client to call, an
administrator to throw the switch, the process to stop or not, or a key to
expire.

## 4. What the code and its documents disagree on

* `FinalStaysFinal`: `record_approval` checks a record it read before it took
  the lock, so a second approver can turn a completed run into a rejected one.
* `ChainIsValid`: two overlapping `append` calls carry the same previous hash;
  the log never validates again. `ForksAreBounded` and `LinksPointBack` say how
  far the damage goes, `SerialChainIsValid` that nothing else does any but a last
  line cut short, on which the validator raises (`audit.py:158`).
* `ContentIsObserved`: an artifact sent without an `artifact_id` and with
  default markings inherits those of its request before its id is hashed
  (`operational_twin.py:1146`), but its content is looked up by the hash of what
  was sent (`:1288`): no observation is made of it. A request with nothing else
  is refused for want of an artifact.

Met on the way and stated in the hazards rather than as runs of their own: a
call that raises between `acquire_lock` and the `try` block leaves a run queued
or running for good; an approver may decide on a run that has just failed, and
whose snapshot was never written; overlapping decisions on a twin run, and
overlapping approvals of a recommendation, are all answered but only one is
kept; Postgres' `save` of an older twin run makes the next run link to it, so
the chain forks without any overlap (the third of the mishaps). The kill switch
is off after a restart although the last record says `disabled`
(docs/implementation.md:425 has it block all scoring paths); the trail of a
score already past the check goes on when the switch is thrown. The skill an
adaptation develops may be up to 0.19 stronger than the "current weakest skill
dimension" of docs/architecture.md:337, since the amount of evidence counts in
`development_priority`: `PrimaryIsNearlyWeakest` says how far. An adaptation
can be decided on again, also one that asked for no approval; one whose injects
are all blocked stays `pending_approval`, as nothing in it can be decided on.
The metric `cognitive_load` counts as a score (`cognitive.py:288`) although the
branch below it (`:305`), which it never reaches, takes it for a load. A lone
supplied observation counts as two, since the note that stands in for its
artifact becomes one (`operational_twin.py:1475`). A critic's reported risk or
confidence of 0 is ignored (`:1850`). `score()` raises "Unable to fill all role
slots with qualified candidates" (`scoring.py:157`) also when the roster is
complete and only the second choice is not, although `decision_quality.py:332`
has a finding for an incomplete one.

Of what is made of options: the readiness of a run makes its deployment
`escalate_review` (`deployment.py:598`), although docs/architecture.md:302-303
says the quality fields do not change a deployment posture by themselves; for
this reason the `escalate` of `deployment.py:602` is never what decides. An
option with a risk from 0.72 to 0.74 escalates itself while its run need not,
which has no such reason (`decision_quality.py:238`). On three pieces of
evidence, one of them about the skill, an adaptation may be accepted while each
of its injects is deferred: the two formulas weigh the same evidence
differently.

Of pools: an outcome whose payload does not name its mission is traced for the
mission of the request too (`candidate_pool.py:558`), of which there may be no
row. A request with a pool and `roles: []` is filled from the slots of the
store, and traced with hashes computed for them instead of theirs. Equal
`candidate_ids`, or `candidates` given twice, put one soldier into the pool
twice, and so possibly into two slots, or make him the second choice to himself;
`RosterIsBest` says that nothing else does. No program adds a pool to the
resolver in memory, so there a request with a `pool_id` and no candidates is
scored on generated ones.

Of ingestion: two requests to the local backend may lose each other's rows.
Predicates that cannot be written (`cypher_identifier` raises) leave the facts
before them stored without events. `mission_context` matches `Mission` nodes
(`graph.py:83`) while facts are stored as `System2Entity` nodes (`:96`), so that
what was ingested is not what the lookup of docs/architecture.md:420-422 reads. A
torn line of the audit log stops it for good, since every later `append` raises
when it reads the last hash, except for an append that had read it before.

## 5. What is proved

All theorems hold for any sets of calls, runs and options and any values of the
switches they do not name. They assume what the modules' `ASSUME`s say: the
switches are Booleans, `None` is none of the values it stands beside, callers
of different kinds are different, the ids callers choose for observations are
none of the code's own. Some assumptions bound data. The threads that append to
the audit log are finitely many (`WritersAssumption`: the thread pool of the API
is bounded). The score of a skill, a mean of scores from 0 to 100, is one itself
(`EstimateAssumption`). A roster has too few slots for their costs to add up to
the penalty (`SelectionAssumption`; there would have to be 216,920 of them). The
missions with outcomes are finitely many, and what a table holds before a
request arrives has older versions than what is written meanwhile
(`CandidatePoolAssumption`).

* `AgentRuns`. `BaseInv` (types, `RecordFollowsHandler`: what the control point
  of the creating handler says of the record, `ReadsAreEarlierRecords`: what an
  approver read is an earlier version of the record) is inductive in every
  deployment. From it `TypeCorrect`, `DecisionsCarried`: a final gated run
  carries a matching decision even where locks expire or do not exclude, and
  `ErasuresAreFailures`: what is published is about a run that is decided or has
  failed (`PublishedAreAccounted`), and nothing but `SaveFailed` undoes a decision.
  Where
  `LockExcludes` (`AtomicLock`, not `LockExpires`), `LockInv` joins it.
  `MutualExclusion` is not inductive without `HoldersHaveTheLock` (a release
  deletes the key whoever holds it) and `AcquireIsAtomic`;
  `DecidedRunIsFinished` needs all of them, since the decision is taken on a
  stale read. `Invariant`, `LockIsExclusive`, `DecidedRunsAreFinished`;
  `Implements`: each step is a step of `RunLifecycle` or stutters;
  `DecisionsAreKept` from the same invariant. `DecisionsArePublished` needs to
  know whose decision a record carries (`DecisionsAreSigned`: one that was saved
  is not replaced while its approver is about to publish it), and `CacheAgrees`
  what each control point says of the cached status (`CacheFollows`); both join
  `RecordInv` in `IInv`, and both rest on the lock.
* `AuditChain`. `LogIsATree` from `LinkInv`, whose strengthening is that what a
  writer has read stays an earlier visible record. `ChainStaysValid` from
  `SerialInv`: while no appends have overlapped, one writer at most is in
  `append`, and what it holds is the last record; only the last line can be torn
  then (`OnlyTheTailIsTorn`), so that the records before it validate.
  `DeletionShows` is a fact about chains, by the least record kept whose
  predecessors are not all kept; the least element comes from the
  well-foundedness of strict inclusion on finite sets. `ForksStayBounded` from
  `ForkInv`: a writer that has read a record and will yet link to it counts as a
  branch of it already (`Claimants`), and branches and claimants together are no
  more than there are writers; nobody comes to claim a record that is no longer
  the last. `TornLogStaysClosed`: behind a torn line only those go on that had
  read before, and one that writes while no others overlap is not among them.
* `TwinReviews`. `RecordStaysConsistent`: what a call has read is consistent
  too (`ReadsAreConsistent`), and a decision or an outcome keeps a consistent
  record consistent, so a save is consistent however stale its copy is.
  `HistoryIsKept` adds that a call that reads alone saves over what it read;
  `EventsComeAfter` and `LedgersStayTrue` that the control point of a call says
  in which of the ledgers it is (`SerialInv`).
* `Deployments`. `RecordStaysConsistent` along the same lines, from
  `DeploymentInv`; what the creating call makes of its source run is the first
  consistent record. `LedgersStayTrue` and `DecisionsAgainstLast` (a
  rejection or escalation is final while calls do not read what another is about
  to overwrite) from its `SerialInv`.
* `TwinChain`. `RunsAreATree` from `ChainInv`: hashes remembered or read are
  those of stored runs, and a stored run is never stamped again.
  `ChainStaysLinear` from `OrderlyInv`: unless something is amiss, no run is
  linked yet to the hash that will be read next.
* `KillSwitch`. `ShutScoresStayOut`: `ShutStaysShut` is inductive once it is
  known that a score not begun is in no ledger (`SilentAtFirst`): a change of
  the flag moves scores into and out of `shut`, but no step lets one of them
  past the check while the flag is set. `ScoresLeaveTheirTrail` and
  `SwitchLeavesItsRecord` count records in a shared log: the rank of a record
  among those of a call, or of the administrators, does not change when the log
  grows behind it, and the last record has the rank of their number. From these
  facts, `TraceInv` says how much of its story a score has told at each control
  point, and `SwitchInv` that one change at a time goes from the flag to the log
  to the events.
* `Adaptations`. `CautionIsMonotone` is a fact about `Direction` and
  `InjectAdvice`: each risk of an inject grows with the pressure whatever sum
  leads (`RisksGrow`), fewer injects are allowed (`TighterConstraintsAllowLess`),
  readiness and guidance are no milder for a greater risk or uncertainty
  (`CareGrows`), and utility falls with the risk (`WorthFalls`), through every
  cut to the unit and every rounding (`RoundedGrows`).
  `OnlyAllowedIsDecided`: the copies approvals hold differ from the record in
  their status only (`CallsHold`), so whichever is saved last, its inject is
  among the allowed ones and the status is its decision (`SavedDecide`).
  `LedgersAreTrue` from `LedgerInv`: while approvals take their turns, each
  ledger tells the status but for the one under way. `PrimaryIsWeak` is a fact
  about the direction of a request, whose weight of evidence is below 0.2.
* `Critic`, `ScenarioOptions`, `Advice`, `Evidence` (`RequestsProofs`).
  `CriticIsMonotone` is a fact about the thresholds. `PassesAreEarned` and
  `VerdictsHarden` from `OptionsInv`: the numbers of an option are rounded ones,
  and rounding such a number changes nothing (`RoundedFacts`), so the last
  governance check judges what is stored. `DeploymentsAreEarned` and
  `RelianceIsSupported` from `AdviceInv`, which adds what the qualities say of
  the options they were given (`QualityFacts`): the readiness of a run is the
  only way by which an option beside the recommended one, or a finding, keeps a
  team from being deployed. `MarkingsAreDecisive` and
  `PerceptionIsFit` from `EvidenceInv`: observations extend the baseline, whose
  validation is idempotent (`ValidatedFacts`: a text once sanitised stays so, an
  inherited marking is inherited again), and of two supplied observations with
  one id the later, which exists by well-foundedness (`LastIndex`), is the one
  compared.
* `Ingest` (also `RequestsProofs`). `EventsTellTheTruth` and
  `FailuresLeavePrefixes` from `IngestInv`: a list about to replace the store
  holds its request's rows, the last of each id (`MergedFacts`), and others only
  of requests that have stored all of theirs (`CopiesAreFit`); the graph has the
  rows of a request that got through, whatever was replied of the last of them.
* `Selection` (also `RequestsProofs`). `RostersAreBest` from `RosterInv`. The
  total cost of an assignment is a fold; a fold is what it is for one element
  less and a step (`FoldUnfolds`), so a total lies between 0 and the greatest
  cost of a pair times their number (`SumBounds`), unless it has the penalty in
  it: then it is greater than that of any assignment without. Hence a cheapest
  assignment has no barred pair wherever there is one without (`SolvedFacts`);
  of equally cheap ones the solver may return any. Rosters are made of places;
  where each names another soldier, so do those of a roster (`SeatedFacts`).
* `CandidatePool` (also `RequestsProofs`). `AnswersAreTraced` from `PoolInv`: a
  row that was read is one there has been (`GotInv`), however the tables change
  between the reads; a hash names one version at most (`SeenInv`), so a reference
  leads back to the row it was made from (`NamedIs`); and an answer is one that
  the rows read give (`Resolution`), or has no pool behind it (`Unresolved`).
  That a value is the last usable one that is said of its soldier, in its bounds
  (`SaidIs`), is proved of the fold over the views, and then of the fold over the
  accounts.

Induction over data is done without the induction theorems of the library: what
fails somewhere fails at a least subset (`LeastSubset`, from the well-foundedness
of strict inclusion on finite sets), a last index (`LastIndex`) or a first step
(`FirstStep`). So the folds of the community modules, which choose a recursive
function, are shown to have one (`FoldExists`) and to have the values their
unfolding gives (`FoldUnfolds`).

`Invariant`, `SerialInvariant`, `KillSwitch`'s `TypeCorrect`,
`OptionsTypeCorrect` and the linearity behind `ChainStaysLinear` are proved
without a run of their own: the runs check what follows from them.

Only model-checked: liveness (`LockedRunSettles`), since TLAPS
1.4.5 has no `ENABLED`. Every invariant and every other action property of a
passing run is a theorem, of its component for any values of the constants.

## 6. Not modelled

The list of steps in a run record; payloads of snapshots and events and the
redaction of audit payloads; an audit line cut just before its newline; requests
for options a record does not have (an error reply without a step on any store);
controls and the level of risk of a deployment; the wording of twin stages, their
trace, and the scores a state estimate is made of; the assessment of rosters; the
fit of a candidate and what it is forecast from; what a query for context returns
and its ranking; the resolver in memory, whose pools no program adds; hash
collisions and equal `created_at` timestamps.

`fairness` and `calibration` are arithmetic on one list, without state or order;
`llm` is one HTTP request and its parsing, and what callers do when it fails is
in `Evidence` and `ScenarioOptions`; `api`, `config` and `security` route
requests and have no state of their own. They stay `not_modelled`, as
`PROJECT.json` says of each.

## 7. Plan

Decisions under concurrency and failure came first, then what the stages of a
twin run promise, then the inputs and the advice around them. Next:

1. The assessment of rosters, over `DecisionQuality`, as a further step of
   `Selection`.
2. A composition of `Evidence` and `ScenarioOptions`, with a theorem from a
   mismarked request to three rejected options.
3. The level of risk and the controls of a deployment: the level is taken from
   the riskiest option and the posture from the recommended one, so they may
   differ.
