# A verification of the GEO agent in TLA+

The GEO agent (`src/geo-agent`) measures how pages and brands appear in AI answers.  A FastAPI
process admits **jobs** for a **measurement run**; separate worker processes lease the jobs, make
paid provider calls (page browsing, search, query planning, evaluator models, recommendations) and
commit the results.  Everything they share is one SQL database (SQLite in WAL mode, or PostgreSQL).
This directory models that machinery, checks it with TLC and proves its main properties with TLAPS.

Paths below are relative to `src/geo-agent/src/geo_agent/` unless they begin with `src/`.

## 1. Inventory

| Component | State it keeps | Operations | Interacts with |
| --- | --- | --- | --- |
| Workflow queue and leases (`persistence.py`, `jobs.py`, `worker.py`) | `workflow_jobs`: state, type, run, revision, lease owner, token and expiry | `enqueue_job`, `lease_one_job`, `renew_job_lease`, `complete_job`, `fail_job`, `cancel_job`, `recover_interrupted` | every method also rewrites the run, in the same transaction |
| Run lifecycle (`measurement_workflow.py`, `persistence.py`) | `measurement_runs`: revision, state, inputs, approval, measurement, recommendations, review, agent stages | `approve`, `revise_inputs`, `review_recommendations`, `persist_export`, all through `_mutate_run` (compare and set of the revision) | queue, export |
| Job handlers (`preparation.py`, `evaluation_workflow.py`, `specialist_workflow.py`) | results collected in memory until `complete_job` | one `operations.call` for each provider call, in the order of the plan | claims, provider clients |
| Operation claims (`jobs.py`, `persistence.py`) | `operation_claims`: unique key, job, state, cost, response | `claim_operation`, `record_operation` | grants, queue (lease check) |
| Budget grants (`measurement_budget.py`, `measurement_worker.py`) | `measurement_budget_grants`, `measurement_budget_usage` | `bind_measurement_budget`, `_consume_measurement_budget` | claims |
| Orchestrator (`project_measurements.py`) | none | `start`, `reconcile_job`, `retry_recommendations`, `regenerate_recommendations` | called by the API and by workers after each job and before each pass |
| Execution authorizations (`measurement_service.py`, `agent_access.py`) | `agent_execution_authorizations`, `agent_access` rows | issue, consume once, grant and revoke access | `enqueue_job` |
| Artifact export (`artifact_storage.py`, `artifacts.py`) | files; `artifacts`, `artifact_create_requests` | reserve, put, persist, bind, download | run lifecycle |
| Projects (`projects.py`, `persistence.py`) | `projects`, `project_runs`, page definitions | create, update, archive, delete, import of runs | runs, chat, export files |
| Project chat (`project_chat*.py`, `goal_summary.py`) | `project_conversations`: revision, turns, links to runs, workflow | claim turn, workflow writes, finish turn | orchestrator, provider clients |
| v1 workflow (`workflow.py`, `live.py`, `chat.py`, `budget.py`, `conversation.py`) | a SQLite store of its own: runs, conversations, spend | analyse, decide, converse | provider clients |
| Assessment, scores, recommendation checks (`evidence_assessment.py`, `geo_context.py`, `recommendation_plan.py`, `evaluation.py`, ...) | none | pure functions of saved evidence | handlers, export, views |
| Interfaces (`api.py`, `measurement_api.py`, `project_api.py`, `mcp_server.py`), provider clients, contracts, migrations, web workspace, mockups | none of their own | translation, validation, HTTP | everything above |

### What is hard

* **Interleaving.**  A repository method reads with several SELECTs and writes later.  What a write
  does not re-check may have changed: `cancel_job`, `fail_job`, `complete_job`, `renew_job_lease`
  and `recover_interrupted` all act on earlier reads.  A worker has two threads (main, heartbeat).
* **Crashes.**  A worker may die at any line; nothing but the expiry of its lease tells the others.
* **Time.**  A lease may run out while its holder still works, and a renewal may be late.
* **Money.**  A call to a provider cannot be taken back; its claim, its charge and its record are
  three separate writes around it, and claims of several jobs compete for one grant.
* **Long protocols.**  A run is prepared, approved, evaluated, recovered, revised, reported on,
  reviewed and exported, while its state alone does not show a working specialist stage.

`PROJECT.json` lists these hazards line by line with the properties that cover them.

### What makes each component correct

* *Queue*: one lease at a time; a job is completed only by its holder; an ended job stays ended;
  a busy run has a job that will move it on; a job that works has a run that shows it; every job
  ends.
* *Run*: results belong to the approved inputs, reports to the current measurement; an exported run
  is frozen.
* *Claims and grants*: no call without a paid claim, none twice; the ledger balances, within the
  allowance; the ceiling holds; what a job stores is what its claims record.
* *Orchestrator*: each step of the automatic chain is taken once, however many workers reconcile the
  same job; it spends only what was asked for; what a crash interrupts is caught up with.
* *Chat*: one turn runs at a time and no turn is lost, whoever writes the conversation from a copy;
  a setup is prepared once, with a summary that nothing but its scope can have outgrown; insights on a
  run are paid once.
* *Records of a run*: a creation key makes one run; an agent's job has an authorization for exactly
  what it will do; an artifact row has its file; an exported run has the export of what it holds;
  a key is answered the same way twice.
* *v1 store*: a claim is called once; results belong to the approved queries; slots, calls and chat
  requests stay within the grants; the turns of a conversation are numbered without gaps.
* *Scores and reports*: the numbers computed in several places agree with each other and with a
  reference definition; a report accounts for every proposal, and rests on the measurement it is
  about.

## 2. Modules

| Module | What it is |
| --- | --- |
| `JobLifecycle` | abstract specification: what the queue promises of the jobs alone |
| `WorkflowQueue` | runs, jobs, worker processes with their heartbeat threads, cancelling requests, clock |
| `ProviderOperations` | the provider calls of the four handlers: claims, grants, ceilings, records |
| `ProjectMeasurement` | the orchestrator: the automatic chain of a run, the owner's requests, the workers' passes |
| `ProjectChat` | a project conversation: turns, setups, the runs they start, the workers that write back, deletion |
| `RunRecords` | creation, authorizations, export files and deletion of runs, by requests in several steps |
| `BudgetGrants` | the grant table of the local (v1) store |
| `LiveAnalysis` | v1: runs, preparations, page analyses and evaluations; extends `BudgetGrants` |
| `EvidenceChat` | v1: conversations about a run's evidence; extends `BudgetGrants` |
| `EvidenceScores` | pure: citation matching, scores, assessment, content strategy of a measurement |
| `RecommendationReports` | pure: the baseline report and the plan, checked, ranked and cut; extends `EvidenceScores` |
| `GroundedEvaluation` | an evaluation, its recoveries and its report: the steps that feed the two above |
| `LocalStore` | composes `LiveAnalysis` and `EvidenceChat` over one grant table |
| `*_proofs` (eight) | theorems about the module they are named after; `LocalStore_proofs` has those of `EvidenceChat` too |
| `MC*` (seven) | instances for TLC |

The modules divide the database between them as the code's transactions allow: `WorkflowQueue` proves
what one lease is, and `ProviderOperations` and `ProjectMeasurement` rest on it, so their job steps may
be atomic; `ProjectChat` takes the end of a job as an input of the conversation.  Each module says
below what it takes from another.

### WorkflowQueue

State: `runs` (rows of `measurement_runs`), `jobs` (rows of `workflow_jobs`, numbered in the order
of `created_at`), `nextJob`, `wk` (the program counter of each worker and what it has read), `hb`
and `age` (its heartbeat thread, and how long ago the pending renewal read the clock), `cancelling`
(what each `cancel_job` request has read) and the history variable `overwritten`.

A measurement, a report and a review are identified by the revision of the run that stored them,
which stands for their digests.  A lease holder stands for the lease token as well: a worker leases
a job once only, so its identity and the token tell the same.

*Granularity.*  A repository method is one `engine.begin()` block.  With pysqlite the transaction
begins at the first INSERT or UPDATE, and PostgreSQL runs at READ COMMITTED, so every SELECT before
the first write has a snapshot of its own and everything from the first write on is atomic.  A
method whose reads are re-checked by a guarded UPDATE is one action, at that write; a method that
acts on a read its write does not re-check is two actions.  `lease_one_job` first
UPDATEs the single row of `workflow_admission_lock`, which makes the rest of it atomic.
`enqueue_job` does so after it has read the run, whose revision its own write compares again, and
before it counts the queue.

| Actions | Code |
| --- | --- |
| `EnqueuePrepare`, `EnqueueEvaluate`, `EnqueueRecovery`, `EnqueueStage` | `enqueue_job`, one for each job type |
| `Approve`, `ReviseInputs`, `ReviewRecommendations`, `PersistExport` | `MeasurementCoordinator`, `persist_export` |
| `RecoverScan`, `RecoverNothing`, `RecoverCommit`, `RecoverSkip`, `RecoverConflict` | `recover_interrupted`: its reads, and the four ways its write goes |
| `Lease`, `LeaseNothing`, `LeaseStale` | `lease_one_job` |
| `HandlerRead`, `HandlerEnds`, `HandlerLost` | the handler, reduced to what it reads of the run and how it ends |
| `HeartbeatRead`, `HeartbeatWrite` | `renew_job_lease` in the heartbeat thread |
| `EnsureActive`, `EnsureLost` | `LeaseHeartbeat.stop` and `ensure_active` |
| `FinalRead`, `CompleteCommit`, `CompleteConflict`, `FailCommit` | `complete_job`, `fail_job` |
| `CancelRead`, `CancelCommit`, `CancelGivesUp` | `cancel_job` |
| `Crash`, `Restart`, `Tick` | death of a worker, its restart by an operator, time |

An exception nobody catches (a Conflict out of `recover_interrupted`, `lease_one_job` or
`complete_job`) ends the worker process, as `run_worker` lets it do: it is a `Die`, and only
`Restart` brings the worker back.

### ProviderOperations

State: `state` of each job, `thread` (the main thread of each worker: the job, the phase of the
current call and the results so far), `claims`, `used` (consumption per grant and call type),
`stored` (results of completed jobs) and the histories `calls`, `late` and `refused`.

`Steps(j)` is the list of calls the handler of a job makes: each step has its key, its budget type,
the failures its handler catches around it and the earlier result it depends on.  `PrepareSteps`,
`EvaluateSteps`, `RecoverSteps` and `StageSteps` are read off the four handlers.  A call is
`ClaimRead` (the SELECTs of `claim_operation`), then `ClaimCommit`, `ClaimTaken` or `ClaimFails`
(its writes), `Dispatch` (the call leaves the process), and `Record` or `RecordFails`.  `Raise` is
the one place where an exception is sorted into the three things it may become: a result, the end of
the job, or the silent end of a worker that has lost its lease.

The module rests on `WorkflowQueue` for the queue: a job is leased once, by one worker, while no
other is (`AtMostOneLeased`), it ends at any moment behind its worker's back (`Cancel`,
`RecoverLease`), and it never becomes active again (`EndedJobsStayEnded`).  The expiry of a lease is
the possibility that a lease check fails at any time (`ClaimRefused`, `RecordFails`, `Drop`).

### ProjectMeasurement

State: `runs`, `jobs`, `nextJob` as above but reduced to what the orchestrator looks at, and `wk`,
what each worker is doing: its job, what is left of its list of unreconciled jobs (`todo`), the run
as `reconcile_job` has read it (`seen`), and whether it was called for a listed job (`late`).
Inputs and measurements (`meas`) are identified by the revision that stored them.  What a measurement
contains is another thing: the code compares digests, and a recovery whose evaluators fail again as
they did saves what was there.  `content` stands for the digest, named by the first revision that
stored it, and the stage record of a run is `stage` and `stageOf`, the content whose digest is its
`input_hash`.  `Contents` says which contents a finished job may store: an evaluation a new one always
(its packets carry the time of their retrieval), a recovery that leaves the run partial also the one
the last stage was about, if that is of the same inputs.  This allows a little more than the code: the
model does not count which answers are missing.

| Actions | Code |
| --- | --- |
| `Prepare`, `StartEvaluation`, `RecoverEvaluators`, `RequestReport`, `ApproveQueries`, `ReviseInputs`, `Export`, `CancelJob` | the routes of `project_api.py`, at the revision the owner has seen |
| `ListUnreconciled`, `TakeUnreconciled`, `EndPending` | `Worker._reconcile_pending` and `list_unreconciled_specialist_jobs` |
| `RecoverInterrupted`, `LeaseJob`, `LeaseNothing`, `Complete`, `Fail`, `LoseLease` | `Worker.run_once` |
| `ReadRun`, `Approve`, `EnqueueNext`, `EnqueueRefused` | `reconcile_job` and `_reconcile_recommendations`: the read, and the two writes that compare its revision |
| `Lapse`, `Crash`, `Restart` | a lease that runs out, the death of a worker, its restart |

`Complete` is followed by `reconcile_job` in the same worker, in a transaction of its own: between
the two a worker may die, another may list the job, and the owner may act.  `Unreconciled` and
`Decision` are two different tests of whether the chain must go on, in SQL and in Python, and the
idempotency keys (`KeyTaken`) a third one.

The module rests on `WorkflowQueue` for the queue, which is why the steps of a job are atomic here:
jobs are leased in the order of their admission and one at a time, only the holder completes, and
the end of a job rewrites its run in the same transaction.

### ProjectChat

State: `conv` (the conversation row: revision and payload), `column` and `links` (the two places in
the database that name the runs of a conversation, beside the payload's own), `runs` and the history
`origin`, `summaries` (rows of `project_llm_operations`), `prepares` (the run whose preparation job
holds the key of a setup), `handler` (the request being answered), `wk` (what each worker is
reconciling), `deleting` (a deletion that has read its copy) and the history `insights`.

The payload is one JSON document.  Every writer changes a whole copy that it has read earlier and
writes it back if the revision is still that of the copy (`Fresh`); `update_active` and
`clear_workflow` do not move the revision, so a writer that read before them passes that comparison.
What keeps the document consistent is therefore not any one comparison but which writes move the
revision, and that is what the properties and the proofs are about.

A setup (`Flow`) has a goal, which is its topic (url, goal, audience, desired outcome) and its scope
(a page or the domain), a flag that no field is missing, the goal its summary was made from, and a flag
that something was refused since its last start.

| Actions | Code |
| --- | --- |
| `Send`, `Refuse` | the claim of a turn (`ProjectConversationStore.claim`) and its refusals |
| `RequestMeasurement`, `Answer`, `AnswerScope`, `AnswerNothing`, `CancelSetup` | what a message may do to the pending setup (`project_chat_workflow.py`): a field that is given resets the summary, a scope that is given when the target is asked for does not |
| `RejectPage`, `StartRefused` | a page outside the project, a brief or a policy that is refused: the setup is saved as collecting, with what was known of it |
| `SummaryBegins`, `SummaryReturns`, `SummaryRefused`, `SaveSetup` | the goal summary: its own paid operation, and the setup written with it |
| `Confirm`, `Enqueue`, `EnqueueRefused`, `BindStarted`, `BindRuns` | `start()` in its two transactions, then the link to the run it made; a full queue is a `ValueError` too and saves the setup like `StartRefused` |
| `AskAgent`, `AgentReplies`, `Interrupted` | the agent's answer, a request cut short |
| `FinishRead`, `FinishWrite`, `ServerDies` | the finish of a turn: re-read, compare, write; or nothing at all |
| `JobEnds`, `JobStops`, `Resume`, `ReconcileAgain` | the end of a job and what calls the chat's reconciliation |
| `Find`, `Get`, `ClaimInsights`, `Refresh`, `AgentSummarises`, `InsightsRead`, `InsightsWrite`, `SetFlow`, `WorkerDies` | `measurement_worker.py` and `reconcile`: the automatic turn of an evaluated run |
| `DeleteRunRead`, `DeleteRunWrite`, `DeleteConversation`, `DeleteProject` | the deletions of `persistence.py`, beside all of it |

The module takes from `WorkflowQueue` and `ProjectMeasurement` that a run's job ends once and that its
evaluation follows its preparation; it does not model the queue again.

### RunRecords

State: rows of the tables that hang on a run (`runs`, `creations`, `approvals`, `auths`, `jobs`,
`artifacts`, `exports`), the directory `files`, the next identifier, `req` (what each request has read
and where it is) and the history `answers`.

| Actions | Code |
| --- | --- |
| `Create`, `CreateRead`, `CreateCommit` | `create`, `create_idempotent` |
| `Approve`, `ReviseInputs`, `PrepareEnds`, `EvaluationEnds`, `JobFails` | what the owner and the jobs do to the run |
| `IssueRead`, `IssueCommit`, `Expire` | an authorization, from the run the owner was shown |
| `Enqueue` | `enqueue_job`: key, authorization, approval and job row in one transaction |
| `ExportBegin`, `ExportRead`, `Put`, `PersistExport`, `CompanionRead`, `CompanionInsert`, `Bind`, `AnswerExport` | an export: the key, the reading of the run, the file, the row (which exports the run, for its measurement), the binding of the key |
| `DeleteRead`, `DeleteCommit`, `Unlink` | `delete_project_run`: rows first, files after |
| `Crash` | a request cut short between any two of these |

The result of a render is identified by the revision of the run's results, and so is the content of
a file.  `DeleteCommit` is the transaction of `persistence.py` as it is: it refuses a run with rows the
request did not read (`Unreferenced`).

### LiveAnalysis, EvidenceChat and BudgetGrants

The v1 store is a SQLite file of its own, whose methods are each one transaction; a request of the
web server takes several of them and may be cut short between any two (`Die`, `Drop`).  `Restart` is
the only moment a grant can be applied, and ends every request; the rows stay.

`LiveAnalysis`: `runs`, `prepared` and `claims` (rows of `live_calls`, by policy and operation),
`slots` (`live_run_slots`), `pages`, `th` (the requests) and the histories `sent` and `answers`.  A
request prepares a run under the configured policy (`ClaimPreparation`), under a slot of a grant
(`TakeSlot`, which also ends a slot that was never used), or for a captured page (`AnalysePage`,
`PrepareEvaluation`); it sends its calls one by one (`Send`, `Answered`, `PreparationFails`) and makes
and records the run (`CreateRun`, `RecordRun`).  Another request starts it (`RequestStart`, `Start`,
`ClaimEvaluation`), walks through the queries (`Check`, `ClaimCall`, `Call`, `RecordCall`, `Recheck`),
re-reading before each whether the run is still evaluating, and finishes it (`Finish`,
`RecordEvaluation`).  `Approve`, `Revise`, `Cancel`, `MarkExported` and `CreateFixture` are the owner's.

`EvidenceChat`: `chats` (revision and turns), `responses` (keys of the Responses protocol and what
they were bound to), `used` (requests counted), `client` and `enforced`.  A message or a response is
sent (`SendMessage`, `SendResponse`), its turn claimed (`ClaimTurn`), the model asked up to three times,
each request counted first (`Reserve`, `Ask`), and the turn finished (`FinishTurn`).

`LocalStore` composes the two over the one grant table they share: their steps interleave, and a start
of the server, which may apply a grant, is a step of both (`StartServer`).  Because a grant is applied
only then, and no request survives it, neither can see the other's steps; so each behaviour of
`MCLocalStore` exercises one of them, and `UsersKeepToThemselves` proves that this leaves nothing out.

### EvidenceScores, RecommendationReports and GroundedEvaluation

What a measurement says is computed anew wherever a page, a file or a report needs it, by code that
counts the same things in its own way: `evaluation.py` (`Score`, `MeasurementScores`),
`evidence_assessment.py` (`EvidenceAssessment`, `CompetitorSummary`) and `recommendations.py`
(`ContentStrategy`, `GapClass`, `Compared`).  The operators keep these ways apart, so that
`ScoresAgree` can compare them.  Data is reduced to what they count: a query is its priority, a source
its position in its packet with the few facts the code reads out of it (its relation to the page, its
brand verdict, whether it competes), a citation a position.

`RecommendationReports` is what happens to a planner's answer: each item checked against a registry of
the measurement's own evidence (`Supported`, `Registry`, which has every technical field that was
captured, with a finding or without), refused, repeated or kept with a line in the
log (`Review`), the rule items added for findings nobody addressed (`WithRules`), the rest ranked
(`PriorityScore`, `RanksBefore`), tiered and cut (`Cut`); and the baseline report, which is accepted or
refused as a whole.  Items are numbered as their identifiers sort, and ranked by counting what ranks
before each, which is the order a sort by the same key gives.

`GroundedEvaluation` makes the inputs: it answers query by query and profile by profile as the
evaluation does (`Retrieve`, `Answer`, `Save`), recovers what failed (`Recover`) and has one report made
(`RecommendBaseline`, `RecommendPlan`), so every measurement the properties see is one the program
saves.  What the agents may return is constrained by two assumptions, and by nothing else.
`EvaluationAssumption`: a packet is a list of sources, an answer cites finitely many positions.
`ProposalAssumption`: an item has at least one query and the labels the contract lets it have
(`recommendation_plan.py:55-57`, 104, 126); its identifier follows a pattern (95, 119) that no rule
item's can (173 adds the `T` forms); each technical check is found once.

### JobLifecycle

Jobs are admitted in the order of their numbers, started in that order and one at a time; a started
job ends once, with one outcome, and only a started job completes.  One weakness is part of the
promise because the code has it (finding 1 and the first observation of section 5): an ended job may be rewritten as cancelled or
failed.  `ImplementsLifecycle` maps the state of a job to the column `state` of its row.

## 3. Runs

| Run | Question | Instance |
| --- | --- | --- |
| `queue_workers` | Do run, job and results stay consistent through leases, heartbeats, crashes and late commits? | one evaluated run, 2 workers (symmetric), 1 cancelling request, 3 jobs, revisions up to 13 |
| `queue_two_runs` | One lease at a time, no run left behind, the abstract life of jobs, and an end of every job, when runs compete for a full queue | 2 runs in every mixture of new and evaluated, 1 worker, 1 cancelling request, 2 jobs, limit of 2 queued, revisions up to 10, fairness |
| `queue_cancelled_final` | *violated*: a cancelled job stays cancelled | one run, 2 workers, 2 jobs |
| `operations` | Do ledger, ceiling, dependent calls and records hold when jobs of one owner compete for the last units, and recoveries of two owners share a key? | four batches: an evaluation with a recovery, with a stage, a recovery with a stage and another owner's recovery, a preparation with another owner's recovery; 3 workers, 1 query, 2 profiles, 3 grants, a ceiling of 2 on the evaluation |
| `operations_owner_scope` | *violated*: claims are owner-scoped | the two recoveries only |
| `project_chain` | Is each automatic step taken once, only if asked for, and in the end? | a run whose first preparation has failed, or one evaluated in part and reported on; 2 workers, 5 jobs, a queue of 2, revisions up to 12, fairness |
| `project_hidden_report` | *violated*: an evaluation started without recommendations gets none | a new run, 1 worker, 4 jobs |
| `project_stalled` | *violated*: a prepared run is evaluated | a new run, 1 worker, 2 jobs, fairness |
| `chat_turns` | Do turns exclude each other and stay, is a setup prepared once, with a summary outdated in its scope at most, are insights asked for once? | 3 runs, 3 message keys, 3 contents of a setup (a topic in both scopes, another topic), 2 workers, revisions up to 5; a setup awaiting confirmation, or a run just evaluated |
| `records` | Do creation, authorization, export and deletion keep rows, files and keys together? | 4 runs, 2 requests at a time, 1 creation key, 3 job keys, 1 export key, 1 authorization, 2 inputs, 3 files; starts before creation, at admission, after evaluation |
| `local_store` | Is a claimed call made once, only for approved queries, within the grants, and are turns numbered? | a grant of 1 run and 1 request, 2 runs, 2 keys, 2 requests, 2 queries, 1 page; 2 chats, 2 keys, 2 clients; preparation, evaluation, synthetic run and chat in behaviours of their own |
| `algorithms` | Do all scores agree, and does a report account for every proposal with evidence of its own measurement? | 2 queries (one branded), 2 profiles, 2 packets, 2 citation sets and failures of both, 9 proposals, 7 draft lists, 3 sets of signals; reports of 3 items with 1 in the top tier |

*Why the bounds are enough.*  Two workers are the two roles every race of the queue has: the holder
that is late and the one that recovers or leases after it.  A third job is needed so that a job is
queued while an earlier one is overwritten and a later one works; a second run so that jobs of
different runs stand in each other's way.  `LeaseTicks = 1` lets a lease be fresh or expired, and a
renewal be in time or late, which is all the code compares.  `MaxRev` stops clients, not workers or
cancellations, from acting on a run past that revision: a job under way always finishes.  `MixedInit`
and `EvaluatedInit` start from runs the code reaches, a new one and one whose first evaluation had a
failed evaluator, because that one can do everything: be recovered, reported on, revised, reviewed
and exported.  In `operations` the grants let the last unit be contended, run out and be topped up by
a fallback grant; the ceiling of two is reached in the middle of the evaluation.  `project_chain`
starts from two states on the way of a run (`Retrying`, `Reported` of `MCProjectMeasurement`), from which
its five jobs reach every turn of the chain: after the failed preparation a second one, an evaluation,
the report and one job to spare; after the report two recoveries, a report between them, or a request
of the owner's, so that a recovery may measure again what was reported on.  Its two workers are the one
that has finished a job and the one whose pass meets the same job.

In `chat_turns` a third key and a third run are what is needed to change, cancel and reopen a setup
whose first run still exists; three contents of a setup are a summary that is current, one of another
scope and one of another topic.  The revision bound of 5 lets two messages, an automatic turn and a
deletion interleave.  In
`records` two requests at a time are the two sides of every race (two creations, two exports of one
key, an export and a deletion); a run that was exported, then revised or deleted, is why there are
four runs and three files.  In `local_store` one slot is enough for it to be lost, reused and
exhausted, and an allowance of one chat request is spent by one of two clients.  In `algorithms` the
cuts are at 3 and 1 in place of 11 and 3 so that a list of the size TLC can enumerate crosses both.

*Deadlock* is checked in the queue and project runs.  The others say `CHECK_DEADLOCK FALSE`: they end
when the jobs, keys and identifiers of the instance are used up.

*Fairness* (`queue_two_runs`).  Weak fairness of `WorkerStep(w)` and `HeartbeatWrite(w)`: the
operating system runs both threads of a live process; a renewal that has begun ends.  Weak fairness
of `Tick`: the clock advances.  Nothing is assumed of `HeartbeatRead` (a renewal may always be too
late), of clients, or of `Restart`: `JobsEnd` promises an end only when some worker is eventually
never down, for nothing in the code restarts a worker.

In `project_chain`: weak fairness of `WorkerStep(w)`, as above, and of the lapse of a lease no worker
works under, for nobody renews it and the clock advances.  Nothing is assumed of the owner or of
`Restart`; `ReportFollows` has the same premise of a worker that stays up.  The bound on jobs is in
the property: a report that is due is enqueued, or is due no more, or there is no number left.

No liveness is stated of the chat, the records or the v1 store: nothing in the code finishes a request
that was cut short there, and section 5 lists what that leaves behind.

## 4. What is proved

The eight proof modules prove, for any number of runs, jobs, workers, owners, requests, keys, queries,
profiles, sources, citations, proposals, grants and limits, from the named assumptions on constants in their modules alone
(sections 2 and 3 say what they stand for; TLC evaluates each of them):

| Module | Theorem | Property |
| --- | --- | --- |
| `WorkflowQueue_proofs` | `InvariantHolds`, `TypeCorrect` | `IInv`; `TypeOK`, with the shape the validators of `WorkflowJob` demand of every stored row |
| | `MutualExclusion` | `AtMostOneLeased` |
| | `Fencing` | `OnlyHoldersComplete` |
| | `EndIsFinal` | `EndedJobsStayEnded` |
| | `QueueImplementsLifecycle` | `ImplementsLifecycle` |
| | `RunsStayConsistent` | its `RunInv`, with the `IInv` above |
| | `NoRunIsOrphaned` | `NoOrphanedRun` |
| | `JobsAreShown` | `NoPhantomJob` |
| | `ResultsAreOfApprovedInputs` | `ResultsMatchApproval` |
| | `ExportsStay` | `ExportsAreFrozen` |
| `ProviderOperations_proofs` | `InvariantHolds`, `TypeCorrect` | `IInv`; `TypeOK` |
| | `LedgerIsSound` | `LedgerBalances` |
| | `CallsAreMadeOnce` | `DispatchedOnceUnderClaim` |
| | `CeilingIsKept` | `CeilingHolds` |
| | `LateCallsAreBounded` | `AtMostOneLateCall` |
| | `NothingIsRefunded` | `NoRefund` (proved only; no run repeats it) |
| | `HandlersAgreeWithRecord` | its `HandlerInv`, with `IInv` |
| | `StoredResultsAreCheckpointed` | `StoredIffCheckpointed` |
| | `FollowUpsAreMadeOnOutcome` | `FollowUpsAreJustified` |
| `ProjectMeasurement_proofs` | `InvariantHolds`, `TypeCorrect` | `IInv`; `TypeOK` |
| | `ChainIsTakenOnce` | `AutomaticOnlyOnce` |
| | `OnlyRequestedSpend` | `SpendIsRequested` |
| `ProjectChat_proofs` | `ChatInvariant`, `ChatTypes` | `IInv`; `TypeOK` |
| | `OneTurnAtATime` | `OneRunningTurn` |
| | `NoTurnIsLost` | `TurnsAreKept` |
| | `InsightsArePaidOnce` | `InsightsOnce` |
| | `OnlyTheScopeOutdates` | `SummaryOutdatedInScopeOnly` |
| | `SetupsPrepareOnce` | `OnePreparationPerSetup` |
| `RunRecords_proofs` | `RecordsInvariant`, `RecordsTypes` | `IInv`; `TypeOK` |
| | `KeysMakeOneRun` | `OneRunPerCreateKey` |
| | `AgentsSpendWhatWasGiven` | `AgentSpendIsAuthorized` |
| | `RowsKeepFiles` | `ArtifactsHaveFiles` |
| | `ExportsMatch` | `ExportMatchesRun` |
| | `ReplayInvariant` | its `ReplayInv`, with `IInv` |
| | `RetriesAgree` | `ReplaysAgree` |
| `LiveAnalysis_proofs` | `AnalysisInvariant`, `AnalysisTypes` | `IInv`; `LiveTypeOK` |
| | `CallsAreNotRepeated` | `EachCallOnce` |
| | `ResultsWereApproved` | `ResultsAreApproved` |
| | `SlotsWereGranted` | `SlotsAreGranted` |
| `LocalStore_proofs` | `ChatInvariant` | its `ChatIInv` |
| | `TurnsNumbered` | `TurnsAreNumbered` |
| | `RequestsWerePaid` | `ChatTypeOK`, `RequestsArePaid` |
| | `UsersKeepToThemselves` | `LocalSpec => LiveSpec /\ ChatSpec` |
| | `LocalTypes` | `TypeOK` |
| | `SpendWasGranted` | `SpendIsGranted` |
| `GroundedEvaluation_proofs` | `MeasurementsAreSound` | its `EvaluationInv` |
| | `ScoresNeverContradict` | `ScoresAgree` |
| | `ReportsAnswerForTheirInput` | `ReportIsAccountable` |

Every invariant and every action property of the passing runs is among them, and so is the one safety
refinement.

*The invariant of the queue.*  `OnlyHoldersComplete` is not inductive: `complete_job` writes the job
row without a condition, and only the revision of the run, read with the lease and compared at the
commit, keeps a late worker out.  `IInv` therefore says what that revision stands for: a worker
between `_leased_job` and its commit that still finds its run at the revision it read finds its job
leased to itself.  For this every step that ends or passes on a leased job must also move the
revision of its run, which is what the action lemmas show one action at a time.

*The invariant of the runs.*  Every step of the queue is shown to be one of five kinds (`RunStep`): it
`Stands`, the owner `Decides`, a job is admitted (`Admits`), leased (`Begins`) or ended (`Closes`).
`NoOrphanedRun` then needs nothing else: what makes a run busy admits a job, and what ends the job takes
it off the run in the same step, however late it comes.  `NoPhantomJob` needs to know as well which
ended jobs were rewritten (`overwritten`), since such a write takes off a run what another job put there.
`StagesHaveResults` keeps specialist jobs to measured runs, so that an exported run has none.
`RunsAreSound` carries the approval from the decision to the results: no inputs before the preparation
ends, no approval but of the inputs shown, no evaluation but with approved ones.
`QueuedEvaluationsAreShown` is what a lease relies on: a waiting evaluation that can still be leased
finds its run as its admission left it, so the lease turns no other state into evaluating.

*The invariant of the operations.*  A thread that is inside a call is tied to its job
(`ThreadsHaveJobs`), no two threads to one job (`OneThreadPerJob`), and a thread that has claimed to
its own row (`ClaimsAreHeld`), whose call has not been sent before `Dispatch`
(`DispatchedOnceUnderClaim`).  `RoomForClaim` carries the ceiling across the gap between the count
and the insert: no other thread can claim for the same job meanwhile.  `LateCalls` bounds the calls
sent after the end of a job by where its thread stands: a thread past its claim may send one, and the
next lease check stops it.  `LedgerBalances` needs only that a claim row and its charge are written
in one step and that no step withdraws either.

A handler also holds results, in memory and apart from the rows.  `ResultsAreRecorded` says that they
agree with the rows of its own steps: a completed result is there exactly when the step's row is
completed under this job, because the row is written before the result is appended and
`DistinctAssumption` gives each step of a job a key of its own (queries and profiles are distinct).
`ClaimsAreDue` carries the condition of a dependent call from the reading of the results to the
claim, `ClaimsAreJustified` from the claim to the call; `JobsHaveLives` keeps a job without a lease
from having claims, and a completed one from having a thread.  What a job stores at its completion is
what its thread held, hence `StoredIffCheckpointed`.

*The invariant of the chain.*  That a measurement gets no second automatic report is decided in one
step (`StageDue`, which reads the stage record) and relied on in a later one (`EnqueueNext`, which
compares the revision only).  `Knows` carries the decision across: it still holds as long as the
revision has not moved, because no job of the run is admitted and nothing of it is written without
moving it (`Forward`).  `StagesBehind` says why the stage record is enough to look at: a run keeps one
record for all its stages, the last one's, but whatever saves a measurement saves it after every stage
before it (`Resaved`), even if it contains the same; so if any stage was about the current measurement,
the record is about what that one contains.  A step either keeps the rows
(`RowsKept`, `RunsMove`) or admits a proper job (`Proper`), and each action is shown to be one of the
two.

*The invariant of the chat.*  Everything turns on copies.  `ConversationIsProper` says what a payload
may look like; `ProperRequest`, `ProperWorker` and `DeletionIsProper` say the same of every copy that
somebody holds, and that the copy is `Behind` the conversation: its turns are there still, and if the
revisions agree they differ only in what `update_active` and `clear_workflow` write.  `Moves` is the
one relation every step is shown to keep between the conversation before and after it, so that a copy
that was behind stays behind.  `InsightsAreClaimed` ties the call to the automatic turn that was
claimed for it, `PreparationsAreHeld` a run to the setup whose key its preparation job holds.  What a
saved setup knows of its summary (`CurrentFlow`) is not inductive without the flag of a refusal: only a
setup that was refused is still asked for its target when it has a summary, and only then does a scope
come after the test that resets it.  `DraftFlow` is the same between an answer and its next question.

*The invariant of the records.*  An agent's job is created in one transaction from an authorization
read in it, but the inputs it evaluates were approved earlier: `ApprovalsHold` says that what an
approved run shows is what the approval at its revision names.  `FilesAreApart` says why a file may be
written before its row and unlinked after it without touching another's: identifiers that requests
hold differ from each other and from every row, but for the rows a deletion has committed the loss of.
`ContentsAreCurrent` carries the rendered results to the commit, as long as the revision holds.

For the retries of an export, `AnswersAreBound` says that an answer is what its key is bound to while
its run lives: only the first binding writes the row, and a deletion that takes the row takes the run
as well.  A request that has found an artifact and has yet to bind it may bind a number whose row has
been deleted since; it finds no row then, and `BindingsAreApart` says that no other request will write
one under that number.

*The invariants of the v1 store.*  `Preparations` says that a request in a preparation holds its claim
(`ClaimsAreHeld`), alone (`OnePreparation`), and that a run belongs to a policy that was claimed
(`PolicyIsProper`: without a claim there is no call).  `Calls` says that a call about to be made is
claimed, not yet sent, and in no other request's hands.  `Approvals` (`Follows`) says that an executor
keeps the inputs its run had at the revision it was started at, and that a run at that revision has
them still.  For the turns of conversations it is enough to know that requests belong to conversations
that exist and that a revision counts the finished turns.  The theorems are about behaviours from an
empty store; the run also starts from prepared runs, which saves TLC the preparation.

*What is granted.*  That a key is answered with one run (part of `SlotsAreGranted`) depends on which of
two policies prepared it, the configured one or its slot, and grants may be applied between two
requests for the same key.  `KeysHaveOnePolicy` says that never both did: a request is sent for a slot
only where another key used the configured policy (`LiveAnalysis_proofs`, `Slots`).  For the chat the
allowance is a sum over the grant table, `AddedRequests`, a recursive function.  `TotalIsASum` shows
that there is such a function for every list, by a least length for which there is none, and
`TotalOfOneMore` that a grant adds its requests; so a new grant never lowers the allowance, and the
count made before each request stays within it (`Budget`).  The two halves meet in
`UsersKeepToThemselves`: the composition implements either user's specification, the other's steps
being stutters, so what is proved of each alone holds of both together.

*The scores.*  `EvaluationInv` says that what a job builds, and what a run has saved, is always a
measurement (`Sound`): one record for each pair of the plan, and no completed answer without a
completed packet of its query.  `ScoresAgree` is a statement about data and follows from
it by counting.  Scores and breakdowns are sums over sets, of which the prover knows the definition
only; the facts about sums (that of a disjoint union, of equal summands, of a set counted class by
class) are proved once, each by a minimal set for which it fails (`Minimal`, from the library's
well-founded orders, where an induction would need an operator as a parameter).

*The reports.*  `ReportIsAccountable` needs nothing of earlier reports; all is in what one report is
made of.  `Review` is a fold over the proposal: `Reviewed` describes the fold's state after each item,
and `ReviewedAll` concludes that each identifier was kept or logged as often as it was proposed.
`RuleItems` and `FinalReview` add the findings nobody named, one item or one line each, whose identifiers
`ProposalAssumption` keeps apart from proposed ones.  `RankedIsComparable` shows that every score is a
number, so that the ranking is a total order of items with different identifiers; `PlacesAreTaken` and
`TieredInOrder` that counting what ranks before gives each item its place; `CutKeepsCount` that the
cut drops what it logs.  Evidence resolves because each check of a kept item demanded it (`Supported`).

*Model-checked only.*  Liveness: `JobsEnd` and `ReportFollows` rest on fairness and ENABLED, which are
out of this prover's reach.  The four violated properties are counterexamples and have nothing to
prove.

## 5. Findings

1. **A stale failure overwrites a cancellation** (`queue_cancelled_final`).  `fail_job` checks the
   lease (`persistence.py:2764`), re-reads the run (2765) and compares the run's revision with the
   one it has just read.  A cancellation between the two reads is overwritten: the job goes from
   cancelled to failed.  `src/geo-agent-mcp-next-gates-plan.md:65` says that stale workers cannot
   commit over cancellation.
2. **Recovery claims are not owner-scoped** (`operations_owner_scope`).  Operation keys of recoveries
   begin with the owner's idempotency key and are unique across owners, so one owner's recovery is
   refused an evaluator call on account of another's, and records an error result for it.
3. **A report nobody asked for** (`project_hidden_report`).  The list of unreconciled jobs keeps every
   completed evaluation that wanted recommendations until a stage names it as its source, and
   `_reconcile_recommendations` applies it to whatever measurement the run has by then.  After such an
   evaluation has failed, a revision and a second evaluation that is started without recommendations,
   a worker's next pass enqueues a paid stage for the second one.  `mcp_server.py:266` calls that start
   one "without a hidden recommendation call".  `SpendIsRequested` says what does hold.
4. **A prepared run that is never evaluated** (`project_stalled`).  The passes catch up with
   evaluations and recoveries only.  If the worker dies between `complete_job` and `reconcile_job`, or
   the queue is full at that moment, the run stays at awaiting-query-approval, though
   `src/docs/GEO-MEASUREMENT-METHODOLOGY.md:199` says that evaluation is queued automatically.

*Observations.*  No text of the repository promises otherwise, so these are not findings; the models
behave this way because the code does.

* *Queue.*  `cancel_job` refuses ended jobs (2834-2837), then reads the run and writes both rows
  without looking at the job again: a completion in between is overwritten, with the run's state.  If
  another job of that run had been queued meanwhile, it is stale at the head of the queue and ends
  every worker that meets it; hence the `Clean` condition of three invariants, which says that without
  such an overwrite they hold.  `NoOrphanedRun` and the fencing of completions hold even with it.  The
  queue limits are counts read under the admission lock (1723), so they are exact.  A run that went to
  review with prepared inputs can be neither prepared, evaluated nor revised (1856).
* *Orchestrator.*  A recovery whose evaluators fail again as they did saves the measurement that was
  there and takes its report away (`evaluation_workflow.py:272`); the stage record is about that
  measurement (`project_measurements.py:199`), so no report follows until the owner asks for one, which
  is the exception `ReportFollows` states.  `reconcile_job` approves the inputs it reads, not those
  the preparation returned
  (`project_measurements.py:112`): an owner who revises first has his own inputs approved.  After a
  preparation it does not ask whether that job is still the run's last.
* *Chat.*  A server that dies leaves its turn running, which refuses every later message.  A summary
  that was interrupted leaves its operation running, so that setup is never summarised again; a setup
  changed after its operation was made gets a Conflict for ever.  A start that is refused, because the
  queue is full among other reasons (`workflow.py:9`), leaves the setup with its page and summary and
  asks for the target; the answer "the whole domain" then changes the scope
  (`project_chat_workflow.py:358`) without resetting the summary (347), and the next confirmation starts
  a run whose goal still speaks of the page.  `SummaryOutdatedInScopeOnly` says that nothing else of a
  summary is ever outdated.  If the link to a started run meets a
  Conflict, the run goes on unlinked.  `set_workflow` writes a whole copy and can undo an
  `update_active` that moved no revision, and a worker can put back the workflow of a run that was
  deleted (`src/geo-agent/tests/test_projects.py:1409` deletes when no worker is between its reads).
* *Records.*  A file whose request died, or lost its race, has no row and stays in the directory.  The
  retry of a companion export after its run was exported meets a Conflict for ever, and a first
  attempt that ends in one leaves the key reserved and unbound.  Exporting an exported run returns its
  export whatever was asked for.  A companion may be committed for a revision that has passed, and
  the branch for a lost insert looks up the winner without its kind (1444).  Whether a run may be
  deleted is read before the deletion (797).
* *v1.*  After a cancellation, a revision, an approval and a start, the executor of the first start
  goes on with the old queries; its results are refused, and if it held the claim, the run stays
  evaluating.  So does a run whose executor died, which `src/geo-agent/README.md:403` mentions.  A
  preparation makes its run and records it in two transactions, so a crash between them leaves a run
  no key leads to.  A response key bound at a revision that has passed can never be used.
* *Reports.*  A quarantined item that names a finding of high severity suppresses its rule item, and a
  repeated one its own log entry.  The evidence of `key_findings` is not resolved against the
  registry.  Query identifiers given twice count twice in an item's reach.  `citation_count` counts
  profiles (`evidence_assessment.py:163`).  The branch of the specialist stage for a measurement with
  no completed retrieval (118-131) cannot be reached from the states that allow a stage.

## 6. What is left out, and why

* The handlers' data in the queue and operations modules: scores, prompts, evidence, provenance and
  costs other than the counts.  What is computed from saved evidence is in the algorithms' modules.
* The choice among policies in `lease_one_job` and `recover_interrupted` (`policy_id`, `policy_hash`,
  `owner_key`): the installation modelled has one policy.  Brand definitions are revisions of the run.
* The idempotent replay of a request (it changes nothing, so it is a stutter; `RunRecords` and
  `LiveAnalysis` keep the answers where they are stored) and the failure of the database, except where
  it changes what an operation does next.
* `LeaseHeartbeat.stop` joins the heartbeat with a time limit; the model lets the join succeed.
* The job types' handlers exist for all types; the branch for an unknown type fails the job as
  `FailCommit` does.
* Budgets that are not enforced (`measurement_worker.py:107` enforces them when the policy has
  technical Browse): without enforcement there is no ledger to speak of.  The binding of a grant to a
  worker compares constants.
* Liveness of the providers: a call that never returns is a worker that keeps its lease by
  renewing it; `HandlerEnds` under fairness assumes that the client's time limits hold.
* In `ProjectMeasurement`: the bindings a stage is resolved to, the validation of the prepared inputs,
  the policy filter and the limit of 100 of the unreconciled list (its order does not matter here).
* In `ProjectChat`: what is read out of a message (a message may do any of the things a message does),
  and the agent's answers (`project_foundry.py`).
* In `RunRecords`: access grants, tokens and the project an agent is bound to, looked up and changed
  one row at a time; the contents of the bundles (`artifacts.py` renders text and JSON).
* Of the projects: names, domains and page definitions, rows written at a compared revision.  The
  domain of a new project is read and inserted in two statements without a unique key.
* Of the algorithms: what is read out of text (brand matching, wording cues, facts and claims,
  headings, robots rules), which is the input of the modelled counts.
* The mock runtime (the same queue with canned providers), the HTTP and MCP interfaces (translation),
  the provider clients (their outcomes are the nondeterminism of `ProviderOperations`), contracts,
  migrations, the web workspace and the mockups.

## 7. Plan

What is left, in this order:

1. Access grants beside the authorizations, brand definitions, and the limit of 100 of the
   unreconciled list with more runs than that bound, scaled down.
2. The refinement of `WorkflowQueue` by the handlers of `ProviderOperations`, so that what the second
   takes from the first (a lease is held by one worker) is a theorem about the two.
