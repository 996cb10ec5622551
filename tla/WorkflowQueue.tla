--------------------------- MODULE WorkflowQueue ---------------------------
(***************************************************************************)
(* The durable job queue of the GEO agent: measurement runs, the workflow  *)
(* jobs that drive them, and the worker processes that lease the jobs      *)
(* (persistence.py, jobs.py, worker.py, measurement_workflow.py).          *)
(*                                                                         *)
(* GRANULARITY.  A repository method is one `with engine.begin()` block.   *)
(* On SQLite the pysqlite driver opens the transaction at the first        *)
(* UPDATE or INSERT, and on PostgreSQL the default level is READ           *)
(* COMMITTED: each SELECT before the first write sees a snapshot of its    *)
(* own, and everything from the first write to the commit is atomic.  A    *)
(* method whose reads are all re-checked by its write (an UPDATE guarded   *)
(* by the revision it read) takes effect at that write, so it is a single  *)
(* action.  A method that acts on a read its write does not re-check is    *)
(* two actions, one that reads and one that commits, and any other process *)
(* may run in between: cancel_job, fail_job, complete_job, the heartbeat's *)
(* renew_job_lease and recover_interrupted.                                *)
(***************************************************************************)
EXTENDS Naturals, FiniteSets

CONSTANTS
    Runs,             \* measurement runs
    Owners,           \* owner identities
    OwnerOf,          \* the owner of each run
    Inputs,           \* digests of prepared measurement inputs
    Workers,          \* worker processes
    Cancellers,       \* API requests executing cancel_job
    None,             \* the absent value
    LeaseTicks,       \* ticks a fresh or renewed lease lasts
    QueueLimit,       \* jobs that may be queued globally (20 in the code)
    OwnerQueueLimit,  \* jobs that may be queued per owner (4 in the code)
    MaxJobs,          \* bound: jobs ever enqueued
    MaxRev            \* bound: revision past which no client acts on a run

ASSUME ConstantsAssumption ==
    /\ OwnerOf \in [Runs -> Owners]
    /\ None \notin Runs \cup Workers \cup Inputs
    /\ LeaseTicks \in Nat \ {0}
    /\ QueueLimit \in Nat
    /\ OwnerQueueLimit \in Nat
    /\ MaxJobs \in Nat
    /\ MaxRev \in Nat

JobIds   == 1..MaxJobs
JobTypes == {"prepare", "evaluate", "recover-evaluators", "agent-stage"}
ActiveStates   == {"queued", "leased"}
TerminalStates == {"completed", "failed", "cancelled"}
JobStates == {"absent"} \cup ActiveStates \cup TerminalStates

ResultStates == {"ready", "partial", "failed"}
RunStates == {"draft", "preparing", "awaiting-query-approval", "queued", "evaluating",
              "needs-review", "cancelled", "exported"} \cup ResultStates
StageStates == {"none", "queued", "running", "completed", "failed"}

\* A measurement, a report and a review are identified by the revision that
\* stored them (their digests in the code); 0 is "not there".
Run == [rev: Nat, state: RunStates,
        inputs: Inputs \cup {None}, approval: Inputs \cup {None},
        meas: Nat, measOf: Inputs \cup {None},
        recs: Nat, recsOf: Nat, review: Nat,
        stage: StageStates, stageJob: Nat, stageOf: Nat]

Job == [st: JobStates, type: JobTypes, run: Runs \cup {None}, rev: Nat,
        by: Workers \cup {None}, ttl: Nat]

Phases == {"recover", "recovering", "lease", "handle", "work", "ensure-complete",
           "ensure-fail", "complete", "completing", "fail", "failing", "down"}

WorkerState == [pc: Phases, job: Nat, rev: Nat,
                seenInputs: Inputs \cup {None}, seenMeas: Nat]

VARIABLES
    runs,         \* measurement_runs rows
    jobs,         \* workflow_jobs rows, numbered in the order of created_at
    nextJob,      \* the next job identifier
    wk,           \* where each worker process is, and what it has read
    hb,           \* its heartbeat thread: off, on, inside a renewal, stopped by an error
    age,          \* ticks since the pending renewal took its current time
    cancelling,   \* the job each cancel_job request has read as active, or 0
    overwritten   \* history: runs on which a job row that was no longer active was
                  \* overwritten by a method that had read it while it was

vars == <<runs, jobs, nextJob, wk, hb, age, cancelling, overwritten>>

----------------------------------------------------------------------------
NewRun == [rev |-> 1, state |-> "draft", inputs |-> None, approval |-> None,
           meas |-> 0, measOf |-> None, recs |-> 0, recsOf |-> 0, review |-> 0,
           stage |-> "none", stageJob |-> 0, stageOf |-> 0]

NoJob == [st |-> "absent", type |-> "prepare", run |-> None, rev |-> 0,
          by |-> None, ttl |-> 0]

IdleWorker == [pc |-> "recover", job |-> 0, rev |-> 0,
               seenInputs |-> None, seenMeas |-> 0]

Init ==
    /\ runs = [r \in Runs |-> NewRun]
    /\ jobs = [j \in JobIds |-> NoJob]
    /\ nextJob = 1
    /\ wk = [w \in Workers |-> IdleWorker]
    /\ hb = [w \in Workers |-> "off"]
    /\ age = [w \in Workers |-> 0]
    /\ cancelling = [c \in Cancellers |-> 0]
    /\ overwritten = {}

----------------------------------------------------------------------------
(* Repository helpers.                                                     *)

\* _mutate_run: the row is replaced and its revision moves on by one.
MutateRun(r, new) ==
    runs' = [runs EXCEPT ![r] = [new EXCEPT !.rev = runs[r].rev + 1]]

\* A report and its review do not outlive the measurement they are about.
WithoutReport(run) == [run EXCEPT !.recs = 0, !.recsOf = 0, !.review = 0]
WithoutResults(run) == [WithoutReport(run) EXCEPT !.meas = 0, !.measOf = None]

\* upsert_stage: the stage record of job j about the current measurement.
WithStage(run, status, j) ==
    [run EXCEPT !.stage = status, !.stageJob = j, !.stageOf = run.meas]

ActiveJobs(r) == {j \in JobIds : jobs[j].run = r /\ jobs[j].st \in ActiveStates}

\* Mutant of NoActiveSpecialistJob: it is not looked for.
NoSpecialistCheck(r) == TRUE

NoActiveSpecialistJob(r) == \A j \in ActiveJobs(r) : jobs[j].type # "agent-stage"

QueuedJobs == {j \in JobIds : jobs[j].st = "queued"}
QueuedOf(o) == {j \in QueuedJobs : OwnerOf[jobs[j].run] = o}

QueueHasCapacity(o) ==
    /\ Cardinality(QueuedJobs) < QueueLimit
    /\ Cardinality(QueuedOf(o)) < OwnerQueueLimit

\* _require_active_lease: the holder still owns an unexpired lease.
HoldsLease(w, j) ==
    /\ j \in JobIds
    /\ jobs[j].st = "leased"
    /\ jobs[j].by = w
    /\ jobs[j].ttl > 0

\* Mutant of Finish: the row keeps its lease holder.
FinishKeepingHolder(j, outcome) ==
    jobs' = [jobs EXCEPT ![j].st = outcome, ![j].ttl = 0]

Finish(j, outcome) ==
    jobs' = [jobs EXCEPT ![j].st = outcome, ![j].by = None, ![j].ttl = 0]

----------------------------------------------------------------------------
(* enqueue_job.  The job is bound to the revision its own mutation made.   *)

Admit(r, type, new) ==
    /\ nextJob \in JobIds
    /\ runs[r].rev < MaxRev
    /\ NoActiveSpecialistJob(r)
    /\ QueueHasCapacity(OwnerOf[r])
    /\ MutateRun(r, new)
    /\ jobs' = [jobs EXCEPT ![nextJob] =
                  [st |-> "queued", type |-> type, run |-> r,
                   rev |-> runs[r].rev + 1, by |-> None, ttl |-> 0]]
    /\ nextJob' = nextJob + 1
    /\ UNCHANGED <<wk, hb, age, cancelling, overwritten>>

EnqueuePrepare(r) ==
    /\ \/ runs[r].state = "draft"
       \/ runs[r].state = "needs-review" /\ runs[r].inputs = None
    /\ Admit(r, "prepare", [runs[r] EXCEPT !.state = "preparing"])

EnqueueEvaluate(r) ==
    /\ runs[r].state = "awaiting-query-approval"
    /\ runs[r].approval # None
    /\ Admit(r, "evaluate", [runs[r] EXCEPT !.state = "queued"])

\* A run is "partial" or "failed" with a measurement only when some evaluator
\* result is an error, which is what recovery asks for.
EnqueueRecovery(r) ==
    /\ runs[r].state \in {"failed", "partial"}
    /\ runs[r].meas # 0
    /\ Admit(r, "recover-evaluators", [runs[r] EXCEPT !.state = "queued"])

EnqueueStage(r) ==
    /\ runs[r].state \in {"ready", "partial"}
    /\ runs[r].meas # 0
    /\ Admit(r, "agent-stage",
             WithStage(runs[r], "queued", nextJob))

----------------------------------------------------------------------------
(* Decisions of the run's owner, through MeasurementCoordinator.           *)

OwnerMutates(r, new) ==
    /\ runs[r].rev < MaxRev
    /\ NoActiveSpecialistJob(r)
    /\ MutateRun(r, new)
    /\ UNCHANGED <<jobs, nextJob, wk, hb, age, cancelling, overwritten>>

Approve(r) ==
    /\ runs[r].state = "awaiting-query-approval"
    /\ runs[r].inputs # None
    /\ OwnerMutates(r, [runs[r] EXCEPT !.approval = runs[r].inputs])

\* Mutant of ReviseInputs: also for a run whose evaluation is queued.
ReviseQueuedInputs(r, i) ==
    /\ runs[r].state \in {"awaiting-query-approval", "cancelled", "failed", "queued"}
    /\ OwnerMutates(r, [WithoutResults(runs[r]) EXCEPT
                          !.inputs = i, !.approval = None,
                          !.state = "awaiting-query-approval"])

ReviseInputs(r, i) ==
    /\ runs[r].state \in {"awaiting-query-approval", "cancelled", "failed"}
    /\ OwnerMutates(r, [WithoutResults(runs[r]) EXCEPT
                          !.inputs = i, !.approval = None,
                          !.state = "awaiting-query-approval"])

ReviewRecommendations(r) ==
    /\ runs[r].state \in {"ready", "partial"}
    /\ runs[r].meas # 0 /\ runs[r].recs # 0
    /\ OwnerMutates(r, [runs[r] EXCEPT !.review = runs[r].recs])

\* persist_export, which needs the same guards as a mutation of the owner.
PersistExport(r) ==
    /\ runs[r].state \in ResultStates
    /\ runs[r].meas # 0
    /\ OwnerMutates(r, [runs[r] EXCEPT !.state = "exported"])

----------------------------------------------------------------------------
(* Worker.run_once, first half: recover_interrupted, then lease_one_job.   *)

Goto(w, pc) == wk' = [wk EXCEPT ![w].pc = pc]
GiveUp(w)   == wk' = [wk EXCEPT ![w] = IdleWorker]
Die(w)      == wk' = [wk EXCEPT ![w] = [IdleWorker EXCEPT !.pc = "down"]]

\* Mutant of Expired: the leases of specialist jobs are not looked at.
ExpiredMeasurement(j) ==
    jobs[j].st = "leased" /\ jobs[j].ttl = 0 /\ jobs[j].type # "agent-stage"

Expired(j) == jobs[j].st = "leased" /\ jobs[j].ttl = 0

\* The SELECT of expired leases, and of the run of the one it finds.
RecoverScan(w, j) ==
    /\ wk[w].pc = "recover"
    /\ Expired(j)
    /\ wk' = [wk EXCEPT ![w].pc = "recovering", ![w].job = j,
                        ![w].rev = runs[jobs[j].run].rev]
    /\ UNCHANGED <<runs, jobs, nextJob, hb, age, cancelling, overwritten>>

RecoverNothing(w) ==
    /\ wk[w].pc = "recover"
    /\ \A j \in JobIds : ~Expired(j)
    /\ Goto(w, "lease")
    /\ UNCHANGED <<runs, jobs, nextJob, hb, age, cancelling, overwritten>>

\* Mutant of Interrupted: a specialist job sends its run to review as well.
InterruptedToReview(r, j) == [runs[r] EXCEPT !.state = "needs-review"]

\* A run whose job ended without a result: the stage of an agent-stage job
\* fails, any other job sends the run to review.
Interrupted(r, j) ==
    IF jobs[j].type = "agent-stage" THEN [runs[r] EXCEPT !.stage = "failed"]
                                    ELSE [runs[r] EXCEPT !.state = "needs-review"]

\* The UPDATE repeats the lease conditions and the expiry that was read, so a
\* renewed lease is left alone.  (One that was renewed and has lapsed again is
\* recovered here, and on the next pass of the code.)
RecoverCommit(w) ==
    LET j == wk[w].job
        r == jobs[j].run
    IN  /\ wk[w].pc = "recovering"
        /\ Expired(j)
        /\ runs[r].rev = wk[w].rev
        /\ MutateRun(r, Interrupted(r, j))
        /\ Finish(j, "failed")
        /\ Goto(w, "lease")
        /\ UNCHANGED <<nextJob, hb, age, cancelling, overwritten>>

RecoverSkip(w) ==
    /\ wk[w].pc = "recovering"
    /\ ~Expired(wk[w].job)
    /\ Goto(w, "lease")
    /\ UNCHANGED <<runs, jobs, nextJob, hb, age, cancelling, overwritten>>

\* The Conflict of a moved revision is caught by nobody: the process exits.
RecoverConflict(w) ==
    /\ wk[w].pc = "recovering"
    /\ Expired(wk[w].job)
    /\ runs[jobs[wk[w].job].run].rev # wk[w].rev
    /\ Die(w)
    /\ UNCHANGED <<runs, jobs, nextJob, hb, age, cancelling, overwritten>>

\* Mutant of NothingLeased: a lease that has run out is not counted.
NothingHeld == \A j \in JobIds : jobs[j].ttl = 0

NothingLeased == \A j \in JobIds : jobs[j].st # "leased"

\* Mutant of IsOldestQueued: the queue is ordered the other way round.
IsNewestQueued(j) == j \in QueuedJobs /\ \A k \in QueuedJobs : k <= j

IsOldestQueued(j) == j \in QueuedJobs /\ \A k \in QueuedJobs : j <= k

\* The job still describes its run: the revision it was queued at and, for a
\* specialist stage, the stage record that names it.
BoundToRun(j) ==
    LET r == jobs[j].run
    IN  /\ runs[r].rev = jobs[j].rev
        /\ jobs[j].type = "agent-stage" => runs[r].stageJob = j

\* Leasing moves an evaluation's run, or the stage, to its running state.
\* A preparation was already moved when it was queued: its run is not written.
Started(r, j) ==
    IF jobs[j].type = "agent-stage" THEN [runs[r] EXCEPT !.stage = "running"]
                                    ELSE [runs[r] EXCEPT !.state = "evaluating"]

Lease(w, j) ==
    LET r == jobs[j].run
        rev == IF jobs[j].type = "prepare" THEN runs[r].rev ELSE runs[r].rev + 1
    IN  /\ wk[w].pc = "lease"
        /\ NothingLeased
        /\ IsOldestQueued(j)
        /\ BoundToRun(j)
        /\ IF jobs[j].type = "prepare" THEN UNCHANGED runs
                                       ELSE MutateRun(r, Started(r, j))
        /\ jobs' = [jobs EXCEPT ![j].st = "leased", ![j].by = w, ![j].rev = rev,
                                ![j].ttl = LeaseTicks]
        /\ wk' = [wk EXCEPT ![w] = [IdleWorker EXCEPT !.pc = "handle", !.job = j]]
        /\ hb' = [hb EXCEPT ![w] = "on"]
        /\ UNCHANGED <<nextJob, age, cancelling, overwritten>>

LeaseNothing(w) ==
    /\ wk[w].pc = "lease"
    /\ ~NothingLeased \/ QueuedJobs = {}
    /\ GiveUp(w)
    /\ UNCHANGED <<runs, jobs, nextJob, hb, age, cancelling, overwritten>>

\* The oldest queued job is bound to a revision that has passed.  The Conflict
\* leaves it at the head of the queue and ends the worker process.
LeaseStale(w, j) ==
    /\ wk[w].pc = "lease"
    /\ NothingLeased
    /\ IsOldestQueued(j)
    /\ ~BoundToRun(j)
    /\ Die(w)
    /\ UNCHANGED <<runs, jobs, nextJob, hb, age, cancelling, overwritten>>

----------------------------------------------------------------------------
(* Worker.run_once, second half: the handler, its heartbeat thread, and    *)
(* the final transaction.                                                  *)

\* What a handler requires of the run it reads before any provider call.
HandlerAccepts(r, type) ==
    CASE type = "prepare" -> TRUE
      [] type = "evaluate" ->
            runs[r].state = "evaluating" /\ runs[r].inputs # None
              /\ runs[r].approval = runs[r].inputs
      [] type = "recover-evaluators" ->
            runs[r].state = "evaluating" /\ runs[r].inputs # None
              /\ runs[r].approval = runs[r].inputs /\ runs[r].meas # 0
      [] type = "agent-stage" ->
            runs[r].state \in {"ready", "partial"} /\ runs[r].meas # 0

HandlerRead(w) ==
    LET r == jobs[wk[w].job].run
    IN  /\ wk[w].pc = "handle"
        /\ wk' = [wk EXCEPT
             ![w].pc = IF HandlerAccepts(r, jobs[wk[w].job].type)
                       THEN "work" ELSE "ensure-fail",
             ![w].seenInputs = runs[r].inputs, ![w].seenMeas = runs[r].meas]
        /\ UNCHANGED <<runs, jobs, nextJob, hb, age, cancelling, overwritten>>

\* The handler returns a mutation, or raises an error ...
HandlerEnds(w) ==
    /\ wk[w].pc = "work"
    /\ \E next \in {"ensure-complete", "ensure-fail"} : Goto(w, next)
    /\ UNCHANGED <<runs, jobs, nextJob, hb, age, cancelling, overwritten>>

\* ... or raises the LeaseLost of one of its operation claims, and run_once
\* returns when heartbeat.stop() has joined the thread.
HandlerLost(w) ==
    /\ wk[w].pc = "work"
    /\ hb[w] # "read"
    /\ ~HoldsLease(w, wk[w].job)
    /\ GiveUp(w)
    /\ hb' = [hb EXCEPT ![w] = "off"]
    /\ UNCHANGED <<runs, jobs, nextJob, age, cancelling, overwritten>>

\* LeaseHeartbeat._run: renew_job_lease reads the job row.  Any exception, of
\* the database too, is remembered and ends the thread ...
HeartbeatRead(w) ==
    /\ hb[w] = "on"
    /\ wk[w].pc \in {"handle", "work"}
    /\ \E next \in {"read", "lost"} :
          /\ next = "read" => HoldsLease(w, wk[w].job)
          /\ hb' = [hb EXCEPT ![w] = next]
    /\ UNCHANGED <<runs, jobs, nextJob, wk, age, cancelling, overwritten>>

\* Mutant of HeartbeatWrite: the UPDATE has lost its conditions, and brings
\* back the payload of the leased job.
HeartbeatWriteAlways(w) ==
    /\ hb[w] = "read"
    /\ jobs' = [jobs EXCEPT ![wk[w].job].st = "leased", ![wk[w].job].by = w,
                            ![wk[w].job].ttl = LeaseTicks]
    /\ hb' = [hb EXCEPT ![w] = "on"]
    /\ age' = [age EXCEPT ![w] = 0]
    /\ UNCHANGED <<runs, nextJob, wk, cancelling, overwritten>>

\* ... and writes the new expiry, counted from the time it had read, if the
\* row is still leased to this worker.  The expiry itself is not checked again.
HeartbeatWrite(w) ==
    LET j == wk[w].job
        held == jobs[j].st = "leased" /\ jobs[j].by = w
    IN  /\ hb[w] = "read"
        /\ jobs' = IF held
                   THEN [jobs EXCEPT ![j].ttl = IF age[w] < LeaseTicks
                                                THEN LeaseTicks - age[w] ELSE 0]
                   ELSE jobs
        /\ hb' = [hb EXCEPT ![w] = IF held THEN "on" ELSE "lost"]
        /\ age' = [age EXCEPT ![w] = 0]
        /\ UNCHANGED <<runs, nextJob, wk, cancelling, overwritten>>

\* heartbeat.ensure_active(), once the thread has been joined.
EnsureActive(w) ==
    LET j == wk[w].job
    IN  /\ wk[w].pc \in {"ensure-complete", "ensure-fail"}
        /\ hb[w] = "on"
        /\ HoldsLease(w, j)
        /\ jobs' = [jobs EXCEPT ![j].ttl = LeaseTicks]
        /\ Goto(w, IF wk[w].pc = "ensure-complete" THEN "complete" ELSE "fail")
        /\ hb' = [hb EXCEPT ![w] = "off"]
        /\ UNCHANGED <<runs, nextJob, age, cancelling, overwritten>>

EnsureLost(w) ==
    /\ wk[w].pc \in {"ensure-complete", "ensure-fail"}
    /\ hb[w] # "read"
    /\ hb[w] = "lost" \/ ~HoldsLease(w, wk[w].job)
    /\ GiveUp(w)
    /\ hb' = [hb EXCEPT ![w] = "off"]
    /\ UNCHANGED <<runs, jobs, nextJob, age, cancelling, overwritten>>

\* complete_job and fail_job: _leased_job reads the row and checks the lease.
FinalRead(w) ==
    /\ wk[w].pc \in {"complete", "fail"}
    /\ IF HoldsLease(w, wk[w].job)
       THEN wk' = [wk EXCEPT
              ![w].pc = IF wk[w].pc = "complete" THEN "completing" ELSE "failing",
              ![w].rev = jobs[wk[w].job].rev]
       ELSE GiveUp(w)
    /\ UNCHANGED <<runs, jobs, nextJob, hb, age, cancelling, overwritten>>

\* What the mutation returned by each handler makes of the run.
Prepared(r, i) == [runs[r] EXCEPT !.inputs = i, !.state = "awaiting-query-approval"]

\* Mutant of Evaluated: the report and the review of an earlier measurement stay.
EvaluatedKeepingReport(r, s, of) ==
    [runs[r] EXCEPT !.state = s, !.meas = runs[r].rev + 1, !.measOf = of]

Evaluated(r, s, of) ==
    [WithoutReport(runs[r]) EXCEPT
        !.state = s, !.meas = runs[r].rev + 1, !.measOf = of]

Recommended(r, j) ==
    [WithStage(runs[r], "completed", j) EXCEPT
        !.recs = runs[r].rev + 1, !.recsOf = runs[r].meas, !.review = 0]

\* Mutant of ResultApplies: the revision is not compared.
ResultAppliesAtAnyRevision(w) ==
    LET j == wk[w].job
        r == jobs[j].run
    IN  CASE jobs[j].type = "prepare" -> runs[r].state = "preparing"
          [] jobs[j].type \in {"evaluate", "recover-evaluators"} ->
                runs[r].state = "evaluating" /\ runs[r].inputs = wk[w].seenInputs
          [] jobs[j].type = "agent-stage" ->
                runs[r].meas # 0 /\ runs[r].meas = wk[w].seenMeas
                  /\ runs[r].state \in {"ready", "partial"}

\* The run is the one the job was leased for, and what the handler saw of it.
ResultApplies(w) ==
    LET j == wk[w].job
        r == jobs[j].run
    IN  /\ runs[r].rev = wk[w].rev
        /\ CASE jobs[j].type = "prepare" -> runs[r].state = "preparing"
             [] jobs[j].type \in {"evaluate", "recover-evaluators"} ->
                   runs[r].state = "evaluating" /\ runs[r].inputs = wk[w].seenInputs
             [] jobs[j].type = "agent-stage" ->
                   runs[r].meas # 0 /\ runs[r].meas = wk[w].seenMeas
                     /\ runs[r].state \in {"ready", "partial"}

\* The job row is written without a condition: only the revision of the run
\* stands between a late worker and the job.
CompleteCommit(w) ==
    LET j == wk[w].job
        r == jobs[j].run
    IN  /\ wk[w].pc = "completing"
        /\ ResultApplies(w)
        /\ CASE jobs[j].type = "prepare" -> \E i \in Inputs : MutateRun(r, Prepared(r, i))
             [] jobs[j].type \in {"evaluate", "recover-evaluators"} ->
                   \E s \in ResultStates : MutateRun(r, Evaluated(r, s, wk[w].seenInputs))
             [] jobs[j].type = "agent-stage" -> MutateRun(r, Recommended(r, j))
        /\ Finish(j, "completed")
        /\ GiveUp(w)
        /\ UNCHANGED <<nextJob, hb, age, cancelling, overwritten>>

\* Only LeaseLost is caught around complete_job: a Conflict ends the process.
CompleteConflict(w) ==
    /\ wk[w].pc = "completing"
    /\ ~ResultApplies(w)
    /\ Die(w)
    /\ UNCHANGED <<runs, jobs, nextJob, hb, age, cancelling, overwritten>>

\* fail_job reads the run after the job and compares the run's revision with
\* itself, so a job that ended in between is overwritten.
FailCommit(w) ==
    LET j == wk[w].job
        r == jobs[j].run
    IN  /\ wk[w].pc = "failing"
        /\ MutateRun(r, IF jobs[j].type = "agent-stage"
                        THEN [runs[r] EXCEPT !.stage = "failed", !.stageJob = j]
                        ELSE Interrupted(r, j))
        /\ Finish(j, "failed")
        /\ GiveUp(w)
        /\ overwritten' = IF jobs[j].st \in ActiveStates THEN overwritten
                                                         ELSE overwritten \cup {r}
        /\ UNCHANGED <<nextJob, hb, age, cancelling>>

----------------------------------------------------------------------------
(* cancel_job reads the job, and refuses one that has ended; then it reads *)
(* the run, and writes both rows.                                          *)

CancelRead(c, j) ==
    /\ cancelling[c] = 0
    /\ jobs[j].st \in ActiveStates
    /\ cancelling' = [cancelling EXCEPT ![c] = j]
    /\ UNCHANGED <<runs, jobs, nextJob, wk, hb, age, overwritten>>

CancelCommit(c) ==
    LET j == cancelling[c]
        r == jobs[j].run
    IN  /\ j # 0
        /\ MutateRun(r, IF jobs[j].type = "agent-stage"
                        THEN [runs[r] EXCEPT !.stage = "failed"]
                        ELSE [runs[r] EXCEPT !.state = "cancelled"])
        /\ Finish(j, "cancelled")
        /\ cancelling' = [cancelling EXCEPT ![c] = 0]
        /\ overwritten' = IF jobs[j].st \in ActiveStates THEN overwritten
                                                         ELSE overwritten \cup {r}
        /\ UNCHANGED <<nextJob, wk, hb, age>>

\* The request ends without an effect: the run moved between its read and its
\* write, or the API process stopped.
CancelGivesUp(c) ==
    /\ cancelling[c] # 0
    /\ cancelling' = [cancelling EXCEPT ![c] = 0]
    /\ UNCHANGED <<runs, jobs, nextJob, wk, hb, age, overwritten>>

----------------------------------------------------------------------------
(* The environment: process deaths, restarts by an operator, and time.     *)

Crash(w) ==
    /\ wk[w].pc # "down"
    /\ Die(w)
    /\ hb' = [hb EXCEPT ![w] = "off"]
    /\ age' = [age EXCEPT ![w] = 0]
    /\ UNCHANGED <<runs, jobs, nextJob, cancelling, overwritten>>

Restart(w) ==
    /\ wk[w].pc = "down"
    /\ GiveUp(w)
    /\ UNCHANGED <<runs, jobs, nextJob, hb, age, cancelling, overwritten>>

\* A tick brings every lease one tick nearer to its expiry, and ages the
\* current time that each pending renewal has already read.
Tick ==
    /\ \E j \in JobIds : jobs[j].st = "leased" /\ jobs[j].ttl > 0
    /\ jobs' = [j \in JobIds |-> IF jobs[j].ttl > 0
                                 THEN [jobs[j] EXCEPT !.ttl = jobs[j].ttl - 1]
                                 ELSE jobs[j]]
    /\ age' = [w \in Workers |-> IF hb[w] = "read" /\ age[w] < LeaseTicks
                                 THEN age[w] + 1 ELSE age[w]]
    /\ UNCHANGED <<runs, nextJob, wk, hb, cancelling, overwritten>>

----------------------------------------------------------------------------
ClientStep ==
    \/ \E r \in Runs :
          \/ EnqueuePrepare(r) \/ EnqueueEvaluate(r)
          \/ EnqueueRecovery(r) \/ EnqueueStage(r)
          \/ Approve(r) \/ ReviewRecommendations(r) \/ PersistExport(r)
          \/ \E i \in Inputs : ReviseInputs(r, i)
    \/ \E c \in Cancellers :
          \/ CancelCommit(c) \/ CancelGivesUp(c)
          \/ \E j \in JobIds : CancelRead(c, j)

\* Everything the main thread of a worker process does of itself.
WorkerStep(w) ==
    \/ \E j \in JobIds : RecoverScan(w, j) \/ Lease(w, j) \/ LeaseStale(w, j)
    \/ RecoverNothing(w) \/ RecoverCommit(w) \/ RecoverSkip(w) \/ RecoverConflict(w)
    \/ LeaseNothing(w)
    \/ HandlerRead(w) \/ HandlerEnds(w) \/ HandlerLost(w)
    \/ EnsureActive(w) \/ EnsureLost(w) \/ FinalRead(w)
    \/ CompleteCommit(w) \/ CompleteConflict(w) \/ FailCommit(w)

Next ==
    \/ ClientStep
    \/ \E w \in Workers :
          WorkerStep(w) \/ HeartbeatRead(w) \/ HeartbeatWrite(w) \/ Crash(w) \/ Restart(w)
    \/ Tick

Spec == Init /\ [][Next]_vars

\* The operating system runs both threads of every live worker and its clock
\* advances.  Nothing restarts a dead worker: no fairness on Restart.
Fairness ==
    /\ WF_vars(Tick)
    /\ \A w \in Workers : WF_vars(WorkerStep(w)) /\ WF_vars(HeartbeatWrite(w))

FairSpec == Spec /\ Fairness

----------------------------------------------------------------------------
(* PROPERTIES.                                                             *)

\* The types of the variables, and the shape that the validators of
\* WorkflowJob demand of every stored row: a job has a lease holder exactly
\* while it is leased, and a remaining lease only then.
TypeOK ==
    /\ runs \in [Runs -> Run]
    /\ jobs \in [JobIds -> Job]
    /\ nextJob \in 1..(MaxJobs + 1)
    /\ wk \in [Workers -> WorkerState]
    /\ hb \in [Workers -> {"off", "on", "read", "lost"}]
    /\ age \in [Workers -> 0..LeaseTicks]
    /\ cancelling \in [Cancellers -> 0..MaxJobs]
    /\ overwritten \subseteq Runs
    /\ \A j \in JobIds :
          /\ (jobs[j].st = "absent") <=> (j >= nextJob)
          /\ (jobs[j].st = "absent") <=> (jobs[j].run = None)
          /\ (jobs[j].st = "leased") <=> (jobs[j].by # None)
          /\ jobs[j].ttl > 0 => jobs[j].st = "leased"

\* lease_one_job serialises the workers: at most one job is leased in the
\* whole installation, whatever expires, crashes or is cancelled meanwhile.
AtMostOneLeased ==
    \A j, k \in JobIds : jobs[j].st = "leased" /\ jobs[k].st = "leased" => j = k

\* A run none of whose jobs was rewritten after it had ended.
Clean(r) == r \notin overwritten

\* The job that a run in a busy state is waiting for.
Drives(j, r) ==
    /\ jobs[j].run = r
    /\ \/ /\ runs[r].state = "preparing"
          /\ jobs[j].type = "prepare"
          /\ jobs[j].st \in ActiveStates
       \/ /\ jobs[j].type \in {"evaluate", "recover-evaluators"}
          /\ \/ runs[r].state = "queued" /\ jobs[j].st = "queued"
             \/ runs[r].state = "evaluating" /\ jobs[j].st = "leased"

\* A run shown as busy has a job that will move it on: no failure, expiry or
\* cancellation, rewriting or not, ends a job and leaves its run behind.
NoOrphanedRun ==
    \A r \in Runs :
        /\ runs[r].state \in {"preparing", "queued", "evaluating"}
              => \E j \in JobIds : Drives(j, r)
        /\ runs[r].stage \in {"queued", "running"} =>
              /\ runs[r].stageJob \in ActiveJobs(r)
              /\ jobs[runs[r].stageJob].type = "agent-stage"

\* Conversely an active job is the only one of a run that shows it: neither the
\* owner's decisions nor another job take the run away from a job that still
\* works, and a job that waits can be leased, so that it does not block the queue.
NoPhantomJob ==
    \A r \in Runs : Clean(r) => \A j \in ActiveJobs(r) :
        /\ IF jobs[j].type = "agent-stage"
           THEN runs[r].stageJob = j /\ runs[r].stage \in {"queued", "running"}
           ELSE Drives(j, r)
        /\ \A k \in ActiveJobs(r) : j = k
        /\ jobs[j].st = "queued" => BoundToRun(j)

\* Every result kept on a run is a result about its current inputs, approved
\* by its owner; the report is about the current measurement, and the review
\* about the current report.
ResultsMatchApproval ==
    \A r \in Runs :
        /\ runs[r].meas # 0 =>
              /\ runs[r].inputs # None
              /\ runs[r].measOf = runs[r].inputs
              /\ runs[r].approval = runs[r].inputs
        /\ runs[r].recs # 0 => runs[r].recsOf = runs[r].meas
        /\ runs[r].review # 0 => runs[r].review = runs[r].recs

\* Fencing: a job becomes completed only by the worker that holds its lease at
\* that moment.  A worker that was cancelled, or whose lease was recovered,
\* while it worked or between its last check and its commit, commits nothing.
CompletedByHolder ==
    \A j \in JobIds : jobs'[j].st = "completed" /\ jobs[j].st # "completed" =>
        \E w \in Workers :
            /\ wk[w].pc = "completing" /\ wk[w].job = j
            /\ jobs[j].st = "leased" /\ jobs[j].by = w
OnlyHoldersComplete == [][CompletedByHolder]_vars

\* A job that has ended never becomes active again: no late renewal of its
\* lease brings it back.
EndedRemainEnded ==
    \A j \in JobIds : jobs[j].st \in TerminalStates => jobs'[j].st \in TerminalStates
EndedJobsStayEnded == [][EndedRemainEnded]_vars

\* An exported run is final: no job, decision or late worker changes it.
ExportedUnchanged ==
    \A r \in Runs : runs[r].state = "exported" /\ r \notin overwritten'
        => runs'[r] = runs[r]
ExportsAreFrozen == [][ExportedUnchanged]_vars

\* The queue implements the abstract life of its jobs.
Lifecycle == INSTANCE JobLifecycle
                WITH Jobs <- JobIds, state <- [j \in JobIds |-> jobs[j].st]
ImplementsLifecycle == Lifecycle!LifecycleSpec

\* As long as one worker is eventually never down, every job that is admitted
\* ends: a crashed holder's lease expires and the surviving worker recovers it,
\* and no job is overtaken for ever.
JobsEnd ==
    (\E w \in Workers : <>[](wk[w].pc # "down"))
        => \A j \in JobIds : jobs[j].st \in ActiveStates ~> jobs[j].st \in TerminalStates

----------------------------------------------------------------------------
(* What the documentation says, and the code does not keep.                *)

\* "Stale workers cannot commit over cancellation": a cancelled job stays so.
CancelledIsFinal ==
    [][\A j \in JobIds : jobs[j].st = "cancelled" => jobs'[j].st = "cancelled"]_vars
=============================================================================
