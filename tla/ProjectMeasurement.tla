------------------------- MODULE ProjectMeasurement -------------------------
(***************************************************************************)
(* The automatic chain of a project measurement: preparation, approval,    *)
(* evaluation, recommendations.  The worker that has finished a job calls  *)
(* reconcile_job for it, and every worker calls it again, before each of   *)
(* its passes, for the evaluations that list_unreconciled_specialist_jobs  *)
(* returns (project_measurements.py, worker.py).  Meanwhile the owner of   *)
(* the run approves, revises, starts, recovers, cancels and exports.       *)
(*                                                                         *)
(* The queue is reduced to what WorkflowQueue shows of it: jobs are leased *)
(* in order, one at a time; a job ends in one step with its run; a lease   *)
(* lapses and is then recovered by the next worker that passes.            *)
(***************************************************************************)
EXTENDS Naturals, FiniteSets

CONSTANTS
    Runs, Workers, None,
    QueueLimit,       \* jobs that may be queued (20 in the code)
    MaxJobs,          \* bound: jobs ever enqueued
    MaxRev            \* bound: revision past which the owner does nothing

ASSUME ConstantsAssumption ==
    /\ None \notin Runs \cup Workers
    /\ QueueLimit \in Nat /\ MaxJobs \in Nat /\ MaxRev \in Nat

JobIds == 1..MaxJobs
JobTypes == {"prepare", "evaluate", "recover-evaluators", "agent-stage"}
ActiveStates == {"queued", "leased", "lapsed"}
JobStates == {"absent", "completed", "failed", "cancelled"} \cup ActiveStates
Results == {"ready", "partial", "failed"}
RunStates == {"draft", "preparing", "awaiting-query-approval", "queued", "evaluating",
              "needs-review", "cancelled", "exported"} \cup Results
StageStates == {"none", "queued", "running", "completed", "failed"}

\* Inputs and measurements are identified by the revision that stored them, 0
\* is "not there".  `approved` names the inputs the approval is bound to.  What
\* a measurement contains is identified by the first revision that stored it:
\* `content` stands for the digest of the measurement, `stageOf` for the
\* input_hash of the stage.
Run == [rev : Nat, state : RunStates, inputs : Nat, approved : Nat, meas : Nat,
        content : Nat, stage : StageStates, stageOf : Nat]

\* `auto` marks a job enqueued by reconcile_job, `source` the evaluation such a
\* stage follows, `want` an evaluation with include_recommendations, and `of`
\* the measurement a stage is about.
Job == [st : JobStates, type : JobTypes, run : Runs \cup {None}, by : Workers \cup {None},
        auto : BOOLEAN, source : Nat, want : BOOLEAN, of : Nat]

Phases == {"pass", "pending", "lease", "work", "read", "approve", "enqueue", "down"}

\* `todo` is what is left of the list of unreconciled jobs, `seen` the run as
\* reconcile_job has read it, and `late` whether it was called for a listed job.
WorkerState == [pc : Phases, job : Nat, todo : SUBSET Nat, seen : Run, late : BOOLEAN]

VARIABLES runs, jobs, nextJob, wk

vars == <<runs, jobs, nextJob, wk>>

----------------------------------------------------------------------------
NewRun == [rev |-> 1, state |-> "draft", inputs |-> 0, approved |-> 0, meas |-> 0,
           content |-> 0, stage |-> "none", stageOf |-> 0]
NoJob == [st |-> "absent", type |-> "prepare", run |-> None, by |-> None,
          auto |-> FALSE, source |-> 0, want |-> FALSE, of |-> 0]
Passing == [pc |-> "pass", job |-> 0, todo |-> {}, seen |-> NewRun, late |-> FALSE]

Init ==
    /\ runs = [r \in Runs |-> NewRun]
    /\ jobs = [j \in JobIds |-> NoJob]
    /\ nextJob = 1
    /\ wk = [w \in Workers |-> Passing]

RunOf(w) == jobs[wk[w].job].run
Active(r) == {j \in JobIds : jobs[j].run = r /\ jobs[j].st \in ActiveStates}
StageJobs(r) == {j \in JobIds : jobs[j].run = r /\ jobs[j].type = "agent-stage"}
Queued == {j \in JobIds : jobs[j].st = "queued"}

Write(r, new) == runs' = [runs EXCEPT ![r] = [new EXCEPT !.rev = runs[r].rev + 1]]
End(j, outcome) == jobs' = [jobs EXCEPT ![j].st = outcome, ![j].by = None]

\* Mutant of Interrupted: the stage is given the state meant for the run.
InterruptedStage(r, j, state) ==
    IF jobs[j].type = "agent-stage" THEN [runs[r] EXCEPT !.stage = state]
                                    ELSE [runs[r] EXCEPT !.state = state]

\* What the end of a job without a result makes of its run.
Interrupted(r, j, state) ==
    IF jobs[j].type = "agent-stage" THEN [runs[r] EXCEPT !.stage = "failed"]
                                    ELSE [runs[r] EXCEPT !.state = state]

----------------------------------------------------------------------------
(* enqueue_job: the run must be at the revision the caller has seen.       *)

HasCapacity == Cardinality(Queued) < QueueLimit
NoActiveStage(r) == \A j \in Active(r) : jobs[j].type # "agent-stage"

\* Mutant of Admissible: the revision is not compared.
AdmissibleAtAnyRevision(r, rev) == NoActiveStage(r) /\ HasCapacity

Admissible(r, rev) == runs[r].rev = rev /\ NoActiveStage(r) /\ HasCapacity

\* The job, and what its admission makes of the run.
Admit(r, job) ==
    /\ nextJob \in JobIds
    /\ jobs' = [jobs EXCEPT ![nextJob] = job]
    /\ nextJob' = nextJob + 1
    /\ Write(r, CASE job.type = "prepare" -> [runs[r] EXCEPT !.state = "preparing"]
                  [] job.type = "agent-stage" -> [runs[r] EXCEPT !.stage = "queued",
                                                                 !.stageOf = runs[r].content]
                  [] OTHER -> [runs[r] EXCEPT !.state = "queued"])

NewJob(r, type) == [NoJob EXCEPT !.st = "queued", !.type = type, !.run = r]
Evaluation(r, want, auto) == [NewJob(r, "evaluate") EXCEPT !.want = want, !.auto = auto]
Stage(r, source, auto) ==
    [NewJob(r, "agent-stage") EXCEPT !.source = source, !.auto = auto, !.of = runs[r].meas]

MayPrepare(r) == runs[r].state = "draft" \/ (runs[r].state = "needs-review" /\ runs[r].inputs = 0)
MayEvaluate(r) == runs[r].state = "awaiting-query-approval" /\ runs[r].approved # 0
MayRecover(r) == runs[r].state \in {"failed", "partial"} /\ runs[r].meas # 0
MayStage(r) == runs[r].state \in {"ready", "partial"} /\ runs[r].meas # 0

----------------------------------------------------------------------------
(* The owner's requests, each made at the revision it has seen.            *)

OwnerEnqueues(r, job) ==
    /\ runs[r].rev < MaxRev
    /\ Admissible(r, runs[r].rev)
    /\ Admit(r, job)
    /\ UNCHANGED wk

Prepare(r) == MayPrepare(r) /\ OwnerEnqueues(r, NewJob(r, "prepare"))
StartEvaluation(r, want) == MayEvaluate(r) /\ OwnerEnqueues(r, Evaluation(r, want, FALSE))
RecoverEvaluators(r) == MayRecover(r) /\ OwnerEnqueues(r, NewJob(r, "recover-evaluators"))

\* retry_recommendations and regenerate_recommendations.
RequestReport(r) == MayStage(r) /\ OwnerEnqueues(r, Stage(r, 0, FALSE))

OwnerWrites(r, new) ==
    /\ runs[r].rev < MaxRev
    /\ NoActiveStage(r)
    /\ Write(r, new)
    /\ UNCHANGED <<jobs, nextJob, wk>>

ApproveQueries(r) ==
    /\ runs[r].state = "awaiting-query-approval" /\ runs[r].inputs # 0
    /\ OwnerWrites(r, [runs[r] EXCEPT !.approved = runs[r].inputs])

ReviseInputs(r) ==
    /\ runs[r].state \in {"awaiting-query-approval", "cancelled", "failed"}
    /\ runs[r].inputs # 0
    /\ OwnerWrites(r, [runs[r] EXCEPT !.inputs = runs[r].rev + 1, !.approved = 0,
                                      !.meas = 0, !.content = 0,
                                      !.state = "awaiting-query-approval"])

Export(r) ==
    /\ runs[r].state \in Results /\ runs[r].meas # 0
    /\ OwnerWrites(r, [runs[r] EXCEPT !.state = "exported"])

CancelJob(j) ==
    /\ jobs[j].st \in ActiveStates
    /\ runs[jobs[j].run].rev < MaxRev
    /\ End(j, "cancelled")
    /\ Write(jobs[j].run, Interrupted(jobs[j].run, j, "cancelled"))
    /\ UNCHANGED <<nextJob, wk>>

----------------------------------------------------------------------------
(* Worker.run_once.                                                        *)

Goto(w, pc) == wk' = [wk EXCEPT ![w].pc = pc]
NextPass(w) == wk' = [wk EXCEPT ![w] = Passing]

\* Mutant of Unreconciled: evaluations only.
UnreconciledEvaluations ==
    {j \in JobIds :
        /\ jobs[j].st = "completed" /\ jobs[j].type = "evaluate" /\ jobs[j].want
        /\ \A k \in StageJobs(jobs[j].run) : jobs[k].source # j}

\* The rows that list_unreconciled_specialist_jobs returns: finished
\* evaluations that want recommendations, and recoveries of runs that once had
\* a stage, without a stage that names them as its source.
Unreconciled ==
    {j \in JobIds :
        /\ jobs[j].st = "completed"
        /\ \/ jobs[j].type = "evaluate" /\ jobs[j].want
           \/ jobs[j].type = "recover-evaluators" /\ StageJobs(jobs[j].run) # {}
        /\ \A k \in StageJobs(jobs[j].run) : jobs[k].source # j}

ListUnreconciled(w) ==
    /\ wk[w].pc = "pass"
    /\ wk' = [wk EXCEPT ![w].pc = "pending", ![w].todo = Unreconciled]
    /\ UNCHANGED <<runs, jobs, nextJob>>

\* The code takes the latest first; nothing here depends on the order.
TakeUnreconciled(w, j) ==
    /\ wk[w].pc = "pending" /\ j \in wk[w].todo
    /\ wk' = [wk EXCEPT ![w].pc = "read", ![w].job = j, ![w].late = TRUE,
                        ![w].todo = wk[w].todo \ {j}]
    /\ UNCHANGED <<runs, jobs, nextJob>>

EndPending(w) ==
    /\ wk[w].pc = "pending" /\ wk[w].todo = {}
    /\ Goto(w, "lease")
    /\ UNCHANGED <<runs, jobs, nextJob>>

RecoverInterrupted(w, j) ==
    /\ wk[w].pc = "lease" /\ jobs[j].st = "lapsed"
    /\ End(j, "failed")
    /\ Write(jobs[j].run, Interrupted(jobs[j].run, j, "needs-review"))
    /\ UNCHANGED <<nextJob, wk>>

LeaseJob(w, j) ==
    LET r == jobs[j].run
    IN  /\ wk[w].pc = "lease"
        /\ \A k \in JobIds : jobs[k].st \notin {"leased", "lapsed"}
        /\ j \in Queued /\ \A k \in Queued : j <= k
        /\ jobs' = [jobs EXCEPT ![j].st = "leased", ![j].by = w]
        /\ CASE jobs[j].type = "prepare" -> UNCHANGED runs
             [] jobs[j].type = "agent-stage" -> Write(r, [runs[r] EXCEPT !.stage = "running"])
             [] OTHER -> Write(r, [runs[r] EXCEPT !.state = "evaluating"])
        /\ wk' = [wk EXCEPT ![w] = [Passing EXCEPT !.pc = "work", !.job = j]]
        /\ UNCHANGED nextJob

LeaseNothing(w) ==
    /\ wk[w].pc = "lease"
    /\ \A k \in JobIds : jobs[k].st # "lapsed"
    /\ Queued = {} \/ \E k \in JobIds : jobs[k].st = "leased"
    /\ NextPass(w)
    /\ UNCHANGED <<runs, jobs, nextJob>>

Holds(w) == jobs[wk[w].job].st = "leased" /\ jobs[wk[w].job].by = w

\* What a finished job stores.  An evaluation searches anew, so nothing was
\* ever measured like it.  A recovery keeps the packets and the completed
\* answers: if the others fail again as they did, and answers were missing when
\* the stage was queued, the measurement is the one the stage is about.
Contents(r, type, state) ==
    {runs[r].rev + 1} \cup
    (IF type = "recover-evaluators" /\ state = "partial" /\ runs[r].stageOf > runs[r].inputs
     THEN {runs[r].stageOf} ELSE {})

\* complete_job; _finished then calls reconcile_job.
Complete(w) ==
    LET j == wk[w].job
        r == RunOf(w)
    IN  /\ wk[w].pc = "work" /\ Holds(w)
        /\ End(j, "completed")
        /\ CASE jobs[j].type = "prepare" ->
                  Write(r, [runs[r] EXCEPT !.inputs = runs[r].rev + 1,
                                           !.state = "awaiting-query-approval"])
             [] jobs[j].type = "agent-stage" -> Write(r, [runs[r] EXCEPT !.stage = "completed"])
             [] OTHER -> \E s \in Results : \E c \in Contents(r, jobs[j].type, s) :
                  Write(r, [runs[r] EXCEPT !.meas = runs[r].rev + 1, !.content = c, !.state = s])
        /\ Goto(w, "read")
        /\ UNCHANGED nextJob

\* fail_job; reconcile_job returns at once for a job that is not completed.
Fail(w) ==
    /\ wk[w].pc = "work" /\ Holds(w)
    /\ End(wk[w].job, "failed")
    /\ Write(RunOf(w), Interrupted(RunOf(w), wk[w].job, "needs-review"))
    /\ NextPass(w)
    /\ UNCHANGED nextJob

LoseLease(w) ==
    /\ wk[w].pc = "work" /\ ~Holds(w)
    /\ NextPass(w)
    /\ UNCHANGED <<runs, jobs, nextJob>>

----------------------------------------------------------------------------
(* reconcile_job.  It reads the run, and each of its two writes goes       *)
(* through only if the run is still at the revision it has read.  Whatever *)
(* exception leaves it is logged and forgotten.                            *)

Return(w) == IF wk[w].late THEN Goto(w, "pending") ELSE NextPass(w)

\* Mutant of Requested: every evaluation is taken to want recommendations.
RequestedAlways(j) == TRUE

\* _reconcile_recommendations: did this job, or an earlier stage, ask for them?
Requested(j) ==
    IF jobs[j].type = "evaluate" THEN jobs[j].want ELSE StageJobs(jobs[j].run) # {}

\* The last stage is not about what the measurement contains.
StageDue(r) == MayStage(r) /\ ~(StageJobs(r) # {} /\ runs[r].stageOf = runs[r].content)

\* Where reconcile_job goes from its read of the run.
Decision(w) ==
    LET j == wk[w].job
        r == RunOf(w)
    IN  CASE jobs[j].type = "prepare" /\ runs[r].state = "awaiting-query-approval" ->
                IF runs[r].approved = 0 THEN "approve" ELSE "enqueue"
          [] jobs[j].type \in {"evaluate", "recover-evaluators"} /\ Requested(j) /\ StageDue(r) ->
                "enqueue"
          [] OTHER -> "return"

ReadRun(w) ==
    /\ wk[w].pc = "read"
    /\ IF Decision(w) = "return" THEN Return(w)
       ELSE wk' = [wk EXCEPT ![w].pc = Decision(w), ![w].seen = runs[RunOf(w)]]
    /\ UNCHANGED <<runs, jobs, nextJob>>

\* coordinator.approve, with the hash of the inputs that were read.
Approve(w) ==
    LET r == RunOf(w)
    IN  /\ wk[w].pc = "approve"
        /\ IF runs[r].rev = wk[w].seen.rev
           THEN /\ Write(r, [runs[r] EXCEPT !.approved = wk[w].seen.inputs])
                /\ wk' = [wk EXCEPT ![w].pc = "enqueue", ![w].seen = runs'[r]]
           ELSE UNCHANGED runs /\ Return(w)
        /\ UNCHANGED <<jobs, nextJob>>

\* The keys are made of the run, or of the source job: one job for each.
KeyTaken(w) ==
    IF jobs[wk[w].job].type = "prepare"
    THEN \E k \in JobIds : jobs[k].run = RunOf(w) /\ jobs[k].type = "evaluate" /\ jobs[k].auto
    ELSE \E k \in StageJobs(RunOf(w)) : jobs[k].source = wk[w].job

Accepted(w) ==
    /\ ~KeyTaken(w)
    /\ Admissible(RunOf(w), wk[w].seen.rev)
    /\ IF jobs[wk[w].job].type = "prepare" THEN MayEvaluate(RunOf(w)) ELSE MayStage(RunOf(w))

EnqueueNext(w) ==
    /\ wk[w].pc = "enqueue" /\ Accepted(w)
    /\ Admit(RunOf(w), IF jobs[wk[w].job].type = "prepare" THEN Evaluation(RunOf(w), TRUE, TRUE)
                                                          ELSE Stage(RunOf(w), wk[w].job, TRUE))
    /\ Return(w)

\* The job exists already, or the request is a Conflict.
EnqueueRefused(w) ==
    /\ wk[w].pc = "enqueue" /\ ~Accepted(w)
    /\ Return(w)
    /\ UNCHANGED <<runs, jobs, nextJob>>

----------------------------------------------------------------------------
\* A lease runs out: its worker is gone, or its heartbeats do not get through.
Lapse(j) ==
    /\ jobs[j].st = "leased"
    /\ jobs' = [jobs EXCEPT ![j].st = "lapsed"]
    /\ UNCHANGED <<runs, nextJob, wk>>

Crash(w) ==
    /\ wk[w].pc # "down"
    /\ wk' = [wk EXCEPT ![w] = [Passing EXCEPT !.pc = "down"]]
    /\ UNCHANGED <<runs, jobs, nextJob>>

Restart(w) ==
    /\ wk[w].pc = "down"
    /\ NextPass(w)
    /\ UNCHANGED <<runs, jobs, nextJob>>

OwnerStep ==
    \/ \E r \in Runs :
          \/ Prepare(r) \/ RecoverEvaluators(r) \/ RequestReport(r)
          \/ \E want \in BOOLEAN : StartEvaluation(r, want)
          \/ ApproveQueries(r) \/ ReviseInputs(r) \/ Export(r)
    \/ \E j \in JobIds : CancelJob(j)

WorkerStep(w) ==
    \/ ListUnreconciled(w) \/ EndPending(w) \/ LeaseNothing(w)
    \/ \E j \in JobIds : TakeUnreconciled(w, j) \/ RecoverInterrupted(w, j) \/ LeaseJob(w, j)
    \/ Complete(w) \/ Fail(w) \/ LoseLease(w)
    \/ ReadRun(w) \/ Approve(w) \/ EnqueueNext(w) \/ EnqueueRefused(w)

Next ==
    \/ OwnerStep
    \/ \E w \in Workers : WorkerStep(w) \/ Crash(w) \/ Restart(w)
    \/ \E j \in JobIds : Lapse(j)

Spec == Init /\ [][Next]_vars

\* A lease nobody works under is not renewed.
Abandoned(j) == \A w \in Workers : ~(wk[w].pc = "work" /\ wk[w].job = j)

Fairness ==
    /\ \A w \in Workers : WF_vars(WorkerStep(w))
    /\ \A j \in JobIds : WF_vars(Abandoned(j) /\ Lapse(j))

FairSpec == Spec /\ Fairness

----------------------------------------------------------------------------
(* PROPERTIES.                                                             *)

\* The types of the variables.
TypeOK ==
    /\ runs \in [Runs -> Run]
    /\ jobs \in [JobIds -> Job]
    /\ nextJob \in 1..(MaxJobs + 1)
    /\ wk \in [Workers -> WorkerState]

\* The same job may be reconciled by its worker, by the next pass of every
\* other one and by its own again: the chain still takes each step once.  A run
\* is evaluated automatically once, and a measurement gets an automatic report
\* only if no stage was ever queued about it, by anybody.
AutomaticOnlyOnce ==
    \A j, k \in JobIds : j # k /\ jobs[j].auto /\ jobs[j].type = jobs[k].type
                               /\ jobs[j].run = jobs[k].run =>
        /\ jobs[j].type = "evaluate" => ~jobs[k].auto
        /\ jobs[j].type = "agent-stage" /\ jobs[k].of = jobs[j].of => j < k

\* A run whose owner has never asked for recommendations, with an evaluation or
\* by a request of their own, gets none.
SpendIsRequested ==
    \A k \in JobIds : jobs[k].type = "agent-stage" /\ jobs[k].auto =>
        \E j \in JobIds : /\ j < k /\ jobs[j].run = jobs[k].run
                          /\ jobs[j].want \/ (jobs[j].type = "agent-stage" /\ ~jobs[j].auto)

SomeWorkerStaysUp == \E w \in Workers : <>[](wk[w].pc # "down")

\* Recommendations that were asked for follow: whichever worker dies before it
\* has reconciled an evaluation or a recovery, a stage is enqueued about what it
\* has measured, unless the last stage is about the same or the owner moves the
\* run on.  (A recovery that measures the same again does take the report away.)
ReportMissing(r) ==
    /\ \E j \in JobIds : jobs[j].run = r /\ jobs[j].st = "completed" /\ jobs[j].want
    /\ StageDue(r)
ReportFollows ==
    SomeWorkerStaysUp => \A r \in Runs :
        ReportMissing(r) /\ nextJob \in JobIds ~> ~ReportMissing(r) \/ nextJob \notin JobIds

----------------------------------------------------------------------------
(* What the documentation says, and the code does not keep.                *)

\* "After successful preparation, the project orchestrator binds approval to
\* the exact prepared input hash and queues evaluation automatically": a run
\* whose preparation is completed is evaluated in the end.
PreparationIsFollowed ==
    SomeWorkerStaysUp => \A j \in JobIds :
        jobs[j].type = "prepare" /\ jobs[j].st = "completed"
            ~> \E k \in JobIds : jobs[k].type = "evaluate" /\ jobs[k].run = jobs[j].run

EvaluationsBefore(k) ==
    {j \in JobIds : j < k /\ jobs[j].run = jobs[k].run
                          /\ jobs[j].type = "evaluate" /\ jobs[j].st = "completed"}

\* "Queue an approved measurement without a hidden recommendation call": an
\* automatic report is about a measurement whose evaluation asked for it.
NoHiddenReport ==
    \A k \in JobIds : jobs[k].type = "agent-stage" /\ jobs[k].auto =>
        \A j \in EvaluationsBefore(k) :
            (\A i \in EvaluationsBefore(k) : i <= j) => jobs[j].want
=============================================================================
