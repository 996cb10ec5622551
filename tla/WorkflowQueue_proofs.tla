------------------------ MODULE WorkflowQueue_proofs ------------------------
(***************************************************************************)
(* Proofs about WorkflowQueue, for any number of runs, workers, requests,  *)
(* jobs and any lease duration: of its jobs and leases, and then of the    *)
(* runs: none is left busy, no job works for a run that does not show it,  *)
(* results are those of approved inputs, and an exported run stays as it   *)
(* is.                                                                     *)
(***************************************************************************)
EXTENDS WorkflowQueue, TLAPS

\* The phases in which a worker process refers to a job.
JobPhases == Phases \ {"recover", "lease", "down"}

\* The phases in which its heartbeat thread may exist.
HeartbeatPhases == {"handle", "work", "ensure-complete", "ensure-fail"}

\* A worker refers to a job that was leased at some time.
WorkersHaveJobs ==
    \A w \in Workers : wk[w].pc \in JobPhases =>
        /\ wk[w].job \in JobIds
        /\ jobs[wk[w].job].st \in {"leased"} \cup TerminalStates

HeartbeatsHaveJobs ==
    \A w \in Workers : hb[w] # "off" => wk[w].pc \in HeartbeatPhases

\* A request cancels a job that was queued at some time.
CancelsHaveJobs ==
    \A c \in Cancellers : cancelling[c] # 0 =>
        cancelling[c] \in JobIds /\ jobs[cancelling[c]].st # "absent"

\* A job is bound to a revision its run has reached.
JobsBehindRuns ==
    \A j \in JobIds : jobs[j].st # "absent" => jobs[j].rev <= runs[jobs[j].run].rev

\* A worker about to complete its job holds the lease as long as the run is at
\* the revision the worker has read: whatever takes the lease moves the run on.
Fence ==
    \A w \in Workers : wk[w].pc = "completing" =>
        LET j == wk[w].job
            r == jobs[j].run
        IN  /\ wk[w].rev <= runs[r].rev
            /\ wk[w].rev = runs[r].rev => jobs[j].st = "leased" /\ jobs[j].by = w

\* The inductive invariant.
IInv ==
    /\ TypeOK
    /\ AtMostOneLeased
    /\ WorkersHaveJobs
    /\ HeartbeatsHaveJobs
    /\ CancelsHaveJobs
    /\ JobsBehindRuns
    /\ Fence

----------------------------------------------------------------------------
(* What the repository helpers do.                                         *)

\* _mutate_run yields a well-formed run, moves its revision on by one and
\* leaves every other run alone.
LEMMA MutateRunEffect ==
    ASSUME TypeOK, NEW r \in Runs, NEW new \in Run, MutateRun(r, new)
    PROVE  /\ runs' \in [Runs -> Run]
           /\ runs'[r].rev = runs[r].rev + 1
           /\ \A q \in Runs : q # r => runs'[q] = runs[q]
           /\ \A q \in Runs : runs'[q].rev >= runs[q].rev
  <1>1. runs \in [Runs -> Run] /\ runs[r].rev \in Nat
    BY DEF TypeOK, Run
  <1>2. [new EXCEPT !.rev = runs[r].rev + 1] \in Run
    BY <1>1 DEF Run
  <1>3. \A q \in Runs : runs[q].rev \in Nat
    BY <1>1 DEF Run
  <1> QED
    BY <1>1, <1>2, <1>3 DEF MutateRun

\* Job numbers are natural numbers.
LEMMA JobIsNat == JobIds \subseteq Nat
  BY ConstantsAssumption DEF JobIds

\* Clearing results yields a well-formed run.
LEMMA WithoutType ==
    ASSUME NEW run \in Run
    PROVE  WithoutReport(run) \in Run /\ WithoutResults(run) \in Run
  <1>1. WithoutReport(run) \in Run
    BY DEF WithoutReport, Run
  <1>2. ASSUME NEW q \in Run PROVE [q EXCEPT !.meas = 0, !.measOf = None] \in Run
    BY DEF Run
  <1> QED BY <1>1, <1>2 DEF WithoutResults

\* The run of a job that was ever admitted is a run, and its owner an owner.
LEMMA JobHasRun ==
    ASSUME TypeOK, NEW j \in JobIds, jobs[j].st # "absent"
    PROVE  jobs[j].run \in Runs
  BY DEF TypeOK, Job

\* Ending a job keeps the rows well formed.
LEMMA FinishEffect ==
    ASSUME TypeOK, NEW j \in JobIds, jobs[j].st # "absent",
           NEW outcome \in TerminalStates, Finish(j, outcome)
    PROVE  /\ jobs' \in [JobIds -> Job]
           /\ jobs'[j] = [jobs[j] EXCEPT !.st = outcome, !.by = None, !.ttl = 0]
           /\ \A k \in JobIds : k # j => jobs'[k] = jobs[k]
           /\ \A k \in JobIds :
                /\ (jobs'[k].st = "absent") <=> (k >= nextJob)
                /\ (jobs'[k].st = "absent") <=> (jobs'[k].run = None)
                /\ (jobs'[k].st = "leased") <=> (jobs'[k].by # None)
                /\ jobs'[k].ttl > 0 => jobs'[k].st = "leased"
  <1> DEFINE ended == [jobs[j] EXCEPT !.st = outcome, !.by = None, !.ttl = 0]
  <1>1. jobs \in [JobIds -> Job] /\ jobs[j] \in Job
    BY DEF TypeOK
  <1>2. jobs' = [jobs EXCEPT ![j] = ended]
    BY <1>1 DEF Finish
  <1>3. ended \in Job
    BY <1>1 DEF Job, JobStates, ActiveStates, TerminalStates
  <1>4. /\ ended.st = outcome /\ ended.by = None /\ ended.ttl = 0
        /\ ended.run = jobs[j].run
    BY <1>1 DEF Job
  <1>5. /\ jobs' \in [JobIds -> Job]
        /\ jobs'[j] = ended
        /\ \A k \in JobIds : k # j => jobs'[k] = jobs[k]
    BY <1>1, <1>2, <1>3
  <1>6. outcome # "absent" /\ outcome # "leased"
    BY DEF TerminalStates
  <1> HIDE DEF ended
  <1>7. ASSUME NEW k \in JobIds
        PROVE  /\ (jobs'[k].st = "absent") <=> (k >= nextJob)
               /\ (jobs'[k].st = "absent") <=> (jobs'[k].run = None)
               /\ (jobs'[k].st = "leased") <=> (jobs'[k].by # None)
               /\ jobs'[k].ttl > 0 => jobs'[k].st = "leased"
    <2>1. CASE k = j
      BY <2>1, <1>4, <1>5, <1>6 DEF TypeOK
    <2>2. CASE k # j
      BY <2>2, <1>5 DEF TypeOK
    <2> QED BY <2>1, <2>2
  <1> QED BY <1>5, <1>7 DEF ended

----------------------------------------------------------------------------
(* Type correctness.                                                       *)

\* The rest of TypeOK, for actions that leave the job rows alone.
LEMMA TypeOKWhenJobsUnchanged ==
    ASSUME TypeOK, runs' \in [Runs -> Run], UNCHANGED <<jobs, nextJob>>,
           wk' \in [Workers -> WorkerState],
           hb' \in [Workers -> {"off", "on", "read", "lost"}],
           age' \in [Workers -> 0..LeaseTicks],
           cancelling' \in [Cancellers -> 0..MaxJobs],
           overwritten' \subseteq Runs
    PROVE  TypeOK'
  BY DEF TypeOK

\* enqueue_job.
LEMMA AdmitType ==
    ASSUME TypeOK, NEW r \in Runs, NEW type \in JobTypes, NEW new \in Run,
           Admit(r, type, new)
    PROVE  TypeOK'
  <1> DEFINE row == [st |-> "queued", type |-> type, run |-> r,
                     rev |-> runs[r].rev + 1, by |-> None, ttl |-> 0]
  <1>1. runs' \in [Runs -> Run]
    BY MutateRunEffect DEF Admit
  <1>2. runs[r].rev \in Nat
    BY DEF TypeOK, Run
  <1>3. row \in Job /\ row.st = "queued" /\ row.run = r /\ row.by = None /\ row.ttl = 0
    BY <1>2 DEF Job, JobStates, ActiveStates
  <1>4. nextJob \in JobIds /\ nextJob' = nextJob + 1 /\ jobs' = [jobs EXCEPT ![nextJob] = row]
    BY DEF Admit
  <1>5. r # None /\ MaxJobs \in Nat
    BY ConstantsAssumption
  <1> HIDE DEF row
  <1>6. jobs' \in [JobIds -> Job] /\ nextJob' \in 1..(MaxJobs + 1)
    BY <1>3, <1>4, <1>5 DEF TypeOK, JobIds
  <1>7. ASSUME NEW k \in JobIds
        PROVE  /\ (jobs'[k].st = "absent") <=> (k >= nextJob')
               /\ (jobs'[k].st = "absent") <=> (jobs'[k].run = None)
               /\ (jobs'[k].st = "leased") <=> (jobs'[k].by # None)
               /\ jobs'[k].ttl > 0 => jobs'[k].st = "leased"
    <2>1. CASE k = nextJob
      BY <2>1, <1>3, <1>4, <1>5 DEF TypeOK, JobIds
    <2>2. CASE k # nextJob
      <3>1. jobs'[k] = jobs[k] /\ (k >= nextJob' <=> k >= nextJob)
        BY <2>2, <1>4, <1>5 DEF TypeOK, JobIds
      <3> QED BY <3>1 DEF TypeOK
    <2> QED BY <2>1, <2>2
  <1> QED BY <1>1, <1>6, <1>7 DEF TypeOK, Admit

\* The mutation of a decision or of an enqueue is a well-formed run.
LEMMA OwnerMutationType ==
    ASSUME TypeOK, NEW r \in Runs, NEW new \in Run, OwnerMutates(r, new)
    PROVE  TypeOK'
  <1>1. runs' \in [Runs -> Run]
    BY MutateRunEffect DEF OwnerMutates
  <1> QED BY <1>1 DEF TypeOK, OwnerMutates

\* Every request of a client is an enqueue or a decision, and what it makes of
\* the run is well formed.
LEMMA ClientCases ==
    ASSUME TypeOK, NEW r \in Runs,
           \/ EnqueuePrepare(r) \/ EnqueueEvaluate(r)
           \/ EnqueueRecovery(r) \/ EnqueueStage(r)
           \/ Approve(r) \/ ReviewRecommendations(r) \/ PersistExport(r)
           \/ \E i \in Inputs : ReviseInputs(r, i)
    PROVE  \E new \in Run : \/ OwnerMutates(r, new)
                            \/ \E type \in JobTypes : Admit(r, type, new)
  <1> DEFINE Goal == \E new \in Run : \/ OwnerMutates(r, new)
                                      \/ \E type \in JobTypes : Admit(r, type, new)
  <1>1. ASSUME EnqueuePrepare(r) PROVE Goal
    <2>1. [runs[r] EXCEPT !.state = "preparing"] \in Run
      BY DEF TypeOK, Run, RunStates
    <2> QED BY <1>1, <2>1 DEF EnqueuePrepare, JobTypes
  <1>2. ASSUME EnqueueEvaluate(r) \/ EnqueueRecovery(r) PROVE Goal
    <2>1. [runs[r] EXCEPT !.state = "queued"] \in Run
      BY DEF TypeOK, Run, RunStates
    <2> QED BY <1>2, <2>1 DEF EnqueueEvaluate, EnqueueRecovery, JobTypes
  <1>3. ASSUME EnqueueStage(r) PROVE Goal
    <2>1. nextJob \in Nat /\ runs[r] \in Run
      BY ConstantsAssumption DEF TypeOK
    <2>2. WithStage(runs[r], "queued", nextJob) \in Run
      BY <2>1 DEF WithStage, Run, StageStates
    <2> QED BY <1>3, <2>2 DEF EnqueueStage, JobTypes
  <1>4. ASSUME Approve(r) PROVE Goal
    <2>1. [runs[r] EXCEPT !.approval = runs[r].inputs] \in Run
      BY DEF TypeOK, Run
    <2> QED BY <1>4, <2>1 DEF Approve
  <1>5. ASSUME ReviewRecommendations(r) PROVE Goal
    <2>1. [runs[r] EXCEPT !.review = runs[r].recs] \in Run
      BY DEF TypeOK, Run
    <2> QED BY <1>5, <2>1 DEF ReviewRecommendations
  <1>6. ASSUME PersistExport(r) PROVE Goal
    <2>1. [runs[r] EXCEPT !.state = "exported"] \in Run
      BY DEF TypeOK, Run, RunStates
    <2> QED BY <1>6, <2>1 DEF PersistExport
  <1>7. ASSUME NEW i \in Inputs, ReviseInputs(r, i) PROVE Goal
    <2> DEFINE cleared == WithoutResults(runs[r])
    <2>1. cleared \in Run
      BY WithoutType DEF TypeOK
    <2> HIDE DEF cleared
    <2>2. [cleared EXCEPT !.inputs = i, !.approval = None,
                          !.state = "awaiting-query-approval"] \in Run
      BY <2>1 DEF Run, RunStates
    <2> QED BY <1>7, <2>2 DEF ReviseInputs, cleared
  <1> QED BY <1>1, <1>2, <1>3, <1>4, <1>5, <1>6, <1>7

\* A request of a client, an API call that cancels a job included, keeps the
\* types.
LEMMA ClientType ==
    ASSUME IInv, ClientStep
    PROVE  TypeOK'
  <1> USE DEF IInv
  <1>1. ASSUME NEW r \in Runs,
               \/ EnqueuePrepare(r) \/ EnqueueEvaluate(r)
               \/ EnqueueRecovery(r) \/ EnqueueStage(r)
               \/ Approve(r) \/ ReviewRecommendations(r) \/ PersistExport(r)
               \/ \E i \in Inputs : ReviseInputs(r, i)
        PROVE  TypeOK'
    BY <1>1, ClientCases, AdmitType, OwnerMutationType
  <1>2. ASSUME NEW c \in Cancellers, CancelCommit(c) PROVE TypeOK'
    <2> DEFINE j == cancelling[c]
               r == jobs[j].run
               new == IF jobs[j].type = "agent-stage"
                      THEN [runs[r] EXCEPT !.stage = "failed"]
                      ELSE [runs[r] EXCEPT !.state = "cancelled"]
    <2>1. j \in JobIds /\ jobs[j].st # "absent" /\ r \in Runs
      BY <1>2, JobHasRun DEF CancelsHaveJobs, CancelCommit
    <2>2. new \in Run
      BY <2>1 DEF TypeOK, Run, RunStates, StageStates
    <2>3. MutateRun(r, new) /\ Finish(j, "cancelled")
      BY <1>2 DEF CancelCommit
    <2> HIDE DEF new
    <2>4. runs' \in [Runs -> Run]
      BY <2>1, <2>2, <2>3, MutateRunEffect
    <2>5. /\ jobs' \in [JobIds -> Job]
          /\ \A k \in JobIds :
                /\ (jobs'[k].st = "absent") <=> (k >= nextJob)
                /\ (jobs'[k].st = "absent") <=> (jobs'[k].run = None)
                /\ (jobs'[k].st = "leased") <=> (jobs'[k].by # None)
                /\ jobs'[k].ttl > 0 => jobs'[k].st = "leased"
      BY <2>1, <2>3, FinishEffect DEF TerminalStates
    <2>6. cancelling' \in [Cancellers -> 0..MaxJobs] /\ overwritten' \subseteq Runs
      BY <1>2, <2>1, ConstantsAssumption DEF CancelCommit, TypeOK
    <2> QED BY <1>2, <2>4, <2>5, <2>6 DEF CancelCommit, TypeOK
  <1>3. ASSUME NEW c \in Cancellers, CancelGivesUp(c) PROVE TypeOK'
    <2>1. cancelling' \in [Cancellers -> 0..MaxJobs]
      BY <1>3, ConstantsAssumption DEF CancelGivesUp, TypeOK
    <2> QED BY <1>3, <2>1 DEF CancelGivesUp, TypeOK
  <1>4. ASSUME NEW c \in Cancellers, NEW j \in JobIds, CancelRead(c, j) PROVE TypeOK'
    <2>1. cancelling' \in [Cancellers -> 0..MaxJobs]
      BY <1>4, ConstantsAssumption DEF CancelRead, TypeOK, JobIds
    <2> QED BY <1>4, <2>1 DEF CancelRead, TypeOK
  <1> QED BY <1>1, <1>2, <1>3, <1>4 DEF ClientStep

\* A worker moves to a phase, becomes idle, or dies.
LEMMA WorkerMoveType ==
    ASSUME TypeOK, NEW w \in Workers
    PROVE  /\ \A pc \in Phases : Goto(w, pc) => wk' \in [Workers -> WorkerState]
           /\ GiveUp(w) => wk' \in [Workers -> WorkerState]
           /\ Die(w) => wk' \in [Workers -> WorkerState]
  <1>1. wk \in [Workers -> WorkerState] /\ wk[w] \in WorkerState
    BY DEF TypeOK
  <1>2. ASSUME NEW pc \in Phases PROVE [wk[w] EXCEPT !.pc = pc] \in WorkerState
    BY <1>1 DEF WorkerState
  <1>3. IdleWorker \in WorkerState /\ [IdleWorker EXCEPT !.pc = "down"] \in WorkerState
    BY DEF IdleWorker, WorkerState, Phases
  <1>4. ASSUME NEW pc \in Phases, Goto(w, pc) PROVE wk' \in [Workers -> WorkerState]
    BY <1>1, <1>2, <1>4 DEF Goto
  <1> QED BY <1>1, <1>3, <1>4 DEF GiveUp, Die

\* A worker that ends its job: it commits a well-formed run and the ended job.
LEMMA EndJobType ==
    ASSUME TypeOK, NEW j \in JobIds, jobs[j].st # "absent",
           NEW new \in Run, MutateRun(jobs[j].run, new),
           NEW outcome \in TerminalStates, Finish(j, outcome),
           wk' \in [Workers -> WorkerState], overwritten' \subseteq Runs,
           UNCHANGED <<nextJob, hb, age, cancelling>>
    PROVE  TypeOK'
  <1>1. runs' \in [Runs -> Run]
    BY JobHasRun, MutateRunEffect
  <1>2. /\ jobs' \in [JobIds -> Job]
        /\ \A k \in JobIds :
              /\ (jobs'[k].st = "absent") <=> (k >= nextJob)
              /\ (jobs'[k].st = "absent") <=> (jobs'[k].run = None)
              /\ (jobs'[k].st = "leased") <=> (jobs'[k].by # None)
              /\ jobs'[k].ttl > 0 => jobs'[k].st = "leased"
    BY FinishEffect
  <1> QED BY <1>1, <1>2 DEF TypeOK

\* The run of an interrupted or failed job is well formed.
LEMMA InterruptedType ==
    ASSUME TypeOK, NEW r \in Runs, NEW j \in JobIds
    PROVE  /\ Interrupted(r, j) \in Run
           /\ [runs[r] EXCEPT !.stage = "failed", !.stageJob = j] \in Run
  <1>1. runs[r] \in Run /\ j \in Nat
    BY JobIsNat DEF TypeOK
  <1>2. Interrupted(r, j) \in Run
    BY <1>1 DEF Interrupted, Run, RunStates, StageStates
  <1>3. [runs[r] EXCEPT !.stage = "failed", !.stageJob = j] \in Run
    BY <1>1 DEF Run, StageStates
  <1> QED BY <1>2, <1>3

\* So are the runs the handlers' mutations produce.
LEMMA ResultType ==
    ASSUME TypeOK, NEW r \in Runs
    PROVE  /\ \A i \in Inputs : Prepared(r, i) \in Run
           /\ \A s \in ResultStates, of \in Inputs \cup {None} : Evaluated(r, s, of) \in Run
           /\ \A j \in JobIds : Recommended(r, j) \in Run
  <1>1. runs[r] \in Run /\ runs[r].rev + 1 \in Nat
    BY DEF TypeOK, Run
  <1>2. ASSUME NEW i \in Inputs PROVE Prepared(r, i) \in Run
    BY <1>1 DEF Prepared, Run, RunStates
  <1>3. ASSUME NEW s \in ResultStates, NEW of \in Inputs \cup {None}
        PROVE  Evaluated(r, s, of) \in Run
    <2> DEFINE cleared == WithoutReport(runs[r])
    <2>1. cleared \in Run
      BY <1>1, WithoutType
    <2> HIDE DEF cleared
    <2>2. [cleared EXCEPT !.state = s, !.meas = runs[r].rev + 1, !.measOf = of] \in Run
      BY <1>1, <2>1 DEF Run, RunStates
    <2> QED BY <2>2 DEF Evaluated, cleared
  <1>4. ASSUME NEW j \in JobIds PROVE Recommended(r, j) \in Run
    <2> DEFINE staged == WithStage(runs[r], "completed", j)
    <2>1. j \in Nat
      BY ConstantsAssumption DEF JobIds
    <2>2. staged \in Run
      BY <1>1, <2>1 DEF WithStage, Run, StageStates
    <2> HIDE DEF staged
    <2>3. runs[r].meas \in Nat
      BY <1>1 DEF Run
    <2>4. [staged EXCEPT !.recs = runs[r].rev + 1, !.recsOf = runs[r].meas,
                         !.review = 0] \in Run
      BY <1>1, <2>2, <2>3 DEF Run
    <2> QED BY <2>4 DEF Recommended, staged
  <1> QED BY <1>2, <1>3, <1>4

\* complete_job writes the run that the mutation of its job type produces.
LEMMA CompleteCommitRun ==
    ASSUME TypeOK, NEW w \in Workers, CompleteCommit(w),
           wk[w].job \in JobIds, jobs[wk[w].job].run \in Runs
    PROVE  \E new \in Run : MutateRun(jobs[wk[w].job].run, new)
  <1> DEFINE j == wk[w].job
  <1>1. wk[w].seenInputs \in Inputs \cup {None}
    BY DEF TypeOK, WorkerState
  <1>2. jobs[j].type \in JobTypes
    BY DEF TypeOK, Job
  <1>3. CASE jobs[j].type = "prepare"
    BY <1>3, ResultType DEF CompleteCommit
  <1>4. CASE jobs[j].type \in {"evaluate", "recover-evaluators"}
    BY <1>1, <1>4, ResultType DEF CompleteCommit
  <1>5. CASE jobs[j].type = "agent-stage"
    BY <1>5, ResultType DEF CompleteCommit
  <1> QED BY <1>2, <1>3, <1>4, <1>5 DEF JobTypes

\* recover_interrupted.
LEMMA RecoverType ==
    ASSUME IInv, NEW w \in Workers,
           \/ \E j \in JobIds : RecoverScan(w, j)
           \/ RecoverNothing(w) \/ RecoverCommit(w) \/ RecoverSkip(w) \/ RecoverConflict(w)
    PROVE  TypeOK'
  <1>1. ASSUME NEW j \in JobIds, RecoverScan(w, j) PROVE TypeOK'
    <2> DEFINE rev == runs[jobs[j].run].rev
               new == [wk[w] EXCEPT !.pc = "recovering", !.job = j, !.rev = rev]
    <2>1. jobs[j].run \in Runs
      BY <1>1, JobHasRun DEF IInv, RecoverScan, Expired
    <2>2. rev \in Nat /\ j \in Nat
      BY <2>1, JobIsNat DEF IInv, TypeOK, Run
    <2> HIDE DEF rev
    <2>3. new \in WorkerState
      BY <2>2 DEF IInv, TypeOK, WorkerState, Phases
    <2>4. wk' = [wk EXCEPT ![w] = new]
      BY <1>1 DEF RecoverScan, IInv, TypeOK, rev
    <2> HIDE DEF new
    <2>5. wk' \in [Workers -> WorkerState]
      BY <2>3, <2>4 DEF IInv, TypeOK
    <2> QED BY <1>1, <2>5 DEF IInv, TypeOK, RecoverScan
  <1>2. ASSUME RecoverNothing(w) \/ RecoverSkip(w) \/ RecoverConflict(w) PROVE TypeOK'
    <2>1. wk' \in [Workers -> WorkerState]
      BY <1>2, WorkerMoveType
         DEF IInv, RecoverNothing, RecoverSkip, RecoverConflict, Phases
    <2> QED BY <1>2, <2>1 DEF IInv, TypeOK, RecoverNothing, RecoverSkip, RecoverConflict
  <1>3. ASSUME RecoverCommit(w) PROVE TypeOK'
    <2> DEFINE j == wk[w].job
    <2>1. j \in JobIds /\ jobs[j].st # "absent"
      BY <1>3 DEF IInv, WorkersHaveJobs, RecoverCommit, JobPhases, Phases, TerminalStates
    <2>2. jobs[j].run \in Runs
      BY <2>1, JobHasRun DEF IInv
    <2>3. Interrupted(jobs[j].run, j) \in Run
      BY <2>1, <2>2, InterruptedType DEF IInv
    <2>4. wk' \in [Workers -> WorkerState]
      BY <1>3, WorkerMoveType DEF IInv, RecoverCommit, Phases
    <2>5. /\ MutateRun(jobs[j].run, Interrupted(jobs[j].run, j))
          /\ Finish(j, "failed")
          /\ UNCHANGED <<nextJob, hb, age, cancelling, overwritten>>
      BY <1>3 DEF RecoverCommit
    <2>6. overwritten' \subseteq Runs
      BY <2>5 DEF IInv, TypeOK
    <2> QED BY <2>1, <2>3, <2>4, <2>5, <2>6, EndJobType DEF IInv, TerminalStates
  <1> QED BY <1>1, <1>2, <1>3

\* lease_one_job.
LEMMA LeaseType ==
    ASSUME IInv, NEW w \in Workers,
           \/ \E j \in JobIds : Lease(w, j) \/ LeaseStale(w, j)
           \/ LeaseNothing(w)
    PROVE  TypeOK'
  <1>1. ASSUME NEW j \in JobIds, Lease(w, j) PROVE TypeOK'
    <2> DEFINE r == jobs[j].run
               rev == IF jobs[j].type = "prepare" THEN runs[r].rev ELSE runs[r].rev + 1
               row == [jobs[j] EXCEPT !.st = "leased", !.by = w, !.rev = rev,
                                      !.ttl = LeaseTicks]
               fresh == [IdleWorker EXCEPT !.pc = "handle", !.job = j]
    <2>1. jobs[j] \in Job /\ jobs[j].st = "queued" /\ r \in Runs
      BY <1>1, JobHasRun DEF IInv, TypeOK, Lease, IsOldestQueued, QueuedJobs
    <2>2. runs[r] \in Run /\ runs[r].rev \in Nat /\ rev \in Nat
      BY <2>1 DEF IInv, TypeOK, Run
    <2>3. Started(r, j) \in Run
      BY <2>2 DEF Started, Run, RunStates, StageStates
    <2>4. runs' \in [Runs -> Run]
      BY <1>1, <2>1, <2>3, MutateRunEffect DEF IInv, TypeOK, Lease
    <2>5. LeaseTicks \in Nat /\ LeaseTicks > 0 /\ w # None
      BY ConstantsAssumption
    <2> HIDE DEF rev
    <2>6. /\ row \in Job
          /\ row.st = "leased" /\ row.by = w /\ row.run = jobs[j].run
      BY <2>1, <2>2, <2>5 DEF Job, JobStates, ActiveStates
    <2>7. jobs' = [jobs EXCEPT ![j] = row]
      BY <1>1 DEF Lease, IInv, TypeOK, rev
    <2> HIDE DEF row
    <2>8. /\ jobs' \in [JobIds -> Job]
          /\ jobs'[j] = row
          /\ \A k \in JobIds : k # j => jobs'[k] = jobs[k]
      BY <2>6, <2>7 DEF IInv, TypeOK
    <2>9. ASSUME NEW k \in JobIds
          PROVE  /\ (jobs'[k].st = "absent") <=> (k >= nextJob)
                 /\ (jobs'[k].st = "absent") <=> (jobs'[k].run = None)
                 /\ (jobs'[k].st = "leased") <=> (jobs'[k].by # None)
                 /\ jobs'[k].ttl > 0 => jobs'[k].st = "leased"
      <3>1. CASE k = j
        BY <3>1, <2>1, <2>5, <2>6, <2>8 DEF IInv, TypeOK
      <3>2. CASE k # j
        BY <3>2, <2>8 DEF IInv, TypeOK
      <3> QED BY <3>1, <3>2
    <2>10. fresh \in WorkerState
      BY JobIsNat DEF IdleWorker, WorkerState, Phases
    <2>11. wk' \in [Workers -> WorkerState]
      BY <1>1, <2>10 DEF IInv, TypeOK, Lease
    <2> HIDE DEF fresh
    <2>12. hb' \in [Workers -> {"off", "on", "read", "lost"}]
      BY <1>1 DEF IInv, TypeOK, Lease
    <2> QED BY <1>1, <2>4, <2>8, <2>9, <2>11, <2>12 DEF IInv, TypeOK, Lease
  <1>2. ASSUME NEW j \in JobIds, LeaseStale(w, j) PROVE TypeOK'
    <2>1. wk' \in [Workers -> WorkerState]
      BY <1>2, WorkerMoveType DEF IInv, LeaseStale
    <2> QED BY <1>2, <2>1 DEF IInv, TypeOK, LeaseStale
  <1>3. ASSUME LeaseNothing(w) PROVE TypeOK'
    <2>1. wk' \in [Workers -> WorkerState]
      BY <1>3, WorkerMoveType DEF IInv, LeaseNothing
    <2> QED BY <1>3, <2>1 DEF IInv, TypeOK, LeaseNothing
  <1> QED BY <1>1, <1>2, <1>3

\* A renewal changes only the remaining time of a lease.
LEMMA RenewType ==
    ASSUME TypeOK, NEW j \in JobIds, jobs[j].st = "leased", NEW t \in Nat,
           jobs' = [jobs EXCEPT ![j].ttl = t], UNCHANGED nextJob
    PROVE  /\ jobs' \in [JobIds -> Job]
           /\ \A k \in JobIds :
                 /\ (jobs'[k].st = "absent") <=> (k >= nextJob')
                 /\ (jobs'[k].st = "absent") <=> (jobs'[k].run = None)
                 /\ (jobs'[k].st = "leased") <=> (jobs'[k].by # None)
                 /\ jobs'[k].ttl > 0 => jobs'[k].st = "leased"
           /\ \A k \in JobIds :
                 /\ jobs'[k].st = jobs[k].st /\ jobs'[k].by = jobs[k].by
                 /\ jobs'[k].rev = jobs[k].rev /\ jobs'[k].run = jobs[k].run
  <1> DEFINE row == [jobs[j] EXCEPT !.ttl = t]
  <1>1. jobs[j] \in Job
    BY DEF TypeOK
  <1>2. /\ row \in Job
        /\ row.st = jobs[j].st /\ row.by = jobs[j].by
        /\ row.rev = jobs[j].rev /\ row.run = jobs[j].run
    BY <1>1 DEF Job
  <1>3. jobs' = [jobs EXCEPT ![j] = row]
    BY DEF TypeOK
  <1> HIDE DEF row
  <1>4. /\ jobs' \in [JobIds -> Job]
        /\ jobs'[j] = row
        /\ \A k \in JobIds : k # j => jobs'[k] = jobs[k]
    BY <1>2, <1>3 DEF TypeOK
  <1>5. \A k \in JobIds :
           /\ jobs'[k].st = jobs[k].st /\ jobs'[k].by = jobs[k].by
           /\ jobs'[k].rev = jobs[k].rev /\ jobs'[k].run = jobs[k].run
    BY <1>2, <1>4
  <1>6. \A k \in JobIds : jobs'[k].ttl > 0 => jobs'[k].st = "leased"
    BY <1>4, <1>5 DEF TypeOK
  <1> QED BY <1>4, <1>5, <1>6 DEF TypeOK

\* The job a heartbeat may renew is one that was admitted.
LEMMA HeartbeatJob ==
    ASSUME IInv, NEW w \in Workers, wk[w].pc \in JobPhases
    PROVE  wk[w].job \in JobIds /\ jobs[wk[w].job].st # "absent"
  BY DEF IInv, WorkersHaveJobs, TerminalStates

\* The handler, its heartbeat thread, and the check before the commit.
LEMMA HandlerType ==
    ASSUME IInv, NEW w \in Workers,
           \/ HandlerRead(w) \/ HandlerEnds(w) \/ HandlerLost(w)
           \/ HeartbeatRead(w) \/ HeartbeatWrite(w)
           \/ EnsureActive(w) \/ EnsureLost(w)
    PROVE  TypeOK'
  <1>1. ASSUME HandlerRead(w) PROVE TypeOK'
    <2> DEFINE r == jobs[wk[w].job].run
               next == IF HandlerAccepts(r, jobs[wk[w].job].type)
                       THEN "work" ELSE "ensure-fail"
               new == [wk[w] EXCEPT !.pc = next, !.seenInputs = runs[r].inputs,
                                    !.seenMeas = runs[r].meas]
    <2>1. r \in Runs
      BY <1>1, HeartbeatJob, JobHasRun DEF IInv, HandlerRead, JobPhases, Phases
    <2>2. runs[r].inputs \in Inputs \cup {None} /\ runs[r].meas \in Nat
      BY <2>1 DEF IInv, TypeOK, Run
    <2>3. wk' = [wk EXCEPT ![w] = new]
      BY <1>1 DEF HandlerRead, IInv, TypeOK
    <2>4. next \in Phases
      BY DEF Phases
    <2> HIDE DEF next, r
    <2>5. new \in WorkerState
      BY <2>2, <2>4 DEF IInv, TypeOK, WorkerState
    <2> HIDE DEF new
    <2>6. wk' \in [Workers -> WorkerState]
      BY <2>3, <2>5 DEF IInv, TypeOK
    <2> QED BY <1>1, <2>6 DEF IInv, TypeOK, HandlerRead
  <1>2. ASSUME HandlerEnds(w) PROVE TypeOK'
    <2>1. wk' \in [Workers -> WorkerState]
      BY <1>2, WorkerMoveType DEF IInv, HandlerEnds, Phases
    <2> QED BY <1>2, <2>1 DEF IInv, TypeOK, HandlerEnds
  <1>3. ASSUME HandlerLost(w) \/ EnsureLost(w) PROVE TypeOK'
    <2>1. wk' \in [Workers -> WorkerState]
      BY <1>3, WorkerMoveType DEF IInv, HandlerLost, EnsureLost
    <2> QED BY <1>3, <2>1 DEF IInv, TypeOK, HandlerLost, EnsureLost
  <1>4. ASSUME HeartbeatRead(w) PROVE TypeOK'
    BY <1>4 DEF IInv, TypeOK, HeartbeatRead
  <1>5. ASSUME HeartbeatWrite(w) PROVE TypeOK'
    <2> DEFINE j == wk[w].job
               t == IF age[w] < LeaseTicks THEN LeaseTicks - age[w] ELSE 0
    <2>1. t \in Nat
      BY ConstantsAssumption DEF IInv, TypeOK
    <2>2. wk[w].pc \in JobPhases
      BY <1>5 DEF IInv, HeartbeatsHaveJobs, HeartbeatWrite, HeartbeatPhases, JobPhases, Phases
    <2>3. j \in JobIds
      BY <2>2, HeartbeatJob
    <2>4. /\ hb' \in [Workers -> {"off", "on", "read", "lost"}]
          /\ age' \in [Workers -> 0..LeaseTicks]
      BY <1>5, ConstantsAssumption DEF IInv, TypeOK, HeartbeatWrite
    <2>5. CASE jobs[j].st = "leased" /\ jobs[j].by = w
      <3>1. jobs' = [jobs EXCEPT ![j].ttl = t]
        BY <1>5, <2>5 DEF HeartbeatWrite
      <3> HIDE DEF t, j
      <3>2. TypeOK /\ UNCHANGED nextJob
        BY <1>5 DEF IInv, HeartbeatWrite
      <3>3. /\ jobs' \in [JobIds -> Job]
            /\ \A k \in JobIds :
                  /\ (jobs'[k].st = "absent") <=> (k >= nextJob')
                  /\ (jobs'[k].st = "absent") <=> (jobs'[k].run = None)
                  /\ (jobs'[k].st = "leased") <=> (jobs'[k].by # None)
                  /\ jobs'[k].ttl > 0 => jobs'[k].st = "leased"
        BY <2>1, <2>3, <2>5, <3>1, <3>2, RenewType
      <3> QED BY <1>5, <2>4, <3>3 DEF IInv, TypeOK, HeartbeatWrite
    <2>6. CASE ~(jobs[j].st = "leased" /\ jobs[j].by = w)
      <3>1. jobs' = jobs
        BY <1>5, <2>6 DEF HeartbeatWrite
      <3> QED BY <1>5, <2>4, <3>1 DEF IInv, TypeOK, HeartbeatWrite
    <2> QED BY <2>5, <2>6
  <1>6. ASSUME EnsureActive(w) PROVE TypeOK'
    <2> DEFINE j == wk[w].job
    <2>1. wk' \in [Workers -> WorkerState]
      BY <1>6, WorkerMoveType DEF IInv, EnsureActive, Phases
    <2>2. j \in JobIds /\ jobs[j].st = "leased" /\ LeaseTicks \in Nat
      BY <1>6, ConstantsAssumption DEF EnsureActive, HoldsLease
    <2>3. jobs' = [jobs EXCEPT ![j].ttl = LeaseTicks]
      BY <1>6 DEF EnsureActive
    <2>4. hb' \in [Workers -> {"off", "on", "read", "lost"}]
      BY <1>6 DEF IInv, TypeOK, EnsureActive
    <2> HIDE DEF j
    <2>5. TypeOK /\ UNCHANGED nextJob
      BY <1>6 DEF IInv, EnsureActive
    <2>6. /\ jobs' \in [JobIds -> Job]
          /\ \A k \in JobIds :
                /\ (jobs'[k].st = "absent") <=> (k >= nextJob')
                /\ (jobs'[k].st = "absent") <=> (jobs'[k].run = None)
                /\ (jobs'[k].st = "leased") <=> (jobs'[k].by # None)
                /\ jobs'[k].ttl > 0 => jobs'[k].st = "leased"
      BY <2>2, <2>3, <2>5, RenewType
    <2> QED BY <1>6, <2>1, <2>4, <2>6 DEF IInv, TypeOK, EnsureActive
  <1> QED BY <1>1, <1>2, <1>3, <1>4, <1>5, <1>6

\* complete_job and fail_job.
LEMMA FinalType ==
    ASSUME IInv, NEW w \in Workers,
           FinalRead(w) \/ CompleteCommit(w) \/ CompleteConflict(w) \/ FailCommit(w)
    PROVE  TypeOK'
  <1> DEFINE j == wk[w].job
             r == jobs[j].run
  <1>1. j \in JobIds /\ jobs[j].st # "absent" /\ r \in Runs
    BY HeartbeatJob, JobHasRun
       DEF IInv, FinalRead, CompleteCommit, CompleteConflict, FailCommit,
           JobPhases, Phases
  <1>2. ASSUME FinalRead(w) PROVE TypeOK'
    <2> DEFINE next == IF wk[w].pc = "complete" THEN "completing" ELSE "failing"
               new == [wk[w] EXCEPT !.pc = next, !.rev = jobs[j].rev]
    <2>1. next \in Phases /\ jobs[j].rev \in Nat
      BY <1>1 DEF Phases, IInv, TypeOK, Job
    <2> HIDE DEF next
    <2>2. new \in WorkerState
      BY <2>1 DEF IInv, TypeOK, WorkerState
    <2>3. wk' = [wk EXCEPT ![w] = new] \/ GiveUp(w)
      BY <1>2 DEF FinalRead, IInv, TypeOK, next
    <2> HIDE DEF new
    <2>4. wk' \in [Workers -> WorkerState]
      BY <2>2, <2>3, WorkerMoveType DEF IInv, TypeOK
    <2> QED BY <1>2, <2>4 DEF IInv, TypeOK, FinalRead
  <1>3. ASSUME CompleteConflict(w) PROVE TypeOK'
    <2>1. wk' \in [Workers -> WorkerState]
      BY <1>3, WorkerMoveType DEF IInv, CompleteConflict
    <2> QED BY <1>3, <2>1 DEF IInv, TypeOK, CompleteConflict
  <1>4. ASSUME CompleteCommit(w) PROVE TypeOK'
    <2>1. PICK new \in Run : MutateRun(r, new)
      BY <1>1, <1>4, CompleteCommitRun DEF IInv
    <2>2. wk' \in [Workers -> WorkerState]
      BY <1>4, WorkerMoveType DEF IInv, CompleteCommit
    <2>3. /\ Finish(j, "completed")
          /\ UNCHANGED <<nextJob, hb, age, cancelling, overwritten>>
      BY <1>4 DEF CompleteCommit
    <2>4. overwritten' \subseteq Runs
      BY <2>3 DEF IInv, TypeOK
    <2> QED BY <1>1, <2>1, <2>2, <2>3, <2>4, EndJobType DEF IInv, TerminalStates
  <1>5. ASSUME FailCommit(w) PROVE TypeOK'
    <2>1. PICK new \in Run : MutateRun(r, new)
      BY <1>1, <1>5, InterruptedType DEF IInv, FailCommit
    <2>2. wk' \in [Workers -> WorkerState]
      BY <1>5, WorkerMoveType DEF IInv, FailCommit
    <2>3. Finish(j, "failed") /\ UNCHANGED <<nextJob, hb, age, cancelling>>
      BY <1>5 DEF FailCommit
    <2>4. overwritten' \subseteq Runs
      BY <1>1, <1>5 DEF IInv, TypeOK, FailCommit
    <2> QED BY <1>1, <2>1, <2>2, <2>3, <2>4, EndJobType DEF IInv, TerminalStates
  <1> QED BY <1>2, <1>3, <1>4, <1>5

\* Process deaths, restarts and time.
LEMMA EnvironmentType ==
    ASSUME IInv, Tick \/ \E w \in Workers : Crash(w) \/ Restart(w)
    PROVE  TypeOK'
  <1>1. ASSUME NEW w \in Workers, Crash(w) PROVE TypeOK'
    <2>1. wk' \in [Workers -> WorkerState]
      BY <1>1, WorkerMoveType DEF IInv, Crash
    <2>2. age' \in [Workers -> 0..LeaseTicks]
      BY <1>1, ConstantsAssumption DEF IInv, TypeOK, Crash
    <2> QED BY <1>1, <2>1, <2>2 DEF IInv, TypeOK, Crash
  <1>2. ASSUME NEW w \in Workers, Restart(w) PROVE TypeOK'
    <2>1. wk' \in [Workers -> WorkerState]
      BY <1>2, WorkerMoveType DEF IInv, Restart
    <2> QED BY <1>2, <2>1 DEF IInv, TypeOK, Restart
  <1>3. ASSUME Tick PROVE TypeOK'
    <2>1. ASSUME NEW k \in JobIds
          PROVE  /\ jobs'[k] \in Job
                 /\ jobs'[k].st = jobs[k].st /\ jobs'[k].run = jobs[k].run
                 /\ jobs'[k].by = jobs[k].by
                 /\ jobs'[k].ttl > 0 => jobs[k].ttl > 0
      <3>1. jobs[k] \in Job /\ jobs[k].ttl \in Nat
        BY DEF IInv, TypeOK, Job
      <3>2. CASE jobs[k].ttl > 0
        <4>1. jobs'[k] = [jobs[k] EXCEPT !.ttl = jobs[k].ttl - 1]
          BY <1>3, <3>2 DEF Tick
        <4>2. jobs[k].ttl - 1 \in Nat
          BY <3>1, <3>2
        <4> QED BY <3>1, <3>2, <4>1, <4>2 DEF Job
      <3>3. CASE ~(jobs[k].ttl > 0)
        BY <1>3, <3>1, <3>3 DEF Tick
      <3> QED BY <3>2, <3>3
    <2>2. jobs' \in [JobIds -> Job]
      BY <1>3, <2>1 DEF Tick
    <2>3. age' \in [Workers -> 0..LeaseTicks]
      BY <1>3, ConstantsAssumption DEF Tick, IInv, TypeOK
    <2> QED BY <1>3, <2>1, <2>2, <2>3 DEF Tick, IInv, TypeOK
  <1> QED BY <1>1, <1>2, <1>3

\* Every step keeps the types.
LEMMA TypeStep ==
    ASSUME IInv, [Next]_vars
    PROVE  TypeOK'
  <1>1. CASE UNCHANGED vars
    BY <1>1 DEF vars, IInv, TypeOK
  <1>2. CASE ClientStep
    BY <1>2, ClientType
  <1>3. CASE Tick \/ \E w \in Workers : Crash(w) \/ Restart(w)
    BY <1>3, EnvironmentType
  <1>4. ASSUME NEW w \in Workers, WorkerStep(w) \/ HeartbeatRead(w) \/ HeartbeatWrite(w)
        PROVE  TypeOK'
    BY <1>4, RecoverType, LeaseType, HandlerType, FinalType DEF WorkerStep
  <1> QED BY <1>1, <1>2, <1>3, <1>4 DEF Next

----------------------------------------------------------------------------
(* What a step does to the job rows, and to the revisions of their runs.   *)

SameRows ==
    \A k \in JobIds :
        /\ jobs'[k].st = jobs[k].st /\ jobs'[k].by = jobs[k].by
        /\ jobs'[k].rev = jobs[k].rev /\ jobs'[k].run = jobs[k].run

RunsAdvance == \A q \in Runs : runs'[q].rev >= runs[q].rev

\* A job is queued on the revision its run moves to.
Queues(j) ==
    /\ j = nextJob /\ nextJob' = nextJob + 1
    /\ jobs[j].st = "absent" /\ jobs'[j].st = "queued" /\ jobs'[j].run \in Runs
    /\ jobs'[j].rev = runs'[jobs'[j].run].rev
    /\ \A k \in JobIds : k # j => jobs'[k] = jobs[k]
    /\ RunsAdvance

\* A queued job is leased to a worker, at the revision its run then has.
Starts(j) ==
    /\ IsOldestQueued(j) /\ NothingLeased
    /\ jobs'[j].st = "leased" /\ jobs'[j].run = jobs[j].run
    /\ jobs'[j].rev = runs'[jobs[j].run].rev
    /\ \A k \in JobIds : k # j => jobs'[k] = jobs[k]
    /\ RunsAdvance

\* A job ends, and its run moves on.
Ends(j, outcome) ==
    /\ jobs'[j].st = outcome /\ jobs'[j].run = jobs[j].run
    /\ jobs'[j].rev = jobs[j].rev
    /\ \A k \in JobIds : k # j => jobs'[k] = jobs[k]
    /\ runs'[jobs[j].run].rev > runs[jobs[j].run].rev
    /\ RunsAdvance

\* The worker that completes a job.
Completes(w, j) ==
    /\ wk[w].pc = "completing" /\ wk[w].job = j
    /\ jobs[j].st = "leased" /\ jobs[j].by = w

JobStep ==
    \/ SameRows /\ RunsAdvance
    \/ \E j \in JobIds : Queues(j)
    \/ \E j \in JobIds : Starts(j)
    \/ \E j \in JobIds : jobs[j].st # "absent" /\ Ends(j, "cancelled")
    \/ \E j \in JobIds :
          jobs[j].st \in {"leased"} \cup TerminalStates /\ Ends(j, "failed")
    \/ \E j \in JobIds : Ends(j, "completed") /\ \E w \in Workers : Completes(w, j)

\* A step that leaves the runs alone moves no revision back.
LEMMA RunsUnchanged ==
    ASSUME TypeOK, UNCHANGED runs
    PROVE  RunsAdvance
  <1>1. \A q \in Runs : runs[q].rev \in Nat
    BY DEF TypeOK, Run
  <1> QED BY <1>1 DEF RunsAdvance

\* A commit that ends a job and writes its run, as complete_job, fail_job,
\* cancel_job and recover_interrupted all do, changes one row and moves on the
\* revision of that run only.
LEMMA EndsJob ==
    ASSUME TypeOK, NEW j \in JobIds, jobs[j].st # "absent",
           NEW new \in Run, MutateRun(jobs[j].run, new),
           NEW outcome \in TerminalStates, Finish(j, outcome)
    PROVE  Ends(j, outcome)
  <1> DEFINE r == jobs[j].run
  <1>1. r \in Runs
    BY JobHasRun
  <1>2. runs'[r].rev = runs[r].rev + 1 /\ RunsAdvance
    BY <1>1, MutateRunEffect DEF RunsAdvance
  <1>3. runs[r].rev \in Nat
    BY <1>1 DEF TypeOK, Run
  <1>4. jobs[j] \in Job
    BY DEF TypeOK
  <1>5. /\ jobs'[j] = [jobs[j] EXCEPT !.st = outcome, !.by = None, !.ttl = 0]
        /\ \A k \in JobIds : k # j => jobs'[k] = jobs[k]
    BY FinishEffect
  <1>6. jobs'[j].st = outcome /\ jobs'[j].run = r /\ jobs'[j].rev = jobs[j].rev
    BY <1>4, <1>5 DEF Job
  <1> QED BY <1>2, <1>3, <1>5, <1>6 DEF Ends

\* enqueue_job adds the next queued job, bound to the revision it makes.
LEMMA AdmitStep ==
    ASSUME TypeOK, NEW r \in Runs, NEW type \in JobTypes, NEW new \in Run,
           Admit(r, type, new)
    PROVE  JobStep
  <1> DEFINE j == nextJob
  <1>1. j \in JobIds /\ nextJob' = j + 1
    BY DEF Admit
  <1>2. jobs[j].st = "absent"
    BY <1>1, ConstantsAssumption DEF TypeOK, JobIds
  <1>3. runs'[r].rev = runs[r].rev + 1 /\ RunsAdvance
    BY MutateRunEffect DEF Admit, RunsAdvance
  <1>4. /\ jobs'[j].st = "queued" /\ jobs'[j].run = r
        /\ jobs'[j].rev = runs[r].rev + 1
        /\ \A k \in JobIds : k # j => jobs'[k] = jobs[k]
    BY <1>1 DEF Admit, TypeOK
  <1>5. Queues(j)
    BY <1>1, <1>2, <1>3, <1>4 DEF Queues
  <1> QED BY <1>1, <1>5 DEF JobStep

\* A decision of the owner changes no job row.
LEMMA OwnerStep ==
    ASSUME TypeOK, NEW r \in Runs, NEW new \in Run, OwnerMutates(r, new)
    PROVE  JobStep
  <1>1. RunsAdvance
    BY MutateRunEffect DEF OwnerMutates, RunsAdvance
  <1>2. SameRows
    BY DEF OwnerMutates, SameRows
  <1> QED BY <1>1, <1>2 DEF JobStep

\* lease_one_job starts the oldest queued job when nothing is leased.
LEMMA LeaseStep ==
    ASSUME IInv, NEW w \in Workers, NEW j \in JobIds, Lease(w, j)
    PROVE  Starts(j)
  <1> DEFINE r == jobs[j].run
             rev == IF jobs[j].type = "prepare" THEN runs[r].rev ELSE runs[r].rev + 1
  <1>1. jobs[j] \in Job /\ jobs[j].st = "queued" /\ r \in Runs
    BY JobHasRun DEF IInv, TypeOK, Lease, IsOldestQueued, QueuedJobs
  <1>2. runs[r] \in Run /\ runs[r].rev \in Nat
    BY <1>1 DEF IInv, TypeOK, Run
  <1>3. Started(r, j) \in Run
    BY <1>2 DEF Started, Run, RunStates, StageStates
  <1>4. RunsAdvance /\ rev = runs'[r].rev
    <2>1. CASE jobs[j].type = "prepare"
      <3>1. UNCHANGED runs
        BY <2>1 DEF Lease
      <3> QED BY <2>1, <3>1, RunsUnchanged DEF IInv
    <2>2. CASE jobs[j].type # "prepare"
      <3>1. MutateRun(r, Started(r, j))
        BY <2>2 DEF Lease
      <3> HIDE DEF r
      <3> QED BY <1>1, <1>3, <2>2, <3>1, MutateRunEffect DEF IInv, RunsAdvance
    <2> QED BY <2>1, <2>2
  <1>5. jobs' = [jobs EXCEPT ![j].st = "leased", ![j].by = w, ![j].rev = rev,
                             ![j].ttl = LeaseTicks]
    BY DEF Lease
  <1> DEFINE row == [jobs[j] EXCEPT !.st = "leased", !.by = w, !.rev = rev,
                                    !.ttl = LeaseTicks]
  <1>6. jobs' = [jobs EXCEPT ![j] = row]
    BY <1>5 DEF IInv, TypeOK
  <1> HIDE DEF rev
  <1>7. row.st = "leased" /\ row.run = r /\ row.rev = rev
    BY <1>1 DEF Job
  <1> HIDE DEF row
  <1>8. /\ jobs'[j].st = "leased" /\ jobs'[j].run = r /\ jobs'[j].rev = rev
        /\ \A k \in JobIds : k # j => jobs'[k] = jobs[k]
    BY <1>6, <1>7 DEF IInv, TypeOK
  <1> QED BY <1>4, <1>8 DEF Starts, Lease

\* complete_job ends a job as completed by the worker the fence lets through.
LEMMA CompleteStep ==
    ASSUME IInv, NEW w \in Workers, CompleteCommit(w)
    PROVE  wk[w].job \in JobIds /\ Ends(wk[w].job, "completed") /\ Completes(w, wk[w].job)
  <1> DEFINE j == wk[w].job
             r == jobs[j].run
  <1>1. wk[w].pc = "completing" /\ runs[r].rev = wk[w].rev /\ Finish(j, "completed")
    BY DEF CompleteCommit, ResultApplies
  <1>2. j \in JobIds /\ jobs[j].st = "leased" /\ jobs[j].by = w
    BY <1>1 DEF IInv, Fence, WorkersHaveJobs, JobPhases, Phases
  <1>3. r \in Runs
    BY <1>2, JobHasRun DEF IInv
  <1>4. PICK new \in Run : MutateRun(r, new)
    BY <1>2, <1>3, CompleteCommitRun DEF IInv
  <1>5. Ends(j, "completed")
    BY <1>1, <1>2, <1>4, EndsJob DEF IInv, TerminalStates
  <1> QED BY <1>1, <1>2, <1>5 DEF Completes

\* The actions of a worker that leave runs alone leave the job rows alone, up
\* to the time a lease has left.
LEMMA RowsKept ==
    ASSUME IInv, NEW w \in Workers,
           \/ \E j \in JobIds : RecoverScan(w, j) \/ LeaseStale(w, j)
           \/ RecoverNothing(w) \/ RecoverSkip(w) \/ RecoverConflict(w)
           \/ LeaseNothing(w) \/ HandlerRead(w) \/ HandlerEnds(w) \/ HandlerLost(w)
           \/ HeartbeatRead(w) \/ HeartbeatWrite(w)
           \/ EnsureActive(w) \/ EnsureLost(w) \/ FinalRead(w) \/ CompleteConflict(w)
           \/ Crash(w) \/ Restart(w)
    PROVE  SameRows /\ UNCHANGED runs
  <1>1. CASE UNCHANGED <<runs, jobs>>
    BY <1>1 DEF SameRows
  <1>2. CASE HeartbeatWrite(w) \/ EnsureActive(w)
    <2> DEFINE j == wk[w].job
    <2>1. CASE jobs' = jobs
      BY <1>2, <2>1 DEF SameRows, HeartbeatWrite, EnsureActive
    <2>2. CASE jobs' # jobs
      <3>1. PICK t \in Nat : jobs' = [jobs EXCEPT ![j].ttl = t]
        <4>1. LeaseTicks \in Nat /\ age[w] \in 0..LeaseTicks
          BY ConstantsAssumption DEF IInv, TypeOK
        <4>2. CASE EnsureActive(w)
          BY <4>1, <4>2 DEF EnsureActive
        <4>3. CASE HeartbeatWrite(w)
          <5> DEFINE t == IF age[w] < LeaseTicks THEN LeaseTicks - age[w] ELSE 0
          <5>1. jobs' = [jobs EXCEPT ![j].ttl = t]
            BY <2>2, <4>3 DEF HeartbeatWrite
          <5>2. t \in Nat
            BY <4>1
          <5> QED BY <5>1, <5>2
        <4> QED BY <1>2, <4>2, <4>3
      <3>2. ASSUME NEW k \in JobIds
            PROVE  /\ jobs'[k].st = jobs[k].st /\ jobs'[k].by = jobs[k].by
                   /\ jobs'[k].rev = jobs[k].rev /\ jobs'[k].run = jobs[k].run
        <4>1. jobs[k] \in Job
          BY DEF IInv, TypeOK
        <4> HIDE DEF j
        <4> QED BY <3>1, <4>1 DEF IInv, TypeOK, Job
      <3> QED BY <1>2, <3>2 DEF SameRows, HeartbeatWrite, EnsureActive
    <2> QED BY <2>1, <2>2
  <1> QED
    BY <1>1, <1>2 DEF RecoverScan, LeaseStale, RecoverNothing, RecoverSkip,
       RecoverConflict, LeaseNothing, HandlerRead, HandlerEnds, HandlerLost,
       HeartbeatRead, EnsureLost, FinalRead, CompleteConflict, Crash, Restart

\* Every step of the system is one of the job steps.
LEMMA JobStepCases ==
    ASSUME IInv, [Next]_vars
    PROVE  JobStep
  <1> USE DEF IInv
  <1>1. CASE UNCHANGED vars
    BY <1>1, RunsUnchanged DEF vars, JobStep, SameRows
  <1>2. CASE Tick
    <2>1. UNCHANGED runs
      BY <1>2 DEF Tick
    <2>2. ASSUME NEW k \in JobIds
          PROVE  /\ jobs'[k].st = jobs[k].st /\ jobs'[k].by = jobs[k].by
                 /\ jobs'[k].rev = jobs[k].rev /\ jobs'[k].run = jobs[k].run
      <3>1. jobs[k] \in Job
        BY DEF TypeOK
      <3>2. jobs'[k] = jobs[k] \/ jobs'[k] = [jobs[k] EXCEPT !.ttl = jobs[k].ttl - 1]
        BY <1>2 DEF Tick
      <3> QED BY <3>1, <3>2 DEF Job
    <2> QED BY <2>1, <2>2, RunsUnchanged DEF JobStep, SameRows
  <1>3. ASSUME NEW w \in Workers, Crash(w) \/ Restart(w) \/ HeartbeatRead(w) \/ HeartbeatWrite(w)
        PROVE  JobStep
    BY <1>3, RowsKept, RunsUnchanged DEF JobStep
  <1>4. ASSUME NEW w \in Workers, WorkerStep(w) PROVE JobStep
    <2>1. ASSUME NEW j \in JobIds, Lease(w, j) PROVE JobStep
      BY <2>1, LeaseStep DEF JobStep
    <2>2. ASSUME CompleteCommit(w) PROVE JobStep
      BY <2>2, CompleteStep DEF JobStep
    <2>3. ASSUME RecoverCommit(w) PROVE JobStep
      <3> DEFINE j == wk[w].job
      <3>1. j \in JobIds /\ jobs[j].st = "leased"
        BY <2>3 DEF WorkersHaveJobs, RecoverCommit, Expired, JobPhases, Phases
      <3>2. jobs[j].run \in Runs
        BY <3>1, JobHasRun
      <3>3. Interrupted(jobs[j].run, j) \in Run
        BY <3>1, <3>2, InterruptedType
      <3>4. MutateRun(jobs[j].run, Interrupted(jobs[j].run, j)) /\ Finish(j, "failed")
        BY <2>3 DEF RecoverCommit
      <3>5. Ends(j, "failed")
        BY <3>1, <3>3, <3>4, EndsJob DEF TerminalStates
      <3> QED BY <3>1, <3>5 DEF JobStep
    <2>4. ASSUME FailCommit(w) PROVE JobStep
      <3> DEFINE j == wk[w].job
      <3>1. j \in JobIds /\ jobs[j].st \in {"leased"} \cup TerminalStates
        BY <2>4 DEF WorkersHaveJobs, FailCommit, JobPhases, Phases
      <3>2. jobs[j].st # "absent"
        BY <3>1 DEF TerminalStates
      <3>3. jobs[j].run \in Runs
        BY <3>1, <3>2, JobHasRun
      <3>4. PICK new \in Run : MutateRun(jobs[j].run, new)
        BY <2>4, <3>1, <3>3, InterruptedType DEF FailCommit
      <3>5. Finish(j, "failed")
        BY <2>4 DEF FailCommit
      <3>6. Ends(j, "failed")
        BY <3>1, <3>2, <3>4, <3>5, EndsJob DEF TerminalStates
      <3> QED BY <3>1, <3>6 DEF JobStep
    <2> QED
      BY <1>4, <2>1, <2>2, <2>3, <2>4, RowsKept, RunsUnchanged DEF WorkerStep, JobStep
  <1>5. ASSUME NEW c \in Cancellers, CancelCommit(c) PROVE JobStep
    <2> DEFINE j == cancelling[c]
               r == jobs[j].run
               new == IF jobs[j].type = "agent-stage"
                      THEN [runs[r] EXCEPT !.stage = "failed"]
                      ELSE [runs[r] EXCEPT !.state = "cancelled"]
    <2>1. j \in JobIds /\ jobs[j].st # "absent" /\ r \in Runs
      BY <1>5, JobHasRun DEF CancelsHaveJobs, CancelCommit
    <2>2. new \in Run
      BY <2>1 DEF TypeOK, Run, RunStates, StageStates
    <2>3. MutateRun(r, new) /\ Finish(j, "cancelled")
      BY <1>5 DEF CancelCommit
    <2> HIDE DEF new
    <2>4. Ends(j, "cancelled")
      BY <2>1, <2>2, <2>3, EndsJob DEF TerminalStates
    <2> QED BY <2>1, <2>4 DEF JobStep
  <1>6. ASSUME NEW c \in Cancellers,
               CancelGivesUp(c) \/ \E j \in JobIds : CancelRead(c, j)
        PROVE  JobStep
    BY <1>6, RunsUnchanged DEF CancelGivesUp, CancelRead, JobStep, SameRows
  <1>7. CASE ClientStep
    BY <1>5, <1>6, <1>7, ClientCases, AdmitStep, OwnerStep DEF ClientStep
  <1> QED BY <1>1, <1>2, <1>3, <1>4, <1>7 DEF Next

----------------------------------------------------------------------------
(* The other parts of the invariant.                                       *)

\* The revisions that the fence compares are natural numbers.
LEMMA RevisionsAreNats ==
    ASSUME TypeOK
    PROVE  /\ \A q \in Runs : runs[q].rev \in Nat
           /\ \A j \in JobIds : jobs[j].rev \in Nat
           /\ \A w \in Workers : wk[w].rev \in Nat
  BY DEF TypeOK, Run, Job, WorkerState

\* A job that was admitted stays admitted, and one that was started never
\* becomes queued again.
LEMMA JobsPersist ==
    ASSUME TypeOK, JobStep, NEW k \in JobIds, jobs[k].st # "absent"
    PROVE  /\ jobs'[k].st # "absent" /\ jobs'[k].run = jobs[k].run
           /\ jobs[k].st \in {"leased"} \cup TerminalStates
                 => jobs'[k].st \in {"leased"} \cup TerminalStates
  BY DEF JobStep, SameRows, Queues, Starts, Ends, TerminalStates, IsOldestQueued, QueuedJobs

\* Mutual exclusion is kept: only lease_one_job leases, and only when nothing is
\* leased.
LEMMA AtMostOneLeasedStep ==
    ASSUME AtMostOneLeased, JobStep
    PROVE  AtMostOneLeased'
  <1>1. CASE SameRows
    BY <1>1 DEF AtMostOneLeased, SameRows
  <1>2. ASSUME NEW j \in JobIds, Queues(j) PROVE AtMostOneLeased'
    BY <1>2 DEF AtMostOneLeased, Queues
  <1>3. ASSUME NEW j \in JobIds, Starts(j) PROVE AtMostOneLeased'
    BY <1>3 DEF AtMostOneLeased, Starts, NothingLeased
  <1>4. ASSUME NEW j \in JobIds, NEW outcome \in TerminalStates, Ends(j, outcome)
        PROVE  AtMostOneLeased'
    BY <1>4 DEF AtMostOneLeased, Ends, TerminalStates
  <1> QED BY <1>1, <1>2, <1>3, <1>4 DEF JobStep, TerminalStates

\* No job is bound to a revision its run has yet to reach.
LEMMA JobsBehindRunsStep ==
    ASSUME TypeOK, TypeOK', JobsBehindRuns, JobStep
    PROVE  JobsBehindRuns'
  <1> SUFFICES ASSUME NEW k \in JobIds, jobs'[k].st # "absent"
               PROVE  jobs'[k].rev <= runs'[jobs'[k].run].rev
    BY DEF JobsBehindRuns
  <1>1. RunsAdvance
    BY DEF JobStep, Queues, Starts, Ends
  <1>2. jobs'[k].run \in Runs
    BY DEF TypeOK, Job
  <1>3. CASE jobs'[k].rev = jobs[k].rev /\ jobs'[k].run = jobs[k].run /\ jobs[k].st # "absent"
    BY <1>1, <1>2, <1>3, RevisionsAreNats DEF JobsBehindRuns, RunsAdvance, TypeOK, Run
  <1>4. CASE jobs'[k].rev = runs'[jobs'[k].run].rev
    BY <1>2, <1>4 DEF TypeOK, Run
  <1> QED
    BY <1>3, <1>4 DEF JobStep, SameRows, Queues, Starts, Ends, Completes, IsOldestQueued,
       QueuedJobs, TerminalStates

\* What a step does to a worker.
WorkerMove(w) ==
    \/ wk'[w].pc \notin JobPhases
    \/ wk'[w].pc = wk[w].pc /\ wk'[w].job = wk[w].job /\ wk'[w].rev = wk[w].rev
    \/ /\ wk[w].pc \in JobPhases /\ wk'[w].job = wk[w].job
       /\ wk'[w].pc # "completing"
    \/ /\ wk'[w].job \in JobIds /\ jobs'[wk'[w].job].st = "leased"
       /\ wk'[w].pc # "completing"
    \/ /\ HoldsLease(w, wk[w].job)
       /\ wk'[w].job = wk[w].job /\ wk'[w].rev = jobs[wk[w].job].rev
       /\ UNCHANGED <<runs, jobs>>

\* A worker past lease_one_job has a job that was started.
LEMMA WorkersHaveJobsStep ==
    ASSUME TypeOK, WorkersHaveJobs, JobStep, NEW w \in Workers, WorkerMove(w),
           wk'[w].pc \in JobPhases
    PROVE  /\ wk'[w].job \in JobIds
           /\ jobs'[wk'[w].job].st \in {"leased"} \cup TerminalStates
  <1>1. CASE wk'[w].job = wk[w].job /\ wk[w].pc \in JobPhases
    BY <1>1, JobsPersist DEF WorkersHaveJobs, TerminalStates
  <1>2. CASE HoldsLease(w, wk[w].job) /\ wk'[w].job = wk[w].job
    BY <1>2, JobsPersist DEF HoldsLease
  <1> QED BY <1>1, <1>2 DEF WorkerMove

\* The fence is kept: a job that loses its lease moves on the revision of its run,
\* so the revision a late worker read no longer matches.
LEMMA FenceStep ==
    ASSUME TypeOK, TypeOK', WorkersHaveJobs, JobsBehindRuns, Fence, JobStep,
           NEW w \in Workers, WorkerMove(w), wk'[w].pc = "completing"
    PROVE  LET j == wk'[w].job
               r == jobs'[j].run
           IN  /\ wk'[w].rev <= runs'[r].rev
               /\ wk'[w].rev = runs'[r].rev => jobs'[j].st = "leased" /\ jobs'[j].by = w
  <1> DEFINE j == wk[w].job
             r == jobs[j].run
  <1>1. CASE /\ HoldsLease(w, j) /\ wk'[w].job = j /\ wk'[w].rev = jobs[j].rev
             /\ UNCHANGED <<runs, jobs>>
    BY <1>1 DEF HoldsLease, JobsBehindRuns
  <1>2. CASE wk[w].pc = "completing" /\ wk'[w].job = j /\ wk'[w].rev = wk[w].rev
    <2>1. j \in JobIds /\ jobs[j].st \in {"leased"} \cup TerminalStates
      BY <1>2 DEF WorkersHaveJobs, JobPhases, Phases
    <2>2. r \in Runs /\ jobs'[j].run = r
      BY <2>1, JobHasRun, JobsPersist DEF TerminalStates
    <2>3. runs[r].rev \in Nat /\ runs'[r].rev \in Nat /\ wk[w].rev \in Nat
      BY <2>2 DEF TypeOK, Run, WorkerState
    <2>4. wk[w].rev <= runs[r].rev /\ runs'[r].rev >= runs[r].rev
      BY <1>2, <2>2 DEF Fence, JobStep, Queues, Starts, Ends, RunsAdvance
    <2>5. CASE runs'[r].rev > runs[r].rev
      BY <1>2, <2>2, <2>3, <2>4, <2>5
    <2>6. CASE runs'[r].rev = runs[r].rev
      <3>1. CASE jobs'[j].st = jobs[j].st /\ jobs'[j].by = jobs[j].by
        BY <1>2, <2>2, <2>4, <2>6, <3>1 DEF Fence
      <3>2. ~\E outcome \in TerminalStates : Ends(j, outcome)
        BY <2>3, <2>6 DEF Ends
      <3> QED
        BY <2>1, <3>1, <3>2 DEF JobStep, SameRows, Queues, Starts, Ends, IsOldestQueued,
           QueuedJobs, TerminalStates
    <2> QED BY <2>3, <2>4, <2>5, <2>6
  <1> QED BY <1>1, <1>2 DEF WorkerMove, JobPhases, Phases

\* Every step moves each worker in one of these ways, and its heartbeat thread
\* does not outlive the phases it is started for.
LEMMA WorkerMoveCases ==
    ASSUME IInv, [Next]_vars, NEW w \in Workers
    PROVE  WorkerMove(w) /\ (hb'[w] # "off" => wk'[w].pc \in HeartbeatPhases)
  <1> DEFINE Goal == WorkerMove(w) /\ (hb'[w] # "off" => wk'[w].pc \in HeartbeatPhases)
  <1> USE DEF IInv
  <1>1. wk \in [Workers -> WorkerState] /\ hb \in [Workers -> {"off", "on", "read", "lost"}]
    BY DEF TypeOK
  <1>2. hb[w] # "off" => wk[w].pc \in HeartbeatPhases
    BY DEF HeartbeatsHaveJobs
  <1>3. CASE wk'[w] = wk[w] /\ hb'[w] = hb[w]
    BY <1>2, <1>3 DEF WorkerMove
  <1>4. ASSUME RecoverNothing(w) \/ LeaseNothing(w) \/ Restart(w) \/ Crash(w)
               \/ HandlerLost(w) \/ EnsureLost(w) \/ RecoverSkip(w) \/ RecoverConflict(w)
               \/ RecoverCommit(w) \/ CompleteConflict(w) \/ CompleteCommit(w)
               \/ FailCommit(w) \/ \E j \in JobIds : LeaseStale(w, j)
        PROVE  Goal
    <2>1. wk'[w].pc \in {"recover", "lease", "down"}
      <3>1. Goto(w, "lease") \/ GiveUp(w) \/ Die(w)
        BY <1>4 DEF RecoverNothing, LeaseNothing, Restart, Crash, HandlerLost, EnsureLost,
           RecoverSkip, RecoverConflict, RecoverCommit, CompleteConflict, CompleteCommit,
           FailCommit, LeaseStale
      <3>2. CASE Goto(w, "lease")
        BY <1>1, <3>2 DEF Goto, WorkerState
      <3>3. CASE GiveUp(w)
        BY <1>1, <3>3 DEF GiveUp, IdleWorker
      <3>4. CASE Die(w)
        BY <1>1, <3>4 DEF Die, IdleWorker
      <3> QED BY <3>1, <3>2, <3>3, <3>4
    <2>2. hb'[w] = "off"
      BY <1>1, <1>2, <1>4 DEF RecoverNothing, LeaseNothing, Restart, Crash, HandlerLost,
         EnsureLost, RecoverSkip, RecoverConflict, RecoverCommit, CompleteConflict,
         CompleteCommit, FailCommit, LeaseStale, HeartbeatPhases
    <2> QED BY <2>1, <2>2 DEF WorkerMove, JobPhases
  <1>5. ASSUME NEW j \in JobIds, RecoverScan(w, j) PROVE Goal
    <2>1. wk'[w].pc = "recovering" /\ wk'[w].job = j
      BY <1>1, <1>5 DEF RecoverScan, WorkerState
    <2>2. jobs'[j].st = "leased" /\ hb'[w] = "off"
      BY <1>1, <1>2, <1>5 DEF RecoverScan, Expired, HeartbeatPhases
    <2> QED BY <2>1, <2>2 DEF WorkerMove
  <1>6. ASSUME NEW j \in JobIds, Lease(w, j) PROVE Goal
    <2>1. wk'[w].pc = "handle" /\ wk'[w].job = j
      BY <1>1, <1>6 DEF Lease, IdleWorker, WorkerState
    <2>2. jobs'[j].st = "leased"
      BY <1>6, LeaseStep DEF Starts
    <2> QED BY <2>1, <2>2 DEF WorkerMove, HeartbeatPhases
  <1>7. ASSUME HandlerRead(w) \/ HandlerEnds(w) \/ EnsureActive(w) PROVE Goal
    <2>1. wk[w].pc \in JobPhases /\ wk'[w].job = wk[w].job
      BY <1>1, <1>7 DEF HandlerRead, HandlerEnds, EnsureActive, Goto, WorkerState,
         JobPhases, Phases
    <2>2. wk'[w].pc \in {"work", "ensure-fail", "ensure-complete", "complete", "fail"}
      BY <1>1, <1>7 DEF HandlerRead, HandlerEnds, EnsureActive, Goto, WorkerState
    <2>3. wk'[w].pc \in {"complete", "fail"} => hb'[w] = "off"
      BY <1>1, <1>7 DEF HandlerRead, HandlerEnds, EnsureActive, Goto, WorkerState
    <2> QED BY <2>1, <2>2, <2>3 DEF WorkerMove, HeartbeatPhases
  <1>8. ASSUME HeartbeatRead(w) \/ HeartbeatWrite(w) PROVE Goal
    <2>1. wk' = wk /\ hb[w] # "off"
      BY <1>8 DEF HeartbeatRead, HeartbeatWrite
    <2> QED BY <1>2, <2>1 DEF WorkerMove
  <1>9. ASSUME FinalRead(w) PROVE Goal
    <2>1. hb'[w] = "off" /\ UNCHANGED <<runs, jobs>>
      BY <1>1, <1>2, <1>9 DEF FinalRead, HeartbeatPhases
    <2>2. CASE HoldsLease(w, wk[w].job)
      <3>1. wk'[w].job = wk[w].job /\ wk'[w].rev = jobs[wk[w].job].rev
        BY <1>1, <1>9, <2>2 DEF FinalRead, WorkerState
      <3> QED BY <2>1, <2>2, <3>1 DEF WorkerMove
    <2>3. CASE ~HoldsLease(w, wk[w].job)
      <3>1. wk'[w].pc = "recover"
        BY <1>1, <1>9, <2>3 DEF FinalRead, GiveUp, IdleWorker, WorkerState
      <3> QED BY <2>1, <3>1 DEF WorkerMove, JobPhases
    <2> QED BY <2>2, <2>3
  <1>10. ASSUME NEW v \in Workers, v # w,
                WorkerStep(v) \/ HeartbeatRead(v) \/ HeartbeatWrite(v) \/ Crash(v) \/ Restart(v)
         PROVE  wk'[w] = wk[w] /\ hb'[w] = hb[w]
    BY <1>1, <1>10 DEF WorkerStep, HeartbeatRead, HeartbeatWrite, Crash, Restart,
       RecoverScan, Lease, LeaseStale, RecoverNothing, RecoverCommit, RecoverSkip,
       RecoverConflict, LeaseNothing, HandlerRead, HandlerEnds, HandlerLost, EnsureActive,
       EnsureLost, FinalRead, CompleteCommit, CompleteConflict, FailCommit, Goto, GiveUp, Die
  <1>11. ASSUME ClientStep \/ Tick \/ UNCHANGED vars
         PROVE  wk'[w] = wk[w] /\ hb'[w] = hb[w]
    BY <1>11 DEF ClientStep, Tick, vars, EnqueuePrepare, EnqueueEvaluate, EnqueueRecovery,
       EnqueueStage, Approve, ReviewRecommendations, PersistExport, ReviseInputs, Admit,
       OwnerMutates, CancelCommit, CancelGivesUp, CancelRead
  <1> QED
    BY <1>3, <1>4, <1>5, <1>6, <1>7, <1>8, <1>9, <1>10, <1>11 DEF Next, WorkerStep

\* A pending cancel_job is about a job that was admitted.
LEMMA CancelsHaveJobsStep ==
    ASSUME IInv, [Next]_vars, JobStep
    PROVE  CancelsHaveJobs'
  <1> SUFFICES ASSUME NEW c \in Cancellers, cancelling'[c] # 0
               PROVE  cancelling'[c] \in JobIds /\ jobs'[cancelling'[c]].st # "absent"
    BY DEF CancelsHaveJobs
  <1>1. CASE cancelling'[c] = cancelling[c]
    BY <1>1, JobsPersist DEF IInv, CancelsHaveJobs
  <1>2. ASSUME NEW d \in Cancellers, NEW j \in JobIds, CancelRead(d, j)
        PROVE  \/ cancelling'[c] = cancelling[c]
               \/ cancelling'[c] = j /\ j \in JobIds /\ jobs'[j].st # "absent"
    BY <1>2 DEF CancelRead, IInv, TypeOK, ActiveStates
  <1>3. ASSUME NEW d \in Cancellers, CancelGivesUp(d) \/ CancelCommit(d)
        PROVE  cancelling'[c] = cancelling[c]
    BY <1>3 DEF CancelGivesUp, CancelCommit, IInv, TypeOK
  <1>4. ASSUME NEW r \in Runs,
               \/ EnqueuePrepare(r) \/ EnqueueEvaluate(r)
               \/ EnqueueRecovery(r) \/ EnqueueStage(r)
               \/ Approve(r) \/ ReviewRecommendations(r) \/ PersistExport(r)
               \/ \E i \in Inputs : ReviseInputs(r, i)
        PROVE  UNCHANGED cancelling
    BY <1>4 DEF EnqueuePrepare, EnqueueEvaluate, EnqueueRecovery, EnqueueStage, Approve,
       ReviewRecommendations, PersistExport, ReviseInputs, Admit, OwnerMutates
  <1>5. ASSUME NEW w \in Workers,
               WorkerStep(w) \/ HeartbeatRead(w) \/ HeartbeatWrite(w) \/ Crash(w) \/ Restart(w)
        PROVE  UNCHANGED cancelling
    BY <1>5 DEF WorkerStep, HeartbeatRead, HeartbeatWrite, Crash, Restart,
       RecoverScan, Lease, LeaseStale, RecoverNothing, RecoverCommit, RecoverSkip,
       RecoverConflict, LeaseNothing, HandlerRead, HandlerEnds, HandlerLost, EnsureActive,
       EnsureLost, FinalRead, CompleteCommit, CompleteConflict, FailCommit
  <1> QED
    BY <1>1, <1>2, <1>3, <1>4, <1>5 DEF Next, ClientStep, Tick, vars

----------------------------------------------------------------------------
(* The invariance theorems.                                                *)

\* The invariant holds of the empty installation.
LEMMA InitInvariant == Init => IInv
  <1> SUFFICES ASSUME Init PROVE IInv
    OBVIOUS
  <1>1. NewRun \in Run /\ NoJob \in Job /\ IdleWorker \in WorkerState
    BY DEF NewRun, Run, RunStates, StageStates, NoJob, Job, JobStates, JobTypes,
       IdleWorker, WorkerState, Phases
  <1>2. nextJob \in 1..(MaxJobs + 1) /\ 0 \in 0..LeaseTicks /\ 0 \in 0..MaxJobs
    BY ConstantsAssumption DEF Init
  <1>3. \A j \in JobIds : jobs[j] = NoJob /\ j >= nextJob
    BY ConstantsAssumption DEF Init, JobIds
  <1>4. TypeOK
    BY <1>1, <1>2, <1>3 DEF Init, TypeOK, NoJob
  <1>5. \A w \in Workers : wk[w].pc \notin JobPhases /\ hb[w] = "off"
    BY DEF Init, IdleWorker, JobPhases
  <1>6. \A c \in Cancellers : cancelling[c] = 0
    BY DEF Init
  <1> QED
    BY <1>3, <1>4, <1>5, <1>6 DEF IInv, AtMostOneLeased, WorkersHaveJobs, HeartbeatsHaveJobs,
       CancelsHaveJobs, JobsBehindRuns, Fence, NoJob, JobPhases, Phases

\* Every step of the queue keeps the invariant.
LEMMA StepInvariant == IInv /\ [Next]_vars => IInv'
  <1> SUFFICES ASSUME IInv, [Next]_vars PROVE IInv'
    OBVIOUS
  <1>1. TypeOK' /\ JobStep
    BY TypeStep, JobStepCases
  <1>2. \A w \in Workers :
           WorkerMove(w) /\ (hb'[w] # "off" => wk'[w].pc \in HeartbeatPhases)
    BY WorkerMoveCases
  <1>3. AtMostOneLeased'
    BY <1>1, AtMostOneLeasedStep DEF IInv
  <1>4. WorkersHaveJobs'
    BY <1>1, <1>2, WorkersHaveJobsStep DEF IInv, WorkersHaveJobs
  <1>5. HeartbeatsHaveJobs'
    BY <1>2 DEF HeartbeatsHaveJobs
  <1>6. CancelsHaveJobs'
    BY <1>1, CancelsHaveJobsStep
  <1>7. JobsBehindRuns'
    BY <1>1, JobsBehindRunsStep DEF IInv
  <1>8. Fence'
    BY <1>1, <1>2, FenceStep DEF IInv, Fence
  <1> QED BY <1>1, <1>3, <1>4, <1>5, <1>6, <1>7, <1>8 DEF IInv

\* The inductive invariant holds in every reachable state of the queue: the types,
\* mutual exclusion, what workers and requests remember of jobs, and the fence
\* between the lease of a job and the revision of its run.
THEOREM InvariantHolds == Spec => []IInv
  BY InitInvariant, StepInvariant, PTL DEF Spec

\* Every reachable state of the queue is well formed.
THEOREM TypeCorrect == Spec => []TypeOK
  <1>1. IInv => TypeOK
    BY DEF IInv
  <1> QED BY <1>1, InvariantHolds, PTL

\* However many workers run, crash and restart, at most one job is leased.
THEOREM MutualExclusion == Spec => []AtMostOneLeased
  <1>1. IInv => AtMostOneLeased
    BY DEF IInv
  <1> QED BY <1>1, InvariantHolds, PTL

\* Fencing: only the worker that holds the lease of a job completes it.
THEOREM Fencing == Spec => OnlyHoldersComplete
  <1>1. IInv /\ [Next]_vars => [CompletedByHolder]_vars
    <2> SUFFICES ASSUME IInv, [Next]_vars PROVE CompletedByHolder
      OBVIOUS
    <2>1. JobStep
      BY JobStepCases
    <2>2. \A j \in JobIds, w \in Workers : Completes(w, j) =>
             wk[w].pc = "completing" /\ wk[w].job = j /\ jobs[j].st = "leased" /\ jobs[j].by = w
      BY DEF Completes
    <2> QED
      BY <2>1, <2>2 DEF CompletedByHolder, JobStep, SameRows, Queues, Starts, Ends
  <1> QED BY <1>1, InvariantHolds, PTL DEF Spec, OnlyHoldersComplete

\* No late renewal or commit makes a job active that has ended.
THEOREM EndIsFinal == Spec => EndedJobsStayEnded
  <1>1. IInv /\ [Next]_vars => [EndedRemainEnded]_vars
    <2> SUFFICES ASSUME IInv, [Next]_vars PROVE EndedRemainEnded
      OBVIOUS
    <2>1. JobStep
      BY JobStepCases
    <2> QED
      BY <2>1 DEF EndedRemainEnded, JobStep, SameRows, Queues, Starts, Ends, IsOldestQueued,
         QueuedJobs, TerminalStates
  <1> QED BY <1>1, InvariantHolds, PTL DEF Spec, EndedJobsStayEnded

----------------------------------------------------------------------------
(* The queue implements the abstract life of its jobs.                     *)

\* A step of the queue is a step of the abstract life of its jobs, or a stutter.
LEMMA LifecycleStep ==
    ASSUME IInv, JobStep
    PROVE  [Lifecycle!LifecycleNext]_([j \in JobIds |-> jobs[j].st])
  <1> DEFINE st == [j \in JobIds |-> jobs[j].st]
             stNext == [j \in JobIds |-> jobs'[j].st]
  <1>1. CASE SameRows
    <2>1. stNext = st
      BY <1>1 DEF SameRows
    <2> QED BY <2>1
  <1>2. ASSUME NEW j \in JobIds, Queues(j) PROVE Lifecycle!Queue(j)
    <2>1. st[j] = "absent" /\ stNext = [st EXCEPT ![j] = "queued"]
      BY <1>2 DEF Queues
    <2>2. \A k \in JobIds : k < j => st[k] # "absent"
      BY <1>2, ConstantsAssumption DEF Queues, IInv, TypeOK, JobIds
    <2> QED BY <2>1, <2>2 DEF Lifecycle!Queue
  <1>3. ASSUME NEW j \in JobIds, Starts(j) PROVE Lifecycle!Start(j)
    <2>1. st[j] = "queued" /\ stNext = [st EXCEPT ![j] = "leased"]
      BY <1>3 DEF Starts, IsOldestQueued, QueuedJobs
    <2>2. /\ \A k \in JobIds : st[k] # "leased"
          /\ \A k \in JobIds : st[k] = "queued" => j <= k
      BY <1>3 DEF Starts, NothingLeased, IsOldestQueued, QueuedJobs
    <2> QED BY <2>1, <2>2 DEF Lifecycle!Start
  <1>4. ASSUME NEW j \in JobIds, NEW outcome \in TerminalStates, Ends(j, outcome)
        PROVE  stNext = [st EXCEPT ![j] = outcome]
    BY <1>4 DEF Ends
  <1>5. ASSUME NEW j \in JobIds, jobs[j].st # "absent", Ends(j, "cancelled")
        PROVE  Lifecycle!Cancel(j) \/ Lifecycle!Rewrite(j, "cancelled")
    <2>1. stNext = [st EXCEPT ![j] = "cancelled"]
      BY <1>4, <1>5 DEF TerminalStates
    <2>2. st[j] \in {"queued", "leased"} \cup TerminalStates
      BY <1>5 DEF IInv, TypeOK, Job, JobStates, ActiveStates
    <2> QED BY <2>1, <2>2 DEF Lifecycle!Cancel, Lifecycle!Rewrite, Lifecycle!Ended,
               TerminalStates
  <1>6. ASSUME NEW j \in JobIds, jobs[j].st \in {"leased"} \cup TerminalStates,
               Ends(j, "failed")
        PROVE  Lifecycle!Finish(j, "failed") \/ Lifecycle!Rewrite(j, "failed")
    <2>1. stNext = [st EXCEPT ![j] = "failed"]
      BY <1>4, <1>6 DEF TerminalStates
    <2> QED BY <1>6, <2>1 DEF Lifecycle!Finish, Lifecycle!Rewrite, Lifecycle!Ended,
               TerminalStates
  <1>7. ASSUME NEW j \in JobIds, NEW w \in Workers, Ends(j, "completed"), Completes(w, j)
        PROVE  Lifecycle!Finish(j, "completed")
    <2>1. stNext = [st EXCEPT ![j] = "completed"] /\ st[j] = "leased"
      BY <1>4, <1>7 DEF TerminalStates, Completes
    <2> QED BY <2>1 DEF Lifecycle!Finish
  <1> QED
    BY <1>1, <1>2, <1>3, <1>5, <1>6, <1>7
       DEF JobStep, Lifecycle!LifecycleNext, Lifecycle!Ended

\* Every behaviour of the queue, seen through the states of its jobs, is a
\* behaviour of JobLifecycle.
THEOREM QueueImplementsLifecycle == Spec => ImplementsLifecycle
  <1>1. Init => Lifecycle!LifecycleInit
    BY DEF Init, Lifecycle!LifecycleInit, NoJob
  <1>2. IInv /\ [Next]_vars
          => [Lifecycle!LifecycleNext]_([j \in JobIds |-> jobs[j].st])
    BY JobStepCases, LifecycleStep
  <1> QED
    BY <1>1, <1>2, InvariantHolds, PTL
       DEF Spec, ImplementsLifecycle, Lifecycle!LifecycleSpec

----------------------------------------------------------------------------
(* Runs and the jobs that drive them.                                      *)

BusyStates == {"preparing", "queued", "evaluating"}
BusyStages == {"queued", "running"}
EvaluationTypes == {"evaluate", "recover-evaluators"}

----------------------------------------------------------------------------
(* The strengthening.                                                      *)

\* A run has no inputs before its preparation ends, only its inputs are
\* approved, and it is evaluated with inputs that are.
ApprovedAsShown(run) ==
    /\ run.approval # None => run.approval = run.inputs
    /\ run.state \in {"draft", "preparing"} => run.inputs = None
    /\ run.state \in {"queued", "evaluating"} => run.inputs # None /\ run.approval = run.inputs

\* Its results are about those inputs and about each other.
ResultsAsApproved(run) ==
    /\ run.meas # 0 => run.inputs # None /\ run.measOf = run.inputs /\ run.approval = run.inputs
    /\ run.recs # 0 => run.recsOf = run.meas
    /\ run.review # 0 => run.review = run.recs

IsSound(run) == ApprovedAsShown(run) /\ ResultsAsApproved(run)
RunsAreSound == \A r \in Runs : IsSound(runs[r])

\* An evaluation that waits, and that can still be leased, waits for a run that
\* shows it.
QueuedEvaluationsAreShown ==
    \A j \in JobIds :
        jobs[j].st = "queued" /\ jobs[j].type \in EvaluationTypes
          /\ jobs[j].rev = runs[jobs[j].run].rev
            => runs[jobs[j].run].state = "queued"

\* A specialist job that works, works on results.
StagesHaveResults ==
    \A r \in Runs : Clean(r) => \A j \in ActiveJobs(r) :
        jobs[j].type = "agent-stage" => runs[r].state \in {"ready", "partial"}

RunInv ==
    /\ NoOrphanedRun
    /\ NoPhantomJob
    /\ StagesHaveResults
    /\ RunsAreSound
    /\ QueuedEvaluationsAreShown

----------------------------------------------------------------------------
(* What a step does to one run and one job.                                *)

OtherRunsKept(r) == \A q \in Runs : q # r => runs'[q] = runs[q]
OtherJobsKept(j) == \A k \in JobIds : k # j => jobs'[k] = jobs[k]
StageKept(r) == runs'[r].stage = runs[r].stage /\ runs'[r].stageJob = runs[r].stageJob
Moved(r) == runs'[r].rev = runs[r].rev + 1 /\ OtherRunsKept(r)

\* No job and no run changes, but for the time leases have left.
Stands ==
    /\ UNCHANGED <<runs, overwritten>>
    /\ \A k \in JobIds :
          /\ jobs'[k].st = jobs[k].st /\ jobs'[k].type = jobs[k].type
          /\ jobs'[k].run = jobs[k].run /\ jobs'[k].rev = jobs[k].rev

\* The owner decides about a run that no job works for.
Decides(r) ==
    /\ UNCHANGED <<jobs, overwritten>>
    /\ NoActiveSpecialistJob(r)
    /\ runs[r].state \notin BusyStates \cup {"exported"} /\ runs'[r].state \notin BusyStates
    /\ Moved(r) /\ StageKept(r)

\* A job is admitted, and its run shows it.
Admits(r, j) ==
    /\ jobs[j].st = "absent" /\ OtherJobsKept(j) /\ UNCHANGED overwritten
    /\ jobs'[j].st = "queued" /\ jobs'[j].run = r /\ jobs'[j].rev = runs'[r].rev
    /\ NoActiveSpecialistJob(r)
    /\ runs[r].state \notin BusyStates \cup {"exported"}
    /\ Moved(r)
    /\ \/ /\ jobs'[j].type = "agent-stage"
          /\ runs[r].state \in {"ready", "partial"} /\ runs'[r].state = runs[r].state
          /\ runs'[r].stage = "queued" /\ runs'[r].stageJob = j
       \/ jobs'[j].type = "prepare" /\ runs'[r].state = "preparing" /\ StageKept(r)
       \/ jobs'[j].type \in EvaluationTypes /\ runs'[r].state = "queued" /\ StageKept(r)

\* A queued job is leased, and its run shows that too.
Begins(r, j) ==
    /\ jobs[j].st = "queued" /\ jobs[j].run = r /\ BoundToRun(j)
    /\ OtherJobsKept(j) /\ UNCHANGED overwritten
    /\ jobs'[j].st = "leased" /\ jobs'[j].run = r /\ jobs'[j].type = jobs[j].type
    /\ \/ jobs[j].type = "prepare" /\ UNCHANGED runs
       \/ /\ jobs[j].type \in EvaluationTypes
          /\ runs'[r].state = "evaluating" /\ Moved(r) /\ StageKept(r)
       \/ /\ jobs[j].type = "agent-stage"
          /\ runs'[r].state = runs[r].state
          /\ runs'[r].stage = "running" /\ runs'[r].stageJob = runs[r].stageJob
          /\ Moved(r)

\* A job is ended, or was ended before, and its run is not busy with it any more.
Closes(r, j) ==
    /\ jobs[j].st # "absent" /\ jobs[j].run = r /\ OtherJobsKept(j)
    /\ jobs'[j].st \in TerminalStates /\ jobs'[j].run = r /\ jobs'[j].type = jobs[j].type
    /\ overwritten \subseteq overwritten'
    /\ jobs[j].st \in ActiveStates \/ r \in overwritten'
    /\ Moved(r)
    /\ \/ /\ jobs[j].type = "agent-stage"
          /\ runs'[r].state = runs[r].state /\ runs'[r].stage \notin BusyStages
       \/ jobs[j].type # "agent-stage" /\ runs'[r].state \notin BusyStates /\ StageKept(r)

RunStep ==
    \/ Stands
    \/ \E r \in Runs : Decides(r)
    \/ \E r \in Runs, j \in JobIds : Admits(r, j) \/ Begins(r, j) \/ Closes(r, j)

----------------------------------------------------------------------------
(* The parts of the invariant that need to know no more of a step.         *)

\* No run is left behind: what admits a job makes its run busy, and what ends
\* it ends that too.
LEMMA NoOrphanStep ==
    ASSUME TypeOK, TypeOK', NoOrphanedRun, RunStep
    PROVE  NoOrphanedRun'
  <1> SUFFICES ASSUME NEW q \in Runs
               PROVE  /\ runs'[q].state \in BusyStates => \E k \in JobIds : Drives(k, q)'
                      /\ runs'[q].stage \in BusyStages =>
                            /\ runs'[q].stageJob \in ActiveJobs(q)'
                            /\ jobs'[runs'[q].stageJob].type = "agent-stage"
    BY DEF NoOrphanedRun, BusyStates, BusyStages
  <1>1. /\ runs[q].state \in BusyStates => \E k \in JobIds : Drives(k, q)
        /\ runs[q].stage \in BusyStages =>
              /\ runs[q].stageJob \in ActiveJobs(q)
              /\ jobs[runs[q].stageJob].type = "agent-stage"
    BY DEF NoOrphanedRun, BusyStates, BusyStages
  <1>2. CASE Stands
    BY <1>1, <1>2 DEF Stands, Drives, ActiveJobs
  <1>3. ASSUME NEW r \in Runs, Decides(r) PROVE
                      /\ runs'[q].state \in BusyStates => \E k \in JobIds : Drives(k, q)'
                      /\ runs'[q].stage \in BusyStages =>
                            /\ runs'[q].stageJob \in ActiveJobs(q)'
                            /\ jobs'[runs'[q].stageJob].type = "agent-stage"
    BY <1>1, <1>3 DEF Decides, Moved, OtherRunsKept, StageKept, Drives, ActiveJobs
  <1>4. ASSUME NEW r \in Runs, NEW j \in JobIds, Admits(r, j) \/ Begins(r, j) \/ Closes(r, j), q # r
        PROVE  /\ runs'[q].state \in BusyStates => \E k \in JobIds : Drives(k, q)'
               /\ runs'[q].stage \in BusyStages =>
                     /\ runs'[q].stageJob \in ActiveJobs(q)'
                     /\ jobs'[runs'[q].stageJob].type = "agent-stage"
    <2>1. runs'[q] = runs[q] /\ OtherJobsKept(j) /\ (jobs[j].st = "absent" \/ jobs[j].run = r)
      BY <1>4 DEF Admits, Begins, Closes, Moved, OtherRunsKept
    <2>2. \A k \in JobIds : jobs[k].run = q /\ jobs[k].st # "absent" => jobs'[k] = jobs[k]
      BY <1>4, <2>1 DEF OtherJobsKept
    <2>3. \A k \in JobIds : Drives(k, q) => Drives(k, q)'
      BY <2>1, <2>2 DEF Drives, ActiveStates
    <2>4. \A k \in ActiveJobs(q) : k \in ActiveJobs(q)' /\ jobs'[k] = jobs[k]
      BY <2>2 DEF ActiveJobs, ActiveStates
    <2> QED BY <1>1, <2>1, <2>3, <2>4
  <1>5. ASSUME NEW j \in JobIds, Admits(q, j)
        PROVE  /\ runs'[q].state \in BusyStates => \E k \in JobIds : Drives(k, q)'
               /\ runs'[q].stage \in BusyStages =>
                     /\ runs'[q].stageJob \in ActiveJobs(q)'
                     /\ jobs'[runs'[q].stageJob].type = "agent-stage"
    <2>1. CASE jobs'[j].type = "agent-stage"
      BY <1>5, <2>1 DEF Admits, ActiveJobs, ActiveStates, EvaluationTypes, BusyStates
    <2>2. CASE jobs'[j].type # "agent-stage"
      <3>1. runs[q].stage \notin BusyStages
        BY <1>1, <1>5 DEF Admits, NoActiveSpecialistJob
      <3>2. Drives(j, q)'
        BY <1>5, <2>2 DEF Admits, Drives, ActiveStates, EvaluationTypes
      <3> QED BY <1>5, <2>2, <3>1, <3>2 DEF Admits, StageKept
    <2> QED BY <2>1, <2>2
  <1>6. ASSUME NEW j \in JobIds, Begins(q, j)
        PROVE  /\ runs'[q].state \in BusyStates => \E k \in JobIds : Drives(k, q)'
               /\ runs'[q].stage \in BusyStages =>
                     /\ runs'[q].stageJob \in ActiveJobs(q)'
                     /\ jobs'[runs'[q].stageJob].type = "agent-stage"
    <2>1. \A k \in JobIds : k # j => jobs'[k] = jobs[k]
      BY <1>6 DEF Begins, OtherJobsKept
    <2>2. runs'[q].stage \in BusyStages =>
                     /\ runs'[q].stageJob \in ActiveJobs(q)'
                     /\ jobs'[runs'[q].stageJob].type = "agent-stage"
      BY <1>1, <1>6, <2>1 DEF Begins, BoundToRun, StageKept, ActiveJobs, ActiveStates, EvaluationTypes,
         BusyStages
    <2>3. CASE jobs[j].type \in EvaluationTypes
      BY <1>6, <2>2, <2>3 DEF Begins, Drives, EvaluationTypes
    <2>4. CASE jobs[j].type \in {"prepare", "agent-stage"}
      <3>1. runs'[q].state = runs[q].state
        BY <1>6, <2>4 DEF Begins, EvaluationTypes
      <3>2. \A k \in JobIds : Drives(k, q) => Drives(k, q)'
        BY <1>6, <2>1, <2>4, <3>1 DEF Begins, Drives, ActiveStates
      <3> QED BY <1>1, <2>2, <3>1, <3>2
    <2> QED BY <1>6, <2>3, <2>4 DEF Begins
  <1>7. ASSUME NEW j \in JobIds, Closes(q, j)
        PROVE  /\ runs'[q].state \in BusyStates => \E k \in JobIds : Drives(k, q)'
               /\ runs'[q].stage \in BusyStages =>
                     /\ runs'[q].stageJob \in ActiveJobs(q)'
                     /\ jobs'[runs'[q].stageJob].type = "agent-stage"
    <2>1. CASE jobs[j].type = "agent-stage"
      BY <1>1, <1>7, <2>1 DEF Closes, OtherJobsKept, Drives
    <2>2. CASE jobs[j].type # "agent-stage"
      BY <1>1, <1>7, <2>2 DEF Closes, OtherJobsKept, StageKept, ActiveJobs
    <2> QED BY <2>1, <2>2
  <1> QED BY <1>2, <1>3, <1>4, <1>5, <1>6, <1>7 DEF RunStep

\* What NoPhantomJob and StagesHaveResults say of one active job.
ShownJob(j, r) ==
    /\ IF jobs[j].type = "agent-stage"
       THEN /\ runs[r].stageJob = j /\ runs[r].stage \in BusyStages
            /\ runs[r].state \in {"ready", "partial"}
       ELSE Drives(j, r)
    /\ \A k \in ActiveJobs(r) : j = k
    /\ jobs[j].st = "queued" => BoundToRun(j)

\* A run that is not busy, and for which no specialist works, has no job.
LEMMA NoJobWhenIdle ==
    ASSUME NEW r \in Runs, Clean(r), NoPhantomJob, NoActiveSpecialistJob(r),
           runs[r].state \notin BusyStates
    PROVE  ActiveJobs(r) = {}
  BY DEF NoPhantomJob, NoActiveSpecialistJob, Drives, BusyStates

\* An active job stays the only one of a run that shows it, as long as no ended
\* job of the run is rewritten.
LEMMA NoPhantomStep ==
    ASSUME TypeOK, TypeOK', NoPhantomJob, StagesHaveResults, RunStep
    PROVE  NoPhantomJob' /\ StagesHaveResults'
  <1> SUFFICES ASSUME NEW q \in Runs, q \notin overwritten', NEW i \in ActiveJobs(q)'
               PROVE  ShownJob(i, q)'
    BY DEF NoPhantomJob, StagesHaveResults, Clean, ShownJob, BusyStages, ActiveJobs
  <1>1. q \notin overwritten
    BY DEF RunStep, Stands, Decides, Admits, Begins, Closes
  <1>2. \A k \in ActiveJobs(q) : ShownJob(k, q)
    BY <1>1 DEF NoPhantomJob, StagesHaveResults, Clean, ShownJob, BusyStages
  <1>3. i \in JobIds /\ jobs'[i].run = q /\ jobs'[i].st \in ActiveStates
    BY DEF ActiveJobs
  <1>4. CASE Stands
    <2>1. \A k \in JobIds : k \in ActiveJobs(q)' <=> k \in ActiveJobs(q)
      BY <1>4 DEF Stands, ActiveJobs
    <2> QED BY <1>2, <1>3, <1>4, <2>1 DEF Stands, ShownJob, Drives, BoundToRun, ActiveJobs
  <1>5. ASSUME NEW r \in Runs, Decides(r) PROVE ShownJob(i, q)'
    <2>1. i \in ActiveJobs(q) /\ ActiveJobs(q)' = ActiveJobs(q)
      BY <1>5 DEF Decides, ActiveJobs
    <2>2. q # r
      BY <1>1, <1>5, <2>1, NoJobWhenIdle DEF Decides, Clean
    <2>3. runs'[q] = runs[q] /\ jobs' = jobs
      BY <1>5, <2>2 DEF Decides, Moved, OtherRunsKept
    <2> QED BY <1>2, <1>3, <2>1, <2>3 DEF ShownJob, Drives, BoundToRun
  <1>6. ASSUME NEW r \in Runs, NEW j \in JobIds, Admits(r, j) \/ Begins(r, j) \/ Closes(r, j), q # r
        PROVE  ShownJob(i, q)'
    <2>1. runs'[q] = runs[q] /\ OtherJobsKept(j) /\ jobs'[j].run = r
      BY <1>6 DEF Admits, Begins, Closes, Moved, OtherRunsKept
    <2>2. jobs[j].st = "absent" \/ jobs[j].run = r
      BY <1>6 DEF Admits, Begins, Closes
    <2>3. \A k \in JobIds : k \in ActiveJobs(q)' <=> k \in ActiveJobs(q)
      BY <1>6, <2>1, <2>2 DEF ActiveJobs, ActiveStates, OtherJobsKept
    <2>4. i # j /\ jobs'[i] = jobs[i] /\ i \in ActiveJobs(q)
      BY <1>3, <1>6, <2>1, <2>3 DEF OtherJobsKept
    <2> QED BY <1>2, <1>3, <2>1, <2>3, <2>4 DEF ShownJob, Drives, BoundToRun, ActiveJobs
  <1>7. ASSUME NEW j \in JobIds, Admits(q, j) PROVE ShownJob(i, q)'
    <2>1. ActiveJobs(q) = {}
      BY <1>1, <1>7, NoJobWhenIdle DEF Admits, Clean
    <2>2. \A k \in ActiveJobs(q)' : k = j
      BY <1>7, <2>1 DEF Admits, OtherJobsKept, ActiveJobs
    <2>3. i = j
      BY <2>2
    <2> QED
      BY <1>3, <1>7, <2>2, <2>3 DEF Admits, ShownJob, Drives, BoundToRun, ActiveStates,
         EvaluationTypes, BusyStages
  <1>8. ASSUME NEW j \in JobIds, Begins(q, j) PROVE ShownJob(i, q)'
    <2>1. j \in ActiveJobs(q) /\ ActiveJobs(q) = {j}
      BY <1>2, <1>8 DEF Begins, ActiveJobs, ActiveStates, ShownJob
    <2>2. \A k \in ActiveJobs(q)' : k = j
      BY <1>8, <2>1 DEF Begins, OtherJobsKept, ActiveJobs
    <2>3. i = j /\ ShownJob(j, q)
      BY <1>2, <2>1, <2>2
    <2> QED
      BY <1>3, <1>8, <2>2, <2>3 DEF Begins, ShownJob, Drives, ActiveStates, EvaluationTypes,
         BusyStages
  <1>9. ASSUME NEW j \in JobIds, Closes(q, j) PROVE ShownJob(i, q)'
    <2>1. jobs[j].st \in ActiveStates /\ i # j
      BY <1>3, <1>9 DEF Closes, ActiveStates, TerminalStates
    <2>2. i \in ActiveJobs(q) /\ j \in ActiveJobs(q)
      BY <1>3, <1>9, <2>1 DEF Closes, OtherJobsKept, ActiveJobs
    <2> QED BY <1>2, <2>1, <2>2 DEF ShownJob
  <1> QED BY <1>4, <1>5, <1>6, <1>7, <1>8, <1>9 DEF RunStep

\* A waiting evaluation either finds its run as its admission left it, or at a
\* later revision.
LEMMA QueuedEvaluationsStep ==
    ASSUME TypeOK, TypeOK', JobsBehindRuns, QueuedEvaluationsAreShown, RunStep
    PROVE  QueuedEvaluationsAreShown'
  <1> SUFFICES ASSUME NEW i \in JobIds, jobs'[i].st = "queued", jobs'[i].type \in EvaluationTypes,
                      jobs'[i].rev = runs'[jobs'[i].run].rev
               PROVE  runs'[jobs'[i].run].state = "queued"
    BY DEF QueuedEvaluationsAreShown
  <1> DEFINE q == jobs'[i].run
  <1>1. q \in Runs /\ runs'[q].rev \in Nat /\ runs[q].rev \in Nat
    BY DEF TypeOK, Job, Run
  <1>2. CASE Stands
    BY <1>2 DEF Stands, QueuedEvaluationsAreShown
  <1>3. ASSUME jobs'[i] = jobs[i], runs'[q] = runs[q] \/ runs'[q].rev = runs[q].rev + 1
        PROVE  runs'[q].state = "queued"
    <2>1. jobs[i].rev <= runs[q].rev /\ jobs[i].rev \in Nat
      BY <1>3 DEF JobsBehindRuns, TypeOK, Job
    <2>2. runs'[q] = runs[q]
      BY <1>1, <1>3, <2>1
    <2> QED BY <1>3, <2>2 DEF QueuedEvaluationsAreShown
  <1>4. ASSUME NEW r \in Runs, Decides(r) PROVE runs'[q].state = "queued"
    BY <1>1, <1>3, <1>4 DEF Decides, Moved, OtherRunsKept
  <1>5. ASSUME NEW r \in Runs, NEW j \in JobIds, Admits(r, j) \/ Begins(r, j) \/ Closes(r, j), i # j
        PROVE  runs'[q].state = "queued"
    <2>1. jobs'[i] = jobs[i]
      BY <1>5 DEF Admits, Begins, Closes, OtherJobsKept
    <2>2. runs'[q] = runs[q] \/ runs'[q].rev = runs[q].rev + 1
      BY <1>1, <1>5 DEF Admits, Begins, Closes, Moved, OtherRunsKept
    <2> QED BY <1>3, <2>1, <2>2
  <1>6. ASSUME NEW r \in Runs, Admits(r, i) \/ Begins(r, i) \/ Closes(r, i)
        PROVE  runs'[q].state = "queued"
    BY <1>6 DEF Admits, Begins, Closes, EvaluationTypes, TerminalStates
  <1> QED BY <1>2, <1>4, <1>5, <1>6 DEF RunStep

----------------------------------------------------------------------------
(* Every step is a RunStep, and keeps every run sound.                     *)

\* What _mutate_run leaves of the run it is given.
LEMMA MutateRunFields ==
    ASSUME TypeOK, NEW r \in Runs, NEW new \in Run, MutateRun(r, new)
    PROVE  /\ runs'[r].state = new.state
           /\ runs'[r].stage = new.stage /\ runs'[r].stageJob = new.stageJob
           /\ Moved(r)
           /\ RunsAreSound /\ IsSound(new) => RunsAreSound'
  <1>1. runs' = [runs EXCEPT ![r] = [new EXCEPT !.rev = runs[r].rev + 1]]
    BY DEF MutateRun
  <1>2. runs[r].rev + 1 \in Nat /\ runs \in [Runs -> Run]
    BY DEF TypeOK, Run
  <1> DEFINE next == [new EXCEPT !.rev = runs[r].rev + 1]
  <1>3. /\ next.state = new.state /\ next.inputs = new.inputs /\ next.approval = new.approval
        /\ next.meas = new.meas /\ next.measOf = new.measOf /\ next.recs = new.recs
        /\ next.recsOf = new.recsOf /\ next.review = new.review
        /\ next.stage = new.stage /\ next.stageJob = new.stageJob
        /\ next.rev = runs[r].rev + 1
    BY DEF Run
  <1>4. runs'[r] = next /\ \A q \in Runs : q # r => runs'[q] = runs[q]
    BY <1>1, <1>2
  <1> HIDE DEF next
  <1>5. IsSound(new) => IsSound(next)
    BY <1>3 DEF IsSound, ApprovedAsShown, ResultsAsApproved
  <1> QED BY <1>3, <1>4, <1>5 DEF Moved, OtherRunsKept, RunsAreSound

\* A decision of the owner that keeps the run sound.
LEMMA DecisionStep ==
    ASSUME IInv, RunsAreSound, NEW r \in Runs, NEW new \in Run, OwnerMutates(r, new),
           runs[r].state \notin BusyStates \cup {"exported"}, new.state \notin BusyStates,
           new.stage = runs[r].stage, new.stageJob = runs[r].stageJob, IsSound(new)
    PROVE  RunStep /\ RunsAreSound'
  <1>1. /\ runs'[r].state = new.state /\ Moved(r) /\ RunsAreSound'
        /\ runs'[r].stage = new.stage /\ runs'[r].stageJob = new.stageJob
    BY MutateRunFields DEF IInv, OwnerMutates
  <1>2. Decides(r)
    BY <1>1 DEF Decides, OwnerMutates, StageKept
  <1> QED BY <1>1, <1>2 DEF RunStep

\* The requests of MeasurementCoordinator, and the export.
LEMMA DecisionsAreSteps ==
    ASSUME IInv, RunsAreSound, NEW r \in Runs,
           \/ Approve(r) \/ ReviewRecommendations(r) \/ PersistExport(r)
           \/ \E i \in Inputs : ReviseInputs(r, i)
    PROVE  RunStep /\ RunsAreSound'
  <1>1. runs[r] \in Run /\ IsSound(runs[r])
    BY DEF IInv, TypeOK, RunsAreSound
  <1>2. CASE Approve(r)
    <2> DEFINE new == [runs[r] EXCEPT !.approval = runs[r].inputs]
    <2>1. /\ new \in Run /\ new.state = runs[r].state
          /\ new.stage = runs[r].stage /\ new.stageJob = runs[r].stageJob
      BY <1>1 DEF Run
    <2>2. IsSound(new)
      BY <1>1, <1>2 DEF Approve, Run, IsSound, ApprovedAsShown, ResultsAsApproved
    <2>3. OwnerMutates(r, new) /\ runs[r].state = "awaiting-query-approval"
      BY <1>2 DEF Approve
    <2> HIDE DEF new
    <2> QED BY <2>1, <2>2, <2>3, DecisionStep DEF BusyStates
  <1>3. CASE ReviewRecommendations(r)
    <2> DEFINE new == [runs[r] EXCEPT !.review = runs[r].recs]
    <2>1. /\ new \in Run /\ new.state = runs[r].state
          /\ new.stage = runs[r].stage /\ new.stageJob = runs[r].stageJob
      BY <1>1 DEF Run
    <2>2. IsSound(new)
      BY <1>1 DEF Run, IsSound, ApprovedAsShown, ResultsAsApproved
    <2>3. OwnerMutates(r, new) /\ runs[r].state \in {"ready", "partial"}
      BY <1>3 DEF ReviewRecommendations
    <2> HIDE DEF new
    <2> QED BY <2>1, <2>2, <2>3, DecisionStep DEF BusyStates
  <1>4. CASE PersistExport(r)
    <2> DEFINE new == [runs[r] EXCEPT !.state = "exported"]
    <2>1. /\ new \in Run /\ new.state = "exported"
          /\ new.stage = runs[r].stage /\ new.stageJob = runs[r].stageJob
      BY <1>1 DEF Run, RunStates
    <2>2. IsSound(new)
      BY <1>1 DEF Run, IsSound, ApprovedAsShown, ResultsAsApproved
    <2>3. OwnerMutates(r, new) /\ runs[r].state \in ResultStates
      BY <1>4 DEF PersistExport
    <2> HIDE DEF new
    <2> QED BY <2>1, <2>2, <2>3, DecisionStep DEF BusyStates, ResultStates
  <1>5. ASSUME NEW i \in Inputs, ReviseInputs(r, i) PROVE RunStep /\ RunsAreSound'
    <2> DEFINE cleared == WithoutResults(runs[r])
               new == [cleared EXCEPT !.inputs = i, !.approval = None,
                                      !.state = "awaiting-query-approval"]
    <2>1. cleared \in Run
      BY <1>1, WithoutType
    <2>2. /\ cleared.stage = runs[r].stage /\ cleared.stageJob = runs[r].stageJob
          /\ cleared.meas = 0 /\ cleared.recs = 0 /\ cleared.review = 0
      BY <1>1 DEF WithoutResults, WithoutReport, Run
    <2> HIDE DEF cleared
    <2>3. /\ new \in Run /\ new.state = "awaiting-query-approval" /\ new.approval = None
          /\ new.stage = runs[r].stage /\ new.stageJob = runs[r].stageJob
          /\ new.meas = 0 /\ new.recs = 0 /\ new.review = 0
      BY <2>1, <2>2 DEF Run, RunStates
    <2>4. OwnerMutates(r, new) /\ runs[r].state \in {"awaiting-query-approval", "cancelled", "failed"}
      BY <1>5 DEF ReviseInputs, cleared
    <2> HIDE DEF new
    <2>5. IsSound(new)
      BY <2>3 DEF IsSound, ApprovedAsShown, ResultsAsApproved
    <2> QED BY <2>3, <2>4, <2>5, DecisionStep DEF BusyStates
  <1> QED BY <1>2, <1>3, <1>4, <1>5

\* An admission that keeps the run sound and shows the job in it.
LEMMA AdmissionStep ==
    ASSUME IInv, RunsAreSound, NEW r \in Runs, NEW type \in JobTypes, NEW new \in Run,
           Admit(r, type, new), IsSound(new),
           runs[r].state \notin BusyStates \cup {"exported"},
           \/ /\ type = "agent-stage"
              /\ runs[r].state \in {"ready", "partial"} /\ new.state = runs[r].state
              /\ new.stage = "queued" /\ new.stageJob = nextJob
           \/ /\ \/ type = "prepare" /\ new.state = "preparing"
                 \/ type \in EvaluationTypes /\ new.state = "queued"
              /\ new.stage = runs[r].stage /\ new.stageJob = runs[r].stageJob
    PROVE  RunStep /\ RunsAreSound'
  <1> DEFINE j == nextJob
             row == [st |-> "queued", type |-> type, run |-> r,
                     rev |-> runs[r].rev + 1, by |-> None, ttl |-> 0]
  <1>1. /\ runs'[r].state = new.state /\ Moved(r) /\ RunsAreSound'
        /\ runs'[r].stage = new.stage /\ runs'[r].stageJob = new.stageJob
    BY MutateRunFields DEF IInv, Admit
  <1>2. j \in JobIds /\ jobs[j].st = "absent"
    BY ConstantsAssumption DEF Admit, IInv, TypeOK, JobIds
  <1>3. jobs' = [jobs EXCEPT ![j] = row] /\ jobs \in [JobIds -> Job]
    BY DEF Admit, IInv, TypeOK
  <1>4. jobs'[j] = row /\ OtherJobsKept(j)
    BY <1>2, <1>3 DEF OtherJobsKept
  <1>5. NoActiveSpecialistJob(r) /\ UNCHANGED overwritten
    BY DEF Admit
  <1>6. Admits(r, j)
    BY <1>1, <1>2, <1>4, <1>5 DEF Admits, Moved, StageKept
  <1> QED BY <1>1, <1>2, <1>6 DEF RunStep

\* The four kinds of jobs.
LEMMA AdmissionsAreSteps ==
    ASSUME IInv, RunsAreSound, NEW r \in Runs,
           EnqueuePrepare(r) \/ EnqueueEvaluate(r) \/ EnqueueRecovery(r) \/ EnqueueStage(r)
    PROVE  RunStep /\ RunsAreSound'
  <1>1. runs[r] \in Run /\ IsSound(runs[r])
    BY DEF IInv, TypeOK, RunsAreSound
  <1>2. CASE EnqueuePrepare(r)
    <2> DEFINE new == [runs[r] EXCEPT !.state = "preparing"]
    <2>1. /\ new \in Run /\ new.state = "preparing"
          /\ new.stage = runs[r].stage /\ new.stageJob = runs[r].stageJob
      BY <1>1 DEF Run, RunStates
    <2>2. IsSound(new)
      BY <1>1, <1>2 DEF EnqueuePrepare, Run, IsSound, ApprovedAsShown, ResultsAsApproved
    <2>3. Admit(r, "prepare", new) /\ runs[r].state \in {"draft", "needs-review"}
      BY <1>2 DEF EnqueuePrepare
    <2> HIDE DEF new
    <2> QED BY <2>1, <2>2, <2>3, AdmissionStep DEF BusyStates, JobTypes
  <1>3. CASE EnqueueEvaluate(r) \/ EnqueueRecovery(r)
    <2> DEFINE new == [runs[r] EXCEPT !.state = "queued"]
    <2>1. /\ new \in Run /\ new.state = "queued"
          /\ new.stage = runs[r].stage /\ new.stageJob = runs[r].stageJob
      BY <1>1 DEF Run, RunStates
    <2>2. runs[r].approval \in Inputs \cup {None} /\ None \notin Inputs
      BY <1>1, ConstantsAssumption DEF Run
    <2>3. IsSound(new)
      BY <1>1, <1>3, <2>2 DEF EnqueueEvaluate, EnqueueRecovery, Run, IsSound, ApprovedAsShown,
         ResultsAsApproved
    <2>4. PICK type \in EvaluationTypes : Admit(r, type, new)
      BY <1>3 DEF EnqueueEvaluate, EnqueueRecovery, EvaluationTypes
    <2>5. runs[r].state \in {"awaiting-query-approval", "failed", "partial"} /\ type \in JobTypes
      BY <1>3 DEF EnqueueEvaluate, EnqueueRecovery, EvaluationTypes, JobTypes
    <2> HIDE DEF new
    <2> QED BY <2>1, <2>3, <2>4, <2>5, AdmissionStep DEF BusyStates
  <1>4. CASE EnqueueStage(r)
    <2> DEFINE new == WithStage(runs[r], "queued", nextJob)
    <2>1. nextJob \in Nat
      BY ConstantsAssumption DEF IInv, TypeOK
    <2>2. /\ new \in Run /\ new.state = runs[r].state
          /\ new.stage = "queued" /\ new.stageJob = nextJob
      BY <1>1, <2>1 DEF WithStage, Run, StageStates
    <2>3. IsSound(new)
      BY <1>1 DEF WithStage, Run, IsSound, ApprovedAsShown, ResultsAsApproved
    <2>4. Admit(r, "agent-stage", new) /\ runs[r].state \in {"ready", "partial"}
      BY <1>4 DEF EnqueueStage
    <2> HIDE DEF new
    <2> QED BY <2>2, <2>3, <2>4, AdmissionStep DEF BusyStates, JobTypes
  <1> QED BY <1>2, <1>3, <1>4

\* lease_one_job.
LEMMA LeaseIsStep ==
    ASSUME IInv, RunsAreSound, QueuedEvaluationsAreShown,
           NEW w \in Workers, NEW j \in JobIds, Lease(w, j)
    PROVE  RunStep /\ RunsAreSound'
  <1> DEFINE r == jobs[j].run
             rev == IF jobs[j].type = "prepare" THEN runs[r].rev ELSE runs[r].rev + 1
             row == [jobs[j] EXCEPT !.st = "leased", !.by = w, !.rev = rev, !.ttl = LeaseTicks]
             new == Started(r, j)
  <1>1. jobs[j] \in Job /\ jobs[j].st = "queued" /\ r \in Runs /\ BoundToRun(j)
    BY JobHasRun DEF IInv, TypeOK, Lease, IsOldestQueued, QueuedJobs
  <1>2. runs[r] \in Run /\ IsSound(runs[r])
    BY <1>1 DEF IInv, TypeOK, RunsAreSound
  <1>3. jobs' = [jobs EXCEPT ![j] = row] /\ UNCHANGED overwritten
    BY DEF Lease, IInv, TypeOK
  <1> HIDE DEF rev
  <1>4. row.st = "leased" /\ row.run = r /\ row.type = jobs[j].type
    BY <1>1 DEF Job
  <1> HIDE DEF row
  <1>5. /\ jobs'[j].st = "leased" /\ jobs'[j].run = r /\ jobs'[j].type = jobs[j].type
        /\ OtherJobsKept(j)
    BY <1>3, <1>4 DEF IInv, TypeOK, OtherJobsKept
  <1>6. CASE jobs[j].type = "prepare"
    <2>1. UNCHANGED runs
      BY <1>6 DEF Lease
    <2>2. Begins(r, j)
      BY <1>1, <1>3, <1>5, <1>6, <2>1 DEF Begins
    <2> QED BY <1>1, <2>1, <2>2 DEF RunStep, RunsAreSound
  <1>7. CASE jobs[j].type = "agent-stage"
    <2>1. /\ new \in Run /\ new.state = runs[r].state
          /\ new.stage = "running" /\ new.stageJob = runs[r].stageJob
      BY <1>2, <1>7 DEF Started, Run, StageStates
    <2>2. IsSound(new)
      BY <1>2, <1>7 DEF Started, Run, IsSound, ApprovedAsShown, ResultsAsApproved
    <2>3. MutateRun(r, new)
      BY <1>7 DEF Lease
    <2> HIDE DEF new, r
    <2>4. /\ runs'[r].state = new.state /\ Moved(r) /\ RunsAreSound'
          /\ runs'[r].stage = new.stage /\ runs'[r].stageJob = new.stageJob
      BY <1>1, <2>1, <2>2, <2>3, MutateRunFields DEF IInv
    <2>5. Begins(r, j)
      BY <1>1, <1>3, <1>5, <1>7, <2>1, <2>4 DEF Begins, r
    <2> QED BY <1>1, <2>4, <2>5 DEF RunStep
  <1>8. CASE jobs[j].type \in EvaluationTypes
    <2>1. /\ new \in Run /\ new.state = "evaluating"
          /\ new.stage = runs[r].stage /\ new.stageJob = runs[r].stageJob
      BY <1>2, <1>8 DEF Started, Run, RunStates, EvaluationTypes
    <2>2. runs[r].state = "queued"
      BY <1>1, <1>8 DEF QueuedEvaluationsAreShown, BoundToRun
    <2>3. IsSound(new)
      BY <1>2, <1>8, <2>2 DEF Started, Run, IsSound, ApprovedAsShown, ResultsAsApproved,
         EvaluationTypes
    <2>4. MutateRun(r, new)
      BY <1>8 DEF Lease, EvaluationTypes
    <2> HIDE DEF new, r
    <2>5. /\ runs'[r].state = new.state /\ Moved(r) /\ RunsAreSound'
          /\ runs'[r].stage = new.stage /\ runs'[r].stageJob = new.stageJob
      BY <1>1, <2>1, <2>3, <2>4, MutateRunFields DEF IInv
    <2>6. Begins(r, j)
      BY <1>1, <1>3, <1>5, <1>8, <2>1, <2>5 DEF Begins, StageKept, r
    <2> QED BY <1>1, <2>5, <2>6 DEF RunStep
  <1> QED BY <1>1, <1>6, <1>7, <1>8 DEF Job, JobTypes, EvaluationTypes

\* A commit that ends a job, or rewrites one that has ended, and takes it off
\* its run.
LEMMA ClosingStep ==
    ASSUME IInv, RunsAreSound, NEW j \in JobIds, jobs[j].st # "absent",
           NEW outcome \in TerminalStates, Finish(j, outcome),
           NEW new \in Run, MutateRun(jobs[j].run, new), IsSound(new),
           overwritten \subseteq overwritten',
           jobs[j].st \in ActiveStates \/ jobs[j].run \in overwritten',
           \/ /\ jobs[j].type = "agent-stage" /\ new.state = runs[jobs[j].run].state
              /\ new.stage \notin BusyStages
           \/ /\ jobs[j].type # "agent-stage" /\ new.state \notin BusyStates
              /\ new.stage = runs[jobs[j].run].stage
              /\ new.stageJob = runs[jobs[j].run].stageJob
    PROVE  RunStep /\ RunsAreSound'
  <1> DEFINE r == jobs[j].run
  <1>1. r \in Runs /\ jobs[j] \in Job
    BY JobHasRun DEF IInv, TypeOK
  <1>2. /\ jobs'[j] = [jobs[j] EXCEPT !.st = outcome, !.by = None, !.ttl = 0]
        /\ OtherJobsKept(j)
    BY FinishEffect DEF IInv, OtherJobsKept
  <1>3. jobs'[j].st = outcome /\ jobs'[j].run = r /\ jobs'[j].type = jobs[j].type
    BY <1>1, <1>2 DEF Job
  <1>4. /\ runs'[r].state = new.state /\ Moved(r) /\ RunsAreSound'
        /\ runs'[r].stage = new.stage /\ runs'[r].stageJob = new.stageJob
    BY <1>1, MutateRunFields DEF IInv
  <1>5. Closes(r, j)
    BY <1>1, <1>2, <1>3, <1>4 DEF Closes, StageKept
  <1> QED BY <1>1, <1>4, <1>5 DEF RunStep

\* What an interrupted, failed or cancelled job leaves of a run is sound: its
\* stage has failed, or its state is one that says nothing of its results.
LEMMA InterruptionsAreSound ==
    ASSUME IInv, RunsAreSound, NEW r \in Runs, NEW n \in Nat
    PROVE  /\ \A new \in {[runs[r] EXCEPT !.stage = "failed"],
                          [runs[r] EXCEPT !.stage = "failed", !.stageJob = n]} :
                 /\ new \in Run /\ IsSound(new) /\ new.state = runs[r].state
                 /\ new.stage \notin BusyStages
           /\ \A state \in {"needs-review", "cancelled"} :
                 LET new == [runs[r] EXCEPT !.state = state] IN
                 /\ new \in Run /\ IsSound(new) /\ new.state \notin BusyStates
                 /\ new.stage = runs[r].stage /\ new.stageJob = runs[r].stageJob
  <1>1. runs[r] \in Run /\ IsSound(runs[r])
    BY DEF IInv, TypeOK, RunsAreSound
  <1>2. ASSUME NEW new \in {[runs[r] EXCEPT !.stage = "failed"],
                            [runs[r] EXCEPT !.stage = "failed", !.stageJob = n]}
        PROVE  /\ new \in Run /\ IsSound(new) /\ new.state = runs[r].state
               /\ new.stage \notin BusyStages
    BY <1>1 DEF Run, StageStates, IsSound, ApprovedAsShown, ResultsAsApproved, BusyStages
  <1>3. ASSUME NEW state \in {"needs-review", "cancelled"}
        PROVE  LET new == [runs[r] EXCEPT !.state = state] IN
               /\ new \in Run /\ IsSound(new) /\ new.state \notin BusyStates
               /\ new.stage = runs[r].stage /\ new.stageJob = runs[r].stageJob
    BY <1>1 DEF Run, RunStates, IsSound, ApprovedAsShown, ResultsAsApproved, BusyStates
  <1> QED BY <1>2, <1>3

\* recover_interrupted, fail_job and cancel_job.
LEMMA InterruptionsAreSteps ==
    ASSUME IInv, RunsAreSound,
           \/ \E w \in Workers : RecoverCommit(w) \/ FailCommit(w)
           \/ \E c \in Cancellers : CancelCommit(c)
    PROVE  RunStep /\ RunsAreSound'
  <1>1. ASSUME NEW w \in Workers, RecoverCommit(w) PROVE RunStep /\ RunsAreSound'
    <2> DEFINE j == wk[w].job
               r == jobs[j].run
               new == Interrupted(r, j)
    <2>1. j \in JobIds /\ jobs[j].st = "leased"
      BY <1>1 DEF IInv, WorkersHaveJobs, RecoverCommit, Expired, JobPhases, Phases
    <2>2. r \in Runs
      BY <2>1, JobHasRun DEF IInv
    <2>3. Finish(j, "failed") /\ MutateRun(r, new) /\ UNCHANGED overwritten
      BY <1>1 DEF RecoverCommit
    <2>4. /\ new \in Run /\ IsSound(new)
          /\ \/ /\ jobs[j].type = "agent-stage" /\ new.state = runs[r].state
                /\ new.stage \notin BusyStages
             \/ /\ jobs[j].type # "agent-stage" /\ new.state \notin BusyStates
                /\ new.stage = runs[r].stage /\ new.stageJob = runs[r].stageJob
      BY <2>2, InterruptionsAreSound DEF Interrupted
    <2> HIDE DEF j, new
    <2> QED BY <2>1, <2>3, <2>4, ClosingStep DEF TerminalStates, ActiveStates
  <1>2. ASSUME NEW w \in Workers, FailCommit(w) PROVE RunStep /\ RunsAreSound'
    <2> DEFINE j == wk[w].job
               r == jobs[j].run
               new == IF jobs[j].type = "agent-stage"
                      THEN [runs[r] EXCEPT !.stage = "failed", !.stageJob = j]
                      ELSE Interrupted(r, j)
    <2>1. j \in JobIds /\ jobs[j].st # "absent" /\ j \in Nat
      BY <1>2, JobIsNat DEF IInv, WorkersHaveJobs, FailCommit, JobPhases, Phases, TerminalStates
    <2>2. r \in Runs
      BY <2>1, JobHasRun DEF IInv
    <2>3. Finish(j, "failed") /\ MutateRun(r, new)
      BY <1>2 DEF FailCommit
    <2>4. /\ overwritten \subseteq overwritten'
          /\ jobs[j].st \in ActiveStates \/ r \in overwritten'
      BY <1>2 DEF FailCommit
    <2>5. /\ new \in Run /\ IsSound(new)
          /\ \/ /\ jobs[j].type = "agent-stage" /\ new.state = runs[r].state
                /\ new.stage \notin BusyStages
             \/ /\ jobs[j].type # "agent-stage" /\ new.state \notin BusyStates
                /\ new.stage = runs[r].stage /\ new.stageJob = runs[r].stageJob
      BY <2>1, <2>2, InterruptionsAreSound DEF Interrupted
    <2> HIDE DEF j, new
    <2> QED BY <2>1, <2>3, <2>4, <2>5, ClosingStep DEF TerminalStates
  <1>3. ASSUME NEW c \in Cancellers, CancelCommit(c) PROVE RunStep /\ RunsAreSound'
    <2> DEFINE j == cancelling[c]
               r == jobs[j].run
               new == IF jobs[j].type = "agent-stage"
                      THEN [runs[r] EXCEPT !.stage = "failed"]
                      ELSE [runs[r] EXCEPT !.state = "cancelled"]
    <2>1. j \in JobIds /\ jobs[j].st # "absent"
      BY <1>3 DEF IInv, CancelsHaveJobs, CancelCommit
    <2>2. r \in Runs
      BY <2>1, JobHasRun DEF IInv
    <2>3. Finish(j, "cancelled") /\ MutateRun(r, new)
      BY <1>3 DEF CancelCommit
    <2>4. /\ overwritten \subseteq overwritten'
          /\ jobs[j].st \in ActiveStates \/ r \in overwritten'
      BY <1>3 DEF CancelCommit
    <2>5. /\ new \in Run /\ IsSound(new)
          /\ \/ /\ jobs[j].type = "agent-stage" /\ new.state = runs[r].state
                /\ new.stage \notin BusyStages
             \/ /\ jobs[j].type # "agent-stage" /\ new.state \notin BusyStates
                /\ new.stage = runs[r].stage /\ new.stageJob = runs[r].stageJob
      BY <2>2, InterruptionsAreSound
    <2> HIDE DEF j, new
    <2> QED BY <2>1, <2>3, <2>4, <2>5, ClosingStep DEF TerminalStates
  <1> QED BY <1>1, <1>2, <1>3

\* complete_job: a preparation brings inputs, which are to be approved, an
\* evaluation the measurement of approved ones, a stage a report on it.
LEMMA CompletionIsStep ==
    ASSUME IInv, RunsAreSound, NEW w \in Workers, CompleteCommit(w)
    PROVE  RunStep /\ RunsAreSound'
  <1> DEFINE j == wk[w].job
             r == jobs[j].run
  <1>1. j \in JobIds /\ jobs[j].st = "leased"
    BY CompleteStep DEF Completes
  <1>2. r \in Runs /\ jobs[j].type \in JobTypes
    BY <1>1, JobHasRun DEF IInv, TypeOK, Job
  <1>3. runs[r] \in Run /\ IsSound(runs[r]) /\ runs[r].rev + 1 \in Nat \ {0}
    BY <1>2 DEF IInv, TypeOK, RunsAreSound, Run
  <1>4. Finish(j, "completed") /\ UNCHANGED overwritten /\ ResultApplies(w)
    BY DEF CompleteCommit
  <1>5. CASE jobs[j].type = "prepare"
    <2>1. PICK i \in Inputs : MutateRun(r, Prepared(r, i))
      BY <1>5 DEF CompleteCommit
    <2> DEFINE new == Prepared(r, i)
    <2>2. /\ new \in Run /\ new.state = "awaiting-query-approval"
          /\ new.stage = runs[r].stage /\ new.stageJob = runs[r].stageJob
      BY <1>3 DEF Prepared, Run, RunStates
    <2>3. runs[r].state = "preparing"
      BY <1>4, <1>5 DEF ResultApplies
    <2>4. IsSound(new)
      BY <1>3, <2>3 DEF Prepared, Run, IsSound, ApprovedAsShown, ResultsAsApproved
    <2>5. MutateRun(r, new)
      BY <2>1
    <2> HIDE DEF j, new
    <2> QED
      BY <1>1, <1>4, <1>5, <2>2, <2>4, <2>5, ClosingStep
         DEF TerminalStates, ActiveStates, BusyStates
  <1>6. CASE jobs[j].type \in EvaluationTypes
    <2> DEFINE of == wk[w].seenInputs
               cleared == WithoutReport(runs[r])
    <2>1. PICK s \in ResultStates : MutateRun(r, Evaluated(r, s, of))
      BY <1>6 DEF CompleteCommit, EvaluationTypes
    <2> DEFINE new == [cleared EXCEPT !.state = s, !.meas = runs[r].rev + 1, !.measOf = of]
    <2>2. runs[r].state = "evaluating" /\ runs[r].inputs = of
      BY <1>4, <1>6 DEF ResultApplies, EvaluationTypes
    <2>3. cleared \in Run
      BY <1>3, WithoutType
    <2>4. /\ cleared.inputs = runs[r].inputs /\ cleared.approval = runs[r].approval
          /\ cleared.recs = 0 /\ cleared.review = 0
          /\ cleared.stage = runs[r].stage /\ cleared.stageJob = runs[r].stageJob
      BY <1>3 DEF WithoutReport, Run
    <2>5. of \in Inputs \cup {None}
      BY DEF IInv, TypeOK, WorkerState
    <2>6. MutateRun(r, new)
      BY <2>1 DEF Evaluated
    <2> HIDE DEF cleared, of
    <2>7. /\ new \in Run /\ new.state = s /\ new.measOf = of
          /\ new.inputs = runs[r].inputs /\ new.approval = runs[r].approval
          /\ new.recs = 0 /\ new.review = 0
          /\ new.stage = runs[r].stage /\ new.stageJob = runs[r].stageJob
      BY <1>3, <2>3, <2>4, <2>5 DEF Run, RunStates
    <2> HIDE DEF new
    <2>8. IsSound(new)
      BY <1>3, <2>2, <2>7 DEF IsSound, ApprovedAsShown, ResultsAsApproved, ResultStates
    <2>9. new.state \notin BusyStates /\ jobs[j].type # "agent-stage"
      BY <1>6, <2>7 DEF BusyStates, ResultStates, EvaluationTypes
    <2> HIDE DEF j
    <2> QED
      BY <1>1, <1>4, <2>6, <2>7, <2>8, <2>9, ClosingStep DEF TerminalStates, ActiveStates
  <1>7. CASE jobs[j].type = "agent-stage"
    <2> DEFINE staged == WithStage(runs[r], "completed", j)
               new == [staged EXCEPT !.recs = runs[r].rev + 1, !.recsOf = runs[r].meas, !.review = 0]
    <2>1. MutateRun(r, new)
      BY <1>7 DEF CompleteCommit, Recommended
    <2>2. j \in Nat /\ runs[r].meas \in Nat
      BY <1>1, <1>3, JobIsNat DEF Run
    <2>3. staged \in Run
      BY <1>3, <2>2 DEF WithStage, Run, StageStates
    <2>4. /\ staged.state = runs[r].state /\ staged.stage = "completed"
          /\ staged.inputs = runs[r].inputs /\ staged.approval = runs[r].approval
          /\ staged.meas = runs[r].meas /\ staged.measOf = runs[r].measOf
      BY <1>3, <2>2 DEF WithStage, Run
    <2> HIDE DEF staged
    <2>5. /\ new \in Run /\ new.state = runs[r].state /\ new.stage = "completed"
          /\ new.inputs = runs[r].inputs /\ new.approval = runs[r].approval
          /\ new.meas = runs[r].meas /\ new.measOf = runs[r].measOf
          /\ new.recsOf = new.meas /\ new.review = 0
      BY <1>3, <2>2, <2>3, <2>4 DEF Run
    <2> HIDE DEF new
    <2>6. IsSound(new)
      BY <1>3, <2>5 DEF IsSound, ApprovedAsShown, ResultsAsApproved
    <2>7. new.stage \notin BusyStages
      BY <2>5 DEF BusyStages
    <2> HIDE DEF j
    <2> QED
      BY <1>1, <1>4, <1>7, <2>1, <2>5, <2>6, <2>7, ClosingStep DEF TerminalStates, ActiveStates
  <1> QED BY <1>2, <1>5, <1>6, <1>7 DEF JobTypes, EvaluationTypes

\* What only renews a lease keeps the type of every job.
LEMMA RenewalKeepsTypes ==
    ASSUME TypeOK, NEW w \in Workers, HeartbeatWrite(w) \/ EnsureActive(w)
    PROVE  \A k \in JobIds : jobs'[k].type = jobs[k].type
  <1> DEFINE j == wk[w].job
  <1>1. CASE jobs' = jobs
    BY <1>1
  <1>2. CASE jobs' # jobs
    <2>1. PICK t : jobs' = [jobs EXCEPT ![j].ttl = t]
      BY <1>2 DEF HeartbeatWrite, EnsureActive
    <2>2. ASSUME NEW k \in JobIds PROVE jobs'[k].type = jobs[k].type
      <3>1. jobs[k] \in Job /\ jobs \in [JobIds -> Job]
        BY DEF TypeOK
      <3> HIDE DEF j
      <3> QED BY <2>1, <3>1 DEF Job
    <2> QED BY <2>2
  <1> QED BY <1>1, <1>2

\* Every other step leaves runs and jobs as they stand.
LEMMA OtherStepsStand ==
    ASSUME IInv,
           \/ UNCHANGED vars
           \/ Tick
           \/ \E w \in Workers :
                 \/ \E j \in JobIds : RecoverScan(w, j) \/ LeaseStale(w, j)
                 \/ RecoverNothing(w) \/ RecoverSkip(w) \/ RecoverConflict(w)
                 \/ LeaseNothing(w) \/ HandlerRead(w) \/ HandlerEnds(w) \/ HandlerLost(w)
                 \/ HeartbeatRead(w) \/ HeartbeatWrite(w)
                 \/ EnsureActive(w) \/ EnsureLost(w) \/ FinalRead(w) \/ CompleteConflict(w)
                 \/ Crash(w) \/ Restart(w)
           \/ \E c \in Cancellers : CancelGivesUp(c) \/ \E j \in JobIds : CancelRead(c, j)
    PROVE  Stands
  <1>1. CASE UNCHANGED <<runs, jobs, overwritten>>
    BY <1>1 DEF Stands
  <1>2. CASE Tick
    <2>1. ASSUME NEW k \in JobIds
          PROVE  /\ jobs'[k].st = jobs[k].st /\ jobs'[k].type = jobs[k].type
                 /\ jobs'[k].run = jobs[k].run /\ jobs'[k].rev = jobs[k].rev
      <3>1. jobs[k] \in Job
        BY DEF IInv, TypeOK
      <3>2. jobs'[k] = jobs[k] \/ jobs'[k] = [jobs[k] EXCEPT !.ttl = jobs[k].ttl - 1]
        BY <1>2 DEF Tick
      <3> QED BY <3>1, <3>2 DEF Job
    <2> QED BY <1>2, <2>1 DEF Tick, Stands
  <1>3. ASSUME NEW w \in Workers, HeartbeatWrite(w) \/ EnsureActive(w) PROVE Stands
    <2>1. SameRows /\ UNCHANGED runs
      BY <1>3, RowsKept
    <2>2. \A k \in JobIds : jobs'[k].type = jobs[k].type
      BY <1>3, RenewalKeepsTypes DEF IInv
    <2>3. UNCHANGED overwritten
      BY <1>3 DEF HeartbeatWrite, EnsureActive
    <2> QED BY <2>1, <2>2, <2>3 DEF SameRows, Stands
  <1> QED
    BY <1>1, <1>2, <1>3 DEF vars, RecoverScan, LeaseStale, RecoverNothing, RecoverSkip,
       RecoverConflict, LeaseNothing, HandlerRead, HandlerEnds, HandlerLost, HeartbeatRead,
       EnsureLost, FinalRead, CompleteConflict, Crash, Restart, CancelGivesUp, CancelRead

\* The cases together.
LEMMA RunStepCases ==
    ASSUME IInv, RunsAreSound, QueuedEvaluationsAreShown, [Next]_vars
    PROVE  RunStep /\ RunsAreSound'
  <1>1. ASSUME Stands PROVE RunStep /\ RunsAreSound'
    BY <1>1 DEF Stands, RunStep, RunsAreSound
  <1>2. CASE UNCHANGED vars \/ Tick
    BY <1>1, <1>2, OtherStepsStand
  <1>3. CASE ClientStep
    BY <1>1, <1>3, DecisionsAreSteps, AdmissionsAreSteps, InterruptionsAreSteps, OtherStepsStand
       DEF ClientStep
  <1>4. ASSUME NEW w \in Workers,
               WorkerStep(w) \/ HeartbeatRead(w) \/ HeartbeatWrite(w) \/ Crash(w) \/ Restart(w)
        PROVE  RunStep /\ RunsAreSound'
    <2>1. ASSUME NEW j \in JobIds, Lease(w, j) PROVE RunStep /\ RunsAreSound'
      BY <2>1, LeaseIsStep
    <2>2. CASE CompleteCommit(w)
      BY <2>2, CompletionIsStep
    <2>3. CASE RecoverCommit(w) \/ FailCommit(w)
      BY <2>3, InterruptionsAreSteps
    <2> QED BY <1>1, <1>4, <2>1, <2>2, <2>3, OtherStepsStand DEF WorkerStep
  <1> QED BY <1>2, <1>3, <1>4 DEF Next

----------------------------------------------------------------------------
(* The theorems.                                                           *)

\* At the start every run is a draft without jobs or results.
LEMMA RunInit == Init => RunInv
  <1> SUFFICES ASSUME Init PROVE RunInv
    OBVIOUS
  <1>1. \A r \in Runs : runs[r] = NewRun
    BY DEF Init
  <1>2. \A j \in JobIds : jobs[j].st = "absent"
    BY DEF Init, NoJob
  <1>3. NoOrphanedRun /\ NoPhantomJob /\ StagesHaveResults
    BY <1>1, <1>2 DEF NewRun, NoOrphanedRun, NoPhantomJob, StagesHaveResults, ActiveJobs, ActiveStates
  <1>4. RunsAreSound
    BY <1>1 DEF NewRun, RunsAreSound, IsSound, ApprovedAsShown, ResultsAsApproved
  <1>5. QueuedEvaluationsAreShown
    BY <1>2 DEF QueuedEvaluationsAreShown
  <1> QED BY <1>3, <1>4, <1>5 DEF RunInv

\* Every step of the queue keeps it.
LEMMA RunInvStep ==
    ASSUME IInv, IInv', RunInv, [Next]_vars
    PROVE  RunInv'
  <1>1. RunStep /\ RunsAreSound'
    BY RunStepCases DEF RunInv
  <1>2. TypeOK /\ TypeOK' /\ JobsBehindRuns
    BY DEF IInv
  <1>3. NoOrphanedRun'
    BY <1>1, <1>2, NoOrphanStep DEF RunInv
  <1>4. NoPhantomJob' /\ StagesHaveResults'
    BY <1>1, <1>2, NoPhantomStep DEF RunInv
  <1>5. QueuedEvaluationsAreShown'
    BY <1>1, <1>2, QueuedEvaluationsStep DEF RunInv
  <1> QED BY <1>1, <1>3, <1>4, <1>5 DEF RunInv

\* Runs, jobs and results stay consistent: the invariant the theorems below
\* rest on.
THEOREM RunsStayConsistent == Spec => [](IInv /\ RunInv)
  <1>1. Init => RunInv
    BY RunInit
  <1>2. (IInv /\ RunInv) /\ IInv' /\ [Next]_vars => RunInv'
    BY RunInvStep
  <1> QED BY <1>1, <1>2, InvariantHolds, PTL DEF Spec

\* A run shown as busy has a job that will move it on, whatever failed, expired
\* or was cancelled.
THEOREM NoRunIsOrphaned == Spec => []NoOrphanedRun
  <1>1. RunInv => NoOrphanedRun
    BY DEF RunInv
  <1> QED BY <1>1, RunsStayConsistent, PTL

\* A job that works is the only one of a run that shows it, unless a job of that
\* run was rewritten after its end.
THEOREM JobsAreShown == Spec => []NoPhantomJob
  <1>1. RunInv => NoPhantomJob
    BY DEF RunInv
  <1> QED BY <1>1, RunsStayConsistent, PTL

\* Results are about the inputs the owner has approved, reports about the
\* current measurement, reviews about the current report.
THEOREM ResultsAreOfApprovedInputs == Spec => []ResultsMatchApproval
  <1>1. RunInv => ResultsMatchApproval
    BY DEF RunInv, RunsAreSound, IsSound, ResultsAsApproved, ResultsMatchApproval
  <1> QED BY <1>1, RunsStayConsistent, PTL

\* No step changes an exported run, unless it rewrites a job that had ended.
LEMMA ExportedRunsKept ==
    ASSUME RunInv, RunStep
    PROVE  ExportedUnchanged
  <1> SUFFICES ASSUME NEW q \in Runs, runs[q].state = "exported", q \notin overwritten'
               PROVE  runs'[q] = runs[q]
    BY DEF ExportedUnchanged
  <1>1. Clean(q)
    BY DEF RunStep, Stands, Decides, Admits, Begins, Closes, Clean
  <1>2. ActiveJobs(q) = {}
    BY <1>1 DEF RunInv, NoPhantomJob, StagesHaveResults, Drives
  <1>3. ASSUME NEW r \in Runs, Decides(r) PROVE runs'[q] = runs[q]
    BY <1>3 DEF Decides, Moved, OtherRunsKept
  <1>4. ASSUME NEW r \in Runs, NEW j \in JobIds, Admits(r, j) PROVE runs'[q] = runs[q]
    BY <1>4 DEF Admits, Moved, OtherRunsKept
  <1>5. ASSUME NEW r \in Runs, NEW j \in JobIds, Begins(r, j) PROVE runs'[q] = runs[q]
    BY <1>2, <1>5 DEF Begins, Moved, OtherRunsKept, ActiveJobs, ActiveStates
  <1>6. ASSUME NEW r \in Runs, NEW j \in JobIds, Closes(r, j) PROVE runs'[q] = runs[q]
    BY <1>2, <1>6 DEF Closes, Moved, OtherRunsKept, ActiveJobs
  <1> QED BY <1>3, <1>4, <1>5, <1>6 DEF RunStep, Stands

\* An exported run is final.
THEOREM ExportsStay == Spec => ExportsAreFrozen
  <1>1. IInv /\ RunInv /\ [Next]_vars => ExportedUnchanged \/ UNCHANGED vars
    BY RunStepCases, ExportedRunsKept DEF RunInv
  <1> QED BY <1>1, RunsStayConsistent, PTL DEF Spec, ExportsAreFrozen
=============================================================================
