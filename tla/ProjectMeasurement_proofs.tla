---------------------- MODULE ProjectMeasurement_proofs ----------------------
(***************************************************************************)
(* Proofs about ProjectMeasurement, for any number of runs, workers and    *)
(* jobs and any queue limit.                                               *)
(***************************************************************************)
EXTENDS ProjectMeasurement, TLAPS

Admitted == 1..(nextJob - 1)

\* Jobs are numbered as they are admitted.
Numbered ==
    \A j \in JobIds :
        /\ j < nextJob => jobs[j].st # "absent" /\ jobs[j].run \in Runs
        /\ j >= nextJob => jobs[j] = NoJob

\* The stage record of a run is about what its measurement contains if any stage
\* job is about that measurement: a measurement is saved anew after the stages
\* before it, even if it contains the same.
StagesBehind ==
    /\ \A r \in Runs : runs[r].meas <= runs[r].rev
    /\ \A k \in JobIds : jobs[k].type = "agent-stage" /\ jobs[k].run \in Runs =>
          LET r == jobs[k].run
          IN  /\ 0 < jobs[k].of /\ jobs[k].of <= runs[r].rev
              /\ jobs[k].of = runs[r].meas => runs[r].stageOf = runs[r].content

\* What a worker has decided still holds when it acts, unless the revision that
\* it compares has moved.
Knows(w) ==
    LET j == wk[w].job
        r == jobs[j].run
    IN  /\ wk[w].todo \subseteq Admitted
        /\ wk[w].pc \in {"work", "read", "approve", "enqueue"} => j \in Admitted
        /\ wk[w].pc \in {"approve", "enqueue"} => wk[w].seen.rev <= runs[r].rev
        /\ wk[w].pc = "approve" => jobs[j].type = "prepare"
        /\ wk[w].pc = "enqueue" /\ jobs[j].type # "prepare" =>
              /\ jobs[j].type # "agent-stage"
              /\ Requested(j)
              /\ wk[w].seen.rev = runs[r].rev => StageDue(r)

\* The inductive invariant.
IInv ==
    /\ TypeOK
    /\ Numbered
    /\ StagesBehind
    /\ AutomaticOnlyOnce
    /\ SpendIsRequested
    /\ \A w \in Workers : Knows(w)

----------------------------------------------------------------------------
(* What a step may do to the rows.                                         *)

\* A step that admits no job keeps what the rows were admitted with.
RowsKept ==
    /\ nextJob' = nextJob
    /\ jobs' \in [JobIds -> Job]
    /\ \A j \in JobIds :
          /\ jobs'[j] = jobs[j] \/ (j < nextJob /\ jobs'[j].st # "absent")
          /\ jobs'[j].type = jobs[j].type /\ jobs'[j].run = jobs[j].run
          /\ jobs'[j].auto = jobs[j].auto /\ jobs'[j].source = jobs[j].source
          /\ jobs'[j].want = jobs[j].want /\ jobs'[j].of = jobs[j].of

\* The measurement is the one that was there, none, or one saved by this write.
Resaved(old, new) ==
    \/ new.meas = old.meas /\ new.content = old.content
    \/ new.meas \in {0, old.rev + 1}

\* A run that is written moves on, and a new measurement is the newest thing.
RunsMove ==
    /\ runs' \in [Runs -> Run]
    /\ \A r \in Runs :
          \/ runs'[r] = runs[r]
          \/ /\ runs'[r].rev = runs[r].rev + 1
             /\ runs'[r].stageOf = runs[r].stageOf
             /\ Resaved(runs[r], runs'[r])

\* What an admission needs to know of its job.
Proper(r, job) ==
    /\ r \in Runs /\ job \in Job /\ job.st = "queued" /\ job.run = r
    /\ job.type = "agent-stage" => job.of = runs[r].meas /\ runs[r].meas # 0
    /\ job.auto => job.type \in {"evaluate", "agent-stage"}
    /\ job.auto /\ job.type = "evaluate" =>
          \A k \in JobIds : jobs[k].run = r /\ jobs[k].type = "evaluate" => ~jobs[k].auto
    /\ job.auto /\ job.type = "agent-stage" =>
          /\ \A k \in StageJobs(r) : jobs[k].of # runs[r].meas
          /\ \E j \in JobIds : /\ j < nextJob /\ jobs[j].run = r
                               /\ jobs[j].want \/ (jobs[j].type = "agent-stage" /\ ~jobs[j].auto)

\* What a worker may rely on after any step.
Forward ==
    /\ runs' \in [Runs -> Run]
    /\ Admitted \subseteq Admitted'
    /\ \A j \in Admitted : /\ jobs'[j].type = jobs[j].type /\ jobs'[j].run = jobs[j].run
                           /\ jobs'[j].want = jobs[j].want
    /\ \A r \in Runs : /\ runs'[r].rev >= runs[r].rev
                       /\ StageJobs(r) \subseteq StageJobs(r)'
                       /\ runs'[r].rev = runs[r].rev =>
                             runs'[r] = runs[r] /\ StageJobs(r)' = StageJobs(r)

\* Job numbers are natural numbers, and those admitted are rows of runs.
LEMMA JobFacts ==
    ASSUME TypeOK, Numbered
    PROVE  /\ JobIds \subseteq Nat /\ nextJob \in Nat /\ Admitted \subseteq JobIds
           /\ \A j \in JobIds : j \in Admitted <=> j < nextJob
           /\ \A j \in JobIds : j \in Admitted <=> jobs[j].st # "absent"
           /\ \A j \in Admitted : jobs[j] \in Job /\ jobs[j].run \in Runs
  <1>1. MaxJobs \in Nat /\ nextJob \in 1..(MaxJobs + 1)
    BY ConstantsAssumption DEF TypeOK
  <1>2. JobIds \subseteq Nat /\ nextJob \in Nat /\ Admitted \subseteq JobIds
        /\ \A j \in JobIds : j \in Admitted <=> j < nextJob
    BY <1>1 DEF JobIds, Admitted
  <1>3. NoJob.st = "absent"
    BY DEF NoJob
  <1>4. \A j \in JobIds : j < nextJob \/ j >= nextJob
    BY <1>2
  <1> QED BY <1>2, <1>3, <1>4 DEF Numbered, TypeOK

\* A row that is not as it was before any admission is the row of a job.
LEMMA AdmittedRow ==
    ASSUME TypeOK, Numbered, NEW j \in JobIds,
           jobs[j].st # "absent" \/ jobs[j].type # "prepare"
    PROVE  j \in Admitted
  <1>1. NoJob.st = "absent" /\ NoJob.type = "prepare"
    BY DEF NoJob
  <1>2. ~(j >= nextJob)
    BY <1>1 DEF Numbered
  <1> QED BY <1>2, JobFacts

\* _mutate_run yields a well-formed run and leaves the others alone.
LEMMA WriteEffect ==
    ASSUME TypeOK, NEW r \in Runs, NEW new \in Run, Write(r, new)
    PROVE  /\ runs' \in [Runs -> Run]
           /\ runs'[r] = [new EXCEPT !.rev = runs[r].rev + 1]
           /\ runs'[r].rev = runs[r].rev + 1
           /\ runs'[r].meas = new.meas /\ runs'[r].content = new.content
           /\ runs'[r].stageOf = new.stageOf
           /\ \A q \in Runs : q # r => runs'[q] = runs[q]
  <1>1. runs \in [Runs -> Run] /\ runs[r].rev \in Nat
    BY DEF TypeOK, Run
  <1>2. [new EXCEPT !.rev = runs[r].rev + 1] \in Run
    BY <1>1 DEF Run
  <1>3. /\ [new EXCEPT !.rev = runs[r].rev + 1].rev = runs[r].rev + 1
        /\ [new EXCEPT !.rev = runs[r].rev + 1].meas = new.meas
        /\ [new EXCEPT !.rev = runs[r].rev + 1].content = new.content
        /\ [new EXCEPT !.rev = runs[r].rev + 1].stageOf = new.stageOf
    BY DEF Run
  <1> QED BY <1>1, <1>2, <1>3 DEF Write

\* A mutation that leaves the stage's subject alone and whose measurement is the
\* old one, none, or a new one.
LEMMA WriteMoves ==
    ASSUME TypeOK, NEW r \in Runs, NEW new \in Run, Write(r, new),
           new.stageOf = runs[r].stageOf,
           Resaved(runs[r], new)
    PROVE  RunsMove
  <1>1. /\ runs' \in [Runs -> Run]
        /\ runs'[r].rev = runs[r].rev + 1
        /\ runs'[r].meas = new.meas /\ runs'[r].content = new.content
        /\ runs'[r].stageOf = new.stageOf
        /\ \A q \in Runs : q # r => runs'[q] = runs[q]
    BY WriteEffect
  <1>2. /\ runs'[r].stageOf = runs[r].stageOf
        /\ Resaved(runs[r], runs'[r])
    BY <1>1 DEF Resaved
  <1> QED BY <1>1, <1>2 DEF RunsMove

\* Nothing at all.
LEMMA NothingMoves ==
    ASSUME TypeOK, UNCHANGED runs
    PROVE  RunsMove
  BY DEF RunsMove, TypeOK

\* No row is touched.
LEMMA NothingKept ==
    ASSUME TypeOK, UNCHANGED <<jobs, nextJob>>
    PROVE  RowsKept
  BY DEF RowsKept, TypeOK

\* A change of the state and the holder of a job.
LEMMA StatusKept ==
    ASSUME TypeOK, Numbered, NEW j \in Admitted, NEW st \in JobStates \ {"absent"},
           NEW by \in Workers \cup {None},
           jobs' = [jobs EXCEPT ![j] = [jobs[j] EXCEPT !.st = st, !.by = by]],
           nextJob' = nextJob
    PROVE  RowsKept
  <1> DEFINE row == [jobs[j] EXCEPT !.st = st, !.by = by]
  <1>1. j \in JobIds /\ jobs[j] \in Job /\ j < nextJob
    BY JobFacts
  <1>2. /\ row \in Job /\ row.st = st
        /\ row.type = jobs[j].type /\ row.run = jobs[j].run
        /\ row.auto = jobs[j].auto /\ row.source = jobs[j].source
        /\ row.want = jobs[j].want /\ row.of = jobs[j].of
    BY <1>1 DEF Job
  <1> HIDE DEF row
  <1>3. jobs' = [jobs EXCEPT ![j] = row] /\ jobs \in [JobIds -> Job]
    BY DEF row, TypeOK
  <1>4. /\ jobs' \in [JobIds -> Job] /\ jobs'[j] = row
        /\ \A k \in JobIds : k # j => jobs'[k] = jobs[k]
    BY <1>1, <1>2, <1>3
  <1> QED BY <1>1, <1>2, <1>4 DEF RowsKept

\* The end of a job.
LEMMA EndKept ==
    ASSUME TypeOK, Numbered, NEW j \in Admitted,
           NEW outcome \in {"completed", "failed", "cancelled"},
           End(j, outcome), nextJob' = nextJob
    PROVE  RowsKept
  <1>1. j \in JobIds /\ jobs[j] \in Job
    BY JobFacts
  <1>2. jobs' = [jobs EXCEPT ![j] = [jobs[j] EXCEPT !.st = outcome, !.by = None]]
    BY <1>1 DEF End, TypeOK
  <1>3. outcome \in JobStates \ {"absent"}
    BY DEF JobStates, ActiveStates
  <1> QED BY <1>2, <1>3, StatusKept

----------------------------------------------------------------------------
(* Steps that admit no job.                                                *)

\* Rows that are kept stay numbered.
LEMMA KeptNumbered ==
    ASSUME TypeOK, Numbered, RowsKept
    PROVE  Numbered'
  BY JobFacts DEF Numbered, RowsKept

\* No mutation of a run brings back a measurement some stage was about.
LEMMA KeptStages ==
    ASSUME TypeOK, StagesBehind, RowsKept, RunsMove
    PROVE  StagesBehind'
  <1>1. \A r \in Runs : /\ runs[r].rev \in Nat /\ runs[r].meas \in Nat
                        /\ runs[r].meas <= runs[r].rev
    BY DEF StagesBehind, TypeOK, Run
  <1>2. ASSUME NEW r \in Runs PROVE runs'[r].meas <= runs'[r].rev
    <2>1. CASE runs'[r] = runs[r]
      BY <2>1, <1>1
    <2>2. CASE /\ runs'[r].rev = runs[r].rev + 1
               /\ Resaved(runs[r], runs'[r])
      BY <2>2, <1>1 DEF Resaved
    <2> QED BY <2>1, <2>2 DEF RunsMove
  <1>3. ASSUME NEW k \in JobIds, jobs'[k].type = "agent-stage", jobs'[k].run \in Runs
        PROVE  /\ 0 < jobs'[k].of /\ jobs'[k].of <= runs'[jobs'[k].run].rev
               /\ jobs'[k].of = runs'[jobs'[k].run].meas =>
                     runs'[jobs'[k].run].stageOf = runs'[jobs'[k].run].content
    <2> DEFINE r == jobs[k].run
               of == jobs[k].of
    <2>1. jobs'[k].run = r /\ jobs'[k].of = of /\ r \in Runs /\ jobs[k].type = "agent-stage"
      BY <1>3 DEF RowsKept
    <2>2. 0 < of /\ of <= runs[r].rev /\ (of = runs[r].meas => runs[r].stageOf = runs[r].content)
      BY <2>1 DEF StagesBehind
    <2>3. of \in Nat
      BY DEF TypeOK, Job
    <2>4. CASE runs'[r] = runs[r]
      BY <2>1, <2>2, <2>4
    <2>5. CASE /\ runs'[r].rev = runs[r].rev + 1
               /\ runs'[r].stageOf = runs[r].stageOf
               /\ Resaved(runs[r], runs'[r])
      BY <2>1, <2>2, <2>3, <2>5, <1>1 DEF Resaved
    <2> QED BY <2>1, <2>4, <2>5 DEF RunsMove
  <1> QED BY <1>2, <1>3 DEF StagesBehind

\* Which jobs are automatic, and who asked for them, is settled at admission.
LEMMA KeptChain ==
    ASSUME AutomaticOnlyOnce, SpendIsRequested, RowsKept
    PROVE  AutomaticOnlyOnce' /\ SpendIsRequested'
  <1>1. \A j \in JobIds : /\ jobs'[j].type = jobs[j].type /\ jobs'[j].run = jobs[j].run
                          /\ jobs'[j].auto = jobs[j].auto
                          /\ jobs'[j].want = jobs[j].want /\ jobs'[j].of = jobs[j].of
    BY DEF RowsKept
  <1>2. AutomaticOnlyOnce'
    BY <1>1 DEF AutomaticOnlyOnce
  <1>3. SpendIsRequested'
    BY <1>1 DEF SpendIsRequested
  <1> QED BY <1>2, <1>3

\* A revision that has not moved is that of an unchanged run and stage history.
LEMMA KeptForward ==
    ASSUME TypeOK, Numbered, RowsKept, RunsMove
    PROVE  Forward
  <1>1. Admitted' = Admitted
    BY DEF Admitted, RowsKept
  <1>2. \A r \in Runs : StageJobs(r)' = StageJobs(r)
    BY DEF StageJobs, RowsKept
  <1>3. \A r \in Runs : runs[r].rev \in Nat
    BY DEF TypeOK, Run
  <1>4. \A r \in Runs : /\ runs'[r].rev >= runs[r].rev
                        /\ runs'[r].rev = runs[r].rev => runs'[r] = runs[r]
    BY <1>3 DEF RunsMove
  <1>5. \A j \in Admitted : /\ jobs'[j].type = jobs[j].type /\ jobs'[j].run = jobs[j].run
                            /\ jobs'[j].want = jobs[j].want
    BY JobFacts DEF RowsKept
  <1> QED BY <1>1, <1>2, <1>4, <1>5 DEF Forward, RunsMove

----------------------------------------------------------------------------
(* Steps that admit a job.                                                 *)

\* The row and the run an admission leaves behind.
LEMMA AdmitEffect ==
    ASSUME TypeOK, NEW r, NEW job, Proper(r, job), Admit(r, job)
    PROVE  /\ nextJob \in JobIds /\ nextJob' = nextJob + 1
           /\ jobs' \in [JobIds -> Job] /\ jobs'[nextJob] = job
           /\ \A j \in JobIds : j # nextJob => jobs'[j] = jobs[j]
           /\ runs' \in [Runs -> Run]
           /\ runs'[r].rev = runs[r].rev + 1
           /\ runs'[r].meas = runs[r].meas /\ runs'[r].content = runs[r].content
           /\ runs'[r].stageOf = IF job.type = "agent-stage" THEN runs[r].content
                                                             ELSE runs[r].stageOf
           /\ \A q \in Runs : q # r => runs'[q] = runs[q]
  <1>1. r \in Runs /\ job \in Job /\ runs[r] \in Run
    BY DEF Proper, TypeOK
  <1>2. /\ nextJob \in JobIds /\ nextJob' = nextJob + 1
        /\ jobs' = [jobs EXCEPT ![nextJob] = job] /\ jobs \in [JobIds -> Job]
    BY DEF Admit, TypeOK
  <1>3. /\ jobs' \in [JobIds -> Job] /\ jobs'[nextJob] = job
        /\ \A j \in JobIds : j # nextJob => jobs'[j] = jobs[j]
    BY <1>1, <1>2
  <1>4. PICK new \in Run : /\ Write(r, new)
                           /\ new.meas = runs[r].meas /\ new.content = runs[r].content
                           /\ new.stageOf = IF job.type = "agent-stage" THEN runs[r].content
                                                                        ELSE runs[r].stageOf
    <2>1. CASE job.type = "prepare"
      <3> DEFINE new == [runs[r] EXCEPT !.state = "preparing"]
      <3>1. new \in Run /\ new.stageOf = runs[r].stageOf
            /\ new.meas = runs[r].meas /\ new.content = runs[r].content
        BY <1>1 DEF Run, RunStates
      <3>2. Write(r, new)
        BY <2>1 DEF Admit
      <3> HIDE DEF new
      <3> QED BY <2>1, <3>1, <3>2
    <2>2. CASE job.type = "agent-stage"
      <3> DEFINE new == [runs[r] EXCEPT !.stage = "queued", !.stageOf = runs[r].content]
      <3>1. new \in Run /\ new.stageOf = runs[r].content
            /\ new.meas = runs[r].meas /\ new.content = runs[r].content
        BY <1>1 DEF Run, StageStates
      <3>2. Write(r, new)
        BY <2>2 DEF Admit
      <3> HIDE DEF new
      <3> QED BY <2>2, <3>1, <3>2
    <2>3. CASE job.type # "prepare" /\ job.type # "agent-stage"
      <3> DEFINE new == [runs[r] EXCEPT !.state = "queued"]
      <3>1. new \in Run /\ new.stageOf = runs[r].stageOf
            /\ new.meas = runs[r].meas /\ new.content = runs[r].content
        BY <1>1 DEF Run, RunStates
      <3>2. Write(r, new)
        BY <2>3 DEF Admit
      <3> HIDE DEF new
      <3> QED BY <2>3, <3>1, <3>2
    <2> QED BY <2>1, <2>2, <2>3
  <1>5. /\ runs' \in [Runs -> Run]
        /\ runs'[r].rev = runs[r].rev + 1
        /\ runs'[r].meas = new.meas /\ runs'[r].content = new.content
        /\ runs'[r].stageOf = new.stageOf
        /\ \A q \in Runs : q # r => runs'[q] = runs[q]
    BY <1>1, <1>4, WriteEffect
  <1> QED BY <1>2, <1>3, <1>4, <1>5

\* A new row takes the next number.
LEMMA AdmitNumbered ==
    ASSUME TypeOK, Numbered, NEW r, NEW job, Proper(r, job), Admit(r, job)
    PROVE  Numbered'
  <1>1. /\ nextJob \in JobIds /\ nextJob' = nextJob + 1 /\ jobs'[nextJob] = job
        /\ \A j \in JobIds : j # nextJob => jobs'[j] = jobs[j]
    BY AdmitEffect
  <1>2. job.st # "absent" /\ job.run \in Runs
    BY DEF Proper
  <1>3. JobIds \subseteq Nat /\ nextJob \in Nat
    BY JobFacts
  <1>4. ASSUME NEW j \in JobIds
        PROVE  /\ j < nextJob' => jobs'[j].st # "absent" /\ jobs'[j].run \in Runs
               /\ j >= nextJob' => jobs'[j] = NoJob
    <2>1. CASE j = nextJob
      BY <2>1, <1>1, <1>2, <1>3
    <2>2. CASE j # nextJob
      <3>1. (j < nextJob' => j < nextJob) /\ (j >= nextJob' => j >= nextJob)
        BY <2>2, <1>1, <1>3
      <3> QED BY <2>2, <3>1, <1>1 DEF Numbered
    <2> QED BY <2>1, <2>2
  <1> QED BY <1>4 DEF Numbered

\* A new stage is recorded in its run, as being about the current measurement.
LEMMA AdmitStages ==
    ASSUME TypeOK, Numbered, StagesBehind, NEW r, NEW job, Proper(r, job), Admit(r, job)
    PROVE  StagesBehind'
  <1>1. /\ nextJob \in JobIds /\ jobs'[nextJob] = job
        /\ \A j \in JobIds : j # nextJob => jobs'[j] = jobs[j]
        /\ runs'[r].rev = runs[r].rev + 1
        /\ runs'[r].meas = runs[r].meas /\ runs'[r].content = runs[r].content
        /\ runs'[r].stageOf = IF job.type = "agent-stage" THEN runs[r].content
                                                          ELSE runs[r].stageOf
        /\ \A q \in Runs : q # r => runs'[q] = runs[q]
    BY AdmitEffect
  <1>2. \A q \in Runs : /\ runs[q].rev \in Nat /\ runs[q].meas \in Nat
                        /\ runs[q].meas <= runs[q].rev
    BY DEF StagesBehind, TypeOK, Run
  <1>3. r \in Runs /\ job.run = r
        /\ (job.type = "agent-stage" => job.of = runs[r].meas /\ runs[r].meas # 0)
    BY DEF Proper
  <1>4. \A q \in Runs : runs'[q].meas <= runs'[q].rev
    BY <1>1, <1>2, <1>3
  <1>5. ASSUME NEW k \in JobIds, jobs'[k].type = "agent-stage", jobs'[k].run \in Runs
        PROVE  /\ 0 < jobs'[k].of /\ jobs'[k].of <= runs'[jobs'[k].run].rev
               /\ jobs'[k].of = runs'[jobs'[k].run].meas =>
                     runs'[jobs'[k].run].stageOf = runs'[jobs'[k].run].content
    <2>1. CASE k = nextJob
      BY <2>1, <1>1, <1>2, <1>3, <1>5
    <2>2. CASE k # nextJob
      <3>1. jobs'[k] = jobs[k]
        BY <2>2, <1>1
      <3> DEFINE q == jobs[k].run
                 of == jobs[k].of
      <3>2. q \in Runs /\ of \in Nat
        BY <3>1, <1>5 DEF TypeOK, Job
      <3>3. 0 < of /\ of <= runs[q].rev /\ (of = runs[q].meas => runs[q].stageOf = runs[q].content)
        BY <3>1, <1>5 DEF StagesBehind
      <3>4. CASE q = r
        BY <3>1, <3>2, <3>3, <3>4, <1>1, <1>2
      <3>5. CASE q # r
        BY <3>1, <3>2, <3>3, <3>5, <1>1
      <3> QED BY <3>4, <3>5
    <2> QED BY <2>1, <2>2
  <1> QED BY <1>4, <1>5 DEF StagesBehind

\* An admission repeats no automatic step.
LEMMA AdmitOnce ==
    ASSUME TypeOK, Numbered, StagesBehind, AutomaticOnlyOnce,
           NEW r, NEW job, Proper(r, job), Admit(r, job)
    PROVE  AutomaticOnlyOnce'
  <1>1. /\ nextJob \in JobIds /\ jobs'[nextJob] = job
        /\ \A j \in JobIds : j # nextJob => jobs'[j] = jobs[j]
    BY AdmitEffect
  <1>2. JobIds \subseteq Nat /\ nextJob \in Nat
    BY JobFacts
  <1>3. SUFFICES ASSUME NEW j \in JobIds, NEW k \in JobIds, j # k, jobs'[j].auto,
                        jobs'[j].type = jobs'[k].type, jobs'[j].run = jobs'[k].run
                 PROVE  /\ jobs'[j].type = "evaluate" => ~jobs'[k].auto
                        /\ jobs'[j].type = "agent-stage" /\ jobs'[k].of = jobs'[j].of => j < k
    BY DEF AutomaticOnlyOnce
  <1>4. CASE j # nextJob /\ k # nextJob
    BY <1>1, <1>3, <1>4 DEF AutomaticOnlyOnce
  <1>5. CASE j = nextJob
    <2>1. jobs'[k] = jobs[k] /\ jobs[k].run = r /\ jobs[k].type = job.type /\ job.auto
      BY <1>1, <1>3, <1>5 DEF Proper
    <2>2. job.type = "evaluate" => ~jobs[k].auto
      BY <2>1 DEF Proper
    <2>3. job.type = "agent-stage" => jobs[k].of # job.of
      BY <2>1 DEF Proper, StageJobs
    <2> QED BY <1>1, <1>5, <2>1, <2>2, <2>3
  <1>6. CASE k = nextJob
    <2>1. jobs'[j] = jobs[j] /\ jobs[j].run = r /\ jobs[j].type = job.type
      BY <1>1, <1>3, <1>6 DEF Proper
    <2>2. jobs[j].auto
      BY <1>3, <2>1
    <2>3. job.type = "evaluate" => ~job.auto
      BY <2>1, <2>2 DEF Proper
    <2>4. j < nextJob
      <3>1. NoJob.auto = FALSE
        BY DEF NoJob
      <3>2. ~(j >= nextJob)
        BY <2>2, <3>1 DEF Numbered
      <3> QED BY <1>2, <3>2
    <2> QED BY <1>1, <1>6, <2>1, <2>3, <2>4
  <1> QED BY <1>4, <1>5, <1>6

\* An automatic stage has an earlier request to answer to.
LEMMA AdmitSpend ==
    ASSUME TypeOK, Numbered, SpendIsRequested,
           NEW r, NEW job, Proper(r, job), Admit(r, job)
    PROVE  SpendIsRequested'
  <1>1. /\ nextJob \in JobIds /\ jobs'[nextJob] = job
        /\ \A j \in JobIds : j # nextJob => jobs'[j] = jobs[j]
    BY AdmitEffect
  <1>2. JobIds \subseteq Nat /\ nextJob \in Nat
    BY JobFacts
  <1>3. SUFFICES ASSUME NEW k \in JobIds, jobs'[k].type = "agent-stage", jobs'[k].auto
                 PROVE  \E j \in JobIds :
                          /\ j < k /\ jobs'[j].run = jobs'[k].run
                          /\ jobs'[j].want \/ (jobs'[j].type = "agent-stage" /\ ~jobs'[j].auto)
    BY DEF SpendIsRequested
  <1>4. CASE k = nextJob
    <2>1. job.type = "agent-stage" /\ job.auto /\ job.run = r
      BY <1>1, <1>3, <1>4 DEF Proper
    <2>2. PICK j \in JobIds : /\ j < nextJob /\ jobs[j].run = r
                              /\ jobs[j].want \/ (jobs[j].type = "agent-stage" /\ ~jobs[j].auto)
      BY <2>1 DEF Proper
    <2>3. j # nextJob
      BY <2>2, <1>2
    <2>4. jobs'[j] = jobs[j]
      BY <2>3, <1>1
    <2> QED BY <1>1, <1>4, <2>1, <2>2, <2>4
  <1>5. CASE k # nextJob
    <2>1. jobs'[k] = jobs[k]
      BY <1>1, <1>5
    <2>2. k < nextJob
      <3>1. NoJob.auto = FALSE
        BY DEF NoJob
      <3>2. ~(k >= nextJob)
        BY <1>3, <2>1, <3>1 DEF Numbered
      <3> QED BY <1>2, <3>2
    <2>3. PICK j \in JobIds : /\ j < k /\ jobs[j].run = jobs[k].run
                              /\ jobs[j].want \/ (jobs[j].type = "agent-stage" /\ ~jobs[j].auto)
      BY <1>3, <2>1 DEF SpendIsRequested
    <2>4. j # nextJob
      BY <2>2, <2>3, <1>2
    <2>5. jobs'[j] = jobs[j]
      BY <2>4, <1>1
    <2> QED BY <2>1, <2>3, <2>5
  <1> QED BY <1>4, <1>5

\* An admission moves the revision of its run, and no other.
LEMMA AdmitForward ==
    ASSUME TypeOK, Numbered, NEW r, NEW job, Proper(r, job), Admit(r, job)
    PROVE  Forward
  <1>1. /\ nextJob \in JobIds /\ nextJob' = nextJob + 1 /\ jobs'[nextJob] = job
        /\ \A j \in JobIds : j # nextJob => jobs'[j] = jobs[j]
        /\ runs' \in [Runs -> Run] /\ runs'[r].rev = runs[r].rev + 1
        /\ \A q \in Runs : q # r => runs'[q] = runs[q]
    BY AdmitEffect
  <1>2. JobIds \subseteq Nat /\ nextJob \in Nat /\ Admitted \subseteq JobIds
        /\ \A j \in JobIds : j \in Admitted <=> j < nextJob
    BY JobFacts
  <1>3. Admitted \subseteq Admitted'
    BY <1>1, <1>2 DEF Admitted
  <1>4. \A j \in Admitted : j \in JobIds /\ j # nextJob
    BY <1>2
  <1>5. \A j \in Admitted : /\ jobs'[j].type = jobs[j].type /\ jobs'[j].run = jobs[j].run
                            /\ jobs'[j].want = jobs[j].want
    BY <1>1, <1>4
  <1>6. r \in Runs /\ job.run = r /\ \A q \in Runs : runs[q].rev \in Nat
    BY DEF Proper, TypeOK, Run
  <1>7. nextJob \notin StageJobs(r)
    <2>1. NoJob.type = "prepare"
      BY DEF NoJob
    <2>2. jobs[nextJob] = NoJob
      BY <1>1, <1>2 DEF Numbered
    <2> QED BY <2>1, <2>2 DEF StageJobs
  <1>8. StageJobs(r) \subseteq StageJobs(r)'
    BY <1>1, <1>7 DEF StageJobs
  <1>9. ASSUME NEW q \in Runs, q # r PROVE StageJobs(q)' = StageJobs(q)
    <2>1. NoJob.type = "prepare"
      BY DEF NoJob
    <2>2. nextJob \notin StageJobs(q) /\ nextJob \notin StageJobs(q)'
      BY <2>1, <1>1, <1>2, <1>6, <1>9 DEF Numbered, StageJobs
    <2> QED BY <2>2, <1>1 DEF StageJobs
  <1>10. ASSUME NEW q \in Runs
         PROVE  /\ runs'[q].rev >= runs[q].rev
                /\ StageJobs(q) \subseteq StageJobs(q)'
                /\ runs'[q].rev = runs[q].rev =>
                      runs'[q] = runs[q] /\ StageJobs(q)' = StageJobs(q)
    <2>1. CASE q = r
      BY <2>1, <1>1, <1>6, <1>8
    <2>2. CASE q # r
      BY <2>2, <1>1, <1>6, <1>9
    <2> QED BY <2>1, <2>2
  <1> QED BY <1>1, <1>3, <1>5, <1>10 DEF Forward

----------------------------------------------------------------------------
(* What the workers know.                                                  *)

\* Whether a stage is due depends on the run and its stage jobs only.
LEMMA StageDueKept ==
    ASSUME NEW r, runs'[r] = runs[r], StageJobs(r)' = StageJobs(r), StageDue(r)
    PROVE  StageDue(r)'
  BY DEF StageDue, MayStage

\* Recommendations that were asked for stay asked for.
LEMMA RequestedKept ==
    ASSUME TypeOK, Numbered, Forward, NEW j \in Admitted, Requested(j),
           NEW r, r = jobs[j].run
    PROVE  Requested(j)'
  <1>1. /\ jobs'[j].type = jobs[j].type /\ jobs'[j].run = r
        /\ jobs'[j].want = jobs[j].want
    BY DEF Forward
  <1>2. r \in Runs
    BY JobFacts
  <1>3. StageJobs(r) \subseteq StageJobs(r)'
    BY <1>2 DEF Forward
  <1>4. CASE jobs[j].type = "evaluate"
    BY <1>1, <1>4 DEF Requested
  <1>5. CASE jobs[j].type # "evaluate"
    <2>1. StageJobs(r) # {}
      BY <1>5 DEF Requested
    <2>2. StageJobs(r)' # {}
      BY <2>1, <1>3
    <2>3. {k \in JobIds : jobs'[k].run = jobs'[j].run /\ jobs'[k].type = "agent-stage"} # {}
      BY <2>2, <1>1 DEF StageJobs
    <2> QED BY <1>1, <1>5, <2>3 DEF Requested, StageJobs
  <1> QED BY <1>4, <1>5

\* A worker that does not move still knows what it knew.
LEMMA KnowsForward ==
    ASSUME TypeOK, Numbered, Forward, NEW w \in Workers, Knows(w), wk'[w] = wk[w]
    PROVE  Knows(w)'
  <1>1. wk'[w].todo \subseteq Admitted'
    BY DEF Knows, Forward
  <1>2. wk'[w].pc \in {"work", "read", "approve", "enqueue"} => wk'[w].job \in Admitted'
    BY DEF Knows, Forward
  <1>3. ASSUME wk[w].pc \in {"approve", "enqueue"},
               NEW j, j = wk[w].job, NEW r, r = jobs[j].run
        PROVE  /\ j \in Admitted
               /\ jobs'[j].run = r
               /\ wk[w].seen.rev <= runs'[r].rev
               /\ wk[w].pc = "approve" => jobs'[j].type = "prepare"
               /\ wk[w].pc = "enqueue" /\ jobs'[j].type # "prepare" =>
                     /\ jobs'[j].type # "agent-stage"
                     /\ Requested(j)'
                     /\ wk[w].seen.rev = runs'[r].rev => StageDue(r)'
    <2>1. j \in Admitted /\ wk[w].seen.rev <= runs[r].rev
      BY <1>3 DEF Knows
    <2>2. jobs'[j].type = jobs[j].type /\ jobs'[j].run = r /\ r \in Runs
      BY <2>1, <1>3, JobFacts DEF Forward
    <2>3. /\ runs'[r].rev >= runs[r].rev
          /\ runs'[r].rev = runs[r].rev => runs'[r] = runs[r] /\ StageJobs(r)' = StageJobs(r)
      BY <2>2 DEF Forward
    <2>4. wk[w].seen.rev \in Nat /\ runs[r].rev \in Nat /\ runs'[r].rev \in Nat
      BY <2>2 DEF TypeOK, WorkerState, Run, Forward
    <2>5. /\ wk[w].seen.rev <= runs'[r].rev
          /\ wk[w].seen.rev = runs'[r].rev => wk[w].seen.rev = runs[r].rev /\ runs'[r].rev = runs[r].rev
      BY <2>1, <2>3, <2>4
    <2>6. wk[w].pc = "approve" => jobs'[j].type = "prepare"
      BY <2>2, <1>3 DEF Knows
    <2>7. ASSUME wk[w].pc = "enqueue", jobs[j].type # "prepare"
          PROVE  /\ jobs[j].type # "agent-stage"
                 /\ Requested(j)'
                 /\ wk[w].seen.rev = runs'[r].rev => StageDue(r)'
      <3>1. /\ jobs[j].type # "agent-stage" /\ Requested(j)
            /\ wk[w].seen.rev = runs[r].rev => StageDue(r)
        BY <2>7, <1>3 DEF Knows
      <3>2. Requested(j)'
        BY <2>1, <3>1, RequestedKept
      <3>3. ASSUME wk[w].seen.rev = runs'[r].rev PROVE StageDue(r)'
        BY <3>1, <3>3, <2>3, <2>5, StageDueKept
      <3> QED BY <3>1, <3>2, <3>3
    <2> QED BY <2>1, <2>2, <2>5, <2>6, <2>7
  <1>4. ASSUME wk'[w].pc \in {"approve", "enqueue"}
        PROVE  /\ wk'[w].seen.rev <= runs'[jobs'[wk'[w].job].run].rev
               /\ wk'[w].pc = "approve" => jobs'[wk'[w].job].type = "prepare"
               /\ wk'[w].pc = "enqueue" /\ jobs'[wk'[w].job].type # "prepare" =>
                     /\ jobs'[wk'[w].job].type # "agent-stage"
                     /\ Requested(wk[w].job)'
                     /\ wk'[w].seen.rev = runs'[jobs'[wk'[w].job].run].rev =>
                           StageDue(jobs[wk[w].job].run)'
    BY <1>3, <1>4
  <1> QED BY <1>1, <1>2, <1>4 DEF Knows, Requested, StageDue, StageJobs, MayStage

\* A worker without a job knows enough if its list is one of admitted jobs.
LEMMA KnowsIdle ==
    ASSUME NEW w \in Workers, wk'[w].pc \in {"pass", "pending", "lease", "down"},
           wk'[w].todo \subseteq Admitted'
    PROVE  Knows(w)'
  BY DEF Knows

\* One worker moves.
LEMMA OthersKnow ==
    ASSUME TypeOK, Numbered, Forward, \A v \in Workers : Knows(v),
           NEW w \in Workers, Knows(w)', \A v \in Workers : v # w => wk'[v] = wk[v]
    PROVE  \A v \in Workers : Knows(v)'
  BY KnowsForward

\* No worker moves.
LEMMA AllKnow ==
    ASSUME TypeOK, Numbered, Forward, \A v \in Workers : Knows(v), UNCHANGED wk
    PROVE  \A v \in Workers : Knows(v)'
  BY KnowsForward

----------------------------------------------------------------------------
(* Putting a step together.                                                *)

\* The initial rows are well formed.
LEMMA Constants ==
    NewRun \in Run /\ NoJob \in Job /\ Passing \in WorkerState /\ Passing.todo = {}
  <1>1. NewRun \in Run
    BY DEF NewRun, Run, RunStates, StageStates
  <1>2. NoJob \in Job
    BY DEF NoJob, Job, JobStates, JobTypes
  <1>3. Passing \in WorkerState /\ Passing.todo = {}
    BY <1>1 DEF Passing, WorkerState, Phases
  <1> QED BY <1>1, <1>2, <1>3

\* A step without an admission preserves the invariant if the workers know enough.
LEMMA KeptStep ==
    ASSUME IInv, RowsKept, RunsMove, wk' \in [Workers -> WorkerState],
           \A w \in Workers : Knows(w)'
    PROVE  IInv'
  <1>1. TypeOK'
    BY DEF IInv, TypeOK, RowsKept, RunsMove
  <1>2. Numbered' /\ StagesBehind' /\ AutomaticOnlyOnce' /\ SpendIsRequested'
    BY KeptNumbered, KeptStages, KeptChain DEF IInv
  <1> QED BY <1>1, <1>2 DEF IInv

\* So does a proper admission.
LEMMA AdmitStep ==
    ASSUME IInv, NEW r, NEW job, Proper(r, job), Admit(r, job),
           wk' \in [Workers -> WorkerState], \A w \in Workers : Knows(w)'
    PROVE  IInv'
  <1>1. TypeOK'
    <2>1. /\ nextJob \in JobIds /\ nextJob' = nextJob + 1
          /\ jobs' \in [JobIds -> Job] /\ runs' \in [Runs -> Run]
      BY AdmitEffect DEF IInv
    <2>2. nextJob' \in 1..(MaxJobs + 1)
      BY <2>1, ConstantsAssumption DEF JobIds
    <2> QED BY <2>1, <2>2 DEF TypeOK
  <1>2. Numbered' /\ StagesBehind' /\ AutomaticOnlyOnce' /\ SpendIsRequested'
    BY AdmitNumbered, AdmitStages, AdmitOnce, AdmitSpend DEF IInv
  <1> QED BY <1>1, <1>2 DEF IInv

\* A worker moves to a new state, of which it knows enough.
LEMMA WorkerMoves ==
    ASSUME IInv, Forward, NEW w \in Workers, NEW new \in WorkerState,
           wk' = [wk EXCEPT ![w] = new], Knows(w)'
    PROVE  wk' \in [Workers -> WorkerState] /\ \A v \in Workers : Knows(v)'
  <1>1. wk \in [Workers -> WorkerState]
    BY DEF IInv, TypeOK
  <1>2. wk' \in [Workers -> WorkerState] /\ \A v \in Workers : v # w => wk'[v] = wk[v]
    BY <1>1
  <1>3. TypeOK /\ Numbered /\ \A v \in Workers : Knows(v)
    BY DEF IInv
  <1> QED BY <1>2, <1>3, OthersKnow

\* No worker moves.
LEMMA WorkersStay ==
    ASSUME IInv, Forward, UNCHANGED wk
    PROVE  wk' \in [Workers -> WorkerState] /\ \A v \in Workers : Knows(v)'
  BY AllKnow DEF IInv, TypeOK

\* A worker goes on without a job.
LEMMA GotoMoves ==
    ASSUME IInv, Forward, NEW w \in Workers, NEW pc \in {"pass", "pending", "lease", "down"},
           Goto(w, pc)
    PROVE  wk' \in [Workers -> WorkerState] /\ \A v \in Workers : Knows(v)'
  <1> DEFINE new == [wk[w] EXCEPT !.pc = pc]
  <1>1. wk \in [Workers -> WorkerState] /\ wk[w] \in WorkerState
    BY DEF IInv, TypeOK
  <1>2. new \in WorkerState /\ new.pc = pc /\ new.todo = wk[w].todo
    BY <1>1 DEF WorkerState, Phases
  <1>3. wk' = [wk EXCEPT ![w] = new]
    BY <1>1 DEF Goto
  <1> HIDE DEF new
  <1>4. wk'[w] = new
    BY <1>1, <1>3
  <1>5. wk[w].todo \subseteq Admitted'
    BY DEF IInv, Knows, Forward
  <1>6. Knows(w)'
    BY <1>2, <1>4, <1>5, KnowsIdle
  <1> QED BY <1>2, <1>3, <1>6, WorkerMoves

\* A worker starts over.
LEMMA NextPassMoves ==
    ASSUME IInv, Forward, NEW w \in Workers, NEW new \in WorkerState,
           wk' = [wk EXCEPT ![w] = new], new.pc \in {"pass", "pending", "lease", "down"},
           new.todo = {}
    PROVE  wk' \in [Workers -> WorkerState] /\ \A v \in Workers : Knows(v)'
  <1>1. wk'[w] = new
    BY DEF IInv, TypeOK
  <1>2. Knows(w)'
    BY <1>1, KnowsIdle
  <1> QED BY <1>2, WorkerMoves

\* reconcile_job returns to the pass it was called from.
LEMMA ReturnMoves ==
    ASSUME IInv, Forward, NEW w \in Workers, Return(w)
    PROVE  wk' \in [Workers -> WorkerState] /\ \A v \in Workers : Knows(v)'
  <1>1. CASE wk[w].late
    BY <1>1, GotoMoves DEF Return
  <1>2. CASE ~wk[w].late
    BY <1>2, NextPassMoves, Constants DEF Return, NextPass, Passing
  <1> QED BY <1>1, <1>2

\* A step that leaves runs and jobs alone.
LEMMA StillForward ==
    ASSUME IInv, UNCHANGED <<runs, jobs, nextJob>>
    PROVE  RowsKept /\ RunsMove /\ Forward
  BY NothingKept, NothingMoves, KeptForward DEF IInv

----------------------------------------------------------------------------
(* The owner's requests.                                                   *)

\* A request that enqueues a job on the owner's behalf.
LEMMA OwnerEnqueuesStep ==
    ASSUME IInv, NEW r, NEW job, Proper(r, job), OwnerEnqueues(r, job)
    PROVE  IInv'
  <1>1. Admit(r, job) /\ UNCHANGED wk
    BY DEF OwnerEnqueues
  <1>2. Forward
    BY <1>1, AdmitForward DEF IInv
  <1> QED BY <1>1, <1>2, WorkersStay, AdmitStep

\* A mutation of the run that the owner asks for.
LEMMA OwnerWritesStep ==
    ASSUME IInv, NEW r \in Runs, NEW new \in Run, OwnerWrites(r, new),
           new.stageOf = runs[r].stageOf,
           Resaved(runs[r], new)
    PROVE  IInv'
  <1>1. Write(r, new) /\ UNCHANGED <<jobs, nextJob, wk>>
    BY DEF OwnerWrites
  <1>2. RowsKept /\ RunsMove
    BY <1>1, NothingKept, WriteMoves DEF IInv
  <1>3. Forward
    BY <1>2, KeptForward DEF IInv
  <1> QED BY <1>1, <1>2, <1>3, WorkersStay, KeptStep

\* The jobs of the owner are well formed and not automatic.
LEMMA OwnerJobs ==
    ASSUME IInv, NEW r \in Runs
    PROVE  /\ \A type \in {"prepare", "recover-evaluators"} : Proper(r, NewJob(r, type))
           /\ \A want \in BOOLEAN : Proper(r, Evaluation(r, want, FALSE))
           /\ MayStage(r) => Proper(r, Stage(r, 0, FALSE))
  <1>1. NoJob \in Job
    BY Constants
  <1>2. runs[r].meas \in Nat
    BY DEF IInv, TypeOK, Run
  <1>3. ASSUME NEW type \in JobTypes
        PROVE  /\ NewJob(r, type) \in Job /\ NewJob(r, type).st = "queued"
               /\ NewJob(r, type).run = r /\ NewJob(r, type).type = type
               /\ NewJob(r, type).auto = FALSE
    BY <1>1 DEF NewJob, NoJob, Job, JobStates, ActiveStates
  <1>4. \A type \in {"prepare", "recover-evaluators"} : Proper(r, NewJob(r, type))
    BY <1>3 DEF Proper, JobTypes
  <1>5. ASSUME NEW want \in BOOLEAN PROVE Proper(r, Evaluation(r, want, FALSE))
    <2> DEFINE job == Evaluation(r, want, FALSE)
    <2>1. job \in Job /\ job.st = "queued" /\ job.run = r /\ job.type = "evaluate" /\ job.auto = FALSE
      BY <1>3 DEF Evaluation, JobTypes, Job
    <2> HIDE DEF job
    <2>2. Proper(r, job)
      BY <2>1 DEF Proper
    <2> QED BY <2>2 DEF job
  <1>6. ASSUME MayStage(r) PROVE Proper(r, Stage(r, 0, FALSE))
    <2> DEFINE job == Stage(r, 0, FALSE)
    <2>1. /\ job \in Job /\ job.st = "queued" /\ job.run = r
          /\ job.type = "agent-stage" /\ job.auto = FALSE /\ job.of = runs[r].meas
      BY <1>2, <1>3 DEF Stage, JobTypes, Job
    <2> HIDE DEF job
    <2>2. Proper(r, job)
      BY <2>1, <1>6 DEF Proper, MayStage
    <2> QED BY <2>2 DEF job
  <1> QED BY <1>4, <1>5, <1>6

\* The owner's requests about a run.
LEMMA OwnerRunStep ==
    ASSUME IInv, NEW r \in Runs,
           \/ Prepare(r) \/ RecoverEvaluators(r) \/ RequestReport(r)
           \/ \E want \in BOOLEAN : StartEvaluation(r, want)
           \/ ApproveQueries(r) \/ ReviseInputs(r) \/ Export(r)
    PROVE  IInv'
  <1>1. ASSUME Prepare(r) PROVE IInv'
    BY <1>1, OwnerJobs, OwnerEnqueuesStep DEF Prepare
  <1>2. ASSUME RecoverEvaluators(r) PROVE IInv'
    BY <1>2, OwnerJobs, OwnerEnqueuesStep DEF RecoverEvaluators
  <1>3. ASSUME RequestReport(r) PROVE IInv'
    BY <1>3, OwnerJobs, OwnerEnqueuesStep DEF RequestReport
  <1>4. ASSUME NEW want \in BOOLEAN, StartEvaluation(r, want) PROVE IInv'
    BY <1>4, OwnerJobs, OwnerEnqueuesStep DEF StartEvaluation
  <1>5. runs[r] \in Run
    BY DEF IInv, TypeOK
  <1>6. ASSUME ApproveQueries(r) PROVE IInv'
    <2> DEFINE new == [runs[r] EXCEPT !.approved = runs[r].inputs]
    <2>1. new \in Run /\ new.stageOf = runs[r].stageOf /\ Resaved(runs[r], new)
      BY <1>5 DEF Run, Resaved
    <2>2. OwnerWrites(r, new)
      BY <1>6 DEF ApproveQueries
    <2> HIDE DEF new
    <2> QED BY <2>1, <2>2, OwnerWritesStep
  <1>7. ASSUME ReviseInputs(r) PROVE IInv'
    <2> DEFINE new == [runs[r] EXCEPT !.inputs = runs[r].rev + 1, !.approved = 0,
                                      !.meas = 0, !.content = 0,
                                      !.state = "awaiting-query-approval"]
    <2>1. runs[r].rev + 1 \in Nat /\ "awaiting-query-approval" \in RunStates
      BY <1>5 DEF Run, RunStates
    <2>2. new \in Run /\ new.stageOf = runs[r].stageOf /\ Resaved(runs[r], new)
      BY <1>5, <2>1 DEF Run, Resaved
    <2>3. OwnerWrites(r, new)
      BY <1>7 DEF ReviseInputs
    <2> HIDE DEF new
    <2> QED BY <2>2, <2>3, OwnerWritesStep
  <1>8. ASSUME Export(r) PROVE IInv'
    <2> DEFINE new == [runs[r] EXCEPT !.state = "exported"]
    <2>1. new \in Run /\ new.stageOf = runs[r].stageOf /\ Resaved(runs[r], new)
      BY <1>5 DEF Run, RunStates, Resaved
    <2>2. OwnerWrites(r, new)
      BY <1>8 DEF Export
    <2> HIDE DEF new
    <2> QED BY <2>1, <2>2, OwnerWritesStep
  <1> QED BY <1>1, <1>2, <1>3, <1>4, <1>6, <1>7, <1>8

\* A job ends without a result.
LEMMA InterruptedRun ==
    ASSUME IInv, NEW r \in Runs, NEW j, NEW state \in {"needs-review", "cancelled"}
    PROVE  /\ Interrupted(r, j, state) \in Run
           /\ Interrupted(r, j, state).stageOf = runs[r].stageOf
           /\ Resaved(runs[r], Interrupted(r, j, state))
  <1>1. runs[r] \in Run
    BY DEF IInv, TypeOK
  <1>2. /\ [runs[r] EXCEPT !.stage = "failed"] \in Run
        /\ [runs[r] EXCEPT !.stage = "failed"].stageOf = runs[r].stageOf
        /\ Resaved(runs[r], [runs[r] EXCEPT !.stage = "failed"])
    BY <1>1 DEF Run, StageStates, Resaved
  <1>3. /\ [runs[r] EXCEPT !.state = state] \in Run
        /\ [runs[r] EXCEPT !.state = state].stageOf = runs[r].stageOf
        /\ Resaved(runs[r], [runs[r] EXCEPT !.state = state])
    BY <1>1 DEF Run, RunStates, Resaved
  <1> QED BY <1>2, <1>3 DEF Interrupted

\* The end of a job without a result, with the mutation of its run.
LEMMA InterruptedMoves ==
    ASSUME IInv, NEW j \in Admitted, NEW outcome \in {"failed", "cancelled"},
           NEW state \in {"needs-review", "cancelled"}, End(j, outcome),
           NEW r, r = jobs[j].run, Write(r, Interrupted(r, j, state)), nextJob' = nextJob
    PROVE  RowsKept /\ RunsMove /\ Forward
  <1>1. r \in Runs
    BY JobFacts DEF IInv
  <1>2. RowsKept
    BY EndKept DEF IInv
  <1>3. RunsMove
    BY <1>1, InterruptedRun, WriteMoves DEF IInv
  <1> QED BY <1>2, <1>3, KeptForward DEF IInv

\* cancel_job.
LEMMA CancelJobStep ==
    ASSUME IInv, NEW j \in JobIds, CancelJob(j)
    PROVE  IInv'
  <1>1. j \in Admitted
    BY AdmittedRow DEF IInv, CancelJob, ActiveStates
  <1>2. RowsKept /\ RunsMove /\ Forward
    BY <1>1, InterruptedMoves DEF CancelJob
  <1> QED BY <1>2, WorkersStay, KeptStep DEF CancelJob

----------------------------------------------------------------------------
(* A worker's pass.                                                        *)

\* list_unreconciled_specialist_jobs returns finished jobs only.
LEMMA ListStep ==
    ASSUME IInv, NEW w \in Workers, ListUnreconciled(w)
    PROVE  IInv'
  <1>1. RowsKept /\ RunsMove /\ Forward
    BY StillForward DEF ListUnreconciled
  <1> DEFINE new == [wk[w] EXCEPT !.pc = "pending", !.todo = Unreconciled]
  <1>2. wk \in [Workers -> WorkerState] /\ wk[w] \in WorkerState
    BY DEF IInv, TypeOK
  <1>3. Unreconciled \subseteq Admitted
    BY AdmittedRow DEF IInv, Unreconciled
  <1>4. Admitted \subseteq Nat
    BY JobFacts DEF IInv
  <1>5. new \in WorkerState /\ new.pc = "pending" /\ new.todo = Unreconciled
    BY <1>2, <1>3, <1>4 DEF WorkerState, Phases
  <1>6. wk' = [wk EXCEPT ![w] = new]
    BY <1>2 DEF ListUnreconciled
  <1> HIDE DEF new
  <1>7. wk'[w] = new
    BY <1>2, <1>6
  <1>8. wk'[w].todo \subseteq Admitted'
    BY <1>1, <1>3, <1>5, <1>7 DEF Forward
  <1>9. Knows(w)'
    BY <1>5, <1>7, <1>8, KnowsIdle
  <1> QED BY <1>1, <1>5, <1>6, <1>9, WorkerMoves, KeptStep

\* The next job of the list.
LEMMA TakeStep ==
    ASSUME IInv, NEW w \in Workers, NEW j \in JobIds, TakeUnreconciled(w, j)
    PROVE  IInv'
  <1>1. RowsKept /\ RunsMove /\ Forward
    BY StillForward DEF TakeUnreconciled
  <1> DEFINE new == [wk[w] EXCEPT !.pc = "read", !.job = j, !.late = TRUE,
                                  !.todo = wk[w].todo \ {j}]
  <1>2. wk \in [Workers -> WorkerState] /\ wk[w] \in WorkerState
    BY DEF IInv, TypeOK
  <1>3. wk[w].todo \subseteq Admitted /\ j \in Admitted
    BY DEF IInv, Knows, TakeUnreconciled
  <1>4. Admitted \subseteq Nat /\ Admitted \subseteq Admitted'
    BY <1>1, JobFacts DEF IInv, Forward
  <1>5. /\ new \in WorkerState /\ new.pc = "read" /\ new.job = j
        /\ new.todo = wk[w].todo \ {j}
    BY <1>2, <1>3, <1>4 DEF WorkerState, Phases
  <1>6. wk' = [wk EXCEPT ![w] = new]
    BY <1>2 DEF TakeUnreconciled
  <1> HIDE DEF new
  <1>7. wk'[w] = new
    BY <1>2, <1>6
  <1>8. Knows(w)'
    BY <1>3, <1>4, <1>5, <1>7 DEF Knows
  <1> QED BY <1>1, <1>5, <1>6, <1>8, WorkerMoves, KeptStep

\* The end of the list.
LEMMA EndPendingStep ==
    ASSUME IInv, NEW w \in Workers, EndPending(w)
    PROVE  IInv'
  BY StillForward, GotoMoves, KeptStep DEF EndPending

\* The steps that give a job up, or find none.
LEMMA NextPassStep ==
    ASSUME IInv, NEW w \in Workers, NextPass(w), UNCHANGED <<runs, jobs, nextJob>>
    PROVE  IInv'
  <1>1. Passing \in WorkerState /\ Passing.pc = "pass" /\ Passing.todo = {}
    BY Constants DEF Passing
  <1>2. wk' \in [Workers -> WorkerState] /\ \A v \in Workers : Knows(v)'
    BY <1>1, StillForward, NextPassMoves DEF NextPass
  <1> QED BY <1>2, StillForward, KeptStep

\* A worker dies and forgets what it knew.
LEMMA CrashStep ==
    ASSUME IInv, NEW w \in Workers, Crash(w)
    PROVE  IInv'
  <1> DEFINE new == [Passing EXCEPT !.pc = "down"]
  <1>1. new \in WorkerState /\ new.pc = "down" /\ new.todo = {}
    BY Constants DEF WorkerState, Phases
  <1>2. wk' = [wk EXCEPT ![w] = new]
    BY DEF Crash
  <1> HIDE DEF new
  <1>3. wk' \in [Workers -> WorkerState] /\ \A v \in Workers : Knows(v)'
    BY <1>1, <1>2, StillForward, NextPassMoves DEF Crash
  <1> QED BY <1>3, StillForward, KeptStep DEF Crash

\* recover_interrupted.
LEMMA RecoverStep ==
    ASSUME IInv, NEW w \in Workers, NEW j \in JobIds, RecoverInterrupted(w, j)
    PROVE  IInv'
  <1>1. j \in Admitted
    BY AdmittedRow DEF IInv, RecoverInterrupted
  <1>2. RowsKept /\ RunsMove /\ Forward
    BY <1>1, InterruptedMoves DEF RecoverInterrupted
  <1> QED BY <1>2, WorkersStay, KeptStep DEF RecoverInterrupted

\* lease_one_job.
LEMMA LeaseStep ==
    ASSUME IInv, NEW w \in Workers, NEW j \in JobIds, LeaseJob(w, j)
    PROVE  IInv'
  <1> DEFINE r == jobs[j].run
  <1>1. j \in Admitted
    BY AdmittedRow DEF IInv, LeaseJob, Queued
  <1>2. r \in Runs /\ jobs[j] \in Job /\ runs[r] \in Run
    BY <1>1, JobFacts DEF IInv, TypeOK
  <1>3. RowsKept
    <2>1. jobs' = [jobs EXCEPT ![j] = [jobs[j] EXCEPT !.st = "leased", !.by = w]]
      BY <1>2 DEF LeaseJob, IInv, TypeOK
    <2>2. "leased" \in JobStates \ {"absent"} /\ w \in Workers \cup {None}
      BY DEF JobStates, ActiveStates
    <2> QED BY <1>1, <2>1, <2>2, StatusKept DEF IInv, LeaseJob
  <1>4. RunsMove
    <2>1. CASE jobs[j].type = "prepare"
      BY <2>1, NothingMoves DEF LeaseJob, IInv
    <2>2. CASE jobs[j].type = "agent-stage"
      <3> DEFINE new == [runs[r] EXCEPT !.stage = "running"]
      <3>1. new \in Run /\ new.stageOf = runs[r].stageOf /\ Resaved(runs[r], new)
        BY <1>2 DEF Run, StageStates, Resaved
      <3>2. Write(r, new)
        BY <2>2 DEF LeaseJob
      <3> HIDE DEF new
      <3> QED BY <1>2, <3>1, <3>2, WriteMoves DEF IInv
    <2>3. CASE jobs[j].type # "prepare" /\ jobs[j].type # "agent-stage"
      <3> DEFINE new == [runs[r] EXCEPT !.state = "evaluating"]
      <3>1. new \in Run /\ new.stageOf = runs[r].stageOf /\ Resaved(runs[r], new)
        BY <1>2 DEF Run, RunStates, Resaved
      <3>2. Write(r, new)
        BY <2>3 DEF LeaseJob
      <3> HIDE DEF new
      <3> QED BY <1>2, <3>1, <3>2, WriteMoves DEF IInv
    <2> QED BY <2>1, <2>2, <2>3
  <1>5. Forward
    BY <1>3, <1>4, KeptForward DEF IInv
  <1> DEFINE at == [Passing EXCEPT !.pc = "work", !.job = j]
  <1>6. /\ at \in WorkerState /\ at.pc = "work" /\ at.job = j /\ at.todo = {}
    BY <1>1, JobFacts, Constants DEF IInv, WorkerState, Phases
  <1>7. wk' = [wk EXCEPT ![w] = at]
    BY DEF LeaseJob
  <1> HIDE DEF at
  <1>8. wk'[w] = at /\ j \in Admitted'
    BY <1>1, <1>5, <1>7 DEF IInv, TypeOK, Forward
  <1>9. Knows(w)'
    BY <1>6, <1>8 DEF Knows
  <1> QED BY <1>3, <1>4, <1>5, <1>6, <1>7, <1>9, WorkerMoves, KeptStep

\* A job that its worker completes, fails or loses.
LEMMA WorkJob ==
    ASSUME IInv, NEW w \in Workers, wk[w].pc \in {"work", "read", "approve", "enqueue"}
    PROVE  /\ wk[w].job \in Admitted /\ wk[w].job \in JobIds
           /\ jobs[wk[w].job] \in Job /\ RunOf(w) \in Runs /\ runs[RunOf(w)] \in Run
           /\ wk[w] \in WorkerState /\ wk \in [Workers -> WorkerState]
  <1>1. wk[w].job \in Admitted
    BY DEF IInv, Knows
  <1> QED BY <1>1, JobFacts DEF IInv, TypeOK, RunOf

\* complete_job: a new measurement is stored at a new revision.
LEMMA CompleteStep ==
    ASSUME IInv, NEW w \in Workers, Complete(w)
    PROVE  IInv'
  <1> DEFINE j == wk[w].job
             r == RunOf(w)
  <1>1. /\ j \in Admitted /\ r \in Runs /\ runs[r] \in Run
        /\ wk[w] \in WorkerState /\ wk \in [Workers -> WorkerState]
    BY WorkJob DEF Complete
  <1>2. RowsKept
    BY <1>1, EndKept DEF IInv, Complete
  <1>3. RunsMove
    <2>1. CASE jobs[j].type = "prepare"
      <3> DEFINE new == [runs[r] EXCEPT !.inputs = runs[r].rev + 1,
                                        !.state = "awaiting-query-approval"]
      <3>1. runs[r].rev + 1 \in Nat /\ "awaiting-query-approval" \in RunStates
        BY <1>1 DEF Run, RunStates
      <3>2. new \in Run /\ new.stageOf = runs[r].stageOf /\ Resaved(runs[r], new)
        BY <1>1, <3>1 DEF Run, Resaved
      <3>3. Write(r, new)
        BY <2>1 DEF Complete
      <3> HIDE DEF new
      <3> QED BY <1>1, <3>2, <3>3, WriteMoves DEF IInv
    <2>2. CASE jobs[j].type = "agent-stage"
      <3> DEFINE new == [runs[r] EXCEPT !.stage = "completed"]
      <3>1. new \in Run /\ new.stageOf = runs[r].stageOf /\ Resaved(runs[r], new)
        BY <1>1 DEF Run, StageStates, Resaved
      <3>2. Write(r, new)
        BY <2>2 DEF Complete
      <3> HIDE DEF new
      <3> QED BY <1>1, <3>1, <3>2, WriteMoves DEF IInv
    <2>3. CASE jobs[j].type # "prepare" /\ jobs[j].type # "agent-stage"
      <3>0. PICK s \in Results : \E c \in Contents(r, jobs[j].type, s) :
               Write(r, [runs[r] EXCEPT !.meas = runs[r].rev + 1, !.content = c, !.state = s])
        BY <2>3 DEF Complete
      <3>1. PICK c \in Contents(r, jobs[j].type, s) :
               Write(r, [runs[r] EXCEPT !.meas = runs[r].rev + 1, !.content = c, !.state = s])
        BY <3>0
      <3> DEFINE new == [runs[r] EXCEPT !.meas = runs[r].rev + 1, !.content = c, !.state = s]
      <3>2. runs[r].rev + 1 \in Nat /\ runs[r].stageOf \in Nat /\ s \in RunStates
        BY <1>1 DEF Run, RunStates
      <3>3. c \in Nat
        BY <3>1, <3>2 DEF Contents
      <3>4. new \in Run /\ new.stageOf = runs[r].stageOf /\ Resaved(runs[r], new)
        BY <1>1, <3>2, <3>3 DEF Run, Resaved
      <3>5. Write(r, new)
        BY <3>1
      <3> HIDE DEF new
      <3> QED BY <1>1, <3>4, <3>5, WriteMoves DEF IInv
    <2> QED BY <2>1, <2>2, <2>3
  <1>4. Forward
    BY <1>2, <1>3, KeptForward DEF IInv
  <1> DEFINE at == [wk[w] EXCEPT !.pc = "read"]
  <1>5. at \in WorkerState /\ at.pc = "read" /\ at.job = j /\ at.todo = wk[w].todo
    BY <1>1 DEF WorkerState, Phases
  <1>6. wk' = [wk EXCEPT ![w] = at]
    BY <1>1 DEF Complete, Goto
  <1> HIDE DEF at
  <1>7. wk'[w] = at
    BY <1>1, <1>6
  <1>8. at.todo \subseteq Admitted' /\ at.job \in Admitted'
    BY <1>1, <1>4, <1>5 DEF IInv, Knows, Forward
  <1>9. Knows(w)'
    BY <1>5, <1>7, <1>8 DEF Knows
  <1> QED BY <1>2, <1>3, <1>4, <1>5, <1>6, <1>9, WorkerMoves, KeptStep

\* fail_job.
LEMMA FailStep ==
    ASSUME IInv, NEW w \in Workers, Fail(w)
    PROVE  IInv'
  <1>1. wk[w].job \in Admitted
    BY WorkJob DEF Fail
  <1>2. RowsKept /\ RunsMove /\ Forward
    BY <1>1, InterruptedMoves DEF Fail, RunOf
  <1>3. Passing \in WorkerState /\ Passing.pc = "pass" /\ Passing.todo = {}
    BY Constants DEF Passing
  <1>4. wk' \in [Workers -> WorkerState] /\ \A v \in Workers : Knows(v)'
    BY <1>2, <1>3, NextPassMoves DEF Fail, NextPass
  <1> QED BY <1>2, <1>4, KeptStep

\* A lease runs out.
LEMMA LapseStep ==
    ASSUME IInv, NEW j \in JobIds, Lapse(j)
    PROVE  IInv'
  <1>1. j \in Admitted
    BY AdmittedRow DEF IInv, Lapse
  <1>2. jobs[j] \in Job
    BY <1>1, JobFacts DEF IInv
  <1>3. jobs[j].by \in Workers \cup {None} /\ jobs[j] = [jobs[j] EXCEPT !.by = jobs[j].by]
    BY <1>2 DEF Job
  <1>4. jobs' = [jobs EXCEPT ![j] = [jobs[j] EXCEPT !.st = "lapsed", !.by = jobs[j].by]]
    BY <1>2 DEF Lapse, Job
  <1>5. "lapsed" \in JobStates \ {"absent"}
    BY DEF JobStates, ActiveStates
  <1>6. RowsKept
    BY <1>1, <1>3, <1>4, <1>5, StatusKept DEF IInv, Lapse
  <1>7. RunsMove /\ UNCHANGED wk
    BY NothingMoves DEF IInv, Lapse
  <1>8. Forward
    BY <1>6, <1>7, KeptForward DEF IInv
  <1> QED BY <1>6, <1>7, <1>8, WorkersStay, KeptStep

----------------------------------------------------------------------------
(* reconcile_job.                                                          *)

\* What is read is what is decided on, at the revision that is remembered.
LEMMA ReadRunStep ==
    ASSUME IInv, NEW w \in Workers, ReadRun(w)
    PROVE  IInv'
  <1> DEFINE j == wk[w].job
             r == RunOf(w)
  <1>1. UNCHANGED <<runs, jobs, nextJob>> /\ wk[w].pc = "read"
    BY DEF ReadRun
  <1>2. RowsKept /\ RunsMove /\ Forward
    BY <1>1, StillForward
  <1>3. /\ j \in Admitted /\ r \in Runs /\ runs[r] \in Run
        /\ wk[w] \in WorkerState /\ wk \in [Workers -> WorkerState]
    BY <1>1, WorkJob
  <1>4. CASE Decision(w) = "return"
    BY <1>2, <1>4, ReturnMoves, KeptStep DEF ReadRun
  <1>5. CASE Decision(w) # "return"
    <2> DEFINE at == [wk[w] EXCEPT !.pc = Decision(w), !.seen = runs[r]]
    <2>1. /\ Decision(w) \in {"approve", "enqueue"}
          /\ Decision(w) = "approve" => jobs[j].type = "prepare"
          /\ Decision(w) = "enqueue" /\ jobs[j].type # "prepare" =>
                jobs[j].type # "agent-stage" /\ Requested(j) /\ StageDue(r)
      BY <1>5 DEF Decision
    <2>2. /\ at \in WorkerState /\ at.pc = Decision(w) /\ at.job = j
          /\ at.todo = wk[w].todo /\ at.seen = runs[r]
      BY <1>3, <2>1 DEF WorkerState, Phases
    <2>3. wk' = [wk EXCEPT ![w] = at]
      BY <1>3, <1>5 DEF ReadRun
    <2> HIDE DEF at
    <2>4. wk'[w] = at
      BY <1>3, <2>3
    <2>5. at.todo \subseteq Admitted' /\ at.job \in Admitted'
      BY <1>2, <1>3, <2>2 DEF IInv, Knows, Forward
    <2>6. at.seen.rev <= runs[r].rev
      BY <1>3, <2>2 DEF Run
    <2>7. Knows(w)'
      BY <1>1, <2>1, <2>2, <2>4, <2>5, <2>6
         DEF Knows, Requested, StageDue, MayStage, StageJobs, RunOf
    <2> QED BY <1>2, <2>2, <2>3, <2>7, WorkerMoves, KeptStep
  <1> QED BY <1>4, <1>5

\* The automatic approval, and the revision it yields.
LEMMA ApproveStep ==
    ASSUME IInv, NEW w \in Workers, Approve(w)
    PROVE  IInv'
  <1> DEFINE j == wk[w].job
             r == RunOf(w)
  <1>1. wk[w].pc = "approve" /\ UNCHANGED <<jobs, nextJob>>
    BY DEF Approve
  <1>2. /\ j \in Admitted /\ r \in Runs /\ runs[r] \in Run
        /\ wk[w] \in WorkerState /\ wk \in [Workers -> WorkerState]
    BY <1>1, WorkJob
  <1>3. RowsKept
    BY <1>1, NothingKept DEF IInv
  <1>4. CASE runs[r].rev = wk[w].seen.rev
    <2> DEFINE new == [runs[r] EXCEPT !.approved = wk[w].seen.inputs]
    <2>1. wk[w].seen \in Run
      BY <1>2 DEF WorkerState
    <2>2. wk[w].seen.inputs \in Nat
      BY <2>1 DEF Run
    <2>3. new \in Run /\ new.stageOf = runs[r].stageOf /\ Resaved(runs[r], new)
      BY <1>2, <2>2 DEF Run, Resaved
    <2>4. Write(r, new)
      BY <1>4 DEF Approve
    <2> HIDE DEF new
    <2>5. RunsMove /\ runs'[r] \in Run
      BY <1>2, <2>3, <2>4, WriteMoves, WriteEffect DEF IInv
    <2>6. Forward
      BY <1>3, <2>5, KeptForward DEF IInv
    <2> DEFINE at == [wk[w] EXCEPT !.pc = "enqueue", !.seen = runs'[r]]
    <2>7. /\ at \in WorkerState /\ at.pc = "enqueue" /\ at.job = j
          /\ at.todo = wk[w].todo /\ at.seen = runs'[r]
      BY <1>2, <2>5 DEF WorkerState, Phases
    <2>8. wk' = [wk EXCEPT ![w] = at]
      BY <1>2, <1>4 DEF Approve
    <2> HIDE DEF at
    <2>9. wk'[w] = at
      BY <1>2, <2>8
    <2>10. at.todo \subseteq Admitted' /\ at.job \in Admitted'
      BY <1>2, <2>6, <2>7 DEF IInv, Knows, Forward
    <2>11. jobs[j].type = "prepare"
      BY <1>1 DEF IInv, Knows
    <2>12. at.seen.rev <= runs'[r].rev
      BY <2>5, <2>7 DEF Run
    <2>13. Knows(w)'
      BY <1>1, <2>7, <2>9, <2>10, <2>11, <2>12 DEF Knows, RunOf
    <2> QED BY <1>3, <2>5, <2>6, <2>7, <2>8, <2>13, WorkerMoves, KeptStep
  <1>5. CASE runs[r].rev # wk[w].seen.rev
    <2>1. UNCHANGED runs /\ Return(w)
      BY <1>5 DEF Approve
    <2> QED BY <1>1, <2>1, StillForward, ReturnMoves, KeptStep
  <1> QED BY <1>4, <1>5

\* Recommendations that are due were asked for by a job of the run.
LEMMA RequestWitness ==
    ASSUME IInv, NEW j \in Admitted, NEW r, r = jobs[j].run, Requested(j)
    PROVE  \E i \in JobIds : /\ i < nextJob /\ jobs[i].run = r
                             /\ jobs[i].want \/ (jobs[i].type = "agent-stage" /\ ~jobs[i].auto)
  <1>1. j \in JobIds /\ j < nextJob
    BY JobFacts DEF IInv
  <1>2. CASE jobs[j].type = "evaluate"
    BY <1>1, <1>2 DEF Requested
  <1>3. CASE jobs[j].type # "evaluate"
    <2>1. PICK k \in JobIds : jobs[k].run = r /\ jobs[k].type = "agent-stage"
      BY <1>3 DEF Requested, StageJobs
    <2>2. k \in Admitted
      BY <2>1, AdmittedRow DEF IInv
    <2>3. k < nextJob /\ k \in Nat /\ nextJob \in Nat /\ JobIds \subseteq Nat
      BY <2>2, JobFacts DEF IInv
    <2>4. CASE ~jobs[k].auto
      BY <2>1, <2>3, <2>4
    <2>5. CASE jobs[k].auto
      <3>1. PICK i \in JobIds : /\ i < k /\ jobs[i].run = jobs[k].run
                                /\ jobs[i].want \/ (jobs[i].type = "agent-stage" /\ ~jobs[i].auto)
        BY <2>1, <2>5 DEF IInv, SpendIsRequested
      <3>2. i < nextJob
        BY <2>3, <3>1
      <3> QED BY <2>1, <3>1, <3>2
    <2> QED BY <2>4, <2>5
  <1> QED BY <1>2, <1>3

\* The chain's next step is a proper admission: had the run moved on since it was
\* read, its revision would have.
LEMMA EnqueueNextStep ==
    ASSUME IInv, NEW w \in Workers, EnqueueNext(w)
    PROVE  IInv'
  <1> DEFINE j == wk[w].job
             r == RunOf(w)
             job == IF jobs[j].type = "prepare" THEN Evaluation(r, TRUE, TRUE)
                                                ELSE Stage(r, j, TRUE)
  <1>1. wk[w].pc = "enqueue" /\ Accepted(w) /\ Admit(r, job) /\ Return(w)
    BY DEF EnqueueNext
  <1>2. j \in Admitted /\ j \in JobIds /\ r \in Runs /\ r = jobs[j].run
    BY <1>1, WorkJob DEF RunOf
  <1>3. runs[r].meas \in Nat /\ j \in Nat
    BY <1>2, JobFacts DEF IInv, TypeOK, Run
  <1>4. ASSUME NEW type \in JobTypes
        PROVE  /\ NewJob(r, type) \in Job /\ NewJob(r, type).st = "queued"
               /\ NewJob(r, type).run = r /\ NewJob(r, type).type = type
    BY <1>2, Constants DEF NewJob, NoJob, Job, JobStates, ActiveStates
  <1>5. ASSUME jobs[j].type = "prepare" PROVE Proper(r, Evaluation(r, TRUE, TRUE))
    <2> DEFINE new == Evaluation(r, TRUE, TRUE)
    <2>1. new \in Job /\ new.st = "queued" /\ new.run = r /\ new.type = "evaluate"
      BY <1>4 DEF Evaluation, JobTypes, Job
    <2>2. \A k \in JobIds : jobs[k].run = r /\ jobs[k].type = "evaluate" => ~jobs[k].auto
      BY <1>1, <1>5 DEF Accepted, KeyTaken
    <2> HIDE DEF new
    <2>3. Proper(r, new)
      BY <1>2, <2>1, <2>2 DEF Proper
    <2> QED BY <2>3 DEF new
  <1>6. ASSUME jobs[j].type # "prepare" PROVE Proper(r, Stage(r, j, TRUE))
    <2> DEFINE new == Stage(r, j, TRUE)
    <2>1. /\ new \in Job /\ new.st = "queued" /\ new.run = r
          /\ new.type = "agent-stage" /\ new.of = runs[r].meas
      BY <1>3, <1>4 DEF Stage, JobTypes, Job
    <2>2. wk[w].seen.rev = runs[r].rev /\ MayStage(r)
      BY <1>1, <1>6 DEF Accepted, Admissible
    <2>3. Requested(j) /\ StageDue(r)
      BY <1>1, <1>2, <1>6, <2>2 DEF IInv, Knows
    <2>4. \A k \in StageJobs(r) : jobs[k].of # runs[r].meas
      BY <1>2, <2>3 DEF StageDue, StageJobs, IInv, StagesBehind
    <2>5. \E i \in JobIds : /\ i < nextJob /\ jobs[i].run = r
                            /\ jobs[i].want \/ (jobs[i].type = "agent-stage" /\ ~jobs[i].auto)
      BY <1>2, <2>3, RequestWitness
    <2>6. runs[r].meas # 0
      BY <2>2 DEF MayStage
    <2> HIDE DEF new
    <2>7. Proper(r, new)
      BY <1>2, <2>1, <2>4, <2>5, <2>6 DEF Proper
    <2> QED BY <2>7 DEF new
  <1>7. Proper(r, job)
    BY <1>5, <1>6
  <1> HIDE DEF job
  <1>8. Forward
    BY <1>1, <1>7, AdmitForward DEF IInv
  <1>9. wk' \in [Workers -> WorkerState] /\ \A v \in Workers : Knows(v)'
    BY <1>1, <1>8, ReturnMoves
  <1> QED BY <1>1, <1>7, <1>9, AdmitStep

\* A request that is refused changes nothing.
LEMMA EnqueueRefusedStep ==
    ASSUME IInv, NEW w \in Workers, EnqueueRefused(w)
    PROVE  IInv'
  BY StillForward, ReturnMoves, KeptStep DEF EnqueueRefused

----------------------------------------------------------------------------
(* The invariant.                                                          *)

\* Nothing has been admitted yet.
LEMMA InitInv ==
    ASSUME Init
    PROVE  IInv
  <1>1. MaxJobs \in Nat /\ 1 \in 1..(MaxJobs + 1)
    BY ConstantsAssumption
  <1>2. TypeOK
    BY <1>1, Constants DEF Init, TypeOK
  <1>3. /\ \A j \in JobIds : jobs[j] = NoJob /\ j >= 1
        /\ NoJob.type = "prepare" /\ NoJob.auto = FALSE
    BY DEF Init, NoJob, JobIds
  <1>4. Numbered
    <2>1. \A j \in JobIds : ~(j < nextJob)
      BY <1>1 DEF Init, JobIds
    <2> QED BY <1>3, <2>1 DEF Numbered
  <1>5. StagesBehind
    <2>1. \A r \in Runs : runs[r] = NewRun
      BY DEF Init
    <2>2. NewRun.meas = 0 /\ NewRun.rev = 1
      BY DEF NewRun
    <2> QED BY <1>3, <2>1, <2>2 DEF StagesBehind
  <1>6. AutomaticOnlyOnce /\ SpendIsRequested
    BY <1>3 DEF AutomaticOnlyOnce, SpendIsRequested
  <1>7. ASSUME NEW w \in Workers PROVE Knows(w)
    <2>1. wk[w] = Passing /\ Passing.pc = "pass" /\ Passing.todo = {}
      BY DEF Init, Passing
    <2> QED BY <2>1 DEF Knows
  <1> QED BY <1>2, <1>4, <1>5, <1>6, <1>7 DEF IInv

\* The steps of a live worker.
LEMMA WorkerStepInv ==
    ASSUME IInv, NEW w \in Workers, WorkerStep(w)
    PROVE  IInv'
  <1>1. ASSUME ListUnreconciled(w) PROVE IInv'
    BY <1>1, ListStep
  <1>2. ASSUME EndPending(w) PROVE IInv'
    BY <1>2, EndPendingStep
  <1>3. ASSUME LeaseNothing(w) \/ LoseLease(w) PROVE IInv'
    BY <1>3, NextPassStep DEF LeaseNothing, LoseLease
  <1>4. ASSUME NEW j \in JobIds,
               TakeUnreconciled(w, j) \/ RecoverInterrupted(w, j) \/ LeaseJob(w, j)
        PROVE  IInv'
    BY <1>4, TakeStep, RecoverStep, LeaseStep
  <1>5. ASSUME Complete(w) \/ Fail(w) PROVE IInv'
    BY <1>5, CompleteStep, FailStep
  <1>6. ASSUME ReadRun(w) \/ Approve(w) PROVE IInv'
    BY <1>6, ReadRunStep, ApproveStep
  <1>7. ASSUME EnqueueNext(w) \/ EnqueueRefused(w) PROVE IInv'
    BY <1>7, EnqueueNextStep, EnqueueRefusedStep
  <1> QED BY <1>1, <1>2, <1>3, <1>4, <1>5, <1>6, <1>7 DEF WorkerStep

\* Every step.
LEMMA NextInv ==
    ASSUME IInv, [Next]_vars
    PROVE  IInv'
  <1>1. ASSUME OwnerStep PROVE IInv'
    BY <1>1, OwnerRunStep, CancelJobStep DEF OwnerStep
  <1>2. ASSUME NEW w \in Workers, WorkerStep(w) \/ Crash(w) \/ Restart(w) PROVE IInv'
    <2>1. ASSUME Restart(w) PROVE IInv'
      BY <2>1, NextPassStep DEF Restart
    <2> QED BY <1>2, <2>1, WorkerStepInv, CrashStep
  <1>3. ASSUME NEW j \in JobIds, Lapse(j) PROVE IInv'
    BY <1>3, LapseStep
  <1>4. ASSUME UNCHANGED vars PROVE IInv'
    BY <1>4, StillForward, WorkersStay, KeptStep DEF vars
  <1> QED BY <1>1, <1>2, <1>3, <1>4 DEF Next

\* The invariant holds in every reachable state: what a worker has decided about
\* a run is still true when it acts, unless the revision has moved, and the stage
\* record of a run is about what its measurement contains whenever a stage of it
\* was admitted about that measurement.
THEOREM InvariantHolds == Spec => []IInv
  <1>1. Init => IInv
    BY InitInv
  <1>2. IInv /\ [Next]_vars => IInv'
    BY NextInv
  <1> QED BY <1>1, <1>2, PTL DEF Spec

\* The variables keep their types: in particular the revisions, the stage states
\* and the job rows that the handlers write stay within their enumerations.
THEOREM TypeCorrect == Spec => []TypeOK
  <1>1. IInv => TypeOK
    BY DEF IInv
  <1> QED BY <1>1, InvariantHolds, PTL

\* However often reconcile_job runs for a job, and in whatever order with the
\* other workers and the owner, a run is evaluated automatically at most once and
\* no measurement gets an automatic report after a stage has been queued about it.
THEOREM ChainIsTakenOnce == Spec => []AutomaticOnlyOnce
  <1>1. IInv => AutomaticOnlyOnce
    BY DEF IInv
  <1> QED BY <1>1, InvariantHolds, PTL

\* reconcile_job queues no recommendations for a run whose owner has not asked
\* for any.
THEOREM OnlyRequestedSpend == Spec => []SpendIsRequested
  <1>1. IInv => SpendIsRequested
    BY DEF IInv
  <1> QED BY <1>1, InvariantHolds, PTL
=============================================================================
