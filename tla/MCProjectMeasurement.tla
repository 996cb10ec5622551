------------------------ MODULE MCProjectMeasurement ------------------------
(***************************************************************************)
(* Instances of ProjectMeasurement for TLC.                                *)
(***************************************************************************)
EXTENDS ProjectMeasurement, TLC

CONSTANTS r1, w1, w2        \* model values

\* Two states on the way of a run, from which five jobs reach what is of
\* interest: its first preparation has failed, or it has been evaluated in part
\* and reported on, so that an evaluation may now be recovered after a report.
Retrying ==
    /\ runs = [r \in Runs |-> [NewRun EXCEPT !.rev = 3, !.state = "needs-review"]]
    /\ jobs = [j \in JobIds |-> IF j = 1 THEN [NewJob(r1, "prepare") EXCEPT !.st = "failed"]
                                         ELSE NoJob]
    /\ nextJob = 2

Reported ==
    LET done == <<NewJob(r1, "prepare"), Evaluation(r1, TRUE, TRUE),
                  [NewJob(r1, "agent-stage") EXCEPT !.source = 2, !.auto = TRUE, !.of = 7]>>
    IN  /\ runs = [r \in Runs |->
                      [NewRun EXCEPT !.rev = 10, !.state = "partial", !.inputs = 3, !.approved = 3,
                                     !.meas = 7, !.content = 7,
                                     !.stage = "completed", !.stageOf = 7]]
        /\ jobs = [j \in JobIds |-> IF j <= 3 THEN [done[j] EXCEPT !.st = "completed"] ELSE NoJob]
        /\ nextJob = 4

MCInit == (Retrying \/ Reported) /\ wk = [w \in Workers |-> Passing]

MCFairSpec == MCInit /\ [][Next]_vars /\ Fairness
=============================================================================
