-------------------------- MODULE MCWorkflowQueue --------------------------
(***************************************************************************)
(* Instances of WorkflowQueue for TLC.                                     *)
(***************************************************************************)
EXTENDS WorkflowQueue, TLC

CONSTANTS r1, r2, o1, i1, i2, w1, w2, c1     \* model values

\* All runs belong to one owner: the queue limits are per owner and global.
MCOwnerOf == [r \in Runs |-> o1]

\* The two workers are interchangeable (safety runs only).
Symmetry == Permutations(Workers)

\* A run whose first evaluation ended with a failed evaluator, at the revision
\* the code reaches by then.  Its two jobs have ended and are not numbered.
EvaluatedRun ==
    [NewRun EXCEPT !.rev = 7, !.state = "partial", !.inputs = i1, !.approval = i1,
                   !.meas = 7, !.measOf = i1]

\* Every mixture of new runs and evaluated runs, with an empty queue.
MixedInit ==
    /\ runs \in [Runs -> {NewRun, EvaluatedRun}]
    /\ jobs = [j \in JobIds |-> NoJob]
    /\ nextJob = 1
    /\ wk = [w \in Workers |-> IdleWorker]
    /\ hb = [w \in Workers |-> "off"]
    /\ age = [w \in Workers |-> 0]
    /\ cancelling = [c \in Cancellers |-> 0]
    /\ overwritten = {}

MixedSpec == MixedInit /\ [][Next]_vars
MixedFairSpec == MixedSpec /\ Fairness

\* Every run has been evaluated.
EvaluatedInit == MixedInit /\ \A r \in Runs : runs[r] = EvaluatedRun

EvaluatedSpec == EvaluatedInit /\ [][Next]_vars
EvaluatedFairSpec == EvaluatedSpec /\ Fairness
=============================================================================
