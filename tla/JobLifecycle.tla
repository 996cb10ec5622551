---------------------------- MODULE JobLifecycle ----------------------------
(***************************************************************************)
(* What the workflow queue promises of its jobs, without workers that      *)
(* crash, leases that expire, revisions or clocks.  Jobs are admitted in   *)
(* the order of their numbers and started in that order, one at a time;    *)
(* each ends with one outcome, and only a started job can end "completed". *)
(* The promise is weaker than one would like in one respect: an ended job  *)
(* may later be rewritten as cancelled or failed (Rewrite), because        *)
(* cancel_job and fail_job write a row they read as active some time ago.  *)
(* It is never rewritten as completed, and it never becomes active again.  *)
(***************************************************************************)
EXTENDS Naturals

CONSTANT Jobs          \* the numbers of the jobs, in the order of admission

VARIABLE state         \* the state of every job

Ended == {"completed", "failed", "cancelled"}

LifecycleInit == state = [j \in Jobs |-> "absent"]

\* enqueue_job
Queue(j) ==
    /\ state[j] = "absent"
    /\ \A k \in Jobs : k < j => state[k] # "absent"
    /\ state' = [state EXCEPT ![j] = "queued"]

\* lease_one_job
Start(j) ==
    /\ state[j] = "queued"
    /\ \A k \in Jobs : state[k] # "leased"
    /\ \A k \in Jobs : state[k] = "queued" => j <= k
    /\ state' = [state EXCEPT ![j] = "leased"]

\* complete_job, fail_job and recover_interrupted on a started job
Finish(j, outcome) ==
    /\ state[j] = "leased"
    /\ state' = [state EXCEPT ![j] = outcome]

\* cancel_job
Cancel(j) ==
    /\ state[j] \in {"queued", "leased"}
    /\ state' = [state EXCEPT ![j] = "cancelled"]

\* cancel_job and fail_job on a job that ended after they had read it
Rewrite(j, outcome) ==
    /\ state[j] \in Ended
    /\ outcome # "completed"
    /\ state' = [state EXCEPT ![j] = outcome]

LifecycleNext ==
    \E j \in Jobs :
        \/ Queue(j)
        \/ Start(j)
        \/ Cancel(j)
        \/ \E outcome \in Ended : Finish(j, outcome) \/ Rewrite(j, outcome)

LifecycleSpec == LifecycleInit /\ [][LifecycleNext]_state
=============================================================================
