------------------------- MODULE ProviderOperations -------------------------
(***************************************************************************)
(* The paid provider calls of a job: the durable claim that precedes each  *)
(* of them, the grant it is charged to, and the order in which the four    *)
(* job handlers make them (ClaimedOperationRunner in jobs.py,              *)
(* claim_operation, record_operation and _consume_measurement_budget in    *)
(* persistence.py, and the handlers in preparation.py,                     *)
(* evaluation_workflow.py and specialist_workflow.py).                     *)
(*                                                                         *)
(* The queue is reduced to what WorkflowQueue shows of it: a job is leased *)
(* once, by one worker, while no other is, and it may end at any moment    *)
(* behind the back of its worker, by a cancellation or by the recovery of  *)
(* its lease.  A lease that has run out is renewed or recovered later: the *)
(* check of a lease can therefore fail at any time, and succeeds only      *)
(* while the job is leased.  A worker whose job has ended works on until   *)
(* it looks, while another worker already runs the next job.               *)
(*                                                                         *)
(* The workers are those of the live configuration with technical Browse:  *)
(* their policy has a hosted query planner with one fallback call, and     *)
(* they enforce the budget.                                                *)
(***************************************************************************)
EXTENDS Naturals, Sequences, FiniteSets

CONSTANTS
    Jobs, Workers, Owners,
    OwnerOf,        \* the owner of each job
    BoundTo,        \* the owner whose grants a worker process was started with
    TypeOf,         \* the type of each job
    IdemOf,         \* the idempotency key of each job: unique per owner only
    Queries,        \* the queries of a plan, by priority
    Profiles,       \* the approved evaluator profiles
    Unsettled,      \* the <<query, profile>> pairs a recovery job is to retry
    NGrants,        \* grants are numbered in the order of their approval
    GrantOwner, Allowance,
    Ceiling,        \* operation ceiling of each job's authorization, or None
    None            \* the absent value

Grants == 1..NGrants
JobTypes == {"prepare", "evaluate", "recover-evaluators", "agent-stage"}
OpTypes  == {"webiq-browse", "page-analysis-model", "paired-query-plan", "webiq-search",
             "profile-evaluator", "recommendation-technical-browse", "recommendation-model"}

ASSUME ConstantsAssumption ==
    /\ IsFiniteSet(Jobs)
    /\ Queries \in Seq({Queries[n] : n \in DOMAIN Queries})
    /\ Profiles \in Seq({Profiles[n] : n \in DOMAIN Profiles})
    /\ Unsettled \in Seq({Unsettled[n] : n \in DOMAIN Unsettled})
    /\ OwnerOf \in [Jobs -> Owners]
    /\ BoundTo \in [Workers -> Owners]
    /\ TypeOf \in [Jobs -> JobTypes]
    /\ None \notin Jobs
    /\ NGrants \in Nat
    /\ GrantOwner \in [Grants -> Owners]
    /\ Allowance \in [Grants -> [OpTypes -> Nat]]
    /\ Ceiling \in [Jobs -> Nat \cup {None}]
    /\ None \notin Nat

\* A plan has no query twice and an approval no profile, and the pairs to retry
\* are taken from a loop over both.
ASSUME DistinctAssumption ==
    /\ \A m, n \in DOMAIN Queries : Queries[m] = Queries[n] => m = n
    /\ \A m, n \in DOMAIN Profiles : Profiles[m] = Profiles[n] => m = n
    /\ \A m, n \in DOMAIN Unsettled :
          Unsettled[m][1] = Unsettled[n][1] /\ Unsettled[m][2] = Unsettled[n][2] => m = n

VARIABLES
    state,      \* the state of each job
    thread,     \* what the main thread of each worker is doing
    claims,     \* operation_claims rows, by their unique operation_key
    used,       \* measurement_budget_usage.consumed
    stored,     \* the results that completed jobs have stored on their runs
    calls,      \* history: how often the call of each key was sent to a provider
    late,       \* history: calls sent for each job after it had ended
    refused     \* history: <<job, key>> refused because the key was taken

vars == <<state, thread, claims, used, stored, calls, late, refused>>

----------------------------------------------------------------------------
(* The handlers.  A step is one operations.call: its key, its budget type, *)
(* the failures the handler catches around it, and, when the call is only  *)
(* made for one result of an earlier step, that step and that result.      *)

Failures == {"provider", "other", "conflict", "lost"}
Results  == {"completed", "error", "skipped"}

Step(key, op, caught, after, given) ==
    [key |-> key, op |-> op, caught |-> caught, after |-> after, given |-> given]

\* The second planner is asked only when the first one failed.
PrepareSteps(j) ==
    << Step(<<j, "browse">>, "webiq-browse", {}, 0, "completed"),
       Step(<<j, "page-analysis">>, "page-analysis-model", {"provider"}, 0, "completed"),
       Step(<<j, "query-plan">>, "paired-query-plan", {"provider"}, 0, "completed"),
       Step(<<j, "query-plan-fallback">>, "paired-query-plan", {}, 3, "error") >>

\* One search for each query, then one call for each profile if it succeeded.
EvaluateSteps(j) ==
    LET width == Len(Profiles) + 1
    IN  [n \in 1..(Len(Queries) * width) |->
           LET q == Queries[((n - 1) \div width) + 1]
               p == (n - 1) % width
           IN  IF p = 0
               THEN Step(<<j, "search", q>>, "webiq-search",
                         {"provider", "other"}, 0, "completed")
               ELSE Step(<<j, "evaluate", q, Profiles[p]>>, "profile-evaluator",
                         {"provider", "other"}, n - p, "completed")]

\* The keys carry the idempotency key of the request, not the job, and every
\* failure becomes an error result, that of the claim included.
RecoverSteps(j) ==
    [n \in 1..Len(Unsettled) |->
       Step(<<IdemOf[j], "recover", Unsettled[n][1], Unsettled[n][2]>>, "profile-evaluator",
            Failures, 0, "completed")]

\* The browser's own ProviderError is an answer here: it only lacks the markup.
StageSteps(j) ==
    << Step(<<j, "technical-browse">>, "recommendation-technical-browse", {}, 0, "completed"),
       Step(<<j, "recommendation-plan">>, "recommendation-model", {}, 0, "completed") >>

Steps(j) ==
    CASE TypeOf[j] = "prepare" -> PrepareSteps(j)
      [] TypeOf[j] = "evaluate" -> EvaluateSteps(j)
      [] TypeOf[j] = "recover-evaluators" -> RecoverSteps(j)
      [] TypeOf[j] = "agent-stage" -> StageSteps(j)

KeysOf(j) == {Steps(j)[n].key : n \in DOMAIN Steps(j)}
Keys == UNION {KeysOf(j) : j \in Jobs}

----------------------------------------------------------------------------
JobStates == {"queued", "leased", "completed", "failed", "cancelled"}

Phases == {"idle", "step", "claiming", "claimed", "calling", "failing"}

ThreadState == [pc : Phases, job : Jobs \cup {None}, seen : SUBSET Grants,
                results : Seq(Results)]

ClaimRow == [st : {"none", "claimed", "completed", "failed"}, job : Jobs \cup {None},
             grant : Nat, op : OpTypes]

NoClaim == [st |-> "none", job |-> None, grant |-> 0, op |-> "webiq-browse"]
Idle == [pc |-> "idle", job |-> None, seen |-> {}, results |-> <<>>]

Init ==
    /\ state = [j \in Jobs |-> "queued"]
    /\ thread = [w \in Workers |-> Idle]
    /\ claims = [k \in Keys |-> NoClaim]
    /\ used = [g \in Grants |-> [t \in OpTypes |-> 0]]
    /\ stored = [j \in Jobs |-> <<>>]
    /\ calls = [k \in Keys |-> 0]
    /\ late = [j \in Jobs |-> 0]
    /\ refused = {}

JobOf(w) == thread[w].job
AtEnd(w) == Len(thread[w].results) + 1 \notin DOMAIN Steps(JobOf(w))
StepOf(w) == Steps(JobOf(w))[Len(thread[w].results) + 1]
KeyOf(w) == StepOf(w).key

\* Mutant of Due: a step is taken whatever came of the one it depends on.
DueAlways(w) == TRUE

Due(w) == LET s == StepOf(w)
          IN  s.after # 0 => thread[w].results[s.after] = s.given

Become(w, pc) == thread' = [thread EXCEPT ![w].pc = pc]
Leave(w) == thread' = [thread EXCEPT ![w] = Idle]
Advance(w, result) ==
    thread' = [thread EXCEPT ![w].pc = "step", ![w].seen = {},
                             ![w].results = Append(thread[w].results, result)]

\* Mutant of Raise: the failure itself is kept as a result.
RaiseKeepingFailure(w, failure) ==
    IF failure \in StepOf(w).caught THEN Advance(w, failure)
    ELSE IF failure = "lost" THEN Leave(w)
    ELSE Become(w, "failing")

\* An exception leaves operations.call.  The handler turns the ones it catches
\* into a result; any other ends it, and run_once tells the loss of the lease,
\* after which it returns, from everything else, for which it fails the job.
Raise(w, failure) ==
    IF failure \in StepOf(w).caught THEN Advance(w, "error")
    ELSE IF failure = "lost" THEN Leave(w)
    ELSE Become(w, "failing")

\* Mutant of LeaseHeld: the fencing token is not compared.
LeaseHeldAlways(w) == TRUE

\* _require_active_lease can succeed.
LeaseHeld(w) == state[JobOf(w)] = "leased"

----------------------------------------------------------------------------
Lease(w, j) ==
    /\ thread[w].pc = "idle"
    /\ state[j] = "queued" /\ OwnerOf[j] = BoundTo[w]
    /\ \A k \in Jobs : state[k] # "leased"
    /\ state' = [state EXCEPT ![j] = "leased"]
    /\ thread' = [thread EXCEPT ![w] = [Idle EXCEPT !.pc = "step", !.job = j]]
    /\ UNCHANGED <<claims, used, stored, calls, late, refused>>

\* The handler passes over a call whose condition is not met.
Skip(w) ==
    /\ thread[w].pc = "step" /\ ~AtEnd(w) /\ ~Due(w)
    /\ Advance(w, "skipped")
    /\ UNCHANGED <<state, claims, used, stored, calls, late, refused>>

\* A check that the handler makes between its calls, or on their results,
\* rejects the job.
Reject(w) ==
    /\ thread[w].pc = "step"
    /\ Become(w, "failing")
    /\ UNCHANGED <<state, claims, used, stored, calls, late, refused>>

----------------------------------------------------------------------------
(* claim_operation.  Its SELECTs see the database before its first write;  *)
(* its UPDATE of the usage and its INSERT are atomic, and repeat two of    *)
(* the conditions: that the grant is not exhausted and the key is free.    *)

\* Mutant of KeyFree: operation_key has lost its uniqueness.
KeyFreeAlways(k) == TRUE

KeyFree(k) == claims[k].st = "none"
ClaimsOf(j) == {k \in Keys : claims[k].job = j}

\* Mutant of BelowCeiling: one operation too many.
AtMostCeiling(j) == Ceiling[j] # None => Cardinality(ClaimsOf(j)) <= Ceiling[j]

BelowCeiling(j) == Ceiling[j] # None => Cardinality(ClaimsOf(j)) < Ceiling[j]

OpenGrants(w, op) ==
    {g \in Grants : GrantOwner[g] = BoundTo[w] /\ used[g][op] < Allowance[g][op]}

ClaimRead(w) ==
    /\ thread[w].pc = "step" /\ ~AtEnd(w) /\ Due(w)
    /\ LeaseHeld(w) /\ KeyFree(KeyOf(w)) /\ BelowCeiling(JobOf(w))
    /\ thread' = [thread EXCEPT ![w].pc = "claiming",
                                ![w].seen = OpenGrants(w, StepOf(w).op)]
    /\ UNCHANGED <<state, claims, used, stored, calls, late, refused>>

\* The lease is lost, the key is taken, or the ceiling is reached.
ClaimRefused(w) ==
    /\ thread[w].pc = "step" /\ ~AtEnd(w) /\ Due(w)
    /\ \/ Raise(w, "lost") /\ UNCHANGED refused
       \/ /\ LeaseHeld(w) /\ ~KeyFree(KeyOf(w))
          /\ Raise(w, "conflict")
          /\ refused' = refused \cup {<<JobOf(w), KeyOf(w)>>}
       \/ /\ LeaseHeld(w) /\ KeyFree(KeyOf(w)) /\ ~BelowCeiling(JobOf(w))
          /\ Raise(w, "conflict")
          /\ UNCHANGED refused
    /\ UNCHANGED <<state, claims, used, stored, calls, late>>

\* Mutant of Chargeable: the UPDATE trusts what the SELECT saw.
ChargeableAsSeen(w) == thread[w].seen

\* The grants that were seen open and still are: the first of them is charged.
Chargeable(w) == {g \in thread[w].seen : used[g][StepOf(w).op] < Allowance[g][StepOf(w).op]}

ClaimCommit(w) ==
    LET op == StepOf(w).op
    IN  /\ thread[w].pc = "claiming"
        /\ KeyFree(KeyOf(w))
        /\ \E g \in Chargeable(w) :
              /\ \A h \in Chargeable(w) : g <= h
              /\ used' = [used EXCEPT ![g][op] = used[g][op] + 1]
              /\ claims' = [claims EXCEPT ![KeyOf(w)] =
                              [st |-> "claimed", job |-> JobOf(w), grant |-> g, op |-> op]]
        /\ Become(w, "claimed")
        /\ UNCHANGED <<state, stored, calls, late, refused>>

\* Mutant of ClaimTaken: the charge is not rolled back with the INSERT.
ClaimTakenCharged(w) ==
    /\ thread[w].pc = "claiming"
    /\ Chargeable(w) # {} /\ ~KeyFree(KeyOf(w))
    /\ \E g \in Chargeable(w) :
          used' = [used EXCEPT ![g][StepOf(w).op] = used[g][StepOf(w).op] + 1]
    /\ Raise(w, "conflict")
    /\ refused' = refused \cup {<<JobOf(w), KeyOf(w)>>}
    /\ UNCHANGED <<state, claims, stored, calls, late>>

\* The INSERT meets the unique key, and the charge is rolled back with it.
ClaimTaken(w) ==
    /\ thread[w].pc = "claiming"
    /\ Chargeable(w) # {} /\ ~KeyFree(KeyOf(w))
    /\ Raise(w, "conflict")
    /\ refused' = refused \cup {<<JobOf(w), KeyOf(w)>>}
    /\ UNCHANGED <<state, claims, used, stored, calls, late>>

\* The allowance is exhausted, or the database fails.
ClaimFails(w) ==
    /\ thread[w].pc = "claiming"
    /\ \/ Chargeable(w) = {} /\ Raise(w, "conflict")
       \/ Raise(w, "other")
    /\ UNCHANGED <<state, claims, used, stored, calls, late, refused>>

----------------------------------------------------------------------------
\* The call leaves the process; nothing looks at the lease again.
Dispatch(w) ==
    LET j == JobOf(w)
    IN  /\ thread[w].pc = "claimed"
        /\ calls' = [calls EXCEPT ![KeyOf(w)] = calls[KeyOf(w)] + 1]
        /\ late' = [late EXCEPT ![j] = IF state[j] = "leased" THEN late[j] ELSE late[j] + 1]
        /\ Become(w, "calling")
        /\ UNCHANGED <<state, claims, used, stored, refused>>

\* The provider answers, or its call raises, and record_operation stores the
\* outcome.  Its lease check and its UPDATE are one step: only this thread
\* writes the row of this claim, and no step below depends on their order.
Record(w) ==
    LET k == KeyOf(w)
    IN  /\ thread[w].pc = "calling" /\ LeaseHeld(w)
        /\ \/ /\ claims' = [claims EXCEPT ![k].st = "completed"]
              /\ Advance(w, "completed")
           \/ \E failure \in {"provider", "other"} :
                 /\ claims' = [claims EXCEPT ![k].st = "failed"]
                 /\ Raise(w, failure)
        /\ UNCHANGED <<state, used, stored, calls, late, refused>>

\* Mutant of RecordFails: an error of the database does not spoil the result.
RecordFailsSilently(w) ==
    /\ thread[w].pc = "calling"
    /\ Raise(w, "lost") \/ Advance(w, "completed")
    /\ UNCHANGED <<state, claims, used, stored, calls, late, refused>>

\* The outcome cannot be stored, for want of the lease or of the database.
\* That exception replaces the answer, and the claim stays "claimed".
RecordFails(w) ==
    /\ thread[w].pc = "calling"
    /\ \E failure \in {"lost", "other"} : Raise(w, failure)
    /\ UNCHANGED <<state, claims, used, stored, calls, late, refused>>

----------------------------------------------------------------------------
\* complete_job, behind its fence, stores what the handler has collected.
Complete(w) ==
    LET j == JobOf(w)
    IN  /\ thread[w].pc = "step" /\ AtEnd(w) /\ LeaseHeld(w)
        /\ state' = [state EXCEPT ![j] = "completed"]
        /\ stored' = [stored EXCEPT ![j] = thread[w].results]
        /\ Leave(w)
        /\ UNCHANGED <<claims, used, calls, late, refused>>

Fail(w) ==
    /\ thread[w].pc = "failing" /\ LeaseHeld(w)
    /\ state' = [state EXCEPT ![JobOf(w)] = "failed"]
    /\ Leave(w)
    /\ UNCHANGED <<claims, used, stored, calls, late, refused>>

\* The lease is found lost at the end of the job, or the process dies.
Drop(w) ==
    /\ thread[w].pc # "idle"
    /\ Leave(w)
    /\ UNCHANGED <<state, claims, used, stored, calls, late, refused>>

\* cancel_job and recover_interrupted, at any moment.
Cancel(j) ==
    /\ state[j] \in {"queued", "leased"}
    /\ state' = [state EXCEPT ![j] = "cancelled"]
    /\ UNCHANGED <<thread, claims, used, stored, calls, late, refused>>

RecoverLease(j) ==
    /\ state[j] = "leased"
    /\ state' = [state EXCEPT ![j] = "failed"]
    /\ UNCHANGED <<thread, claims, used, stored, calls, late, refused>>

Next ==
    \/ \E w \in Workers :
          \/ \E j \in Jobs : Lease(w, j)
          \/ Skip(w) \/ Reject(w)
          \/ ClaimRead(w) \/ ClaimRefused(w)
          \/ ClaimCommit(w) \/ ClaimTaken(w) \/ ClaimFails(w)
          \/ Dispatch(w) \/ Record(w) \/ RecordFails(w)
          \/ Complete(w) \/ Fail(w) \/ Drop(w)
    \/ \E j \in Jobs : Cancel(j) \/ RecoverLease(j)

Spec == Init /\ [][Next]_vars

----------------------------------------------------------------------------
(* PROPERTIES.                                                             *)

\* The types of the variables.
TypeOK ==
    /\ state \in [Jobs -> JobStates]
    /\ thread \in [Workers -> ThreadState]
    /\ claims \in [Keys -> ClaimRow]
    /\ used \in [Grants -> [OpTypes -> Nat]]
    /\ stored \in [Jobs -> Seq(Results)]
    /\ calls \in [Keys -> Nat]
    /\ late \in [Jobs -> Nat]
    /\ refused \subseteq Jobs \X Keys

\* The ledger balances: what a grant has consumed is the number of claims
\* charged to it, never more than its allowance, whichever claims compete for
\* its last unit or are rolled back.
ChargedTo(g, t) == {k \in Keys : claims[k].st # "none" /\ claims[k].grant = g /\ claims[k].op = t}
LedgerBalances ==
    \A g \in Grants, t \in OpTypes :
        used[g][t] = Cardinality(ChargedTo(g, t)) /\ used[g][t] <= Allowance[g][t]

\* "Claims are committed before work is dispatched", and "interrupted or
\* ambiguous calls are not automatically replayed": a call is sent at most once
\* in the life of the database, and only under a claim some grant paid for.
DispatchedOnceUnderClaim ==
    \A k \in Keys : calls[k] <= 1 /\ (calls[k] = 1 => claims[k].st # "none")

\* A job makes no more calls than its authorization allows.
CeilingHolds ==
    \A j \in Jobs : Ceiling[j] # None => Cardinality(ClaimsOf(j)) <= Ceiling[j]

\* A worker whose job was cancelled or recovered may still send the one call it
\* was about to claim, or had claimed, but no second one.
AtMostOneLateCall == \A j \in Jobs : late[j] <= 1

\* A completed job has stored a result for a call exactly if the outcome of
\* that call is checkpointed as completed under a claim of this very job.
StoredIffCheckpointed ==
    \A j \in Jobs : state[j] = "completed" =>
        \A n \in DOMAIN Steps(j) :
            stored[j][n] = "completed" <=>
                claims[Steps(j)[n].key].st = "completed" /\ claims[Steps(j)[n].key].job = j

\* A call that is only made for one outcome of an earlier call (an evaluator
\* after a completed search, the fallback after a failed plan) is only made
\* when that outcome is on record.
FollowUpsAreJustified ==
    \A j \in Jobs : \A n \in DOMAIN Steps(j) :
        LET s == Steps(j)[n]
        IN  s.after # 0 /\ calls[s.key] > 0 =>
              claims[Steps(j)[s.after].key].st =
                  IF s.given = "completed" THEN "completed" ELSE "failed"

\* "Failed and interrupted calls are not refunded": no step lowers what was
\* consumed, withdraws a claim, or changes an outcome that is on record.
NothingRefunded ==
    /\ \A g \in Grants, t \in OpTypes : used'[g][t] >= used[g][t]
    /\ \A k \in Keys :
          /\ claims[k].st # "none" => claims'[k].st # "none"
          /\ claims[k].st \in {"completed", "failed"} => claims'[k] = claims[k]
NoRefund == [][NothingRefunded]_vars

\* "V2 runs, approvals, jobs, operation claims and artifacts are durable and
\* owner-scoped": an operation is refused as already claimed only on account of
\* a claim of the same owner.  The code does not keep this.
ClaimsAreOwnerScoped ==
    \A pair \in refused : OwnerOf[claims[pair[2]].job] = OwnerOf[pair[1]]
=============================================================================
