---------------------- MODULE ProviderOperations_proofs ----------------------
(***************************************************************************)
(* Proofs about ProviderOperations, for any number of jobs, workers,       *)
(* owners, queries, profiles and grants, and any allowances and ceilings.  *)
(***************************************************************************)
EXTENDS ProviderOperations, FiniteSetTheorems, SequenceTheorems, TLAPS

\* A thread in these phases is inside operations.call, before its outcome.
CallPhases == {"claiming", "claimed", "calling"}

\* The step a thread is at is a step of its job.
InStep(w) ==
    /\ JobOf(w) \in Jobs
    /\ Len(thread[w].results) + 1 \in DOMAIN Steps(JobOf(w))

CallsAreSteps == \A w \in Workers : thread[w].pc \in CallPhases => InStep(w)

\* A thread has a job exactly while it is not idle, and that job was leased.
ThreadsHaveJobs ==
    \A w \in Workers :
        /\ (thread[w].pc = "idle") <=> (JobOf(w) = None)
        /\ JobOf(w) # None => state[JobOf(w)] # "queued"

\* A job is leased once, so no two threads ever work on the same one.
OneThreadPerJob ==
    \A w, v \in Workers : JobOf(w) # None /\ JobOf(w) = JobOf(v) => w = v

\* Between its claim and the outcome, a thread owns the claim.
ClaimsAreHeld ==
    \A w \in Workers : thread[w].pc \in {"claimed", "calling"} =>
        /\ claims[KeyOf(w)].st = "claimed" /\ claims[KeyOf(w)].job = JobOf(w)
        /\ thread[w].pc = "claimed" => calls[KeyOf(w)] = 0

RowsHaveJobs == \A k \in Keys : (claims[k].st = "none") <=> (claims[k].job = None)

\* A thread about to claim or to call has made no late call yet.
LateCalls ==
    /\ \A j \in Jobs : state[j] \in {"queued", "leased"} => late[j] = 0
    /\ \A w \in Workers : thread[w].pc \in {"claiming", "claimed"} => late[JobOf(w)] = 0

\* A thread about to claim has room below the ceiling of its job.
RoomForClaim ==
    \A w \in Workers : thread[w].pc = "claiming" => BelowCeiling(JobOf(w))

\* The inductive invariant.
IInv ==
    /\ TypeOK
    /\ CallsAreSteps
    /\ ThreadsHaveJobs
    /\ OneThreadPerJob
    /\ ClaimsAreHeld
    /\ RowsHaveJobs
    /\ DispatchedOnceUnderClaim
    /\ LateCalls
    /\ AtMostOneLateCall
    /\ LedgerBalances
    /\ RoomForClaim
    /\ CeilingHolds

----------------------------------------------------------------------------
(* The steps of the handlers.                                              *)

\* A function on 1..n is a sequence of length n.
LEMMA FunctionIsSequence ==
    ASSUME NEW n \in Nat, NEW S, NEW f \in [1..n -> S]
    PROVE  Len(f) = n /\ DOMAIN f = 1..n
  <1>1. f \in Seq(S)
    BY SeqDef
  <1> QED BY <1>1, LenProperties

\* Whatever its type, a job has a sequence of steps, each of them charged to
\* one of the budgeted operation types.
LEMMA StepsAreSequences ==
    ASSUME NEW j \in Jobs
    PROVE  /\ Len(Steps(j)) \in Nat
           /\ DOMAIN Steps(j) = 1..Len(Steps(j))
           /\ \A n \in DOMAIN Steps(j) : Steps(j)[n].op \in OpTypes /\ Steps(j)[n].key \in Keys
  <1>1. TypeOf[j] \in JobTypes
    BY ConstantsAssumption
  <1>2. ASSUME NEW n \in DOMAIN Steps(j)
        PROVE  Steps(j)[n].key \in Keys
    BY <1>2 DEF Keys, KeysOf
  <1>3. CASE TypeOf[j] = "prepare"
    <2>1. Steps(j) = PrepareSteps(j)
      BY <1>3 DEF Steps
    <2>2. Len(PrepareSteps(j)) = 4 /\ DOMAIN PrepareSteps(j) = 1..4
      BY DEF PrepareSteps
    <2>3. \A n \in 1..4 : PrepareSteps(j)[n].op \in OpTypes
      BY DEF PrepareSteps, Step, OpTypes
    <2> QED BY <1>2, <2>1, <2>2, <2>3
  <1>4. CASE TypeOf[j] = "evaluate"
    <2> DEFINE n == Len(Queries) * (Len(Profiles) + 1)
    <2>1. Steps(j) = EvaluateSteps(j)
      BY <1>4 DEF Steps
    <2>2. Len(Queries) \in Nat /\ Len(Profiles) \in Nat
      BY ConstantsAssumption, LenProperties
    <2>3. n \in Nat
      BY <2>2
    <2>4. DOMAIN EvaluateSteps(j) = 1..n
      BY DEF EvaluateSteps
    <2>5. EvaluateSteps(j) \in [1..n -> {EvaluateSteps(j)[m] : m \in 1..n}]
      BY <2>4 DEF EvaluateSteps
    <2>6. Len(EvaluateSteps(j)) = n
      BY <2>3, <2>5, FunctionIsSequence
    <2>7. \A m \in 1..n : EvaluateSteps(j)[m].op \in {"webiq-search", "profile-evaluator"}
      BY DEF EvaluateSteps, Step
    <2> QED BY <1>2, <2>1, <2>3, <2>4, <2>6, <2>7 DEF OpTypes
  <1>5. CASE TypeOf[j] = "recover-evaluators"
    <2>1. Steps(j) = RecoverSteps(j)
      BY <1>5 DEF Steps
    <2>2. Len(Unsettled) \in Nat
      BY ConstantsAssumption, LenProperties
    <2>3. DOMAIN RecoverSteps(j) = 1..Len(Unsettled)
      BY DEF RecoverSteps
    <2>4. RecoverSteps(j) \in [1..Len(Unsettled) -> {RecoverSteps(j)[m] : m \in 1..Len(Unsettled)}]
      BY <2>3 DEF RecoverSteps
    <2>5. Len(RecoverSteps(j)) = Len(Unsettled)
      BY <2>2, <2>4, FunctionIsSequence
    <2>6. \A m \in 1..Len(Unsettled) : RecoverSteps(j)[m].op = "profile-evaluator"
      BY DEF RecoverSteps, Step
    <2> QED BY <1>2, <2>1, <2>2, <2>3, <2>5, <2>6 DEF OpTypes
  <1>6. CASE TypeOf[j] = "agent-stage"
    <2>1. Steps(j) = StageSteps(j)
      BY <1>6 DEF Steps
    <2>2. Len(StageSteps(j)) = 2 /\ DOMAIN StageSteps(j) = 1..2
      BY DEF StageSteps
    <2>3. \A n \in 1..2 : StageSteps(j)[n].op \in OpTypes
      BY DEF StageSteps, Step, OpTypes
    <2> QED BY <1>2, <2>1, <2>2, <2>3
  <1> QED BY <1>1, <1>3, <1>4, <1>5, <1>6 DEF JobTypes

\* A thread that is at a step has a key and an operation type.
LEMMA StepInHand ==
    ASSUME NEW w \in Workers, InStep(w)
    PROVE  /\ JobOf(w) \in Jobs
           /\ KeyOf(w) \in Keys
           /\ StepOf(w).op \in OpTypes
  BY StepsAreSequences DEF InStep, KeyOf, StepOf

\* There are finitely many operation keys.
LEMMA KeysAreFinite == IsFiniteSet(Keys)
  <1>1. ASSUME NEW j \in Jobs
        PROVE  IsFiniteSet(KeysOf(j))
    <2> DEFINE n == Len(Steps(j))
               f == [i \in 1..n |-> Steps(j)[i].key]
    <2>1. n \in Nat /\ DOMAIN Steps(j) = 1..n
      BY StepsAreSequences
    <2>2. f \in Surjection(1..n, KeysOf(j))
      BY <2>1 DEF KeysOf, Surjection
    <2>3. IsFiniteSet(1..n)
      BY <2>1, FS_Interval
    <2> QED BY <2>2, <2>3, FS_Surjection DEF ExistsSurjection
  <1> DEFINE F == {KeysOf(j) : j \in Jobs}
             g == [j \in Jobs |-> KeysOf(j)]
  <1>2. g \in Surjection(Jobs, F)
    BY DEF Surjection
  <1>3. IsFiniteSet(F)
    BY <1>2, ConstantsAssumption, FS_Surjection DEF ExistsSurjection
  <1> QED BY <1>1, <1>3, FS_UNION DEF Keys

----------------------------------------------------------------------------
(* What a step does to the threads.                                        *)

OthersKeep(w) == \A v \in Workers : v # w => thread'[v] = thread[v]

\* A thread leaves operations.call, moves on to its next step, or gives up.
Settles(w) ==
    /\ thread' \in [Workers -> ThreadState]
    /\ OthersKeep(w)
    /\ thread'[w].pc \in {"step", "failing", "idle"}
    /\ \/ thread'[w].pc = "idle" /\ thread'[w].job = None
       \/ thread'[w].pc # "idle" /\ thread'[w].job = thread[w].job

\* It moves from one phase of operations.call to another, at the same step.
MovesTo(w, pc) ==
    /\ thread' \in [Workers -> ThreadState]
    /\ OthersKeep(w)
    /\ thread'[w].pc = pc
    /\ thread'[w].job = thread[w].job /\ thread'[w].results = thread[w].results

\* A worker that gives its job up is idle, and its thread keeps its type.
LEMMA LeaveEffect ==
    ASSUME TypeOK, NEW w \in Workers, Leave(w)
    PROVE  Settles(w)
  <1>1. Idle \in ThreadState /\ Idle.pc = "idle" /\ Idle.job = None
    BY EmptySeq DEF Idle, ThreadState, Phases
  <1> QED BY <1>1 DEF TypeOK, Leave, Settles, OthersKeep

\* A thread that moves to another phase stays at its step.
LEMMA BecomeEffect ==
    ASSUME TypeOK, NEW w \in Workers, NEW pc \in Phases, Become(w, pc)
    PROVE  MovesTo(w, pc)
  <1>1. thread[w] \in ThreadState
    BY DEF TypeOK
  <1>2. [thread[w] EXCEPT !.pc = pc] \in ThreadState
    BY <1>1 DEF ThreadState
  <1> QED BY <1>1, <1>2 DEF TypeOK, Become, MovesTo, OthersKeep, ThreadState

\* A thread that has a result is at its next step, and keeps its type.
LEMMA AdvanceEffect ==
    ASSUME TypeOK, NEW w \in Workers, NEW result \in Results, Advance(w, result)
    PROVE  Settles(w)
  <1> DEFINE moved == [thread[w] EXCEPT !.pc = "step", !.seen = {},
                                        !.results = Append(thread[w].results, result)]
  <1>1. thread[w] \in ThreadState
    BY DEF TypeOK
  <1>2. Append(thread[w].results, result) \in Seq(Results)
    BY <1>1, AppendProperties DEF ThreadState
  <1>3. moved \in ThreadState /\ moved.pc = "step" /\ moved.job = thread[w].job
    BY <1>1, <1>2 DEF ThreadState, Phases
  <1>4. thread' = [thread EXCEPT ![w] = moved]
    BY DEF Advance
  <1> HIDE DEF moved
  <1> QED BY <1>1, <1>3, <1>4 DEF TypeOK, Settles, OthersKeep

\* An exception either becomes a result, or ends the handler.
LEMMA RaiseEffect ==
    ASSUME TypeOK, NEW w \in Workers, NEW failure, Raise(w, failure)
    PROVE  Settles(w)
  <1>1. CASE Advance(w, "error")
    BY <1>1, AdvanceEffect DEF Results
  <1>2. CASE Leave(w)
    BY <1>2, LeaveEffect
  <1>3. CASE Become(w, "failing")
    BY <1>3, BecomeEffect DEF Settles, MovesTo, Phases
  <1> QED BY <1>1, <1>2, <1>3 DEF Raise

\* The state of at most one job changes, and only to an ended state.
StateEnds ==
    \/ UNCHANGED state
    \/ \E j \in Jobs, ended \in {"completed", "failed", "cancelled"} :
          state' = [state EXCEPT ![j] = ended]

\* A step that touches neither the claims, nor the ledger, nor the calls.
Quiet ==
    /\ StateEnds
    /\ UNCHANGED <<claims, used, calls, late>>
    /\ UNCHANGED thread \/ \E w \in Workers : thread[w].pc # "idle" /\ Settles(w)

\* The steps of the system, sorted by what they do.
LEMMA StepCases ==
    ASSUME IInv, [Next]_vars
    PROVE  \/ Quiet
           \/ \E w \in Workers :
                 \/ \E j \in Jobs : Lease(w, j)
                 \/ ClaimRead(w) \/ ClaimCommit(w) \/ Dispatch(w) \/ Record(w)
  <1>0. TypeOK
    BY DEF IInv
  <1>1. CASE UNCHANGED vars
    BY <1>1 DEF vars, Quiet, StateEnds
  <1>2. ASSUME NEW j \in Jobs, Cancel(j) \/ RecoverLease(j)
        PROVE  Quiet
    BY <1>2 DEF Cancel, RecoverLease, Quiet, StateEnds
  <1>3. ASSUME NEW w \in Workers,
               Skip(w) \/ Reject(w) \/ ClaimRefused(w) \/ ClaimTaken(w)
                 \/ ClaimFails(w) \/ RecordFails(w) \/ Drop(w)
        PROVE  Quiet
    <2>1. thread[w].pc # "idle" /\ UNCHANGED <<state, claims, used, calls, late>>
      BY <1>3 DEF Skip, Reject, ClaimRefused, ClaimTaken, ClaimFails, RecordFails, Drop
    <2>2. Settles(w)
      <3>1. CASE Skip(w)
        BY <1>0, <3>1, AdvanceEffect DEF Skip, Results
      <3>2. CASE Reject(w)
        BY <1>0, <3>2, BecomeEffect DEF Reject, Settles, MovesTo, Phases
      <3>3. CASE Drop(w)
        BY <1>0, <3>3, LeaveEffect DEF Drop
      <3>4. CASE ClaimRefused(w) \/ ClaimTaken(w) \/ ClaimFails(w) \/ RecordFails(w)
        BY <1>0, <3>4, RaiseEffect DEF ClaimRefused, ClaimTaken, ClaimFails, RecordFails
      <3> QED BY <1>3, <3>1, <3>2, <3>3, <3>4
    <2> QED BY <2>1, <2>2 DEF Quiet, StateEnds
  <1>4. ASSUME NEW w \in Workers, Complete(w) \/ Fail(w)
        PROVE  Quiet
    <2>1. thread[w].pc # "idle" /\ UNCHANGED <<claims, used, calls, late>> /\ Leave(w)
      BY <1>4 DEF Complete, Fail
    <2>2. JobOf(w) \in Jobs
      BY <1>0, <2>1 DEF IInv, ThreadsHaveJobs, TypeOK, ThreadState, JobOf
    <2>3. StateEnds
      BY <1>4, <2>2 DEF Complete, Fail, StateEnds
    <2> QED BY <1>0, <2>1, <2>3, LeaveEffect DEF Quiet
  <1> QED BY <1>1, <1>2, <1>3, <1>4 DEF Next

----------------------------------------------------------------------------
(* What the other steps do.                                                *)

\* lease_one_job hands a queued job to an idle thread.
LEMMA LeaseEffect ==
    ASSUME TypeOK, NEW w \in Workers, NEW j \in Jobs, Lease(w, j)
    PROVE  /\ thread' \in [Workers -> ThreadState]
           /\ OthersKeep(w)
           /\ thread'[w].pc = "step" /\ thread'[w].job = j
           /\ state[j] = "queued" /\ state' = [state EXCEPT ![j] = "leased"]
  <1> DEFINE moved == [Idle EXCEPT !.pc = "step", !.job = j]
  <1>1. moved \in ThreadState /\ moved.pc = "step" /\ moved.job = j
    BY EmptySeq DEF Idle, ThreadState, Phases
  <1>2. thread' = [thread EXCEPT ![w] = moved]
    BY DEF Lease
  <1> HIDE DEF moved
  <1> QED BY <1>1, <1>2 DEF TypeOK, OthersKeep, Lease

\* The reads of claim_operation leave the thread at a step of its job that is
\* about to be claimed.
LEMMA ClaimReadEffect ==
    ASSUME IInv, NEW w \in Workers, ClaimRead(w)
    PROVE  /\ MovesTo(w, "claiming") /\ InStep(w)
           /\ thread[w].pc = "step"
           /\ state[JobOf(w)] = "leased" /\ BelowCeiling(JobOf(w))
           /\ UNCHANGED <<state, claims, used, stored, calls, late, refused>>
  <1> DEFINE seen == OpenGrants(w, StepOf(w).op)
             moved == [thread[w] EXCEPT !.pc = "claiming", !.seen = seen]
  <1>1. thread[w] \in ThreadState /\ seen \in SUBSET Grants
    BY DEF IInv, TypeOK, OpenGrants
  <1>2. moved \in ThreadState /\ moved.pc = "claiming" /\ moved.job = thread[w].job
          /\ moved.results = thread[w].results
    BY <1>1 DEF ThreadState, Phases
  <1>3. thread' = [thread EXCEPT ![w] = moved]
    BY DEF ClaimRead
  <1> HIDE DEF moved
  <1>4. MovesTo(w, "claiming")
    BY <1>1, <1>2, <1>3 DEF IInv, TypeOK, MovesTo, OthersKeep
  <1>5. thread[w].pc = "step" /\ ~AtEnd(w)
    BY DEF ClaimRead
  <1>6. JobOf(w) \in Jobs
    BY <1>1, <1>5 DEF IInv, ThreadsHaveJobs, JobOf, ThreadState
  <1>7. InStep(w)
    BY <1>5, <1>6 DEF InStep, AtEnd
  <1> QED BY <1>4, <1>5, <1>7 DEF ClaimRead, LeaseHeld

\* The transaction of claim_operation: a free key gets a claim, charged to a
\* grant with a unit left.
Charges(w, k, g, op) ==
    /\ claims[k].st = "none" /\ used[g][op] < Allowance[g][op]
    /\ used' = [used EXCEPT ![g][op] = used[g][op] + 1]
    /\ claims' = [claims EXCEPT ![k] =
                    [st |-> "claimed", job |-> JobOf(w), grant |-> g, op |-> op]]

\* claim_operation charges the key of the step that its thread is at.
LEMMA ClaimCommitEffect ==
    ASSUME IInv, NEW w \in Workers, ClaimCommit(w)
    PROVE  /\ MovesTo(w, "claimed") /\ InStep(w) /\ thread[w].pc = "claiming"
           /\ \E g \in Grants : Charges(w, KeyOf(w), g, StepOf(w).op)
           /\ UNCHANGED <<state, stored, calls, late, refused>>
  <1>1. thread[w].pc = "claiming" /\ Become(w, "claimed")
    BY DEF ClaimCommit
  <1>2. MovesTo(w, "claimed")
    BY <1>1, BecomeEffect DEF IInv, Phases
  <1>3. InStep(w)
    BY <1>1 DEF IInv, CallsAreSteps, CallPhases
  <1>4. Chargeable(w) \subseteq Grants
    BY DEF Chargeable, IInv, TypeOK, ThreadState
  <1>5. \E g \in Chargeable(w) : Charges(w, KeyOf(w), g, StepOf(w).op)
    BY DEF ClaimCommit, Chargeable, Charges, KeyFree
  <1> QED BY <1>1, <1>2, <1>3, <1>4, <1>5 DEF ClaimCommit

\* The call is sent by the thread that owns its claim.
LEMMA DispatchEffect ==
    ASSUME IInv, NEW w \in Workers, Dispatch(w)
    PROVE  /\ MovesTo(w, "calling") /\ InStep(w) /\ thread[w].pc = "claimed"
           /\ calls' = [calls EXCEPT ![KeyOf(w)] = calls[KeyOf(w)] + 1]
           /\ \/ state[JobOf(w)] = "leased" /\ late' = [late EXCEPT ![JobOf(w)] = late[JobOf(w)]]
              \/ /\ state[JobOf(w)] # "leased"
                 /\ late' = [late EXCEPT ![JobOf(w)] = late[JobOf(w)] + 1]
           /\ UNCHANGED <<state, claims, used, stored, refused>>
  <1>1. thread[w].pc = "claimed" /\ Become(w, "calling")
    BY DEF Dispatch
  <1>2. MovesTo(w, "calling")
    BY <1>1, BecomeEffect DEF IInv, Phases
  <1>3. InStep(w)
    BY <1>1 DEF IInv, CallsAreSteps, CallPhases
  <1>4. CASE state[JobOf(w)] = "leased"
    BY <1>1, <1>2, <1>3, <1>4 DEF Dispatch
  <1>5. CASE state[JobOf(w)] # "leased"
    BY <1>1, <1>2, <1>3, <1>5 DEF Dispatch
  <1> QED BY <1>4, <1>5

\* The outcome of a call settles its claim.
LEMMA RecordEffect ==
    ASSUME IInv, NEW w \in Workers, Record(w)
    PROVE  /\ Settles(w) /\ InStep(w) /\ thread[w].pc = "calling"
           /\ \E st \in {"completed", "failed"} :
                 claims' = [claims EXCEPT ![KeyOf(w)].st = st]
           /\ UNCHANGED <<state, used, stored, calls, late, refused>>
  <1>1. thread[w].pc = "calling"
    BY DEF Record
  <1>2. InStep(w)
    BY <1>1 DEF IInv, CallsAreSteps, CallPhases
  <1>3. TypeOK
    BY DEF IInv
  <1>4. CASE Advance(w, "completed") /\ claims' = [claims EXCEPT ![KeyOf(w)].st = "completed"]
    BY <1>1, <1>2, <1>3, <1>4, AdvanceEffect DEF Record, Results
  <1>5. CASE /\ \E failure \in {"provider", "other"} : Raise(w, failure)
             /\ claims' = [claims EXCEPT ![KeyOf(w)].st = "failed"]
    BY <1>1, <1>2, <1>3, <1>5, RaiseEffect DEF Record
  <1> QED BY <1>4, <1>5 DEF Record

----------------------------------------------------------------------------
(* Type correctness.                                                       *)

\* Only the results of a handler are stored.
LEMMA StoredType ==
    ASSUME IInv, [Next]_vars
    PROVE  stored' \in [Jobs -> Seq(Results)]
  <1>0. stored \in [Jobs -> Seq(Results)]
    BY DEF IInv, TypeOK
  <1>1. ASSUME NEW w \in Workers, Complete(w)
        PROVE  stored' \in [Jobs -> Seq(Results)]
    <2>1. thread[w].results \in Seq(Results)
      BY DEF IInv, TypeOK, ThreadState
    <2> QED BY <1>0, <1>1, <2>1 DEF Complete
  <1>2. CASE UNCHANGED stored
    BY <1>0, <1>2
  <1>3. \/ UNCHANGED stored
        \/ \E w \in Workers : Complete(w)
    BY DEF Next, vars, Lease, Skip, Reject, ClaimRead, ClaimRefused, ClaimCommit, ClaimTaken,
           ClaimFails, Dispatch, Record, RecordFails, Fail, Drop, Cancel, RecoverLease
  <1> QED BY <1>1, <1>2, <1>3

\* Only operations of jobs are refused.
LEMMA RefusedType ==
    ASSUME IInv, [Next]_vars
    PROVE  refused' \subseteq Jobs \X Keys
  <1>0. refused \subseteq Jobs \X Keys
    BY DEF IInv, TypeOK
  <1>1. ASSUME NEW w \in Workers, ClaimRefused(w) \/ ClaimTaken(w)
        PROVE  refused' \subseteq Jobs \X Keys
    <2>1. JobOf(w) \in Jobs
      BY <1>1 DEF IInv, TypeOK, ThreadState, ThreadsHaveJobs, JobOf, ClaimRefused, ClaimTaken
    <2>2. InStep(w)
      BY <1>1, <2>1 DEF IInv, CallsAreSteps, CallPhases, InStep, AtEnd, ClaimRefused, ClaimTaken
    <2>3. <<JobOf(w), KeyOf(w)>> \in Jobs \X Keys
      BY <2>2, StepInHand
    <2>4. refused' \subseteq refused \cup {<<JobOf(w), KeyOf(w)>>}
      BY <1>1 DEF ClaimRefused, ClaimTaken
    <2> QED BY <1>0, <2>3, <2>4
  <1>2. \/ UNCHANGED refused
        \/ \E w \in Workers : ClaimRefused(w) \/ ClaimTaken(w)
    BY DEF Next, vars, Lease, Skip, Reject, ClaimRead, ClaimCommit,
           ClaimFails, Dispatch, Record, RecordFails, Complete, Fail, Drop, Cancel, RecoverLease
  <1> QED BY <1>0, <1>1, <1>2

\* Every step keeps the types.
LEMMA TypeStep ==
    ASSUME IInv, [Next]_vars
    PROVE  TypeOK'
  <1>0. TypeOK
    BY DEF IInv
  <1>1. stored' \in [Jobs -> Seq(Results)] /\ refused' \subseteq Jobs \X Keys
    BY StoredType, RefusedType
  <1>2. CASE Quiet
    <2>1. state' \in [Jobs -> JobStates]
      BY <1>0, <1>2 DEF Quiet, StateEnds, TypeOK, JobStates
    <2>2. thread' \in [Workers -> ThreadState]
      BY <1>0, <1>2 DEF Quiet, Settles, TypeOK
    <2> QED BY <1>0, <1>1, <1>2, <2>1, <2>2 DEF Quiet, TypeOK
  <1>3. ASSUME NEW w \in Workers, NEW j \in Jobs, Lease(w, j)
        PROVE  TypeOK'
    <2>1. thread' \in [Workers -> ThreadState] /\ state' = [state EXCEPT ![j] = "leased"]
      BY <1>0, <1>3, LeaseEffect
    <2> QED BY <1>0, <1>1, <1>3, <2>1 DEF Lease, TypeOK, JobStates
  <1>4. ASSUME NEW w \in Workers, ClaimRead(w)
        PROVE  TypeOK'
    BY <1>0, <1>1, <1>4, ClaimReadEffect DEF MovesTo, TypeOK
  <1>5. ASSUME NEW w \in Workers, ClaimCommit(w)
        PROVE  TypeOK'
    <2>1. /\ MovesTo(w, "claimed") /\ InStep(w)
          /\ UNCHANGED <<state, stored, calls, late, refused>>
      BY <1>5, ClaimCommitEffect
    <2>2. PICK g \in Grants : Charges(w, KeyOf(w), g, StepOf(w).op)
      BY <1>5, ClaimCommitEffect
    <2>3. KeyOf(w) \in Keys /\ StepOf(w).op \in OpTypes /\ JobOf(w) \in Jobs /\ g \in Nat
      BY <2>1, StepInHand DEF Grants
    <2>4. claims' \in [Keys -> ClaimRow]
      BY <1>0, <2>2, <2>3 DEF Charges, TypeOK, ClaimRow
    <2>5. used[g] \in [OpTypes -> Nat] /\ used[g][StepOf(w).op] + 1 \in Nat
      BY <1>0, <2>3 DEF TypeOK
    <2>6. used' \in [Grants -> [OpTypes -> Nat]]
      BY <1>0, <2>2, <2>3, <2>5 DEF Charges, TypeOK
    <2> QED BY <1>0, <1>1, <2>1, <2>4, <2>6 DEF MovesTo, TypeOK
  <1>6. ASSUME NEW w \in Workers, Dispatch(w)
        PROVE  TypeOK'
    <2>1. /\ MovesTo(w, "calling") /\ InStep(w)
          /\ calls' = [calls EXCEPT ![KeyOf(w)] = calls[KeyOf(w)] + 1]
          /\ UNCHANGED <<state, claims, used, stored, refused>>
      BY <1>6, DispatchEffect
    <2>2. KeyOf(w) \in Keys /\ JobOf(w) \in Jobs
      BY <2>1, StepInHand
    <2>3. calls' \in [Keys -> Nat]
      BY <1>0, <2>1, <2>2 DEF TypeOK
    <2>4. late \in [Jobs -> Nat] /\ late[JobOf(w)] \in Nat /\ late[JobOf(w)] + 1 \in Nat
      BY <1>0, <2>2 DEF TypeOK
    <2>5. \/ late' = [late EXCEPT ![JobOf(w)] = late[JobOf(w)]]
          \/ late' = [late EXCEPT ![JobOf(w)] = late[JobOf(w)] + 1]
      BY <1>6, DispatchEffect
    <2>6. late' \in [Jobs -> Nat]
      BY <2>4, <2>5
    <2> QED BY <1>0, <1>1, <2>1, <2>3, <2>6 DEF MovesTo, TypeOK
  <1>7. ASSUME NEW w \in Workers, Record(w)
        PROVE  TypeOK'
    <2>1. /\ Settles(w) /\ InStep(w)
          /\ UNCHANGED <<state, used, stored, calls, late, refused>>
      BY <1>7, RecordEffect
    <2>2. PICK st \in {"completed", "failed"} : claims' = [claims EXCEPT ![KeyOf(w)].st = st]
      BY <1>7, RecordEffect
    <2>3. claims[KeyOf(w)] \in ClaimRow
      BY <1>0, <2>1, StepInHand DEF TypeOK
    <2>4. claims' \in [Keys -> ClaimRow]
      BY <1>0, <2>2, <2>3 DEF TypeOK, ClaimRow
    <2> QED BY <1>0, <1>1, <2>1, <2>4 DEF Settles, TypeOK
  <1> QED BY <1>2, <1>3, <1>4, <1>5, <1>6, <1>7, StepCases

----------------------------------------------------------------------------
(* Jobs and threads.                                                       *)

\* Except when a job is leased, no thread gets a job, and no job gets a lease.
JobsStay ==
    /\ \A v \in Workers :
          /\ (thread'[v].pc = "idle") <=> (thread'[v].job = None)
          /\ thread'[v].job \in {None, thread[v].job}
    /\ \A j \in Jobs : /\ state[j] # "queued" => state'[j] # "queued"
                       /\ state'[j] \in {"queued", "leased"} => state'[j] = state[j]

\* Only lease_one_job gives a worker a job.
LEMMA JobsStayPut ==
    ASSUME IInv, [Next]_vars
    PROVE  JobsStay \/ \E w \in Workers, j \in Jobs : Lease(w, j)
  <1>0. /\ TypeOK
        /\ \A v \in Workers : (thread[v].pc = "idle") <=> (thread[v].job = None)
    BY DEF IInv, ThreadsHaveJobs, JobOf
  <1>1. CASE Quiet
    <2>1. \A j \in Jobs : /\ state[j] # "queued" => state'[j] # "queued"
                          /\ state'[j] \in {"queued", "leased"} => state'[j] = state[j]
      BY <1>0, <1>1 DEF Quiet, StateEnds, TypeOK
    <2>2. CASE UNCHANGED thread
      BY <1>0, <2>1, <2>2 DEF JobsStay
    <2>3. CASE \E w \in Workers : thread[w].pc # "idle" /\ Settles(w)
      <3>1. PICK w \in Workers : thread[w].pc # "idle" /\ Settles(w)
        BY <2>3
      <3> QED BY <1>0, <2>1, <3>1 DEF JobsStay, Settles, OthersKeep
    <2> QED BY <1>1, <2>2, <2>3 DEF Quiet
  <1>2. ASSUME NEW w \in Workers, ClaimRead(w) \/ ClaimCommit(w) \/ Dispatch(w)
        PROVE  JobsStay
    <2>1. PICK pc \in CallPhases : MovesTo(w, pc) /\ thread[w].pc # "idle" /\ UNCHANGED state
      BY <1>2, ClaimReadEffect, ClaimCommitEffect, DispatchEffect DEF CallPhases
    <2>2. pc # "idle"
      BY DEF CallPhases
    <2> QED BY <1>0, <2>1, <2>2 DEF JobsStay, MovesTo, OthersKeep
  <1>3. ASSUME NEW w \in Workers, Record(w)
        PROVE  JobsStay
    <2>1. Settles(w) /\ thread[w].pc = "calling" /\ UNCHANGED state
      BY <1>3, RecordEffect
    <2> QED BY <1>0, <2>1 DEF JobsStay, Settles, OthersKeep
  <1> QED BY <1>1, <1>2, <1>3, StepCases

\* A thread has a job exactly while it works, and that job was leased.
LEMMA ThreadsHaveJobsStep ==
    ASSUME IInv, [Next]_vars
    PROVE  ThreadsHaveJobs'
  <1>0. TypeOK /\ ThreadsHaveJobs
    BY DEF IInv
  <1>1. \A v \in Workers : thread[v].job \in Jobs \cup {None}
    BY <1>0 DEF TypeOK, ThreadState
  <1>2. CASE JobsStay
    BY <1>0, <1>1, <1>2 DEF JobsStay, ThreadsHaveJobs, JobOf
  <1>3. ASSUME NEW w \in Workers, NEW j \in Jobs, Lease(w, j)
        PROVE  ThreadsHaveJobs'
    <2>1. /\ OthersKeep(w) /\ thread'[w].pc = "step" /\ thread'[w].job = j
          /\ state' = [state EXCEPT ![j] = "leased"]
      BY <1>0, <1>3, LeaseEffect
    <2>2. \A i \in Jobs : state[i] # "queued" => state'[i] # "queued"
      BY <1>0, <2>1 DEF TypeOK
    <2>3. state'[j] # "queued" /\ j # None
      BY <1>0, <2>1, ConstantsAssumption DEF TypeOK
    <2> QED BY <1>0, <1>1, <2>1, <2>2, <2>3 DEF ThreadsHaveJobs, JobOf, OthersKeep
  <1> QED BY <1>2, <1>3, JobsStayPut

\* A job that is leased was in no thread before: it was queued.
LEMMA OneThreadPerJobStep ==
    ASSUME IInv, [Next]_vars
    PROVE  OneThreadPerJob'
  <1>0. TypeOK /\ OneThreadPerJob /\ ThreadsHaveJobs
    BY DEF IInv
  <1>1. CASE JobsStay
    BY <1>0, <1>1 DEF JobsStay, OneThreadPerJob, JobOf
  <1>2. ASSUME NEW w \in Workers, NEW j \in Jobs, Lease(w, j)
        PROVE  OneThreadPerJob'
    <2>1. OthersKeep(w) /\ thread'[w].job = j /\ state[j] = "queued" /\ j # None
      BY <1>0, <1>2, LeaseEffect, ConstantsAssumption
    <2>2. \A v \in Workers : thread[v].job # j
      BY <1>0, <2>1 DEF ThreadsHaveJobs, JobOf
    <2> QED BY <1>0, <2>1, <2>2 DEF OneThreadPerJob, JobOf, OthersKeep
  <1> QED BY <1>1, <1>2, JobsStayPut

----------------------------------------------------------------------------
(* Calls.                                                                  *)

\* A thread that is in a call was at this step before, in the same call or, if
\* this step of the system is its own, just before it.
StaysInCall(v) ==
    /\ thread'[v].job = thread[v].job /\ thread'[v].results = thread[v].results
    /\ InStep(v)

\* A call keeps to its step.
LEMMA CallsStayAtTheirStep ==
    ASSUME IInv, [Next]_vars, NEW v \in Workers, thread'[v].pc \in CallPhases
    PROVE  StaysInCall(v)
  <1>0. TypeOK /\ CallsAreSteps
    BY DEF IInv
  <1>1. CASE thread'[v] = thread[v]
    BY <1>0, <1>1 DEF StaysInCall, CallsAreSteps
  <1>2. CASE Quiet
    <2>1. thread'[v] = thread[v]
      BY <1>2 DEF Quiet, Settles, OthersKeep, CallPhases
    <2> QED BY <1>1, <2>1
  <1>3. ASSUME NEW w \in Workers, NEW j \in Jobs, Lease(w, j)
        PROVE  StaysInCall(v)
    <2>1. thread'[v] = thread[v]
      BY <1>0, <1>3, LeaseEffect DEF OthersKeep, CallPhases
    <2> QED BY <1>1, <2>1
  <1>4. ASSUME NEW w \in Workers, ClaimRead(w) \/ ClaimCommit(w) \/ Dispatch(w)
        PROVE  StaysInCall(v)
    <2>1. PICK pc \in CallPhases : MovesTo(w, pc) /\ InStep(w)
      BY <1>4, ClaimReadEffect, ClaimCommitEffect, DispatchEffect DEF CallPhases
    <2>2. CASE v = w
      BY <2>1, <2>2 DEF StaysInCall, MovesTo
    <2>3. CASE v # w
      BY <1>1, <2>1, <2>3 DEF MovesTo, OthersKeep
    <2> QED BY <2>2, <2>3
  <1>5. ASSUME NEW w \in Workers, Record(w)
        PROVE  StaysInCall(v)
    <2>1. thread'[v] = thread[v]
      BY <1>5, RecordEffect DEF Settles, OthersKeep, CallPhases
    <2> QED BY <1>1, <2>1
  <1> QED BY <1>2, <1>3, <1>4, <1>5, StepCases

\* Hence it is still at a step of its job, and at the same key.
LEMMA CallsKeepTheirKey ==
    ASSUME IInv, [Next]_vars, NEW v \in Workers, thread'[v].pc \in CallPhases
    PROVE  InStep(v)' /\ JobOf(v)' = JobOf(v) /\ KeyOf(v)' = KeyOf(v)
  <1>1. StaysInCall(v)
    BY CallsStayAtTheirStep
  <1> QED BY <1>1 DEF StaysInCall, InStep, JobOf, KeyOf, StepOf

\* The threads inside operations.call are at steps of their jobs.
LEMMA CallsAreStepsStep ==
    ASSUME IInv, [Next]_vars
    PROVE  CallsAreSteps'
  BY CallsKeepTheirKey DEF CallsAreSteps

----------------------------------------------------------------------------
(* Claims.                                                                 *)

\* Two threads in calls of which one has its claim are at different keys.
LEMMA KeysDiffer ==
    ASSUME IInv, NEW v \in Workers, NEW w \in Workers, v # w,
           thread[v].pc \in {"claimed", "calling"},
           \/ thread[w].pc \in {"claimed", "calling"}
           \/ claims[KeyOf(w)].st = "none"
    PROVE  KeyOf(v) # KeyOf(w)
  <1>1. claims[KeyOf(v)].st = "claimed" /\ claims[KeyOf(v)].job = JobOf(v)
    BY DEF IInv, ClaimsAreHeld
  <1>2. CASE thread[w].pc \in {"claimed", "calling"}
    <2>1. claims[KeyOf(w)].job = JobOf(w)
      BY <1>2 DEF IInv, ClaimsAreHeld
    <2>2. JobOf(v) # None
      BY DEF IInv, ThreadsHaveJobs
    <2>3. JobOf(v) # JobOf(w)
      BY <2>2 DEF IInv, OneThreadPerJob
    <2> QED BY <1>1, <2>1, <2>3
  <1>3. CASE claims[KeyOf(w)].st = "none"
    BY <1>1, <1>3
  <1> QED BY <1>2, <1>3

\* What the transaction of claim_operation does to the claims.
LEMMA ChargedRow ==
    ASSUME IInv, NEW w \in Workers, ClaimCommit(w)
    PROVE  /\ KeyOf(w) \in Keys /\ JobOf(w) \in Jobs /\ JobOf(w) # None
           /\ claims[KeyOf(w)].st = "none" /\ claims[KeyOf(w)].job = None
           /\ claims'[KeyOf(w)].st = "claimed" /\ claims'[KeyOf(w)].job = JobOf(w)
           /\ \A k \in Keys : k # KeyOf(w) => claims'[k] = claims[k]
           /\ UNCHANGED <<state, calls, late>>
  <1>1. InStep(w) /\ UNCHANGED <<state, calls, late>>
    BY ClaimCommitEffect
  <1>2. PICK g \in Grants : Charges(w, KeyOf(w), g, StepOf(w).op)
    BY ClaimCommitEffect
  <1>3. KeyOf(w) \in Keys /\ JobOf(w) \in Jobs
    BY <1>1, StepInHand
  <1>4. JobOf(w) # None
    BY <1>3, ConstantsAssumption
  <1> QED BY <1>1, <1>2, <1>3, <1>4 DEF Charges, IInv, TypeOK, RowsHaveJobs

\* What record_operation does to the claims.
LEMMA SettledRow ==
    ASSUME IInv, NEW w \in Workers, Record(w)
    PROVE  /\ KeyOf(w) \in Keys /\ claims[KeyOf(w)].st = "claimed"
           /\ claims'[KeyOf(w)].st \in {"completed", "failed"}
           /\ \A k \in Keys : /\ k # KeyOf(w) => claims'[k] = claims[k]
                              /\ claims'[k].job = claims[k].job
                              /\ claims'[k].grant = claims[k].grant
                              /\ claims'[k].op = claims[k].op
  <1>1. InStep(w) /\ thread[w].pc = "calling"
    BY RecordEffect
  <1>2. PICK st \in {"completed", "failed"} : claims' = [claims EXCEPT ![KeyOf(w)].st = st]
    BY RecordEffect
  <1>3. KeyOf(w) \in Keys /\ claims[KeyOf(w)].st = "claimed"
    BY <1>1, StepInHand DEF IInv, ClaimsAreHeld
  <1>4. claims \in [Keys -> ClaimRow]
    BY DEF IInv, TypeOK
  <1> QED BY <1>2, <1>3, <1>4 DEF ClaimRow

\* A thread owns the claim of its call until the outcome.
LEMMA ClaimsAreHeldStep ==
    ASSUME IInv, [Next]_vars
    PROVE  ClaimsAreHeld'
  <1> DEFINE Held(v) == /\ claims[KeyOf(v)].st = "claimed" /\ claims[KeyOf(v)].job = JobOf(v)
                        /\ thread[v].pc = "claimed" => calls[KeyOf(v)] = 0
  <1> SUFFICES ASSUME NEW v \in Workers, thread'[v].pc \in {"claimed", "calling"}
               PROVE  Held(v)'
    BY DEF ClaimsAreHeld
  <1>1. InStep(v)' /\ JobOf(v)' = JobOf(v) /\ KeyOf(v)' = KeyOf(v)
    BY CallsKeepTheirKey DEF CallPhases
  <1>2. thread[v].pc \in {"claimed", "calling"} => Held(v)
    BY DEF IInv, ClaimsAreHeld
  <1>3. TypeOK /\ StaysInCall(v)
    BY CallsStayAtTheirStep DEF CallPhases, IInv
  <1>4. KeyOf(v) \in Keys
    BY <1>3, StepInHand DEF StaysInCall
  <1>5. CASE thread'[v] = thread[v] /\ UNCHANGED <<claims, calls>>
    BY <1>1, <1>2, <1>5
  <1>6. CASE Quiet
    <2>1. thread'[v] = thread[v]
      BY <1>6 DEF Quiet, Settles, OthersKeep
    <2> QED BY <1>5, <1>6, <2>1 DEF Quiet
  <1>7. ASSUME NEW w \in Workers, NEW j \in Jobs, Lease(w, j)
        PROVE  Held(v)'
    <2>1. thread'[v] = thread[v]
      BY <1>3, <1>7, LeaseEffect DEF OthersKeep
    <2> QED BY <1>5, <1>7, <2>1 DEF Lease
  <1>8. ASSUME NEW w \in Workers, ClaimRead(w)
        PROVE  Held(v)'
    <2>1. thread'[v] = thread[v] /\ UNCHANGED <<claims, calls>>
      BY <1>8, ClaimReadEffect DEF MovesTo, OthersKeep
    <2> QED BY <1>5, <2>1
  <1>9. ASSUME NEW w \in Workers, ClaimCommit(w)
        PROVE  Held(v)'
    <2>1. MovesTo(w, "claimed")
      BY <1>9, ClaimCommitEffect
    <2>2. CASE v = w
      <3>1. KeyOf(w) \in Keys /\ claims[KeyOf(w)].st = "none" /\ UNCHANGED calls
        BY <1>9, ChargedRow
      <3>2. \A k \in Keys : calls[k] \in Nat /\ calls[k] <= 1 /\ (calls[k] = 1 => claims[k].st # "none")
        BY <1>3 DEF IInv, TypeOK, DispatchedOnceUnderClaim
      <3>3. calls[KeyOf(w)] = 0
        BY <3>1, <3>2
      <3> QED BY <1>1, <1>9, <2>2, <3>1, <3>3, ChargedRow
    <2>3. CASE v # w
      <3>1. thread'[v] = thread[v]
        BY <2>1, <2>3 DEF MovesTo, OthersKeep
      <3>2. KeyOf(v) # KeyOf(w)
        BY <1>9, <2>3, <3>1, KeysDiffer, ChargedRow
      <3> QED BY <1>1, <1>2, <1>4, <1>9, <3>1, <3>2, ChargedRow
    <2> QED BY <2>2, <2>3
  <1>10. ASSUME NEW w \in Workers, Dispatch(w)
         PROVE  Held(v)'
    <2>1. /\ MovesTo(w, "calling") /\ thread[w].pc = "claimed"
          /\ calls' = [calls EXCEPT ![KeyOf(w)] = calls[KeyOf(w)] + 1]
          /\ UNCHANGED claims
      BY <1>10, DispatchEffect
    <2>2. CASE v = w
      BY <1>1, <1>2, <2>1, <2>2 DEF MovesTo
    <2>3. CASE v # w
      <3>1. thread'[v] = thread[v]
        BY <2>1, <2>3 DEF MovesTo, OthersKeep
      <3>2. KeyOf(v) # KeyOf(w)
        BY <2>1, <2>3, <3>1, KeysDiffer
      <3>3. calls'[KeyOf(v)] = calls[KeyOf(v)]
        BY <1>3, <1>4, <2>1, <3>2 DEF TypeOK
      <3> QED BY <1>1, <1>2, <2>1, <3>1, <3>3
    <2> QED BY <2>2, <2>3
  <1>11. ASSUME NEW w \in Workers, Record(w)
         PROVE  Held(v)'
    <2>1. Settles(w) /\ thread[w].pc = "calling" /\ UNCHANGED calls
      BY <1>11, RecordEffect
    <2>2. v # w /\ thread'[v] = thread[v]
      BY <2>1 DEF Settles, OthersKeep
    <2>3. KeyOf(v) # KeyOf(w)
      BY <2>1, <2>2, KeysDiffer
    <2>4. claims'[KeyOf(v)] = claims[KeyOf(v)]
      BY <1>4, <1>11, <2>3, SettledRow
    <2> QED BY <1>1, <1>2, <2>1, <2>2, <2>4
  <1> QED BY <1>6, <1>7, <1>8, <1>9, <1>10, <1>11, StepCases

\* The rows and the calls of the keys, in the steps that do not write them.
LEMMA ClaimWriters ==
    ASSUME IInv, [Next]_vars
    PROVE  \/ UNCHANGED <<claims, used, calls>>
           \/ \E w \in Workers : ClaimCommit(w) \/ Dispatch(w) \/ Record(w)
  <1>1. ASSUME NEW w \in Workers, NEW j \in Jobs, Lease(w, j)
        PROVE  UNCHANGED <<claims, used, calls>>
    BY <1>1 DEF Lease
  <1>2. ASSUME NEW w \in Workers, ClaimRead(w)
        PROVE  UNCHANGED <<claims, used, calls>>
    BY <1>2 DEF ClaimRead
  <1> QED BY <1>1, <1>2, StepCases DEF Quiet

\* A row that is in the table names its job.
LEMMA RowsHaveJobsStep ==
    ASSUME IInv, [Next]_vars
    PROVE  RowsHaveJobs'
  <1>0. RowsHaveJobs
    BY DEF IInv
  <1>1. CASE UNCHANGED claims
    BY <1>0, <1>1 DEF RowsHaveJobs
  <1>2. ASSUME NEW w \in Workers, ClaimCommit(w)
        PROVE  RowsHaveJobs'
    BY <1>0, <1>2, ChargedRow DEF RowsHaveJobs
  <1>3. ASSUME NEW w \in Workers, Record(w)
        PROVE  RowsHaveJobs'
    BY <1>0, <1>3, SettledRow DEF RowsHaveJobs
  <1>4. ASSUME NEW w \in Workers, Dispatch(w)
        PROVE  UNCHANGED claims
    BY <1>4 DEF Dispatch
  <1> QED BY <1>1, <1>2, <1>3, <1>4, ClaimWriters

\* A call is sent by the thread that holds its claim, once.
LEMMA DispatchedOnceStep ==
    ASSUME IInv, [Next]_vars
    PROVE  DispatchedOnceUnderClaim'
  <1>0. TypeOK /\ DispatchedOnceUnderClaim
    BY DEF IInv
  <1>1. CASE UNCHANGED <<claims, calls>>
    BY <1>0, <1>1 DEF DispatchedOnceUnderClaim
  <1>2. ASSUME NEW w \in Workers, ClaimCommit(w)
        PROVE  DispatchedOnceUnderClaim'
    BY <1>0, <1>2, ChargedRow DEF DispatchedOnceUnderClaim
  <1>3. ASSUME NEW w \in Workers, Record(w)
        PROVE  DispatchedOnceUnderClaim'
    <2>1. UNCHANGED calls
      BY <1>3, RecordEffect
    <2> QED BY <1>0, <1>3, <2>1, SettledRow DEF DispatchedOnceUnderClaim
  <1>4. ASSUME NEW w \in Workers, Dispatch(w)
        PROVE  DispatchedOnceUnderClaim'
    <2>1. /\ InStep(w) /\ thread[w].pc = "claimed"
          /\ calls' = [calls EXCEPT ![KeyOf(w)] = calls[KeyOf(w)] + 1]
          /\ UNCHANGED claims
      BY <1>4, DispatchEffect
    <2>2. KeyOf(w) \in Keys
      BY <2>1, StepInHand
    <2>3. claims[KeyOf(w)].st = "claimed" /\ calls[KeyOf(w)] = 0
      BY <2>1 DEF IInv, ClaimsAreHeld
    <2>4. calls'[KeyOf(w)] = 1 /\ \A k \in Keys : k # KeyOf(w) => calls'[k] = calls[k]
      BY <1>0, <2>1, <2>2, <2>3 DEF TypeOK
    <2> QED BY <1>0, <2>1, <2>3, <2>4 DEF DispatchedOnceUnderClaim
  <1> QED BY <1>1, <1>2, <1>3, <1>4, ClaimWriters

----------------------------------------------------------------------------
(* Late calls.                                                             *)

\* A call is late only if its job has ended, and its thread made none before.
LEMMA LateCallsStep ==
    ASSUME IInv, [Next]_vars
    PROVE  LateCalls' /\ AtMostOneLateCall'
  <1>0. TypeOK /\ LateCalls /\ AtMostOneLateCall /\ ThreadsHaveJobs /\ OneThreadPerJob
    BY DEF IInv
  <1>1. CASE Quiet
    <2>1. \A j \in Jobs : state'[j] \in {"queued", "leased"} => state'[j] = state[j]
      BY <1>0, <1>1 DEF Quiet, StateEnds, TypeOK
    <2>2. \A v \in Workers : thread'[v].pc \in {"claiming", "claimed"} => thread'[v] = thread[v]
      BY <1>1 DEF Quiet, Settles, OthersKeep
    <2>3. UNCHANGED late
      BY <1>1 DEF Quiet
    <2> QED BY <1>0, <2>1, <2>2, <2>3 DEF LateCalls, AtMostOneLateCall, JobOf
  <1>2. ASSUME NEW w \in Workers, NEW j \in Jobs, Lease(w, j)
        PROVE  LateCalls' /\ AtMostOneLateCall'
    <2>1. /\ OthersKeep(w) /\ thread'[w].pc = "step"
          /\ state[j] = "queued" /\ state' = [state EXCEPT ![j] = "leased"]
      BY <1>0, <1>2, LeaseEffect
    <2>2. \A i \in Jobs : state'[i] \in {"queued", "leased"} => state[i] \in {"queued", "leased"}
      BY <1>0, <2>1 DEF TypeOK
    <2>3. UNCHANGED late
      BY <1>2 DEF Lease
    <2> QED BY <1>0, <2>1, <2>2, <2>3 DEF LateCalls, AtMostOneLateCall, JobOf, OthersKeep
  <1>3. ASSUME NEW w \in Workers, ClaimRead(w)
        PROVE  LateCalls' /\ AtMostOneLateCall'
    <2>1. /\ MovesTo(w, "claiming") /\ InStep(w) /\ state[JobOf(w)] = "leased"
          /\ UNCHANGED <<state, late>>
      BY <1>3, ClaimReadEffect
    <2>2. late[JobOf(w)] = 0
      BY <1>0, <2>1 DEF LateCalls, InStep
    <2> QED BY <1>0, <2>1, <2>2 DEF LateCalls, AtMostOneLateCall, JobOf, MovesTo, OthersKeep
  <1>4. ASSUME NEW w \in Workers, ClaimCommit(w)
        PROVE  LateCalls' /\ AtMostOneLateCall'
    <2>1. MovesTo(w, "claimed") /\ thread[w].pc = "claiming" /\ UNCHANGED <<state, late>>
      BY <1>4, ClaimCommitEffect
    <2> QED BY <1>0, <2>1 DEF LateCalls, AtMostOneLateCall, JobOf, MovesTo, OthersKeep
  <1>5. ASSUME NEW w \in Workers, Dispatch(w)
        PROVE  LateCalls' /\ AtMostOneLateCall'
    <2>1. /\ MovesTo(w, "calling") /\ InStep(w) /\ thread[w].pc = "claimed" /\ UNCHANGED state
      BY <1>5, DispatchEffect
    <2>2. JobOf(w) \in Jobs /\ late[JobOf(w)] = 0 /\ JobOf(w) # None
      BY <1>0, <2>1, ConstantsAssumption DEF LateCalls, InStep
    <2>3. state[JobOf(w)] # "queued"
      BY <1>0, <2>2 DEF ThreadsHaveJobs
    <2>4. CASE state[JobOf(w)] = "leased"
      <3>1. late' = late
        BY <1>0, <1>5, <2>2, <2>4, DispatchEffect DEF TypeOK
      <3> QED BY <1>0, <2>1, <3>1 DEF LateCalls, AtMostOneLateCall, JobOf, MovesTo, OthersKeep
    <2>5. CASE state[JobOf(w)] # "leased"
      <3>1. late'[JobOf(w)] = 1 /\ \A j \in Jobs : j # JobOf(w) => late'[j] = late[j]
        BY <1>0, <1>5, <2>2, <2>5, DispatchEffect DEF TypeOK
      <3>2. \A j \in Jobs : state'[j] \in {"queued", "leased"} => late'[j] = 0
        BY <1>0, <2>1, <2>3, <2>5, <3>1 DEF LateCalls
      <3>3. ASSUME NEW v \in Workers, thread'[v].pc \in {"claiming", "claimed"}
            PROVE  late'[thread'[v].job] = 0
        <4>1. v # w /\ thread'[v] = thread[v]
          BY <2>1, <3>3 DEF MovesTo, OthersKeep
        <4>2. thread[v].job # None /\ thread[v].job \in Jobs
          BY <1>0, <3>3, <4>1 DEF ThreadsHaveJobs, TypeOK, ThreadState, JobOf
        <4>3. thread[v].job # JobOf(w)
          BY <1>0, <4>1, <4>2 DEF OneThreadPerJob, JobOf
        <4> QED BY <1>0, <3>1, <3>3, <4>1, <4>2, <4>3 DEF LateCalls, JobOf
      <3> QED BY <1>0, <3>1, <3>2, <3>3 DEF LateCalls, AtMostOneLateCall, JobOf
    <2> QED BY <2>4, <2>5
  <1>6. ASSUME NEW w \in Workers, Record(w)
        PROVE  LateCalls' /\ AtMostOneLateCall'
    <2>1. Settles(w) /\ UNCHANGED <<state, late>>
      BY <1>6, RecordEffect
    <2> QED BY <1>0, <2>1 DEF LateCalls, AtMostOneLateCall, JobOf, Settles, OthersKeep
  <1> QED BY <1>1, <1>2, <1>3, <1>4, <1>5, <1>6, StepCases

----------------------------------------------------------------------------
(* The ledger and the ceilings.                                            *)

\* A set of keys is finite, and a key that is not in it adds one to its size.
LEMMA OneMoreKey ==
    ASSUME NEW S \in SUBSET Keys, NEW k \in Keys, k \notin S
    PROVE  /\ Cardinality(S) \in Nat
           /\ Cardinality(S \cup {k}) = Cardinality(S) + 1
  <1>1. IsFiniteSet(S)
    BY KeysAreFinite, FS_Subset
  <1> QED BY <1>1, FS_CardinalityType, FS_AddElement

\* The transaction of claim_operation adds its key to what it charges.
LEMMA ChargeEffect ==
    ASSUME IInv, NEW w \in Workers, ClaimCommit(w)
    PROVE  \E g \in Grants, op \in OpTypes :
             /\ KeyOf(w) \in Keys /\ KeyOf(w) \notin ChargedTo(g, op)
             /\ used[g][op] < Allowance[g][op]
             /\ used'[g][op] = used[g][op] + 1
             /\ ChargedTo(g, op)' = ChargedTo(g, op) \cup {KeyOf(w)}
             /\ \A h \in Grants, t \in OpTypes : h # g \/ t # op =>
                   used'[h][t] = used[h][t] /\ ChargedTo(h, t)' = ChargedTo(h, t)
  <1>0. TypeOK
    BY DEF IInv
  <1>1. PICK g \in Grants : Charges(w, KeyOf(w), g, StepOf(w).op)
    BY ClaimCommitEffect
  <1>2. PICK k \in Keys, op \in OpTypes : k = KeyOf(w) /\ op = StepOf(w).op
    BY ClaimCommitEffect, StepInHand
  <1>3. /\ claims[k].st = "none" /\ used[g][op] < Allowance[g][op]
        /\ used' = [used EXCEPT ![g][op] = used[g][op] + 1]
        /\ claims' = [claims EXCEPT ![k] =
                        [st |-> "claimed", job |-> JobOf(w), grant |-> g, op |-> op]]
    BY <1>1, <1>2 DEF Charges
  <1>4. /\ used'[g][op] = used[g][op] + 1
        /\ \A h \in Grants, t \in OpTypes : h # g \/ t # op => used'[h][t] = used[h][t]
    BY <1>0, <1>2, <1>3 DEF TypeOK
  <1>5. /\ claims'[k].st = "claimed" /\ claims'[k].grant = g /\ claims'[k].op = op
        /\ \A i \in Keys : i # k => claims'[i] = claims[i]
    BY <1>0, <1>2, <1>3 DEF TypeOK
  <1>6. k \notin ChargedTo(g, op)
    BY <1>3 DEF ChargedTo
  <1>7. ChargedTo(g, op)' = ChargedTo(g, op) \cup {k}
    BY <1>2, <1>5 DEF ChargedTo
  <1>8. \A h \in Grants, t \in OpTypes : h # g \/ t # op =>
           ChargedTo(h, t)' = ChargedTo(h, t)
    BY <1>3, <1>5 DEF ChargedTo
  <1> QED BY <1>2, <1>3, <1>4, <1>6, <1>7, <1>8

\* What was consumed stays the number of claims, within the allowance.
LEMMA LedgerStep ==
    ASSUME IInv, [Next]_vars
    PROVE  LedgerBalances'
  <1>0. TypeOK /\ LedgerBalances
    BY DEF IInv
  <1>1. CASE UNCHANGED <<claims, used>>
    BY <1>0, <1>1 DEF LedgerBalances, ChargedTo
  <1>2. ASSUME NEW w \in Workers, ClaimCommit(w)
        PROVE  LedgerBalances'
    <2>1. PICK g \in Grants, op \in OpTypes :
             /\ KeyOf(w) \in Keys /\ KeyOf(w) \notin ChargedTo(g, op)
             /\ used[g][op] < Allowance[g][op]
             /\ used'[g][op] = used[g][op] + 1
             /\ ChargedTo(g, op)' = ChargedTo(g, op) \cup {KeyOf(w)}
             /\ \A h \in Grants, t \in OpTypes : h # g \/ t # op =>
                   used'[h][t] = used[h][t] /\ ChargedTo(h, t)' = ChargedTo(h, t)
      BY <1>2, ChargeEffect
    <2>2. ChargedTo(g, op) \in SUBSET Keys
      BY DEF ChargedTo
    <2>3. Cardinality(ChargedTo(g, op)') = Cardinality(ChargedTo(g, op)) + 1
      BY <2>1, <2>2, OneMoreKey
    <2>4. used[g][op] \in Nat /\ Allowance[g][op] \in Nat
      BY <1>0, ConstantsAssumption DEF TypeOK
    <2>5. used'[g][op] = Cardinality(ChargedTo(g, op)') /\ used'[g][op] <= Allowance[g][op]
      BY <1>0, <2>1, <2>3, <2>4 DEF LedgerBalances
    <2>6. ASSUME NEW h \in Grants, NEW t \in OpTypes, h # g \/ t # op
          PROVE  used'[h][t] = Cardinality(ChargedTo(h, t)') /\ used'[h][t] <= Allowance[h][t]
      BY <1>0, <2>1, <2>6 DEF LedgerBalances
    <2> QED BY <2>5, <2>6 DEF LedgerBalances
  <1>3. ASSUME NEW w \in Workers, Record(w)
        PROVE  LedgerBalances'
    <2>1. UNCHANGED used
      BY <1>3, RecordEffect
    <2>2. \A g \in Grants, t \in OpTypes : ChargedTo(g, t)' = ChargedTo(g, t)
      BY <1>3, SettledRow DEF ChargedTo
    <2> QED BY <1>0, <2>1, <2>2 DEF LedgerBalances
  <1>4. ASSUME NEW w \in Workers, Dispatch(w)
        PROVE  UNCHANGED <<claims, used>>
    BY <1>4 DEF Dispatch
  <1> QED BY <1>1, <1>2, <1>3, <1>4, ClaimWriters

\* The claims of a job grow only by the claim that its own thread commits.
LEMMA ClaimsOfStep ==
    ASSUME IInv, [Next]_vars, NEW j \in Jobs
    PROVE  \/ ClaimsOf(j)' = ClaimsOf(j)
           \/ \E w \in Workers :
                 /\ ClaimCommit(w) /\ JobOf(w) = j
                 /\ KeyOf(w) \in Keys /\ KeyOf(w) \notin ClaimsOf(j)
                 /\ ClaimsOf(j)' = ClaimsOf(j) \cup {KeyOf(w)}
  <1>1. CASE UNCHANGED claims
    BY <1>1 DEF ClaimsOf
  <1>2. ASSUME NEW w \in Workers, ClaimCommit(w)
        PROVE  \/ ClaimsOf(j)' = ClaimsOf(j)
               \/ /\ ClaimCommit(w) /\ JobOf(w) = j
                  /\ KeyOf(w) \in Keys /\ KeyOf(w) \notin ClaimsOf(j)
                  /\ ClaimsOf(j)' = ClaimsOf(j) \cup {KeyOf(w)}
    <2>1. j # None
      BY ConstantsAssumption
    <2>2. CASE JobOf(w) = j
      BY <1>2, <2>1, <2>2, ChargedRow DEF ClaimsOf
    <2>3. CASE JobOf(w) # j
      BY <1>2, <2>1, <2>3, ChargedRow DEF ClaimsOf
    <2> QED BY <2>2, <2>3
  <1>3. ASSUME NEW w \in Workers, Record(w)
        PROVE  ClaimsOf(j)' = ClaimsOf(j)
    BY <1>3, SettledRow DEF ClaimsOf
  <1>4. ASSUME NEW w \in Workers, Dispatch(w)
        PROVE  UNCHANGED claims
    BY <1>4 DEF Dispatch
  <1> QED BY <1>1, <1>2, <1>3, <1>4, ClaimWriters

\* Only the thread of a job uses up its ceiling, so that the room it saw is
\* still there when its transaction commits.
LEMMA CeilingStep ==
    ASSUME IInv, [Next]_vars
    PROVE  CeilingHolds'
  <1> SUFFICES ASSUME NEW j \in Jobs, Ceiling[j] # None
               PROVE  Cardinality(ClaimsOf(j)') <= Ceiling[j]
    BY DEF CeilingHolds
  <1>0. Cardinality(ClaimsOf(j)) <= Ceiling[j] /\ Ceiling[j] \in Nat
    BY ConstantsAssumption DEF IInv, CeilingHolds
  <1>1. CASE ClaimsOf(j)' = ClaimsOf(j)
    BY <1>0, <1>1
  <1>2. CASE \E w \in Workers :
                /\ ClaimCommit(w) /\ JobOf(w) = j
                /\ KeyOf(w) \in Keys /\ KeyOf(w) \notin ClaimsOf(j)
                /\ ClaimsOf(j)' = ClaimsOf(j) \cup {KeyOf(w)}
    <2>1. PICK w \in Workers :
                /\ ClaimCommit(w) /\ JobOf(w) = j
                /\ KeyOf(w) \in Keys /\ KeyOf(w) \notin ClaimsOf(j)
                /\ ClaimsOf(j)' = ClaimsOf(j) \cup {KeyOf(w)}
      BY <1>2
    <2>2. thread[w].pc = "claiming"
      BY <2>1 DEF ClaimCommit
    <2>3. BelowCeiling(j)
      BY <2>1, <2>2 DEF IInv, RoomForClaim
    <2>4. Cardinality(ClaimsOf(j)) < Ceiling[j]
      BY <2>3 DEF BelowCeiling
    <2>5. ClaimsOf(j) \in SUBSET Keys
      BY DEF ClaimsOf
    <2>6. /\ Cardinality(ClaimsOf(j)) \in Nat
          /\ Cardinality(ClaimsOf(j)') = Cardinality(ClaimsOf(j)) + 1
      BY <2>1, <2>5, OneMoreKey
    <2> QED BY <1>0, <2>4, <2>6
  <1> QED BY <1>1, <1>2, ClaimsOfStep

\* A thread that is about to claim has just read, or was about to claim.
LEMMA ReadBeforeClaim ==
    ASSUME IInv, [Next]_vars, NEW v \in Workers, thread'[v].pc = "claiming"
    PROVE  thread[v].pc = "claiming" \/ ClaimRead(v)
  <1> SUFFICES ASSUME thread[v].pc # "claiming"
               PROVE  ClaimRead(v)
    OBVIOUS
  <1>1. ~Quiet
    BY DEF Quiet, Settles, OthersKeep
  <1>2. ASSUME NEW w \in Workers, NEW j \in Jobs, Lease(w, j)
        PROVE  FALSE
    BY <1>2, LeaseEffect DEF OthersKeep, IInv
  <1>3. ASSUME NEW w \in Workers, ClaimCommit(w) \/ Dispatch(w) \/ Record(w)
        PROVE  FALSE
    BY <1>3, ClaimCommitEffect, DispatchEffect, RecordEffect DEF Settles, MovesTo, OthersKeep
  <1>4. PICK w \in Workers : ClaimRead(w)
    BY <1>1, <1>2, <1>3, StepCases
  <1>5. w = v
    BY <1>4, ClaimReadEffect DEF MovesTo, OthersKeep
  <1> QED BY <1>4, <1>5

\* The room below the ceiling that a thread saw is not taken by another.
LEMMA RoomStep ==
    ASSUME IInv, [Next]_vars
    PROVE  RoomForClaim'
  <1> SUFFICES ASSUME NEW v \in Workers, thread'[v].pc = "claiming"
               PROVE  BelowCeiling(JobOf(v))'
    BY DEF RoomForClaim
  <1>0. StaysInCall(v)
    BY CallsStayAtTheirStep DEF CallPhases
  <1>1. JobOf(v) \in Jobs /\ JobOf(v)' = JobOf(v)
    BY <1>0 DEF StaysInCall, InStep, JobOf
  <1>2. BelowCeiling(JobOf(v))
    <2>1. CASE thread[v].pc = "claiming"
      BY <2>1 DEF IInv, RoomForClaim
    <2>2. CASE ClaimRead(v)
      BY <2>2, ClaimReadEffect
    <2> QED BY <2>1, <2>2, ReadBeforeClaim
  <1>3. ClaimsOf(JobOf(v))' = ClaimsOf(JobOf(v))
    <2>1. ASSUME NEW w \in Workers, ClaimCommit(w), JobOf(w) = JobOf(v)
          PROVE  FALSE
      <3>1. MovesTo(w, "claimed") /\ JobOf(w) # None
        BY <2>1, ClaimCommitEffect, ChargedRow
      <3>2. v = w
        BY <2>1, <3>1 DEF IInv, OneThreadPerJob
      <3> QED BY <3>1, <3>2 DEF MovesTo
    <2>2. ClaimsOf(JobOf(v)') = ClaimsOf(JobOf(v)')
      OBVIOUS
    <2> QED BY <1>1, <2>1, ClaimsOfStep
  <1> QED BY <1>1, <1>2, <1>3 DEF BelowCeiling

----------------------------------------------------------------------------
(* THEOREMS.                                                               *)

\* An empty table has no claims, an untouched ledger, and no calls.
LEMMA InitInvariant ==
    ASSUME Init
    PROVE  IInv
  <1>0. \A j \in Jobs : j # None
    BY ConstantsAssumption
  <1>1. \A w \in Workers : thread[w] = Idle
    BY DEF Init
  <1>2. \A k \in Keys : claims[k] = NoClaim
    BY DEF Init
  <1>3. TypeOK
    <2>1. Idle \in ThreadState
      BY EmptySeq DEF Idle, ThreadState, Phases
    <2>2. NoClaim \in ClaimRow
      BY DEF NoClaim, ClaimRow, OpTypes
    <2>3. <<>> \in Seq(Results)
      BY EmptySeq
    <2> QED BY <2>1, <2>2, <2>3 DEF Init, TypeOK, JobStates
  <1>4. CallsAreSteps /\ ThreadsHaveJobs /\ OneThreadPerJob /\ ClaimsAreHeld /\ RoomForClaim
    BY <1>0, <1>1 DEF CallsAreSteps, CallPhases, ThreadsHaveJobs, OneThreadPerJob, ClaimsAreHeld,
                      RoomForClaim, JobOf, Idle
  <1>5. RowsHaveJobs
    BY <1>2 DEF RowsHaveJobs, NoClaim
  <1>6. DispatchedOnceUnderClaim
    BY DEF Init, DispatchedOnceUnderClaim
  <1>7. LateCalls /\ AtMostOneLateCall
    BY <1>1 DEF Init, LateCalls, AtMostOneLateCall, Idle
  <1>8. LedgerBalances
    <2>1. \A g \in Grants, t \in OpTypes : ChargedTo(g, t) = {}
      BY <1>2 DEF ChargedTo, NoClaim
    <2>2. \A g \in Grants, t \in OpTypes : used[g][t] = 0 /\ Allowance[g][t] \in Nat
      BY ConstantsAssumption DEF Init
    <2>3. ASSUME NEW g \in Grants, NEW t \in OpTypes
          PROVE  used[g][t] = Cardinality(ChargedTo(g, t)) /\ used[g][t] <= Allowance[g][t]
      <3>1. Cardinality(ChargedTo(g, t)) = 0
        BY <2>1, FS_EmptySet
      <3> QED BY <2>2, <3>1
    <2> QED BY <2>3 DEF LedgerBalances
  <1>9. CeilingHolds
    <2>1. \A j \in Jobs : ClaimsOf(j) = {}
      BY <1>0, <1>2 DEF ClaimsOf, NoClaim
    <2>2. \A j \in Jobs : Ceiling[j] # None => Ceiling[j] \in Nat
      BY ConstantsAssumption
    <2> QED BY <2>1, <2>2, FS_EmptySet DEF CeilingHolds
  <1> QED BY <1>3, <1>4, <1>5, <1>6, <1>7, <1>8, <1>9 DEF IInv

\* Every step keeps the invariant.
LEMMA StepInvariant ==
    ASSUME IInv, [Next]_vars
    PROVE  IInv'
  BY TypeStep, CallsAreStepsStep, ThreadsHaveJobsStep, OneThreadPerJobStep, ClaimsAreHeldStep,
     RowsHaveJobsStep, DispatchedOnceStep, LateCallsStep, LedgerStep, CeilingStep, RoomStep
     DEF IInv

\* The invariant holds in every state the system reaches.
THEOREM InvariantHolds == Spec => []IInv
  <1>1. Init => IInv
    BY InitInvariant
  <1>2. IInv /\ [Next]_vars => IInv'
    BY StepInvariant
  <1> QED BY <1>1, <1>2, PTL DEF Spec

\* The variables keep their types.
THEOREM TypeCorrect == Spec => []TypeOK
  <1>1. IInv => TypeOK
    BY DEF IInv
  <1> QED BY <1>1, InvariantHolds, PTL

\* However the claims of any number of workers interleave, what a grant has
\* consumed is the number of claims charged to it, within its allowance.
THEOREM LedgerIsSound == Spec => []LedgerBalances
  <1>1. IInv => LedgerBalances
    BY DEF IInv
  <1> QED BY <1>1, InvariantHolds, PTL

\* A provider call is sent under a committed claim and never sent again, also
\* after its worker died or its job was requested once more.
THEOREM CallsAreMadeOnce == Spec => []DispatchedOnceUnderClaim
  <1>1. IInv => DispatchedOnceUnderClaim
    BY DEF IInv
  <1> QED BY <1>1, InvariantHolds, PTL

\* A job never makes more calls than its authorization allows.
THEOREM CeilingIsKept == Spec => []CeilingHolds
  <1>1. IInv => CeilingHolds
    BY DEF IInv
  <1> QED BY <1>1, InvariantHolds, PTL

\* A cancelled job sends at most one more call.
THEOREM LateCallsAreBounded == Spec => []AtMostOneLateCall
  <1>1. IInv => AtMostOneLateCall
    BY DEF IInv
  <1> QED BY <1>1, InvariantHolds, PTL

\* No step refunds a unit, withdraws a claim or rewrites an outcome.
LEMMA NothingRefundedStep ==
    ASSUME IInv, [Next]_vars
    PROVE  NothingRefunded
  <1>0. TypeOK /\ \A g \in Grants, t \in OpTypes : used[g][t] \in Nat
    BY DEF IInv, TypeOK
  <1>1. CASE UNCHANGED <<claims, used>>
    BY <1>0, <1>1 DEF NothingRefunded
  <1>2. ASSUME NEW w \in Workers, ClaimCommit(w)
        PROVE  NothingRefunded
    <2>1. \A g \in Grants, t \in OpTypes : used'[g][t] >= used[g][t]
      <3>1. PICK g \in Grants, op \in OpTypes :
               /\ used'[g][op] = used[g][op] + 1
               /\ \A h \in Grants, t \in OpTypes : h # g \/ t # op => used'[h][t] = used[h][t]
        BY <1>2, ChargeEffect
      <3> QED BY <1>0, <3>1
    <2> QED BY <1>2, <2>1, ChargedRow DEF NothingRefunded
  <1>3. ASSUME NEW w \in Workers, Record(w)
        PROVE  NothingRefunded
    <2>1. UNCHANGED used
      BY <1>3, RecordEffect
    <2> QED BY <1>0, <1>3, <2>1, SettledRow DEF NothingRefunded
  <1>4. ASSUME NEW w \in Workers, Dispatch(w)
        PROVE  UNCHANGED <<claims, used>>
    BY <1>4 DEF Dispatch
  <1> QED BY <1>1, <1>2, <1>3, <1>4, ClaimWriters

\* The action property that nothing is refunded.
THEOREM NothingIsRefunded == Spec => NoRefund
  <1>1. IInv /\ [Next]_vars => NothingRefunded \/ UNCHANGED vars
    BY NothingRefundedStep
  <1> QED BY <1>1, InvariantHolds, PTL DEF Spec, NoRefund

----------------------------------------------------------------------------
(* What the handlers collect: the arithmetic of an evaluation's steps.      *)

\* Division with remainder.
LEMMA DivisionWithRemainder ==
    ASSUME NEW a \in Nat, NEW w \in Nat, w > 0
    PROVE  /\ a \div w \in Nat /\ a % w \in Nat
           /\ a % w < w /\ a % w <= a
           /\ a = w * (a \div w) + (a % w)
  <1>1. a \div w \in Int /\ a % w \in Int /\ a % w >= 0 /\ a % w < w
    OBVIOUS
  <1>2. a = w * (a \div w) + (a % w)
    OBVIOUS
  <1> DEFINE q == a \div w
             r == a % w
  <1> HIDE DEF q, r
  <1>3. q \in Int /\ r \in Int /\ r >= 0 /\ r < w /\ a = w * q + r
    BY <1>1, <1>2 DEF q, r
  <1>4. q >= 0
    <2>1. SUFFICES ASSUME q <= -1 PROVE FALSE
      BY <1>3
    <2>2. w * q <= w * (-1)
      BY <1>3, <2>1
    <2> QED BY <1>3, <2>2
  <1>5. w * q >= 0
    BY <1>3, <1>4
  <1>6. r <= a
    BY <1>3, <1>5
  <1> QED BY <1>1, <1>2, <1>4, <1>6 DEF q, r

\* A number below a product has its quotient below the other factor.
LEMMA QuotientBelow ==
    ASSUME NEW a \in Nat, NEW w \in Nat, w > 0, NEW b \in Nat, a < b * w
    PROVE  a \div w < b
  <1> DEFINE q == a \div w
             r == a % w
  <1> HIDE DEF q, r
  <1>1. q \in Nat /\ r \in Nat /\ a = w * q + r
    BY DivisionWithRemainder DEF q, r
  <1>2. SUFFICES ASSUME q >= b PROVE FALSE
    BY <1>1 DEF q
  <1>3. w * q >= w * b
    BY <1>1, <1>2
  <1>4. w * b = b * w
    OBVIOUS
  <1> QED BY <1>1, <1>3, <1>4

\* The steps of an evaluation: the search of each query, then its evaluators.
LEMMA EvaluateStepShape ==
    ASSUME NEW j \in Jobs, TypeOf[j] = "evaluate", NEW n \in DOMAIN Steps(j)
    PROVE  \E i \in DOMAIN Queries, p \in Nat :
             /\ n \in Nat /\ p < n
             /\ i - 1 \in Nat /\ n - 1 = (Len(Profiles) + 1) * (i - 1) + p
             /\ p = 0 => /\ Steps(j)[n].key = <<j, "search", Queries[i]>>
                         /\ Steps(j)[n].after = 0
             /\ p # 0 => /\ p \in DOMAIN Profiles
                         /\ Steps(j)[n].key = <<j, "evaluate", Queries[i], Profiles[p]>>
                         /\ Steps(j)[n].after = n - p
                         /\ Steps(j)[n].given = "completed"
  <1> DEFINE width == Len(Profiles) + 1
             i == ((n - 1) \div width) + 1
             p == (n - 1) % width
  <1>1. /\ Len(Queries) \in Nat /\ DOMAIN Queries = 1..Len(Queries)
        /\ Len(Profiles) \in Nat /\ DOMAIN Profiles = 1..Len(Profiles)
    BY ConstantsAssumption, LenProperties
  <1>2. Steps(j) = EvaluateSteps(j)
    BY DEF Steps
  <1>3. n \in 1..(Len(Queries) * width)
    BY <1>2 DEF EvaluateSteps
  <1>4. width \in Nat /\ width > 0 /\ Len(Queries) * width \in Nat
    BY <1>1
  <1>5. n \in Nat /\ n - 1 \in Nat /\ n - 1 < Len(Queries) * width
    BY <1>3, <1>4
  <1>6. Steps(j)[n] = IF p = 0
               THEN Step(<<j, "search", Queries[i]>>, "webiq-search",
                         {"provider", "other"}, 0, "completed")
               ELSE Step(<<j, "evaluate", Queries[i], Profiles[p]>>, "profile-evaluator",
                         {"provider", "other"}, n - p, "completed")
    BY <1>2, <1>3 DEF EvaluateSteps
  <1> DEFINE d == (n - 1) \div width
  <1>7. /\ d \in Nat /\ p \in Nat /\ p < width /\ p <= n - 1
        /\ n - 1 = width * d + p /\ d < Len(Queries)
    BY <1>1, <1>4, <1>5, DivisionWithRemainder, QuotientBelow
  <1>8. i = d + 1
    OBVIOUS
  <1> HIDE DEF i, p, d
  <1>9. i \in DOMAIN Queries /\ i - 1 = d
    BY <1>1, <1>7, <1>8
  <1>10. p # 0 => p \in DOMAIN Profiles
    BY <1>1, <1>7
  <1>11. p < n
    BY <1>5, <1>7
  <1> QED BY <1>5, <1>6, <1>7, <1>9, <1>10, <1>11 DEF Step

\* The keys of a job differ, and the step that another depends on comes before
\* it.  Only the second planner depends on a failure.
LEMMA StepsAreOrdered ==
    ASSUME NEW j \in Jobs, NEW n \in DOMAIN Steps(j)
    PROVE  /\ \A m \in DOMAIN Steps(j) : Steps(j)[m].key = Steps(j)[n].key => m = n
           /\ Steps(j)[n].after # 0 =>
                /\ Steps(j)[n].after \in DOMAIN Steps(j) /\ Steps(j)[n].after < n
                /\ \/ Steps(j)[n].given = "completed"
                   \/ /\ Steps(j)[n].given = "error"
                      /\ Steps(j)[Steps(j)[n].after].caught = {"provider"}
  <1>1. TypeOf[j] \in JobTypes
    BY ConstantsAssumption
  <1>2. CASE TypeOf[j] = "prepare"
    <2>0. DOMAIN PrepareSteps(j) = 1..4
      BY DEF PrepareSteps
    <2>1. Steps(j) = PrepareSteps(j)
      BY <1>2 DEF Steps
    <2>2. /\ PrepareSteps(j)[1] = Step(<<j, "browse">>, "webiq-browse", {}, 0, "completed")
          /\ PrepareSteps(j)[2] = Step(<<j, "page-analysis">>, "page-analysis-model", {"provider"}, 0, "completed")
          /\ PrepareSteps(j)[3] = Step(<<j, "query-plan">>, "paired-query-plan", {"provider"}, 0, "completed")
          /\ PrepareSteps(j)[4] = Step(<<j, "query-plan-fallback">>, "paired-query-plan", {}, 3, "error")
      BY DEF PrepareSteps
    <2>3. \A m, k \in 1..4 : PrepareSteps(j)[m].key = PrepareSteps(j)[k].key => m = k
      BY <2>2 DEF Step
    <2>4. \A m \in 1..4 : PrepareSteps(j)[m].after # 0 =>
             /\ m = 4 /\ PrepareSteps(j)[m].after = 3 /\ PrepareSteps(j)[m].given = "error"
             /\ PrepareSteps(j)[3].caught = {"provider"}
      BY <2>2 DEF Step
    <2> QED BY <2>0, <2>1, <2>3, <2>4
  <1>3. CASE TypeOf[j] = "evaluate"
    <2>1. PICK i \in DOMAIN Queries, p \in Nat :
             /\ n \in Nat /\ p < n
             /\ i - 1 \in Nat /\ n - 1 = (Len(Profiles) + 1) * (i - 1) + p
             /\ p = 0 => /\ Steps(j)[n].key = <<j, "search", Queries[i]>>
                         /\ Steps(j)[n].after = 0
             /\ p # 0 => /\ p \in DOMAIN Profiles
                         /\ Steps(j)[n].key = <<j, "evaluate", Queries[i], Profiles[p]>>
                         /\ Steps(j)[n].after = n - p
                         /\ Steps(j)[n].given = "completed"
      BY <1>3, EvaluateStepShape
    <2>2. ASSUME NEW m \in DOMAIN Steps(j), Steps(j)[m].key = Steps(j)[n].key
          PROVE  m = n
      <3>1. PICK k \in DOMAIN Queries, r \in Nat :
             /\ m \in Nat /\ r < m
             /\ k - 1 \in Nat /\ m - 1 = (Len(Profiles) + 1) * (k - 1) + r
             /\ r = 0 => /\ Steps(j)[m].key = <<j, "search", Queries[k]>>
                         /\ Steps(j)[m].after = 0
             /\ r # 0 => /\ r \in DOMAIN Profiles
                         /\ Steps(j)[m].key = <<j, "evaluate", Queries[k], Profiles[r]>>
                         /\ Steps(j)[m].after = m - r
                         /\ Steps(j)[m].given = "completed"
        BY <1>3, EvaluateStepShape
      <3>2. (p = 0 <=> r = 0) /\ Queries[k] = Queries[i] /\ (p # 0 => Profiles[r] = Profiles[p])
        BY <2>1, <2>2, <3>1
      <3>3. k = i /\ r = p
        BY <2>1, <3>1, <3>2, DistinctAssumption
      <3>4. m - 1 = n - 1
        BY <2>1, <3>1, <3>3
      <3> QED BY <2>1, <3>1, <3>4
    <2>3. DOMAIN Steps(j) = 1..Len(Steps(j)) /\ Len(Steps(j)) \in Nat
      BY StepsAreSequences
    <2>4. Steps(j)[n].after # 0 => /\ Steps(j)[n].after \in DOMAIN Steps(j)
                                   /\ Steps(j)[n].after < n
      BY <2>1, <2>3
    <2> QED BY <2>1, <2>2, <2>4
  <1>4. CASE TypeOf[j] = "recover-evaluators"
    <2>0. DOMAIN RecoverSteps(j) = 1..Len(Unsettled)
      BY DEF RecoverSteps
    <2>1. Steps(j) = RecoverSteps(j)
      BY <1>4 DEF Steps
    <2>2. DOMAIN Unsettled = 1..Len(Unsettled)
      BY ConstantsAssumption, LenProperties
    <2>3. \A m \in DOMAIN Unsettled :
             /\ Steps(j)[m].key = <<IdemOf[j], "recover", Unsettled[m][1], Unsettled[m][2]>>
             /\ Steps(j)[m].after = 0
      BY <2>1, <2>2 DEF RecoverSteps, Step
    <2> QED BY <2>0, <2>1, <2>2, <2>3, DistinctAssumption
  <1>5. CASE TypeOf[j] = "agent-stage"
    <2>0. DOMAIN StageSteps(j) = 1..2
      BY DEF StageSteps
    <2>1. Steps(j) = StageSteps(j)
      BY <1>5 DEF Steps
    <2>2. /\ StageSteps(j)[1].key = <<j, "technical-browse">>
          /\ StageSteps(j)[2].key = <<j, "recommendation-plan">>
          /\ \A m \in 1..2 : StageSteps(j)[m].after = 0
      BY DEF StageSteps, Step
    <2> QED BY <2>0, <2>1, <2>2
  <1> QED BY <1>1, <1>2, <1>3, <1>4, <1>5 DEF JobTypes

\* A call that depends on another has a key of its job's own.
LEMMA DependentKeysAreOwn ==
    ASSUME NEW j \in Jobs, NEW n \in DOMAIN Steps(j), Steps(j)[n].after # 0,
           NEW k \in Jobs, NEW m \in DOMAIN Steps(k), Steps(k)[m].key = Steps(j)[n].key
    PROVE  k = j
  <1> DEFINE key == Steps(j)[n].key
  <1>1. \/ key = <<j, "query-plan-fallback">>
        \/ \E q, p : key = <<j, "evaluate", q, p>>
    <2>1. TypeOf[j] \in JobTypes
      BY ConstantsAssumption
    <2>2. CASE TypeOf[j] = "prepare"
      <3>0. DOMAIN PrepareSteps(j) = 1..4
        BY DEF PrepareSteps
      <3>1. Steps(j) = PrepareSteps(j)
        BY <2>2 DEF Steps
      <3>2. \A i \in 1..4 : PrepareSteps(j)[i].after # 0 => PrepareSteps(j)[i].key = <<j, "query-plan-fallback">>
        BY DEF PrepareSteps, Step
      <3> QED BY <3>0, <3>1, <3>2
    <2>3. CASE TypeOf[j] = "evaluate"
      BY <2>3, EvaluateStepShape
    <2>4. CASE TypeOf[j] = "recover-evaluators"
      BY <2>4 DEF Steps, RecoverSteps, Step
    <2>5. CASE TypeOf[j] = "agent-stage"
      <3>0. DOMAIN StageSteps(j) = 1..2
        BY DEF StageSteps
      <3>1. Steps(j) = StageSteps(j)
        BY <2>5 DEF Steps
      <3> QED BY <3>0, <3>1 DEF StageSteps, Step
    <2> QED BY <2>1, <2>2, <2>3, <2>4, <2>5 DEF JobTypes
  <1>2. \/ key[1] = k
        \/ \E q, p : key = <<IdemOf[k], "recover", q, p>>
    <2>1. TypeOf[k] \in JobTypes
      BY ConstantsAssumption
    <2>2. CASE TypeOf[k] = "prepare"
      <3>0. DOMAIN PrepareSteps(k) = 1..4
        BY DEF PrepareSteps
      <3>1. Steps(k) = PrepareSteps(k)
        BY <2>2 DEF Steps
      <3>2. \A i \in 1..4 : PrepareSteps(k)[i].key[1] = k
        BY DEF PrepareSteps, Step
      <3> QED BY <3>0, <3>1, <3>2
    <2>3. CASE TypeOf[k] = "evaluate"
      <3>1. \/ \E q : Steps(k)[m].key = <<k, "search", q>>
            \/ \E q, p : Steps(k)[m].key = <<k, "evaluate", q, p>>
        BY <2>3, EvaluateStepShape
      <3> QED BY <3>1
    <2>4. CASE TypeOf[k] = "recover-evaluators"
      BY <2>4 DEF Steps, RecoverSteps, Step
    <2>5. CASE TypeOf[k] = "agent-stage"
      <3>0. DOMAIN StageSteps(k) = 1..2
        BY DEF StageSteps
      <3>1. Steps(k) = StageSteps(k)
        BY <2>5 DEF Steps
      <3>2. \A i \in 1..2 : StageSteps(k)[i].key[1] = k
        BY DEF StageSteps, Step
      <3> QED BY <3>0, <3>1, <3>2
    <2> QED BY <2>1, <2>2, <2>3, <2>4, <2>5 DEF JobTypes
  <1>3. key[1] = j
    BY <1>1
  <1>4. ~ \E q, p : key = <<IdemOf[k], "recover", q, p>>
    BY <1>1
  <1> QED BY <1>2, <1>3, <1>4

----------------------------------------------------------------------------
(* The results of a handler and the claims of its job.                     *)

\* The outcome of a call of the job is on record as completed, for that job.
Done(j, n) == claims[Steps(j)[n].key].st = "completed" /\ claims[Steps(j)[n].key].job = j

\* The results so far tell which calls are, and where only a failure of the
\* provider is caught, an error tells that the call has failed.
Recorded(j, results) ==
    \A n \in DOMAIN Steps(j) :
        /\ Done(j, n) <=> n \in 1..Len(results) /\ results[n] = "completed"
        /\ n \in 1..Len(results) /\ results[n] = "error" /\ Steps(j)[n].caught = {"provider"}
              => claims[Steps(j)[n].key].st = "failed"

ResultsAreRecorded ==
    \A w \in Workers : JobOf(w) # None => Recorded(JobOf(w), thread[w].results)

\* A job has claims only once it was leased, and no thread after its completion.
JobsHaveLives ==
    /\ \A k \in Keys, j \in Jobs : claims[k].job = j => state[j] # "queued"
    /\ \A j \in Jobs, w \in Workers : state[j] = "completed" => JobOf(w) # j

\* A call that depends on another is about to be claimed on its outcome, ...
ClaimsAreDue == \A w \in Workers : thread[w].pc = "claiming" => Due(w)

\* ... and claimed only with that outcome on record.
ClaimsAreJustified ==
    \A j \in Jobs : \A n \in DOMAIN Steps(j) :
        LET s == Steps(j)[n]
        IN  s.after # 0 /\ claims[s.key].st # "none" =>
              claims[Steps(j)[s.after].key].st =
                  IF s.given = "completed" THEN "completed" ELSE "failed"

HandlerInv ==
    /\ ResultsAreRecorded
    /\ JobsHaveLives
    /\ ClaimsAreDue
    /\ ClaimsAreJustified
    /\ StoredIffCheckpointed

----------------------------------------------------------------------------
(* What a step does to the results of the handlers.                        *)

\* A thread keeps the results of its job, or leaves it.
Keeps(v) ==
    /\ thread'[v].job \in {None, thread[v].job}
    /\ thread'[v].job # None => thread'[v].results = thread[v].results

\* It has the result of its step.
Adds(v, result) ==
    /\ InStep(v)
    /\ thread'[v].job = thread[v].job
    /\ thread'[v].results = Append(thread[v].results, result)

\* It passes over its step, or the step fails, but not for the provider.
Misses(v) ==
    \E result \in {"skipped", "error"} :
        Adds(v, result) /\ (result = "error" => StepOf(v).caught # {"provider"})

HandlerStep ==
    \/ /\ UNCHANGED claims
       /\ UNCHANGED thread \/ \E w \in Workers : OthersKeep(w) /\ (Keeps(w) \/ Misses(w))
    \/ \E w \in Workers :
          \/ \E j \in Jobs : Lease(w, j)
          \/ ClaimCommit(w) \/ Record(w)

\* A failure that leaves operations.call adds an error, or no result.
LEMMA RaiseResult ==
    ASSUME TypeOK, NEW w \in Workers, InStep(w), NEW failure, Raise(w, failure)
    PROVE  /\ OthersKeep(w)
           /\ Keeps(w) \/ (failure \in StepOf(w).caught /\ Adds(w, "error"))
  <1>1. OthersKeep(w)
    BY RaiseEffect DEF Settles
  <1>2. thread \in [Workers -> ThreadState]
    BY DEF TypeOK
  <1>3. CASE failure \in StepOf(w).caught
    BY <1>2, <1>3 DEF Raise, Advance, Adds, ThreadState
  <1>4. CASE failure \notin StepOf(w).caught
    <2>1. CASE Leave(w)
      BY <1>1, <1>2, <2>1 DEF Leave, Keeps, Idle
    <2>2. CASE Become(w, "failing")
      BY <2>2, BecomeEffect DEF MovesTo, Keeps, Phases
    <2> QED BY <1>4, <2>1, <2>2 DEF Raise
  <1> QED BY <1>1, <1>3, <1>4

\* The steps sorted by what they do to the results.
LEMMA HandlerSteps ==
    ASSUME IInv, [Next]_vars
    PROVE  HandlerStep
  <1>0. TypeOK /\ thread \in [Workers -> ThreadState]
    BY DEF IInv, TypeOK
  <1> DEFINE Unsuccessful == /\ UNCHANGED claims
                             /\ \/ UNCHANGED thread
                                \/ \E w \in Workers : OthersKeep(w) /\ (Keeps(w) \/ Misses(w))
  <1>1. CASE UNCHANGED vars
    BY <1>1 DEF vars, HandlerStep
  <1>2. ASSUME NEW j \in Jobs, Cancel(j) \/ RecoverLease(j)
        PROVE  Unsuccessful
    BY <1>2 DEF Cancel, RecoverLease
  <1>3. ASSUME NEW w \in Workers, thread[w].pc = "step" \/ thread[w].pc \in CallPhases,
               thread[w].pc = "step" => ~AtEnd(w)
        PROVE  InStep(w)
    BY <1>0, <1>3 DEF IInv, ThreadsHaveJobs, CallsAreSteps, CallPhases, InStep, AtEnd, ThreadState, JobOf
  <1>4. ASSUME NEW w \in Workers, Skip(w)
        PROVE  Unsuccessful
    <2>1. InStep(w)
      BY <1>3, <1>4 DEF Skip
    <2>2. Adds(w, "skipped") /\ OthersKeep(w)
      BY <1>0, <1>4, <2>1 DEF Skip, Advance, Adds, OthersKeep, ThreadState
    <2> QED BY <1>4, <2>2 DEF Skip, Misses
  <1>5. ASSUME NEW w \in Workers,
               ClaimRefused(w) \/ ClaimTaken(w) \/ ClaimFails(w) \/ RecordFails(w)
        PROVE  Unsuccessful
    <2>1. InStep(w)
      BY <1>3, <1>5 DEF ClaimRefused, ClaimTaken, ClaimFails, RecordFails, CallPhases
    <2>2. PICK failure \in {"lost", "conflict", "other"} : Raise(w, failure)
      BY <1>5 DEF ClaimRefused, ClaimTaken, ClaimFails, RecordFails
    <2>3. OthersKeep(w) /\ (Keeps(w) \/ (failure \in StepOf(w).caught /\ Adds(w, "error")))
      BY <1>0, <2>1, <2>2, RaiseResult
    <2>4. failure \in StepOf(w).caught => StepOf(w).caught # {"provider"}
      OBVIOUS
    <2> QED BY <1>5, <2>3, <2>4 DEF Misses, ClaimRefused, ClaimTaken, ClaimFails, RecordFails
  <1>6. ASSUME NEW w \in Workers, Reject(w) \/ Complete(w) \/ Fail(w) \/ Drop(w) \/ ClaimRead(w) \/ Dispatch(w)
        PROVE  Unsuccessful
    <2>1. UNCHANGED claims
      BY <1>6 DEF Reject, Complete, Fail, Drop, ClaimRead, Dispatch
    <2>2. OthersKeep(w) /\ Keeps(w)
      <3>1. CASE Leave(w)
        BY <1>0, <3>1 DEF Leave, OthersKeep, Keeps, Idle
      <3>2. CASE \E pc \in Phases : Become(w, pc)
        BY <1>0, <3>2 DEF Become, OthersKeep, Keeps, ThreadState
      <3>3. CASE ClaimRead(w)
        BY <3>3, ClaimReadEffect DEF MovesTo, Keeps
      <3>4. CASE Dispatch(w)
        BY <3>4, DispatchEffect DEF MovesTo, Keeps
      <3>5. CASE Reject(w)
        BY <3>2, <3>5 DEF Reject, Phases
      <3>6. CASE Complete(w) \/ Fail(w) \/ Drop(w)
        BY <3>1, <3>6 DEF Complete, Fail, Drop
      <3> QED BY <1>6, <3>3, <3>4, <3>5, <3>6
    <2> QED BY <2>1, <2>2
  <1> QED BY <1>1, <1>2, <1>4, <1>5, <1>6 DEF Next, HandlerStep

\* A recorded outcome becomes a result, unless it ends the handler.
LEMMA RecordResult ==
    ASSUME IInv, NEW w \in Workers, Record(w)
    PROVE  /\ OthersKeep(w) /\ InStep(w)
           /\ claims[KeyOf(w)].job = JobOf(w)
           /\ \/ Adds(w, "completed") /\ claims'[KeyOf(w)].st = "completed"
              \/ (Keeps(w) \/ Adds(w, "error")) /\ claims'[KeyOf(w)].st = "failed"
  <1>0. TypeOK /\ thread \in [Workers -> ThreadState] /\ claims \in [Keys -> ClaimRow]
    BY DEF IInv, TypeOK
  <1>1. InStep(w) /\ KeyOf(w) \in Keys /\ claims[KeyOf(w)].job = JobOf(w) /\ OthersKeep(w)
    BY RecordEffect, SettledRow DEF IInv, ClaimsAreHeld, Settles
  <1>2. CASE Advance(w, "completed") /\ claims' = [claims EXCEPT ![KeyOf(w)].st = "completed"]
    <2>1. claims'[KeyOf(w)].st = "completed"
      BY <1>0, <1>1, <1>2 DEF ClaimRow
    <2>2. Adds(w, "completed")
      BY <1>0, <1>1, <1>2 DEF Advance, Adds, ThreadState
    <2> QED BY <1>1, <2>1, <2>2
  <1>3. CASE /\ \E failure \in {"provider", "other"} : Raise(w, failure)
             /\ claims' = [claims EXCEPT ![KeyOf(w)].st = "failed"]
    <2>1. claims'[KeyOf(w)].st = "failed"
      BY <1>0, <1>1, <1>3 DEF ClaimRow
    <2>2. Keeps(w) \/ Adds(w, "error")
      BY <1>0, <1>1, <1>3, RaiseResult
    <2> QED BY <1>1, <2>1, <2>2
  <1> QED BY <1>2, <1>3 DEF Record

----------------------------------------------------------------------------
(* The results stay those on record.                                       *)

\* Only the thread of a job completes its calls.
LEMMA DoneStays ==
    ASSUME IInv, [Next]_vars, NEW j \in Jobs, NEW n \in DOMAIN Steps(j),
           \A w \in Workers : Record(w) /\ JobOf(w) = j => KeyOf(w) # Steps(j)[n].key
    PROVE  Done(j, n)' <=> Done(j, n)
  <1>1. Steps(j)[n].key \in Keys
    BY StepsAreSequences
  <1>2. CASE UNCHANGED claims
    BY <1>2 DEF Done
  <1>3. ASSUME NEW w \in Workers, NEW i \in Jobs, Lease(w, i)
        PROVE  UNCHANGED claims
    BY <1>3 DEF Lease
  <1>4. ASSUME NEW w \in Workers, ClaimCommit(w)
        PROVE  Done(j, n)' <=> Done(j, n)
    BY <1>1, <1>4, ChargedRow DEF Done
  <1>5. ASSUME NEW w \in Workers, Record(w)
        PROVE  Done(j, n)' <=> Done(j, n)
    <2>1. claims[KeyOf(w)].job = JobOf(w)
      BY <1>5, RecordResult
    <2> QED BY <1>1, <1>5, <2>1, SettledRow DEF Done
  <1> QED BY <1>2, <1>3, <1>4, <1>5, HandlerSteps DEF HandlerStep

\* What was recorded stays recorded.
LEMMA RecordedStays ==
    ASSUME IInv, [Next]_vars, NEW j \in Jobs, NEW results, Recorded(j, results),
           \A w \in Workers : Record(w) => JobOf(w) # j
    PROVE  Recorded(j, results)'
  <1> SUFFICES ASSUME NEW n \in DOMAIN Steps(j)
               PROVE  /\ Done(j, n)' <=> Done(j, n)
                      /\ claims[Steps(j)[n].key].st = "failed" => claims'[Steps(j)[n].key].st = "failed"
    BY DEF Recorded
  <1>1. Steps(j)[n].key \in Keys
    BY StepsAreSequences
  <1>2. Done(j, n)' <=> Done(j, n)
    BY DoneStays
  <1> QED BY <1>1, <1>2, NothingRefundedStep DEF NothingRefunded

\* The next result of a job, with what is then on record.
LEMMA NextResult ==
    ASSUME IInv, NEW v \in Workers, NEW j \in Jobs, JobOf(v) = j,
           NEW result, Adds(v, result), Recorded(j, thread[v].results),
           \A n \in DOMAIN Steps(j) : Steps(j)[n].key # KeyOf(v) =>
              claims'[Steps(j)[n].key] = claims[Steps(j)[n].key],
           result = "completed" <=> claims'[KeyOf(v)].st = "completed" /\ claims'[KeyOf(v)].job = j,
           result = "error" /\ StepOf(v).caught = {"provider"} => claims'[KeyOf(v)].st = "failed"
    PROVE  Recorded(JobOf(v), thread[v].results)'
  <1> DEFINE old == thread[v].results
             at == Len(old) + 1
  <1>1. old \in Seq(Results) /\ Len(old) \in Nat
    BY LenProperties DEF IInv, TypeOK, ThreadState
  <1>2. thread'[v].job = j /\ thread'[v].results = Append(old, result)
    BY DEF Adds, JobOf
  <1>3. at \in DOMAIN Steps(j) /\ KeyOf(v) = Steps(j)[at].key /\ StepOf(v) = Steps(j)[at]
    BY DEF Adds, InStep, KeyOf, StepOf, JobOf
  <1> DEFINE new == Append(old, result)
  <1>4. Len(new) = at /\ new[at] = result /\ \A i \in 1..Len(old) : new[i] = old[i]
    BY <1>1
  <1> HIDE DEF new, at, old
  <1>5. SUFFICES ASSUME NEW n \in DOMAIN Steps(j)
                 PROVE  /\ Done(j, n)' <=> n \in 1..at /\ new[n] = "completed"
                        /\ n \in 1..at /\ new[n] = "error" /\ Steps(j)[n].caught = {"provider"}
                             => claims'[Steps(j)[n].key].st = "failed"
    BY <1>2, <1>4 DEF Recorded, JobOf, new
  <1>6. CASE n = at
    BY <1>1, <1>3, <1>4, <1>6 DEF Done, at
  <1>7. CASE n # at
    <2>1. Steps(j)[n].key # KeyOf(v)
      BY <1>3, <1>7, StepsAreOrdered
    <2>2. claims'[Steps(j)[n].key] = claims[Steps(j)[n].key]
      BY <2>1
    <2>3. n \in 1..at <=> n \in 1..Len(old)
      BY <1>1, <1>7, StepsAreSequences DEF at
    <2> QED BY <1>4, <2>2, <2>3 DEF Recorded, Done, old
  <1> QED BY <1>6, <1>7

\* The results of a thread stay those on record.
LEMMA ResultsAreRecordedStep ==
    ASSUME IInv, HandlerInv, [Next]_vars
    PROVE  ResultsAreRecorded'
  <1> SUFFICES ASSUME NEW v \in Workers, thread'[v].job # None
               PROVE  Recorded(JobOf(v), thread[v].results)'
    BY DEF ResultsAreRecorded, JobOf
  <1>0. /\ TypeOK /\ thread \in [Workers -> ThreadState]
        /\ \A w \in Workers : JobOf(w) # None => JobOf(w) \in Jobs /\ Recorded(JobOf(w), thread[w].results)
    BY DEF IInv, TypeOK, ThreadState, HandlerInv, ResultsAreRecorded, JobOf
  <1>1. ASSUME thread'[v].job = thread[v].job, thread'[v].results = thread[v].results, ~Record(v)
        PROVE  Recorded(JobOf(v), thread[v].results)'
    <2>1. PICK j \in Jobs : j = JobOf(v)
      BY <1>0, <1>1 DEF JobOf
    <2>2. ASSUME NEW w \in Workers, Record(w), JobOf(w) = j
          PROVE  FALSE
      <3>1. JobOf(w) # None
        BY <2>2, ConstantsAssumption
      <3> QED BY <1>1, <2>1, <2>2, <3>1 DEF IInv, OneThreadPerJob
    <2>3. PICK results : results = thread[v].results
      OBVIOUS
    <2>4. Recorded(j, results)
      BY <1>0, <1>1, <2>1, <2>3 DEF JobOf
    <2>5. Recorded(j, results)'
      BY <2>2, <2>4, RecordedStays
    <2> QED BY <1>1, <2>1, <2>3, <2>5 DEF Recorded, JobOf, Done
  <1>2. ASSUME UNCHANGED claims, Misses(v)
        PROVE  Recorded(JobOf(v), thread[v].results)'
    <2>1. PICK result \in {"skipped", "error"} :
             Adds(v, result) /\ (result = "error" => StepOf(v).caught # {"provider"})
      BY <1>2 DEF Misses
    <2>2. PICK j \in Jobs : j = JobOf(v)
      BY <2>1 DEF Adds, InStep
    <2>3. Recorded(j, thread[v].results)
      BY <1>0, <2>2, ConstantsAssumption
    <2>4. ~Done(j, Len(thread[v].results) + 1)
      <3>1. Len(thread[v].results) \in Nat
        BY <1>0, LenProperties DEF ThreadState
      <3>2. Len(thread[v].results) + 1 \in DOMAIN Steps(j)
        BY <2>1, <2>2 DEF Adds, InStep
      <3> QED BY <2>3, <3>1, <3>2 DEF Recorded
    <2>5. ~(claims'[KeyOf(v)].st = "completed" /\ claims'[KeyOf(v)].job = j)
      BY <1>2, <2>2, <2>4 DEF Done, KeyOf, StepOf
    <2> QED BY <1>2, <2>1, <2>2, <2>3, <2>5, NextResult
  <1>3. ASSUME Record(v)
        PROVE  Recorded(JobOf(v), thread[v].results)'
    <2>1. PICK j \in Jobs : j = JobOf(v)
      BY <1>3, RecordResult DEF InStep
    <2>2. Recorded(j, thread[v].results) /\ j # None
      BY <1>0, <2>1, ConstantsAssumption
    <2>3. \A n \in DOMAIN Steps(j) : Steps(j)[n].key # KeyOf(v) =>
              claims'[Steps(j)[n].key] = claims[Steps(j)[n].key]
      BY <1>3, SettledRow, StepsAreSequences
    <2>4. claims'[KeyOf(v)].job = j
      BY <1>3, <2>1, RecordResult, SettledRow
    <2>5. CASE Adds(v, "completed") /\ claims'[KeyOf(v)].st = "completed"
      BY <2>1, <2>2, <2>3, <2>4, <2>5, NextResult
    <2>6. CASE Adds(v, "error") /\ claims'[KeyOf(v)].st = "failed"
      BY <2>1, <2>2, <2>3, <2>4, <2>6, NextResult
    <2>7. CASE Keeps(v) /\ claims'[KeyOf(v)].st = "failed"
      <3>1. thread'[v].job = j /\ thread'[v].results = thread[v].results
        BY <2>1, <2>7 DEF Keeps, JobOf
      <3>2. claims[KeyOf(v)].st = "claimed"
        BY <1>3, SettledRow
      <3>3. SUFFICES ASSUME NEW n \in DOMAIN Steps(j)
                     PROVE  /\ Done(j, n)' <=> Done(j, n)
                            /\ claims[Steps(j)[n].key].st = "failed" => claims'[Steps(j)[n].key].st = "failed"
        BY <2>2, <3>1 DEF Recorded, JobOf
      <3>4. CASE Steps(j)[n].key = KeyOf(v)
        BY <2>7, <3>2, <3>4 DEF Done
      <3>5. CASE Steps(j)[n].key # KeyOf(v)
        BY <2>3, <3>5 DEF Done
      <3> QED BY <3>4, <3>5
    <2> QED BY <1>3, <2>5, <2>6, <2>7, RecordResult
  <1>4. ASSUME NEW j \in Jobs, Lease(v, j)
        PROVE  Recorded(JobOf(v), thread[v].results)'
    <2>1. thread'[v].job = j /\ thread'[v].results = <<>> /\ state[j] = "queued" /\ UNCHANGED claims
      BY <1>0, <1>4 DEF Lease, Idle
    <2>2. \A n \in DOMAIN Steps(j) : ~Done(j, n)'
      BY <2>1, StepsAreSequences DEF Done, HandlerInv, JobsHaveLives
    <2>3. Len(thread'[v].results) = 0
      BY <2>1
    <2> QED BY <2>1, <2>2, <2>3 DEF Recorded, JobOf
  <1>5. ASSUME NEW w \in Workers, w # v, OthersKeep(w), Record(v) => FALSE
        PROVE  Recorded(JobOf(v), thread[v].results)'
    BY <1>1, <1>5 DEF OthersKeep
  <1>6. CASE /\ UNCHANGED claims
             /\ UNCHANGED thread \/ \E w \in Workers : OthersKeep(w) /\ (Keeps(w) \/ Misses(w))
    <2>1. CASE Record(v)
      BY <1>3, <2>1
    <2>2. CASE ~Record(v)
      BY <1>1, <1>2, <1>5, <1>6, <2>2 DEF Keeps
    <2> QED BY <2>1, <2>2
  <1>7. ASSUME NEW w \in Workers, NEW j \in Jobs, Lease(w, j)
        PROVE  Recorded(JobOf(v), thread[v].results)'
    BY <1>0, <1>3, <1>4, <1>5, <1>7, LeaseEffect
  <1>8. ASSUME NEW w \in Workers, ClaimCommit(w)
        PROVE  Recorded(JobOf(v), thread[v].results)'
    BY <1>1, <1>3, <1>5, <1>8, ClaimCommitEffect DEF MovesTo
  <1>9. ASSUME NEW w \in Workers, Record(w)
        PROVE  Recorded(JobOf(v), thread[v].results)'
    BY <1>3, <1>5, <1>9, RecordResult
  <1> QED BY <1>6, <1>7, <1>8, <1>9, HandlerSteps DEF HandlerStep

----------------------------------------------------------------------------
(* The other parts of the invariant.                                       *)

\* Only complete_job completes a job, and stores results.
LEMMA CompletedBy ==
    ASSUME IInv, [Next]_vars, NEW j \in Jobs
    PROVE  \/ /\ state'[j] = "completed" => state[j] = "completed"
              /\ stored'[j] = stored[j]
           \/ \E w \in Workers : Complete(w) /\ JobOf(w) = j
  <1>0. /\ TypeOK
        /\ \A w \in Workers : thread[w].pc # "idle" => JobOf(w) \in Jobs
    BY DEF IInv, TypeOK, ThreadState, ThreadsHaveJobs, JobOf
  <1>1. ASSUME NEW w \in Workers, Complete(w), JobOf(w) # j
        PROVE  state'[j] = state[j] /\ stored'[j] = stored[j]
    BY <1>0, <1>1 DEF Complete, TypeOK
  <1>2. ASSUME NEW w \in Workers, NEW i \in Jobs, Lease(w, i)
        PROVE  (state'[j] = "completed" => state[j] = "completed") /\ stored'[j] = stored[j]
    BY <1>0, <1>2 DEF Lease, TypeOK
  <1>3. ASSUME NEW w \in Workers, Fail(w)
        PROVE  (state'[j] = "completed" => state[j] = "completed") /\ stored'[j] = stored[j]
    BY <1>0, <1>3 DEF Fail, TypeOK
  <1>4. ASSUME NEW i \in Jobs, Cancel(i) \/ RecoverLease(i)
        PROVE  (state'[j] = "completed" => state[j] = "completed") /\ stored'[j] = stored[j]
    BY <1>0, <1>4 DEF Cancel, RecoverLease, TypeOK
  <1>5. ASSUME NEW w \in Workers,
               Skip(w) \/ Reject(w) \/ ClaimRead(w) \/ ClaimRefused(w) \/ ClaimCommit(w) \/ ClaimTaken(w)
                 \/ ClaimFails(w) \/ Dispatch(w) \/ Record(w) \/ RecordFails(w) \/ Drop(w)
        PROVE  UNCHANGED <<state, stored>>
    BY <1>5 DEF Skip, Reject, ClaimRead, ClaimRefused, ClaimCommit, ClaimTaken, ClaimFails, Dispatch,
                Record, RecordFails, Drop
  <1>6. CASE UNCHANGED vars
    BY <1>6 DEF vars
  <1> QED BY <1>1, <1>2, <1>3, <1>4, <1>5, <1>6 DEF Next

\* A job has claims only after its lease, and no thread after its completion.
LEMMA JobsHaveLivesStep ==
    ASSUME IInv, JobsHaveLives, [Next]_vars
    PROVE  JobsHaveLives'
  <1>0. TypeOK /\ ThreadsHaveJobs
    BY DEF IInv
  <1>1. \A j \in Jobs : state[j] # "queued" => state'[j] # "queued"
    <2>1. ASSUME NEW w \in Workers, NEW i \in Jobs, Lease(w, i), NEW j \in Jobs, state[j] # "queued"
          PROVE  state'[j] # "queued"
      BY <1>0, <2>1 DEF Lease, TypeOK
    <2> QED BY <2>1, JobsStayPut DEF JobsStay
  <1>2. ASSUME NEW k \in Keys, NEW j \in Jobs, claims'[k].job = j
        PROVE  state'[j] # "queued"
    <2>1. j # None
      BY ConstantsAssumption
    <2>2. CASE claims[k].job = j
      BY <1>1, <2>2 DEF JobsHaveLives
    <2>3. ASSUME NEW w \in Workers, ClaimCommit(w)
          PROVE  state'[j] # "queued"
      <3>1. JobOf(w) = j \/ claims[k].job = j
        BY <1>2, <2>3, ChargedRow
      <3>2. JobOf(w) = j => state[j] # "queued"
        BY <1>0, <2>1 DEF ThreadsHaveJobs
      <3> QED BY <1>1, <2>2, <3>1, <3>2
    <2>4. ASSUME NEW w \in Workers, Record(w)
          PROVE  claims[k].job = j
      BY <1>2, <2>4, SettledRow
    <2>5. ASSUME NEW w \in Workers, Dispatch(w)
          PROVE  claims[k].job = j
      BY <1>2, <2>5 DEF Dispatch
    <2>6. CASE UNCHANGED claims
      BY <1>2, <2>2, <2>6
    <2> QED BY <2>2, <2>3, <2>4, <2>5, <2>6, ClaimWriters
  <1>3. ASSUME NEW j \in Jobs, NEW w \in Workers, state'[j] = "completed"
        PROVE  thread'[w].job # j
    <2>1. j # None
      BY ConstantsAssumption
    <2>2. CASE state[j] = "completed"
      <3>1. thread[w].job # j
        BY <2>2 DEF JobsHaveLives, JobOf
      <3>2. ASSUME NEW v \in Workers, NEW i \in Jobs, Lease(v, i)
            PROVE  thread'[w].job # j
        BY <1>0, <2>2, <3>1, <3>2, LeaseEffect DEF OthersKeep
      <3> QED BY <2>1, <3>1, <3>2, JobsStayPut DEF JobsStay
    <2>3. ASSUME NEW v \in Workers, Complete(v), JobOf(v) = j
          PROVE  thread'[w].job # j
      <3>1. Leave(v)
        BY <2>3 DEF Complete
      <3>2. CASE w = v
        BY <1>0, <2>1, <3>1, <3>2 DEF Leave, Idle, TypeOK
      <3>3. CASE w # v
        <4>1. thread'[w] = thread[w]
          BY <1>0, <3>1, <3>3 DEF Leave, TypeOK
        <4>2. thread[w].job # j
          BY <2>1, <2>3, <3>3 DEF IInv, OneThreadPerJob, JobOf
        <4> QED BY <4>1, <4>2
      <3> QED BY <3>2, <3>3
    <2> QED BY <1>3, <2>2, <2>3, CompletedBy
  <1> QED BY <1>2, <1>3 DEF JobsHaveLives, JobOf

\* What a completed job has stored stays what is on record.
LEMMA StoredStep ==
    ASSUME IInv, HandlerInv, [Next]_vars
    PROVE  StoredIffCheckpointed'
  <1> SUFFICES ASSUME NEW j \in Jobs, state'[j] = "completed", NEW n \in DOMAIN Steps(j)
               PROVE  stored'[j][n] = "completed" <=> Done(j, n)'
    BY DEF StoredIffCheckpointed, Done
  <1>1. ASSUME NEW w \in Workers, Complete(w), JobOf(w) = j
        PROVE  stored'[j][n] = "completed" <=> Done(j, n)'
    <2>1. /\ stored'[j] = thread[w].results /\ UNCHANGED claims
          /\ Len(thread[w].results) + 1 \notin DOMAIN Steps(j)
      BY <1>1 DEF Complete, IInv, TypeOK, AtEnd
    <2>2. Recorded(j, thread[w].results)
      BY <1>1, ConstantsAssumption DEF HandlerInv, ResultsAreRecorded
    <2>3. Len(thread[w].results) \in Nat
      BY LenProperties DEF IInv, TypeOK, ThreadState
    <2>4. n \in 1..Len(thread[w].results)
      BY <2>1, <2>3, StepsAreSequences
    <2> QED BY <2>1, <2>2, <2>4 DEF Recorded, Done
  <1>2. CASE state[j] = "completed" /\ stored'[j] = stored[j]
    <2>1. \A w \in Workers : JobOf(w) # j
      BY <1>2 DEF HandlerInv, JobsHaveLives
    <2>2. Done(j, n)' <=> Done(j, n)
      BY <2>1, DoneStays
    <2> QED BY <1>2, <2>2 DEF HandlerInv, StoredIffCheckpointed, Done
  <1> QED BY <1>1, <1>2, CompletedBy

\* The condition of a call still holds when its transaction commits.
LEMMA ClaimsAreDueStep ==
    ASSUME IInv, ClaimsAreDue, [Next]_vars
    PROVE  ClaimsAreDue'
  <1> SUFFICES ASSUME NEW v \in Workers, thread'[v].pc = "claiming"
               PROVE  Due(v)'
    BY DEF ClaimsAreDue
  <1>1. Due(v)
    BY ReadBeforeClaim DEF ClaimsAreDue, ClaimRead
  <1>2. StaysInCall(v)
    BY CallsStayAtTheirStep DEF CallPhases
  <1> QED BY <1>1, <1>2 DEF StaysInCall, Due, StepOf, JobOf

\* A claim that depends on another call is made with its outcome on record.
LEMMA ClaimsAreJustifiedStep ==
    ASSUME IInv, HandlerInv, [Next]_vars
    PROVE  ClaimsAreJustified'
  <1> SUFFICES ASSUME NEW j \in Jobs, NEW n \in DOMAIN Steps(j), Steps(j)[n].after # 0,
                      claims'[Steps(j)[n].key].st # "none"
               PROVE  claims'[Steps(j)[Steps(j)[n].after].key].st =
                        IF Steps(j)[n].given = "completed" THEN "completed" ELSE "failed"
    BY DEF ClaimsAreJustified
  <1> DEFINE a == Steps(j)[n].after
             outcome == IF Steps(j)[n].given = "completed" THEN "completed" ELSE "failed"
  <1>1. /\ a \in DOMAIN Steps(j) /\ a < n
        /\ Steps(j)[n].key \in Keys /\ Steps(j)[a].key \in Keys
    BY StepsAreOrdered, StepsAreSequences
  <1>2. SUFFICES claims[Steps(j)[a].key].st = outcome
    BY <1>1, NothingRefundedStep DEF NothingRefunded
  <1>3. CASE claims[Steps(j)[n].key].st # "none"
    BY <1>3 DEF HandlerInv, ClaimsAreJustified
  <1>4. ASSUME NEW w \in Workers, ClaimCommit(w), KeyOf(w) = Steps(j)[n].key
        PROVE  claims[Steps(j)[a].key].st = outcome
    <2>1. thread[w].pc = "claiming" /\ InStep(w)
      BY <1>4, ClaimCommitEffect
    <2>2. JobOf(w) = j
      BY <1>4, <2>1, DependentKeysAreOwn DEF InStep, KeyOf, StepOf
    <2>3. Len(thread[w].results) + 1 = n
      BY <1>4, <2>1, <2>2, StepsAreOrdered DEF InStep, KeyOf, StepOf
    <2>4. thread[w].results[a] = Steps(j)[n].given
      BY <2>1, <2>2, <2>3 DEF HandlerInv, ClaimsAreDue, Due, StepOf
    <2>5. Len(thread[w].results) \in Nat
      BY LenProperties DEF IInv, TypeOK, ThreadState
    <2>6. a \in 1..Len(thread[w].results)
      BY <1>1, <2>3, <2>5, StepsAreSequences
    <2>7. Recorded(j, thread[w].results)
      BY <2>2, ConstantsAssumption DEF HandlerInv, ResultsAreRecorded
    <2>8. \/ Steps(j)[n].given = "completed"
          \/ Steps(j)[n].given = "error" /\ Steps(j)[a].caught = {"provider"}
      BY StepsAreOrdered
    <2> QED BY <1>1, <2>4, <2>6, <2>7, <2>8 DEF Recorded, Done
  <1>5. claims[Steps(j)[n].key].st = "none" =>
           \E w \in Workers : ClaimCommit(w) /\ KeyOf(w) = Steps(j)[n].key
    <2>1. ASSUME NEW w \in Workers, Record(w)
          PROVE  claims[Steps(j)[n].key].st # "none"
      BY <1>1, <2>1, SettledRow
    <2>2. ASSUME NEW w \in Workers, ClaimCommit(w), KeyOf(w) # Steps(j)[n].key
          PROVE  claims[Steps(j)[n].key].st # "none"
      BY <1>1, <2>2, ChargedRow
    <2>3. ASSUME NEW w \in Workers, Dispatch(w)
          PROVE  claims[Steps(j)[n].key].st # "none"
      BY <2>3 DEF Dispatch
    <2> QED BY <2>1, <2>2, <2>3, ClaimWriters
  <1> QED BY <1>3, <1>4, <1>5

\* At the start nothing is claimed, and no job has a thread.
LEMMA HandlerInit ==
    ASSUME Init
    PROVE  HandlerInv
  <1>1. \A w \in Workers : JobOf(w) = None /\ thread[w].pc = "idle"
    BY DEF Init, Idle, JobOf
  <1>2. \A k \in Keys : claims[k].st = "none" /\ claims[k].job = None
    BY DEF Init, NoClaim
  <1>3. \A j \in Jobs : state[j] = "queued" /\ j # None
    BY ConstantsAssumption DEF Init
  <1>4. \A j \in Jobs : \A n \in DOMAIN Steps(j) : Steps(j)[n].key \in Keys
    BY StepsAreSequences
  <1>5. ResultsAreRecorded /\ ClaimsAreDue
    BY <1>1 DEF ResultsAreRecorded, ClaimsAreDue
  <1>6. JobsHaveLives /\ StoredIffCheckpointed
    BY <1>2, <1>3 DEF JobsHaveLives, StoredIffCheckpointed
  <1>7. ClaimsAreJustified
    BY <1>2, <1>4 DEF ClaimsAreJustified
  <1> QED BY <1>5, <1>6, <1>7 DEF HandlerInv

\* What the handlers hold, what is on record and what is stored agree.
THEOREM HandlersAgreeWithRecord == Spec => [](IInv /\ HandlerInv)
  <1>1. Init => HandlerInv
    BY HandlerInit
  <1>2. (IInv /\ HandlerInv) /\ [Next]_vars => HandlerInv'
    BY ResultsAreRecordedStep, JobsHaveLivesStep, ClaimsAreDueStep, ClaimsAreJustifiedStep, StoredStep
       DEF HandlerInv
  <1> QED BY <1>1, <1>2, InvariantHolds, PTL DEF Spec

\* A completed job has stored exactly the results that are checkpointed as
\* completed under its own claims.
THEOREM StoredResultsAreCheckpointed == Spec => []StoredIffCheckpointed
  <1>1. HandlerInv => StoredIffCheckpointed
    BY DEF HandlerInv
  <1> QED BY <1>1, HandlersAgreeWithRecord, PTL

\* An evaluator is called after a completed search, and the second planner
\* after the first has failed, however the claims between them went.
THEOREM FollowUpsAreMadeOnOutcome == Spec => []FollowUpsAreJustified
  <1>1. IInv /\ HandlerInv => FollowUpsAreJustified
    <2> SUFFICES ASSUME IInv, HandlerInv, NEW j \in Jobs, NEW n \in DOMAIN Steps(j),
                        Steps(j)[n].after # 0, calls[Steps(j)[n].key] > 0
                 PROVE  claims[Steps(j)[n].key].st # "none"
      BY DEF HandlerInv, ClaimsAreJustified, FollowUpsAreJustified
    <2>1. Steps(j)[n].key \in Keys
      BY StepsAreSequences
    <2>2. calls[Steps(j)[n].key] \in Nat /\ calls[Steps(j)[n].key] <= 1
      BY <2>1 DEF IInv, TypeOK, DispatchedOnceUnderClaim
    <2>3. calls[Steps(j)[n].key] = 1
      BY <2>2
    <2> QED BY <2>1, <2>3 DEF IInv, DispatchedOnceUnderClaim
  <1> QED BY <1>1, HandlersAgreeWithRecord, PTL
=============================================================================
