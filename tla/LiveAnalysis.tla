------------------------------ MODULE LiveAnalysis ------------------------------
(***************************************************************************)
(* The first version of the analysis, on the local store: runs and their   *)
(* coordinator (workflow.py), the live workflow and its budgeted form      *)
(* (live.py) and the page analysis in front of it (page_analysis.py).      *)
(*                                                                         *)
(* Threads are HTTP requests of the one owner.  Every method of the store  *)
(* is one transaction, and one step; a request takes several, and may be   *)
(* cut short between any two of them.  A server that has been given a      *)
(* grant keeps the grant file.                                             *)
(***************************************************************************)
EXTENDS BudgetGrants

CONSTANTS
    Runs,        \* run identifiers
    Keys,        \* idempotency keys of /briefs
    StartKeys,   \* idempotency keys of /runs/{run_id}/start
    Pages,       \* page analyses, by their idempotency key
    Inputs,      \* lists of queries of a run
    Fitting,     \* those of them within the limits of the live policy
    Threads,
    NumQueries,  \* queries of a run; five in the code
    MaxPages, MaxEvaluations,   \* allowances of the analysis policy
    MaxSlot,     \* bound: slots of a grant
    MaxRev       \* bound: revisions of a run

ASSUME FittingAssumption == Fitting \subseteq Inputs
ASSUME LiveBoundAssumption ==
    /\ {NumQueries, MaxRev} \subseteq Nat \ {0}
    /\ {MaxPages, MaxEvaluations, MaxSlot} \subseteq Nat
ASSUME SlotAssumption == IsFiniteSet(Keys) /\ \A a \in Authorities : a.runs <= MaxSlot

VARIABLES
    runs,      \* runs rows
    prepared,  \* live_calls rows of the operation "prepare", by policy
    claims,    \* live_calls rows of the other operations, by policy
    slots,     \* live_run_slots: the child policy each preparation key was given
    pages,     \* page_analyses and analysis_evaluations rows
    th,        \* what each request knows and where it is
    sent,      \* history: provider calls made under each policy
    answers    \* history: the runs each preparation key was answered with

live == <<runs, prepared, claims, slots, pages, th, sent, answers>>

\* A run belongs to the policy it was prepared under: the configured one, the
\* child policy of a slot, the one made for a page, or none for synthetic runs.
Live == <<"live", 0>>
Fixture == <<"fixture", 0>>
PagePolicies == {"page"} \X Pages
Policies == {Live} \cup (Grants \X (1 .. MaxSlot)) \cup PagePolicies

Browse == <<"browse", 0>>
Analyse == <<"analyse", 0>>
Propose == <<"query-generation", 0>>
Evaluate == <<"evaluate", 0>>
Search(i) == <<"search", i>>
Answer(i) == <<"answer", i>>
CallOps == {Browse, Analyse, Propose} \cup ({"search", "answer"} \X (1 .. NumQueries))

DoneStates == {"ready", "partial", "failed", "exported"}
RevisableStates == {"awaiting", "cancelled", "failed"}

Run == [state : DoneStates \cup {"awaiting", "evaluating", "cancelled"}, rev : 1 .. MaxRev,
        inputs : Inputs, approval : [rev : 1 .. MaxRev, inputs : Inputs] \cup {None},
        key : StartKeys \cup {None}, results : [inputs : Inputs, good : Nat] \cup {None},
        policy : Policies \cup {Fixture}]
Preparation == [key : Keys, status : {"started", "completed", "failed"}, run : Runs \cup {None}]

ASSUME LiveNoneAssumption ==
    /\ None \notin Runs \cup Policies \cup Preparation
    /\ None \notin {"started", "completed", "cancelled", "running", "prepared", "failed"}
    /\ None \notin [rev : 1 .. MaxRev, inputs : Inputs]
ASSUME GrantNameAssumption == "page" \notin Grants   \* policies have names of their own

NoRun == [state |-> "unused"]
NewRun(p, i) == [state |-> "awaiting", rev |-> 1, inputs |-> i, approval |-> None,
                 key |-> None, results |-> None, policy |-> p]
NoPage == [status |-> None, evaluation |-> None, run |-> None]
Idle == [pc |-> "idle"]

LiveInit ==
    /\ runs = [r \in Runs |-> NoRun]
    /\ prepared = [p \in Policies |-> None]
    /\ claims = [p \in Policies |-> [o \in CallOps \cup {Evaluate} |-> None]]
    /\ slots = [k \in Keys |-> None]
    /\ pages = [x \in Pages |-> NoPage]
    /\ th = [t \in Threads |-> Idle]
    /\ sent = [p \in Policies |-> [o \in CallOps |-> 0]]
    /\ answers = [k \in Keys |-> {}]

Goto(t, new) == th' = [th EXCEPT ![t] = new]
Return(t) == Goto(t, Idle)
At(t, pc) == th[t].pc = pc
OfPage(t) == th[t].policy \in PagePolicies

---------------------------------------------------------------------------
(* Coordinator.  mutate compares the revision a request was made for with  *)
(* the one the row has; only a revision of the inputs moves it on.         *)

\* Mutant of AtRevision: the revision is not compared.
AtAnyRevision(r, rev) == TRUE

AtRevision(r, rev) == runs[r].rev = rev

Exists(r) == runs[r].state # "unused"

Approve(r) ==
    /\ runs[r].state = "awaiting"
    /\ runs[r].approval = None
    /\ runs' = [runs EXCEPT ![r].approval = [rev |-> runs[r].rev, inputs |-> runs[r].inputs]]
    /\ UNCHANGED <<prepared, claims, slots, pages, th, sent, answers>>

Revise(r, i) ==
    /\ runs[r].state \in RevisableStates
    /\ runs[r].rev < MaxRev
    /\ runs' = [runs EXCEPT ![r] = [NewRun(runs[r].policy, i) EXCEPT !.rev = runs[r].rev + 1]]
    /\ UNCHANGED <<prepared, claims, slots, pages, th, sent, answers>>

Cancel(r) ==
    /\ runs[r].state \in {"awaiting", "evaluating"}
    /\ runs' = [runs EXCEPT ![r].state = "cancelled", ![r].approval = None]
    /\ UNCHANGED <<prepared, claims, slots, pages, th, sent, answers>>

MarkExported(r) ==
    /\ runs[r].state \in DoneStates \ {"exported"}
    /\ runs' = [runs EXCEPT ![r].state = "exported"]
    /\ UNCHANGED <<prepared, claims, slots, pages, th, sent, answers>>

CreateFixture(r, i) ==
    /\ ~ Exists(r)
    /\ runs' = [runs EXCEPT ![r] = NewRun(Fixture, i)]
    /\ UNCHANGED <<prepared, claims, slots, pages, th, sent, answers>>

---------------------------------------------------------------------------
(* Preparation.                                                            *)

\* BudgetedLiveWorkflow.prepare leaves the preparation the configured policy
\* was used for to that policy, and finds a slot for any other key.
RequestPreparation(t, k) ==
    /\ At(t, "idle")
    /\ Goto(t, [pc |-> IF grants = <<>> \/ (prepared[Live] # None /\ prepared[Live].key = k)
                       THEN "prepare" ELSE "slot",
                policy |-> Live, key |-> k])
    /\ UNCHANGED <<runs, prepared, claims, slots, pages, sent, answers>>

\* The slots taken of a grant.
Claimed(g) == Cardinality({k \in Keys : slots[k] # None /\ slots[k][1] = g})

\* Mutant of HasRoom: a grant's last slot is given twice.
HasRoomAtLimit(i) == Claimed(grants[i].id) <= grants[i].payload.runs

HasRoom(i) == Claimed(grants[i].id) < grants[i].payload.runs

\* A key keeps its slot; another takes the next of the oldest grant with room.
TakeSlot(t) ==
    /\ At(t, "slot")
    /\ LET k == th[t].key
           open == {i \in DOMAIN grants : HasRoom(i)}
       IN  \/ /\ slots[k] # None
              /\ Goto(t, [th[t] EXCEPT !.pc = "prepare", !.policy = slots[k]])
              /\ UNCHANGED slots
           \/ /\ slots[k] = None /\ open = {}
              /\ Return(t)
              /\ UNCHANGED slots
           \/ /\ slots[k] = None
              /\ \E i \in open :
                   LET g == grants[i].id
                   IN  /\ \A j \in open : i <= j
                       /\ slots' = [slots EXCEPT ![k] = <<g, Claimed(g) + 1>>]
                       /\ Goto(t, [th[t] EXCEPT !.pc = "prepare", !.policy = <<g, Claimed(g) + 1>>])
    /\ UNCHANGED <<runs, prepared, claims, pages, sent, answers>>

\* LiveWorkflow.prepare: the policy's one preparation is claimed, or its run
\* returned to the key that had claimed it.
ClaimPreparation(t) ==
    /\ At(t, "prepare")
    /\ LET p == th[t].policy  k == th[t].key
       IN  IF prepared[p] = None
           THEN /\ prepared' = [prepared EXCEPT ![p] = [key |-> k, status |-> "started", run |-> None]]
                /\ Goto(t, [pc |-> "send", policy |-> p, key |-> k, op |-> Browse])
                /\ UNCHANGED answers
           ELSE /\ answers' = IF prepared[p].key = k /\ prepared[p].run # None
                              THEN [answers EXCEPT ![k] = @ \cup {prepared[p].run}] ELSE answers
                /\ Return(t)
                /\ UNCHANGED prepared
    /\ UNCHANGED <<runs, claims, slots, pages, sent>>

\* PageAnalysisService.analyse: the row of a new key takes an allowance.  The
\* row of a known key is returned as it is.
AnalysePage(t, x) ==
    /\ At(t, "idle")
    /\ pages[x] = NoPage
    /\ Cardinality({y \in Pages : pages[y].status # None}) < MaxPages
    /\ pages' = [pages EXCEPT ![x].status = "running"]
    /\ Goto(t, [pc |-> "send", policy |-> <<"page", x>>, key |-> x, op |-> Browse])
    /\ UNCHANGED <<runs, prepared, claims, slots, sent, answers>>

\* prepare_evaluation: likewise, for a completed analysis.
PrepareEvaluation(t, x) ==
    /\ At(t, "idle")
    /\ pages[x].status = "completed"
    /\ pages[x].evaluation = None
    /\ Cardinality({y \in Pages : pages[y].evaluation # None}) < MaxEvaluations
    /\ pages' = [pages EXCEPT ![x].evaluation = "running"]
    /\ Goto(t, [pc |-> "send", policy |-> <<"page", x>>, key |-> x, op |-> Propose])
    /\ UNCHANGED <<runs, prepared, claims, slots, sent, answers>>

\* The provider is called.  The steps of a preparation are claimed in their
\* turn, but whether the claim was new is not asked.
Send(t) ==
    /\ At(t, "send")
    /\ sent' = [sent EXCEPT ![th[t].policy][th[t].op] = @ + 1]
    /\ claims' = IF OfPage(t) THEN claims
                 ELSE [claims EXCEPT ![th[t].policy][th[t].op] = "started"]
    /\ Goto(t, [th[t] EXCEPT !.pc = "sent"])
    /\ UNCHANGED <<runs, prepared, slots, pages, answers>>

\* Browse leads to the analysis of a page or, under a live policy, to the
\* proposal of queries; a page is analysed before its queries are asked for.
Answered(t) ==
    /\ At(t, "sent")
    /\ LET op == th[t].op
       IN  /\ IF OfPage(t)
              THEN /\ pages' = IF op = Analyse THEN [pages EXCEPT ![th[t].key].status = "completed"]
                               ELSE pages
                   /\ UNCHANGED claims
              ELSE /\ claims' = [claims EXCEPT ![th[t].policy][op] = "completed"]
                   /\ UNCHANGED pages
           /\ CASE op = Browse -> Goto(t, [th[t] EXCEPT !.pc = "send",
                                            !.op = IF OfPage(t) THEN Analyse ELSE Propose])
                [] op = Analyse -> Return(t)
                [] op = Propose -> Goto(t, [th[t] EXCEPT !.pc = "create"])
    /\ UNCHANGED <<runs, prepared, slots, sent, answers>>

\* A preparation that fails keeps its claim, its slot or its allowance.
PreparationFails(t) ==
    /\ At(t, "sent") \/ (At(t, "send") /\ OfPage(t) /\ th[t].op = Browse)
    /\ IF OfPage(t)
       THEN /\ pages' = IF th[t].op = Propose
                        THEN [pages EXCEPT ![th[t].key].evaluation = "failed"]
                        ELSE [pages EXCEPT ![th[t].key].status = "failed"]
            /\ UNCHANGED prepared
       ELSE /\ prepared' = [prepared EXCEPT ![th[t].policy].status = "failed"]
            /\ UNCHANGED pages
    /\ Return(t)
    /\ UNCHANGED <<runs, claims, slots, sent, answers>>

CreateRun(t, r, i) ==
    /\ At(t, "create")
    /\ ~ Exists(r)
    /\ i \in Fitting
    /\ runs' = [runs EXCEPT ![r] = NewRun(th[t].policy, i)]
    /\ Goto(t, [pc |-> "record", policy |-> th[t].policy, key |-> th[t].key, run |-> r])
    /\ UNCHANGED <<prepared, claims, slots, pages, sent, answers>>

\* The run is recorded in a transaction after the one that stored it.
RecordRun(t) ==
    /\ At(t, "record")
    /\ IF OfPage(t)
       THEN /\ pages' = [pages EXCEPT ![th[t].key].evaluation = "prepared", ![th[t].key].run = th[t].run]
            /\ UNCHANGED <<prepared, answers>>
       ELSE /\ prepared' = [prepared EXCEPT ![th[t].policy].status = "completed",
                                            ![th[t].policy].run = th[t].run]
            /\ answers' = [answers EXCEPT ![th[t].key] = @ \cup {th[t].run}]
            /\ UNCHANGED pages
    /\ Return(t)
    /\ UNCHANGED <<runs, claims, slots, sent>>

---------------------------------------------------------------------------
(* Evaluation.                                                             *)

\* The run is read for its kind and the limits of its policy.  The request
\* names the revision its owner saw.
RequestStart(t, r, s) ==
    /\ At(t, "idle")
    /\ Exists(r)
    /\ LET p == runs[r].policy
       IN  \/ p = Fixture
           \/ /\ runs[r].inputs \in Fitting
              /\ p \in PagePolicies => pages[p[2]].run = r
    /\ Goto(t, [pc |-> "start", policy |-> runs[r].policy, run |-> r, rev |-> runs[r].rev, key |-> s])
    /\ UNCHANGED <<runs, prepared, claims, slots, pages, sent, answers>>

\* Coordinator.start, which is answered again to the key that started the run.
\* A live run is handed to its policy's one evaluation.
Start(t) ==
    /\ At(t, "start")
    /\ LET r == th[t].run
           run == runs[r]
           starts == /\ AtRevision(r, th[t].rev)
                     /\ run.state = "awaiting"
                     /\ run.approval = [rev |-> th[t].rev, inputs |-> run.inputs]
           replays == /\ AtRevision(r, th[t].rev)
                      /\ run.state = "evaluating"
                      /\ run.key = th[t].key
       IN  /\ runs' = IF starts THEN [runs EXCEPT ![r].state = "evaluating", ![r].key = th[t].key]
                      ELSE runs
           /\ IF starts \/ replays
              THEN Goto(t, [pc |-> IF run.policy = Fixture THEN "finish" ELSE "evaluate",
                            policy |-> run.policy, run |-> r, rev |-> th[t].rev, inputs |-> run.inputs,
                            i |-> 1, good |-> IF run.policy = Fixture THEN NumQueries ELSE 0,
                            halted |-> FALSE, op |-> Search(1)])
              ELSE Return(t)
    /\ UNCHANGED <<prepared, claims, slots, pages, sent, answers>>

\* Mutant of Unclaimed: a claim whose call never came back may be taken over.
UnclaimedOrInterrupted(p, o) == claims[p][o] \in {None, "started"}

Unclaimed(p, o) == claims[p][o] = None

ClaimEvaluation(t) ==
    /\ At(t, "evaluate")
    /\ IF Unclaimed(th[t].policy, Evaluate)
       THEN /\ claims' = [claims EXCEPT ![th[t].policy][Evaluate] = "started"]
            /\ Goto(t, [th[t] EXCEPT !.pc = "check"])
       ELSE /\ Return(t)
            /\ UNCHANGED claims
    /\ UNCHANGED <<runs, prepared, slots, pages, sent, answers>>

Evaluating(t) == runs[th[t].run].state = "evaluating"
NextQuery(t, good, halted) ==
    Goto(t, [th[t] EXCEPT !.pc = "check", !.i = @ + 1, !.good = good, !.halted = halted])

\* The state, and not the revision, of the run is read before every query and
\* once after the last; a query after a failure becomes an error, uncalled.
Check(t) ==
    /\ At(t, "check")
    /\ claims' = IF ~ Evaluating(t) /\ th[t].i <= NumQueries
                 THEN [claims EXCEPT ![th[t].policy][Evaluate] = "cancelled"] ELSE claims
    /\ CASE ~ Evaluating(t) -> Return(t)
         [] Evaluating(t) /\ th[t].i > NumQueries -> Goto(t, [th[t] EXCEPT !.pc = "finish"])
         [] Evaluating(t) /\ th[t].i <= NumQueries /\ th[t].halted -> NextQuery(t, th[t].good, TRUE)
         [] OTHER -> Goto(t, [th[t] EXCEPT !.pc = "claim", !.op = Search(th[t].i)])
    /\ UNCHANGED <<runs, prepared, slots, pages, sent, answers>>

ClaimCall(t) ==
    /\ At(t, "claim")
    /\ IF Unclaimed(th[t].policy, th[t].op)
       THEN /\ claims' = [claims EXCEPT ![th[t].policy][th[t].op] = "started"]
            /\ Goto(t, [th[t] EXCEPT !.pc = "call"])
       ELSE /\ NextQuery(t, th[t].good, TRUE)
            /\ UNCHANGED claims
    /\ UNCHANGED <<runs, prepared, slots, pages, sent, answers>>

Call(t, ok) ==
    /\ At(t, "call")
    /\ sent' = [sent EXCEPT ![th[t].policy][th[t].op] = @ + 1]
    /\ IF ok THEN Goto(t, [th[t] EXCEPT !.pc = "called"]) ELSE NextQuery(t, th[t].good, TRUE)
    /\ UNCHANGED <<runs, prepared, claims, slots, pages, answers>>

RecordCall(t) ==
    /\ At(t, "called")
    /\ claims' = [claims EXCEPT ![th[t].policy][th[t].op] = "completed"]
    /\ IF th[t].op = Search(th[t].i)
       THEN Goto(t, [th[t] EXCEPT !.pc = "recheck"])
       ELSE NextQuery(t, th[t].good + 1, FALSE)
    /\ UNCHANGED <<runs, prepared, slots, pages, sent, answers>>

Recheck(t) ==
    /\ At(t, "recheck")
    /\ IF Evaluating(t) THEN Goto(t, [th[t] EXCEPT !.pc = "claim", !.op = Answer(th[t].i)])
       ELSE Return(t)
    /\ UNCHANGED <<runs, prepared, claims, slots, pages, sent, answers>>

\* Mutant of Outcome: runs end in the states their recorded calls end in.
OutcomeOfCalls(good) == IF good > 0 THEN "completed" ELSE "failed"

Outcome(good) ==
    IF good = NumQueries THEN "ready" ELSE IF good > 0 THEN "partial" ELSE "failed"

\* Coordinator.finish; results for another revision or state are refused.
Finish(t) ==
    /\ At(t, "finish")
    /\ IF AtRevision(th[t].run, th[t].rev) /\ Evaluating(t)
       THEN /\ runs' = [runs EXCEPT ![th[t].run].state = Outcome(th[t].good),
                        ![th[t].run].results = [inputs |-> th[t].inputs, good |-> th[t].good]]
            /\ IF th[t].policy = Fixture THEN Return(t)
               ELSE Goto(t, [pc |-> "finished", policy |-> th[t].policy])
       ELSE /\ Return(t)
            /\ UNCHANGED runs
    /\ UNCHANGED <<prepared, claims, slots, pages, sent, answers>>

RecordEvaluation(t) ==
    /\ At(t, "finished")
    /\ claims' = [claims EXCEPT ![th[t].policy][Evaluate] = "completed"]
    /\ Return(t)
    /\ UNCHANGED <<runs, prepared, slots, pages, sent, answers>>

---------------------------------------------------------------------------

\* An unexpected error or the end of the server cuts a request short.
Die(t) ==
    /\ ~ At(t, "idle")
    /\ Return(t)
    /\ UNCHANGED <<runs, prepared, claims, slots, pages, sent, answers>>

\* The server is started with a grant file; requests do not survive it.
Restart(g, a) ==
    /\ ApplyGrant(g, a)
    /\ th' = [t \in Threads |-> Idle]
    /\ UNCHANGED <<runs, prepared, claims, slots, pages, sent, answers>>

AskPreparation(t) ==
    \/ \E k \in Keys : RequestPreparation(t, k)
    \/ \E x \in Pages : AnalysePage(t, x) \/ PrepareEvaluation(t, x)

AskStart(t) == \E r \in Runs, s \in StartKeys : RequestStart(t, r, s)

Work(t) ==
    \/ TakeSlot(t) \/ ClaimPreparation(t) \/ Send(t) \/ Answered(t) \/ PreparationFails(t)
    \/ \E r \in Runs, i \in Inputs : CreateRun(t, r, i)
    \/ RecordRun(t) \/ Start(t) \/ ClaimEvaluation(t) \/ Check(t) \/ ClaimCall(t)
    \/ \E ok \in BOOLEAN : Call(t, ok)
    \/ RecordCall(t) \/ Recheck(t) \/ Finish(t) \/ RecordEvaluation(t) \/ Die(t)

OwnerStep(r) ==
    \/ Approve(r) \/ Cancel(r) \/ MarkExported(r)
    \/ \E i \in Inputs : Revise(r, i) \/ CreateFixture(r, i)

LiveNext ==
    /\ \/ \E t \in Threads : AskPreparation(t) \/ AskStart(t) \/ Work(t)
       \/ \E r \in Runs : OwnerStep(r)
    /\ UNCHANGED grants

LiveSpec ==
    /\ grants = <<>> /\ LiveInit
    /\ [][LiveNext \/ \E g \in Grants, a \in Authorities : Restart(g, a)]_<<grants, live>>

---------------------------------------------------------------------------
(* Properties.                                                             *)

LiveTypeOK ==
    /\ runs \in [Runs -> {NoRun} \cup Run]
    /\ prepared \in [Policies -> {None} \cup Preparation]
    /\ claims \in [Policies -> [CallOps \cup {Evaluate} -> {None, "started", "completed", "cancelled"}]]
    /\ slots \in [Keys -> {None} \cup (Grants \X (1 .. MaxSlot))]
    /\ pages \in [Pages -> [status : {None, "running", "completed", "failed"},
                           evaluation : {None, "running", "prepared", "failed"},
                           run : Runs \cup {None}]]
    /\ sent \in [Policies -> [CallOps -> Nat]]
    /\ answers \in [Keys -> SUBSET Runs]

\* A policy pays for one browse, one analysis and one proposal, and for one
\* search and one answer to each of its queries, however often it is asked to
\* start, and whatever was cut short: no call is made a second time.
EachCallOnce == \A p \in Policies, o \in CallOps : sent[p][o] <= 1

\* The results of a finished run are those of the inputs it has, which its
\* owner approved at the revision it has.
ResultsAreApproved ==
    \A r \in Runs : Exists(r) /\ runs[r].state \in DoneStates =>
        /\ runs[r].results.inputs = runs[r].inputs
        /\ runs[r].approval = [rev |-> runs[r].rev, inputs |-> runs[r].inputs]

\* No more preparations are given a slot than the grants applied say, no two
\* the same one; and a preparation key is only ever answered with one run.
SlotsAreGranted ==
    /\ \A g \in Grants : Claimed(g) > 0 =>
          \E i \in DOMAIN grants : grants[i].id = g /\ Claimed(g) <= grants[i].payload.runs
    /\ \A k, l \in Keys : slots[k] # None /\ slots[k] = slots[l] => k = l
    /\ \A k \in Keys : Cardinality(answers[k]) <= 1
=============================================================================
