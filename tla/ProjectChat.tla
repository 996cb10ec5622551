----------------------------- MODULE ProjectChat -----------------------------
(***************************************************************************)
(* A project conversation: the turns its owner claims, the measurement     *)
(* setups that grow in it, the runs they start, and the workers that write *)
(* the end of a run back into it (project_chat.py,                         *)
(* project_chat_workflow.py, goal_summary.py, measurement_worker.py), with *)
(* the deletion of runs, conversation and project (persistence.py).        *)
(*                                                                         *)
(* The conversation is one row with a revision and a payload.  Every       *)
(* writer changes a copy of the payload it has read earlier and writes the *)
(* whole copy back, if the revision is still that of the copy.             *)
(* update_active and clear_workflow do not move the revision.              *)
(***************************************************************************)
EXTENDS Naturals, Sequences, FiniteSets

CONSTANTS
    Runs,       \* measurement runs
    Keys,       \* idempotency keys of the owner's messages; a setup has the key of its first
    Topics,     \* url, goal, audience and desired outcome of a setup
    Goals,      \* contents of a setup: its topic, and as its scope the target_kind
    Workers,    \* worker processes
    None,       \* a column or a field that is null
    MaxRev      \* bound: no message is sent, no job ends past this revision

ASSUME NoneAssumption == None \notin Runs \cup Keys \cup Goals

ASSUME GoalsAssumption == Goals \subseteq [topic : Topics, scope : {"page", "domain"}]

VARIABLES
    runs,       \* state of each run
    origin,     \* history: the setup each run was created for
    conv,       \* the conversation: revision and payload
    column,     \* its column run_id
    links,      \* rows of project_conversation_runs
    summaries,  \* goal-summary rows of project_llm_operations, by setup
    prepares,   \* the run whose preparation job holds the key of the setup
    handler,    \* the request being answered
    wk,         \* what each worker is reconciling
    deleting,   \* the delete_project_run request under way
    insights    \* history: how often insights were asked of the agent, by run

vars == <<runs, origin, conv, column, links, summaries, prepares, handler, wk, deleting, insights>>

ActiveStates == {"preparing", "evaluating"}
DeletableStates == {"draft", "review", "ready"}
LiveStates == ActiveStates \cup DeletableStates
PendingStatuses == {"collecting", "awaiting-confirmation"}

Live(r) == runs[r] \in LiveStates

---------------------------------------------------------------------------
(* The payload.                                                            *)

Turn == [key : Keys \cup Runs, at : Nat, status : {"running", "completed", "failed"}]

\* A measurement setup.  complete says that no field is missing, summary is the
\* goal its summary was made from, and error that a page or a start was refused
\* since the last start (the errors that workers save are only shown).
Flow == [status : PendingStatuses \cup {"preparing", "evaluating", "completed", "failed"},
         goal : Goals, complete : BOOLEAN, summary : Goals \cup {None}, error : BOOLEAN,
         run : Runs \cup {None}]

\* flows is measurement_workflows by id; active is the id of measurement_workflow.
Conversation ==
    [rev : Nat, run : Runs \cup {None}, linked : SUBSET Runs,
     active : Keys \cup {None}, flows : [Keys -> Flow \cup {None}], turns : Seq(Turn)]

ASSUME PayloadAssumption == None \notin Conversation /\ None \notin Flow

NewConversation(r) ==
    [rev |-> 0, run |-> r, linked |-> {r} \ {None}, active |-> None,
     flows |-> [k \in Keys |-> None], turns |-> << >>]

NewFlow(g, complete) ==
    [status |-> "collecting", goal |-> g, complete |-> complete, summary |-> None,
     error |-> FALSE, run |-> None]

\* Mutant of Running: only the last turn of the owner is looked at.
RunningMessage(c) ==
    \E i \in DOMAIN c.turns : c.turns[i].status = "running" /\ c.turns[i].key \in Keys

Running(c) == \E i \in DOMAIN c.turns : c.turns[i].status = "running"

\* Mutant of TurnsOf: failed turns may be tried again.
TurnsNotFailed(c, k) == {i \in DOMAIN c.turns : c.turns[i].key = k /\ c.turns[i].status # "failed"}

TurnsOf(c, k) == {i \in DOMAIN c.turns : c.turns[i].key = k}

\* The setup that the next message answers, if there is one.
PendingSetup(c) == c.active # None /\ c.flows[c.active].status \in PendingStatuses

WithTurn(c, k) ==
    [c EXCEPT !.rev = @ + 1,
              !.turns = Append(@, [key |-> k, at |-> c.rev, status |-> "running"])]

\* The last turn is the one of key k, and it still runs.
IsCurrent(c, k) ==
    c.turns # << >> /\ LET t == c.turns[Len(c.turns)]
                       IN  t.key = k /\ t.status = "running"

\* Mutant of WithEndedTurn: an outcome that the readers of a turn do not know.
WithErrorTurn(c, ok) ==
    [c EXCEPT !.rev = @ + 1, !.turns[Len(c.turns)].status = IF ok THEN "completed" ELSE "error"]

WithEndedTurn(c, ok) ==
    [c EXCEPT !.rev = @ + 1,
              !.turns[Len(c.turns)].status = IF ok THEN "completed" ELSE "failed"]

\* update_active: the revision stays.
WithActive(c, k, flow, r, S) ==
    [c EXCEPT !.run = IF r = None THEN @ ELSE r,
              !.linked = @ \cup S \cup ({r} \ {None}),
              !.active = IF k = None THEN @ ELSE k,
              !.flows = IF k = None THEN @ ELSE [c.flows EXCEPT ![k] = flow]]

\* clear_workflow: the revision stays.
WithoutActive(c) ==
    [c EXCEPT !.active = None, !.flows[c.active] = None]

\* set_workflow.  With no active setup the given one becomes active, and
\* reading a conversation adds its active setup to the list.
WithFlow(c, k, flow) ==
    [c EXCEPT !.rev = @ + 1,
              !.active = IF @ = None THEN k ELSE @,
              !.flows = IF c.active = None \/ c.flows[k] # None THEN [c.flows EXCEPT ![k] = flow] ELSE @]

\* What the deletion of a run leaves of a conversation.
Mentions(c, r) ==
    c.run = r \/ r \in c.linked \/ \E k \in Keys : c.flows[k] # None /\ c.flows[k].run = r

WithoutRun(c, r) ==
    LET gone == {k \in Keys : c.flows[k] # None /\ c.flows[k].run = r}
    IN  [c EXCEPT !.rev = @ + 1,
                  !.run = IF @ = r THEN None ELSE @,
                  !.linked = @ \ {r},
                  !.active = IF @ \in gone THEN None ELSE @,
                  !.flows = [k \in Keys |-> IF k \in gone THEN None ELSE c.flows[k]]]

\* Mutant of Fresh: the revision is not compared.
FreshAlways(copy) == conv # None

\* The guarded UPDATE finds the row of the copy.
Fresh(copy) == conv # None /\ conv.rev = copy.rev

---------------------------------------------------------------------------
(* ProjectChatService.respond: one request at a time gets past the claim.  *)

NoRequest == [pc |-> "idle"]

\* The turn will end as completed or failed, and needs nothing else.
Ends(ok) ==
    handler' = [handler EXCEPT !.pc = "finish", !.ok = ok,
                               !.setup = None, !.flow = None, !.run = None]

\* claim, by the owner: the key is new, the revision the latest, no turn runs.
Send(k) ==
    /\ handler.pc = "idle"
    /\ conv # None
    /\ conv.rev <= MaxRev
    /\ TurnsOf(conv, k) = {}
    /\ ~Running(conv)
    /\ conv' = WithTurn(conv, k)
    /\ handler' = [pc |-> "claimed", key |-> k, copy |-> conv', setup |-> None,
                   flow |-> None, run |-> None, ok |-> FALSE]
    /\ UNCHANGED <<runs, origin, column, links, summaries, prepares, wk, deleting, insights>>

\* The project is archived, or has no policy, or no organisational context.
Refuse ==
    /\ handler.pc = "claimed"
    /\ Ends(FALSE)
    /\ UNCHANGED <<runs, origin, conv, column, links, summaries, prepares, wk, deleting, insights>>

\* A message that is about no setup goes to the agent.
AskAgent ==
    /\ handler.pc = "claimed"
    /\ ~PendingSetup(handler.copy)
    /\ handler' = [handler EXCEPT !.pc = "asking"]
    /\ UNCHANGED <<runs, origin, conv, column, links, summaries, prepares, wk, deleting, insights>>

\* _bind_existing_run: a message that names runs.
BindRuns(r, S) ==
    /\ handler.pc = "claimed"
    /\ r \in S
    /\ IF \E s \in S : ~Live(s)
         THEN Ends(TRUE) /\ UNCHANGED <<conv, column, links>>     \* "not found in this project"
         ELSE IF Fresh(handler.copy)
         THEN /\ conv' = WithActive(handler.copy, None, None, r, S)
              /\ column' = r
              /\ links' = links \cup (S \ handler.copy.linked)
              /\ handler' = [handler EXCEPT !.pc = "asking", !.copy = conv']
         ELSE Ends(FALSE) /\ UNCHANGED <<conv, column, links>>
    /\ UNCHANGED <<runs, origin, summaries, prepares, wk, deleting, insights>>

\* "cancel" while a setup is pending: clear_workflow.
CancelSetup ==
    /\ handler.pc = "claimed"
    /\ PendingSetup(handler.copy)
    /\ Ends(Fresh(handler.copy))
    /\ conv' = IF Fresh(handler.copy) THEN WithoutActive(handler.copy) ELSE conv
    /\ UNCHANGED <<runs, origin, column, links, summaries, prepares, wk, deleting, insights>>

\* The setup is to be saved as it is, with an answer to the owner.
Save(k, flow) == handler' = [handler EXCEPT !.setup = k, !.flow = flow, !.pc = "save"]

\* _next_question: something is missing, or the summary is there, or it is made now.
Proceed(k, flow) ==
    handler' = [handler EXCEPT
        !.setup = k,
        !.flow = [flow EXCEPT !.status = IF flow.complete THEN "awaiting-confirmation" ELSE "collecting"],
        !.pc = IF ~flow.complete \/ flow.summary # None THEN "save" ELSE "summarise"]

\* A message that asks for a measurement opens a setup of its own.
RequestMeasurement(g, complete) ==
    /\ handler.pc = "claimed"
    /\ ~PendingSetup(handler.copy)
    /\ Proceed(handler.key, NewFlow(g, complete))
    /\ UNCHANGED <<runs, origin, conv, column, links, summaries, prepares, wk, deleting, insights>>

\* Mutant of ApplyAnswer: the summary is kept.
ApplyAnswerOnly(flow, g, complete) == [flow EXCEPT !.goal = g, !.complete = complete]

\* _apply_pending_answer: a field that is given resets the summary ...
ApplyAnswer(flow, g, complete) ==
    [flow EXCEPT !.goal = g, !.complete = complete, !.summary = None]

Answer(g, complete) ==
    /\ handler.pc = "claimed"
    /\ PendingSetup(handler.copy)
    /\ Proceed(handler.copy.active,
               ApplyAnswer(handler.copy.flows[handler.copy.active], g, complete))
    /\ UNCHANGED <<runs, origin, conv, column, links, summaries, prepares, wk, deleting, insights>>

\* ... but a scope that is given when the target is asked for comes after the
\* reset.  Of a setup with a summary the target is asked for after a refusal.
AnswerScope(g) ==
    /\ handler.pc = "claimed"
    /\ PendingSetup(handler.copy)
    /\ LET flow == handler.copy.flows[handler.copy.active]
       IN  /\ flow.status = "collecting" /\ flow.summary # None
           /\ g.topic = flow.goal.topic
           /\ Proceed(handler.copy.active, [flow EXCEPT !.goal = g])
    /\ UNCHANGED <<runs, origin, conv, column, links, summaries, prepares, wk, deleting, insights>>

\* An answer that gives nothing: whatever was refused, a setup without a missing
\* field asks to be confirmed.
AnswerNothing ==
    /\ handler.pc = "claimed"
    /\ PendingSetup(handler.copy)
    /\ Proceed(handler.copy.active, handler.copy.flows[handler.copy.active])
    /\ UNCHANGED <<runs, origin, conv, column, links, summaries, prepares, wk, deleting, insights>>

\* A page outside the project, of a new setup or of one that is confirmed: it is
\* taken out, the rest is kept, and the target is asked for.
RejectPage(g) ==
    LET Rejected(flow) == [flow EXCEPT !.status = "collecting", !.complete = FALSE, !.error = TRUE]
        known == handler.copy.flows[handler.copy.active]
    IN  /\ handler.pc = "claimed"
        /\ IF PendingSetup(handler.copy)
             THEN known.status = "awaiting-confirmation" /\ Save(handler.copy.active, Rejected(known))
             ELSE Save(handler.key, Rejected(NewFlow(g, FALSE)))
        /\ UNCHANGED <<runs, origin, conv, column, links, summaries, prepares, wk, deleting, insights>>

\* ProjectGoalSummaryService.summarize: the row is inserted as running ...
SummaryBegins ==
    /\ handler.pc = "summarise"
    /\ summaries[handler.setup] = None
    /\ summaries' = [summaries EXCEPT ![handler.setup] =
                        [goal |-> handler.flow.goal, status |-> "running"]]
    /\ handler' = [handler EXCEPT !.pc = "summarising"]
    /\ UNCHANGED <<runs, origin, conv, column, links, prepares, wk, deleting, insights>>

\* ... and completed when the provider has answered; or, when the key is
\* taken, the saved summary is returned if it is of the same input and ended.
SummaryReturns ==
    /\ \/ handler.pc = "summarising"
       \/ /\ handler.pc = "summarise"
          /\ summaries[handler.setup] = [goal |-> handler.flow.goal, status |-> "completed"]
    /\ summaries' = IF summaries[handler.setup] = None THEN summaries   \* the project is gone
                    ELSE [summaries EXCEPT ![handler.setup].status = "completed"]
    /\ handler' = [handler EXCEPT !.pc = "save", !.flow.summary = handler.flow.goal]
    /\ UNCHANGED <<runs, origin, conv, column, links, prepares, wk, deleting, insights>>

SummaryRefused ==
    /\ handler.pc = "summarise"
    /\ summaries[handler.setup] \notin {None, [goal |-> handler.flow.goal, status |-> "completed"]}
    /\ Ends(FALSE)
    /\ UNCHANGED <<runs, origin, conv, column, links, summaries, prepares, wk, deleting, insights>>

\* The setup is saved with the next question: update_active.
SaveSetup ==
    /\ handler.pc = "save"
    /\ Ends(Fresh(handler.copy))
    /\ conv' = IF Fresh(handler.copy)
                 THEN WithActive(handler.copy, handler.setup, handler.flow, None, {})
                 ELSE conv
    /\ UNCHANGED <<runs, origin, column, links, summaries, prepares, wk, deleting, insights>>

\* A start that is refused (any ValueError): the target is asked for, and all
\* that was known of the setup is kept.
NotStarted(flow) == [flow EXCEPT !.status = "collecting", !.error = TRUE]

\* "confirm": the brief or the policy is refused before there is a run ...
StartRefused ==
    /\ handler.pc = "claimed"
    /\ PendingSetup(handler.copy)
    /\ LET flow == handler.copy.flows[handler.copy.active]
       IN  /\ flow.status = "awaiting-confirmation"
           /\ Save(handler.copy.active, NotStarted(flow))
    /\ UNCHANGED <<runs, origin, conv, column, links, summaries, prepares, wk, deleting, insights>>

\* ... or orchestrator.start creates a run ...
Confirm(r) ==
    /\ handler.pc = "claimed"
    /\ PendingSetup(handler.copy)
    /\ handler.copy.flows[handler.copy.active].status = "awaiting-confirmation"
    /\ runs[r] = "unused"
    /\ runs' = [runs EXCEPT ![r] = "draft"]
    /\ origin' = [origin EXCEPT ![r] = handler.copy.active]
    /\ handler' = [handler EXCEPT !.pc = "enqueue", !.run = r, !.setup = handler.copy.active,
                                  !.flow = handler.copy.flows[handler.copy.active]]
    /\ UNCHANGED <<conv, column, links, summaries, prepares, wk, deleting, insights>>

\* Mutant of KeyIsFree: the key is that of the message.
KeyIsNew(k) == TRUE

\* enqueue_job: the key holds no preparation, of another run then.
KeyIsFree(k) == prepares[k] = None

\* ... and enqueues its preparation, under the key of the setup, unless that
\* key holds the preparation of another run ...
Enqueue ==
    /\ handler.pc = "enqueue"
    /\ runs[handler.run] = "draft"
    /\ KeyIsFree(handler.setup)
    /\ runs' = [runs EXCEPT ![handler.run] = "preparing"]
    /\ prepares' = [prepares EXCEPT ![handler.setup] = handler.run]
    /\ handler' = [handler EXCEPT !.pc = "bind"]
    /\ UNCHANGED <<origin, conv, column, links, summaries, wk, deleting, insights>>

\* ... or the queue is full, or the run has been deleted.  A Conflict and a
\* NotFound are ValueErrors too.  The run stays a draft.
EnqueueRefused ==
    /\ handler.pc = "enqueue"
    /\ Save(handler.setup, NotStarted(handler.flow))
    /\ UNCHANGED <<runs, origin, conv, column, links, summaries, prepares, wk, deleting, insights>>

\* The started run is linked to the conversation: update_active.
BindStarted ==
    /\ handler.pc = "bind"
    /\ LET r == handler.run
           done == Fresh(handler.copy) /\ Live(r)
       IN  /\ Ends(done)
           /\ conv' = IF done
                        THEN WithActive(handler.copy, handler.setup,
                                        [handler.flow EXCEPT !.status = "preparing", !.error = FALSE, !.run = r],
                                        r, {r})
                        ELSE conv
           /\ column' = IF done THEN r ELSE column
           /\ links' = IF done THEN links \cup {r} ELSE links
    /\ UNCHANGED <<runs, origin, summaries, prepares, wk, deleting, insights>>

AgentReplies(ok) ==
    /\ handler.pc = "asking"
    /\ Ends(ok)
    /\ UNCHANGED <<runs, origin, conv, column, links, summaries, prepares, wk, deleting, insights>>

\* The request is interrupted (CancelledError): its turn ends as failed.
Interrupted ==
    /\ handler.pc \in {"summarising", "asking"}
    /\ Ends(FALSE)
    /\ UNCHANGED <<runs, origin, conv, column, links, summaries, prepares, wk, deleting, insights>>

\* finish: the SELECT, then the guarded UPDATE.  Its own Conflict is not caught.
FinishRead ==
    /\ handler.pc = "finish"
    /\ handler' = IF conv # None /\ IsCurrent(conv, handler.key)
                    THEN [handler EXCEPT !.pc = "finishing", !.copy = conv]
                    ELSE NoRequest
    /\ UNCHANGED <<runs, origin, conv, column, links, summaries, prepares, wk, deleting, insights>>

FinishWrite ==
    /\ handler.pc = "finishing"
    /\ conv' = IF Fresh(handler.copy) THEN WithEndedTurn(handler.copy, handler.ok) ELSE conv
    /\ handler' = NoRequest
    /\ UNCHANGED <<runs, origin, column, links, summaries, prepares, wk, deleting, insights>>

\* The server dies: whatever it was answering is forgotten.
ServerDies ==
    /\ handler.pc # "idle"
    /\ handler' = NoRequest
    /\ UNCHANGED <<runs, origin, conv, column, links, summaries, prepares, wk, deleting, insights>>

---------------------------------------------------------------------------
(* The workers: the jobs of a run, and reconcile_job after each.           *)

IdleWorker == [pc |-> "idle"]

Reconciling(r, job) ==
    [pc |-> "find", run |-> r, job |-> job, copy |-> None, setup |-> None, flow |-> None, ok |-> FALSE]

\* A job ends and its worker is about to reconcile it; after a preparation
\* the orchestrator has enqueued the evaluation.
JobEnds(w, r, ok) ==
    /\ wk[w].pc = "idle"
    /\ conv # None => conv.rev <= MaxRev
    /\ runs[r] \in ActiveStates
    /\ runs' = [runs EXCEPT ![r] = IF ~ok THEN "review"
                                   ELSE IF @ = "preparing" THEN "evaluating" ELSE "ready"]
    /\ wk' = [wk EXCEPT ![w] = Reconciling(r, IF ~ok THEN "failed"
                                              ELSE IF runs[r] = "preparing" THEN "prepare" ELSE "evaluate")]
    /\ UNCHANGED <<origin, conv, column, links, summaries, prepares, handler, deleting, insights>>

\* A job is cancelled or interrupted, or the orchestrator fails: no callback.
JobStops(r) ==
    /\ runs[r] \in ActiveStates
    /\ runs' = [runs EXCEPT ![r] = "review"]
    /\ UNCHANGED <<origin, conv, column, links, summaries, prepares, handler, wk, deleting, insights>>

\* The owner resumes a run that needs review, from the page of the run.
Resume(r) ==
    /\ runs[r] = "review"
    /\ conv # None => conv.rev <= MaxRev
    /\ \E s \in ActiveStates : runs' = [runs EXCEPT ![r] = s]
    /\ UNCHANGED <<origin, conv, column, links, summaries, prepares, handler, wk, deleting, insights>>

\* An evaluation without a report is reconciled again by a worker's pass.
ReconcileAgain(w, r) ==
    /\ wk[w].pc = "idle"
    /\ conv # None
    /\ runs[r] = "ready"
    /\ wk' = [wk EXCEPT ![w] = Reconciling(r, "evaluate")]
    /\ UNCHANGED <<runs, origin, conv, column, links, summaries, prepares, handler, deleting, insights>>

\* find_workflow_by_run, and what is to be done for this job.
Find(w) ==
    LET r == wk[w].run
        found == {k \in Keys : conv # None /\ r \in links /\ conv.flows[k] # None /\ conv.flows[k].run = r}
        told == \/ wk[w].job = "failed"
                \/ wk[w].job = "prepare" /\ runs[r] \in {"evaluating", "ready"}
                \/ wk[w].job = "evaluate" /\ runs[r] = "ready"
    IN  /\ wk[w].pc = "find"
        /\ \/ /\ Live(r) /\ told
              /\ \E k \in found :
                   wk' = [wk EXCEPT ![w] =
                            IF wk[w].job = "failed"
                              THEN [wk[w] EXCEPT !.pc = "set", !.copy = conv, !.setup = k,
                                                 !.flow = [conv.flows[k] EXCEPT !.status = "failed"]]
                              ELSE [wk[w] EXCEPT !.pc = "get", !.setup = k, !.flow = conv.flows[k]]]
           \/ /\ ~(Live(r) /\ told /\ found # {})
              /\ wk' = [wk EXCEPT ![w] = IdleWorker]
        /\ UNCHANGED <<runs, origin, conv, column, links, summaries, prepares, handler, deleting, insights>>

\* The latest conversation, and the setup as it was found.
Get(w) ==
    LET latest == conv.flows[wk[w].setup]
        done == (IF latest = None THEN wk[w].flow ELSE latest).status = "completed"
    IN  /\ wk[w].pc = "get"
        /\ wk' = [wk EXCEPT ![w] =
                    IF conv = None \/ (wk[w].job = "evaluate" /\ done) THEN IdleWorker
                    ELSE IF wk[w].job = "evaluate"
                           THEN [wk[w] EXCEPT !.pc = "claim", !.copy = conv]
                           ELSE [wk[w] EXCEPT !.pc = "set", !.copy = conv,
                                              !.flow.status = "evaluating"]]
        /\ UNCHANGED <<runs, origin, conv, column, links, summaries, prepares, handler, deleting, insights>>

\* claim, for the automatic turn: its key is that of the run.
ClaimInsights(w) ==
    LET r == wk[w].run
        same == {i \in TurnsOf(conv, r) : conv.turns[i].at = wk[w].copy.rev}
        claims == TurnsOf(conv, r) = {} /\ Fresh(wk[w].copy) /\ ~Running(conv)
    IN  /\ wk[w].pc = "claim"
        /\ conv' = IF conv # None /\ claims THEN WithTurn(conv, r) ELSE conv
        /\ wk' = [wk EXCEPT ![w] = IF conv = None \/ (~claims /\ same # {}) THEN IdleWorker
                                   ELSE [wk[w] EXCEPT !.pc = IF claims THEN "respond" ELSE "refresh"]]
        /\ UNCHANGED <<runs, origin, column, links, summaries, prepares, handler, deleting, insights>>

\* The claim was a Conflict: the setup is completed without insights.
Refresh(w) ==
    /\ wk[w].pc = "refresh"
    /\ wk' = [wk EXCEPT ![w] =
                IF conv = None THEN IdleWorker
                ELSE [wk[w] EXCEPT !.pc = "set", !.copy = conv, !.flow.status = "completed"]]
    /\ UNCHANGED <<runs, origin, conv, column, links, summaries, prepares, handler, deleting, insights>>

AgentSummarises(w, ok) ==
    /\ wk[w].pc = "respond"
    /\ insights' = [insights EXCEPT ![wk[w].run] = @ + 1]
    /\ wk' = [wk EXCEPT ![w].pc = "finish", ![w].ok = ok]
    /\ UNCHANGED <<runs, origin, conv, column, links, summaries, prepares, handler, deleting>>

InsightsRead(w) ==
    /\ wk[w].pc = "finish"
    /\ wk' = [wk EXCEPT ![w] = IF conv # None /\ IsCurrent(conv, wk[w].run)
                                 THEN [wk[w] EXCEPT !.pc = "finishing", !.copy = conv]
                                 ELSE IdleWorker]
    /\ UNCHANGED <<runs, origin, conv, column, links, summaries, prepares, handler, deleting, insights>>

InsightsWrite(w) ==
    /\ wk[w].pc = "finishing"
    /\ IF Fresh(wk[w].copy)
         THEN /\ conv' = WithEndedTurn(wk[w].copy, wk[w].ok)
              /\ wk' = [wk EXCEPT ![w] =
                   [wk[w] EXCEPT !.pc = "set", !.copy = conv',
                                 !.flow.status = IF wk[w].ok THEN "completed" ELSE "failed"]]
         ELSE /\ wk' = [wk EXCEPT ![w] = IdleWorker]
              /\ UNCHANGED conv
    /\ UNCHANGED <<runs, origin, column, links, summaries, prepares, handler, deleting, insights>>

\* set_workflow; a Conflict is logged and dropped.
SetFlow(w) ==
    /\ wk[w].pc = "set"
    /\ conv' = IF Fresh(wk[w].copy) THEN WithFlow(wk[w].copy, wk[w].setup, wk[w].flow) ELSE conv
    /\ wk' = [wk EXCEPT ![w] = IdleWorker]
    /\ UNCHANGED <<runs, origin, column, links, summaries, prepares, handler, deleting, insights>>

\* A worker that is "stopped" was never started.
WorkerDies(w) ==
    /\ wk[w].pc \notin {"idle", "stopped"}
    /\ wk' = [wk EXCEPT ![w] = IdleWorker]
    /\ UNCHANGED <<runs, origin, conv, column, links, summaries, prepares, handler, deleting, insights>>

---------------------------------------------------------------------------
(* Deletion.                                                               *)

NoDeletion == [run |-> None, copy |-> None]

\* delete_project_run: the reads of _delete_run_rows, which check the state ...
DeleteRunRead(r) ==
    /\ deleting = NoDeletion
    /\ runs[r] \in DeletableStates
    /\ deleting' = [run |-> r, copy |-> conv]
    /\ UNCHANGED <<runs, origin, conv, column, links, summaries, prepares, handler, wk, insights>>

\* ... and its writes: the conversation that mentions the run, then the links,
\* the jobs and the run.  A foreign key keeps the run of a conversation.
DeleteRunWrite ==
    LET r == deleting.run
        mentioned == deleting.copy # None /\ Mentions(deleting.copy, r)
        rest == IF mentioned THEN WithoutRun(deleting.copy, r) ELSE conv
        kept == IF mentioned THEN rest.run ELSE column
    IN  /\ r # None
        /\ deleting' = NoDeletion
        /\ IF (mentioned => Fresh(deleting.copy)) /\ kept # r /\ Live(r)
             THEN /\ conv' = rest
                  /\ column' = kept
                  /\ links' = links \ {r}
                  /\ runs' = [runs EXCEPT ![r] = "deleted"]
                  /\ prepares' = [k \in Keys |-> IF prepares[k] = r THEN None ELSE prepares[k]]
             ELSE UNCHANGED <<conv, column, links, runs, prepares>>
        /\ UNCHANGED <<origin, summaries, handler, wk, insights>>

\* ProjectConversationStore.delete.
DeleteConversation ==
    /\ conv # None
    /\ conv' = None
    /\ column' = None
    /\ links' = {}
    /\ UNCHANGED <<runs, origin, summaries, prepares, handler, wk, deleting, insights>>

\* delete_project: refused while a run is active, which it looks at again
\* after its first write.
DeleteProject ==
    /\ \A r \in Runs : runs[r] \notin ActiveStates
    /\ conv' = None
    /\ column' = None
    /\ links' = {}
    /\ summaries' = [k \in Keys |-> None]
    /\ prepares' = [k \in Keys |-> None]
    /\ runs' = [r \in Runs |-> IF runs[r] = "unused" THEN "unused" ELSE "deleted"]
    /\ UNCHANGED <<origin, handler, wk, deleting, insights>>

---------------------------------------------------------------------------
\* A new conversation, about an evaluated run ("Discuss this run") or none.
Init ==
    /\ \E old \in SUBSET Runs : runs = [r \in Runs |-> IF r \in old THEN "ready" ELSE "unused"]
    /\ origin = [r \in Runs |-> None]
    /\ column \in {r \in Runs : Live(r)} \cup {None}
    /\ conv = NewConversation(column)
    /\ links = {column} \ {None}
    /\ summaries = [k \in Keys |-> None]
    /\ prepares = [k \in Keys |-> None]
    /\ handler = NoRequest
    /\ wk = [w \in Workers |-> IdleWorker]
    /\ deleting = NoDeletion
    /\ insights = [r \in Runs |-> 0]

HandlerStep ==
    \/ Refuse \/ AskAgent \/ CancelSetup
    \/ SummaryBegins \/ SummaryReturns \/ SummaryRefused \/ SaveSetup
    \/ StartRefused \/ Enqueue \/ EnqueueRefused \/ BindStarted
    \/ Interrupted \/ FinishRead \/ FinishWrite \/ ServerDies
    \/ \E r \in Runs : Confirm(r) \/ \E S \in SUBSET Runs : BindRuns(r, S)
    \/ \E g \in Goals, complete \in BOOLEAN : RequestMeasurement(g, complete) \/ Answer(g, complete)
    \/ AnswerNothing \/ \E g \in Goals : AnswerScope(g) \/ RejectPage(g)
    \/ \E ok \in BOOLEAN : AgentReplies(ok)

WorkerStep(w) ==
    \/ \E r \in Runs : ReconcileAgain(w, r) \/ \E ok \in BOOLEAN : JobEnds(w, r, ok)
    \/ Find(w) \/ Get(w) \/ ClaimInsights(w) \/ Refresh(w)
    \/ \E ok \in BOOLEAN : AgentSummarises(w, ok)
    \/ InsightsRead(w) \/ InsightsWrite(w) \/ SetFlow(w) \/ WorkerDies(w)

Next ==
    \/ HandlerStep
    \/ \E k \in Keys : Send(k)
    \/ \E w \in Workers : WorkerStep(w)
    \/ \E r \in Runs : JobStops(r) \/ Resume(r) \/ DeleteRunRead(r)
    \/ DeleteRunWrite \/ DeleteConversation \/ DeleteProject

Spec == Init /\ [][Next]_vars

---------------------------------------------------------------------------
(* Properties.                                                             *)

TypeOK ==
    /\ runs \in [Runs -> LiveStates \cup {"unused", "deleted"}]
    /\ origin \in [Runs -> Keys \cup {None}]
    /\ conv \in Conversation \cup {None}
    /\ column \in Runs \cup {None}
    /\ links \in SUBSET Runs
    /\ summaries \in [Keys -> [goal : Goals, status : {"running", "completed"}] \cup {None}]
    /\ prepares \in [Keys -> Runs \cup {None}]
    /\ insights \in [Runs -> Nat]

\* A conversation has one running turn at most, its last: the owner's
\* messages and the workers' automatic turns exclude each other
\* (project_chat.py:717 "A conversation turn is already running").
OneRunningTurn ==
    conv # None =>
        \A i \in DOMAIN conv.turns : conv.turns[i].status = "running" => i = Len(conv.turns)

\* A turn that was answered keeps its answer and its place: no writer
\* brings back a copy of the conversation from before it.
TurnsAreKept ==
    [][conv # None /\ conv' # None =>
         /\ Len(conv'.turns) >= Len(conv.turns)
         /\ \A i \in DOMAIN conv.turns :
              /\ conv'.turns[i].key = conv.turns[i].key
              /\ conv.turns[i].status # "running" => conv'.turns[i] = conv.turns[i]]_vars

\* The agent is asked for the insights of a run once, however often and by
\* however many workers its evaluation is reconciled.
InsightsOnce == \A r \in Runs : insights[r] <= 1

\* A setup asks to be confirmed, and starts a run, with a summary of the url,
\* goal, audience and outcome the owner has given last.  What the summary says
\* of the scope may be outdated, but only after a refused page or start.
SummaryOutdatedInScopeOnly ==
    conv # None => \A k \in Keys :
        LET f == conv.flows[k]
        IN  f # None =>
              /\ f.status \in {"awaiting-confirmation", "preparing"} => f.summary # None
              /\ f.summary # None => f.summary.topic = f.goal.topic
              /\ f.status \in PendingStatuses /\ ~f.error => f.summary \in {None, f.goal}

\* However often a setup is confirmed, and whatever was lost in between, the
\* preparation of one run at a time is paid for it.
OnePreparationPerSetup ==
    \A q, r \in Runs :
        origin[q] # None /\ origin[q] = origin[r]
          /\ runs[q] \in ActiveStates \cup {"review", "ready"}
          /\ runs[r] \in ActiveStates \cup {"review", "ready"} => q = r
=============================================================================
