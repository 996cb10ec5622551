------------------------------ MODULE RunRecords ------------------------------
(***************************************************************************)
(* What is kept about a run of one owner besides its jobs' leases: the     *)
(* idempotency keys runs are created and exported under, the               *)
(* authorizations an agent spends, the artifact rows and the files they    *)
(* name, and the deletion of all of it (persistence.py, agent_access.py,   *)
(* artifact_storage.py, measurement_service.py).                           *)
(*                                                                         *)
(* Clients are requests under way: the owner's browser and his agents.  A  *)
(* request that reads, and writes later, is several steps here, and any    *)
(* request may be cut short between them.  A method whose only write is    *)
(* guarded by the revision it has read is one step.                        *)
(***************************************************************************)
EXTENDS Naturals, FiniteSets

CONSTANTS
    Runs,        \* run identifiers, none is used twice
    Clients,     \* requests under way at a time
    CreateKeys,  \* idempotency keys of create_idempotent
    JobKeys,     \* idempotency keys of enqueue_job
    ExportKeys,  \* idempotency keys of create_export
    Briefs, Inputs,
    Auths,       \* authorization identifiers
    None,
    MaxFiles,    \* bound: artifact identifiers
    MaxRev,      \* bound: no run is changed past its MaxRev
    FirstExport  \* bound: no export is asked for at an earlier revision

ASSUME NoneAssumption ==
    None \notin CreateKeys \cup ExportKeys \cup JobKeys \cup Inputs \cup Auths \cup Briefs
ASSUME BoundAssumption == MaxFiles \in Nat /\ MaxRev \in [Runs -> Nat] /\ FirstExport \in Nat

VARIABLES
    runs,       \* measurement_runs rows, and the request that made them
    creations,  \* run_create_requests rows
    approvals,  \* approvals rows
    auths,      \* agent_execution_authorizations rows
    jobs,       \* workflow_jobs rows: what was asked for and under which authorization
    artifacts,  \* artifacts rows, by artifact_id
    files,      \* files in the artifact storage, by the artifact_id in their name
    nextFile,   \* the next artifact_id
    exports,    \* artifact_create_requests rows
    req,        \* what each client's request has read and where it is
    answers     \* history: the artifacts each export key was answered with

vars == <<runs, creations, approvals, auths, jobs, artifacts, files, nextFile,
          exports, req, answers>>
records == <<creations, approvals, auths, jobs>>
store == <<artifacts, files, nextFile, exports, answers>>

FileIds == 1 .. MaxFiles
Kinds == {"measurement", "companion"}
ActiveStates == {"preparing", "evaluating"}
RevisableStates == {"awaiting", "cancelled", "failed"}
ExportableStates == {"ready", "failed"}
LiveStates == ActiveStates \cup RevisableStates \cup {"draft", "review", "ready", "exported"}

Live(r) == runs[r].state \in LiveStates

\* results is the revision they were saved at, 0 for none.
Run == [state : LiveStates \cup {"unused", "deleted"}, rev : Nat, brief : Briefs \cup {None},
        inputs : Inputs \cup {None}, approved : BOOLEAN, results : Nat,
        key : CreateKeys \cup {None}]

CreationRow == [run : Runs, brief : Briefs]
ApprovalRow == [run : Runs, rev : Nat, inputs : Inputs]
AuthRow == [run : Runs, stage : {"prepare", "evaluate"}, rev : Nat, inputs : Inputs \cup {None},
            expired : BOOLEAN, usedBy : JobKeys \cup {None}]
JobRow == [run : Runs, type : {"prepare", "evaluate", "recover"}, rev : Nat,
           inputs : Inputs \cup {None}, auth : Auths \cup {None}]
ArtifactRow == [run : Runs, kind : Kinds, content : Nat]
ExportHash == [run : Runs, kind : Kinds, rev : Nat]
ExportRow == [hash : ExportHash, artifact : FileIds \cup {None}]

ASSUME RowAssumption ==
    /\ None \notin FileIds
    /\ None \notin CreationRow /\ None \notin AuthRow /\ None \notin JobRow
    /\ None \notin ArtifactRow /\ None \notin ExportRow

NoRun == [state |-> "unused", rev |-> 0, brief |-> None, inputs |-> None,
          approved |-> FALSE, results |-> 0, key |-> None]

\* Mutant of NewRun: the revision is left to the database.
NewRunUnnumbered(b, k) == [NoRun EXCEPT !.state = "draft", !.rev = None, !.brief = b, !.key = k]

NewRun(b, k) == [NoRun EXCEPT !.state = "draft", !.rev = 1, !.brief = b, !.key = k]

Idle == [op |-> "idle"]

Init ==
    /\ runs = [r \in Runs |-> NoRun]
    /\ creations = [k \in CreateKeys |-> None]
    /\ approvals = {}
    /\ auths = [a \in Auths |-> None]
    /\ jobs = [k \in JobKeys |-> None]
    /\ artifacts = [f \in FileIds |-> None]
    /\ files = {}
    /\ nextFile = 1
    /\ exports = [k \in ExportKeys |-> None]
    /\ req = [c \in Clients |-> Idle]
    /\ answers = [k \in ExportKeys |-> {}]

\* A request of client c goes on as q; with Idle it has been answered.
Continue(c, q) == req' = [req EXCEPT ![c] = q]

\* _mutate_run: the revision compared is the one the row has.
Mutate(r, new) ==
    /\ runs[r].rev < MaxRev[r]
    /\ runs' = [runs EXCEPT ![r] = [new EXCEPT !.rev = runs[r].rev + 1]]

---------------------------------------------------------------------------
(* Creation.                                                               *)

\* create: a run without a key, in one transaction.
Create(r, b) ==
    /\ runs[r].state = "unused"
    /\ runs' = [runs EXCEPT ![r] = NewRun(b, None)]
    /\ UNCHANGED <<records, store, req>>

\* create_idempotent: the key is looked up.  A known key is answered with its
\* run or, for another brief, with a Conflict: nothing is written either way.
CreateRead(c, k, b) ==
    /\ req[c] = Idle
    /\ creations[k] = None
    /\ Continue(c, [op |-> "create", key |-> k, brief |-> b])
    /\ UNCHANGED <<runs, records, store>>

\* Mutant of CreateCommit: the run is written in a transaction of its own.
CreateCommitApart(c, r) ==
    /\ req[c].op = "create"
    /\ runs[r].state = "unused"
    /\ runs' = [runs EXCEPT ![r] = NewRun(req[c].brief, req[c].key)]
    /\ creations' = [creations EXCEPT ![req[c].key] =
                        IF @ = None THEN [run |-> r, brief |-> req[c].brief] ELSE @]
    /\ Continue(c, Idle)
    /\ UNCHANGED <<approvals, auths, jobs, store>>

\* The run and the row of its key are inserted together: the primary key of a
\* request that was faster takes the run back.
CreateCommit(c, r) ==
    /\ req[c].op = "create"
    /\ runs[r].state = "unused"
    /\ IF creations[req[c].key] = None
       THEN /\ runs' = [runs EXCEPT ![r] = NewRun(req[c].brief, req[c].key)]
            /\ creations' = [creations EXCEPT ![req[c].key] = [run |-> r, brief |-> req[c].brief]]
       ELSE UNCHANGED <<runs, creations>>
    /\ Continue(c, Idle)
    /\ UNCHANGED <<approvals, auths, jobs, store>>

---------------------------------------------------------------------------
(* The life of a run, as far as the records depend on it.                  *)

\* MeasurementCoordinator.approve, by the owner.
Approve(r) ==
    /\ runs[r].state = "awaiting"
    /\ runs[r].inputs # None
    /\ Mutate(r, [runs[r] EXCEPT !.approved = TRUE])
    /\ approvals' = approvals \cup {[run |-> r, rev |-> runs[r].rev, inputs |-> runs[r].inputs]}
    /\ UNCHANGED <<creations, auths, jobs, store, req>>

\* revise_inputs, by the owner or by an agent (revise_queries).
ReviseInputs(r, i) ==
    /\ runs[r].state \in RevisableStates
    /\ runs[r].inputs # None
    /\ Mutate(r, [runs[r] EXCEPT !.inputs = i, !.approved = FALSE, !.results = 0,
                                 !.state = "awaiting"])
    /\ UNCHANGED <<records, store, req>>

\* The end of the job a run is busy with; the revisions of a job's steps are
\* counted as one.
PrepareEnds(r, i) ==
    /\ runs[r].state = "preparing"
    /\ Mutate(r, [runs[r] EXCEPT !.state = "awaiting", !.inputs = i])
    /\ UNCHANGED <<records, store, req>>

EvaluationEnds(r, outcome) ==
    /\ runs[r].state = "evaluating"
    /\ Mutate(r, [runs[r] EXCEPT !.state = outcome, !.results = runs[r].rev + 1])
    /\ UNCHANGED <<records, store, req>>

JobFails(r, outcome) ==
    /\ runs[r].state \in ActiveStates
    /\ Mutate(r, [runs[r] EXCEPT !.state = outcome])
    /\ UNCHANGED <<records, store, req>>

---------------------------------------------------------------------------
(* Authorizations and admission.                                           *)

Prepares(run) == run.state = "draft" \/ (run.state = "review" /\ run.inputs = None)
Evaluates(run) == run.state = "awaiting" /\ run.approved
Recovers(run) == run.state = "failed" /\ run.results > 0

\* issue_execution_authorization: the owner's check of the run...
IssueRead(c, r, stage) ==
    /\ req[c] = Idle
    /\ CASE stage = "prepare" -> runs[r].state = "draft" /\ runs[r].brief # None
         [] stage = "evaluate" -> Evaluates(runs[r]) /\ runs[r].inputs # None
    /\ Continue(c, [op |-> "issue", run |-> r, stage |-> stage, rev |-> runs[r].rev,
                    inputs |-> IF stage = "prepare" THEN None ELSE runs[r].inputs])
    /\ UNCHANGED <<runs, records, store>>

\* ... and the insertion, which only a foreign key ties to the run.
IssueCommit(c, a) ==
    /\ req[c].op = "issue"
    /\ auths[a] = None
    /\ IF Live(req[c].run)
       THEN auths' = [auths EXCEPT ![a] =
                [run |-> req[c].run, stage |-> req[c].stage, rev |-> req[c].rev,
                 inputs |-> req[c].inputs, expired |-> FALSE, usedBy |-> None]]
       ELSE UNCHANGED auths
    /\ Continue(c, Idle)
    /\ UNCHANGED <<runs, creations, approvals, jobs, store>>

\* expires_at has passed.
Expire(a) ==
    /\ auths[a] # None
    /\ ~auths[a].expired
    /\ auths' = [auths EXCEPT ![a].expired = TRUE]
    /\ UNCHANGED <<runs, creations, approvals, jobs, store, req>>

\* Mutant of Spendable: the inputs are compared, the revision is not.
SpendableOnInputs(a, r, stage) ==
    /\ auths[a] # None
    /\ auths[a].run = r
    /\ auths[a].stage = stage
    /\ auths[a].inputs = (IF stage = "prepare" THEN None ELSE runs[r].inputs)
    /\ ~auths[a].expired
    /\ auths[a].usedBy = None

\* _consume_execution_authorization.
Spendable(a, r, stage) ==
    /\ auths[a] # None
    /\ auths[a].run = r
    /\ auths[a].stage = stage
    /\ auths[a].rev = runs[r].rev
    /\ auths[a].inputs = (IF stage = "prepare" THEN None ELSE runs[r].inputs)
    /\ ~auths[a].expired
    /\ auths[a].usedBy = None

\* enqueue_job.  a is None for the owner.  A key that is in use is answered with
\* its job or with a Conflict, and nothing is written.
Enqueue(k, r, type, a) ==
    /\ jobs[k] = None
    /\ CASE type = "prepare" -> Prepares(runs[r]) /\ runs[r].brief # None
         [] type = "evaluate" -> Evaluates(runs[r])
         [] type = "recover" -> Recovers(runs[r]) /\ a = None
    /\ a # None => Spendable(a, r, type)
    /\ Mutate(r, [runs[r] EXCEPT !.state = IF type = "prepare" THEN "preparing" ELSE "evaluating"])
    /\ jobs' = [jobs EXCEPT ![k] = [run |-> r, type |-> type, rev |-> runs[r].rev,
                                    inputs |-> runs[r].inputs, auth |-> a]]
    /\ auths' = [b \in Auths |-> IF b = a THEN [auths[b] EXCEPT !.usedBy = k] ELSE auths[b]]
    /\ UNCHANGED <<creations, approvals, store, req>>

---------------------------------------------------------------------------
(* Exports.  A request is known by its hash: the run, the kind and the     *)
(* revision the client has seen.                                           *)

Hash(q) == [run |-> q.run, kind |-> q.kind, rev |-> q.rev]

\* Mutant of SameRequest: a key stands for a run.
SameRun(k, q) == exports[k].hash.run = q.run

SameRequest(k, q) == exports[k].hash = Hash(q)

\* The artifact rows that an export may find already there.
MeasurementOf(r) == {f \in FileIds : artifacts[f] # None /\ artifacts[f].run = r
                                     /\ artifacts[f].kind = "measurement"}
TwinsOf(q) == {f \in FileIds : artifacts[f] # None /\ artifacts[f].run = q.run
                               /\ artifacts[f].kind = q.kind /\ artifacts[f].content = q.content}

Answered(q, f) ==
    answers' = IF q.key = None THEN answers
               ELSE [answers EXCEPT ![q.key] = @ \cup {[hash |-> Hash(q), got |-> f]}]

\* The request of client c has found or made artifact f: it is bound to its key.
Found(c, f) ==
    Continue(c, [req[c] EXCEPT !.pc = IF req[c].key = None THEN "answer" ELSE "bind", !.got = f])

\* The revisions a client may send: the current one, or that of its first attempt.
SeenRevisions(r, k) ==
    {runs[r].rev} \cup {exports[x].hash.rev : x \in {x \in {k} \ {None} : exports[x] # None}}

\* reserve_export_request, or the first read of an export without a key.
ExportBegin(c, k, r, kind, rev) ==
    LET q == [op |-> "export", pc |-> "read", key |-> k, run |-> r, kind |-> kind, rev |-> rev,
              content |-> 0, got |-> 0]
    IN  /\ req[c] = Idle
        /\ Live(r)
        /\ rev \in SeenRevisions(r, k)
        /\ IF k = None \/ exports[k] = None
           THEN /\ exports' = IF k = None THEN exports
                              ELSE [exports EXCEPT ![k] = [hash |-> Hash(q), artifact |-> None]]
                /\ Continue(c, q)
                /\ UNCHANGED answers
           ELSE /\ SameRequest(k, q)
                /\ IF exports[k].artifact = None
                   THEN Continue(c, q) /\ UNCHANGED answers
                   ELSE Answered(q, exports[k].artifact) /\ UNCHANGED req
                /\ UNCHANGED exports
        /\ UNCHANGED <<runs, records, artifacts, files, nextFile>>

\* ArtifactService.export and export_companion: the run is read and rendered.
ExportRead(c) ==
    /\ req[c].op = "export" /\ req[c].pc = "read"
    /\ LET run == runs[req[c].run]
           q == req[c]
       IN  IF q.kind = "measurement" /\ run.state = "exported"
           THEN \E f \in MeasurementOf(q.run) : Found(c, f)
           ELSE IF /\ Live(q.run)
                   /\ run.rev = q.rev
                   /\ run.results > 0
                   /\ q.kind = "measurement" => run.state \in ExportableStates
                THEN Continue(c, [q EXCEPT !.pc = "put", !.content = run.results])
                ELSE Continue(c, Idle)
    /\ UNCHANGED <<runs, records, store>>

\* LocalArtifactStorage.put: a file under a name that nothing has used.
Put(c) ==
    /\ req[c].op = "export" /\ req[c].pc = "put"
    /\ nextFile <= MaxFiles
    /\ files' = files \cup {nextFile}
    /\ nextFile' = nextFile + 1
    /\ Continue(c, [req[c] EXCEPT !.pc = "persist", !.got = nextFile])
    /\ UNCHANGED <<runs, records, artifacts, exports, answers>>

Row(q) == [run |-> q.run, kind |-> q.kind, content |-> q.content]

\* Mutant of Exportable: any completed run is marked as exported.
ExportableAtAnyRevision(q) == runs[q.run].state \in ExportableStates

Exportable(q) ==
    /\ runs[q.run].state \in ExportableStates
    /\ runs[q.run].rev = q.rev
    /\ runs[q.run].results > 0

\* persist_export: the row and the state of the run change together; an export
\* that was faster is the answer.  Between its reads and its writes the row
\* may only move on to a revision that refuses them.
PersistExport(c) ==
    /\ req[c].op = "export" /\ req[c].pc = "persist" /\ req[c].kind = "measurement"
    /\ LET q == req[c] IN
       IF runs[q.run].state = "exported"
       THEN /\ \E f \in MeasurementOf(q.run) : Found(c, f)
            /\ UNCHANGED <<runs, artifacts>>
       ELSE IF Exportable(q)
       THEN /\ artifacts' = [artifacts EXCEPT ![q.got] = Row(q)]
            /\ Mutate(q.run, [runs[q.run] EXCEPT !.state = "exported"])
            /\ Found(c, q.got)
       ELSE Continue(c, Idle) /\ UNCHANGED <<runs, artifacts>>
    /\ UNCHANGED <<records, files, nextFile, exports, answers>>

\* persist_companion: the revision is compared when the run is read...
CompanionRead(c) ==
    /\ req[c].op = "export" /\ req[c].pc = "persist" /\ req[c].kind = "companion"
    /\ LET q == req[c] IN
       IF ~Live(q.run) \/ runs[q.run].rev # q.rev THEN Continue(c, Idle)
       ELSE IF TwinsOf(q) # {} THEN \E f \in TwinsOf(q) : Found(c, f)
       ELSE Continue(c, [q EXCEPT !.pc = "insert"])
    /\ UNCHANGED <<runs, records, store>>

\* ... and the row is inserted later: the unique key on run, kind and content and
\* the foreign key are all that it meets.
CompanionInsert(c) ==
    /\ req[c].op = "export" /\ req[c].pc = "insert"
    /\ LET q == req[c] IN
       IF ~Live(q.run) THEN Continue(c, Idle) /\ UNCHANGED artifacts
       ELSE IF TwinsOf(q) # {}
       THEN (\E f \in TwinsOf(q) : Found(c, f)) /\ UNCHANGED artifacts
       ELSE artifacts' = [artifacts EXCEPT ![q.got] = Row(q)] /\ Found(c, q.got)
    /\ UNCHANGED <<runs, records, files, nextFile, exports, answers>>

\* bind_export_request: the first to bind a key decides the answer of all.
Bind(c) ==
    /\ req[c].op = "export" /\ req[c].pc = "bind"
    /\ LET q == req[c] IN
       IF exports[q.key] = None \/ ~SameRequest(q.key, q) \/ artifacts[q.got] = None
       THEN UNCHANGED <<exports, answers>>
       ELSE IF exports[q.key].artifact = None
       THEN /\ exports' = [exports EXCEPT ![q.key].artifact = q.got]
            /\ Answered(q, q.got)
       ELSE Answered(q, exports[q.key].artifact) /\ UNCHANGED exports
    /\ Continue(c, Idle)
    /\ UNCHANGED <<runs, records, artifacts, files, nextFile>>

\* An export without a key is answered as it is.
AnswerExport(c) ==
    /\ req[c].op = "export" /\ req[c].pc = "answer"
    /\ Continue(c, Idle)
    /\ UNCHANGED <<runs, records, store>>

---------------------------------------------------------------------------
(* Deletion of a run, with everything that is kept about it.               *)

RowsOf(r) == {f \in FileIds : artifacts[f] # None /\ artifacts[f].run = r}

\* Mutant of DeleteRead: the files are removed before their rows.
DeleteReadUnlinks(c, r) ==
    /\ req[c] = Idle
    /\ Live(r)
    /\ runs[r].state \notin ActiveStates
    /\ Continue(c, [op |-> "delete", pc |-> "commit", run |-> r, ids |-> RowsOf(r)])
    /\ files' = files \ RowsOf(r)
    /\ UNCHANGED <<runs, records, artifacts, nextFile, exports, answers>>

\* _delete_run_rows reads the state of the run and its artifacts...
DeleteRead(c, r) ==
    /\ req[c] = Idle
    /\ Live(r)
    /\ runs[r].state \notin ActiveStates
    /\ Continue(c, [op |-> "delete", pc |-> "commit", run |-> r, ids |-> RowsOf(r)])
    /\ UNCHANGED <<runs, records, store>>

RequestsOf(r, ids) ==
    {k \in ExportKeys : exports[k] # None /\ (exports[k].hash.run = r \/ exports[k].artifact \in ids)}

WithoutRows(table, gone) == [x \in DOMAIN table |-> IF x \in gone THEN None ELSE table[x]]

\* The foreign key of the artifacts: no row has appeared since the read.
Unreferenced(r, ids) == RowsOf(r) \subseteq ids

\* ... deletes the rows in one transaction, which compares neither the state nor
\* the revision again...
DeleteCommit(c) ==
    /\ req[c].op = "delete" /\ req[c].pc = "commit"
    /\ LET r == req[c].run
           ids == req[c].ids
       IN  IF Live(r) /\ Unreferenced(r, ids)
           THEN /\ runs' = [runs EXCEPT ![r] = [NoRun EXCEPT !.state = "deleted"]]
                /\ creations' = WithoutRows(creations,
                       {k \in CreateKeys : creations[k] # None /\ creations[k].run = r})
                /\ approvals' = {p \in approvals : p.run # r}
                /\ auths' = WithoutRows(auths, {a \in Auths : auths[a] # None /\ auths[a].run = r})
                /\ jobs' = WithoutRows(jobs, {k \in JobKeys : jobs[k] # None /\ jobs[k].run = r})
                /\ exports' = WithoutRows(exports, RequestsOf(r, ids))
                /\ artifacts' = WithoutRows(artifacts, ids)
                /\ Continue(c, [req[c] EXCEPT !.pc = "unlink"])
           ELSE UNCHANGED <<runs, records, exports, artifacts>> /\ Continue(c, Idle)
    /\ UNCHANGED <<files, nextFile, answers>>

\* ... and then the files, one by one.
Unlink(c) ==
    /\ req[c].op = "delete" /\ req[c].pc = "unlink"
    /\ IF req[c].ids = {}
       THEN Continue(c, Idle) /\ UNCHANGED files
       ELSE \E f \in req[c].ids :
               /\ files' = files \ {f}
               /\ Continue(c, [req[c] EXCEPT !.ids = @ \ {f}])
    /\ UNCHANGED <<runs, records, artifacts, nextFile, exports, answers>>

\* A request is cut short: its process dies, or the database fails it.
Crash(c) ==
    /\ req[c] # Idle
    /\ Continue(c, Idle)
    /\ UNCHANGED <<runs, records, store>>

---------------------------------------------------------------------------
RunStep ==
    \E r \in Runs :
        \/ \E b \in Briefs : Create(r, b)
        \/ Approve(r)
        \/ \E i \in Inputs : ReviseInputs(r, i) \/ PrepareEnds(r, i)
        \/ \E outcome \in ExportableStates : EvaluationEnds(r, outcome)
        \/ \E outcome \in {"review", "cancelled"} : JobFails(r, outcome)
        \/ \E k \in JobKeys, type \in {"prepare", "evaluate", "recover"}, a \in Auths \cup {None} :
               Enqueue(k, r, type, a)

RequestStep ==
    \E c \in Clients :
        \/ \E k \in CreateKeys, b \in Briefs : CreateRead(c, k, b)
        \/ \E r \in Runs : CreateCommit(c, r)
        \/ \E r \in Runs, stage \in {"prepare", "evaluate"} : IssueRead(c, r, stage)
        \/ \E a \in Auths : IssueCommit(c, a)
        \/ \E k \in ExportKeys \cup {None}, r \in Runs, kind \in Kinds : \E rev \in FirstExport .. MaxRev[r] :
               ExportBegin(c, k, r, kind, rev)
        \/ ExportRead(c) \/ Put(c) \/ PersistExport(c)
        \/ CompanionRead(c) \/ CompanionInsert(c) \/ Bind(c) \/ AnswerExport(c)
        \/ \E r \in Runs : DeleteRead(c, r)
        \/ DeleteCommit(c) \/ Unlink(c)
        \/ Crash(c)

Next == RunStep \/ RequestStep \/ \E a \in Auths : Expire(a)

Spec == Init /\ [][Next]_vars

---------------------------------------------------------------------------
(* Properties.                                                             *)

Request ==
    {Idle}
    \cup [op : {"create"}, key : CreateKeys, brief : Briefs]
    \cup [op : {"issue"}, run : Runs, stage : {"prepare", "evaluate"}, rev : Nat,
          inputs : Inputs \cup {None}]
    \cup [op : {"export"}, pc : {"read", "put", "persist", "insert", "bind", "answer"},
          key : ExportKeys \cup {None}, run : Runs, kind : Kinds, rev : Nat, content : Nat, got : Nat]
    \cup [op : {"delete"}, pc : {"commit", "unlink"}, run : Runs, ids : SUBSET FileIds]

\* Every record has its shape, and every row refers to a run.
TypeOK ==
    /\ runs \in [Runs -> Run]
    /\ creations \in [CreateKeys -> {None} \cup CreationRow]
    /\ approvals \subseteq ApprovalRow
    /\ auths \in [Auths -> {None} \cup AuthRow]
    /\ jobs \in [JobKeys -> {None} \cup JobRow]
    /\ artifacts \in [FileIds -> {None} \cup ArtifactRow]
    /\ files \subseteq FileIds
    /\ nextFile \in 1 .. MaxFiles + 1
    /\ exports \in [ExportKeys -> {None} \cup ExportRow]
    /\ req \in [Clients -> Request]
    /\ answers \in [ExportKeys -> SUBSET [hash : ExportHash, got : FileIds]]

\* However many requests create a run under the same key, at the same time or
\* after a crash, there is one run, and the key leads to it.
OneRunPerCreateKey ==
    \A r \in Runs, k \in CreateKeys :
        (Live(r) /\ runs[r].key = k) <=> (creations[k] # None /\ creations[k].run = r)

\* A job an agent has started was paid with an authorization of its own, given
\* for that stage at the very revision the job took up; and the queries it
\* evaluates are those the owner approved just before.
AgentSpendIsAuthorized ==
    /\ \A k \in JobKeys : jobs[k] # None /\ jobs[k].auth # None =>
          LET a == auths[jobs[k].auth] IN
          /\ a # None /\ a.usedBy = k
          /\ a.run = jobs[k].run /\ a.stage = jobs[k].type /\ a.rev = jobs[k].rev
          /\ jobs[k].type = "evaluate" =>
                [run |-> jobs[k].run, rev |-> jobs[k].rev - 1, inputs |-> jobs[k].inputs] \in approvals
    /\ \A a \in Auths : auths[a] # None /\ auths[a].usedBy # None =>
          jobs[auths[a].usedBy] # None /\ jobs[auths[a].usedBy].auth = a

\* The file of every artifact that can be listed can be downloaded, whatever
\* deletion, crash or concurrent export has happened.
ArtifactsHaveFiles == \A f \in FileIds : artifacts[f] # None => f \in files

\* A run is exported exactly when it has its measurement artifact, only one, and
\* that holds the results the run still shows.
ExportMatchesRun ==
    \A r \in Runs :
        /\ (runs[r].state = "exported") <=> (MeasurementOf(r) # {})
        /\ \A f, g \in MeasurementOf(r) : f = g
        /\ \A f \in MeasurementOf(r) : artifacts[f].content = runs[r].results

\* A key that is bound leads to an artifact of the run and kind it was used for.
BoundKeysLead ==
    \A k \in ExportKeys : exports[k] # None =>
        /\ Live(exports[k].hash.run)
        /\ exports[k].artifact # None =>
              LET row == artifacts[exports[k].artifact] IN
              row # None /\ row.run = exports[k].hash.run /\ row.kind = exports[k].hash.kind

\* While its run lives, an export key keeps its answer: every retry is given the
\* same artifact for the same request, and it is still there.
ReplaysAgree ==
    /\ BoundKeysLead
    /\ \A k \in ExportKeys : \A x, y \in answers[k] :
          Live(x.hash.run) =>
              /\ artifacts[x.got] # None
              /\ artifacts[x.got].run = x.hash.run /\ artifacts[x.got].kind = x.hash.kind
              /\ y.hash.run = x.hash.run => y = x
=============================================================================
