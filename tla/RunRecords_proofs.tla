--------------------------- MODULE RunRecords_proofs ---------------------------
(***************************************************************************)
(* Proofs about RunRecords, for any number of runs, clients, keys,         *)
(* authorizations and files.                                               *)
(***************************************************************************)
EXTENDS RunRecords, TLAPS

CreateRequest == [op : {"create"}, key : CreateKeys, brief : Briefs]
IssueRequest ==
    [op : {"issue"}, run : Runs, stage : {"prepare", "evaluate"}, rev : Nat, inputs : Inputs \cup {None}]
ExportRequest ==
    [op : {"export"}, pc : {"read", "put", "persist", "insert", "bind", "answer"},
     key : ExportKeys \cup {None}, run : Runs, kind : Kinds, rev : Nat, content : Nat, got : Nat]
DeleteRequest == [op : {"delete"}, pc : {"commit", "unlink"}, run : Runs, ids : SUBSET FileIds]

\* What a run's approval says: its queries are there, and while it can be
\* evaluated they are those that were approved last.
Approved(r) ==
    runs[r].approved =>
        /\ runs[r].inputs # None
        /\ runs[r].state \in LiveStates \ {"draft", "preparing"}
        /\ runs[r].state = "awaiting" =>
              [run |-> r, rev |-> runs[r].rev - 1, inputs |-> runs[r].inputs] \in approvals

ApprovalsHold == \A r \in Runs : Approved(r)

\* An export has stored its file, and not yet the row.
IsPending(q) == q.op = "export" /\ q.pc \in {"persist", "insert"}

\* The file of such an export is there, and nothing refers to it.  The rows of
\* companions alone are written apart from the state of the run.
HasFile(q) ==
    IsPending(q) =>
        /\ q.got \in FileIds /\ q.got \in files /\ q.got < nextFile /\ artifacts[q.got] = None
        /\ q.pc = "insert" => q.kind = "companion"

\* A deletion removes files of its run, or of no run any more.
Removes(q) ==
    q.op = "delete" => \A f \in q.ids :
        /\ f < nextFile
        /\ artifacts[f] = None \/ (q.pc = "commit" /\ artifacts[f].run = q.run)

\* What an export is bound to is the number of a file.
IsBound(q) == q.op = "export" /\ q.pc = "bind" => q.got \in FileIds /\ q.key \in ExportKeys

\* No two requests are about the same file, unless both delete it.
Apart(p, q) ==
    IsPending(p) =>
        /\ IsPending(q) => p.got # q.got
        /\ q.op = "delete" => p.got \notin q.ids

FilesAreApart ==
    /\ \A c \in Clients : HasFile(req[c]) /\ Removes(req[c]) /\ IsBound(req[c])
    /\ \A c, d \in Clients : c # d => Apart(req[c], req[d])
    /\ \A f \in FileIds : artifacts[f] # None => f < nextFile

\* The results of a run have been rendered, and not been written yet.
Rendered(q) == q.op = "export" /\ q.kind = "measurement" /\ q.pc \in {"put", "persist"}

\* They are those of the revision the client has seen.
IsCurrent(q) ==
    Rendered(q) =>
        /\ runs[q.run].state # "unused"
        /\ Live(q.run) => /\ q.rev <= runs[q.run].rev
                          /\ q.rev = runs[q.run].rev => q.content = runs[q.run].results

ContentsAreCurrent == \A c \in Clients : IsCurrent(req[c])

\* The inductive invariant.
IInv ==
    /\ TypeOK
    /\ OneRunPerCreateKey
    /\ ApprovalsHold
    /\ AgentSpendIsAuthorized
    /\ FilesAreApart
    /\ ArtifactsHaveFiles
    /\ ContentsAreCurrent
    /\ ExportMatchesRun

----------------------------------------------------------------------------
(* Requests.                                                               *)

LEMMA RequestKinds ==
    ASSUME TypeOK, NEW c \in Clients
    PROVE  /\ req[c].op = "create" => req[c] \in CreateRequest
           /\ req[c].op = "issue" => req[c] \in IssueRequest
           /\ req[c].op = "export" => req[c] \in ExportRequest
           /\ req[c].op = "delete" => req[c] \in DeleteRequest
  <1>1. req[c] \in Request
    BY DEF TypeOK
  <1> QED BY <1>1 DEF Request, Idle, CreateRequest, IssueRequest, ExportRequest, DeleteRequest

LEMMA RequestTypes ==
    /\ Idle \in Request
    /\ CreateRequest \subseteq Request
    /\ IssueRequest \subseteq Request
    /\ ExportRequest \subseteq Request
    /\ DeleteRequest \subseteq Request
  BY DEF Request, Idle, CreateRequest, IssueRequest, ExportRequest, DeleteRequest

\* A request that neither holds a file nor removes any, nor has rendered any results.
Harmless(q) == ~ IsPending(q) /\ q.op # "delete" /\ IsBound(q) /\ ~ Rendered(q)

LEMMA IdleIsHarmless == Harmless(Idle)
  BY DEF Harmless, IsPending, IsBound, Rendered, Idle

\* One request goes on, and the artifacts and files are left alone.
LEMMA OneRequest ==
    ASSUME TypeOK, FilesAreApart, UNCHANGED <<artifacts, files, nextFile>>,
           NEW c \in Clients, NEW q \in Request, Continue(c, q),
           HasFile(q), Removes(q), IsBound(q),
           \A d \in Clients \ {c} : Apart(q, req[d]) /\ Apart(req[d], q)
    PROVE  FilesAreApart' /\ req' \in [Clients -> Request]
  <1>1. /\ \A d \in Clients : req'[d] = IF d = c THEN q ELSE req[d]
        /\ req' \in [Clients -> Request]
    BY DEF Continue, TypeOK
  <1>2. \A d \in Clients : HasFile(req[d])' /\ Removes(req[d])' /\ IsBound(req[d])'
    BY <1>1 DEF FilesAreApart, HasFile, Removes, IsBound, IsPending
  <1>3. \A d, e \in Clients : d # e => Apart(req[d], req[e])'
    BY <1>1 DEF FilesAreApart, Apart, IsPending
  <1>4. \A f \in FileIds' : (artifacts[f] # None => f < nextFile)'
    BY DEF FilesAreApart, FileIds
  <1> QED BY <1>1, <1>2, <1>3, <1>4 DEF FilesAreApart, FileIds

LEMMA HarmlessRequest ==
    ASSUME TypeOK, FilesAreApart, UNCHANGED <<artifacts, files, nextFile>>,
           NEW c \in Clients, NEW q \in Request, Continue(c, q), Harmless(q)
    PROVE  FilesAreApart' /\ req' \in [Clients -> Request]
  <1>1. HasFile(q) /\ Removes(q) /\ IsBound(q)
    BY DEF Harmless, HasFile, Removes
  <1>2. \A d \in Clients \ {c} : Apart(q, req[d]) /\ Apart(req[d], q)
    BY DEF Harmless, Apart
  <1> QED BY <1>1, <1>2, OneRequest

\* An export that has found its artifact holds no file of its own.
LEMMA FoundRequest ==
    ASSUME TypeOK, NEW c \in Clients, req[c].op = "export", NEW f \in FileIds, Found(c, f)
    PROVE  \E q \in Request : Continue(c, q) /\ Harmless(q)
  <1> DEFINE pc == IF req[c].key = None THEN "answer" ELSE "bind"
             q == [req[c] EXCEPT !.pc = pc, !.got = f]
  <1>1. req[c] \in ExportRequest /\ f \in Nat
    BY RequestKinds, BoundAssumption DEF FileIds
  <1>2. q \in ExportRequest /\ q.pc = pc /\ q.got = f /\ q.key = req[c].key /\ q.op = "export"
    BY <1>1 DEF ExportRequest
  <1>3. pc = "bind" => req[c].key \in ExportKeys
    BY <1>1 DEF ExportRequest
  <1>4. Harmless(q)
    BY <1>2, <1>3 DEF Harmless, IsPending, IsBound, Rendered
  <1>5. Continue(c, q)
    BY DEF Found
  <1> QED BY <1>2, <1>4, <1>5, RequestTypes

\* The row of an export is written under the number of its own file.
LEMMA RowWritten ==
    ASSUME TypeOK, FilesAreApart, ArtifactsHaveFiles,
           NEW c \in Clients, IsPending(req[c]), NEW row \in ArtifactRow,
           artifacts' = [artifacts EXCEPT ![req[c].got] = row],
           UNCHANGED <<files, nextFile>>,
           NEW q \in Request, Continue(c, q), Harmless(q)
    PROVE  FilesAreApart' /\ ArtifactsHaveFiles' /\ req' \in [Clients -> Request]
  <1> DEFINE g == req[c].got
  <1>1. /\ \A d \in Clients : req'[d] = IF d = c THEN q ELSE req[d]
        /\ req' \in [Clients -> Request]
    BY DEF Continue, TypeOK
  <1>2. g \in FileIds /\ g \in files /\ g < nextFile
    BY DEF FilesAreApart, HasFile
  <1>3. \A f \in FileIds : artifacts'[f] = IF f = g THEN row ELSE artifacts[f]
    BY DEF TypeOK
  <1>4. \A d \in Clients : HasFile(req[d])' /\ Removes(req[d])' /\ IsBound(req[d])'
    <2> SUFFICES ASSUME NEW d \in Clients PROVE HasFile(req[d])' /\ Removes(req[d])' /\ IsBound(req[d])'
      OBVIOUS
    <2>1. CASE d = c
      BY <1>1, <2>1 DEF Harmless, HasFile, Removes, IsBound, IsPending
    <2>2. CASE d # c
      <3>1. req'[d] = req[d] /\ Apart(req[c], req[d]) /\ Apart(req[d], req[c])
        BY <1>1, <2>2 DEF FilesAreApart
      <3>2. HasFile(req[d]) /\ Removes(req[d]) /\ IsBound(req[d])
        BY DEF FilesAreApart
      <3>3. IsPending(req[d]) => req[d].got \in FileIds /\ req[d].got # g
        BY <3>1, <3>2 DEF Apart, HasFile
      <3>4. req[d].op = "delete" => req[d].ids \subseteq FileIds /\ g \notin req[d].ids
        BY <3>1, RequestKinds DEF Apart, DeleteRequest
      <3>5. HasFile(req[d])'
        BY <1>3, <3>1, <3>2, <3>3 DEF HasFile, IsPending, FileIds
      <3>6. Removes(req[d])'
        BY <1>3, <3>1, <3>2, <3>4 DEF Removes
      <3> QED BY <3>1, <3>2, <3>5, <3>6 DEF IsBound, FileIds
    <2> QED BY <2>1, <2>2
  <1>5. \A d, e \in Clients : d # e => Apart(req[d], req[e])'
    BY <1>1 DEF FilesAreApart, Apart, IsPending, Harmless
  <1>6. ArtifactsHaveFiles' /\ (\A f \in FileIds : artifacts'[f] # None => f < nextFile')
    BY <1>2, <1>3 DEF ArtifactsHaveFiles, FilesAreApart, FileIds
  <1> QED BY <1>1, <1>4, <1>5, <1>6 DEF FilesAreApart, FileIds

----------------------------------------------------------------------------
(* Steps of a run.                                                         *)

\* _mutate_run changes one run, and moves its revision by one.
LEMMA MutateRun ==
    ASSUME TypeOK, NEW r \in Runs, NEW new \in Run, Mutate(r, new)
    PROVE  /\ runs' \in [Runs -> Run]
           /\ \A x \in Runs : x # r => runs'[x] = runs[x]
           /\ runs'[r].rev = runs[r].rev + 1 /\ runs[r].rev \in Nat
           /\ runs'[r].state = new.state /\ runs'[r].key = new.key
           /\ runs'[r].inputs = new.inputs /\ runs'[r].approved = new.approved
           /\ runs'[r].results = new.results
  <1> DEFINE row == [new EXCEPT !.rev = runs[r].rev + 1]
  <1>1. runs' = [runs EXCEPT ![r] = row] /\ runs \in [Runs -> Run] /\ runs[r].rev \in Nat
    BY DEF Mutate, TypeOK, Run
  <1>2. /\ row \in Run /\ row.rev = runs[r].rev + 1
        /\ row.state = new.state /\ row.key = new.key /\ row.inputs = new.inputs
        /\ row.approved = new.approved /\ row.results = new.results
    BY <1>1 DEF Run
  <1> HIDE DEF row
  <1> QED BY <1>1, <1>2

\* The revision of a run moves on: what was rendered before is not written.
LEMMA ContentsAge ==
    ASSUME IInv, NEW r \in Runs, NEW new \in Run, Mutate(r, new), Live(r), new.state # "unused",
           \A c \in Clients : req'[c] = req[c] \/ ~ Rendered(req'[c])
    PROVE  ContentsAreCurrent'
  <1>1. /\ \A x \in Runs : x # r => runs'[x] = runs[x]
        /\ runs'[r].rev = runs[r].rev + 1 /\ runs[r].rev \in Nat
        /\ runs'[r].state # "unused"
    BY MutateRun DEF IInv
  <1> SUFFICES ASSUME NEW c \in Clients PROVE IsCurrent(req[c])'
    BY DEF ContentsAreCurrent
  <1>2. CASE ~ Rendered(req'[c])
    BY <1>2 DEF IsCurrent, Rendered
  <1>3. CASE Rendered(req'[c]) /\ req'[c] = req[c]
    <2>1. req[c].run \in Runs /\ req[c].rev \in Nat
      BY <1>3, RequestKinds DEF IInv, Rendered, ExportRequest
    <2>2. /\ runs[req[c].run].state # "unused"
          /\ Live(req[c].run) => /\ req[c].rev <= runs[req[c].run].rev
                                 /\ req[c].rev = runs[req[c].run].rev =>
                                       req[c].content = runs[req[c].run].results
      BY <1>3 DEF IInv, ContentsAreCurrent, IsCurrent
    <2>3. CASE req[c].run = r
      <3>1. req[c].rev <= runs'[r].rev /\ req[c].rev # runs'[r].rev
        BY <1>1, <2>1, <2>2, <2>3
      <3> QED BY <1>1, <1>3, <2>3, <3>1 DEF IsCurrent
    <2>4. CASE req[c].run # r
      BY <1>1, <1>3, <2>1, <2>2, <2>4 DEF IsCurrent, Live
    <2> QED BY <2>3, <2>4
  <1> QED BY <1>2, <1>3

\* A run that lives goes on under its key and is not exported: what the records
\* say of runs stays true.
LEMMA LifeStep ==
    ASSUME IInv, NEW r \in Runs, NEW new \in Run, Mutate(r, new), new.key = runs[r].key,
           runs[r].state \in LiveStates \ {"exported"}, new.state \in LiveStates \ {"exported"},
           Approved(r)', approvals \subseteq approvals', approvals' \subseteq ApprovalRow,
           jobs' \in [JobKeys -> {None} \cup JobRow], auths' \in [Auths -> {None} \cup AuthRow],
           AgentSpendIsAuthorized', UNCHANGED <<creations, store, req>>
    PROVE  IInv'
  <1>1. /\ runs' \in [Runs -> Run]
        /\ \A x \in Runs : x # r => runs'[x] = runs[x]
        /\ runs'[r].state = new.state /\ runs'[r].key = runs[r].key
    BY MutateRun DEF IInv
  <1>2. TypeOK'
    BY <1>1 DEF IInv, TypeOK, store, FileIds, Request
  <1>3. OneRunPerCreateKey'
    BY <1>1 DEF IInv, OneRunPerCreateKey, Live
  <1>4. ApprovalsHold'
    <2>1. \A x \in Runs : x # r => Approved(x)'
      BY <1>1 DEF IInv, ApprovalsHold, Approved
    <2> QED BY <2>1 DEF ApprovalsHold
  <1>5. FilesAreApart' /\ ArtifactsHaveFiles'
    BY DEF IInv, FilesAreApart, ArtifactsHaveFiles, HasFile, Removes, IsBound, Apart, IsPending, FileIds, store
  <1>6. ExportMatchesRun'
    <2>1. UNCHANGED artifacts
      BY DEF store
    <2>2. \A x \in Runs : MeasurementOf(x)' = MeasurementOf(x)
      BY <2>1 DEF MeasurementOf, FileIds
    <2>3. runs[r].state # "exported" /\ runs'[r].state # "exported"
      BY <1>1
    <2> QED BY <1>1, <2>1, <2>2, <2>3 DEF IInv, ExportMatchesRun
  <1>7. ContentsAreCurrent'
    <2>1. Live(r) /\ new.state # "unused"
      BY DEF Live, LiveStates, ActiveStates, RevisableStates
    <2> QED BY <2>1, ContentsAge
  <1> QED BY <1>2, <1>3, <1>4, <1>5, <1>6, <1>7 DEF IInv

\* Jobs and authorizations are what they were, and no approval is lost.
LEMMA SpendStays ==
    ASSUME IInv, UNCHANGED <<jobs, auths>>, approvals \subseteq approvals'
    PROVE  /\ jobs' \in [JobKeys -> {None} \cup JobRow]
           /\ auths' \in [Auths -> {None} \cup AuthRow]
           /\ AgentSpendIsAuthorized'
  <1>1. AgentSpendIsAuthorized'
    BY DEF IInv, AgentSpendIsAuthorized
  <1> QED BY <1>1 DEF IInv, TypeOK

LEMMA ApproveInvariant == ASSUME IInv, NEW r \in Runs, Approve(r) PROVE IInv'
  <1> DEFINE new == [runs[r] EXCEPT !.approved = TRUE]
             row == [run |-> r, rev |-> runs[r].rev, inputs |-> runs[r].inputs]
  <1>1. /\ runs[r] \in Run /\ runs[r].state = "awaiting" /\ runs[r].inputs # None
        /\ Mutate(r, new) /\ approvals' = approvals \cup {row}
        /\ UNCHANGED <<creations, auths, jobs, store, req>>
    BY DEF IInv, TypeOK, Approve
  <1>2. /\ new \in Run /\ new.key = runs[r].key /\ new.state = "awaiting"
        /\ new.inputs = runs[r].inputs
    BY <1>1 DEF Run
  <1>3. row \in ApprovalRow
    BY <1>1 DEF Run, ApprovalRow
  <1>4. approvals \subseteq approvals' /\ approvals' \subseteq ApprovalRow
    BY <1>1, <1>3 DEF IInv, TypeOK
  <1> HIDE DEF new
  <1>5. /\ runs'[r].rev = runs[r].rev + 1 /\ runs[r].rev \in Nat
        /\ runs'[r].state = "awaiting" /\ runs'[r].inputs = runs[r].inputs
    BY <1>1, <1>2, MutateRun DEF IInv
  <1>6. [run |-> r, rev |-> runs'[r].rev - 1, inputs |-> runs'[r].inputs] = row
    BY <1>5
  <1>7. Approved(r)'
    BY <1>1, <1>5, <1>6 DEF Approved, LiveStates, RevisableStates
  <1> QED BY <1>1, <1>2, <1>4, <1>7, SpendStays, LifeStep DEF LiveStates, RevisableStates

\* The steps after which a run is approved only if it was, and cannot be evaluated.
LEMMA LifeGoesOn ==
    ASSUME IInv, NEW r \in Runs, NEW new \in Run, Mutate(r, new), new.key = runs[r].key,
           runs[r].state \in LiveStates \ {"exported"}, new.state \in LiveStates \ {"exported"},
           new.approved => /\ runs[r].approved /\ new.inputs = runs[r].inputs
                           /\ new.state \notin {"draft", "preparing", "awaiting"},
           UNCHANGED <<records, store, req>>
    PROVE  IInv'
  <1>1. UNCHANGED <<creations, approvals, auths, jobs>>
    BY DEF records
  <1>2. /\ runs'[r].state = new.state /\ runs'[r].inputs = new.inputs
        /\ runs'[r].approved = new.approved
    BY MutateRun DEF IInv
  <1>3. Approved(r)'
    BY <1>2 DEF IInv, ApprovalsHold, Approved
  <1>4. approvals' \subseteq ApprovalRow /\ approvals \subseteq approvals'
    BY <1>1 DEF IInv, TypeOK
  <1> QED BY <1>1, <1>3, <1>4, SpendStays, LifeStep

LEMMA ReviseInputsInvariant ==
    ASSUME IInv, NEW r \in Runs, NEW i \in Inputs, ReviseInputs(r, i)
    PROVE  IInv'
  <1> DEFINE new == [runs[r] EXCEPT !.inputs = i, !.approved = FALSE, !.results = 0, !.state = "awaiting"]
  <1>1. /\ runs[r] \in Run /\ runs[r].state \in RevisableStates
        /\ Mutate(r, new) /\ UNCHANGED <<records, store, req>>
    BY DEF IInv, TypeOK, ReviseInputs
  <1>2. new \in Run /\ new.key = runs[r].key /\ new.state = "awaiting" /\ new.approved = FALSE
    BY <1>1 DEF Run, LiveStates, RevisableStates
  <1> HIDE DEF new
  <1> QED BY <1>1, <1>2, LifeGoesOn DEF LiveStates, RevisableStates

LEMMA PrepareEndsInvariant ==
    ASSUME IInv, NEW r \in Runs, NEW i \in Inputs, PrepareEnds(r, i)
    PROVE  IInv'
  <1> DEFINE new == [runs[r] EXCEPT !.state = "awaiting", !.inputs = i]
  <1>1. /\ runs[r] \in Run /\ runs[r].state = "preparing"
        /\ Mutate(r, new) /\ UNCHANGED <<records, store, req>>
    BY DEF IInv, TypeOK, PrepareEnds
  <1>2. ~ runs[r].approved
    BY <1>1 DEF IInv, ApprovalsHold, Approved
  <1>3. new \in Run /\ new.key = runs[r].key /\ new.state = "awaiting" /\ new.approved = runs[r].approved
    BY <1>1 DEF Run, LiveStates, RevisableStates
  <1> HIDE DEF new
  <1> QED BY <1>1, <1>2, <1>3, LifeGoesOn DEF LiveStates, ActiveStates, RevisableStates

LEMMA EvaluationEndsInvariant ==
    ASSUME IInv, NEW r \in Runs, NEW outcome \in ExportableStates, EvaluationEnds(r, outcome)
    PROVE  IInv'
  <1> DEFINE new == [runs[r] EXCEPT !.state = outcome, !.results = runs[r].rev + 1]
  <1>1. /\ runs[r] \in Run /\ runs[r].state = "evaluating"
        /\ Mutate(r, new) /\ UNCHANGED <<records, store, req>>
    BY DEF IInv, TypeOK, EvaluationEnds
  <1>2. /\ new \in Run /\ new.key = runs[r].key /\ new.state = outcome
        /\ new.approved = runs[r].approved /\ new.inputs = runs[r].inputs
    <2>1. outcome \in LiveStates
      BY DEF LiveStates, RevisableStates, ExportableStates
    <2>2. runs[r].rev + 1 \in Nat
      BY <1>1 DEF Run
    <2> QED BY <1>1, <2>1, <2>2 DEF Run
  <1> HIDE DEF new
  <1> QED BY <1>1, <1>2, LifeGoesOn DEF LiveStates, ActiveStates, RevisableStates, ExportableStates

LEMMA JobFailsInvariant ==
    ASSUME IInv, NEW r \in Runs, NEW outcome \in {"review", "cancelled"}, JobFails(r, outcome)
    PROVE  IInv'
  <1> DEFINE new == [runs[r] EXCEPT !.state = outcome]
  <1>1. /\ runs[r] \in Run /\ runs[r].state \in ActiveStates
        /\ Mutate(r, new) /\ UNCHANGED <<records, store, req>>
    BY DEF IInv, TypeOK, JobFails
  <1>2. /\ new \in Run /\ new.key = runs[r].key /\ new.state = outcome
        /\ new.approved = runs[r].approved /\ new.inputs = runs[r].inputs
    BY <1>1 DEF Run, LiveStates, RevisableStates
  <1> HIDE DEF new
  <1> QED BY <1>1, <1>2, LifeGoesOn DEF LiveStates, ActiveStates, RevisableStates

\* An authorization is spent with the insertion of the job it pays for.
LEMMA EnqueueInvariant ==
    ASSUME IInv, NEW k \in JobKeys, NEW r \in Runs, NEW type \in {"prepare", "evaluate", "recover"},
           NEW a \in Auths \cup {None}, Enqueue(k, r, type, a)
    PROVE  IInv'
  <1> DEFINE state == IF type = "prepare" THEN "preparing" ELSE "evaluating"
             new == [runs[r] EXCEPT !.state = state]
             job == [run |-> r, type |-> type, rev |-> runs[r].rev, inputs |-> runs[r].inputs, auth |-> a]
             paid(b) == [auths[b] EXCEPT !.usedBy = k]
  <1>1. /\ runs[r] \in Run /\ jobs[k] = None
        /\ Mutate(r, new)
        /\ jobs' = [jobs EXCEPT ![k] = job]
        /\ auths' = [b \in Auths |-> IF b = a THEN paid(b) ELSE auths[b]]
        /\ UNCHANGED <<creations, approvals, store, req>>
        /\ a # None => Spendable(a, r, type)
    BY DEF IInv, TypeOK, Enqueue
  <1>2. /\ type = "prepare" => Prepares(runs[r])
        /\ type = "evaluate" => Evaluates(runs[r])
        /\ type = "recover" => Recovers(runs[r]) /\ a = None
    BY DEF Enqueue
  <1>3. /\ runs[r].state \in LiveStates \ {"exported"}
        /\ runs[r].approved => type # "prepare"
    BY <1>2 DEF Prepares, Evaluates, Recovers, LiveStates, RevisableStates, IInv, ApprovalsHold, Approved
  <1>4. /\ new \in Run /\ new.key = runs[r].key /\ new.state = state
        /\ new.approved = runs[r].approved /\ new.inputs = runs[r].inputs
    BY <1>1 DEF Run, LiveStates, ActiveStates
  <1>5. job \in JobRow /\ job # None
    BY <1>1, RowAssumption DEF JobRow, Run
  <1>6. /\ jobs' \in [JobKeys -> {None} \cup JobRow]
        /\ \A x \in JobKeys : jobs'[x] = IF x = k THEN job ELSE jobs[x]
    <2> HIDE DEF job
    <2> QED BY <1>1, <1>5 DEF IInv, TypeOK
  <1>7. a # None => auths[a] \in AuthRow
    BY <1>1 DEF Spendable, IInv, TypeOK
  <1>8. a # None => /\ paid(a) \in AuthRow /\ paid(a) # None /\ paid(a).usedBy = k
                    /\ paid(a).run = auths[a].run /\ paid(a).stage = auths[a].stage
                    /\ paid(a).rev = auths[a].rev
    BY <1>7, RowAssumption DEF AuthRow
  <1>9. /\ auths' \in [Auths -> {None} \cup AuthRow]
        /\ \A b \in Auths : auths'[b] = IF b = a THEN paid(a) ELSE auths[b]
    <2>1. None \notin Auths
      BY NoneAssumption
    <2> HIDE DEF paid
    <2> QED BY <1>1, <1>8, <2>1 DEF IInv, TypeOK
  <1>10. AgentSpendIsAuthorized'
    <2>1. a # None => /\ auths[a].run = r /\ auths[a].stage = type /\ auths[a].rev = runs[r].rev
                      /\ auths[a].usedBy = None /\ a \in Auths
      BY <1>1 DEF Spendable
    <2>2. \A x \in JobKeys : x # k /\ jobs[x] # None /\ jobs[x].auth # None => jobs[x].auth # a
      <3> SUFFICES ASSUME NEW x \in JobKeys, jobs[x] # None, jobs[x].auth # None, jobs[x].auth = a
                   PROVE  FALSE
        OBVIOUS
      <3>1. auths[a].usedBy = x
        BY DEF IInv, AgentSpendIsAuthorized
      <3> QED BY <2>1, <3>1, NoneAssumption
    <2>3. type = "evaluate" => [run |-> r, rev |-> runs[r].rev - 1, inputs |-> runs[r].inputs] \in approvals
      BY <1>2 DEF Evaluates, IInv, ApprovalsHold, Approved
    <2>4. \A x \in JobKeys : jobs'[x] # None /\ jobs'[x].auth # None =>
            LET b == auths'[jobs'[x].auth] IN
            /\ b # None /\ b.usedBy = x
            /\ b.run = jobs'[x].run /\ b.stage = jobs'[x].type /\ b.rev = jobs'[x].rev
            /\ jobs'[x].type = "evaluate" =>
                  [run |-> jobs'[x].run, rev |-> jobs'[x].rev - 1, inputs |-> jobs'[x].inputs] \in approvals'
      <3> SUFFICES ASSUME NEW x \in JobKeys, jobs'[x] # None, jobs'[x].auth # None
                   PROVE  LET b == auths'[jobs'[x].auth] IN
                          /\ b # None /\ b.usedBy = x
                          /\ b.run = jobs'[x].run /\ b.stage = jobs'[x].type /\ b.rev = jobs'[x].rev
                          /\ jobs'[x].type = "evaluate" =>
                                [run |-> jobs'[x].run, rev |-> jobs'[x].rev - 1, inputs |-> jobs'[x].inputs]
                                    \in approvals'
        OBVIOUS
      <3>1. CASE x = k
        <4>1. jobs'[x] = job /\ a # None
          BY <1>6, <3>1
        <4>2. auths'[jobs'[x].auth] = paid(a)
          BY <1>9, <2>1, <4>1
        <4> QED BY <1>1, <1>8, <2>1, <2>3, <3>1, <4>1, <4>2
      <3>2. CASE x # k
        <4>1. jobs'[x] = jobs[x] /\ jobs[x].auth \in Auths /\ jobs[x].auth # a
          BY <1>6, <2>2, <3>2 DEF IInv, TypeOK, JobRow
        <4>2. auths'[jobs'[x].auth] = auths[jobs[x].auth]
          BY <1>9, <4>1
        <4>3. LET b == auths[jobs[x].auth] IN
              /\ b # None /\ b.usedBy = x
              /\ b.run = jobs[x].run /\ b.stage = jobs[x].type /\ b.rev = jobs[x].rev
              /\ jobs[x].type = "evaluate" =>
                    [run |-> jobs[x].run, rev |-> jobs[x].rev - 1, inputs |-> jobs[x].inputs] \in approvals
          BY <4>1 DEF IInv, AgentSpendIsAuthorized
        <4> QED BY <1>1, <4>1, <4>2, <4>3
      <3> QED BY <3>1, <3>2
    <2>5. \A b \in Auths : auths'[b] # None /\ auths'[b].usedBy # None =>
            jobs'[auths'[b].usedBy] # None /\ jobs'[auths'[b].usedBy].auth = b
      <3> SUFFICES ASSUME NEW b \in Auths, auths'[b] # None, auths'[b].usedBy # None
                   PROVE  jobs'[auths'[b].usedBy] # None /\ jobs'[auths'[b].usedBy].auth = b
        OBVIOUS
      <3>1. CASE b = a
        <4>1. a # None /\ auths'[b] = paid(a)
          BY <1>9, <3>1, NoneAssumption
        <4>2. auths'[b].usedBy = k
          BY <1>8, <4>1
        <4>3. jobs'[k] = job /\ job # None /\ job.auth = a
          BY <1>5, <1>6
        <4> QED BY <3>1, <4>2, <4>3
      <3>2. CASE b # a
        <4>1. auths'[b] = auths[b] /\ auths[b].usedBy \in JobKeys
          BY <1>9, <3>2 DEF IInv, TypeOK, AuthRow
        <4>2. jobs[auths[b].usedBy] # None /\ jobs[auths[b].usedBy].auth = b
          BY <4>1 DEF IInv, AgentSpendIsAuthorized
        <4> QED BY <1>1, <1>6, <4>1, <4>2
      <3> QED BY <3>1, <3>2
    <2> QED BY <2>4, <2>5 DEF AgentSpendIsAuthorized
  <1> HIDE DEF new
  <1>11. /\ runs'[r].state = state /\ runs'[r].inputs = runs[r].inputs
         /\ runs'[r].approved = runs[r].approved
    BY <1>1, <1>4, MutateRun DEF IInv
  <1>12. Approved(r)'
    BY <1>3, <1>11 DEF Approved, IInv, ApprovalsHold, LiveStates, ActiveStates
  <1>13. approvals \subseteq approvals' /\ approvals' \subseteq ApprovalRow
    BY <1>1 DEF IInv, TypeOK
  <1>14. new.state \in LiveStates \ {"exported"}
    BY <1>4 DEF LiveStates, ActiveStates
  <1> QED BY <1>1, <1>3, <1>4, <1>6, <1>9, <1>10, <1>12, <1>13, <1>14, LifeStep

----------------------------------------------------------------------------
(* Requests that write no artifact.                                        *)

Reply == [hash : ExportHash, got : FileIds]

\* A step that leaves runs, their records, artifacts and files as they are.
LEMMA RequestGoesOn ==
    ASSUME IInv, UNCHANGED <<runs, records, artifacts, files, nextFile>>,
           FilesAreApart', ContentsAreCurrent', req' \in [Clients -> Request],
           exports' \in [ExportKeys -> {None} \cup ExportRow],
           answers' \in [ExportKeys -> SUBSET Reply]
    PROVE  IInv'
  <1>1. UNCHANGED <<creations, approvals, auths, jobs>>
    BY DEF records
  <1>2. TypeOK'
    BY <1>1 DEF IInv, TypeOK, FileIds, Request, ExportRow, ExportHash, Reply
  <1>3. OneRunPerCreateKey' /\ ApprovalsHold' /\ AgentSpendIsAuthorized'
    BY <1>1 DEF IInv, OneRunPerCreateKey, ApprovalsHold, Approved, AgentSpendIsAuthorized, Live
  <1>4. ArtifactsHaveFiles'
    BY DEF IInv, ArtifactsHaveFiles, FileIds
  <1>5. ExportMatchesRun'
    BY DEF IInv, ExportMatchesRun, MeasurementOf, FileIds
  <1> QED BY <1>2, <1>3, <1>4, <1>5 DEF IInv

LEMMA ExportTypes ==
    ASSUME IInv
    PROVE  /\ exports \in [ExportKeys -> {None} \cup ExportRow]
           /\ answers \in [ExportKeys -> SUBSET Reply]
  BY DEF IInv, TypeOK, ExportRow, ExportHash, Reply

\* The contents of the other requests stay current, as long as the runs are the same.
LEMMA ContentsStay ==
    ASSUME IInv, UNCHANGED runs, NEW c \in Clients, NEW q, Continue(c, q), IsCurrent(q)
    PROVE  ContentsAreCurrent'
  <1>1. \A d \in Clients : req'[d] = IF d = c THEN q ELSE req[d]
    BY DEF Continue, IInv, TypeOK
  <1> QED BY <1>1 DEF IInv, ContentsAreCurrent, IsCurrent, Rendered, Live

LEMMA HarmlessIsCurrent == ASSUME NEW q, Harmless(q) PROVE IsCurrent(q)
  BY DEF Harmless, IsCurrent

\* The same, when only the request of one client changes.
LEMMA OnlyRequest ==
    ASSUME IInv, UNCHANGED <<runs, records, store>>, NEW c \in Clients,
           NEW q \in Request, Continue(c, q), Harmless(q)
    PROVE  IInv'
  <1>1. UNCHANGED <<artifacts, files, nextFile, exports, answers>>
    BY DEF store
  <1>2. FilesAreApart' /\ req' \in [Clients -> Request]
    BY <1>1, HarmlessRequest DEF IInv
  <1>3. ContentsAreCurrent'
    BY HarmlessIsCurrent, ContentsStay
  <1> QED BY <1>1, <1>2, <1>3, ExportTypes, RequestGoesOn

\* Harmless by the kind of the request.
LEMMA HarmlessKinds ==
    ASSUME NEW q, q.op \in {"create", "issue"} \/ (q.op = "export" /\ q.pc \in {"read", "answer"})
    PROVE  Harmless(q)
  BY DEF Harmless, IsPending, IsBound, Rendered

LEMMA CreateReadInvariant ==
    ASSUME IInv, NEW c \in Clients, NEW k \in CreateKeys, NEW b \in Briefs, CreateRead(c, k, b)
    PROVE  IInv'
  <1> DEFINE q == [op |-> "create", key |-> k, brief |-> b]
  <1>1. q \in Request /\ Harmless(q)
    BY RequestTypes, HarmlessKinds DEF CreateRequest
  <1>2. Continue(c, q) /\ UNCHANGED <<runs, records, store>>
    BY DEF CreateRead
  <1> HIDE DEF q
  <1> QED BY <1>1, <1>2, OnlyRequest

LEMMA IssueReadInvariant ==
    ASSUME IInv, NEW c \in Clients, NEW r \in Runs, NEW stage \in {"prepare", "evaluate"},
           IssueRead(c, r, stage)
    PROVE  IInv'
  <1> DEFINE inputs == IF stage = "prepare" THEN None ELSE runs[r].inputs
             q == [op |-> "issue", run |-> r, stage |-> stage, rev |-> runs[r].rev, inputs |-> inputs]
  <1>1. runs[r] \in Run
    BY DEF IInv, TypeOK
  <1>2. q \in IssueRequest
    BY <1>1 DEF Run, IssueRequest
  <1>3. q \in Request /\ Harmless(q)
    BY <1>2, RequestTypes, HarmlessKinds DEF IssueRequest
  <1>4. Continue(c, q) /\ UNCHANGED <<runs, records, store>>
    BY DEF IssueRead
  <1> HIDE DEF q
  <1> QED BY <1>3, <1>4, OnlyRequest

LEMMA IdleInvariant ==
    ASSUME IInv, UNCHANGED <<runs, records, store>>, NEW c \in Clients, Continue(c, Idle)
    PROVE  IInv'
  BY RequestTypes, IdleIsHarmless, OnlyRequest

LEMMA HashTypes ==
    ASSUME NEW q \in ExportRequest
    PROVE  Hash(q) \in ExportHash
  BY DEF ExportRequest, ExportHash, Hash

LEMMA AnsweredTypes ==
    ASSUME IInv, NEW q \in ExportRequest, NEW f \in FileIds, Answered(q, f)
    PROVE  answers' \in [ExportKeys -> SUBSET Reply]
  <1> DEFINE reply == [hash |-> Hash(q), got |-> f]
  <1>1. reply \in Reply
    BY HashTypes DEF Reply
  <1>2. answers' = IF q.key = None THEN answers ELSE [answers EXCEPT ![q.key] = @ \cup {reply}]
    BY DEF Answered
  <1> HIDE DEF reply
  <1> QED BY <1>1, <1>2, ExportTypes

LEMMA ExportBeginInvariant ==
    ASSUME IInv, NEW c \in Clients, NEW k \in ExportKeys \cup {None}, NEW r \in Runs,
           NEW kind \in Kinds, NEW rev \in Nat, ExportBegin(c, k, r, kind, rev)
    PROVE  IInv'
  <1> DEFINE q == [op |-> "export", pc |-> "read", key |-> k, run |-> r, kind |-> kind, rev |-> rev,
                   content |-> 0, got |-> 0]
  <1>1. q \in ExportRequest
    BY DEF ExportRequest
  <1>2. q \in Request /\ Harmless(q)
    BY <1>1, RequestTypes, HarmlessKinds
  <1>3. UNCHANGED <<runs, records, artifacts, files, nextFile>>
    BY DEF ExportBegin
  <1>4. exports' \in [ExportKeys -> {None} \cup ExportRow]
    <2> DEFINE row == [hash |-> Hash(q), artifact |-> None]
    <2>1. row \in ExportRow
      BY <1>1, HashTypes DEF ExportRow
    <2>2. exports' = exports \/ exports' = [exports EXCEPT ![k] = row]
      BY DEF ExportBegin
    <2> HIDE DEF row
    <2> QED BY <2>1, <2>2, ExportTypes
  <1>5. answers' \in [ExportKeys -> SUBSET Reply]
    <2>1. CASE UNCHANGED answers
      BY <2>1, ExportTypes
    <2>2. CASE ~ UNCHANGED answers
      <3>1. k # None /\ exports[k] # None /\ exports[k].artifact # None /\ Answered(q, exports[k].artifact)
        BY <2>2 DEF ExportBegin
      <3>2. exports[k].artifact \in FileIds
        BY <3>1, ExportTypes DEF ExportRow
      <3> HIDE DEF q
      <3> QED BY <1>1, <3>1, <3>2, AnsweredTypes
    <2> QED BY <2>1, <2>2
  <1>6. FilesAreApart' /\ req' \in [Clients -> Request]
    <2>1. CASE Continue(c, q)
      <3> HIDE DEF q
      <3> QED BY <1>2, <1>3, <2>1, HarmlessRequest DEF IInv
    <2>2. CASE UNCHANGED req
      BY <1>3, <2>2 DEF IInv, TypeOK, FilesAreApart, HasFile, Removes, IsBound, Apart, IsPending, FileIds
    <2>3. Continue(c, q) \/ UNCHANGED req
      BY DEF ExportBegin
    <2> QED BY <2>1, <2>2, <2>3
  <1>7. ContentsAreCurrent'
    <2>1. CASE Continue(c, q)
      <3> HIDE DEF q
      <3> QED BY <1>2, <1>3, <2>1, HarmlessIsCurrent, ContentsStay
    <2>2. CASE UNCHANGED req
      BY <1>3, <2>2 DEF IInv, ContentsAreCurrent, IsCurrent, Rendered, Live
    <2> QED BY <2>1, <2>2 DEF ExportBegin
  <1> QED BY <1>3, <1>4, <1>5, <1>6, <1>7, RequestGoesOn

LEMMA ExportReadInvariant == ASSUME IInv, NEW c \in Clients, ExportRead(c) PROVE IInv'
  <1> DEFINE old == req[c]
             next == [old EXCEPT !.pc = "put", !.content = runs[old.run].results]
  <1>1. old.op = "export" /\ old \in ExportRequest /\ UNCHANGED <<runs, records, store>>
    BY RequestKinds DEF ExportRead, IInv
  <1>2. \/ \E f \in MeasurementOf(old.run) : Found(c, f)
        \/ Continue(c, next) /\ Live(old.run) /\ runs[old.run].rev = old.rev
        \/ Continue(c, Idle)
    BY DEF ExportRead
  <1>3. CASE \E f \in MeasurementOf(old.run) : Found(c, f)
    <2>1. PICK f \in FileIds : Found(c, f)
      BY <1>3 DEF MeasurementOf
    <2>2. PICK q \in Request : Continue(c, q) /\ Harmless(q)
      BY <1>1, <2>1, FoundRequest DEF IInv
    <2> QED BY <1>1, <2>2, OnlyRequest
  <1>4. CASE /\ Continue(c, next) /\ Live(old.run)
             /\ runs[old.run].rev = old.rev
    <2>1. runs[old.run].results \in Nat /\ old.rev \in Nat
      BY <1>1 DEF ExportRequest, IInv, TypeOK, Run
    <2>2. /\ next \in ExportRequest /\ next.op = "export" /\ next.pc = "put"
          /\ next.run = old.run /\ next.rev = old.rev /\ next.content = runs[old.run].results
      BY <1>1, <2>1 DEF ExportRequest
    <2>3. IsCurrent(next)
      <3> HIDE DEF next, old
      <3> QED BY <1>4, <2>1, <2>2 DEF IsCurrent, Live, LiveStates, ActiveStates, RevisableStates
    <2> HIDE DEF next
    <2>4. next \in Request
      BY <2>2, RequestTypes
    <2>5. HasFile(next) /\ Removes(next) /\ IsBound(next)
      BY <2>2 DEF HasFile, Removes, IsBound, IsPending
    <2>6. \A d \in Clients \ {c} : Apart(next, req[d]) /\ Apart(req[d], next)
      BY <2>2 DEF Apart, IsPending
    <2>7. UNCHANGED <<artifacts, files, nextFile, exports, answers>>
      BY <1>1 DEF store
    <2>8. FilesAreApart' /\ req' \in [Clients -> Request]
      BY <1>4, <2>4, <2>5, <2>6, <2>7, OneRequest DEF IInv
    <2>9. ContentsAreCurrent'
      BY <1>1, <1>4, <2>3, ContentsStay
    <2> QED BY <1>1, <2>7, <2>8, <2>9, ExportTypes, RequestGoesOn
  <1>5. CASE Continue(c, Idle)
    BY <1>1, <1>5, IdleInvariant
  <1> QED BY <1>2, <1>3, <1>4, <1>5

\* The file of an export has a number that nothing refers to.
LEMMA PutInvariant == ASSUME IInv, NEW c \in Clients, Put(c) PROVE IInv'
  <1> DEFINE old == req[c]
             q == [old EXCEPT !.pc = "persist", !.got = nextFile]
  <1>1. /\ old \in ExportRequest /\ nextFile \in FileIds /\ nextFile \in Nat
        /\ files' = files \cup {nextFile} /\ nextFile' = nextFile + 1
        /\ Continue(c, q) /\ UNCHANGED <<runs, records, artifacts, exports, answers>>
    BY RequestKinds, BoundAssumption DEF Put, IInv, TypeOK, FileIds
  <1>2. /\ q \in ExportRequest /\ q.op = "export" /\ q.pc = "persist" /\ q.got = nextFile
        /\ q.run = old.run /\ q.rev = old.rev /\ q.kind = old.kind /\ q.content = old.content
    BY <1>1 DEF ExportRequest
  <1>15. IsCurrent(q)
    <2>1. IsCurrent(old) /\ old.op = "export" /\ old.pc = "put"
      BY DEF Put, IInv, ContentsAreCurrent
    <2> HIDE DEF q
    <2> QED BY <1>2, <2>1 DEF IsCurrent, Rendered
  <1> HIDE DEF q
  <1>16. ContentsAreCurrent'
    BY <1>1, <1>15, ContentsStay
  <1>3. q \in Request
    BY <1>2, RequestTypes
  <1>4. /\ \A d \in Clients : req'[d] = IF d = c THEN q ELSE req[d]
        /\ req' \in [Clients -> Request]
    BY <1>1, <1>3 DEF Continue, IInv, TypeOK
  <1>5. artifacts[nextFile] = None
    BY <1>1 DEF IInv, FilesAreApart
  <1>6. \A d \in Clients : HasFile(req[d])' /\ Removes(req[d])' /\ IsBound(req[d])'
    <2> SUFFICES ASSUME NEW d \in Clients PROVE HasFile(req[d])' /\ Removes(req[d])' /\ IsBound(req[d])'
      OBVIOUS
    <2>1. CASE d = c
      BY <1>1, <1>2, <1>4, <1>5, <2>1 DEF HasFile, Removes, IsBound, IsPending, FileIds
    <2>2. CASE d # c
      <3>1. req'[d] = req[d] /\ HasFile(req[d]) /\ Removes(req[d]) /\ IsBound(req[d])
        BY <1>4, <2>2 DEF IInv, FilesAreApart
      <3>2. IsPending(req[d]) => req[d].got \in Nat
        BY <3>1, BoundAssumption DEF HasFile, FileIds
      <3>3. req[d].op = "delete" => \A f \in req[d].ids : f \in Nat
        BY RequestKinds, BoundAssumption DEF DeleteRequest, FileIds, IInv
      <3> QED BY <1>1, <3>1, <3>2, <3>3 DEF HasFile, Removes, IsBound, IsPending, FileIds
    <2> QED BY <2>1, <2>2
  <1>7. \A d, e \in Clients : d # e => Apart(req[d], req[e])'
    <2> SUFFICES ASSUME NEW d \in Clients, NEW e \in Clients, d # e PROVE Apart(req[d], req[e])'
      OBVIOUS
    <2>1. \A x \in Clients : /\ IsPending(req[x]) => req[x].got # nextFile
                             /\ req[x].op = "delete" => nextFile \notin req[x].ids
      BY <1>1 DEF IInv, FilesAreApart, HasFile, Removes
    <2>2. Apart(req[d], req[e])
      BY DEF IInv, FilesAreApart
    <2> QED BY <1>2, <1>4, <2>1, <2>2 DEF Apart, IsPending
  <1>8. \A f \in FileIds : artifacts'[f] # None => f < nextFile'
    BY <1>1, BoundAssumption DEF IInv, FilesAreApart, FileIds
  <1>9. FilesAreApart'
    BY <1>6, <1>7, <1>8 DEF FilesAreApart, FileIds
  <1>10. UNCHANGED <<creations, approvals, auths, jobs>>
    BY <1>1 DEF records
  <1>11. TypeOK'
    <2>1. nextFile' \in 1 .. MaxFiles + 1 /\ files' \subseteq FileIds
      BY <1>1, BoundAssumption DEF IInv, TypeOK, FileIds
    <2> QED BY <1>1, <1>4, <1>10, <2>1 DEF IInv, TypeOK, FileIds, Request
  <1>12. OneRunPerCreateKey' /\ ApprovalsHold' /\ AgentSpendIsAuthorized'
    BY <1>1, <1>10 DEF IInv, OneRunPerCreateKey, ApprovalsHold, Approved, AgentSpendIsAuthorized, Live
  <1>13. ArtifactsHaveFiles'
    BY <1>1 DEF IInv, ArtifactsHaveFiles, FileIds
  <1>14. ExportMatchesRun'
    BY <1>1 DEF IInv, ExportMatchesRun, MeasurementOf, FileIds
  <1> QED BY <1>9, <1>11, <1>12, <1>13, <1>14, <1>16 DEF IInv

LEMMA BindInvariant == ASSUME IInv, NEW c \in Clients, Bind(c) PROVE IInv'
  <1> DEFINE q == req[c]
  <1>1. /\ q \in ExportRequest /\ q.got \in FileIds /\ q.key \in ExportKeys
        /\ UNCHANGED <<runs, records, artifacts, files, nextFile>> /\ Continue(c, Idle)
    BY RequestKinds DEF Bind, IInv, FilesAreApart, IsBound
  <1>2. exports' \in [ExportKeys -> {None} \cup ExportRow]
    <2>1. CASE UNCHANGED exports
      BY <2>1, ExportTypes
    <2>2. CASE ~ UNCHANGED exports
      <3>1. exports[q.key] # None /\ exports' = [exports EXCEPT ![q.key].artifact = q.got]
        BY <2>2 DEF Bind
      <3>2. exports[q.key] \in ExportRow
        BY <1>1, <3>1, ExportTypes
      <3>3. [exports[q.key] EXCEPT !.artifact = q.got] \in ExportRow
        BY <1>1, <3>2 DEF ExportRow
      <3> QED BY <1>1, <3>1, <3>3, ExportTypes
    <2> QED BY <2>1, <2>2
  <1>3. answers' \in [ExportKeys -> SUBSET Reply]
    <2>1. CASE UNCHANGED answers
      BY <2>1, ExportTypes
    <2>2. CASE Answered(q, q.got)
      BY <1>1, <2>2, AnsweredTypes
    <2>3. CASE Answered(q, exports[q.key].artifact) /\ exports[q.key] # None /\ exports[q.key].artifact # None
      <3>1. exports[q.key].artifact \in FileIds
        BY <1>1, <2>3, ExportTypes DEF ExportRow
      <3> QED BY <1>1, <2>3, <3>1, AnsweredTypes
    <2> QED BY <2>1, <2>2, <2>3 DEF Bind
  <1>4. FilesAreApart' /\ req' \in [Clients -> Request]
    BY <1>1, RequestTypes, IdleIsHarmless, HarmlessRequest DEF IInv
  <1>5. ContentsAreCurrent'
    BY <1>1, IdleIsHarmless, HarmlessIsCurrent, ContentsStay
  <1> QED BY <1>1, <1>2, <1>3, <1>4, <1>5, RequestGoesOn

\* A companion goes on to its insertion with the file it has.
LEMMA CompanionReadInvariant == ASSUME IInv, NEW c \in Clients, CompanionRead(c) PROVE IInv'
  <1> DEFINE old == req[c]
             next == [old EXCEPT !.pc = "insert"]
  <1>1. /\ old.op = "export" /\ old.pc = "persist" /\ old \in ExportRequest
        /\ UNCHANGED <<runs, records, store>>
        /\ UNCHANGED <<artifacts, files, nextFile, exports, answers>>
    BY RequestKinds DEF CompanionRead, IInv, store
  <1>2. \/ \E f \in TwinsOf(old) : Found(c, f)
        \/ Continue(c, next)
        \/ Continue(c, Idle)
    BY DEF CompanionRead
  <1>3. CASE \E f \in TwinsOf(old) : Found(c, f)
    <2>1. PICK f \in FileIds : Found(c, f)
      BY <1>3 DEF TwinsOf
    <2>2. PICK q \in Request : Continue(c, q) /\ Harmless(q)
      BY <1>1, <2>1, FoundRequest DEF IInv
    <2> QED BY <1>1, <2>2, OnlyRequest
  <1>4. CASE Continue(c, next)
    <2>1. /\ next \in ExportRequest /\ next.op = "export" /\ next.pc = "insert" /\ next.got = old.got
          /\ next.kind = "companion"
      BY <1>1 DEF ExportRequest, CompanionRead
    <2>2. IsPending(old) /\ HasFile(old)
      BY <1>1 DEF IInv, FilesAreApart, IsPending
    <2>3. \A d \in Clients \ {c} : Apart(old, req[d]) /\ Apart(req[d], old)
      BY DEF IInv, FilesAreApart
    <2> HIDE DEF next, old
    <2>4. HasFile(next) /\ Removes(next) /\ IsBound(next)
      BY <2>1, <2>2 DEF HasFile, Removes, IsBound, IsPending
    <2>5. \A d \in Clients \ {c} : Apart(next, req[d]) /\ Apart(req[d], next)
      BY <2>1, <2>2, <2>3 DEF Apart, IsPending
    <2>6. next \in Request
      BY <2>1, RequestTypes
    <2>7. FilesAreApart' /\ req' \in [Clients -> Request]
      BY <1>1, <1>4, <2>4, <2>5, <2>6, OneRequest DEF IInv
    <2>8. ContentsAreCurrent'
      <3>1. IsCurrent(next)
        BY <2>1 DEF IsCurrent, Rendered
      <3> QED BY <1>1, <1>4, <3>1, ContentsStay
    <2> QED BY <1>1, <2>7, <2>8, ExportTypes, RequestGoesOn
  <1>5. CASE Continue(c, Idle)
    BY <1>1, <1>5, IdleInvariant
  <1> QED BY <1>2, <1>3, <1>4, <1>5

\* The files a deletion will remove have rows, so no export under way has them.
LEMMA DeleteReadInvariant ==
    ASSUME IInv, NEW c \in Clients, NEW r \in Runs, DeleteRead(c, r)
    PROVE  IInv'
  <1> DEFINE q == [op |-> "delete", pc |-> "commit", run |-> r, ids |-> RowsOf(r)]
  <1>1. /\ Continue(c, q) /\ UNCHANGED <<runs, records, store>>
        /\ UNCHANGED <<artifacts, files, nextFile, exports, answers>>
    BY DEF DeleteRead, store
  <1>2. q \in Request
    BY RequestTypes DEF DeleteRequest, RowsOf
  <1>3. q.op = "delete" /\ q.pc = "commit" /\ q.run = r /\ q.ids = RowsOf(r)
    OBVIOUS
  <1> HIDE DEF q
  <1>4. HasFile(q) /\ Removes(q) /\ IsBound(q)
    BY <1>3 DEF HasFile, Removes, IsBound, IsPending, RowsOf, IInv, FilesAreApart
  <1>5. \A d \in Clients \ {c} : Apart(q, req[d]) /\ Apart(req[d], q)
    BY <1>3 DEF Apart, IsPending, RowsOf, IInv, FilesAreApart, HasFile
  <1>6. FilesAreApart' /\ req' \in [Clients -> Request]
    BY <1>1, <1>2, <1>4, <1>5, OneRequest DEF IInv
  <1>7. ContentsAreCurrent'
    <2>1. IsCurrent(q)
      BY <1>3 DEF IsCurrent, Rendered
    <2> QED BY <1>1, <2>1, ContentsStay
  <1> QED BY <1>1, <1>6, <1>7, ExportTypes, RequestGoesOn

----------------------------------------------------------------------------
(* Runs that are made, and authorizations that are given.                  *)

\* A run that was not there has no row, of a key or of an artifact.
LEMMA UnusedRun ==
    ASSUME IInv, NEW r \in Runs, runs[r].state = "unused"
    PROVE  /\ \A k \in CreateKeys : creations[k] # None => creations[k].run # r
           /\ MeasurementOf(r) = {}
  <1>1. ~ Live(r) /\ runs[r].state # "exported"
    BY DEF Live, LiveStates, ActiveStates, RevisableStates
  <1> QED BY <1>1 DEF IInv, OneRunPerCreateKey, ExportMatchesRun

LEMMA NewRunTypes ==
    ASSUME NEW b \in Briefs, NEW k \in CreateKeys \cup {None}
    PROVE  /\ NewRun(b, k) \in Run /\ NewRun(b, k).state = "draft"
           /\ NewRun(b, k).key = k /\ NewRun(b, k).approved = FALSE
  BY DEF NewRun, NoRun, Run, LiveStates

\* A new run, and the row of its key if it has one.
LEMMA NewRunInvariant ==
    ASSUME IInv, NEW r \in Runs, runs[r].state = "unused",
           NEW b \in Briefs, NEW k \in CreateKeys \cup {None},
           runs' = [runs EXCEPT ![r] = NewRun(b, k)],
           k # None => creations[k] = None,
           creations' = IF k = None THEN creations
                        ELSE [creations EXCEPT ![k] = [run |-> r, brief |-> b]],
           UNCHANGED <<approvals, auths, jobs, store>>,
           FilesAreApart', req' \in [Clients -> Request],
           \A c \in Clients : req'[c] \in {req[c], Idle}
    PROVE  IInv'
  <1> DEFINE new == NewRun(b, k)
             row == [run |-> r, brief |-> b]
  <1>1. /\ new \in Run /\ new.state = "draft" /\ new.key = k /\ new.approved = FALSE
        /\ row \in CreationRow /\ row # None /\ row.run = r
    <2>1. row \in CreationRow /\ row.run = r
      BY DEF CreationRow
    <2>2. row # None
      BY <2>1, RowAssumption
    <2> HIDE DEF row
    <2> QED BY <2>1, <2>2, NewRunTypes
  <1>2. /\ runs' \in [Runs -> Run]
        /\ \A x \in Runs : runs'[x] = IF x = r THEN new ELSE runs[x]
    <2> HIDE DEF new
    <2> QED BY <1>1 DEF IInv, TypeOK, new
  <1>3. /\ creations' \in [CreateKeys -> {None} \cup CreationRow]
        /\ \A x \in CreateKeys : creations'[x] = IF x = k THEN row ELSE creations[x]
    <2>1. None \notin CreateKeys
      BY NoneAssumption
    <2> HIDE DEF row
    <2> QED BY <1>1, <2>1 DEF IInv, TypeOK, row
  <1> HIDE DEF new, row
  <1>4. UNCHANGED <<artifacts, files, nextFile, exports, answers>>
    BY DEF store
  <1>5. TypeOK'
    BY <1>2, <1>3, <1>4 DEF IInv, TypeOK, FileIds, Request
  <1>6. OneRunPerCreateKey'
    <2> SUFFICES ASSUME NEW x \in Runs, NEW y \in CreateKeys
                 PROVE  (runs'[x].state \in LiveStates /\ runs'[x].key = y)
                          <=> (creations'[y] # None /\ creations'[y].run = x)
      BY DEF OneRunPerCreateKey, Live
    <2>1. (runs[x].state \in LiveStates /\ runs[x].key = y) <=> (creations[y] # None /\ creations[y].run = x)
      BY DEF IInv, OneRunPerCreateKey, Live
    <2>2. \A z \in CreateKeys : creations[z] # None => creations[z].run # r
      BY UnusedRun
    <2>3. CASE x = r
      <3>1. runs'[x].state \in LiveStates /\ runs'[x].key = k
        BY <1>1, <1>2, <2>3 DEF LiveStates
      <3> QED BY <1>1, <1>3, <2>2, <2>3, <3>1
    <2>4. CASE x # r
      <3>1. runs'[x] = runs[x]
        BY <1>2, <2>4
      <3>2. CASE y = k
        <4>1. creations[y] = None
          BY <3>2, NoneAssumption
        <4> QED BY <1>1, <1>3, <2>1, <2>4, <3>1, <3>2, <4>1
      <3>3. CASE y # k
        BY <1>3, <2>1, <3>1, <3>3
      <3> QED BY <3>2, <3>3
    <2> QED BY <2>3, <2>4
  <1>7. ApprovalsHold'
    <2> SUFFICES ASSUME NEW x \in Runs PROVE Approved(x)'
      BY DEF ApprovalsHold
    <2>1. CASE x = r
      BY <1>1, <1>2, <2>1 DEF Approved
    <2>2. CASE x # r
      BY <1>2, <2>2 DEF IInv, ApprovalsHold, Approved
    <2> QED BY <2>1, <2>2
  <1>8. AgentSpendIsAuthorized' /\ ArtifactsHaveFiles'
    BY <1>4 DEF IInv, AgentSpendIsAuthorized, ArtifactsHaveFiles, FileIds
  <1>9. ExportMatchesRun'
    <2>1. \A x \in Runs : MeasurementOf(x)' = MeasurementOf(x)
      BY <1>4 DEF MeasurementOf, FileIds
    <2>2. MeasurementOf(r) = {} /\ runs'[r].state # "exported"
      BY <1>1, <1>2, UnusedRun
    <2> QED BY <1>2, <1>4, <2>1, <2>2 DEF IInv, ExportMatchesRun
  <1>10. ContentsAreCurrent'
    <2> SUFFICES ASSUME NEW c \in Clients PROVE IsCurrent(req[c])'
      BY DEF ContentsAreCurrent
    <2>1. CASE req'[c] = Idle
      BY <2>1 DEF IsCurrent, Rendered, Idle
    <2>2. CASE req'[c] = req[c] /\ ~ Rendered(req[c])
      BY <2>2 DEF IsCurrent, Rendered
    <2>3. CASE req'[c] = req[c] /\ Rendered(req[c])
      <3>1. req[c].run \in Runs
        BY <2>3, RequestKinds DEF IInv, Rendered, ExportRequest
      <3>2. IsCurrent(req[c]) /\ runs[req[c].run].state # "unused"
        BY <2>3 DEF IInv, ContentsAreCurrent, IsCurrent
      <3>3. runs'[req[c].run] = runs[req[c].run]
        BY <1>2, <3>1, <3>2
      <3> QED BY <2>3, <3>2, <3>3 DEF IsCurrent, Live
    <2> QED BY <2>1, <2>2, <2>3
  <1> QED BY <1>5, <1>6, <1>7, <1>8, <1>9, <1>10 DEF IInv

LEMMA SameRequests ==
    ASSUME IInv, UNCHANGED <<store, req>>
    PROVE  FilesAreApart' /\ req' \in [Clients -> Request]
  BY DEF IInv, TypeOK, FilesAreApart, HasFile, Removes, IsBound, Apart, IsPending, FileIds, store

LEMMA CreateInvariant == ASSUME IInv, NEW r \in Runs, NEW b \in Briefs, Create(r, b) PROVE IInv'
  <1>1. /\ runs[r].state = "unused" /\ runs' = [runs EXCEPT ![r] = NewRun(b, None)]
        /\ UNCHANGED <<creations, approvals, auths, jobs, store, req>>
    BY DEF Create, records
  <1>2. FilesAreApart' /\ req' \in [Clients -> Request]
    BY <1>1, SameRequests
  <1> QED BY <1>1, <1>2, NewRunInvariant

\* Two requests under one key: the second finds the row of the first.
LEMMA CreateCommitInvariant ==
    ASSUME IInv, NEW c \in Clients, NEW r \in Runs, CreateCommit(c, r)
    PROVE  IInv'
  <1> DEFINE k == req[c].key
             b == req[c].brief
  <1>1. k \in CreateKeys /\ b \in Briefs /\ k # None
    BY RequestKinds, NoneAssumption DEF CreateCommit, CreateRequest, IInv
  <1>2. /\ runs[r].state = "unused" /\ Continue(c, Idle)
        /\ UNCHANGED <<approvals, auths, jobs, store>>
    BY DEF CreateCommit
  <1>3. /\ FilesAreApart' /\ req' \in [Clients -> Request]
        /\ \A d \in Clients : req'[d] \in {req[d], Idle}
    <2>1. \A d \in Clients : req'[d] \in {req[d], Idle}
      BY <1>2 DEF Continue, IInv, TypeOK
    <2> QED BY <1>2, <2>1, RequestTypes, IdleIsHarmless, HarmlessRequest DEF store, IInv
  <1>4. CASE creations[k] = None
    <2>1. /\ runs' = [runs EXCEPT ![r] = NewRun(b, k)]
          /\ creations' = [creations EXCEPT ![k] = [run |-> r, brief |-> b]]
      BY <1>4 DEF CreateCommit
    <2> HIDE DEF k, b
    <2> QED BY <1>1, <1>2, <1>3, <1>4, <2>1, NewRunInvariant
  <1>5. CASE creations[k] # None
    BY <1>2, <1>5, IdleInvariant DEF CreateCommit, records
  <1> QED BY <1>4, <1>5

\* Authorizations that no job has used yet change, and no job's.
LEMMA AuthsChange ==
    ASSUME IInv, UNCHANGED <<runs, creations, approvals, jobs, store>>,
           FilesAreApart', ContentsAreCurrent', req' \in [Clients -> Request],
           auths' \in [Auths -> {None} \cup AuthRow],
           \A a \in Auths :
              \/ auths'[a] = auths[a]
              \/ auths[a] = None /\ auths'[a].usedBy = None
              \/ /\ auths[a] # None /\ auths'[a] # None
                 /\ auths'[a].usedBy = auths[a].usedBy /\ auths'[a].run = auths[a].run
                 /\ auths'[a].stage = auths[a].stage /\ auths'[a].rev = auths[a].rev
    PROVE  IInv'
  <1>1. UNCHANGED <<artifacts, files, nextFile, exports, answers>>
    BY DEF store
  <1>2. TypeOK'
    BY <1>1 DEF IInv, TypeOK, FileIds, Request
  <1>3. OneRunPerCreateKey' /\ ApprovalsHold' /\ ArtifactsHaveFiles' /\ ExportMatchesRun'
    BY <1>1 DEF IInv, OneRunPerCreateKey, ApprovalsHold, Approved, Live, ArtifactsHaveFiles,
                ExportMatchesRun, MeasurementOf, FileIds
  <1>4. AgentSpendIsAuthorized'
    <2>1. \A k \in JobKeys : jobs[k] # None /\ jobs[k].auth # None =>
            LET a == auths'[jobs[k].auth] IN
            /\ a # None /\ a.usedBy = k
            /\ a.run = jobs[k].run /\ a.stage = jobs[k].type /\ a.rev = jobs[k].rev
      <3> SUFFICES ASSUME NEW k \in JobKeys, jobs[k] # None, jobs[k].auth # None
                   PROVE  LET a == auths'[jobs[k].auth] IN
                          /\ a # None /\ a.usedBy = k
                          /\ a.run = jobs[k].run /\ a.stage = jobs[k].type /\ a.rev = jobs[k].rev
        OBVIOUS
      <3>1. jobs[k].auth \in Auths
        BY DEF IInv, TypeOK, JobRow
      <3>2. LET a == auths[jobs[k].auth] IN
            /\ a # None /\ a.usedBy = k
            /\ a.run = jobs[k].run /\ a.stage = jobs[k].type /\ a.rev = jobs[k].rev
        BY DEF IInv, AgentSpendIsAuthorized
      <3> QED BY <3>1, <3>2
    <2>2. \A a \in Auths : auths'[a] # None /\ auths'[a].usedBy # None =>
            jobs[auths'[a].usedBy] # None /\ jobs[auths'[a].usedBy].auth = a
      BY DEF IInv, AgentSpendIsAuthorized
    <2> QED BY <2>1, <2>2 DEF IInv, AgentSpendIsAuthorized
  <1> QED BY <1>2, <1>3, <1>4 DEF IInv

LEMMA IssueCommitInvariant ==
    ASSUME IInv, NEW c \in Clients, NEW a \in Auths, IssueCommit(c, a)
    PROVE  IInv'
  <1> DEFINE q == req[c]
             row == [run |-> q.run, stage |-> q.stage, rev |-> q.rev, inputs |-> q.inputs,
                     expired |-> FALSE, usedBy |-> None]
  <1>1. /\ q \in IssueRequest /\ auths[a] = None /\ Continue(c, Idle)
        /\ UNCHANGED <<runs, creations, approvals, jobs, store>>
        /\ UNCHANGED auths \/ auths' = [auths EXCEPT ![a] = row]
    BY RequestKinds DEF IssueCommit, IInv
  <1>2. row \in AuthRow /\ row.usedBy = None
    BY <1>1 DEF IssueRequest, AuthRow
  <1>3. FilesAreApart' /\ ContentsAreCurrent' /\ req' \in [Clients -> Request]
    BY <1>1, RequestTypes, IdleIsHarmless, HarmlessRequest, HarmlessIsCurrent, ContentsStay DEF store, IInv
  <1> HIDE DEF row
  <1>4. /\ auths' \in [Auths -> {None} \cup AuthRow]
        /\ \A b \in Auths : auths'[b] = auths[b] \/ (auths[b] = None /\ auths'[b].usedBy = None)
    BY <1>1, <1>2 DEF IInv, TypeOK
  <1> QED BY <1>1, <1>3, <1>4, AuthsChange

LEMMA ExpireInvariant == ASSUME IInv, NEW a \in Auths, Expire(a) PROVE IInv'
  <1> DEFINE row == [auths[a] EXCEPT !.expired = TRUE]
  <1>1. /\ auths[a] # None /\ auths[a] \in AuthRow
        /\ auths' = [auths EXCEPT ![a] = row]
        /\ UNCHANGED <<runs, creations, approvals, jobs, store, req>>
    BY DEF Expire, IInv, TypeOK
  <1>2. /\ row \in AuthRow /\ row.usedBy = auths[a].usedBy /\ row.run = auths[a].run
        /\ row.stage = auths[a].stage /\ row.rev = auths[a].rev
    BY <1>1 DEF AuthRow
  <1>3. FilesAreApart' /\ ContentsAreCurrent' /\ req' \in [Clients -> Request]
    <2>1. ContentsAreCurrent'
      BY <1>1 DEF IInv, ContentsAreCurrent, IsCurrent, Rendered, Live
    <2> QED BY <1>1, <2>1, SameRequests
  <1> HIDE DEF row
  <1>4. row # None
    BY <1>2, RowAssumption
  <1>5. /\ auths' \in [Auths -> {None} \cup AuthRow]
        /\ \A b \in Auths : b # a => auths'[b] = auths[b]
        /\ auths'[a] = row
    BY <1>1, <1>2 DEF IInv, TypeOK
  <1> QED BY <1>1, <1>2, <1>3, <1>4, <1>5, AuthsChange

----------------------------------------------------------------------------
(* Artifacts that are written and removed.                                 *)

\* A measurement artifact is written when its run has none, with what it shows.
LEMMA PersistExportInvariant == ASSUME IInv, NEW c \in Clients, PersistExport(c) PROVE IInv'
  <1> DEFINE q == req[c]
  <1>0. q \in ExportRequest
    BY RequestKinds DEF PersistExport, IInv
  <1>. PICK r \in Runs : r = q.run
    BY <1>0 DEF ExportRequest
  <1> DEFINE new == [runs[r] EXCEPT !.state = "exported"]
  <1>1. /\ q \in ExportRequest /\ q.op = "export" /\ q.pc = "persist" /\ q.kind = "measurement"
        /\ UNCHANGED <<records, files, nextFile, exports, answers>>
    BY <1>0 DEF PersistExport
  <1>2. IsPending(q) /\ HasFile(q)
    BY <1>1 DEF IInv, FilesAreApart, IsPending
  <1>3. CASE runs[r].state = "exported"
    <2>1. PICK f \in FileIds : Found(c, f)
      BY <1>3 DEF PersistExport, MeasurementOf
    <2>2. PICK p \in Request : Continue(c, p) /\ Harmless(p)
      BY <1>1, <2>1, FoundRequest DEF IInv
    <2>3. UNCHANGED <<runs, records, store>>
      BY <1>1, <1>3 DEF PersistExport, store
    <2> QED BY <2>2, <2>3, OnlyRequest
  <1>4. CASE runs[r].state # "exported" /\ ~ Exportable(q)
    <2>1. UNCHANGED <<runs, records, store>> /\ Continue(c, Idle)
      BY <1>1, <1>4 DEF PersistExport, store
    <2> QED BY <2>1, IdleInvariant
  <1>5. CASE runs[r].state # "exported" /\ Exportable(q)
    <2>1. /\ artifacts' = [artifacts EXCEPT ![q.got] = Row(q)]
          /\ Mutate(r, new) /\ Found(c, q.got)
      BY <1>5 DEF PersistExport
    <2>2. Row(q) \in ArtifactRow /\ Row(q) # None /\ Row(q).run = r /\ Row(q).kind = "measurement"
          /\ Row(q).content = q.content
      BY <1>1, RowAssumption DEF Row, ExportRequest, ArtifactRow
    <2>3. q.got \in FileIds /\ artifacts[q.got] = None
      BY <1>2 DEF HasFile
    <2>4. PICK p \in Request : Continue(c, p) /\ Harmless(p)
      BY <1>1, <2>1, <2>3, FoundRequest DEF IInv
    <2>5. FilesAreApart' /\ ArtifactsHaveFiles' /\ req' \in [Clients -> Request]
      BY <1>1, <1>2, <2>1, <2>2, <2>4, RowWritten DEF IInv
    <2>6. /\ artifacts' \in [FileIds -> {None} \cup ArtifactRow]
          /\ \A f \in FileIds : artifacts'[f] = IF f = q.got THEN Row(q) ELSE artifacts[f]
      BY <2>1, <2>2, <2>3 DEF IInv, TypeOK
    <2>7. new \in Run /\ new.state = "exported" /\ new.key = runs[r].key /\ new.inputs = runs[r].inputs
          /\ new.approved = runs[r].approved /\ new.results = runs[r].results
      BY <1>1 DEF IInv, TypeOK, Run, LiveStates
    <2> HIDE DEF new
    <2>8. /\ runs' \in [Runs -> Run]
          /\ \A x \in Runs : x # r => runs'[x] = runs[x]
          /\ runs'[r].state = "exported" /\ runs'[r].key = runs[r].key
          /\ runs'[r].inputs = runs[r].inputs /\ runs'[r].approved = runs[r].approved
          /\ runs'[r].results = runs[r].results
      BY <1>1, <2>1, <2>7, MutateRun DEF IInv
    <2>9. UNCHANGED <<creations, approvals, auths, jobs>>
      BY <1>1 DEF records
    <2>10. TypeOK'
      BY <1>1, <2>5, <2>6, <2>8, <2>9 DEF IInv, TypeOK, FileIds, Request
    <2>11. runs[r].state \in ExportableStates /\ Live(r)
      BY <1>5 DEF Exportable, Live, LiveStates, RevisableStates, ExportableStates
    <2>12. OneRunPerCreateKey'
      BY <2>8, <2>9, <2>11 DEF IInv, OneRunPerCreateKey, Live, LiveStates
    <2>13. ApprovalsHold'
      <3> SUFFICES ASSUME NEW x \in Runs PROVE Approved(x)'
        BY DEF ApprovalsHold
      <3>1. Approved(x)
        BY DEF IInv, ApprovalsHold
      <3> QED BY <2>8, <2>9, <3>1 DEF Approved, LiveStates
    <2>14. AgentSpendIsAuthorized'
      BY <2>9 DEF IInv, AgentSpendIsAuthorized
    <2>15. ExportMatchesRun'
      <3>1. MeasurementOf(r) = {}
        BY <1>1, <1>5 DEF IInv, ExportMatchesRun
      <3>2. MeasurementOf(r)' = {q.got}
        <4>1. \A f \in FileIds : f # q.got =>
                ~ (artifacts'[f] # None /\ artifacts'[f].run = r /\ artifacts'[f].kind = "measurement")
          BY <2>6, <3>1 DEF MeasurementOf
        <4>2. artifacts'[q.got] = Row(q)
          BY <2>3, <2>6
        <4>3. artifacts'[q.got] # None /\ artifacts'[q.got].run = r /\ artifacts'[q.got].kind = "measurement"
          BY <2>2, <4>2
        <4> HIDE DEF q
        <4> QED BY <2>3, <4>1, <4>3 DEF MeasurementOf, FileIds
      <3>3. \A x \in Runs : x # r => MeasurementOf(x)' = MeasurementOf(x)
        BY <2>2, <2>3, <2>6 DEF MeasurementOf, FileIds
      <3>4. \A x \in Runs : x # r => \A f \in MeasurementOf(x) : artifacts'[f] = artifacts[f]
        BY <2>3, <2>6 DEF MeasurementOf
      <3>5. artifacts'[q.got].content = runs'[r].results
        <4>1. q.content = runs[r].results
          <5>1. IsCurrent(q) /\ Rendered(q)
            BY <1>1 DEF IInv, ContentsAreCurrent, Rendered
          <5> QED BY <1>5, <2>11, <5>1 DEF IsCurrent, Exportable
        <4> QED BY <2>2, <2>3, <2>6, <2>8, <4>1
      <3>6. /\ (runs'[r].state = "exported") <=> (MeasurementOf(r)' # {})
            /\ \A f, g \in MeasurementOf(r)' : f = g
            /\ \A f \in MeasurementOf(r)' : artifacts'[f].content = runs'[r].results
        BY <2>8, <3>2, <3>5
      <3>7. \A x \in Runs : x # r =>
            /\ (runs'[x].state = "exported") <=> (MeasurementOf(x)' # {})
            /\ \A f, g \in MeasurementOf(x)' : f = g
            /\ \A f \in MeasurementOf(x)' : artifacts'[f].content = runs'[x].results
        BY <2>8, <3>3, <3>4 DEF IInv, ExportMatchesRun
      <3>8. \A x \in Runs :
            /\ (runs'[x].state = "exported") <=> (MeasurementOf(x)' # {})
            /\ \A f, g \in MeasurementOf(x)' : f = g
            /\ \A f \in MeasurementOf(x)' : artifacts'[f].content = runs'[x].results
        <4> TAKE x \in Runs
        <4>1. CASE x = r
          BY <3>6, <4>1 DEF MeasurementOf
        <4>2. CASE x # r
          BY <3>7, <4>2
        <4> QED BY <4>1, <4>2
      <3> QED BY <3>8 DEF ExportMatchesRun
    <2>16. ContentsAreCurrent'
      <3>1. \A d \in Clients : req'[d] = req[d] \/ ~ Rendered(req'[d])
        BY <2>4 DEF Continue, Harmless, IInv, TypeOK
      <3> QED BY <1>1, <2>1, <2>7, <2>11, <3>1, ContentsAge
    <2> QED BY <2>5, <2>10, <2>12, <2>13, <2>14, <2>15, <2>16 DEF IInv
  <1> QED BY <1>3, <1>4, <1>5

\* A companion is written under its own number, whatever became of the revision.
LEMMA CompanionInsertInvariant == ASSUME IInv, NEW c \in Clients, CompanionInsert(c) PROVE IInv'
  <1> DEFINE q == req[c]
  <1>1. /\ q \in ExportRequest /\ q.op = "export" /\ q.pc = "insert" /\ q.kind = "companion"
        /\ UNCHANGED <<runs, records, files, nextFile, exports, answers>>
    BY RequestKinds DEF CompanionInsert, IInv, FilesAreApart, HasFile, IsPending
  <1>2. IsPending(q) /\ HasFile(q)
    BY <1>1 DEF IInv, FilesAreApart, IsPending
  <1>3. \/ Continue(c, Idle) /\ UNCHANGED artifacts
        \/ (\E f \in FileIds : Found(c, f)) /\ UNCHANGED artifacts
        \/ artifacts' = [artifacts EXCEPT ![q.got] = Row(q)] /\ Found(c, q.got)
    BY DEF CompanionInsert, TwinsOf
  <1>4. CASE Continue(c, Idle) /\ UNCHANGED artifacts
    BY <1>1, <1>4, IdleInvariant DEF store
  <1>5. CASE (\E f \in FileIds : Found(c, f)) /\ UNCHANGED artifacts
    <2>1. PICK f \in FileIds : Found(c, f)
      BY <1>5
    <2>2. PICK p \in Request : Continue(c, p) /\ Harmless(p)
      BY <1>1, <2>1, FoundRequest DEF IInv
    <2>3. UNCHANGED <<runs, records, store>>
      BY <1>1, <1>5 DEF store
    <2> QED BY <2>2, <2>3, OnlyRequest
  <1>6. CASE artifacts' = [artifacts EXCEPT ![q.got] = Row(q)] /\ Found(c, q.got)
    <2>1. Row(q) \in ArtifactRow /\ Row(q) # None /\ Row(q).kind = "companion"
      BY <1>1, RowAssumption DEF Row, ExportRequest, ArtifactRow
    <2>2. q.got \in FileIds /\ artifacts[q.got] = None
      BY <1>2 DEF HasFile
    <2>3. PICK p \in Request : Continue(c, p) /\ Harmless(p)
      BY <1>1, <1>6, <2>2, FoundRequest DEF IInv
    <2>4. FilesAreApart' /\ ArtifactsHaveFiles' /\ req' \in [Clients -> Request]
      BY <1>1, <1>2, <1>6, <2>1, <2>3, RowWritten DEF IInv
    <2>5. /\ artifacts' \in [FileIds -> {None} \cup ArtifactRow]
          /\ \A f \in FileIds : artifacts'[f] = IF f = q.got THEN Row(q) ELSE artifacts[f]
      BY <1>6, <2>1, <2>2 DEF IInv, TypeOK
    <2>6. UNCHANGED <<creations, approvals, auths, jobs>>
      BY <1>1 DEF records
    <2>7. TypeOK'
      BY <1>1, <2>4, <2>5, <2>6 DEF IInv, TypeOK, FileIds, Request
    <2>8. OneRunPerCreateKey' /\ ApprovalsHold' /\ AgentSpendIsAuthorized'
      BY <1>1, <2>6 DEF IInv, OneRunPerCreateKey, ApprovalsHold, Approved, AgentSpendIsAuthorized, Live
    <2>9. ContentsAreCurrent'
      BY <1>1, <2>3, HarmlessIsCurrent, ContentsStay
    <2>10. ExportMatchesRun'
      <3>1. \A x \in Runs : MeasurementOf(x)' = MeasurementOf(x)
        BY <2>1, <2>2, <2>5 DEF MeasurementOf, FileIds
      <3>2. \A x \in Runs : \A f \in MeasurementOf(x) : artifacts'[f] = artifacts[f]
        BY <2>2, <2>5 DEF MeasurementOf
      <3> QED BY <1>1, <3>1, <3>2 DEF IInv, ExportMatchesRun
    <2> QED BY <2>4, <2>7, <2>8, <2>9, <2>10 DEF IInv
  <1> QED BY <1>3, <1>4, <1>5, <1>6

\* The deletion of a run takes every row that mentions it, and no row of another.
LEMMA DeleteCommitInvariant == ASSUME IInv, NEW c \in Clients, DeleteCommit(c) PROVE IInv'
  <1>1. req[c] \in DeleteRequest /\ req[c].pc = "commit" /\ req[c].op = "delete"
    BY RequestKinds DEF DeleteCommit, IInv
  <1>2. PICK r \in Runs : r = req[c].run
    BY <1>1 DEF DeleteRequest
  <1>3. PICK ids \in SUBSET FileIds : ids = req[c].ids
    BY <1>1 DEF DeleteRequest
  <1>4. CASE ~ (Live(r) /\ Unreferenced(r, ids))
    <2>1. UNCHANGED <<runs, records, store>> /\ Continue(c, Idle)
      BY <1>2, <1>3, <1>4 DEF DeleteCommit, store
    <2> QED BY <2>1, IdleInvariant
  <1>5. CASE Live(r) /\ Unreferenced(r, ids)
    <2> DEFINE gone == [NoRun EXCEPT !.state = "deleted"]
               q == [req[c] EXCEPT !.pc = "unlink"]
    <2>1. /\ runs' = [runs EXCEPT ![r] = gone]
          /\ creations' = WithoutRows(creations,
                 {k \in CreateKeys : creations[k] # None /\ creations[k].run = r})
          /\ approvals' = {p \in approvals : p.run # r}
          /\ auths' = WithoutRows(auths, {a \in Auths : auths[a] # None /\ auths[a].run = r})
          /\ jobs' = WithoutRows(jobs, {k \in JobKeys : jobs[k] # None /\ jobs[k].run = r})
          /\ exports' = WithoutRows(exports, RequestsOf(r, ids))
          /\ artifacts' = WithoutRows(artifacts, ids)
          /\ Continue(c, q)
          /\ UNCHANGED <<files, nextFile, answers>>
      BY <1>2, <1>3, <1>5 DEF DeleteCommit
    <2>2. /\ gone \in Run /\ gone.state = "deleted" /\ gone.approved = FALSE
      BY DEF NoRun, Run
    <2>3. /\ runs' \in [Runs -> Run]
          /\ \A x \in Runs : runs'[x] = IF x = r THEN gone ELSE runs[x]
      BY <2>1, <2>2 DEF IInv, TypeOK
    <2>4. /\ creations' \in [CreateKeys -> {None} \cup CreationRow]
          /\ \A k \in CreateKeys : creations'[k] =
                IF creations[k] # None /\ creations[k].run = r THEN None ELSE creations[k]
      BY <2>1 DEF IInv, TypeOK, WithoutRows
    <2>5. /\ auths' \in [Auths -> {None} \cup AuthRow]
          /\ \A a \in Auths : auths'[a] = IF auths[a] # None /\ auths[a].run = r THEN None ELSE auths[a]
      BY <2>1 DEF IInv, TypeOK, WithoutRows
    <2>6. /\ jobs' \in [JobKeys -> {None} \cup JobRow]
          /\ \A k \in JobKeys : jobs'[k] = IF jobs[k] # None /\ jobs[k].run = r THEN None ELSE jobs[k]
      BY <2>1 DEF IInv, TypeOK, WithoutRows
    <2>7. exports' \in [ExportKeys -> {None} \cup ExportRow]
      <3>1. exports \in [ExportKeys -> {None} \cup ExportRow]
        BY ExportTypes
      <3> QED BY <2>1, <3>1 DEF WithoutRows
    <2>8. /\ artifacts' \in [FileIds -> {None} \cup ArtifactRow]
          /\ \A f \in FileIds : artifacts'[f] = IF f \in ids THEN None ELSE artifacts[f]
      BY <2>1 DEF IInv, TypeOK, WithoutRows
    <2>9. q \in DeleteRequest /\ q.op = "delete" /\ q.pc = "unlink" /\ q.ids = ids
      BY <1>1, <1>3 DEF DeleteRequest
    <2> HIDE DEF q, gone
    <2>10. /\ req' \in [Clients -> Request]
           /\ \A d \in Clients : req'[d] = IF d = c THEN q ELSE req[d]
      BY <2>1, <2>9, RequestTypes DEF Continue, IInv, TypeOK
    <2>11. TypeOK'
      BY <2>1, <2>3, <2>4, <2>5, <2>6, <2>7, <2>8, <2>10
         DEF IInv, TypeOK, FileIds, Request, ExportRow, ExportHash
    <2>12. OneRunPerCreateKey'
      <3> SUFFICES ASSUME NEW x \in Runs, NEW k \in CreateKeys
                   PROVE  (runs'[x].state \in LiveStates /\ runs'[x].key = k)
                            <=> (creations'[k] # None /\ creations'[k].run = x)
        BY DEF OneRunPerCreateKey, Live
      <3>1. (runs[x].state \in LiveStates /\ runs[x].key = k) <=> (creations[k] # None /\ creations[k].run = x)
        BY DEF IInv, OneRunPerCreateKey, Live
      <3>2. CASE x = r
        BY <2>2, <2>3, <2>4, <3>2 DEF LiveStates, ActiveStates, RevisableStates
      <3>3. CASE x # r
        BY <2>3, <2>4, <3>1, <3>3
      <3> QED BY <3>2, <3>3
    <2>13. ApprovalsHold'
      <3> SUFFICES ASSUME NEW x \in Runs PROVE Approved(x)'
        BY DEF ApprovalsHold
      <3>1. CASE x = r
        BY <2>2, <2>3, <3>1 DEF Approved
      <3>2. CASE x # r
        <4>1. runs'[x] = runs[x] /\ Approved(x)
          BY <2>3, <3>2 DEF IInv, ApprovalsHold
        <4>2. \A p \in approvals : p.run = x => p \in approvals'
          BY <2>1, <3>2
        <4> QED BY <4>1, <4>2 DEF Approved
      <3> QED BY <3>1, <3>2
    <2>14. AgentSpendIsAuthorized'
      <3>1. \A k \in JobKeys : jobs'[k] # None /\ jobs'[k].auth # None =>
              LET a == auths'[jobs'[k].auth] IN
              /\ a # None /\ a.usedBy = k
              /\ a.run = jobs'[k].run /\ a.stage = jobs'[k].type /\ a.rev = jobs'[k].rev
              /\ jobs'[k].type = "evaluate" =>
                    [run |-> jobs'[k].run, rev |-> jobs'[k].rev - 1, inputs |-> jobs'[k].inputs] \in approvals'
        <4> SUFFICES ASSUME NEW k \in JobKeys, jobs'[k] # None, jobs'[k].auth # None
                     PROVE  LET a == auths'[jobs'[k].auth] IN
                            /\ a # None /\ a.usedBy = k
                            /\ a.run = jobs'[k].run /\ a.stage = jobs'[k].type /\ a.rev = jobs'[k].rev
                            /\ jobs'[k].type = "evaluate" =>
                                  [run |-> jobs'[k].run, rev |-> jobs'[k].rev - 1,
                                   inputs |-> jobs'[k].inputs] \in approvals'
          OBVIOUS
        <4>1. jobs'[k] = jobs[k] /\ jobs[k].run # r /\ jobs[k].auth \in Auths
          BY <2>6 DEF IInv, TypeOK, JobRow
        <4>2. LET a == auths[jobs[k].auth] IN
              /\ a # None /\ a.usedBy = k
              /\ a.run = jobs[k].run /\ a.stage = jobs[k].type /\ a.rev = jobs[k].rev
              /\ jobs[k].type = "evaluate" =>
                    [run |-> jobs[k].run, rev |-> jobs[k].rev - 1, inputs |-> jobs[k].inputs] \in approvals
          BY <4>1 DEF IInv, AgentSpendIsAuthorized
        <4>3. auths'[jobs[k].auth] = auths[jobs[k].auth]
          BY <2>5, <4>1, <4>2
        <4>4. \A p \in approvals : p.run = jobs[k].run => p \in approvals'
          BY <2>1, <4>1
        <4> QED BY <4>1, <4>2, <4>3, <4>4
      <3>2. \A a \in Auths : auths'[a] # None /\ auths'[a].usedBy # None =>
              jobs'[auths'[a].usedBy] # None /\ jobs'[auths'[a].usedBy].auth = a
        <4> SUFFICES ASSUME NEW a \in Auths, auths'[a] # None, auths'[a].usedBy # None
                     PROVE  jobs'[auths'[a].usedBy] # None /\ jobs'[auths'[a].usedBy].auth = a
          OBVIOUS
        <4>1. auths'[a] = auths[a] /\ auths[a].run # r /\ auths[a].usedBy \in JobKeys
          BY <2>5 DEF IInv, TypeOK, AuthRow
        <4>2. jobs[auths[a].usedBy] # None /\ jobs[auths[a].usedBy].auth = a
          BY <4>1 DEF IInv, AgentSpendIsAuthorized
        <4>3. jobs[auths[a].usedBy].run = auths[a].run
          BY <4>1, <4>2, NoneAssumption DEF IInv, AgentSpendIsAuthorized
        <4> QED BY <2>6, <4>1, <4>2, <4>3
      <3> QED BY <3>1, <3>2 DEF AgentSpendIsAuthorized
    <2>15. FilesAreApart'
      <3>1. \A d \in Clients : HasFile(req[d])' /\ Removes(req[d])' /\ IsBound(req[d])'
        <4> SUFFICES ASSUME NEW d \in Clients PROVE HasFile(req[d])' /\ Removes(req[d])' /\ IsBound(req[d])'
          OBVIOUS
        <4>1. HasFile(req[d]) /\ Removes(req[d]) /\ IsBound(req[d])
          BY DEF IInv, FilesAreApart
        <4>2. CASE d = c
          <5>1. \A f \in ids : f < nextFile
            BY <1>1, <1>3, <4>1, <4>2 DEF Removes
          <5> QED BY <2>1, <2>8, <2>9, <2>10, <4>2, <5>1 DEF HasFile, Removes, IsBound, IsPending
        <4>3. CASE d # c
          <5>1. req'[d] = req[d]
            BY <2>10, <4>3
          <5>2. req[d].op = "delete" => req[d].ids \subseteq FileIds
            BY RequestKinds DEF IInv, DeleteRequest
          <5>3. \A f \in FileIds : artifacts'[f] \in {None, artifacts[f]}
            BY <2>8
          <5> QED BY <2>1, <4>1, <5>1, <5>2, <5>3 DEF HasFile, Removes, IsBound, IsPending, FileIds
        <4> QED BY <4>2, <4>3
      <3>2. \A d, e \in Clients : d # e => Apart(req[d], req[e])'
        <4> SUFFICES ASSUME NEW d \in Clients, NEW e \in Clients, d # e PROVE Apart(req[d], req[e])'
          OBVIOUS
        <4>1. Apart(req[d], req[e])
          BY DEF IInv, FilesAreApart
        <4> QED BY <1>1, <1>3, <2>9, <2>10, <4>1 DEF Apart, IsPending
      <3>3. \A f \in FileIds : artifacts'[f] # None => f < nextFile'
        BY <2>1, <2>8 DEF IInv, FilesAreApart
      <3> QED BY <3>1, <3>2, <3>3 DEF FilesAreApart, FileIds
    <2>16. ArtifactsHaveFiles'
      BY <2>1, <2>8 DEF IInv, ArtifactsHaveFiles, FileIds
    <2>17. ContentsAreCurrent'
      <3> SUFFICES ASSUME NEW d \in Clients PROVE IsCurrent(req[d])'
        BY DEF ContentsAreCurrent
      <3>1. CASE d = c
        BY <2>9, <2>10, <3>1 DEF IsCurrent, Rendered
      <3>2. CASE d # c
        <4>1. req'[d] = req[d] /\ IsCurrent(req[d])
          BY <2>10, <3>2 DEF IInv, ContentsAreCurrent
        <4>2. Rendered(req[d]) => req[d].run \in Runs
          BY RequestKinds DEF IInv, Rendered, ExportRequest
        <4> QED BY <2>2, <2>3, <4>1, <4>2
               DEF IsCurrent, Rendered, Live, LiveStates, ActiveStates, RevisableStates
      <3> QED BY <3>1, <3>2
    <2>18. ExportMatchesRun'
      <3>1. MeasurementOf(r)' = {}
        BY <1>5, <2>8 DEF Unreferenced, RowsOf, MeasurementOf, FileIds
      <3>2. \A x \in Runs : x # r => MeasurementOf(x)' = MeasurementOf(x)
        <4>1. \A f \in ids : artifacts[f] = None \/ artifacts[f].run = r
          BY <1>1, <1>2, <1>3 DEF IInv, FilesAreApart, Removes
        <4> QED BY <2>8, <4>1 DEF MeasurementOf, FileIds
      <3>3. \A x \in Runs : x # r => \A f \in MeasurementOf(x) : artifacts'[f] = artifacts[f]
        <4>1. \A f \in ids : artifacts[f] = None \/ artifacts[f].run = r
          BY <1>1, <1>2, <1>3 DEF IInv, FilesAreApart, Removes
        <4> QED BY <2>8, <4>1 DEF MeasurementOf
      <3> QED BY <2>2, <2>3, <3>1, <3>2, <3>3 DEF IInv, ExportMatchesRun
    <2> QED BY <2>11, <2>12, <2>13, <2>14, <2>15, <2>16, <2>17, <2>18 DEF IInv
  <1> QED BY <1>4, <1>5

\* A file is removed after its row, and no export under way has stored it.
LEMMA UnlinkInvariant == ASSUME IInv, NEW c \in Clients, Unlink(c) PROVE IInv'
  <1>1. /\ req[c] \in DeleteRequest /\ req[c].op = "delete" /\ req[c].pc = "unlink"
        /\ UNCHANGED <<runs, records, artifacts, nextFile, exports, answers>>
    BY RequestKinds DEF Unlink, IInv
  <1>2. CASE req[c].ids = {}
    <2>1. UNCHANGED <<runs, records, store>> /\ Continue(c, Idle)
      BY <1>1, <1>2 DEF Unlink, store
    <2> QED BY <2>1, IdleInvariant
  <1>3. CASE req[c].ids # {}
    <2>1. PICK g \in req[c].ids : /\ files' = files \ {g}
                                  /\ Continue(c, [req[c] EXCEPT !.ids = @ \ {g}])
      BY <1>3 DEF Unlink
    <2> DEFINE q == [req[c] EXCEPT !.ids = req[c].ids \ {g}]
    <2>2. /\ q \in DeleteRequest /\ q.op = "delete" /\ q.pc = "unlink" /\ q.run = req[c].run
          /\ q.ids = req[c].ids \ {g}
      BY <1>1 DEF DeleteRequest
    <2>3. Continue(c, q)
      BY <2>1
    <2> HIDE DEF q
    <2>4. /\ req' \in [Clients -> Request]
          /\ \A d \in Clients : req'[d] = IF d = c THEN q ELSE req[d]
      BY <2>2, <2>3, RequestTypes DEF Continue, IInv, TypeOK
    <2>5. g \in FileIds /\ artifacts[g] = None
      BY <1>1, <2>1 DEF DeleteRequest, IInv, FilesAreApart, Removes
    <2>6. FilesAreApart'
      <3>1. \A d \in Clients : HasFile(req[d])' /\ Removes(req[d])' /\ IsBound(req[d])'
        <4> SUFFICES ASSUME NEW d \in Clients PROVE HasFile(req[d])' /\ Removes(req[d])' /\ IsBound(req[d])'
          OBVIOUS
        <4>1. HasFile(req[d]) /\ Removes(req[d]) /\ IsBound(req[d])
          BY DEF IInv, FilesAreApart
        <4>2. CASE d = c
          BY <1>1, <2>2, <2>4, <4>1, <4>2 DEF HasFile, Removes, IsBound, IsPending
        <4>3. CASE d # c
          <5>1. IsPending(req[d]) => req[d].got # g
            BY <1>1, <2>1, <4>3 DEF IInv, FilesAreApart, Apart
          <5> QED BY <1>1, <2>1, <2>4, <4>1, <4>3, <5>1 DEF HasFile, Removes, IsBound, IsPending, FileIds
        <4> QED BY <4>2, <4>3
      <3>2. \A d, e \in Clients : d # e => Apart(req[d], req[e])'
        <4> SUFFICES ASSUME NEW d \in Clients, NEW e \in Clients, d # e PROVE Apart(req[d], req[e])'
          OBVIOUS
        <4>1. Apart(req[d], req[e])
          BY DEF IInv, FilesAreApart
        <4> QED BY <1>1, <2>2, <2>4, <4>1 DEF Apart, IsPending
      <3>3. \A f \in FileIds : artifacts'[f] # None => f < nextFile'
        BY <1>1 DEF IInv, FilesAreApart
      <3> QED BY <3>1, <3>2, <3>3 DEF FilesAreApart, FileIds
    <2>7. UNCHANGED <<creations, approvals, auths, jobs>>
      BY <1>1 DEF records
    <2>8. TypeOK'
      BY <1>1, <2>1, <2>4, <2>7 DEF IInv, TypeOK, FileIds, Request
    <2>9. OneRunPerCreateKey' /\ ApprovalsHold' /\ AgentSpendIsAuthorized'
      BY <1>1, <2>7 DEF IInv, OneRunPerCreateKey, ApprovalsHold, Approved, AgentSpendIsAuthorized, Live
    <2>10. ArtifactsHaveFiles'
      BY <1>1, <2>1, <2>5 DEF IInv, ArtifactsHaveFiles, FileIds
    <2>11. ExportMatchesRun'
      BY <1>1 DEF IInv, ExportMatchesRun, MeasurementOf, FileIds
    <2>12. ContentsAreCurrent'
      <3>1. IsCurrent(q)
        BY <2>2 DEF IsCurrent, Rendered
      <3> QED BY <1>1, <2>3, <3>1, ContentsStay
    <2> QED BY <2>6, <2>8, <2>9, <2>10, <2>11, <2>12 DEF IInv
  <1> QED BY <1>2, <1>3

----------------------------------------------------------------------------
(* The invariant.                                                          *)

LEMMA InitInvariant == ASSUME Init PROVE IInv
  <1>1. /\ runs = [r \in Runs |-> NoRun] /\ NoRun \in Run /\ NoRun.state = "unused"
        /\ NoRun.approved = FALSE
        /\ creations = [k \in CreateKeys |-> None] /\ approvals = {}
        /\ auths = [a \in Auths |-> None] /\ jobs = [k \in JobKeys |-> None]
        /\ artifacts = [f \in FileIds |-> None] /\ files = {} /\ nextFile = 1
        /\ exports = [k \in ExportKeys |-> None] /\ req = [c \in Clients |-> Idle]
        /\ answers = [k \in ExportKeys |-> {}]
    BY DEF Init, NoRun, Run
  <1>2. TypeOK
    BY <1>1, RequestTypes, BoundAssumption DEF TypeOK
  <1>3. \A r \in Runs : runs[r].state \notin LiveStates
    BY <1>1 DEF LiveStates, ActiveStates, RevisableStates
  <1>4. OneRunPerCreateKey /\ ApprovalsHold /\ AgentSpendIsAuthorized
    BY <1>1, <1>3 DEF OneRunPerCreateKey, Live, ApprovalsHold, Approved, AgentSpendIsAuthorized
  <1>5. \A c \in Clients : req[c] = Idle
    BY <1>1
  <1>6. FilesAreApart /\ ArtifactsHaveFiles /\ ContentsAreCurrent
    BY <1>1, <1>5 DEF FilesAreApart, HasFile, Removes, IsBound, Apart, IsPending, ArtifactsHaveFiles,
                      ContentsAreCurrent, IsCurrent, Rendered, Idle
  <1>7. ExportMatchesRun
    BY <1>1 DEF ExportMatchesRun, MeasurementOf
  <1> QED BY <1>2, <1>4, <1>6, <1>7 DEF IInv

LEMMA RunStepInvariant == ASSUME IInv, RunStep PROVE IInv'
  BY CreateInvariant, ApproveInvariant, ReviseInputsInvariant, PrepareEndsInvariant,
     EvaluationEndsInvariant, JobFailsInvariant, EnqueueInvariant DEF RunStep

LEMMA RequestStepInvariant == ASSUME IInv, RequestStep PROVE IInv'
  <1>1. PICK c \in Clients :
            \/ \E k \in CreateKeys, b \in Briefs : CreateRead(c, k, b)
            \/ \E r \in Runs : CreateCommit(c, r)
            \/ \E r \in Runs, stage \in {"prepare", "evaluate"} : IssueRead(c, r, stage)
            \/ \E a \in Auths : IssueCommit(c, a)
            \/ \E k \in ExportKeys \cup {None}, r \in Runs, kind \in Kinds :
                  \E rev \in FirstExport .. MaxRev[r] : ExportBegin(c, k, r, kind, rev)
            \/ ExportRead(c) \/ Put(c) \/ PersistExport(c)
            \/ CompanionRead(c) \/ CompanionInsert(c) \/ Bind(c) \/ AnswerExport(c)
            \/ \E r \in Runs : DeleteRead(c, r)
            \/ DeleteCommit(c) \/ Unlink(c)
            \/ Crash(c)
    BY DEF RequestStep
  <1>2. CASE \/ \E k \in CreateKeys, b \in Briefs : CreateRead(c, k, b)
             \/ \E r \in Runs : CreateCommit(c, r)
             \/ \E r \in Runs, stage \in {"prepare", "evaluate"} : IssueRead(c, r, stage)
             \/ \E a \in Auths : IssueCommit(c, a)
    BY <1>2, CreateReadInvariant, CreateCommitInvariant, IssueReadInvariant, IssueCommitInvariant
  <1>3. CASE \E k \in ExportKeys \cup {None}, r \in Runs, kind \in Kinds :
                \E rev \in FirstExport .. MaxRev[r] : ExportBegin(c, k, r, kind, rev)
    <2>1. PICK k \in ExportKeys \cup {None}, r \in Runs, kind \in Kinds :
                \E rev \in FirstExport .. MaxRev[r] : ExportBegin(c, k, r, kind, rev)
      BY <1>3
    <2>2. PICK rev \in Nat : ExportBegin(c, k, r, kind, rev)
      BY <2>1, BoundAssumption
    <2> QED BY <2>2, ExportBeginInvariant
  <1>4. CASE ExportRead(c) \/ Put(c) \/ PersistExport(c) \/ CompanionRead(c) \/ CompanionInsert(c) \/ Bind(c)
    BY <1>4, ExportReadInvariant, PutInvariant, PersistExportInvariant, CompanionReadInvariant,
       CompanionInsertInvariant, BindInvariant
  <1>5. CASE (\E r \in Runs : DeleteRead(c, r)) \/ DeleteCommit(c) \/ Unlink(c)
    BY <1>5, DeleteReadInvariant, DeleteCommitInvariant, UnlinkInvariant
  <1>6. CASE AnswerExport(c) \/ Crash(c)
    BY <1>6, IdleInvariant DEF AnswerExport, Crash
  <1> QED BY <1>1, <1>2, <1>3, <1>4, <1>5, <1>6

LEMMA NextInvariant == ASSUME IInv, [Next]_vars PROVE IInv'
  <1>1. CASE RunStep
    BY <1>1, RunStepInvariant
  <1>2. CASE RequestStep
    BY <1>2, RequestStepInvariant
  <1>3. CASE \E a \in Auths : Expire(a)
    BY <1>3, ExpireInvariant
  <1>4. CASE UNCHANGED vars
    <2>1. UNCHANGED <<runs, records, artifacts, files, nextFile>> /\ UNCHANGED <<store, req, exports, answers>>
      BY <1>4 DEF vars, records, store
    <2>2. FilesAreApart' /\ req' \in [Clients -> Request]
      BY <2>1, SameRequests
    <2>3. ContentsAreCurrent'
      BY <2>1 DEF IInv, ContentsAreCurrent, IsCurrent, Rendered, Live
    <2> QED BY <2>1, <2>2, <2>3, ExportTypes, RequestGoesOn
  <1> QED BY <1>1, <1>2, <1>3, <1>4 DEF Next

----------------------------------------------------------------------------
(* Theorems.                                                               *)

\* The rows and the requests of a run keep their shape, and the inductive
\* invariant of this module holds in every reachable state (persistence.py,
\* artifact_storage.py).
THEOREM RecordsInvariant == Spec => []IInv
  <1>1. Init => IInv
    BY InitInvariant
  <1>2. IInv /\ [Next]_vars => IInv'
    BY NextInvariant
  <1> QED BY <1>1, <1>2, PTL DEF Spec

\* Every row has the columns and types the schema and the code give it.
THEOREM RecordsTypes == Spec => []TypeOK
  <1>1. IInv => TypeOK
    BY DEF IInv
  <1> QED BY <1>1, RecordsInvariant, PTL

\* However many requests create runs under one key, at the same time or after a
\* crash, and however often the run is deleted and created again, the key leads
\* to the one run made under it (create_idempotent).
THEOREM KeysMakeOneRun == Spec => []OneRunPerCreateKey
  <1>1. IInv => OneRunPerCreateKey
    BY DEF IInv
  <1> QED BY <1>1, RecordsInvariant, PTL

\* What an agent starts was authorized by the owner, for that stage at that
\* very revision, each authorization pays for one job, and an evaluation takes
\* the inputs that were approved just before (issue_execution_authorization,
\* _consume_execution_authorization, enqueue_job).
THEOREM AgentsSpendWhatWasGiven == Spec => []AgentSpendIsAuthorized
  <1>1. IInv => AgentSpendIsAuthorized
    BY DEF IInv
  <1> QED BY <1>1, RecordsInvariant, PTL

\* An artifact that can be listed can be downloaded: no deletion, crash or
\* concurrent export leaves a row without its file (artifact_storage.py,
\* delete_project_run).
THEOREM RowsKeepFiles == Spec => []ArtifactsHaveFiles
  <1>1. IInv => ArtifactsHaveFiles
    BY DEF IInv
  <1> QED BY <1>1, RecordsInvariant, PTL

\* A run is exported exactly when it has its one measurement artifact, which
\* shows the results the run still has (persist_export).
THEOREM ExportsMatch == Spec => []ExportMatchesRun
  <1>1. IInv => ExportMatchesRun
    BY DEF IInv
  <1> QED BY <1>1, RecordsInvariant, PTL

----------------------------------------------------------------------------
(* Retries of an export.                                                   *)

\* An export has found or made its artifact and is about to bind its key to it.
IsBinding(q) == q.op = "export" /\ q.pc = "bind"

\* What it found is what it was asked for, as long as it is there.
IsFound(q) ==
    artifacts[q.got] # None => artifacts[q.got].run = q.run /\ artifacts[q.got].kind = q.kind

BindingsLead == \A c \in Clients : IsBinding(req[c]) => req[c].got < nextFile /\ IsFound(req[c])

\* No row will be written again under the number it found.
BindingsAreApart ==
    \A c, d \in Clients : IsBinding(req[c]) /\ IsPending(req[d]) => req[c].got # req[d].got

\* As long as its run lives, an answer is what its key is bound to.
AnswersAreBound ==
    \A k \in ExportKeys : \A x \in answers[k] :
        /\ runs[x.hash.run].state # "unused"
        /\ Live(x.hash.run) => exports[k] = [hash |-> x.hash, artifact |-> x.got]

ReplayInv ==
    /\ BoundKeysLead
    /\ AnswersAreBound
    /\ BindingsLead
    /\ BindingsAreApart

\* A run that is used stays used, and one that has died stays dead.
RunsGoOn ==
    \A r \in Runs :
        /\ Live(r) => Live(r)'
        /\ runs[r].state # "unused" => runs'[r].state # "unused"
        /\ Live(r)' => Live(r) \/ runs[r].state = "unused"

\* A request goes on as it was, holds the number it had or a new one, or has
\* found a row that is there.
Moves(p, q) ==
    \/ q = p
    \/ ~ IsBinding(q) /\ ~ IsPending(q)
    \/ IsPending(q) /\ ((IsPending(p) /\ q.got = p.got) \/ q.got = nextFile)
    \/ IsBinding(q) /\ q.got \in FileIds /\ artifacts[q.got] # None /\ IsFound(q)

\* Such requests find what they were asked for, and keep apart.
LEMMA MovesKeepBindings ==
    ASSUME IInv, ReplayInv, nextFile <= nextFile', nextFile' \in Nat,
           \A f \in FileIds : artifacts'[f] \in {None, artifacts[f]},
           \A c \in Clients : Moves(req[c], req'[c])
    PROVE  BindingsLead' /\ BindingsAreApart'
  <1>0. nextFile \in Nat /\ \A f \in FileIds : f \in Nat
    BY BoundAssumption DEF IInv, TypeOK, FileIds
  <1>1. \A c \in Clients : IsBinding(req[c]) => req[c].got \in FileIds
    BY DEF IInv, FilesAreApart, IsBound, IsBinding
  <1>2. ASSUME NEW c \in Clients, IsBinding(req'[c])
        PROVE  /\ req'[c].got \in FileIds /\ req'[c].got < nextFile /\ IsFound(req'[c])
               /\ (IsBinding(req[c]) /\ req'[c] = req[c]) \/ artifacts[req'[c].got] # None
    <2>1. ~ IsPending(req'[c])
      BY <1>2 DEF IsBinding, IsPending
    <2>2. CASE req'[c] = req[c]
      BY <1>1, <1>2, <2>2 DEF ReplayInv, BindingsLead, IsFound, IsBinding
    <2>3. CASE req'[c].got \in FileIds /\ artifacts[req'[c].got] # None /\ IsFound(req'[c])
      BY <2>3 DEF IInv, FilesAreApart
    <2> QED BY <1>2, <2>1, <2>2, <2>3 DEF Moves
  <1>3. BindingsLead'
    <2> SUFFICES ASSUME NEW c \in Clients, IsBinding(req'[c])
                 PROVE  req'[c].got < nextFile' /\ IsFound(req[c])'
      BY DEF BindingsLead, IsBinding
    <2>1. req'[c].got \in FileIds /\ req'[c].got < nextFile /\ IsFound(req'[c])
      BY <1>2
    <2> QED BY <1>0, <2>1 DEF IsFound
  <1>4. ASSUME NEW c \in Clients, NEW d \in Clients, IsBinding(req'[c]), IsPending(req'[d])
        PROVE  req'[c].got # req'[d].got
    <2>1. req'[c].got \in FileIds /\ req'[c].got < nextFile
      BY <1>2, <1>4
    <2>2. CASE req'[d].got = nextFile
      BY <1>0, <2>1, <2>2
    <2>3. CASE IsPending(req[d]) /\ req'[d].got = req[d].got
      <3>1. artifacts[req[d].got] = None
        BY <2>3 DEF IInv, FilesAreApart, HasFile
      <3>2. IsBinding(req[c]) => req[c].got # req[d].got
        BY <2>3 DEF ReplayInv, BindingsAreApart
      <3> QED BY <1>2, <1>4, <2>3, <3>1, <3>2
    <2>4. ~ IsBinding(req'[d])
      BY <1>4 DEF IsBinding, IsPending
    <2> QED BY <1>4, <2>2, <2>3, <2>4 DEF Moves
  <1>5. BindingsAreApart'
    BY <1>4 DEF BindingsAreApart, IsBinding, IsPending
  <1> QED BY <1>3, <1>5

\* Keys and answers stay good when they are left alone.
LEMMA KeysStand ==
    ASSUME IInv, ReplayInv, RunsGoOn, UNCHANGED <<exports, answers>>,
           \A f \in FileIds : artifacts[f] # None => artifacts'[f] = artifacts[f]
    PROVE  BoundKeysLead' /\ AnswersAreBound'
  <1>1. BoundKeysLead'
    <2> SUFFICES ASSUME NEW k \in ExportKeys, exports[k] # None
                 PROVE  /\ Live(exports[k].hash.run)'
                        /\ exports[k].artifact # None =>
                              LET row == artifacts'[exports[k].artifact] IN
                              row # None /\ row.run = exports[k].hash.run /\ row.kind = exports[k].hash.kind
      BY DEF BoundKeysLead, Live
    <2>1. exports[k].hash.run \in Runs /\ exports[k].artifact \in FileIds \cup {None}
      BY DEF IInv, TypeOK, ExportRow, ExportHash
    <2>2. Live(exports[k].hash.run)'
      BY <2>1 DEF ReplayInv, BoundKeysLead, RunsGoOn
    <2> QED BY <2>1, <2>2 DEF ReplayInv, BoundKeysLead
  <1>2. AnswersAreBound'
    <2> SUFFICES ASSUME NEW k \in ExportKeys, NEW x \in answers[k]
                 PROVE  /\ runs'[x.hash.run].state # "unused"
                        /\ Live(x.hash.run)' => exports[k] = [hash |-> x.hash, artifact |-> x.got]
      BY DEF AnswersAreBound, Live
    <2>1. x.hash.run \in Runs
      BY DEF IInv, TypeOK, ExportHash
    <2> QED BY <2>1 DEF ReplayInv, AnswersAreBound, RunsGoOn
  <1> QED BY <1>1, <1>2

\* A step that leaves the exports as they are.
LEMMA ExportsStand ==
    ASSUME IInv, ReplayInv, RunsGoOn, UNCHANGED <<exports, answers, artifacts>>,
           nextFile <= nextFile', nextFile' \in Nat,
           \A c \in Clients : Moves(req[c], req'[c])
    PROVE  ReplayInv'
  <1>1. \A f \in FileIds : artifacts'[f] \in {None, artifacts[f]}
    OBVIOUS
  <1> QED BY <1>1, MovesKeepBindings, KeysStand DEF ReplayInv

\* Runs go on when nothing happens to them, or _mutate_run does.
LEMMA RunsStand == ASSUME UNCHANGED runs PROVE RunsGoOn
  BY DEF RunsGoOn, Live

\* One request goes on.
LEMMA OneMoves ==
    ASSUME TypeOK, NEW c \in Clients, NEW q, Continue(c, q), Moves(req[c], q)
    PROVE  \A d \in Clients : Moves(req[d], req'[d])
  <1>1. \A d \in Clients : req'[d] = IF d = c THEN q ELSE req[d]
    BY DEF Continue, TypeOK
  <1> QED BY <1>1 DEF Moves

\* A new run was not used, and a run that is there is changed to a live state.
LEMMA RunMutated ==
    ASSUME IInv, NEW r \in Runs, NEW new \in Run, Mutate(r, new), Live(r), new.state \in LiveStates
    PROVE  RunsGoOn
  <1>1. /\ \A x \in Runs : x # r => runs'[x] = runs[x]
        /\ runs'[r].state = new.state
    BY MutateRun DEF IInv
  <1>2. Live(r)' /\ runs'[r].state # "unused"
    BY <1>1 DEF Live, LiveStates, ActiveStates, RevisableStates
  <1> QED BY <1>1, <1>2 DEF RunsGoOn, Live

LEMMA RunMade ==
    ASSUME IInv, NEW r \in Runs, NEW run \in Run, run.state = "draft", runs[r].state = "unused",
           runs' = [runs EXCEPT ![r] = run]
    PROVE  RunsGoOn
  <1>1. \A x \in Runs : runs'[x] = IF x = r THEN run ELSE runs[x]
    BY DEF IInv, TypeOK
  <1> QED BY <1>1 DEF RunsGoOn, Live, LiveStates, ActiveStates, RevisableStates

\* No request moves.
LEMMA NoneMoves == ASSUME UNCHANGED req PROVE \A c \in Clients : Moves(req[c], req'[c])
  BY DEF Moves

\* Neither requests nor exports change.
LEMMA StoreStands ==
    ASSUME IInv, ReplayInv, RunsGoOn, UNCHANGED <<store, req>>
    PROVE  ReplayInv'
  <1>1. UNCHANGED <<exports, answers, artifacts, nextFile>> /\ nextFile \in Nat
    BY BoundAssumption DEF store, IInv, TypeOK
  <1> QED BY <1>1, NoneMoves, ExportsStand

\* The steps of a run leave the exports alone.
LEMMA RunStepReplays == ASSUME IInv, ReplayInv, RunStep PROVE ReplayInv'
  <1>1. PICK r \in Runs :
            \/ \E b \in Briefs : Create(r, b)
            \/ Approve(r)
            \/ \E i \in Inputs : ReviseInputs(r, i) \/ PrepareEnds(r, i)
            \/ \E outcome \in ExportableStates : EvaluationEnds(r, outcome)
            \/ \E outcome \in {"review", "cancelled"} : JobFails(r, outcome)
            \/ \E k \in JobKeys, type \in {"prepare", "evaluate", "recover"}, a \in Auths \cup {None} :
                   Enqueue(k, r, type, a)
    BY DEF RunStep
  <1>2. runs[r] \in Run /\ UNCHANGED <<store, req>>
    BY <1>1 DEF IInv, TypeOK, Create, Approve, ReviseInputs, PrepareEnds, EvaluationEnds, JobFails, Enqueue
  <1>3. CASE \E b \in Briefs : Create(r, b)
    <2>1. PICK b \in Briefs : Create(r, b)
      BY <1>3
    <2>2. NewRun(b, None) \in Run /\ NewRun(b, None).state = "draft"
      BY NewRunTypes
    <2> QED BY <1>2, <2>1, <2>2, RunMade, StoreStands DEF Create
  <1>4. CASE ~ \E b \in Briefs : Create(r, b)
    <2>1. \E new \in Run : Mutate(r, new) /\ Live(r) /\ new.state \in LiveStates
      <3>1. CASE Approve(r)
        <4> DEFINE row == [runs[r] EXCEPT !.approved = TRUE]
        <4>1. Mutate(r, row) /\ runs[r].state = "awaiting"
          BY <3>1 DEF Approve
        <4>2. row \in Run /\ row.state = "awaiting"
          BY <1>2, <4>1 DEF Run
        <4> QED BY <4>1, <4>2 DEF Live, LiveStates, RevisableStates
      <3>2. CASE \E i \in Inputs : ReviseInputs(r, i)
        <4>1. PICK i \in Inputs : ReviseInputs(r, i)
          BY <3>2
        <4> DEFINE row == [runs[r] EXCEPT !.inputs = i, !.approved = FALSE, !.results = 0, !.state = "awaiting"]
        <4>2. Mutate(r, row) /\ runs[r].state \in RevisableStates
          BY <4>1 DEF ReviseInputs
        <4>3. row \in Run /\ row.state = "awaiting"
          BY <1>2 DEF Run, LiveStates, RevisableStates
        <4> QED BY <4>2, <4>3 DEF Live, LiveStates, RevisableStates
      <3>3. CASE \E i \in Inputs : PrepareEnds(r, i)
        <4>1. PICK i \in Inputs : PrepareEnds(r, i)
          BY <3>3
        <4> DEFINE row == [runs[r] EXCEPT !.state = "awaiting", !.inputs = i]
        <4>2. Mutate(r, row) /\ runs[r].state = "preparing"
          BY <4>1 DEF PrepareEnds
        <4>3. row \in Run /\ row.state = "awaiting"
          BY <1>2 DEF Run, LiveStates, RevisableStates
        <4> QED BY <4>2, <4>3 DEF Live, LiveStates, RevisableStates, ActiveStates
      <3>4. CASE \E outcome \in ExportableStates : EvaluationEnds(r, outcome)
        <4>1. PICK outcome \in ExportableStates : EvaluationEnds(r, outcome)
          BY <3>4
        <4> DEFINE row == [runs[r] EXCEPT !.state = outcome, !.results = runs[r].rev + 1]
        <4>2. Mutate(r, row) /\ runs[r].state = "evaluating"
          BY <4>1 DEF EvaluationEnds
        <4>3. outcome \in LiveStates
          BY DEF LiveStates, RevisableStates, ExportableStates
        <4>4. runs[r].rev + 1 \in Nat
          BY <1>2 DEF Run
        <4>5. row \in Run /\ row.state = outcome
          BY <1>2, <4>3, <4>4 DEF Run
        <4> QED BY <4>2, <4>3, <4>5 DEF Live, LiveStates, ActiveStates
      <3>5. CASE \E outcome \in {"review", "cancelled"} : JobFails(r, outcome)
        <4>1. PICK outcome \in {"review", "cancelled"} : JobFails(r, outcome)
          BY <3>5
        <4> DEFINE row == [runs[r] EXCEPT !.state = outcome]
        <4>2. Mutate(r, row) /\ runs[r].state \in ActiveStates
          BY <4>1 DEF JobFails
        <4>3. outcome \in LiveStates
          BY DEF LiveStates, RevisableStates
        <4>4. row \in Run /\ row.state = outcome
          BY <1>2, <4>3 DEF Run
        <4> QED BY <4>2, <4>3, <4>4 DEF Live, LiveStates, ActiveStates
      <3>6. CASE \E k \in JobKeys, type \in {"prepare", "evaluate", "recover"}, a \in Auths \cup {None} :
                    Enqueue(k, r, type, a)
        <4>1. PICK k \in JobKeys, type \in {"prepare", "evaluate", "recover"}, a \in Auths \cup {None} :
                    Enqueue(k, r, type, a)
          BY <3>6
        <4> DEFINE state == IF type = "prepare" THEN "preparing" ELSE "evaluating"
                   row == [runs[r] EXCEPT !.state = state]
        <4>2. Mutate(r, row)
          BY <4>1 DEF Enqueue
        <4>3. state \in LiveStates
          BY DEF LiveStates, ActiveStates
        <4>4. row \in Run /\ row.state = state
          BY <1>2, <4>3 DEF Run
        <4>5. Live(r)
          BY <4>1 DEF Enqueue, Prepares, Evaluates, Recovers, Live, LiveStates, RevisableStates
        <4> QED BY <4>2, <4>3, <4>4, <4>5
      <3> QED BY <1>1, <1>4, <3>1, <3>2, <3>3, <3>4, <3>5, <3>6
    <2> QED BY <1>2, <2>1, RunMutated, StoreStands
  <1> QED BY <1>3, <1>4

\* A request goes on and writes nothing about exports.
LEMMA OneStands ==
    ASSUME IInv, ReplayInv, RunsGoOn, UNCHANGED <<exports, answers, artifacts>>,
           nextFile <= nextFile', nextFile' \in Nat,
           NEW c \in Clients, NEW q, Continue(c, q), Moves(req[c], q)
    PROVE  ReplayInv'
  <1>1. \A d \in Clients : Moves(req[d], req'[d])
    BY OneMoves DEF IInv
  <1> QED BY <1>1, ExportsStand

LEMMA RequestStands ==
    ASSUME IInv, ReplayInv, RunsGoOn, UNCHANGED store,
           NEW c \in Clients, NEW q, Continue(c, q), Moves(req[c], q)
    PROVE  ReplayInv'
  <1>1. UNCHANGED <<exports, answers, artifacts, nextFile>> /\ nextFile \in Nat
    BY BoundAssumption DEF store, IInv, TypeOK
  <1> QED BY <1>1, OneStands

LEMMA IdleMoves == ASSUME NEW p PROVE Moves(p, Idle)
  BY DEF Moves, IsBinding, IsPending, Idle

LEMMA IdleStands ==
    ASSUME IInv, ReplayInv, RunsGoOn, UNCHANGED store, NEW c \in Clients, Continue(c, Idle)
    PROVE  ReplayInv'
  BY IdleMoves, RequestStands

\* A row that is found, of the run and kind that were asked for.
LEMMA FoundStands ==
    ASSUME IInv, ReplayInv, RunsGoOn, UNCHANGED store,
           NEW c \in Clients, req[c].op = "export", NEW f \in FileIds, Found(c, f),
           artifacts[f] # None, artifacts[f].run = req[c].run, artifacts[f].kind = req[c].kind
    PROVE  ReplayInv'
  <1> DEFINE pc == IF req[c].key = None THEN "answer" ELSE "bind"
             q == [req[c] EXCEPT !.pc = pc, !.got = f]
  <1>1. req[c] \in ExportRequest
    BY RequestKinds DEF IInv
  <1>2. Continue(c, q)
    BY DEF Found
  <1>3. q.op = "export" /\ q.pc \in {"answer", "bind"} /\ q.got = f /\ q.run = req[c].run /\ q.kind = req[c].kind
    BY <1>1 DEF ExportRequest
  <1> HIDE DEF q
  <1>4. Moves(req[c], q)
    BY <1>3 DEF Moves, IsBinding, IsPending, IsFound
  <1> QED BY <1>2, <1>4, RequestStands

LEMMA CreateCommitReplays ==
    ASSUME IInv, ReplayInv, NEW c \in Clients, NEW r \in Runs, CreateCommit(c, r)
    PROVE  ReplayInv'
  <1> DEFINE k == req[c].key
             b == req[c].brief
  <1>1. k \in CreateKeys /\ b \in Briefs
    BY RequestKinds DEF CreateCommit, CreateRequest, IInv
  <1>2. runs[r].state = "unused" /\ Continue(c, Idle) /\ UNCHANGED store
    BY DEF CreateCommit
  <1>3. UNCHANGED runs \/ runs' = [runs EXCEPT ![r] = NewRun(b, k)]
    BY DEF CreateCommit
  <1>4. NewRun(b, k) \in Run /\ NewRun(b, k).state = "draft"
    BY <1>1, NewRunTypes
  <1> HIDE DEF k, b
  <1>5. RunsGoOn
    BY <1>2, <1>3, <1>4, RunMade, RunsStand
  <1> QED BY <1>2, <1>5, IdleStands

\* A request that is none of an export about to store or bind its artifact.
LEMMA PlainStands ==
    ASSUME IInv, ReplayInv, UNCHANGED <<runs, store>>, NEW c \in Clients, NEW q, Continue(c, q),
           q.op # "export" \/ q.pc \in {"read", "put", "answer"}
    PROVE  ReplayInv'
  <1>1. Moves(req[c], q)
    BY DEF Moves, IsBinding, IsPending
  <1> QED BY <1>1, RunsStand, RequestStands

LEMMA CreateReadReplays ==
    ASSUME IInv, ReplayInv, NEW c \in Clients, NEW k \in CreateKeys, NEW b \in Briefs, CreateRead(c, k, b)
    PROVE  ReplayInv'
  <1> DEFINE q == [op |-> "create", key |-> k, brief |-> b]
  <1>1. Continue(c, q) /\ UNCHANGED <<runs, store>> /\ q.op # "export"
    BY DEF CreateRead
  <1> HIDE DEF q
  <1> QED BY <1>1, PlainStands

LEMMA IssueReadReplays ==
    ASSUME IInv, ReplayInv, NEW c \in Clients, NEW r \in Runs, NEW stage \in {"prepare", "evaluate"},
           IssueRead(c, r, stage)
    PROVE  ReplayInv'
  <1> DEFINE inputs == IF stage = "prepare" THEN None ELSE runs[r].inputs
             q == [op |-> "issue", run |-> r, stage |-> stage, rev |-> runs[r].rev, inputs |-> inputs]
  <1>1. Continue(c, q) /\ UNCHANGED <<runs, store>> /\ q.op # "export"
    BY DEF IssueRead
  <1> HIDE DEF q
  <1> QED BY <1>1, PlainStands

LEMMA DeleteReadReplays ==
    ASSUME IInv, ReplayInv, NEW c \in Clients, NEW r \in Runs, DeleteRead(c, r)
    PROVE  ReplayInv'
  <1> DEFINE q == [op |-> "delete", pc |-> "commit", run |-> r, ids |-> RowsOf(r)]
  <1>1. Continue(c, q) /\ UNCHANGED <<runs, store>> /\ q.op # "export"
    BY DEF DeleteRead
  <1> HIDE DEF q
  <1> QED BY <1>1, PlainStands

LEMMA UnlinkReplays == ASSUME IInv, ReplayInv, NEW c \in Clients, Unlink(c) PROVE ReplayInv'
  <1>1. req[c] \in DeleteRequest /\ UNCHANGED <<runs, artifacts, nextFile, exports, answers>>
    BY RequestKinds DEF Unlink, IInv
  <1>2. PICK q : Continue(c, q) /\ q.op # "export"
    <2>1. CASE Continue(c, Idle)
      BY <2>1 DEF Idle
    <2>2. CASE \E f \in req[c].ids : Continue(c, [req[c] EXCEPT !.ids = @ \ {f}])
      <3>1. PICK f \in req[c].ids : Continue(c, [req[c] EXCEPT !.ids = @ \ {f}])
        BY <2>2
      <3>2. [req[c] EXCEPT !.ids = @ \ {f}].op = "delete"
        BY <1>1 DEF DeleteRequest
      <3> QED BY <3>1, <3>2
    <2> QED BY <2>1, <2>2 DEF Unlink
  <1>3. Moves(req[c], q) /\ nextFile \in Nat
    BY <1>2, BoundAssumption DEF Moves, IsBinding, IsPending, IInv, TypeOK
  <1> QED BY <1>1, <1>2, <1>3, RunsStand, OneStands

LEMMA ExportReadReplays == ASSUME IInv, ReplayInv, NEW c \in Clients, ExportRead(c) PROVE ReplayInv'
  <1> DEFINE old == req[c]
             next == [old EXCEPT !.pc = "put", !.content = runs[old.run].results]
  <1>1. old.op = "export" /\ old \in ExportRequest /\ UNCHANGED <<runs, store>>
    BY RequestKinds DEF ExportRead, IInv
  <1>2. \/ old.kind = "measurement" /\ \E f \in MeasurementOf(old.run) : Found(c, f)
        \/ Continue(c, next)
        \/ Continue(c, Idle)
    BY DEF ExportRead
  <1>3. CASE old.kind = "measurement" /\ \E f \in MeasurementOf(old.run) : Found(c, f)
    <2>1. PICK f \in MeasurementOf(old.run) : Found(c, f)
      BY <1>3
    <2>2. f \in FileIds /\ artifacts[f] # None /\ artifacts[f].run = old.run /\ artifacts[f].kind = old.kind
      BY <1>3, <2>1 DEF MeasurementOf
    <2> QED BY <1>1, <2>1, <2>2, RunsStand, FoundStands
  <1>4. CASE Continue(c, next)
    <2>1. next.pc = "put"
      BY <1>1 DEF ExportRequest
    <2> HIDE DEF next
    <2> QED BY <1>1, <1>4, <2>1, PlainStands
  <1> QED BY <1>1, <1>2, <1>3, <1>4, RunsStand, IdleStands

LEMMA PutReplays == ASSUME IInv, ReplayInv, NEW c \in Clients, Put(c) PROVE ReplayInv'
  <1> DEFINE q == [req[c] EXCEPT !.pc = "persist", !.got = nextFile]
  <1>1. /\ req[c] \in ExportRequest /\ nextFile' = nextFile + 1 /\ nextFile \in Nat
        /\ Continue(c, q) /\ UNCHANGED <<runs, artifacts, exports, answers>>
    BY RequestKinds, BoundAssumption DEF Put, IInv, TypeOK
  <1>2. q.op = "export" /\ q.pc = "persist" /\ q.got = nextFile
    BY <1>1 DEF ExportRequest
  <1> HIDE DEF q
  <1>3. Moves(req[c], q)
    BY <1>2 DEF Moves, IsPending
  <1>4. nextFile <= nextFile' /\ nextFile' \in Nat
    BY <1>1
  <1> QED BY <1>1, <1>3, <1>4, RunsStand, OneStands

LEMMA TwinsAreFound ==
    ASSUME IInv, ReplayInv, UNCHANGED <<runs, store>>, NEW c \in Clients, req[c].op = "export",
           \E f \in TwinsOf(req[c]) : Found(c, f)
    PROVE  ReplayInv'
  <1>1. PICK f \in TwinsOf(req[c]) : Found(c, f)
    OBVIOUS
  <1>2. f \in FileIds /\ artifacts[f] # None /\ artifacts[f].run = req[c].run /\ artifacts[f].kind = req[c].kind
    BY <1>1 DEF TwinsOf
  <1> QED BY <1>1, <1>2, RunsStand, FoundStands

LEMMA CompanionReadReplays == ASSUME IInv, ReplayInv, NEW c \in Clients, CompanionRead(c) PROVE ReplayInv'
  <1> DEFINE q == [req[c] EXCEPT !.pc = "insert"]
  <1>1. /\ req[c] \in ExportRequest /\ req[c].op = "export" /\ req[c].pc = "persist"
        /\ UNCHANGED <<runs, store>>
    BY RequestKinds DEF CompanionRead, IInv
  <1>2. \/ \E f \in TwinsOf(req[c]) : Found(c, f)
        \/ Continue(c, q)
        \/ Continue(c, Idle)
    BY DEF CompanionRead
  <1>3. CASE Continue(c, q)
    <2>1. q.op = "export" /\ q.pc = "insert" /\ q.got = req[c].got
      BY <1>1 DEF ExportRequest
    <2> HIDE DEF q
    <2>2. Moves(req[c], q)
      BY <1>1, <2>1 DEF Moves, IsPending
    <2> QED BY <1>1, <1>3, <2>2, RunsStand, RequestStands
  <1> QED BY <1>1, <1>2, <1>3, RunsStand, TwinsAreFound, IdleStands

\* The row of an export is written under a number that no key is bound to.
LEMMA WrittenStands ==
    ASSUME IInv, ReplayInv, RunsGoOn, UNCHANGED <<nextFile, exports, answers>>,
           NEW c \in Clients, IsPending(req[c]),
           artifacts' = [artifacts EXCEPT ![req[c].got] = Row(req[c])], Found(c, req[c].got)
    PROVE  ReplayInv'
  <1> DEFINE g == req[c].got
             pc == IF req[c].key = None THEN "answer" ELSE "bind"
             q == [req[c] EXCEPT !.pc = pc, !.got = g]
  <1>1. /\ req[c] \in ExportRequest /\ g \in FileIds /\ g < nextFile /\ artifacts[g] = None
        /\ Continue(c, q)
    BY RequestKinds DEF IInv, IsPending, FilesAreApart, HasFile, Found
  <1>2. /\ q.op = "export" /\ q.pc \in {"answer", "bind"} /\ q.got = g
        /\ q.run = req[c].run /\ q.kind = req[c].kind
    BY <1>1 DEF ExportRequest
  <1>3. \A f \in FileIds : artifacts'[f] = IF f = g THEN Row(req[c]) ELSE artifacts[f]
    BY DEF IInv, TypeOK
  <1> HIDE DEF q
  <1>4. \A d \in Clients : req'[d] = IF d = c THEN q ELSE req[d]
    BY <1>1 DEF Continue, IInv, TypeOK
  <1>5. BoundKeysLead' /\ AnswersAreBound'
    <2>1. \A f \in FileIds : artifacts[f] # None => artifacts'[f] = artifacts[f]
      BY <1>1, <1>3
    <2> QED BY <2>1, KeysStand
  <1>6. BindingsLead'
    <2> SUFFICES ASSUME NEW d \in Clients, IsBinding(req'[d])
                 PROVE  req'[d].got < nextFile /\ IsFound(req[d])'
      BY DEF BindingsLead, IsBinding
    <2>1. CASE d = c
      <3>1. artifacts'[g].run = req[c].run /\ artifacts'[g].kind = req[c].kind
        BY <1>1, <1>3 DEF Row
      <3> QED BY <1>1, <1>2, <1>4, <2>1, <3>1 DEF IsFound
    <2>2. CASE d # c
      <3>1. req'[d] = req[d] /\ IsBinding(req[d])
        BY <1>4, <2>2
      <3>2. req[d].got \in FileIds /\ req[d].got # g
        BY <3>1 DEF IInv, FilesAreApart, IsBound, IsBinding, ReplayInv, BindingsAreApart
      <3> QED BY <1>3, <3>1, <3>2 DEF ReplayInv, BindingsLead, IsFound
    <2> QED BY <2>1, <2>2
  <1>7. BindingsAreApart'
    <2> SUFFICES ASSUME NEW d \in Clients, NEW e \in Clients, IsBinding(req'[d]), IsPending(req'[e])
                 PROVE  req'[d].got # req'[e].got
      BY DEF BindingsAreApart, IsBinding, IsPending
    <2>1. e # c /\ req'[e] = req[e] /\ IsPending(req[e])
      BY <1>2, <1>4 DEF IsPending
    <2>2. req[e].got # g
      BY <2>1 DEF IInv, FilesAreApart, Apart
    <2> QED BY <1>2, <1>4, <2>1, <2>2 DEF ReplayInv, BindingsAreApart
  <1> QED BY <1>5, <1>6, <1>7 DEF ReplayInv

LEMMA PersistExportReplays == ASSUME IInv, ReplayInv, NEW c \in Clients, PersistExport(c) PROVE ReplayInv'
  <1>0. req[c] \in ExportRequest
    BY RequestKinds DEF PersistExport, IInv
  <1>. PICK r \in Runs : r = req[c].run
    BY <1>0 DEF ExportRequest
  <1>1. /\ req[c].op = "export" /\ req[c].pc = "persist" /\ req[c].kind = "measurement"
        /\ UNCHANGED <<nextFile, files, exports, answers>>
    BY DEF PersistExport
  <1>2. CASE runs[r].state = "exported"
    <2>1. PICK f \in MeasurementOf(r) : Found(c, f)
      BY <1>2 DEF PersistExport
    <2>2. f \in FileIds /\ artifacts[f] # None /\ artifacts[f].run = r /\ artifacts[f].kind = "measurement"
      BY <2>1 DEF MeasurementOf
    <2>3. UNCHANGED <<runs, store>>
      BY <1>1, <1>2 DEF PersistExport, store
    <2> QED BY <1>1, <2>1, <2>2, <2>3, RunsStand, FoundStands
  <1>3. CASE runs[r].state # "exported" /\ ~ Exportable(req[c])
    <2>1. UNCHANGED <<runs, store>> /\ Continue(c, Idle)
      BY <1>1, <1>3 DEF PersistExport, store
    <2> QED BY <2>1, RunsStand, IdleStands
  <1>4. CASE runs[r].state # "exported" /\ Exportable(req[c])
    <2> DEFINE row == [runs[r] EXCEPT !.state = "exported"]
    <2>1. /\ artifacts' = [artifacts EXCEPT ![req[c].got] = Row(req[c])] /\ Found(c, req[c].got)
          /\ Mutate(r, row)
      BY <1>4 DEF PersistExport
    <2>2. row \in Run /\ row.state = "exported"
      BY DEF IInv, TypeOK, Run, LiveStates
    <2>3. Live(r)
      BY <1>4 DEF Exportable, Live, LiveStates, RevisableStates, ExportableStates
    <2> HIDE DEF row
    <2>4. RunsGoOn
      BY <2>1, <2>2, <2>3, RunMutated DEF LiveStates
    <2> QED BY <1>1, <2>1, <2>4, WrittenStands DEF IsPending
  <1> QED BY <1>2, <1>3, <1>4

LEMMA CompanionInsertReplays ==
    ASSUME IInv, ReplayInv, NEW c \in Clients, CompanionInsert(c)
    PROVE  ReplayInv'
  <1>1. /\ req[c].op = "export" /\ req[c].pc = "insert"
        /\ UNCHANGED <<runs, files, nextFile, exports, answers>>
    BY DEF CompanionInsert
  <1>2. \/ Continue(c, Idle) /\ UNCHANGED artifacts
        \/ (\E f \in TwinsOf(req[c]) : Found(c, f)) /\ UNCHANGED artifacts
        \/ artifacts' = [artifacts EXCEPT ![req[c].got] = Row(req[c])] /\ Found(c, req[c].got)
    BY DEF CompanionInsert
  <1>3. UNCHANGED artifacts => UNCHANGED store
    BY <1>1 DEF store
  <1> QED BY <1>1, <1>2, <1>3, RunsStand, IdleStands, TwinsAreFound, WrittenStands DEF IsPending

\* A key is answered with the artifact it is bound to.
LEMMA AnswersGrow ==
    ASSUME IInv, ReplayInv, UNCHANGED <<runs, artifacts>>, NEW q \in ExportRequest, q.key \in ExportKeys,
           NEW f \in FileIds, Answered(q, f), exports' \in [ExportKeys -> {None} \cup ExportRow],
           exports'[q.key] = [hash |-> Hash(q), artifact |-> f],
           exports[q.key] = exports'[q.key] \/ exports[q.key] = [hash |-> Hash(q), artifact |-> None],
           \A k \in ExportKeys : k # q.key => exports'[k] = exports[k],
           artifacts[f] # None, artifacts[f].run = q.run, artifacts[f].kind = q.kind
    PROVE  BoundKeysLead' /\ AnswersAreBound'
  <1> DEFINE reply == [hash |-> Hash(q), got |-> f]
             asked == [hash |-> Hash(q), artifact |-> None]
             bound == [hash |-> Hash(q), artifact |-> f]
  <1>1. \A k \in ExportKeys : answers'[k] = IF k = q.key THEN answers[k] \cup {reply} ELSE answers[k]
    BY ExportTypes, NoneAssumption DEF Answered
  <1>2. Hash(q) \in ExportHash /\ Hash(q).run = q.run /\ Hash(q).kind = q.kind
    BY HashTypes DEF Hash
  <1>3. /\ reply.hash = Hash(q) /\ reply.got = f
        /\ asked.hash = Hash(q) /\ asked.artifact = None /\ bound.hash = Hash(q) /\ bound.artifact = f
    OBVIOUS
  <1>4. f # None /\ asked \in ExportRow /\ bound \in ExportRow
    BY <1>2, RowAssumption DEF ExportRow
  <1>5. exports[q.key] \in {asked, bound} /\ exports'[q.key] = bound /\ None \notin {asked, bound}
    BY <1>4, RowAssumption
  <1> HIDE DEF reply, asked, bound
  <1>6. Live(q.run)
    BY <1>2, <1>3, <1>5 DEF ReplayInv, BoundKeysLead
  <1>7. BoundKeysLead'
    <2> SUFFICES ASSUME NEW k \in ExportKeys, exports'[k] # None
                 PROVE  /\ Live(exports'[k].hash.run)
                        /\ exports'[k].artifact # None =>
                              LET row == artifacts[exports'[k].artifact] IN
                              row # None /\ row.run = exports'[k].hash.run /\ row.kind = exports'[k].hash.kind
      BY DEF BoundKeysLead, Live
    <2>1. CASE k = q.key
      BY <1>2, <1>3, <1>5, <1>6, <2>1
    <2>2. CASE k # q.key
      BY <2>2 DEF ReplayInv, BoundKeysLead
    <2> QED BY <2>1, <2>2
  <1>8. AnswersAreBound'
    <2> SUFFICES ASSUME NEW k \in ExportKeys, NEW x \in answers'[k]
                 PROVE  /\ runs[x.hash.run].state # "unused"
                        /\ Live(x.hash.run) => exports'[k] = [hash |-> x.hash, artifact |-> x.got]
      BY DEF AnswersAreBound, Live
    <2>1. CASE k = q.key /\ x = reply
      BY <1>2, <1>3, <1>5, <1>6, <2>1 DEF bound, Live, LiveStates, ActiveStates, RevisableStates
    <2>2. CASE x \in answers[k] /\ k # q.key
      BY <2>2 DEF ReplayInv, AnswersAreBound
    <2>3. CASE x \in answers[k] /\ k = q.key
      <3>1. /\ runs[x.hash.run].state # "unused" /\ x.got \in FileIds
            /\ Live(x.hash.run) => exports[k] = [hash |-> x.hash, artifact |-> x.got]
        BY <2>3, ExportTypes DEF ReplayInv, AnswersAreBound, Reply
      <3>2. Live(x.hash.run) => exports[k].artifact # None
        BY <3>1, RowAssumption
      <3> QED BY <1>3, <1>5, <2>3, <3>1, <3>2
    <2> QED BY <1>1, <2>1, <2>2, <2>3
  <1> QED BY <1>7, <1>8

LEMMA BindReplays == ASSUME IInv, ReplayInv, NEW c \in Clients, Bind(c) PROVE ReplayInv'
  <1> DEFINE q == req[c]
  <1>1. /\ q \in ExportRequest /\ q.got \in FileIds /\ q.key \in ExportKeys /\ IsBinding(q)
        /\ UNCHANGED <<runs, artifacts, nextFile>> /\ Continue(c, Idle)
    BY RequestKinds DEF Bind, IInv, FilesAreApart, IsBound, IsBinding
  <1>2. BindingsLead' /\ BindingsAreApart'
    <2>1. nextFile <= nextFile' /\ nextFile' \in Nat
      BY <1>1, BoundAssumption DEF IInv, TypeOK
    <2>2. \A d \in Clients : Moves(req[d], req'[d])
      BY <1>1, IdleMoves, OneMoves DEF IInv
    <2> QED BY <1>1, <2>1, <2>2, MovesKeepBindings
  <1>3. CASE UNCHANGED <<exports, answers>>
    BY <1>1, <1>2, <1>3, RunsStand, KeysStand DEF ReplayInv
  <1>4. CASE ~ UNCHANGED <<exports, answers>>
    <2>1. /\ exports[q.key] # None /\ SameRequest(q.key, q) /\ artifacts[q.got] # None
          /\ \/ /\ exports[q.key].artifact = None /\ Answered(q, q.got)
                /\ exports' = [exports EXCEPT ![q.key].artifact = q.got]
             \/ /\ exports[q.key].artifact # None /\ Answered(q, exports[q.key].artifact)
                /\ UNCHANGED exports
      BY <1>4 DEF Bind
    <2>2. exports[q.key] \in ExportRow /\ exports[q.key].hash = Hash(q)
      BY <1>1, <2>1, ExportTypes DEF SameRequest
    <2>3. exports[q.key] = [hash |-> Hash(q), artifact |-> exports[q.key].artifact]
      BY <2>2 DEF ExportRow
    <2>4. CASE exports[q.key].artifact = None
      <3>1. exports' = [exports EXCEPT ![q.key].artifact = q.got] /\ Answered(q, q.got)
        BY <2>1, <2>4
      <3> DEFINE bound == [hash |-> Hash(q), artifact |-> q.got]
      <3>2. bound \in ExportRow /\ [exports[q.key] EXCEPT !.artifact = q.got] = bound
        BY <1>1, <2>2, HashTypes DEF ExportRow
      <3>3. exports' = [exports EXCEPT ![q.key] = bound]
        BY <3>1, <3>2
      <3> HIDE DEF bound
      <3>4. /\ exports' \in [ExportKeys -> {None} \cup ExportRow] /\ exports'[q.key] = bound
            /\ \A k \in ExportKeys : k # q.key => exports'[k] = exports[k]
        BY <1>1, <3>2, <3>3, ExportTypes
      <3>5. artifacts[q.got].run = q.run /\ artifacts[q.got].kind = q.kind
        BY <1>1, <2>1 DEF ReplayInv, BindingsLead, IsFound
      <3>6. exports[q.key] = [hash |-> Hash(q), artifact |-> None]
        BY <2>3, <2>4
      <3>7. BoundKeysLead' /\ AnswersAreBound'
        <4> HIDE DEF q
        <4> QED BY <1>1, <2>1, <3>1, <3>4, <3>5, <3>6, AnswersGrow DEF bound
      <3> QED BY <1>2, <3>7 DEF ReplayInv
    <2>5. CASE exports[q.key].artifact # None
      <3>1. PICK f \in FileIds : f = exports[q.key].artifact
        BY <2>2, <2>5 DEF ExportRow
      <3>2. Answered(q, f) /\ UNCHANGED exports
        BY <2>1, <2>5, <3>1
      <3>3. artifacts[f] # None /\ artifacts[f].run = q.run /\ artifacts[f].kind = q.kind
        BY <1>1, <2>1, <2>2, <2>5, <3>1 DEF ReplayInv, BoundKeysLead, Hash
      <3>4. exports[q.key] = [hash |-> Hash(q), artifact |-> f]
        BY <2>3, <3>1
      <3>5. BoundKeysLead' /\ AnswersAreBound'
        <4> HIDE DEF q
        <4> QED BY <1>1, <3>2, <3>3, <3>4, ExportTypes, AnswersGrow
      <3> QED BY <1>2, <3>5 DEF ReplayInv
    <2> QED BY <2>4, <2>5
  <1> QED BY <1>3, <1>4

LEMMA ExportBeginReplays ==
    ASSUME IInv, ReplayInv, NEW c \in Clients, NEW k \in ExportKeys \cup {None}, NEW r \in Runs,
           NEW kind \in Kinds, NEW rev \in Nat, ExportBegin(c, k, r, kind, rev)
    PROVE  ReplayInv'
  <1> DEFINE q == [op |-> "export", pc |-> "read", key |-> k, run |-> r, kind |-> kind, rev |-> rev,
                   content |-> 0, got |-> 0]
  <1>1. /\ q \in ExportRequest /\ q.op = "export" /\ q.pc = "read" /\ q.key = k /\ q.run = r /\ q.kind = kind
        /\ UNCHANGED <<runs, artifacts, files, nextFile>> /\ Live(r)
    BY DEF ExportRequest, ExportBegin
  <1>2. \/ k = None /\ UNCHANGED <<exports, answers>> /\ Continue(c, q)
        \/ /\ k # None /\ exports[k] = None /\ UNCHANGED answers /\ Continue(c, q)
           /\ exports' = [exports EXCEPT ![k] = [hash |-> Hash(q), artifact |-> None]]
        \/ k # None /\ UNCHANGED <<exports, answers>> /\ Continue(c, q)
        \/ /\ k # None /\ exports[k] # None /\ SameRequest(k, q) /\ exports[k].artifact # None
           /\ Answered(q, exports[k].artifact) /\ UNCHANGED <<exports, req>>
    BY DEF ExportBegin
  <1> HIDE DEF q
  <1>3. CASE UNCHANGED <<exports, answers>> /\ Continue(c, q)
    <2>1. UNCHANGED store
      BY <1>1, <1>3 DEF store
    <2> QED BY <1>1, <1>3, <2>1, PlainStands
  <1>4. BindingsLead' /\ BindingsAreApart'
    <2>1. nextFile <= nextFile' /\ nextFile' \in Nat
      BY <1>1, BoundAssumption DEF IInv, TypeOK
    <2>2. \A d \in Clients : Moves(req[d], req'[d])
      <3>1. Moves(req[c], q)
        BY <1>1 DEF Moves, IsBinding, IsPending
      <3> QED BY <1>2, <3>1, OneMoves, NoneMoves DEF IInv
    <2> QED BY <1>1, <2>1, <2>2, MovesKeepBindings
  <1>5. CASE /\ k # None /\ exports[k] = None /\ UNCHANGED answers
             /\ exports' = [exports EXCEPT ![k] = [hash |-> Hash(q), artifact |-> None]]
    <2> DEFINE asked == [hash |-> Hash(q), artifact |-> None]
    <2>1. /\ k \in ExportKeys /\ asked.hash.run = r /\ asked.artifact = None
          /\ \A x \in ExportKeys : exports'[x] = IF x = k THEN asked ELSE exports[x]
      BY <1>1, <1>5, ExportTypes DEF Hash
    <2> HIDE DEF asked
    <2>2. BoundKeysLead'
      <3> SUFFICES ASSUME NEW x \in ExportKeys, exports'[x] # None
                   PROVE  /\ Live(exports'[x].hash.run)
                          /\ exports'[x].artifact # None =>
                                LET row == artifacts[exports'[x].artifact] IN
                                row # None /\ row.run = exports'[x].hash.run /\ row.kind = exports'[x].hash.kind
        BY <1>1 DEF BoundKeysLead, Live
      <3>1. CASE x = k
        BY <1>1, <2>1, <3>1
      <3>2. CASE x # k
        BY <2>1, <3>2 DEF ReplayInv, BoundKeysLead
      <3> QED BY <3>1, <3>2
    <2>3. AnswersAreBound'
      <3> SUFFICES ASSUME NEW x \in ExportKeys, NEW y \in answers[x]
                   PROVE  /\ runs[y.hash.run].state # "unused"
                          /\ Live(y.hash.run) => exports'[x] = [hash |-> y.hash, artifact |-> y.got]
        BY <1>1, <1>5 DEF AnswersAreBound, Live
      <3> DEFINE bound == [hash |-> y.hash, artifact |-> y.got]
      <3>1. runs[y.hash.run].state # "unused" /\ (Live(y.hash.run) => exports[x] = bound)
        BY DEF ReplayInv, AnswersAreBound
      <3>2. bound # None
        BY ExportTypes, RowAssumption DEF Reply, ExportRow
      <3> HIDE DEF bound
      <3>3. Live(y.hash.run) => x # k
        BY <1>5, <3>1, <3>2
      <3> QED BY <2>1, <3>1, <3>3 DEF bound
    <2> QED BY <1>4, <2>2, <2>3 DEF ReplayInv
  <1>6. CASE /\ k # None /\ exports[k] # None /\ SameRequest(k, q) /\ exports[k].artifact # None
             /\ Answered(q, exports[k].artifact) /\ UNCHANGED <<exports, req>>
    <2>1. k \in ExportKeys /\ exports[k] \in ExportRow /\ exports[k].hash = Hash(q)
      BY <1>6, ExportTypes DEF SameRequest
    <2>2. PICK f \in FileIds : f = exports[k].artifact
      BY <1>6, <2>1 DEF ExportRow
    <2>3. exports[k] = [hash |-> Hash(q), artifact |-> f]
      BY <2>1, <2>2 DEF ExportRow
    <2>4. artifacts[f] # None /\ artifacts[f].run = q.run /\ artifacts[f].kind = q.kind
      BY <1>6, <2>1, <2>2 DEF ReplayInv, BoundKeysLead, Hash
    <2>5. BoundKeysLead' /\ AnswersAreBound'
      BY <1>1, <1>6, <2>1, <2>2, <2>3, <2>4, ExportTypes, AnswersGrow
    <2> QED BY <1>4, <2>5 DEF ReplayInv
  <1> QED BY <1>2, <1>3, <1>5, <1>6

\* A deletion takes the keys that mention the run with it, and its artifacts alone.
LEMMA DeleteCommitReplays == ASSUME IInv, ReplayInv, NEW c \in Clients, DeleteCommit(c) PROVE ReplayInv'
  <1>1. req[c] \in DeleteRequest /\ req[c].pc = "commit" /\ req[c].op = "delete"
    BY RequestKinds DEF DeleteCommit, IInv
  <1>2. PICK r \in Runs : r = req[c].run
    BY <1>1 DEF DeleteRequest
  <1>3. PICK ids \in SUBSET FileIds : ids = req[c].ids
    BY <1>1 DEF DeleteRequest
  <1>4. CASE ~ (Live(r) /\ Unreferenced(r, ids))
    <2>1. UNCHANGED <<runs, store>> /\ Continue(c, Idle)
      BY <1>2, <1>3, <1>4 DEF DeleteCommit, store
    <2> QED BY <2>1, RunsStand, IdleStands
  <1>5. CASE Live(r) /\ Unreferenced(r, ids)
    <2> DEFINE gone == [NoRun EXCEPT !.state = "deleted"]
               q == [req[c] EXCEPT !.pc = "unlink"]
    <2>1. /\ runs' = [runs EXCEPT ![r] = gone]
          /\ exports' = WithoutRows(exports, RequestsOf(r, ids))
          /\ artifacts' = WithoutRows(artifacts, ids)
          /\ Continue(c, q) /\ UNCHANGED <<nextFile, answers>>
      BY <1>2, <1>3, <1>5 DEF DeleteCommit
    <2>2. gone.state = "deleted" /\ q.op = "delete"
      BY <1>1 DEF NoRun, DeleteRequest
    <2> HIDE DEF gone, q
    <2>3. \A x \in Runs : runs'[x] = IF x = r THEN gone ELSE runs[x]
      BY <2>1 DEF IInv, TypeOK
    <2>4. \A f \in FileIds : artifacts'[f] = IF f \in ids THEN None ELSE artifacts[f]
      BY <2>1 DEF IInv, TypeOK, WithoutRows
    <2>5. \A k \in ExportKeys : exports'[k] = IF k \in RequestsOf(r, ids) THEN None ELSE exports[k]
      BY <2>1, ExportTypes DEF WithoutRows
    <2>6. \A f \in ids : artifacts[f] = None \/ artifacts[f].run = r
      BY <1>1, <1>2, <1>3 DEF IInv, FilesAreApart, Removes
    <2>7. BindingsLead' /\ BindingsAreApart'
      <3>1. nextFile <= nextFile' /\ nextFile' \in Nat
        BY <2>1, BoundAssumption DEF IInv, TypeOK
      <3>2. \A d \in Clients : Moves(req[d], req'[d])
        <4>1. Moves(req[c], q)
          BY <2>2 DEF Moves, IsBinding, IsPending
        <4> QED BY <2>1, <4>1, OneMoves DEF IInv
      <3>3. \A f \in FileIds : artifacts'[f] \in {None, artifacts[f]}
        BY <2>4
      <3> QED BY <3>1, <3>2, <3>3, MovesKeepBindings
    <2>8. BoundKeysLead'
      <3> SUFFICES ASSUME NEW k \in ExportKeys, exports'[k] # None
                   PROVE  /\ runs'[exports'[k].hash.run].state \in LiveStates
                          /\ exports'[k].artifact # None =>
                                LET row == artifacts'[exports'[k].artifact] IN
                                row # None /\ row.run = exports'[k].hash.run /\ row.kind = exports'[k].hash.kind
        BY DEF BoundKeysLead, Live
      <3>1. /\ exports'[k] = exports[k] /\ exports[k] # None /\ exports[k].hash.run # r
            /\ exports[k].artifact \notin ids
        BY <2>5 DEF RequestsOf
      <3>2. exports[k].hash.run \in Runs /\ exports[k].artifact \in FileIds \cup {None}
        BY <3>1, ExportTypes DEF ExportRow, ExportHash
      <3>3. runs'[exports[k].hash.run].state \in LiveStates
        BY <2>3, <3>1, <3>2 DEF ReplayInv, BoundKeysLead, Live
      <3> QED BY <2>4, <3>1, <3>2, <3>3 DEF ReplayInv, BoundKeysLead
    <2>9. AnswersAreBound'
      <3> SUFFICES ASSUME NEW k \in ExportKeys, NEW x \in answers[k]
                   PROVE  /\ runs'[x.hash.run].state # "unused"
                          /\ Live(x.hash.run)' => exports'[k] = [hash |-> x.hash, artifact |-> x.got]
        BY <2>1 DEF AnswersAreBound, Live
      <3> DEFINE bound == [hash |-> x.hash, artifact |-> x.got]
      <3>1. x.hash.run \in Runs /\ x.got \in FileIds /\ bound # None
            /\ bound.hash = x.hash /\ bound.artifact = x.got
        BY ExportTypes, RowAssumption DEF Reply, ExportRow, ExportHash
      <3>2. runs[x.hash.run].state # "unused" /\ (Live(x.hash.run) => exports[k] = bound)
        BY DEF ReplayInv, AnswersAreBound
      <3> HIDE DEF bound
      <3>3. runs'[x.hash.run].state # "unused"
        BY <2>2, <2>3, <3>1, <3>2
      <3>4. ASSUME Live(x.hash.run)' PROVE exports'[k] = bound
        <4>1. x.hash.run # r /\ Live(x.hash.run)
          BY <2>2, <2>3, <3>1, <3>4 DEF Live, LiveStates, ActiveStates, RevisableStates
        <4>2. artifacts[x.got] # None /\ artifacts[x.got].run = x.hash.run
          BY <3>1, <3>2, <4>1, RowAssumption DEF ReplayInv, BoundKeysLead
        <4>3. k \notin RequestsOf(r, ids)
          BY <2>6, <3>1, <3>2, <4>1, <4>2 DEF RequestsOf
        <4> QED BY <2>5, <3>2, <4>1, <4>3
      <3> QED BY <3>3, <3>4 DEF bound
    <2> QED BY <2>7, <2>8, <2>9 DEF ReplayInv
  <1> QED BY <1>4, <1>5

LEMMA InitReplays == ASSUME Init PROVE ReplayInv
  BY DEF Init, Idle, ReplayInv, BoundKeysLead, AnswersAreBound, BindingsLead, BindingsAreApart,
         IsBinding, IsPending

LEMMA RequestStepReplays == ASSUME IInv, ReplayInv, RequestStep PROVE ReplayInv'
  <1>1. PICK c \in Clients :
            \/ \E k \in CreateKeys, b \in Briefs : CreateRead(c, k, b)
            \/ \E r \in Runs : CreateCommit(c, r)
            \/ \E r \in Runs, stage \in {"prepare", "evaluate"} : IssueRead(c, r, stage)
            \/ \E a \in Auths : IssueCommit(c, a)
            \/ \E k \in ExportKeys \cup {None}, r \in Runs, kind \in Kinds :
                  \E rev \in FirstExport .. MaxRev[r] : ExportBegin(c, k, r, kind, rev)
            \/ ExportRead(c) \/ Put(c) \/ PersistExport(c)
            \/ CompanionRead(c) \/ CompanionInsert(c) \/ Bind(c) \/ AnswerExport(c)
            \/ \E r \in Runs : DeleteRead(c, r)
            \/ DeleteCommit(c) \/ Unlink(c)
            \/ Crash(c)
    BY DEF RequestStep
  <1>2. CASE \/ \E k \in CreateKeys, b \in Briefs : CreateRead(c, k, b)
             \/ \E r \in Runs : CreateCommit(c, r)
             \/ \E r \in Runs, stage \in {"prepare", "evaluate"} : IssueRead(c, r, stage)
    BY <1>2, CreateReadReplays, CreateCommitReplays, IssueReadReplays
  <1>3. CASE \E k \in ExportKeys \cup {None}, r \in Runs, kind \in Kinds :
                \E rev \in FirstExport .. MaxRev[r] : ExportBegin(c, k, r, kind, rev)
    <2>1. PICK k \in ExportKeys \cup {None}, r \in Runs, kind \in Kinds :
                \E rev \in FirstExport .. MaxRev[r] : ExportBegin(c, k, r, kind, rev)
      BY <1>3
    <2>2. PICK rev \in Nat : ExportBegin(c, k, r, kind, rev)
      BY <2>1, BoundAssumption
    <2> QED BY <2>2, ExportBeginReplays
  <1>4. CASE ExportRead(c) \/ Put(c) \/ PersistExport(c) \/ CompanionRead(c) \/ CompanionInsert(c) \/ Bind(c)
    BY <1>4, ExportReadReplays, PutReplays, PersistExportReplays, CompanionReadReplays,
       CompanionInsertReplays, BindReplays
  <1>5. CASE (\E r \in Runs : DeleteRead(c, r)) \/ DeleteCommit(c) \/ Unlink(c)
    BY <1>5, DeleteReadReplays, DeleteCommitReplays, UnlinkReplays
  <1>6. CASE (\E a \in Auths : IssueCommit(c, a)) \/ AnswerExport(c) \/ Crash(c)
    <2>1. UNCHANGED <<runs, store>> /\ Continue(c, Idle)
      BY <1>6 DEF IssueCommit, AnswerExport, Crash
    <2> QED BY <2>1, RunsStand, IdleStands
  <1> QED BY <1>1, <1>2, <1>3, <1>4, <1>5, <1>6

LEMMA NextReplays == ASSUME IInv, ReplayInv, [Next]_vars PROVE ReplayInv'
  <1>1. CASE RunStep
    BY <1>1, RunStepReplays
  <1>2. CASE RequestStep
    BY <1>2, RequestStepReplays
  <1>3. CASE (\E a \in Auths : Expire(a)) \/ UNCHANGED vars
    <2>1. UNCHANGED <<runs, store, req>>
      BY <1>3 DEF Expire, vars, store
    <2> QED BY <2>1, RunsStand, StoreStands
  <1> QED BY <1>1, <1>2, <1>3 DEF Next

\* What keys and requests say of artifacts stays true on top of the invariant of
\* the records: a key of a run that lives leads to what it was answered with, and
\* a number that is found is never written again (reserve_export_request,
\* bind_export_request, _delete_run_rows).
THEOREM ReplayInvariant == Spec => [](IInv /\ ReplayInv)
  <1>1. Init => IInv /\ ReplayInv
    BY InitInvariant, InitReplays
  <1>2. IInv /\ ReplayInv /\ [Next]_vars => (IInv /\ ReplayInv)'
    BY NextInvariant, NextReplays
  <1> QED BY <1>1, <1>2, PTL DEF Spec

\* While its run lives, an export key keeps its answer: every retry is given the
\* same artifact for the same request, and it is still there, whatever exports
\* and deletions race with it and wherever a request was cut short.
THEOREM RetriesAgree == Spec => []ReplaysAgree
  <1>1. IInv /\ ReplayInv => ReplaysAgree
    <2> SUFFICES ASSUME IInv, ReplayInv PROVE ReplaysAgree
      OBVIOUS
    <2> SUFFICES ASSUME NEW k \in ExportKeys, NEW x \in answers[k], NEW y \in answers[k], Live(x.hash.run)
                 PROVE  /\ artifacts[x.got] # None
                        /\ artifacts[x.got].run = x.hash.run /\ artifacts[x.got].kind = x.hash.kind
                        /\ y.hash.run = x.hash.run => y = x
      BY DEF ReplaysAgree, ReplayInv
    <2>1. /\ x \in Reply /\ y \in Reply /\ x.got \in FileIds /\ x.got # None
      BY ExportTypes, RowAssumption DEF Reply
    <2> DEFINE bound == [hash |-> x.hash, artifact |-> x.got]
    <2>2. exports[k] = bound /\ bound # None
      BY <2>1, RowAssumption DEF ReplayInv, AnswersAreBound, Reply, ExportRow
    <2>3. artifacts[x.got] # None /\ artifacts[x.got].run = x.hash.run /\ artifacts[x.got].kind = x.hash.kind
      BY <2>1, <2>2 DEF ReplayInv, BoundKeysLead
    <2>4. ASSUME y.hash.run = x.hash.run PROVE y = x
      <3>1. [hash |-> y.hash, artifact |-> y.got] = bound
        BY <2>2, <2>4 DEF ReplayInv, AnswersAreBound
      <3>2. y.hash = x.hash /\ y.got = x.got
        BY <3>1
      <3> QED BY <2>1, <3>2 DEF Reply
    <2> QED BY <2>3, <2>4
  <1> QED BY <1>1, ReplayInvariant, PTL

=============================================================================
