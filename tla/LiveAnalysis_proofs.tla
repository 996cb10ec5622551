------------------------- MODULE LiveAnalysis_proofs -------------------------
(***************************************************************************)
(* Proofs about LiveAnalysis, for any number of runs, requests, keys,      *)
(* grants and queries.                                                     *)
(***************************************************************************)
EXTENDS LiveAnalysis, FiniteSetTheorems, TLAPS

----------------------------------------------------------------------------
(* What a request knows, by the part of its way it is on.                  *)

Asking == [pc : {"slot", "prepare"}, policy : Policies \ PagePolicies, key : Keys]
Providing == [pc : {"send", "sent", "create"}, policy : Policies, key : Keys \cup Pages,
              op : {Browse, Analyse, Propose}]
Recording == [pc : {"record"}, policy : Policies, key : Keys \cup Pages, run : Runs]
Starting == [pc : {"start"}, policy : Policies \cup {Fixture}, run : Runs, rev : 1 .. MaxRev,
             key : StartKeys]
Queries == {"search", "answer"} \X (1 .. NumQueries)
Executing == [pc : {"evaluate", "check", "claim", "call", "called", "recheck", "finish"},
              policy : Policies \cup {Fixture}, run : Runs, rev : 1 .. MaxRev, inputs : Inputs,
              i : Nat \ {0}, good : Nat, halted : BOOLEAN, op : Queries]
Finished == [pc : {"finished"}, policy : Policies]

Requests == {Idle} \cup Asking \cup Providing \cup Recording \cup Starting \cup Executing \cup Finished

\* The rows that requests write, each with its type, and the requests.
RunsOK == runs \in [Runs -> {NoRun} \cup Run]
PreparedOK == prepared \in [Policies -> {None} \cup Preparation]
Marks == {None, "started", "completed", "cancelled"}
ClaimsOK == claims \in [Policies -> [CallOps \cup {Evaluate} -> Marks]]
SlotsOK == slots \in [Keys -> {None} \cup (Grants \X (1 .. MaxSlot))]
Page == [status : {None, "running", "completed", "failed"},
         evaluation : {None, "running", "prepared", "failed"}, run : Runs \cup {None}]
PagesOK == pages \in [Pages -> Page]
SentOK == sent \in [Policies -> [CallOps -> Nat]]
AnswersOK == answers \in [Keys -> SUBSET Runs]
ThreadsOK == th \in [Threads -> Requests]

Types ==
    /\ grants \in Seq([id : Grants, payload : Authorities])
    /\ RunsOK /\ PreparedOK /\ ClaimsOK /\ SlotsOK /\ PagesOK /\ SentOK /\ AnswersOK /\ ThreadsOK

----------------------------------------------------------------------------
(* Preparation.                                                            *)

\* A request past the claim of a preparation or of a page.
Prepares(q) == q.pc \in {"send", "sent", "create", "record"}

\* Such a request holds the claim, which is for its key, and it knows no call
\* that its policy has made but the ones before its own.
HoldsClaim(q) ==
    IF q.policy \in PagePolicies
    THEN /\ q.key \in Pages /\ q.policy = <<"page", q.key>>
         /\ IF q.pc \in {"send", "sent"} /\ q.op \in {Browse, Analyse}
            THEN pages[q.key].status = "running"
            ELSE pages[q.key].status = "completed" /\ pages[q.key].evaluation = "running"
    ELSE /\ q.key \in Keys
         /\ prepared[q.policy] # None
         /\ prepared[q.policy].key = q.key
         /\ prepared[q.policy].run = None
         /\ q.pc \in {"send", "sent"} => q.op # Analyse

CallsAreAhead(q) ==
    /\ q.pc = "send" => sent[q.policy][q.op] = 0
    /\ q.pc \in {"send", "sent"} /\ q.op = Browse =>
          sent[q.policy][Analyse] = 0 /\ (q.policy \notin PagePolicies => sent[q.policy][Propose] = 0)

ClaimsAreHeld == \A t \in Threads : Prepares(th[t]) => HoldsClaim(th[t]) /\ CallsAreAhead(th[t])

OnePreparation ==
    \A s, t \in Threads :
        Prepares(th[s]) /\ Prepares(th[t]) /\ th[s].policy = th[t].policy => s = t

\* What a policy may have been used for: without a claim there was no call.
PolicyIsProper(p) ==
    /\ sent[p][Browse] <= 1 /\ sent[p][Analyse] <= 1 /\ sent[p][Propose] <= 1
    /\ IF p \in PagePolicies
       THEN LET page == pages[p[2]]
            IN  /\ page.status = None => sent[p][Browse] = 0 /\ sent[p][Analyse] = 0
                /\ page.evaluation = None => sent[p][Propose] = 0
                /\ page.evaluation # None => page.status = "completed"
       ELSE prepared[p] = None => sent[p][Browse] = 0 /\ sent[p][Analyse] = 0 /\ sent[p][Propose] = 0

Preparations == ClaimsAreHeld /\ OnePreparation /\ \A p \in Policies : PolicyIsProper(p)

----------------------------------------------------------------------------
(* Evaluation.                                                             *)

\* A request about to make a call has claimed it for itself, and nobody has
\* made it.
CallIsNew(t) ==
    th[t].pc = "call" =>
        /\ claims[th[t].policy][th[t].op] # None
        /\ sent[th[t].policy][th[t].op] = 0
        /\ \A s \in Threads : th[s].pc = "call" /\ th[s].policy = th[t].policy /\ th[s].op = th[t].op => s = t

QueriesAreCounted ==
    \A t \in Threads : th[t].pc \in {"claim", "call", "called", "recheck"} => th[t].i <= NumQueries

Calls ==
    /\ \A t \in Threads : CallIsNew(t)
    /\ \A t \in Threads : th[t].pc \in {"evaluate", "check", "claim", "call", "called", "recheck"} =>
          th[t].policy # Fixture
    /\ QueriesAreCounted
    /\ \A p \in Policies, o \in Queries :
          sent[p][o] <= 1 /\ (claims[p][o] = None => sent[p][o] = 0)

\* A request goes on with the inputs its run had at the revision it started it
\* at; the run may be at a later one by now.
Follows(q) ==
    q.pc \in {"evaluate", "check", "claim", "call", "called", "recheck", "finish"} =>
        /\ Exists(q.run)
        /\ q.rev <= runs[q.run].rev
        /\ q.rev = runs[q.run].rev => q.inputs = runs[q.run].inputs

Approved(r) == runs[r].approval = [rev |-> runs[r].rev, inputs |-> runs[r].inputs]

Approvals ==
    /\ \A t \in Threads : Follows(th[t])
    /\ \A r \in Runs : runs[r].state = "evaluating" => Approved(r)
    /\ ResultsAreApproved

\* The inductive invariant.
IInv == Types /\ Preparations /\ Calls /\ Approvals

----------------------------------------------------------------------------
(* The names of policies and of calls.                                     *)

LEMMA PolicyNames ==
    /\ Live \in Policies /\ Live \notin PagePolicies
    /\ Fixture \notin Policies /\ Fixture # Live
    /\ PagePolicies \subseteq Policies
    /\ \A x \in Pages : <<"page", x>> \in PagePolicies /\ <<"page", x>>[2] = x
    /\ \A p \in PagePolicies : p[2] \in Pages /\ p = <<"page", p[2]>>
    /\ \A p \in Grants \X (1 .. MaxSlot) : p \in Policies \ PagePolicies /\ p # Live
  BY GrantNameAssumption DEF Live, Fixture, PagePolicies, Policies

LEMMA CallNames ==
    /\ Browse # Analyse /\ Browse # Propose /\ Analyse # Propose
    /\ CallOps = {Browse, Analyse, Propose} \cup Queries
    /\ {Browse, Analyse, Propose} \cap Queries = {}
    /\ Evaluate \notin CallOps
    /\ \A i \in 1 .. NumQueries : Search(i) \in Queries /\ Answer(i) \in Queries
    /\ \A i \in 1 .. NumQueries, j \in Nat : Search(i) # Answer(j)
  BY DEF Browse, Analyse, Propose, Evaluate, CallOps, Queries, Search, Answer

----------------------------------------------------------------------------
(* Types.                                                                  *)

LEMMA BoundFacts ==
    /\ NumQueries \in Nat \ {0} /\ MaxRev \in Nat \ {0} /\ MaxSlot \in Nat
    /\ 1 \in 1 .. MaxRev /\ 1 \in 1 .. NumQueries
  BY LiveBoundAssumption

LEMMA TypesImplyTypeOK == Types => LiveTypeOK
  BY DEF Types, LiveTypeOK, RunsOK, PreparedOK, ClaimsOK, Marks, SlotsOK, PagesOK, Page, SentOK, AnswersOK

LEMMA InitTypes == ASSUME grants = <<>>, LiveInit PROVE Types
  BY DEF LiveInit, Types, RunsOK, PreparedOK, ClaimsOK, Marks, SlotsOK, PagesOK, Page, SentOK, AnswersOK,
         ThreadsOK, Requests, NoPage, Policies

\* Where a request is says what it knows.
LEMMA RequestKinds ==
    ASSUME NEW q \in Requests
    PROVE  /\ q.pc = "idle" => q = Idle
           /\ q.pc \in {"slot", "prepare"} => q \in Asking
           /\ q.pc \in {"send", "sent", "create"} => q \in Providing
           /\ q.pc = "record" => q \in Recording
           /\ q.pc = "start" => q \in Starting
           /\ q.pc \in {"evaluate", "check", "claim", "call", "called", "recheck", "finish"} => q \in Executing
           /\ q.pc = "finished" => q \in Finished
  BY DEF Requests, Asking, Providing, Recording, Starting, Executing, Finished, Idle

\* One request goes on, the others wait.
OthersWait(t) == \A s \in Threads \ {t} : th'[s] = th[s]

LEMMA GoesOn ==
    ASSUME ThreadsOK, NEW t \in Threads, NEW new \in Requests, Goto(t, new)
    PROVE  ThreadsOK' /\ th'[t] = new /\ OthersWait(t)
  BY DEF ThreadsOK, Goto, OthersWait

LEMMA Returns ==
    ASSUME ThreadsOK, NEW t \in Threads, Return(t)
    PROVE  ThreadsOK' /\ th'[t] = Idle /\ th'[t].pc = "idle" /\ OthersWait(t)
  <1>1. Idle \in Requests /\ Idle.pc = "idle"
    BY DEF Requests, Idle
  <1> QED BY <1>1, GoesOn DEF Return

\* One cell of a table of calls is written.
LEMMA CellWritten ==
    ASSUME NEW P, NEW O, NEW T, NEW f \in [P -> [O -> T]], NEW p \in P, NEW o \in O, NEW v \in T,
           NEW g, g = [f EXCEPT ![p][o] = v]
    PROVE  /\ g \in [P -> [O -> T]]
           /\ g[p][o] = v
           /\ \A a \in P, b \in O : a # p \/ b # o => g[a][b] = f[a][b]
  OBVIOUS

LEMMA CellRead ==
    ASSUME NEW P, NEW O, NEW T, NEW f \in [P -> [O -> T]], NEW p \in P, NEW o \in O
    PROVE  f[p][o] \in T
  OBVIOUS

\* A request for a preparation goes on to its claim, and then to its calls.
LEMMA AskingGoesOn ==
    ASSUME ThreadsOK, NEW t \in Threads, th[t] \in Asking, NEW p \in Policies \ PagePolicies,
           Goto(t, [th[t] EXCEPT !.pc = "prepare", !.policy = p])
    PROVE  /\ ThreadsOK' /\ OthersWait(t)
           /\ th'[t].pc = "prepare" /\ th'[t].policy = p /\ th'[t].key = th[t].key
  <1> DEFINE new == [th[t] EXCEPT !.pc = "prepare", !.policy = p]
  <1>1. new \in Requests /\ new.pc = "prepare" /\ new.policy = p /\ new.key = th[t].key
    BY DEF Asking, Requests
  <1>2. Goto(t, new)
    OBVIOUS
  <1> HIDE DEF new
  <1> QED BY <1>1, <1>2, GoesOn

SameProvision(new, q) == new.policy = q.policy /\ new.key = q.key

LEMMA ProvidingGoesOn ==
    ASSUME ThreadsOK, NEW t \in Threads, th[t] \in Providing, NEW pc \in {"send", "sent", "create"},
           NEW o \in {Browse, Analyse, Propose}, Goto(t, [th[t] EXCEPT !.pc = pc, !.op = o])
    PROVE  /\ ThreadsOK' /\ OthersWait(t)
           /\ th'[t].pc = pc /\ th'[t].op = o /\ SameProvision(th'[t], th[t])
  <1> DEFINE new == [th[t] EXCEPT !.pc = pc, !.op = o]
  <1>1. new \in Requests /\ new.pc = pc /\ new.op = o /\ SameProvision(new, th[t])
    BY DEF Providing, Requests, SameProvision
  <1>2. Goto(t, new)
    OBVIOUS
  <1> HIDE DEF new
  <1> QED BY <1>1, <1>2, GoesOn

LEMMA ProvidingWaits ==
    ASSUME ThreadsOK, NEW t \in Threads, th[t] \in Providing, NEW pc \in {"send", "sent", "create"},
           Goto(t, [th[t] EXCEPT !.pc = pc])
    PROVE  /\ ThreadsOK' /\ OthersWait(t)
           /\ th'[t].pc = pc /\ th'[t].op = th[t].op /\ SameProvision(th'[t], th[t])
  <1> DEFINE new == [th[t] EXCEPT !.pc = pc]
  <1>1. new \in Requests /\ new.pc = pc /\ new.op = th[t].op /\ SameProvision(new, th[t])
    BY DEF Providing, Requests, SameProvision
  <1>2. Goto(t, new)
    OBVIOUS
  <1> HIDE DEF new
  <1> QED BY <1>1, <1>2, GoesOn

\* The executor of an evaluation goes on with the run and inputs it knows.
SameRun(new, q) ==
    /\ new.policy = q.policy /\ new.run = q.run /\ new.rev = q.rev /\ new.inputs = q.inputs

ExecutorPcs == {"evaluate", "check", "claim", "call", "called", "recheck", "finish"}

LEMMA ExecutingGoesOn ==
    ASSUME ThreadsOK, NEW t \in Threads, th[t] \in Executing, NEW pc \in ExecutorPcs,
           Goto(t, [th[t] EXCEPT !.pc = pc])
    PROVE  /\ ThreadsOK' /\ OthersWait(t)
           /\ th'[t].pc = pc /\ th'[t].op = th[t].op /\ th'[t].i = th[t].i /\ SameRun(th'[t], th[t])
  <1> DEFINE new == [th[t] EXCEPT !.pc = pc]
  <1>1. new \in Requests /\ new.pc = pc /\ new.op = th[t].op /\ new.i = th[t].i /\ SameRun(new, th[t])
    BY DEF Executing, Requests, SameRun, ExecutorPcs
  <1>2. Goto(t, new)
    OBVIOUS
  <1> HIDE DEF new
  <1> QED BY <1>1, <1>2, GoesOn

LEMMA ExecutingClaims ==
    ASSUME ThreadsOK, NEW t \in Threads, th[t] \in Executing, NEW o \in Queries,
           Goto(t, [th[t] EXCEPT !.pc = "claim", !.op = o])
    PROVE  /\ ThreadsOK' /\ OthersWait(t)
           /\ th'[t].pc = "claim" /\ th'[t].op = o /\ th'[t].i = th[t].i /\ SameRun(th'[t], th[t])
  <1> DEFINE new == [th[t] EXCEPT !.pc = "claim", !.op = o]
  <1>1. new \in Requests /\ new.pc = "claim" /\ new.op = o /\ new.i = th[t].i /\ SameRun(new, th[t])
    BY DEF Executing, Requests, SameRun
  <1>2. Goto(t, new)
    OBVIOUS
  <1> HIDE DEF new
  <1> QED BY <1>1, <1>2, GoesOn

LEMMA ExecutingChecks ==
    ASSUME NEW q \in Executing, NEW n \in Nat \ {0}, NEW good \in Nat, NEW halted \in BOOLEAN
    PROVE  LET new == [q EXCEPT !.pc = "check", !.i = n, !.good = good, !.halted = halted]
           IN  new \in Requests /\ new.pc = "check" /\ SameRun(new, q)
  <1> DEFINE new == [q EXCEPT !.pc = "check", !.i = n, !.good = good, !.halted = halted]
  <1>1. /\ new.pc = "check" /\ new.i = n /\ new.good = good /\ new.halted = halted
        /\ SameRun(new, q) /\ new.op = q.op
    BY DEF Executing, SameRun
  <1>2. new \in Executing
    BY DEF Executing
  <1> QED BY <1>1, <1>2 DEF Requests

LEMMA NextQueryGoesOn ==
    ASSUME ThreadsOK, NEW t \in Threads, th[t] \in Executing, NEW good \in Nat, NEW halted \in BOOLEAN,
           NextQuery(t, good, halted)
    PROVE  /\ ThreadsOK' /\ OthersWait(t)
           /\ th'[t].pc = "check" /\ SameRun(th'[t], th[t])
  <1> DEFINE new == [th[t] EXCEPT !.pc = "check", !.i = th[t].i + 1, !.good = good, !.halted = halted]
  <1>1. /\ new \in Requests
        /\ new.pc = "check" /\ SameRun(new, th[t])
    <2>1. th[t].i + 1 \in Nat \ {0}
      BY DEF Executing
    <2> QED BY <2>1, ExecutingChecks
  <1>2. Goto(t, new)
    BY DEF NextQuery
  <1> HIDE DEF new
  <1> QED BY <1>1, <1>2, GoesOn

LEMMA ElementOfSeq == ASSUME NEW S, NEW s \in Seq(S), NEW i \in DOMAIN s PROVE s[i] \in S
  OBVIOUS

\* A request finds the slot of its key, or none, or is given one of a grant
\* that has room.
LEMMA SlotFoundOrGiven ==
    ASSUME Types, NEW t \in Threads, TakeSlot(t)
    PROVE  \/ /\ slots[th[t].key] # None
              /\ Goto(t, [th[t] EXCEPT !.pc = "prepare", !.policy = slots[th[t].key]])
              /\ UNCHANGED slots
           \/ /\ Return(t)
              /\ UNCHANGED slots
           \/ /\ slots[th[t].key] = None
              /\ \E i \in DOMAIN grants :
                   LET g == grants[i].id
                   IN  /\ g \in Grants
                       /\ Claimed(g) \in Nat /\ Claimed(g) < grants[i].payload.runs
                       /\ grants[i].payload.runs \in Nat
                       /\ Claimed(g) + 1 \in 1 .. MaxSlot
                       /\ slots' = [slots EXCEPT ![th[t].key] = <<g, Claimed(g) + 1>>]
                       /\ Goto(t, [th[t] EXCEPT !.pc = "prepare", !.policy = <<g, Claimed(g) + 1>>])
  <1>1. ASSUME NEW i \in DOMAIN grants, HasRoom(i)
        PROVE  LET g == grants[i].id
               IN  /\ g \in Grants
                   /\ Claimed(g) \in Nat /\ Claimed(g) < grants[i].payload.runs
                   /\ grants[i].payload.runs \in Nat
                   /\ Claimed(g) + 1 \in 1 .. MaxSlot
    <2> DEFINE g == grants[i].id
    <2>1. grants[i] \in [id : Grants, payload : Authorities]
      <3>1. grants \in Seq([id : Grants, payload : Authorities])
        BY DEF Types
      <3> QED BY <3>1, ElementOfSeq
    <2>2. Claimed(g) \in Nat
      <3>1. IsFiniteSet({k \in Keys : slots[k] # None /\ slots[k][1] = g})
        BY SlotAssumption, FS_Subset
      <3> QED BY <3>1, FS_CardinalityType DEF Claimed
    <2>3. Claimed(g) < grants[i].payload.runs
      BY <1>1 DEF HasRoom
    <2>4. grants[i].payload.runs \in Nat /\ grants[i].payload.runs <= MaxSlot
      BY <2>1, AuthoritiesAssumption, SlotAssumption
    <2> HIDE DEF g
    <2>5. Claimed(g) + 1 \in 1 .. MaxSlot
      BY <2>2, <2>3, <2>4, BoundFacts
    <2> QED BY <2>1, <2>2, <2>3, <2>4, <2>5 DEF g
  <1> QED BY <1>1 DEF TakeSlot

----------------------------------------------------------------------------
(* What each action does, told field by field.                             *)

LEMMA RequestPreparationEffect ==
    ASSUME Types, NEW t \in Threads, NEW k \in Keys, RequestPreparation(t, k), UNCHANGED grants
    PROVE  /\ Types' /\ OthersWait(t)
           /\ th'[t].key = k /\ th'[t].policy = Live
           /\ th'[t].pc \in {"prepare", "slot"}
           /\ UNCHANGED <<runs, prepared, claims, slots, pages, sent, answers>>
  <1> DEFINE new == [pc |-> IF grants = <<>> \/ (prepared[Live] # None /\ prepared[Live].key = k)
                            THEN "prepare" ELSE "slot",
                     policy |-> Live, key |-> k]
  <1>1. new \in Requests
    BY PolicyNames DEF Requests, Asking
  <1>2. Goto(t, new) /\ UNCHANGED <<runs, prepared, claims, slots, pages, sent, answers>>
    BY DEF RequestPreparation
  <1>3. /\ new.key = k /\ new.policy = Live
        /\ new.pc \in {"prepare", "slot"}
    OBVIOUS
  <1> HIDE DEF new
  <1>4. ThreadsOK' /\ th'[t] = new /\ OthersWait(t)
    BY <1>1, <1>2, GoesOn DEF Types
  <1> QED BY <1>2, <1>3, <1>4 DEF Types, RunsOK, PreparedOK, ClaimsOK, SlotsOK, PagesOK, SentOK, AnswersOK

\* A page gets a row, or one of its fields a new value.
PageWritten(x, status, evaluation) ==
    /\ pages'[x].status = status /\ pages'[x].evaluation = evaluation
    /\ \A y \in Pages \ {x} : pages'[y] = pages[y]

LEMMA AnalysePageEffect ==
    ASSUME Types, NEW t \in Threads, NEW x \in Pages, AnalysePage(t, x), UNCHANGED grants
    PROVE  /\ Types' /\ OthersWait(t)
           /\ pages[x].status = None /\ pages[x].evaluation = None
           /\ PageWritten(x, "running", None)
           /\ th'[t].pc = "send" /\ th'[t].policy = <<"page", x>> /\ th'[t].key = x /\ th'[t].op = Browse
           /\ UNCHANGED <<runs, prepared, claims, slots, sent, answers>>
  <1> DEFINE new == [pc |-> "send", policy |-> <<"page", x>>, key |-> x, op |-> Browse]
  <1>1. new \in Requests
    BY PolicyNames DEF Requests, Providing
  <1>2. /\ Goto(t, new) /\ pages[x] = NoPage
        /\ pages' = [pages EXCEPT ![x].status = "running"]
        /\ UNCHANGED <<runs, prepared, claims, slots, sent, answers>>
    BY DEF AnalysePage
  <1>3. new.pc = "send" /\ new.policy = <<"page", x>> /\ new.key = x /\ new.op = Browse
    OBVIOUS
  <1> HIDE DEF new
  <1>4. ThreadsOK' /\ th'[t] = new /\ OthersWait(t)
    BY <1>1, <1>2, GoesOn DEF Types
  <1>5. PagesOK' /\ pages[x].status = None /\ pages[x].evaluation = None /\ PageWritten(x, "running", None)
    <2>1. pages \in [Pages -> Page] /\ pages[x].status = None /\ pages[x].evaluation = None
      BY <1>2 DEF Types, PagesOK, NoPage
    <2> QED BY <1>2, <2>1 DEF PagesOK, Page, PageWritten
  <1> QED BY <1>2, <1>3, <1>4, <1>5 DEF Types, RunsOK, PreparedOK, ClaimsOK, SlotsOK, SentOK, AnswersOK

LEMMA PrepareEvaluationEffect ==
    ASSUME Types, NEW t \in Threads, NEW x \in Pages, PrepareEvaluation(t, x), UNCHANGED grants
    PROVE  /\ Types' /\ OthersWait(t)
           /\ pages[x].status = "completed" /\ pages[x].evaluation = None
           /\ PageWritten(x, "completed", "running")
           /\ th'[t].pc = "send" /\ th'[t].policy = <<"page", x>> /\ th'[t].key = x /\ th'[t].op = Propose
           /\ UNCHANGED <<runs, prepared, claims, slots, sent, answers>>
  <1> DEFINE new == [pc |-> "send", policy |-> <<"page", x>>, key |-> x, op |-> Propose]
  <1>1. new \in Requests
    BY PolicyNames DEF Requests, Providing
  <1>2. /\ Goto(t, new) /\ pages[x].status = "completed" /\ pages[x].evaluation = None
        /\ pages' = [pages EXCEPT ![x].evaluation = "running"]
        /\ UNCHANGED <<runs, prepared, claims, slots, sent, answers>>
    BY DEF PrepareEvaluation
  <1>3. new.pc = "send" /\ new.policy = <<"page", x>> /\ new.key = x /\ new.op = Propose
    OBVIOUS
  <1> HIDE DEF new
  <1>4. ThreadsOK' /\ th'[t] = new /\ OthersWait(t)
    BY <1>1, <1>2, GoesOn DEF Types
  <1>5. PagesOK' /\ PageWritten(x, "completed", "running")
    BY <1>2 DEF Types, PagesOK, Page, PageWritten
  <1> QED BY <1>2, <1>3, <1>4, <1>5 DEF Types, RunsOK, PreparedOK, ClaimsOK, SlotsOK, SentOK, AnswersOK

LEMMA RequestStartEffect ==
    ASSUME Types, NEW t \in Threads, NEW r \in Runs, NEW s \in StartKeys, RequestStart(t, r, s),
           UNCHANGED grants
    PROVE  /\ Types' /\ OthersWait(t)
           /\ th'[t].pc = "start"
           /\ UNCHANGED <<runs, prepared, claims, slots, pages, sent, answers>>
  <1> DEFINE new == [pc |-> "start", policy |-> runs[r].policy, run |-> r, rev |-> runs[r].rev, key |-> s]
  <1>1. runs[r] \in Run
    BY DEF RequestStart, Exists, Types, RunsOK, NoRun
  <1>2. new \in Requests
    BY <1>1 DEF Requests, Starting, Run
  <1>3. Goto(t, new) /\ UNCHANGED <<runs, prepared, claims, slots, pages, sent, answers>>
    BY DEF RequestStart
  <1>4. new.pc = "start"
    OBVIOUS
  <1> HIDE DEF new
  <1>5. ThreadsOK' /\ th'[t] = new /\ OthersWait(t)
    BY <1>2, <1>3, GoesOn DEF Types
  <1> QED BY <1>3, <1>4, <1>5 DEF Types, RunsOK, PreparedOK, ClaimsOK, SlotsOK, PagesOK, SentOK, AnswersOK

LEMMA TakeSlotEffect ==
    ASSUME Types, NEW t \in Threads, TakeSlot(t), UNCHANGED grants
    PROVE  /\ Types' /\ OthersWait(t)
           /\ th'[t].pc \in {"idle", "prepare"}
           /\ UNCHANGED <<runs, prepared, claims, pages, sent, answers>>
  <1>1. /\ th[t].pc = "slot"
        /\ UNCHANGED <<runs, prepared, claims, pages, sent, answers>>
    BY DEF TakeSlot, At
  <1>2. th[t] \in Requests /\ ThreadsOK
    BY DEF Types, ThreadsOK
  <1>3. th[t] \in Asking /\ th[t].key \in Keys
    BY <1>1, <1>2, RequestKinds DEF Asking
  <1>4. SlotsOK
    BY DEF Types
  <1>5. CASE /\ slots[th[t].key] # None
             /\ Goto(t, [th[t] EXCEPT !.pc = "prepare", !.policy = slots[th[t].key]])
             /\ UNCHANGED slots
    <2>1. slots[th[t].key] \in Policies \ PagePolicies
      BY <1>3, <1>4, <1>5, PolicyNames DEF SlotsOK
    <2>2. /\ ThreadsOK' /\ OthersWait(t)
          /\ th'[t].pc = "prepare" /\ th'[t].key = th[t].key /\ th'[t].policy = slots[th[t].key]
      BY <1>2, <1>3, <1>5, <2>1, AskingGoesOn, GoesOn
    <2> QED BY <1>1, <1>3, <1>5, <2>2 DEF Types, RunsOK, PreparedOK, ClaimsOK, SlotsOK, PagesOK, SentOK, AnswersOK
  <1>6. CASE Return(t) /\ UNCHANGED slots
    <2>1. ThreadsOK' /\ OthersWait(t) /\ th'[t].pc = "idle"
      BY <1>2, <1>6, Returns
    <2> QED BY <1>1, <1>3, <1>6, <2>1 DEF Types, RunsOK, PreparedOK, ClaimsOK, SlotsOK, PagesOK, SentOK, AnswersOK
  <1>7. ASSUME NEW i \in DOMAIN grants, slots[th[t].key] = None, grants[i].id \in Grants,
               Claimed(grants[i].id) \in Nat, Claimed(grants[i].id) < grants[i].payload.runs,
               grants[i].payload.runs \in Nat,
               Claimed(grants[i].id) + 1 \in 1 .. MaxSlot,
               slots' = [slots EXCEPT ![th[t].key] = <<grants[i].id, Claimed(grants[i].id) + 1>>],
               Goto(t, [th[t] EXCEPT !.pc = "prepare", !.policy = <<grants[i].id, Claimed(grants[i].id) + 1>>])
        PROVE  /\ ThreadsOK' /\ SlotsOK' /\ OthersWait(t)
               /\ th'[t].pc = "prepare" /\ th'[t].key = th[t].key
               /\ th'[t].policy = <<grants[i].id, Claimed(grants[i].id) + 1>>
    <2> DEFINE p == <<grants[i].id, Claimed(grants[i].id) + 1>>
    <2>1. p \in Grants \X (1 .. MaxSlot)
      BY <1>7
    <2>2. p \in Policies \ PagePolicies
      BY <2>1, PolicyNames
    <2>3. slots' = [slots EXCEPT ![th[t].key] = p] /\ Goto(t, [th[t] EXCEPT !.pc = "prepare", !.policy = p])
      BY <1>7
    <2> HIDE DEF p
    <2>4. SlotsOK'
      BY <1>3, <1>4, <2>1, <2>3 DEF SlotsOK
    <2>5. /\ ThreadsOK' /\ OthersWait(t)
          /\ th'[t].pc = "prepare" /\ th'[t].key = th[t].key /\ th'[t].policy = p
      BY <1>2, <1>3, <2>2, <2>3, AskingGoesOn, GoesOn
    <2> QED BY <2>4, <2>5 DEF p
  <1>8. CASE slots[th[t].key] = None /\ ~ (Return(t) /\ UNCHANGED slots)
    <2>1. PICK i \in DOMAIN grants :
            /\ grants[i].id \in Grants
            /\ Claimed(grants[i].id) \in Nat /\ Claimed(grants[i].id) < grants[i].payload.runs
            /\ grants[i].payload.runs \in Nat
            /\ Claimed(grants[i].id) + 1 \in 1 .. MaxSlot
            /\ slots' = [slots EXCEPT ![th[t].key] = <<grants[i].id, Claimed(grants[i].id) + 1>>]
            /\ Goto(t, [th[t] EXCEPT !.pc = "prepare", !.policy = <<grants[i].id, Claimed(grants[i].id) + 1>>])
      BY <1>8, SlotFoundOrGiven
    <2>2. /\ ThreadsOK' /\ SlotsOK' /\ OthersWait(t)
          /\ th'[t].pc = "prepare" /\ th'[t].key = th[t].key
          /\ th'[t].policy = <<grants[i].id, Claimed(grants[i].id) + 1>>
      BY <1>7, <1>8, <2>1
    <2> QED BY <1>1, <1>3, <1>8, <2>1, <2>2 DEF Types, RunsOK, PreparedOK, ClaimsOK, PagesOK, SentOK, AnswersOK
  <1> QED BY <1>5, <1>6, <1>8, SlotFoundOrGiven

LEMMA ClaimPreparationEffect ==
    ASSUME Types, NEW t \in Threads, ClaimPreparation(t), UNCHANGED grants
    PROVE  /\ Types' /\ OthersWait(t)
           /\ th[t] \in Asking /\ th[t].pc = "prepare"
           /\ LET p == th[t].policy
              IN  \/ /\ prepared[p] = None
                     /\ prepared'[p] # None /\ prepared'[p].key = th[t].key /\ prepared'[p].run = None
                     /\ \A x \in Policies \ {p} : prepared'[x] = prepared[x]
                     /\ th'[t].pc = "send" /\ th'[t].op = Browse
                     /\ th'[t].policy = p /\ th'[t].key = th[t].key
                     /\ UNCHANGED answers
                  \/ /\ th'[t].pc = "idle"
                     /\ UNCHANGED prepared
                     /\ \A k \in Keys : \A r \in answers'[k] \ answers[k] :
                          prepared[p] # None /\ prepared[p].key = k /\ prepared[p].run = r
           /\ UNCHANGED <<runs, claims, slots, pages, sent>>
  <1> DEFINE p == th[t].policy
             k == th[t].key
             row == [key |-> k, status |-> "started", run |-> None]
             new == [pc |-> "send", policy |-> p, key |-> k, op |-> Browse]
  <1>1. th[t].pc = "prepare" /\ UNCHANGED <<runs, claims, slots, pages, sent>>
    BY DEF ClaimPreparation, At
  <1>2. th[t] \in Requests /\ ThreadsOK /\ PreparedOK /\ AnswersOK
    BY DEF Types, ThreadsOK
  <1>3. th[t] \in Asking
    BY <1>1, <1>2, RequestKinds
  <1>4. p \in Policies /\ k \in Keys
    BY <1>3 DEF Asking
  <1>5. CASE prepared[p] = None
    <2>1. row \in Preparation /\ row # None /\ row.key = k /\ row.run = None
      BY <1>4, LiveNoneAssumption DEF Preparation
    <2>2. new \in Requests /\ new.pc = "send" /\ new.op = Browse /\ new.policy = p /\ new.key = k
      BY <1>4 DEF Requests, Providing
    <2>3. prepared' = [prepared EXCEPT ![p] = row] /\ Goto(t, new) /\ UNCHANGED answers
      BY <1>5 DEF ClaimPreparation
    <2> HIDE DEF row, new
    <2>4. /\ PreparedOK' /\ prepared'[p] = row
          /\ \A x \in Policies \ {p} : prepared'[x] = prepared[x]
      BY <1>2, <1>4, <2>1, <2>3 DEF PreparedOK
    <2>5. ThreadsOK' /\ OthersWait(t) /\ th'[t] = new
      BY <1>2, <2>2, <2>3, GoesOn
    <2> QED BY <1>1, <1>3, <1>5, <2>1, <2>2, <2>3, <2>4, <2>5
            DEF Types, RunsOK, ClaimsOK, SlotsOK, PagesOK, SentOK, AnswersOK
  <1>6. CASE prepared[p] # None
    <2>1. /\ answers' = IF prepared[p].key = k /\ prepared[p].run # None
                        THEN [answers EXCEPT ![k] = answers[k] \cup {prepared[p].run}] ELSE answers
          /\ Return(t) /\ UNCHANGED prepared
      BY <1>6 DEF ClaimPreparation
    <2>2. prepared[p].run \in Runs \cup {None}
      BY <1>2, <1>4, <1>6 DEF PreparedOK, Preparation
    <2>3. AnswersOK' /\ \A x \in Keys : \A r \in answers'[x] \ answers[x] :
              prepared[p] # None /\ prepared[p].key = x /\ prepared[p].run = r
      BY <1>2, <1>4, <1>6, <2>1, <2>2 DEF AnswersOK
    <2>4. ThreadsOK' /\ OthersWait(t) /\ th'[t].pc = "idle"
      BY <1>2, <2>1, Returns
    <2> QED BY <1>1, <1>3, <2>1, <2>3, <2>4 DEF Types, RunsOK, PreparedOK, ClaimsOK, SlotsOK, PagesOK, SentOK
  <1> QED BY <1>5, <1>6

\* A cell of the table of calls counts one more, the others stay.
Counted(p, o) ==
    /\ sent'[p][o] = sent[p][o] + 1
    /\ \A x \in Policies, y \in CallOps : x # p \/ y # o => sent'[x][y] = sent[x][y]

\* Of the claims only those of the preparation change, or only one.
QueryClaimsStay == \A x \in Policies, y \in Queries : claims'[x][y] = claims[x][y]
OtherClaimsStay(p, o) ==
    \A x \in Policies, y \in CallOps \cup {Evaluate} : x # p \/ y # o => claims'[x][y] = claims[x][y]

LEMMA CallCounted ==
    ASSUME SentOK, NEW p \in Policies, NEW o \in CallOps, sent' = [sent EXCEPT ![p][o] = @ + 1]
    PROVE  SentOK' /\ Counted(p, o)
  <1>1. sent[p][o] \in Nat
    BY CellRead DEF SentOK
  <1>2. sent[p][o] + 1 \in Nat
    BY <1>1
  <1>3. sent' = [sent EXCEPT ![p][o] = sent[p][o] + 1]
    OBVIOUS
  <1> QED BY <1>2, <1>3, CellWritten DEF SentOK, Counted

LEMMA ClaimWritten ==
    ASSUME ClaimsOK, NEW p \in Policies, NEW o \in CallOps \cup {Evaluate}, NEW v \in Marks,
           claims' = [claims EXCEPT ![p][o] = v]
    PROVE  /\ ClaimsOK' /\ claims'[p][o] = v /\ OtherClaimsStay(p, o)
           /\ o \notin Queries => QueryClaimsStay
  <1>1. ClaimsOK' /\ claims'[p][o] = v /\ OtherClaimsStay(p, o)
    BY CellWritten DEF ClaimsOK, OtherClaimsStay
  <1> QED BY <1>1, CallNames DEF OtherClaimsStay, QueryClaimsStay

\* The claim of the evaluation as a whole is none of a query.  For synthetic
\* runs, which have no policy, nothing would be written.
LEMMA EvaluationMarked ==
    ASSUME ClaimsOK, NEW p, NEW v \in Marks, claims' \in {claims, [claims EXCEPT ![p][Evaluate] = v]}
    PROVE  ClaimsOK' /\ QueryClaimsStay
  <1>1. CASE claims' = claims
    BY <1>1 DEF ClaimsOK, QueryClaimsStay
  <1>2. CASE claims' = [claims EXCEPT ![p][Evaluate] = v] /\ p \in Policies
    BY <1>2, ClaimWritten, CallNames
  <1>3. CASE claims' = [claims EXCEPT ![p][Evaluate] = v] /\ p \notin Policies
    BY <1>3 DEF ClaimsOK, QueryClaimsStay
  <1> QED BY <1>1, <1>2, <1>3

LEMMA SendEffect ==
    ASSUME Types, NEW t \in Threads, Send(t), UNCHANGED grants
    PROVE  /\ Types' /\ OthersWait(t)
           /\ th[t] \in Providing /\ th[t].pc = "send"
           /\ th'[t].pc = "sent" /\ th'[t].op = th[t].op /\ SameProvision(th'[t], th[t])
           /\ Counted(th[t].policy, th[t].op) /\ QueryClaimsStay
           /\ UNCHANGED <<runs, prepared, slots, pages, answers>>
  <1> DEFINE p == th[t].policy
             o == th[t].op
  <1>1. /\ th[t].pc = "send" /\ UNCHANGED <<runs, prepared, slots, pages, answers>>
        /\ sent' = [sent EXCEPT ![p][o] = @ + 1]
        /\ claims' = claims \/ claims' = [claims EXCEPT ![p][o] = "started"]
        /\ Goto(t, [th[t] EXCEPT !.pc = "sent"])
    BY DEF Send, At
  <1>2. th[t] \in Requests /\ ThreadsOK /\ ClaimsOK /\ SentOK
    BY DEF Types, ThreadsOK
  <1>3. th[t] \in Providing
    BY <1>1, <1>2, RequestKinds
  <1>4. p \in Policies /\ o \in {Browse, Analyse, Propose} /\ o \in CallOps /\ o \notin Queries
    BY <1>3, CallNames DEF Providing
  <1>5. /\ ThreadsOK' /\ OthersWait(t)
        /\ th'[t].pc = "sent" /\ th'[t].op = o /\ SameProvision(th'[t], th[t])
    BY <1>1, <1>2, <1>3, ProvidingWaits
  <1> HIDE DEF p, o
  <1>6. SentOK' /\ Counted(p, o)
    BY <1>1, <1>2, <1>4, CallCounted
  <1>7. ClaimsOK' /\ QueryClaimsStay
    <2>1. CASE claims' = claims
      BY <1>2, <2>1 DEF ClaimsOK, QueryClaimsStay
    <2>2. CASE claims' = [claims EXCEPT ![p][o] = "started"]
      BY <1>2, <1>4, <2>2, ClaimWritten DEF Marks
    <2> QED BY <1>1, <2>1, <2>2
  <1> QED BY <1>1, <1>3, <1>5, <1>6, <1>7 DEF Types, RunsOK, PreparedOK, SlotsOK, PagesOK, AnswersOK, p, o

LEMMA AnsweredEffect ==
    ASSUME Types, NEW t \in Threads, Answered(t), UNCHANGED grants
    PROVE  /\ Types' /\ OthersWait(t)
           /\ th[t] \in Providing /\ th[t].pc = "sent"
           /\ \/ /\ th[t].op = Browse
                 /\ th'[t].pc = "send" /\ SameProvision(th'[t], th[t])
                 /\ th'[t].op = IF OfPage(t) THEN Analyse ELSE Propose
                 /\ UNCHANGED pages
              \/ th[t].op = Analyse /\ th'[t].pc = "idle"
              \/ /\ th[t].op = Propose
                 /\ th'[t].pc = "create" /\ th'[t].op = Propose /\ SameProvision(th'[t], th[t])
                 /\ UNCHANGED pages
           /\ IF OfPage(t) /\ th[t].op = Analyse
              THEN pages' = [pages EXCEPT ![th[t].key].status = "completed"] ELSE UNCHANGED pages
           /\ QueryClaimsStay
           /\ UNCHANGED <<runs, prepared, slots, sent, answers>>
  <1> DEFINE p == th[t].policy
             o == th[t].op
             next == IF OfPage(t) THEN Analyse ELSE Propose
  <1>1. /\ th[t].pc = "sent" /\ UNCHANGED <<runs, prepared, slots, sent, answers>>
        /\ claims' = claims \/ claims' = [claims EXCEPT ![p][o] = "completed"]
        /\ IF OfPage(t) /\ th[t].op = Analyse
           THEN pages' = [pages EXCEPT ![th[t].key].status = "completed"] ELSE UNCHANGED pages
    BY DEF Answered, At
  <1>2. th[t] \in Requests /\ ThreadsOK /\ ClaimsOK /\ PagesOK
    BY DEF Types, ThreadsOK
  <1>3. th[t] \in Providing
    BY <1>1, <1>2, RequestKinds
  <1>4. p \in Policies /\ o \in {Browse, Analyse, Propose} /\ o \in CallOps /\ o \notin Queries
    BY <1>3, CallNames DEF Providing
  <1>5. ThreadsOK' /\ OthersWait(t) /\
           \/ /\ o = Browse
              /\ th'[t].pc = "send" /\ SameProvision(th'[t], th[t]) /\ th'[t].op = next
           \/ o = Analyse /\ th'[t].pc = "idle"
           \/ /\ o = Propose
              /\ th'[t].pc = "create" /\ th'[t].op = Propose /\ SameProvision(th'[t], th[t])
    <2>1. CASE o = Browse
      <3>1. Goto(t, [th[t] EXCEPT !.pc = "send", !.op = next])
        BY <2>1, CallNames DEF Answered
      <3>2. next \in {Browse, Analyse, Propose}
        OBVIOUS
      <3> HIDE DEF next
      <3> QED BY <1>2, <1>3, <2>1, <3>1, <3>2, ProvidingGoesOn
    <2>2. CASE o = Analyse
      <3>1. Return(t)
        BY <2>2, CallNames DEF Answered
      <3> QED BY <1>2, <2>2, <3>1, Returns
    <2>3. CASE o = Propose
      <3>1. Goto(t, [th[t] EXCEPT !.pc = "create"])
        BY <2>3, CallNames DEF Answered
      <3> QED BY <1>2, <1>3, <2>3, <3>1, ProvidingWaits
    <2> QED BY <1>4, <2>1, <2>2, <2>3
  <1> HIDE DEF p, o, next
  <1>6. ClaimsOK' /\ QueryClaimsStay
    <2>1. CASE claims' = claims
      BY <1>2, <2>1 DEF ClaimsOK, QueryClaimsStay
    <2>2. CASE claims' = [claims EXCEPT ![p][o] = "completed"]
      BY <1>2, <1>4, <2>2, ClaimWritten DEF Marks
    <2> QED BY <1>1, <2>1, <2>2
  <1>7. PagesOK'
    BY <1>1, <1>2 DEF PagesOK, Page
  <1>8. o # Analyse => UNCHANGED pages
    BY <1>1 DEF o
  <1>9. Types'
    BY <1>1, <1>5, <1>6, <1>7 DEF Types, RunsOK, PreparedOK, SlotsOK, SentOK, AnswersOK
  <1> QED BY <1>1, <1>3, <1>5, <1>6, <1>8, <1>9, CallNames DEF o, next

LEMMA PreparationFailsEffect ==
    ASSUME Types, ClaimsAreHeld, NEW t \in Threads, PreparationFails(t), UNCHANGED grants
    PROVE  /\ Types' /\ OthersWait(t)
           /\ th[t] \in Providing /\ th'[t].pc = "idle"
           /\ th[t].pc = "send" => OfPage(t) /\ th[t].op = Browse
           /\ IF OfPage(t)
              THEN /\ pages' = IF th[t].op = Propose
                               THEN [pages EXCEPT ![th[t].key].evaluation = "failed"]
                               ELSE [pages EXCEPT ![th[t].key].status = "failed"]
                   /\ UNCHANGED prepared
              ELSE /\ prepared' = [prepared EXCEPT ![th[t].policy].status = "failed"]
                   /\ UNCHANGED pages
           /\ UNCHANGED <<runs, claims, slots, sent, answers>>
  <1>1. /\ th[t].pc \in {"send", "sent"} /\ (th[t].pc = "send" => OfPage(t) /\ th[t].op = Browse)
        /\ IF OfPage(t)
           THEN /\ pages' = IF th[t].op = Propose
                            THEN [pages EXCEPT ![th[t].key].evaluation = "failed"]
                            ELSE [pages EXCEPT ![th[t].key].status = "failed"]
                /\ UNCHANGED prepared
           ELSE /\ prepared' = [prepared EXCEPT ![th[t].policy].status = "failed"]
                /\ UNCHANGED pages
        /\ Return(t)
        /\ UNCHANGED <<runs, claims, slots, sent, answers>>
    BY DEF PreparationFails, At
  <1>2. th[t] \in Requests /\ ThreadsOK /\ PreparedOK /\ PagesOK
    BY DEF Types, ThreadsOK
  <1>3. th[t] \in Providing
    BY <1>1, <1>2, RequestKinds
  <1>4. ThreadsOK' /\ OthersWait(t) /\ th'[t].pc = "idle"
    BY <1>1, <1>2, Returns
  <1>5. PagesOK'
    BY <1>1, <1>2 DEF PagesOK, Page
  <1>6. PreparedOK'
    <2>1. CASE OfPage(t)
      BY <1>1, <1>2, <2>1 DEF PreparedOK
    <2>2. CASE ~ OfPage(t)
      <3>1. prepared' = [prepared EXCEPT ![th[t].policy].status = "failed"] /\ th[t].policy \in Policies
        BY <1>1, <1>3, <2>2 DEF Providing
      <3>2. prepared[th[t].policy] # None
        BY <1>1, <2>2 DEF ClaimsAreHeld, Prepares, HoldsClaim, OfPage
      <3> QED BY <1>2, <3>1, <3>2 DEF PreparedOK, Preparation
    <2> QED BY <2>1, <2>2
  <1> QED BY <1>1, <1>3, <1>4, <1>5, <1>6 DEF Types, RunsOK, ClaimsOK, SlotsOK, SentOK, AnswersOK

LEMMA CreateRunEffect ==
    ASSUME Types, NEW t \in Threads, NEW r \in Runs, NEW i \in Inputs, CreateRun(t, r, i), UNCHANGED grants
    PROVE  /\ Types' /\ OthersWait(t)
           /\ th[t] \in Providing /\ th[t].pc = "create"
           /\ th'[t].pc = "record" /\ SameProvision(th'[t], th[t])
           /\ ~ Exists(r)
           /\ runs' = [runs EXCEPT ![r] = NewRun(th[t].policy, i)]
           /\ UNCHANGED <<prepared, claims, slots, pages, sent, answers>>
  <1> DEFINE new == [pc |-> "record", policy |-> th[t].policy, key |-> th[t].key, run |-> r]
  <1>1. /\ th[t].pc = "create" /\ ~ Exists(r)
        /\ runs' = [runs EXCEPT ![r] = NewRun(th[t].policy, i)]
        /\ Goto(t, new)
        /\ UNCHANGED <<prepared, claims, slots, pages, sent, answers>>
    BY DEF CreateRun, At
  <1>2. th[t] \in Requests /\ ThreadsOK /\ RunsOK
    BY DEF Types, ThreadsOK
  <1>3. th[t] \in Providing
    BY <1>1, <1>2, RequestKinds
  <1>4. new \in Requests /\ new.pc = "record" /\ SameProvision(new, th[t])
    BY <1>3 DEF Providing, Requests, Recording, SameProvision
  <1> HIDE DEF new
  <1>5. ThreadsOK' /\ OthersWait(t) /\ th'[t] = new
    BY <1>1, <1>2, <1>4, GoesOn
  <1>6. RunsOK'
    <2>1. NewRun(th[t].policy, i) \in Run
      BY <1>3, BoundFacts DEF NewRun, Run, Providing
    <2> QED BY <1>1, <1>2, <2>1 DEF RunsOK
  <1> QED BY <1>1, <1>3, <1>4, <1>5, <1>6 DEF Types, PreparedOK, ClaimsOK, SlotsOK, PagesOK, SentOK, AnswersOK

LEMMA RecordRunEffect ==
    ASSUME Types, ClaimsAreHeld, NEW t \in Threads, RecordRun(t), UNCHANGED grants
    PROVE  /\ Types' /\ OthersWait(t)
           /\ th[t] \in Recording /\ th[t].pc = "record" /\ th'[t].pc = "idle"
           /\ IF OfPage(t)
              THEN /\ pages' = [pages EXCEPT ![th[t].key].evaluation = "prepared", ![th[t].key].run = th[t].run]
                   /\ UNCHANGED <<prepared, answers>>
              ELSE /\ prepared' = [prepared EXCEPT ![th[t].policy].status = "completed",
                                                   ![th[t].policy].run = th[t].run]
                   /\ answers' = [answers EXCEPT ![th[t].key] = @ \cup {th[t].run}]
                   /\ UNCHANGED pages
           /\ UNCHANGED <<runs, claims, slots, sent>>
  <1>1. /\ th[t].pc = "record" /\ Return(t)
        /\ IF OfPage(t)
           THEN /\ pages' = [pages EXCEPT ![th[t].key].evaluation = "prepared", ![th[t].key].run = th[t].run]
                /\ UNCHANGED <<prepared, answers>>
           ELSE /\ prepared' = [prepared EXCEPT ![th[t].policy].status = "completed",
                                                ![th[t].policy].run = th[t].run]
                /\ answers' = [answers EXCEPT ![th[t].key] = @ \cup {th[t].run}]
                /\ UNCHANGED pages
        /\ UNCHANGED <<runs, claims, slots, sent>>
    BY DEF RecordRun, At
  <1>2. th[t] \in Requests /\ ThreadsOK /\ PreparedOK /\ PagesOK /\ AnswersOK
    BY DEF Types, ThreadsOK
  <1>3. th[t] \in Recording /\ th[t].run \in Runs /\ th[t].policy \in Policies
    BY <1>1, <1>2, RequestKinds DEF Recording
  <1>4. ThreadsOK' /\ OthersWait(t) /\ th'[t].pc = "idle"
    BY <1>1, <1>2, Returns
  <1>5. CASE OfPage(t)
    <2>1. PagesOK'
      BY <1>1, <1>2, <1>3, <1>5 DEF PagesOK, Page
    <2> QED BY <1>1, <1>3, <1>4, <1>5, <2>1 DEF Types, RunsOK, PreparedOK, ClaimsOK, SlotsOK, SentOK, AnswersOK
  <1>6. CASE ~ OfPage(t)
    <2>1. PreparedOK'
      <3>1. prepared' = [prepared EXCEPT ![th[t].policy].status = "completed", ![th[t].policy].run = th[t].run]
        BY <1>1, <1>6
      <3>2. prepared[th[t].policy] # None
        BY <1>1, <1>6 DEF ClaimsAreHeld, Prepares, HoldsClaim, OfPage
      <3> QED BY <1>2, <1>3, <3>1, <3>2 DEF PreparedOK, Preparation
    <2>2. AnswersOK'
      BY <1>1, <1>2, <1>3, <1>6 DEF AnswersOK
    <2> QED BY <1>1, <1>3, <1>4, <1>6, <2>1, <2>2 DEF Types, RunsOK, ClaimsOK, SlotsOK, PagesOK, SentOK
  <1> QED BY <1>5, <1>6

LEMMA StartEffect ==
    ASSUME Types, NEW t \in Threads, Start(t), UNCHANGED grants
    PROVE  /\ Types' /\ OthersWait(t)
           /\ th[t].pc = "start"
           /\ \/ th'[t].pc = "idle" /\ UNCHANGED runs
              \/ /\ th'[t].pc \in {"evaluate", "finish"} /\ (th'[t].policy = Fixture => th'[t].pc = "finish")
                 /\ th[t].run \in Runs
                 /\ LET r == th[t].run
                    IN  /\ Exists(r) /\ th'[t].run = r /\ th'[t].rev = runs[r].rev
                        /\ th'[t].inputs = runs[r].inputs
                        /\ \/ UNCHANGED runs
                           \/ /\ runs[r].state = "awaiting" /\ Approved(r)
                              /\ runs' = [runs EXCEPT ![r].state = "evaluating", ![r].key = th[t].key]
           /\ UNCHANGED <<prepared, claims, slots, pages, sent, answers>>
  <1> DEFINE r == th[t].run
             run == runs[r]
             starts == /\ AtRevision(r, th[t].rev)
                       /\ run.state = "awaiting"
                       /\ run.approval = [rev |-> th[t].rev, inputs |-> run.inputs]
             replays == /\ AtRevision(r, th[t].rev)
                        /\ run.state = "evaluating"
                        /\ run.key = th[t].key
             new == [pc |-> IF run.policy = Fixture THEN "finish" ELSE "evaluate",
                     policy |-> run.policy, run |-> r, rev |-> th[t].rev, inputs |-> run.inputs,
                     i |-> 1, good |-> IF run.policy = Fixture THEN NumQueries ELSE 0,
                     halted |-> FALSE, op |-> Search(1)]
  <1>1. /\ th[t].pc = "start"
        /\ runs' = IF starts THEN [runs EXCEPT ![r].state = "evaluating", ![r].key = th[t].key] ELSE runs
        /\ IF starts \/ replays THEN Goto(t, new) ELSE Return(t)
        /\ UNCHANGED <<prepared, claims, slots, pages, sent, answers>>
    BY DEF Start, At
  <1>2. th[t] \in Requests /\ ThreadsOK /\ RunsOK
    BY DEF Types, ThreadsOK
  <1>3. th[t] \in Starting /\ r \in Runs /\ th[t].rev \in 1 .. MaxRev /\ th[t].key \in StartKeys
    BY <1>1, <1>2, RequestKinds DEF Starting
  <1>4. CASE ~ (starts \/ replays)
    <2>1. Return(t) /\ UNCHANGED runs
      BY <1>1, <1>4
    <2>2. ThreadsOK' /\ OthersWait(t) /\ th'[t].pc = "idle"
      BY <1>2, <2>1, Returns
    <2>3. Types'
      BY <1>1, <2>1, <2>2 DEF Types, RunsOK, PreparedOK, ClaimsOK, SlotsOK, PagesOK, SentOK, AnswersOK
    <2> QED BY <1>1, <2>1, <2>2, <2>3
  <1>5. CASE starts \/ replays
    <2>1. run \in Run /\ Exists(r) /\ th[t].rev = run.rev
      BY <1>2, <1>3, <1>5 DEF RunsOK, NoRun, Exists, AtRevision
    <2>2. Search(1) \in Queries
      BY CallNames, BoundFacts
    <2>3. /\ new \in Requests
          /\ new.pc \in {"evaluate", "finish"} /\ (new.policy = Fixture => new.pc = "finish")
          /\ new.run = r /\ new.rev = run.rev /\ new.inputs = run.inputs
      <3>1. new \in Executing
        BY <1>3, <2>1, <2>2, BoundFacts DEF Executing, Run
      <3> QED BY <2>1, <3>1 DEF Requests
    <2>4. Goto(t, new)
      BY <1>1, <1>5
    <2> HIDE DEF new
    <2>5. ThreadsOK' /\ OthersWait(t) /\ th'[t] = new
      BY <1>2, <2>3, <2>4, GoesOn
    <2>6. RunsOK' /\ (UNCHANGED runs \/
                        /\ run.state = "awaiting" /\ Approved(r)
                        /\ runs' = [runs EXCEPT ![r].state = "evaluating", ![r].key = th[t].key])
      BY <1>1, <1>2, <1>3, <2>1 DEF RunsOK, Run, Approved
    <2>7. Types'
      BY <1>1, <2>5, <2>6 DEF Types, PreparedOK, ClaimsOK, SlotsOK, PagesOK, SentOK, AnswersOK
    <2> QED BY <1>1, <1>3, <2>1, <2>3, <2>5, <2>6, <2>7
  <1> QED BY <1>4, <1>5

LEMMA ClaimEvaluationEffect ==
    ASSUME Types, NEW t \in Threads, ClaimEvaluation(t), UNCHANGED grants
    PROVE  /\ Types' /\ OthersWait(t)
           /\ th[t].pc = "evaluate" /\ th[t] \in Executing
           /\ th'[t].pc = "idle" \/ (th'[t].pc = "check" /\ SameRun(th'[t], th[t]))
           /\ QueryClaimsStay
           /\ UNCHANGED <<runs, prepared, slots, pages, sent, answers>>
  <1>1. /\ th[t].pc = "evaluate" /\ UNCHANGED <<runs, prepared, slots, pages, sent, answers>>
        /\ claims' = claims \/ claims' = [claims EXCEPT ![th[t].policy][Evaluate] = "started"]
        /\ Goto(t, [th[t] EXCEPT !.pc = "check"]) \/ Return(t)
    BY DEF ClaimEvaluation, At
  <1>2. th[t] \in Requests /\ ThreadsOK /\ ClaimsOK
    BY DEF Types, ThreadsOK
  <1>3. th[t] \in Executing
    BY <1>1, <1>2, RequestKinds
  <1>4. /\ ThreadsOK' /\ OthersWait(t)
        /\ th'[t].pc = "idle" \/ (th'[t].pc = "check" /\ SameRun(th'[t], th[t]))
    <2>1. CASE Return(t)
      BY <1>2, <2>1, Returns
    <2>2. CASE Goto(t, [th[t] EXCEPT !.pc = "check"])
      BY <1>2, <1>3, <2>2, ExecutingGoesOn DEF ExecutorPcs
    <2> QED BY <1>1, <2>1, <2>2
  <1>5. ClaimsOK' /\ QueryClaimsStay
    BY <1>1, <1>2, EvaluationMarked DEF Marks
  <1> QED BY <1>1, <1>3, <1>4, <1>5 DEF Types, RunsOK, PreparedOK, SlotsOK, PagesOK, SentOK, AnswersOK

LEMMA CheckEffect ==
    ASSUME Types, NEW t \in Threads, Check(t), UNCHANGED grants
    PROVE  /\ Types' /\ OthersWait(t)
           /\ th[t].pc = "check" /\ th[t] \in Executing
           /\ \/ th'[t].pc = "idle"
              \/ th'[t].pc \in {"finish", "check"} /\ SameRun(th'[t], th[t])
              \/ /\ th'[t].pc = "claim" /\ SameRun(th'[t], th[t])
                 /\ th'[t].i <= NumQueries
           /\ QueryClaimsStay
           /\ UNCHANGED <<runs, prepared, slots, pages, sent, answers>>
  <1>1. /\ th[t].pc = "check" /\ UNCHANGED <<runs, prepared, slots, pages, sent, answers>>
        /\ claims' = claims \/ claims' = [claims EXCEPT ![th[t].policy][Evaluate] = "cancelled"]
        /\ \/ Return(t)
           \/ Goto(t, [th[t] EXCEPT !.pc = "finish"])
           \/ NextQuery(t, th[t].good, TRUE)
           \/ Goto(t, [th[t] EXCEPT !.pc = "claim", !.op = Search(th[t].i)]) /\ ~ (th[t].i > NumQueries)
    BY DEF Check, At
  <1>2. th[t] \in Requests /\ ThreadsOK /\ ClaimsOK
    BY DEF Types, ThreadsOK
  <1>3. th[t] \in Executing /\ th[t].i \in Nat \ {0} /\ th[t].good \in Nat
    BY <1>1, <1>2, RequestKinds DEF Executing
  <1>4. /\ ThreadsOK' /\ OthersWait(t)
        /\ \/ th'[t].pc = "idle"
           \/ th'[t].pc \in {"finish", "check"} /\ SameRun(th'[t], th[t])
           \/ /\ th'[t].pc = "claim" /\ SameRun(th'[t], th[t])
              /\ th'[t].i <= NumQueries
    <2>1. CASE Return(t)
      BY <1>2, <2>1, Returns
    <2>2. CASE Goto(t, [th[t] EXCEPT !.pc = "finish"])
      BY <1>2, <1>3, <2>2, ExecutingGoesOn DEF ExecutorPcs
    <2>3. CASE NextQuery(t, th[t].good, TRUE)
      BY <1>2, <1>3, <2>3, NextQueryGoesOn
    <2>4. CASE Goto(t, [th[t] EXCEPT !.pc = "claim", !.op = Search(th[t].i)]) /\ ~ (th[t].i > NumQueries)
      <3>1. th[t].i \in 1 .. NumQueries
        BY <1>3, <2>4, BoundFacts
      <3>2. Search(th[t].i) \in Queries
        BY <3>1, CallNames
      <3>3. ThreadsOK' /\ OthersWait(t) /\ th'[t].pc = "claim" /\ th'[t].i = th[t].i /\ SameRun(th'[t], th[t])
        <4> DEFINE o == Search(th[t].i)
        <4>1. Goto(t, [th[t] EXCEPT !.pc = "claim", !.op = o])
          BY <2>4
        <4> HIDE DEF o
        <4>2. o \in Queries
          BY <3>2 DEF o
        <4> QED BY <1>2, <1>3, <4>1, <4>2, ExecutingClaims
      <3> QED BY <3>1, <3>3
    <2> QED BY <1>1, <2>1, <2>2, <2>3, <2>4
  <1>5. ClaimsOK' /\ QueryClaimsStay
    BY <1>1, <1>2, EvaluationMarked DEF Marks
  <1> QED BY <1>1, <1>3, <1>4, <1>5 DEF Types, RunsOK, PreparedOK, SlotsOK, PagesOK, SentOK, AnswersOK

LEMMA ClaimCallEffect ==
    ASSUME Types, Calls, NEW t \in Threads, ClaimCall(t), UNCHANGED grants
    PROVE  /\ Types' /\ OthersWait(t)
           /\ th[t].pc = "claim" /\ th[t] \in Executing
           /\ \/ /\ th'[t].pc = "check" /\ SameRun(th'[t], th[t])
                 /\ QueryClaimsStay
              \/ /\ claims[th[t].policy][th[t].op] = None
                 /\ claims'[th[t].policy][th[t].op] # None
                 /\ OtherClaimsStay(th[t].policy, th[t].op)
                 /\ th'[t].pc = "call" /\ SameRun(th'[t], th[t])
                 /\ th'[t].op = th[t].op /\ th'[t].i = th[t].i
           /\ UNCHANGED <<runs, prepared, slots, pages, sent, answers>>
  <1>1. /\ th[t].pc = "claim" /\ UNCHANGED <<runs, prepared, slots, pages, sent, answers>>
        /\ \/ NextQuery(t, th[t].good, TRUE) /\ UNCHANGED claims
           \/ /\ claims[th[t].policy][th[t].op] = None
              /\ claims' = [claims EXCEPT ![th[t].policy][th[t].op] = "started"]
              /\ Goto(t, [th[t] EXCEPT !.pc = "call"])
    BY DEF ClaimCall, At, Unclaimed
  <1>2. th[t] \in Requests /\ ThreadsOK /\ ClaimsOK
    BY DEF Types, ThreadsOK
  <1>3. th[t] \in Executing /\ th[t].good \in Nat /\ th[t].op \in Queries
    BY <1>1, <1>2, RequestKinds DEF Executing
  <1>4. CASE NextQuery(t, th[t].good, TRUE) /\ UNCHANGED claims
    <2>1. ThreadsOK' /\ OthersWait(t) /\ th'[t].pc = "check" /\ SameRun(th'[t], th[t])
      BY <1>2, <1>3, <1>4, NextQueryGoesOn
    <2> QED BY <1>1, <1>3, <1>4, <2>1 DEF Types, RunsOK, PreparedOK, ClaimsOK, SlotsOK, PagesOK, SentOK, AnswersOK,
               QueryClaimsStay
  <1>5. CASE /\ claims[th[t].policy][th[t].op] = None
             /\ claims' = [claims EXCEPT ![th[t].policy][th[t].op] = "started"]
             /\ Goto(t, [th[t] EXCEPT !.pc = "call"])
    <2>1. th[t].policy \in Policies /\ th[t].op \in CallOps
      BY <1>1, <1>3, CallNames DEF Calls, Executing
    <2>2. /\ ThreadsOK' /\ OthersWait(t) /\ th'[t].pc = "call" /\ SameRun(th'[t], th[t])
          /\ th'[t].op = th[t].op /\ th'[t].i = th[t].i
      BY <1>2, <1>3, <1>5, ExecutingGoesOn DEF ExecutorPcs
    <2>3. /\ ClaimsOK' /\ claims'[th[t].policy][th[t].op] = "started"
          /\ OtherClaimsStay(th[t].policy, th[t].op)
      BY <1>2, <1>5, <2>1, ClaimWritten DEF Marks
    <2>4. claims'[th[t].policy][th[t].op] # None
      BY <2>3, LiveNoneAssumption
    <2> QED BY <1>1, <1>3, <1>5, <2>2, <2>3, <2>4
            DEF Types, RunsOK, PreparedOK, SlotsOK, PagesOK, SentOK, AnswersOK
  <1> QED BY <1>1, <1>4, <1>5

LEMMA CallEffect ==
    ASSUME Types, Calls, NEW t \in Threads, NEW ok \in BOOLEAN, Call(t, ok), UNCHANGED grants
    PROVE  /\ Types' /\ OthersWait(t)
           /\ th[t].pc = "call" /\ th[t] \in Executing
           /\ Counted(th[t].policy, th[t].op)
           /\ \/ th'[t].pc = "check" /\ SameRun(th'[t], th[t])
              \/ th'[t].pc = "called" /\ SameRun(th'[t], th[t]) /\ th'[t].i = th[t].i
           /\ UNCHANGED <<runs, prepared, claims, slots, pages, answers>>
  <1>1. /\ th[t].pc = "call" /\ UNCHANGED <<runs, prepared, claims, slots, pages, answers>>
        /\ sent' = [sent EXCEPT ![th[t].policy][th[t].op] = @ + 1]
        /\ NextQuery(t, th[t].good, TRUE) \/ Goto(t, [th[t] EXCEPT !.pc = "called"])
    BY DEF Call, At
  <1>2. th[t] \in Requests /\ ThreadsOK /\ SentOK
    BY DEF Types, ThreadsOK
  <1>3. th[t] \in Executing /\ th[t].good \in Nat /\ th[t].op \in Queries
    BY <1>1, <1>2, RequestKinds DEF Executing
  <1>4. th[t].policy \in Policies /\ th[t].op \in CallOps
    BY <1>1, <1>3, CallNames DEF Calls, Executing
  <1>5. SentOK' /\ Counted(th[t].policy, th[t].op)
    BY <1>1, <1>2, <1>4, CallCounted
  <1>6. /\ ThreadsOK' /\ OthersWait(t)
        /\ \/ th'[t].pc = "check" /\ SameRun(th'[t], th[t])
           \/ th'[t].pc = "called" /\ SameRun(th'[t], th[t]) /\ th'[t].i = th[t].i
    <2>1. CASE NextQuery(t, th[t].good, TRUE)
      BY <1>2, <1>3, <2>1, NextQueryGoesOn
    <2>2. CASE Goto(t, [th[t] EXCEPT !.pc = "called"])
      BY <1>2, <1>3, <2>2, ExecutingGoesOn DEF ExecutorPcs
    <2> QED BY <1>1, <2>1, <2>2
  <1> QED BY <1>1, <1>3, <1>5, <1>6 DEF Types, RunsOK, PreparedOK, ClaimsOK, SlotsOK, PagesOK, AnswersOK

LEMMA RecordCallEffect ==
    ASSUME Types, Calls, NEW t \in Threads, RecordCall(t), UNCHANGED grants
    PROVE  /\ Types' /\ OthersWait(t)
           /\ th[t].pc = "called" /\ th[t] \in Executing
           /\ claims'[th[t].policy][th[t].op] # None
           /\ OtherClaimsStay(th[t].policy, th[t].op)
           /\ \/ th'[t].pc = "check" /\ SameRun(th'[t], th[t])
              \/ th'[t].pc = "recheck" /\ SameRun(th'[t], th[t]) /\ th'[t].i = th[t].i
           /\ UNCHANGED <<runs, prepared, slots, pages, sent, answers>>
  <1>1. /\ th[t].pc = "called" /\ UNCHANGED <<runs, prepared, slots, pages, sent, answers>>
        /\ claims' = [claims EXCEPT ![th[t].policy][th[t].op] = "completed"]
        /\ NextQuery(t, th[t].good + 1, FALSE) \/ Goto(t, [th[t] EXCEPT !.pc = "recheck"])
    BY DEF RecordCall, At
  <1>2. th[t] \in Requests /\ ThreadsOK /\ ClaimsOK
    BY DEF Types, ThreadsOK
  <1>3. th[t] \in Executing /\ th[t].good + 1 \in Nat /\ th[t].op \in Queries
    BY <1>1, <1>2, RequestKinds DEF Executing
  <1>4. th[t].policy \in Policies /\ th[t].op \in CallOps
    BY <1>1, <1>3, CallNames DEF Calls, Executing
  <1>5. /\ ClaimsOK' /\ claims'[th[t].policy][th[t].op] = "completed"
        /\ OtherClaimsStay(th[t].policy, th[t].op)
    BY <1>1, <1>2, <1>4, ClaimWritten DEF Marks
  <1>6. /\ ThreadsOK' /\ OthersWait(t)
        /\ \/ th'[t].pc = "check" /\ SameRun(th'[t], th[t])
           \/ th'[t].pc = "recheck" /\ SameRun(th'[t], th[t]) /\ th'[t].i = th[t].i
    <2>1. CASE NextQuery(t, th[t].good + 1, FALSE)
      BY <1>2, <1>3, <2>1, NextQueryGoesOn
    <2>2. CASE Goto(t, [th[t] EXCEPT !.pc = "recheck"])
      BY <1>2, <1>3, <2>2, ExecutingGoesOn DEF ExecutorPcs
    <2> QED BY <1>1, <2>1, <2>2
  <1>7. claims'[th[t].policy][th[t].op] # None
    BY <1>5, LiveNoneAssumption
  <1> QED BY <1>1, <1>3, <1>5, <1>6, <1>7 DEF Types, RunsOK, PreparedOK, SlotsOK, PagesOK, SentOK, AnswersOK

LEMMA RecheckEffect ==
    ASSUME Types, Calls, NEW t \in Threads, Recheck(t), UNCHANGED grants
    PROVE  /\ Types' /\ OthersWait(t)
           /\ th[t].pc = "recheck" /\ th[t] \in Executing
           /\ \/ th'[t].pc = "idle"
              \/ th'[t].pc = "claim" /\ SameRun(th'[t], th[t]) /\ th'[t].i = th[t].i
           /\ UNCHANGED <<runs, prepared, claims, slots, pages, sent, answers>>
  <1>1. /\ th[t].pc = "recheck" /\ UNCHANGED <<runs, prepared, claims, slots, pages, sent, answers>>
        /\ Return(t) \/ Goto(t, [th[t] EXCEPT !.pc = "claim", !.op = Answer(th[t].i)])
    BY DEF Recheck, At
  <1>2. th[t] \in Requests /\ ThreadsOK
    BY DEF Types, ThreadsOK
  <1>3. th[t] \in Executing /\ th[t].i \in Nat \ {0}
    BY <1>1, <1>2, RequestKinds DEF Executing
  <1>4. th[t].i \in 1 .. NumQueries
    BY <1>1, <1>3, BoundFacts DEF Calls, QueriesAreCounted
  <1>5. Answer(th[t].i) \in Queries
    BY <1>4, CallNames
  <1>6. /\ ThreadsOK' /\ OthersWait(t)
        /\ \/ th'[t].pc = "idle"
           \/ th'[t].pc = "claim" /\ SameRun(th'[t], th[t]) /\ th'[t].i = th[t].i
    <2>1. CASE Return(t)
      BY <1>2, <2>1, Returns
    <2>2. CASE Goto(t, [th[t] EXCEPT !.pc = "claim", !.op = Answer(th[t].i)])
      BY <1>2, <1>3, <1>5, <2>2, ExecutingClaims
    <2> QED BY <1>1, <2>1, <2>2
  <1> QED BY <1>1, <1>3, <1>6 DEF Types, RunsOK, PreparedOK, ClaimsOK, SlotsOK, PagesOK, SentOK, AnswersOK

LEMMA FinishEffect ==
    ASSUME Types, NEW t \in Threads, Finish(t), UNCHANGED grants
    PROVE  /\ Types' /\ OthersWait(t)
           /\ th[t].pc = "finish" /\ th[t] \in Executing
           /\ th'[t].pc \in {"idle", "finished"}
           /\ \/ UNCHANGED runs
              \/ LET r == th[t].run
                 IN  /\ th[t].rev = runs[r].rev /\ runs[r].state = "evaluating"
                     /\ runs' = [runs EXCEPT ![r].state = Outcome(th[t].good),
                                 ![r].results = [inputs |-> th[t].inputs, good |-> th[t].good]]
                     /\ Outcome(th[t].good) \in DoneStates
           /\ UNCHANGED <<prepared, claims, slots, pages, sent, answers>>
  <1> DEFINE r == th[t].run
             out == Outcome(th[t].good)
             results == [inputs |-> th[t].inputs, good |-> th[t].good]
             new == [pc |-> "finished", policy |-> th[t].policy]
  <1>1. /\ th[t].pc = "finish" /\ UNCHANGED <<prepared, claims, slots, pages, sent, answers>>
        /\ \/ Return(t) /\ UNCHANGED runs
           \/ /\ th[t].rev = runs[r].rev /\ runs[r].state = "evaluating"
              /\ runs' = [runs EXCEPT ![r].state = out, ![r].results = results]
              /\ Return(t) \/ (Goto(t, new) /\ th[t].policy # Fixture)
    BY DEF Finish, At, AtRevision, Evaluating
  <1>2. th[t] \in Requests /\ ThreadsOK /\ RunsOK
    BY DEF Types, ThreadsOK
  <1>3. th[t] \in Executing /\ r \in Runs /\ results \in [inputs : Inputs, good : Nat]
        /\ th[t].policy \in Policies \cup {Fixture}
    BY <1>1, <1>2, RequestKinds DEF Executing
  <1>4. out \in DoneStates
    BY DEF Outcome, DoneStates
  <1>5. ThreadsOK' /\ OthersWait(t) /\ th'[t].pc \in {"idle", "finished"}
    <2>1. CASE Return(t)
      BY <1>2, <2>1, Returns
    <2>2. CASE Goto(t, new) /\ th[t].policy # Fixture
      <3>1. new \in Requests /\ new.pc = "finished"
        BY <1>3, <2>2 DEF Requests, Finished
      <3> HIDE DEF new
      <3> QED BY <1>2, <2>2, <3>1, GoesOn
    <2> QED BY <1>1, <2>1, <2>2
  <1>6. RunsOK'
    <2>1. CASE UNCHANGED runs
      BY <1>2, <2>1 DEF RunsOK
    <2>2. CASE /\ runs[r].state = "evaluating"
               /\ runs' = [runs EXCEPT ![r].state = out, ![r].results = results]
      <3>1. runs[r] \in Run
        BY <1>2, <1>3, <2>2 DEF RunsOK, NoRun
      <3> HIDE DEF results, out, r
      <3> QED BY <1>2, <1>3, <1>4, <2>2, <3>1 DEF RunsOK, Run
    <2> QED BY <1>1, <2>1, <2>2
  <1>7. Types'
    BY <1>1, <1>5, <1>6 DEF Types, PreparedOK, ClaimsOK, SlotsOK, PagesOK, SentOK, AnswersOK
  <1> QED BY <1>1, <1>3, <1>4, <1>5, <1>7

LEMMA RecordEvaluationEffect ==
    ASSUME Types, NEW t \in Threads, RecordEvaluation(t), UNCHANGED grants
    PROVE  /\ Types' /\ OthersWait(t)
           /\ th'[t].pc = "idle" /\ QueryClaimsStay
           /\ UNCHANGED <<runs, prepared, slots, pages, sent, answers>>
  <1>1. /\ UNCHANGED <<runs, prepared, slots, pages, sent, answers>>
        /\ claims' = [claims EXCEPT ![th[t].policy][Evaluate] = "completed"]
        /\ Return(t)
    BY DEF RecordEvaluation
  <1>2. ThreadsOK /\ ClaimsOK
    BY DEF Types
  <1>3. ThreadsOK' /\ OthersWait(t) /\ th'[t].pc = "idle"
    BY <1>1, <1>2, Returns
  <1>4. ClaimsOK' /\ QueryClaimsStay
    BY <1>1, <1>2, EvaluationMarked DEF Marks
  <1> QED BY <1>1, <1>3, <1>4 DEF Types, RunsOK, PreparedOK, SlotsOK, PagesOK, SentOK, AnswersOK

LEMMA DieEffect ==
    ASSUME Types, NEW t \in Threads, Die(t), UNCHANGED grants
    PROVE  /\ Types' /\ OthersWait(t) /\ th'[t].pc = "idle"
           /\ UNCHANGED <<runs, prepared, claims, slots, pages, sent, answers>>
  <1>1. Return(t) /\ UNCHANGED <<runs, prepared, claims, slots, pages, sent, answers>>
    BY DEF Die
  <1>2. ThreadsOK' /\ OthersWait(t) /\ th'[t].pc = "idle"
    BY <1>1, Returns DEF Types
  <1> QED BY <1>1, <1>2 DEF Types, RunsOK, PreparedOK, ClaimsOK, SlotsOK, PagesOK, SentOK, AnswersOK

----------------------------------------------------------------------------
(* Evaluation: the calls.                                                  *)

\* The pcs of a request that makes the calls of an evaluation.
CallPcs == {"evaluate", "check", "claim", "call", "called", "recheck"}

LEMMA CallsHavePolicies ==
    ASSUME Types, Calls
    PROVE  \A s \in Threads : th[s].pc \in CallPcs => th[s] \in Executing /\ th[s].policy \in Policies /\ th[s].op \in Queries
  <1> SUFFICES ASSUME NEW s \in Threads, th[s].pc \in CallPcs
               PROVE  th[s] \in Executing /\ th[s].policy \in Policies /\ th[s].op \in Queries
    OBVIOUS
  <1>1. th[s] \in Executing
    BY RequestKinds DEF Types, ThreadsOK, CallPcs
  <1> QED BY <1>1 DEF Calls, Executing, CallPcs

\* A step that counts no query call and leaves the claims of queries alone
\* keeps Calls, unless the request has claimed a call.
LEMMA CallsStay ==
    ASSUME Types, Types', Calls, NEW t \in Threads, OthersWait(t), QueryClaimsStay,
           \A p \in Policies, o \in Queries : sent'[p][o] = sent[p][o],
           th'[t].pc # "call",
           th'[t].pc \in CallPcs => th'[t].policy # Fixture,
           th'[t].pc \in {"claim", "called", "recheck"} => th'[t].i <= NumQueries
    PROVE  Calls'
  <1>1. \A s \in Threads : th[s].pc = "call" => th[s].policy \in Policies /\ th[s].op \in Queries
    BY CallsHavePolicies DEF CallPcs
  <1>2. \A s \in Threads : th'[s].pc = "call" => s # t /\ th'[s] = th[s]
    BY DEF OthersWait
  <1>3. (\A s \in Threads : CallIsNew(s))'
    BY <1>1, <1>2 DEF Calls, CallIsNew, QueryClaimsStay
  <1>4. (\A s \in Threads : th[s].pc \in {"evaluate", "check", "claim", "call", "called", "recheck"} =>
             th[s].policy # Fixture)'
    BY DEF Calls, OthersWait, CallPcs
  <1>5. QueriesAreCounted'
    BY DEF Calls, QueriesAreCounted, OthersWait
  <1>6. (\A p \in Policies, o \in Queries : sent[p][o] <= 1 /\ (claims[p][o] = None => sent[p][o] = 0))'
    BY DEF Calls, QueryClaimsStay
  <1> QED BY <1>3, <1>4, <1>5, <1>6 DEF Calls

\* A claimed call is a new one, and no other request has claimed it.
LEMMA CallsClaimed ==
    ASSUME Types, Types', Calls, NEW t \in Threads, ClaimCall(t), UNCHANGED grants
    PROVE  Calls'
  <1>1. /\ OthersWait(t) /\ th[t].pc = "claim"
        /\ \/ /\ th'[t].pc = "check" /\ SameRun(th'[t], th[t])
              /\ QueryClaimsStay
           \/ /\ claims[th[t].policy][th[t].op] = None
              /\ claims'[th[t].policy][th[t].op] # None
              /\ OtherClaimsStay(th[t].policy, th[t].op)
              /\ th'[t].pc = "call" /\ SameRun(th'[t], th[t])
              /\ th'[t].op = th[t].op /\ th'[t].i = th[t].i
        /\ UNCHANGED sent
    BY ClaimCallEffect
  <1>2. \A s \in Threads : th[s].pc \in CallPcs => th[s].policy \in Policies /\ th[s].op \in Queries
    BY CallsHavePolicies
  <1>3. th[t].policy \in Policies /\ th[t].op \in Queries /\ th[t].policy # Fixture /\ th[t].i <= NumQueries
    BY <1>1, <1>2, PolicyNames DEF CallPcs, Calls, QueriesAreCounted
  <1>4. CASE th'[t].pc = "check" /\ SameRun(th'[t], th[t]) /\ QueryClaimsStay
    BY <1>1, <1>3, <1>4, CallsStay DEF SameRun
  <1>5. CASE /\ claims[th[t].policy][th[t].op] = None
             /\ claims'[th[t].policy][th[t].op] # None
             /\ OtherClaimsStay(th[t].policy, th[t].op)
             /\ th'[t].pc = "call" /\ SameRun(th'[t], th[t])
             /\ th'[t].op = th[t].op /\ th'[t].i = th[t].i
    <2> DEFINE p == th[t].policy
               o == th[t].op
    <2>1. /\ th'[t].pc = "call" /\ th'[t].policy = p /\ th'[t].op = o /\ th'[t].i = th[t].i
          /\ claims[p][o] = None /\ claims'[p][o] # None
          /\ \A x \in Policies, y \in Queries : x # p \/ y # o => claims'[x][y] = claims[x][y]
          /\ sent[p][o] = 0
      BY <1>3, <1>5, CallNames DEF SameRun, OtherClaimsStay, Calls
    <2>2. \A s \in Threads : th[s].pc = "call" => claims[th[s].policy][th[s].op] # None
      BY DEF Calls, CallIsNew
    <2>3. \A s \in Threads : s # t => th'[s] = th[s]
      BY <1>1 DEF OthersWait
    <2> HIDE DEF p, o
    <2>4. (\A s \in Threads : CallIsNew(s))'
      <3> SUFFICES ASSUME NEW s \in Threads, th'[s].pc = "call"
                   PROVE  /\ claims'[th'[s].policy][th'[s].op] # None
                          /\ sent'[th'[s].policy][th'[s].op] = 0
                          /\ \A u \in Threads : th'[u].pc = "call" /\ th'[u].policy = th'[s].policy
                                                  /\ th'[u].op = th'[s].op => u = s
        BY DEF CallIsNew
      <3>1. CASE s = t
        BY <1>1, <2>1, <2>2, <2>3, <3>1
      <3>2. CASE s # t
        <4>1. th'[s] = th[s] /\ th[s].pc = "call" /\ th[s].policy \in Policies /\ th[s].op \in Queries
          BY <1>2, <2>3, <3>2 DEF CallPcs
        <4>2. th[s].policy # p \/ th[s].op # o
          BY <2>1, <2>2, <4>1
        <4> QED BY <1>1, <2>1, <2>3, <4>1, <4>2 DEF Calls, CallIsNew
      <3> QED BY <3>1, <3>2
    <2>5. (\A s \in Threads : th[s].pc \in {"evaluate", "check", "claim", "call", "called", "recheck"} =>
               th[s].policy # Fixture)'
      BY <1>3, <2>1, <2>3 DEF Calls, p
    <2>6. QueriesAreCounted'
      BY <1>3, <2>1, <2>3 DEF Calls, QueriesAreCounted
    <2>7. (\A x \in Policies, y \in Queries : sent[x][y] <= 1 /\ (claims[x][y] = None => sent[x][y] = 0))'
      BY <1>1, <2>1 DEF Calls
    <2> QED BY <2>4, <2>5, <2>6, <2>7 DEF Calls
  <1> QED BY <1>1, <1>4, <1>5

\* A call that is made was new.
LEMMA CallsMade ==
    ASSUME Types, Types', Calls, NEW t \in Threads, NEW ok \in BOOLEAN, Call(t, ok), UNCHANGED grants
    PROVE  Calls'
  <1> DEFINE p == th[t].policy
             o == th[t].op
  <1>1. /\ OthersWait(t) /\ th[t].pc = "call" /\ Counted(p, o)
        /\ \/ th'[t].pc = "check" /\ SameRun(th'[t], th[t])
           \/ th'[t].pc = "called" /\ SameRun(th'[t], th[t]) /\ th'[t].i = th[t].i
        /\ UNCHANGED claims
    BY CallEffect
  <1>2. \A s \in Threads : th[s].pc \in CallPcs => th[s].policy \in Policies /\ th[s].op \in Queries
    BY CallsHavePolicies
  <1>3. p \in Policies /\ o \in Queries /\ p # Fixture /\ th[t].i <= NumQueries
    BY <1>1, <1>2, PolicyNames DEF CallPcs, Calls, QueriesAreCounted
  <1>4. /\ claims[p][o] # None /\ sent[p][o] = 0
        /\ \A s \in Threads : th[s].pc = "call" /\ th[s].policy = p /\ th[s].op = o => s = t
    BY <1>1 DEF Calls, CallIsNew
  <1>5. \A s \in Threads : s # t => th'[s] = th[s]
    BY <1>1 DEF OthersWait
  <1>6. /\ th'[t].pc \in {"check", "called"} /\ th'[t].policy = p
        /\ th'[t].pc = "called" => th'[t].i = th[t].i
        /\ sent'[p][o] = 1
        /\ \A x \in Policies, y \in Queries : x # p \/ y # o => sent'[x][y] = sent[x][y]
    BY <1>1, <1>3, <1>4, CallNames DEF SameRun, Counted
  <1> HIDE DEF p, o
  <1>7. (\A s \in Threads : CallIsNew(s))'
    <2> SUFFICES ASSUME NEW s \in Threads, th'[s].pc = "call"
                 PROVE  /\ claims'[th'[s].policy][th'[s].op] # None
                        /\ sent'[th'[s].policy][th'[s].op] = 0
                        /\ \A u \in Threads : th'[u].pc = "call" /\ th'[u].policy = th'[s].policy
                                                /\ th'[u].op = th'[s].op => u = s
      BY DEF CallIsNew
    <2>1. s # t /\ th'[s] = th[s] /\ th[s].policy \in Policies /\ th[s].op \in Queries
      BY <1>2, <1>5, <1>6 DEF CallPcs
    <2>2. th[s].policy # p \/ th[s].op # o
      BY <1>4, <2>1
    <2>3. \A u \in Threads : th'[u].pc = "call" => th'[u] = th[u]
      BY <1>5, <1>6
    <2> QED BY <1>1, <1>6, <2>1, <2>2, <2>3 DEF Calls, CallIsNew
  <1>8. (\A s \in Threads : th[s].pc \in {"evaluate", "check", "claim", "call", "called", "recheck"} =>
             th[s].policy # Fixture)'
    BY <1>3, <1>5, <1>6 DEF Calls
  <1>9. QueriesAreCounted'
    BY <1>3, <1>5, <1>6 DEF Calls, QueriesAreCounted
  <1>10. (\A x \in Policies, y \in Queries : sent[x][y] <= 1 /\ (claims[x][y] = None => sent[x][y] = 0))'
    BY <1>1, <1>4, <1>6 DEF Calls
  <1> QED BY <1>7, <1>8, <1>9, <1>10 DEF Calls

\* A recorded call stays claimed.
LEMMA CallsRecorded ==
    ASSUME Types, Types', Calls, NEW t \in Threads, RecordCall(t), UNCHANGED grants
    PROVE  Calls'
  <1> DEFINE p == th[t].policy
             o == th[t].op
  <1>1. /\ OthersWait(t) /\ th[t].pc = "called"
        /\ claims'[p][o] # None /\ OtherClaimsStay(p, o)
        /\ \/ th'[t].pc = "check" /\ SameRun(th'[t], th[t])
           \/ th'[t].pc = "recheck" /\ SameRun(th'[t], th[t]) /\ th'[t].i = th[t].i
        /\ UNCHANGED sent
    BY RecordCallEffect
  <1>2. \A s \in Threads : th[s].pc \in CallPcs => th[s].policy \in Policies /\ th[s].op \in Queries
    BY CallsHavePolicies
  <1>3. p \in Policies /\ o \in Queries /\ p # Fixture /\ th[t].i <= NumQueries
    BY <1>1, <1>2, PolicyNames DEF CallPcs, Calls, QueriesAreCounted
  <1>4. /\ th'[t].pc \in {"check", "recheck"} /\ th'[t].policy = p
        /\ th'[t].pc = "recheck" => th'[t].i = th[t].i
    BY <1>1 DEF SameRun
  <1>5. \A s \in Threads : s # t => th'[s] = th[s]
    BY <1>1 DEF OthersWait
  <1>6. \A x \in Policies, y \in Queries : claims'[x][y] = None => claims[x][y] = None
    BY <1>1, CallNames DEF OtherClaimsStay
  <1> HIDE DEF p, o
  <1>7. (\A s \in Threads : CallIsNew(s))'
    <2>1. \A s \in Threads : th'[s].pc = "call" => th'[s] = th[s]
      BY <1>4, <1>5
    <2> QED BY <1>1, <1>2, <1>6, <2>1 DEF Calls, CallIsNew, CallPcs
  <1>8. (\A s \in Threads : th[s].pc \in {"evaluate", "check", "claim", "call", "called", "recheck"} =>
             th[s].policy # Fixture)'
    BY <1>3, <1>4, <1>5 DEF Calls
  <1>9. QueriesAreCounted'
    BY <1>3, <1>4, <1>5 DEF Calls, QueriesAreCounted
  <1>10. (\A x \in Policies, y \in Queries : sent[x][y] <= 1 /\ (claims[x][y] = None => sent[x][y] = 0))'
    BY <1>1, <1>6 DEF Calls
  <1> QED BY <1>7, <1>8, <1>9, <1>10 DEF Calls

\* A step of a request keeps Calls.
LEMMA CallsKept ==
    ASSUME Types, Types', Calls, ClaimsAreHeld, NEW t \in Threads,
           AskPreparation(t) \/ AskStart(t) \/ Work(t), UNCHANGED grants
    PROVE  Calls'
  <1> DEFINE SentStays == \A p \in Policies, o \in Queries : sent'[p][o] = sent[p][o]
             Stays == /\ OthersWait(t) /\ QueryClaimsStay /\ SentStays
                      /\ th'[t].pc # "call"
                      /\ th'[t].pc \in CallPcs => th'[t].policy # Fixture
                      /\ th'[t].pc \in {"claim", "called", "recheck"} => th'[t].i <= NumQueries
  <1>1. Stays => Calls'
    BY CallsStay
  <1>2. UNCHANGED claims => QueryClaimsStay
    BY DEF QueryClaimsStay
  <1>3. UNCHANGED sent => SentStays
    OBVIOUS
  <1>4. th[t].pc \in CallPcs => th[t].policy # Fixture
    BY DEF Calls, CallPcs
  <1>5. th[t].pc \in {"claim", "call", "called", "recheck"} => th[t].i <= NumQueries
    BY DEF Calls, QueriesAreCounted
  <1> HIDE DEF SentStays
  <1>6. ASSUME NEW k \in Keys, RequestPreparation(t, k) PROVE Calls'
    BY <1>1, <1>2, <1>3, <1>6, RequestPreparationEffect DEF CallPcs
  <1>7. ASSUME NEW x \in Pages, AnalysePage(t, x) PROVE Calls'
    BY <1>1, <1>2, <1>3, <1>7, AnalysePageEffect DEF CallPcs
  <1>8. ASSUME NEW x \in Pages, PrepareEvaluation(t, x) PROVE Calls'
    BY <1>1, <1>2, <1>3, <1>8, PrepareEvaluationEffect DEF CallPcs
  <1>9. ASSUME NEW r \in Runs, NEW s \in StartKeys, RequestStart(t, r, s) PROVE Calls'
    BY <1>1, <1>2, <1>3, <1>9, RequestStartEffect DEF CallPcs
  <1>10. CASE TakeSlot(t)
    BY <1>1, <1>2, <1>3, <1>10, TakeSlotEffect DEF CallPcs
  <1>11. CASE ClaimPreparation(t)
    BY <1>1, <1>2, <1>3, <1>11, ClaimPreparationEffect DEF CallPcs
  <1>12. CASE Send(t)
    <2>1. th[t].op \in {Browse, Analyse, Propose} /\ Counted(th[t].policy, th[t].op)
      BY <1>12, SendEffect DEF Providing
    <2>2. SentStays
      BY <2>1, CallNames DEF Counted, SentStays
    <2> QED BY <1>1, <1>12, <2>2, SendEffect DEF CallPcs
  <1>13. CASE Answered(t)
    BY <1>1, <1>3, <1>13, AnsweredEffect DEF CallPcs
  <1>14. CASE PreparationFails(t)
    BY <1>1, <1>2, <1>3, <1>14, PreparationFailsEffect DEF CallPcs
  <1>15. ASSUME NEW r \in Runs, NEW i \in Inputs, CreateRun(t, r, i) PROVE Calls'
    BY <1>1, <1>2, <1>3, <1>15, CreateRunEffect DEF CallPcs
  <1>16. CASE RecordRun(t)
    BY <1>1, <1>2, <1>3, <1>16, RecordRunEffect DEF CallPcs
  <1>17. CASE Start(t)
    BY <1>1, <1>2, <1>3, <1>17, StartEffect DEF CallPcs
  <1>18. CASE ClaimEvaluation(t)
    BY <1>1, <1>3, <1>4, <1>18, ClaimEvaluationEffect DEF CallPcs, SameRun
  <1>19. CASE Check(t)
    BY <1>1, <1>3, <1>4, <1>19, CheckEffect DEF CallPcs, SameRun
  <1>20. CASE Recheck(t)
    BY <1>1, <1>2, <1>3, <1>4, <1>5, <1>20, RecheckEffect DEF CallPcs, SameRun
  <1>21. CASE Finish(t)
    BY <1>1, <1>2, <1>3, <1>21, FinishEffect DEF CallPcs
  <1>22. CASE RecordEvaluation(t)
    BY <1>1, <1>3, <1>22, RecordEvaluationEffect DEF CallPcs
  <1>23. CASE Die(t)
    BY <1>1, <1>2, <1>3, <1>23, DieEffect DEF CallPcs
  <1>24. CASE ClaimCall(t)
    BY <1>24, CallsClaimed
  <1>25. ASSUME NEW ok \in BOOLEAN, Call(t, ok) PROVE Calls'
    BY <1>25, CallsMade
  <1>26. CASE RecordCall(t)
    BY <1>26, CallsRecorded
  <1> QED BY <1>6, <1>7, <1>8, <1>9, <1>10, <1>11, <1>12, <1>13, <1>14, <1>15, <1>16, <1>17, <1>18, <1>19,
             <1>20, <1>21, <1>22, <1>23, <1>24, <1>25, <1>26 DEF AskPreparation, AskStart, Work

----------------------------------------------------------------------------
(* Approval and results.                                                   *)

\* How a step may change the runs: a run that is there keeps its inputs unless
\* its revision moves on.
RunsGoOn ==
    \A r \in Runs : Exists(r) =>
        /\ Exists(r)'
        /\ runs'[r].rev >= runs[r].rev
        /\ runs'[r].rev = runs[r].rev => runs'[r].inputs = runs[r].inputs

\* A row that may be there.
GoodRow(x) ==
    /\ x \in Run
    /\ x.state \in DoneStates \cup {"evaluating"} => x.approval = [rev |-> x.rev, inputs |-> x.inputs]
    /\ x.state \in DoneStates => x.results.inputs = x.inputs

LEMMA RowsAreGood ==
    ASSUME RunsOK, Approvals
    PROVE  \A r \in Runs : runs[r].state # "unused" => GoodRow(runs[r])
  BY DEF RunsOK, NoRun, Approvals, ResultsAreApproved, Approved, GoodRow, Exists

\* Rows other than that of one run stay, which gets a good one.
LEMMA RowWritten ==
    ASSUME RunsOK, Approvals, NEW r \in Runs, NEW x, GoodRow(x), runs' = [runs EXCEPT ![r] = x],
           Exists(r) => x.rev = runs[r].rev + 1 \/ (x.rev = runs[r].rev /\ x.inputs = runs[r].inputs)
    PROVE  RunsOK' /\ RunsGoOn /\ \A y \in Runs : runs'[y].state # "unused" => GoodRow(runs'[y])
  <1>1. runs'[r] = x /\ \A y \in Runs \ {r} : runs'[y] = runs[y]
    BY DEF RunsOK
  <1>2. x \in Run /\ x.state # "unused"
    BY DEF GoodRow, Run, DoneStates
  <1>3. RunsOK'
    BY <1>2 DEF RunsOK
  <1>4. \A y \in Runs : Exists(y) => runs[y].rev \in Nat
    <2>1. \A y \in Runs : Exists(y) => runs[y] \in Run
      BY DEF RunsOK, NoRun, Exists
    <2> QED BY <2>1, BoundFacts DEF Run
  <1>5. RunsGoOn
    BY <1>1, <1>2, <1>4 DEF RunsGoOn, Exists
  <1>6. \A y \in Runs : runs'[y].state # "unused" => GoodRow(runs'[y])
    BY <1>1, RowsAreGood
  <1> QED BY <1>3, <1>5, <1>6

LEMMA RunsStay ==
    ASSUME RunsOK, Approvals, UNCHANGED runs
    PROVE  RunsGoOn /\ \A y \in Runs : runs'[y].state # "unused" => GoodRow(runs'[y])
  <1>1. \A y \in Runs : Exists(y) => runs[y].rev \in Nat
    <2>1. \A y \in Runs : Exists(y) => runs[y] \in Run
      BY DEF RunsOK, NoRun, Exists
    <2> QED BY <2>1, BoundFacts DEF Run
  <1> QED BY <1>1, RowsAreGood DEF RunsGoOn, Exists

\* Approvals are kept by a step that lets runs go on, and its request follows.
LEMMA ApprovalsStay ==
    ASSUME Types, Types', Approvals, RunsGoOn,
           \A y \in Runs : runs'[y].state # "unused" => GoodRow(runs'[y]),
           NEW W \in SUBSET Threads, \A s \in Threads \ W : th'[s] = th[s],
           (\A s \in W : Follows(th[s]))'
    PROVE  Approvals'
  <1>1. (\A s \in Threads : Follows(th[s]))'
    <2> SUFFICES ASSUME NEW s \in Threads \ W PROVE Follows(th[s])'
      OBVIOUS
    <2> DEFINE q == th[s]
    <2>1. q \in Requests /\ Follows(q)
      BY DEF Types, ThreadsOK, Approvals
    <2>2. q' = q
      OBVIOUS
    <2>3. q.pc \in ExecutorPcs =>
            /\ runs'[q.run].state # "unused"
            /\ q.rev <= runs'[q.run].rev
            /\ q.rev = runs'[q.run].rev => q.inputs = runs'[q.run].inputs
      <3> HIDE DEF q
      <3> SUFFICES ASSUME q.pc \in ExecutorPcs
                   PROVE  /\ runs'[q.run].state # "unused"
                          /\ q.rev <= runs'[q.run].rev
                          /\ q.rev = runs'[q.run].rev => q.inputs = runs'[q.run].inputs
        OBVIOUS
      <3>1. q \in Executing /\ q.run \in Runs /\ q.rev \in Nat
        BY <2>1, RequestKinds, BoundFacts DEF ExecutorPcs, Executing
      <3>2. /\ Exists(q.run) /\ q.rev <= runs[q.run].rev
            /\ q.rev = runs[q.run].rev => q.inputs = runs[q.run].inputs
        BY <2>1 DEF Follows, ExecutorPcs
      <3>3. /\ runs'[q.run].state # "unused" /\ runs'[q.run].rev >= runs[q.run].rev
            /\ runs'[q.run].rev = runs[q.run].rev => runs'[q.run].inputs = runs[q.run].inputs
        BY <3>1, <3>2 DEF RunsGoOn, Exists
      <3>4. runs[q.run].rev \in Nat /\ runs'[q.run].rev \in Nat
        <4>1. runs[q.run] \in Run /\ runs'[q.run] \in Run
          BY <3>1, <3>2, <3>3 DEF Types, RunsOK, Exists, NoRun
        <4> QED BY <4>1, BoundFacts DEF Run
      <3> QED BY <3>1, <3>2, <3>3, <3>4
    <2> QED BY <2>2, <2>3 DEF Follows, ExecutorPcs, Exists
  <1>2. (\A r \in Runs : runs[r].state = "evaluating" => Approved(r))'
    BY DEF GoodRow, Approved
  <1>3. ResultsAreApproved'
    BY DEF GoodRow, ResultsAreApproved, Exists
  <1> QED BY <1>1, <1>2, <1>3 DEF Approvals

\* What the owner does to a run, without a request that lasts.
LEMMA OwnerStepKeeps ==
    ASSUME Types, Approvals, NEW r \in Runs, OwnerStep(r), UNCHANGED grants
    PROVE  Types' /\ Approvals' /\ UNCHANGED <<prepared, claims, slots, pages, th, sent, answers>>
  <1>1. UNCHANGED <<prepared, claims, slots, pages, th, sent, answers>>
    BY DEF OwnerStep, Approve, Revise, Cancel, MarkExported, CreateFixture
  <1>2. RunsOK /\ (Exists(r) => GoodRow(runs[r]))
    BY RowsAreGood DEF Types, Exists
  <1>3. ASSUME NEW x, GoodRow(x), runs' = [runs EXCEPT ![r] = x],
               Exists(r) => x.rev = runs[r].rev + 1 \/ (x.rev = runs[r].rev /\ x.inputs = runs[r].inputs)
        PROVE  Types' /\ Approvals'
    <2>1. RunsOK' /\ RunsGoOn /\ \A y \in Runs : runs'[y].state # "unused" => GoodRow(runs'[y])
      BY <1>2, <1>3, RowWritten
    <2>2. Types'
      BY <1>1, <2>1 DEF Types, PreparedOK, ClaimsOK, SlotsOK, PagesOK, SentOK, AnswersOK, ThreadsOK
    <2>3. \A s \in Threads \ {} : th'[s] = th[s]
      BY <1>1
    <2>4. (\A s \in {} : Follows(th[s]))'
      OBVIOUS
    <2>5. {} \in SUBSET Threads
      OBVIOUS
    <2> QED BY <2>1, <2>2, <2>3, <2>4, <2>5, ApprovalsStay
  <1>4. ASSUME runs[r].state \in {"awaiting", "evaluating"} \cup DoneStates \cup RevisableStates
        PROVE  Exists(r) /\ runs[r] \in Run /\ runs[r].rev \in Nat
    <2>1. Exists(r)
      BY <1>4 DEF DoneStates, RevisableStates, Exists
    <2>2. runs[r] \in Run
      BY <1>2, <2>1 DEF GoodRow
    <2> QED BY <2>1, <2>2, BoundFacts DEF Run
  <1>5. CASE Approve(r)
    <2> DEFINE x == [runs[r] EXCEPT !.approval = [rev |-> runs[r].rev, inputs |-> runs[r].inputs]]
    <2>1. runs[r].state = "awaiting" /\ runs[r] \in Run /\ runs[r].rev \in Nat
      BY <1>4, <1>5 DEF Approve
    <2>2. GoodRow(x) /\ x.rev = runs[r].rev /\ x.inputs = runs[r].inputs
      BY <2>1 DEF GoodRow, Run, DoneStates
    <2>3. runs' = [runs EXCEPT ![r] = x]
      BY <1>5 DEF Approve
    <2> HIDE DEF x
    <2> QED BY <1>1, <1>3, <2>1, <2>2, <2>3
  <1>6. CASE Cancel(r)
    <2> DEFINE x == [runs[r] EXCEPT !.state = "cancelled", !.approval = None]
    <2>1. runs[r] \in Run /\ runs[r].rev \in Nat
      BY <1>4, <1>6 DEF Cancel
    <2>2. GoodRow(x) /\ x.rev = runs[r].rev /\ x.inputs = runs[r].inputs
      BY <2>1 DEF GoodRow, Run, DoneStates
    <2>3. runs' = [runs EXCEPT ![r] = x]
      BY <1>6 DEF Cancel
    <2> HIDE DEF x
    <2> QED BY <1>1, <1>3, <2>1, <2>2, <2>3
  <1>7. CASE MarkExported(r)
    <2> DEFINE x == [runs[r] EXCEPT !.state = "exported"]
    <2>1. runs[r] \in Run /\ runs[r].rev \in Nat /\ GoodRow(runs[r]) /\ runs[r].state \in DoneStates
      BY <1>2, <1>4, <1>7 DEF MarkExported
    <2>2. GoodRow(x) /\ x.rev = runs[r].rev /\ x.inputs = runs[r].inputs
      BY <2>1 DEF GoodRow, Run, DoneStates
    <2>3. runs' = [runs EXCEPT ![r] = x]
      BY <1>7 DEF MarkExported
    <2> HIDE DEF x
    <2> QED BY <1>1, <1>3, <2>1, <2>2, <2>3
  <1>8. ASSUME NEW i \in Inputs, Revise(r, i) PROVE Types' /\ Approvals'
    <2> DEFINE x == [NewRun(runs[r].policy, i) EXCEPT !.rev = runs[r].rev + 1]
    <2>1. runs[r] \in Run /\ runs[r].rev \in 1 .. MaxRev /\ runs[r].rev + 1 \in 1 .. MaxRev
      BY <1>4, <1>8, BoundFacts DEF Revise, Run
    <2>2. GoodRow(x) /\ x.rev = runs[r].rev + 1
      BY <2>1 DEF GoodRow, NewRun, Run, DoneStates
    <2>3. runs' = [runs EXCEPT ![r] = x]
      BY <1>8 DEF Revise
    <2> HIDE DEF x
    <2> QED BY <1>3, <2>1, <2>2, <2>3
  <1>9. ASSUME NEW i \in Inputs, CreateFixture(r, i) PROVE Types' /\ Approvals'
    <2> DEFINE x == NewRun(Fixture, i)
    <2>1. GoodRow(x)
      BY BoundFacts DEF GoodRow, NewRun, Run, DoneStates
    <2>2. ~ Exists(r) /\ runs' = [runs EXCEPT ![r] = x]
      BY <1>9 DEF CreateFixture
    <2> HIDE DEF x
    <2> QED BY <1>3, <2>1, <2>2
  <1> QED BY <1>1, <1>5, <1>6, <1>7, <1>8, <1>9 DEF OwnerStep

\* A step of a request keeps Approvals.
LEMMA ApprovalsKept ==
    ASSUME Types, Types', Calls, Approvals, ClaimsAreHeld, NEW t \in Threads,
           AskPreparation(t) \/ AskStart(t) \/ Work(t), UNCHANGED grants
    PROVE  Approvals'
  <1>1. RunsOK /\ th[t] \in Requests /\ Follows(th[t]) /\ {t} \in SUBSET Threads
    BY DEF Types, ThreadsOK, Approvals
  <1>2. ASSUME RunsGoOn, \A y \in Runs : runs'[y].state # "unused" => GoodRow(runs'[y]),
               OthersWait(t), Follows(th[t])'
        PROVE  Approvals'
    <2>1. \A s \in Threads \ {t} : th'[s] = th[s]
      BY <1>2 DEF OthersWait
    <2>2. (\A s \in {t} : Follows(th[s]))'
      BY <1>2
    <2> QED BY <1>1, <1>2, <2>1, <2>2, ApprovalsStay
  <1>3. ASSUME OthersWait(t), UNCHANGED runs, th'[t].pc \notin ExecutorPcs PROVE Approvals'
    <2>1. Follows(th[t])'
      BY <1>3 DEF Follows, ExecutorPcs
    <2> QED BY <1>1, <1>2, <1>3, <2>1, RunsStay
  <1>4. ASSUME OthersWait(t), UNCHANGED runs, th[t].pc \in ExecutorPcs,
               th'[t].pc \in ExecutorPcs => SameRun(th'[t], th[t])
        PROVE  Approvals'
    <2>1. Follows(th[t])'
      BY <1>1, <1>4 DEF Follows, ExecutorPcs, SameRun, Exists
    <2> QED BY <1>1, <1>2, <1>4, <2>1, RunsStay
  <1>5. CASE Start(t)
    <2>1. CASE th'[t].pc = "idle" /\ UNCHANGED runs
      BY <1>3, <1>5, <2>1, StartEffect DEF ExecutorPcs
    <2>2. CASE th'[t].pc # "idle"
      <3> DEFINE r == th[t].run
                 x == [runs[r] EXCEPT !.state = "evaluating", !.key = th[t].key]
      <3>1. /\ r \in Runs /\ Exists(r) /\ th'[t].run = r /\ th'[t].rev = runs[r].rev
            /\ th'[t].inputs = runs[r].inputs /\ OthersWait(t) /\ th[t].pc = "start"
            /\ UNCHANGED runs \/ (Approved(r) /\ runs' = [runs EXCEPT ![r] = x])
        BY <1>5, <2>2, StartEffect
      <3>2. GoodRow(runs[r]) /\ runs[r] \in Run /\ runs[r].rev \in Nat
        <4>1. GoodRow(runs[r])
          BY <1>1, <3>1, RowsAreGood DEF Exists
        <4> QED BY <4>1, BoundFacts DEF GoodRow, Run
      <3>3. CASE UNCHANGED runs
        <4>1. Follows(th[t])'
          BY <3>1, <3>2, <3>3 DEF Follows, Exists
        <4> QED BY <1>1, <1>2, <3>1, <3>3, <4>1, RunsStay
      <3>4. CASE Approved(r) /\ runs' = [runs EXCEPT ![r] = x]
        <4>1. th[t].key \in StartKeys
          BY <1>1, <3>1, RequestKinds DEF Starting
        <4>2. GoodRow(x) /\ x.rev = runs[r].rev /\ x.inputs = runs[r].inputs
          BY <3>2, <3>4, <4>1 DEF GoodRow, Run, Approved, DoneStates
        <4> HIDE DEF x
        <4>3. RunsGoOn /\ (\A y \in Runs : runs'[y].state # "unused" => GoodRow(runs'[y])) /\ runs'[r] = x
          BY <1>1, <3>1, <3>2, <3>4, <4>2, RowWritten DEF RunsOK
        <4>4. x.state # "unused"
          BY <4>2 DEF GoodRow, Run, DoneStates
        <4>5. Follows(th[t])'
          BY <3>1, <3>2, <4>2, <4>3, <4>4 DEF Follows, Exists
        <4> QED BY <1>2, <3>1, <4>3, <4>5
      <3> QED BY <3>1, <3>3, <3>4
    <2> QED BY <1>5, <2>1, <2>2, StartEffect
  <1>6. CASE Finish(t)
    <2> DEFINE r == th[t].run
               out == Outcome(th[t].good)
               results == [inputs |-> th[t].inputs, good |-> th[t].good]
               x == [runs[r] EXCEPT !.state = out, !.results = results]
    <2>1. /\ OthersWait(t) /\ th[t].pc = "finish" /\ th[t] \in Executing
          /\ th'[t].pc \notin ExecutorPcs
          /\ \/ UNCHANGED runs
             \/ /\ th[t].rev = runs[r].rev /\ runs[r].state = "evaluating"
                /\ runs' = [runs EXCEPT ![r] = x] /\ out \in DoneStates
      BY <1>6, FinishEffect DEF ExecutorPcs
    <2>2. CASE UNCHANGED runs
      BY <1>3, <2>1, <2>2
    <2>3. CASE /\ th[t].rev = runs[r].rev /\ runs[r].state = "evaluating"
               /\ runs' = [runs EXCEPT ![r] = x] /\ out \in DoneStates
      <3>1. r \in Runs /\ results \in [inputs : Inputs, good : Nat] /\ results.inputs = th[t].inputs
        BY <2>1 DEF Executing
      <3>2. runs[r] \in Run /\ GoodRow(runs[r]) /\ runs[r].rev \in Nat
        <4>1. GoodRow(runs[r])
          BY <1>1, <2>3, <3>1, RowsAreGood
        <4> QED BY <4>1, BoundFacts DEF GoodRow, Run
      <3>3. th[t].inputs = runs[r].inputs
        BY <1>1, <2>1, <2>3 DEF Follows
      <3>4. GoodRow(x) /\ x.rev = runs[r].rev /\ x.inputs = runs[r].inputs
        <4> HIDE DEF results, out, r
        <4>1. x \in Run /\ x.state = out /\ x.results = results /\ x.approval = runs[r].approval
              /\ x.rev = runs[r].rev /\ x.inputs = runs[r].inputs
          BY <2>3, <3>1, <3>2 DEF Run
        <4> HIDE DEF x
        <4> QED BY <2>3, <3>1, <3>2, <3>3, <4>1 DEF GoodRow
      <3> HIDE DEF x
      <3>5. RunsGoOn /\ (\A y \in Runs : runs'[y].state # "unused" => GoodRow(runs'[y]))
        BY <1>1, <2>3, <3>1, <3>2, <3>4, RowWritten
      <3>6. Follows(th[t])'
        BY <2>1 DEF Follows, ExecutorPcs
      <3> QED BY <1>2, <2>1, <3>5, <3>6
    <2> QED BY <2>1, <2>2, <2>3
  <1>7. ASSUME NEW r \in Runs, NEW i \in Inputs, CreateRun(t, r, i) PROVE Approvals'
    <2> DEFINE x == NewRun(th[t].policy, i)
    <2>1. /\ OthersWait(t) /\ th'[t].pc \notin ExecutorPcs /\ ~ Exists(r)
          /\ runs' = [runs EXCEPT ![r] = x] /\ th[t] \in Providing
      BY <1>7, CreateRunEffect DEF ExecutorPcs
    <2>2. GoodRow(x)
      BY <2>1, BoundFacts DEF GoodRow, NewRun, Run, DoneStates, Providing
    <2> HIDE DEF x
    <2>3. RunsGoOn /\ (\A y \in Runs : runs'[y].state # "unused" => GoodRow(runs'[y]))
      BY <1>1, <2>1, <2>2, RowWritten
    <2>4. Follows(th[t])'
      BY <2>1 DEF Follows, ExecutorPcs
    <2> QED BY <1>2, <2>1, <2>3, <2>4
  <1>8. ASSUME NEW k \in Keys, RequestPreparation(t, k) PROVE Approvals'
    BY <1>3, <1>8, RequestPreparationEffect DEF ExecutorPcs
  <1>9. ASSUME NEW x \in Pages, AnalysePage(t, x) PROVE Approvals'
    BY <1>3, <1>9, AnalysePageEffect DEF ExecutorPcs
  <1>10. ASSUME NEW x \in Pages, PrepareEvaluation(t, x) PROVE Approvals'
    BY <1>3, <1>10, PrepareEvaluationEffect DEF ExecutorPcs
  <1>11. ASSUME NEW r \in Runs, NEW s \in StartKeys, RequestStart(t, r, s) PROVE Approvals'
    BY <1>3, <1>11, RequestStartEffect DEF ExecutorPcs
  <1>12. CASE TakeSlot(t)
    BY <1>3, <1>12, TakeSlotEffect DEF ExecutorPcs
  <1>13. CASE ClaimPreparation(t)
    BY <1>3, <1>13, ClaimPreparationEffect DEF ExecutorPcs
  <1>14. CASE Send(t)
    BY <1>3, <1>14, SendEffect DEF ExecutorPcs
  <1>15. CASE Answered(t)
    BY <1>3, <1>15, AnsweredEffect DEF ExecutorPcs
  <1>16. CASE PreparationFails(t)
    BY <1>3, <1>16, PreparationFailsEffect DEF ExecutorPcs
  <1>17. CASE RecordRun(t)
    BY <1>3, <1>17, RecordRunEffect DEF ExecutorPcs
  <1>18. CASE ClaimEvaluation(t)
    BY <1>4, <1>18, ClaimEvaluationEffect DEF ExecutorPcs
  <1>19. CASE Check(t)
    BY <1>4, <1>19, CheckEffect DEF ExecutorPcs
  <1>20. CASE ClaimCall(t)
    BY <1>4, <1>20, ClaimCallEffect DEF ExecutorPcs
  <1>21. ASSUME NEW ok \in BOOLEAN, Call(t, ok) PROVE Approvals'
    BY <1>4, <1>21, CallEffect DEF ExecutorPcs
  <1>22. CASE RecordCall(t)
    BY <1>4, <1>22, RecordCallEffect DEF ExecutorPcs
  <1>23. CASE Recheck(t)
    BY <1>4, <1>23, RecheckEffect DEF ExecutorPcs
  <1>24. CASE RecordEvaluation(t)
    BY <1>3, <1>24, RecordEvaluationEffect DEF ExecutorPcs
  <1>25. CASE Die(t)
    BY <1>3, <1>25, DieEffect DEF ExecutorPcs
  <1> QED BY <1>5, <1>6, <1>7, <1>8, <1>9, <1>10, <1>11, <1>12, <1>13, <1>14, <1>15, <1>16, <1>17, <1>18, <1>19,
             <1>20, <1>21, <1>22, <1>23, <1>24, <1>25 DEF AskPreparation, AskStart, Work

----------------------------------------------------------------------------
(* The calls of a preparation.                                             *)

PreparationOps == {Browse, Analyse, Propose}

\* Of the calls only those of queries change, if any.
PreparationCallsStay == \A p \in Policies, o \in PreparationOps : sent'[p][o] = sent[p][o]

LEMMA PolicyOfPreparation ==
    ASSUME Types
    PROVE  \A s \in Threads : Prepares(th[s]) =>
              th[s].policy \in Policies /\ th[s].key \in Keys \cup Pages
  <1> SUFFICES ASSUME NEW s \in Threads, Prepares(th[s])
               PROVE  th[s].policy \in Policies /\ th[s].key \in Keys \cup Pages
    OBVIOUS
  <1>1. th[s] \in Providing \cup Recording
    BY RequestKinds DEF Types, ThreadsOK, Prepares
  <1> QED BY <1>1 DEF Providing, Recording

\* A request on its way knows the same while its policy's rows stay.
LEMMA ClaimStays ==
    ASSUME NEW q, q.policy \in Policies, Prepares(q), HoldsClaim(q), CallsAreAhead(q),
           q.pc \in {"send", "sent"} => q.op \in PreparationOps,
           prepared'[q.policy] = prepared[q.policy],
           q.key \in Pages /\ q.policy = <<"page", q.key>> => pages'[q.key] = pages[q.key],
           \A o \in PreparationOps : sent'[q.policy][o] = sent[q.policy][o]
    PROVE  HoldsClaim(q)' /\ CallsAreAhead(q)'
  <1>1. HoldsClaim(q)'
    BY DEF HoldsClaim
  <1>2. CallsAreAhead(q)'
    BY DEF CallsAreAhead, PreparationOps
  <1> QED BY <1>1, <1>2

\* A step that changes what belongs to one policy only, which no other request
\* prepares, keeps Preparations if it leaves this policy and its own request
\* as they should be.
LEMMA OnePolicyWritten ==
    ASSUME Types, Types', Preparations, NEW t \in Threads, NEW p \in Policies, OthersWait(t),
           \A s \in Threads \ {t} : Prepares(th[s]) => th[s].policy # p,
           \A a \in Policies \ {p} : prepared'[a] = prepared[a],
           \A x \in Pages : <<"page", x>> # p => pages'[x] = pages[x],
           \A a \in Policies \ {p}, o \in PreparationOps : sent'[a][o] = sent[a][o],
           PolicyIsProper(p)',
           Prepares(th'[t]) => th'[t].policy = p,
           (Prepares(th[t]) => HoldsClaim(th[t]) /\ CallsAreAhead(th[t]))'
    PROVE  Preparations'
  <1>1. ASSUME NEW s \in Threads \ {t}, Prepares(th'[s])
        PROVE  (HoldsClaim(th[s]) /\ CallsAreAhead(th[s]))'
    <2> DEFINE q == th[s]
    <2>1. th'[s] = q /\ Prepares(q)
      BY <1>1 DEF OthersWait
    <2>2. /\ q.policy \in Policies /\ q.policy # p
          /\ HoldsClaim(q) /\ CallsAreAhead(q)
      BY <2>1, PolicyOfPreparation DEF Preparations, ClaimsAreHeld
    <2>3. q.pc \in {"send", "sent"} => q.op \in PreparationOps
      BY RequestKinds DEF Types, ThreadsOK, Providing, PreparationOps
    <2>4. PICK r : r = q
      OBVIOUS
    <2>5. HoldsClaim(r)' /\ CallsAreAhead(r)'
      BY <2>1, <2>2, <2>3, <2>4, ClaimStays
    <2>6. th'[s] = r
      BY <2>1, <2>4
    <2> QED BY <2>5, <2>6 DEF HoldsClaim, CallsAreAhead
  <1>2. ClaimsAreHeld'
    BY <1>1 DEF ClaimsAreHeld
  <1>3. OnePreparation'
    BY DEF OnePreparation, Preparations, OthersWait
  <1>4. (\A a \in Policies : PolicyIsProper(a))'
    <2> SUFFICES ASSUME NEW a \in Policies \ {p} PROVE PolicyIsProper(a)'
      OBVIOUS
    <2>1. PolicyIsProper(a)
      BY DEF Preparations
    <2>2. a \in PagePolicies => pages'[a[2]] = pages[a[2]]
      BY PolicyNames
    <2> QED BY <2>1, <2>2 DEF PolicyIsProper, PreparationOps
  <1> QED BY <1>2, <1>3, <1>4 DEF Preparations

\* A step that writes nothing of a preparation keeps Preparations, if those
\* that go on do not prepare.
LEMMA PreparationsStay ==
    ASSUME Types, Types', Preparations, UNCHANGED <<prepared, pages>>, PreparationCallsStay,
           NEW W \in SUBSET Threads, \A s \in Threads \ W : th'[s] = th[s],
           \A s \in W : ~ Prepares(th'[s])
    PROVE  Preparations'
  <1>1. ASSUME NEW s \in Threads, Prepares(th'[s])
        PROVE  (HoldsClaim(th[s]) /\ CallsAreAhead(th[s]))'
    <2> DEFINE q == th[s]
    <2>1. th'[s] = q /\ Prepares(q)
      BY <1>1
    <2>2. q.policy \in Policies /\ HoldsClaim(q) /\ CallsAreAhead(q)
      BY <2>1, PolicyOfPreparation DEF Preparations, ClaimsAreHeld
    <2>3. q.pc \in {"send", "sent"} => q.op \in PreparationOps
      BY RequestKinds DEF Types, ThreadsOK, Providing, PreparationOps
    <2>4. PICK r : r = q
      OBVIOUS
    <2>5. HoldsClaim(r)' /\ CallsAreAhead(r)'
      BY <2>1, <2>2, <2>3, <2>4, ClaimStays DEF PreparationCallsStay
    <2>6. th'[s] = r
      BY <2>1, <2>4
    <2> QED BY <2>5, <2>6 DEF HoldsClaim, CallsAreAhead
  <1>2. ClaimsAreHeld'
    BY <1>1 DEF ClaimsAreHeld
  <1>3. OnePreparation'
    BY DEF OnePreparation, Preparations
  <1>4. (\A a \in Policies : PolicyIsProper(a))'
    BY DEF Preparations, PolicyIsProper, PreparationCallsStay, PreparationOps
  <1> QED BY <1>2, <1>3, <1>4 DEF Preparations

\* A preparation is claimed for a policy that nobody prepares, and which no
\* call was made for.
LEMMA PreparationClaimed ==
    ASSUME Types, Types', Preparations, NEW t \in Threads, UNCHANGED grants,
           ClaimPreparation(t) \/ (\E x \in Pages : AnalysePage(t, x) \/ PrepareEvaluation(t, x))
    PROVE  Preparations'
  <1>1. \A s \in Threads : Prepares(th[s]) => HoldsClaim(th[s])
    BY DEF Preparations, ClaimsAreHeld
  <1>2. CASE ClaimPreparation(t)
    <2>1. CASE th'[t].pc = "idle" /\ UNCHANGED prepared
      <3>1. UNCHANGED <<prepared, pages>> /\ PreparationCallsStay /\ OthersWait(t)
        BY <1>2, <2>1, ClaimPreparationEffect DEF PreparationCallsStay
      <3>2. {t} \in SUBSET Threads /\ (\A s \in Threads \ {t} : th'[s] = th[s])
            /\ (\A s \in {t} : ~ Prepares(th'[s]))
        BY <2>1, <3>1 DEF OthersWait, Prepares
      <3> QED BY <3>1, <3>2, PreparationsStay
    <2>2. CASE ~ (th'[t].pc = "idle" /\ UNCHANGED prepared)
      <3>1. PICK p \in Policies \ PagePolicies : p = th[t].policy
        BY <1>2, ClaimPreparationEffect DEF Asking
      <3>2. /\ OthersWait(t) /\ th[t].key \in Keys
            /\ prepared[p] = None
            /\ prepared'[p] # None /\ prepared'[p].key = th[t].key /\ prepared'[p].run = None
            /\ \A x \in Policies \ {p} : prepared'[x] = prepared[x]
            /\ th'[t].pc = "send" /\ th'[t].op = Browse
            /\ th'[t].policy = p /\ th'[t].key = th[t].key
            /\ UNCHANGED <<pages, sent>>
        BY <1>2, <2>2, <3>1, ClaimPreparationEffect DEF Asking
      <3>3. sent[p][Browse] = 0 /\ sent[p][Analyse] = 0 /\ sent[p][Propose] = 0
        BY <3>2 DEF Preparations, PolicyIsProper
      <3>4. \A s \in Threads \ {t} : Prepares(th[s]) => th[s].policy # p
        BY <1>1, <3>2 DEF HoldsClaim
      <3>5. PolicyIsProper(p)'
        BY <3>2, <3>3 DEF PolicyIsProper
      <3>6. (HoldsClaim(th[t]) /\ CallsAreAhead(th[t]))'
        BY <3>2, <3>3, CallNames DEF HoldsClaim, CallsAreAhead
      <3> QED BY <3>2, <3>4, <3>5, <3>6, OnePolicyWritten
    <2> QED BY <2>1, <2>2
  <1>3. ASSUME NEW x \in Pages, AnalysePage(t, x) PROVE Preparations'
    <2>1. PICK p \in PagePolicies : p = <<"page", x>> /\ p[2] = x
      BY PolicyNames
    <2>2. /\ OthersWait(t) /\ p \in Policies
          /\ pages[x].status = None /\ pages[x].evaluation = None
          /\ pages'[x].status = "running" /\ pages'[x].evaluation = None
          /\ \A y \in Pages : <<"page", y>> # p => pages'[y] = pages[y]
          /\ th'[t].pc = "send" /\ th'[t].policy = p /\ th'[t].key = x /\ th'[t].op = Browse
          /\ UNCHANGED <<prepared, sent>>
      BY <1>3, <2>1, AnalysePageEffect, PolicyNames DEF PageWritten
    <2>3. sent[p][Browse] = 0 /\ sent[p][Analyse] = 0 /\ sent[p][Propose] = 0
      BY <2>1, <2>2 DEF Preparations, PolicyIsProper
    <2>4. \A s \in Threads \ {t} : Prepares(th[s]) => th[s].policy # p
      <3> SUFFICES ASSUME NEW s \in Threads, Prepares(th[s]), th[s].policy = p PROVE FALSE
        OBVIOUS
      <3>1. th[s].key = x
        BY <1>1, <2>1 DEF HoldsClaim
      <3> QED BY <1>1, <2>1, <2>2, <3>1, LiveNoneAssumption DEF HoldsClaim
    <2>5. PolicyIsProper(p)'
      BY <2>1, <2>2, <2>3, LiveNoneAssumption DEF PolicyIsProper
    <2>6. (HoldsClaim(th[t]) /\ CallsAreAhead(th[t]))'
      BY <2>1, <2>2, <2>3, CallNames DEF HoldsClaim, CallsAreAhead
    <2> QED BY <2>2, <2>4, <2>5, <2>6, OnePolicyWritten
  <1>4. ASSUME NEW x \in Pages, PrepareEvaluation(t, x) PROVE Preparations'
    <2>1. PICK p \in PagePolicies : p = <<"page", x>> /\ p[2] = x
      BY PolicyNames
    <2>2. /\ OthersWait(t) /\ p \in Policies
          /\ pages[x].status = "completed" /\ pages[x].evaluation = None
          /\ pages'[x].status = "completed" /\ pages'[x].evaluation = "running"
          /\ \A y \in Pages : <<"page", y>> # p => pages'[y] = pages[y]
          /\ th'[t].pc = "send" /\ th'[t].policy = p /\ th'[t].key = x /\ th'[t].op = Propose
          /\ UNCHANGED <<prepared, sent>>
      BY <1>4, <2>1, PrepareEvaluationEffect, PolicyNames DEF PageWritten
    <2>3. sent[p][Browse] <= 1 /\ sent[p][Analyse] <= 1 /\ sent[p][Propose] = 0
      BY <2>1, <2>2 DEF Preparations, PolicyIsProper
    <2>4. \A s \in Threads \ {t} : Prepares(th[s]) => th[s].policy # p
      <3> SUFFICES ASSUME NEW s \in Threads, Prepares(th[s]), th[s].policy = p PROVE FALSE
        OBVIOUS
      <3>1. th[s].key = x
        BY <1>1, <2>1 DEF HoldsClaim
      <3> QED BY <1>1, <2>1, <2>2, <3>1, LiveNoneAssumption DEF HoldsClaim
    <2>5. PolicyIsProper(p)'
      BY <2>1, <2>2, <2>3, LiveNoneAssumption DEF PolicyIsProper
    <2>6. (HoldsClaim(th[t]) /\ CallsAreAhead(th[t]))'
      BY <2>1, <2>2, <2>3, CallNames DEF HoldsClaim, CallsAreAhead
    <2> QED BY <2>2, <2>4, <2>5, <2>6, OnePolicyWritten
  <1> QED BY <1>2, <1>3, <1>4

\* What a request on its way knows, with its policy named.
LEMMA OnItsWay ==
    ASSUME Types, Preparations, NEW t \in Threads, Prepares(th[t])
    PROVE  \E p \in Policies :
             /\ p = th[t].policy /\ (OfPage(t) <=> p \in PagePolicies)
             /\ HoldsClaim(th[t]) /\ CallsAreAhead(th[t]) /\ PolicyIsProper(p)
             /\ \A s \in Threads \ {t} : Prepares(th[s]) => th[s].policy # p
             /\ p \in PagePolicies => th[t].key \in Pages /\ p = <<"page", th[t].key>> /\ p[2] = th[t].key
  <1>1. th[t].policy \in Policies
    BY PolicyOfPreparation
  <1>2. HoldsClaim(th[t]) /\ CallsAreAhead(th[t]) /\ PolicyIsProper(th[t].policy)
    BY <1>1 DEF Preparations, ClaimsAreHeld
  <1>3. \A s \in Threads \ {t} : Prepares(th[s]) => th[s].policy # th[t].policy
    BY DEF Preparations, OnePreparation
  <1>4. th[t].policy \in PagePolicies =>
          /\ th[t].key \in Pages /\ th[t].policy = <<"page", th[t].key>>
          /\ th[t].policy[2] = th[t].key
    BY <1>2 DEF HoldsClaim
  <1> QED BY <1>1, <1>2, <1>3, <1>4 DEF OfPage

\* A provider is called once for each claimed step.
LEMMA PreparationSent ==
    ASSUME Types, Types', Preparations, NEW t \in Threads, UNCHANGED grants, Send(t)
    PROVE  Preparations'
  <1>1. /\ OthersWait(t) /\ th[t] \in Providing /\ th[t].pc = "send" /\ Prepares(th[t])
        /\ th'[t].pc = "sent" /\ th'[t].op = th[t].op
        /\ th'[t].policy = th[t].policy /\ th'[t].key = th[t].key
        /\ Counted(th[t].policy, th[t].op)
        /\ UNCHANGED <<prepared, pages>>
    BY SendEffect DEF SameProvision, Prepares
  <1>2. PICK p \in Policies :
          /\ p = th[t].policy /\ (OfPage(t) <=> p \in PagePolicies)
          /\ HoldsClaim(th[t]) /\ CallsAreAhead(th[t]) /\ PolicyIsProper(p)
          /\ \A s \in Threads \ {t} : Prepares(th[s]) => th[s].policy # p
          /\ p \in PagePolicies => th[t].key \in Pages /\ p = <<"page", th[t].key>> /\ p[2] = th[t].key
    BY <1>1, OnItsWay
  <1>3. PICK o \in PreparationOps : o = th[t].op
    BY <1>1 DEF Providing, PreparationOps
  <1>4. /\ sent[p][o] = 0 /\ sent'[p][o] = 1
        /\ \A a \in Policies, b \in PreparationOps : a # p \/ b # o => sent'[a][b] = sent[a][b]
    BY <1>1, <1>2, <1>3, CallNames DEF CallsAreAhead, Counted, PreparationOps
  <1>5. PolicyIsProper(p)'
    <2>1. sent'[p][Browse] <= 1 /\ sent'[p][Analyse] <= 1 /\ sent'[p][Propose] <= 1
      BY <1>2, <1>4 DEF PolicyIsProper, PreparationOps
    <2>2. CASE p \in PagePolicies
      <3>1. IF o \in {Browse, Analyse} THEN pages[p[2]].status = "running"
            ELSE pages[p[2]].status = "completed" /\ pages[p[2]].evaluation = "running"
        BY <1>1, <1>2, <1>3, <2>2 DEF HoldsClaim
      <3>2. pages[p[2]].status # None /\ (o = Propose => pages[p[2]].evaluation # None)
        BY <3>1, CallNames, LiveNoneAssumption
      <3>3. pages[p[2]].evaluation = None => sent'[p][Propose] = 0
        BY <1>2, <1>4, <2>2, <3>2 DEF PolicyIsProper, PreparationOps
      <3> QED BY <1>1, <1>2, <2>1, <2>2, <3>2, <3>3 DEF PolicyIsProper
    <2>3. CASE p \notin PagePolicies
      <3>1. prepared'[p] # None
        BY <1>1, <1>2, <2>3 DEF HoldsClaim
      <3> QED BY <2>1, <2>3, <3>1 DEF PolicyIsProper
    <2> QED BY <2>2, <2>3
  <1>6. HoldsClaim(th[t])'
    BY <1>1, <1>2 DEF HoldsClaim
  <1>7. CallsAreAhead(th[t])'
    BY <1>1, <1>2, <1>3, <1>4, CallNames DEF CallsAreAhead, PreparationOps
  <1> QED BY <1>1, <1>2, <1>4, <1>5, <1>6, <1>7, OnePolicyWritten

\* An answer leads on to the next step, or ends the analysis of a page.
LEMMA PreparationAnswered ==
    ASSUME Types, Types', Preparations, NEW t \in Threads, UNCHANGED grants, Answered(t)
    PROVE  Preparations'
  <1>1. /\ OthersWait(t) /\ th[t] \in Providing /\ th[t].pc = "sent" /\ Prepares(th[t])
        /\ UNCHANGED <<prepared, sent>>
    BY AnsweredEffect DEF Prepares
  <1>2. PICK p \in Policies :
          /\ p = th[t].policy /\ (OfPage(t) <=> p \in PagePolicies)
          /\ HoldsClaim(th[t]) /\ CallsAreAhead(th[t]) /\ PolicyIsProper(p)
          /\ \A s \in Threads \ {t} : Prepares(th[s]) => th[s].policy # p
          /\ p \in PagePolicies => th[t].key \in Pages /\ p = <<"page", th[t].key>> /\ p[2] = th[t].key
    BY <1>1, OnItsWay
  <1>3. CASE th[t].op = Browse
    <2>1. /\ th'[t].pc = "send" /\ th'[t].policy = p /\ th'[t].key = th[t].key
          /\ th'[t].op = IF OfPage(t) THEN Analyse ELSE Propose
          /\ UNCHANGED pages
      BY <1>2, <1>3, AnsweredEffect, CallNames DEF SameProvision
    <2>2. PolicyIsProper(p)'
      BY <1>1, <1>2, <2>1 DEF PolicyIsProper
    <2>3. HoldsClaim(th[t])'
      BY <1>1, <1>2, <1>3, <2>1, CallNames DEF HoldsClaim
    <2>4. CallsAreAhead(th[t])'
      BY <1>1, <1>2, <1>3, <2>1, CallNames DEF CallsAreAhead
    <2> QED BY <1>1, <1>2, <2>1, <2>2, <2>3, <2>4, OnePolicyWritten
  <1>4. CASE th[t].op = Propose
    <2>1. /\ th'[t].pc = "create" /\ th'[t].policy = p /\ th'[t].key = th[t].key
          /\ UNCHANGED pages
      BY <1>2, <1>4, AnsweredEffect, CallNames DEF SameProvision
    <2>2. PolicyIsProper(p)'
      BY <1>1, <1>2, <2>1 DEF PolicyIsProper
    <2>3. HoldsClaim(th[t])'
      BY <1>1, <1>2, <1>4, <2>1, CallNames DEF HoldsClaim
    <2>4. CallsAreAhead(th[t])'
      BY <2>1 DEF CallsAreAhead
    <2> QED BY <1>1, <1>2, <2>1, <2>2, <2>3, <2>4, OnePolicyWritten
  <1>5. CASE th[t].op = Analyse
    <2>1. /\ th'[t].pc = "idle" /\ p \in PagePolicies
          /\ pages' = [pages EXCEPT ![th[t].key].status = "completed"]
      BY <1>1, <1>2, <1>5, AnsweredEffect, CallNames DEF HoldsClaim
    <2>2. /\ pages'[p[2]].status = "completed" /\ pages'[p[2]].evaluation = pages[p[2]].evaluation
          /\ \A y \in Pages : <<"page", y>> # p => pages'[y] = pages[y]
      BY <1>2, <2>1 DEF Types, PagesOK, Page
    <2>3. PolicyIsProper(p)'
      BY <1>1, <1>2, <2>1, <2>2, LiveNoneAssumption DEF PolicyIsProper
    <2>4. ~ Prepares(th'[t])
      BY <2>1 DEF Prepares
    <2> QED BY <1>1, <1>2, <2>2, <2>3, <2>4, OnePolicyWritten DEF Prepares
  <1> QED BY <1>1, <1>3, <1>4, <1>5 DEF Providing

\* A preparation ends, and leaves its claim.
LEMMA PreparationEnds ==
    ASSUME Types, Types', Preparations, NEW t \in Threads, UNCHANGED grants,
           PreparationFails(t) \/ RecordRun(t)
    PROVE  Preparations'
  <1>1. ClaimsAreHeld
    BY DEF Preparations
  <1>2. /\ OthersWait(t) /\ Prepares(th[t]) /\ th'[t].pc = "idle" /\ UNCHANGED sent
    BY <1>1, PreparationFailsEffect, RecordRunEffect DEF Prepares, PreparationFails, At
  <1>3. PICK p \in Policies :
          /\ p = th[t].policy /\ (OfPage(t) <=> p \in PagePolicies)
          /\ HoldsClaim(th[t]) /\ CallsAreAhead(th[t]) /\ PolicyIsProper(p)
          /\ \A s \in Threads \ {t} : Prepares(th[s]) => th[s].policy # p
          /\ p \in PagePolicies => th[t].key \in Pages /\ p = <<"page", th[t].key>> /\ p[2] = th[t].key
    BY <1>2, OnItsWay
  <1>4. ASSUME p \in PagePolicies PROVE Preparations'
    <2> DEFINE x == th[t].key
    <2>1. x \in Pages /\ p = <<"page", x>> /\ p[2] = x /\ pages[x] \in Page
      BY <1>3, <1>4 DEF Types, PagesOK
    <2>2. UNCHANGED prepared /\ \A y \in Pages \ {x} : pages'[y] = pages[y]
      BY <1>1, <1>3, <1>4, PreparationFailsEffect, RecordRunEffect DEF Types, PagesOK
    <2>3. /\ pages'[x].status # None
          /\ pages[x].evaluation = None => pages'[x].evaluation = None
          /\ pages'[x].evaluation # None => pages'[x].status = "completed"
          /\ pages'[x].evaluation = None => pages[x].evaluation = None
      <3>1. CASE RecordRun(t)
        <4>1. pages' = [pages EXCEPT ![x].evaluation = "prepared", ![x].run = th[t].run] /\ th[t].pc = "record"
          BY <1>1, <1>3, <1>4, <3>1, RecordRunEffect
        <4>2. pages[x].status = "completed" /\ pages[x].evaluation = "running"
          BY <1>3, <1>4, <4>1 DEF HoldsClaim
        <4>3. pages'[x].status = "completed" /\ pages'[x].evaluation = "prepared"
          BY <2>1, <4>1, <4>2 DEF Types, PagesOK, Page
        <4> QED BY <4>2, <4>3, LiveNoneAssumption
      <3>2. CASE PreparationFails(t)
        <4>1. /\ pages' = IF th[t].op = Propose THEN [pages EXCEPT ![x].evaluation = "failed"]
                          ELSE [pages EXCEPT ![x].status = "failed"]
              /\ th[t] \in Providing /\ th[t].pc \in {"send", "sent"}
          BY <1>1, <1>3, <1>4, <3>2, PreparationFailsEffect DEF PreparationFails, At
        <4>2. CASE th[t].op = Propose
          <5>1. pages[x].status = "completed" /\ pages[x].evaluation = "running"
            BY <1>3, <1>4, <4>1, <4>2, CallNames DEF HoldsClaim
          <5>2. pages'[x].status = "completed" /\ pages'[x].evaluation = "failed"
            BY <2>1, <4>1, <4>2, <5>1 DEF Types, PagesOK, Page
          <5> QED BY <5>1, <5>2, LiveNoneAssumption
        <4>3. CASE th[t].op # Propose
          <5>1. pages[x].status = "running"
            BY <1>3, <1>4, <4>1, <4>3 DEF HoldsClaim, Providing
          <5>2. pages[x].evaluation = None
            BY <1>3, <1>4, <2>1, <5>1 DEF PolicyIsProper
          <5>3. pages'[x].status = "failed" /\ pages'[x].evaluation = None
            BY <2>1, <4>1, <4>3, <5>2 DEF Types, PagesOK, Page
          <5> QED BY <5>2, <5>3, LiveNoneAssumption
        <4> QED BY <4>2, <4>3
      <3> QED BY <3>1, <3>2
    <2> HIDE DEF x
    <2>4. PolicyIsProper(p)'
      BY <1>2, <1>3, <1>4, <2>1, <2>2, <2>3 DEF PolicyIsProper
    <2>5. ~ Prepares(th'[t])
      BY <1>2 DEF Prepares
    <2>6. \A y \in Pages : <<"page", y>> # p => pages'[y] = pages[y]
      BY <2>1, <2>2
    <2> QED BY <1>2, <1>3, <2>2, <2>4, <2>5, <2>6, OnePolicyWritten DEF Prepares
  <1>5. ASSUME p \notin PagePolicies PROVE Preparations'
    <2>1. UNCHANGED pages /\ \A a \in Policies \ {p} : prepared'[a] = prepared[a]
      BY <1>1, <1>3, <1>5, PreparationFailsEffect, RecordRunEffect DEF Types, PreparedOK
    <2>2. prepared'[p] # None
      <3>1. prepared[p] # None /\ prepared[p] \in Preparation
        BY <1>3, <1>5 DEF HoldsClaim, Types, PreparedOK
      <3>2. prepared'[p] \in {None} \cup Preparation
        BY DEF Types, PreparedOK
      <3>3. \/ prepared' = [prepared EXCEPT ![p].status = "failed"]
            \/ prepared' = [prepared EXCEPT ![p].status = "completed", ![p].run = th[t].run]
        BY <1>1, <1>3, <1>5, PreparationFailsEffect, RecordRunEffect
      <3>4. \/ prepared'[p] = [prepared[p] EXCEPT !.status = "failed"]
            \/ prepared'[p] = [prepared[p] EXCEPT !.status = "completed", !.run = th[t].run]
        BY <3>3 DEF Types, PreparedOK
      <3>5. th[t].run \in Runs \/ prepared'[p] = [prepared[p] EXCEPT !.status = "failed"]
        BY <1>1, <1>3, <1>5, <3>4, PreparationFailsEffect, RecordRunEffect DEF Recording, Types, PreparedOK
      <3>6. prepared'[p] \in Preparation
        BY <3>1, <3>4, <3>5 DEF Preparation
      <3> QED BY <3>6, LiveNoneAssumption
    <2>3. PolicyIsProper(p)'
      BY <1>2, <1>3, <1>5, <2>2 DEF PolicyIsProper
    <2>4. ~ Prepares(th'[t])
      BY <1>2 DEF Prepares
    <2> QED BY <1>2, <1>3, <2>1, <2>3, <2>4, OnePolicyWritten DEF Prepares
  <1> QED BY <1>4, <1>5

\* A step of a request keeps Preparations.
LEMMA PreparationsKept ==
    ASSUME Types, Types', Preparations, Calls, NEW t \in Threads,
           AskPreparation(t) \/ AskStart(t) \/ Work(t), UNCHANGED grants
    PROVE  Preparations'
  <1>1. ASSUME OthersWait(t), UNCHANGED <<prepared, pages>>, PreparationCallsStay, ~ Prepares(th'[t])
        PROVE  Preparations'
    <2>1. {t} \in SUBSET Threads /\ (\A s \in Threads \ {t} : th'[s] = th[s])
          /\ \A s \in {t} : ~ Prepares(th'[s])
      BY <1>1 DEF OthersWait
    <2> QED BY <1>1, <2>1, PreparationsStay
  <1>2. UNCHANGED sent => PreparationCallsStay
    BY DEF PreparationCallsStay
  <1>3. ASSUME NEW k \in Keys, RequestPreparation(t, k) PROVE Preparations'
    BY <1>1, <1>2, <1>3, RequestPreparationEffect DEF Prepares
  <1>4. ASSUME NEW x \in Pages, AnalysePage(t, x) \/ PrepareEvaluation(t, x) PROVE Preparations'
    BY <1>4, PreparationClaimed
  <1>5. CASE ClaimPreparation(t)
    BY <1>5, PreparationClaimed
  <1>6. ASSUME NEW r \in Runs, NEW s \in StartKeys, RequestStart(t, r, s) PROVE Preparations'
    BY <1>1, <1>2, <1>6, RequestStartEffect DEF Prepares
  <1>7. CASE TakeSlot(t)
    BY <1>1, <1>2, <1>7, TakeSlotEffect DEF Prepares
  <1>8. CASE Send(t)
    BY <1>8, PreparationSent
  <1>9. CASE Answered(t)
    BY <1>9, PreparationAnswered
  <1>10. CASE PreparationFails(t) \/ RecordRun(t)
    BY <1>10, PreparationEnds
  <1>11. ASSUME NEW r \in Runs, NEW i \in Inputs, CreateRun(t, r, i) PROVE Preparations'
    <2>1. /\ OthersWait(t) /\ th[t].pc = "create" /\ Prepares(th[t])
          /\ th'[t].pc = "record" /\ th'[t].policy = th[t].policy /\ th'[t].key = th[t].key
          /\ UNCHANGED <<prepared, pages, sent>>
      BY <1>11, CreateRunEffect DEF SameProvision, Prepares
    <2>2. PICK p \in Policies :
            /\ p = th[t].policy
            /\ HoldsClaim(th[t]) /\ PolicyIsProper(p)
            /\ \A s \in Threads \ {t} : Prepares(th[s]) => th[s].policy # p
      BY <2>1, OnItsWay
    <2>3. PolicyIsProper(p)'
      BY <2>1, <2>2 DEF PolicyIsProper
    <2>4. HoldsClaim(th[t])'
      BY <2>1, <2>2 DEF HoldsClaim
    <2>5. CallsAreAhead(th[t])'
      BY <2>1 DEF CallsAreAhead
    <2> QED BY <2>1, <2>2, <2>3, <2>4, <2>5, OnePolicyWritten
  <1>12. CASE Start(t)
    BY <1>1, <1>2, <1>12, StartEffect DEF Prepares
  <1>13. CASE ClaimEvaluation(t)
    BY <1>1, <1>2, <1>13, ClaimEvaluationEffect DEF Prepares
  <1>14. CASE Check(t)
    BY <1>1, <1>2, <1>14, CheckEffect DEF Prepares
  <1>15. CASE ClaimCall(t)
    BY <1>1, <1>2, <1>15, ClaimCallEffect DEF Prepares
  <1>16. ASSUME NEW ok \in BOOLEAN, Call(t, ok) PROVE Preparations'
    <2>1. th[t] \in Executing /\ Counted(th[t].policy, th[t].op)
      BY <1>16, CallEffect
    <2>2. PreparationCallsStay
      BY <2>1, CallNames DEF Executing, Counted, PreparationCallsStay, PreparationOps
    <2> QED BY <1>1, <1>16, <2>2, CallEffect DEF Prepares
  <1>17. CASE RecordCall(t)
    BY <1>1, <1>2, <1>17, RecordCallEffect DEF Prepares
  <1>18. CASE Recheck(t)
    BY <1>1, <1>2, <1>18, RecheckEffect DEF Prepares
  <1>19. CASE Finish(t)
    BY <1>1, <1>2, <1>19, FinishEffect DEF Prepares
  <1>20. CASE RecordEvaluation(t)
    BY <1>1, <1>2, <1>20, RecordEvaluationEffect DEF Prepares
  <1>21. CASE Die(t)
    BY <1>1, <1>2, <1>21, DieEffect DEF Prepares
  <1> QED BY <1>3, <1>4, <1>5, <1>6, <1>7, <1>8, <1>9, <1>10, <1>11, <1>12, <1>13, <1>14, <1>15, <1>16, <1>17,
             <1>18, <1>19, <1>20, <1>21 DEF AskPreparation, AskStart, Work

----------------------------------------------------------------------------
(* The invariant.                                                          *)

LEMMA StepTypes ==
    ASSUME IInv, NEW t \in Threads, AskPreparation(t) \/ AskStart(t) \/ Work(t), UNCHANGED grants
    PROVE  Types'
  <1>1. Types /\ Calls /\ ClaimsAreHeld
    BY DEF IInv, Preparations
  <1>2. CASE AskPreparation(t) \/ AskStart(t)
    BY <1>1, <1>2, RequestPreparationEffect, AnalysePageEffect, PrepareEvaluationEffect, RequestStartEffect
       DEF AskPreparation, AskStart
  <1>3. CASE TakeSlot(t) \/ ClaimPreparation(t) \/ Send(t) \/ Answered(t) \/ PreparationFails(t) \/ RecordRun(t)
    BY <1>1, <1>3, TakeSlotEffect, ClaimPreparationEffect, SendEffect, AnsweredEffect, PreparationFailsEffect,
       RecordRunEffect
  <1>4. CASE Start(t) \/ Check(t) \/ ClaimEvaluation(t) \/ Finish(t) \/ RecordEvaluation(t) \/ Die(t)
    BY <1>1, <1>4, StartEffect, CheckEffect, ClaimEvaluationEffect, FinishEffect, RecordEvaluationEffect, DieEffect
  <1>5. CASE ClaimCall(t) \/ RecordCall(t) \/ Recheck(t)
    BY <1>1, <1>5, ClaimCallEffect, RecordCallEffect, RecheckEffect
  <1>6. ASSUME NEW r \in Runs, NEW i \in Inputs, CreateRun(t, r, i) PROVE Types'
    BY <1>1, <1>6, CreateRunEffect
  <1>7. ASSUME NEW ok \in BOOLEAN, Call(t, ok) PROVE Types'
    BY <1>1, <1>7, CallEffect
  <1> QED BY <1>2, <1>3, <1>4, <1>5, <1>6, <1>7 DEF Work

\* Requests that end leave Calls as they are.
LEMMA CallsOutlive ==
    ASSUME Calls, UNCHANGED <<claims, sent>>, \A s \in Threads : th'[s] \in {th[s], Idle}
    PROVE  Calls'
  <1>1. Idle.pc = "idle"
    BY DEF Idle
  <1>2. (\A t \in Threads : CallIsNew(t))'
    BY <1>1 DEF Calls, CallIsNew
  <1>3. (\A t \in Threads : th[t].pc \in {"evaluate", "check", "claim", "call", "called", "recheck"} =>
             th[t].policy # Fixture)'
    BY <1>1 DEF Calls
  <1>4. QueriesAreCounted'
    BY <1>1 DEF Calls, QueriesAreCounted
  <1>5. (\A p \in Policies, o \in Queries : sent[p][o] <= 1 /\ (claims[p][o] = None => sent[p][o] = 0))'
    BY DEF Calls
  <1> QED BY <1>2, <1>3, <1>4, <1>5 DEF Calls

LEMMA InitInvariant == grants = <<>> /\ LiveInit => IInv
  <1> SUFFICES ASSUME grants = <<>>, LiveInit PROVE IInv
    OBVIOUS
  <1>1. Types
    BY InitTypes
  <1>2. /\ \A t \in Threads : th[t] = Idle
        /\ \A r \in Runs : runs[r].state = "unused"
        /\ \A x \in Pages : pages[x] = NoPage
        /\ \A p \in Policies, o \in CallOps : sent[p][o] = 0
    BY DEF LiveInit, NoRun
  <1>3. Idle.pc = "idle" /\ NoPage.evaluation = None
    BY DEF Idle, NoPage
  <1>4. Preparations
    <2>1. ClaimsAreHeld /\ OnePreparation
      BY <1>2, <1>3 DEF ClaimsAreHeld, OnePreparation, Prepares
    <2>2. \A p \in Policies : PolicyIsProper(p)
      BY <1>2, <1>3, CallNames, PolicyNames DEF PolicyIsProper
    <2> QED BY <2>1, <2>2 DEF Preparations
  <1>5. Calls
    BY <1>2, <1>3, CallNames DEF Calls, CallIsNew, QueriesAreCounted
  <1>6. Approvals
    BY <1>2, <1>3 DEF Approvals, Follows, ResultsAreApproved, Exists
  <1> QED BY <1>1, <1>4, <1>5, <1>6 DEF IInv

\* A restart ends every request and adds a grant.
LEMMA RestartKeeps ==
    ASSUME IInv, NEW g \in Grants, NEW a \in Authorities, Restart(g, a)
    PROVE  IInv'
  <1>1. /\ UNCHANGED <<runs, prepared, claims, slots, pages, sent, answers>>
        /\ grants' = Append(grants, [id |-> g, payload |-> a])
        /\ th' = [t \in Threads |-> Idle]
    BY DEF Restart, ApplyGrant
  <1>2. Types /\ Preparations /\ Calls /\ Approvals
    BY DEF IInv
  <1>3. Types'
    <2>1. ThreadsOK'
      BY <1>1 DEF ThreadsOK, Requests
    <2>2. grants' \in Seq([id : Grants, payload : Authorities])
      BY <1>1, <1>2 DEF Types
    <2> QED BY <1>1, <1>2, <2>1, <2>2 DEF Types, RunsOK, PreparedOK, ClaimsOK, SlotsOK, PagesOK, SentOK, AnswersOK
  <1>4. /\ Idle.pc = "idle" /\ Threads \in SUBSET Threads
        /\ \A s \in Threads : th'[s] = Idle
    BY <1>1 DEF Idle
  <1>5. Preparations'
    <2>1. PreparationCallsStay /\ (\A s \in Threads : ~ Prepares(th'[s]))
      BY <1>1, <1>4 DEF PreparationCallsStay, Prepares
    <2> QED BY <1>1, <1>2, <1>3, <1>4, <2>1, PreparationsStay
  <1>6. Calls'
    BY <1>1, <1>2, <1>4, CallsOutlive
  <1>7. Approvals'
    <2>1. (\A s \in Threads : Follows(th[s]))'
      BY <1>4 DEF Follows
    <2>2. RunsGoOn /\ \A y \in Runs : runs'[y].state # "unused" => GoodRow(runs'[y])
      BY <1>1, <1>2, RunsStay DEF Types
    <2> QED BY <1>2, <1>3, <1>4, <2>1, <2>2, ApprovalsStay
  <1> QED BY <1>3, <1>5, <1>6, <1>7 DEF IInv

LEMMA NextInvariant ==
    IInv /\ [LiveNext \/ \E g \in Grants, a \in Authorities : Restart(g, a)]_<<grants, live>> => IInv'
  <1> SUFFICES ASSUME IInv, [LiveNext \/ \E g \in Grants, a \in Authorities : Restart(g, a)]_<<grants, live>>
               PROVE  IInv'
    OBVIOUS
  <1>1. Types /\ Preparations /\ Calls /\ Approvals /\ ClaimsAreHeld
    BY DEF IInv, Preparations
  <1>2. ASSUME NEW t \in Threads, AskPreparation(t) \/ AskStart(t) \/ Work(t), UNCHANGED grants
        PROVE  IInv'
    <2>1. Types'
      BY <1>2, StepTypes
    <2>2. Preparations'
      BY <1>1, <1>2, <2>1, PreparationsKept
    <2>3. Calls'
      BY <1>1, <1>2, <2>1, CallsKept
    <2>4. Approvals'
      BY <1>1, <1>2, <2>1, ApprovalsKept
    <2> QED BY <2>1, <2>2, <2>3, <2>4 DEF IInv
  <1>3. ASSUME NEW r \in Runs, OwnerStep(r), UNCHANGED grants
        PROVE  IInv'
    <2>1. Types' /\ Approvals' /\ UNCHANGED <<prepared, claims, slots, pages, th, sent, answers>>
      BY <1>1, <1>3, OwnerStepKeeps
    <2>2. Calls'
      BY <1>1, <2>1, CallsOutlive
    <2>3. Preparations'
      <3>1. {} \in SUBSET Threads /\ (\A s \in Threads \ {} : th'[s] = th[s])
            /\ (\A s \in {} : ~ Prepares(th'[s])) /\ PreparationCallsStay
        BY <2>1 DEF PreparationCallsStay
      <3> QED BY <1>1, <2>1, <3>1, PreparationsStay
    <2> QED BY <2>1, <2>2, <2>3 DEF IInv
  <1>4. CASE UNCHANGED <<grants, live>>
    <2>1. UNCHANGED <<grants, runs, prepared, claims, slots, pages, th, sent, answers>>
      BY <1>4 DEF live
    <2>2. Types'
      BY <1>1, <2>1 DEF Types, RunsOK, PreparedOK, ClaimsOK, SlotsOK, PagesOK, SentOK, AnswersOK, ThreadsOK
    <2>3. Calls'
      BY <1>1, <2>1, CallsOutlive
    <2>4. Preparations'
      <3>1. {} \in SUBSET Threads /\ (\A s \in Threads \ {} : th'[s] = th[s])
            /\ (\A s \in {} : ~ Prepares(th'[s])) /\ PreparationCallsStay
        BY <2>1 DEF PreparationCallsStay
      <3> QED BY <1>1, <2>1, <2>2, <3>1, PreparationsStay
    <2>5. Approvals'
      BY <1>1, <2>1 DEF Approvals, Follows, Approved, ResultsAreApproved, Exists
    <2> QED BY <2>2, <2>3, <2>4, <2>5 DEF IInv
  <1> QED BY <1>2, <1>3, <1>4, RestartKeeps DEF LiveNext

----------------------------------------------------------------------------
(* Slots and answers.                                                      *)

\* A slot's number is among those taken of its grant, no two keys have the same
\* one, and a grant says how many may be taken of it.
SlotsAreNumbered == \A k \in Keys : slots[k] # None => slots[k][2] <= Claimed(slots[k][1])
SlotsDiffer == \A k, l \in Keys : slots[k] # None /\ slots[k] = slots[l] => k = l
GrantsSuffice ==
    \A g \in Grants : Claimed(g) > 0 =>
        \E i \in DOMAIN grants : grants[i].id = g /\ Claimed(g) <= grants[i].payload.runs

\* The policies a preparation can be asked for under, and the one key that the
\* configured policy was used for.
OwnPolicies == Policies \ PagePolicies
UsedLive(k) == prepared[Live] # None /\ prepared[Live].key = k

\* A key is prepared under the configured policy or under its slot, and never
\* under both: a request that was sent for a slot found the other one taken by
\* another key, and a grant applied since would have ended it.
KeysHaveOnePolicy ==
    /\ \A k \in Keys : slots[k] # None => ~ UsedLive(k)
    /\ \A p \in OwnPolicies \ {Live} : prepared[p] # None => slots[prepared[p].key] = p
    /\ \A t \in Threads : th[t].pc = "slot" => grants # <<>> /\ ~ UsedLive(th[t].key)
    /\ \A t \in Threads : th[t].pc = "prepare" =>
          IF th[t].policy = Live THEN grants = <<>> \/ UsedLive(th[t].key)
          ELSE slots[th[t].key] = th[t].policy

\* A key was answered with what a policy prepared for it.
AnswersWerePrepared ==
    \A k \in Keys : \A r \in answers[k] :
        \E p \in OwnPolicies : prepared[p] # None /\ prepared[p].key = k /\ prepared[p].run = r

Slots == SlotsAreNumbered /\ SlotsDiffer /\ GrantsSuffice /\ KeysHaveOnePolicy /\ AnswersWerePrepared

LEMMA ClaimedIsCounted ==
    ASSUME NEW g
    PROVE  /\ Claimed(g) \in Nat
           /\ \A k \in Keys : slots[k] # None /\ slots[k][1] = g => Claimed(g) > 0
  <1> DEFINE C == {k \in Keys : slots[k] # None /\ slots[k][1] = g}
  <1>1. IsFiniteSet(C)
    BY SlotAssumption, FS_Subset
  <1>2. Cardinality(C) \in Nat /\ (Cardinality(C) = 0 => C = {})
    BY <1>1, FS_CardinalityType, FS_EmptySet
  <1> QED BY <1>2 DEF Claimed

\* Who is given a slot is one more with a slot of that grant.
ClaimedIn(table, g) == Cardinality({k \in Keys : table[k] # None /\ table[k][1] = g})

LEMMA SlotGiven ==
    ASSUME SlotsOK, NEW k \in Keys, slots[k] = None, NEW w, w # None, slots' = [slots EXCEPT ![k] = w]
    PROVE  /\ slots'[k] = w /\ \A l \in Keys \ {k} : slots'[l] = slots[l]
           /\ ClaimedIn(slots', w[1]) = Claimed(w[1]) + 1
           /\ \A h : h # w[1] => ClaimedIn(slots', h) = Claimed(h)
  <1>1. slots'[k] = w /\ \A l \in Keys \ {k} : slots'[l] = slots[l]
    BY DEF SlotsOK
  <1>2. ClaimedIn(slots', w[1]) = Claimed(w[1]) + 1
    <2> DEFINE C == {l \in Keys : slots[l] # None /\ slots[l][1] = w[1]}
               D == {l \in Keys : slots'[l] # None /\ slots'[l][1] = w[1]}
    <2>1. D = C \cup {k} /\ k \notin C
      BY <1>1
    <2>2. IsFiniteSet(C)
      BY SlotAssumption, FS_Subset
    <2> HIDE DEF C, D
    <2>3. Cardinality(D) = Cardinality(C) + 1
      BY <2>1, <2>2, FS_AddElement
    <2> QED BY <2>3 DEF Claimed, ClaimedIn, C, D
  <1>3. ASSUME NEW h, h # w[1] PROVE ClaimedIn(slots', h) = Claimed(h)
    <2>1. {l \in Keys : slots'[l] # None /\ slots'[l][1] = h} = {l \in Keys : slots[l] # None /\ slots[l][1] = h}
      BY <1>1, <1>3
    <2> QED BY <2>1 DEF Claimed, ClaimedIn
  <1> QED BY <1>1, <1>2, <1>3

\* Before the first grant there are no slots.
LEMMA NoGrantNoSlot ==
    ASSUME Types, GrantsSuffice, grants = <<>>
    PROVE  \A k \in Keys : slots[k] = None
  <1> SUFFICES ASSUME NEW k \in Keys, slots[k] # None PROVE FALSE
    OBVIOUS
  <1>1. slots[k] \in Grants \X (1 .. MaxSlot)
    BY DEF Types, SlotsOK
  <1>2. slots[k][1] \in Grants /\ Claimed(slots[k][1]) > 0
    BY <1>1, ClaimedIsCounted
  <1>3. DOMAIN grants = {}
    OBVIOUS
  <1> QED BY <1>2, <1>3 DEF GrantsSuffice

\* A preparation that was recorded stays what it is, and its key keeps it.
PreparedStay ==
    \A p \in OwnPolicies :
        /\ prepared[p] = None => prepared'[p] = None
        /\ prepared[p] # None =>
              /\ prepared'[p] # None /\ prepared'[p].key = prepared[p].key
              /\ prepared[p].run # None => prepared'[p].run = prepared[p].run

AnswersAreNew ==
    \A k \in Keys : \A r \in answers'[k] :
        r \in answers[k] \/ \E p \in OwnPolicies : prepared'[p] # None /\ prepared'[p].key = k /\ prepared'[p].run = r

LEMMA AnswersStay ==
    ASSUME Types, AnswersWerePrepared, AnswersAreNew,
           \A p \in OwnPolicies : prepared[p] # None =>
              /\ prepared'[p] # None /\ prepared'[p].key = prepared[p].key
              /\ prepared[p].run # None => prepared'[p].run = prepared[p].run
    PROVE  AnswersWerePrepared'
  <1>1. ASSUME NEW k \in Keys, NEW r \in answers'[k]
        PROVE  \E p \in OwnPolicies : prepared'[p] # None /\ prepared'[p].key = k /\ prepared'[p].run = r
    <2>1. CASE r \in answers[k]
      <3>1. PICK p \in OwnPolicies : prepared[p] # None /\ prepared[p].key = k /\ prepared[p].run = r
        BY <2>1 DEF AnswersWerePrepared
      <3>2. r # None
        BY <2>1, LiveNoneAssumption DEF Types, AnswersOK
      <3> QED BY <3>1, <3>2
    <2>2. CASE r \notin answers[k]
      BY <1>1, <2>2 DEF AnswersAreNew
    <2> QED BY <2>1, <2>2
  <1> QED BY <1>1 DEF AnswersWerePrepared, OwnPolicies

\* A step that takes no slot and claims no preparation, of a request that is not
\* asking for one afterwards.
LEMMA SlotsStay ==
    ASSUME Types, Slots, UNCHANGED <<grants, slots>>, PreparedStay, AnswersAreNew,
           \A s \in Threads : th'[s] = th[s] \/ th'[s].pc \notin {"slot", "prepare"}
    PROVE  Slots'
  <1>1. SlotsAreNumbered' /\ SlotsDiffer' /\ GrantsSuffice'
    BY DEF Slots, SlotsAreNumbered, SlotsDiffer, GrantsSuffice, Claimed
  <1>2. /\ (prepared'[Live] # None) = (prepared[Live] # None)
        /\ prepared[Live] # None => prepared'[Live].key = prepared[Live].key
    <2>1. Live \in OwnPolicies
      BY PolicyNames DEF OwnPolicies
    <2> QED BY <2>1 DEF PreparedStay
  <1>3. KeysHaveOnePolicy'
    <2>1. \A k \in Keys : slots'[k] # None => ~ (prepared'[Live] # None /\ prepared'[Live].key = k)
      BY <1>2 DEF Slots, KeysHaveOnePolicy, UsedLive
    <2>2. \A p \in OwnPolicies \ {Live} : prepared'[p] # None => slots'[prepared'[p].key] = p
      BY DEF Slots, KeysHaveOnePolicy, PreparedStay
    <2>3. ASSUME NEW t \in Threads, th'[t].pc = "slot"
          PROVE  grants' # <<>> /\ ~ (prepared'[Live] # None /\ prepared'[Live].key = th'[t].key)
      <3>1. th'[t] = th[t]
        BY <2>3
      <3> QED BY <1>2, <2>3, <3>1 DEF Slots, KeysHaveOnePolicy, UsedLive
    <2>4. ASSUME NEW t \in Threads, th'[t].pc = "prepare"
          PROVE  IF th'[t].policy = Live
                 THEN grants' = <<>> \/ (prepared'[Live] # None /\ prepared'[Live].key = th'[t].key)
                 ELSE slots'[th'[t].key] = th'[t].policy
      <3>1. th'[t] = th[t]
        BY <2>4
      <3>2. IF th[t].policy = Live THEN grants = <<>> \/ UsedLive(th[t].key)
            ELSE slots[th[t].key] = th[t].policy
        BY <2>4, <3>1 DEF Slots, KeysHaveOnePolicy
      <3> QED BY <1>2, <3>1, <3>2 DEF UsedLive
    <2> QED BY <2>1, <2>2, <2>3, <2>4 DEF KeysHaveOnePolicy, OwnPolicies, UsedLive
  <1>4. AnswersWerePrepared'
    BY AnswersStay DEF Slots, PreparedStay
  <1> QED BY <1>1, <1>3, <1>4 DEF Slots

\* A request is sent for a slot when there are grants and the configured policy
\* was not used for its key.
LEMMA SlotAsked ==
    ASSUME Types, Slots, NEW t \in Threads, NEW k \in Keys, RequestPreparation(t, k), UNCHANGED grants
    PROVE  Slots'
  <1> DEFINE new == [pc |-> IF grants = <<>> \/ (prepared[Live] # None /\ prepared[Live].key = k)
                            THEN "prepare" ELSE "slot",
                     policy |-> Live, key |-> k]
  <1>1. OthersWait(t) /\ UNCHANGED <<prepared, slots, answers>>
    BY RequestPreparationEffect
  <1>2. th'[t] = new
    <2>1. th' = [th EXCEPT ![t] = new]
      BY DEF RequestPreparation, Goto
    <2> HIDE DEF new
    <2> QED BY <2>1 DEF Types, ThreadsOK
  <1>3. /\ new.pc = "slot" => grants # <<>> /\ ~ UsedLive(k)
        /\ new.pc = "prepare" => grants = <<>> \/ UsedLive(k)
        /\ new.policy = Live /\ new.key = k
    BY DEF UsedLive
  <1> HIDE DEF new
  <1>4. SlotsAreNumbered' /\ SlotsDiffer' /\ GrantsSuffice' /\ AnswersWerePrepared'
    BY <1>1 DEF Slots, SlotsAreNumbered, SlotsDiffer, GrantsSuffice, Claimed, AnswersWerePrepared
  <1>5. ASSUME NEW s \in Threads
        PROVE  /\ th'[s].pc = "slot" => grants # <<>> /\ ~ (prepared[Live] # None /\ prepared[Live].key = th'[s].key)
               /\ th'[s].pc = "prepare" =>
                     IF th'[s].policy = Live
                     THEN grants = <<>> \/ (prepared[Live] # None /\ prepared[Live].key = th'[s].key)
                     ELSE slots[th'[s].key] = th'[s].policy
    <2>1. CASE s = t
      BY <1>2, <1>3, <2>1 DEF UsedLive
    <2>2. CASE s # t
      <3>1. th'[s] = th[s]
        BY <1>1, <2>2 DEF OthersWait
      <3> QED BY <3>1 DEF Slots, KeysHaveOnePolicy, UsedLive
    <2> QED BY <2>1, <2>2
  <1>6. KeysHaveOnePolicy'
    <2>1. /\ \A l \in Keys : slots[l] # None => ~ (prepared[Live] # None /\ prepared[Live].key = l)
          /\ \A p \in OwnPolicies \ {Live} : prepared[p] # None => slots[prepared[p].key] = p
      BY DEF Slots, KeysHaveOnePolicy, UsedLive
    <2> QED BY <1>1, <1>5, <2>1 DEF KeysHaveOnePolicy, OwnPolicies, UsedLive
  <1> QED BY <1>4, <1>6 DEF Slots

\* The next slot of a grant that has room is a new one, and still granted.
LEMMA NextSlotGiven ==
    ASSUME Types, Slots, NEW k \in Keys, slots[k] = None, NEW i \in DOMAIN grants,
           NEW w \in Grants \X (1 .. MaxSlot), grants[i].id = w[1], w[2] = Claimed(w[1]) + 1,
           w[2] <= grants[i].payload.runs,
           slots' = [slots EXCEPT ![k] = w], UNCHANGED grants
    PROVE  /\ SlotsAreNumbered' /\ SlotsDiffer' /\ GrantsSuffice'
           /\ slots'[k] = w /\ \A l \in Keys \ {k} : slots'[l] = slots[l]
  <1>1. w # None /\ SlotsOK
    BY PolicyNames, LiveNoneAssumption DEF Types
  <1>2. PICK g \in Grants : g = w[1]
    OBVIOUS
  <1>3. /\ slots'[k] = w /\ \A l \in Keys \ {k} : slots'[l] = slots[l]
        /\ ClaimedIn(slots', g) = w[2]
        /\ \A h : h # g => ClaimedIn(slots', h) = Claimed(h)
    BY <1>1, <1>2, SlotGiven
  <1>4. Claimed(g) \in Nat
    BY ClaimedIsCounted
  <1>5. ASSUME NEW l \in Keys, slots'[l] # None PROVE slots'[l][2] <= ClaimedIn(slots', slots'[l][1])
    <2>1. CASE l = k
      BY <1>2, <1>3, <2>1
    <2>2. CASE l # k
      <3>1. slots'[l] = slots[l] /\ slots[l] \in Grants \X (1 .. MaxSlot) /\ slots[l][2] <= Claimed(slots[l][1])
        BY <1>3, <1>5, <2>2 DEF Slots, SlotsAreNumbered, Types, SlotsOK
      <3>2. PICK h \in Grants : h = slots[l][1]
        BY <3>1
      <3>3. Claimed(h) \in Nat
        BY ClaimedIsCounted
      <3>4. ClaimedIn(slots', h) \in Nat /\ Claimed(h) <= ClaimedIn(slots', h)
        <4>1. CASE h = g
          BY <1>2, <1>3, <1>4, <4>1
        <4>2. CASE h # g
          <5>1. ClaimedIn(slots', h) = Claimed(h)
            BY <1>3, <4>2, Zenon
          <5> QED BY <3>3, <5>1
        <4> QED BY <4>1, <4>2
      <3>5. slots'[l] = slots[l] /\ slots[l][2] \in Nat /\ slots[l][2] <= Claimed(h)
        BY <3>1, <3>2, BoundFacts
      <3>6. slots'[l][2] = slots[l][2] /\ ClaimedIn(slots', slots'[l][1]) = ClaimedIn(slots', h)
        BY <3>2, <3>5
      <3> QED BY <3>3, <3>4, <3>5, <3>6
    <2> QED BY <2>1, <2>2
  <1>6. SlotsAreNumbered'
    BY <1>5 DEF SlotsAreNumbered, Claimed, ClaimedIn
  <1>7. SlotsDiffer'
    <2>1. ASSUME NEW l \in Keys, slots[l] = w PROVE FALSE
      <3>1. w[2] <= Claimed(g)
        BY <1>1, <1>2, <2>1 DEF Slots, SlotsAreNumbered
      <3> QED BY <1>2, <1>4, <3>1
    <2> QED BY <1>1, <1>3, <2>1 DEF Slots, SlotsDiffer
  <1>8. GrantsSuffice'
    <2>1. ASSUME NEW h \in Grants, ClaimedIn(slots', h) > 0
          PROVE  \E j \in DOMAIN grants : grants[j].id = h /\ ClaimedIn(slots', h) <= grants[j].payload.runs
      <3>1. CASE h = g
        <4>1. ClaimedIn(slots', h) = w[2] /\ grants[i].id = h
          BY <1>2, <1>3, <3>1
        <4> QED BY <4>1
      <3>2. CASE h # g
        <4>1. ClaimedIn(slots', h) = Claimed(h)
          BY <1>3, <3>2, Zenon
        <4>2. PICK j \in DOMAIN grants : grants[j].id = h /\ Claimed(h) <= grants[j].payload.runs
          BY <2>1, <4>1 DEF Slots, GrantsSuffice
        <4> QED BY <4>1, <4>2
      <3> QED BY <3>1, <3>2
    <2> QED BY <2>1 DEF GrantsSuffice, Claimed, ClaimedIn
  <1> QED BY <1>3, <1>6, <1>7, <1>8

\* A slot that is found or given is the policy its key is prepared under.
LEMMA SlotTaken ==
    ASSUME Types, Slots, NEW t \in Threads, TakeSlot(t), UNCHANGED grants
    PROVE  Slots'
  <1> DEFINE k == th[t].key
  <1>1. th[t].pc = "slot" /\ UNCHANGED <<prepared, answers>> /\ OthersWait(t)
    BY TakeSlotEffect DEF TakeSlot, At
  <1>2. th[t] \in Asking /\ k \in Keys /\ ThreadsOK /\ SlotsOK
    <2>1. th[t] \in Requests /\ ThreadsOK /\ SlotsOK
      BY DEF Types, ThreadsOK
    <2>2. th[t] \in Asking
      BY <1>1, <2>1, RequestKinds
    <2> QED BY <2>1, <2>2 DEF Asking
  <1>3. ~ UsedLive(k) /\ grants # <<>>
    BY <1>1 DEF Slots, KeysHaveOnePolicy
  <1>4. ASSUME NEW p \in OwnPolicies \ {Live}, slots'[k] = p,
               Goto(t, [th[t] EXCEPT !.pc = "prepare", !.policy = p]),
               SlotsAreNumbered', SlotsDiffer', GrantsSuffice',
               \A l \in Keys : slots[l] # None => slots'[l] = slots[l],
               \A l \in Keys \ {k} : slots'[l] = slots[l]
        PROVE  Slots'
    <2>1. th'[t].pc = "prepare" /\ th'[t].policy = p /\ th'[t].key = k
      BY <1>2, <1>4, AskingGoesOn DEF OwnPolicies
    <2>2. ASSUME NEW s \in Threads
          PROVE  /\ th'[s].pc = "slot" => grants # <<>> /\ ~ (prepared[Live] # None /\ prepared[Live].key = th'[s].key)
                 /\ th'[s].pc = "prepare" =>
                       IF th'[s].policy = Live
                       THEN grants = <<>> \/ (prepared[Live] # None /\ prepared[Live].key = th'[s].key)
                       ELSE slots'[th'[s].key] = th'[s].policy
      <3>1. CASE s = t
        BY <1>4, <2>1, <3>1
      <3>2. CASE s # t
        <4>1. th'[s] = th[s]
          BY <1>1, <3>2 DEF OthersWait
        <4>2. th[s].pc = "slot" => grants # <<>> /\ ~ (prepared[Live] # None /\ prepared[Live].key = th[s].key)
          BY DEF Slots, KeysHaveOnePolicy, UsedLive
        <4>3. CASE th[s].pc = "prepare" /\ th[s].policy # Live
          <5>1. slots[th[s].key] = th[s].policy
            BY <4>3 DEF Slots, KeysHaveOnePolicy
          <5>2. th[s] \in Asking
            BY <4>3, RequestKinds DEF Types, ThreadsOK
          <5>3. th[s].key \in Keys /\ th[s].policy # None
            BY <5>2, LiveNoneAssumption DEF Asking
          <5> QED BY <1>4, <4>1, <4>2, <4>3, <5>1, <5>3
        <4>4. CASE th[s].pc = "prepare" /\ th[s].policy = Live
          BY <4>1, <4>2, <4>4 DEF Slots, KeysHaveOnePolicy, UsedLive
        <4> QED BY <4>1, <4>2, <4>3, <4>4
      <3> QED BY <3>1, <3>2
    <2>3. \A l \in Keys : slots'[l] # None => ~ (prepared[Live] # None /\ prepared[Live].key = l)
      BY <1>3, <1>4 DEF Slots, KeysHaveOnePolicy, UsedLive
    <2>4. ASSUME NEW q \in OwnPolicies \ {Live}, prepared[q] # None PROVE slots'[prepared[q].key] = q
      <3>1. slots[prepared[q].key] = q
        BY <2>4 DEF Slots, KeysHaveOnePolicy
      <3>2. prepared[q].key \in Keys /\ q # None
        BY <2>4, LiveNoneAssumption DEF Types, PreparedOK, OwnPolicies, Preparation
      <3> QED BY <1>4, <3>1, <3>2
    <2>5. KeysHaveOnePolicy'
      BY <1>1, <2>2, <2>3, <2>4 DEF KeysHaveOnePolicy, OwnPolicies, UsedLive
    <2>6. AnswersWerePrepared'
      BY <1>1 DEF Slots, AnswersWerePrepared
    <2> QED BY <1>4, <2>5, <2>6 DEF Slots
  <1>5. CASE /\ slots[k] # None
             /\ Goto(t, [th[t] EXCEPT !.pc = "prepare", !.policy = slots[k]])
             /\ UNCHANGED slots
    <2>1. slots[k] \in OwnPolicies \ {Live}
      BY <1>2, <1>5, PolicyNames DEF SlotsOK, OwnPolicies
    <2>2. SlotsAreNumbered' /\ SlotsDiffer' /\ GrantsSuffice'
      BY <1>5 DEF Slots, SlotsAreNumbered, SlotsDiffer, GrantsSuffice, Claimed
    <2> QED BY <1>4, <1>5, <2>1, <2>2
  <1>6. CASE Return(t) /\ UNCHANGED slots
    <2>1. th'[t].pc = "idle"
      BY <1>2, <1>6, Returns
    <2> QED BY <1>1, <1>6, <2>1, SlotsStay DEF PreparedStay, AnswersAreNew, OthersWait
  <1>7. ASSUME NEW i \in DOMAIN grants, slots[k] = None, NEW p \in Grants \X (1 .. MaxSlot),
               grants[i].id = p[1], p[2] = Claimed(p[1]) + 1, p[2] <= grants[i].payload.runs,
               slots' = [slots EXCEPT ![k] = p],
               Goto(t, [th[t] EXCEPT !.pc = "prepare", !.policy = p])
        PROVE  Slots'
    <2>1. p \in OwnPolicies \ {Live}
      BY PolicyNames DEF OwnPolicies
    <2>2. PICK l \in Keys : l = k
      BY <1>2
    <2>3. slots[l] = None /\ slots' = [slots EXCEPT ![l] = p]
      BY <1>7, <2>2
    <2> HIDE DEF k
    <2>4. /\ SlotsAreNumbered' /\ SlotsDiffer' /\ GrantsSuffice'
          /\ slots'[l] = p /\ \A m \in Keys \ {l} : slots'[m] = slots[m]
      <3>1. grants[i].id = p[1]
        BY <1>7
      <3>2. p[2] = Claimed(p[1]) + 1
        BY <1>7
      <3>3. p[2] <= grants[i].payload.runs
        BY <1>7
      <3>4. UNCHANGED grants
        OBVIOUS
      <3> QED BY <2>3, <3>1, <3>2, <3>3, <3>4, NextSlotGiven
    <2> QED BY <1>4, <1>7, <2>1, <2>2, <2>4
  <1>8. CASE slots[k] = None /\ ~ (Return(t) /\ UNCHANGED slots)
    <2>1. PICK i \in DOMAIN grants :
            /\ grants[i].id \in Grants
            /\ Claimed(grants[i].id) \in Nat /\ Claimed(grants[i].id) < grants[i].payload.runs
            /\ grants[i].payload.runs \in Nat
            /\ Claimed(grants[i].id) + 1 \in 1 .. MaxSlot
            /\ slots' = [slots EXCEPT ![k] = <<grants[i].id, Claimed(grants[i].id) + 1>>]
            /\ Goto(t, [th[t] EXCEPT !.pc = "prepare", !.policy = <<grants[i].id, Claimed(grants[i].id) + 1>>])
      BY <1>8, SlotFoundOrGiven
    <2>2. PICK p \in Grants \X (1 .. MaxSlot) : p = <<grants[i].id, Claimed(grants[i].id) + 1>>
      BY <2>1
    <2>3. p[1] = grants[i].id /\ p[2] = Claimed(p[1]) + 1 /\ p[2] <= grants[i].payload.runs
      <3>1. p[1] = grants[i].id /\ p[2] = Claimed(grants[i].id) + 1
        BY <2>2
      <3>2. p[2] <= grants[i].payload.runs
        BY <2>1, <3>1
      <3> QED BY <3>1, <3>2
    <2>4. /\ slots' = [slots EXCEPT ![k] = p]
          /\ Goto(t, [th[t] EXCEPT !.pc = "prepare", !.policy = p])
      BY <2>1, <2>2
    <2> QED BY <1>7, <1>8, <2>3, <2>4
  <1> QED BY <1>5, <1>6, <1>8, SlotFoundOrGiven

\* The preparation that a policy is used for is claimed, or was its key's.
LEMMA SlotUsed ==
    ASSUME Types, Slots, NEW t \in Threads, ClaimPreparation(t), UNCHANGED grants
    PROVE  Slots'
  <1>1. OthersWait(t) /\ UNCHANGED slots /\ th[t] \in Asking /\ th[t].pc = "prepare"
    BY ClaimPreparationEffect
  <1>2. PICK p \in OwnPolicies, k \in Keys : p = th[t].policy /\ k = th[t].key
    BY <1>1 DEF Asking, OwnPolicies
  <1>3. IF p = Live THEN grants = <<>> \/ UsedLive(k) ELSE slots[k] = p
    BY <1>1, <1>2 DEF Slots, KeysHaveOnePolicy
  <1>4. CASE /\ th'[t].pc = "idle" /\ UNCHANGED prepared
             /\ \A l \in Keys : \A r \in answers'[l] \ answers[l] :
                  prepared[p] # None /\ prepared[p].key = l /\ prepared[p].run = r
    <2>1. PreparedStay /\ AnswersAreNew
      BY <1>4 DEF PreparedStay, AnswersAreNew
    <2>2. \A s \in Threads : th'[s] = th[s] \/ th'[s].pc \notin {"slot", "prepare"}
      BY <1>1, <1>4 DEF OthersWait
    <2> QED BY <1>1, <2>1, <2>2, SlotsStay
  <1>5. CASE /\ prepared[p] = None
             /\ prepared'[p] # None /\ prepared'[p].key = k /\ prepared'[p].run = None
             /\ \A x \in Policies \ {p} : prepared'[x] = prepared[x]
             /\ th'[t].pc = "send" /\ UNCHANGED answers
    <2>1. \A x \in OwnPolicies : x # p => prepared'[x] = prepared[x]
      BY <1>5 DEF OwnPolicies
    <2>2. Live \in OwnPolicies
      BY PolicyNames DEF OwnPolicies
    <2>3. CASE p # Live
      <3>1. prepared'[Live] = prepared[Live] /\ slots[k] = p
        BY <1>3, <2>1, <2>2, <2>3
      <3>2. \A l \in Keys : slots[l] # None => ~ (prepared'[Live] # None /\ prepared'[Live].key = l)
        BY <3>1 DEF Slots, KeysHaveOnePolicy, UsedLive
      <3>3. ASSUME NEW s \in Threads
            PROVE  /\ th'[s].pc = "slot" => grants # <<>> /\ ~ (prepared'[Live] # None /\ prepared'[Live].key = th'[s].key)
                   /\ th'[s].pc = "prepare" =>
                         IF th'[s].policy = Live
                         THEN grants = <<>> \/ (prepared'[Live] # None /\ prepared'[Live].key = th'[s].key)
                         ELSE slots[th'[s].key] = th'[s].policy
        <4>1. CASE s = t
          BY <1>5, <4>1
        <4>2. CASE s # t
          <5>1. th'[s] = th[s]
            BY <1>1, <4>2 DEF OthersWait
          <5> QED BY <3>1, <5>1 DEF Slots, KeysHaveOnePolicy, UsedLive
        <4> QED BY <4>1, <4>2
      <3>4. \A q \in OwnPolicies \ {Live} : prepared'[q] # None => slots[prepared'[q].key] = q
        BY <1>5, <2>1, <3>1 DEF Slots, KeysHaveOnePolicy
      <3>5. KeysHaveOnePolicy'
        BY <1>1, <3>2, <3>3, <3>4 DEF KeysHaveOnePolicy, OwnPolicies, UsedLive
      <3> QED BY <1>1, <1>5, <2>1, <3>5, AnswersStay
              DEF Slots, SlotsAreNumbered, SlotsDiffer, GrantsSuffice, Claimed, AnswersAreNew
    <2>4. CASE p = Live
      <3>1. grants = <<>>
        BY <1>3, <1>5, <2>4 DEF UsedLive
      <3>2. \A l \in Keys : slots[l] = None
        BY <3>1, NoGrantNoSlot DEF Slots
      <3>3. ASSUME NEW s \in Threads
            PROVE  /\ th'[s].pc # "slot"
                   /\ th'[s].pc = "prepare" /\ th'[s].policy # Live => slots[th'[s].key] = th'[s].policy
        <4>1. CASE s = t
          BY <1>5, <4>1
        <4>2. CASE s # t
          <5>1. th'[s] = th[s]
            BY <1>1, <4>2 DEF OthersWait
          <5> QED BY <3>1, <5>1 DEF Slots, KeysHaveOnePolicy
        <4> QED BY <4>1, <4>2
      <3>4. \A q \in OwnPolicies \ {Live} : prepared'[q] # None => slots[prepared'[q].key] = q
        BY <2>1, <2>4 DEF Slots, KeysHaveOnePolicy
      <3>5. KeysHaveOnePolicy'
        BY <1>1, <3>1, <3>2, <3>3, <3>4 DEF KeysHaveOnePolicy, OwnPolicies, UsedLive
      <3> QED BY <1>1, <1>5, <2>1, <3>5, AnswersStay
              DEF Slots, SlotsAreNumbered, SlotsDiffer, GrantsSuffice, Claimed, AnswersAreNew
    <2> QED BY <2>3, <2>4
  <1> QED BY <1>2, <1>4, <1>5, ClaimPreparationEffect

\* A preparation ends: its row keeps its key, and the run it names answers it.
LEMMA PreparationEnded ==
    ASSUME Types, ClaimsAreHeld, Slots, NEW t \in Threads, PreparationFails(t) \/ RecordRun(t), UNCHANGED grants
    PROVE  Slots'
  <1>1. OthersWait(t) /\ th'[t].pc = "idle" /\ UNCHANGED slots
    BY PreparationFailsEffect, RecordRunEffect
  <1>2. \A s \in Threads : th'[s] = th[s] \/ th'[s].pc \notin {"slot", "prepare"}
    BY <1>1 DEF OthersWait
  <1>3. CASE OfPage(t)
    <2>1. UNCHANGED <<prepared, answers>>
      BY <1>3, PreparationFailsEffect, RecordRunEffect
    <2> QED BY <1>1, <1>2, <2>1, SlotsStay DEF PreparedStay, AnswersAreNew
  <1>4. CASE ~ OfPage(t)
    <2>1. th[t].policy \in OwnPolicies /\ Prepares(th[t])
      <3>1. th[t] \in Providing \cup Recording
        BY PreparationFailsEffect, RecordRunEffect
      <3> QED BY <1>4, <3>1 DEF Providing, Recording, OfPage, OwnPolicies, Prepares
    <2>2. PICK p \in OwnPolicies, k \in Keys : p = th[t].policy /\ k = th[t].key
      BY <1>4, <2>1 DEF ClaimsAreHeld, HoldsClaim, OfPage
    <2>3. prepared[p] # None /\ prepared[p].key = k /\ prepared[p].run = None
      BY <1>4, <2>1, <2>2 DEF ClaimsAreHeld, HoldsClaim, OfPage
    <2>4. p \in Policies /\ PreparedOK /\ prepared[p] \in Preparation
      BY <2>3 DEF Types, PreparedOK, OwnPolicies
    <2>5. ASSUME NEW row, row # None, row.key = k, prepared' = [prepared EXCEPT ![p] = row],
                 \A l \in Keys : \A r \in answers'[l] : r \in answers[l] \/ (l = k /\ r = row.run)
          PROVE  Slots'
      <3>1. prepared'[p] = row /\ \A q \in Policies : q # p => prepared'[q] = prepared[q]
        BY <2>4, <2>5 DEF PreparedOK
      <3>2. PreparedStay
        <4> SUFFICES ASSUME NEW q \in OwnPolicies
                     PROVE  /\ prepared[q] = None => prepared'[q] = None
                            /\ prepared[q] # None =>
                                  /\ prepared'[q] # None /\ prepared'[q].key = prepared[q].key
                                  /\ prepared[q].run # None => prepared'[q].run = prepared[q].run
          BY DEF PreparedStay
        <4>1. q \in Policies
          BY DEF OwnPolicies
        <4>2. CASE q = p
          BY <2>3, <2>5, <3>1, <4>2
        <4>3. CASE q # p
          BY <3>1, <4>1, <4>3
        <4> QED BY <4>2, <4>3
      <3>3. AnswersAreNew
        BY <2>5, <3>1 DEF AnswersAreNew
      <3> QED BY <1>1, <1>2, <3>2, <3>3, SlotsStay
    <2>6. CASE PreparationFails(t)
      <3> DEFINE row == [prepared[p] EXCEPT !.status = "failed"]
      <3>1. prepared' = [prepared EXCEPT ![p] = row] /\ UNCHANGED answers
        BY <1>4, <2>2, <2>6, PreparationFailsEffect
      <3>2. row # None /\ row.key = k
        <4>1. row \in Preparation /\ row.key = k
          BY <2>3, <2>4 DEF Preparation
        <4> QED BY <4>1, LiveNoneAssumption
      <3> HIDE DEF row
      <3> QED BY <2>5, <3>1, <3>2
    <2>7. CASE RecordRun(t)
      <3>1. th[t].run \in Runs
        BY <2>7, RecordRunEffect DEF Recording
      <3> DEFINE row == [prepared[p] EXCEPT !.status = "completed", !.run = th[t].run]
      <3>2. prepared' = [prepared EXCEPT ![p] = row]
        BY <1>4, <2>2, <2>7, RecordRunEffect
      <3>3. row # None /\ row.key = k /\ row.run = th[t].run
        <4>1. row \in Preparation /\ row.key = k /\ row.run = th[t].run
          BY <2>3, <2>4, <3>1 DEF Preparation
        <4> QED BY <4>1, LiveNoneAssumption
      <3>4. \A l \in Keys : \A r \in answers'[l] : r \in answers[l] \/ (l = k /\ r = row.run)
        <4>1. answers' = [answers EXCEPT ![k] = @ \cup {th[t].run}]
          BY <1>4, <2>2, <2>7, RecordRunEffect
        <4> HIDE DEF row
        <4> QED BY <3>3, <4>1 DEF Types, AnswersOK
      <3> HIDE DEF row
      <3> QED BY <2>5, <3>2, <3>3, <3>4
    <2> QED BY <2>6, <2>7
  <1> QED BY <1>3, <1>4

LEMMA SlotsKept ==
    ASSUME Types, Slots, Calls, ClaimsAreHeld, NEW t \in Threads,
           AskPreparation(t) \/ AskStart(t) \/ Work(t), UNCHANGED grants
    PROVE  Slots'
  <1>1. ASSUME OthersWait(t), UNCHANGED <<prepared, slots, answers>>, th'[t].pc \notin {"slot", "prepare"}
        PROVE  Slots'
    <2>1. \A s \in Threads : th'[s] = th[s] \/ th'[s].pc \notin {"slot", "prepare"}
      BY <1>1 DEF OthersWait
    <2> QED BY <1>1, <2>1, SlotsStay DEF PreparedStay, AnswersAreNew
  <1>2. ASSUME NEW k \in Keys, RequestPreparation(t, k) PROVE Slots'
    BY <1>2, SlotAsked
  <1>3. ASSUME NEW x \in Pages, AnalysePage(t, x) PROVE Slots'
    BY <1>1, <1>3, AnalysePageEffect
  <1>4. ASSUME NEW x \in Pages, PrepareEvaluation(t, x) PROVE Slots'
    BY <1>1, <1>4, PrepareEvaluationEffect
  <1>5. ASSUME NEW r \in Runs, NEW s \in StartKeys, RequestStart(t, r, s) PROVE Slots'
    BY <1>1, <1>5, RequestStartEffect
  <1>6. CASE TakeSlot(t)
    BY <1>6, SlotTaken
  <1>7. CASE ClaimPreparation(t)
    BY <1>7, SlotUsed
  <1>8. CASE Send(t)
    BY <1>1, <1>8, SendEffect
  <1>9. CASE Answered(t)
    BY <1>1, <1>9, AnsweredEffect
  <1>10. CASE PreparationFails(t) \/ RecordRun(t)
    BY <1>10, PreparationEnded
  <1>11. ASSUME NEW r \in Runs, NEW i \in Inputs, CreateRun(t, r, i) PROVE Slots'
    BY <1>1, <1>11, CreateRunEffect
  <1>12. CASE Start(t)
    BY <1>1, <1>12, StartEffect
  <1>13. CASE ClaimEvaluation(t)
    BY <1>1, <1>13, ClaimEvaluationEffect
  <1>14. CASE Check(t)
    BY <1>1, <1>14, CheckEffect
  <1>15. CASE ClaimCall(t)
    BY <1>1, <1>15, ClaimCallEffect
  <1>16. ASSUME NEW ok \in BOOLEAN, Call(t, ok) PROVE Slots'
    BY <1>1, <1>16, CallEffect
  <1>17. CASE RecordCall(t)
    BY <1>1, <1>17, RecordCallEffect
  <1>18. CASE Recheck(t)
    BY <1>1, <1>18, RecheckEffect
  <1>19. CASE Finish(t)
    BY <1>1, <1>19, FinishEffect
  <1>20. CASE RecordEvaluation(t)
    BY <1>1, <1>20, RecordEvaluationEffect
  <1>21. CASE Die(t)
    BY <1>1, <1>21, DieEffect
  <1> QED BY <1>2, <1>3, <1>4, <1>5, <1>6, <1>7, <1>8, <1>9, <1>10, <1>11, <1>12, <1>13, <1>14, <1>15, <1>16,
             <1>17, <1>18, <1>19, <1>20, <1>21 DEF AskPreparation, AskStart, Work

LEMMA SlotsAfterRestart ==
    ASSUME Types, Slots, NEW g \in Grants, NEW a \in Authorities, Restart(g, a)
    PROVE  Slots'
  <1>1. /\ UNCHANGED <<prepared, slots, answers>>
        /\ grants' = Append(grants, [id |-> g, payload |-> a])
        /\ \A s \in Threads : th'[s] = Idle
    BY DEF Restart, ApplyGrant
  <1>2. \A i \in DOMAIN grants : i \in DOMAIN grants' /\ grants'[i] = grants[i]
    BY <1>1 DEF Types
  <1>3. GrantsSuffice'
    <2> SUFFICES ASSUME NEW h \in Grants, Claimed(h)' > 0
                 PROVE  \E i \in DOMAIN grants' : grants'[i].id = h /\ Claimed(h)' <= grants'[i].payload.runs
      BY DEF GrantsSuffice
    <2>1. Claimed(h)' = Claimed(h)
      BY <1>1 DEF Claimed
    <2>2. PICK i \in DOMAIN grants : grants[i].id = h /\ Claimed(h) <= grants[i].payload.runs
      BY <2>1 DEF Slots, GrantsSuffice
    <2> QED BY <1>2, <2>1, <2>2
  <1>4. KeysHaveOnePolicy'
    <2>1. Idle.pc = "idle"
      BY DEF Idle
    <2> QED BY <1>1, <2>1 DEF Slots, KeysHaveOnePolicy, OwnPolicies, UsedLive
  <1>5. SlotsAreNumbered' /\ SlotsDiffer' /\ AnswersWerePrepared'
    BY <1>1 DEF Slots, SlotsAreNumbered, SlotsDiffer, AnswersWerePrepared, Claimed
  <1> QED BY <1>3, <1>4, <1>5 DEF Slots

LEMMA InitSlots == grants = <<>> /\ LiveInit => Slots
  <1> SUFFICES ASSUME grants = <<>>, LiveInit PROVE Slots
    OBVIOUS
  <1>1. /\ \A k \in Keys : slots[k] = None /\ answers[k] = {}
        /\ \A t \in Threads : th[t] = Idle
        /\ \A p \in OwnPolicies : prepared[p] = None
    BY DEF LiveInit, OwnPolicies
  <1>2. \A g \in Grants : Claimed(g) = 0
    <2> TAKE g \in Grants
    <2>1. {k \in Keys : slots[k] # None /\ slots[k][1] = g} = {}
      BY <1>1
    <2> QED BY <2>1, FS_EmptySet DEF Claimed
  <1>3. GrantsSuffice
    BY <1>2 DEF GrantsSuffice
  <1>4. KeysHaveOnePolicy
    BY <1>1 DEF KeysHaveOnePolicy, OwnPolicies, UsedLive, Idle
  <1> QED BY <1>1, <1>3, <1>4 DEF Slots, SlotsAreNumbered, SlotsDiffer, AnswersWerePrepared

LEMMA NextSlots ==
    IInv /\ Slots /\ [LiveNext \/ \E g \in Grants, a \in Authorities : Restart(g, a)]_<<grants, live>> => Slots'
  <1> SUFFICES ASSUME IInv, Slots, [LiveNext \/ \E g \in Grants, a \in Authorities : Restart(g, a)]_<<grants, live>>
               PROVE  Slots'
    OBVIOUS
  <1>1. Types /\ Calls /\ ClaimsAreHeld /\ Approvals
    BY DEF IInv, Preparations
  <1>2. ASSUME NEW t \in Threads, AskPreparation(t) \/ AskStart(t) \/ Work(t), UNCHANGED grants PROVE Slots'
    BY <1>1, <1>2, SlotsKept
  <1>3. ASSUME UNCHANGED <<grants, prepared, slots, th, answers>> PROVE Slots'
    BY <1>1, <1>3, SlotsStay DEF PreparedStay, AnswersAreNew
  <1>4. ASSUME NEW r \in Runs, OwnerStep(r), UNCHANGED grants PROVE Slots'
    BY <1>1, <1>3, <1>4, OwnerStepKeeps
  <1>5. CASE UNCHANGED <<grants, live>>
    BY <1>3, <1>5 DEF live
  <1> QED BY <1>1, <1>2, <1>4, <1>5, SlotsAfterRestart DEF LiveNext

LEMMA OneAnswer ==
    ASSUME Types, Slots, NEW k \in Keys
    PROVE  Cardinality(answers[k]) <= 1
  <1>1. ASSUME NEW r \in answers[k], NEW s \in answers[k] PROVE r = s
    <2>1. PICK p \in OwnPolicies : prepared[p] # None /\ prepared[p].key = k /\ prepared[p].run = r
      BY DEF Slots, AnswersWerePrepared
    <2>2. PICK q \in OwnPolicies : prepared[q] # None /\ prepared[q].key = k /\ prepared[q].run = s
      BY DEF Slots, AnswersWerePrepared
    <2>3. \A x \in {p, q} : IF x = Live THEN UsedLive(k) ELSE slots[k] = x
      BY <2>1, <2>2 DEF Slots, KeysHaveOnePolicy, UsedLive
    <2>4. p # None /\ q # None
      BY LiveNoneAssumption DEF OwnPolicies
    <2>5. p = q
      BY <2>3, <2>4 DEF Slots, KeysHaveOnePolicy
    <2> QED BY <2>1, <2>2, <2>5
  <1>2. CASE answers[k] = {}
    BY <1>2, FS_EmptySet
  <1>3. CASE answers[k] # {}
    <2>1. PICK r : r \in answers[k]
      BY <1>3
    <2>2. answers[k] = {r}
      BY <1>1, <2>1
    <2>3. Cardinality({r}) = 1
      BY FS_Singleton
    <2> QED BY <2>2, <2>3
  <1> QED BY <1>2, <1>3

----------------------------------------------------------------------------
(* Theorems.                                                               *)

\* A request holds the claim it works under, alone; each call was claimed
\* before it was made; and a run being evaluated is the one that was approved.
THEOREM AnalysisInvariant == LiveSpec => []IInv
  <1>1. IInv /\ [LiveNext \/ \E g \in Grants, a \in Authorities : Restart(g, a)]_<<grants, live>> => IInv'
    BY NextInvariant
  <1>2. grants = <<>> /\ LiveInit => IInv
    BY InitInvariant
  <1> QED BY <1>1, <1>2, PTL DEF LiveSpec

\* The rows of the store keep their types (the tables that workflow.py, live.py
\* and page_analysis.py write).
THEOREM AnalysisTypes == LiveSpec => []LiveTypeOK
  <1>1. IInv => LiveTypeOK
    BY TypesImplyTypeOK DEF IInv
  <1> QED BY <1>1, AnalysisInvariant, PTL

\* However often a preparation, a page or a start is asked for, by however many
\* requests at a time, and wherever they are cut short, each provider call of a
\* policy is made once at most (the claims of live.py and page_analysis.py).
THEOREM CallsAreNotRepeated == LiveSpec => []EachCallOnce
  <1>1. IInv => EachCallOnce
    <2> SUFFICES ASSUME IInv, NEW p \in Policies, NEW o \in CallOps PROVE sent[p][o] <= 1
      BY DEF EachCallOnce
    <2>1. CASE o \in Queries
      BY <2>1 DEF IInv, Calls
    <2>2. CASE o \in {Browse, Analyse, Propose}
      BY <2>2 DEF IInv, Preparations, PolicyIsProper
    <2> QED BY <2>1, <2>2, CallNames
  <1> QED BY <1>1, AnalysisInvariant, PTL

\* However a run is revised, cancelled, approved and started while an earlier
\* evaluation of it goes on, its results are those of the inputs it has, which
\* were approved at the revision it has (Coordinator.start and finish).
THEOREM ResultsWereApproved == LiveSpec => []ResultsAreApproved
  <1>1. IInv => ResultsAreApproved
    BY DEF IInv, Approvals
  <1> QED BY <1>1, AnalysisInvariant, PTL

\* However many preparations are asked for at a time, and whatever grants are
\* applied between them, no more slots are given than the grants say, no slot
\* twice, and a key is answered with one run (BudgetedLiveWorkflow.prepare).
THEOREM SlotsWereGranted == LiveSpec => []SlotsAreGranted
  <1>1. IInv /\ Slots => SlotsAreGranted
    <2> SUFFICES ASSUME IInv, Slots PROVE SlotsAreGranted
      OBVIOUS
    <2>1. \A k \in Keys : Cardinality(answers[k]) <= 1
      BY OneAnswer DEF IInv
    <2> QED BY <2>1 DEF Slots, GrantsSuffice, SlotsDiffer, SlotsAreGranted
  <1>2. LiveSpec => [](IInv /\ Slots)
    BY InitInvariant, InitSlots, NextInvariant, NextSlots, PTL DEF LiveSpec
  <1> QED BY <1>1, <1>2, PTL

==============================================================================
