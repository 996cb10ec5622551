------------------------- MODULE ProjectChat_proofs -------------------------
(***************************************************************************)
(* Proofs about ProjectChat, for any number of runs, messages, goals and   *)
(* workers.                                                                *)
(***************************************************************************)
EXTENDS ProjectChat, TLAPS

\* A setup as it is saved.  Its summary is of its topic and, unless something
\* was refused, of its whole goal while it is pending; one that asks to be
\* confirmed misses nothing, and one that asks for more after its summary was
\* refused.
CurrentFlow ==
    {f \in Flow : /\ f.summary # None => f.summary.topic = f.goal.topic
                  /\ f.status \in PendingStatuses /\ ~f.error => f.summary \in {None, f.goal}
                  /\ f.status \in {"awaiting-confirmation", "preparing"} => f.summary # None
                  /\ f.status = "awaiting-confirmation" => f.complete
                  /\ f.status = "collecting" /\ f.summary # None => f.error}

\* A setup whose next question is about to be chosen.
DraftFlow ==
    {f \in Flow : /\ f.summary # None => f.summary.topic = f.goal.topic
                  /\ ~f.error => f.summary \in {None, f.goal}
                  /\ ~f.complete /\ f.summary # None => f.error}

\* A conversation as it is read: its setups are current, and the active one is there.
Copy ==
    {c \in Conversation : /\ c.flows \in [Keys -> CurrentFlow \cup {None}]
                          /\ c.active # None => c.flows[c.active] # None}

\* No turn but the last runs.
LastRuns(turns) == \A i \in DOMAIN turns : turns[i].status = "running" => i = Len(turns)

\* b follows a: no turn is lost, and only the last may have changed, if it was running.
Follows(a, b) ==
    /\ Len(b) >= Len(a)
    /\ \A i \in DOMAIN a : /\ b[i].key = a[i].key
                           /\ a[i].status # "running" => b[i] = a[i]

\* What is known of a copy c while the conversation is v: it is not ahead of
\* it, and has the same turns if it is not behind.
Behind(c, v) ==
    /\ c \in Copy
    /\ v # None => c.rev <= v.rev /\ (c.rev = v.rev => c.turns = v.turns)

\* How the conversation may move from a to b in a step.
Moves(a, b) ==
    \/ b = None
    \/ /\ a # None /\ b \in Copy
       /\ a.rev <= b.rev
       /\ a.rev = b.rev => a.turns = b.turns
       /\ LastRuns(b.turns) /\ Follows(a.turns, b.turns)

\* A request that is being answered.
Requests ==
    [pc : {"claimed", "asking", "summarise", "summarising", "save", "enqueue", "bind",
           "finish", "finishing"},
     key : Keys, copy : Copy, setup : Keys \cup {None}, flow : Flow \cup {None},
     run : Runs \cup {None}, ok : BOOLEAN]

\* The request h while the conversation is v and the runs have the origins o.
ProperRequest(h, v, o) ==
    \/ h = NoRequest
    \/ /\ h \in Requests /\ Behind(h.copy, v)
       /\ h.pc \in {"summarise", "summarising", "save", "enqueue", "bind"} =>
            h.setup \in Keys /\ h.flow \in Flow
       /\ h.pc \in {"summarise", "summarising"} =>
            h.flow.status = "awaiting-confirmation" /\ h.flow.complete
       /\ h.pc \in {"save", "enqueue", "bind"} => h.flow \in CurrentFlow
       /\ h.pc \in {"enqueue", "bind"} => h.run \in Runs /\ h.flow.summary # None
       /\ h.pc = "enqueue" => o[h.run] = h.setup
       /\ h.pc = "finishing" => IsCurrent(h.copy, h.key)

\* A worker that reconciles a job.
Works ==
    [pc : {"find", "get", "claim", "refresh", "respond", "finish", "finishing", "set"},
     run : Runs, job : {"prepare", "evaluate", "failed"}, copy : Copy \cup {None},
     setup : Keys \cup {None}, flow : CurrentFlow \cup {None}, ok : BOOLEAN]

\* The worker x while the conversation is v.
ProperWorker(x, v) ==
    \/ x = IdleWorker
    \/ /\ x \in Works
       /\ x.pc # "find" => x.setup \in Keys /\ x.flow \in CurrentFlow
       /\ x.pc \notin {"find", "get"} => x.copy \in Copy
       /\ x.copy # None => Behind(x.copy, v)
       /\ x.pc = "finishing" => IsCurrent(x.copy, x.run)

ConversationIsProper == conv # None => conv \in Copy /\ LastRuns(conv.turns)

WorkersAreProper ==
    /\ wk \in [Workers -> {IdleWorker} \cup Works]
    /\ \A w \in Workers : ProperWorker(wk[w], conv)

DeletionIsProper ==
    /\ deleting \in [run : Runs \cup {None}, copy : Copy \cup {None}]
    /\ deleting.copy # None => Behind(deleting.copy, conv)

Rows ==
    /\ runs \in [Runs -> LiveStates \cup {"unused", "deleted"}]
    /\ origin \in [Runs -> Keys \cup {None}]
    /\ column \in Runs \cup {None}
    /\ links \in SUBSET Runs
    /\ summaries \in [Keys -> [goal : Goals, status : {"running", "completed"}] \cup {None}]
    /\ prepares \in [Keys -> Runs \cup {None}]
    /\ insights \in [Runs -> Nat]

\* A run that was started for a setup holds the key of the setup.
PreparationsAreHeld ==
    \A r \in Runs :
        runs[r] \in ActiveStates \cup {"review", "ready"} /\ origin[r] # None => prepares[origin[r]] = r

\* The insights of a run were or are being asked for: its turn is there.
Asked(r, v) == v # None => TurnsOf(v, r) # {}

InsightsAreClaimed ==
    /\ \A r \in Runs : insights[r] <= 1 /\ (insights[r] = 1 => Asked(r, conv))
    /\ \A w \in Workers : wk[w].pc = "respond" =>
          /\ insights[wk[w].run] = 0 /\ Asked(wk[w].run, conv)
          /\ \A x \in Workers : wk[x].pc = "respond" /\ wk[x].run = wk[w].run => x = w

\* The inductive invariant.
IInv ==
    /\ Rows /\ ConversationIsProper /\ ProperRequest(handler, conv, origin)
    /\ WorkersAreProper /\ DeletionIsProper /\ PreparationsAreHeld /\ InsightsAreClaimed

----------------------------------------------------------------------------
(* Copies of the conversation.                                             *)

\* What is known of a copy.
LEMMA CopyFields ==
    ASSUME NEW c \in Copy
    PROVE  /\ c \in Conversation /\ c # None
           /\ c.rev \in Nat /\ c.run \in Runs \cup {None} /\ c.linked \in SUBSET Runs
           /\ c.active \in Keys \cup {None} /\ c.flows \in [Keys -> CurrentFlow \cup {None}]
           /\ c.turns \in Seq(Turn)
           /\ c.active # None => c.active \in Keys /\ c.flows[c.active] \in CurrentFlow
  BY PayloadAssumption DEF Copy, Conversation

\* A conversation with current setups has setups.
LEMMA FlowsAreFlows ==
    ASSUME NEW flows \in [Keys -> CurrentFlow \cup {None}]
    PROVE  flows \in [Keys -> Flow \cup {None}]
  BY DEF CurrentFlow

\* A turn is added at the end.
LEMMA AddTurn ==
    ASSUME NEW c \in Copy, NEW k \in Keys \cup Runs
    PROVE  /\ WithTurn(c, k) \in Copy
           /\ WithTurn(c, k).rev = c.rev + 1
           /\ WithTurn(c, k).turns = Append(c.turns, [key |-> k, at |-> c.rev, status |-> "running"])
  <1> DEFINE turn == [key |-> k, at |-> c.rev, status |-> "running"]
             turns == Append(c.turns, turn)
             rev == c.rev + 1
  <1>1. turn \in Turn
    BY CopyFields DEF Turn
  <1>2. turns \in Seq(Turn) /\ rev \in Nat
    BY <1>1, CopyFields
  <1>3. WithTurn(c, k) = [c EXCEPT !.rev = rev, !.turns = turns]
    BY DEF WithTurn
  <1> HIDE DEF turns, rev
  <1>4. /\ [c EXCEPT !.rev = rev, !.turns = turns].rev = rev
        /\ [c EXCEPT !.rev = rev, !.turns = turns].turns = turns
        /\ [c EXCEPT !.rev = rev, !.turns = turns].flows = c.flows
        /\ [c EXCEPT !.rev = rev, !.turns = turns].active = c.active
        /\ [c EXCEPT !.rev = rev, !.turns = turns] \in Conversation
    BY <1>2, CopyFields DEF Conversation
  <1>5. WithTurn(c, k) \in Copy
    BY <1>3, <1>4 DEF Copy
  <1> QED BY <1>3, <1>4, <1>5 DEF turns, rev

\* The last turn ends.
LEMMA EndTurn ==
    ASSUME NEW c \in Copy, NEW ok \in BOOLEAN, c.turns # << >>
    PROVE  /\ WithEndedTurn(c, ok) \in Copy
           /\ WithEndedTurn(c, ok).rev = c.rev + 1
           /\ WithEndedTurn(c, ok).turns =
                [c.turns EXCEPT ![Len(c.turns)].status = IF ok THEN "completed" ELSE "failed"]
  <1> DEFINE n == Len(c.turns)
             status == IF ok THEN "completed" ELSE "failed"
             turns == [c.turns EXCEPT ![n].status = status]
             rev == c.rev + 1
  <1>1. n \in 1 .. Len(c.turns) /\ c.turns[n] \in Turn
    BY CopyFields
  <1>2. [c.turns[n] EXCEPT !.status = status] \in Turn
    BY <1>1 DEF Turn
  <1>3. turns \in Seq(Turn) /\ rev \in Nat
    BY <1>1, <1>2, CopyFields
  <1>4. WithEndedTurn(c, ok) = [c EXCEPT !.rev = rev, !.turns = turns]
    BY CopyFields DEF WithEndedTurn, Conversation
  <1> HIDE DEF turns, rev
  <1>5. /\ [c EXCEPT !.rev = rev, !.turns = turns].rev = rev
        /\ [c EXCEPT !.rev = rev, !.turns = turns].turns = turns
        /\ [c EXCEPT !.rev = rev, !.turns = turns].flows = c.flows
        /\ [c EXCEPT !.rev = rev, !.turns = turns].active = c.active
        /\ [c EXCEPT !.rev = rev, !.turns = turns] \in Conversation
    BY <1>3, CopyFields DEF Conversation
  <1>6. WithEndedTurn(c, ok) \in Copy
    BY <1>4, <1>5 DEF Copy
  <1> QED BY <1>4, <1>5, <1>6 DEF turns, rev

\* update_active leaves the revision and the turns alone.
LEMMA ActivateKeeps ==
    ASSUME NEW c \in Copy, NEW k, NEW flow, NEW r, NEW S
    PROVE  /\ WithActive(c, k, flow, r, S).rev = c.rev
           /\ WithActive(c, k, flow, r, S).turns = c.turns
  BY CopyFields DEF WithActive, Conversation

\* It changes the active setup and the links.
LEMMA Activate ==
    ASSUME NEW c \in Copy, NEW k \in Keys \cup {None}, NEW flow, k # None => flow \in CurrentFlow,
           NEW r \in Runs \cup {None}, NEW S \in SUBSET Runs
    PROVE  WithActive(c, k, flow, r, S) \in Copy
  <1> DEFINE run == IF r = None THEN c.run ELSE r
             linked == c.linked \cup S \cup ({r} \ {None})
             active == IF k = None THEN c.active ELSE k
             flows == IF k = None THEN c.flows ELSE [c.flows EXCEPT ![k] = flow]
             new == [c EXCEPT !.run = run, !.linked = linked, !.active = active, !.flows = flows]
  <1>1. WithActive(c, k, flow, r, S) = new
    BY DEF WithActive
  <1>2. /\ run \in Runs \cup {None} /\ linked \in SUBSET Runs /\ active \in Keys \cup {None}
        /\ flows \in [Keys -> CurrentFlow \cup {None}]
    BY CopyFields
  <1>3. active # None => flows[active] # None
    BY CopyFields, PayloadAssumption DEF CurrentFlow
  <1>4. flows \in [Keys -> Flow \cup {None}]
    BY <1>2, FlowsAreFlows
  <1> HIDE DEF run, linked, active, flows
  <1>5. /\ new.flows = flows /\ new.active = active
        /\ new \in Conversation
    BY <1>2, <1>4, CopyFields DEF Conversation
  <1> QED BY <1>1, <1>2, <1>3, <1>5 DEF Copy

\* The active setup is taken out (clear_workflow).
LEMMA Deactivate ==
    ASSUME NEW c \in Copy, c.active # None
    PROVE  /\ WithoutActive(c) \in Copy
           /\ WithoutActive(c).rev = c.rev
           /\ WithoutActive(c).turns = c.turns
  <1> DEFINE flows == [c.flows EXCEPT ![c.active] = None]
             new == [c EXCEPT !.active = None, !.flows = flows]
  <1>1. WithoutActive(c) = new
    BY DEF WithoutActive
  <1>2. flows \in [Keys -> CurrentFlow \cup {None}] /\ flows \in [Keys -> Flow \cup {None}]
    BY CopyFields, FlowsAreFlows
  <1> HIDE DEF flows
  <1>3. /\ new.rev = c.rev /\ new.turns = c.turns /\ new.flows = flows /\ new.active = None
        /\ new \in Conversation
    BY <1>2, CopyFields DEF Conversation
  <1> QED BY <1>1, <1>2, <1>3 DEF Copy

\* A setup is saved by a worker (set_workflow).
LEMMA SaveFlow ==
    ASSUME NEW c \in Copy, NEW k \in Keys, NEW flow \in CurrentFlow
    PROVE  /\ WithFlow(c, k, flow) \in Copy
           /\ WithFlow(c, k, flow).rev = c.rev + 1
           /\ WithFlow(c, k, flow).turns = c.turns
  <1> DEFINE active == IF c.active = None THEN k ELSE c.active
             flows == IF c.active = None \/ c.flows[k] # None
                        THEN [c.flows EXCEPT ![k] = flow] ELSE c.flows
             rev == c.rev + 1
             new == [c EXCEPT !.rev = rev, !.active = active, !.flows = flows]
  <1>1. WithFlow(c, k, flow) = new
    BY DEF WithFlow
  <1>2. /\ active \in Keys \cup {None} /\ flows \in [Keys -> CurrentFlow \cup {None}]
        /\ rev \in Nat
    BY CopyFields
  <1>3. active # None => flows[active] # None
    BY CopyFields, PayloadAssumption DEF CurrentFlow
  <1>a. flows \in [Keys -> Flow \cup {None}]
    BY <1>2, FlowsAreFlows
  <1> HIDE DEF active, flows, rev
  <1>4. /\ new.rev = rev /\ new.turns = c.turns /\ new.flows = flows /\ new.active = active
        /\ new \in Conversation
    BY <1>2, <1>a, CopyFields DEF Conversation
  <1> QED BY <1>1, <1>2, <1>3, <1>4 DEF Copy, rev

\* A deleted run is taken out.
LEMMA TakeOutRun ==
    ASSUME NEW c \in Copy, NEW r \in Runs
    PROVE  /\ WithoutRun(c, r) \in Copy
           /\ WithoutRun(c, r).rev = c.rev + 1
           /\ WithoutRun(c, r).turns = c.turns
           /\ WithoutRun(c, r).run \in Runs \cup {None}
  <1> DEFINE gone == {k \in Keys : c.flows[k] # None /\ c.flows[k].run = r}
             run == IF c.run = r THEN None ELSE c.run
             active == IF c.active \in gone THEN None ELSE c.active
             flows == [k \in Keys |-> IF k \in gone THEN None ELSE c.flows[k]]
             linked == c.linked \ {r}
             rev == c.rev + 1
             new == [c EXCEPT !.rev = rev, !.run = run, !.linked = linked,
                              !.active = active, !.flows = flows]
  <1>1. WithoutRun(c, r) = new
    BY DEF WithoutRun
  <1> HIDE DEF gone
  <1>2. /\ run \in Runs \cup {None} /\ linked \in SUBSET Runs /\ rev \in Nat
        /\ active \in Keys \cup {None} /\ flows \in [Keys -> CurrentFlow \cup {None}]
    BY CopyFields
  <1>3. flows \in [Keys -> Flow \cup {None}]
    BY <1>2, FlowsAreFlows
  <1>4. active # None => flows[active] # None
    BY CopyFields, PayloadAssumption DEF CurrentFlow
  <1> HIDE DEF run, active, flows, linked, rev
  <1>5. /\ new.rev = rev /\ new.turns = c.turns /\ new.flows = flows /\ new.active = active
        /\ new.run = run /\ new \in Conversation
    BY <1>2, <1>3, CopyFields DEF Conversation
  <1> QED BY <1>1, <1>2, <1>4, <1>5 DEF Copy, rev

----------------------------------------------------------------------------
(* Moves of the conversation.                                              *)

\* A claimed turn follows turns that have ended.
LEMMA AddedTurn ==
    ASSUME NEW turns \in Seq(Turn), NEW turn \in Turn,
           \A i \in DOMAIN turns : turns[i].status # "running"
    PROVE  /\ LastRuns(Append(turns, turn))
           /\ Follows(turns, Append(turns, turn))
  <1> DEFINE new == Append(turns, turn)
  <1>1. /\ Len(turns) \in Nat /\ DOMAIN turns = 1 .. Len(turns)
        /\ Len(new) = Len(turns) + 1 /\ DOMAIN new = 1 .. Len(turns) + 1
        /\ \A i \in 1 .. Len(turns) : new[i] = turns[i]
    OBVIOUS
  <1> HIDE DEF new
  <1>2. LastRuns(new)
    BY <1>1 DEF LastRuns
  <1>3. Follows(turns, new)
    BY <1>1 DEF Follows
  <1> QED BY <1>2, <1>3 DEF new

\* The end of the last turn follows it.
LEMMA EndedTurn ==
    ASSUME NEW turns \in Seq(Turn), turns # << >>, LastRuns(turns),
           turns[Len(turns)].status = "running",
           NEW status \in {"completed", "failed"}
    PROVE  /\ LastRuns([turns EXCEPT ![Len(turns)].status = status])
           /\ Follows(turns, [turns EXCEPT ![Len(turns)].status = status])
  <1> DEFINE n == Len(turns)
             new == [turns EXCEPT ![n].status = status]
             ended == [turns[n] EXCEPT !.status = status]
  <1>1. /\ n \in Nat \ {0} /\ DOMAIN turns = 1 .. n
        /\ \A i \in 1 .. n : turns[i] \in Turn
    OBVIOUS
  <1>2. ended \in Turn /\ ended.status = status /\ ended.key = turns[n].key
    BY <1>1 DEF Turn
  <1>3. new = [turns EXCEPT ![n] = ended]
    OBVIOUS
  <1> HIDE DEF ended
  <1>4. /\ DOMAIN new = 1 .. n /\ new[n] = ended
        /\ \A i \in 1 .. n : i # n => new[i] = turns[i]
    BY <1>1, <1>3
  <1>5. Len(new) = n
    BY <1>1, <1>3
  <1> HIDE DEF n, new
  <1>6. \A i \in 1 .. n : new[i].key = turns[i].key
    BY <1>2, <1>4
  <1>7. LastRuns(new)
    BY <1>1, <1>2, <1>4, <1>5 DEF LastRuns, n
  <1>8. turns[n].status = "running"
    BY DEF n
  <1>9. Follows(turns, new)
    <2>1. Len(turns) = n
      BY DEF n
    <2> QED BY <1>1, <1>4, <1>5, <1>6, <1>8, <2>1 DEF Follows
  <1> QED BY <1>7, <1>9 DEF n, new

\* A conversation that stays.
LEMMA Stays ==
    ASSUME NEW a, a # None => a \in Copy /\ LastRuns(a.turns)
    PROVE  Moves(a, a)
  BY CopyFields DEF Moves, Follows

\* A turn is claimed.
LEMMA ClaimMoves ==
    ASSUME NEW a \in Copy, NEW k \in Keys \cup Runs, ~Running(a)
    PROVE  Moves(a, WithTurn(a, k))
  <1> DEFINE turn == [key |-> k, at |-> a.rev, status |-> "running"]
  <1>1. turn \in Turn /\ a.turns \in Seq(Turn) /\ a.rev \in Nat /\ a # None
    BY CopyFields DEF Turn
  <1>2. \A i \in DOMAIN a.turns : a.turns[i].status # "running"
    BY DEF Running
  <1> HIDE DEF turn
  <1>3. LastRuns(Append(a.turns, turn)) /\ Follows(a.turns, Append(a.turns, turn))
    BY <1>1, <1>2, AddedTurn
  <1>4. /\ WithTurn(a, k).turns = Append(a.turns, turn)
        /\ WithTurn(a, k).rev = a.rev + 1 /\ WithTurn(a, k) \in Copy
    BY AddTurn DEF turn
  <1> QED BY <1>1, <1>3, <1>4 DEF Moves

\* A fresh copy is written back with the same turns.
LEMMA WriteMoves ==
    ASSUME NEW a, NEW c, NEW e \in Copy, Behind(c, a), a # None, a.rev = c.rev,
           a \in Copy, LastRuns(a.turns), e.turns = c.turns, e.rev \in {c.rev, c.rev + 1}
    PROVE  Moves(a, e)
  <1>1. a.rev \in Nat /\ a.turns \in Seq(Turn) /\ e.turns = a.turns
    BY CopyFields DEF Behind
  <1> QED BY <1>1 DEF Moves, Follows

\* A fresh copy is written back with its running turn ended.
LEMMA EndMoves ==
    ASSUME NEW a, NEW c, NEW k, NEW ok \in BOOLEAN, Behind(c, a), a # None, a.rev = c.rev,
           a \in Copy, LastRuns(a.turns), IsCurrent(c, k)
    PROVE  Moves(a, WithEndedTurn(c, ok)) /\ WithEndedTurn(c, ok) \in Copy
  <1>1. a.rev \in Nat /\ a.turns \in Seq(Turn) /\ c.turns = a.turns /\ c \in Copy
    BY CopyFields DEF Behind
  <1>2. c.turns # << >> /\ c.turns[Len(c.turns)].status = "running"
    BY DEF IsCurrent
  <1> DEFINE status == IF ok THEN "completed" ELSE "failed"
             turns == [c.turns EXCEPT ![Len(c.turns)].status = status]
  <1>3. WithEndedTurn(c, ok).turns = turns /\ WithEndedTurn(c, ok) \in Copy
        /\ WithEndedTurn(c, ok).rev = c.rev + 1
    BY <1>1, <1>2, EndTurn
  <1>4. status \in {"completed", "failed"}
    OBVIOUS
  <1> HIDE DEF status
  <1>5. LastRuns(turns) /\ Follows(c.turns, turns)
    BY <1>1, <1>2, <1>4, EndedTurn
  <1> HIDE DEF turns
  <1> QED BY <1>1, <1>3, <1>5 DEF Moves

\* What was behind stays behind.
LEMMA StaysBehind ==
    ASSUME NEW a, NEW b, NEW c, Behind(c, a), Moves(a, b), a # None => a \in Copy
    PROVE  Behind(c, b)
  <1>1. CASE b = None
    BY <1>1 DEF Behind
  <1>2. CASE b # None
    <2>1. c.rev \in Nat /\ a.rev \in Nat /\ b.rev \in Nat
      BY <1>2, CopyFields DEF Behind, Moves
    <2> QED BY <1>2, <2>1 DEF Behind, Moves
  <1> QED BY <1>1, <1>2

\* A conversation that was just read.
LEMMA JustRead == ASSUME NEW a \in Copy PROVE Behind(a, a)
  BY CopyFields DEF Behind

\* A claimed turn stays.
LEMMA StaysAsked ==
    ASSUME NEW a, NEW b, NEW r, Asked(r, a), Moves(a, b), a # None => a \in Copy
    PROVE  Asked(r, b)
  <1>1. CASE b = None
    BY <1>1 DEF Asked
  <1>2. CASE b # None
    <2>1. PICK i \in DOMAIN a.turns : a.turns[i].key = r
      BY <1>2 DEF Asked, Moves, TurnsOf
    <2>2. a.turns \in Seq(Turn) /\ b.turns \in Seq(Turn)
      BY <1>2, CopyFields DEF Moves
    <2>3. i \in DOMAIN b.turns /\ b.turns[i].key = r
      BY <1>2, <2>1, <2>2 DEF Moves, Follows
    <2> QED BY <2>3 DEF Asked, TurnsOf
  <1> QED BY <1>1, <1>2

----------------------------------------------------------------------------
(* The conversation, step by step.                                         *)

LEMMA InitInvariant == ASSUME Init PROVE IInv
  <1> USE DEF Init
  <1>1. column \in Runs \cup {None}
    OBVIOUS
  <1> DEFINE flows == [k \in Keys |-> None]
  <1>2. conv = [rev |-> 0, run |-> column, linked |-> {column} \ {None}, active |-> None,
                flows |-> flows, turns |-> << >>]
    BY DEF NewConversation
  <1>3. flows \in [Keys -> CurrentFlow \cup {None}] /\ flows \in [Keys -> Flow \cup {None}]
    OBVIOUS
  <1>4. << >> \in Seq(Turn)
    OBVIOUS
  <1>5. {column} \ {None} \in SUBSET Runs
    BY <1>1
  <1> HIDE DEF flows
  <1>6. conv \in Conversation
    BY <1>1, <1>2, <1>3, <1>4, <1>5 DEF Conversation
  <1>7. conv \in Copy /\ LastRuns(conv.turns)
    <2>1. conv.flows = flows /\ conv.active = None /\ conv.turns = << >>
      BY <1>2
    <2>2. LastRuns(<< >>)
      BY DEF LastRuns
    <2> QED BY <1>3, <1>6, <2>1, <2>2 DEF Copy
  <1>8. /\ runs \in [Runs -> {"ready", "unused"}] /\ origin \in [Runs -> {None}]
        /\ summaries \in [Keys -> {None}] /\ prepares \in [Keys -> {None}]
        /\ insights \in [Runs -> {0}] /\ links \in SUBSET Runs
    BY <1>5
  <1>9. Rows
    BY <1>1, <1>8 DEF Rows, LiveStates, DeletableStates
  <1>10. ProperRequest(handler, conv, origin)
    BY DEF ProperRequest
  <1>11. WorkersAreProper
    BY DEF WorkersAreProper, ProperWorker
  <1>12. DeletionIsProper
    BY DEF DeletionIsProper, NoDeletion
  <1>13. PreparationsAreHeld
    BY <1>8 DEF PreparationsAreHeld
  <1>14. InsightsAreClaimed
    BY <1>8 DEF InsightsAreClaimed, IdleWorker
  <1> QED BY <1>7, <1>9, <1>10, <1>11, <1>12, <1>13, <1>14 DEF IInv, ConversationIsProper

\* What is known of a request that is being answered.
LEMMA RequestKnows ==
    ASSUME IInv, handler.pc # "idle"
    PROVE  /\ handler \in Requests /\ Behind(handler.copy, conv) /\ handler.copy \in Copy
           /\ handler.key \in Keys /\ handler.ok \in BOOLEAN
           /\ handler.pc \in {"summarise", "summarising", "save", "enqueue", "bind"} =>
                handler.setup \in Keys /\ handler.flow \in Flow
           /\ handler.pc \in {"summarise", "summarising"} =>
                handler.flow.status = "awaiting-confirmation" /\ handler.flow.complete
           /\ handler.pc \in {"save", "enqueue", "bind"} => handler.flow \in CurrentFlow
           /\ handler.pc \in {"enqueue", "bind"} =>
                handler.run \in Runs /\ handler.flow.summary # None
           /\ handler.pc = "enqueue" => origin[handler.run] = handler.setup
           /\ handler.pc = "finishing" => IsCurrent(handler.copy, handler.key)
  BY DEF IInv, ProperRequest, NoRequest, Requests

\* What is known of a worker that reconciles a job.
LEMMA WorkerKnows ==
    ASSUME IInv, NEW w \in Workers, wk[w].pc # "idle"
    PROVE  /\ wk[w] \in Works
           /\ wk[w].run \in Runs /\ wk[w].ok \in BOOLEAN
           /\ wk[w].pc # "find" => wk[w].setup \in Keys /\ wk[w].flow \in CurrentFlow
           /\ wk[w].pc \notin {"find", "get"} => wk[w].copy \in Copy /\ Behind(wk[w].copy, conv)
           /\ wk[w].copy # None => Behind(wk[w].copy, conv)
           /\ wk[w].pc = "finishing" => IsCurrent(wk[w].copy, wk[w].run)
  <1>1. ProperWorker(wk[w], conv) /\ wk[w] # IdleWorker
    BY DEF IInv, WorkersAreProper, IdleWorker
  <1> QED BY <1>1, CopyFields DEF ProperWorker, Works

\* A fresh copy is changed without touching the turns, and written.
LEMMA FreshWrite ==
    ASSUME IInv, NEW c \in Copy, Behind(c, conv), Fresh(c),
           NEW e \in Copy, e.turns = c.turns, e.rev \in {c.rev, c.rev + 1}
    PROVE  Moves(conv, e)
  BY WriteMoves DEF Fresh, IInv, ConversationIsProper

LEMMA HandlerMoves ==
    ASSUME IInv, HandlerStep
    PROVE  Moves(conv, conv')
  <1>0. Moves(conv, conv)
    BY Stays DEF IInv, ConversationIsProper
  <1>1. CASE CancelSetup
    <2>1. handler.copy.active # None /\ handler.copy \in Copy /\ Behind(handler.copy, conv)
      BY <1>1, RequestKnows DEF CancelSetup, PendingSetup
    <2>2. CASE Fresh(handler.copy)
      <3>1. conv' = WithoutActive(handler.copy)
        BY <1>1, <2>2 DEF CancelSetup
      <3> QED BY <2>1, <2>2, <3>1, Deactivate, FreshWrite
    <2>3. CASE ~Fresh(handler.copy)
      BY <1>0, <1>1, <2>3 DEF CancelSetup
    <2> QED BY <2>2, <2>3
  <1>2. CASE SaveSetup
    <2>1. /\ handler.copy \in Copy /\ Behind(handler.copy, conv)
          /\ handler.setup \in Keys /\ handler.flow \in CurrentFlow
      BY <1>2, RequestKnows DEF SaveSetup
    <2>2. CASE Fresh(handler.copy)
      <3>1. conv' = WithActive(handler.copy, handler.setup, handler.flow, None, {})
        BY <1>2, <2>2 DEF SaveSetup
      <3>2. conv' \in Copy
        BY <2>1, <3>1, Activate
      <3>3. conv'.rev = handler.copy.rev /\ conv'.turns = handler.copy.turns
        BY <2>1, <3>1, ActivateKeeps
      <3> QED BY <2>1, <2>2, <3>2, <3>3, FreshWrite
    <2>3. CASE ~Fresh(handler.copy)
      BY <1>0, <1>2, <2>3 DEF SaveSetup
    <2> QED BY <2>2, <2>3
  <1>3. CASE BindStarted
    <2>1. /\ handler.copy \in Copy /\ Behind(handler.copy, conv) /\ handler.run \in Runs
          /\ handler.setup \in Keys /\ handler.flow \in CurrentFlow
          /\ handler.flow.summary # None
      BY <1>3, RequestKnows DEF BindStarted
    <2> DEFINE flow == [handler.flow EXCEPT !.status = "preparing", !.error = FALSE,
                                            !.run = handler.run]
    <2>2. flow \in CurrentFlow
      BY <2>1 DEF CurrentFlow, Flow, PendingStatuses
    <2>3. CASE Fresh(handler.copy) /\ Live(handler.run)
      <3>1. conv' = WithActive(handler.copy, handler.setup, flow, handler.run, {handler.run})
        BY <1>3, <2>3 DEF BindStarted
      <3> HIDE DEF flow
      <3>2. Moves(conv, WithActive(handler.copy, handler.setup, flow, handler.run, {handler.run}))
        BY <2>1, <2>2, <2>3, Activate, ActivateKeeps, FreshWrite
      <3> QED BY <3>1, <3>2
    <2>4. CASE ~(Fresh(handler.copy) /\ Live(handler.run))
      BY <1>0, <1>3, <2>4 DEF BindStarted
    <2> QED BY <2>3, <2>4
  <1>4. CASE FinishWrite
    <2>1. /\ handler.copy \in Copy /\ Behind(handler.copy, conv) /\ handler.ok \in BOOLEAN
          /\ IsCurrent(handler.copy, handler.key)
      BY <1>4, RequestKnows DEF FinishWrite
    <2>2. CASE Fresh(handler.copy)
      <3>1. Moves(conv, WithEndedTurn(handler.copy, handler.ok))
        BY <2>1, <2>2, EndMoves DEF Fresh, IInv, ConversationIsProper
      <3> QED BY <1>4, <2>2, <3>1 DEF FinishWrite
    <2>3. CASE ~Fresh(handler.copy)
      BY <1>0, <1>4, <2>3 DEF FinishWrite
    <2> QED BY <2>2, <2>3
  <1>5. ASSUME NEW r \in Runs, NEW S \in SUBSET Runs, BindRuns(r, S)
        PROVE  Moves(conv, conv')
    <2>1. handler.copy \in Copy /\ Behind(handler.copy, conv)
      BY <1>5, RequestKnows DEF BindRuns
    <2>2. CASE UNCHANGED conv
      BY <1>0, <2>2
    <2>3. CASE ~UNCHANGED conv
      <3>1. Fresh(handler.copy) /\ conv' = WithActive(handler.copy, None, None, r, S)
        BY <1>5, <2>3 DEF BindRuns
      <3>2. conv' \in Copy
        BY <2>1, <3>1, Activate
      <3>3. conv'.rev = handler.copy.rev /\ conv'.turns = handler.copy.turns
        BY <2>1, <3>1, ActivateKeeps
      <3> QED BY <2>1, <3>1, <3>2, <3>3, FreshWrite
    <2> QED BY <2>2, <2>3
  <1>6. CASE Refuse \/ AskAgent \/ SummaryBegins \/ SummaryReturns \/ SummaryRefused
             \/ StartRefused \/ Enqueue \/ EnqueueRefused \/ Interrupted \/ FinishRead \/ ServerDies
    <2>1. UNCHANGED conv
      BY <1>6 DEF Refuse, AskAgent, SummaryBegins, SummaryReturns, SummaryRefused, StartRefused,
                  Enqueue, EnqueueRefused, Interrupted, FinishRead, ServerDies
    <2> QED BY <1>0, <2>1
  <1>7. CASE \/ \E r \in Runs : Confirm(r)
             \/ \E g \in Goals, complete \in BOOLEAN : RequestMeasurement(g, complete) \/ Answer(g, complete)
             \/ AnswerNothing \/ \E g \in Goals : AnswerScope(g) \/ RejectPage(g)
             \/ \E ok \in BOOLEAN : AgentReplies(ok)
    <2>1. UNCHANGED conv
      BY <1>7 DEF Confirm, RequestMeasurement, Answer, AnswerNothing, AnswerScope, RejectPage,
                  AgentReplies
    <2> QED BY <1>0, <2>1
  <1> QED BY <1>1, <1>2, <1>3, <1>4, <1>5, <1>6, <1>7 DEF HandlerStep

LEMMA WorkerMoves ==
    ASSUME IInv, NEW w \in Workers, WorkerStep(w)
    PROVE  Moves(conv, conv')
  <1>0. Moves(conv, conv)
    BY Stays DEF IInv, ConversationIsProper
  <1>1. CASE ClaimInsights(w)
    <2>1. wk[w].run \in Runs
      BY <1>1, WorkerKnows DEF ClaimInsights
    <2>2. CASE UNCHANGED conv
      BY <1>0, <2>2
    <2>3. CASE ~UNCHANGED conv
      <3>1. conv # None /\ ~Running(conv) /\ conv' = WithTurn(conv, wk[w].run)
        BY <1>1, <2>3 DEF ClaimInsights
      <3>2. conv \in Copy
        BY <3>1 DEF IInv, ConversationIsProper
      <3> QED BY <2>1, <3>1, <3>2, ClaimMoves
    <2> QED BY <2>2, <2>3
  <1>2. CASE InsightsWrite(w)
    <2>1. /\ wk[w].copy \in Copy /\ Behind(wk[w].copy, conv) /\ wk[w].ok \in BOOLEAN
          /\ IsCurrent(wk[w].copy, wk[w].run)
      BY <1>2, WorkerKnows DEF InsightsWrite
    <2>2. CASE Fresh(wk[w].copy)
      <3>1. Moves(conv, WithEndedTurn(wk[w].copy, wk[w].ok))
        BY <2>1, <2>2, EndMoves DEF Fresh, IInv, ConversationIsProper
      <3> QED BY <1>2, <2>2, <3>1 DEF InsightsWrite
    <2>3. CASE ~Fresh(wk[w].copy)
      BY <1>0, <1>2, <2>3 DEF InsightsWrite
    <2> QED BY <2>2, <2>3
  <1>3. CASE SetFlow(w)
    <2>1. /\ wk[w].copy \in Copy /\ Behind(wk[w].copy, conv)
          /\ wk[w].setup \in Keys /\ wk[w].flow \in CurrentFlow
      BY <1>3, WorkerKnows DEF SetFlow
    <2>2. CASE Fresh(wk[w].copy)
      <3>1. conv' = WithFlow(wk[w].copy, wk[w].setup, wk[w].flow)
        BY <1>3, <2>2 DEF SetFlow
      <3> QED BY <2>1, <2>2, <3>1, SaveFlow, FreshWrite
    <2>3. CASE ~Fresh(wk[w].copy)
      BY <1>0, <1>3, <2>3 DEF SetFlow
    <2> QED BY <2>2, <2>3
  <1>4. CASE \/ \E r \in Runs : ReconcileAgain(w, r) \/ \E ok \in BOOLEAN : JobEnds(w, r, ok)
             \/ Find(w) \/ Get(w) \/ Refresh(w) \/ \E ok \in BOOLEAN : AgentSummarises(w, ok)
             \/ InsightsRead(w) \/ WorkerDies(w)
    <2>1. UNCHANGED conv
      BY <1>4 DEF ReconcileAgain, JobEnds, Find, Get, Refresh, AgentSummarises, InsightsRead, WorkerDies
    <2> QED BY <1>0, <2>1
  <1> QED BY <1>1, <1>2, <1>3, <1>4 DEF WorkerStep

\* The conversation keeps its turns, however the copies of it are written back.
LEMMA ConversationMoves ==
    ASSUME IInv, [Next]_vars
    PROVE  Moves(conv, conv')
  <1>0. Moves(conv, conv)
    BY Stays DEF IInv, ConversationIsProper
  <1>1. CASE UNCHANGED vars
    BY <1>0, <1>1 DEF vars
  <1>2. CASE HandlerStep
    BY <1>2, HandlerMoves
  <1>3. ASSUME NEW k \in Keys, Send(k)
        PROVE  Moves(conv, conv')
    <2>1. conv \in Copy /\ ~Running(conv) /\ conv' = WithTurn(conv, k)
      BY <1>3 DEF Send, IInv, ConversationIsProper
    <2> QED BY <2>1, ClaimMoves
  <1>4. ASSUME NEW w \in Workers, WorkerStep(w)
        PROVE  Moves(conv, conv')
    BY <1>4, WorkerMoves
  <1>5. CASE \E r \in Runs : JobStops(r) \/ Resume(r) \/ DeleteRunRead(r)
    <2>1. UNCHANGED conv
      BY <1>5 DEF JobStops, Resume, DeleteRunRead
    <2> QED BY <1>0, <2>1
  <1>6. CASE DeleteRunWrite
    <2>1. /\ deleting.run \in Runs
          /\ deleting.copy # None => deleting.copy \in Copy /\ Behind(deleting.copy, conv)
      BY <1>6, CopyFields DEF DeleteRunWrite, IInv, DeletionIsProper
    <2>2. CASE UNCHANGED conv
      BY <1>0, <2>2
    <2>3. CASE ~UNCHANGED conv
      <3>1. deleting.copy # None /\ Fresh(deleting.copy) /\ conv' = WithoutRun(deleting.copy, deleting.run)
        BY <1>6, <2>3 DEF DeleteRunWrite
      <3> QED BY <2>1, <3>1, TakeOutRun, FreshWrite
    <2> QED BY <2>2, <2>3
  <1>7. CASE DeleteConversation \/ DeleteProject
    BY <1>7 DEF DeleteConversation, DeleteProject, Moves
  <1> QED BY <1>1, <1>2, <1>3, <1>4, <1>5, <1>6, <1>7 DEF Next

----------------------------------------------------------------------------
(* The request.                                                            *)

\* A request that does nothing in this step.
LEMMA RequestStays ==
    ASSUME NEW h, NEW a, NEW b, NEW o, ProperRequest(h, a, o), Moves(a, b), a # None => a \in Copy
    PROVE  ProperRequest(h, b, o)
  BY StaysBehind DEF ProperRequest

\* A request whose turn is about to end.
LEMMA RequestEnds ==
    ASSUME IInv, handler.pc # "idle", NEW ok \in BOOLEAN, Moves(conv, conv'), Ends(ok)
    PROVE  ProperRequest(handler', conv', origin')
  <1>1. handler \in Requests /\ Behind(handler.copy, conv)
    BY RequestKnows
  <1>2. handler' \in Requests /\ handler'.copy = handler.copy /\ handler'.pc = "finish"
    BY <1>1 DEF Ends, Requests
  <1>3. Behind(handler.copy, conv')
    BY <1>1, StaysBehind DEF IInv, ConversationIsProper
  <1> QED BY <1>2, <1>3 DEF ProperRequest

\* A setup goes on to its next question (_next_question).
LEMMA RequestProceeds ==
    ASSUME IInv, handler.pc = "claimed", NEW k \in Keys, NEW flow \in DraftFlow,
           Proceed(k, flow), UNCHANGED conv
    PROVE  ProperRequest(handler', conv', origin')
  <1> DEFINE status == IF flow.complete THEN "awaiting-confirmation" ELSE "collecting"
             next == [flow EXCEPT !.status = status]
             pc == IF ~flow.complete \/ flow.summary # None THEN "save" ELSE "summarise"
  <1>1. /\ handler \in Requests /\ Behind(handler.copy, conv)
    BY RequestKnows
  <1>2. next \in Flow /\ (pc = "save" => next \in CurrentFlow)
    BY DEF DraftFlow, Flow, CurrentFlow, PendingStatuses
  <1>a. pc = "summarise" => next.status = "awaiting-confirmation" /\ next.complete
    BY DEF DraftFlow, Flow
  <1>3. handler' = [handler EXCEPT !.setup = k, !.flow = next, !.pc = pc]
    BY DEF Proceed
  <1>4. pc \in {"save", "summarise"}
    OBVIOUS
  <1> HIDE DEF next, pc
  <1>5. /\ handler' \in Requests /\ handler'.copy = handler.copy /\ handler'.pc = pc
        /\ handler'.setup = k /\ handler'.flow = next
    BY <1>1, <1>2, <1>3, <1>4 DEF Requests
  <1> QED BY <1>1, <1>2, <1>a, <1>4, <1>5 DEF ProperRequest

\* A setup is saved as it is.
LEMMA RequestSaves ==
    ASSUME IInv, handler.pc # "idle", NEW k \in Keys, NEW flow \in CurrentFlow,
           Save(k, flow), UNCHANGED conv
    PROVE  ProperRequest(handler', conv', origin')
  <1>1. handler \in Requests /\ Behind(handler.copy, conv) /\ flow \in Flow
    BY RequestKnows DEF CurrentFlow
  <1>2. /\ handler' \in Requests /\ handler'.copy = handler.copy /\ handler'.pc = "save"
        /\ handler'.setup = k /\ handler'.flow = flow
    BY <1>1 DEF Save, Requests
  <1> QED BY <1>1, <1>2 DEF ProperRequest

LEMMA HandlerProceeds ==
    ASSUME IInv, HandlerStep
    PROVE  ProperRequest(handler', conv', origin')
  <1>0. Moves(conv, conv')
    BY HandlerMoves
  <1>a. conv # None => conv \in Copy
    BY DEF IInv, ConversationIsProper
  <1>1. CASE Refuse \/ SummaryRefused \/ Interrupted
    <2>1. handler.pc # "idle" /\ Ends(FALSE)
      BY <1>1 DEF Refuse, SummaryRefused, Interrupted
    <2> QED BY <1>0, <2>1, RequestEnds
  <1>2. CASE CancelSetup \/ SaveSetup
    <2>1. handler.pc # "idle" /\ Ends(Fresh(handler.copy))
      BY <1>2 DEF CancelSetup, SaveSetup
    <2>2. Fresh(handler.copy) \in BOOLEAN
      BY DEF Fresh
    <2> QED BY <1>0, <2>1, <2>2, RequestEnds
  <1>3. CASE BindStarted
    <2>1. handler.pc # "idle" /\ Ends(Fresh(handler.copy) /\ Live(handler.run))
      BY <1>3 DEF BindStarted
    <2>2. (Fresh(handler.copy) /\ Live(handler.run)) \in BOOLEAN
      OBVIOUS
    <2> QED BY <1>0, <2>1, <2>2, RequestEnds
  <1>4. ASSUME NEW ok \in BOOLEAN, AgentReplies(ok)
        PROVE  ProperRequest(handler', conv', origin')
    <2>1. handler.pc # "idle" /\ Ends(ok)
      BY <1>4 DEF AgentReplies
    <2> QED BY <1>0, <2>1, RequestEnds
  <1>5. CASE AskAgent
    <2>1. /\ handler \in Requests /\ Behind(handler.copy, conv) /\ UNCHANGED conv
          /\ handler' = [handler EXCEPT !.pc = "asking"]
      BY <1>5, RequestKnows DEF AskAgent
    <2>2. handler' \in Requests /\ handler'.copy = handler.copy /\ handler'.pc = "asking"
      BY <2>1 DEF Requests
    <2> QED BY <2>1, <2>2 DEF ProperRequest
  <1>6. CASE SummaryBegins
    <2>1. /\ handler \in Requests /\ Behind(handler.copy, conv) /\ UNCHANGED conv
          /\ handler.setup \in Keys /\ handler.flow \in Flow
          /\ handler.flow.status = "awaiting-confirmation" /\ handler.flow.complete
          /\ handler' = [handler EXCEPT !.pc = "summarising"]
      BY <1>6, RequestKnows DEF SummaryBegins
    <2>2. /\ handler' \in Requests /\ handler'.copy = handler.copy /\ handler'.pc = "summarising"
          /\ handler'.setup = handler.setup /\ handler'.flow = handler.flow
      BY <2>1 DEF Requests
    <2> QED BY <2>1, <2>2 DEF ProperRequest
  <1>7. CASE SummaryReturns
    <2> DEFINE flow == [handler.flow EXCEPT !.summary = handler.flow.goal]
    <2>1. /\ handler \in Requests /\ Behind(handler.copy, conv) /\ UNCHANGED conv
          /\ handler.setup \in Keys /\ handler.flow \in Flow
          /\ handler.flow.status = "awaiting-confirmation" /\ handler.flow.complete
          /\ handler' = [handler EXCEPT !.pc = "save", !.flow = flow]
      BY <1>7, RequestKnows DEF SummaryReturns
    <2>2. flow \in CurrentFlow /\ flow \in Flow
      BY <2>1, NoneAssumption DEF CurrentFlow, Flow, PendingStatuses
    <2> HIDE DEF flow
    <2>3. /\ handler' \in Requests /\ handler'.copy = handler.copy /\ handler'.pc = "save"
          /\ handler'.setup = handler.setup /\ handler'.flow = flow
      BY <2>1, <2>2 DEF Requests
    <2> QED BY <2>1, <2>2, <2>3 DEF ProperRequest
  <1>8. CASE Enqueue
    <2>1. /\ handler \in Requests /\ Behind(handler.copy, conv) /\ UNCHANGED conv
          /\ handler.setup \in Keys /\ handler.flow \in Flow /\ handler.flow \in CurrentFlow
          /\ handler.run \in Runs /\ handler.flow.summary # None
          /\ handler' = [handler EXCEPT !.pc = "bind"]
      BY <1>8, RequestKnows DEF Enqueue
    <2>2. /\ handler' \in Requests /\ handler'.copy = handler.copy /\ handler'.pc = "bind"
          /\ handler'.setup = handler.setup /\ handler'.flow = handler.flow
          /\ handler'.run = handler.run
      BY <2>1 DEF Requests
    <2> QED BY <2>1, <2>2 DEF ProperRequest
  <1>9. CASE FinishRead
    <2>1. UNCHANGED conv /\ handler \in Requests
      BY <1>9, RequestKnows DEF FinishRead
    <2>2. CASE conv # None /\ IsCurrent(conv, handler.key)
      <3>1. handler' = [handler EXCEPT !.pc = "finishing", !.copy = conv] /\ conv \in Copy
        BY <1>9, <1>a, <2>2 DEF FinishRead
      <3>2. /\ handler' \in Requests /\ handler'.copy = conv /\ handler'.pc = "finishing"
            /\ handler'.key = handler.key
        BY <2>1, <3>1 DEF Requests
      <3> QED BY <2>1, <2>2, <3>1, <3>2, JustRead DEF ProperRequest
    <2>3. CASE ~(conv # None /\ IsCurrent(conv, handler.key))
      BY <1>9, <2>3 DEF FinishRead, ProperRequest
    <2> QED BY <2>2, <2>3
  <1>10. CASE FinishWrite \/ ServerDies
    BY <1>10 DEF FinishWrite, ServerDies, ProperRequest
  <1>11. ASSUME NEW r \in Runs, Confirm(r)
         PROVE  ProperRequest(handler', conv', origin')
    <2> DEFINE k == handler.copy.active
               flow == handler.copy.flows[k]
    <2>1. handler \in Requests /\ Behind(handler.copy, conv) /\ handler.copy \in Copy
      BY <1>11, RequestKnows DEF Confirm
    <2>2. /\ k # None /\ flow.status = "awaiting-confirmation"
          /\ origin' = [origin EXCEPT ![r] = k] /\ UNCHANGED conv
          /\ handler' = [handler EXCEPT !.pc = "enqueue", !.run = r, !.setup = k, !.flow = flow]
      BY <1>11 DEF Confirm, PendingSetup
    <2>3. k \in Keys /\ flow \in CurrentFlow
      BY <2>1, <2>2, CopyFields
    <2> HIDE DEF k, flow
    <2>4. flow \in Flow /\ flow.summary # None
      BY <2>2, <2>3 DEF CurrentFlow
    <2>5. /\ handler' \in Requests /\ handler'.copy = handler.copy /\ handler'.pc = "enqueue"
          /\ handler'.setup = k /\ handler'.flow = flow /\ handler'.run = r
      BY <2>1, <2>2, <2>3, <2>4 DEF Requests
    <2>6. origin'[r] = k
      BY <2>2 DEF IInv, Rows
    <2> QED BY <2>1, <2>2, <2>3, <2>4, <2>5, <2>6 DEF ProperRequest
  <1>12. ASSUME NEW r \in Runs, NEW S \in SUBSET Runs, BindRuns(r, S)
         PROVE  ProperRequest(handler', conv', origin')
    <2>1. handler \in Requests /\ Behind(handler.copy, conv) /\ handler.copy \in Copy
      BY <1>12, RequestKnows DEF BindRuns
    <2>2. CASE Ends(TRUE) \/ Ends(FALSE)
      <3>1. handler.pc # "idle"
        BY <1>12 DEF BindRuns
      <3> QED BY <1>0, <2>2, <3>1, RequestEnds
    <2>3. CASE ~(Ends(TRUE) \/ Ends(FALSE))
      <3>1. /\ conv' = WithActive(handler.copy, None, None, r, S)
            /\ handler' = [handler EXCEPT !.pc = "asking", !.copy = conv']
        BY <1>12, <2>3 DEF BindRuns
      <3>2. conv' \in Copy
        BY <2>1, <3>1, Activate
      <3>3. handler' \in Requests /\ handler'.copy = conv' /\ handler'.pc = "asking"
        BY <2>1, <3>1, <3>2 DEF Requests
      <3>4. Behind(conv', conv')
        BY <3>2, CopyFields DEF Behind
      <3> QED BY <3>3, <3>4 DEF ProperRequest
    <2> QED BY <2>2, <2>3
  <1>13. ASSUME NEW g \in Goals, NEW complete \in BOOLEAN, RequestMeasurement(g, complete)
         PROVE  ProperRequest(handler', conv', origin')
    <2>1. /\ handler.pc = "claimed" /\ UNCHANGED conv
          /\ Proceed(handler.key, NewFlow(g, complete))
      BY <1>13 DEF RequestMeasurement
    <2>2. handler.key \in Keys
      BY <2>1, RequestKnows
    <2>3. NewFlow(g, complete) \in DraftFlow
      BY DEF NewFlow, DraftFlow, Flow, PendingStatuses
    <2> QED BY <2>1, <2>2, <2>3, RequestProceeds
  <1>b. ASSUME handler.pc = "claimed", PendingSetup(handler.copy)
        PROVE  /\ handler.copy.active \in Keys
               /\ handler.copy.flows[handler.copy.active] \in CurrentFlow
               /\ handler.copy.flows[handler.copy.active].status \in PendingStatuses
    <2>1. handler.copy \in Copy
      BY <1>b, RequestKnows
    <2> QED BY <1>b, <2>1, CopyFields DEF PendingSetup
  <1>14. ASSUME NEW g \in Goals, NEW complete \in BOOLEAN, Answer(g, complete)
         PROVE  ProperRequest(handler', conv', origin')
    <2> DEFINE k == handler.copy.active
               known == handler.copy.flows[k]
               flow == ApplyAnswer(known, g, complete)
    <2>1. handler.pc = "claimed" /\ UNCHANGED conv /\ Proceed(k, flow)
      BY <1>14 DEF Answer
    <2>2. k \in Keys /\ known \in CurrentFlow
      BY <1>14, <1>b DEF Answer
    <2> HIDE DEF k, known
    <2>3. flow \in DraftFlow
      BY <2>2 DEF ApplyAnswer, CurrentFlow, DraftFlow, Flow
    <2> HIDE DEF flow
    <2> QED BY <2>1, <2>2, <2>3, RequestProceeds
  <1>15. CASE AnswerNothing
    <2> DEFINE k == handler.copy.active
               known == handler.copy.flows[k]
    <2>1. handler.pc = "claimed" /\ UNCHANGED conv /\ Proceed(k, known)
      BY <1>15 DEF AnswerNothing
    <2>2. k \in Keys /\ known \in CurrentFlow /\ known.status \in PendingStatuses
      BY <1>15, <1>b DEF AnswerNothing
    <2> HIDE DEF k, known
    <2>3. known \in DraftFlow
      BY <2>2 DEF CurrentFlow, DraftFlow, Flow, PendingStatuses
    <2> QED BY <2>1, <2>2, <2>3, RequestProceeds
  <1>16. ASSUME NEW g \in Goals, AnswerScope(g)
         PROVE  ProperRequest(handler', conv', origin')
    <2> DEFINE k == handler.copy.active
               known == handler.copy.flows[k]
               flow == [known EXCEPT !.goal = g]
    <2>1. /\ handler.pc = "claimed" /\ UNCHANGED conv /\ Proceed(k, flow)
          /\ known.status = "collecting" /\ known.summary # None /\ g.topic = known.goal.topic
      BY <1>16 DEF AnswerScope
    <2>2. k \in Keys /\ known \in CurrentFlow
      BY <1>16, <1>b DEF AnswerScope
    <2> HIDE DEF k, known
    <2>3. flow \in DraftFlow
      BY <2>1, <2>2 DEF CurrentFlow, DraftFlow, Flow
    <2> HIDE DEF flow
    <2> QED BY <2>1, <2>2, <2>3, RequestProceeds
  <1>17. ASSUME NEW g \in Goals, RejectPage(g)
         PROVE  ProperRequest(handler', conv', origin')
    <2> DEFINE k == handler.copy.active
               known == handler.copy.flows[k]
               new == NewFlow(g, FALSE)
    <2>1. handler.pc = "claimed" /\ UNCHANGED conv
      BY <1>17 DEF RejectPage
    <2>2. CASE PendingSetup(handler.copy)
      <3> DEFINE flow == [known EXCEPT !.status = "collecting", !.complete = FALSE, !.error = TRUE]
      <3>1. Save(k, flow)
        BY <1>17, <2>2 DEF RejectPage
      <3>2. k \in Keys /\ known \in CurrentFlow
        BY <2>1, <2>2, <1>b
      <3> HIDE DEF k, known
      <3>3. flow \in CurrentFlow
        BY <3>2 DEF CurrentFlow, Flow, PendingStatuses
      <3> HIDE DEF flow
      <3> QED BY <2>1, <3>1, <3>2, <3>3, RequestSaves
    <2>3. CASE ~PendingSetup(handler.copy)
      <3> DEFINE flow == [new EXCEPT !.status = "collecting", !.complete = FALSE, !.error = TRUE]
      <3>1. Save(handler.key, flow) /\ handler.key \in Keys
        BY <1>17, <2>1, <2>3, RequestKnows DEF RejectPage
      <3>2. flow \in CurrentFlow
        BY DEF NewFlow, CurrentFlow, Flow, PendingStatuses
      <3> HIDE DEF flow
      <3> QED BY <2>1, <3>1, <3>2, RequestSaves
    <2> QED BY <2>2, <2>3
  <1>c. ASSUME NEW known \in CurrentFlow
        PROVE  NotStarted(known) \in CurrentFlow
    BY DEF NotStarted, CurrentFlow, Flow, PendingStatuses
  <1>18. CASE StartRefused
    <2> DEFINE k == handler.copy.active
               known == handler.copy.flows[k]
    <2>1. handler.pc = "claimed" /\ UNCHANGED conv /\ Save(k, NotStarted(known))
      BY <1>18 DEF StartRefused
    <2>2. k \in Keys /\ known \in CurrentFlow
      BY <1>18, <1>b DEF StartRefused
    <2> HIDE DEF k, known
    <2> QED BY <2>1, <2>2, <1>c, RequestSaves
  <1>19. CASE EnqueueRefused
    <2>1. /\ handler.pc = "enqueue" /\ UNCHANGED conv
          /\ Save(handler.setup, NotStarted(handler.flow))
      BY <1>19 DEF EnqueueRefused
    <2>2. handler.setup \in Keys /\ handler.flow \in CurrentFlow
      BY <2>1, RequestKnows
    <2> QED BY <2>1, <2>2, <1>c, RequestSaves
  <1> QED BY <1>1, <1>2, <1>3, <1>4, <1>5, <1>6, <1>7, <1>8, <1>9, <1>10, <1>11, <1>12, <1>13,
             <1>14, <1>15, <1>16, <1>17, <1>18, <1>19 DEF HandlerStep

\* What the request of the owner has read stays behind the conversation.
LEMMA RequestStep ==
    ASSUME IInv, [Next]_vars
    PROVE  ProperRequest(handler', conv', origin')
  <1>1. /\ Moves(conv, conv') /\ (conv # None => conv \in Copy)
        /\ ProperRequest(handler, conv, origin)
    BY ConversationMoves DEF IInv, ConversationIsProper
  <1>2. CASE UNCHANGED <<handler, origin>>
    BY <1>1, <1>2, RequestStays
  <1>3. CASE HandlerStep
    BY <1>3, HandlerProceeds
  <1>4. ASSUME NEW k \in Keys, Send(k)
        PROVE  ProperRequest(handler', conv', origin')
    <2>1. /\ conv \in Copy /\ conv' = WithTurn(conv, k)
          /\ handler' = [pc |-> "claimed", key |-> k, copy |-> conv', setup |-> None,
                         flow |-> None, run |-> None, ok |-> FALSE]
      BY <1>1, <1>4 DEF Send
    <2>2. conv' \in Copy
      BY <2>1, AddTurn
    <2>3. handler' \in Requests /\ handler'.copy = conv' /\ handler'.pc = "claimed"
      BY <2>1, <2>2 DEF Requests
    <2>4. Behind(conv', conv')
      BY <2>2, CopyFields DEF Behind
    <2> QED BY <2>3, <2>4 DEF ProperRequest
  <1>5. ASSUME NEW w \in Workers, WorkerStep(w)
        PROVE  UNCHANGED <<handler, origin>>
    BY <1>5 DEF WorkerStep, ReconcileAgain, JobEnds, Find, Get, ClaimInsights, Refresh,
                AgentSummarises, InsightsRead, InsightsWrite, SetFlow, WorkerDies
  <1>6. CASE \/ UNCHANGED vars
             \/ \E r \in Runs : JobStops(r) \/ Resume(r) \/ DeleteRunRead(r)
             \/ DeleteRunWrite \/ DeleteConversation \/ DeleteProject
    <2>1. UNCHANGED <<handler, origin>>
      BY <1>6 DEF vars, JobStops, Resume, DeleteRunRead, DeleteRunWrite, DeleteConversation, DeleteProject
    <2> QED BY <1>2, <2>1
  <1> QED BY <1>2, <1>3, <1>4, <1>5, <1>6 DEF Next

----------------------------------------------------------------------------
(* The workers and the deletion.                                           *)

\* A worker that does nothing in this step.
LEMMA WorkerStays ==
    ASSUME NEW x, NEW a, NEW b, ProperWorker(x, a), Moves(a, b), a # None => a \in Copy
    PROVE  ProperWorker(x, b)
  BY StaysBehind DEF ProperWorker

\* A worker that goes on with a copy it has just read or written.
LEMMA WorkerGoesOn ==
    ASSUME NEW c \in Copy, NEW x \in Works, x.copy = c, x.pc \notin {"find", "finishing"},
           x.setup \in Keys, x.flow \in CurrentFlow
    PROVE  ProperWorker(x, c)
  BY JustRead DEF ProperWorker

LEMMA WorkerProceeds ==
    ASSUME IInv, NEW w \in Workers, WorkerStep(w)
    PROVE  /\ \E x \in {IdleWorker} \cup Works : wk' = [wk EXCEPT ![w] = x]
           /\ ProperWorker(wk'[w], conv')
           /\ wk'[w].pc = "respond" => ClaimInsights(w)
  <1>0. /\ Moves(conv, conv') /\ wk \in [Workers -> {IdleWorker} \cup Works]
        /\ conv # None => conv \in Copy
    BY WorkerMoves DEF IInv, WorkersAreProper, ConversationIsProper
  <1>a. ASSUME NEW x, ProperWorker(x, conv'), wk' = [wk EXCEPT ![w] = x],
               x.pc = "respond" => ClaimInsights(w)
        PROVE  /\ \E y \in {IdleWorker} \cup Works : wk' = [wk EXCEPT ![w] = y]
               /\ ProperWorker(wk'[w], conv')
               /\ wk'[w].pc = "respond" => ClaimInsights(w)
    <2>1. x \in {IdleWorker} \cup Works
      BY <1>a DEF ProperWorker
    <2> QED BY <1>0, <1>a, <2>1
  <1>b. ProperWorker(IdleWorker, conv')
    BY DEF ProperWorker
  <1>c. IdleWorker.pc # "respond"
    BY DEF IdleWorker
  <1>1. CASE wk' = [wk EXCEPT ![w] = IdleWorker]
    BY <1>1, <1>a, <1>b, <1>c
  <1>2. ASSUME NEW r \in Runs, NEW job \in {"prepare", "evaluate", "failed"},
               wk' = [wk EXCEPT ![w] = Reconciling(r, job)]
        PROVE  /\ \E y \in {IdleWorker} \cup Works : wk' = [wk EXCEPT ![w] = y]
               /\ ProperWorker(wk'[w], conv')
               /\ wk'[w].pc = "respond" => ClaimInsights(w)
    <2>1. ProperWorker(Reconciling(r, job), conv') /\ Reconciling(r, job).pc # "respond"
      BY DEF ProperWorker, Reconciling, Works
    <2> QED BY <1>2, <1>a, <2>1
  <1>3. ASSUME NEW r \in Runs, ReconcileAgain(w, r) \/ \E ok \in BOOLEAN : JobEnds(w, r, ok)
        PROVE  /\ \E y \in {IdleWorker} \cup Works : wk' = [wk EXCEPT ![w] = y]
               /\ ProperWorker(wk'[w], conv')
               /\ wk'[w].pc = "respond" => ClaimInsights(w)
    <2>1. \E job \in {"prepare", "evaluate", "failed"} : wk' = [wk EXCEPT ![w] = Reconciling(r, job)]
      BY <1>3 DEF ReconcileAgain, JobEnds
    <2> QED BY <1>2, <2>1
  <1>4. CASE Find(w)
    <2>1. wk[w] \in Works /\ UNCHANGED conv
      BY <1>4, WorkerKnows DEF Find
    <2>2. CASE wk' # [wk EXCEPT ![w] = IdleWorker]
      <3>1. PICK k \in Keys : /\ conv # None /\ conv.flows[k] # None
                              /\ wk' = [wk EXCEPT ![w] =
                                   IF wk[w].job = "failed"
                                     THEN [wk[w] EXCEPT !.pc = "set", !.copy = conv, !.setup = k,
                                                        !.flow = [conv.flows[k] EXCEPT !.status = "failed"]]
                                     ELSE [wk[w] EXCEPT !.pc = "get", !.setup = k,
                                                        !.flow = conv.flows[k]]]
        BY <1>4, <2>2 DEF Find
      <3> DEFINE flow == conv.flows[k]
                 failed == [flow EXCEPT !.status = "failed"]
      <3>2. conv \in Copy /\ flow \in CurrentFlow
        BY <1>0, <3>1, CopyFields
      <3>3. failed \in CurrentFlow
        BY <3>2 DEF CurrentFlow, Flow, PendingStatuses
      <3>4. CASE wk[w].job = "failed"
        <4> DEFINE x == [wk[w] EXCEPT !.pc = "set", !.copy = conv, !.setup = k, !.flow = failed]
        <4>1. wk' = [wk EXCEPT ![w] = x]
          BY <3>1, <3>4
        <4> HIDE DEF flow, failed
        <4>2. x \in Works /\ x.copy = conv /\ x.pc = "set" /\ x.setup = k /\ x.flow = failed
          BY <2>1, <3>2, <3>3 DEF Works
        <4> HIDE DEF x
        <4>3. ProperWorker(x, conv')
          BY <2>1, <3>2, <3>3, <4>2, WorkerGoesOn
        <4> QED BY <1>a, <4>1, <4>3, <4>2
      <3>5. CASE wk[w].job # "failed"
        <4> DEFINE x == [wk[w] EXCEPT !.pc = "get", !.setup = k, !.flow = flow]
        <4>1. wk' = [wk EXCEPT ![w] = x]
          BY <3>1, <3>5
        <4> HIDE DEF flow, failed
        <4>2. x \in Works /\ x.copy = wk[w].copy /\ x.pc = "get" /\ x.setup = k /\ x.flow = flow
          BY <2>1, <3>2 DEF Works
        <4> HIDE DEF x
        <4>3. wk[w].copy # None => Behind(wk[w].copy, conv')
          BY <1>4, <2>1, WorkerKnows DEF Find
        <4>4. ProperWorker(x, conv')
          BY <3>2, <4>2, <4>3 DEF ProperWorker
        <4> QED BY <1>a, <4>1, <4>4, <4>2
      <3> QED BY <3>4, <3>5
    <2> QED BY <1>1, <2>2
  <1>5. CASE Get(w) /\ wk' # [wk EXCEPT ![w] = IdleWorker]
    <2>1. /\ wk[w] \in Works /\ UNCHANGED conv /\ wk[w].setup \in Keys /\ wk[w].flow \in CurrentFlow
      BY <1>5, WorkerKnows DEF Get
    <2>2. conv # None /\ conv \in Copy
      BY <1>0, <1>5 DEF Get
    <2> DEFINE flow == [wk[w].flow EXCEPT !.status = "evaluating"]
    <2>3. flow \in CurrentFlow
      BY <2>1 DEF CurrentFlow, Flow, PendingStatuses
    <2>4. CASE wk[w].job = "evaluate"
      <3> DEFINE x == [wk[w] EXCEPT !.pc = "claim", !.copy = conv]
      <3>1. wk' = [wk EXCEPT ![w] = x]
        BY <1>5, <2>4 DEF Get
      <3>2. x \in Works /\ x.copy = conv /\ x.pc = "claim" /\ x.setup = wk[w].setup /\ x.flow = wk[w].flow
        BY <2>1, <2>2 DEF Works
      <3> HIDE DEF x
      <3>3. ProperWorker(x, conv')
        BY <2>1, <2>2, <3>2, WorkerGoesOn
      <3> QED BY <1>a, <3>1, <3>3, <3>2
    <2>5. CASE wk[w].job # "evaluate"
      <3> DEFINE x == [wk[w] EXCEPT !.pc = "set", !.copy = conv, !.flow = flow]
      <3>1. wk' = [wk EXCEPT ![w] = x]
        BY <1>5, <2>5 DEF Get
      <3> HIDE DEF flow
      <3>2. x \in Works /\ x.copy = conv /\ x.pc = "set" /\ x.setup = wk[w].setup /\ x.flow = flow
        BY <2>1, <2>2, <2>3 DEF Works
      <3> HIDE DEF x
      <3>3. ProperWorker(x, conv')
        BY <2>1, <2>2, <2>3, <3>2, WorkerGoesOn
      <3> QED BY <1>a, <3>1, <3>3, <3>2
    <2> QED BY <2>4, <2>5
  <1>6. CASE (ClaimInsights(w) \/ \E ok \in BOOLEAN : AgentSummarises(w, ok))
             /\ wk' # [wk EXCEPT ![w] = IdleWorker]
    <2>1. /\ wk[w] \in Works /\ wk[w].setup \in Keys /\ wk[w].flow \in CurrentFlow
          /\ wk[w].copy \in Copy /\ Behind(wk[w].copy, conv)
      BY <1>6, WorkerKnows DEF ClaimInsights, AgentSummarises
    <2>2. PICK pc \in {"respond", "refresh", "finish"}, ok \in BOOLEAN :
             /\ wk' = [wk EXCEPT ![w] = [wk[w] EXCEPT !.pc = pc, !.ok = ok]]
             /\ pc = "respond" => ClaimInsights(w)
      <3>1. CASE ClaimInsights(w)
        <4>1. \E pc \in {"respond", "refresh"} : wk' = [wk EXCEPT ![w] = [wk[w] EXCEPT !.pc = pc]]
          BY <1>6, <3>1 DEF ClaimInsights
        <4>2. PICK pc \in {"respond", "refresh"} : wk' = [wk EXCEPT ![w] = [wk[w] EXCEPT !.pc = pc]]
          BY <4>1
        <4>3. [wk[w] EXCEPT !.pc = pc] = [wk[w] EXCEPT !.pc = pc, !.ok = wk[w].ok] /\ wk[w].ok \in BOOLEAN
          BY <2>1 DEF Works
        <4> QED BY <3>1, <4>2, <4>3
      <3>2. ASSUME NEW ok \in BOOLEAN, AgentSummarises(w, ok)
            PROVE  wk' = [wk EXCEPT ![w] = [wk[w] EXCEPT !.pc = "finish", !.ok = ok]]
        BY <1>0, <3>2 DEF AgentSummarises
      <3> QED BY <1>6, <3>1, <3>2
    <2> DEFINE x == [wk[w] EXCEPT !.pc = pc, !.ok = ok]
    <2>3. /\ x \in Works /\ x.copy = wk[w].copy /\ x.pc = pc /\ x.setup = wk[w].setup
          /\ x.flow = wk[w].flow
      BY <2>1, <2>2 DEF Works
    <2>4. Behind(wk[w].copy, conv')
      BY <1>0, <2>1, StaysBehind
    <2> HIDE DEF x
    <2>5. ProperWorker(x, conv')
      BY <2>1, <2>2, <2>3, <2>4 DEF ProperWorker
    <2> QED BY <1>a, <2>2, <2>3, <2>5 DEF x
  <1>7. CASE Refresh(w) /\ wk' # [wk EXCEPT ![w] = IdleWorker]
    <2>1. /\ wk[w] \in Works /\ UNCHANGED conv /\ wk[w].setup \in Keys /\ wk[w].flow \in CurrentFlow
      BY <1>7, WorkerKnows DEF Refresh
    <2>2. conv # None /\ conv \in Copy
      BY <1>0, <1>7 DEF Refresh
    <2> DEFINE flow == [wk[w].flow EXCEPT !.status = "completed"]
               x == [wk[w] EXCEPT !.pc = "set", !.copy = conv, !.flow = flow]
    <2>3. flow \in CurrentFlow
      BY <2>1 DEF CurrentFlow, Flow, PendingStatuses
    <2>4. wk' = [wk EXCEPT ![w] = x]
      BY <1>7, <2>2 DEF Refresh
    <2> HIDE DEF flow
    <2>5. x \in Works /\ x.copy = conv /\ x.pc = "set" /\ x.setup = wk[w].setup /\ x.flow = flow
      BY <2>1, <2>2, <2>3 DEF Works
    <2> HIDE DEF x
    <2>6. ProperWorker(x, conv')
      BY <2>1, <2>2, <2>3, <2>5, WorkerGoesOn
    <2> QED BY <1>a, <2>4, <2>6, <2>5
  <1>8. CASE InsightsRead(w) /\ wk' # [wk EXCEPT ![w] = IdleWorker]
    <2>1. /\ wk[w] \in Works /\ UNCHANGED conv /\ wk[w].setup \in Keys /\ wk[w].flow \in CurrentFlow
      BY <1>8, WorkerKnows DEF InsightsRead
    <2>2. conv # None /\ conv \in Copy /\ IsCurrent(conv, wk[w].run)
      BY <1>0, <1>8 DEF InsightsRead
    <2> DEFINE x == [wk[w] EXCEPT !.pc = "finishing", !.copy = conv]
    <2>3. wk' = [wk EXCEPT ![w] = x]
      BY <1>8, <2>2 DEF InsightsRead
    <2>4. /\ x \in Works /\ x.copy = conv /\ x.pc = "finishing" /\ x.setup = wk[w].setup
          /\ x.flow = wk[w].flow /\ x.run = wk[w].run
      BY <2>1, <2>2 DEF Works
    <2> HIDE DEF x
    <2>5. ProperWorker(x, conv')
      BY <2>1, <2>2, <2>4, JustRead DEF ProperWorker
    <2> QED BY <1>a, <2>3, <2>5, <2>4
  <1>9. CASE InsightsWrite(w) /\ wk' # [wk EXCEPT ![w] = IdleWorker]
    <2>1. /\ wk[w] \in Works /\ wk[w].setup \in Keys /\ wk[w].flow \in CurrentFlow
          /\ wk[w].copy \in Copy /\ Behind(wk[w].copy, conv) /\ wk[w].ok \in BOOLEAN
          /\ IsCurrent(wk[w].copy, wk[w].run)
      BY <1>9, WorkerKnows DEF InsightsWrite
    <2> DEFINE status == IF wk[w].ok THEN "completed" ELSE "failed"
               flow == [wk[w].flow EXCEPT !.status = status]
               x == [wk[w] EXCEPT !.pc = "set", !.copy = conv', !.flow = flow]
    <2>2. Fresh(wk[w].copy) /\ conv' = WithEndedTurn(wk[w].copy, wk[w].ok)
          /\ wk' = [wk EXCEPT ![w] = x]
      BY <1>0, <1>9 DEF InsightsWrite
    <2>3. flow \in CurrentFlow
      BY <2>1 DEF CurrentFlow, Flow, PendingStatuses
    <2>4. conv' \in Copy
      BY <2>1, <2>2, EndTurn DEF IsCurrent
    <2> HIDE DEF flow
    <2>5. x \in Works /\ x.copy = conv' /\ x.pc = "set" /\ x.setup = wk[w].setup /\ x.flow = flow
      BY <2>1, <2>3, <2>4 DEF Works
    <2> HIDE DEF x
    <2>6. ProperWorker(x, conv')
      BY <2>1, <2>3, <2>4, <2>5, WorkerGoesOn
    <2> QED BY <1>a, <2>2, <2>6, <2>5
  <1>10. CASE SetFlow(w) \/ WorkerDies(w)
    BY <1>1, <1>10 DEF SetFlow, WorkerDies
  <1> QED BY <1>1, <1>3, <1>4, <1>5, <1>6, <1>7, <1>8, <1>9, <1>10 DEF WorkerStep

\* What the workers have read stays behind the conversation.
LEMMA WorkersStep ==
    ASSUME IInv, [Next]_vars
    PROVE  WorkersAreProper'
  <1>1. /\ Moves(conv, conv') /\ (conv # None => conv \in Copy)
        /\ wk \in [Workers -> {IdleWorker} \cup Works]
        /\ \A w \in Workers : ProperWorker(wk[w], conv)
    BY ConversationMoves DEF IInv, ConversationIsProper, WorkersAreProper
  <1>2. \A x \in Workers : ProperWorker(wk[x], conv')
    BY <1>1, WorkerStays
  <1>3. ASSUME NEW w \in Workers, WorkerStep(w)
        PROVE  WorkersAreProper'
    <2>1. PICK y \in {IdleWorker} \cup Works : wk' = [wk EXCEPT ![w] = y]
      BY <1>3, WorkerProceeds
    <2>2. ProperWorker(wk'[w], conv')
      BY <1>3, WorkerProceeds
    <2>3. wk' \in [Workers -> {IdleWorker} \cup Works]
      BY <1>1, <2>1
    <2>4. \A x \in Workers : x # w => wk'[x] = wk[x]
      BY <1>1, <2>1
    <2> QED BY <1>2, <2>2, <2>3, <2>4 DEF WorkersAreProper
  <1>4. CASE UNCHANGED wk
    BY <1>1, <1>2, <1>4 DEF WorkersAreProper
  <1>5. CASE HandlerStep
    <2>1. UNCHANGED wk
      BY <1>5 DEF HandlerStep, Refuse, AskAgent, CancelSetup, SummaryBegins, SummaryReturns,
                  SummaryRefused, SaveSetup, StartRefused, Enqueue, EnqueueRefused, BindStarted,
                  Interrupted, FinishRead, FinishWrite, ServerDies, Confirm, BindRuns,
                  RequestMeasurement, Answer, AnswerNothing, AnswerScope, RejectPage, AgentReplies
    <2> QED BY <1>4, <2>1
  <1>6. CASE \/ UNCHANGED vars
             \/ \E k \in Keys : Send(k)
             \/ \E r \in Runs : JobStops(r) \/ Resume(r) \/ DeleteRunRead(r)
             \/ DeleteRunWrite \/ DeleteConversation \/ DeleteProject
    <2>1. UNCHANGED wk
      BY <1>6 DEF vars, Send, JobStops, Resume, DeleteRunRead, DeleteRunWrite, DeleteConversation,
                  DeleteProject
    <2> QED BY <1>4, <2>1
  <1> QED BY <1>3, <1>5, <1>6 DEF Next

\* What a deletion has read stays behind the conversation.
LEMMA DeletionStep ==
    ASSUME IInv, [Next]_vars
    PROVE  DeletionIsProper'
  <1>1. /\ Moves(conv, conv') /\ (conv # None => conv \in Copy) /\ DeletionIsProper
    BY ConversationMoves DEF IInv, ConversationIsProper
  <1>2. CASE UNCHANGED deleting
    BY <1>1, <1>2, StaysBehind DEF DeletionIsProper
  <1>3. ASSUME NEW r \in Runs, DeleteRunRead(r)
        PROVE  DeletionIsProper'
    <2>1. deleting' = [run |-> r, copy |-> conv] /\ UNCHANGED conv
      BY <1>3 DEF DeleteRunRead
    <2> QED BY <1>1, <2>1, JustRead DEF DeletionIsProper
  <1>4. CASE DeleteRunWrite
    BY <1>4 DEF DeleteRunWrite, DeletionIsProper, NoDeletion
  <1>5. CASE HandlerStep
    <2>1. UNCHANGED deleting
      BY <1>5 DEF HandlerStep, Refuse, AskAgent, CancelSetup, SummaryBegins, SummaryReturns,
                  SummaryRefused, SaveSetup, StartRefused, Enqueue, EnqueueRefused, BindStarted,
                  Interrupted, FinishRead, FinishWrite, ServerDies, Confirm, BindRuns,
                  RequestMeasurement, Answer, AnswerNothing, AnswerScope, RejectPage, AgentReplies
    <2> QED BY <1>2, <2>1
  <1>6. ASSUME NEW w \in Workers, WorkerStep(w)
        PROVE  UNCHANGED deleting
    BY <1>6 DEF WorkerStep, ReconcileAgain, JobEnds, Find, Get, ClaimInsights, Refresh,
                AgentSummarises, InsightsRead, InsightsWrite, SetFlow, WorkerDies
  <1>7. CASE \/ UNCHANGED vars
             \/ \E k \in Keys : Send(k)
             \/ \E r \in Runs : JobStops(r) \/ Resume(r)
             \/ DeleteConversation \/ DeleteProject
    <2>1. UNCHANGED deleting
      BY <1>7 DEF vars, Send, JobStops, Resume, DeleteConversation, DeleteProject
    <2> QED BY <1>2, <2>1
  <1> QED BY <1>2, <1>3, <1>4, <1>5, <1>6, <1>7 DEF Next

----------------------------------------------------------------------------
(* The other rows.                                                         *)

LEMMA RowsStep ==
    ASSUME IInv, [Next]_vars
    PROVE  Rows'
  <1> USE DEF LiveStates, ActiveStates, DeletableStates
  <1>1. Rows
    BY DEF IInv
  <1>2. CASE UNCHANGED <<runs, origin, column, links, summaries, prepares, insights>>
    BY <1>1, <1>2 DEF Rows
  <1>3. CASE Refuse \/ AskAgent \/ CancelSetup \/ SummaryRefused \/ SaveSetup
             \/ StartRefused \/ EnqueueRefused \/ Interrupted \/ FinishRead \/ FinishWrite \/ ServerDies
    <2>1. UNCHANGED <<runs, origin, column, links, summaries, prepares, insights>>
      BY <1>3 DEF Refuse, AskAgent, CancelSetup, SummaryRefused, SaveSetup, StartRefused, EnqueueRefused,
                  Interrupted, FinishRead, FinishWrite, ServerDies
    <2> QED BY <1>2, <2>1
  <1>4. CASE \/ \E g \in Goals, complete \in BOOLEAN : RequestMeasurement(g, complete) \/ Answer(g, complete)
             \/ AnswerNothing \/ \E g \in Goals : AnswerScope(g) \/ RejectPage(g)
             \/ \E ok \in BOOLEAN : AgentReplies(ok)
             \/ \E k \in Keys : Send(k)
             \/ UNCHANGED vars
             \/ \E r \in Runs : DeleteRunRead(r)
    <2>1. UNCHANGED <<runs, origin, column, links, summaries, prepares, insights>>
      BY <1>4 DEF RequestMeasurement, Answer, AnswerNothing, AnswerScope, RejectPage, AgentReplies,
                  Send, vars, DeleteRunRead
    <2> QED BY <1>2, <2>1
  <1>5. CASE SummaryBegins
    <2>1. handler.setup \in Keys /\ handler.flow \in Flow
      BY <1>5, RequestKnows DEF SummaryBegins
    <2>2. handler.flow.goal \in Goals
      BY <2>1 DEF Flow
    <2> QED BY <1>1, <1>5, <2>1, <2>2 DEF SummaryBegins, Rows
  <1>6. CASE SummaryReturns
    <2>1. handler.setup \in Keys
      BY <1>6, RequestKnows DEF SummaryReturns
    <2>2. CASE summaries[handler.setup] = None
      BY <1>1, <1>6, <2>2 DEF SummaryReturns, Rows
    <2>3. CASE summaries[handler.setup] # None
      <3>1. summaries' = [summaries EXCEPT ![handler.setup] =
                            [summaries[handler.setup] EXCEPT !.status = "completed"]]
        BY <1>6, <2>3 DEF SummaryReturns
      <3>2. summaries[handler.setup] \in [goal : Goals, status : {"running", "completed"}]
        BY <1>1, <2>1, <2>3 DEF Rows
      <3>3. [summaries[handler.setup] EXCEPT !.status = "completed"]
              \in [goal : Goals, status : {"running", "completed"}]
        BY <3>2
      <3>4. summaries' \in [Keys -> [goal : Goals, status : {"running", "completed"}] \cup {None}]
        BY <1>1, <2>1, <3>1, <3>3 DEF Rows
      <3> QED BY <1>1, <1>6, <3>4 DEF SummaryReturns, Rows
    <2> QED BY <2>2, <2>3
  <1>7. CASE Enqueue
    <2>1. handler.setup \in Keys /\ handler.run \in Runs
      BY <1>7, RequestKnows DEF Enqueue
    <2> QED BY <1>1, <1>7, <2>1 DEF Enqueue, Rows
  <1>8. CASE BindStarted
    <2>1. handler.run \in Runs
      BY <1>8, RequestKnows DEF BindStarted
    <2> QED BY <1>1, <1>8, <2>1 DEF BindStarted, Rows
  <1>9. ASSUME NEW r \in Runs, Confirm(r)
        PROVE  Rows'
    <2>1. handler.copy.active \in Keys
      BY <1>9, RequestKnows, CopyFields DEF Confirm, PendingSetup
    <2> QED BY <1>1, <1>9, <2>1 DEF Confirm, Rows
  <1>10. ASSUME NEW r \in Runs, NEW S \in SUBSET Runs, BindRuns(r, S)
         PROVE  Rows'
    BY <1>1, <1>10 DEF BindRuns, Rows
  <1>11. ASSUME NEW w \in Workers, WorkerStep(w)
         PROVE  Rows'
    <2>1. ASSUME NEW r \in Runs, NEW ok \in BOOLEAN, JobEnds(w, r, ok)
          PROVE  Rows'
      BY <1>1, <2>1 DEF JobEnds, Rows
    <2>2. ASSUME NEW ok \in BOOLEAN, AgentSummarises(w, ok)
          PROVE  Rows'
      <3>1. wk[w].run \in Runs
        BY <2>2, WorkerKnows DEF AgentSummarises
      <3> QED BY <1>1, <2>2, <3>1 DEF AgentSummarises, Rows
    <2>3. CASE \/ \E r \in Runs : ReconcileAgain(w, r)
               \/ Find(w) \/ Get(w) \/ ClaimInsights(w) \/ Refresh(w)
               \/ InsightsRead(w) \/ InsightsWrite(w) \/ SetFlow(w) \/ WorkerDies(w)
      <3>1. UNCHANGED <<runs, origin, column, links, summaries, prepares, insights>>
        BY <2>3 DEF ReconcileAgain, Find, Get, ClaimInsights, Refresh, InsightsRead, InsightsWrite,
                    SetFlow, WorkerDies
      <3> QED BY <1>2, <3>1
    <2> QED BY <1>11, <2>1, <2>2, <2>3 DEF WorkerStep
  <1>12. ASSUME NEW r \in Runs, JobStops(r) \/ Resume(r)
         PROVE  Rows'
    BY <1>1, <1>12 DEF JobStops, Resume, Rows
  <1>13. CASE DeleteRunWrite
    <2>1. CASE UNCHANGED <<column, links, runs, prepares>>
      BY <1>2, <1>13, <2>1 DEF DeleteRunWrite
    <2>2. CASE ~UNCHANGED <<column, links, runs, prepares>>
      <3> DEFINE mentioned == deleting.copy # None /\ Mentions(deleting.copy, deleting.run)
                 rest == IF mentioned THEN WithoutRun(deleting.copy, deleting.run) ELSE conv
      <3>1. /\ deleting.run \in Runs /\ (deleting.copy # None => deleting.copy \in Copy)
        BY <1>13 DEF DeleteRunWrite, IInv, DeletionIsProper
      <3>2. /\ column' = IF mentioned THEN WithoutRun(deleting.copy, deleting.run).run ELSE column
            /\ links' = links \ {deleting.run}
            /\ runs' = [runs EXCEPT ![deleting.run] = "deleted"]
            /\ prepares' = [k \in Keys |-> IF prepares[k] = deleting.run THEN None ELSE prepares[k]]
            /\ UNCHANGED <<origin, summaries, insights>>
        BY <1>13, <2>2 DEF DeleteRunWrite
      <3>3. column' \in Runs \cup {None}
        BY <1>1, <3>1, <3>2, TakeOutRun DEF Rows
      <3> QED BY <1>1, <3>1, <3>2, <3>3 DEF Rows
    <2> QED BY <2>1, <2>2
  <1>14. CASE DeleteConversation \/ DeleteProject
    BY <1>1, <1>14 DEF DeleteConversation, DeleteProject, Rows
  <1> QED BY <1>3, <1>4, <1>5, <1>6, <1>7, <1>8, <1>9, <1>10, <1>11, <1>12, <1>13, <1>14
          DEF Next, HandlerStep

\* A run that was started keeps the key of its setup, which no other run may take meanwhile.
LEMMA PreparationsStep ==
    ASSUME IInv, [Next]_vars
    PROVE  PreparationsAreHeld'
  <1> USE DEF LiveStates, ActiveStates, DeletableStates
  <1>1. Rows /\ PreparationsAreHeld
    BY DEF IInv
  <1>2. CASE UNCHANGED <<runs, origin, prepares>>
    BY <1>1, <1>2 DEF PreparationsAreHeld
  <1>3. CASE Refuse \/ AskAgent \/ CancelSetup \/ SummaryBegins \/ SummaryReturns \/ SummaryRefused
             \/ SaveSetup \/ StartRefused \/ EnqueueRefused \/ BindStarted
             \/ Interrupted \/ FinishRead \/ FinishWrite \/ ServerDies
    <2>1. UNCHANGED <<runs, origin, prepares>>
      BY <1>3 DEF Refuse, AskAgent, CancelSetup, SummaryBegins, SummaryReturns, SummaryRefused,
                  SaveSetup, StartRefused, EnqueueRefused, BindStarted, Interrupted, FinishRead,
                  FinishWrite, ServerDies
    <2> QED BY <1>2, <2>1
  <1>4. CASE \/ \E g \in Goals, complete \in BOOLEAN : RequestMeasurement(g, complete) \/ Answer(g, complete)
             \/ AnswerNothing \/ \E g \in Goals : AnswerScope(g) \/ RejectPage(g)
             \/ \E ok \in BOOLEAN : AgentReplies(ok)
             \/ \E r \in Runs, S \in SUBSET Runs : BindRuns(r, S)
             \/ \E k \in Keys : Send(k)
             \/ UNCHANGED vars
             \/ \E r \in Runs : DeleteRunRead(r)
             \/ DeleteConversation
    <2>1. UNCHANGED <<runs, origin, prepares>>
      BY <1>4 DEF RequestMeasurement, Answer, AnswerNothing, AnswerScope, RejectPage, AgentReplies,
                  BindRuns, Send, vars, DeleteRunRead, DeleteConversation
    <2> QED BY <1>2, <2>1
  <1>5. CASE Enqueue
    <2>1. /\ handler.setup \in Keys /\ handler.run \in Runs /\ origin[handler.run] = handler.setup
          /\ prepares[handler.setup] = None
          /\ runs' = [runs EXCEPT ![handler.run] = "preparing"]
          /\ prepares' = [prepares EXCEPT ![handler.setup] = handler.run] /\ UNCHANGED origin
      BY <1>5, RequestKnows DEF Enqueue, KeyIsFree
    <2> DEFINE k == handler.setup
               r == handler.run
    <2> HIDE DEF k, r
    <2>2. ASSUME NEW q \in Runs, q # r, runs[q] \in ActiveStates \cup {"review", "ready"}, origin[q] # None
          PROVE  prepares'[origin[q]] = q
      <3>1. prepares[origin[q]] = q
        BY <1>1, <2>2 DEF PreparationsAreHeld
      <3>2. origin[q] # k /\ origin[q] \in Keys
        BY <1>1, <2>1, <2>2, <3>1, NoneAssumption DEF Rows, k
      <3> QED BY <1>1, <2>1, <3>1, <3>2 DEF Rows, k
    <2>3. prepares'[k] = r /\ origin[r] = k
      BY <1>1, <2>1 DEF Rows, k, r
    <2>4. \A q \in Runs : q # r => runs'[q] = runs[q]
      BY <1>1, <2>1 DEF Rows, r
    <2> QED BY <2>1, <2>2, <2>3, <2>4 DEF PreparationsAreHeld
  <1>6. ASSUME NEW r \in Runs, Confirm(r)
        PROVE  PreparationsAreHeld'
    BY <1>1, <1>6 DEF Confirm, Rows, PreparationsAreHeld
  <1>7. ASSUME NEW w \in Workers, WorkerStep(w)
        PROVE  PreparationsAreHeld'
    <2>1. ASSUME NEW r \in Runs, NEW ok \in BOOLEAN, JobEnds(w, r, ok)
          PROVE  PreparationsAreHeld'
      BY <1>1, <2>1 DEF JobEnds, Rows, PreparationsAreHeld
    <2>2. CASE \/ \E r \in Runs : ReconcileAgain(w, r)
               \/ Find(w) \/ Get(w) \/ ClaimInsights(w) \/ Refresh(w)
               \/ \E ok \in BOOLEAN : AgentSummarises(w, ok)
               \/ InsightsRead(w) \/ InsightsWrite(w) \/ SetFlow(w) \/ WorkerDies(w)
      <3>1. UNCHANGED <<runs, origin, prepares>>
        BY <2>2 DEF ReconcileAgain, Find, Get, ClaimInsights, Refresh, AgentSummarises, InsightsRead,
                    InsightsWrite, SetFlow, WorkerDies
      <3> QED BY <1>2, <3>1
    <2> QED BY <1>7, <2>1, <2>2 DEF WorkerStep
  <1>8. ASSUME NEW r \in Runs, JobStops(r) \/ Resume(r)
        PROVE  PreparationsAreHeld'
    BY <1>1, <1>8 DEF JobStops, Resume, Rows, PreparationsAreHeld
  <1>9. CASE DeleteRunWrite
    <2>1. CASE UNCHANGED <<runs, prepares>>
      BY <1>2, <1>9, <2>1 DEF DeleteRunWrite
    <2>2. CASE ~UNCHANGED <<runs, prepares>>
      <3> DEFINE r == deleting.run
      <3>1. /\ r \in Runs /\ runs' = [runs EXCEPT ![r] = "deleted"] /\ UNCHANGED origin
            /\ prepares' = [k \in Keys |-> IF prepares[k] = r THEN None ELSE prepares[k]]
        BY <1>9, <2>2 DEF DeleteRunWrite, IInv, DeletionIsProper
      <3> HIDE DEF r
      <3>2. ASSUME NEW q \in Runs, q # r, runs[q] \in ActiveStates \cup {"review", "ready"}, origin[q] # None
            PROVE  prepares'[origin[q]] = q
        BY <1>1, <3>1, <3>2 DEF PreparationsAreHeld, Rows
      <3>3. runs'[r] = "deleted" /\ \A q \in Runs : q # r => runs'[q] = runs[q]
        BY <1>1, <3>1 DEF Rows
      <3> QED BY <3>1, <3>2, <3>3 DEF PreparationsAreHeld
    <2> QED BY <2>1, <2>2
  <1>10. CASE DeleteProject
    BY <1>1, <1>10 DEF DeleteProject, Rows, PreparationsAreHeld
  <1> QED BY <1>3, <1>4, <1>5, <1>6, <1>7, <1>8, <1>9, <1>10 DEF Next, HandlerStep

----------------------------------------------------------------------------
(* The insights.                                                           *)

\* No claim is made or used in this step.
LEMMA ClaimsStay ==
    ASSUME IInv, Moves(conv, conv'), UNCHANGED insights,
           \A x \in Workers : wk'[x].pc = "respond" => wk'[x] = wk[x]
    PROVE  InsightsAreClaimed'
  <1>1. /\ \A r \in Runs : insights[r] <= 1 /\ (insights[r] = 1 => Asked(r, conv))
        /\ \A w \in Workers : wk[w].pc = "respond" =>
              /\ insights[wk[w].run] = 0 /\ Asked(wk[w].run, conv)
              /\ \A x \in Workers : wk[x].pc = "respond" /\ wk[x].run = wk[w].run => x = w
    BY DEF IInv, InsightsAreClaimed
  <1>2. \A r : Asked(r, conv) => Asked(r, conv')
    BY StaysAsked DEF IInv, ConversationIsProper
  <1> QED BY <1>1, <1>2 DEF InsightsAreClaimed

\* The turn of a run is there once it has been claimed.
LEMMA ClaimIsAsked ==
    ASSUME NEW c \in Copy, NEW r \in Runs
    PROVE  Asked(r, WithTurn(c, r))
  <1> DEFINE turn == [key |-> r, at |-> c.rev, status |-> "running"]
             turns == Append(c.turns, turn)
  <1>1. c.turns \in Seq(Turn) /\ turn \in Turn
    BY CopyFields DEF Turn
  <1>2. WithTurn(c, r).turns = turns
    BY AddTurn
  <1>3. Len(c.turns) + 1 \in DOMAIN turns /\ turns[Len(c.turns) + 1] = turn
    BY <1>1
  <1>4. turn.key = r
    OBVIOUS
  <1> HIDE DEF turns, turn
  <1> QED BY <1>2, <1>3, <1>4 DEF Asked, TurnsOf

LEMMA InsightsStep ==
    ASSUME IInv, [Next]_vars
    PROVE  InsightsAreClaimed'
  <1>1. /\ Moves(conv, conv') /\ (conv # None => conv \in Copy)
        /\ wk \in [Workers -> {IdleWorker} \cup Works]
        /\ insights \in [Runs -> Nat] /\ InsightsAreClaimed
    BY ConversationMoves DEF IInv, ConversationIsProper, WorkersAreProper, Rows
  <1>2. CASE UNCHANGED <<wk, insights>>
    BY <1>1, <1>2, ClaimsStay
  <1>3. CASE HandlerStep
    <2>1. UNCHANGED <<wk, insights>>
      BY <1>3 DEF HandlerStep, Refuse, AskAgent, CancelSetup, SummaryBegins, SummaryReturns,
                  SummaryRefused, SaveSetup, StartRefused, Enqueue, EnqueueRefused, BindStarted,
                  Interrupted, FinishRead, FinishWrite, ServerDies, Confirm, BindRuns,
                  RequestMeasurement, Answer, AnswerNothing, AnswerScope, RejectPage, AgentReplies
    <2> QED BY <1>2, <2>1
  <1>4. CASE \/ UNCHANGED vars
             \/ \E k \in Keys : Send(k)
             \/ \E r \in Runs : JobStops(r) \/ Resume(r) \/ DeleteRunRead(r)
             \/ DeleteRunWrite \/ DeleteConversation \/ DeleteProject
    <2>1. UNCHANGED <<wk, insights>>
      BY <1>4 DEF vars, Send, JobStops, Resume, DeleteRunRead, DeleteRunWrite, DeleteConversation,
                  DeleteProject
    <2> QED BY <1>2, <2>1
  <1>5. ASSUME NEW w \in Workers, WorkerStep(w)
        PROVE  InsightsAreClaimed'
    <2>1. PICK y \in {IdleWorker} \cup Works : wk' = [wk EXCEPT ![w] = y]
      BY <1>5, WorkerProceeds
    <2>2. wk'[w] = y /\ \A x \in Workers : x # w => wk'[x] = wk[x]
      BY <1>1, <2>1
    <2>3. CASE ClaimInsights(w)
      <3>1. wk[w] \in Works /\ wk[w].run \in Runs /\ UNCHANGED insights
        BY <2>3, WorkerKnows DEF ClaimInsights
      <3>2. CASE y.pc # "respond"
        BY <1>1, <2>2, <3>1, <3>2, ClaimsStay
      <3>3. CASE y.pc = "respond"
        <4>1. /\ conv # None /\ TurnsOf(conv, wk[w].run) = {}
              /\ conv' = WithTurn(conv, wk[w].run)
              /\ wk' = [wk EXCEPT ![w] = [wk[w] EXCEPT !.pc = "respond"]]
          <5> DEFINE claims == /\ TurnsOf(conv, wk[w].run) = {} /\ Fresh(wk[w].copy)
                               /\ ~Running(conv)
          <5>1. wk' # [wk EXCEPT ![w] = IdleWorker]
            BY <1>1, <2>2, <3>3 DEF IdleWorker
          <5>2. /\ conv # None
                /\ conv' = IF claims THEN WithTurn(conv, wk[w].run) ELSE conv
                /\ wk' = [wk EXCEPT ![w] = [wk[w] EXCEPT !.pc = IF claims THEN "respond" ELSE "refresh"]]
            BY <2>3, <5>1 DEF ClaimInsights
          <5>3. CASE ~claims
            <6>1. wk' = [wk EXCEPT ![w] = [wk[w] EXCEPT !.pc = "refresh"]]
              BY <5>2, <5>3
            <6>2. wk'[w].pc = "refresh"
              BY <1>1, <3>1, <6>1 DEF Works
            <6> QED BY <2>2, <3>3, <6>2
          <5>4. CASE claims
            BY <5>2, <5>4
          <5> QED BY <5>3, <5>4
        <4> DEFINE r == wk[w].run
        <4>2. wk'[w].pc = "respond" /\ wk'[w].run = r
          BY <1>1, <3>1, <4>1 DEF Works
        <4> HIDE DEF r
        <4>3. ~Asked(r, conv) /\ Asked(r, conv')
          BY <1>1, <3>1, <4>1, ClaimIsAsked DEF Asked, r
        <4>4. /\ insights[r] = 0
              /\ \A x \in Workers : ~(wk[x].pc = "respond" /\ wk[x].run = r)
          BY <1>1, <3>1, <4>3 DEF InsightsAreClaimed, r
        <4>5. \A q : Asked(q, conv) => Asked(q, conv')
          BY <1>1, StaysAsked
        <4>6. \A q \in Runs : insights[q] <= 1 /\ (insights[q] = 1 => Asked(q, conv'))
          BY <1>1, <4>5 DEF InsightsAreClaimed
        <4>7. \A x \in Workers : x # w /\ wk[x].pc = "respond" =>
                /\ insights[wk[x].run] = 0 /\ Asked(wk[x].run, conv') /\ wk[x].run # r
                /\ \A z \in Workers : wk[z].pc = "respond" /\ wk[z].run = wk[x].run => z = x
          BY <1>1, <4>4, <4>5 DEF InsightsAreClaimed
        <4> QED BY <2>2, <3>1, <4>2, <4>3, <4>4, <4>6, <4>7 DEF InsightsAreClaimed
      <3> QED BY <3>2, <3>3
    <2>4. ASSUME NEW ok \in BOOLEAN, AgentSummarises(w, ok)
          PROVE  InsightsAreClaimed'
      <3> DEFINE r == wk[w].run
      <3>1. /\ wk[w] \in Works /\ r \in Runs /\ wk[w].pc = "respond"
            /\ insights' = [insights EXCEPT ![r] = @ + 1] /\ UNCHANGED conv
            /\ wk'[w].pc = "finish"
        BY <1>1, <2>4, WorkerKnows DEF AgentSummarises, Works
      <3>2. /\ insights[r] = 0 /\ Asked(r, conv)
            /\ \A x \in Workers : wk[x].pc = "respond" /\ wk[x].run = r => x = w
        BY <1>1, <3>1 DEF InsightsAreClaimed
      <3> HIDE DEF r
      <3>3. insights'[r] = 1 /\ \A q \in Runs : q # r => insights'[q] = insights[q]
        BY <1>1, <3>1, <3>2
      <3>4. \A x \in Workers : x # w /\ wk[x].pc = "respond" => wk[x].run # r /\ wk[x].run \in Runs
        BY <3>2, WorkerKnows
      <3> QED BY <1>1, <2>2, <3>1, <3>2, <3>3, <3>4 DEF InsightsAreClaimed
    <2>5. CASE \/ \E r \in Runs : ReconcileAgain(w, r) \/ \E ok \in BOOLEAN : JobEnds(w, r, ok)
               \/ Find(w) \/ Get(w) \/ Refresh(w)
               \/ InsightsRead(w) \/ InsightsWrite(w) \/ SetFlow(w) \/ WorkerDies(w)
      <3>1. UNCHANGED insights
        BY <2>5 DEF ReconcileAgain, JobEnds, Find, Get, Refresh, InsightsRead, InsightsWrite, SetFlow,
                    WorkerDies
      <3>2. ~ClaimInsights(w) \/ wk'[w].pc # "respond"
        <4>1. CASE WorkerDies(w)
          BY <1>1, <4>1 DEF WorkerDies, IdleWorker
        <4>2. CASE \E r \in Runs : ReconcileAgain(w, r) \/ \E ok \in BOOLEAN : JobEnds(w, r, ok)
          BY <4>2 DEF ReconcileAgain, JobEnds, ClaimInsights
        <4>3. CASE Find(w) \/ Get(w) \/ Refresh(w) \/ InsightsRead(w) \/ InsightsWrite(w) \/ SetFlow(w)
          BY <4>3 DEF Find, Get, Refresh, InsightsRead, InsightsWrite, SetFlow, ClaimInsights
        <4> QED BY <2>5, <4>1, <4>2, <4>3
      <3>3. wk'[w].pc # "respond"
        BY <1>5, <3>2, WorkerProceeds
      <3> QED BY <1>1, <2>2, <3>1, <3>3, ClaimsStay
    <2> QED BY <1>5, <2>3, <2>4, <2>5 DEF WorkerStep
  <1> QED BY <1>3, <1>4, <1>5 DEF Next

----------------------------------------------------------------------------
(* Theorems.                                                               *)

\* Whatever a request, a worker or a deletion has read of the conversation is
\* proper and stays behind it, in every reachable state: the inductive
\* invariant of this module (project_chat.py, persistence.py).
THEOREM ChatInvariant == Spec => []IInv
  <1>1. Init => IInv
    BY InitInvariant
  <1>2. IInv /\ [Next]_vars => IInv'
    <2> SUFFICES ASSUME IInv, [Next]_vars PROVE IInv'
      OBVIOUS
    <2>1. Rows' /\ WorkersAreProper' /\ DeletionIsProper' /\ PreparationsAreHeld' /\ InsightsAreClaimed'
      BY RowsStep, WorkersStep, DeletionStep, PreparationsStep, InsightsStep
    <2>2. ProperRequest(handler, conv, origin)'
      BY RequestStep
    <2>3. ConversationIsProper'
      BY ConversationMoves DEF ConversationIsProper, Moves
    <2> QED BY <2>1, <2>2, <2>3 DEF IInv
  <1> QED BY <1>1, <1>2, PTL DEF Spec

\* The rows of runs, links, summaries and preparations, and the payload of the
\* conversation, keep the shape that its readers rely on.
THEOREM ChatTypes == Spec => []TypeOK
  <1>1. IInv => TypeOK
    BY CopyFields DEF IInv, Rows, ConversationIsProper, TypeOK
  <1> QED BY <1>1, ChatInvariant, PTL

\* However requests, workers and deletions interleave, one turn runs at most,
\* the last one (claim, project_chat.py).
THEOREM OneTurnAtATime == Spec => []OneRunningTurn
  <1>1. IInv => OneRunningTurn
    BY DEF IInv, ConversationIsProper, LastRuns, OneRunningTurn
  <1> QED BY <1>1, ChatInvariant, PTL

\* The compare-and-set of the revision is enough to keep every turn, though
\* two of the writers (update_active, clear_workflow) do not move it and every
\* writer writes the whole payload back.
THEOREM NoTurnIsLost == Spec => TurnsAreKept
  <1>1. IInv /\ [Next]_vars =>
          [conv # None /\ conv' # None =>
             /\ Len(conv'.turns) >= Len(conv.turns)
             /\ \A i \in DOMAIN conv.turns :
                  /\ conv'.turns[i].key = conv.turns[i].key
                  /\ conv.turns[i].status # "running" => conv'.turns[i] = conv.turns[i]]_vars
    BY ConversationMoves DEF Moves, Follows
  <1> QED BY <1>1, ChatInvariant, PTL DEF Spec, TurnsAreKept

\* The agent is paid once for the insights of a run, however many workers
\* reconcile its evaluation and wherever they stop (reconcile_job,
\* project_chat_workflow.py).
THEOREM InsightsArePaidOnce == Spec => []InsightsOnce
  <1>1. IInv => InsightsOnce
    BY DEF IInv, InsightsAreClaimed, InsightsOnce
  <1> QED BY <1>1, ChatInvariant, PTL

\* A setup asks to be confirmed, and starts a run, with a summary of the url,
\* goal, audience and outcome it has; only after a refused page or start may
\* the summary be of another scope (_apply_pending_answer, _next_question, and
\* the refusals of handle).
THEOREM OnlyTheScopeOutdates == Spec => []SummaryOutdatedInScopeOnly
  <1>1. IInv => SummaryOutdatedInScopeOnly
    <2> SUFFICES ASSUME IInv, conv # None, NEW k \in Keys, conv.flows[k] # None
                 PROVE  LET f == conv.flows[k]
                        IN  /\ f.status \in {"awaiting-confirmation", "preparing"} => f.summary # None
                            /\ f.summary # None => f.summary.topic = f.goal.topic
                            /\ f.status \in PendingStatuses /\ ~f.error => f.summary \in {None, f.goal}
      BY DEF SummaryOutdatedInScopeOnly
    <2>1. conv.flows \in [Keys -> CurrentFlow \cup {None}]
      BY CopyFields DEF IInv, ConversationIsProper
    <2>2. conv.flows[k] \in CurrentFlow
      BY <2>1
    <2> QED BY <2>2 DEF CurrentFlow
  <1> QED BY <1>1, ChatInvariant, PTL

\* A setup holds one started run at a time: confirmed twice, or again after a
\* crash, it pays for no second preparation (enqueue_job, its idempotency key).
THEOREM SetupsPrepareOnce == Spec => []OnePreparationPerSetup
  <1>1. IInv => OnePreparationPerSetup
    BY DEF IInv, PreparationsAreHeld, OnePreparationPerSetup
  <1> QED BY <1>1, ChatInvariant, PTL
=============================================================================
