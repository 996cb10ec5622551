--------------------------- MODULE MCProjectChat ---------------------------
(***************************************************************************)
(* Instances of ProjectChat for TLC.                                       *)
(***************************************************************************)
EXTENDS ProjectChat, TLC

CONSTANTS r1, r2, r3, k1, k2, k3, t1, t2, w1, w2     \* model values

\* The same topic in two scopes, and another topic.
g1 == [topic |-> t1, scope |-> "page"]
MCGoals == {g1, [g1 EXCEPT !.scope = "domain"], [g1 EXCEPT !.topic = t2]}

Conversing(c, flow, answered) ==
    [c EXCEPT !.rev = 2 * Len(answered),
              !.active = k1,
              !.flows[k1] = flow,
              !.turns = [i \in DOMAIN answered |->
                           [key |-> answered[i], at |-> 2 * i - 2, status |-> "completed"]]]

Common ==
    /\ runs = [r \in Runs |-> IF r = r1 THEN "ready" ELSE "unused"]
    /\ column = r1
    /\ links = {r1}
    /\ summaries = [k \in Keys |-> IF k = k1 THEN [goal |-> g1, status |-> "completed"] ELSE None]
    /\ handler = NoRequest
    /\ deleting = NoDeletion
    /\ insights = [r \in Runs |-> 0]

AwaitingFlow == [NewFlow(g1, TRUE) EXCEPT !.status = "awaiting-confirmation", !.summary = g1]

\* A conversation about an old run r1, whose first message, k1, opened a setup
\* that now waits for its confirmation.  One worker runs.
Awaiting ==
    /\ Common
    /\ origin = [r \in Runs |-> None]
    /\ prepares = [k \in Keys |-> None]
    /\ conv = Conversing(NewConversation(r1), AwaitingFlow, <<k1>>)
    /\ wk = [w \in Workers |-> IF w = w1 THEN IdleWorker ELSE [pc |-> "stopped"]]

\* The setup was confirmed by k2 and started r1, which has just been evaluated:
\* every worker may now reconcile it.
Evaluated ==
    /\ Common
    /\ origin = [r \in Runs |-> IF r = r1 THEN k1 ELSE None]
    /\ prepares = [k \in Keys |-> IF k = k1 THEN r1 ELSE None]
    /\ conv = Conversing(NewConversation(r1),
                         [AwaitingFlow EXCEPT !.status = "evaluating", !.run = r1], <<k1, k2>>)
    /\ wk = [w \in Workers |-> IdleWorker]

MCInit == Awaiting \/ Evaluated
MCSpec == MCInit /\ [][Next]_vars

\* Keys and runs that neither initial state mentions are interchangeable.
Symmetry == Permutations(Runs \ {r1}) \cup Permutations(Keys \ {k1, k2})
=============================================================================
