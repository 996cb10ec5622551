------------------------------ MODULE BudgetGrants ------------------------------
(***************************************************************************)
(* The table of budget grants of the local store (budget.py).  A grant is  *)
(* applied when the server starts, and raises what the owner's one live    *)
(* policy and one chat policy may spend.                                   *)
(***************************************************************************)
EXTENDS Naturals, Sequences, FiniteSets

CONSTANTS
    Grants,        \* grant identifiers
    Authorities,   \* what a grant file may say: records of runs and requests
    None

ASSUME AuthoritiesAssumption == Authorities \subseteq [runs : Nat, requests : Nat]

VARIABLE grants    \* budget_grants rows, in the order they were inserted

Authorized(g) == \E i \in DOMAIN grants : grants[i].id = g

\* apply_grant: a grant identifier stands for one authorization for ever; the
\* same file is accepted again without effect, another one is a Conflict.
ApplyGrant(g, a) ==
    /\ ~ Authorized(g)
    /\ grants' = Append(grants, [id |-> g, payload |-> a])

\* COALESCE(SUM(chat_requests), 0): what all grants add to the chat policy.
AddedRequests ==
    LET total[i \in 0 .. Len(grants)] ==
            IF i = 0 THEN 0 ELSE total[i - 1] + grants[i].payload.requests
    IN  total[Len(grants)]
=============================================================================
