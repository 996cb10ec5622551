------------------------------ MODULE MCLocalStore ------------------------------
(***************************************************************************)
(* The local store for TLC.  Its two users share only the table of grants, *)
(* which is written when no request is being served: each behaviour        *)
(* exercises one of them, and of the live analysis the preparations, the   *)
(* evaluation of a prepared run or the synthetic runs.                     *)
(***************************************************************************)
EXTENDS LocalStore, TLC

CONSTANTS r1, g1, k1, x1, i1     \* model values

VARIABLE user    \* which of them this behaviour exercises

vars == <<grants, user, live, chat>>

MCAuthorities == {[runs |-> 1, requests |-> 1]}
Symmetry == Permutations(Threads) \cup Permutations(Clients) \cup Permutations(Chats) \cup Permutations(TurnKeys)

\* A run was prepared under the policy p, which all requests before used up.
Prepared(p) ==
    /\ grants = IF p = Live THEN <<>> ELSE <<[id |-> g1, payload |-> CHOOSE a \in Authorities : TRUE]>>
    /\ runs = [r \in Runs |-> IF r = r1 THEN NewRun(p, i1) ELSE NoRun]
    /\ prepared = [q \in Policies |-> IF q = p /\ p \notin PagePolicies
                     THEN [key |-> k1, status |-> "completed", run |-> r1] ELSE None]
    /\ claims = [q \in Policies |-> [o \in CallOps \cup {Evaluate} |->
                   IF q = p /\ p \notin PagePolicies /\ o \in {Browse, Propose} THEN "completed" ELSE None]]
    /\ slots = [k \in Keys |-> IF k = k1 /\ p[1] = g1 THEN p ELSE None]
    /\ pages = [x \in Pages |-> IF p = <<"page", x>>
                  THEN [status |-> "completed", evaluation |-> "prepared", run |-> r1] ELSE NoPage]
    /\ th = [t \in Threads |-> Idle]
    /\ sent = [q \in Policies |-> [o \in CallOps |-> IF q = p /\ o \in {Browse, Propose} THEN 1 ELSE 0]]
    /\ answers = [k \in Keys |-> {}]

MCInit ==
    /\ ChatInit
    /\ \/ user \in {"preparation", "fixture", "chat"} /\ grants = <<>> /\ LiveInit
       \/ user = "evaluation" /\ \E p \in {Live, <<g1, 1>>, <<"page", x1>>} : Prepared(p)

MCNext ==
    /\ \/ /\ user = "preparation"
          /\ \E t \in Threads : AskPreparation(t)
          /\ UNCHANGED <<grants, chat>>
       \/ /\ user \in {"evaluation", "fixture"}
          /\ \E t \in Threads : AskStart(t)
          /\ UNCHANGED <<grants, chat>>
       \/ user = "evaluation" /\ OwnerStep(r1) /\ UNCHANGED <<grants, chat>>
       \/ user = "fixture" /\ (\E r \in Runs : OwnerStep(r)) /\ UNCHANGED <<grants, chat>>
       \/ (\E t \in Threads : Work(t)) /\ UNCHANGED <<grants, chat>>
       \/ user = "chat" /\ ChatNext /\ UNCHANGED live
       \/ /\ user \in {"preparation", "chat"}
          /\ \E g \in Grants, a \in Authorities : StartServer(g, a)
    /\ UNCHANGED user

MCSpec == MCInit /\ [][MCNext]_vars
=============================================================================
