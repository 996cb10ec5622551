------------------------ MODULE MCProviderOperations ------------------------
(***************************************************************************)
(* Instances of ProviderOperations for TLC.                                *)
(***************************************************************************)
EXTENDS ProviderOperations, TLC

CONSTANTS e1, p1, s1, a1, b1, w1, w2, w3, o1, o2, x1, x2, q1, q2, m1, m2   \* model values

MCQueries == <<q1>>
MCProfiles == <<m1, m2>>
MCUnsettled == <<<<q1, m1>>>>

\* Jobs of every type.  a1 and b1 are the recovery jobs of the owners o1
\* and o2, made with the same idempotency key.
MCOwnerOf == [j \in Jobs |-> IF j = b1 THEN o2 ELSE o1]
MCTypeOf == [j \in Jobs |-> CASE j = e1 -> "evaluate"
                              [] j = p1 -> "prepare"
                              [] j = s1 -> "agent-stage"
                              [] OTHER -> "recover-evaluators"]
MCIdemOf == [j \in Jobs |-> IF j \in {a1, b1} THEN x1 ELSE x2]

\* w1 and w2 work for o1, w3 for o2.
MCBoundTo == [w \in Workers |-> IF w = w3 THEN o2 ELSE o1]

\* Workers of one owner are interchangeable.
Symmetry == Permutations({w1, w2})

\* Grants 1 and 2 are o1's, grant 3 is o2's.  Grant 2 tops up the
\* evaluator calls of grant 1.
MCGrantOwner == [g \in Grants |-> IF g = 3 THEN o2 ELSE o1]
MCAllowance ==
    [g \in Grants |-> [t \in OpTypes |->
       CASE g = 1 /\ t = "paired-query-plan" -> 2
         [] g = 2 /\ t # "profile-evaluator" -> 0
         [] OTHER -> 1]]

\* The evaluation was started under an authorization for two operations.
MCCeiling == [j \in Jobs |-> IF j = e1 THEN 2 ELSE None]

\* The jobs that are queued; the others were cancelled before.  An evaluation,
\* a recovery and a specialist stage of o1 compete for its last units, and the
\* recoveries of the two owners share a key.
Batches == {{e1, a1}, {e1, s1}, {a1, s1, b1}, {p1, b1}}

MCInit ==
    /\ \E batch \in Batches :
          state = [j \in Jobs |-> IF j \in batch THEN "queued" ELSE "cancelled"]
    /\ thread = [w \in Workers |-> Idle]
    /\ claims = [k \in Keys |-> NoClaim]
    /\ used = [g \in Grants |-> [t \in OpTypes |-> 0]]
    /\ stored = [j \in Jobs |-> <<>>]
    /\ calls = [k \in Keys |-> 0]
    /\ late = [j \in Jobs |-> 0]
    /\ refused = {}

MCSpec == MCInit /\ [][Next]_vars
=============================================================================
