------------------------------- MODULE LocalStore -------------------------------
(***************************************************************************)
(* The local store with both its users.  The live analysis and the         *)
(* conversations share the table of grants, which is written when the      *)
(* server starts and no request of either is being served.                 *)
(***************************************************************************)
EXTENDS LiveAnalysis, EvidenceChat

\* main applies the grant file before it makes either of the two.
StartServer(g, a) == Restart(g, a) /\ RestartChat

LocalNext ==
    \/ LiveNext /\ UNCHANGED chat
    \/ ChatNext /\ UNCHANGED live
    \/ \E g \in Grants, a \in Authorities : StartServer(g, a)

LocalSpec ==
    /\ grants = <<>> /\ LiveInit /\ ChatInit
    /\ [][LocalNext]_<<grants, live, chat>>

\* The type invariant of both users.
TypeOK == LiveTypeOK /\ ChatTypeOK

\* What either user spends was granted: preparations take the slots of applied
\* grants and are not repeated under another slot, and an enforced chat budget
\* is kept by all conversations together.
SpendIsGranted == SlotsAreGranted /\ RequestsArePaid
=============================================================================
