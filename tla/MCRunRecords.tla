---------------------------- MODULE MCRunRecords ----------------------------
(***************************************************************************)
(* Instances of RunRecords for TLC.                                        *)
(***************************************************************************)
EXTENDS RunRecords, TLC

CONSTANTS r1, r2, r3, r4, c1, c2, k1, j1, j2, j3, x1, b1, i1, i2, a1     \* model values

\* r1 is exported, revised and recovered, r2 is evaluated, r3 and r4 are created.
MCMaxRev == [r \in Runs |-> CASE r = r1 -> 9 [] r = r2 -> 7 [] OTHER -> 3]

NothingStored ==
    /\ artifacts = [f \in FileIds |-> None]
    /\ files = {}
    /\ exports = [k \in ExportKeys |-> None]
    /\ answers = [k \in ExportKeys |-> {}]
    /\ req = [c \in Clients |-> Idle]

Deleted == [NoRun EXCEPT !.state = "deleted"]
Prepared == [NewRun(b1, k1) EXCEPT !.rev = 3, !.state = "awaiting", !.inputs = i1]

PrepareJob(r) == [run |-> r, type |-> "prepare", rev |-> 1, inputs |-> None, auth |-> None]
EvaluateJob(r) == [run |-> r, type |-> "evaluate", rev |-> 4, inputs |-> i1, auth |-> None]

\* The runs so far were deleted again: others are created.
Creation ==
    /\ NothingStored
    /\ nextFile = 1
    /\ runs = [r \in Runs |-> IF r \in {r1, r2} THEN Deleted ELSE NoRun]
    /\ creations = [k \in CreateKeys |-> None]
    /\ approvals = {}
    /\ auths = [a \in Auths |-> None]
    /\ jobs = [k \in JobKeys |-> None]

OneRun(r, run) == runs = [x \in Runs |-> IF x = r THEN run ELSE Deleted]

\* A run has been prepared; the artifacts of earlier runs have used up the identifiers.
Admission ==
    /\ NothingStored
    /\ nextFile = MaxFiles + 1
    /\ OneRun(r2, Prepared)
    /\ creations = [k \in CreateKeys |-> [run |-> r2, brief |-> b1]]
    /\ approvals = {}
    /\ auths = [a \in Auths |-> None]
    /\ jobs = [k \in JobKeys |-> IF k = j1 THEN PrepareJob(r2) ELSE None]

\* A run has been evaluated, and its authorizations were never used.
Evaluated ==
    /\ NothingStored
    /\ nextFile = 1
    /\ \E outcome \in ExportableStates :
          OneRun(r1, [Prepared EXCEPT !.rev = 6, !.state = outcome, !.approved = TRUE, !.results = 6])
    /\ creations = [k \in CreateKeys |-> [run |-> r1, brief |-> b1]]
    /\ approvals = {[run |-> r1, rev |-> 3, inputs |-> i1]}
    /\ auths = [a \in Auths |->
                  [run |-> r1, stage |-> "evaluate", rev |-> 4, inputs |-> i1,
                   expired |-> TRUE, usedBy |-> None]]
    /\ jobs = [k \in JobKeys |-> CASE k = j1 -> PrepareJob(r1) [] k = j2 -> EvaluateJob(r1) [] OTHER -> None]

MCInit == Creation \/ Admission \/ Evaluated
MCSpec == MCInit /\ [][Next]_vars

\* Neither requests nor the runs still to be created are told apart.
Symmetry == Permutations(Clients) \cup
    Permutations(Runs \ {r1, r2})
=============================================================================
