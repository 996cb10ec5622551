------------------------- MODULE GroundedEvaluation -------------------------
(***************************************************************************)
(* One run from its approved queries to its report: the evaluation         *)
(* searches and asks query by query (evaluation_workflow.py), a recovery   *)
(* asks again for the answers that failed, the specialist stage writes a   *)
(* report from the saved measurement (specialist_workflow.py).  Jobs of a  *)
(* run follow one another (WorkflowQueue) and their calls are checkpointed *)
(* (ProviderOperations); here is what they compute.                        *)
(***************************************************************************)
EXTENDS RecommendationReports

CONSTANTS
    Packets,       \* what a search can return: sequences of source records
    Citations,     \* what an answer can cite: sets of positions, known or not
    Drafts,        \* what the baseline model can answer: sequences of drafts
    Proposals,     \* what the planner can answer: sequences of items
    Signals        \* what technical browsing can find: [captured, fields, findings]

\* A packet lists its sources; an answer cites finitely many positions.
ASSUME EvaluationAssumption ==
    /\ Packets \subseteq Seq(SourceRecords)
    /\ \A c \in Citations : c \subseteq Nat /\ IsFiniteSet(c)
    /\ None \notin {"evaluate", "recover"}

\* An item names a query and has its labels and an identifier of its own kind,
\* which no rule item has (the patterns of rec_id); a check is found once, and
\* none without a capture (run_technical_checks).
ASSUME ProposalAssumption ==
    /\ \A proposal \in Proposals : proposal \in Seq(ToSet(proposal))
    /\ \A proposal \in Proposals : \A item \in ToSet(proposal) :
           /\ item.id \in Nat
           /\ item.queries \in Seq(Nat) \ {<<>>}
           /\ item.impact \in {"high", "medium", "low"}
           /\ item.effort \in {"S", "M", "L"}
           /\ item.confidence \in {"medium", "low"}
           /\ \A signals \in Signals : \A f \in signals.findings : item.id # RuleId + f.check
    /\ \A signals \in Signals :
           /\ IsFiniteSet(signals.findings)
           /\ signals.findings # {} => signals.captured
           /\ \A f, g \in signals.findings : f.check \in Nat /\ (f.check = g.check => f = g)

VARIABLES
    job,    \* the job in hand: "evaluate", "recover" or None
    todo,   \* the pairs the job has yet to answer
    work,   \* the measurement the job is building
    run     \* the run as saved: its measurement, state and report

vars == <<job, todo, work, run>>

Init ==
    /\ job = "evaluate"
    /\ todo = Pairs
    /\ work = Unmeasured
    /\ run = [measurement |-> None, state |-> "evaluating", report |-> None]

\* The loops go through the queries by priority and through the profiles.
NextPair(qp) ==
    /\ qp \in todo
    /\ \A x \in todo : qp[1] < x[1] \/ (qp[1] = x[1] /\ qp[2] <= x[2])

\* webiq-search: a failure answers for every profile of the query.
Retrieve(q, packet) ==
    /\ job = "evaluate" /\ NextPair(<<q, 1>>)
    /\ work.retrievals[q] = None
    /\ LET failed == packet.status = "error"
       IN /\ work' = [retrievals |-> [work.retrievals EXCEPT ![q] = packet],
                      results |-> [qp \in Pairs |->
                          IF failed /\ qp[1] = q THEN FailedAnswer ELSE work.results[qp]]]
          /\ todo' = IF failed THEN todo \ PairsOf({q}) ELSE todo
    /\ UNCHANGED <<job, run>>

\* profile-evaluator, given the sources of the packet.
Answer(qp, outcome) ==
    /\ NextPair(qp) /\ Completed(work.retrievals[qp[1]])
    /\ work' = [work EXCEPT !.results[qp] = outcome]
    /\ todo' = todo \ {qp}
    /\ UNCHANGED <<job, run>>

MeasuredState(m) ==
    LET done == {qp \in Pairs : Completed(m.results[qp])}
    IN IF done = Pairs THEN "ready" ELSE IF done # {} THEN "partial" ELSE "failed"

\* Mutant of Save: the report is kept.
SaveKeepingReport ==
    /\ job # None /\ todo = {}
    /\ run' = [measurement |-> work, state |-> MeasuredState(work), report |-> run.report]
    /\ job' = None /\ work' = Unmeasured
    /\ UNCHANGED todo

\* The mutation of the evaluation, and of the recovery: a new measurement
\* leaves no report of the old one.
Save ==
    /\ job # None /\ todo = {}
    /\ run' = [measurement |-> work, state |-> MeasuredState(work), report |-> None]
    /\ job' = None /\ work' = Unmeasured
    /\ UNCHANGED todo

\* enqueue of recover-evaluators and _recover_failed_evaluators up to its loop:
\* it keeps the packets and the completed answers.
Recover ==
    /\ job = None /\ run.state \in {"failed", "partial"}
    /\ \E qp \in Pairs : run.measurement.results[qp].status = "error"
    /\ job' = "recover"
    /\ work' = run.measurement
    /\ todo' = {qp \in Pairs : /\ ~Completed(run.measurement.results[qp])
                               /\ Completed(run.measurement.retrievals[qp[1]])}
    /\ run' = [run EXCEPT !.state = "evaluating"]

\* The stage runs once for a measurement (a regeneration would only compute a
\* report of the same set anew).
Reportable == job = None /\ run.state \in {"ready", "partial"} /\ run.report = None

\* SpecialistStageHandler with the deterministic or baseline recommender.
RecommendBaseline(drafts) ==
    /\ Reportable
    /\ BaselineAccepts(run.measurement, drafts)
    /\ run' = [run EXCEPT !.report = BaselineReport(run.measurement, drafts)]
    /\ UNCHANGED <<job, todo, work>>

\* SpecialistStageHandler with the planner.
RecommendPlan(signals, proposal) ==
    /\ Reportable
    /\ LET context == [measurement |-> run.measurement, captured |-> signals.captured,
                       fields |-> signals.fields, findings |-> signals.findings]
       IN /\ PlanAccepts(context, proposal)
          /\ run' = [run EXCEPT !.report = PlanReport(context, proposal)]
    /\ UNCHANGED <<job, todo, work>>

Outcomes == {FailedAnswer} \cup {[status |-> "completed", citations |-> c] : c \in Citations}
SearchResults ==
    {FailedPacket} \cup {[status |-> "completed", sources |-> s] : s \in Packets}

Next ==
    \/ \E q \in Queries, packet \in SearchResults : Retrieve(q, packet)
    \/ \E qp \in Pairs, outcome \in Outcomes : Answer(qp, outcome)
    \/ Save
    \/ Recover
    \/ \E drafts \in Drafts : RecommendBaseline(drafts)
    \/ \E signals \in Signals, proposal \in Proposals : RecommendPlan(signals, proposal)

Spec == Init /\ [][Next]_vars

-----------------------------------------------------------------------------
(* The computations agree with one another *)

Fields == {"numerator", "denominator", "intended", "errors", "missing"}
Adds(parts, whole) ==
    \A f \in Fields : SumFunction([i \in DOMAIN parts |-> parts[i][f]]) = whole[f]

\* Every breakdown of the score adds up to it.
PartsAddUp(s) ==
    /\ Adds(s.byProfile, s.overall) /\ Adds(s.byQuery, s.overall) /\ Adds(s.byType, s.overall)
    /\ s.overall.denominator + s.overall.errors + s.overall.missing = s.overall.intended
    /\ s.overall.numerator = Cardinality({qp \in Pairs : s.byAnswer[qp].cited = TRUE})

\* Profiles are compared on the same completed queries.
ProfilesCompare(m, s, a) ==
    \A p \in Profiles :
        /\ s.comparable[p].denominator = Cardinality(CommonQueries(m))
        /\ s.comparable[p].errors = 0
        /\ a.comparable[p].coverage = Rate(s.comparable[p].denominator, s.comparable[p].intended)

\* The gap a plan is told is the one the scores show.
GapsShow(m, s) ==
    \A q \in Queries :
        LET score == s.byQuery[q]
        IN /\ GapClass(m, q) = "cited" <=> score.numerator > 0 /\ score.numerator = score.denominator
           /\ GapClass(m, q) = "partially-cited" <=>
                  score.numerator > 0 /\ score.numerator < score.denominator
           /\ score.numerator > 0 => TargetPosition(m, q) # None

\* The page is cited by the same answers, and as many citations are without a
\* source, whichever page shows it; a competitor is cited if some answer does.
ViewsAgree(m, s, a) ==
    /\ \A qp \in Pairs : s.byAnswer[qp].cited = a.answers[qp].cited
    /\ a.answer.unsupported = ContentStrategy(m).unsupported
    /\ a.answer.unsupported = SumFunction([qp \in Pairs |-> Cardinality(s.byAnswer[qp].unsupported)])
    /\ ContentStrategy(m).appearances <= ContentStrategy(m).opportunities
    /\ (CompetitorSummary(m).status = "cited") = \E qp \in Pairs : a.answers[qp].competitorCited > 0
    /\ (CompetitorSummary(m).status = "none-found") =
           \A qp \in Pairs : a.answers[qp].competitorSources = 0
    /\ a.grounding.coverage = Rate(s.retrieval.denominator, NumQueries)
    /\ a.answer.coverage = Rate(s.overall.denominator, s.overall.intended)

\* The score, its breakdowns, the assessment, the competitor summary, the
\* content strategy and the gaps are computed by separate code from one
\* measurement, before and after a recovery, and never contradict one another
\* or the state of the run (measurement_scores, build_evidence_assessment,
\* build_competitor_summary, build_content_strategy, _gap_class).
ScoresAgree ==
    run.measurement # None =>
        LET m == run.measurement
            s == MeasurementScores(m)
            a == EvidenceAssessment(m)
        IN /\ ValidMeasurement(m)
           /\ PartsAddUp(s)
           /\ ProfilesCompare(m, s, a)
           /\ GapsShow(m, s)
           /\ ViewsAgree(m, s, a)
           /\ run.state = "ready" <=> job = None /\ ~s.overall.provisional
           /\ run.state = "failed" => s.overall.denominator = 0

-----------------------------------------------------------------------------
(* The report answers for what it was given *)

\* What a reference needs in the measurement, however the registry was built.
Resolves(report, ref) ==
    LET m == report.measurement
    IN CASE ref[1] = "ans" -> Completed(m.results[<<ref[2], ref[3]>>])
         [] ref[1] = "src" -> Completed(m.retrievals[ref[2]]) /\ ref[3] \in DOMAIN Sources(m, ref[2])
         [] ref[1] = "tech" -> /\ report.captured
                               /\ ref[2] \in report.fields \cup {f.check : f \in report.findings}
         [] OTHER -> ref[1] \in {"page", "sig"}

\* Every task of a baseline report rests on sources, none of them the page,
\* and no two tasks have a priority in common.
BaselineRests(report) ==
    \A i \in DOMAIN report.items :
        LET q == report.items[i].query
        IN /\ report.items[i].sources # {}
           /\ \A n \in report.items[i].sources :
                  /\ Completed(report.measurement.retrievals[q])
                  /\ n \in DOMAIN Sources(report.measurement, q)
                  /\ Sources(report.measurement, q)[n].relation # "exact-page"
           /\ \A j \in DOMAIN report.items :
                  report.items[i].priority = report.items[j].priority => i = j

\* Each proposed item is saved or logged, once for each time it was proposed;
\* each high or medium finding is an item, in the log, or named by a proposal.
NothingIsLost(report) ==
    LET saved(id) == Cardinality({i \in DOMAIN report.items : report.items[i].item.id = id})
        logged(id) == Cardinality({i \in DOMAIN report.log : report.log[i].item = id})
        proposed(id) == Cardinality({i \in DOMAIN report.proposal : report.proposal[i].id = id})
        ids == {report.proposal[i].id : i \in DOMAIN report.proposal}
        named == UNION {report.proposal[i].checks : i \in DOMAIN report.proposal}
    IN /\ \A id \in ids : saved(id) <= 1 /\ saved(id) + logged(id) = proposed(id)
       /\ \A f \in report.findings : f.severity \in {"high", "medium"} =>
              f.check \in named \/ saved(RuleId + f.check) + logged(RuleId + f.check) = 1

\* The items are in the order of their scores, tiers and size included.
RanksAreKept(report) ==
    /\ Len(report.items) <= ReportSize
    /\ Cardinality({i \in DOMAIN report.items : report.items[i].tier = "P1"}) <= TopItems
    /\ \A i, j \in DOMAIN report.items : i < j =>
           /\ report.items[i].item.score >= report.items[j].item.score
           /\ report.items[j].tier = "P1" => report.items[i].tier = "P1"

\* A saved report is about the saved measurement, rests on evidence that is in
\* it, accounts for everything proposed and found, and keeps the order it was
\* ranked in: a recovery takes the report away, a truncation leaves a trace
\* (SpecialistStageHandler, validate_plan, validate_recommendations).
ReportIsAccountable ==
    run.report # None =>
        /\ run.report.measurement = run.measurement
        /\ (run.report.status = "completed") = (run.report.items # <<>>)
        /\ run.report.version = 2 => BaselineRests(run.report)
        /\ run.report.version = 3 =>
              /\ NothingIsLost(run.report)
              /\ RanksAreKept(run.report)
              /\ \A i \in DOMAIN run.report.items :
                     \A ref \in run.report.items[i].item.evidence : Resolves(run.report, ref)

=============================================================================
