--------------------------- MODULE EvidenceScores ---------------------------
(***************************************************************************)
(* What a saved measurement says: citation matching and scores             *)
(* (evaluation.py), the evidence assessment and the competitor summary     *)
(* (evidence_assessment.py), the content strategy (recommendations.py).    *)
(* All of it is computed anew from the measurement whenever a page, a file *)
(* or a report needs it, by code that repeats the same counts in its own   *)
(* way; the operators below keep those ways apart.                         *)
(*                                                                         *)
(* A query is named by its priority, a source by its returned position in  *)
(* its packet, so a source is a pair <<query, position>>.  The wording of  *)
(* a source is reduced to what the code reads out of it.                   *)
(***************************************************************************)
EXTENDS Integers, FiniteSets, Sequences, SequencesExt

CONSTANTS
    NumQueries,    \* queries of a plan (5 in the code)
    NumProfiles,   \* evaluator profiles, in the order of the inputs
    Branded,       \* the branded queries
    None

ASSUME EvidenceAssumption ==
    /\ NumQueries \in Nat \ {0}
    /\ NumProfiles \in Nat \ {0}
    /\ Branded \subseteq 1..NumQueries
    /\ None \notin Nat \cup BOOLEAN

Queries == 1..NumQueries
Profiles == 1..NumProfiles
Pairs == Queries \X Profiles

Relations == {"exact-page", "same-domain-other-page", "other-page"}

\* What is read from a source: its relation to the target page, whether its
\* host is a competitor's, whether it matches the brand, whether its excerpt
\* has the wording cue of a content pattern.
SourceRecords ==
    [relation : Relations, competitor : BOOLEAN, brand : {"matched", "ambiguous", "absent"},
     cue : BOOLEAN]

\* A measurement: a packet per query and an outcome per query and profile,
\* None while there is none.
Unmeasured == [retrievals |-> [q \in Queries |-> None], results |-> [qp \in Pairs |-> None]]

FailedPacket == [status |-> "error", sources |-> <<>>]
FailedAnswer == [status |-> "error", citations |-> {}]

Completed(x) == x # None /\ x.status = "completed"
Sources(m, q) == IF m.retrievals[q] = None THEN <<>> ELSE m.retrievals[q].sources

\* MeasurementResults.validate_results: an answer needs a completed packet.
ValidMeasurement(m) ==
    \A qp \in Pairs : Completed(m.results[qp]) => Completed(m.retrievals[qp[1]])

-----------------------------------------------------------------------------
(* evaluation.py *)

\* match_citations: each cited identifier once, with its kind.
Matches(m, qp) ==
    IF ~Completed(m.results[qp]) THEN {}
    ELSE {[id |-> c, kind |-> IF c \in DOMAIN Sources(m, qp[1])
                              THEN Sources(m, qp[1])[c].relation ELSE "unsupported"]
              : c \in m.results[qp].citations}

Cites(m, qp, kinds) == {x.id : x \in {y \in Matches(m, qp) : y.kind \in kinds}}
CitesPage(m, qp) == Cites(m, qp, {"exact-page"}) # {}

\* Mutant of Score: a failed answer counts as an answer without the page.
ScoreWithErrors(m, pairs) ==
    LET outcomes == {qp \in pairs : m.results[qp] # None}
    IN [numerator |-> Cardinality({qp \in outcomes : CitesPage(m, qp)}),
        denominator |-> Cardinality(outcomes),
        intended |-> Cardinality(pairs),
        errors |-> Cardinality({qp \in outcomes : ~Completed(m.results[qp])}),
        missing |-> Cardinality(pairs) - Cardinality(outcomes),
        provisional |-> pairs = {} \/ outcomes # pairs]

\* score_results, over the pairs intended: errors and missing outcomes are not
\* misses, they are outside the denominator.
Score(m, pairs) ==
    LET outcomes == {qp \in pairs : m.results[qp] # None}
        done == {qp \in outcomes : Completed(m.results[qp])}
    IN [numerator |-> Cardinality({qp \in done : CitesPage(m, qp)}),
        denominator |-> Cardinality(done),
        intended |-> Cardinality(pairs),
        errors |-> Cardinality(outcomes) - Cardinality(done),
        missing |-> Cardinality(pairs) - Cardinality(outcomes),
        provisional |-> pairs = {} \/ done # pairs]

\* Mutant of CommonQueries: a query some profile answered.
AnsweredQueries(m) == {q \in Queries : \E p \in Profiles : Completed(m.results[<<q, p>>])}

\* The queries every profile answered: only they compare profiles.
CommonQueries(m) == {q \in Queries : \A p \in Profiles : Completed(m.results[<<q, p>>])}

\* The first position at which a completed packet returned the target page.
TargetPosition(m, q) ==
    LET at == {i \in DOMAIN Sources(m, q) : Sources(m, q)[i].relation = "exact-page"}
    IN IF ~Completed(m.retrievals[q]) \/ at = {} THEN None ELSE Min(at)

Retrieval(m) ==
    LET packets == {q \in Queries : m.retrievals[q] # None}
        done == {q \in packets : Completed(m.retrievals[q])}
    IN [numerator |-> Cardinality({q \in done : TargetPosition(m, q) # None}),
        denominator |-> Cardinality(done),
        errors |-> Cardinality(packets) - Cardinality(done),
        missing |-> NumQueries - Cardinality(packets),
        provisional |-> done # Queries]

\* by_answer: None where no completed answer says whether the page is cited.
AnswerRow(m, qp) ==
    [cited |-> IF Completed(m.results[qp]) THEN CitesPage(m, qp) ELSE None,
     sameDomain |-> Cardinality(Cites(m, qp, {"same-domain-other-page"})),
     otherPage |-> Cardinality(Cites(m, qp, {"other-page"})),
     unsupported |-> Cites(m, qp, {"unsupported"})]

PairsOf(queries) == queries \X Profiles
PairsFor(p) == Queries \X {p}

\* measurement_scores.
MeasurementScores(m) ==
    [overall |-> Score(m, Pairs),
     byProfile |-> [p \in Profiles |-> Score(m, PairsFor(p))],
     byQuery |-> [q \in Queries |-> Score(m, PairsOf({q}))],
     byType |-> [b \in BOOLEAN |-> Score(m, PairsOf({q \in Queries : (q \in Branded) = b}))],
     comparable |-> [p \in Profiles |-> Score(m, CommonQueries(m) \X {p})],
     retrieval |-> Retrieval(m),
     byAnswer |-> [qp \in Pairs |-> AnswerRow(m, qp)]]

-----------------------------------------------------------------------------
(* evidence_assessment.py *)

Positions(m, q, Test(_)) == {i \in DOMAIN Sources(m, q) : Test(Sources(m, q)[i])}
Competing(m, q) == Positions(m, q, LAMBDA s : s.competitor)
BrandMatched(m, q) == Positions(m, q, LAMBDA s : s.brand = "matched")

\* build_competitor_summary, with competitors configured and a measurement;
\* its citation count counts the profiles that cite a competitor.
CompetitorSummary(m) ==
    LET cited == {qp \in Pairs : /\ Completed(m.results[qp])
                                 /\ m.results[qp].citations \cap Competing(m, qp[1]) # {}}
        grounding == {q \in Queries : Competing(m, q) # {}}
    IN [status |-> IF cited # {} THEN "cited"
                   ELSE IF grounding # {} THEN "grounding-found" ELSE "none-found",
        groundingQueries |-> grounding,
        citedProfiles |-> {qp[2] : qp \in cited},
        citations |-> Cardinality({qp[2] : qp \in cited}),
        answers |-> Cardinality({qp \in Pairs : Completed(m.results[qp])})]

\* The packet row of build_evidence_assessment, with a brand configured.
PacketBrand(m, q) ==
    IF ~Completed(m.retrievals[q]) THEN "unknown"
    ELSE IF BrandMatched(m, q) # {} THEN "matched"
    ELSE IF Positions(m, q, LAMBDA s : s.brand = "ambiguous") # {} THEN "ambiguous" ELSE "absent"

\* The answer row: the citations found among the sources and those not, as
\* counts beside the sources of the packet the answer was given.
AnswerTrace(m, qp) ==
    LET valid == Cites(m, qp, Relations)
        returned == DOMAIN Sources(m, qp[1])
    IN [valid |-> valid,
        unsupported |-> Cites(m, qp, {"unsupported"}),
        status |-> IF ~Completed(m.results[qp]) THEN "unknown"
                   ELSE IF returned = {} THEN "not-assessable"
                   ELSE IF valid = returned THEN "all" ELSE IF valid # {} THEN "some" ELSE "none",
        brandSources |-> Cardinality(BrandMatched(m, qp[1])),
        brandCited |-> Cardinality(BrandMatched(m, qp[1]) \cap valid),
        competitorSources |-> Cardinality(Competing(m, qp[1])),
        competitorCited |-> Cardinality(Competing(m, qp[1]) \cap valid),
        cited |-> IF Completed(m.results[qp]) THEN CitesPage(m, qp) ELSE None]

\* _rate: a numerator and what it is a part of.
Rate(numerator, denominator) == [numerator |-> numerator, denominator |-> denominator]

\* _grounding_summary over some queries.
GroundingSummary(m, queries) ==
    LET done == {q \in queries : Completed(m.retrievals[q])}
    IN [coverage |-> Rate(Cardinality(done), Cardinality(queries)),
        brandPresence |-> Rate(Cardinality({q \in done : PacketBrand(m, q) = "matched"}),
                               Cardinality(done)),
        ambiguous |-> Cardinality({q \in done : PacketBrand(m, q) = "ambiguous"}),
        sources |-> SumFunction([q \in done |-> Len(Sources(m, q))])]

\* _answer_summary over some answers: each rate is over the completed ones.
AnswerSummary(m, pairs) ==
    LET done == {qp \in pairs : Completed(m.results[qp])}
        supplied == {qp \in done : AnswerTrace(m, qp).brandSources > 0}
    IN [coverage |-> Rate(Cardinality(done), Cardinality(pairs)),
        sourceCitations |-> Rate(SumFunction([qp \in done |-> Cardinality(AnswerTrace(m, qp).valid)]),
                                 SumFunction([qp \in done |-> Len(Sources(m, qp[1]))])),
        brandConversion |-> Rate(Cardinality({qp \in supplied : AnswerTrace(m, qp).brandCited > 0}),
                                 Cardinality(supplied)),
        brandCited |-> Rate(SumFunction([qp \in done |-> AnswerTrace(m, qp).brandCited]),
                            SumFunction([qp \in done |-> AnswerTrace(m, qp).brandSources])),
        unsupported |-> SumFunction([qp \in done |-> Cardinality(AnswerTrace(m, qp).unsupported)])]

\* build_evidence_assessment.
EvidenceAssessment(m) ==
    [grounding |-> GroundingSummary(m, Queries),
     answer |-> AnswerSummary(m, Pairs),
     answerByType |-> [b \in BOOLEAN |->
                          AnswerSummary(m, PairsOf({q \in Queries : (q \in Branded) = b}))],
     answerByProfile |-> [p \in Profiles |-> AnswerSummary(m, PairsFor(p))],
     comparable |-> [p \in Profiles |-> AnswerSummary(m, CommonQueries(m) \X {p})],
     answers |-> [qp \in Pairs |-> AnswerTrace(m, qp)]]

-----------------------------------------------------------------------------
(* recommendations.py *)

\* build_content_strategy, for one content pattern: the sources that show it,
\* how often an answer could have cited one and how often one did.
ContentStrategy(m) ==
    LET answered(q) == {p \in Profiles : Completed(m.results[<<q, p>>])}
        shown == {s \in Queries \X (1..5) : s[2] \in Positions(m, s[1], LAMBDA x : x.cue)}
        cites(s) == {p \in answered(s[1]) : s[2] \in m.results[<<s[1], p>>].citations}
        done == {qp \in Pairs : Completed(m.results[qp])}
    IN [opportunities |-> SumFunction([s \in shown |-> Cardinality(answered(s[1]))]),
        appearances |-> SumFunction([s \in shown |-> Cardinality(cites(s))]),
        completed |-> Cardinality(done),
        unsupported |-> SumFunction(
            [qp \in done |-> Cardinality(m.results[qp].citations \ DOMAIN Sources(m, qp[1]))])]

=============================================================================
