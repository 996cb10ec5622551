------------------------ MODULE RecommendationReports ------------------------
(***************************************************************************)
(* The two reports made from a saved measurement: the baseline report of   *)
(* drafts checked against compared sources (recommendations.py), accepted  *)
(* or refused as a whole, and the plan (recommendation_plan.py), in which  *)
(* each proposal of the planner is checked on its own, quarantined when it *)
(* fails, joined by the technical findings nobody addressed, ranked and    *)
(* cut to the report's size.                                               *)
(*                                                                         *)
(* Items are numbered as their identifiers sort: opt-1.. are 1.., the rule *)
(* items opt-T01.. are RuleId + 1.., new-1.. are above both.  A quote is   *)
(* part of the reference it is given with, so a misquoted reference is one *)
(* the registry does not have.                                             *)
(***************************************************************************)
EXTENDS EvidenceScores

CONSTANTS
    ReportSize,    \* items of a plan report (11 in the code)
    TopItems,      \* items of tier P1 (3 in the code)
    Strict         \* GEO_RECOMMENDATION_STRICT

ASSUME ReportAssumption ==
    /\ ReportSize \in Nat \ {0}
    /\ TopItems \in Nat
    /\ Strict \in BOOLEAN

RuleId == 100

-----------------------------------------------------------------------------
(* build_recommendation_context: the comparisons of the baseline report *)

\* The outcomes of a query that cite the source at position i.
CitedBy(m, q, i) == {p \in Profiles : i \in Cites(m, <<q, p>>, Relations)}

\* Alternatives to the target page in a completed packet: cited by an answer,
\* returned above the page, or returned without it.
Alternatives(m, q) ==
    LET target == TargetPosition(m, q)
    IN {i \in DOMAIN Sources(m, q) :
            /\ Sources(m, q)[i].relation # "exact-page"
            /\ target = None \/ i < target \/ CitedBy(m, q, i) # {}}

\* Cited ones first, then by position (the sources of a packet are distinct
\* pages here: the code keeps the first of two that differ in the fragment).
Preferred(m, q, i, j) ==
    LET cited(k) == CitedBy(m, q, k) # {}
    IN (cited(i) /\ ~cited(j)) \/ (cited(i) = cited(j) /\ i < j)

Best(n, positions, Precedes(_, _)) ==
    {i \in positions : Cardinality({j \in positions : Precedes(j, i)}) < n}

Compared(m) ==
    UNION {{<<q, i>> : i \in Best(2, Alternatives(m, q), LAMBDA i, j : Preferred(m, q, i, j))}
               : q \in {r \in Queries : Completed(m.retrievals[r])}}

\* _validate_quotes: a draft quotes the page and at least one source, each one
\* compared for its query.
Quotes(m, draft) ==
    /\ draft.query \in Queries
    /\ draft.page
    /\ draft.sources # {}
    /\ \A i \in draft.sources : <<draft.query, i>> \in Compared(m)

\* validate_recommendations: fails closed, on one bad draft, a fourth one or a
\* repeated identifier or priority (recommend does not ask the model when
\* nothing can be compared).
BaselineAccepts(m, drafts) ==
    /\ Compared(m) = {} => drafts = <<>>
    /\ Len(drafts) <= 3
    /\ \A i, j \in DOMAIN drafts :
           drafts[i].id = drafts[j].id \/ drafts[i].priority = drafts[j].priority => i = j
    /\ \A i \in DOMAIN drafts : Quotes(m, drafts[i])

BaselineReport(m, drafts) ==
    [version |-> 2, measurement |-> m, items |-> drafts,
     status |-> IF drafts = <<>> THEN "insufficient-evidence" ELSE "completed"]

-----------------------------------------------------------------------------
(* build_recommendation_context_v3 *)

CitingProfiles(m, q) == {p \in Profiles : CitesPage(m, <<q, p>>)}
AnsweringProfiles(m, q) == {p \in Profiles : Completed(m.results[<<q, p>>])}

\* _gap_class.
GapClass(m, q) ==
    IF TargetPosition(m, q) = None THEN "not-retrieved"
    ELSE IF CitingProfiles(m, q) = {} THEN "retrieved-not-cited"
    ELSE IF CitingProfiles(m, q) # AnsweringProfiles(m, q) THEN "partially-cited"
    ELSE "cited"

\* The three best sources beside the page, whose excerpts the planner sees.
PlanComparisons(m, q) ==
    Best(3, Positions(m, q, LAMBDA s : s.relation # "exact-page"),
         LAMBDA i, j : Preferred(m, q, i, j))

\* technical_evidence: the fields technical browsing provided, whether or not a
\* check found fault with them, once something was captured at all.  A field is
\* named by the number of its check (12 is hreflang, which has none).
TechnicalEvidence(context) ==
    {<<"tech", n>> : n \in IF context.captured THEN context.fields ELSE {}}

\* Everything a proposal may refer to: the passages of the page, the completed
\* answers, the compared sources, the signals of each query, the technical
\* fields, and what the findings refer to (the date of the page has no field).
Registry(context) ==
    LET m == context.measurement
    IN {<<"page">>}
       \cup {<<"ans", qp[1], qp[2]>> : qp \in {x \in Pairs : Completed(m.results[x])}}
       \cup (UNION {{<<"src", q, i>> : i \in PlanComparisons(m, q)} : q \in Queries})
       \cup {<<"sig", q>> : q \in Queries}
       \cup TechnicalEvidence(context)
       \cup {<<"tech", f.check>> : f \in context.findings}

-----------------------------------------------------------------------------
(* validate_plan: scores, in tenths *)

\* _query_gap_severity, in hundredths.
GapSeverity(m, q) ==
    LET gap == GapClass(m, q)
        base == CASE gap = "not-retrieved" -> 100 [] gap = "retrieved-not-cited" -> 80
                  [] gap = "partially-cited" -> 55 [] gap = "cited" -> 30
        competitor == IF Competing(m, q) # {} THEN 15 ELSE 0
        sibling == IF Positions(m, q, LAMBDA s : s.relation = "same-domain-other-page") # {}
                   THEN 10 ELSE 0
    IN Min({100, base + competitor + sibling})

\* _score: reach is the sum over the queries as listed, capped at 2.5; the
\* score is 100 * reach * impact * confidence * basis / effort / 7.5, rounded.
Reach(m, queries) ==
    Min({1250, FoldLeft(LAMBDA sum, q : sum + (6 - q) * GapSeverity(m, q), 0, queries)})

PriorityScore(m, item) ==
    LET weight == [high |-> 3, medium |-> 2, low |-> 1][item.impact]
        certainty == [medium |-> 10, low |-> 7][item.confidence]
        basis == IF item.basis = "not-observable-in-snapshot" THEN 8 ELSE 10
        effort == [S |-> 10, M |-> 16, L |-> 25][item.effort]
        numerator == 2 * Reach(m, item.queries) * weight * certainty * basis
    IN (2 * numerator + 75 * effort) \div (150 * effort)

Ranked(m, item) ==
    [id |-> item.id, evidence |-> item.evidence \cup item.comparison, checks |-> item.checks,
     score |-> PriorityScore(m, item), priority |-> Min(ToSet(item.queries))]

-----------------------------------------------------------------------------
(* validate_plan: the review of the proposal *)

\* The tests of an item before its checks count as addressed.  All it refers to
\* is in the registry; its own evidence, without the sources it compares with,
\* is about the page.
Supported(context, item) ==
    /\ ToSet(item.queries) \subseteq Queries
    /\ item.evidence \cup item.comparison \subseteq Registry(context)
    /\ item.kind = "page" => \E ref \in item.evidence : ref[1] \in {"page", "sig", "tech"}
    /\ item.kind = "page" /\ item.technical =>
           item.basis \in IF context.captured
                          THEN {"observed-in-technical-browse", "not-observable-in-snapshot"}
                          ELSE {"not-observable-in-snapshot"}

\* What a review keeps while it goes through the items.
NoReview == [seen |-> {}, addressed |-> {}, ranked |-> {}, log |-> <<>>]
Logged(review, id, rule) == [review EXCEPT !.log = Append(@, [item |-> id, rule |-> rule])]

\* Mutant of Review: an item seen before is dropped without an entry.
ReviewDroppingRepeats(context, review, item) ==
    IF item.id \in review.seen THEN review
    ELSE LET seen == [review EXCEPT !.seen = @ \cup {item.id}]
             named == [seen EXCEPT !.addressed = @ \cup item.checks]
         IN IF ~Supported(context, item) THEN Logged(seen, item.id, "item-validation")
            ELSE IF item.unsound THEN Logged(named, item.id, "item-validation")
            ELSE [named EXCEPT !.ranked = @ \cup {Ranked(context.measurement, item)}]

\* One proposed item.  "unsound" stands for the tests after its checks are
\* addressed: claims without facts to verify, copied wording, unsupported
\* schemas, existing-page checks and paths of new content.
Review(context, review, item) ==
    LET seen == [review EXCEPT !.seen = @ \cup {item.id}]
        named == [seen EXCEPT !.addressed = @ \cup item.checks]
    IN IF item.id \in review.seen THEN Logged(review, item.id, "duplicate-item-id")
       ELSE IF ~Supported(context, item) THEN Logged(seen, item.id, "item-validation")
       ELSE IF item.unsound THEN Logged(named, item.id, "item-validation")
       ELSE [named EXCEPT !.ranked = @ \cup {Ranked(context.measurement, item)}]

\* The item a high finding becomes, for the query of the first priority.
RuleItem(m, finding) ==
    Ranked(m, [id |-> RuleId + finding.check, evidence |-> {<<"tech", finding.check>>},
               comparison |-> {}, checks |-> {finding.check}, queries |-> <<1>>, impact |-> "high", effort |-> "S",
               confidence |-> "medium", basis |-> "observed-in-technical-browse"])

\* The findings no reviewed item addressed: high ones become items, medium ones
\* are logged, low ones are left to the report's list of findings.
WithRules(context, review) ==
    LET open(severity) == {f \in context.findings :
                              f.check \notin review.addressed /\ f.severity = severity}
        entry(f) == [item |-> RuleId + f.check, rule |-> "unaddressed-technical-finding"]
    IN [review EXCEPT !.ranked = @ \cup {RuleItem(context.measurement, f) : f \in open("high")},
                      !.log = @ \o SetToSeq({entry(f) : f \in open("medium")})]

\* The order of _tiered, and its tiers: the first TopItems may be P1.
RanksBefore(a, b) ==
    \/ a.score > b.score
    \/ a.score = b.score /\ a.priority < b.priority
    \/ a.score = b.score /\ a.priority = b.priority /\ a.id < b.id

Tiered(ranked) ==
    LET before(a) == Cardinality({b \in ranked : RanksBefore(b, a)})
        order == [i \in 1..Cardinality(ranked) |-> CHOOSE a \in ranked : before(a) = i - 1]
        tier(i) == IF order[i].score >= 400 /\ i <= TopItems THEN "P1"
                   ELSE IF order[i].score >= 200 THEN "P2" ELSE "P3"
    IN [i \in DOMAIN order |-> [item |-> order[i], tier |-> tier(i)]]

\* Mutant of Cut: the removed items are looked for after the cut.
CutFirst(items, log) ==
    LET kept == SubSeq(items, 1, Min({Len(items), ReportSize}))
        removed == SubSeq(kept, ReportSize + 1, Len(kept))
    IN [items |-> kept,
        log |-> log \o [i \in DOMAIN removed |->
                            [item |-> removed[i].item.id, rule |-> "report-size"]]]

\* The report keeps the first ReportSize items and logs the others.
Cut(items, log) ==
    LET kept == SubSeq(items, 1, Min({Len(items), ReportSize}))
        removed == SubSeq(items, Len(kept) + 1, Len(items))
    IN [items |-> kept,
        log |-> log \o [i \in DOMAIN removed |->
                            [item |-> removed[i].item.id, rule |-> "report-size"]]]

ReviewOf(context, proposal) ==
    FoldLeft(LAMBDA review, item : Review(context, review, item), NoReview, proposal)

\* In strict mode the first quarantined item refuses the whole proposal.
PlanAccepts(context, proposal) == Strict => ReviewOf(context, proposal).log = <<>>

\* validate_plan.  The proposal lists its page items before its new content.
PlanReport(context, proposal) ==
    LET review == WithRules(context, ReviewOf(context, proposal))
        report == Cut(Tiered(review.ranked), review.log)
    IN [version |-> 3, measurement |-> context.measurement, proposal |-> proposal,
        captured |-> context.captured, fields |-> context.fields,
        findings |-> context.findings, items |-> report.items, log |-> report.log,
        status |-> IF report.items = <<>> THEN "insufficient-evidence" ELSE "completed"]

=============================================================================
