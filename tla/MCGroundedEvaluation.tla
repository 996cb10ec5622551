------------------------ MODULE MCGroundedEvaluation ------------------------
EXTENDS GroundedEvaluation

Source(relation, competitor, brand, cue) ==
    [relation |-> relation, competitor |-> competitor, brand |-> brand, cue |-> cue]

\* The page below a competitor and a sibling; the page alone above another.
MCPackets ==
    {<<Source("other-page", TRUE, "absent", TRUE),
       Source("exact-page", FALSE, "matched", TRUE),
       Source("same-domain-other-page", FALSE, "ambiguous", FALSE)>>,
     <<Source("other-page", FALSE, "ambiguous", TRUE)>>}

\* The page and a source nobody returned; the first source.
MCCitations == {{2, 9}, {1}}

Draft(id, query, sources) ==
    [id |-> id, priority |-> id, query |-> query, sources |-> sources, page |-> TRUE]
MCDrafts ==
    {<<>>, <<Draft(1, 1, {1})>>, <<Draft(1, 1, {1}), Draft(2, 2, {1, 3})>>,
     <<Draft(1, 1, {2})>>, <<Draft(1, 2, {1}), Draft(1, 1, {1})>>,
     <<Draft(1, 1, {1}), [Draft(2, 1, {1}) EXCEPT !.priority = 1]>>, <<Draft(1, 1, {})>>}

Item(id, kind, queries, evidence, checks, impact, effort) ==
    [id |-> id, kind |-> kind, queries |-> queries, evidence |-> evidence, checks |-> checks,
     comparison |-> {}, impact |-> impact, effort |-> effort, confidence |-> "medium",
     technical |-> checks # {},
     basis |-> IF checks = {} THEN "observed-in-content" ELSE "observed-in-technical-browse",
     unsound |-> FALSE]

\* A wide item, one resting on an answer, one that addresses the high check and
\* one that does so with copied wording; one that cites a field, which may be
\* captured with a finding or without, and one that only compares with a signal;
\* new content for one query, twice.
Wide == Item(1, "page", <<1, 2>>, {<<"page">>}, {}, "high", "S")
Narrow == Item(2, "page", <<2, 2>>, {<<"sig", 2>>, <<"ans", 2, 1>>}, {}, "low", "M")
Technical == Item(2, "page", <<1>>, {<<"tech", 1>>}, {1}, "medium", "L")
Copied == [Technical EXCEPT !.id = 1, !.checks = {1, 4}, !.unsound = TRUE]
Heading == Item(3, "page", <<2>>, {<<"tech", 6>>}, {}, "medium", "M")
Compares == [Item(4, "page", <<1>>, {<<"ans", 1, 1>>}, {}, "low", "S")
                EXCEPT !.comparison = {<<"sig", 1>>}]
Gap == [Item(201, "new", <<1>>, {<<"ans", 1, 1>>}, {}, "high", "M")
           EXCEPT !.comparison = {<<"src", 1, 1>>}]
Guess == [Item(201, "new", <<2>>, {<<"src", 2, 3>>}, {}, "medium", "M")
             EXCEPT !.confidence = "low"]

MCProposals ==
    {<<>>} \cup
    {page \o new : page \in {<<Wide, Narrow>>, <<Wide, Technical, Heading>>, <<Copied, Wide>>,
                            <<Heading, Compares>>},
                   new \in {<<Gap>>, <<Guess, Gap>>}}

Finding(check, severity) == [check |-> check, severity |-> severity]
MCSignals ==
    {[captured |-> FALSE, fields |-> {}, findings |-> {}],
     [captured |-> TRUE, fields |-> {1, 4, 6},
      findings |-> {Finding(1, "high"), Finding(4, "medium"), Finding(6, "low")}],
     [captured |-> TRUE, fields |-> {1, 2, 6, 12},
      findings |-> {Finding(1, "high"), Finding(2, "high")}]}

=============================================================================
