SPECIFICATION Spec
CONSTANTS
    None = None
    NumQueries = 2
    NumProfiles = 2
    Branded = {1}
    ReportSize = 3
    TopItems = 1
    Strict = FALSE
    Packets <- MCPackets
    Citations <- MCCitations
    Drafts <- MCDrafts
    Proposals <- MCProposals
    Signals <- MCSignals
CHECK_DEADLOCK FALSE
INVARIANTS
    ScoresAgree
    ReportIsAccountable
