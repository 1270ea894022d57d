CONSTANTS
    h1 = h1
    h2 = h2
    g1 = g1
    g2 = g2
    e1 = e1
    e2 = e2
    Heads = {h1, h2}
    Gets = {g1, g2}
    ETags = {e1, e2}
    Scenarios <- MCScenarios
    ServeStale = TRUE
    MaxVersions = 3
    MaxFaults = 1
    None = None
SPECIFICATION MCSpec
INVARIANTS AnswersExact AnswersFresh
PROPERTIES EvidenceIsNewer EnrichmentKept
CHECK_DEADLOCK FALSE
