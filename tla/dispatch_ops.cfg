CONSTANTS
    developer = developer
    reviewer = reviewer
    qa = qa
    consolidator = consolidator
    gate = gate
    None = None
    Persona = {developer, reviewer, gate}
    Required = {developer, reviewer, gate}
    Graph <- LineGraph
    MaxIterations = 2
    EscalateOnMaxIter = TRUE
    SynchronousFeedback = FALSE
    ConsolidatedReviewers = {}
    PartialReviewOnFailure = FALSE
    CategoryReviewers = {}
    VerdictPairs <- LinePairs
    Fingerprint = {f1}
    RateLimitAutopause = TRUE
    ReviewConsolidator = None
    RetriggeredBy = {developer}
    Developer = developer
    Hinter = {developer}
    Outcomes <- LineOutcomes
    MaxActive = 1
    MaxMail = 2
    MaxFeedback = 1
    MaxTrouble = 1
SPECIFICATION Spec
INVARIANTS TypeOK OneDrain NoWedge
 
CHECK_DEADLOCK FALSE
