CONSTANTS
    developer = developer
    reviewer = reviewer
    qa = qa
    consolidator = consolidator
    gate = gate
    None = None
    Persona = {developer, reviewer, qa, consolidator, gate}
    Required = {developer, reviewer, qa, consolidator, gate}
    Graph <- DevGraph
    MaxIterations = 2
    EscalateOnMaxIter = TRUE
    SynchronousFeedback = TRUE
    ConsolidatedReviewers = {reviewer, qa}
    PartialReviewOnFailure = FALSE
    CategoryReviewers = {}
    VerdictPairs <- DevPairs
    Fingerprint = {f1}
    RateLimitAutopause = TRUE
    ReviewConsolidator = consolidator
    RetriggeredBy = {developer}
    Developer = developer
    Hinter = {}
    Outcomes <- DevOutcomes
    MaxActive = 1
    MaxMail = 2
    MaxFeedback = 1
    MaxTrouble = 0
SPECIFICATION Spec
PROPERTIES  Settles
CHECK_DEADLOCK FALSE
