CONSTANTS
    developer = developer
    reviewer = reviewer
    None = None
    Persona = {developer, reviewer}
    Required = {developer, reviewer}
    Graph <- ShortGraph
    MaxIterations = 1
    EscalateOnMaxIter = FALSE
    SynchronousFeedback = FALSE
    ConsolidatedReviewers = {}
    PartialReviewOnFailure = FALSE
    CategoryReviewers = {}
    VerdictPairs <- ShortPairs
    Fingerprint = {f1, f2}
    RateLimitAutopause = TRUE
    HintPersona = {developer}
    FailingPersona = {developer, reviewer}
    MaxCommands = 2
SPECIFICATION Spec
INVARIANTS TypeOK IterationBound AutoRetryBound GateHolds
PROPERTIES CompletesOutsideRounds LifecycleSpec
