SPECIFICATION Spec
CONSTANTS
    Videos = {v1}
    BunnyVideos = {v1}
    Terms <- EveryTerms
    None = None
    Reviewers = {u1, u2}
    WatchTtl = 1
    SessionTtl = 0
    MediaTtl = 0
SYMMETRY Interchangeable
INVARIANTS
    TypeOK
    AnswersAreFresh
    BudgetIsRespected
    TokensDieWithSession
