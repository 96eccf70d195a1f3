SPECIFICATION Spec
CONSTANTS
    Videos = {v1, v2}
    LocalVideos = {v1}
    Terms <- EveryTerms
    None = None
    Reviewers = {u1}
    CacheTtl = 1
    TokenTtl = 0
    MaxSafe = 6
    Open = Open
    NoHeader = NoHeader
    Malformed = Malformed
    Gone = Gone
INVARIANTS
    TypeOK
    StreamsAreAuthorized
    StaleOnlyIfUnnoticed
