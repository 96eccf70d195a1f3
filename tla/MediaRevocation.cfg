SPECIFICATION FairSpec
CONSTANTS
    Videos = {v1}
    LocalVideos = {v1}
    Terms <- UnlimitedTerms
    None = None
    Reviewers = {u1}
    CacheTtl = 2
    TokenTtl = 0
    MaxSafe = 6
    Open = Open
    NoHeader = NoHeader
    Malformed = Malformed
    Gone = Gone
PROPERTY RevocationTakesHold
