SPECIFICATION Spec
CONSTANTS
    Admins = {a1, a2}
    Sessions = {s1, s2}
    Tokens = {t1, t2, t3}
    Logins = {l1}
    Refreshes = {r1, r2}
    PasswordChanges = {c1}
    OwnerRequests = {o1, o2}
    None = None
    MaxVersion = 4
SYMMETRY Interchangeable
INVARIANTS
    LiveSessionIsCurrent
    ExactlyOneActiveOwner
    LiveTokenIsBacked
    TokensFormAChain
PROPERTIES
    OwnerEditsWhatItSaw
    DeletionIsFinal
CONSTRAINT AFewAtOnce
