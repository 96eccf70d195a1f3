SPECIFICATION Spec
CONSTANTS
    Videos = {v1, v2}
    Links <- OneToThree
    Legacy <- Two
    Domains = {d1, d2}
    Hosts = {h1, h2, h3}
    Evidence = {e1, e2}
    Asked = {v1}
    Requests = {r1, r2}
    Operators = {o1}
    MaxAttempts = 2
    MaxActs = 1
    None = None
INVARIANTS
    AnchorIsExact
    RevocationIsHonoured
    RevokedPairStaysDark
    TransportAliasIsStable
SYMMETRY Interchangeable
PROPERTIES
    IdentityIsWriteOnce

CHECK_DEADLOCK FALSE
