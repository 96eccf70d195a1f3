SPECIFICATION Spec
CONSTANTS
    Videos = {v1}
    Links <- One
    Legacy = {}
    Domains = {d1, d2}
    Hosts = {h1, h2}
    Evidence = {e1}
    Asked = {v1}
    Requests = {r1}
    Operators = {}
    MaxAttempts = 1
    MaxActs = 1
    None = None
CHECK_DEADLOCK FALSE
PROPERTIES
    AnchorKeepsItsDomain
