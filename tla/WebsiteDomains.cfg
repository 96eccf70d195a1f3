SPECIFICATION Spec
CONSTANTS
    Sites = {w1, w2}
    Domains = {d1, d2}
    Hosts = {h1, h2}
    Requests = {r1, r2}
    None = None
SYMMETRY Interchangeable
INVARIANTS
    InOrderUnlessOvertaken
PROPERTIES
    NoTakeover
    LiveHostsAreAnnounced
