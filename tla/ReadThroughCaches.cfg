SPECIFICATION CachesSpec
CONSTANTS
    PublicHosts = {h1}
    Writers = {r1}
    Lookups = {l1, l2}
    Loads = {m1, m2}
    CorsTtl = 1
    ListTtl = 1
    InflightTtl = 1
    Absent = Absent
INVARIANTS
    HostsAreRecent
    LoadsAreShared
    StaleOnlyIfOverlapped
PROPERTIES
    CachesCatchUp
