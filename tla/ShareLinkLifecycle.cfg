SPECIFICATION LifecycleSpec
CONSTANTS
    Videos = {v1, v2}
    BunnyVideos = {v1}
    BlobVideos = {v2}
    Links = {l1}
    Patches = {p1, p2}
    Syncs = {s1}
    Assigns = {a1}
    Replaces = {r1}
    Targets = {"READY", "FAILED", "DISABLED"}
    FirstUpdaterWins = TRUE
SYMMETRY Interchangeable
CONSTRAINT AFewAtOnce
INVARIANTS
    DarkUnlessRaced
    EmptiedLinkIsDark
    DarkForAReason
PROPERTIES
    RevocationIsFinal
