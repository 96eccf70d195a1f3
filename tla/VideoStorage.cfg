SPECIFICATION Spec
CONSTANTS
    Videos = {v1, v2}
    Assets = {a1, a2, a3}
    Requests = {r1, r2}
    None = None
SYMMETRY Interchangeable
INVARIANTS
    RowsAreBacked
    StraysAreAccounted
    OnlyDisabledIsEmptied
PROPERTIES
    NoInvisibleOrphan
