SPECIFICATION Spec
CONSTANTS
    Viewers = {v1, v2}
    Requests = {r1, r2}
    HourLength = 4
    WindowLength = 2
    MaxClock = 4
    MaxPerEvent = 4
    MaxPerHour = 5
    RandomMin = 2
    Pace <- ScaledPace
    None = None
    Absent = Absent
    Blank = Blank
    Malformed = Malformed
    Unlimited = 2147483647
SYMMETRY Interchangeable
INVARIANTS
    HourIsCapped
    BooksAgree
    PaceIsKept
CHECK_DEADLOCK FALSE
