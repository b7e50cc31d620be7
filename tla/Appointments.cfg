CONSTANTS
    Appts = {a1, a2}
    Blocks = {b1}
    Professionals = {p1}
    Requests = {r1, r2}
    Durations = {1}
    MaxTime = 2
    GoogleSpans <- MCGoogleSpans
    Absent = Absent
    Deleted = Deleted
    None = None

SPECIFICATION Spec
SYMMETRY Interchangeable

INVARIANT NoDoubleBooking
INVARIANT StandingRowsRespected
PROPERTY AgendaSpec
