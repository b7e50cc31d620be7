\* One appointment with three ids for its events, so that it may lose two and get a
\* third, and one external event; jobs and events are told apart, for symmetry would
\* not be sound for liveness.
CONSTANTS
    Appts = {a1}
    Events = {e1, e2, e3}
    Externals = {x1}
    Times = {1, 2}
    Jobs = {j1, j2}
    MaxAttempts = 2
    MaxEdits = 3
    MaxFailures = 1
    Emitters = {TRUE, FALSE}
    Absent = Absent
    Deleted = Deleted
    None = None

SPECIFICATION FairSpec
CHECK_DEADLOCK FALSE

INVARIANT MirrorsAgree
INVARIANT BlocksMirrored
PROPERTY ComesToRest
