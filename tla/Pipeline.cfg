CONSTANTS
    Clients = {c1}
    Calls = {a1}
    Requests = {r1, r2}
    OtherStages = {PRE_CALL}
    OtherSuccess = {ONGOING}
    MaxTime = 2
    MaxAttempts = 2
    MaxEdits = 4
    MaxFailures = 1
    Absent = Absent
    Deleted = Deleted
    None = None

SPECIFICATION FairSpec
CHECK_DEADLOCK FALSE

INVARIANT CurrentStageOnRecord
INVARIANT OnlyRacesBreakTheFunnel
PROPERTY PendingCallsAreSettled
