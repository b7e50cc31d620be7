CONSTANTS
    Users = {u1, u2}
    Requests = {r1, r2}
    MaxFailedLogins = 2
    Lockout = 1
    AccessTTL = 1
    RefreshTTL = 2
    MaxTime = 2
    MaxActs = 3
    Absent = Absent
    None = None

SPECIFICATION Spec
CHECK_DEADLOCK FALSE

INVARIANT LiveSessionsAreRecent
INVARIANT AnAdminRemains
PROPERTY LockIsKept
PROPERTY NoNeedlessLogin
