CONSTANTS
    ana = ana
    bia = bia
    Users = {ana, bia}
    Attendants = {bia}
    Zone <- MCZone
    Tasks = {t1}
    Facts = {lead, cancellation}
    Cancellations = {cancellation}
    Requests = {r1, r2}
    Day = 3
    Morning = 1
    Soon = 1
    Lookback = 3
    Retention = 5
    Dues = {1, 2}
    Outage = 1
    MaxTime = 6
    MaxActs = 2
    None = None

SPECIFICATION Spec
SYMMETRY Symmetry
CHECK_DEADLOCK FALSE

INVARIANT DeadlinesAreTold
PROPERTY ToldOnce
