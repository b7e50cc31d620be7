CONSTANTS
    Connects = {c1, c2}
    Callers = {c1, c2, c3}
    RowsOfSlots <- MCRowsOfSlots
    Questions <- MCQuestions
    Appts = {a1, a2}
    Listeners = {l1, l2}
    Emitters = {TRUE, FALSE}
    Leads = {1, 24}
    LeadIds = {1, 2, 3}
    Profiles <- MCProfiles
    Instants = {1, 2}
    PageSizes = {1, 2}
    Channels = {c1, c2}
    Notices = {n1, n2}
    Counts = {c1, c2}
    Persons = {p0}
    Responses <- MCResponses
    ConnectFaults = 2
    RenewalAttempts = 3
    RenewalChanges = 3
    RenewalFaults = 3
    SyncAttempts = 2
    CalendarChanges = 2
    SyncFaults = 2
    LeadRows = 3
    LeadForms = 2
    LeadImports = 2
    FailureThreshold = 3
    ResetTicks = 3
    MaxBegun = 7
    DayLength = 8
    OpensAt = 2
    ClosesAt = 7
    SlotStep = 2
    DaysAhead = 2
    Null = Null

SPECIFICATION ServicesSpec
CHECK_DEADLOCK FALSE

INVARIANT ConnectedIsConfigured
INVARIANT AskedOnce
INVARIANT HammeringIsBounded
INVARIANT OfferedIsBookable
INVARIANT MissedForAReason
INVARIANT OnePersonOneRecord
INVARIANT ScoresTell
PROPERTY BellCatchesUp
PROPERTY ClosedIsAsked
