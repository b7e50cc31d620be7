CONSTANTS
    Rows = {r1, r2}
    Numbers = {n1}
    Answers = {a1, a2, i1}
    Intakes = {i1}
    GivenNumber <- MCGivenNumber
    PageOpens = 2
    Searches = {s0, s1}
    Nothing = s0
    RowsOnPage = 1
    ListRows = 2
    ListActs = 2
    ListChanges = 1
    Params = {p1, p2}
    ViewActs = 3
    Tabs = {t1, t2}
    StandardKeys = {k1, k2}
    Own = {i1}
    Texts = {tA, tB}
    Default = tB
    MessageActs = 3
    Services = {sA, sB}
    BookingTimes = {1, 2}
    Manual = Manual
    BookingActs = 4
    NewClients = 2
    BookingClicks = 2
    Wishes = 2
    FormClicks = 3
    HoursOfDay = 4
    DaysOfMonth = 4
    LongestPeriod = 8
    ChartDaysMax = 4
    Todays = {33}
    Zones <- MCZones
    Links <- MCLinks
    RowsOfReports <- MCRowsOfReports
    FunnelPeople = {p1, p2}
    Sources = {s1}
    SourceOf <- MCSourceOf
    RowCap = 1
    LastInstant = 1
    FunnelMoves = 3
    n1 = n1
    p1 = p1
    s1 = s1
    Null = Null

SPECIFICATION ScreensSpec
CHECK_DEADLOCK FALSE
VIEW Seen

INVARIANT AnswersAreKept
INVARIANT SavedMessagesAreKept
INVARIANT NumbersAddUp
INVARIANT ScreenShowsWhatIsAsked
INVARIANT SubmittedOnce
