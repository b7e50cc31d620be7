------------------------------ MODULE Screens ------------------------------
(***************************************************************************)
(* Parts in which pages of the browser and the server act on each other,   *)
(* and the reports.  As in Services.tla, the initial state chooses one     *)
(* part, and the variables are registers for its own.                      *)
(***************************************************************************)
EXTENDS Integers, FiniteSets

CONSTANTS Rows, Numbers, Answers, Intakes, GivenNumber,                      \* People
          Searches, Nothing, RowsOnPage, ListRows, ListActs, ListChanges,    \* PagedList
          Params, ViewActs,                                                  \* Views
          Tabs, StandardKeys, Own, Texts, Default, MessageActs,              \* Messages
          Services, BookingTimes, Manual, BookingActs, NewClients,           \* Booking
          BookingClicks,
          Wishes, FormClicks,                                                \* Forms
          HoursOfDay, DaysOfMonth, LongestPeriod, ChartDaysMax,              \* Reports
          Todays, Zones, Links, RowsOfReports,
          FunnelPeople, Sources, SourceOf, RowCap, LastInstant, FunnelMoves,           \* Funnel
          PageOpens, Null

ASSUME ScreensAssumption ==
    /\ GivenNumber \in [Answers -> Numbers] /\ Intakes \subseteq Answers /\ PageOpens \in Nat
    /\ Nothing \in Searches /\ ListRows \in Nat /\ RowsOnPage \in 1..ListRows
    /\ ListActs \in Nat /\ ListChanges \in Nat /\ ViewActs \in Nat
    /\ StandardKeys \cap Own = {} /\ Default \in Texts /\ MessageActs \in Nat
    /\ Manual \notin Services
    /\ BookingActs \in Nat /\ NewClients \in Nat /\ BookingClicks \in Nat
    /\ Wishes \in Nat /\ FormClicks \in Nat

VARIABLES part, x1, x2, x3, x4, x5, x6, x7, x8, x9, x10, x11, x12, x13, x14, x15

registers == <<part, x1, x2, x3, x4, x5, x6, x7, x8, x9, x10, x11, x12, x13, x14, x15>>
-----------------------------------------------------------------------------
(* The parts *)

NumberOfAnswer(a) == GivenNumber[a]
IsIntakeAnswer(a) == a \in Intakes

PeoplePart == INSTANCE People WITH NumberOf <- NumberOfAnswer, IsIntake <- IsIntakeAnswer,
    MaxOpens <- PageOpens, None <- Null, rows <- x1, handler <- x2, page <- x3, loads <- x4, opens <- x5,
    kept <- x6, replaced <- x7

PagedListPart == INSTANCE PagedList WITH PageSize <- RowsOnPage, MaxRows <- ListRows,
    MaxActs <- ListActs, MaxChanges <- ListChanges, None <- Null,
    size <- x1, url <- x2, input <- x3, data <- x4, latest <- x5,
    loading <- x6, failed <- x7, flights <- x8, redirect <- x9, deletion <- x10,
    acts <- x11, changes <- x12, wanted <- x13, least <- x14, astray <- x15

ViewsPart == INSTANCE Views WITH MaxActs <- ViewActs, None <- Null, kind <- x1, param <- x2, due <- x3,
    shown <- x4, failed <- x5, latest <- x6, flights <- x7, acting <- x8, rev <- x9,
    acts <- x10, astray <- x11

MessagesPart == INSTANCE Messages WITH Keys <- StandardKeys, Ids <- Own, MaxActs <- MessageActs,
    None <- Null, saved <- x1, tabs <- x2, requests <- x3, acts <- x4, last <- x5, overlapped <- x6

BookingPart == INSTANCE Booking WITH Times <- BookingTimes, MaxActs <- BookingActs,
    MaxClients <- NewClients, MaxClicks <- BookingClicks, None <- Null,
    form <- x1, loads <- x2, runs <- x3, clients <- x4, appts <- x5, taken <- x6,
    acts <- x7, clicks <- x8, known <- x9, told <- x10

FormsPart == INSTANCE Forms WITH MaxWishes <- Wishes, MaxClicks <- FormClicks, kind <- x1,
    form <- x2, calls <- x3, effect <- x4, wishes <- x5, told <- x6, lost <- x7, clicks <- x8

ReportsPart == INSTANCE Reports WITH DayHours <- HoursOfDay, MonthDays <- DaysOfMonth,
    MaxPeriodDays <- LongestPeriod, DailyChartMax <- ChartDaysMax, Agendas <- RowsOfReports, ask <- x1, answer <- x2

FunnelPart == INSTANCE Funnel WITH People <- FunnelPeople, ExportRowCap <- RowCap,
    MaxTime <- LastInstant, MaxMoves <- FunnelMoves, None <- Null,
    now <- x1, people <- x2, events <- x3, moves <- x4, file <- x5, changed <- x6,
    moving <- x7, raced <- x8

\* Null is none of the values it stands in for.
ASSUME NullAssumption ==
    /\ Null \notin Rows \cup Answers \cup PeoplePart!Kinds \cup PeoplePart!Row \cup PeoplePart!Profile
    /\ Null \notin Params /\ Null \notin ViewsPart!Answer /\ Null \notin 0..ViewActs
    /\ Null \notin StandardKeys \cup Own \cup Texts
    /\ Null \notin Services /\ Null \notin BookingPart!Form /\ Null \notin BookingPart!Slot
    /\ Null \notin PagedListPart!Pages /\ Null \notin PagedListPart!Url /\ Null \notin PagedListPart!Page
    /\ Null \notin 0..ListRows /\ Null \notin 0..RowsOnPage

\* Zones and days of the reports, whose periods that are not chosen by hand are short
\* enough; a day has more than the hour by which the clocks change.
ASSUME ReportsAssumption ==
    /\ HoursOfDay \in Nat /\ HoursOfDay >= 2 /\ DaysOfMonth \in Nat \ {0}
    /\ LongestPeriod \in Nat /\ ChartDaysMax \in Nat
    /\ Todays \subseteq Int /\ \A z \in Zones : z.ahead \in Int /\ z.back \in Int /\ z.forward \in Int
    /\ \A l \in Links : l.from \in Int /\ l.to \in Int
    /\ \A l \in Links, d \in Todays :
         LET p == ReportsPart!Preset(l.preset, d) IN p.to - p.from + 1 <= LongestPeriod
    /\ \A rows \in RowsOfReports : IsFiniteSet(rows) /\ \A a \in rows : a.at \in Int

ASSUME FunnelAssumption ==
    /\ IsFiniteSet(FunnelPeople) /\ SourceOf \in [FunnelPeople -> Sources \cup {Null}]
    /\ LastInstant \in Nat /\ FunnelMoves \in Nat
    /\ Null \notin FunnelPart!Person /\ Null \notin FunnelPart!PipelineStages /\ Null \notin 0..LastInstant

\* The registers that a part does not use.
Empty15 == x15 = Null
Empty14 == x14 = Null /\ Empty15
Empty13 == x13 = Null /\ Empty14
Empty12 == x12 = Null /\ Empty13
Empty11 == x11 = Null /\ Empty12
Empty10 == x10 = Null /\ Empty11
Empty9 == x9 = Null /\ Empty10
Empty8 == x8 = Null /\ Empty9
Empty7 == x7 = Null /\ Empty8
Empty6 == x6 = Null /\ Empty7
Empty5 == x5 = Null /\ Empty6
Empty4 == x4 = Null /\ Empty5
Empty3 == x3 = Null /\ Empty4
After2 == <<x3, x4, x5, x6, x7, x8, x9, x10, x11, x12, x13, x14, x15>>
After6 == <<x7, x8, x9, x10, x11, x12, x13, x14, x15>>
After7 == <<x8, x9, x10, x11, x12, x13, x14, x15>>
After8 == <<x9, x10, x11, x12, x13, x14, x15>>
After10 == <<x11, x12, x13, x14, x15>>
After11 == <<x12, x13, x14, x15>>

ScreensInit ==
    \/ part = "people" /\ PeoplePart!Init /\ Empty8
    \/ part = "list" /\ PagedListPart!Init
    \/ part = "view" /\ ViewsPart!Init /\ Empty12
    \/ part = "messages" /\ MessagesPart!Init /\ Empty7
    \/ part = "booking" /\ BookingPart!Init /\ Empty11
    \/ part = "form" /\ FormsPart!Init /\ Empty9
    \/ part = "report" /\ ReportsPart!Init /\ Empty3
    \/ part = "funnel" /\ FunnelPart!Init /\ Empty9

ScreensNext ==
    /\ UNCHANGED part
    /\ \/ part = "people" /\ PeoplePart!Next /\ UNCHANGED After7
       \/ part = "list" /\ PagedListPart!Next
       \/ part = "view" /\ ViewsPart!Next /\ UNCHANGED After11
       \/ part = "messages" /\ MessagesPart!Next /\ UNCHANGED After6
       \/ part = "booking" /\ BookingPart!Next /\ UNCHANGED After10
       \/ part = "form" /\ FormsPart!Next /\ UNCHANGED After8
       \/ part = "report" /\ ReportsPart!Next /\ UNCHANGED After2
       \/ part = "funnel" /\ FunnelPart!Next /\ UNCHANGED After8

ScreensSpec == ScreensInit /\ [][ScreensNext]_registers
-----------------------------------------------------------------------------
(* Properties, each of them stated in the module of its part *)

\* Answers to the forms give way only to what came later.
AnswersAreKept == part = "people" => PeoplePart!AnswersAreKept

\* What was written last of a message is what is sent, unless requests overlapped.
SavedMessagesAreKept == part = "messages" => MessagesPart!SavedMessagesAreKept

\* A list shows the page that is wanted, and the other views what they are asked for.
ScreenShowsWhatIsAsked ==
    /\ part = "list" => PagedListPart!PageIsTheOneWanted
    /\ part = "view" => ViewsPart!ViewShowsWhatIsAsked

\* What is submitted, an appointment or another form, is carried out once, unless an
\* answer was lost or the button was on meanwhile.
SubmittedOnce ==
    /\ part = "booking" => BookingPart!BookedOnce
    /\ part = "form" => FormsPart!DoneOnce

\* A period of the screen is accepted, and its chart adds up to its numbers; the
\* reports of the funnel agree with each other and with the records.
NumbersAddUp ==
    /\ part = "report" => ReportsPart!ChartAddsUp
    /\ part = "funnel" => FunnelPart!ReportsAgree
=============================================================================
