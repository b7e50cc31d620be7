------------------------------ MODULE Services ------------------------------
(***************************************************************************)
(* Parts of the server, the bell and the imports.  They do not interact:   *)
(* the initial state chooses one part and the others do nothing, so that   *)
(* the states are those of each part by itself.  The variables are         *)
(* registers, in which the part that was chosen keeps its own; each        *)
(* INSTANCE says which.                                                    *)
(***************************************************************************)
EXTENDS Integers, Sequences, FiniteSets

CONSTANTS Connects, Callers, RowsOfSlots, Questions, Appts, Listeners, Emitters, Leads, LeadIds,
          Profiles, Instants, PageSizes, Channels, Notices, Counts, Persons, Responses,
          ConnectFaults,                                     \* bounds and attempts of the parts
          RenewalAttempts, RenewalChanges, RenewalFaults,
          SyncAttempts, CalendarChanges, SyncFaults,
          LeadRows, LeadForms, LeadImports,
          FailureThreshold, ResetTicks, MaxBegun,            \* see Breaker
          DayLength, OpensAt, ClosesAt, SlotStep, DaysAhead, \* see Slots
          Null

ASSUME ServicesAssumption ==
    /\ IsFiniteSet(Callers)
    /\ ConnectFaults \in Nat
    /\ RenewalAttempts \in Nat \ {0} /\ RenewalChanges \in Nat /\ RenewalFaults \in Nat
    /\ SyncAttempts \in Nat \ {0} /\ CalendarChanges \in Nat /\ SyncFaults \in Nat
    /\ LeadRows \in Nat /\ LeadForms \in Nat /\ LeadImports \in Nat
    /\ FailureThreshold \in Nat \ {0} /\ ResetTicks \in Nat \ {0} /\ MaxBegun \in Nat
    /\ DayLength \in Nat \ {0} /\ OpensAt \in Nat /\ ClosesAt \in 0..DayLength
    /\ SlotStep \in Nat \ {0} /\ DaysAhead \in Nat
    /\ Questions \subseteq [from: Nat, now: Nat, duration: Nat \ {0}, limit: Nat]
    /\ LeadIds \subseteq Nat /\ IsFiniteSet(LeadIds) /\ Instants \subseteq Int
    /\ PageSizes \subseteq Nat \ {0}
    /\ Emitters \subseteq BOOLEAN
    /\ Leads \subseteq Int /\ IsFiniteSet(Appts) /\ Appts # {}

VARIABLES part, x1, x2, x3, x4, x5, x6, x7, x8

registers == <<part, x1, x2, x3, x4, x5, x6, x7, x8>>
-----------------------------------------------------------------------------
(* The parts *)

ConnectionPart == INSTANCE Connection WITH MaxFaults <- ConnectFaults, instance <- x1,
    connect <- x2, faults <- x3, failed <- x4

RenewalPart == INSTANCE Renewal WITH Attempts <- RenewalAttempts,
    MaxChanges <- RenewalChanges, MaxFaults <- RenewalFaults,
    client <- x1, adding <- x2, job <- x3, asked <- x4, changes <- x5, faults <- x6,
    closings <- x7, lost <- x8

BreakerPart == INSTANCE Breaker WITH Threshold <- FailureThreshold, Pause <- ResetTicks,
    failures <- x1, opened <- x2, call <- x3, up <- x4, begun <- x5

SlotsPart == INSTANCE Slots WITH Step <- SlotStep, Agendas <- RowsOfSlots, agenda <- x1, question <- x2, slots <- x3

RiskPart == INSTANCE Risk WITH appts <- x1, listener <- x2, score <- x3, missed <- x4,
    astray <- x5, heard <- x6

LeadListPart == INSTANCE LeadList WITH Ids <- LeadIds, Sizes <- PageSizes, leads <- x1,
    query <- x2, total <- x3, pages <- x4

WatchPart == INSTANCE Watch WITH Attempts <- SyncAttempts,
    MaxChanges <- CalendarChanges, MaxFaults <- SyncFaults, None <- Null,
    google <- x1, tells <- x2, connection <- x3, jobs <- x4, run <- x5, faults <- x6,
    seen <- x7, missed <- x8

BellPart == INSTANCE Bell WITH Calls <- Counts, MaxActs <- 2, MaxFaults <- 1, server <- x1, unread <- x2,
    items <- x3, call <- x4, list <- x5, writes <- x6, acts <- x7, faults <- x8

LeadImportPart == INSTANCE LeadImport WITH People <- Persons, None <- Null,
    MaxRows <- LeadRows, MaxForms <- LeadForms, MaxImports <- LeadImports,
    response <- x1, told <- x2, rows <- x3, form <- x4, forms <- x5, calls <- x6

\* Rows have times, and leads have what the score is computed from.
ASSUME RowsAssumption ==
    /\ \A rows \in RowsOfSlots : rows \subseteq SlotsPart!Row
    /\ Profiles \subseteq LeadListPart!Profile

\* Null is none of the values it stands in for.
ASSUME NullAssumption ==
    /\ Null \notin WatchPart!Run
    /\ Null \notin Persons \cup LeadImportPart!Form \cup LeadImportPart!Numbers

\* A number is written in one of the ways of writing it.
ASSUME ResponsesAssumption ==
    /\ Responses \subseteq Seq(LeadImportPart!Answer)
    /\ \A s \in Responses : \A i \in DOMAIN s :
          LeadImportPart!FieldOf(s[i].question) = "phone" => s[i].said \in LeadImportPart!Writings \cup {"blank"}

\* The registers that a part does not use.
Empty8 == x8 = Null
Empty7 == x7 = Null /\ Empty8
Empty6 == x6 = Null /\ Empty7
Empty5 == x5 = Null /\ Empty6
Empty4 == x4 = Null /\ Empty5
After3 == <<x4, x5, x6, x7, x8>>
After4 == <<x5, x6, x7, x8>>
After5 == <<x6, x7, x8>>
After6 == <<x7, x8>>

ServicesInit ==
    \/ part = "connection" /\ ConnectionPart!Init /\ Empty5
    \/ part = "renewal" /\ RenewalPart!Init
    \/ part = "breaker" /\ BreakerPart!Init /\ Empty6
    \/ part = "slots" /\ SlotsPart!Init /\ Empty4
    \/ part = "risk" /\ RiskPart!Init /\ Empty7
    \/ part = "leads" /\ LeadListPart!Init /\ Empty5
    \/ part = "watch" /\ WatchPart!Init
    \/ part = "bell" /\ BellPart!Init
    \/ part = "import" /\ LeadImportPart!Init /\ Empty7

ServicesNext ==
    /\ UNCHANGED part
    /\ \/ part = "connection" /\ ConnectionPart!Next /\ UNCHANGED After4
       \/ part = "renewal" /\ RenewalPart!Next
       \/ part = "breaker" /\ BreakerPart!Next /\ UNCHANGED After5
       \/ part = "slots" /\ SlotsPart!Next /\ UNCHANGED After3
       \/ part = "risk" /\ RiskPart!Next /\ UNCHANGED After6
       \/ part = "leads" /\ LeadListPart!Next /\ UNCHANGED After4
       \/ part = "watch" /\ WatchPart!Next
       \/ part = "bell" /\ BellPart!Next
       \/ part = "import" /\ LeadImportPart!Next /\ UNCHANGED After6

\* As in Renewal.tla and Bell.tla.
ServicesFairness ==
    /\ WF_registers(part = "renewal" /\ RenewalPart!Working /\ UNCHANGED part)
    /\ \A c \in Counts :
         /\ WF_registers(part = "bell" /\ BellPart!Poll(c) /\ UNCHANGED part)
         /\ WF_registers(part = "bell" /\ BellPart!UnreadCount(c) /\ UNCHANGED part)
         /\ WF_registers(part = "bell" /\ BellPart!CountArrives(c) /\ UNCHANGED part)
    /\ WF_registers(part = "bell" /\ (\E w \in x6 : BellPart!MarkRead(w)) /\ UNCHANGED part)

ServicesSpec == ServicesInit /\ [][ServicesNext]_registers /\ ServicesFairness
-----------------------------------------------------------------------------
(* Properties, each of them stated in the module of its part *)

\* A connection none of whose calls failed has its webhook and its proxy.
ConnectedIsConfigured == part = "connection" => ConnectionPart!ConnectedIsConfigured

\* A client is asked once whether she wants to come back, unless an attempt failed.
AskedOnce == part = "renewal" => RenewalPart!AskedOnce

\* While a service does not answer it is called so often in a pause, and no more.
HammeringIsBounded == part = "breaker" => BreakerPart!HammeringIsBounded

\* What is offered can be booked, and what can be booked is offered.
OfferedIsBookable == part = "slots" => SlotsPart!OfferedIsBookable

\* A change in Google is read, unless word of it got lost in one of five ways.
MissedForAReason == part = "watch" => WatchPart!MissedForAReason

\* Who gives her number with its country has one record, with what she answered.
OnePersonOneRecord == part = "import" => LeadImportPart!OnePersonOneRecord

\* A client at high risk has missed appointments, and who misses most of them is at
\* high risk; the pages of the leads have each of them once, in the order of the scores.
ScoresTell ==
    /\ part = "risk" => RiskPart!RiskIsOfMisses
    /\ part = "leads" => LeadListPart!EachLeadOnOnePage

\* The bell comes to tell how many notices are unread.
BellCatchesUp == <>[](part = "bell" => BellPart!Counted)

\* A client who is closed is asked whether she wants to come back.
ClosedIsAsked ==
    (part = "renewal" /\ RenewalPart!Closed) ~> (part = "renewal" /\ RenewalPart!AskedOrLost)
=============================================================================
