------------------------------- MODULE Reports -------------------------------
(***************************************************************************)
(* A period of the dashboard: what the screen makes of its address, what   *)
(* the server makes of that in the zone of who asks, and the numbers and   *)
(* the chart of the appointments, by days of the professional's zone.      *)
(*                                                                         *)
(* Time counts in hours.  A zone is so many hours ahead; its clocks go     *)
(* back, or forward, in the course of a day.                               *)
(***************************************************************************)
EXTENDS Integers, FiniteSets, Functions

CONSTANTS DayHours,         \* of a day whose clocks stay (24 in the code)
          Todays,           \* days on which the screen is opened
          MonthDays,        \* of any month
          MaxPeriodDays,    \* 400 in the code
          DailyChartMax,    \* 62 in the code
          Zones,            \* [ahead, back, forward]: hours, and days
          Links,            \* [from, to, preset]: days, 0 if not a date, and "none" if no preset
          Agendas           \* sets of [at, status], at in hours

VARIABLES
    ask,       \* the link, the day it is opened, the zones of both people, and the agenda
    answer     \* of the server

vars == <<ask, answer>>
-----------------------------------------------------------------------------
(* The screen *)

FirstOfMonth(d) == d - ((d - 1) % MonthDays)

\* thisYear, like last30, is so many days up to the one on which it is asked.
Preset(p, today) ==
    CASE p = "lastMonth" -> [from |-> FirstOfMonth(today) - MonthDays, to |-> FirstOfMonth(today) - 1]
      [] p = "last7"     -> [from |-> today - 6, to |-> today]
      [] p = "last30"    -> [from |-> today - 29, to |-> today]
      [] OTHER           -> [from |-> FirstOfMonth(today), to |-> FirstOfMonth(today) + MonthDays - 1]

\* validateCustomPeriod: calendar days.
ValidCustomPeriod(from, to) ==
    0 < from /\ from <= to /\ to - from + 1 <= MaxPeriodDays

ReadPeriod ==
    IF ValidCustomPeriod(ask.link.from, ask.link.to)
    THEN [from |-> ask.link.from, to |-> ask.link.to]
    ELSE Preset(ask.link.preset, ask.today)
-----------------------------------------------------------------------------
(* The server *)

\* fromZonedTime of the beginning of a day, formatInTimeZone of an instant.
StartOf(z, d) ==
    d * DayHours - z.ahead + (IF d > z.back THEN 1 ELSE 0) - (IF d > z.forward THEN 1 ELSE 0)

DayOf(z, t) ==
    LET near == (t + z.ahead) \div DayHours
    IN  CHOOSE d \in (near - 1)..(near + 1) : StartOf(z, d) <= t /\ t < StartOf(z, d + 1)

\* To the last instant of the last day.
Begins == StartOf(ask.viewer, ReadPeriod.from)
Ends == StartOf(ask.viewer, ReadPeriod.to + 1)

\* resolvePeriod.
Refused == Ends - Begins > MaxPeriodDays * DayHours

InPeriod == {a \in ask.agenda : Begins <= a.at /\ a.at < Ends}
NonCancelled == {a \in InPeriod : a.status # "CANCELLED"}

GetKpis ==
    [total  |-> Cardinality(NonCancelled),
     done   |-> Cardinality({a \in NonCancelled : a.status \in {"CONFIRMED", "COMPLETED"}}),
     missed |-> Cardinality({a \in NonCancelled : a.status = "NO_SHOW"}),
     days   |-> (Ends - Begins + DayHours - 1) \div DayHours]    \* for the occupancy

\* Mutant of ChartDays: the days that were asked for.
ChartDaysAsked == ReadPeriod.from..ReadPeriod.to

\* Days without appointments have their zero.
ChartDays == DayOf(ask.professional, Begins)..DayOf(ask.professional, Ends - 1)

GetAppointmentsByDay ==
    [d \in ChartDays |-> Cardinality({a \in NonCancelled : DayOf(ask.professional, a.at) = d})]
-----------------------------------------------------------------------------
(* The screen again *)

\* By day, or by month if there are too many.
ChartPoints(days) ==
    IF Cardinality(DOMAIN days) <= DailyChartMax THEN days
    ELSE [m \in {FirstOfMonth(d) : d \in DOMAIN days} |->
             SumFunctionOnSet(days, {d \in DOMAIN days : FirstOfMonth(d) = m})]

Init ==
    /\ ask \in [link : Links, today : Todays, viewer : Zones, professional : Zones, agenda : Agendas]
    /\ answer = [state |-> "asked"]

Answer ==
    /\ answer.state = "asked"
    /\ answer' = IF Refused THEN [state |-> "refused"]
                 ELSE [state |-> "shown", kpis |-> GetKpis, points |-> ChartPoints(GetAppointmentsByDay)]
    /\ UNCHANGED ask

Next == Answer

Spec == Init /\ [][Next]_vars
-----------------------------------------------------------------------------
(* Properties *)

\* Whatever the address says, the server accepts what the screen asks for, but
\* for the longest period when the clocks go back in it; and the chart shows
\* each appointment of the numbers above it once, in whatever zones the two
\* people are and whether it counts by days or months.
ChartAddsUp ==
    /\ answer.state = "refused" =>
         /\ ReadPeriod.to - ReadPeriod.from + 1 = MaxPeriodDays
         /\ ask.viewer.back \in ReadPeriod.from..ReadPeriod.to
    /\ answer.state = "shown" => SumFunction(answer.points) = answer.kpis.total
=============================================================================
