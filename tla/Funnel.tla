------------------------------- MODULE Funnel -------------------------------
(***************************************************************************)
(* The reports of the funnel: by stage, by origin, the metrics, the two    *)
(* boards, and the files they are exported to, over what the people of the *)
(* CRM do with the records in the meantime.  A move reads the record,      *)
(* decides, and runs a transaction that does not look again: it may be     *)
(* written over a record that another move has changed.  What moves do to  *)
(* the calls and to client success is in Pipeline.tla.                     *)
(*                                                                         *)
(* A report counts what happened from the first to the last instant of a   *)
(* period.  The stages that lead nowhere else behave alike, so there are   *)
(* some of the main ones, the one that a missed call leads to, and one     *)
(* more of the side stages.                                                *)
(***************************************************************************)
EXTENDS Integers, Sequences, FiniteSets, FiniteSetsExt

CONSTANTS People, Sources, None,
          SourceOf,         \* where each of them says she comes from, if she does
          ExportRowCap,     \* 20000 in the code
          MaxTime, MaxMoves      \* bounds

VARIABLES
    now,
    people,      \* the table of clients
    events,      \* funnelStageEvent, of the pipeline
    moves,
    file,        \* an export
    changed,     \* history: the table changed in the course of the export
    moving,      \* the moves that have read their record
    raced        \* history: whose record was moved by one that had read it stale

vars == <<now, people, events, moves, file, changed, moving, raced>>
-----------------------------------------------------------------------------
MainFunnelOrder == <<"NEW", "CALL_SCHEDULED", "CLOSED_WON">>
SideStages == {"NO_SHOW", "CLOSED_LOST"}
PipelineStages == {MainFunnelOrder[i] : i \in DOMAIN MainFunnelOrder} \cup SideStages

TerminalToFunnel(stage) ==
    CASE stage = "CLOSED_WON" -> "CLIENT" [] stage = "CLOSED_LOST" -> "LOST" [] OTHER -> "PIPELINE"

Instants == 0..MaxTime
Person == [source: Sources \cup {None}, funnel: {"LEAD", "PIPELINE", "CLIENT", "LOST"},
           stage: PipelineStages \cup {None}, createdAt: Instants, enteredAt: Instants]
Event == [of: People, stage: PipelineStages, enteredAt: Instants, exitedAt: Instants \cup {None}, n: Nat]
\* missed (history) are the events that other moves of hers opened since it read.
Move == [of: People, stage: PipelineStages, auto: BOOLEAN, at: Instants, n: 1..MaxMoves,
         missed: SUBSET (1..MaxMoves)]
Periods == [from: Instants, to: Instants]

\* Stages of the funnel that the two exports of people are about.
Exported == [leads |-> {"LEAD", "PIPELINE"}, clients |-> {"CLIENT"}]

TypeOK ==
    /\ now \in Instants /\ moves \in 0..MaxMoves
    /\ people \in [People -> Person \cup {None}]
    /\ events \subseteq Event
    /\ file = None \/ (/\ file.kind \in DOMAIN Exported /\ file.period \in Periods /\ file.total \in Nat \cup {None}
                       /\ file.rows \in (SUBSET People) \cup {None})
    /\ changed \in BOOLEAN
    /\ moving \subseteq Move /\ raced \subseteq People

Init ==
    /\ now = 0 /\ moves = 0
    /\ people = [p \in People |-> None]
    /\ events = {} /\ file = None /\ changed = FALSE
    /\ moving = {} /\ raced = {}

There == {p \in People : people[p] # None}
In(t, period) == period.from <= t /\ t <= period.to
-----------------------------------------------------------------------------
(* The records *)

Register(p) ==
    /\ people[p] = None
    /\ people' = [people EXCEPT ![p] = [source |-> SourceOf[p], funnel |-> "LEAD", stage |-> None,
                                        createdAt |-> now, enteredAt |-> now]]
    /\ changed' = TRUE
    /\ UNCHANGED <<now, events, moves, file, moving, raced>>

\* A move has read the record of p, which allows it, and the clock.
Reads(p, stage, auto) ==
    /\ moves < MaxMoves /\ moves' = moves + 1
    /\ moving' = moving \cup {[of |-> p, stage |-> stage, auto |-> auto, at |-> now, n |-> moves + 1,
                               missed |-> {}]}
    /\ UNCHANGED <<now, people, events, file, changed, raced>>

AdvanceToPipeline(p) == p \in There /\ people[p].funnel = "LEAD" /\ Reads(p, "NEW", FALSE)

\* Any stage after any other, the same one included.
ChangeStage(p, stage) == p \in There /\ people[p].funnel = "PIPELINE" /\ Reads(p, stage, FALSE)

\* A call that she missed moves her by itself, once.
OnAppointmentNoShow(p) ==
    /\ p \in There /\ people[p].funnel = "PIPELINE" /\ people[p].stage # "NO_SHOW"
    /\ Reads(p, "NO_SHOW", TRUE)

\* What the transaction of a move writes over the record.  The move that a missed call
\* makes leaves the stage of the funnel as it is.
Moved(record, m) ==
    [record EXCEPT !.stage = m.stage, !.enteredAt = m.at,
                   !.funnel = IF m.auto THEN @ ELSE TerminalToFunnel(m.stage)]

\* Its transaction: the open events are closed, another is opened, and the record
\* follows, whatever it has become since it was read.  Of the events that were opened
\* since, the transaction does not see those whose own overlaps with it.
Enter(m) ==
    /\ \E unseen \in SUBSET m.missed :
         events' = {IF e.of = m.of /\ e.exitedAt = None /\ e.n \notin unseen
                    THEN [e EXCEPT !.exitedAt = m.at] ELSE e : e \in events}
                   \cup {[of |-> m.of, stage |-> m.stage, enteredAt |-> m.at, exitedAt |-> None, n |-> m.n]}
    /\ people' = [people EXCEPT ![m.of] = Moved(@, m)]
    /\ moving' = {IF o.of = m.of THEN [o EXCEPT !.missed = @ \cup {m.n}] ELSE o : o \in moving \ {m}}
    /\ raced' = raced \cup {p \in {m.of} : m.missed # {}}
    /\ changed' = TRUE
    /\ UNCHANGED <<now, moves, file>>

\* With the events and whatever else is hers; a move of hers finds nothing to write to.
Remove(p) ==
    /\ p \in There
    /\ people' = [people EXCEPT ![p] = None]
    /\ events' = {e \in events : e.of # p}
    /\ moving' = {m \in moving : m.of # p} /\ raced' = raced \ {p}
    /\ changed' = TRUE
    /\ UNCHANGED <<now, moves, file>>

Tick == now < MaxTime /\ now' = now + 1 /\ UNCHANGED <<people, events, moves, file, changed, moving, raced>>
-----------------------------------------------------------------------------
(* The reports *)

Board == [s \in PipelineStages |-> {p \in There : people[p].funnel = "PIPELINE" /\ people[p].stage = s}]
SuccessBoard == {p \in There : people[p].funnel = "CLIENT"}

\* Mutant of Reached: those who left the stage in the period.
ReachedByExit(stage, period) ==
    {e.of : e \in {e \in events : e.stage = stage /\ e.exitedAt # None /\ In(e.exitedAt, period)}}

\* Each person once, however often she came to the stage.
Reached(stage, period) ==
    {e.of : e \in {e \in events : e.stage = stage /\ In(e.enteredAt, period)}}

\* A conversion is a fraction; None where nobody came to the previous stage.
FunnelReport(period) ==
    [i \in DOMAIN MainFunnelOrder |->
        LET count == Cardinality(Reached(MainFunnelOrder[i], period))
            previous == IF i = 1 THEN 0 ELSE Cardinality(Reached(MainFunnelOrder[i - 1], period))
        IN  [count |-> count, conversion |-> IF previous = 0 THEN None ELSE <<count, previous>>]]

\* By source, of those who were registered in the period, and how many of them closed.
OfSource(source, period) ==
    {p \in There : people[p].source = source /\ In(people[p].createdAt, period)}
Closed(p) == people[p].funnel = "CLIENT" \/ people[p].stage = "CLOSED_WON"

OriginReport(period) ==
    [s \in {s \in Sources : OfSource(s, period) # {}} |->
        [leads |-> Cardinality(OfSource(s, period)),
         closedWon |-> Cardinality({p \in OfSource(s, period) : Closed(p)})]]

\* closedWonCount and the total time in each stage that was left in the period.
ClosedWon(period) ==
    {p \in There : people[p].stage = "CLOSED_WON" /\ In(people[p].enteredAt, period)}

TimeIn(stage, period) ==
    LET left == {e \in events : e.stage = stage /\ e.exitedAt # None /\ In(e.exitedAt, period)}
    IN  SumFunction([e \in left |-> e.exitedAt - e.enteredAt])
-----------------------------------------------------------------------------
(* The export of the leads and of the clients *)

Matching(kind, period) ==
    {p \in There : people[p].funnel \in Exported[kind] /\ In(people[p].createdAt, period)}

Export(kind, period) ==
    /\ file = None
    /\ file' = [kind |-> kind, period |-> period, total |-> None, rows |-> None]
    /\ changed' = FALSE
    /\ UNCHANGED <<now, people, events, moves, moving, raced>>

Asked == Matching(file.kind, file.period)

\* Two queries without a transaction, in either order.
Count ==
    /\ file # None /\ file.total = None
    /\ file' = [file EXCEPT !.total = Cardinality(Asked)]
    /\ UNCHANGED <<now, people, events, moves, changed, moving, raced>>

\* Of the leads the newest, of the clients the first by name.
FindMany ==
    /\ file # None /\ file.rows = None
    /\ \E rows \in SUBSET Asked :
         /\ Cardinality(rows) = Min({ExportRowCap, Cardinality(Asked)})
         /\ file.kind = "leads" =>
              \A p \in rows, q \in Asked \ rows : people[p].createdAt >= people[q].createdAt
         /\ file' = [file EXCEPT !.rows = rows]
    /\ UNCHANGED <<now, people, events, moves, changed, moving, raced>>

\* What is sent when both have answered; the trace of the export is written before, or
\* cannot be written.
Sent == file # None /\ file.total # None /\ file.rows # None
Truncated == file.total > Cardinality(file.rows)
-----------------------------------------------------------------------------
Next ==
    \/ \E p \in People : \/ Register(p) \/ Remove(p)
                         \/ AdvanceToPipeline(p) \/ OnAppointmentNoShow(p)
                         \/ \E s \in PipelineStages : ChangeStage(p, s)
    \/ \E m \in moving : Enter(m)
    \/ Tick
    \/ \E kind \in DOMAIN Exported, to \in Instants : Export(kind, [from |-> 0, to |-> to])
    \/ Count \/ FindMany

Spec == Init /\ [][Next]_vars
-----------------------------------------------------------------------------
(* Properties *)

EntriesOf(p) == {e.enteredAt : e \in {e \in events : e.of = p}}

\* The reports agree with each other and with the records.  Whatever overlaps, who is
\* in the pipeline is in one column; who closed is counted by the funnel, in whatever
\* period the metrics and the origins count her; and nobody came to a stage without
\* having been new.  Who came to the last stage has closed, unless a move of hers was
\* written over another; and without such moves, the times of the stages are the time
\* that people have been on their way, none of it lost or counted twice.  And an export
\* that lacks somebody says so, if nothing changed in its course.
ReportsAgree ==
    /\ \A p \in There : people[p].funnel = "PIPELINE" =>
         Cardinality({s \in PipelineStages : p \in Board[s]}) = 1
    /\ \A p \in There : Closed(p) => p \in Reached("CLOSED_WON", [from |-> 0, to |-> now])
    /\ \A p \in Reached("CLOSED_WON", [from |-> 0, to |-> now]) : Closed(p) \/ p \in raced
    /\ \A period \in Periods :
         /\ Cardinality(ClosedWon(period)) <= FunnelReport(period)[Len(MainFunnelOrder)].count
         /\ \A s \in DOMAIN OriginReport(period) :
              OriginReport(period)[s].closedWon
                <= Cardinality(Reached("CLOSED_WON", [from |-> period.from, to |-> now]))
    /\ \A s \in PipelineStages :
         Reached(s, [from |-> 0, to |-> now]) \subseteq Reached("NEW", [from |-> 0, to |-> now])
    /\ raced = {} =>
         SumFunction([s \in PipelineStages |-> TimeIn(s, [from |-> 0, to |-> now])])
           = SumFunction([p \in {p \in There : EntriesOf(p) # {}} |-> people[p].enteredAt - Min(EntriesOf(p))])
    /\ (Sent /\ ~changed) => (Truncated <=> Asked # file.rows)
=============================================================================
