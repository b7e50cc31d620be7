--------------------------------- MODULE Risk ---------------------------------
(***************************************************************************)
(* The no-show score of a client: recalculated from her appointments by a  *)
(* listener of their changes, which may overlap, and read when reminders   *)
(* are planned (Reminders.tla: who is at high risk gets one more).         *)
(***************************************************************************)
EXTENDS Integers, FiniteSets, FiniteSetsExt

CONSTANTS Appts, Listeners,
          Emitters, \* what the emitter may do with a list of names, see heard
          Leads     \* hours by which an appointment is confirmed or cancelled
                    \* before it starts; negative, after

VARIABLES
    appts,      \* her appointments
    listener,   \* who recalculates
    score,      \* Client.noShowScore, in tenths of 1/total
    missed,     \* history: whether she ever missed one
    astray,     \* history: whether a recalculation failed, was left out, or was
                \* overtaken
    heard       \* external: whether the emitter calls a listener that is registered
                \* on a list of names, as this one is, for each of the names

vars == <<appts, listener, score, missed, astray, heard>>
-----------------------------------------------------------------------------
Statuses == {"SCHEDULED", "CONFIRMED", "COMPLETED", "NO_SHOW", "CANCELLED"}
NoLead == 1000
Row == [status: Statuses, confirmed: Leads \cup {NoLead}, cancelled: Leads \cup {NoLead}]
Score == [tenths: 0..(10 * Cardinality(Appts)), total: 1..Cardinality(Appts)]

TypeOK ==
    /\ appts \in [Appts -> Row]
    /\ listener \in [Listeners -> [pc: {"no", "read"}] \cup [pc: {"write"}, score: Score]]
    /\ score \in Score
    /\ missed \in BOOLEAN /\ astray \in BOOLEAN
    /\ heard \in Emitters

Idle == [pc |-> "no"]

\* The default of the column.
Unscored == [tenths |-> 0, total |-> 1]

Init ==
    /\ appts = [a \in Appts |-> [status |-> "SCHEDULED", confirmed |-> NoLead, cancelled |-> NoLead]]
    /\ listener = [l \in Listeners |-> Idle]
    /\ score = Unscored
    /\ missed = FALSE /\ astray = FALSE
    /\ heard \in Emitters
-----------------------------------------------------------------------------
(* recalculateNoShowScore *)

Has(status) == {a \in Appts : appts[a].status = status}
Counted == Appts \ Has("SCHEDULED")
Total == Cardinality(Counted)

Positive(n) == IF n > 0 THEN n ELSE 0
ConfirmedOnes == {a \in Counted : appts[a].confirmed # NoLead}
Delays == FoldSet(LAMBDA a, sum : Positive(appts[a].confirmed) + sum, 0, ConfirmedOnes)

\* In tenths: 2 below an average of two hours, 1 below twelve; no history is
\* neutral.
LateConfirmRisk ==
    LET count == Cardinality(ConfirmedOnes) IN
    IF count = 0 \/ Delays >= 12 * count THEN 0 ELSE IF Delays < 2 * count THEN 2 ELSE 1

LateCancels == {a \in Has("CANCELLED") : appts[a].cancelled < 12}

\* Mutant of Weighed: the weights of misses and late cancellations change places.
WeighedSwapped(misses, cancels) == 2 * misses + 6 * cancels

Weighed(misses, cancels) == 6 * misses + 2 * cancels

\* Between 0 and 1 by its weights: the code's Min and Max change nothing.
NewScore ==
    [tenths |-> Weighed(Cardinality(Has("NO_SHOW")), Cardinality(LateCancels)) + LateConfirmRisk * Total,
     total |-> Total]

Goes(l, to) == listener' = [listener EXCEPT ![l] = to]

\* What confirm, complete, markNoShow and cancel make of a row, in any
\* order (Appointments.tla).
Changed(row, to) ==
    [status: {to}, confirmed: IF to = "CONFIRMED" THEN Leads ELSE {row.confirmed},
     cancelled: IF to = "CANCELLED" THEN Leads ELSE {NoLead}]

\* onAppointmentStatusChanged is registered on the list of the four events: the
\* emitter, without wildcards, takes the list for one name, which nobody emits.
ChangeStatus == \E a \in Appts, to \in Statuses \ {"SCHEDULED"} :
    /\ \E row \in Changed(appts[a], to) : appts' = [appts EXCEPT ![a] = row]
    /\ \/ heard /\ \E l \in Listeners : listener[l] = Idle /\ Goes(l, [pc |-> "read"])
       \/ ~heard /\ UNCHANGED listener
    /\ missed' = (missed \/ to = "NO_SHOW")
    /\ UNCHANGED <<score, astray>>

\* The listener does not hear of these: reschedule (its event is another one) and
\* a cancellation in Google (which has none).
ChangeUnheard == \E a \in Appts, lead \in Leads :
    /\ appts' \in {[appts EXCEPT ![a] = [status |-> "SCHEDULED", confirmed |-> NoLead, cancelled |-> NoLead]],
                   [appts EXCEPT ![a].status = "CANCELLED", ![a].cancelled = lead]}
    /\ astray' = TRUE
    /\ UNCHANGED <<listener, score, missed>>

\* A later write to the row counts the hours anew: it was moved in Google, or has
\* another updatedAt for an event id or a reminder.
LaterWrite == \E a \in Appts, lead \in Leads :
    /\ \/ appts[a].confirmed # NoLead /\ appts' = [appts EXCEPT ![a].confirmed = lead]
       \/ appts[a].cancelled # NoLead /\ appts' = [appts EXCEPT ![a].cancelled = lead]
    /\ UNCHANGED <<listener, score, missed, astray>>

\* Nothing to count: the score stays.
Read(l) ==
    /\ listener[l].pc = "read"
    /\ Goes(l, IF Total = 0 THEN Idle ELSE [pc |-> "write", score |-> NewScore])
    /\ astray' = (astray \/ \E other \in Listeners : listener[other].pc = "write")
    /\ UNCHANGED <<appts, score, missed>>

Write(l) ==
    /\ listener[l].pc = "write"
    /\ score' = listener[l].score
    /\ Goes(l, Idle)
    /\ UNCHANGED <<appts, missed, astray>>

\* A warning.
Fails(l) ==
    /\ listener[l] # Idle
    /\ Goes(l, Idle)
    /\ astray' = TRUE
    /\ UNCHANGED <<appts, score, missed>>

Next ==
    /\ ChangeStatus \/ ChangeUnheard \/ LaterWrite \/ \E l \in Listeners : Read(l) \/ Write(l) \/ Fails(l)
    /\ UNCHANGED heard

Spec == Init /\ [][Next]_vars
-----------------------------------------------------------------------------
(* Properties *)

\* HIGH_RISK_NO_SHOW_THRESHOLD of the reminders is a half.
High(s) == 2 * s.tenths >= 10 * s.total
HighRisk == High(score)

Writers == {l \in Listeners : listener[l].pc = "write"}

\* A score of the appointments as they are.
OfNow(s) == s.total = Total /\ s.tenths >= 6 * Cardinality(Has("NO_SHOW"))

\* Inductive: no score is high that was computed where nothing was missed; and where
\* nothing went astray one listener at most writes, of the appointments as they are
\* unless another has yet to read them.
ScoresFollow ==
    /\ ~missed => Has("NO_SHOW") = {} /\ ~HighRisk /\ \A l \in Writers : ~High(listener[l].score)
    /\ ~astray => \A l, m \in Writers : l = m
    /\ ~heard => score = Unscored /\ \A l \in Listeners : listener[l] = Idle
    /\ heard /\ ~astray /\ (\A l \in Listeners : listener[l].pc # "read") =>
          \/ \E l \in Writers : OfNow(listener[l].score)
          \/ Writers = {} /\ (Total = 0 \/ OfNow(score))

\* Where the score meets the threshold of the reminders.  Who never missed an
\* appointment is not at high risk, however late she confirms and cancels and
\* whatever became of the recalculations.  Who missed five of six is, where the
\* changes are heard and the listeners are done, unless one of those changes has
\* no listener or a recalculation failed or was overtaken by an older one; where
\* the list of events is not heard, the score stays as it was created.
RiskIsOfMisses ==
    /\ HighRisk => missed
    /\ ~heard => score = Unscored
    /\ (heard /\ 6 * Cardinality(Has("NO_SHOW")) >= 5 * Total /\ Total > 0
        /\ (\A l \in Listeners : listener[l] = Idle) /\ ~astray) => HighRisk
=============================================================================
