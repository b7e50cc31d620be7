-------------------------------- MODULE Slots --------------------------------
(***************************************************************************)
(* findAvailableSlots: the times offered to a client for an appointment of *)
(* a professional, next to what a booking then asks (assertNoConflict and  *)
(* the constraint appointments_no_overlap).                                *)
(*                                                                         *)
(* Instants are ticks of the professional's wall clock, days of DayLength; *)
(* the agenda does not change between the question and the booking, that   *)
(* is in Appointments.tla.                                                 *)
(***************************************************************************)
EXTENDS Integers, FiniteSets, Sequences

CONSTANTS DayLength, OpensAt, ClosesAt,   \* BUSINESS_HOURS
          Step,                           \* SLOT_STEP_MINUTES
          DaysAhead,
          Agendas,                        \* sets of rows, see Row
          Questions                       \* [from, now, duration, limit]

VARIABLES agenda, question, slots

vars == <<agenda, question, slots>>
-----------------------------------------------------------------------------
\* ACTIVE is a SCHEDULED or CONFIRMED appointment, OVER one that is COMPLETED or
\* NO_SHOW; an OFF is a block of a type that takes whole days.
Kinds == {"ACTIVE", "OVER", "BLOCK", "OFF"}
Row == [start: Int, end: Int, kind: Kinds]

TypeOK ==
    /\ agenda \subseteq Row
    /\ question \in [from: Nat, now: Nat, duration: Nat, limit: Nat]
    /\ slots \in Seq(Nat) \cup {<<-1>>}

Meets(start, end, row) == start < row.end /\ end > row.start

RangeEnd == question.from + DaysAhead * DayLength

\* The rows that are read.
Busy == {r \in agenda : r.kind # "OVER" /\ Meets(question.from, RangeEnd, r)}

Days == LET first == question.from \div DayLength IN first..(first + DaysAhead - 1)
Opening(day) == day * DayLength + OpensAt
Closing(day) == day * DayLength + ClosesAt

DayBlocked(day) == \E r \in Busy : r.kind = "OFF" /\ r.start <= Opening(day) /\ r.end >= Closing(day)

Past(t) == t < question.from \/ t < question.now

\* Mutant of Candidates: the last appointment of a day only has to begin.
CandidatesUntilClosing(day) == {t \in Opening(day)..Closing(day) : (t - Opening(day)) % Step = 0}

Candidates(day) ==
    {t \in Opening(day)..(Closing(day) - question.duration) : (t - Opening(day)) % Step = 0}

\* Mutant of Free: only what begins in the time of the candidate.
FreeAtStart(t) == \A r \in Busy : ~(t <= r.start /\ r.start < t + question.duration)

Free(t) == \A r \in Busy : ~Meets(t, t + question.duration, r)

Found ==
    {t \in UNION {Candidates(day) : day \in {d \in Days : ~DayBlocked(d)}} : ~Past(t) /\ Free(t)}

\* In order, up to the limit.
FindAvailableSlots ==
    LET found == Found
        Earlier(t) == {u \in found : u < t}
    IN  [n \in 1..(IF Cardinality(found) < question.limit THEN Cardinality(found) ELSE question.limit) |->
            CHOOSE t \in found : Cardinality(Earlier(t)) = n - 1]

Init ==
    /\ agenda \in Agendas
    /\ question \in Questions
    /\ slots = <<-1>>

Answer ==
    /\ slots = <<-1>>
    /\ slots' = FindAvailableSlots
    /\ UNCHANGED <<agenda, question>>

Next == Answer

Spec == Init /\ [][Next]_vars
-----------------------------------------------------------------------------
(* Properties *)

\* What a booking asks: whatever the rows, not only those that were read.
Booked(t) ==
    /\ \A r \in agenda : r.kind # "OVER" => ~Meets(t, t + question.duration, r)
    /\ t >= question.from /\ t >= question.now

Offered == {slots[i] : i \in DOMAIN slots}

InHours(t) == \E day \in Days : Opening(day) <= t /\ t + question.duration <= Closing(day)

\* Every time that is offered would be accepted by a booking and lies within the
\* opening hours; times are offered in order, up to the limit; and no opening on
\* the grid that a booking would accept is passed over, wherever the rows lie:
\* off the grid, across midnight, around the ends of the search.
OfferedIsBookable == slots # <<-1>> =>
    /\ \A t \in Offered : Booked(t) /\ InHours(t)
    /\ \A i, j \in DOMAIN slots : i < j => slots[i] < slots[j]
    /\ Len(slots) <= question.limit
    /\ \A day \in Days, k \in 0..(DayLength \div Step) :
          LET t == Opening(day) + k * Step IN
          (InHours(t) /\ Booked(t) /\ t \notin Offered) =>
              Len(slots) = question.limit /\ \A i \in DOMAIN slots : slots[i] < t
=============================================================================
