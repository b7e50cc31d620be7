---------------------------- MODULE Appointments ----------------------------
(***************************************************************************)
(* AppointmentsService (backend/src/appointments) and every other writer   *)
(* of the tables "appointments" and "schedule_blocks": the reconciliation  *)
(* and the import of calendar-sync, and the deletion of a client.          *)
(*                                                                         *)
(* Each request that checks before it writes (create, reschedule,          *)
(* createBlock) runs as the separate queries the code awaits, so requests  *)
(* interleave between check and write.  The EXCLUDE constraint of          *)
(* prisma/manual/appointment_no_overlap.sql judges each write atomically.  *)
(*                                                                         *)
(* Data left out: clients, services, notes, reasons.  A service is its     *)
(* duration; the rows of a client may be any subset of the rows.           *)
(***************************************************************************)
EXTENDS Integers

CONSTANTS Appts,          \* appointment ids (a uuid is never used twice)
          Blocks,         \* schedule block ids
          Professionals,
          Requests,       \* requests being served at the same time
          Durations,      \* durations of the services in the catalog
          MaxTime,        \* bound: the horizon of the agenda
          GoogleSpans,    \* the <<start, end>> an event in Google may have
          Absent,         \* id not used yet
          Deleted,        \* id of a row that was deleted
          None            \* no appointment to exclude; also: no such block

ASSUME TimesAssumption ==
    /\ MaxTime \in Nat
    /\ Durations \subseteq Nat \ {0}    \* CreateServiceDto: @Min(5)
    \* Google has no event that ends before it starts; an empty one it has.
    /\ GoogleSpans \subseteq {s \in (0..MaxTime) \X (0..MaxTime) : s[1] <= s[2]}

VARIABLES
    appt,      \* the table appointments, by id
    block,     \* the table schedule_blocks, by id
    req,       \* what each request is about to do
    inTheWay   \* history: the rows in conflict with a request when it began,
               \* and not changed since

vars == <<appt, block, req, inTheWay>>
-----------------------------------------------------------------------------
Times == 0..MaxTime

\* GOOGLE: the block mirrors an event of the professional's Google calendar
\* (its googleEventId is set).
Sources == {"CRM", "GOOGLE"}

ActiveStatuses == {"SCHEDULED", "CONFIRMED"}
Statuses == ActiveStatuses \cup {"COMPLETED", "NO_SHOW", "CANCELLED"}

\* Every row is a possible tsrange: it does not end before it starts.
InOrder(x) == x.start <= x.end

Appointment ==
    {x \in [prof: Professionals, start: Times, end: Times, status: Statuses] : InOrder(x)}
Block ==
    {x \in [prof: Professionals, start: Times, end: Times, source: Sources] : InOrder(x)}

Idle == [pc |-> "idle"]
Pending ==
    {q \in [pc: {"checkAppointments", "checkBlocks", "write"},
            op: {"create", "reschedule", "block"},
            prof: Professionals, start: Times, end: Times,
            target: Appts \cup {None}] : InOrder(q)}

ASSUME SentinelAssumption ==
    /\ {Absent, Deleted} \cap Appointment = {}
    /\ None \notin Appts \cup Block
    /\ Appts \cap Blocks = {}

TypeOK ==
    /\ appt \in [Appts -> Appointment \cup {Absent, Deleted}]
    /\ block \in [Blocks -> Block \cup {None}]
    /\ req \in [Requests -> Pending \cup {Idle}]
    /\ inTheWay \in [Requests -> SUBSET (Appts \cup Blocks)]

Rows == {a \in Appts : appt[a] \notin {Absent, Deleted}}
BlockRows == {b \in Blocks : block[b] # None}
ActiveRows == {a \in Rows : appt[a].status \in ActiveStatuses}

\* The where clause startAt < end and endAt > start of the conflict queries.
Overlap(x, y) == x.prof = y.prof /\ x.start < y.end /\ x.end > y.start

\* Mutant of RangesMeet: asks only whether y begins inside x.
RangeBeginsInside(x, y) == x.prof = y.prof /\ x.start <= y.start /\ y.start < x.end

\* tsrange(a) && tsrange(b): as Overlap, but an empty range meets nothing.
RangesMeet(x, y) == x.start < x.end /\ y.start < y.end /\ Overlap(x, y)

\* The rows that forbid what request q is about to write.
Conflicts(q) ==
    {a \in ActiveRows \ {q.target} : Overlap(appt[a], q)}
        \cup {b \in BlockRows : q.op # "block" /\ Overlap(block[b], q)}

\* Mutant of ExclusionAllows: WHERE status IN (the statuses the service calls
\* active), where the constraint has status <> 'CANCELLED'.
ExclusionOnActiveOnly(a, x) ==
    x.status \notin ActiveStatuses
    \/ \A b \in ActiveRows \ {a} : ~RangesMeet(appt[b], x)

\* The constraint accepts row x under id a: no other row that is not
\* CANCELLED meets it.
ExclusionAllows(a, x) ==
    x.status = "CANCELLED"
    \/ \A b \in Rows \ {a} : appt[b].status # "CANCELLED" => ~RangesMeet(appt[b], x)

Init ==
    /\ appt = [a \in Appts |-> Absent]
    /\ block = [b \in Blocks |-> None]
    /\ req = [r \in Requests |-> Idle]
    /\ inTheWay = [r \in Requests |-> {}]
-----------------------------------------------------------------------------
\* A row of the tables changes: it no longer stands for any request.
Touch(S) == inTheWay' = [r \in Requests |-> inTheWay[r] \ S]

\* INSERT or UPDATE of appointment a, judged by the constraint.  A refused
\* write raises, and leaves the tables as they were.
Store(a, x) ==
    /\ ExclusionAllows(a, x)
    /\ appt' = [appt EXCEPT ![a] = x]

Begin(r, q) ==
    /\ req[r] = Idle
    /\ req' = [req EXCEPT ![r] = q]
    /\ inTheWay' = [inTheWay EXCEPT ![r] = Conflicts(q)]
    /\ UNCHANGED <<appt, block>>

Advance(r, pc) ==
    /\ req' = [req EXCEPT ![r] = [@ EXCEPT !.pc = pc]]
    /\ UNCHANGED inTheWay

\* The request ends, having written the rows of S.
Finish(r, S) ==
    /\ req' = [req EXCEPT ![r] = Idle]
    /\ inTheWay' = [q \in Requests |-> IF q = r THEN {} ELSE inTheWay[q] \ S]

\* POST /appointments: the service gives the duration.
StartCreate(r) ==
    \E p \in Professionals, s \in Times, d \in Durations :
        /\ s + d \in Times
        /\ Begin(r, [pc |-> "checkAppointments", op |-> "create", prof |-> p,
                     start |-> s, end |-> s + d, target |-> None])

\* PATCH /appointments/:id/reschedule: findById, then the same duration at
\* another time.  Whatever the row's status is.
StartReschedule(r) ==
    \E a \in Rows, s \in Times :
        LET end == s + (appt[a].end - appt[a].start) IN
        /\ end \in Times
        /\ Begin(r, [pc |-> "checkAppointments", op |-> "reschedule",
                     prof |-> appt[a].prof, start |-> s, end |-> end, target |-> a])

\* POST /schedule-blocks: refused at once unless the end is after the start.
StartBlock(r) ==
    \E p \in Professionals, s, e \in Times :
        /\ s < e
        /\ Begin(r, [pc |-> "checkAppointments", op |-> "block", prof |-> p,
                     start |-> s, end |-> e, target |-> None])

\* The first query: an active appointment in the way answers 409.  createBlock
\* goes straight from it to its insert.
CheckAppointments(r) ==
    /\ req[r].pc = "checkAppointments"
    /\ IF \E a \in ActiveRows \ {req[r].target} : Overlap(appt[a], req[r])
       THEN Finish(r, {})
       ELSE Advance(r, IF req[r].op = "block" THEN "write" ELSE "checkBlocks")
    /\ UNCHANGED <<appt, block>>

\* Mutant of CheckBlocks: the blocks are read and not looked at.
CheckBlocksIgnored(r) ==
    /\ req[r].pc = "checkBlocks"
    /\ Advance(r, "write")
    /\ UNCHANGED <<appt, block>>

\* The second query: a block in the way answers 409.
CheckBlocks(r) ==
    /\ req[r].pc = "checkBlocks"
    /\ IF \E b \in BlockRows : Overlap(block[b], req[r])
       THEN Finish(r, {})
       ELSE Advance(r, "write")
    /\ UNCHANGED <<appt, block>>

\* appointment.create: SCHEDULED, under a new id.
WriteCreate(r) ==
    /\ req[r].pc = "write" /\ req[r].op = "create"
    /\ \E a \in Appts :
        /\ appt[a] = Absent
        /\ Store(a, [prof |-> req[r].prof, start |-> req[r].start, end |-> req[r].end,
                     status |-> "SCHEDULED"])
        /\ Finish(r, {a})
    /\ UNCHANGED block

\* appointment.update of a reschedule: the new times, back to SCHEDULED.
WriteReschedule(r) ==
    /\ req[r].pc = "write" /\ req[r].op = "reschedule"
    /\ req[r].target \in Rows
    /\ Store(req[r].target, [appt[req[r].target] EXCEPT !.start = req[r].start,
                                 !.end = req[r].end, !.status = "SCHEDULED"])
    /\ Finish(r, {req[r].target})
    /\ UNCHANGED block

\* scheduleBlock.create: the constraint does not look at blocks.
WriteBlock(r) ==
    /\ req[r].pc = "write" /\ req[r].op = "block"
    /\ \E b \in Blocks \ BlockRows :
        /\ block' = [block EXCEPT ![b] = [prof |-> req[r].prof, start |-> req[r].start,
                                          end |-> req[r].end, source |-> "CRM"]]
        /\ Finish(r, {b})
    /\ UNCHANGED appt

\* The write fails: the constraint refuses it, or the row is gone, or the
\* connection or the process dies.  The request ends without an effect.
FailRequest(r) ==
    /\ req[r] # Idle
    /\ Finish(r, {})
    /\ UNCHANGED <<appt, block>>

\* cancel, confirm, complete, markNoShow: one update by id, from any status.
\* (cancel first reads the row, and uses nothing of what it read.)
SetStatus(status) ==
    /\ \E a \in Rows :
        /\ Store(a, [appt[a] EXCEPT !.status = status])
        /\ Touch({a})
    /\ UNCHANGED <<block, req>>

Cancel == SetStatus("CANCELLED")
Confirm == SetStatus("CONFIRMED")
Complete == SetStatus("COMPLETED")
MarkNoShow == SetStatus("NO_SHOW")

DropBlock(S) ==
    /\ \E b \in BlockRows :
        /\ block[b].source \in S
        /\ block' = [block EXCEPT ![b] = None]
        /\ Touch({b})
    /\ UNCHANGED <<appt, req>>

\* DELETE /schedule-blocks/:id.
DeleteBlock == DropBlock(Sources)
-----------------------------------------------------------------------------
\* The same tables written from outside AppointmentsService.

\* reconcileIncomingEvent: our event was cancelled in Google.
ReconcileCancelled == SetStatus("CANCELLED")

\* reconcileIncomingEvent: our event was moved in Google.  No conflict is
\* looked for.
ReconcileMoved ==
    /\ \E a \in Rows, span \in GoogleSpans :
        /\ span # <<appt[a].start, appt[a].end>>
        /\ Store(a, [appt[a] EXCEPT !.start = span[1], !.end = span[2]])
        /\ Touch({a})
    /\ UNCHANGED <<block, req>>

\* reconcileIncomingEvent: an event of Google's own becomes a block, or moves
\* the block it became, which stays with the professional it was made for.
UpsertExternalBlock ==
    /\ \E b \in Blocks, p \in Professionals, span \in GoogleSpans :
        /\ b \in BlockRows => block[b].source = "GOOGLE" /\ block[b].prof = p
        /\ block' = [block EXCEPT ![b] = [prof |-> p, start |-> span[1], end |-> span[2],
                                          source |-> "GOOGLE"]]
        /\ Touch({b})
    /\ UNCHANGED <<appt, req>>

\* reconcileIncomingEvent: that event was cancelled.
DeleteExternalBlock == DropBlock({"GOOGLE"})

\* importFromGoogle: an event with a known client's name becomes a row, past
\* ones COMPLETED; no conflict is looked for.
ImportFromGoogle ==
    /\ \E a \in Appts, p \in Professionals, span \in GoogleSpans,
          status \in {"SCHEDULED", "COMPLETED"} :
        /\ appt[a] = Absent
        /\ Store(a, [prof |-> p, start |-> span[1], end |-> span[2], status |-> status])
        /\ Touch({a})
    /\ UNCHANGED <<block, req>>

\* ClientsService.remove and removeAll: the client's appointments go with it.
RemoveClient ==
    /\ \E S \in SUBSET Rows :
        /\ S # {}
        /\ appt' = [a \in Appts |-> IF a \in S THEN Deleted ELSE appt[a]]
        /\ Touch(S)
    /\ UNCHANGED <<block, req>>

RequestStep(r) ==
    \/ StartCreate(r) \/ StartReschedule(r) \/ StartBlock(r)
    \/ CheckAppointments(r) \/ CheckBlocks(r)
    \/ WriteCreate(r) \/ WriteReschedule(r) \/ WriteBlock(r)
    \/ FailRequest(r)

Next ==
    \/ \E r \in Requests : RequestStep(r)
    \/ Cancel \/ Confirm \/ Complete \/ MarkNoShow
    \/ DeleteBlock
    \/ ReconcileCancelled \/ ReconcileMoved
    \/ UpsertExternalBlock \/ DeleteExternalBlock
    \/ ImportFromGoogle
    \/ RemoveClient

Spec == Init /\ [][Next]_vars
-----------------------------------------------------------------------------
(* Properties *)

\* The appointment runs at instant t of professional p.  A row that is not
\* CANCELLED keeps its time, COMPLETED and NO_SHOW included.
Occupies(a, p, t) ==
    /\ a \in Rows
    /\ appt[a].status # "CANCELLED"
    /\ appt[a].prof = p
    /\ appt[a].start <= t /\ t < appt[a].end

\* However requests, reconciliations and imports interleave, a professional is
\* never booked twice at one instant (the check of assertNoConflict is only a
\* courtesy: the constraint is what makes this true).
NoDoubleBooking ==
    \A a, b \in Appts, p \in Professionals, t \in Times :
        Occupies(a, p, t) /\ Occupies(b, p, t) => a = b

\* A request that is about to write has nothing in its way that was there when
\* it began and has stood unchanged: only a write that raced with its checks
\* can put an appointment over a block, or an active appointment in front of
\* the constraint.
StandingRowsRespected ==
    \A r \in Requests : req[r] # Idle /\ req[r].pc = "write" => inTheWay[r] = {}

\* The cells of the agenda an appointment holds.
HeldBy(a) ==
    IF a \in Rows /\ appt[a].status # "CANCELLED"
    THEN {appt[a].prof} \X (appt[a].start..(appt[a].end - 1))
    ELSE {}

Held == [a \in Appts |-> HeldBy(a)]

Ledger == INSTANCE Agenda WITH Cells <- Professionals \X Times, held <- Held

\* AppointmentsService implements the ledger: each step of each writer is one
\* exclusive claim, one release, or no change of what is held.
AgendaSpec == Ledger!Spec
=============================================================================
