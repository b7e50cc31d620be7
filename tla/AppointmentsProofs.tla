------------------------- MODULE AppointmentsProofs -------------------------
(***************************************************************************)
(* Theorems about Appointments.tla, for every set of appointments, blocks, *)
(* professionals and concurrent requests, and every horizon.               *)
(***************************************************************************)
EXTENDS Appointments, TLAPS

USE DEF Times, InOrder

-----------------------------------------------------------------------------
(* Type correctness *)

LEMMA RowIsAppointment ==
    ASSUME TypeOK, NEW a \in Rows
    PROVE  appt[a] \in Appointment
  BY SentinelAssumption DEF TypeOK, Rows

LEMMA PendingIsPending ==
    ASSUME TypeOK, NEW r \in Requests, req[r] # Idle
    PROVE  req[r] \in Pending
  BY DEF TypeOK

LEMMA StoreType ==
    ASSUME TypeOK, NEW a \in Appts, NEW x \in Appointment, Store(a, x)
    PROVE  appt' \in [Appts -> Appointment \cup {Absent, Deleted}]
  BY DEF TypeOK, Store

LEMMA TouchType ==
    ASSUME TypeOK, NEW S, Touch(S)
    PROVE  inTheWay' \in [Requests -> SUBSET (Appts \cup Blocks)]
  BY DEF TypeOK, Touch

LEMMA FinishType ==
    ASSUME TypeOK, NEW r \in Requests, NEW S, Finish(r, S)
    PROVE  /\ req' \in [Requests -> Pending \cup {Idle}]
           /\ inTheWay' \in [Requests -> SUBSET (Appts \cup Blocks)]
  BY DEF TypeOK, Finish

LEMMA AdvanceType ==
    ASSUME TypeOK, NEW r \in Requests, req[r] # Idle,
           NEW pc \in {"checkBlocks", "write"}, Advance(r, pc)
    PROVE  /\ req' \in [Requests -> Pending \cup {Idle}]
           /\ inTheWay' \in [Requests -> SUBSET (Appts \cup Blocks)]
  <1>1. req[r] \in Pending
    BY DEF TypeOK
  <1>2. [req[r] EXCEPT !.pc = pc] \in Pending
    BY <1>1 DEF Pending
  <1>3. QED
    BY <1>2 DEF TypeOK, Advance

LEMMA BeginType ==
    ASSUME TypeOK, NEW r \in Requests, NEW q \in Pending, Begin(r, q)
    PROVE  TypeOK'
  <1>1. Conflicts(q) \subseteq Appts \cup Blocks
    BY DEF Conflicts, ActiveRows, Rows, BlockRows
  <1>2. QED
    BY <1>1 DEF TypeOK, Begin

LEMMA SetStatusType ==
    ASSUME TypeOK, NEW status \in Statuses, SetStatus(status)
    PROVE  TypeOK'
  <1>1. PICK a \in Rows : Store(a, [appt[a] EXCEPT !.status = status]) /\ Touch({a})
    BY DEF SetStatus
  <1>2. appt[a] \in Appointment /\ a \in Appts
    BY RowIsAppointment DEF Rows
  <1>3. [appt[a] EXCEPT !.status = status] \in Appointment
    BY <1>2 DEF Appointment
  <1>4. QED
    BY <1>1, <1>2, <1>3, StoreType, TouchType DEF TypeOK, SetStatus

LEMMA StartType ==
    ASSUME TypeOK, NEW r \in Requests,
           StartCreate(r) \/ StartReschedule(r) \/ StartBlock(r)
    PROVE  TypeOK'
  <1>1. CASE StartCreate(r)
    <2>1. PICK p \in Professionals, s \in Times, d \in Durations :
              /\ s + d \in Times
              /\ Begin(r, [pc |-> "checkAppointments", op |-> "create", prof |-> p,
                           start |-> s, end |-> s + d, target |-> None])
      BY <1>1 DEF StartCreate
    <2>2. [pc |-> "checkAppointments", op |-> "create", prof |-> p,
           start |-> s, end |-> s + d, target |-> None] \in Pending
      BY <2>1, TimesAssumption DEF Pending
    <2>3. QED
      BY <2>1, <2>2, BeginType
  <1>2. CASE StartReschedule(r)
    <2>1. PICK a \in Rows, s \in Times :
              /\ s + (appt[a].end - appt[a].start) \in Times
              /\ Begin(r, [pc |-> "checkAppointments", op |-> "reschedule",
                           prof |-> appt[a].prof, start |-> s,
                           end |-> s + (appt[a].end - appt[a].start), target |-> a])
      BY <1>2 DEF StartReschedule
    <2>2. appt[a] \in Appointment /\ a \in Appts
      BY RowIsAppointment DEF Rows
    <2>3. [pc |-> "checkAppointments", op |-> "reschedule", prof |-> appt[a].prof,
           start |-> s, end |-> s + (appt[a].end - appt[a].start), target |-> a]
              \in Pending
      BY <2>1, <2>2, TimesAssumption DEF Pending, Appointment
    <2>4. QED
      BY <2>1, <2>3, BeginType
  <1>3. CASE StartBlock(r)
    <2>1. PICK p \in Professionals, s \in Times, e \in Times :
              /\ s < e
              /\ Begin(r, [pc |-> "checkAppointments", op |-> "block", prof |-> p,
                           start |-> s, end |-> e, target |-> None])
      BY <1>3 DEF StartBlock
    <2>2. [pc |-> "checkAppointments", op |-> "block", prof |-> p,
           start |-> s, end |-> e, target |-> None] \in Pending
      BY <2>1, TimesAssumption DEF Pending
    <2>3. QED
      BY <2>1, <2>2, BeginType
  <1>4. QED
    BY <1>1, <1>2, <1>3

LEMMA CheckType ==
    ASSUME TypeOK, NEW r \in Requests, CheckAppointments(r) \/ CheckBlocks(r)
    PROVE  TypeOK'
  <1>1. req[r] # Idle
    BY DEF CheckAppointments, CheckBlocks, Idle
  <1>2. /\ req' \in [Requests -> Pending \cup {Idle}]
        /\ inTheWay' \in [Requests -> SUBSET (Appts \cup Blocks)]
    BY <1>1, FinishType, AdvanceType DEF CheckAppointments, CheckBlocks
  <1>3. QED
    BY <1>2 DEF TypeOK, CheckAppointments, CheckBlocks

LEMMA WriteType ==
    ASSUME TypeOK, NEW r \in Requests,
           WriteCreate(r) \/ WriteReschedule(r) \/ WriteBlock(r) \/ FailRequest(r)
    PROVE  TypeOK'
  <1>1. req[r] \in Pending
    BY PendingIsPending
       DEF WriteCreate, WriteReschedule, WriteBlock, FailRequest, Idle
  <1>2. CASE WriteCreate(r)
    <2>1. PICK a \in Appts :
              /\ Store(a, [prof |-> req[r].prof, start |-> req[r].start,
                           end |-> req[r].end, status |-> "SCHEDULED"])
              /\ Finish(r, {a})
      BY <1>2 DEF WriteCreate
    <2>2. [prof |-> req[r].prof, start |-> req[r].start,
           end |-> req[r].end, status |-> "SCHEDULED"] \in Appointment
      BY <1>1 DEF Pending, Appointment, Statuses, ActiveStatuses
    <2>3. QED
      BY <1>2, <2>1, <2>2, StoreType, FinishType DEF TypeOK, WriteCreate
  <1>3. CASE WriteReschedule(r)
    <2> DEFINE a == req[r].target
               x == [appt[a] EXCEPT !.start = req[r].start, !.end = req[r].end,
                                    !.status = "SCHEDULED"]
    <2>1. a \in Rows /\ a \in Appts /\ Store(a, x) /\ Finish(r, {a})
      BY <1>3 DEF WriteReschedule, Rows
    <2>2. appt[a] \in Appointment
      BY <2>1, RowIsAppointment
    <2>3. x \in Appointment
      BY <1>1, <2>2 DEF Pending, Appointment, Statuses, ActiveStatuses
    <2> HIDE DEF a, x
    <2>4. QED
      BY <1>3, <2>1, <2>3, StoreType, FinishType DEF TypeOK, WriteReschedule
  <1>4. CASE WriteBlock(r)
    <2>1. PICK b \in Blocks :
              /\ block' = [block EXCEPT ![b] =
                               [prof |-> req[r].prof, start |-> req[r].start,
                                end |-> req[r].end, source |-> "CRM"]]
              /\ Finish(r, {b})
      BY <1>4 DEF WriteBlock
    <2>2. [prof |-> req[r].prof, start |-> req[r].start,
           end |-> req[r].end, source |-> "CRM"] \in Block
      BY <1>1 DEF Pending, Block, Sources
    <2>3. QED
      BY <1>4, <2>1, <2>2, FinishType DEF TypeOK, WriteBlock
  <1>5. CASE FailRequest(r)
    BY <1>5, FinishType DEF TypeOK, FailRequest
  <1>6. QED
    BY <1>2, <1>3, <1>4, <1>5

LEMMA ElsewhereType ==
    ASSUME TypeOK,
           \/ DeleteBlock \/ DeleteExternalBlock \/ UpsertExternalBlock
           \/ ReconcileMoved \/ ImportFromGoogle \/ RemoveClient
    PROVE  TypeOK'
  <1>1. ASSUME NEW S, DropBlock(S)
        PROVE  TypeOK'
    BY <1>1, TouchType DEF DropBlock, TypeOK
  <1>2. CASE UpsertExternalBlock
    <2>1. PICK b \in Blocks, p \in Professionals, span \in GoogleSpans :
              /\ block' = [block EXCEPT ![b] = [prof |-> p, start |-> span[1],
                                                end |-> span[2], source |-> "GOOGLE"]]
              /\ Touch({b})
      BY <1>2 DEF UpsertExternalBlock
    <2>2. [prof |-> p, start |-> span[1], end |-> span[2], source |-> "GOOGLE"] \in Block
      BY <2>1, TimesAssumption DEF Block, Sources
    <2>3. QED
      BY <1>2, <2>1, <2>2, TouchType DEF TypeOK, UpsertExternalBlock
  <1>3. CASE ReconcileMoved
    <2>1. PICK a \in Rows, span \in GoogleSpans :
              /\ Store(a, [appt[a] EXCEPT !.start = span[1], !.end = span[2]])
              /\ Touch({a})
      BY <1>3 DEF ReconcileMoved
    <2>2. appt[a] \in Appointment /\ a \in Appts
      BY RowIsAppointment DEF Rows
    <2>3. [appt[a] EXCEPT !.start = span[1], !.end = span[2]] \in Appointment
      BY <2>2, TimesAssumption DEF Appointment
    <2>4. QED
      BY <1>3, <2>1, <2>2, <2>3, StoreType, TouchType DEF TypeOK, ReconcileMoved
  <1>4. CASE ImportFromGoogle
    <2>1. PICK a \in Appts, p \in Professionals, span \in GoogleSpans,
               status \in {"SCHEDULED", "COMPLETED"} :
              /\ Store(a, [prof |-> p, start |-> span[1], end |-> span[2],
                           status |-> status])
              /\ Touch({a})
      BY <1>4 DEF ImportFromGoogle
    <2>2. [prof |-> p, start |-> span[1], end |-> span[2], status |-> status]
              \in Appointment
      BY TimesAssumption DEF Appointment, Statuses, ActiveStatuses
    <2>3. QED
      BY <1>4, <2>1, <2>2, StoreType, TouchType DEF TypeOK, ImportFromGoogle
  <1>5. CASE RemoveClient
    BY <1>5, TouchType DEF TypeOK, RemoveClient
  <1>6. QED
    BY <1>1, <1>2, <1>3, <1>4, <1>5 DEF DeleteBlock, DeleteExternalBlock

\* The tables and the requests always hold values of their types; no row and no
\* pending request ever ends before it starts, so no write makes an invalid range.
THEOREM TypeCorrect == Spec => []TypeOK
  <1>1. Init => TypeOK
    BY DEF Init, TypeOK
  <1>2. TypeOK /\ [Next]_vars => TypeOK'
    <2> SUFFICES ASSUME TypeOK, [Next]_vars
                 PROVE  TypeOK'
      OBVIOUS
    <2>1. ASSUME NEW r \in Requests, RequestStep(r)
          PROVE  TypeOK'
      BY <2>1, StartType, CheckType, WriteType DEF RequestStep
    <2>2. CASE Cancel \/ Confirm \/ Complete \/ MarkNoShow \/ ReconcileCancelled
      BY <2>2, SetStatusType
         DEF Cancel, Confirm, Complete, MarkNoShow, ReconcileCancelled,
             Statuses, ActiveStatuses
    <2>3. CASE \/ DeleteBlock \/ DeleteExternalBlock \/ UpsertExternalBlock
               \/ ReconcileMoved \/ ImportFromGoogle \/ RemoveClient
      BY <2>3, ElsewhereType
    <2>4. CASE UNCHANGED vars
      BY <2>4 DEF TypeOK, vars
    <2>5. QED
      BY <2>1, <2>2, <2>3, <2>4 DEF Next
  <1>3. QED
    BY <1>1, <1>2, PTL DEF Spec
-----------------------------------------------------------------------------
(* No double booking *)

\* Whatever the step, the table changes by one write that the constraint
\* judged, or by the deletion of rows.
LEMMA TableSteps ==
    ASSUME TypeOK, [Next]_vars
    PROVE  \/ appt' = appt
           \/ \E a \in Appts, x \in Appointment : Store(a, x)
           \/ \E S \in SUBSET Rows :
                 appt' = [a \in Appts |-> IF a \in S THEN Deleted ELSE appt[a]]
  <1> DEFINE Stored == \E a \in Appts, x \in Appointment : Store(a, x)
  <1>1. ASSUME NEW r \in Requests, RequestStep(r)
        PROVE  appt' = appt \/ Stored
    <2>1. CASE WriteCreate(r)
      <3>1. req[r] \in Pending
        BY <2>1, PendingIsPending DEF WriteCreate, Idle
      <3>2. [prof |-> req[r].prof, start |-> req[r].start,
             end |-> req[r].end, status |-> "SCHEDULED"] \in Appointment
        BY <3>1 DEF Pending, Appointment, Statuses, ActiveStatuses
      <3>3. QED
        BY <2>1, <3>2 DEF WriteCreate
    <2>2. CASE WriteReschedule(r)
      <3> DEFINE x == [appt[req[r].target] EXCEPT !.start = req[r].start,
                            !.end = req[r].end, !.status = "SCHEDULED"]
      <3>1. req[r] \in Pending
        BY <2>2, PendingIsPending DEF WriteReschedule, Idle
      <3>2. req[r].target \in Rows /\ req[r].target \in Appts
        BY <2>2 DEF WriteReschedule, Rows
      <3>3. appt[req[r].target] \in Appointment
        BY <3>2, RowIsAppointment
      <3>4. x \in Appointment
        BY <3>1, <3>3 DEF Pending, Appointment, Statuses, ActiveStatuses
      <3>5. Store(req[r].target, x)
        BY <2>2 DEF WriteReschedule
      <3> HIDE DEF x
      <3>6. QED
        BY <3>2, <3>4, <3>5
    <2>3. QED
      BY <1>1, <2>1, <2>2
         DEF RequestStep, StartCreate, StartReschedule, StartBlock, Begin,
             CheckAppointments, CheckBlocks, WriteBlock, FailRequest
  <1>2. ASSUME NEW status \in Statuses, SetStatus(status)
        PROVE  Stored
    <2>1. PICK a \in Rows : Store(a, [appt[a] EXCEPT !.status = status])
      BY <1>2 DEF SetStatus
    <2>2. a \in Appts /\ [appt[a] EXCEPT !.status = status] \in Appointment
      BY RowIsAppointment DEF Rows, Appointment
    <2>3. QED
      BY <2>1, <2>2
  <1>3. CASE ReconcileMoved
    <2>1. PICK a \in Rows, span \in GoogleSpans :
              Store(a, [appt[a] EXCEPT !.start = span[1], !.end = span[2]])
      BY <1>3 DEF ReconcileMoved
    <2>2. appt[a] \in Appointment /\ a \in Appts
      BY RowIsAppointment DEF Rows
    <2>3. [appt[a] EXCEPT !.start = span[1], !.end = span[2]] \in Appointment
      BY <2>2, TimesAssumption DEF Appointment
    <2>4. QED
      BY <2>1, <2>2, <2>3
  <1>4. CASE ImportFromGoogle
    <2>1. PICK a \in Appts, p \in Professionals, span \in GoogleSpans,
               status \in {"SCHEDULED", "COMPLETED"} :
              Store(a, [prof |-> p, start |-> span[1], end |-> span[2],
                        status |-> status])
      BY <1>4 DEF ImportFromGoogle
    <2>2. [prof |-> p, start |-> span[1], end |-> span[2], status |-> status]
              \in Appointment
      BY TimesAssumption DEF Appointment, Statuses, ActiveStatuses
    <2>3. QED
      BY <2>1, <2>2
  <1>5. CASE Cancel \/ Confirm \/ Complete \/ MarkNoShow \/ ReconcileCancelled
    BY <1>5, <1>2
       DEF Cancel, Confirm, Complete, MarkNoShow, ReconcileCancelled,
           Statuses, ActiveStatuses
  <1>6. CASE DeleteBlock \/ UpsertExternalBlock \/ DeleteExternalBlock
    BY <1>6 DEF DeleteBlock, UpsertExternalBlock, DeleteExternalBlock, DropBlock
  <1>7. CASE RemoveClient
    BY <1>7 DEF RemoveClient
  <1>8. CASE UNCHANGED vars
    BY <1>8 DEF vars
  <1>9. QED
    BY <1>1, <1>3, <1>4, <1>5, <1>6, <1>7, <1>8 DEF Next

\* What the constraint keeps true of the table.
RangesApart ==
    \A a, b \in Rows :
        a # b /\ appt[a].status # "CANCELLED" /\ appt[b].status # "CANCELLED" =>
            ~RangesMeet(appt[a], appt[b])

\* Judging each written row against the others is enough: the relation is
\* symmetric, and the other pairs do not change.
LEMMA StoreKeepsApart ==
    ASSUME TypeOK, RangesApart, NEW a \in Appts, NEW x \in Appointment, Store(a, x)
    PROVE  RangesApart'
  <1>1. /\ \A b \in Appts : appt'[b] = IF b = a THEN x ELSE appt[b]
        /\ Rows' = Rows \cup {a}
    BY SentinelAssumption DEF TypeOK, Store, Rows
  <1>2. \A b \in Rows \ {a} :
            x.status # "CANCELLED" /\ appt[b].status # "CANCELLED" =>
                ~RangesMeet(appt[b], x) /\ ~RangesMeet(x, appt[b])
    <2> SUFFICES ASSUME NEW b \in Rows \ {a},
                        x.status # "CANCELLED", appt[b].status # "CANCELLED"
                 PROVE  ~RangesMeet(appt[b], x) /\ ~RangesMeet(x, appt[b])
      OBVIOUS
    <2>1. ~RangesMeet(appt[b], x)
      BY DEF Store, ExclusionAllows
    <2>2. appt[b] \in Appointment
      BY RowIsAppointment
    <2>3. QED
      BY <2>1, <2>2, TimesAssumption DEF RangesMeet, Overlap, Appointment
  <1>3. SUFFICES ASSUME NEW b \in Rows', NEW c \in Rows', b # c,
                        appt'[b].status # "CANCELLED", appt'[c].status # "CANCELLED"
                 PROVE  ~RangesMeet(appt'[b], appt'[c])
    BY DEF RangesApart, RangesMeet, Overlap
  <1>4. b \in Appts /\ c \in Appts
    BY DEF Rows
  <1>5. CASE b # a /\ c # a
    BY <1>1, <1>3, <1>4, <1>5 DEF RangesApart
  <1>6. CASE b = a
    BY <1>1, <1>2, <1>3, <1>4, <1>6
  <1>7. CASE c = a
    BY <1>1, <1>2, <1>3, <1>4, <1>7
  <1>8. QED
    BY <1>5, <1>6, <1>7

LEMMA NextKeepsApart == TypeOK /\ RangesApart /\ [Next]_vars => RangesApart'
  <1> SUFFICES ASSUME TypeOK, RangesApart, [Next]_vars
               PROVE  RangesApart'
    OBVIOUS
  <1>1. CASE appt' = appt
    BY <1>1 DEF RangesApart, Rows, RangesMeet, Overlap
  <1>2. ASSUME NEW S \in SUBSET Rows,
               appt' = [a \in Appts |-> IF a \in S THEN Deleted ELSE appt[a]]
        PROVE  RangesApart'
    <2>1. Rows' \subseteq Rows /\ \A a \in Rows' : appt'[a] = appt[a]
      BY <1>2 DEF Rows
    <2>2. QED
      BY <2>1 DEF RangesApart, RangesMeet, Overlap
  <1>3. QED
    BY <1>1, <1>2, TableSteps, StoreKeepsApart

\* However requests, webhooks and imports interleave, the rows that are not
\* CANCELLED never put one professional in two appointments at one instant.
THEOREM NeverDoubleBooked == Spec => []NoDoubleBooking
  <1>1. Init => RangesApart
    BY DEF Init, RangesApart, Rows
  <1>2. TypeOK /\ RangesApart => NoDoubleBooking
    <2> SUFFICES ASSUME TypeOK, RangesApart,
                        NEW a \in Appts, NEW b \in Appts,
                        NEW p \in Professionals, NEW t \in Times,
                        Occupies(a, p, t), Occupies(b, p, t), a # b
                 PROVE  FALSE
      BY DEF NoDoubleBooking
    <2>1. appt[a] \in Appointment /\ appt[b] \in Appointment
      BY RowIsAppointment DEF Occupies
    <2>2. RangesMeet(appt[a], appt[b])
      BY <2>1, TimesAssumption DEF Occupies, RangesMeet, Overlap, Appointment
    <2>3. QED
      BY <2>2 DEF RangesApart, Occupies
  <1>3. QED
    BY <1>1, <1>2, NextKeepsApart, TypeCorrect, PTL DEF Spec
-----------------------------------------------------------------------------
(* Implementation of the ledger *)

LEMMA HeldType == TypeOK => Ledger!TypeOK
  <1> SUFFICES ASSUME TypeOK, NEW a \in Appts, a \in Rows
               PROVE  {appt[a].prof} \X (appt[a].start..(appt[a].end - 1))
                          \subseteq Professionals \X Times
    BY DEF Ledger!TypeOK, Held, HeldBy
  <1>1. appt[a] \in Appointment
    BY RowIsAppointment
  <1>2. QED
    BY <1>1, TimesAssumption DEF Appointment

\* A write that the constraint lets through claims cells no other row holds.
LEMMA StoreClaims ==
    ASSUME TypeOK, NEW a \in Appts, NEW x \in Appointment, Store(a, x),
           Ledger!TypeOK'
    PROVE  Ledger!Claim(a)
  <1>1. /\ \A b \in Appts : appt'[b] = IF b = a THEN x ELSE appt[b]
        /\ a \in Rows' /\ \A b \in Appts \ {a} : b \in Rows' <=> b \in Rows
    BY SentinelAssumption DEF TypeOK, Store, Rows
  <1>2. ASSUME NEW b \in Appts \ {a}
        PROVE  Held'[b] = Held[b]
    BY <1>1 DEF Held, HeldBy
  <1>3. ASSUME NEW b \in Appts \ {a}
        PROVE  Held'[a] \cap Held[b] = {}
    <2> SUFFICES ASSUME NEW p, NEW t, <<p, t>> \in Held'[a], <<p, t>> \in Held[b]
                 PROVE  FALSE
      BY DEF Ledger!TypeOK, Held, HeldBy
    <2>1. /\ b \in Rows /\ appt[b].status # "CANCELLED"
          /\ p = appt[b].prof /\ t \in appt[b].start..(appt[b].end - 1)
      BY <1>3 DEF Held, HeldBy
    <2>2. /\ x.status # "CANCELLED"
          /\ p = x.prof /\ t \in x.start..(x.end - 1)
      BY <1>1 DEF Held, HeldBy
    <2>3. appt[b] \in Appointment
      BY <2>1, RowIsAppointment
    <2>4. RangesMeet(appt[b], x)
      BY <2>1, <2>2, <2>3, TimesAssumption DEF RangesMeet, Overlap, Appointment
    <2>5. QED
      BY <1>3, <2>1, <2>2, <2>4 DEF Store, ExclusionAllows
  <1>4. QED
    BY <1>2, <1>3 DEF Ledger!Claim, Ledger!TypeOK

LEMMA DeletionReleases ==
    ASSUME TypeOK, NEW S \in SUBSET Rows,
           appt' = [a \in Appts |-> IF a \in S THEN Deleted ELSE appt[a]],
           Ledger!TypeOK'
    PROVE  Ledger!Release
  <1>1. ASSUME NEW a \in Appts
        PROVE  Held'[a] \in {Held[a], {}}
    <2>1. CASE a \in S
      BY <2>1 DEF Held, HeldBy, Rows
    <2>2. CASE a \notin S
      BY <2>2 DEF Held, HeldBy, Rows
    <2>3. QED
      BY <2>1, <2>2
  <1>2. QED
    BY <1>1 DEF Ledger!Release, Ledger!TypeOK

\* AppointmentsService, over its tables and among the other writers, implements
\* the ledger: every write is one exclusive claim, one release, or holds and
\* frees nothing.
THEOREM ImplementsLedger == Spec => AgendaSpec
  <1>1. Init => Ledger!Init
    BY DEF Init, Ledger!Init, Held, HeldBy, Rows
  <1>2. TypeOK' => Ledger!TypeOK'
    BY HeldType, PTL
  <1>3. TypeOK /\ TypeOK' /\ [Next]_vars => [Ledger!Next]_Held
    <2> SUFFICES ASSUME TypeOK, TypeOK', [Next]_vars
                 PROVE  [Ledger!Next]_Held
      OBVIOUS
    <2> USE <1>2
    <2>1. CASE appt' = appt
      BY <2>1 DEF Held, HeldBy, Rows
    <2>2. ASSUME NEW a \in Appts, NEW x \in Appointment, Store(a, x)
          PROVE  Ledger!Next
      BY <2>2, StoreClaims DEF Ledger!Next
    <2>3. ASSUME NEW S \in SUBSET Rows,
                 appt' = [a \in Appts |-> IF a \in S THEN Deleted ELSE appt[a]]
          PROVE  Ledger!Next
      BY <2>3, DeletionReleases DEF Ledger!Next
    <2>4. QED
      BY <2>1, <2>2, <2>3, TableSteps
  <1>4. QED
    BY <1>1, <1>3, TypeCorrect, PTL DEF Spec, AgendaSpec, Ledger!Spec

\* What the ledger promises, and so what the agenda keeps: no cell, an instant of
\* a professional's time, ever has two holders.
THEOREM LedgerExclusive == AgendaSpec => []Ledger!Exclusive
  <1>1. Ledger!Init => Ledger!Exclusive
    BY DEF Ledger!Init, Ledger!Exclusive
  <1>2. Ledger!Exclusive /\ [Ledger!Next]_Held => Ledger!Exclusive'
    <2> SUFFICES ASSUME Ledger!Exclusive, [Ledger!Next]_Held
                 PROVE  Ledger!Exclusive'
      OBVIOUS
    <2>1. ASSUME NEW a \in Appts, Ledger!Claim(a)
          PROVE  Ledger!Exclusive'
      BY <2>1 DEF Ledger!Claim, Ledger!Exclusive
    <2>2. CASE Ledger!Release
      BY <2>2 DEF Ledger!Release, Ledger!Exclusive
    <2>3. CASE Held' = Held
      BY <2>3 DEF Ledger!Exclusive
    <2>4. QED
      BY <2>1, <2>2, <2>3 DEF Ledger!Next
  <1>3. QED
    BY <1>1, <1>2, PTL DEF AgendaSpec, Ledger!Spec
-----------------------------------------------------------------------------
(* Checks before writes *)

\* Everything a request has in its way is a conflict still, and each check it
\* passed has shown that there is none of its kind.
WayInv ==
    \A r \in Requests : req[r] # Idle =>
        /\ inTheWay[r] \subseteq Conflicts(req[r])
        /\ req[r].pc = "checkBlocks" => inTheWay[r] \cap Appts = {}
        /\ req[r].pc = "write" => inTheWay[r] = {}

\* A conflicting row that did not change is in conflict still.
LEMMA ConflictStays ==
    ASSUME NEW q, NEW S, S \subseteq Conflicts(q),
           \A a \in S \cap Appts : appt'[a] = appt[a],
           \A b \in S \cap Blocks : block'[b] = block[b]
    PROVE  S \subseteq Conflicts(q)'
  BY DEF Conflicts, ActiveRows, Rows, BlockRows, Overlap

\* A step that touches the rows of S, and at most ends requests, keeps WayInv.
LEMMA TouchKeepsWay ==
    ASSUME TypeOK, WayInv, NEW S,
           \A o \in Requests : \/ req'[o] = Idle
                               \/ req'[o] = req[o] /\ inTheWay'[o] = inTheWay[o] \ S,
           \A a \in Appts \ S : appt'[a] = appt[a],
           \A b \in Blocks \ S : block'[b] = block[b]
    PROVE  WayInv'
  <1> SUFFICES ASSUME NEW o \in Requests, req'[o] # Idle
               PROVE  /\ inTheWay'[o] \subseteq Conflicts(req[o])'
                      /\ req'[o].pc = "checkBlocks" => inTheWay'[o] \cap Appts = {}
                      /\ req'[o].pc = "write" => inTheWay'[o] = {}
    BY DEF WayInv
  <1>1. req'[o] = req[o] /\ inTheWay'[o] = inTheWay[o] \ S
    OBVIOUS
  <1>2. inTheWay'[o] \subseteq Conflicts(req[o])
    BY <1>1 DEF WayInv
  <1>3. inTheWay'[o] \subseteq Conflicts(req[o])'
    BY <1>1, <1>2, ConflictStays
  <1>4. QED
    BY <1>1, <1>3 DEF WayInv

LEMMA BeginKeepsWay ==
    ASSUME TypeOK, WayInv, NEW r \in Requests, NEW q,
           q.pc = "checkAppointments", Begin(r, q)
    PROVE  WayInv'
  <1> SUFFICES ASSUME NEW o \in Requests, req'[o] # Idle
               PROVE  /\ inTheWay'[o] \subseteq Conflicts(req[o])'
                      /\ req'[o].pc = "checkBlocks" => inTheWay'[o] \cap Appts = {}
                      /\ req'[o].pc = "write" => inTheWay'[o] = {}
    BY DEF WayInv
  <1>1. CASE o = r
    <2>1. req'[o] = q /\ inTheWay'[o] = Conflicts(q)
      BY <1>1 DEF Begin, TypeOK
    <2>2. inTheWay'[o] \subseteq Conflicts(req[o])'
      BY <2>1, ConflictStays DEF Begin
    <2>3. QED
      BY <2>1, <2>2
  <1>2. CASE o # r
    <2>1. req'[o] = req[o] /\ inTheWay'[o] = inTheWay[o]
      BY <1>2 DEF Begin, TypeOK
    <2>2. inTheWay'[o] \subseteq Conflicts(req[o])'
      BY <2>1, ConflictStays DEF Begin, WayInv
    <2>3. QED
      BY <2>1, <2>2 DEF WayInv
  <1>3. QED
    BY <1>1, <1>2

\* A request goes on only when its check has shown that nothing of the kind it
\* looked at is in its way.
LEMMA AdvanceKeepsWay ==
    ASSUME TypeOK, WayInv, NEW r \in Requests, req[r] # Idle, NEW pc, Advance(r, pc),
           UNCHANGED <<appt, block>>,
           inTheWay[r] \cap Appts = {}, pc = "write" => inTheWay[r] = {}
    PROVE  WayInv'
  <1> SUFFICES ASSUME NEW o \in Requests, req'[o] # Idle
               PROVE  /\ inTheWay'[o] \subseteq Conflicts(req[o])'
                      /\ req'[o].pc = "checkBlocks" => inTheWay'[o] \cap Appts = {}
                      /\ req'[o].pc = "write" => inTheWay'[o] = {}
    BY DEF WayInv
  <1>1. CASE o = r
    <2>1. req[r] \in Pending
      BY PendingIsPending
    <2>2. /\ req'[o] = [req[r] EXCEPT !.pc = pc]
          /\ inTheWay'[o] = inTheWay[o]
      BY <1>1 DEF Advance, TypeOK
    <2>3. /\ req'[o].op = req[r].op /\ req'[o].prof = req[r].prof
          /\ req'[o].start = req[r].start /\ req'[o].end = req[r].end
          /\ req'[o].target = req[r].target /\ req'[o].pc = pc
      BY <2>1, <2>2 DEF Pending
    <2>4. Conflicts(req[o])' = Conflicts(req[r])
      BY <2>3 DEF Conflicts, ActiveRows, Rows, BlockRows, Overlap
    <2>5. QED
      BY <1>1, <2>2, <2>3, <2>4 DEF WayInv
  <1>2. CASE o # r
    <2>1. req'[o] = req[o] /\ inTheWay'[o] = inTheWay[o]
      BY <1>2 DEF Advance, TypeOK
    <2>2. inTheWay'[o] \subseteq Conflicts(req[o])'
      BY <2>1, ConflictStays DEF WayInv
    <2>3. QED
      BY <2>1, <2>2 DEF WayInv
  <1>3. QED
    BY <1>1, <1>2

\* The query of the appointments.
LEMMA CheckAppointmentsKeepsWay ==
    ASSUME TypeOK, WayInv, NEW r \in Requests, CheckAppointments(r)
    PROVE  WayInv'
  <1>1. req[r] # Idle
    BY DEF CheckAppointments, Idle
  <1>2. CASE Finish(r, {})
    BY <1>2, TouchKeepsWay DEF Finish, CheckAppointments, TypeOK
  <1>3. CASE ~ \E a \in ActiveRows \ {req[r].target} : Overlap(appt[a], req[r])
    <2>1. Advance(r, IF req[r].op = "block" THEN "write" ELSE "checkBlocks")
      BY <1>3 DEF CheckAppointments
    <2>2. /\ inTheWay[r] \subseteq BlockRows
          /\ req[r].op = "block" => inTheWay[r] = {}
      BY <1>1, <1>3 DEF WayInv, Conflicts
    <2>3. inTheWay[r] \cap Appts = {}
      BY <2>2, SentinelAssumption DEF BlockRows
    <2>4. QED
      BY <1>1, <2>1, <2>2, <2>3, AdvanceKeepsWay DEF CheckAppointments
  <1>4. QED
    BY <1>2, <1>3 DEF CheckAppointments

\* The query of the blocks.
LEMMA CheckBlocksKeepsWay ==
    ASSUME TypeOK, WayInv, NEW r \in Requests, CheckBlocks(r)
    PROVE  WayInv'
  <1>1. req[r] # Idle
    BY DEF CheckBlocks, Idle
  <1>2. CASE Finish(r, {})
    BY <1>2, TouchKeepsWay DEF Finish, CheckBlocks, TypeOK
  <1>3. CASE ~ \E b \in BlockRows : Overlap(block[b], req[r])
    <2>1. Advance(r, "write")
      BY <1>3 DEF CheckBlocks
    <2>2. inTheWay[r] \subseteq Appts /\ inTheWay[r] \cap Appts = {}
      BY <1>1, <1>3 DEF WayInv, Conflicts, ActiveRows, Rows, CheckBlocks
    <2>3. QED
      BY <1>1, <2>1, <2>2, AdvanceKeepsWay DEF CheckBlocks
  <1>4. QED
    BY <1>2, <1>3 DEF CheckBlocks

LEMMA RequestKeepsWay ==
    ASSUME TypeOK, WayInv, NEW r \in Requests, RequestStep(r)
    PROVE  WayInv'
  <1>1. CASE StartCreate(r) \/ StartReschedule(r) \/ StartBlock(r)
    <2>1. PICK q : q.pc = "checkAppointments" /\ Begin(r, q)
      BY <1>1 DEF StartCreate, StartReschedule, StartBlock
    <2>2. QED
      BY <2>1, BeginKeepsWay
  <1>2. CASE WriteCreate(r)
    <2>1. PICK a \in Appts :
              /\ Finish(r, {a})
              /\ \E x : Store(a, x)
      BY <1>2 DEF WriteCreate
    <2>2. \A b \in Appts \ {a} : appt'[b] = appt[b]
      BY <2>1 DEF Store, TypeOK
    <2>3. QED
      BY <1>2, <2>1, <2>2, TouchKeepsWay DEF WriteCreate, Finish, TypeOK
  <1>3. CASE WriteReschedule(r)
    <2>1. /\ Finish(r, {req[r].target})
          /\ \E x : Store(req[r].target, x)
      BY <1>3 DEF WriteReschedule
    <2>2. \A b \in Appts \ {req[r].target} : appt'[b] = appt[b]
      BY <2>1 DEF Store, TypeOK
    <2>3. QED
      BY <1>3, <2>1, <2>2, TouchKeepsWay DEF WriteReschedule, Finish, TypeOK
  <1>4. CASE WriteBlock(r)
    <2>1. PICK b \in Blocks :
              /\ Finish(r, {b})
              /\ \A c \in Blocks \ {b} : block'[c] = block[c]
      BY <1>4 DEF WriteBlock, TypeOK
    <2>2. QED
      BY <1>4, <2>1, TouchKeepsWay DEF WriteBlock, Finish, TypeOK
  <1>5. CASE FailRequest(r)
    BY <1>5, TouchKeepsWay DEF FailRequest, Finish, TypeOK
  <1>6. QED
    BY <1>1, <1>2, <1>3, <1>4, <1>5, CheckAppointmentsKeepsWay, CheckBlocksKeepsWay
       DEF RequestStep

LEMMA ElsewhereKeepsWay ==
    ASSUME TypeOK, WayInv,
           \/ Cancel \/ Confirm \/ Complete \/ MarkNoShow
           \/ DeleteBlock \/ ReconcileCancelled \/ ReconcileMoved
           \/ UpsertExternalBlock \/ DeleteExternalBlock
           \/ ImportFromGoogle \/ RemoveClient
    PROVE  WayInv'
  <1>1. PICK S : /\ Touch(S) /\ UNCHANGED req
                 /\ \A a \in Appts \ S : appt'[a] = appt[a]
                 /\ \A b \in Blocks \ S : block'[b] = block[b]
    <2>1. ASSUME NEW status, SetStatus(status)
          PROVE  \E S : /\ Touch(S) /\ UNCHANGED req
                        /\ \A a \in Appts \ S : appt'[a] = appt[a]
                        /\ \A b \in Blocks \ S : block'[b] = block[b]
      BY <2>1 DEF SetStatus, Store, TypeOK
    <2>2. ASSUME NEW T, DropBlock(T)
          PROVE  \E S : /\ Touch(S) /\ UNCHANGED req
                        /\ \A a \in Appts \ S : appt'[a] = appt[a]
                        /\ \A b \in Blocks \ S : block'[b] = block[b]
      BY <2>2 DEF DropBlock, TypeOK
    <2>3. CASE ReconcileMoved
      BY <2>3 DEF ReconcileMoved, Store, TypeOK
    <2>4. CASE UpsertExternalBlock
      BY <2>4 DEF UpsertExternalBlock, TypeOK
    <2>5. CASE ImportFromGoogle
      BY <2>5 DEF ImportFromGoogle, Store, TypeOK
    <2>6. CASE RemoveClient
      BY <2>6 DEF RemoveClient, TypeOK
    <2>7. QED
      BY <2>1, <2>2, <2>3, <2>4, <2>5, <2>6
         DEF Cancel, Confirm, Complete, MarkNoShow, ReconcileCancelled,
             DeleteBlock, DeleteExternalBlock
  <1>2. QED
    BY <1>1, TouchKeepsWay DEF Touch

\* A request about to write has nothing in its way that stood there, unchanged,
\* since it began: however many requests and other writers there are.
THEOREM StandingRowsAreRespected == Spec => []StandingRowsRespected
  <1>1. Init => WayInv
    BY DEF Init, WayInv
  <1>2. TypeOK /\ WayInv /\ [Next]_vars => WayInv'
    <2> SUFFICES ASSUME TypeOK, WayInv, [Next]_vars
                 PROVE  WayInv'
      OBVIOUS
    <2>1. CASE UNCHANGED vars
      <3>1. \A o \in Requests : req'[o] = req[o] /\ inTheWay'[o] = inTheWay[o] \ {}
        BY <2>1 DEF vars
      <3>2. QED
        BY <2>1, <3>1, TouchKeepsWay DEF vars
    <2>2. QED
      BY <2>1, RequestKeepsWay, ElsewhereKeepsWay DEF Next
  <1>3. WayInv => StandingRowsRespected
    BY DEF WayInv, StandingRowsRespected
  <1>4. QED
    BY <1>1, <1>2, <1>3, TypeCorrect, PTL DEF Spec
=============================================================================
