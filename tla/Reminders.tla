----------------------------- MODULE Reminders -----------------------------
(***************************************************************************)
(* notifications: the listener that keeps the reminders of an appointment, *)
(* the follow-up and the re-engagement as delayed jobs, and the worker     *)
(* that sends them.                                                        *)
(*                                                                         *)
(* A job's id is made of the appointment and the kind of message, and a    *)
(* finished job keeps its id: adding a job whose id is in use is ignored,  *)
(* and removing the job that is running is refused.  Listeners of the same *)
(* appointment interleave with each other and with the worker.             *)
(*                                                                         *)
(* Data left out: texts, templates, the columns remindedAt (nobody reads   *)
(* them), why a client's risk is high, the wait between two attempts, that *)
(* the other messages have fewer attempts.  Every client has a number.     *)
(* What happens to a message once it is queued is not part of this module. *)
(***************************************************************************)
EXTENDS Integers, FiniteSets

CONSTANTS Appts,
          Windows,      \* the reminders: 24 h, 1 h and, for clients at risk, 3 h before
          Extra,        \* the one for clients at risk
          Lead,         \* how long before the appointment each one is sent
          AfterDelay,   \* how long after the visit the other messages are sent
          Handlers,     \* bound: listeners at work at the same time
          MaxTime,      \* bound: the horizon
          MaxAttempts,  \* attempts of a job
          MaxEdits,     \* bound: changes made by people
          MaxFailures,  \* bound: failed attempts and lost calls
          Emitters,     \* what the emitter may do with a list of names, see heard
          Absent,       \* id not used yet
          Deleted,      \* id of a row that was deleted
          None          \* no job has this id

ASSUME NumbersAssumption ==
    /\ MaxTime \in Nat /\ AfterDelay \in Nat
    /\ MaxAttempts \in Nat \ {0} /\ MaxEdits \in Nat /\ MaxFailures \in Nat
    /\ Extra \in Windows /\ Windows # {Extra} /\ Lead \in [Windows -> Nat \ {0}]

ASSUME EmittersAssumption == Emitters \subseteq BOOLEAN

VARIABLES
    heard,      \* external: whether the emitter calls a listener that is registered
                \* on a list of names, as onScheduleChanged is, for each of the names
    row,        \* the table appointments
    job,        \* the queue notifications, by id
    handler,    \* what each listener is about to do
    worker,     \* what the worker is about to do
    now,
    told,       \* history: the times each reminder has told the client
    disturbed,  \* history: appointments something went wrong with (see below)
    edits, failures

vars == <<heard, row, job, handler, worker, now, told, disturbed, edits, failures>>
-----------------------------------------------------------------------------
Times == 0..MaxTime

\* PENDING: SCHEDULED or CONFIRMED.
Row == [start: Times, status: {"PENDING", "COMPLETED", "NO_SHOW", "CANCELLED"}]

\* The messages after the visit: post-service-followup and no-show-followup.
After == {"followup", "noshow"}
Kinds == Windows \cup After

\* done: completed, or failed for good.  The id stays in use.
Job == [due: 0..(MaxTime + AfterDelay), left: 1..MaxAttempts,
        state: {"waiting", "active", "done"}]

ASSUME SentinelAssumption ==
    /\ Windows \cap After = {}
    /\ Absent # Deleted /\ {Absent, Deleted} \cap Row = {} /\ None \notin Job

Idle == [pc |-> "idle"]

\* scheduleReminders and cancelReminders, with the start of the payload.
Reminding == [pc: {"remove", "add"}, appt: Appts, start: Times,
              again: BOOLEAN, todo: SUBSET Windows]

\* scheduleFollowUp and scheduleNoShowReengagement.
Planning == [pc: {"after"}, appt: Appts, kind: After]

\* The worker, having read the row.
Sending == [pc: {"send", "mark"}, appt: Appts, kind: Kinds, start: Times]

\* What the steps change.
Typed ==
    /\ row \in [Appts -> Row \cup {Absent, Deleted}]
    /\ job \in [Appts \X Kinds -> Job \cup {None}]
    /\ handler \in [Handlers -> Reminding \cup Planning \cup {Idle}]
    /\ worker \in Sending \cup {Idle}
    /\ now \in Times
    /\ told \in [Appts \X Windows -> SUBSET Times]
    /\ disturbed \subseteq Appts
    /\ edits \in 0..MaxEdits /\ failures \in 0..MaxFailures

TypeOK == heard \in Emitters /\ Typed

Rows == {a \in Appts : row[a] \notin {Absent, Deleted}}

IsIn(a, k, state) == job[<<a, k>>] # None /\ job[<<a, k>>].state = state

\* Listener h is at the reminders of a.
At(h, a) == handler[h].pc \in {"remove", "add"} /\ handler[h].appt = a

Init ==
    /\ heard \in Emitters
    /\ row = [a \in Appts |-> Absent]
    /\ job = [i \in Appts \X Kinds |-> None]
    /\ handler = [h \in Handlers |-> Idle]
    /\ worker = Idle
    /\ now = 0
    /\ told = [i \in Appts \X Windows |-> {}]
    /\ disturbed = {}
    /\ edits = 0 /\ failures = 0

Edit == edits < MaxEdits /\ edits' = edits + 1
Fail == failures < MaxFailures /\ failures' = failures + 1
-----------------------------------------------------------------------------
(* AppointmentsService writes a row and emits an event *)

\* Mutant of Cancels: only the windows every client has.
CancelsUsual == Windows \ {Extra}

\* ALL_POSSIBLE_WINDOWS_HOURS: what cancelReminders looks for.
Cancels == Windows

\* A listener starts with the row as its request wrote it.  Two of them at the
\* reminders of one appointment disturb each other.
Announce(a, q) ==
    /\ \E h \in Handlers : handler[h] = Idle
    /\ handler' = [handler EXCEPT ![CHOOSE h \in Handlers : handler[h] = Idle] = q]
    /\ disturbed' = IF q.pc = "remove" /\ \E h \in Handlers : At(h, a)
                    THEN disturbed \cup {a} ELSE disturbed

Write(a, r, q) ==
    /\ Edit
    /\ row' = [row EXCEPT ![a] = r]
    /\ Announce(a, q)
    /\ UNCHANGED <<job, worker, now, told, failures>>

\* The event of create, reschedule or confirm.  onScheduleChanged is registered
\* on the list of the three: the emitter, without wildcards, takes the list for
\* one name, which nobody emits.
WriteOnTheList(a, r, q) ==
    \/ heard /\ Write(a, r, q)
    \/ /\ ~heard
       /\ Edit
       /\ row' = [row EXCEPT ![a] = r]
       /\ UNCHANGED <<job, handler, worker, now, told, disturbed, failures>>

Reminders(a, r, again) ==
    [pc |-> "remove", appt |-> a, start |-> r.start, again |-> again, todo |-> Cancels]

Create == \E a \in Appts, t \in Times :
    /\ row[a] = Absent
    /\ LET r == [start |-> t, status |-> "PENDING"] IN WriteOnTheList(a, r, Reminders(a, r, TRUE))

Reschedule == \E a \in Rows, t \in Times :
    LET r == [start |-> t, status |-> "PENDING"] IN WriteOnTheList(a, r, Reminders(a, r, TRUE))

Confirm == \E a \in Rows :
    LET r == [row[a] EXCEPT !.status = "PENDING"] IN WriteOnTheList(a, r, Reminders(a, r, TRUE))

Cancel == \E a \in Rows :
    LET r == [row[a] EXCEPT !.status = "CANCELLED"] IN Write(a, r, Reminders(a, r, FALSE))

Complete == \E a \in Rows :
    Write(a, [row[a] EXCEPT !.status = "COMPLETED"],
          [pc |-> "after", appt |-> a, kind |-> "followup"])

MarkNoShow == \E a \in Rows :
    Write(a, [row[a] EXCEPT !.status = "NO_SHOW"],
          [pc |-> "after", appt |-> a, kind |-> "noshow"])

\* The reconciliation and the import of calendar-sync write rows and emit
\* nothing.
WriteFromGoogle == \E a \in Appts, t \in Times, status \in {"PENDING", "COMPLETED", "CANCELLED"} :
    /\ row[a] # Deleted
    /\ a \in Rows => row[a].start = t \/ row[a].status = status
    /\ Edit
    /\ row' = [row EXCEPT ![a] = [start |-> t, status |-> status]]
    /\ disturbed' = disturbed \cup {a}
    /\ UNCHANGED <<job, handler, worker, now, told, failures>>

\* ClientsService.remove: the jobs stay.
RemoveClient == \E a \in Rows :
    /\ Edit
    /\ row' = [row EXCEPT ![a] = Deleted]
    /\ UNCHANGED <<job, handler, worker, now, told, disturbed, failures>>
-----------------------------------------------------------------------------
(* NotificationsListener and NotificationsService *)

Goes(h, q) == handler' = [handler EXCEPT ![h] = q]

\* Both loops come to the window for clients at risk last.
First(todo) == CHOOSE w \in todo : w = Extra => todo = {Extra}

\* cancelReminders, one window: the job goes, unless it is running.  After the
\* last one a cancellation ends, and scheduleReminders reads the score of the
\* client, whatever it is by now.
RemoveOne(h) ==
    /\ handler[h].pc = "remove"
    /\ LET q == handler[h]  w == First(q.todo)  rest == q.todo \ {w}  i == <<q.appt, w>> IN
        /\ \/ rest # {} /\ Goes(h, [q EXCEPT !.todo = rest])
           \/ rest = {} /\ ~q.again /\ Goes(h, Idle)
           \/ /\ rest = {} /\ q.again
              /\ \E W \in {Windows, Windows \ {Extra}} :
                    Goes(h, [q EXCEPT !.pc = "add", !.todo = W])
        /\ IF IsIn(q.appt, w, "active")
           THEN disturbed' = disturbed \cup {q.appt} /\ UNCHANGED job
           ELSE job' = [job EXCEPT ![i] = None] /\ UNCHANGED disturbed
    /\ UNCHANGED <<row, worker, now, told, edits, failures>>

\* queue.add: an id in use is left alone.
Add(a, k, due) ==
    job' = IF job[<<a, k>>] = None
           THEN [job EXCEPT ![<<a, k>>] = [due |-> due, left |-> MaxAttempts, state |-> "waiting"]]
           ELSE job

\* Mutant of Ahead: delay < 0 for delay <= 0.
AheadOrNow(start, w) == start - Lead[w] >= now

\* The moment of reminder w has not come yet: delay > 0.
Ahead(start, w) == start - Lead[w] > now

\* The loop over the windows goes on with the rest, or is over.
LoopGoesOn(h) ==
    LET rest == handler[h].todo \ {First(handler[h].todo)} IN
    Goes(h, IF rest = {} THEN Idle ELSE [handler[h] EXCEPT !.todo = rest])

AddOne(h) ==
    /\ handler[h].pc = "add"
    /\ LoopGoesOn(h)
    /\ LET q == handler[h]  w == First(q.todo) IN
        IF Ahead(q.start, w) THEN Add(q.appt, w, q.start - Lead[w]) ELSE UNCHANGED job
    /\ UNCHANGED <<row, worker, now, told, disturbed, edits, failures>>

\* One add is refused: that is logged, and the loop goes on.
AddFails(h) ==
    /\ handler[h].pc = "add"
    /\ Fail
    /\ LoopGoesOn(h)
    /\ disturbed' = disturbed \cup {handler[h].appt}
    /\ UNCHANGED <<row, job, worker, now, told, edits>>

PlanAfter(h) ==
    /\ handler[h].pc = "after"
    /\ Add(handler[h].appt, handler[h].kind, now + AfterDelay)
    /\ Goes(h, Idle)
    /\ UNCHANGED <<row, worker, now, told, disturbed, edits, failures>>

\* Redis or the database does not answer, or the process dies: the listener
\* ends where it is.
HandlerDies(h) ==
    /\ handler[h] # Idle
    /\ Fail
    /\ Goes(h, Idle)
    /\ disturbed' = disturbed \cup {handler[h].appt}
    /\ UNCHANGED <<row, job, worker, now, told, edits>>
-----------------------------------------------------------------------------
(* NotificationsProcessor: one job at a time *)

\* The status an appointment must have for a message of kind k.
Wanted(k) ==
    CASE k = "followup" -> "COMPLETED"
      [] k = "noshow"   -> "NO_SHOW"
      [] OTHER          -> "PENDING"

Finished(i) == [job EXCEPT ![i].state = "done"]

\* loadAppointment: the row decides whether anything is sent, and what it says.
TakeJob(a, k) ==
    /\ worker = Idle
    /\ IsIn(a, k, "waiting") /\ job[<<a, k>>].due <= now
    /\ IF a \in Rows /\ row[a].status = Wanted(k)
       THEN /\ job' = [job EXCEPT ![<<a, k>>].state = "active"]
            /\ worker' = [pc |-> "send", appt |-> a, kind |-> k, start |-> row[a].start]
       ELSE /\ job' = Finished(<<a, k>>)
            /\ UNCHANGED worker
    /\ disturbed' = IF k \in Windows /\ \E h \in Handlers : At(h, a)
                    THEN disturbed \cup {a} ELSE disturbed
    /\ UNCHANGED <<row, handler, now, told, edits, failures>>

\* sendToClient: the message is queued.  The other kinds end here.
Send ==
    /\ worker.pc = "send"
    /\ IF worker.kind \in Windows
       THEN /\ told' = [told EXCEPT ![<<worker.appt, worker.kind>>] = @ \cup {worker.start}]
            /\ worker' = [worker EXCEPT !.pc = "mark"]
            /\ UNCHANGED job
       ELSE /\ worker' = Idle
            /\ job' = Finished(<<worker.appt, worker.kind>>)
            /\ UNCHANGED told
    /\ UNCHANGED <<row, handler, now, disturbed, edits, failures>>

\* The update of remindedAt; of a row that is gone it throws.
Mark ==
    /\ worker.pc = "mark"
    /\ worker.appt \in Rows
    /\ job' = Finished(<<worker.appt, worker.kind>>)
    /\ worker' = Idle
    /\ UNCHANGED <<row, handler, now, told, disturbed, edits, failures>>

\* Mutant of Retried: no attempts option.
RetriedNever(x) == [x EXCEPT !.state = "done"]

\* A failed attempt comes back until there is none left.
Retried(x) ==
    IF x.left > 1 THEN [x EXCEPT !.state = "waiting", !.left = @ - 1] ELSE [x EXCEPT !.state = "done"]

\* An attempt that throws.  A worker that dies counts as one too, though the
\* library bounds the times a job may be found stalled on its own.
AttemptEnds ==
    /\ job' = [job EXCEPT ![<<worker.appt, worker.kind>>] = Retried(@)]
    /\ worker' = Idle
    /\ UNCHANGED <<row, handler, now, edits>>

\* Before the message was queued: the next attempt will send it.
SendFails ==
    /\ worker.pc = "send"
    /\ Fail
    /\ AttemptEnds
    /\ disturbed' = IF job[<<worker.appt, worker.kind>>].left = 1
                    THEN disturbed \cup {worker.appt} ELSE disturbed
    /\ UNCHANGED told

\* After the message was queued: the next attempt will send it again.
FailsAfterSend ==
    /\ worker.pc = "mark"
    /\ Fail
    /\ AttemptEnds
    /\ disturbed' = disturbed \cup {worker.appt}
    /\ UNCHANGED told

MarkRefused ==
    /\ worker.pc = "mark" /\ worker.appt \notin Rows
    /\ AttemptEnds
    /\ UNCHANGED <<told, disturbed, failures>>

Tick ==
    /\ now < MaxTime /\ now' = now + 1
    /\ UNCHANGED <<row, job, handler, worker, told, disturbed, edits, failures>>

People ==
    \/ Create \/ Reschedule \/ Confirm \/ Cancel \/ Complete \/ MarkNoShow
    \/ WriteFromGoogle \/ RemoveClient

\* The server's own steps, and the passing of time.
Progress ==
    \/ \E h \in Handlers :
        RemoveOne(h) \/ AddOne(h) \/ PlanAfter(h)
    \/ \E a \in Appts, k \in Kinds : TakeJob(a, k)
    \/ Send \/ Mark \/ MarkRefused
    \/ Tick

Works == Progress /\ UNCHANGED heard

Losses == SendFails \/ FailsAfterSend \/ \E h \in Handlers : AddFails(h) \/ HandlerDies(h)

Next == (People \/ Progress \/ Losses) /\ UNCHANGED heard

Spec == Init /\ [][Next]_vars

\* The process runs and BullMQ hands out the jobs that are due.
FairSpec == Spec /\ WF_vars(Works)
-----------------------------------------------------------------------------
(* Properties *)

\* What disturbs an appointment: two listeners at its reminders at one time, a
\* reminder that comes due while a listener is at them, a removal of a job that
\* is running, a change from Google that nobody
\* announces, a listener that dies, an add that fails, an attempt that fails
\* after it has sent, attempts that run out.  Nothing else does:

\* The reminders that wait are those of the row as it is: each at its moment
\* before the start, all the usual ones that are still ahead, and none once
\* the appointment is cancelled.  That is where the listener of the new rows is
\* heard; where it is not, no reminder is ever planned, for whatever row.
RemindersInStep ==
    /\ heard => \A a \in Rows \ disturbed : (\A h \in Handlers : ~At(h, a)) =>
           \A w \in Windows :
               /\ (row[a].status = "PENDING" /\ IsIn(a, w, "waiting")) =>
                      job[<<a, w>>].due = row[a].start - Lead[w]
               /\ (row[a].status = "PENDING" /\ w # Extra /\ Ahead(row[a].start, w)) =>
                      IsIn(a, w, "waiting")
               /\ row[a].status = "CANCELLED" => ~IsIn(a, w, "waiting")
    /\ ~heard => \A a \in Appts, w \in Windows : job[<<a, w>>] = None

\* No reminder tells the client the same time twice, though confirming an
\* appointment plans its reminders all over again.
NoSecondReminder ==
    [][\A a \in Appts, w \in Windows :
          (worker # Idle /\ worker.appt = a /\ worker.kind = w /\ Send) =>
              worker.start \notin told[<<a, w>>] \/ a \in disturbed]_vars

\* A reminder that waits for an appointment that nobody touches is sent,
\* failed attempts included.
Untouched(a) ==
    /\ a \in Rows \ disturbed
    /\ row[a].status = "PENDING"
    /\ \A h \in Handlers : ~At(h, a)

StandingRemindersAreSent ==
    \A a \in Appts, w \in Windows :
        (Untouched(a) /\ IsIn(a, w, "waiting"))
            ~> (Untouched(a) => row[a].start \in told[<<a, w>>])

\* What the project's documents say is done: an appointment that stands has the
\* usual reminders that are still ahead in the queue.
RemindersAreQueued ==
    \A a \in Rows \ disturbed, w \in Windows \ {Extra} :
        (row[a].status = "PENDING" /\ Ahead(row[a].start, w) /\ \A h \in Handlers : ~At(h, a)) =>
            IsIn(a, w, "waiting")
=============================================================================
