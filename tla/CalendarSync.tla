---------------------------- MODULE CalendarSync ----------------------------
(***************************************************************************)
(* calendar-sync: the listener that turns appointment events into jobs,    *)
(* the worker that runs them against Google Calendar, the export that a    *)
(* user runs next to it, and the webhook with the incremental sync that    *)
(* brings the changes made in Google back into the CRM.                    *)
(*                                                                         *)
(* One professional.  An appointment is seen as the sync sees it: a slot   *)
(* of time, whether it stands, who wrote it last, and its event in Google. *)
(* Two appointments of one slot are in conflict, and the EXCLUDE           *)
(* constraint refuses the second one.  What a job reads before it calls    *)
(* Google, and what it listed before it reconciles, is kept and used as    *)
(* read: everyone else goes on meanwhile.                                  *)
(*                                                                         *)
(* Left out: the import (in Appointments.tla), all-day events, tokens of   *)
(* OAuth, the circuit breaker (an open one is a failed attempt).           *)
(***************************************************************************)
EXTENDS Naturals, FiniteSets

CONSTANTS Appts,         \* appointment ids
          Events,        \* ids Google gives to the events the CRM inserts
          Externals,     \* ids of the events people make in Google
          Times,         \* slots of the agenda
          Jobs,          \* bound: jobs alive at the same time
          MaxAttempts,   \* attempts of a job (the code: 5)
          MaxEdits,      \* bound: changes made by people, in the CRM or in Google
          MaxFailures,   \* bound: calls, writes and messages that get lost
          Emitters,      \* what the emitter may do with a list of names, see heard
          Absent,        \* id not used yet
          Deleted,       \* id of a row that was deleted
          None           \* null

ASSUME BoundsAssumption ==
    MaxAttempts \in Nat \ {0} /\ MaxEdits \in Nat /\ MaxFailures \in Nat

ASSUME EmittersAssumption == Emitters \subseteq BOOLEAN

VARIABLES
    heard,      \* external: whether the emitter calls a listener that is registered
                \* on a list of names, as onUpsert is, for each of the names
    row,        \* the table appointments
    block,      \* the blocks that mirror external events
    connected,  \* the professional connected a Google account
    jobs,       \* the queue calendar-sync, and the jobs about to be added to it
    upsert,     \* what each caller of upsertEventForAppointment is doing
    sync,       \* what the worker's incremental sync is doing
    exporting,  \* appointments a running export has yet to send
    event,      \* external: the calendar, in Google
    feed,       \* external: the events that changed since the saved syncToken
    token,      \* there is a saved syncToken
    pinged,     \* external: Google has a push notification to deliver
    astray,     \* history: appointments whose last change in the CRM no job
                \* carries to Google, events whose last change no listing shows
                \* or whose block was deleted since they were listed
    edits, failures

vars == <<heard, row, block, connected, jobs, upsert, sync, exporting, event, feed, token,
          pinged, astray, edits, failures>>

crm == <<row, block, connected>>
google == <<event, feed, pinged>>
-----------------------------------------------------------------------------
AllEvents == Events \cup Externals

\* ACTIVE: SCHEDULED or CONFIRMED.  DONE: COMPLETED or NO_SHOW.
Row == [time: Times, status: {"ACTIVE", "DONE", "CANCELLED"},
        source: {"CRM", "GOOGLE"}, event: Events \cup {None}]

\* appt: the crmAppointmentId of its extendedProperties.  by: history, who
\* changed it last.
Event == [appt: Appts \cup {None}, time: Times, live: BOOLEAN, by: {"CRM", "HAND"}]

Job == [kind: {"upsert", "delete", "sync"}, appt: Appts \cup {None},
        event: Events \cup {None}, left: 1..MaxAttempts,
        state: {"announced", "waiting", "active"}]

Idle == [pc |-> "idle"]

\* Read, and about to call Google; then called, and about to save.
Upsert == [pc: {"call", "save"}, appt: Appts, time: Times, event: Events \cup {None},
           new: BOOLEAN]

\* listed: what is left of the answer of events.list.  fresh: what changed
\* after it was taken.  appt, event: the row about to be written, from which event.
Sync == [pc: {"next", "apply"}, listed: SUBSET AllEvents, fresh: SUBSET AllEvents,
         seen: [AllEvents -> Event \cup {Absent}], appt: Appts \cup {None},
         event: Events \cup {None}]

Callers == {"worker", "export"}

\* Ids of different tables, and of Google, differ.
ASSUME IdsAssumption ==
    /\ Appts \cap AllEvents = {} /\ Events \cap Externals = {}
    /\ None \notin Appts \cup AllEvents

\* Null, and what stands for no row and for no event, are none of the records.
ASSUME SentinelAssumption ==
    /\ Absent # Deleted /\ {Absent, Deleted} \cap Row = {}
    /\ Absent \notin Event /\ None \notin Job

\* What the steps change.
Typed ==
    /\ row \in [Appts -> Row \cup {Absent, Deleted}]
    /\ block \in [Externals -> Times \cup {None}]
    /\ {connected, token, pinged} \subseteq BOOLEAN
    /\ jobs \in [Jobs -> Job \cup {None}]
    /\ upsert \in [Callers -> Upsert \cup {Idle}]
    /\ sync = Idle \/ sync \in Sync
    /\ exporting \subseteq Appts
    /\ event \in [AllEvents -> Event \cup {Absent}]
    /\ feed \subseteq AllEvents
    /\ astray \subseteq Appts \cup AllEvents
    /\ edits \in 0..MaxEdits /\ failures \in 0..MaxFailures

TypeOK == heard \in Emitters /\ Typed

Rows == {a \in Appts : row[a] \notin {Absent, Deleted}}

WorkerIdle == \A j \in Jobs : jobs[j] # None => jobs[j].state # "active"

Init ==
    /\ heard \in Emitters
    /\ row = [a \in Appts |-> Absent]
    /\ block = [e \in Externals |-> None]
    /\ connected = FALSE /\ token = FALSE /\ pinged = FALSE
    /\ jobs = [j \in Jobs |-> None]
    /\ upsert = [c \in Callers |-> Idle]
    /\ sync = Idle
    /\ exporting = {}
    /\ event = [e \in AllEvents |-> Absent]
    /\ feed = {}
    /\ astray = {}
    /\ edits = 0 /\ failures = 0

Edit == edits < MaxEdits /\ edits' = edits + 1
Fail == failures < MaxFailures /\ failures' = failures + 1
-----------------------------------------------------------------------------
(* AppointmentsService, and CalendarSyncListener on its events *)

\* The EXCLUDE constraint: no other row that is not CANCELLED has the slot.
SlotFree(a, t) == \A b \in Rows \ {a} : row[b].status # "CANCELLED" => row[b].time # t

\* onUpsert, onCancelled: an appointment whose source is GOOGLE is skipped.
\* onUpsert is registered on [CREATED, RESCHEDULED, CONFIRMED]: the emitter,
\* without wildcards, takes the list for one name, which nobody emits.
Announce(a, r, kind) ==
    IF r.source = "GOOGLE" \/ (kind = "upsert" /\ ~heard)
    THEN /\ astray' = astray \cup {a}
         /\ UNCHANGED jobs
    ELSE /\ \E j \in Jobs :
              /\ jobs[j] = None
              /\ jobs' = [jobs EXCEPT ![j] =
                     [kind |-> kind, appt |-> a,
                      event |-> IF kind = "delete" THEN r.event ELSE None,
                      left |-> MaxAttempts, state |-> "announced"]]
         /\ UNCHANGED astray

\* One update of a row, and the event it emits.
Write(a, r, kind) ==
    /\ Edit
    /\ r.status # "CANCELLED" => SlotFree(a, r.time)
    /\ row' = [row EXCEPT ![a] = r]
    /\ Announce(a, r, kind)
    /\ UNCHANGED <<block, connected, upsert, sync, exporting, google, token, failures>>

Create == \E a \in Appts, t \in Times :
    /\ row[a] = Absent
    /\ Write(a, [time |-> t, status |-> "ACTIVE", source |-> "CRM", event |-> None], "upsert")

Reschedule == \E a \in Rows, t \in Times :
    Write(a, [row[a] EXCEPT !.time = t, !.status = "ACTIVE"], "upsert")

Confirm == \E a \in Rows : Write(a, [row[a] EXCEPT !.status = "ACTIVE"], "upsert")

Cancel == \E a \in Rows : Write(a, [row[a] EXCEPT !.status = "CANCELLED"], "delete")

\* complete, markNoShow: calendar-sync does not listen to their events.
Close == \E a \in Rows :
    /\ Edit
    /\ SlotFree(a, row[a].time)
    /\ row' = [row EXCEPT ![a].status = "DONE"]
    /\ UNCHANGED <<block, connected, jobs, upsert, sync, exporting, google, token,
                   astray, failures>>

\* ClientsService.remove: the row goes, and nobody is told.
RemoveClient == \E a \in Rows :
    /\ Edit
    /\ row' = [row EXCEPT ![a] = Deleted]
    /\ UNCHANGED <<block, connected, jobs, upsert, sync, exporting, google, token,
                   astray, failures>>

\* deleteBlock takes any block, and does not ask whether it mirrors an event.
DeleteBlock == \E e \in Externals :
    /\ block[e] # None
    /\ Edit
    /\ block' = [block EXCEPT ![e] = None]
    /\ astray' = astray \cup {e}
    /\ UNCHANGED <<row, connected, jobs, upsert, sync, exporting, google, token, failures>>

\* safeEnqueue: queue.add, which may fail (Redis is down, the process dies).
Enqueue(j) ==
    /\ jobs[j] # None /\ jobs[j].state = "announced"
    /\ jobs' = [jobs EXCEPT ![j].state = "waiting"]
    /\ UNCHANGED <<crm, upsert, sync, exporting, google, token, astray, edits, failures>>

LoseEnqueue(j) ==
    /\ jobs[j] # None /\ jobs[j].state = "announced"
    /\ Fail
    /\ astray' = astray \cup {jobs[j].appt}
    /\ jobs' = [jobs EXCEPT ![j] = None]
    /\ UNCHANGED <<crm, upsert, sync, exporting, google, token, edits>>
-----------------------------------------------------------------------------
(* The worker: one job at a time *)

Waits(j, kind) ==
    /\ jobs[j] # None
    /\ jobs[j].state = "waiting" /\ jobs[j].kind = kind
    /\ WorkerIdle

Active(j) == jobs[j] # None /\ jobs[j].state = "active"

\* After a failed attempt: back to the queue, or dropped after the last one.
\* A job that waits for its next attempt lets the others pass.
Retried(job) ==
    IF job.left > 1 THEN [job EXCEPT !.state = "waiting", !.left = @ - 1] ELSE None

\* An event changes in Google: it is in the next listing, and Google notifies.
Changes(e, x) ==
    /\ event' = [event EXCEPT ![e] = x]
    /\ feed' = feed \cup {e}
    /\ pinged' = TRUE
    /\ sync' = IF sync = Idle THEN sync ELSE [sync EXCEPT !.fresh = @ \cup {e}]

\* upsertEventForAppointment reads the row, of any status.
Read(c, a) ==
    /\ upsert' = [upsert EXCEPT ![c] = [pc |-> "call", appt |-> a, time |-> row[a].time,
                                        event |-> row[a].event, new |-> row[a].event = None]]
    /\ astray' = astray \ {a}

TakeUpsert(j) ==
    /\ Waits(j, "upsert")
    /\ IF jobs[j].appt \in Rows /\ connected
       THEN /\ Read("worker", jobs[j].appt)
            /\ jobs' = [jobs EXCEPT ![j].state = "active"]
       ELSE /\ jobs' = [jobs EXCEPT ![j] = None]
            /\ astray' = astray \cup {jobs[j].appt}
            /\ UNCHANGED upsert
    /\ UNCHANGED <<crm, sync, exporting, google, token, edits, failures>>

\* events.insert, or events.update with what was read.  An update of an event
\* deleted in Google may bring it back, or be refused (UpsertRefused).
CallGoogle(c) ==
    /\ upsert[c] # Idle /\ upsert[c].pc = "call"
    /\ \E e \in IF upsert[c].new THEN {x \in Events : event[x] = Absent}
                ELSE {upsert[c].event} :
        /\ Changes(e, [appt |-> upsert[c].appt, time |-> upsert[c].time, live |-> TRUE,
                       by |-> "CRM"])
        /\ upsert' = [upsert EXCEPT ![c].pc = "save", ![c].event = e]
    /\ UNCHANGED <<crm, jobs, exporting, token, astray, edits, failures>>

\* Mutant of Leave: the export forgets that the row had its turn.
LeaveListed(c) ==
    /\ upsert' = [upsert EXCEPT ![c] = Idle]
    /\ UNCHANGED exporting

\* The attempt of caller c is over.
Leave(c) ==
    /\ upsert' = [upsert EXCEPT ![c] = Idle]
    /\ exporting' = IF c = "export" THEN exporting \ {upsert[c].appt} ELSE exporting

\* The new googleEventId, then lastSyncAt.
SaveEvent(c) ==
    /\ upsert[c] # Idle /\ upsert[c].pc = "save"
    /\ IF upsert[c].new
       THEN /\ upsert[c].appt \in Rows
            /\ row' = [row EXCEPT ![upsert[c].appt].event = upsert[c].event]
       ELSE UNCHANGED row
    /\ Leave(c)
    /\ jobs' = [j \in Jobs |-> IF c = "worker" /\ Active(j) THEN None ELSE jobs[j]]
    /\ UNCHANGED <<block, connected, sync, google, token, astray, edits, failures>>

\* It throws.  The worker's job is tried again; the export goes on with the next.
GiveUp(c) ==
    /\ Leave(c)
    /\ jobs' = [j \in Jobs |-> IF c = "worker" /\ Active(j) THEN Retried(jobs[j]) ELSE jobs[j]]
    /\ astray' = IF c = "worker" /\ \E j \in Jobs : Active(j) /\ jobs[j].left > 1
                 THEN astray ELSE astray \cup {upsert[c].appt}
    /\ UNCHANGED <<crm, sync, google, token, edits>>

\* Google or the database does not answer, before or after it did the work; or
\* the process dies, and the job is found stalled.
UpsertFails(c) ==
    /\ upsert[c] # Idle
    /\ Fail
    /\ GiveUp(c)

UpsertRefused(c) ==
    /\ upsert[c] # Idle
    /\ \/ upsert[c].pc = "call" /\ ~upsert[c].new /\ ~event[upsert[c].event].live
       \/ upsert[c].pc = "save" /\ upsert[c].new /\ upsert[c].appt \notin Rows
    /\ GiveUp(c)
    /\ UNCHANGED failures

\* deleteEventForAppointment: the event id is the one the row had when it was
\* cancelled.  404 and 410 count as done.
Removes(job) ==
    IF job.event # None /\ job.appt \in Rows /\ connected /\ event[job.event].live
    THEN Changes(job.event, [event[job.event] EXCEPT !.live = FALSE, !.by = "CRM"])
    ELSE UNCHANGED <<google, sync>>

DeleteEvent(j) ==
    /\ Waits(j, "delete")
    /\ Removes(jobs[j])
    /\ jobs' = [jobs EXCEPT ![j] = None]
    /\ UNCHANGED <<crm, upsert, exporting, token, astray, edits, failures>>

DeleteFails(j) ==
    /\ Waits(j, "delete") /\ jobs[j].event # None
    /\ Fail
    /\ Removes(jobs[j]) \/ UNCHANGED <<google, sync>>
    /\ jobs' = [jobs EXCEPT ![j] = Retried(jobs[j])]
    /\ astray' = IF jobs[j].left > 1 THEN astray ELSE astray \cup {jobs[j].appt}
    /\ UNCHANGED <<crm, upsert, exporting, token, edits>>
-----------------------------------------------------------------------------
(* The webhook and the incremental sync *)

\* The webhook adds a job, whatever the notification is about.
Webhook ==
    /\ pinged /\ pinged' = FALSE
    /\ IF connected
       THEN \E j \in Jobs :
                /\ jobs[j] = None
                /\ jobs' = [jobs EXCEPT ![j] =
                       [kind |-> "sync", appt |-> None, event |-> None,
                        left |-> MaxAttempts, state |-> "waiting"]]
       ELSE UNCHANGED jobs
    /\ UNCHANGED <<crm, upsert, sync, exporting, event, feed, token, astray, edits, failures>>

LosePing ==
    /\ pinged /\ pinged' = FALSE
    /\ Fail
    /\ UNCHANGED <<crm, jobs, upsert, sync, exporting, event, feed, token, astray, edits>>

\* events.list: with a syncToken everything that changed since, deleted events
\* included; without one every event there is, and the deleted ones are not.
TakeSync(j) ==
    /\ Waits(j, "sync")
    /\ LET listed == {e \in feed : token \/ event[e].live}
       IN  sync' = [pc |-> "next", listed |-> listed, fresh |-> {},
                    seen |-> [e \in AllEvents |-> IF e \in listed THEN event[e] ELSE Absent],
                    appt |-> None, event |-> None]
    /\ astray' = astray \cup {e \in feed : ~token /\ ~event[e].live}
    /\ jobs' = [jobs EXCEPT ![j].state = "active"]
    /\ UNCHANGED <<crm, upsert, exporting, google, token, edits, failures>>

\* events.list answers 410: the syncToken is dropped, the job is done.
TokenExpires(j) ==
    /\ Waits(j, "sync") /\ token
    /\ Fail
    /\ token' = FALSE
    /\ feed' = {e \in AllEvents : event[e] # Absent}
    /\ jobs' = [jobs EXCEPT ![j] = None]
    /\ UNCHANGED <<crm, upsert, sync, exporting, event, pinged, astray, edits>>

\* reconcileIncomingEvent of an event with a crmAppointmentId: what it reads in
\* the row decides what it will write.
ReconcileOurs(e) ==
    LET x == sync.seen[e] IN
    /\ x.appt # None
    /\ sync' = IF x.appt \in Rows /\ (~x.live \/ x.time # row[x.appt].time)
               THEN [sync EXCEPT !.pc = "apply", !.listed = @ \ {e},
                                 !.appt = x.appt, !.event = e]
               ELSE [sync EXCEPT !.listed = @ \ {e}]
    /\ UNCHANGED <<block, astray>>

\* reconcileIncomingEvent of any other event: its block.
ReconcileExternal(e) ==
    LET x == sync.seen[e] IN
    /\ x.appt = None
    /\ block' = [block EXCEPT ![e] = IF x.live THEN x.time ELSE None]
    /\ astray' = astray \ {e}
    /\ sync' = [sync EXCEPT !.listed = @ \ {e}]

Reconcile ==
    /\ sync # Idle /\ sync.pc = "next"
    /\ \E e \in sync.listed : ReconcileOurs(e) \/ ReconcileExternal(e)
    /\ UNCHANGED <<row, connected, jobs, upsert, exporting, google, token, edits, failures>>

\* What the listed event makes of row r.
Reconciled(r, x) ==
    IF x.live THEN [r EXCEPT !.time = x.time, !.source = "GOOGLE"]
    ELSE [r EXCEPT !.status = "CANCELLED", !.source = "GOOGLE"]

\* The constraint accepts what the reconciliation is about to write.
Accepted ==
    /\ sync.appt \in Rows
    /\ LET r == Reconciled(row[sync.appt], sync.seen[sync.event])
       IN  r.status # "CANCELLED" => SlotFree(sync.appt, r.time)

ApplyChange ==
    /\ sync # Idle /\ sync.pc = "apply"
    /\ Accepted
    /\ row' = [row EXCEPT ![sync.appt] = Reconciled(@, sync.seen[sync.event])]
    /\ sync' = [sync EXCEPT !.pc = "next", !.appt = None, !.event = None]
    /\ UNCHANGED <<block, connected, jobs, upsert, exporting, google, token, astray,
                   edits, failures>>

\* Mutant of SyncEnds: the token saved stands for the end of the sync.
SyncEndsLate ==
    /\ sync # Idle /\ sync.pc = "next" /\ sync.listed = {}
    /\ feed' = {}
    /\ token' = TRUE
    /\ sync' = Idle
    /\ jobs' = [j \in Jobs |-> IF Active(j) THEN None ELSE jobs[j]]
    /\ UNCHANGED <<crm, upsert, exporting, event, pinged, astray, edits, failures>>

\* The new syncToken is saved: it stands for the moment of the listing.
SyncEnds ==
    /\ sync # Idle /\ sync.pc = "next" /\ sync.listed = {}
    /\ feed' = sync.fresh
    /\ token' = TRUE
    /\ sync' = Idle
    /\ jobs' = [j \in Jobs |-> IF Active(j) THEN None ELSE jobs[j]]
    /\ UNCHANGED <<crm, upsert, exporting, event, pinged, astray, edits, failures>>

\* Mutant of SyncStops: the new syncToken is saved in a finally.
SyncStopsFinally ==
    /\ sync' = Idle
    /\ jobs' = [j \in Jobs |-> IF Active(j) THEN Retried(jobs[j]) ELSE jobs[j]]
    /\ feed' = sync.fresh
    /\ UNCHANGED <<crm, upsert, exporting, event, pinged, token, astray, edits>>

\* It throws half way: the old syncToken stays, and so does what it did.
SyncStops ==
    /\ sync' = Idle
    /\ jobs' = [j \in Jobs |-> IF Active(j) THEN Retried(jobs[j]) ELSE jobs[j]]
    /\ UNCHANGED <<crm, upsert, exporting, google, token, astray, edits>>

SyncFails ==
    /\ sync # Idle
    /\ Fail
    /\ SyncStops

\* The constraint refuses the write, or the row is gone since it was read.
SyncRefused ==
    /\ sync # Idle /\ sync.pc = "apply" /\ ~Accepted
    /\ SyncStops
    /\ UNCHANGED failures
-----------------------------------------------------------------------------
(* Connecting, exporting, and the people who use Google Calendar *)

Connect ==
    /\ ~connected /\ connected' = TRUE
    /\ UNCHANGED <<row, block, jobs, upsert, sync, exporting, google, token, astray,
                   edits, failures>>

\* exportToGoogle: the rows that have no event yet, one after the other.
StartExport ==
    /\ connected /\ exporting = {}
    /\ Edit
    /\ exporting' = {a \in Rows : row[a].event = None /\ row[a].status # "CANCELLED"}
    /\ UNCHANGED <<crm, jobs, upsert, sync, google, token, astray, failures>>

ExportNext ==
    /\ upsert["export"] = Idle
    /\ \E a \in exporting :
        IF a \in Rows THEN Read("export", a) /\ UNCHANGED exporting
        ELSE exporting' = exporting \ {a} /\ UNCHANGED <<upsert, astray>>
    /\ UNCHANGED <<crm, jobs, sync, google, token, edits, failures>>

\* Someone makes, moves or deletes an event in Google Calendar.
HandCreate == \E e \in Externals, t \in Times :
    /\ event[e] = Absent
    /\ Edit
    /\ Changes(e, [appt |-> None, time |-> t, live |-> TRUE, by |-> "HAND"])
    /\ UNCHANGED <<crm, jobs, upsert, exporting, token, astray, failures>>

HandMove == \E e \in AllEvents, t \in Times :
    /\ event[e] # Absent /\ event[e].live /\ event[e].time # t
    /\ Edit
    /\ Changes(e, [event[e] EXCEPT !.time = t, !.by = "HAND"])
    /\ UNCHANGED <<crm, jobs, upsert, exporting, token, astray, failures>>

HandDelete == \E e \in AllEvents :
    /\ event[e] # Absent /\ event[e].live
    /\ Edit
    /\ Changes(e, [event[e] EXCEPT !.live = FALSE, !.by = "HAND"])
    /\ UNCHANGED <<crm, jobs, upsert, exporting, token, astray, failures>>

People ==
    \/ Create \/ Reschedule \/ Confirm \/ Cancel \/ Close \/ RemoveClient
    \/ DeleteBlock \/ Connect \/ StartExport
    \/ HandCreate \/ HandMove \/ HandDelete

\* The server's own steps, and the delivery of a notification.
Progress ==
    \/ \E j \in Jobs : Enqueue(j) \/ TakeUpsert(j) \/ DeleteEvent(j) \/ TakeSync(j)
    \/ \E c \in Callers : CallGoogle(c) \/ SaveEvent(c) \/ UpsertRefused(c)
    \/ Webhook \/ Reconcile \/ ApplyChange \/ SyncEnds \/ SyncRefused
    \/ ExportNext

Works == Progress /\ UNCHANGED heard

Losses ==
    \/ \E j \in Jobs : LoseEnqueue(j) \/ DeleteFails(j) \/ TokenExpires(j)
    \/ \E c \in Callers : UpsertFails(c)
    \/ LosePing \/ SyncFails

Next == (People \/ Progress \/ Losses) /\ UNCHANGED heard

Spec == Init /\ [][Next]_vars

\* The process runs, BullMQ hands out the jobs, and Google delivers.
FairSpec == Spec /\ WF_vars(Works)
-----------------------------------------------------------------------------
(* Properties *)

\* Nothing is on its way between the CRM and Google for appointment a.
Settled(a) ==
    /\ \A j \in Jobs : jobs[j] # None => jobs[j].appt # a
    /\ \A c \in Callers : upsert[c] # Idle => upsert[c].appt # a

\* The only ways an appointment that stands and its event can be out of step
\* are: a change not listed yet (the feed), a second event for the same
\* appointment, and a change that a lost job, a skipped announcement or a
\* dropped syncToken left astray.  No order of requests, jobs, retries and
\* notifications adds another one.
OnlyEvent(a, e) == \A x \in Events \ {e} : event[x] = Absent \/ event[x].appt # a

MirrorsAgree ==
    \A a \in Rows :
        (Settled(a) /\ row[a].status = "ACTIVE" /\ a \notin astray) =>
            \/ row[a].event = None /\ row[a].source = "GOOGLE"
            \/ /\ row[a].event # None
               /\ \/ row[a].event \in feed \cup astray
                  \/ ~OnlyEvent(a, row[a].event)
                  \/ /\ event[row[a].event].live
                     /\ event[row[a].event].time = row[a].time

\* An external event that no listing owes to the CRM has the block it should
\* have: there while it lives, at its time, and gone when it is deleted.
BlocksMirrored ==
    \A e \in Externals :
        (event[e] # Absent /\ e \notin feed \cup astray) =>
            block[e] = IF event[e].live THEN event[e].time ELSE None

\* CRM and Google do not answer each other for ever: when people stop making
\* changes, the queue runs dry.
Quiet ==
    /\ \A j \in Jobs : jobs[j] = None
    /\ \A c \in Callers : upsert[c] = Idle
    /\ sync = Idle /\ exporting = {} /\ ~pinged

ComesToRest == <>[]Quiet
=============================================================================
