# A verification project for the CRM

TLA+ modules that model the CRM, server and browser, wherever several actors write
the same rows, a call may fail half way, or a number is computed that others rely
on; TLC configurations that check them on small instances, and proofs that TLAPS
checks for every value of the constants. Paths below are relative to
`src/backend/src/` unless they begin with `src/`.

To check a model: `tlc -config X.cfg MCModule`. To check the proofs:
`tlapm AppointmentsProofs.tla` (and the other `*Proofs.tla`).

## 1. Inventory

The backend is one NestJS process (it may run several times) over PostgreSQL
(Prisma), Redis (BullMQ queues) and three services: Google Calendar, a WhatsApp
provider and a language model. A controller calls a service; services write rows and emit
events on an in-process emitter; listeners turn events into jobs or into more
writes; workers run the jobs. An `await` is where another request, job or
listener may run. Apart from the moves of a client through the funnel, few
operations use a transaction, and none locks the rows it reads. The frontend is a
React application: its state lives between two answers of the server, and several
requests of one page are under way at once.

| Component | State it keeps | Operations | Talks to | What is hard | Correct when | Modules |
|---|---|---|---|---|---|---|
| **Appointments** (`appointments/`) | tables `appointments`, `schedule_blocks` | create, reschedule, cancel, confirm, complete, markNoShow, createBlock, deleteBlock, findAvailableSlots | emits `appointment.*`; calendar-sync, import and client deletion write its tables too | check and write are separate queries; four writers do not check at all; the last word is an EXCLUDE constraint applied by hand | nobody is booked twice; a write never ignores a row that stood all along; what is offered can be booked | Appointments, Agenda, Slots, Booking |
| **Calendar sync** (`calendar-sync/`) | `googleEventId` and `source`, mirrored blocks, the sync token and the watch channel, the jobs of its queue | upsert and delete jobs, export, import, webhook, incremental sync, connect, health | listens to `appointment.*`; Google by HTTP; Google's notifications | two systems that answer each other; echoes; retries out of order; a channel that expires; a crash between Google's answer and our write | the row and its event agree once nothing is under way; no loop; a change is read, or missed for a reason | CalendarSync, Watch |
| **Pipeline** (`pipeline/`) | `clients.funnelStage/pipelineStage/successStage`, `funnel_stage_events`, jobs `call-noshow-check` | advanceToPipeline, changeStage, changeSuccessStage, listeners, the check of a missed call, reports, exports | books appointments; listens to `appointment.no_show` | a move decides on a row read before its transaction; READ COMMITTED; a job with a time that is out of date | the three stage fields and the history agree; a missed call is found; the reports agree with the records | Pipeline, Funnel |
| **Leads, clients, intake** (`leads/`, `clients/`, `intake/`) | `clients`, intake links, scores | create, update, import, webhook, intake, anonymize, remove, scores, lists | the funnel, reminders (score), WhatsApp (phone) | a page saves whole columns over what was answered meanwhile; one number written in several ways; a score recomputed by listeners that overlap | answers are kept; one person has one record; a score tells of misses | People, LeadImport, LeadList, Risk |
| **Reminders** (`notifications/`), **client success** (`client-success/`) | delayed jobs with deterministic ids, `reminded24hAt` and `reminded1hAt` | scheduleReminders, cancelReminders, follow-up, no-show re-engagement, renewal | WhatsApp delivery; reads appointments | an active job cannot be removed and its id stays taken; send, then mark | one reminder per window for the current time; who is closed is asked once | Reminders, Renewal |
| **WhatsApp conversation** (`whatsapp/conversation/`) | `conversations.state`, `messages` | handleIncoming and the steps of the state machine, hand-off | books appointments, creates clients | redelivered, late and concurrent messages; stored before answered | every message is answered once or a person is called, and noticed | Conversation |
| **WhatsApp delivery** (`whatsapp/`), **circuit breaker** (`common/utils/`) | message status, send jobs, the provider's instance, failure counter | send, retry, connect, configure, open and reset | providers by HTTP | sent, then marked; retries, dead workers, overlapping calls around the reset | a message arrives once and in order, or is seen to have failed; a broken service is left alone | Delivery, Connection, Breaker |
| **Inbox** (`inbox/`), **tasks** (`tasks/`) | `user_notifications`, `tasks` | notify, scans, purge, read; create, change, complete, reopen | listens to events | a scan that skips or repeats; a purge of the key that stops a repetition; zones | each deadline is told once, in time | Inbox, Bell |
| **Accounts** (`auth/`, `users/`) | users, session version, failed logins, saved texts | login, Google login, refresh, logout, roles, passwords, templates | guards of every request; the browser's refresh | sessions revoked while in use; counters written from a row read before; two administrators deactivating each other | an ended session is refused; a lock is kept; one administrator remains | Accounts, Messages |
| **Dashboard, reports** (`dashboard/`, `reports/`) | none | queries | read everything | two zones, clock changes, a screen and a server that count days differently | the chart adds up to the numbers | Reports, Funnel |
| **Frontend** (`src/frontend/src/`) | what a page shows between answers | lists, views, forms, the bell | the API | answers out of order, lost, for a page that was left; a second click | the screen shows what is asked; a wish is carried out once | PagedList, Views, Forms, Booking, Messages, Bell |
| Shared infrastructure | audit log | guards, encryption, CSV, paging | every request | - | - | in the modules that use it |

`PROJECT.json` lists the hazards by line, with the property that watches each.

## 2. Plan

In the order of what the business loses when it goes wrong; all of it is written.

1. The agenda and its ledger, with their proofs: `Agenda`, `Appointments`.
2. The calendar, with the proofs of the sync: `CalendarSync`, `Watch`.
3. The funnel, with its proofs, and its reports: `Pipeline`, `Funnel`.
4. What is told to clients: `Reminders`, `Conversation`, `Delivery`, with their proofs, `Renewal`, `Connection`.
5. Accounts, with their proofs: `Accounts`.
6. The people of the CRM: `Inbox`, with its proofs, `Bell`, and what pages do with the server: `People`,
   `Messages`, `PagedList`, `Views`, `Booking`, `Forms`, with their proofs, `LeadImport`.
7. The algorithms, each against a definition of what it should compute: `Slots`, `Risk`,
   `LeadList`, `Reports`, and the circuit `Breaker`.

Every module is proved about (section 7) but `Bell`, whose property is a liveness.

The modules stay separate state machines: composed, their states would multiply, and
each needs of the others only what it models itself (`CalendarSync` the
constraint on slots, `Appointments` the writes of the reconciliation with any
times, `Pipeline` that a booking may be refused, `Conversation` and `Reminders` that a
message is queued, whose sending is `Delivery`). Where parts do interact they are in one
module: the agenda with its other writers, the sync with the export and the listener,
the funnel with its calls, a conversation with the agenda, the scan and the people of the CRM, the session with the
browser that renews it, a page with the server it saves to.

## 3. Conventions of the models

- An id is a model value; `Absent` and `Deleted` tell an id not used yet from one
  whose row is gone (uuids are not used twice). `None` is null.
- What a request does between two `await`s is one action; what it read stays in
  its record (`req`, `upsert`, `sync`) and is used as read.
- A request that throws ends without an effect (`FailRequest`, `GiveUp`, ...), from
  any point. The death of the process looks the same to the database.
- A BullMQ job holds the attempts it has left. A failed attempt, a crash of the worker
  and a timeout are one action each: the job comes back until none is left.
- A lost answer, a failed query and a dead process are actions of their own, bounded by
  `MaxFailures`, `MaxFaults` or `MaxTroubles`.
- `heard` is what the emitter makes of a listener that is registered on a list of names (next paragraph): chosen
  at the start, and never changed.
- Bounds are constants named `Max...`; people's acts are bounded by `MaxEdits` or `MaxActs`. Variables marked "history" are read by properties and by no
  guard.

**Listeners on a list of names.** Three listeners are registered with `@OnEvent([...])`: `onUpsert` of
`calendar-sync/calendar-sync.listener.ts:31`, `onScheduleChanged` of `notifications/notifications.listener.ts:10`
and `onAppointmentStatusChanged` of `clients/client-scoring.listener.ts:13`. `EventEmitterModule.forRoot()`
(`app.module.ts:40`) makes an emitter without wildcards, and eventemitter2 (6.4.9 in
`src/backend/package-lock.json`; it is not in the repository, so this is external) takes a list for one name, of the
names joined, which no code emits. As the program is built, then, these three are never called (`heard = FALSE`), while
the documents, and everything behind the three, count on their being called for each of the names
(`heard = TRUE`). `CalendarSync`, `Reminders` and `Risk` have both: a constant `Emitters` of what the emitter may do, `{TRUE, FALSE}`
in the runs, and properties and theorems that say what holds in either case. Listeners of one name (a cancellation, a
completion, a missed call, and all of the inbox, the funnel and client success) are called.

## 4. The modules

### Agenda and Appointments

`Appointments.tla` models `appointments.service.ts` and every other writer of its
tables. `appt` and `block` are the tables; `req[r]` is what request `r` is
about to do: `checkAppointments` and `checkBlocks` are the two queries of
`assertNoConflict` (50-80), `write` the insert or the update.
`Start*` is the code before the first query (for `reschedule`, `findById` and the
duration it computes), `Check*` each query, `Write*` the write, judged by
`ExclusionAllows`, the constraint of `src/backend/prisma/manual/appointment_no_overlap.sql`:
half-open ranges, every status but CANCELLED. `cancel`, `confirm`, `complete` and
`markNoShow` are one update by id from any status (`SetStatus`). The other
writers are `ReconcileCancelled`, `ReconcileMoved`, `UpsertExternalBlock`, `DeleteExternalBlock`,
`ImportFromGoogle` and `RemoveClient`. `inTheWay[r]` (history) holds the rows that were in conflict
with the request when it began and have not been written since.

The constraint is assumed to be in place. It is applied by hand
(`src/README.md:74-76`), and nothing at run time looks whether it is: without it
`NoDoubleBooking` does not hold, since the check of the service is not atomic with the
write.

`Agenda.tla` is what all this promises: a ledger of cells, instants of a
professional's time, in which an appointment claims cells nobody else has, or gives
them back. `Appointments` implements it (`AgendaSpec`, with `held` mapped to the times
of the rows that are not CANCELLED).

| Property | Says |
|---|---|
| `TypeOK` | types, and that no row or request ends before it starts |
| `NoDoubleBooking` | no two appointments that are not cancelled share an instant of a professional |
| `StandingRowsRespected` | a request about to write has nothing in its way that stood, unchanged, since it began |
| `AgendaSpec` | every step is an exclusive claim, a release, or changes nothing that is held |

### CalendarSync

One professional. `row` is an appointment as the sync sees it (slot, whether
it stands, `source`, `googleEventId`), `event` the calendar in Google, `feed` what
changed there since the saved token, `pinged` a notification to be delivered.
`jobs` is the queue; a job that was `announced` is between the event in the process and
`queue.add`, where a crash loses it. `Announce` is `calendar-sync.listener.ts`: unless its list is `heard`, only a
cancellation adds a job, and what is written otherwise went astray, until an export or a listing brings the two together.
`DeleteBlock` is `deleteBlock` of the agenda, which takes a mirrored block as any other.
`upsert[c]` is a call of `upsertEventForAppointment` by the worker or by the export,
after its read (`call`) and after Google's answer (`save`). `sync` is the worker's
incremental sync: the listing as it was taken, reconciled event by event
(`Reconcile`, then `ApplyChange` for the write).

Jobs are taken in any order. The worker is FIFO for first attempts, but a failed attempt comes
back after a pause, behind jobs that are newer, and processes may be several:
any order is the smallest set that covers this. An open circuit breaker is a failed
attempt. A listing without a token does not show deleted events
(`TakeSync`, `TokenExpires`).

| Property | Says |
|---|---|
| `TypeOK` | types: a job never has more attempts than it was given, nor none |
| `MirrorsAgree` | with nothing on its way, an appointment that stands and its event agree, unless a change is still to be listed, there is a second event, or a change went astray in one of the named ways (`astray`: lost job, skipped announcement of a GOOGLE row, a list that is not heard, dropped token) |
| `BlocksMirrored` | an external event that no listing owes has its block, at its time, unless somebody deleted the block since it was listed; a deleted one has none |
| `ComesToRest` | after the last change by people the queue runs dry: the two systems do not answer each other for ever |

### Pipeline

`card` is a client's `funnelStage`, `pipelineStage`, `successStage`; `history` the rows of
`funnel_stage_events`; `call` the commercial calls; `check` the delayed jobs; `req[r]` a
request, job or listener at work. A move is three actions: the read with its guard
(`ReadAdvance`, `ReadChange`, `ReadSuccess`, `ReadNoShow`), the first statement of the
transaction (`BeginMove`: `updateMany` sees the open events committed by then), and
the commit (`CommitMove`), where the rest of it appears at once. The transaction is
PostgreSQL's default, READ COMMITTED. After a move to CALL_SCHEDULED the listener books a call
(`BookCall`, or `BookingRefused`) and queues the check (`PlanCheck`), computed from the end
the call had. The check reads the call (`ReadCall`), marks it (`MarkCall`) and the
listener of NO_SHOW moves the card. `raced` (history) holds the clients moved by a request whose
row had changed since it read it.

| Property | Says |
|---|---|
| `TypeOK` | types: a retried check never has more attempts than it was given, nor none |
| `CurrentStageOnRecord` | the stage a card is in is always an open event of its history, whatever overlaps |
| `OnlyRacesBreakTheFunnel` | for every client no stale move has touched: one open event per module entered, the three fields agree, each event starts where the one before ended |
| `PendingCallsAreSettled` | a call with a check does not stay pending |

### Reminders

`row` is an appointment as the reminders see it (start, and a status in which
SCHEDULED and CONFIRMED are one: `PENDING`). `job[a, k]` is the job whose id is made of
appointment `a` and kind `k`, a reminder window, `followup` or `noshow`; a finished job is
kept, and its id with it. The acts of people write a row and start a listener
(`Announce`), those of a new, moved or confirmed appointment if their list is `heard` (`WriteOnTheList`); `handler[h]` is one at work: `remove` is the loop of
`cancelReminders`, `add` the loop of `scheduleReminders`, `after` the two other
messages. The client's score is read between the two loops and may be high or low.
`WriteFromGoogle` stands for the reconciliation and the import, which emit nothing.
The worker reads the row (`TakeJob`), queues the message (`Send`) and updates the row
(`Mark`, or `MarkRefused` when the row is gone); an attempt may fail before
or after the message (`SendFails`, `FailsAfterSend`). `told` (history) holds the times each
reminder has told the client; `disturbed` (history) the appointments one of these
accidents has happened to: two listeners at its reminders at one time; a
reminder that comes due while a listener is at them; a removal of a job that is running; a
change from Google; a listener that dies; an add that fails; an attempt that fails
after it has sent; attempts that run out.

| Property | Says |
|---|---|
| `TypeOK` | types: a retried job never has more attempts than it was given, nor none |
| `RemindersInStep` | where the listener is heard, and without an accident, the reminders that wait are those of the row as it is: at their moment, complete, and none for a cancelled appointment; where it is not, no reminder is ever planned |
| `NoSecondReminder` | without an accident, no reminder tells the client the same time twice, however often the appointment is confirmed or moved |
| `StandingRemindersAreSent` | without an accident, a reminder that waits for an appointment nobody touches is sent |
| `RemindersAreQueued` | does not hold where the list is not heard: see findings |

### Conversation

One number. `client` and `conv` are its rows; `sent`, `stored` and `last` its messages; `handler[h]` a
call of `handleIncoming`, step by step between its awaits: the look for a
duplicate (`Receive`), the client, the upsert of the conversation, the insert that the unique key
may refuse (`StoreMessage`), the media, then `Handle`, which is the whole state machine
(`StepMenu`, `ChooseSlot`, `Confirming`, `RouteStep`), the answers one by one
(`GiveAnswer`, `OfferSlots`, `Book`, `CancelAppointment`), and `SaveState`. A provider delivers late, again, or out
of order. `HandlerDies`, `BookingFails`, the people of the CRM (`ManualAnswer`, `ChangeAgenda`,
`ReleaseNumber`) and `Scan` run next to them. Booking, moving and cancelling are entered by a
conversation left there by the version of `docs/03-fluxos-whatsapp.md`: the menu of this version
has no entry to them.

| Property | Says |
|---|---|
| `EachAnsweredOnce` | no message is answered twice, however often and by however many handlers it is handled |
| `HeardWhereItStands` | the stored step is one that reads her next message as an answer to what the client heard last, unless handlers overlapped, or that was the question after a cancellation, which no step reads |
| `SilenceMeansHandoff` | a stored message that gets no answer belongs to a conversation a person was called to |
| `BookedAsTold` | she is told of every appointment made here and of no other, even when she confirms twice at once |
| `AwaitingIsNoticed` | a message that waits for a person is noticed, unless it is answered or followed by another |
| `BacklogIsHandedOver` | does not hold: see findings |

### Delivery, Connection, Breaker

`Delivery`: `call[m]` is one call of `sendToClient` on its way (the row, the conversation, `queue.add`);
`waiting` and `delayed` are the jobs, `worker` the one at work: it reads the row, calls the
provider (`Deliver`, `SendFails`), and marks the row (`MarkSent`, `MarkFailed`, each of
which may fail). A worker that dies leaves its job to be taken once more. `ArrivesOnce`: once, at the
number of its conversation, unless a fault came between the provider and the mark. `ArrivesInOrder`: what
was said first arrives first, unless an attempt failed. `Settles`: a queued message is sent or seen
to have failed. `FallbackUnknown` in the mutants is the provider's id `unknown`, which the unique key accepts once.

`Connection`: requests to connect that overlap, each a sequence of calls of the Evolution API;
`ConnectedIsConfigured`: one none of whose calls failed leaves an instance with its webhook and its
proxy. `Breaker`: the counter, the pause and calls that overlap, one kind of which (deletions)
never asks. `HammeringIsBounded`: while nothing succeeds, the calls sent in one pause are at most the
threshold and those under way when it was reached. `begun` is a history: the upserts begun in this tick, in this and the
one before, and so on for a pause, since a call last succeeded.

### Renewal, Risk, Slots, LeadList

`Renewal`: the job of a closed client, its id and its attempts. `AskedOnce` and `ClosedIsAsked`. A job that
has finished keeps its id, so that a client who is closed again later is not asked
again: the properties are about the first time. Without a number, or deleted between two reads, she is not asked.

`Risk`: `client-scoring.listener.ts`, which reads the appointments and writes a score in two steps;
`RiskIsOfMisses` meets the score with the threshold of the reminders: who never missed is never at high risk; who
missed five of six is, where the changes are heard and once the listeners are done; where they are not, the score stays as it was created.

`Slots`: `findAvailableSlots` next to what a booking asks; `OfferedIsBookable` in both directions: everything
offered can be booked, lies in the opening hours and is in order, and no opening of the grid is passed over.
(COMPLETED and NO_SHOW rows of the future are left out: the constraint refuses them and the search does not
see them.) `LeadList`: the score of a lead and its pages; `EachLeadOnOnePage`, as long as nobody entered the pipeline twice.
Both state the sorted list by the rank of its members: the n-th is the one with n - 1 before it. The rows of a query come in
any order, and rows the comparison does not tell apart stay in it.

### Watch

How a change in Google gets to the CRM: the channel that expires, the notification, the job that was
queued for a channel, the token that Google withdraws, the attempts. `MissedForAReason`: a change the CRM
has not read is about to be, or word of it got lost in one of five named ways.

### Accounts

`user` is the table, `jar` the cookies of each browser, `req[r]` a request at work, a
login or a call of the API with the refresh and the retry the browser adds. `open` is `GET /auth/me`, of a page that is
opened, for which it adds neither, as its address has `/auth/` in it (`client.ts:13`); a refresh that fails for whatever reason leads to the
login page (`client.ts:18-22`), as does a page that cannot tell who is signed in (`SentToLogin`). What was read is kept in
the record: `compare` holds the row the password is compared with, `cookies` the tokens on
their way. `Revoked` raises `tokenVersion`. `ends`, `session`, `wrong` and `accident` are histories: how
often the sessions of a user were ended, the last login, the wrong passwords in a row,
and what overlapped.

| Property | Says |
|---|---|
| `LiveSessionsAreRecent` | a token that would be let through comes from a login that read its row after the sessions were last ended |
| `LockIsKept` | after `MaxFailedLogins` wrong passwords in a row, none compared while another was, no password is compared until the time is over |
| `AnAdminRemains` | somebody can administer, unless removals overlap (then none may be left) |
| `NoNeedlessLogin` | nobody is sent to the login page while her login lasts and nothing ended it, unless answers with different cookies crossed, the request failed, or a page was opened after the access token was over |

### Inbox and Bell

`Inbox`: the tasks, the notices with their keys, requests and listeners step by step, and the scan task by task, with
purge, failures and two zones. A day has a few parts, the last of which is 23:59.
`DeadlinesAreTold`: when the scan no longer looks back at a deadline, the person who has had the open task
long enough for an outage to be over was told. A lead or a booking is made once (`made`); `cancel` has no look at the
status, and emits as often as it is called. `ToldOnce`: nobody is told twice, the purge included: its retention
is longer than the look-back. Only a cancellation that is made again when its notice was purged is told again. `Bell`: the count that is polled, the list, and marks shown before the server knows them;
`BellCatchesUp`.

### People, LeadImport

`People`: records with their groups of fields, answers handled step by step (webhook, import,
intake), a page that was loaded and is saved later, anonymization and removal. `AnswersAreKept`: an
answer that was accepted is on a record, unless something that came later took its place or a page older than it was saved over it.

`LeadImport`: one person, her number written in each of the ways the forms allow; the webhook, the two imports, the form
and WhatsApp. What `toE164`, `parseRespondiHtml` and `IsPhoneNumber` do with a number is modelled by its result:
the right one, that of another country, or one with spaces. A text is told by the person who
wrote it, a field with two texts by the sequence of theirs: what matters is whose they are and how often. `OnePersonOneRecord`.

### PagedList, Views, Messages, Booking, Forms

`PagedList` is `usePagedList` with the list at the server: requests numbered, the address, the
debounced search and the effect that leaves an empty page. `PageIsTheOneWanted`: once nothing is under
way the list shows what is searched, at the page the user asked for or the last there is. `Views` is the same question for the
five ways the other pages load: `ViewShowsWhatIsAsked`, with the pages that take any answer excused when one came late.

`Messages`: two JSON columns, read, changed and written back by each request, and the tabs that edit them.
`SavedMessagesAreKept`, unless requests of one column overlapped. `Booking` is the form for an appointment:
`BookedOnce`. `Forms` is every other form and button, by what it checks, whether the button goes off, and whether
the server refuses a repetition: `DoneOnce`.

### Reports, Funnel

`Reports`: what the screen makes of a period in its address, what the server makes of that, and the chart;
hours, days and months are small, zones change their clocks. `ChartAddsUp`. `Funnel`: the board, the
funnel, the origins, the metrics and the export over records that move. A move is two actions, as in the code: it reads the record, which
allows it (`Reads`), and its transaction writes over whatever the record has become (`Enter`), without the events of transactions that overlap with its own.
`ReportsAgree` relates the reports to each other and to the history: whoever closed is counted by the funnel, whoever is in the pipeline is in one
column, nobody came to a stage without having been new, however stale the moves. The converse, that who came to the last stage has closed, and that the times of
the stages add up, fail in the code when a move overtook another (`raced`), and are said of the others.

### Services and Screens

Nine and eight parts that do not interact, explored side by side in one run each (`MCServices` and `MCScreens` have
the values): the initial state chooses a part, `x1`, `x2`, ... are registers for its variables, and each property speaks of its part only. `ScoresTell`
is `RiskIsOfMisses` and `EachLeadOnOnePage`, `NumbersAddUp` is `ChartAddsUp` and `ReportsAgree`,
`ScreenShowsWhatIsAsked` is `PageIsTheOneWanted` and `ViewShowsWhatIsAsked`, `SubmittedOnce` is `BookedOnce` and `DoneOnce`.

## 5. The runs

| Run | Instance | Result |
|---|---|---|
| `appointments` | 2 requests, 2 appointments, 1 block, 1 professional, instants 0..2, duration 1, an event of Google over the whole horizon | holds |
| `calendar` | 1 appointment, 1 external event, 3 event ids, 2 jobs at a time, 2 attempts, 3 acts of people, 1 loss, the list heard or not, with fairness | holds |
| `pipeline` | 1 client, 1 call, 2 requests, instants 0..2, 2 attempts, 4 acts, 1 loss, with fairness | holds |
| `reminders` | 1 appointment, 2 windows, 2 listeners at a time, instants 0..3, 2 attempts, 3 changes, 2 failures, the list heard or not, with fairness | holds |
| `reminders_unheard` | the same, the list not heard | violated: no reminder is queued |
| `conversation` | 3 messages, 2 handlers, 2 slots, 1 failure or act of people, 3 instants, with fairness | holds |
| `conversation_backlog` | 2 messages, 1 handler, no failure | violated: a late message calls nobody |
| `accounts` | 2 users, 2 requests, 2 failures lock, 3 acts, 3 instants | holds |
| `inbox` | 1 task, 1 lead, 1 cancellation, 2 users in two zones, 2 requests, days of 3 parts, 2 acts, 7 instants | holds |
| `delivery` | 2 messages, 2 numbers, 3 attempts, 3 faults, with fairness | holds |
| `services` | Connection, Renewal, Breaker, Slots, Risk, LeadList, Watch, Bell, LeadImport, by turns, with the fairness of Renewal and Bell | holds |
| `screens` | People, PagedList, Views, Messages, Booking, Forms, Reports, Funnel, by turns | holds |

Why the bounds are enough to be worth something:

- Two requests and two rows are what a race on the agenda takes; three instants
  with rows of length one and two give disjoint, adjacent, nested and equal ranges.
  Rows of length zero, which Google may produce, are left to the proof: with them the run
  does not finish in minutes.
- `MaxAttempts` is 2 where the code has 5 (calendar) or 3 (call checks): a first attempt, a
  later one, and the end of the attempts are all there (5, or 3, for reminders too; 3 for
  delivery, which has 5). With one
  loss allowed, each run has a failed attempt that is retried; attempts run out by
  refusals of the constraint or of a deleted row, which cost no loss.
- Two jobs at a time let an older job overtake a newer one; `jobs` is a bound, an action that
  needs a free slot waits for one (which is also why deadlock is not checked there).
- Four acts of people make the sequences that matter in the funnel (a lead advances,
  is won, moves in client success, while a second request is under way), three those of the
  calendar (an appointment that is created, moved and cancelled, or moved by hand in Google; an external event that is made and moved, its block
  deleted). The theorems are about every number of them.
- Of the reminders, one window stands for the two every client has and one for that of clients
  at risk, sent one and two instants before. The run follows an appointment an
  accident has happened to only up to its second change (`Followed`, a constraint): all
  three properties ask nothing of it afterwards, so neither a violation nor a
  counterexample to the liveness is cut off.
- Three messages take a conversation through a menu, an offer and a confirmation; a third
  message is followed only where the first two took turns undisturbed (`Followed`), two handlers
  and one failure being explored with two. The liveness is that of the scan for a last message, which a
  state cut off has or has not got before.
- Three acts in `accounts` are two wrong passwords, that lock, and the login that must not be
  compared; or a removal next to another; or a login, a logout and a request. The theorems are about every number of them.
- In `inbox` the deadline, the morning, the look-back and the retention are in the order they
  have in the code, a day being three parts; one outage is allowed, as long as the property allows.
- The parts of `services` and `screens` have constants chosen so that each exception of a property
  occurs, and two of whatever may overlap. The slots are a grid of two days with eight starts, three lengths and three
  kinds of rows, of one or two rows; the reports a zone for each of two people, clocks that stay,
  go back and go forward, and periods up to the longest, and one longer; the funnel two people, one of whom says where she comes from, and three
  moves, two of which overtake each other. Two states of the funnel that differ only in an export in whose course
  something changed are one (the `VIEW` of `Screens.cfg`): nothing is asked of such a file and nothing waits for it.
- Deadlock is checked in the runs of `Appointments`. The others may stop: acts are
  bounded, and a system at rest at the end of the horizon has nothing to do.
- Symmetry (interchangeable ids of rows, jobs, events and requests) is used in the runs
  of safety only.
- A type invariant stands in each module but `Reports`, whose state is one request and its answer; those of the modules that have a run of their own
  are theorems (section 7), the others can be added to any of the configurations.

Every property has a mutant: a definition that models code, changed in the way a plausible bug would
change it, for which the same run finds the property violated (`PROJECT.json`).

**Fairness.** `FairSpec` is weak fairness of what the server does by itself. In `CalendarSync`, `Pipeline` and `Reminders` it is that of
`Progress`: the steps of the server, of BullMQ
handing out jobs that wait, of Google delivering a notification, and of time. In `Delivery` it is that of the worker and of jobs that come
back, in `Renewal` of the listener, the worker and the days, in `Conversation` of the scan, which is a repeated
job, in `Bell` of the poll, which is a timer of the page, and of requests being answered (at most `MaxFaults` are not). That the process runs,
and restarts after a crash, is what the deployment provides
(`src/.railway/railway.ts`); BullMQ keeps jobs in Redis and hands out those that are
due. Acts of people and losses have no fairness: they need not
happen. It is fairness of disjunctions, the weakest that says "somebody goes on"; a job that waits can be passed over
only while others are served, and there are finitely many.

## 6. Findings

`reminders_unheard`: `src/docs/04-plano-implementacao.md:53` says that the automatic reminders, 24 hours and an hour before, are done
("[x] Lembretes automáticos 24h/1h antes via fila BullMQ"), and `src/docs/01-arquitetura.md:134` and `src/docs/03-fluxos-whatsapp.md:51` say when
they are planned. The listener that plans them is one of those on a list of names (section 3): as the program is built no reminder is ever queued. In
the same way no appointment is sent to Google but by an export, and no score is computed. Naming each event in an `@OnEvent` of its own is
what would make `heard` true.

`conversation_backlog`: `conversation-engine.service.ts:165-169` says that a late message, in a conversation the engine
has never handled, is marked as waiting for a person. The state of such a conversation is made with
the present time, so the condition of line 164 is false for every late message: nobody is called, and the next message is greeted with the menu.

Other ways in which the code does not do what a document or a comment says, or what one would expect, are
exceptions that the properties name (a property that excuses them shows that there are no more); they are not runs of their own:

- **Agenda.** A block and an appointment created at once may overlap: the constraint does not look at blocks.
- **Calendar.** The echo of the CRM's own write may undo a newer reschedule. A delete job has the event id of the moment of the
  cancellation: cancelled before the insert, the event stays. An event moved onto a taken slot stops the whole
  listing, on every attempt. `deleteBlock` deletes the block of an external event, and nothing brings it back until the event changes. The watch channel is never renewed (`register-watch` is handled and never queued), and the
  health panel does not look at its expiry (`src/docs/05-riscos-mitigacao.md:7`). A reconnection keeps the token, and the jobs queued for
  the old channel are dropped.
- **Funnel.** A stale move after a closing leaves a client with the stages of a lead: the funnel counts her among the closed, the origins
  do not. `pipeline.service.ts:256-257` explains the count of the metrics by "nem todo Cliente passou pelo Pipeline": in this code nobody becomes a client
  but by CLOSED_WON, and `ReportsAgree` shows that whoever is one has that event. The check of a missed
  call keeps the time the call had when it was booked.
- **Reminders, renewal.** A retry after the message was queued tells the client again. A second closing of a client adds no job.
- **Conversation.** After a cancellation she is asked "1) Sim, agendar agora 2) Não, por enquanto não" and the step that is saved is the menu, whose 1
  is "Falar com a Luana" and whose 2 is another subject: no step reads her answer. The hand-off answers, so that the last message is ours and the scan says nothing until the client writes
  again. A message more than a day late sets `lastMessageAt` back. `needsHuman` is never reset. Option 5 is
  "back to the menu", so a fifth entry cannot be chosen. The context expires after 24 hours, not after the
  30 minutes of `src/docs/03-fluxos-whatsapp.md`.
- **Delivery.** The id `unknown` of the Meta provider is accepted once: later messages without an id are marked FAILED and sent again.
  A crash between the row and `queue.add` leaves a message QUEUED for ever.
- **Accounts.** Wrong passwords that overlap are written from the row each has read, and some are not counted. A logout with an older
  token ends newer sessions too. A page that is opened when the access token is over (15 minutes) sends a person with a good refresh token to the
  login page, as does a refresh that fails because the network did or too many were asked for: `client.ts:19` takes every failure for the end of the session
  ("Sessão expirou de vez"). Two administrators who remove each other at once leave none. Nobody can be
  reactivated (`UpdateUserDto` has no `active`).
- **Inbox.** A deadline moved away and back gives no second notice. An appointment that is cancelled again after the purge is told of again. The end of the day in the creator's zone is an hour of the day in another.
- **Leads.** A lead that has entered the pipeline twice is scored by either entry, not by the first as `leads.service.ts:159` says: the
  events are read in no order and the last one stays. Between two pages of the list she may change places.
- **People.** A page saves whole columns over answers that came meanwhile. `anonymize` keeps city, profession, notes and messages.
  The server adds the country to a number, the parser of a pasted page does not; a number that begins with `+` is
  stored with its spaces, and a message of WhatsApp makes a second record.
- **Screen.** A new client is made before her appointment, and made again by a retry or a second click. The
  texts of messages are a JSON column: requests that overlap lose one. `reload` of a page that was left may load the page
  it was made for. The longest period is refused when the clocks go back in it, although `src/frontend/src/utils/period.ts` says
  that the limit is the server's.

## 7. Proofs

All theorems are for every value of the constants that satisfies the assumptions named in the modules, any number
of rows, requests and people among them. Bounds are numbers, durations are positive (`CreateServiceDto`), an
event of Google does not end before it starts, sets of different ids do not meet, and the sentinels are not rows, tokens,
jobs or numbers. Some say more:

- `HorizonsAssumption` of `Inbox`: an outage is no longer than the look-back, and a notice is kept until nobody looks
  back at its deadline. In the code these are 3 days (`OVERDUE_LOOKBACK_DAYS`) and 60 (`RETENTION_DAYS`).
- In `Delivery` the messages are finitely many, since they stand in one queue; in `Conversation` a message is one of the
  contents the steps read.
- In `Services` the pages, durations, thresholds, pauses and steps of the grid are positive, opening hours lie within a day
  (`ServicesAssumption`), a row of the agenda has times and a lead has what its score is computed from (`RowsAssumption`), and
  a number in a response is written in one of the ways people write numbers (`ResponsesAssumption`).
- In `Screens` a page has a row at least and no more than the longest list, the default of a message is a text, and a time
  that is typed is told apart from one offered for a service (`ScreensAssumption`); a day has more than one hour, a period that is
  not chosen by hand is no longer than the longest that is accepted (400 days in the code; of the presets, the year has 366 at most),
  and each agenda is finite (`ReportsAssumption`); people are finitely many, and each says where she comes from once or not at all (`FunnelAssumption`).
- In `CalendarSync`, `Reminders` and `Services` a list of names is heard or not (`Emitters` are truth values): the theorems hold for both.
- In `Reminders` there is a window besides the one for clients at risk (the 24 hours and the hour).

`AppointmentsProofs`:

- `TypeCorrect` (`Spec => []TypeOK`), one lemma per kind of action.
- `NeverDoubleBooked` (`Spec => []NoDoubleBooking`). `NoDoubleBooking` speaks of
  instants, the constraint of ranges; the inductive invariant is `RangesApart`, what the
  constraint keeps true of the table. Each written row is judged against all the
  others, and `RangesMeet` is symmetric (`StoreKeepsApart`); deletions only take
  rows away.
- `ImplementsLedger` (`Spec => AgendaSpec`): with `RangesApart`, a stored row maps to a
  claim, a cancelled or a deleted one to a release, everything else to a stutter.
  `LedgerExclusive` shows that the ledger itself is exclusive.
- `StandingRowsAreRespected`. A request at `write` has passed two queries at two
  times, so the invariant `WayInv` says what each has excluded: at `checkBlocks` no
  appointment is left in `inTheWay`, at `write` nothing, and what is in the set is a
  conflict still, because whoever writes a row takes it out (`Touch`).

`PipelineProofs`:

- `TypeCorrect`. Requests are records of several kinds, told apart by `pc` (`WorkByPc`).
- `CurrentStageAlwaysOnRecord`. It is not inductive alone: a commit closes the events of its
  snapshot, and could close the only event of the other module. `RecordInv` adds
  what a move under way knows (`MoveHolds`): its snapshot has only events of its own
  module, none later than the history it will find, because histories only
  grow while the client exists, and a move that only writes one field (`advance`, `noshow`) goes where that field
  goes. `HistoryAfterMove` says what the history is after a commit.
- `OnlyRacesEverBreakTheFunnel`. `FunnelInv` has two halves. The rows and the history of a client whose moves were not
  decided on a stale row are `Whole`: the last event of each module is its only open one, the stage of the row is that
  event's, and each event starts where and when the one before it ended. And a move whose history is as long as
  what it saw is `Fresh`: it knows the stage, the module it comes from and every open event. A commit of a
  fresh move keeps a whole history whole; a commit of another puts the client in `raced`.

`AccountsProofs`:

- `TypeCorrect`, together with what tokens know: `SessionInv` says that the version of a row is the
  number of times the sessions of its user were ended (`Versions`), and that every token in a jar, a
  request or an answer carries as its version the number it was opened at (`Holds`).
- `LiveSessionsAlwaysRecent` follows: a token with the version of the row was opened when the sessions had been
  ended as often as they have been now. The versions of rows read before a password was compared are covered because the record
  holds row and number of the same moment.
- `LockAlwaysKept`. `LockInv`: the counter of a row is never behind the wrong passwords in a row, nor is the
  counter of a row that a request holds for its comparison (`CompareHolds`); and while an account is to be locked
  its row says so, until when, and nothing is comparing (`LockHolds`). Most steps leave the counter and the lock alone or start
  the count anew (`Calm`, `CalmStep`); the wrong password is the case that matters (`WrongPasswordLock`). Proving
  it is what showed that the count has to start anew after a lock, which the small run does not tell apart.

- `AnAdminAlwaysRemains`. `AdminInv` adds to `SessionInv` what a removal knows (`RemovalHolds`): past the check of its
  target the target is there, and when it is about to write it takes no administrator away, or not the last one, or
  removals have overlapped. A write that removes one next to such a removal is what sets `accident["removals"]`;
  steps that leave the administrators as they are need one lemma (`CalmAdmins`).
- `NobodyLogsInNeedlessly`. `RenewInv`: while a login lasts and no answers with different cookies have crossed, the cookies of the browser
  and whatever its requests carry have the version of that login and were made no earlier, so that a refresh takes them (`Renews`). With an access token in its time a page that is opened is let through, since the row has its version
  (`LetThrough`); later, or when the request fails, she is sent to the login page, and the theorem says that these are all the ways.
  A refresh in between has newer tokens, an answer on its way those of the moment it was made.

`CalendarSyncProofs`:

- `TypeCorrect`, with what jobs and calls know: the row a call has read is one that was there (`Kept`), the worker's job is
  active (`Busy`), and a sync still has to do only what the next listing would show it again (`SyncKept`).
- `AnAppointmentAndItsEventAgree` and `ExternalEventsHaveTheirBlocks`. Events are changed by three: the
  professional, the jobs, and the sync that reads what both did. `SyncInv` says of every event no listing will show
  again that its row or its block is in step with it, or a job, a call or the sync under way will bring it in step,
  or it is excused (`astray`). Each of these promises has to survive the steps of all the others: that is where the echo
  of the CRM's own write and the delete job with an old event id come in. That the list is not heard leaves a row astray at once; that a block is deleted
  leaves its event astray until it is listed again.

`RemindersProofs`:

- `TypeCorrect`, with `BasicInv`: a listener that removes or adds has a window to do, and the worker's job is active.
- `WaitingRemindersAreTheRows`. For an appointment nothing has happened to (`disturbed`), `RemindersInv` says that at most
  one listener is at it, how far its jobs are from what the row asks for at each step of that listener
  (`InStep`), and that a reminder for the row's time has not been told before it is due (`ToldInTime`). Where the list is not heard nothing is planned
  for any window (`NothingPlanned`): the only listeners that run are those that remove, and those of the other two messages.
- `NoTimeIsToldTwice` follows: a job about to be sent is for a time that was not told (`TellsNew`).

`ServicesProofs`, first about `Delivery`:

- `TypeCorrect`: that the queue is never longer than the number of messages needs that a message has one job
  (`OneJobEach`), in the queue, delayed or in a worker's hand.
- `AMessageArrivesOnce`. `OnceInv`: what has arrived is not sent again, because its job is past sending, or over, or will find
  its row gone. A message the failure between the provider and the mark has hit is in `trouble`.
- `MessagesArriveInOrder`. `OrderInv`: what was said before is over and ahead, in the queue or among the arrivals, unless
  an attempt of it failed or it was lost with its client or its call.

and about the parts of `Services`, each with its invariant, stated in the module of the part:

- `WhoConnectsIsConfigured`: what a request without a failed call has behind it is done, and nobody undoes it (`BehindIsDone`).
- `AClientIsAskedOnce`: there is one job at most, and without a failed attempt it asks when it finishes (`OneQuestion`).
- `AChangeIsReadOrLost`: what the token covers was read, the run at work reads at least what its notification was about, and
  each change that was not read has a notification, a job, a run or a reason (`TokenIsRead`). The token moves only when a run
  ends well, and a run that fails hands its job on or adds the reason.
- `APersonHasOneRecord`: a lead is of one person wherever it is, in a form, a call or a record, and no two records have one
  number (`EachOfOne`). Each way in looks for the number before it writes; that both halves are needed is what a second
  import into one form shows, which is the exception.
- `WhatIsDownIsNotHammered`: while the circuit is closed each recent upsert is under way or has failed; while it is open none
  has begun since it opened (`EachBegunCounts`). A late answer that opens the circuit again starts the pause anew, one that
  comes after the pause counts for the next.
- `WhatIsOfferedCanBeBooked`: a time is found exactly where a booking would be accepted on the grid (`FoundIsBookable`): no row
  outside of the range that is read meets a time inside it, and a day that is off has no such time. The list is the times found in their order,
  by `EachHasItsRank`: in a finite set with a total order the ranks are the numbers from zero to its size, without gaps.
- `ScoresTellWhatHappened`. `ScoresFollow`: no score is high that was computed where nothing was missed, and where nothing went astray
  one listener writes the score of the appointments as they are, unless another has yet to read them; where the list is not heard nobody runs. `PagesGoOn`: the pages are one
  list, each goes on where the one before it ended; what is on it has its place by `EachHasItsRank`, whatever order the rows came in.
  The page of a place is the least one that reaches so far (`WFMin`).

`ConversationProofs`:

- `TypeCorrect`, with what a handler has in its hands (`HandlersKept`): it loads and offers slots, books and confirms only in a step that
  has the data for it. This needs that the stored state is `Sound`, one the state machine leads to.
- `AMessageIsAnsweredOnce`. The insert of the message decides: past it there is one handler per message, and it
  speaks once (`OnceInv`).
- `SilenceOnlyAfterACall`. A message that is stored and not settled is one somebody is still handling, or a person was called
  (`SilenceInv`). That nobody answers in a state of hand-off rests on every way into that state calling.
- `TheClientHeardWhereItStands`. With one handler at a time, the state that is saved is the one its answer spoke of
  (`HeardInv`), from the step that answers to the step that saves. The question after a cancellation is told apart: no step is one that reads its answer.
- `SheIsToldWhatIsBooked`. Each time the conversation booked was told, or one handler is about to tell it (`BookedInv`).

`InboxAndScreensProofs`, first about `Inbox`:

- `TypeCorrect`. A request between its read and its notice, and a scan between its query and its last task, hold what
  they read (`RequestsFit`, `ScanFits`).
- `EveryDeadlineIsTold`. `DeadlinesInv`: while somebody is still to be told, a scan under way has the task to do, or the parts of
  a day since the deadline, or since the task is as it is, are at most those that passed without a scan, and these are bounded by
  the outage.
- `NobodyIsToldTwice`. The notice in the table is what stops a second one, and the purge takes notices away: `ToldInv` says that
  a notice about a deadline outlasts the look-back of every scan (`Outlasts`), that who was told has a notice as long
  as anybody may look, that a lead or a booking is made once and has one listener to tell of it, and that a cancellation that was told has its notice until the
  retention is over (`RepeatsAreNoticed`).

and about the parts of `Screens`, each with its invariant, stated in the module of the part, or with the proofs where
it is of the reports and the funnel:

- `AnswersStayRooted`: an answer that was kept and not replaced has a record that holds it, and that no page loaded or on the
  screen would write over with something else if it has seen the answer (`Rooted`). A page that has not seen it is the
  exception: its save puts the answer among those replaced.
- `WhatWasSavedIsSent`: a column in which no requests overlapped holds what was written last, and a request that has read it
  read what it holds (`ColumnsAreLast`), so that writing the whole column back loses nothing.
- `ViewsShowWhatIsAsked`. For a list: one request is the last one while it loads (`LastIsOne`), it is for the address, and what the
  server told it of counts and rows keeps to the fewest pages there were (`LastIsWanted`), in whatever order the two queries
  came. An empty page then asks for one that is before it and no further down than that; while a request is under way nothing is adjusted,
  as what is on the screen is of the address that was left. For the other views: the last request is for what the view
  is to show, and is under way, failed, or shown (`LastOneTells`).
- `WhatIsSubmittedIsDoneOnce`. For the booking: where nothing was lost or clicked twice one submission acts at a time, the button is off in its
  second call, and an appointment is its own (`OneSubmission`); times on the form are for its service once they are
  there, and so is what was picked and submitted (`TimesFit`). For the other forms: one wish is open, and a guarded button has one
  call for it (`OneWishAtATime`, `OneCallAtATime`).
- `ReportsAddUp`. That a sum over a finite set can be taken in any order is proved once, from the folds of the community modules
  (`SumTakesOut`): an induction over finite sets in which the set of those that have the property (`SmallerSetsFirst`) stands in for the operator that
  the library's theorem would need. From it comes that what adds up by kind adds up (`SumsOfKinds`, `CountsOfKinds`), which the chart
  uses for days and for months, and the funnel for stages and for people. A day has its instants, and one only, in every zone,
  though clocks change (`DaysInOrder`, `DaysOfInstants`); a refusal needs the hour by which they go back
  (`RefusedForAnHour`). The funnel's invariant (`FunnelKept`): who is anywhere has an
  event that says so, who is a client one of the closing, and everybody was new (`RecordsInFunnel`); a move at work that has missed nothing finds the record as it
  read it (`MovesAtWork`); and of people whose moves did not overtake each other, one event is open and it is where the record is
  (`EventsOfRecords`, `EventsApart`), and the stages they left took from their first event to their last (`TimesOfStages`).
  An export found what it asks for while the table stays as it is (`ExportFound`).

The inductive invariants hold in the runs too: most were evaluated by TLC before they were proved.

**Only model-checked.** `ComesToRest`, `PendingCallsAreSettled`, `StandingRemindersAreSent`, `AwaitingIsNoticed`, `Settles`,
`ClosedIsAsked` and `BellCatchesUp`: liveness under fairness is out of this prover's reach.

## 8. Not modelled

- The language model (`nlu.service.ts`) is called by no code. Wording, layout, navigation, formatting, CSV text, logging.
- OAuth tokens, left to Google's library: their failure is a failed attempt.
- `updateCard`, notes, values, photographs and files: data no guard reads. Encryption, the audit trail and the CSRF check are
  stateless per request, and unit tested.
- The search (`search/`) and the text filters of lists: queries of PostgreSQL.
- A client with two conversations, and more than one professional in the calendar and the slots: each is its own instance.
- Pages that only show what they load once (`App.tsx`, layout, theme): they hold no state that outlives a request.
- The deployment and the migrations: that the constraint of the agenda is in place is an assumption.
