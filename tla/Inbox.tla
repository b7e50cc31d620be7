------------------------------- MODULE Inbox -------------------------------
(***************************************************************************)
(* tasks/ and inbox/: the tasks of the team, and the notices each person   *)
(* gets, about the deadlines of her tasks (a scan that comes back every    *)
(* few minutes) and about leads and bookings (listeners).                  *)
(*                                                                         *)
(* Requests, listeners and the scan overlap; each action is what one of    *)
(* them does between two awaits.  The scan's third part, the hand-offs of  *)
(* WhatsApp, is in Conversation.tla.                                       *)
(*                                                                         *)
(* Time goes in parts of a day; the last one of a day is 23:59, the time   *)
(* the forms store for a task that has a day but no hour.                  *)
(***************************************************************************)
EXTENDS Integers, FiniteSets

CONSTANTS Users, Attendants,  \* people, and those who are no more than ATTENDANT
          Zone,               \* the time zone of each, in parts of a day
          Tasks, Facts,       \* tasks; leads, bookings and cancellations
          Cancellations,      \* those of the facts that are
          Requests,           \* bound: requests and listeners at work at once
          Day, Morning,       \* the parts of a day, and the one of MORNING_HOUR
          Soon,               \* SOON_MINUTES, in parts of a day
          Lookback,           \* OVERDUE_LOOKBACK_DAYS, in parts of a day
          Retention,          \* RETENTION_DAYS, in parts of a day
          Dues,               \* bound: the deadlines
          Outage,             \* bound: parts of a day without one whole scan
          MaxTime, MaxActs,   \* bounds: the horizon, and what people do
          None

ASSUME SetsAssumption == Attendants \subseteq Users /\ Dues \subseteq 0..MaxTime /\ None \notin Users
                         /\ Cancellations \subseteq Facts

ASSUME NumbersAssumption ==
    /\ Day \in Nat \ {0} /\ Morning \in 0..(Day - 1)
    /\ Soon \in Nat /\ Lookback \in Nat /\ Retention \in Nat /\ Outage \in Nat
    /\ MaxTime \in Nat /\ MaxActs \in Nat
    /\ Zone \in [Users -> 0..(Day - 1)]

\* An outage is over before the scan stops looking back at what was due in it,
\* and a notice is kept (60 days) until the scan does (3 days), however long
\* before its deadline it was written.
ASSUME HorizonsAssumption ==
    /\ Outage <= Lookback
    /\ Lookback + Soon <= Retention /\ Lookback + (Day - 1 - Morning) <= Retention

VARIABLES
    active,    \* User.active
    made,      \* the leads and bookings that have been made
    task,      \* the table tasks
    notices,   \* the table user_notifications
    req,       \* what each request or listener is about to do
    scan,      \* the scan at work
    now,
    acts,
    scanned,   \* a whole scan was done in this part of the day
    missed,    \* history: for how many parts there was none
    since,     \* history: since when each task has been as it is
    told       \* history: who was told of what

vars == <<active, made, task, notices, req, scan, now, acts, scanned, missed, since, told>>
-----------------------------------------------------------------------------
Times == 0..MaxTime
Gone == [status |-> "GONE"]
Row == [status: {"OPEN"}, assignee: Users \cup {None}, createdBy: Users, due: Dues \cup {None}, completedAt: {None}]
       \cup [status: {"DONE"}, assignee: Users \cup {None}, createdBy: Users, due: Dues \cup {None}, completedAt: Times]

\* dedupeKey: the task and its deadline, or the fact.
Key == [task: Tasks, due: Dues] \cup [fact: Facts]
Notice == [user: Users, key: Key, createdAt: Times, read: BOOLEAN]

Idle == [pc |-> "idle"]
Ops == {"create", "assign", "move", "complete", "reopen", "remove"}
Work == [pc: {"assignee", "write"}, by: Users, op: Ops, t: Tasks, to: Users \cup Dues \cup {None}]
        \cup [pc: {"tell"}, key: [fact: Facts], who: SUBSET Users]
Scanning == [todo: SUBSET [t: Tasks, row: Row], purged: BOOLEAN]

\* No scan at work is not a scan.
ASSUME SentinelAssumption == None \notin Scanning

TypeOK ==
    /\ active \in SUBSET Users /\ made \subseteq Facts
    /\ task \in [Tasks -> Row \cup {Gone}]
    /\ notices \subseteq Notice
    /\ req \in [Requests -> Work \cup {Idle}]
    /\ scan \in Scanning \cup {None}
    /\ now \in Times /\ acts \in 0..MaxActs
    /\ scanned \in BOOLEAN /\ missed \in 0..Outage
    /\ since \in [Tasks -> Times] /\ told \subseteq Users \X Key

\* Nothing was told of yet; the tasks are there or not.
Init ==
    /\ active = Users /\ made = {}
    /\ task \in [Tasks -> {Gone} \cup [status: {"OPEN"}, assignee: Users \cup {None}, createdBy: Attendants,
                                      due: Dues, completedAt: {None}]]
    /\ notices = {}
    /\ req = [r \in Requests |-> Idle] /\ scan = None
    /\ now = 0 /\ acts = 0
    /\ scanned = FALSE /\ missed = 0
    /\ since = [t \in Tasks |-> 0] /\ told = {}

Act == acts < MaxActs /\ acts' = acts + 1
Goes(r, w) == req' = [req EXCEPT ![r] = w]
-----------------------------------------------------------------------------
(* Tasks *)

MayAccess(user, row) == user \notin Attendants \/ user \in {row.assignee, row.createdBy}

Busy(t) == \E r \in Requests : req[r].pc \in {"assignee", "write"} /\ req[r].t = t

\* create, up to its first check.
Create(r) == \E by \in active : \E to \in Users : \E t \in Tasks :
    /\ req[r] = Idle /\ Act
    /\ task[t] = Gone /\ ~Busy(t)
    /\ Goes(r, [pc |-> IF to = by THEN "write" ELSE "assignee", by |-> by, op |-> "create", t |-> t, to |-> to])
    /\ UNCHANGED <<active, made, task, notices, scan, now, scanned, missed, since, told>>

\* update, complete, reopen and remove, up to what getAccessible has read.
\* (complete and reopen return when there is nothing to do; the assignee None
\* is nobody, and is not checked.)
Access(r) == \E by \in active : \E op \in Ops \ {"create"} : \E t \in Tasks : \E to \in Users \cup Dues \cup {None} :
    LET row == task[t] IN
    /\ req[r] = Idle /\ Act
    /\ CASE op = "assign" -> to \in Users \cup {None}
         [] op = "move" -> to \in Dues \cup {None}
         [] OTHER -> to = None
    /\ row # Gone /\ MayAccess(by, row)
    /\ ~(op = "complete" /\ row.status = "DONE") /\ ~(op = "reopen" /\ row.status = "OPEN")
    /\ Goes(r, [pc |-> IF op = "assign" /\ to \notin {row.assignee, None} THEN "assignee" ELSE "write",
                by |-> by, op |-> op, t |-> t, to |-> to])
    /\ UNCHANGED <<active, made, task, notices, scan, now, scanned, missed, since, told>>

MayWork(user) == user \in active

AssertAssignee(r) ==
    LET q == req[r] IN
    /\ q.pc = "assignee"
    /\ IF MayWork(q.to) THEN Goes(r, [q EXCEPT !.pc = "write"]) ELSE Goes(r, Idle)
    /\ UNCHANGED <<active, made, task, notices, scan, now, acts, scanned, missed, since, told>>

Reopened(row) == [row EXCEPT !.status = "OPEN", !.completedAt = None]

\* A new task has a deadline, or none, of its own.
Written(q, row) ==
    CASE q.op = "create" -> {[status |-> "OPEN", assignee |-> q.to, createdBy |-> q.by, due |-> due,
                              completedAt |-> None] : due \in Dues \cup {None}}
      [] q.op = "assign" -> {[row EXCEPT !.assignee = q.to]}
      [] q.op = "move" -> {[row EXCEPT !.due = q.to]}
      [] q.op = "complete" -> {[row EXCEPT !.status = "DONE", !.completedAt = now]}
      [] q.op = "reopen" -> {Reopened(row)}
      [] q.op = "remove" -> {Gone}

\* The write names the task and no more of what was read; without its row it throws.
Write(r) ==
    LET q == req[r]  row == task[q.t] IN
    /\ q.pc = "write"
    /\ Goes(r, Idle)
    /\ IF row = Gone /\ q.op # "create"
       THEN UNCHANGED <<task, since>>
       ELSE /\ \E new \in Written(q, row) : task' = [task EXCEPT ![q.t] = new]
            /\ since' = [since EXCEPT ![q.t] = now]
    /\ UNCHANGED <<active, made, notices, scan, now, acts, scanned, missed, told>>

\* UsersService.deactivate: the tasks stay with who left.
Deactivate(u) ==
    /\ u \in active /\ Act
    /\ active' = active \ {u}
    /\ UNCHANGED <<made, task, notices, req, scan, now, scanned, missed, since, told>>

\* The client of a task is deleted, and the task with it.
DeleteClient(t) ==
    /\ task[t] # Gone /\ Act
    /\ task' = [task EXCEPT ![t] = Gone]
    /\ since' = [since EXCEPT ![t] = now]
    /\ UNCHANGED <<active, made, notices, req, scan, now, scanned, missed, told>>
-----------------------------------------------------------------------------
(* Notices *)

\* notifyUsers: createMany with skipDuplicates, on the unique user and key.
NotifyUsers(who, key) ==
    LET new == {u \in who : ~\E n \in notices : n.user = u /\ n.key = key} IN
    /\ notices' = notices \cup {[user |-> u, key |-> key, createdAt |-> now, read |-> FALSE] : u \in new}
    /\ told' = told \cup (who \X {key})

\* A lead (to everyone who is active), or a booking or cancellation (to its
\* professional, when she is): the listener reads who is to be told.  A lead or
\* a booking is made once; cancel does not look whether the booking is cancelled.
Emit(r) == \E f \in Facts : \E who \in {active} \cup {{u} : u \in active} :
    /\ req[r] = Idle /\ Act
    /\ f \notin made /\ made' = made \cup ({f} \ Cancellations)
    /\ Goes(r, [pc |-> "tell", key |-> [fact |-> f], who |-> who])
    /\ UNCHANGED <<active, task, notices, scan, now, scanned, missed, since, told>>

Tell(r) ==
    LET q == req[r] IN
    /\ q.pc = "tell"
    /\ NotifyUsers(q.who, q.key)
    /\ Goes(r, Idle)
    /\ UNCHANGED <<active, made, task, scan, now, acts, scanned, missed, since>>

MarkRead == \E n \in notices :
    /\ ~n.read /\ Act
    /\ notices' = (notices \ {n}) \cup {[n EXCEPT !.read = TRUE]}
    /\ UNCHANGED <<active, made, task, req, scan, now, scanned, missed, since, told>>

MarkAllRead == \E u \in Users :
    /\ Act
    /\ \E n \in notices : n.user = u /\ ~n.read
    /\ notices' = {IF n.user = u THEN [n EXCEPT !.read = TRUE] ELSE n : n \in notices}
    /\ UNCHANGED <<active, made, task, req, scan, now, scanned, missed, since, told>>
-----------------------------------------------------------------------------
(* The scan *)

PartOf(time, zone) == (time + zone) % Day
DayOf(time, zone) == (time + zone) \div Day

\* Mutant of TaskDueNotice: a task for a day is told of only on that day.
TaskDueOnTheDay(due, zone) ==
    IF PartOf(due, zone) = Day - 1 THEN DayOf(now, zone) = DayOf(due, zone) /\ PartOf(now, zone) >= Morning
    ELSE due - now <= Soon /\ due >= now

\* taskDueNotice: is it time, where that person is?
TaskDueNotice(due, zone) ==
    IF PartOf(due, zone) = Day - 1
    THEN \/ DayOf(now, zone) > DayOf(due, zone)
         \/ DayOf(now, zone) = DayOf(due, zone) /\ PartOf(now, zone) >= Morning
    ELSE due - now <= Soon

Candidates ==
    {c \in [t: Tasks, row: {task[t] : t \in Tasks} \ {Gone}] :
        /\ task[c.t] = c.row /\ c.row.status = "OPEN" /\ c.row.due # None
        /\ c.row.due >= now - Lookback /\ c.row.due <= now + Day
        /\ c.row.assignee \in active}

\* The scheduler's job.  Scans between a whole one and the next part of the
\* day are left out: what they would find, the next one does.
StartScan ==
    /\ scan = None /\ ~scanned
    /\ scan' = [todo |-> Candidates, purged |-> FALSE]
    /\ UNCHANGED <<active, made, task, notices, req, now, acts, scanned, missed, since, told>>

\* scanTasks, one candidate, as it was read.
ScanTask == \E c \in (IF scan = None THEN {} ELSE scan.todo) :
    /\ scan' = [scan EXCEPT !.todo = @ \ {c}]
    /\ IF TaskDueNotice(c.row.due, Zone[c.row.assignee])
       THEN NotifyUsers({c.row.assignee}, [task |-> c.t, due |-> c.row.due])
       ELSE UNCHANGED <<notices, told>>
    /\ UNCHANGED <<active, made, task, req, now, acts, scanned, missed, since>>

\* Mutant of Old: the notices of what is still looked back at go.
OldAlready(n) == n.createdAt < now - Lookback

Old(n) == n.createdAt < now - Retention

\* purgeOld, at the same time.
PurgeOld ==
    /\ scan # None /\ ~scan.purged
    /\ notices' = {n \in notices : ~Old(n)}
    /\ scan' = [scan EXCEPT !.purged = TRUE]
    /\ UNCHANGED <<active, made, task, req, now, acts, scanned, missed, since, told>>

EndScan ==
    /\ scan # None /\ scan.todo = {} /\ scan.purged
    /\ scan' = None /\ scanned' = TRUE
    /\ UNCHANGED <<active, made, task, notices, req, now, acts, missed, since, told>>

\* The database fails, or the process dies.
ScanFails ==
    /\ scan # None
    /\ scan' = None
    /\ UNCHANGED <<active, made, task, notices, req, now, acts, scanned, missed, since, told>>

RequestFails(r) ==
    /\ req[r] # Idle
    /\ Goes(r, Idle)
    /\ UNCHANGED <<active, made, task, notices, scan, now, acts, scanned, missed, since, told>>
-----------------------------------------------------------------------------
\* The next part of the day.  The scan comes back every two minutes, so that
\* parts without a whole one are an outage.
Tick ==
    /\ now < MaxTime /\ now' = now + 1
    /\ scan = None /\ \A r \in Requests : req[r] = Idle
    /\ scanned \/ missed < Outage
    /\ missed' = IF scanned THEN 0 ELSE missed + 1
    /\ scanned' = FALSE
    /\ UNCHANGED <<active, made, task, notices, req, scan, acts, since, told>>

Step(r) == Create(r) \/ Access(r) \/ AssertAssignee(r) \/ Write(r) \/ Emit(r) \/ Tell(r) \/ RequestFails(r)

Scan == StartScan \/ ScanTask \/ PurgeOld \/ EndScan \/ ScanFails

Next ==
    \/ \E r \in Requests : Step(r)
    \/ \E u \in Users : Deactivate(u)
    \/ \E t \in Tasks : DeleteClient(t)
    \/ MarkRead \/ MarkAllRead \/ Scan \/ Tick

Spec == Init /\ [][Next]_vars
-----------------------------------------------------------------------------
(* Properties *)

\* When the scan no longer looks back at a deadline, the person who has had
\* the open task, and early enough for an outage to be over, was told of it.
DeadlinesAreTold ==
    \A t \in Tasks :
        LET row == task[t] IN
        (row # Gone /\ row.status = "OPEN" /\ row.due # None /\ row.assignee \in active
            /\ row.due + Lookback < now /\ since[t] + Outage < row.due + Lookback)
        => <<row.assignee, [task |-> t, due |-> row.due]>> \in told

\* Nobody is told twice of the same deadline or the same fact: not by the next
\* scan, not by a listener, and not after the notice, read or not, was purged.
\* (A booking that is cancelled again when its notice is gone is told of again.)
ToldOnce ==
    [][\A n \in notices' :
           \/ \E o \in notices : o.user = n.user /\ o.key = n.key
           \/ <<n.user, n.key>> \notin told
           \/ n.key \in [fact: Cancellations] /\ now > Retention]_vars
=============================================================================
