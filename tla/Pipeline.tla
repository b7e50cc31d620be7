------------------------------ MODULE Pipeline ------------------------------
(***************************************************************************)
(* The way of a person through the funnel: a lead advances to the          *)
(* commercial pipeline (LeadsService), moves from stage to stage           *)
(* (PipelineService), becomes a client or is lost, and then goes through   *)
(* the stages of client success (ClientsService).  Every move closes the   *)
(* open rows of funnel_stage_events and opens a new one.                   *)
(*                                                                         *)
(* Moving to CALL_SCHEDULED books a commercial call and, for the end of    *)
(* it, a job that marks the call NO_SHOW if it is still pending; a NO_SHOW *)
(* call moves the card (PipelineListener, PipelineProcessor).              *)
(*                                                                         *)
(* A move reads the row, decides, and then runs one transaction, READ      *)
(* COMMITTED: its first statement sees what was committed when it began,   *)
(* the rest appears at once when it commits.                               *)
(*                                                                         *)
(* Data left out: texts, notes, values; why a call cannot be booked (that  *)
(* is Appointments.tla): here booking may fail for any reason.             *)
(***************************************************************************)
EXTENDS Integers, Sequences

CONSTANTS Clients,
          Calls,          \* ids of appointments with purpose COMMERCIAL_CALL
          Requests,       \* requests, jobs and listeners at work at one time
          OtherStages,    \* the pipeline stages the code treats alike
          OtherSuccess,   \* the success stages after NEW_CLIENT
          MaxTime,        \* bound: the horizon
          MaxAttempts,    \* attempts of a job (the code: 3)
          MaxEdits,       \* bound: how much people do
          MaxFailures,    \* bound: failed attempts of jobs
          Absent,         \* id not used yet
          Deleted,        \* id of a row that was deleted
          None            \* null

ASSUME NumbersAssumption ==
    MaxTime \in Nat \ {0} /\ MaxAttempts \in Nat \ {0} /\ MaxEdits \in Nat /\ MaxFailures \in Nat

VARIABLES
    card,       \* the table clients: where each person is in the funnel
    history,    \* the table funnel_stage_events, by client, oldest first
    call,       \* the commercial calls of the table appointments
    check,      \* the jobs call-noshow-check that wait, at most one per call
    req,        \* what each request, job or listener is about to do
    now,
    raced,      \* history: clients moved on the strength of a stale row
    edits,      \* what people did so far
    failures    \* attempts that failed so far

vars == <<card, history, call, check, req, now, raced, edits, failures>>
-----------------------------------------------------------------------------
Times == 0..MaxTime

Stages == {"NEW", "CALL_SCHEDULED", "NO_SHOW", "CLOSED_WON", "CLOSED_LOST"} \cup OtherStages
SuccessStages == {"NEW_CLIENT"} \cup OtherSuccess
FunnelStages == {"LEAD", "PIPELINE", "CLIENT", "LOST"}
Modules == {"PIPELINE", "SUCCESS"}

Card == [funnel: FunnelStages, stage: Stages \cup {None}, success: SuccessStages \cup {None}]

StageEvent == [module: Modules, from: Stages \cup SuccessStages \cup {None},
               to: Stages \cup SuccessStages, open: BOOLEAN]

\* PENDING: SCHEDULED or CONFIRMED.  CLOSED: COMPLETED or CANCELLED.
Call == [client: Clients, start: Times, status: {"PENDING", "CLOSED", "NO_SHOW"}]

\* A call takes one unit of time.
EndOf(a) == call[a].start + 1

Check == [due: 1..(MaxTime + 1), left: 1..MaxAttempts]

Idle == [pc |-> "idle"]

\* A move that has read its row: from, to and at (the date of a call) are what
\* it will write; seen (history) is how much had happened to the client.
PipelineMove ==
    [pc: {"begin", "commit"}, op: {"advance", "change", "noshow"}, client: Clients,
     from: Stages \cup {None}, to: Stages, at: Times, seen: Nat, snap: SUBSET Nat]
SuccessMove ==
    [pc: {"begin", "commit"}, op: {"success"}, client: Clients,
     from: SuccessStages \cup {None}, to: SuccessStages, at: Times, seen: Nat,
     snap: SUBSET Nat]
Move == PipelineMove \cup SuccessMove

\* Listener of STAGE_CHANGED, before the call is created and after.
Booking == [pc: {"book"}, client: Clients, at: Times]
Planning == [pc: {"plan"}, call: Calls, at: Times]

\* The job, having found its call pending; the listener of NO_SHOW.
Marking == [pc: {"mark"}, call: Calls, job: Check]
Reacting == [pc: {"react"}, client: Clients]

ASSUME SentinelAssumption ==
    /\ Absent # Deleted
    /\ {Absent, Deleted} \cap (Card \cup Call) = {}
    /\ None \notin Stages \cup SuccessStages \cup Check

TypeOK ==
    /\ card \in [Clients -> Card \cup {Absent, Deleted}]
    /\ history \in [Clients -> Seq(StageEvent)]
    /\ call \in [Calls -> Call \cup {Absent, Deleted}]
    /\ check \in [Calls -> Check \cup {None}]
    /\ req \in [Requests -> Move \cup Booking \cup Planning \cup Marking \cup Reacting \cup {Idle}]
    /\ now \in Times
    /\ raced \subseteq Clients
    /\ edits \in 0..MaxEdits /\ failures \in 0..MaxFailures

Cards == {c \in Clients : card[c] \notin {Absent, Deleted}}
CallRows == {a \in Calls : call[a] \notin {Absent, Deleted}}

\* Mutant of ModuleOf: the moves of client success recorded as the pipeline's.
ModuleAlwaysPipeline(op) == "PIPELINE"

ModuleOf(op) == IF op = "success" THEN "SUCCESS" ELSE "PIPELINE"

\* The rows with exitedAt: null.
OpenEvents(c, m) == {i \in DOMAIN history[c] : history[c][i].module = m /\ history[c][i].open}

\* TERMINAL_TO_FUNNEL.
FunnelOf(stage) ==
    CASE stage = "CLOSED_WON" -> "CLIENT"
      [] stage = "CLOSED_LOST" -> "LOST"
      [] OTHER -> "PIPELINE"

Init ==
    /\ card = [c \in Clients |-> Absent]
    /\ history = [c \in Clients |-> <<>>]
    /\ call = [a \in Calls |-> Absent]
    /\ check = [a \in Calls |-> None]
    /\ req = [r \in Requests |-> Idle]
    /\ now = 0
    /\ raced = {}
    /\ edits = 0 /\ failures = 0
-----------------------------------------------------------------------------
Edit == edits < MaxEdits /\ edits' = edits + 1
Fail == failures < MaxFailures /\ failures' = failures + 1

Goes(r, q) == req' = [req EXCEPT ![r] = q]

\* A new lead: created by hand, by the form, or by a first message.
NewLead(c) ==
    /\ card[c] = Absent
    /\ card' = [card EXCEPT ![c] = [funnel |-> "LEAD", stage |-> None, success |-> None]]
    /\ UNCHANGED <<history, call, check, req, now, raced, edits, failures>>

\* Request r has read the row of client c and will move it to "to".
Reads(r, op, c, from, to, at) ==
    /\ Goes(r, [pc |-> "begin", op |-> op, client |-> c, from |-> from, to |-> to,
                at |-> at, seen |-> Len(history[c]), snap |-> {}])
    /\ UNCHANGED <<card, history, call, check, now, raced>>

\* advanceToPipeline: findById and its guard.
ReadAdvance(r) == \E c \in Cards :
    /\ req[r] = Idle
    /\ card[c].funnel = "LEAD"
    /\ Edit
    /\ Reads(r, "advance", c, None, "NEW", 0)
    /\ UNCHANGED failures

\* changeStage: findCard and the guards.  Only a call needs a date; moving to
\* the stage the card is in is not refused.
ReadChange(r) == \E c \in Cards, to \in Stages, at \in 0..(MaxTime - 1) :
    /\ req[r] = Idle
    /\ card[c].funnel = "PIPELINE" /\ card[c].stage # None
    /\ to = "CALL_SCHEDULED" \/ at = 0
    /\ Edit
    /\ Reads(r, "change", c, card[c].stage, to, at)
    /\ UNCHANGED failures

\* changeSuccessStage: findById and its guard.
ReadSuccess(r) == \E c \in Cards, to \in SuccessStages :
    /\ req[r] = Idle
    /\ card[c].funnel = "CLIENT"
    /\ Edit
    /\ Reads(r, "success", c, card[c].success, to, 0)
    /\ UNCHANGED failures

\* onAppointmentNoShow: reads the client of the call, and leaves alone who is
\* gone, not in the pipeline, or in NO_SHOW already.
ReadNoShow(r) ==
    /\ req[r].pc = "react"
    /\ LET c == req[r].client IN
       IF c \in Cards /\ card[c].funnel = "PIPELINE" /\ card[c].stage # "NO_SHOW"
       THEN Reads(r, "noshow", c, card[c].stage, "NO_SHOW", 0)
       ELSE Goes(r, Idle) /\ UNCHANGED <<card, history, call, check, now, raced>>
    /\ UNCHANGED <<edits, failures>>

\* The first statement of the transaction, updateMany of the open events: it
\* sees those that were committed when it began.
BeginMove(r) ==
    /\ req[r].pc = "begin"
    /\ Goes(r, [req[r] EXCEPT !.pc = "commit",
                              !.snap = OpenEvents(req[r].client, ModuleOf(req[r].op))])
    /\ UNCHANGED <<card, history, call, check, now, raced, edits, failures>>

Closed(h, S) == [i \in DOMAIN h |-> IF i \in S THEN [h[i] EXCEPT !.open = FALSE] ELSE h[i]]

\* The events the transaction creates.
Opened(q) ==
    LET moved == [module |-> ModuleOf(q.op), from |-> q.from, to |-> q.to, open |-> TRUE]
    IN  IF q.op = "change" /\ q.to = "CLOSED_WON"
        THEN <<moved, [module |-> "SUCCESS", from |-> None, to |-> "NEW_CLIENT", open |-> TRUE]>>
        ELSE <<moved>>

\* Mutant of Moved: CLOSED_WON without the stage of client success.
MovedWithoutSuccess(x, q) ==
    CASE q.op = "advance" -> [x EXCEPT !.funnel = "PIPELINE", !.stage = "NEW"]
      [] q.op = "change"  -> [x EXCEPT !.funnel = FunnelOf(q.to), !.stage = q.to]
      [] q.op = "noshow"  -> [x EXCEPT !.stage = "NO_SHOW"]
      [] q.op = "success" -> [x EXCEPT !.success = q.to]

\* What the transaction makes of row x.
Moved(x, q) ==
    CASE q.op = "advance" -> [x EXCEPT !.funnel = "PIPELINE", !.stage = "NEW"]
      [] q.op = "change"  -> [x EXCEPT !.funnel = FunnelOf(q.to), !.stage = q.to,
                              !.success = IF q.to = "CLOSED_WON" THEN "NEW_CLIENT" ELSE @]
      [] q.op = "noshow"  -> [x EXCEPT !.stage = "NO_SHOW"]
      [] q.op = "success" -> [x EXCEPT !.success = q.to]

\* The transaction commits.  A move to CALL_SCHEDULED goes on in the listener
\* of STAGE_CHANGED.
CommitMove(r) ==
    /\ req[r].pc = "commit"
    /\ LET q == req[r]  c == req[r].client IN
       /\ c \in Cards
       /\ history' = [history EXCEPT ![c] = Closed(@, q.snap) \o Opened(q)]
       /\ card' = [card EXCEPT ![c] = Moved(@, q)]
       /\ raced' = IF Len(history[c]) = q.seen THEN raced ELSE raced \cup {c}
       /\ Goes(r, IF q.op = "change" /\ q.to = "CALL_SCHEDULED"
                  THEN [pc |-> "book", client |-> c, at |-> q.at] ELSE Idle)
    /\ UNCHANGED <<call, check, now, edits, failures>>

\* The client is gone: the transaction throws.
MoveRefused(r) ==
    /\ req[r].pc = "commit" /\ req[r].client \notin Cards
    /\ Goes(r, Idle)
    /\ UNCHANGED <<card, history, call, check, now, raced, edits, failures>>

\* onStageChanged: creates the call.
BookCall(r) ==
    /\ req[r].pc = "book"
    /\ req[r].client \in Cards
    /\ \E a \in Calls :
        /\ call[a] = Absent
        /\ call' = [call EXCEPT ![a] = [client |-> req[r].client, start |-> req[r].at,
                                        status |-> "PENDING"]]
        /\ Goes(r, [pc |-> "plan", call |-> a, at |-> req[r].at])
    /\ UNCHANGED <<card, history, check, now, raced, edits, failures>>

\* create refuses: the time is taken, or the client is gone.  The card stays in
\* CALL_SCHEDULED, without a call.
BookingRefused(r) ==
    /\ req[r].pc = "book"
    /\ Goes(r, Idle)
    /\ UNCHANGED <<card, history, call, check, now, raced, edits, failures>>

\* scheduleNoShowCheck, with the end the call had when it was created: not for
\* a call that is over.
PlanCheck(r) ==
    /\ req[r].pc = "plan"
    /\ check' = IF req[r].at + 1 > now
                THEN [check EXCEPT ![req[r].call] = [due |-> req[r].at + 1,
                          left |-> MaxAttempts]]
                ELSE check
    /\ Goes(r, Idle)
    /\ UNCHANGED <<card, history, call, now, raced, edits, failures>>

\* The move, the booking or the listener ends where it is: the database or the
\* queue refuses, or the process dies.  A transaction leaves nothing behind.
GiveUp(r) ==
    /\ req[r].pc \notin {"idle", "mark"}
    /\ Goes(r, Idle)
    /\ UNCHANGED <<card, history, call, check, now, raced, edits, failures>>
-----------------------------------------------------------------------------
(* The job that looks for a missed call *)

\* Mutant of Retried: no attempts option.
RetriedNever(job) == None

\* A failed attempt comes back until there is none left.
Retried(job) ==
    IF job.left > 1 THEN [job EXCEPT !.left = @ - 1] ELSE None

\* checkCallNoShow: findUnique; a call that is gone or not pending is left
\* alone.  The worker takes one job at a time, from its due time on.
ReadCall(r) == \E a \in Calls :
    /\ req[r] = Idle
    /\ check[a] # None /\ check[a].due <= now
    /\ \A s \in Requests : req[s].pc # "mark"
    /\ IF a \in CallRows /\ call[a].status = "PENDING"
       THEN Goes(r, [pc |-> "mark", call |-> a, job |-> check[a]])
       ELSE UNCHANGED req
    /\ check' = [check EXCEPT ![a] = None]
    /\ UNCHANGED <<card, history, call, now, raced, edits, failures>>

\* markNoShow: one update by id, then NO_SHOW is announced to the listener,
\* and the job does not wait for it.
MarkCall(r) ==
    /\ req[r].pc = "mark"
    /\ LET a == req[r].call IN
       /\ a \in CallRows
       /\ call' = [call EXCEPT ![a].status = "NO_SHOW"]
       /\ Goes(r, [pc |-> "react", client |-> call[a].client])
    /\ UNCHANGED <<card, history, check, now, raced, edits, failures>>

\* The call is gone since it was read: the update throws.
MarkRefused(r) ==
    /\ req[r].pc = "mark" /\ req[r].call \notin CallRows
    /\ check' = [check EXCEPT ![req[r].call] = Retried(req[r].job)]
    /\ Goes(r, Idle)
    /\ UNCHANGED <<card, history, call, now, raced, edits, failures>>

\* The attempt fails, or the process dies, before the update or after it: then
\* nobody hears of the NO_SHOW.
MarkFails(r) ==
    /\ req[r].pc = "mark"
    /\ Fail
    /\ \/ UNCHANGED call
       \/ req[r].call \in CallRows /\ call' = [call EXCEPT ![req[r].call].status = "NO_SHOW"]
    /\ check' = [check EXCEPT ![req[r].call] = Retried(req[r].job)]
    /\ Goes(r, Idle)
    /\ UNCHANGED <<card, history, now, raced, edits>>
-----------------------------------------------------------------------------
(* What people do with calls and clients *)

\* AppointmentsService.reschedule: another time, SCHEDULED again.  The job
\* stays as it is.
RescheduleCall == \E a \in CallRows, at \in 0..(MaxTime - 1) :
    /\ Edit
    /\ call' = [call EXCEPT ![a].start = at, ![a].status = "PENDING"]
    /\ UNCHANGED <<card, history, check, req, now, raced, failures>>

\* AppointmentsService.confirm; cancel and complete; markNoShow by hand, which
\* is announced as the job's is.
ConfirmCall == \E a \in CallRows :
    /\ Edit
    /\ call' = [call EXCEPT ![a].status = "PENDING"]
    /\ UNCHANGED <<card, history, check, req, now, raced, failures>>

CloseCall == \E a \in CallRows :
    /\ Edit
    /\ call' = [call EXCEPT ![a].status = "CLOSED"]
    /\ UNCHANGED <<card, history, check, req, now, raced, failures>>

MissCall(r) == \E a \in CallRows :
    /\ req[r] = Idle
    /\ Edit
    /\ call' = [call EXCEPT ![a].status = "NO_SHOW"]
    /\ Goes(r, [pc |-> "react", client |-> call[a].client])
    /\ UNCHANGED <<card, history, check, now, raced, failures>>

\* ClientsService.remove: the calls go first, the events cascade.
RemoveClient(c) ==
    /\ c \in Cards
    /\ Edit
    /\ card' = [card EXCEPT ![c] = Deleted]
    /\ history' = [history EXCEPT ![c] = <<>>]
    /\ call' = [a \in Calls |->
                   IF a \in CallRows /\ call[a].client = c THEN Deleted ELSE call[a]]
    /\ UNCHANGED <<check, req, now, raced, failures>>

Tick ==
    /\ now < MaxTime /\ now' = now + 1
    /\ UNCHANGED <<card, history, call, check, req, raced, edits, failures>>

People ==
    \/ \E c \in Clients : NewLead(c) \/ RemoveClient(c)
    \/ \E r \in Requests : ReadAdvance(r) \/ ReadChange(r) \/ ReadSuccess(r) \/ MissCall(r)
    \/ RescheduleCall \/ ConfirmCall \/ CloseCall

\* The server's own steps, and the passing of time.
Progress ==
    \/ \E r \in Requests :
           \/ BeginMove(r) \/ CommitMove(r) \/ MoveRefused(r) \/ ReadNoShow(r)
           \/ BookCall(r) \/ BookingRefused(r) \/ PlanCheck(r)
           \/ ReadCall(r) \/ MarkCall(r) \/ MarkRefused(r)
    \/ Tick

Losses == \E r \in Requests : GiveUp(r) \/ MarkFails(r)

Next == People \/ Progress \/ Losses

Spec == Init /\ [][Next]_vars

\* The process runs and BullMQ hands out the jobs that are due.
FairSpec == Spec /\ WF_vars(Progress)
-----------------------------------------------------------------------------
(* Properties *)

OpenAt(c, m, stage) == \E i \in OpenEvents(c, m) : history[c][i].to = stage

\* The stage a card is in is always an open event of its history, however moves
\* overlap: the reports never miss where somebody is.
CurrentStageOnRecord ==
    \A c \in Cards :
        /\ card[c].stage # None => OpenAt(c, "PIPELINE", card[c].stage)
        /\ card[c].success # None => OpenAt(c, "SUCCESS", card[c].success)

\* Exactly one open event in each module the client has entered.
OneOpenEvent(c) ==
    /\ \A m \in Modules : \A i, j \in OpenEvents(c, m) : i = j
    /\ card[c].stage = None <=> OpenEvents(c, "PIPELINE") = {}
    /\ card[c].success = None <=> OpenEvents(c, "SUCCESS") = {}

\* The macro stage, the stage in the pipeline and the stage of success agree.
Migrated(c) ==
    /\ card[c].funnel = "LEAD" <=> card[c].stage = None
    /\ card[c].stage # None => card[c].funnel = FunnelOf(card[c].stage)
    /\ card[c].success # None <=> card[c].funnel = "CLIENT"

\* Each event begins where the one before it in its module ended.
Chained(c) ==
    \A i, j \in DOMAIN history[c] :
        (/\ i < j /\ history[c][i].module = history[c][j].module
         /\ \A k \in (i + 1)..(j - 1) : history[c][k].module # history[c][i].module)
            => history[c][j].from = history[c][i].to

\* The transactions keep the three modules and the history in step, through
\* every sequence of moves, missed calls and failures: what can break them is
\* a move decided on a row that another one has changed since.
OnlyRacesBreakTheFunnel ==
    \A c \in Cards \ raced : OneOpenEvent(c) /\ Migrated(c) /\ Chained(c)

\* A call with a check does not stay pending for ever: at the end of its time
\* somebody has closed it or it becomes NO_SHOW, failed attempts included.
PendingCallsAreSettled ==
    \A a \in Calls : check[a] # None ~> (a \notin CallRows \/ call[a].status # "PENDING")
=============================================================================
