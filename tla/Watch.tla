-------------------------------- MODULE Watch --------------------------------
(***************************************************************************)
(* How what changes in the Google calendar of a professional gets into the *)
(* CRM: she connects, Google watches her calendar over a channel for some  *)
(* time, and each notification is a job that reads what has changed since  *)
(* the last one.  What is done with it is in CalendarSync.tla.             *)
(*                                                                         *)
(* Changes of the calendar are numbered; a sync token stands for the       *)
(* number it covers.                                                       *)
(***************************************************************************)
EXTENDS Integers, Sequences, SequencesExt

CONSTANTS Channels,
          Attempts,      \* of a job (5 in the code)
          MaxChanges,    \* bound: of the calendar
          MaxFaults,     \* bound: of calls, of the worker
          None

VARIABLES
    google,        \* the last change, the channels it watches over, the oldest change a token may cover
    tells,         \* notifications on their way
    connection,    \* channelId, what its syncToken covers (0 if it has none), lastSyncError
    jobs,          \* in the queue; "for" is the change it was told of, a history
    run,           \* the job at work, up to which change it reads, and whether its token was withdrawn
    faults,
    seen,          \* the changes that were read
    missed         \* history: changes of which word got lost, and how

vars == <<google, tells, connection, jobs, run, faults, seen, missed>>
-----------------------------------------------------------------------------
Changes == 1..MaxChanges
Ways == {"unwatched", "not queued", "replaced channel", "token withdrawn", "gave up"}
Job == [channel : Channels, for : Changes, left : 1..Attempts]
Run == [job : Job, from : 0..MaxChanges, read : 0..MaxChanges, gone : BOOLEAN]

TypeOK ==
    /\ google \in [last : 0..MaxChanges, watches : SUBSET Channels, keeps : 0..MaxChanges]
    /\ tells \subseteq [channel : Channels, for : Changes]
    /\ connection \in [channel : Channels \cup {None}, token : 0..MaxChanges, error : BOOLEAN]
    /\ jobs \in Seq(Job)
    /\ run \in {None} \cup Run
    /\ faults \in 0..MaxFaults
    /\ seen \subseteq Changes
    /\ missed \subseteq Changes \X Ways

\* She has connected, without a channel: none could be registered.
Init ==
    /\ google = [last |-> 0, watches |-> {}, keeps |-> 0]
    /\ tells = {} /\ jobs = <<>> /\ run = None
    /\ connection = [channel |-> None, token |-> 0, error |-> FALSE]
    /\ faults = 0 /\ seen = {} /\ missed = {}

Fault == faults < MaxFaults /\ faults' = faults + 1
-----------------------------------------------------------------------------
\* Channels have an id of their own each.
Fresh == {c \in Channels :
    /\ c \notin google.watches \cup {connection.channel} \cup {t.channel : t \in tells}
    /\ \A i \in DOMAIN jobs : jobs[i].channel # c
    /\ run # None => run.job.channel # c}

\* handleOAuthCallback.  The token stays; so does the channel, if no new one
\* can be registered.
Connect ==
    /\ \/ \E c \in Fresh :
            /\ google' = [google EXCEPT !.watches = @ \cup {c}]
            /\ connection' = [connection EXCEPT !.channel = c, !.error = FALSE]
            /\ UNCHANGED faults
       \/ /\ Fault
          /\ connection' = [connection EXCEPT !.error = FALSE]
          /\ UNCHANGED google
    /\ UNCHANGED <<tells, jobs, run, seen, missed>>

\* Nobody registers a new channel before: 'register-watch' is never queued.
Expire(c) ==
    /\ c \in google.watches
    /\ google' = [google EXCEPT !.watches = @ \ {c}]
    /\ UNCHANGED <<tells, connection, jobs, run, faults, seen, missed>>

Withdraw ==
    /\ google.keeps < google.last
    /\ google' = [google EXCEPT !.keeps = google.last]
    /\ UNCHANGED <<tells, connection, jobs, run, faults, seen, missed>>

Change ==
    /\ google.last < MaxChanges
    /\ LET n == google.last + 1 IN
       /\ google' = [google EXCEPT !.last = n]
       /\ tells' = tells \cup [channel : google.watches, for : {n}]
       /\ missed' = missed \cup (IF google.watches = {} THEN {<<n, "unwatched">>} ELSE {})
    /\ UNCHANGED <<connection, jobs, run, faults, seen>>

\* The controller's webhook: 200 even if the job cannot be queued.
Webhook(t) ==
    /\ tells' = tells \ {t}
    /\ \/ /\ jobs' = Append(jobs, [channel |-> t.channel, for |-> t.for, left |-> Attempts])
          /\ UNCHANGED <<faults, missed>>
       \/ /\ Fault /\ UNCHANGED jobs
          /\ missed' = missed \cup {<<t.for, "not queued">>}
    /\ UNCHANGED <<google, connection, run, seen>>

Withdrawn(token) == 0 < token /\ token < google.keeps

\* runIncrementalSync: the connection of the channel, and all that changed
\* after its token.
Read ==
    /\ run = None /\ jobs # <<>>
    /\ jobs' = Tail(jobs)
    /\ IF Head(jobs).channel = connection.channel
       THEN /\ run' = [job |-> Head(jobs), from |-> connection.token, read |-> google.last,
                      gone |-> Withdrawn(connection.token)]
            /\ UNCHANGED missed
       ELSE /\ missed' = missed \cup {<<Head(jobs).for, "replaced channel">>}
            /\ UNCHANGED run
    /\ UNCHANGED <<google, tells, connection, faults, seen>>

\* Mutant of Covered: the token also covers what happened meanwhile.
CoveredLate == google.last

\* The nextSyncToken of the last page.
Covered == run.read

\* The token may be withdrawn between two pages.
Finish == \E gone \in (IF run = None THEN {} ELSE {run.gone, Withdrawn(run.from)}) :
    /\ run' = None
    /\ IF gone
       THEN /\ connection' = [connection EXCEPT !.token = 0]   \* 410: to read it all the next time
            /\ missed' = missed \cup {<<run.job.for, "token withdrawn">>}
            /\ UNCHANGED seen
       ELSE /\ connection' = [connection EXCEPT !.token = Covered, !.error = FALSE]
            /\ seen' = seen \cup ((run.from + 1)..run.read)
            /\ UNCHANGED missed
    /\ UNCHANGED <<google, tells, jobs, faults>>

\* A call fails, of Google or of the database, or the worker stops; the token
\* of Google may have been revoked.
Fail(shown) ==
    /\ run # None /\ Fault
    /\ run' = None
    /\ connection' = [connection EXCEPT !.error = @ \/ shown]
    /\ IF run.job.left > 1
       THEN /\ jobs' = Append(jobs, [run.job EXCEPT !.left = @ - 1])
            /\ UNCHANGED missed
       ELSE /\ missed' = missed \cup {<<run.job.for, "gave up">>}
            /\ UNCHANGED jobs
    /\ UNCHANGED <<google, tells, seen>>

\* upsertEventForAppointment, with the same connection: what goes out says
\* nothing of what comes in.
Export(works) ==
    /\ connection.error = works
    /\ IF works THEN UNCHANGED faults ELSE Fault
    /\ connection' = [connection EXCEPT !.error = ~works]
    /\ UNCHANGED <<google, tells, jobs, run, seen, missed>>
-----------------------------------------------------------------------------
Next ==
    \/ Connect \/ Withdraw \/ Change \/ Read \/ Finish
    \/ \E c \in Channels : Expire(c)
    \/ \E t \in tells : Webhook(t)
    \/ \E b \in BOOLEAN : Fail(b) \/ Export(b)

Spec == Init /\ [][Next]_vars
-----------------------------------------------------------------------------
(* Properties *)

Pending(n) ==
    \/ \E t \in tells : t.for = n
    \/ \E i \in DOMAIN jobs : jobs[i].for = n
    \/ run # None /\ run.job.for = n

Accounted(n) == Pending(n) \/ \E w \in Ways : <<n, w>> \in missed

\* Inductive: what the token covers was read, and so it will be if the run ends
\* well; a job at work has read at least up to the change it was told of; and every
\* change that was not read is accounted for.
TokenIsRead ==
    /\ 1..connection.token \subseteq seen
    /\ run # None => 1..run.from \subseteq seen /\ run.job.for <= run.read /\ run.read <= google.last
    /\ \A t \in tells : t.for <= google.last
    /\ \A i \in DOMAIN jobs : jobs[i].for <= google.last
    /\ \A n \in (1..google.last) \ seen : Accounted(n)

\* A change of the calendar that the CRM has not read is about to be, unless
\* word of it got lost in one of five ways: no channel was left, the job could
\* not be queued, it was queued for a channel that a new connection replaced,
\* Google had withdrawn the token, or five attempts failed.
MissedForAReason ==
    \A n \in (1..google.last) \ seen : Accounted(n)
=============================================================================
