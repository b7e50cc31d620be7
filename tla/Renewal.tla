------------------------------ MODULE Renewal ------------------------------
(***************************************************************************)
(* client-success/: ninety days after a client was closed, she is asked    *)
(* whether she wants to come back.                                         *)
(*                                                                         *)
(* The question is a delayed job whose id is the client's; a job that has  *)
(* finished keeps its id, and adding a job whose id is in use is ignored.  *)
(* What sendToClient does is in Delivery.tla.                              *)
(***************************************************************************)
EXTENDS Integers

CONSTANTS Attempts,     \* attempts of the job
          MaxChanges,   \* bound: changes of the client
          MaxFaults     \* bound: calls that fail

VARIABLES
    client,     \* Client.successStage, and whether there is a phoneE164
    adding,     \* listeners about to add the job
    job,        \* renewal-reminder-<client>
    asked,      \* how often the question was stored
    changes, faults,
    closings,   \* history: how often the client was closed
    lost        \* history: what took a job, an attempt or the reason to ask away

vars == <<client, adding, job, asked, changes, faults, closings, lost>>
-----------------------------------------------------------------------------
Stages == {"OTHER", "CLOSED", "GONE"}
NoJob == [state |-> "none"]
Losses == {"job", "attempt", "closed", "number"}

TypeOK ==
    /\ client \in [stage: Stages, number: BOOLEAN]
    /\ adding \in 0..MaxChanges
    /\ job \in {NoJob} \cup [state: {"delayed", "read", "send", "finished"}, tries: 0..(Attempts - 1)]
    /\ asked \in 0..Attempts
    /\ changes \in 0..MaxChanges /\ faults \in 0..MaxFaults
    /\ closings \in 0..MaxChanges
    /\ lost \in [Losses -> BOOLEAN]

Init ==
    /\ client \in [stage: {"OTHER"}, number: BOOLEAN] /\ adding = 0 /\ job = NoJob /\ asked = 0
    /\ changes = 0 /\ faults = 0 /\ closings = 0
    /\ lost = [x \in Losses |-> FALSE]

Fault == faults < MaxFaults /\ faults' = faults + 1
-----------------------------------------------------------------------------
\* changeSuccessStage (to the same stage, too), deletion; the event reaches the
\* listener.
ChangeStage == \E to \in Stages :
    /\ client.stage # "GONE"
    /\ changes < MaxChanges /\ changes' = changes + 1
    /\ client' = [client EXCEPT !.stage = to]
    /\ adding' = IF to = "CLOSED" THEN adding + 1 ELSE adding
    /\ closings' = IF to = "CLOSED" THEN closings + 1 ELSE closings
    /\ UNCHANGED <<job, asked, faults, lost>>

\* Mutant of Added: a job that has finished makes room.
AddedAgain == IF job.state \in {"none", "finished"} THEN [state |-> "delayed", tries |-> 0] ELSE job

Added == IF job = NoJob THEN [state |-> "delayed", tries |-> 0] ELSE job

\* The number is given, or taken away, on her page.
ChangeNumber ==
    /\ client.stage # "GONE"
    /\ changes < MaxChanges /\ changes' = changes + 1
    /\ client' = [client EXCEPT !.number = ~@]
    /\ UNCHANGED <<adding, job, asked, faults, closings, lost>>

ScheduleRenewalReminder ==
    /\ adding > 0 /\ adding' = adding - 1
    /\ job' = Added
    /\ UNCHANGED <<client, asked, changes, faults, closings, lost>>

\* Redis fails: a warning.
ScheduleFails ==
    /\ adding > 0 /\ Fault
    /\ adding' = adding - 1
    /\ lost' = [lost EXCEPT !["job"] = TRUE]
    /\ UNCHANGED <<client, job, asked, changes, closings>>

\* The delay is over, or the pause before another attempt.
Due ==
    /\ job.state = "delayed"
    /\ job' = [job EXCEPT !.state = "read"]
    /\ UNCHANGED <<client, adding, asked, changes, faults, closings, lost>>

\* Mutant of ToBeAsked: who came back is asked, who is closed is not.
ToBeAskedWhenBack == client.stage = "OTHER"

ToBeAsked == client.stage = "CLOSED"

ReadClient ==
    /\ job.state = "read"
    /\ job' = [job EXCEPT !.state = IF ToBeAsked THEN "send" ELSE "finished"]
    /\ lost' = [lost EXCEPT !["closed"] = @ \/ client.stage # "CLOSED"]
    /\ UNCHANGED <<client, adding, asked, changes, faults, closings>>

\* sendToClient: without a number nothing is stored.
SendRenewalReminder ==
    /\ job.state = "send" /\ client.stage # "GONE"
    /\ asked' = IF client.number THEN asked + 1 ELSE asked
    /\ lost' = [lost EXCEPT !["number"] = @ \/ ~client.number]
    /\ job' = [job EXCEPT !.state = "finished"]
    /\ UNCHANGED <<client, adding, changes, faults, closings>>

AnotherAttempt ==
    /\ job' = IF job.tries + 1 < Attempts THEN [state |-> "delayed", tries |-> job.tries + 1]
              ELSE [job EXCEPT !.state = "finished"]
    /\ lost' = [lost EXCEPT !["attempt"] = TRUE]

\* A call fails, before the message is stored or after.
AttemptFails ==
    /\ job.state \in {"read", "send"} /\ Fault
    /\ asked' \in IF job.state = "send" /\ client.number THEN {asked, asked + 1} ELSE {asked}
    /\ AnotherAttempt
    /\ UNCHANGED <<client, adding, changes, closings>>

\* sendToClient does not find who was deleted meanwhile.
NobodyToAsk ==
    /\ job.state = "send" /\ client.stage = "GONE"
    /\ AnotherAttempt
    /\ UNCHANGED <<client, adding, asked, changes, faults, closings>>
-----------------------------------------------------------------------------
Working == ScheduleRenewalReminder \/ Due \/ ReadClient \/ SendRenewalReminder \/ NobodyToAsk

Next == ChangeStage \/ ChangeNumber \/ Working \/ ScheduleFails \/ AttemptFails

\* The listener and the worker go on, and days pass.
Spec == Init /\ [][Next]_vars /\ WF_vars(Working)
-----------------------------------------------------------------------------
(* Properties *)

\* Inductive: the one job asks when it finishes, or in an attempt that failed; and
\* each addition comes from a closing, each closing from a change.
OneQuestion ==
    /\ ~lost["attempt"] => asked <= 1 /\ (asked = 0 \/ job.state = "finished")
    /\ asked <= IF job = NoJob THEN 0 ELSE IF job.state = "finished" THEN job.tries + 1 ELSE job.tries
    /\ adding <= closings /\ closings <= changes

\* However often she is closed, and whatever closes her again while a job is
\* there, a client is asked once, unless an attempt failed.
AskedOnce == lost["attempt"] \/ asked <= 1

\* A client who is closed is asked in the end, unless she was not closed any
\* more when her time had come, or had no number, or the job or an attempt was lost.
Closed == closings > 0
AskedOrLost == asked > 0 \/ \E x \in DOMAIN lost : lost[x]

ClosedIsAsked == Closed ~> AskedOrLost
=============================================================================
