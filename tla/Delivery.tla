------------------------------ MODULE Delivery ------------------------------
(***************************************************************************)
(* whatsapp/, outwards: a message is stored, queued, sent by the worker    *)
(* through the provider and marked, with retries.                          *)
(*                                                                         *)
(* A call stores one message; Reminders.tla and Conversation.tla have the  *)
(* callers.  The queue is BullMQ, modelled from its use: first in, first   *)
(* out, one job at a time, failed jobs come back after a pause, and the    *)
(* job of a worker that died comes back once.                              *)
(***************************************************************************)
EXTENDS Integers, Sequences, FiniteSets

CONSTANTS Messages,    \* calls of sendToClient, for one client
          Numbers,     \* the numbers the client may have
          Attempts,    \* attempts of a job
          MaxFaults,   \* bound: calls that fail, processes that die, changes from outside
          None

ASSUME NumbersAssumption ==
    /\ Attempts \in Nat \ {0} /\ MaxFaults \in Nat /\ IsFiniteSet(Messages)
    /\ None \notin Numbers /\ None \notin Messages \X (1..Attempts)

VARIABLES
    phone,      \* Client.phoneE164
    call,       \* how far each call of sendToClient is
    message,    \* the table messages
    waiting,    \* the jobs, in order
    delayed,    \* the jobs to be tried again
    worker,
    open,       \* the instance at the Evolution API is connected
    faults,
    delivered,  \* history: what reached a phone
    before,     \* history: pairs of messages, the call of one over before the other's began
    retried,    \* history: messages with an attempt that failed
    trouble     \* history: messages a fault hit after the provider had them, or that lost their job

vars == <<phone, call, message, waiting, delayed, worker, open, faults, delivered, before, retried, trouble>>
queue == <<waiting, delayed, worker>>
history == <<delivered, before, retried, trouble>>
-----------------------------------------------------------------------------
Gone == [status |-> "NONE"]
Ids == (Messages \X (1..Attempts)) \cup {None}
Row == [number: Numbers, status: {"QUEUED", "SENT", "FAILED"}, providerMessageId: Ids]
Job == [m: Messages, tries: 0..(Attempts - 1), stalled: BOOLEAN]
Idle == [pc |-> "idle"]

TypeOK ==
    /\ phone \in Numbers \cup {None}
    /\ call \in [Messages -> [pc: {"no", "over"}] \cup [pc: {"create", "add"}, number: Numbers]]
    /\ message \in [Messages -> Row \cup {Gone}]
    /\ waiting \in Seq(Job) /\ Len(waiting) <= Cardinality(Messages)
    /\ delayed \subseteq Job
    /\ worker \in {Idle} \cup [pc: {"read", "failed"}, job: Job]
                  \cup [pc: {"send"}, job: Job, to: Numbers] \cup [pc: {"sent"}, job: Job, id: Ids]
    /\ open \in BOOLEAN
    /\ faults \in 0..MaxFaults
    /\ delivered \in Seq(Messages \X Numbers)
    /\ before \subseteq Messages \X Messages
    /\ retried \subseteq Messages /\ trouble \subseteq Messages

Init ==
    /\ phone \in Numbers
    /\ call = [m \in Messages |-> [pc |-> "no"]] /\ message = [m \in Messages |-> Gone]
    /\ waiting = <<>> /\ delayed = {} /\ worker = Idle
    /\ open \in BOOLEAN
    /\ faults = 0
    /\ delivered = <<>> /\ before = {} /\ retried = {} /\ trouble = {}

Fault == faults < MaxFaults /\ faults' = faults + 1
-----------------------------------------------------------------------------
(* The call *)

Over(m) == call[m].pc = "over"
Calls(m, pc, number) == call' = [call EXCEPT ![m] = [pc |-> pc, number |-> number]]
Returns(m) == call' = [call EXCEPT ![m] = [pc |-> "over"]]

\* findOrCreateConversation: the conversation of the number the client has,
\* and nothing at all without one.
SendToClient(m) ==
    /\ call[m].pc = "no"
    /\ IF phone = None THEN Returns(m) ELSE Calls(m, "create", phone)
    /\ before' = before \cup {<<n, m>> : n \in {n \in Messages : Over(n)}}
    /\ UNCHANGED <<phone, message, queue, faults, delivered, retried, trouble, open>>

NewRow(number) == [number |-> number, status |-> "QUEUED", providerMessageId |-> None]

StoreMessage(m) ==
    /\ call[m].pc = "create"
    /\ message' = [message EXCEPT ![m] = NewRow(call[m].number)]
    /\ Calls(m, "add", call[m].number)
    /\ UNCHANGED <<phone, queue, faults, history, open>>

\* Mutant of Enqueued: the newest message first.
EnqueuedFirst(jobs, job) == <<job>> \o jobs

Enqueued(jobs, job) == Append(jobs, job)

AddJob(m) ==
    /\ call[m].pc = "add"
    /\ waiting' = Enqueued(waiting, [m |-> m, tries |-> 0, stalled |-> FALSE])
    /\ Returns(m)
    /\ UNCHANGED <<phone, message, delayed, worker, faults, history, open>>

\* The database or Redis fails: what was stored stays QUEUED, without a job.
CallFails(m) ==
    /\ call[m].pc \in {"create", "add"} /\ Fault
    /\ Returns(m)
    /\ trouble' = trouble \cup {m}
    /\ UNCHANGED <<phone, message, queue, delivered, before, retried, open>>

\* The client changes her number, or has none any more.
ChangePhone ==
    /\ Fault
    /\ phone' \in (Numbers \cup {None}) \ {phone}
    /\ UNCHANGED <<call, message, queue, history, open>>

\* The client is deleted, with her conversations and messages.
DeleteClient ==
    /\ Fault
    /\ \A m \in Messages : Over(m)
    /\ message' = [m \in Messages |-> Gone] /\ phone' = None
    /\ UNCHANGED <<call, queue, history, open>>
-----------------------------------------------------------------------------
(* The worker *)

TakeJob ==
    /\ worker = Idle /\ waiting # <<>>
    /\ worker' = [pc |-> "read", job |-> Head(waiting)]
    /\ waiting' = Tail(waiting)
    /\ UNCHANGED <<phone, call, message, delayed, faults, history, open>>

ReadMessage ==
    /\ worker.pc = "read"
    /\ LET row == message[worker.job.m] IN
       worker' = IF row = Gone THEN Idle
                 ELSE [pc |-> "send", job |-> worker.job, to |-> row.number]
    /\ UNCHANGED <<phone, call, message, waiting, delayed, faults, history, open>>

\* Mutant of Fallback: the same for every message.  (The provider of Meta does so.)
FallbackUnknown(job) == <<CHOOSE m \in Messages : TRUE, 1>>

\* sendText of Evolution: an answer without an id gets a random one.
Fallback(job) == <<job.m, job.tries + 1>>

\* The provider has it: its answer arrives, with its own id or without, or not.
Deliver ==
    /\ worker.pc = "send" /\ open
    /\ delivered' = Append(delivered, <<worker.job.m, worker.to>>)
    /\ \/ worker' = [pc |-> "sent", job |-> worker.job, id |-> Fallback(worker.job)] /\ UNCHANGED <<faults, trouble>>
       \/ /\ Fault /\ trouble' = trouble \cup {worker.job.m}
          /\ worker' = [pc |-> "failed", job |-> worker.job]
    /\ UNCHANGED <<phone, call, message, waiting, delayed, before, retried, open>>

Refused(job) == [pc |-> "failed", job |-> job]

\* The provider refuses, or does not answer.
SendFails ==
    /\ worker.pc = "send"
    /\ IF open THEN Fault ELSE UNCHANGED faults
    /\ worker' = Refused(worker.job)
    /\ UNCHANGED <<phone, call, message, waiting, delayed, history, open>>

\* providerMessageId is unique: another message with this id makes the update throw.
MarkSent ==
    /\ worker.pc = "sent"
    /\ LET m == worker.job.m IN
       IF message[m] = Gone \/ \E n \in Messages \ {m} : message[n] # Gone /\ message[n].providerMessageId = worker.id
       THEN worker' = [pc |-> "failed", job |-> worker.job] /\ UNCHANGED message
       ELSE /\ message' = [message EXCEPT ![m].status = "SENT", ![m].providerMessageId = worker.id]
            /\ worker' = Idle
    /\ UNCHANGED <<phone, call, waiting, delayed, faults, history, open>>

MarkSentFails ==
    /\ worker.pc = "sent" /\ Fault
    /\ worker' = [pc |-> "failed", job |-> worker.job]
    /\ trouble' = trouble \cup {worker.job.m}
    /\ UNCHANGED <<phone, call, message, waiting, delayed, delivered, before, retried, open>>

\* Mutant of MarkedFailed: it is left to the next attempt.
MarkedNothing(row) == row

MarkedFailed(row) == IF row = Gone THEN Gone ELSE [row EXCEPT !.status = "FAILED"]

TriedAgain(job) == job.tries + 1 < Attempts

\* The job throws: it comes back until its attempts are over.
Rethrow ==
    LET job == worker.job IN
    /\ delayed' = IF TriedAgain(job) THEN delayed \cup {[job EXCEPT !.tries = @ + 1]} ELSE delayed
    /\ worker' = Idle
    /\ retried' = retried \cup {job.m}

MarkFailed ==
    /\ worker.pc = "failed"
    /\ message' = [message EXCEPT ![worker.job.m] = MarkedFailed(@)]
    /\ Rethrow
    /\ UNCHANGED <<phone, call, waiting, faults, delivered, before, trouble, open>>

MarkFailedFails ==
    /\ worker.pc = "failed" /\ Fault
    /\ Rethrow
    /\ trouble' = trouble \cup {worker.job.m}
    /\ UNCHANGED <<phone, call, message, waiting, delivered, before, open>>

\* The worker dies.  Its job is taken for stalled, and comes back once.
WorkerDies ==
    /\ worker # Idle /\ Fault
    /\ waiting' = IF worker.job.stalled THEN waiting ELSE Append(waiting, [worker.job EXCEPT !.stalled = TRUE])
    /\ worker' = Idle
    /\ trouble' = trouble \cup {worker.job.m}
    /\ retried' = retried \cup {worker.job.m}
    /\ UNCHANGED <<phone, call, message, delayed, delivered, before, open>>

ComesBack == \E job \in delayed :
    /\ delayed' = delayed \ {job}
    /\ waiting' = Append(waiting, job)
    /\ UNCHANGED <<phone, call, message, worker, faults, history, open>>
-----------------------------------------------------------------------------
\* The connection of the instance (Connection.tla) is lost, or back.
Connection ==
    /\ IF open THEN Fault ELSE UNCHANGED faults
    /\ open' = ~open
    /\ UNCHANGED <<phone, call, message, queue, history>>

Calling(m) == SendToClient(m) \/ StoreMessage(m) \/ AddJob(m) \/ CallFails(m)

Working == TakeJob \/ ReadMessage \/ Deliver \/ SendFails \/ MarkSent \/ MarkFailed

Next ==
    \/ \E m \in Messages : Calling(m)
    \/ ChangePhone \/ DeleteClient
    \/ Working \/ MarkSentFails \/ MarkFailedFails \/ WorkerDies \/ ComesBack
    \/ Connection

Spec == Init /\ [][Next]_vars

\* The worker works and failed jobs come back: this is what Redis is for.
\* Nobody has to call, and the connection may stay lost.
FairSpec == Spec /\ WF_vars(Working) /\ WF_vars(ComesBack)
-----------------------------------------------------------------------------
(* Properties *)

Arrivals(m) == {i \in DOMAIN delivered : delivered[i][1] = m}

\* A message arrives once, however often it is tried, unless a fault comes
\* between the provider and its mark; and one that is marked as sent has
\* arrived, at the number of its conversation.
ArrivesOnce ==
    /\ \A m \in Messages : m \in trouble \/ Cardinality(Arrivals(m)) <= 1
    /\ \A m \in Messages : message[m] # Gone /\ message[m].status = "SENT" =>
         \E i \in Arrivals(m) : delivered[i][2] = message[m].number

\* What was said first arrives first, unless an attempt of it failed or it was
\* lost with its client or its call.
ArrivesInOrder ==
    \A m, n \in Messages : <<m, n>> \in before =>
        \A j \in Arrivals(n) :
            m \in retried \cup trouble \/ message[m] = Gone \/ \E i \in Arrivals(m) : i < j

\* A queued message is sent in the end, or seen to have failed, unless a fault
\* hit its last mark.
Settles ==
    \A m \in Messages :
        Over(m) ~> (message[m] = Gone \/ message[m].status # "QUEUED" \/ m \in trouble)

=============================================================================
