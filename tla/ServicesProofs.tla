--------------------------- MODULE ServicesProofs ---------------------------
(***************************************************************************)
(* Proofs about Delivery.tla and about the parts of Services.tla, for      *)
(* every number of messages, attempts, requests, callers, clients, leads   *)
(* and rows: that a message arrives once, at its number, in the order of   *)
(* the calls; and of each part the property that its run checks.           *)
(***************************************************************************)
EXTENDS Delivery, Services, FiniteSetTheorems, FunctionTheorems, SequenceTheorems,
        WellFoundedInduction, TLAPS

-----------------------------------------------------------------------------
(* Sequences *)

LEMMA Taken ==
    ASSUME NEW S, NEW s \in Seq(S), s # <<>>
    PROVE  /\ Head(s) \in S /\ 1 \in DOMAIN s /\ Head(s) = s[1]
           /\ Tail(s) \in Seq(S) /\ Len(Tail(s)) = Len(s) - 1
           /\ \A i \in DOMAIN Tail(s) : i \in Nat /\ i >= 1 /\ i + 1 \in DOMAIN s /\ Tail(s)[i] = s[i + 1]
           /\ \A i \in DOMAIN s : i \in Nat /\ (i = 1 \/ i - 1 \in DOMAIN Tail(s))
<1>1. Len(s) \in Nat /\ Len(s) > 0 /\ DOMAIN s = 1..Len(s)
  OBVIOUS
<1>2. Tail(s) \in Seq(S) /\ Len(Tail(s)) = Len(s) - 1 /\ DOMAIN Tail(s) = 1..(Len(s) - 1)
  BY <1>1
<1>3. \A i \in 1..(Len(s) - 1) : Tail(s)[i] = s[i + 1]
  BY <1>1
<1> QED
  BY <1>1, <1>2, <1>3

LEMMA Appended ==
    ASSUME NEW S, NEW s \in Seq(S), NEW x \in S
    PROVE  /\ Append(s, x) \in Seq(S) /\ Len(Append(s, x)) = Len(s) + 1
           /\ Len(s) + 1 \in DOMAIN Append(s, x) /\ Append(s, x)[Len(s) + 1] = x
           /\ \A i \in DOMAIN s : /\ i \in Nat /\ i < Len(s) + 1
                                  /\ i \in DOMAIN Append(s, x) /\ Append(s, x)[i] = s[i]
           /\ \A i \in DOMAIN Append(s, x) : i \in DOMAIN s \/ i = Len(s) + 1
<1>1. Len(s) \in Nat /\ DOMAIN s = 1..Len(s)
  OBVIOUS
<1>2. DOMAIN Append(s, x) = 1..(Len(s) + 1) /\ Append(s, x) \in Seq(S)
  BY <1>1
<1> QED
  BY <1>1, <1>2

-----------------------------------------------------------------------------
(* The places of a job *)

Waits(m) == \E i \in DOMAIN waiting : waiting[i].m = m
Delayed(m) == \E j \in delayed : j.m = m
InHand(m) == worker # Idle /\ worker.job.m = m
HasJob(m) == Waits(m) \/ Delayed(m) \/ InHand(m)

\* The job of m comes before any of n.
WaitsBefore(m, n) ==
    \E i \in DOMAIN waiting : waiting[i].m = m /\ \A j \in DOMAIN waiting : waiting[j].m = n => i < j

OnceInQueue == \A i, j \in DOMAIN waiting : waiting[i].m = waiting[j].m => i = j

OneJobEach ==
    /\ OnceInQueue
    /\ \A j, k \in delayed : j.m = k.m => j = k
    /\ \A m \in Messages : ~(Waits(m) /\ Delayed(m)) /\ (InHand(m) => ~Waits(m) /\ ~Delayed(m))

LEMMA QueueGrows ==
    ASSUME waiting \in Seq(Job), NEW x \in Job, waiting' = Append(waiting, x)
    PROVE  /\ waiting' \in Seq(Job)
           /\ \A m : Waits(m)' <=> Waits(m) \/ x.m = m
           /\ OnceInQueue /\ ~Waits(x.m) => OnceInQueue'
           /\ \A m, n : WaitsBefore(m, n) => WaitsBefore(m, n)'
<1>1. waiting' \in Seq(Job)
  BY Appended
<1>2. \A m : Waits(m)' <=> Waits(m) \/ x.m = m
  BY Appended DEF Waits
<1>3. OnceInQueue /\ ~Waits(x.m) => OnceInQueue'
  BY Appended DEF Waits, OnceInQueue
<1>4. \A m, n : WaitsBefore(m, n) => WaitsBefore(m, n)'
  <2> SUFFICES ASSUME NEW m, NEW n, NEW i \in DOMAIN waiting, waiting[i].m = m,
                      \A j \in DOMAIN waiting : waiting[j].m = n => i < j
               PROVE  /\ i \in DOMAIN waiting' /\ waiting'[i].m = m
                      /\ \A j \in DOMAIN waiting' : waiting'[j].m = n => i < j
    BY DEF WaitsBefore
  <2> QED
    BY Appended
<1> QED
  BY <1>1, <1>2, <1>3, <1>4

LEMMA QueueShrinks ==
    ASSUME waiting \in Seq(Job), waiting # <<>>, waiting' = Tail(waiting), OnceInQueue
    PROVE  /\ Head(waiting) \in Job /\ waiting' \in Seq(Job)
           /\ Waits(Head(waiting).m)
           /\ \A m : Waits(m)' <=> Waits(m) /\ m # Head(waiting).m
           /\ OnceInQueue'
           /\ \A m, n : WaitsBefore(m, n) =>
                 /\ WaitsBefore(m, n)' \/ Head(waiting).m = m
                 /\ Head(waiting).m # n
<1>1. /\ Head(waiting) \in Job /\ waiting' \in Seq(Job) /\ 1 \in DOMAIN waiting
      /\ Head(waiting) = waiting[1]
      /\ \A i \in DOMAIN waiting' : i \in Nat /\ i >= 1 /\ i + 1 \in DOMAIN waiting /\ waiting'[i] = waiting[i + 1]
      /\ \A i \in DOMAIN waiting : i \in Nat /\ (i = 1 \/ i - 1 \in DOMAIN waiting')
  BY Taken
<1>2. \A i \in DOMAIN waiting : i # 1 => i - 1 \in DOMAIN waiting' /\ waiting'[i - 1] = waiting[i]
  <2> SUFFICES ASSUME NEW i \in DOMAIN waiting, i # 1
               PROVE  i - 1 \in DOMAIN waiting' /\ waiting'[i - 1] = waiting[i]
    OBVIOUS
  <2>1. i \in Nat /\ i - 1 \in DOMAIN waiting'
    BY <1>1
  <2>2. waiting'[i - 1] = waiting[(i - 1) + 1] /\ (i - 1) + 1 = i
    BY <1>1, <2>1
  <2> QED
    BY <2>1, <2>2
<1>3. Waits(Head(waiting).m)
  BY <1>1 DEF Waits
<1>4. ASSUME NEW m
      PROVE  Waits(m)' <=> Waits(m) /\ m # Head(waiting).m
  <2>1. ASSUME Waits(m)' PROVE Waits(m) /\ m # Head(waiting).m
    <3>1. PICK i \in DOMAIN waiting' : waiting'[i].m = m
      BY <2>1 DEF Waits
    <3>2. i + 1 \in DOMAIN waiting /\ waiting[i + 1].m = m /\ i + 1 # 1
      BY <1>1, <3>1
    <3> QED
      BY <1>1, <3>2 DEF Waits, OnceInQueue
  <2>2. ASSUME Waits(m), m # Head(waiting).m PROVE Waits(m)'
    BY <1>1, <1>2, <2>2 DEF Waits
  <2> QED
    BY <2>1, <2>2
<1>5. OnceInQueue'
  <2> SUFFICES ASSUME NEW i \in DOMAIN waiting', NEW j \in DOMAIN waiting', waiting'[i].m = waiting'[j].m
               PROVE  i = j
    BY DEF OnceInQueue
  <2>1. i \in Nat /\ j \in Nat /\ i + 1 = j + 1
    BY <1>1 DEF OnceInQueue
  <2> QED
    BY <2>1
<1>6. ASSUME NEW m, NEW n, WaitsBefore(m, n)
      PROVE  (WaitsBefore(m, n)' \/ Head(waiting).m = m) /\ Head(waiting).m # n
  <2>1. PICK i \in DOMAIN waiting : /\ waiting[i].m = m
                                    /\ \A j \in DOMAIN waiting : waiting[j].m = n => i < j
    BY <1>6 DEF WaitsBefore
  <2>2. i \in Nat /\ (i = 1 \/ i - 1 \in DOMAIN waiting')
    BY <1>1
  <2>3. Head(waiting).m # n
    <3>1. ~(i < 1)
      BY <1>1, <1>2, <2>2
    <3> QED
      BY <1>1, <2>1, <3>1
  <2>4. CASE i = 1
    BY <1>1, <2>1, <2>3, <2>4
  <2>5. CASE i # 1
    <3>1. i - 1 \in DOMAIN waiting' /\ waiting'[i - 1].m = m
      BY <1>2, <2>1, <2>5
    <3>2. ASSUME NEW j \in DOMAIN waiting', waiting'[j].m = n PROVE i - 1 < j
      <4>1. j \in Nat /\ j + 1 \in DOMAIN waiting /\ waiting[j + 1].m = n
        BY <1>1, <3>2
      <4>2. i < j + 1
        BY <2>1, <4>1
      <4> QED
        BY <2>2, <4>1, <4>2
    <3> QED
      BY <2>3, <3>1, <3>2 DEF WaitsBefore
  <2> QED
    BY <2>4, <2>5
<1> QED
  BY <1>1, <1>3, <1>4, <1>5, <1>6

-----------------------------------------------------------------------------
(* Types *)

Calling0 == [pc: {"no", "over"}] \cup [pc: {"create", "add"}, number: Numbers]
Working0 == {Idle} \cup [pc: {"read", "failed"}, job: Job]
            \cup [pc: {"send"}, job: Job, to: Numbers] \cup [pc: {"sent"}, job: Job, id: Ids]

\* TypeOK, but for the length of the queue, which follows.
Typed ==
    /\ phone \in Numbers \cup {None}
    /\ call \in [Messages -> Calling0]
    /\ message \in [Messages -> Row \cup {Gone}]
    /\ waiting \in Seq(Job) /\ delayed \subseteq Job
    /\ worker \in Working0
    /\ open \in BOOLEAN /\ faults \in 0..MaxFaults
    /\ delivered \in Seq(Messages \X Numbers)
    /\ before \subseteq Messages \X Messages
    /\ retried \subseteq Messages /\ trouble \subseteq Messages

\* With one job for each message at most, the queue is as long as there are
\* messages at most.
LEMMA QueueIsShort ==
    ASSUME NEW s \in Seq(Job), \A i, j \in DOMAIN s : s[i].m = s[j].m => i = j
    PROVE  Len(s) <= Cardinality(Messages)
<1> DEFINE f == [i \in 1..Len(s) |-> s[i].m]
<1>1. Len(s) \in Nat /\ DOMAIN s = 1..Len(s) /\ \A i \in 1..Len(s) : s[i] \in Job
  OBVIOUS
<1>2. f \in [1..Len(s) -> Messages]
  BY <1>1 DEF Job
<1>3. f \in Injection(1..Len(s), Messages)
  BY <1>1, <1>2 DEF Injection, IsInjective
<1>4. Cardinality(1..Len(s)) <= Cardinality(Messages)
  BY <1>3, FS_Injection, NumbersAssumption
<1>5. Cardinality(1..Len(s)) = IF 1 > Len(s) THEN 0 ELSE Len(s) - 1 + 1
  BY <1>1, FS_Interval
<1>6. Cardinality(Messages) \in Nat
  BY FS_CardinalityType, NumbersAssumption
<1> QED
  BY <1>1, <1>4, <1>5, <1>6

LEMMA TypedIsTypeOK ==
    ASSUME Typed, OnceInQueue
    PROVE  TypeOK
  BY QueueIsShort DEF Typed, TypeOK, OnceInQueue, Calling0, Working0

LEMMA JobFacts ==
    /\ Attempts \in Nat /\ MaxFaults \in Nat
    /\ \A j \in Job : j.m \in Messages /\ j.tries \in 0..(Attempts - 1) /\ j.stalled \in BOOLEAN
    /\ \A m \in Messages : [m |-> m, tries |-> 0, stalled |-> FALSE] \in Job
    /\ \A j \in Job : /\ TriedAgain(j) => [j EXCEPT !.tries = @ + 1] \in Job
                     /\ [j EXCEPT !.tries = @ + 1].m = j.m
                     /\ [j EXCEPT !.stalled = TRUE] \in Job
                     /\ [j EXCEPT !.stalled = TRUE].m = j.m
                     /\ Fallback(j) \in Ids
<1>1. Attempts \in Nat /\ Attempts > 0 /\ MaxFaults \in Nat
  BY NumbersAssumption
<1>2. \A j \in Job : /\ j.m \in Messages /\ j.tries \in 0..(Attempts - 1) /\ j.stalled \in BOOLEAN
                   /\ [j EXCEPT !.tries = j.tries + 1].m = j.m
                   /\ [j EXCEPT !.stalled = TRUE] \in Job
                   /\ [j EXCEPT !.stalled = TRUE].m = j.m
  BY DEF Job
<1>3. \A m \in Messages : [m |-> m, tries |-> 0, stalled |-> FALSE] \in Job
  BY <1>1 DEF Job
<1>4. ASSUME NEW j \in Job, TriedAgain(j) PROVE [j EXCEPT !.tries = j.tries + 1] \in Job
  <2>0. j.tries \in 0..(Attempts - 1) /\ j.tries + 1 < Attempts
    BY <1>2, <1>4 DEF TriedAgain
  <2>1. j.tries + 1 \in 0..(Attempts - 1)
    BY <1>1, <2>0
  <2> QED
    BY <2>1 DEF Job
<1>5. ASSUME NEW j \in Job PROVE Fallback(j) \in Ids
  <2>0. j.m \in Messages /\ j.tries \in 0..(Attempts - 1)
    BY <1>2
  <2>1. j.tries + 1 \in 1..Attempts
    BY <1>1, <2>0
  <2> QED
    BY <2>0, <2>1 DEF Fallback, Ids
<1> QED
  BY <1>1, <1>2, <1>3, <1>4, <1>5

LEMMA WorkerFacts ==
    ASSUME Typed
    PROVE  /\ worker = Idle <=> worker.pc = "idle"
           /\ worker.pc \in {"idle", "read", "send", "sent", "failed"}
           /\ worker.pc # "idle" => worker.job \in Job /\ worker.job.m \in Messages
           /\ worker.pc = "send" => worker.to \in Numbers
           /\ worker.pc = "sent" => worker.id \in Ids
  BY JobFacts DEF Typed, Working0, Idle

LEMMA CallFacts ==
    ASSUME Typed, NEW m \in Messages
    PROVE  /\ call[m] \in Calling0
           /\ call[m].pc \in {"create", "add"} => call[m].number \in Numbers
           /\ [pc |-> "over"] \in Calling0
           /\ \A p \in {"create", "add"}, n \in Numbers : [pc |-> p, number |-> n] \in Calling0
           /\ message[m] \in Row \cup {Gone}
  BY DEF Typed, Calling0

LEMMA RowFacts ==
    /\ Gone \notin Row
    /\ \A r \in Row : r.number \in Numbers /\ r.status \in {"QUEUED", "SENT", "FAILED"}
                     /\ r.providerMessageId \in Ids
    /\ \A n \in Numbers : NewRow(n) \in Row
    /\ \A r \in Row, id \in Ids : [r EXCEPT !.status = "SENT", !.providerMessageId = id] \in Row
    /\ \A r \in Row \cup {Gone} : MarkedFailed(r) \in Row \cup {Gone}
  BY DEF Gone, Row, NewRow, Ids, MarkedFailed

\* A row that is marked as failed, or as sent, keeps its number.
LEMMA MarkFacts ==
    ASSUME NEW r \in Row \cup {Gone}
    PROVE  /\ r = Gone => MarkedFailed(r) = Gone
           /\ r # Gone => /\ MarkedFailed(r) # Gone /\ MarkedFailed(r).status = "FAILED"
                          /\ MarkedFailed(r).number = r.number
                          /\ MarkedFailed(r).providerMessageId = r.providerMessageId
           /\ r # Gone => \A id : [r EXCEPT !.status = "SENT", !.providerMessageId = id].number = r.number
<1>1. CASE r = Gone
  BY <1>1 DEF MarkedFailed
<1>2. CASE r # Gone
  <2>1. r \in Row /\ r = [number |-> r.number, status |-> r.status, providerMessageId |-> r.providerMessageId]
    BY <1>2 DEF Row
  <2>2. MarkedFailed(r) = [number |-> r.number, status |-> "FAILED", providerMessageId |-> r.providerMessageId]
    BY <1>2, <2>1 DEF MarkedFailed
  <2>3. MarkedFailed(r) \in Row
    BY <2>1, <2>2 DEF Row
  <2>4. ASSUME NEW id
        PROVE  [r EXCEPT !.status = "SENT", !.providerMessageId = id].number = r.number
    BY <1>2 DEF Row
  <2>5. MarkedFailed(r) # Gone
    BY <2>3, RowFacts
  <2>6. /\ MarkedFailed(r).status = "FAILED" /\ MarkedFailed(r).number = r.number
        /\ MarkedFailed(r).providerMessageId = r.providerMessageId
    BY <2>2
  <2> QED
    BY <1>2, <2>4, <2>5, <2>6
<1> QED
  BY <1>1, <1>2

LEMMA TypedCalls ==
    ASSUME Typed, NEW m \in Messages, Calling(m)
    PROVE  Typed'
<1> USE DEF Typed
<1>1. CASE SendToClient(m)
  <2>1. call' \in [Messages -> Calling0]
    BY <1>1, CallFacts DEF SendToClient, Returns, Calls
  <2>2. before' \subseteq Messages \X Messages
    BY <1>1 DEF SendToClient
  <2> QED
    BY <1>1, <2>1, <2>2 DEF SendToClient, queue
<1>2. CASE StoreMessage(m)
  BY <1>2, CallFacts, RowFacts DEF StoreMessage, Calls, queue, history
<1>3. CASE AddJob(m)
  <2>1. waiting' \in Seq(Job)
    BY <1>3, JobFacts, QueueGrows DEF AddJob, Enqueued
  <2> QED
    BY <1>3, <2>1, CallFacts DEF AddJob, Returns, history
<1>4. CASE CallFails(m)
  BY <1>4, CallFacts, JobFacts DEF CallFails, Returns, Fault, queue
<1> QED
  BY <1>1, <1>2, <1>3, <1>4 DEF Calling

LEMMA TypedOutside ==
    ASSUME Typed, ChangePhone \/ DeleteClient \/ Connection
    PROVE  Typed'
<1>1. CASE ChangePhone
  BY <1>1, JobFacts DEF Typed, ChangePhone, Fault, queue, history
<1>2. CASE DeleteClient
  <2>1. message' \in [Messages -> Row \cup {Gone}]
    BY <1>2 DEF DeleteClient
  <2>2. faults' \in 0..MaxFaults /\ phone' = None
    BY <1>2, JobFacts DEF Typed, DeleteClient, Fault
  <2> QED
    BY <1>2, <2>1, <2>2 DEF Typed, DeleteClient, queue, history
<1>3. CASE Connection
  <2>1. faults' \in 0..MaxFaults /\ open' \in BOOLEAN
    BY <1>3, JobFacts DEF Typed, Connection, Fault
  <2> QED
    BY <1>3, <2>1 DEF Typed, Connection, queue, history
<1> QED
  BY <1>1, <1>2, <1>3

LEMMA TypedWorker ==
    ASSUME Typed, OnceInQueue,
           Working \/ MarkSentFails \/ MarkFailedFails \/ WorkerDies \/ ComesBack
    PROVE  Typed'
<1>1. CASE TakeJob
  <2>1. Head(waiting) \in Job /\ waiting' \in Seq(Job)
    BY <1>1, QueueShrinks DEF TakeJob, Typed
  <2> QED
    BY <1>1, <2>1 DEF TakeJob, Typed, Working0, history
<1>2. CASE ReadMessage
  <2>1. worker.job \in Job /\ message[worker.job.m] \in Row \cup {Gone}
    BY <1>2, WorkerFacts, CallFacts DEF ReadMessage
  <2>2. worker' \in Working0
    BY <1>2, <2>1, RowFacts DEF ReadMessage, Working0
  <2> QED
    BY <1>2, <2>2 DEF ReadMessage, Typed, history
<1>3. CASE Deliver
  <2>1. worker.job \in Job /\ worker.job.m \in Messages /\ worker.to \in Numbers
    BY <1>3, WorkerFacts DEF Deliver
  <2>2. delivered' \in Seq(Messages \X Numbers)
    BY <1>3, <2>1 DEF Deliver, Typed
  <2>3. worker' \in Working0
    <3>1. Fallback(worker.job) \in Ids
      BY <2>1, JobFacts
    <3>2. [pc |-> "sent", job |-> worker.job, id |-> Fallback(worker.job)] \in Working0
      BY <2>1, <3>1 DEF Working0
    <3>3. [pc |-> "failed", job |-> worker.job] \in Working0
      BY <2>1 DEF Working0
    <3> QED
      BY <1>3, <3>2, <3>3 DEF Deliver
  <2>4. trouble' \subseteq Messages /\ faults' \in 0..MaxFaults
    BY <1>3, <2>1, JobFacts DEF Deliver, Typed, Fault
  <2> QED
    BY <1>3, <2>2, <2>3, <2>4 DEF Deliver, Typed
<1>4. CASE SendFails
  BY <1>4, WorkerFacts, JobFacts DEF SendFails, Refused, Fault, Typed, Working0, history
<1>5. CASE MarkSent
  <2>1. worker.job \in Job /\ worker.job.m \in Messages /\ worker.id \in Ids
    BY <1>5, WorkerFacts DEF MarkSent
  <2>2. message[worker.job.m] \in Row \cup {Gone}
    BY <2>1, CallFacts
  <2>3. /\ message' \in [Messages -> Row \cup {Gone}]
        /\ worker' \in Working0
    <3>1. CASE worker' = [pc |-> "failed", job |-> worker.job] /\ UNCHANGED message
      BY <2>1, <3>1 DEF Typed, Working0
    <3>2. CASE /\ message[worker.job.m] # Gone /\ worker' = Idle
               /\ message' = [message EXCEPT ![worker.job.m].status = "SENT",
                                             ![worker.job.m].providerMessageId = worker.id]
      <4>1. [message[worker.job.m] EXCEPT !.status = "SENT", !.providerMessageId = worker.id] \in Row
        BY <2>1, <2>2, <3>2, RowFacts
      <4>2. message' = [message EXCEPT ![worker.job.m] =
                          [message[worker.job.m] EXCEPT !.status = "SENT", !.providerMessageId = worker.id]]
        BY <2>1, <3>2 DEF Typed
      <4> QED
        BY <3>2, <4>1, <4>2 DEF Typed, Working0
    <3> QED
      BY <1>5, <3>1, <3>2 DEF MarkSent
  <2> QED
    BY <1>5, <2>3 DEF MarkSent, Typed, history
<1>6. CASE MarkSentFails
  BY <1>6, WorkerFacts, JobFacts DEF MarkSentFails, Fault, Typed, Working0
<1>7. CASE MarkFailed \/ MarkFailedFails
  <2>1. worker.job \in Job /\ worker.job.m \in Messages /\ message[worker.job.m] \in Row \cup {Gone}
    BY <1>7, WorkerFacts, CallFacts DEF MarkFailed, MarkFailedFails
  <2>2. message' \in [Messages -> Row \cup {Gone}]
    BY <1>7, <2>1, RowFacts DEF MarkFailed, MarkFailedFails, Typed
  <2>3. delayed' \subseteq Job /\ worker' \in Working0 /\ retried' \subseteq Messages
    BY <1>7, <2>1, JobFacts DEF MarkFailed, MarkFailedFails, Rethrow, Typed, Working0
  <2>4. trouble' \subseteq Messages /\ faults' \in 0..MaxFaults
    BY <1>7, <2>1, JobFacts DEF MarkFailed, MarkFailedFails, Fault, Typed
  <2> QED
    BY <1>7, <2>2, <2>3, <2>4 DEF MarkFailed, MarkFailedFails, Typed
<1>8. CASE WorkerDies
  <2>1. worker.job \in Job /\ worker.job.m \in Messages
    BY <1>8, WorkerFacts DEF WorkerDies
  <2>2. waiting' \in Seq(Job)
    BY <1>8, <2>1, JobFacts, QueueGrows DEF WorkerDies, Typed
  <2> QED
    BY <1>8, <2>1, <2>2, JobFacts DEF WorkerDies, Fault, Typed, Working0
<1>9. CASE ComesBack
  <2>1. waiting' \in Seq(Job)
    BY <1>9, QueueGrows DEF ComesBack, Typed
  <2> QED
    BY <1>9, <2>1 DEF ComesBack, Typed, history
<1> QED
  BY <1>1, <1>2, <1>3, <1>4, <1>5, <1>6, <1>7, <1>8, <1>9 DEF Working

-----------------------------------------------------------------------------
(* One job for each message *)

Arrived(m) == Arrivals(m) # {}

JobsInv ==
    /\ Typed /\ OneJobEach
    /\ \A m \in Messages : HasJob(m) \/ Arrived(m) => Over(m)

\* No job moves, or one is done.
Stays == UNCHANGED <<waiting, delayed>> /\ \A m : InHand(m)' => InHand(m)

LEMMA StaysOnce ==
    ASSUME OneJobEach, Stays
    PROVE  OneJobEach' /\ \A m \in Messages : HasJob(m)' => HasJob(m)
  BY DEF OneJobEach, OnceInQueue, Stays, HasJob, Waits, Delayed

LEMMA AddedOnce ==
    ASSUME JobsInv, NEW m \in Messages, AddJob(m)
    PROVE  /\ OneJobEach' /\ \A n \in Messages : HasJob(n)' => HasJob(n) \/ (n = m /\ Over(m)')
           /\ \A n : Waits(n)' <=> Waits(n) \/ n = m
           /\ \A k, n : WaitsBefore(k, n) => WaitsBefore(k, n)'
<1> DEFINE x == [m |-> m, tries |-> 0, stalled |-> FALSE]
<1>1. x \in Job /\ x.m = m
  BY JobFacts
<1>2. waiting' = Append(waiting, x) /\ delayed' = delayed /\ worker' = worker /\ waiting \in Seq(Job)
  BY DEF AddJob, Enqueued, JobsInv, Typed
<1>3. ~HasJob(m)
  BY DEF AddJob, JobsInv, Over
<1> HIDE DEF x
<1>4. /\ \A n : Waits(n)' <=> Waits(n) \/ n = m
      /\ OnceInQueue /\ ~Waits(m) => OnceInQueue'
      /\ \A k, n : WaitsBefore(k, n) => WaitsBefore(k, n)'
  BY <1>1, <1>2, QueueGrows
<1>5. \A n : (Delayed(n)' <=> Delayed(n)) /\ (InHand(n)' <=> InHand(n))
  BY <1>2 DEF Delayed, InHand
<1>6. OneJobEach'
  BY <1>2, <1>3, <1>4, <1>5 DEF JobsInv, OneJobEach, HasJob
<1>7. Over(m)'
  BY DEF AddJob, Returns, Over, JobsInv, Typed
<1> QED
  BY <1>4, <1>5, <1>6, <1>7 DEF HasJob

\* What TakeJob does to the places of the jobs.
LEMMA TakenOnce ==
    ASSUME JobsInv, TakeJob, NEW m, m = Head(waiting).m
    PROVE  /\ OneJobEach' /\ \A n : HasJob(n)' => HasJob(n)
           /\ m \in Messages /\ Waits(m) /\ \A n : Waits(n)' <=> Waits(n) /\ n # m
           /\ \A n : InHand(n)' <=> n = m
           /\ \A n : ~InHand(n)
           /\ \A n : Delayed(n)' <=> Delayed(n)
           /\ worker'.pc = "read" /\ worker' # Idle
           /\ \A k, n : WaitsBefore(k, n) => (WaitsBefore(k, n)' \/ m = k) /\ m # n
<1>1. waiting \in Seq(Job) /\ waiting # <<>> /\ waiting' = Tail(waiting) /\ OnceInQueue
  BY DEF TakeJob, JobsInv, Typed, OneJobEach
<1>2. /\ Head(waiting) \in Job /\ Waits(m)
      /\ \A n : Waits(n)' <=> Waits(n) /\ n # m
      /\ OnceInQueue'
      /\ \A k, n : WaitsBefore(k, n) => (WaitsBefore(k, n)' \/ m = k) /\ m # n
  BY <1>1, QueueShrinks
<1>3. m \in Messages
  BY <1>2, JobFacts
<1>4. /\ worker = Idle /\ delayed' = delayed
      /\ worker' = [pc |-> "read", job |-> Head(waiting)]
  BY DEF TakeJob
<1>5. worker'.pc = "read" /\ worker' # Idle /\ worker'.job = Head(waiting)
  BY <1>4 DEF Idle
<1>6. /\ \A n : InHand(n)' <=> n = m
      /\ \A n : ~InHand(n)
      /\ \A n : Delayed(n)' <=> Delayed(n)
  BY <1>4, <1>5 DEF InHand, Delayed
<1>7. OneJobEach'
  BY <1>2, <1>3, <1>4, <1>6 DEF JobsInv, OneJobEach
<1> QED
  BY <1>2, <1>3, <1>5, <1>6, <1>7 DEF HasJob

LEMMA RethrownOnce ==
    ASSUME JobsInv, MarkFailed \/ MarkFailedFails, NEW m, m = worker.job.m
    PROVE  /\ OneJobEach' /\ \A n : HasJob(n)' => HasJob(n)
           /\ m \in Messages /\ InHand(m)
           /\ waiting' = waiting /\ \A n : ~InHand(n)'
           /\ \A n : n # m => (Delayed(n)' <=> Delayed(n))
           /\ worker' = Idle
<1>1. worker.pc = "failed" /\ waiting' = waiting /\ Rethrow
  BY DEF MarkFailed, MarkFailedFails
<1>2. worker # Idle /\ worker.job \in Job /\ m \in Messages
  BY <1>1, WorkerFacts DEF JobsInv
<1>3. InHand(m) /\ ~Waits(m) /\ ~Delayed(m) /\ \A n : InHand(n) => n = m
  BY <1>2 DEF InHand, JobsInv, OneJobEach
<1>4. PICK x : /\ x.m = m
               /\ delayed' = delayed \cup {x} \/ delayed' = delayed
  <2>1. [worker.job EXCEPT !.tries = @ + 1].m = m
    BY <1>2, JobFacts
  <2> QED
    BY <1>1, <2>1 DEF Rethrow
<1>5. worker' = Idle
  BY <1>1 DEF Rethrow
<1>6. \A n : /\ n # m => (Delayed(n)' <=> Delayed(n))
             /\ Waits(n)' <=> Waits(n)
             /\ ~InHand(n)'
  BY <1>1, <1>4, <1>5 DEF Delayed, Waits, InHand
<1>7. \A j, k \in delayed' : j.m = k.m => j = k
  BY <1>3, <1>4 DEF JobsInv, OneJobEach, Delayed
<1>8. OneJobEach'
  BY <1>1, <1>3, <1>6, <1>7 DEF JobsInv, OneJobEach, OnceInQueue
<1> QED
  BY <1>1, <1>2, <1>3, <1>5, <1>6, <1>8 DEF HasJob

LEMMA DiesOnce ==
    ASSUME JobsInv, WorkerDies, NEW m, m = worker.job.m
    PROVE  /\ OneJobEach' /\ \A n : HasJob(n)' => HasJob(n)
           /\ m \in Messages /\ InHand(m)
           /\ \A n : ~InHand(n)'
           /\ \A n : n # m => (Waits(n)' <=> Waits(n))
           /\ \A n : Delayed(n)' <=> Delayed(n)
           /\ worker' = Idle
           /\ \A k, n : WaitsBefore(k, n) => WaitsBefore(k, n)'
<1>1. worker # Idle /\ worker.job \in Job /\ m \in Messages /\ delayed' = delayed /\ worker' = Idle
  BY WorkerFacts DEF JobsInv, WorkerDies
<1>2. InHand(m) /\ ~Waits(m) /\ ~Delayed(m) /\ \A n : InHand(n) => n = m
  BY <1>1 DEF InHand, JobsInv, OneJobEach
<1>3. /\ \A n : n # m => (Waits(n)' <=> Waits(n))
      /\ OnceInQueue'
      /\ \A k, n : WaitsBefore(k, n) => WaitsBefore(k, n)'
  <2>1. CASE waiting' = waiting
    BY <2>1 DEF Waits, OnceInQueue, WaitsBefore, JobsInv, OneJobEach
  <2>2. CASE waiting' = Append(waiting, [worker.job EXCEPT !.stalled = TRUE])
    <3> DEFINE x == [worker.job EXCEPT !.stalled = TRUE]
    <3>1. x \in Job /\ x.m = m
      BY <1>1, JobFacts
    <3>2. waiting' = Append(waiting, x) /\ waiting \in Seq(Job) /\ OnceInQueue /\ ~Waits(m)
      BY <1>2, <2>2 DEF JobsInv, Typed, OneJobEach
    <3> HIDE DEF x
    <3> QED
      BY <3>1, <3>2, QueueGrows
  <2> QED
    BY <2>1, <2>2 DEF WorkerDies
<1>4. \A n : ~InHand(n)' /\ (Delayed(n)' <=> Delayed(n))
  BY <1>1 DEF InHand, Delayed
<1>5. OneJobEach'
  BY <1>1, <1>2, <1>3, <1>4 DEF JobsInv, OneJobEach
<1> QED
  BY <1>1, <1>2, <1>3, <1>4, <1>5 DEF HasJob

LEMMA ComesBackOnce ==
    ASSUME JobsInv, ComesBack
    PROVE  /\ OneJobEach' /\ \A n : HasJob(n)' => HasJob(n)
           /\ worker' = worker
           /\ \E m \in Messages :
                /\ Delayed(m)
                /\ \A n : Waits(n)' <=> Waits(n) \/ n = m
                /\ \A n : Delayed(n)' <=> Delayed(n) /\ n # m
           /\ \A k, n : WaitsBefore(k, n) => WaitsBefore(k, n)'
<1>1. PICK x \in delayed : delayed' = delayed \ {x} /\ waiting' = Append(waiting, x)
  BY DEF ComesBack
<1>2. x \in Job /\ x.m \in Messages /\ Delayed(x.m) /\ waiting \in Seq(Job) /\ worker' = worker
  BY JobFacts DEF JobsInv, Typed, Delayed, ComesBack
<1>3. ~Waits(x.m) /\ ~InHand(x.m) /\ OnceInQueue
  BY <1>2 DEF JobsInv, OneJobEach
<1>4. /\ \A n : Waits(n)' <=> Waits(n) \/ n = x.m
      /\ OnceInQueue'
      /\ \A k, n : WaitsBefore(k, n) => WaitsBefore(k, n)'
  BY <1>1, <1>2, <1>3, QueueGrows
<1>5. \A n : Delayed(n)' <=> Delayed(n) /\ n # x.m
  BY <1>1 DEF Delayed, JobsInv, OneJobEach
<1>6. \A n : InHand(n)' <=> InHand(n)
  BY <1>2 DEF InHand
<1>7. OneJobEach'
  BY <1>1, <1>3, <1>4, <1>5, <1>6 DEF JobsInv, OneJobEach
<1> QED
  BY <1>2, <1>4, <1>5, <1>6, <1>7 DEF HasJob

-----------------------------------------------------------------------------
(* What a step changes *)

\* The steps that leave jobs where they are, or end one.
Quiet ==
    \/ \E m \in Messages : SendToClient(m) \/ StoreMessage(m) \/ CallFails(m)
    \/ ChangePhone \/ DeleteClient \/ Connection
    \/ ReadMessage \/ Deliver \/ SendFails \/ MarkSent \/ MarkSentFails
    \/ UNCHANGED vars

LEMMA StepCases ==
    ASSUME [Next]_vars
    PROVE  \/ Quiet
           \/ \E m \in Messages : AddJob(m)
           \/ TakeJob \/ MarkFailed \/ MarkFailedFails \/ WorkerDies \/ ComesBack
  BY DEF Next, Calling, Working, Quiet

\* The worker keeps its job, or puts it down for good.
LEMMA QuietStays ==
    ASSUME Typed, Quiet
    PROVE  /\ Stays
           /\ worker' = worker \/ worker' = Idle \/ (worker' # Idle /\ worker'.job = worker.job)
           /\ worker' = Idle /\ worker # Idle =>
                 \/ ReadMessage /\ message[worker.job.m] = Gone
                 \/ MarkSent /\ message[worker.job.m] # Gone
<1>1. UNCHANGED <<waiting, delayed>>
  BY DEF Quiet, SendToClient, StoreMessage, CallFails, ChangePhone, DeleteClient, Connection,
         ReadMessage, Deliver, SendFails, MarkSent, MarkSentFails, vars, queue
<1>2. CASE worker' = worker
  BY <1>1, <1>2 DEF Stays, InHand
<1>3. CASE ReadMessage \/ Deliver \/ SendFails \/ MarkSent \/ MarkSentFails
  <2>1. worker # Idle
    BY <1>3 DEF ReadMessage, Deliver, SendFails, MarkSent, MarkSentFails, Idle
  <2>2. \/ worker' = Idle
        \/ worker' # Idle /\ worker'.job = worker.job
    BY <1>3 DEF ReadMessage, Deliver, SendFails, Refused, MarkSent, MarkSentFails, Idle
  <2>3. worker' = Idle => (ReadMessage /\ message[worker.job.m] = Gone)
                          \/ (MarkSent /\ message[worker.job.m] # Gone)
    BY <1>3 DEF ReadMessage, Deliver, SendFails, Refused, MarkSent, MarkSentFails, Idle
  <2> QED
    BY <1>1, <2>1, <2>2, <2>3 DEF Stays, InHand
<1> QED
  BY <1>2, <1>3 DEF Quiet, SendToClient, StoreMessage, CallFails, ChangePhone, DeleteClient,
                    Connection, vars, queue

\* The worker before it sends, and before it marks.
LEMMA WorkerStep ==
    ASSUME Typed, [Next]_vars
    PROVE  /\ worker'.pc = "sent" =>
                 \/ worker' = worker
                 \/ Deliver /\ worker # Idle /\ worker'.job = worker.job /\ worker'.id = Fallback(worker.job)
           /\ worker'.pc = "send" =>
                 \/ worker' = worker
                 \/ /\ ReadMessage /\ worker # Idle /\ worker'.job = worker.job
                    /\ message' = message /\ message[worker.job.m] # Gone
                    /\ worker'.to = message[worker.job.m].number
<1>1. CASE worker' = worker
  BY <1>1
<1>2. CASE ReadMessage \/ Deliver \/ SendFails \/ MarkSent \/ MarkSentFails
  BY <1>2 DEF ReadMessage, Deliver, SendFails, Refused, MarkSent, MarkSentFails, Idle
<1>3. CASE TakeJob \/ MarkFailed \/ MarkFailedFails \/ WorkerDies
  BY <1>3 DEF TakeJob, MarkFailed, MarkFailedFails, Rethrow, WorkerDies, Idle
<1>4. CASE \E m \in Messages : Calling(m)
  BY <1>1, <1>4 DEF Calling, SendToClient, StoreMessage, AddJob, CallFails, queue
<1>5. CASE ChangePhone \/ DeleteClient \/ Connection \/ ComesBack \/ UNCHANGED vars
  BY <1>1, <1>5 DEF ChangePhone, DeleteClient, Connection, ComesBack, vars, queue
<1> QED
  BY <1>2, <1>3, <1>4, <1>5 DEF Next, Working

\* The row of a message.
LEMMA RowStep ==
    ASSUME Typed, [Next]_vars, NEW n \in Messages
    PROVE  \/ message'[n] = message[n]
           \/ DeleteClient /\ message'[n] = Gone
           \/ StoreMessage(n) /\ message'[n] = NewRow(call[n].number)
           \/ /\ MarkSent /\ InHand(n) /\ message[n] # Gone
              /\ message'[n] = [message[n] EXCEPT !.status = "SENT", !.providerMessageId = worker.id]
           \/ MarkFailed /\ InHand(n) /\ message'[n] = MarkedFailed(message[n])
<1>1. CASE message' = message
  BY <1>1
<1>2. ASSUME NEW m \in Messages, StoreMessage(m)
      PROVE  message'[n] = message[n] \/ (StoreMessage(n) /\ message'[n] = NewRow(call[n].number))
  BY <1>2 DEF StoreMessage, Typed
<1>3. CASE DeleteClient
  BY <1>3 DEF DeleteClient
<1>4. CASE MarkSent
  <2>1. worker # Idle /\ worker.job.m \in Messages
    BY <1>4, WorkerFacts DEF MarkSent
  <2>2. CASE /\ message[worker.job.m] # Gone
             /\ message' = [message EXCEPT ![worker.job.m].status = "SENT",
                                           ![worker.job.m].providerMessageId = worker.id]
    <3>1. CASE n = worker.job.m
      BY <1>4, <2>1, <2>2, <3>1 DEF Typed, InHand
    <3>2. CASE n # worker.job.m
      BY <2>2, <3>2 DEF Typed
    <3> QED
      BY <3>1, <3>2
  <2> QED
    BY <1>1, <1>4, <2>2 DEF MarkSent
<1>5. CASE MarkFailed
  <2>1. worker # Idle /\ worker.job.m \in Messages
    BY <1>5, WorkerFacts DEF MarkFailed
  <2> QED
    BY <1>5, <2>1 DEF MarkFailed, Typed, InHand
<1>6. CASE \E m \in Messages : SendToClient(m) \/ AddJob(m) \/ CallFails(m)
  BY <1>1, <1>6 DEF SendToClient, AddJob, CallFails
<1>7. CASE \/ ChangePhone \/ Connection \/ ComesBack \/ TakeJob \/ ReadMessage \/ Deliver \/ SendFails
           \/ MarkSentFails \/ MarkFailedFails \/ WorkerDies \/ UNCHANGED vars
  BY <1>1, <1>7 DEF ChangePhone, Connection, ComesBack, TakeJob, ReadMessage, Deliver, SendFails,
                    MarkSentFails, MarkFailedFails, WorkerDies, vars
<1> QED
  BY <1>2, <1>3, <1>4, <1>5, <1>6, <1>7 DEF Next, Calling, Working

\* Calls that are over stay over, and the histories only grow.
LEMMA HistoryStep ==
    ASSUME Typed, [Next]_vars, NEW n \in Messages
    PROVE  /\ Over(n) => Over(n)'
           /\ ~Over(n)' \/ Over(n) \/ SendToClient(n) \/ AddJob(n) \/ CallFails(n)
           /\ call'[n].pc \in {"no", "create"} => call[n].pc \in {"no", "create"}
           /\ call'[n].pc = "no" => call[n].pc = "no"
           /\ retried \subseteq retried' /\ trouble \subseteq trouble'
<1>1. ASSUME NEW m \in Messages, Calling(m)
      PROVE  /\ Over(n) => Over(n)'
             /\ ~Over(n)' \/ Over(n) \/ SendToClient(n) \/ AddJob(n) \/ CallFails(n)
             /\ call'[n].pc \in {"no", "create"} => call[n].pc \in {"no", "create"}
             /\ call'[n].pc = "no" => call[n].pc = "no"
             /\ retried \subseteq retried' /\ trouble \subseteq trouble'
  <2>1. CASE SendToClient(m)
    BY <2>1 DEF SendToClient, Calls, Returns, Over, Typed
  <2>2. CASE StoreMessage(m)
    BY <2>2 DEF StoreMessage, Calls, Over, Typed, history
  <2>3. CASE AddJob(m)
    BY <2>3 DEF AddJob, Returns, Over, Typed, history
  <2>4. CASE CallFails(m)
    BY <2>4 DEF CallFails, Returns, Over, Typed
  <2> QED
    BY <1>1, <2>1, <2>2, <2>3, <2>4 DEF Calling
<1>2. CASE ~\E m \in Messages : Calling(m)
  <2>1. call' = call /\ retried \subseteq retried' /\ trouble \subseteq trouble'
    BY <1>2 DEF Next, Working, ChangePhone, DeleteClient, Connection, ComesBack, TakeJob, ReadMessage,
       Deliver, SendFails, MarkSent, MarkSentFails, MarkFailed, MarkFailedFails, Rethrow, WorkerDies, vars, history
  <2> QED
    BY <2>1 DEF Over
<1> QED
  BY <1>1, <1>2

\* What arrives is what the worker sends, after all that has arrived.
LEMMA ArrivalStep ==
    ASSUME Typed, [Next]_vars
    PROVE  /\ \A n \in Messages : Arrivals(n)' = Arrivals(n) \/ (Deliver /\ InHand(n))
           /\ \A n \in Messages : \A i \in Arrivals(n) :
                 i \in Nat /\ i \in Arrivals(n)' /\ delivered'[i] = delivered[i]
           /\ Deliver => LET last == Len(delivered) + 1 IN
                 /\ \A n \in Messages : /\ \A i \in Arrivals(n) : i < last
                                        /\ \A i \in Arrivals(n)' : i \in Arrivals(n) \/ i = last
                 /\ worker # Idle /\ worker.job.m \in Messages
                 /\ \A m \in Messages : m = worker.job.m => last \in Arrivals(m)'
                 /\ delivered'[last] = <<worker.job.m, worker.to>>
<1>1. CASE Deliver
  <2> DEFINE x == <<worker.job.m, worker.to>>
  <2>1. worker # Idle /\ worker.job.m \in Messages /\ worker.to \in Numbers
    BY <1>1, WorkerFacts DEF Deliver
  <2>2. x \in Messages \X Numbers /\ x[1] = worker.job.m
    BY <2>1
  <2>3. delivered' = Append(delivered, x) /\ delivered \in Seq(Messages \X Numbers)
    BY <1>1 DEF Deliver, Typed
  <2> HIDE DEF x
  <2>4. /\ Len(delivered) + 1 \in DOMAIN delivered' /\ delivered'[Len(delivered) + 1] = x
        /\ \A i \in DOMAIN delivered : /\ i \in Nat /\ i < Len(delivered) + 1
                                       /\ i \in DOMAIN delivered' /\ delivered'[i] = delivered[i]
        /\ \A i \in DOMAIN delivered' : i \in DOMAIN delivered \/ i = Len(delivered) + 1
    BY <2>2, <2>3, Appended
  <2>5. \A n \in Messages : \A i \in Arrivals(n) :
           i \in Nat /\ i \in Arrivals(n)' /\ delivered'[i] = delivered[i] /\ i < Len(delivered) + 1
    BY <2>4 DEF Arrivals
  <2>6. \A n \in Messages : \A i \in Arrivals(n)' : i \in Arrivals(n) \/ i = Len(delivered) + 1
    BY <2>4 DEF Arrivals
  <2>7. \A m \in Messages : m = worker.job.m => Len(delivered) + 1 \in Arrivals(m)'
    BY <2>2, <2>4 DEF Arrivals
  <2>8. ASSUME NEW n \in Messages, n # worker.job.m PROVE Arrivals(n)' = Arrivals(n)
    <3>1. Len(delivered) + 1 \notin Arrivals(n)'
      BY <2>2, <2>4, <2>8 DEF Arrivals
    <3> QED
      BY <2>5, <2>6, <3>1
  <2> QED
    BY <1>1, <2>1, <2>4, <2>5, <2>6, <2>7, <2>8 DEF InHand, x
<1>2. CASE ~Deliver
  <2>1. delivered' = delivered
    BY <1>2 DEF Next, Calling, Working, SendToClient, StoreMessage, AddJob, CallFails, ChangePhone,
       DeleteClient, Connection, ComesBack, TakeJob, ReadMessage, SendFails, MarkSent, MarkSentFails,
       MarkFailed, MarkFailedFails, WorkerDies, vars, history
  <2>2. \A i \in DOMAIN delivered : i \in Nat
    BY DEF Typed
  <2> QED
    BY <1>2, <2>1, <2>2 DEF Arrivals
<1> QED
  BY <1>1, <1>2

LEMMA BeforeStep ==
    ASSUME [Next]_vars, NEW m \in Messages, NEW n \in Messages, <<m, n>> \in before'
    PROVE  <<m, n>> \in before \/ (SendToClient(n) /\ Over(m))
<1>1. ASSUME NEW k \in Messages, SendToClient(k)
      PROVE  <<m, n>> \in before \/ (SendToClient(n) /\ Over(m))
  BY <1>1 DEF SendToClient
<1>2. CASE before' = before
  BY <1>2
<1>3. CASE ~\E k \in Messages : SendToClient(k)
  BY <1>2, <1>3 DEF Next, Calling, Working, StoreMessage, AddJob, CallFails, ChangePhone,
       DeleteClient, Connection, ComesBack, TakeJob, ReadMessage, Deliver, SendFails, MarkSent, MarkSentFails,
       MarkFailed, MarkFailedFails, WorkerDies, vars, history
<1> QED
  BY <1>1, <1>3

LEMMA JobsStep ==
    ASSUME JobsInv, [Next]_vars
    PROVE  JobsInv'
<1>1. Typed'
  <2>1. CASE UNCHANGED vars
    BY <2>1 DEF vars, JobsInv, Typed
  <2> QED
    BY <2>1, TypedCalls, TypedOutside, TypedWorker DEF Next, Working, JobsInv, OneJobEach
<1>2. /\ OneJobEach'
      /\ \A n \in Messages : HasJob(n)' => HasJob(n) \/ Over(n)'
  <2>1. CASE Quiet
    BY <2>1, QuietStays, StaysOnce DEF JobsInv
  <2>2. ASSUME NEW m \in Messages, AddJob(m)
        PROVE  OneJobEach' /\ \A n \in Messages : HasJob(n)' => HasJob(n) \/ Over(n)'
    BY <2>2, AddedOnce
  <2>3. CASE TakeJob
    BY <2>3, TakenOnce
  <2>4. CASE MarkFailed \/ MarkFailedFails
    BY <2>4, RethrownOnce
  <2>5. CASE WorkerDies
    BY <2>5, DiesOnce
  <2>6. CASE ComesBack
    BY <2>6, ComesBackOnce
  <2> QED
    BY <2>1, <2>2, <2>3, <2>4, <2>5, <2>6, StepCases
<1>3. \A n \in Messages : Over(n) => Over(n)'
  BY HistoryStep DEF JobsInv
<1>4. \A n \in Messages : Arrived(n)' => Arrived(n) \/ HasJob(n)
  BY ArrivalStep DEF JobsInv, Arrived, HasJob
<1> QED
  BY <1>1, <1>2, <1>3, <1>4 DEF JobsInv

LEMMA JobsInit ==
    Init => JobsInv
<1> SUFFICES ASSUME Init PROVE JobsInv
  OBVIOUS
<1>1. Typed
  BY JobFacts DEF Init, Typed, Calling0, Working0
<1>2. \A m \in Messages : ~HasJob(m) /\ ~Arrived(m)
  BY DEF Init, HasJob, Waits, Delayed, InHand, Arrived, Arrivals
<1>3. OneJobEach
  BY <1>2 DEF Init, OneJobEach, OnceInQueue, HasJob
<1> QED
  BY <1>1, <1>2, <1>3 DEF JobsInv

\* Calls, rows, jobs and the worker are always what Delivery.tla says they are,
\* and the queue is never longer than the number of messages.
THEOREM TypeCorrect == Spec => []TypeOK
<1>1. JobsInv /\ [Next]_vars => JobsInv'
  BY JobsStep
<1>2. JobsInv => TypeOK
  BY TypedIsTypeOK DEF JobsInv, OneJobEach
<1> QED
  BY <1>1, <1>2, JobsInit, PTL DEF Spec

-----------------------------------------------------------------------------
(* A message arrives once, at the number of its conversation *)

IsIdOf(id, m) == \E t \in 1..Attempts : id = <<m, t>>

\* The ids of different messages differ, so that no mark is refused.
IdsAreOwn ==
    /\ \A m \in Messages : message[m] # Gone =>
          message[m].providerMessageId = None \/ IsIdOf(message[m].providerMessageId, m)
    /\ worker.pc = "sent" => IsIdOf(worker.id, worker.job.m)

ArrivedAt(m, number) == \E i \in Arrivals(m) : delivered[i][2] = number

ToTheNumber ==
    /\ \A m \in Messages : message[m] # Gone /\ message[m].status = "SENT" => ArrivedAt(m, message[m].number)
    /\ \A m \in Messages : InHand(m) /\ message[m] # Gone =>
          /\ worker.pc = "send" => worker.to = message[m].number
          /\ worker.pc = "sent" => ArrivedAt(m, message[m].number)

\* What has arrived is not sent again: its job is about to mark it, or over, or
\* will find that its row is gone.
OnceInv ==
    \A m \in Messages \ trouble :
        /\ \A i, j \in Arrivals(m) : i = j
        /\ Arrived(m) =>
              \/ InHand(m) /\ worker.pc = "sent"
              \/ ~HasJob(m)
              \/ message[m] = Gone /\ (InHand(m) => worker.pc # "send")

ArrivalInv == JobsInv /\ IdsAreOwn /\ ToTheNumber /\ OnceInv

LEMMA IdsStep ==
    ASSUME JobsInv, IdsAreOwn, [Next]_vars
    PROVE  IdsAreOwn'
<1>0. Typed
  BY DEF JobsInv
<1>1. ASSUME NEW m \in Messages, message'[m] # Gone
      PROVE  message'[m].providerMessageId = None \/ IsIdOf(message'[m].providerMessageId, m)
  <2>1. CASE message'[m] = message[m]
    BY <1>1, <2>1 DEF IdsAreOwn
  <2>2. CASE message'[m] = NewRow(call[m].number)
    BY <2>2 DEF NewRow
  <2>3. CASE /\ MarkSent /\ InHand(m) /\ message[m] # Gone
             /\ message'[m] = [message[m] EXCEPT !.status = "SENT", !.providerMessageId = worker.id]
    <3>1. message'[m].providerMessageId = worker.id
      BY <1>0, <2>3 DEF Typed, Row
    <3>2. worker.pc = "sent" /\ worker.job.m = m
      BY <2>3 DEF MarkSent, InHand
    <3> QED
      BY <3>1, <3>2 DEF IdsAreOwn
  <2>4. CASE message'[m] = MarkedFailed(message[m])
    <3>1. message[m] \in Row \cup {Gone}
      BY <1>0 DEF Typed
    <3>2. message'[m].providerMessageId = message[m].providerMessageId /\ message[m] # Gone
      BY <1>1, <2>4, <3>1, MarkFacts
    <3> QED
      BY <3>2 DEF IdsAreOwn
  <2> QED
    BY <1>0, <1>1, <2>1, <2>2, <2>3, <2>4, RowStep
<1>2. ASSUME worker'.pc = "sent"
      PROVE  IsIdOf(worker'.id, worker'.job.m)
  <2>1. CASE worker' = worker
    BY <1>2, <2>1 DEF IdsAreOwn
  <2>2. CASE worker # Idle /\ worker'.job = worker.job /\ worker'.id = Fallback(worker.job)
    <3>1. worker.job \in Job
      BY <1>0, <2>2, WorkerFacts
    <3>2. Attempts \in Nat /\ worker.job.tries \in 0..(Attempts - 1)
      BY <3>1, JobFacts
    <3>3. worker.job.tries + 1 \in 1..Attempts
      BY <3>2
    <3> QED
      BY <2>2, <3>3 DEF Fallback, IsIdOf
  <2> QED
    BY <1>0, <1>2, <2>1, <2>2, WorkerStep
<1> QED
  BY <1>1, <1>2 DEF IdsAreOwn

\* Marking as sent does not meet another message with the same id.
LEMMA NoConflict ==
    ASSUME JobsInv, IdsAreOwn, MarkSent, NEW m, m = worker.job.m, message[m] # Gone
    PROVE  worker' = Idle
<1>1. worker.pc = "sent" /\ m \in Messages
  BY WorkerFacts DEF MarkSent, JobsInv
<1>2. PICK t \in 1..Attempts : worker.id = <<m, t>>
  BY <1>1 DEF IdsAreOwn, IsIdOf
<1>3. ASSUME NEW n \in Messages \ {m}, message[n] # Gone
      PROVE  message[n].providerMessageId # worker.id
  <2>1. CASE message[n].providerMessageId = None
    BY <1>1, <1>2, <2>1, NumbersAssumption
  <2>2. CASE IsIdOf(message[n].providerMessageId, n)
    BY <1>2, <1>3, <2>2 DEF IsIdOf
  <2> QED
    BY <1>3, <2>1, <2>2 DEF IdsAreOwn
<1> QED
  BY <1>3 DEF MarkSent

\* The number of a row does not change.
LEMMA NumberStays ==
    ASSUME Typed, [Next]_vars, NEW m \in Messages, message'[m] # Gone
    PROVE  StoreMessage(m) \/ (message[m] # Gone /\ message'[m].number = message[m].number)
<1>1. message[m] \in Row \cup {Gone}
  BY CallFacts
<1>2. CASE message'[m] = [message[m] EXCEPT !.status = "SENT", !.providerMessageId = worker.id] /\ message[m] # Gone
  BY <1>1, <1>2, MarkFacts
<1>3. CASE message'[m] = MarkedFailed(message[m])
  BY <1>1, <1>3, MarkFacts
<1> QED
  BY <1>2, <1>3, RowStep

LEMMA NumberStep ==
    ASSUME JobsInv, ToTheNumber, [Next]_vars
    PROVE  ToTheNumber'
<1>0. Typed
  BY DEF JobsInv
<1>1. \A m \in Messages : \A number : ArrivedAt(m, number) => ArrivedAt(m, number)'
  BY <1>0, ArrivalStep DEF ArrivedAt
<1>2. ASSUME NEW m \in Messages, message'[m] # Gone, message'[m].status = "SENT"
      PROVE  ArrivedAt(m, message[m].number)'
  <2>1. message[m] \in Row \cup {Gone}
    BY <1>0, CallFacts
  <2>2. ~StoreMessage(m)
    BY <1>0, <1>2 DEF StoreMessage, NewRow, Typed
  <2>3. message[m] # Gone /\ message'[m].number = message[m].number
    BY <1>0, <1>2, <2>2, NumberStays
  <2>4. ArrivedAt(m, message[m].number)
    <3>1. CASE message'[m] = message[m]
      BY <1>2, <3>1 DEF ToTheNumber
    <3>2. CASE MarkSent /\ InHand(m)
      BY <2>3, <3>2 DEF ToTheNumber, MarkSent
    <3>3. CASE message'[m] = MarkedFailed(message[m])
      BY <1>2, <2>1, <2>3, <3>3, MarkFacts
    <3> QED
      BY <1>0, <1>2, <2>2, <3>1, <3>2, <3>3, RowStep
  <2> QED
    BY <1>1, <2>3, <2>4 DEF ArrivedAt
<1>3. ASSUME NEW m \in Messages, InHand(m)', message'[m] # Gone, worker'.pc = "send"
      PROVE  worker'.to = message'[m].number
  <2>1. CASE worker' = worker
    <3>1. InHand(m) /\ worker.pc = "send"
      BY <1>3, <2>1 DEF InHand
    <3>2. ~StoreMessage(m)
      BY <3>1 DEF StoreMessage, JobsInv, HasJob, Over
    <3>3. message[m] # Gone /\ message'[m].number = message[m].number
      BY <1>0, <1>3, <3>2, NumberStays
    <3> QED
      BY <2>1, <3>1, <3>3 DEF ToTheNumber
  <2>2. CASE /\ worker'.job = worker.job /\ message' = message /\ worker'.to = message[worker.job.m].number
    BY <1>3, <2>2 DEF InHand
  <2> QED
    BY <1>0, <1>3, <2>1, <2>2, WorkerStep
<1>4. ASSUME NEW m \in Messages, InHand(m)', message'[m] # Gone, worker'.pc = "sent"
      PROVE  ArrivedAt(m, message[m].number)'
  <2>1. InHand(m)
    BY <1>0, <1>4, WorkerStep DEF InHand
  <2>2. ~StoreMessage(m)
    BY <2>1 DEF StoreMessage, JobsInv, HasJob, Over
  <2>3. message[m] # Gone /\ message'[m].number = message[m].number
    BY <1>0, <1>4, <2>2, NumberStays
  <2>4. CASE worker' = worker
    <3>1. ArrivedAt(m, message[m].number)
      BY <1>4, <2>1, <2>3, <2>4 DEF ToTheNumber
    <3> QED
      BY <1>1, <2>3, <3>1 DEF ArrivedAt
  <2>5. CASE Deliver
    <3>1. worker.pc = "send" /\ worker.job.m = m
      BY <2>1, <2>5 DEF Deliver, InHand
    <3>2. worker.to = message[m].number
      BY <2>1, <2>3, <3>1 DEF ToTheNumber
    <3>3. PICK last : last \in Arrivals(m)' /\ delivered'[last] = <<m, worker.to>>
      BY <1>0, <2>5, <3>1, ArrivalStep
    <3> QED
      BY <2>3, <3>2, <3>3 DEF ArrivedAt
  <2> QED
    BY <1>0, <1>4, <2>4, <2>5, WorkerStep
<1> QED
  BY <1>2, <1>3, <1>4 DEF ToTheNumber

\* A row that is gone does not come back, unless its call is under way.
LEMMA GoneStays ==
    ASSUME Typed, [Next]_vars, NEW m \in Messages, message[m] = Gone, ~StoreMessage(m)
    PROVE  message'[m] = Gone
  BY RowStep, MarkFacts

LEMMA OnceStep ==
    ASSUME ArrivalInv, [Next]_vars
    PROVE  OnceInv'
<1> SUFFICES ASSUME NEW m \in Messages, m \notin trouble'
             PROVE  /\ \A i, j \in Arrivals(m)' : i = j
                    /\ Arrived(m)' =>
                          \/ InHand(m)' /\ worker'.pc = "sent"
                          \/ ~HasJob(m)'
                          \/ message'[m] = Gone /\ (InHand(m)' => worker'.pc # "send")
  BY DEF OnceInv
<1>0. Typed /\ JobsInv /\ OneJobEach
  BY DEF ArrivalInv, JobsInv
<1>1. m \notin trouble
  BY <1>0, HistoryStep
<1>2. CASE Deliver /\ InHand(m)
  <2>1. worker.pc = "send" /\ worker.job.m = m
    BY <1>2 DEF Deliver, InHand
  <2>2. ~Arrived(m)
    BY <1>1, <1>2, <2>1 DEF ArrivalInv, OnceInv, HasJob
  <2>3. worker' = [pc |-> "sent", job |-> worker.job, id |-> Fallback(worker.job)]
    BY <1>2, <2>1 DEF Deliver
  <2>4. InHand(m)' /\ worker'.pc = "sent"
    BY <2>1, <2>3 DEF InHand, Idle
  <2>5. \A i \in Arrivals(m)' : i = Len(delivered) + 1
    BY <1>0, <1>2, <2>2, ArrivalStep DEF Arrived
  <2> QED
    BY <2>4, <2>5
<1>3. CASE ~(Deliver /\ InHand(m))
  <2>1. Arrivals(m)' = Arrivals(m)
    BY <1>0, <1>3, ArrivalStep
  <2> SUFFICES ASSUME Arrived(m)
               PROVE  \/ InHand(m)' /\ worker'.pc = "sent"
                      \/ ~HasJob(m)'
                      \/ message'[m] = Gone /\ (InHand(m)' => worker'.pc # "send")
    BY <1>1, <2>1 DEF Arrived, ArrivalInv, OnceInv
  <2>2. Over(m) /\ ~StoreMessage(m) /\ ~AddJob(m)
    BY <1>0 DEF JobsInv, Over, StoreMessage, AddJob
  <2>3. CASE InHand(m) /\ worker.pc = "sent"
    <3>1. worker.job.m = m /\ ~Waits(m) /\ ~Delayed(m)
      BY <1>0, <2>3 DEF OneJobEach, InHand
    <3>2. CASE worker' = worker
      BY <2>3, <3>2 DEF InHand
    <3>3. CASE MarkSent /\ message[m] = Gone
      <4>1. worker'.pc = "failed" /\ message' = message
        BY <3>1, <3>3 DEF MarkSent
      <4> QED
        BY <3>3, <4>1
    <3>4. CASE MarkSent /\ message[m] # Gone
      <4>1. worker' = Idle
        BY <1>0, <3>1, <3>4, NoConflict DEF ArrivalInv
      <4>2. ~InHand(m)' /\ ~Waits(m)' /\ ~Delayed(m)'
        BY <3>1, <3>4, <4>1 DEF MarkSent, InHand, Waits, Delayed
      <4> QED
        BY <4>2 DEF HasJob
    <3>5. ~MarkSentFails /\ ~WorkerDies
      BY <3>1 DEF MarkSentFails, WorkerDies
    <3>6. worker' = worker \/ MarkSent
      BY <2>3, <3>5 DEF Next, Calling, Working, SendToClient, StoreMessage, AddJob, CallFails, ChangePhone,
         DeleteClient, Connection, ComesBack, TakeJob, ReadMessage, Deliver, SendFails, MarkFailed,
         MarkFailedFails, InHand, vars, queue
    <3> QED
      BY <3>2, <3>3, <3>4, <3>6
  <2>4. CASE ~HasJob(m)
    <3>1. CASE Quiet
      BY <1>0, <2>4, <3>1, QuietStays, StaysOnce
    <3>2. ASSUME NEW n \in Messages, AddJob(n) PROVE ~HasJob(m)'
      BY <1>0, <2>2, <2>4, <3>2, AddedOnce
    <3>3. CASE TakeJob
      BY <1>0, <2>4, <3>3, TakenOnce
    <3>4. CASE MarkFailed \/ MarkFailedFails
      BY <1>0, <2>4, <3>4, RethrownOnce
    <3>5. CASE WorkerDies
      BY <1>0, <2>4, <3>5, DiesOnce
    <3>6. CASE ComesBack
      BY <1>0, <2>4, <3>6, ComesBackOnce
    <3> QED
      BY <3>1, <3>2, <3>3, <3>4, <3>5, <3>6, StepCases
  <2>5. CASE message[m] = Gone /\ (InHand(m) => worker.pc # "send")
    <3>1. message'[m] = Gone
      BY <1>0, <2>2, <2>5, GoneStays
    <3>2. ASSUME InHand(m)', worker'.pc = "send" PROVE FALSE
      <4>1. CASE worker' = worker
        BY <2>5, <3>2, <4>1 DEF InHand
      <4>2. CASE worker'.job = worker.job /\ message[worker.job.m] # Gone
        BY <2>5, <3>2, <4>2 DEF InHand
      <4> QED
        BY <1>0, <3>2, <4>1, <4>2, WorkerStep
    <3> QED
      BY <3>1, <3>2
  <2> QED
    BY <1>1, <2>3, <2>4, <2>5 DEF ArrivalInv, OnceInv
<1> QED
  BY <1>2, <1>3

LEMMA ArrivalStays ==
    Spec => []ArrivalInv
<1>1. Init => ArrivalInv
  <2> SUFFICES ASSUME Init PROVE ArrivalInv
    OBVIOUS
  <2>1. \A m \in Messages : message[m] = Gone /\ ~InHand(m) /\ ~Arrived(m)
    BY DEF Init, InHand, Arrived, Arrivals
  <2>2. worker.pc # "sent"
    BY DEF Init, Idle
  <2> QED
    BY <2>1, <2>2, JobsInit DEF ArrivalInv, IdsAreOwn, ToTheNumber, OnceInv, Arrived
<1>2. ArrivalInv /\ [Next]_vars => ArrivalInv'
  BY JobsStep, IdsStep, NumberStep, OnceStep DEF ArrivalInv
<1> QED
  BY <1>1, <1>2, PTL DEF Spec

\* A message arrives once, however often it is tried, unless a fault comes
\* between the provider and its mark; and one that is marked as sent has
\* arrived, at the number of its conversation.
THEOREM AMessageArrivesOnce == Spec => []ArrivesOnce
<1>1. ArrivalInv => ArrivesOnce
  <2> SUFFICES ASSUME ArrivalInv PROVE ArrivesOnce
    OBVIOUS
  <2>1. ASSUME NEW m \in Messages, m \notin trouble PROVE Cardinality(Arrivals(m)) <= 1
    <3>1. CASE Arrivals(m) = {}
      BY <3>1, FS_EmptySet
    <3>2. CASE Arrivals(m) # {}
      <4>1. PICK i : i \in Arrivals(m)
        BY <3>2
      <4>2. Arrivals(m) = {i}
        BY <2>1, <4>1 DEF ArrivalInv, OnceInv
      <4> QED
        BY <4>2, FS_Singleton
    <3> QED
      BY <3>1, <3>2
  <2> QED
    BY <2>1 DEF ArrivesOnce, ArrivalInv, ToTheNumber, ArrivedAt
<1> QED
  BY <1>1, ArrivalStays, PTL

-----------------------------------------------------------------------------
(* Messages arrive in the order of their calls *)

\* What m did arrived before anything of n did, or will.
Ahead(m, n) ==
    \/ \E i \in Arrivals(m) : \A j \in Arrivals(n) : i < j
    \/ ~Arrived(n) /\ ~Delayed(n) /\ InHand(m)
    \/ ~Arrived(n) /\ ~Delayed(n) /\ ~InHand(n) /\ WaitsBefore(m, n)

\* When a call is over, its message has a job or has arrived, but for faults.
Placed(m) == m \in retried \cup trouble \/ message[m] = Gone \/ Arrived(m) \/ Waits(m) \/ InHand(m)

NoRowYet(m) == call[m].pc \in {"no", "create"} => message[m] = Gone

InLine(m, n) ==
    /\ m # n /\ Over(m) /\ call[n].pc # "no"
    /\ m \in retried \cup trouble \/ message[m] = Gone \/ Ahead(m, n)

OrderInv ==
    /\ \A m \in Messages : NoRowYet(m) /\ (Over(m) => Placed(m))
    /\ \A m, n \in Messages : <<m, n>> \in before => InLine(m, n)

\* The worker ends with a message by its arrival, its end or a failure.
LEMMA HandStep ==
    ASSUME ArrivalInv, [Next]_vars, NEW m \in Messages, InHand(m),
           m \notin retried' \cup trouble', message[m] # Gone
    PROVE  /\ InHand(m)' \/ Arrived(m)
           /\ \A n : n # m => (Delayed(n)' => Delayed(n))
<1>0. JobsInv /\ Typed /\ worker # Idle /\ worker.job.m = m
  BY DEF ArrivalInv, JobsInv, InHand
<1>1. CASE Quiet
  <2>1. delayed' = delayed
    BY <1>0, <1>1, QuietStays DEF Stays
  <2>2. CASE worker' = worker \/ (worker' # Idle /\ worker'.job = worker.job)
    BY <1>0, <2>1, <2>2 DEF InHand, Delayed
  <2>3. CASE worker' = Idle /\ MarkSent
    <3>1. worker.pc = "sent"
      BY <2>3 DEF MarkSent
    <3> QED
      BY <2>1, <3>1 DEF ArrivalInv, ToTheNumber, ArrivedAt, Arrived, Delayed
  <2> QED
    BY <1>0, <1>1, <2>2, <2>3, QuietStays
<1>2. ASSUME NEW n \in Messages, AddJob(n) PROVE InHand(m)' /\ delayed' = delayed
  BY <1>2 DEF AddJob, InHand
<1>3. ~TakeJob
  BY <1>0 DEF TakeJob
<1>4. ~MarkFailed /\ ~MarkFailedFails /\ ~WorkerDies
  BY <1>0 DEF MarkFailed, MarkFailedFails, Rethrow, WorkerDies
<1>5. CASE ComesBack
  BY <1>0, <1>5, ComesBackOnce DEF InHand
<1> QED
  BY <1>1, <1>2, <1>3, <1>4, <1>5, StepCases DEF Delayed

LEMMA NoRowStep ==
    ASSUME Typed, [Next]_vars, NEW m \in Messages, NoRowYet(m)
    PROVE  NoRowYet(m)'
<1> SUFFICES ASSUME call'[m].pc \in {"no", "create"} PROVE message'[m] = Gone
  BY DEF NoRowYet
<1>1. ~StoreMessage(m)
  BY DEF StoreMessage, Calls, Typed
<1> QED
  BY <1>1, HistoryStep, GoneStays DEF NoRowYet

LEMMA PlacedStep ==
    ASSUME ArrivalInv, OrderInv, [Next]_vars, NEW m \in Messages, Over(m)'
    PROVE  Placed(m)'
<1>0. JobsInv /\ Typed
  BY DEF ArrivalInv, JobsInv
<1>1. CASE SendToClient(m)
  BY <1>1 DEF SendToClient, OrderInv, NoRowYet, Placed
<1>2. CASE AddJob(m)
  BY <1>0, <1>2, AddedOnce DEF Placed
<1>3. CASE CallFails(m)
  BY <1>3 DEF CallFails, Placed
<1>4. CASE Over(m)
  <2>0. retried \subseteq retried' /\ trouble \subseteq trouble'
    BY <1>0, HistoryStep
  <2>1. ~StoreMessage(m)
    BY <1>4 DEF Over, StoreMessage
  <2>2. CASE message[m] = Gone
    BY <1>0, <2>1, <2>2, GoneStays DEF Placed
  <2>3. Arrived(m) => Arrived(m)'
    BY <1>0, ArrivalStep DEF Arrived
  <2>4. CASE Waits(m)
    <3>1. CASE Quiet \/ MarkFailed \/ MarkFailedFails
      <4>1. waiting' = waiting
        BY <1>0, <3>1, QuietStays, RethrownOnce DEF Stays
      <4> QED
        BY <2>4, <4>1 DEF Waits, Placed
    <3>2. ASSUME NEW n \in Messages, AddJob(n) PROVE Waits(m)'
      BY <1>0, <2>4, <3>2, AddedOnce
    <3>3. CASE TakeJob
      BY <1>0, <2>4, <3>3, TakenOnce DEF Placed
    <3>4. CASE WorkerDies
      BY <1>0, <2>4, <3>4, DiesOnce DEF Placed, WorkerDies
    <3>5. CASE ComesBack
      BY <1>0, <2>4, <3>5, ComesBackOnce DEF Placed
    <3> QED
      BY <3>1, <3>2, <3>3, <3>4, <3>5, StepCases DEF Placed
  <2>5. CASE InHand(m) /\ message[m] # Gone /\ m \notin retried' \cup trouble'
    BY <2>3, <2>5, HandStep DEF Placed
  <2> QED
    BY <1>4, <2>0, <2>2, <2>3, <2>4, <2>5 DEF OrderInv, Placed
<1> QED
  BY <1>0, <1>1, <1>2, <1>3, <1>4, HistoryStep

LEMMA AheadStep ==
    ASSUME ArrivalInv, [Next]_vars, NEW m \in Messages, NEW n \in Messages, m # n,
           m \notin retried' \cup trouble', message[m] # Gone, Ahead(m, n)
    PROVE  Ahead(m, n)'
<1>0. JobsInv /\ Typed /\ OneJobEach
  BY DEF ArrivalInv, JobsInv
<1>1. CASE \E i \in Arrivals(m) : \A j \in Arrivals(n) : i < j
  <2>1. PICK i \in Arrivals(m) : \A j \in Arrivals(n) : i < j
    BY <1>1
  <2>2. i \in Arrivals(m)'
    BY <1>0, ArrivalStep
  <2>3. \A j \in Arrivals(n)' : i < j
    BY <1>0, <2>1, ArrivalStep
  <2> QED
    BY <2>2, <2>3 DEF Ahead
<1>2. CASE ~Arrived(n) /\ ~Delayed(n) /\ InHand(m)
  <2>1. ~InHand(n)
    BY <1>2 DEF InHand
  <2>2. ~Arrived(n)'
    BY <1>0, <1>2, <2>1, ArrivalStep DEF Arrived
  <2>3. (InHand(m)' \/ Arrived(m)) /\ ~Delayed(n)'
    BY <1>2, HandStep
  <2>4. CASE Arrived(m)
    <3>1. PICK i : i \in Arrivals(m)'
      BY <1>0, <2>4, ArrivalStep DEF Arrived
    <3>2. Arrivals(n)' = {}
      BY <2>2 DEF Arrived
    <3> QED
      BY <3>1, <3>2 DEF Ahead
  <2> QED
    BY <2>2, <2>3, <2>4 DEF Ahead
<1>3. CASE ~Arrived(n) /\ ~Delayed(n) /\ ~InHand(n) /\ WaitsBefore(m, n)
  <2>1. ~Arrived(n)'
    BY <1>0, <1>3, ArrivalStep DEF Arrived
  <2>2. CASE Quiet
    <3>1. waiting' = waiting /\ delayed' = delayed /\ ~InHand(n)'
      BY <1>0, <1>3, <2>2, QuietStays DEF Stays
    <3> QED
      BY <1>3, <2>1, <3>1 DEF Ahead, WaitsBefore, Delayed
  <2>3. ASSUME NEW k \in Messages, AddJob(k) PROVE Ahead(m, n)'
    <3>1. delayed' = delayed /\ worker' = worker
      BY <2>3 DEF AddJob
    <3>2. WaitsBefore(m, n)'
      BY <1>0, <1>3, <2>3, AddedOnce
    <3> QED
      BY <1>3, <2>1, <3>1, <3>2 DEF Ahead, Delayed, InHand
  <2>4. CASE TakeJob
    BY <1>0, <1>3, <2>1, <2>4, TakenOnce DEF Ahead
  <2>5. CASE MarkFailed \/ MarkFailedFails
    <3>1. n # worker.job.m
      BY <1>0, <1>3, <2>5, RethrownOnce
    <3>2. waiting' = waiting /\ ~Delayed(n)' /\ ~InHand(n)'
      BY <1>0, <1>3, <2>5, <3>1, RethrownOnce
    <3> QED
      BY <1>3, <2>1, <3>2 DEF Ahead, WaitsBefore
  <2>6. CASE WorkerDies
    BY <1>0, <1>3, <2>1, <2>6, DiesOnce DEF Ahead
  <2>7. CASE ComesBack
    <3>1. ~Delayed(n)' /\ worker' = worker /\ WaitsBefore(m, n)'
      BY <1>0, <1>3, <2>7, ComesBackOnce
    <3> QED
      BY <1>3, <2>1, <3>1 DEF Ahead, InHand
  <2> QED
    BY <2>2, <2>3, <2>4, <2>5, <2>6, <2>7, StepCases
<1> QED
  BY <1>1, <1>2, <1>3 DEF Ahead

LEMMA InLineStep ==
    ASSUME ArrivalInv, OrderInv, [Next]_vars, NEW m \in Messages, NEW n \in Messages, <<m, n>> \in before'
    PROVE  InLine(m, n)'
<1>0. JobsInv /\ Typed
  BY DEF ArrivalInv, JobsInv
<1>1. CASE <<m, n>> \in before
  <2>1. InLine(m, n)
    BY <1>1 DEF OrderInv
  <2>2. Over(m)' /\ call'[n].pc # "no" /\ retried \subseteq retried' /\ trouble \subseteq trouble'
    BY <1>0, <2>1, HistoryStep DEF InLine
  <2>3. ~StoreMessage(m)
    BY <2>1 DEF InLine, Over, StoreMessage
  <2>4. CASE message[m] = Gone
    BY <1>0, <2>1, <2>2, <2>3, <2>4, GoneStays DEF InLine
  <2>5. CASE message[m] # Gone /\ m \notin retried' \cup trouble'
    BY <2>1, <2>2, <2>5, AheadStep DEF InLine
  <2> QED
    BY <2>1, <2>2, <2>4, <2>5 DEF InLine
<1>2. CASE SendToClient(n) /\ Over(m)
  <2>1. m # n /\ ~Over(n)
    BY <1>2 DEF SendToClient, Over
  <2>2. ~HasJob(n) /\ ~Arrived(n)
    BY <1>0, <2>1 DEF JobsInv
  <2>3. UNCHANGED <<waiting, delayed, worker, delivered, retried, trouble, message>>
    BY <1>2 DEF SendToClient, queue
  <2>4. Over(m)' /\ call'[n].pc # "no"
    <3>1. call'[n].pc # "no"
      BY <1>2 DEF SendToClient, Calls, Returns, Typed, JobsInv, ArrivalInv
    <3> QED
      BY <1>0, <1>2, <3>1, HistoryStep
  <2>5. Placed(m)
    BY <1>2 DEF OrderInv
  <2>6. Waits(m) => WaitsBefore(m, n)
    BY <2>2 DEF Waits, WaitsBefore, HasJob
  <2>7. m \in retried \cup trouble \/ message[m] = Gone \/ Ahead(m, n)
    BY <2>2, <2>5, <2>6 DEF Placed, Ahead, Arrived, HasJob
  <2>8. Ahead(m, n) => Ahead(m, n)'
    BY <2>3 DEF Ahead, Arrived, Arrivals, Delayed, InHand, WaitsBefore
  <2> QED
    BY <2>1, <2>3, <2>4, <2>7, <2>8 DEF InLine
<1> QED
  BY <1>1, <1>2, BeforeStep

\* What was said first arrives first, unless an attempt of it failed or it was
\* lost with its client or its call.
THEOREM MessagesArriveInOrder == Spec => []ArrivesInOrder
<1>1. Init => OrderInv
  BY DEF Init, OrderInv, NoRowYet, Over
<1>2. ArrivalInv /\ OrderInv /\ [Next]_vars => OrderInv'
  BY NoRowStep, PlacedStep, InLineStep DEF OrderInv, ArrivalInv, JobsInv
<1>3. OrderInv => ArrivesInOrder
  BY DEF OrderInv, InLine, Ahead, Arrived, ArrivesInOrder
<1> QED
  BY <1>1, <1>2, <1>3, ArrivalStays, PTL DEF Spec

-----------------------------------------------------------------------------
(* The parts *)

\* The part that was chosen makes a step of its own, or none.
LEMMA PartSteps ==
    ASSUME [ServicesNext]_registers
    PROVE  /\ part' = part
           /\ part = "connection" => [ConnectionPart!Next]_(ConnectionPart!vars)
           /\ part = "renewal" => [RenewalPart!Next]_(RenewalPart!vars)
           /\ part = "breaker" => [BreakerPart!Next]_(BreakerPart!vars)
           /\ part = "slots" => [SlotsPart!Next]_(SlotsPart!vars)
           /\ part = "risk" => [RiskPart!Next]_(RiskPart!vars)
           /\ part = "leads" => [LeadListPart!Next]_(LeadListPart!vars)
           /\ part = "watch" => [WatchPart!Next]_(WatchPart!vars)
           /\ part = "import" => [LeadImportPart!Next]_(LeadImportPart!vars)
BY DEF ServicesNext, registers, ConnectionPart!vars, RenewalPart!vars, BreakerPart!vars,
   SlotsPart!vars, RiskPart!vars, LeadListPart!vars, WatchPart!vars, LeadImportPart!vars

LEMMA PartsBegin ==
    ASSUME ServicesInit
    PROVE  /\ part = "connection" => ConnectionPart!Init
           /\ part = "renewal" => RenewalPart!Init
           /\ part = "breaker" => BreakerPart!Init
           /\ part = "slots" => SlotsPart!Init
           /\ part = "risk" => RiskPart!Init
           /\ part = "leads" => LeadListPart!Init
           /\ part = "watch" => WatchPart!Init
           /\ part = "import" => LeadImportPart!Init
BY DEF ServicesInit

-----------------------------------------------------------------------------
(* Connection *)

Connecting == ConnectionPart!TypeOK /\ ConnectionPart!BehindIsDone

\* An instance loses nothing that a request has behind it: it gets what it lacks.
Improves(old, new) ==
    /\ new \in [exists: BOOLEAN, webhook: BOOLEAN, proxy: BOOLEAN, open: BOOLEAN]
    /\ (old.exists => new.exists) /\ (old.webhook => new.webhook) /\ (old.proxy => new.proxy)
    /\ new.webhook \/ new.proxy \/ new.open => new.exists

LEMMA InstanceImproves ==
    ASSUME Connecting
    PROVE  /\ Improves(x1, x1)
           /\ x1.exists => \A b \in BOOLEAN : Improves(x1, [x1 EXCEPT !.open = b])
           /\ \A what \in {"webhook", "proxy"} :
                 /\ Improves(x1, ConnectionPart!Configured(what))
                 /\ x1.exists => ConnectionPart!Configured(what)[what]
           /\ ~x1.exists => Improves(x1, [exists |-> TRUE, webhook |-> TRUE, proxy |-> TRUE, open |-> FALSE])
<1> DEFINE I == [exists: BOOLEAN, webhook: BOOLEAN, proxy: BOOLEAN, open: BOOLEAN]
<1>1. x1 \in I /\ (x1.webhook \/ x1.proxy \/ x1.open => x1.exists)
  BY DEF Connecting, ConnectionPart!TypeOK
<1>2. ASSUME NEW b \in BOOLEAN, x1.exists, NEW new, new = [x1 EXCEPT !.open = b]
      PROVE  Improves(x1, new)
  <2>1. new \in I /\ new.exists = x1.exists /\ new.webhook = x1.webhook /\ new.proxy = x1.proxy
    BY <1>1, <1>2
  <2> QED
    BY <1>2, <2>1 DEF Improves
<1>3. ASSUME NEW what \in {"webhook", "proxy"}, x1.exists, NEW new, new = [x1 EXCEPT ![what] = TRUE]
      PROVE  Improves(x1, new) /\ new[what]
  <2>1. new \in I /\ new[what] /\ \A f \in {"exists", "webhook", "proxy"} : f # what => new[f] = x1[f]
    BY <1>1, <1>3
  <2> QED
    BY <1>3, <2>1 DEF Improves
<1>4. ASSUME NEW new, new = [exists |-> TRUE, webhook |-> TRUE, proxy |-> TRUE, open |-> FALSE]
      PROVE  Improves(x1, new)
  BY <1>4 DEF Improves
<1>5. Improves(x1, x1)
  BY <1>1 DEF Improves
<1> QED
  BY <1>2, <1>3, <1>4, <1>5 DEF ConnectionPart!Configured

\* A step that improves the instance, and takes no request past what is not done.
LEMMA ImprovesKeeps ==
    ASSUME Connecting, Improves(x1, x1'),
           x2' \in [Connects -> {"no", "check", "create", "webhook", "proxy", "qr", "over", "error"}],
           x3' \in 0..ConnectFaults, x4 \subseteq x4', x4' \subseteq Connects,
           \A k \in Connects \ x4' :
               \/ x2'[k] = x2[k]
               \/ x2'[k] \in {"check", "create", "error"}
               \/ (x2'[k] = "webhook" /\ x1'.exists)
               \/ (x2[k] = "webhook" /\ x2'[k] = "proxy" /\ x1'.webhook)
               \/ (x2[k] = "proxy" /\ x2'[k] = "qr" /\ x1'.proxy)
               \/ (x2[k] = "qr" /\ x2'[k] = "over")
    PROVE  Connecting'
<1>1. ConnectionPart!TypeOK'
  BY DEF Improves, ConnectionPart!TypeOK
<1>2. ASSUME NEW k \in Connects \ x4'
      PROVE  /\ x2'[k] \in {"webhook", "proxy", "qr", "over"} => x1'.exists
             /\ x2'[k] \in {"proxy", "qr", "over"} => x1'.webhook
             /\ x2'[k] \in {"qr", "over"} => x1'.proxy
  <2>1. /\ x2[k] \in {"webhook", "proxy", "qr", "over"} => x1'.exists
        /\ x2[k] \in {"proxy", "qr", "over"} => x1'.webhook
        /\ x2[k] \in {"qr", "over"} => x1'.proxy
    BY <1>2 DEF Connecting, Improves, ConnectionPart!BehindIsDone
  <2> QED
    BY <1>2, <2>1
<1> QED
  BY <1>1, <1>2 DEF Connecting, ConnectionPart!BehindIsDone

LEMMA ConnectionStep ==
    ASSUME Connecting, [ConnectionPart!Next]_(ConnectionPart!vars)
    PROVE  Connecting'
<1> USE ServicesAssumption, InstanceImproves DEF ConnectionPart!Fault, ConnectionPart!Goes
<1>0. /\ x2 \in [Connects -> {"no", "check", "create", "webhook", "proxy", "qr", "over", "error"}]
      /\ x3 \in 0..ConnectFaults /\ x4 \subseteq Connects
      /\ \A k \in Connects \ x4 : x2[k] = "webhook" => x1.exists
      /\ \A k \in Connects \ x4 : x2[k] = "proxy" => x1.exists
  BY DEF Connecting, ConnectionPart!TypeOK, ConnectionPart!BehindIsDone
<1>1. ASSUME NEW k \in Connects, ConnectionPart!Connect(k)
      PROVE  Connecting'
  BY <1>0, <1>1, ImprovesKeeps DEF ConnectionPart!Connect
<1>2. ASSUME NEW k \in Connects, ConnectionPart!CheckInstance(k)
      PROVE  Connecting'
  BY <1>0, <1>2, ImprovesKeeps DEF ConnectionPart!CheckInstance
<1>3. ASSUME NEW k \in Connects, ConnectionPart!CreateInstance(k)
      PROVE  Connecting'
  <2>1. Improves(x1, x1')
    BY <1>3 DEF ConnectionPart!CreateInstance
  <2>2. x2'[k] = "error" \/ (x2'[k] = "webhook" /\ x1'.exists)
    <3>1. CASE x1.exists
      BY <1>0, <1>3, <3>1 DEF ConnectionPart!CreateInstance
    <3>2. CASE ~x1.exists
      BY <1>0, <1>3, <3>2 DEF ConnectionPart!CreateInstance
    <3> QED
      BY <3>1, <3>2
  <2>3. /\ x2' \in [Connects -> {"no", "check", "create", "webhook", "proxy", "qr", "over", "error"}]
        /\ x3' \in 0..ConnectFaults /\ x4 \subseteq x4' /\ x4' \subseteq Connects
        /\ \A j \in Connects \ {k} : x2'[j] = x2[j]
    BY <1>0, <1>3 DEF ConnectionPart!CreateInstance
  <2> QED
    BY <2>1, <2>2, <2>3, ImprovesKeeps
<1>4. ASSUME NEW k \in Connects, NEW what \in {"webhook", "proxy"}, NEW next,
             what = "webhook" => next = "proxy", what = "proxy" => next = "qr",
             ConnectionPart!Configure(k, what, next)
      PROVE  Connecting'
  <2>1. Improves(x1, x1')
    BY <1>4 DEF ConnectionPart!Configure
  <2>2. k \notin x4' => x1'[what]
    BY <1>0, <1>4 DEF ConnectionPart!Configure
  <2>3. /\ x2' \in [Connects -> {"no", "check", "create", "webhook", "proxy", "qr", "over", "error"}]
        /\ x3' \in 0..ConnectFaults /\ x4 \subseteq x4' /\ x4' \subseteq Connects
        /\ x2[k] = what /\ x2'[k] = next /\ \A j \in Connects \ {k} : x2'[j] = x2[j]
    BY <1>0, <1>4 DEF ConnectionPart!Configure
  <2> QED
    BY <1>4, <2>1, <2>2, <2>3, ImprovesKeeps
<1>6. ASSUME NEW k \in Connects, ConnectionPart!GetQrCode(k)
      PROVE  Connecting'
  BY <1>0, <1>6, ImprovesKeeps DEF ConnectionPart!GetQrCode
<1>7. CASE ConnectionPart!ScanQrCode
  BY <1>0, <1>7, ImprovesKeeps DEF ConnectionPart!ScanQrCode
<1>8. CASE ConnectionPart!ConnectionDrops
  <2>1. Improves(x1, x1')
    BY <1>8 DEF ConnectionPart!ConnectionDrops, Connecting, ConnectionPart!TypeOK
  <2> QED
    BY <1>0, <1>8, <2>1, ImprovesKeeps DEF ConnectionPart!ConnectionDrops
<1>9. CASE UNCHANGED ConnectionPart!vars
  BY <1>0, <1>9, ImprovesKeeps DEF ConnectionPart!vars
<1> QED
  BY <1>1, <1>2, <1>3, <1>4, <1>6, <1>7, <1>8, <1>9 DEF ConnectionPart!Next, ConnectionPart!Step

\* A request to connect none of whose calls failed leaves an instance with its webhook
\* and its proxy, whoever else was connecting.
THEOREM WhoConnectsIsConfigured == ServicesSpec => []ConnectedIsConfigured
<1> DEFINE I == part = "connection" => Connecting
<1>1. ServicesInit => I
  <2> SUFFICES ASSUME ServicesInit, part = "connection"
               PROVE  Connecting
    OBVIOUS
  <2> QED
    BY PartsBegin, ServicesAssumption
       DEF ConnectionPart!Init, Connecting, ConnectionPart!TypeOK, ConnectionPart!BehindIsDone
<1>2. I /\ [ServicesNext]_registers => I'
  BY PartSteps, ConnectionStep
<1>3. I => ConnectedIsConfigured
  BY
     DEF Connecting, ConnectionPart!TypeOK, ConnectionPart!BehindIsDone, ConnectedIsConfigured, ConnectionPart!ConnectedIsConfigured
<1> QED
  BY <1>1, <1>2, <1>3, PTL DEF ServicesSpec

-----------------------------------------------------------------------------
(* Renewal *)

Renewing == RenewalPart!TypeOK /\ RenewalPart!OneQuestion

LEMMA RenewalStep ==
    ASSUME Renewing, [RenewalPart!Next]_(RenewalPart!vars)
    PROVE  Renewing'
<1> USE ServicesAssumption DEF Renewing, RenewalPart!TypeOK, RenewalPart!OneQuestion, RenewalPart!NoJob,
        RenewalPart!Losses, RenewalPart!Stages
<1>1. CASE RenewalPart!ChangeStage
  BY <1>1 DEF RenewalPart!ChangeStage
<1>2. CASE RenewalPart!ChangeNumber
  <2>1. x1' \in [stage: RenewalPart!Stages, number: BOOLEAN]
    BY <1>2 DEF RenewalPart!ChangeNumber
  <2> QED
    BY <1>2, <2>1 DEF RenewalPart!ChangeNumber
<1>3. CASE RenewalPart!ScheduleRenewalReminder
  BY <1>3 DEF RenewalPart!ScheduleRenewalReminder, RenewalPart!Added
<1>4. CASE RenewalPart!ScheduleFails
  BY <1>4 DEF RenewalPart!ScheduleFails, RenewalPart!Fault
<1>5. CASE RenewalPart!Due
  BY <1>5 DEF RenewalPart!Due
<1>6. CASE RenewalPart!ReadClient
  BY <1>6 DEF RenewalPart!ReadClient, RenewalPart!ToBeAsked
<1>7. CASE RenewalPart!SendRenewalReminder
  BY <1>7 DEF RenewalPart!SendRenewalReminder
<1>8. CASE RenewalPart!AttemptFails
  BY <1>8 DEF RenewalPart!AttemptFails, RenewalPart!AnotherAttempt, RenewalPart!Fault
<1>9. CASE RenewalPart!NobodyToAsk
  BY <1>9 DEF RenewalPart!NobodyToAsk, RenewalPart!AnotherAttempt
<1>10. CASE UNCHANGED RenewalPart!vars
  BY <1>10 DEF RenewalPart!vars
<1> QED
  BY <1>1, <1>2, <1>3, <1>4, <1>5, <1>6, <1>7, <1>8, <1>9, <1>10 DEF RenewalPart!Next, RenewalPart!Working

\* However often she is closed and whatever closes her again, a client is asked once
\* whether she wants to come back, unless an attempt failed.
THEOREM AClientIsAskedOnce == ServicesSpec => []AskedOnce
<1> DEFINE I == part = "renewal" => Renewing
<1>1. ServicesInit => I
  <2> SUFFICES ASSUME ServicesInit, part = "renewal"
               PROVE  Renewing
    OBVIOUS
  <2> USE PartsBegin, ServicesAssumption DEF RenewalPart!Init, RenewalPart!NoJob, RenewalPart!Losses, RenewalPart!Stages
  <2>1. RenewalPart!OneQuestion
    BY DEF RenewalPart!OneQuestion
  <2>2. x1 \in [stage: RenewalPart!Stages, number: BOOLEAN]
    OBVIOUS
  <2>3. x8 \in [RenewalPart!Losses -> BOOLEAN]
    OBVIOUS
  <2> QED
    BY <2>1, <2>2, <2>3 DEF Renewing, RenewalPart!TypeOK
<1>2. I /\ [ServicesNext]_registers => I'
  BY PartSteps, RenewalStep
<1>3. I => AskedOnce
  BY DEF Renewing, RenewalPart!OneQuestion, AskedOnce, RenewalPart!AskedOnce
<1> QED
  BY <1>1, <1>2, <1>3, PTL DEF ServicesSpec
-----------------------------------------------------------------------------
(* Watch: google is x1, tells x2, connection x3, jobs x4, run x5, seen x7, *)
(* missed x8                                                               *)

Watching == WatchPart!TypeOK /\ WatchPart!TokenIsRead

LEMMA WatchTypes ==
    ASSUME Watching
    PROVE  /\ x1 \in [last : 0..CalendarChanges, watches : SUBSET Channels, keeps : 0..CalendarChanges]
           /\ x2 \subseteq [channel : Channels, for : 1..CalendarChanges]
           /\ x3 \in [channel : Channels \cup {Null}, token : 0..CalendarChanges, error : BOOLEAN]
           /\ x4 \in Seq(WatchPart!Job) /\ x5 \in {Null} \cup WatchPart!Run
           /\ x6 \in 0..SyncFaults /\ x7 \subseteq 1..CalendarChanges
           /\ x8 \subseteq (1..CalendarChanges) \X WatchPart!Ways
           /\ CalendarChanges \in Nat /\ SyncFaults \in Nat /\ SyncAttempts \in Nat \ {0}
BY ServicesAssumption DEF Watching, WatchPart!TypeOK, WatchPart!Changes

\* Word of a change is not forgotten where nothing is taken away.
LEMMA WordStays ==
    ASSUME x2 \subseteq x2', x4' = x4, x5' = x5, x8 \subseteq x8'
    PROVE  \A n : WatchPart!Accounted(n) => WatchPart!Accounted(n)'
BY DEF WatchPart!Accounted, WatchPart!Pending

\* Word that gets lost in one of the ways accounts for its change.
LEMMA LostInAWay ==
    ASSUME Watching, NEW n \in 1..CalendarChanges, NEW w \in WatchPart!Ways, x8' = x8 \cup {<<n, w>>}
    PROVE  /\ x8' \subseteq (1..CalendarChanges) \X WatchPart!Ways
           /\ WatchPart!Accounted(n)'
<1>1. <<n, w>> \in (1..CalendarChanges) \X WatchPart!Ways
  OBVIOUS
<1>2. <<n, w>> \in x8'
  OBVIOUS
<1> QED
  BY <1>1, <1>2, WatchTypes DEF WatchPart!Accounted

LEMMA FaultsCount ==
    ASSUME Watching, WatchPart!Fault \/ x6' = x6
    PROVE  x6' \in 0..SyncFaults
BY WatchTypes DEF WatchPart!Fault

LEMMA ConnectStep ==
    ASSUME Watching, WatchPart!Connect
    PROVE  Watching'
<1>1. /\ x1' \in [last : 0..CalendarChanges, watches : SUBSET Channels, keeps : 0..CalendarChanges]
      /\ x1'.last = x1.last
  <2>1. CASE x1' = x1
    BY <2>1, WatchTypes
  <2>2. ASSUME NEW c \in Channels, x1' = [x1 EXCEPT !.watches = @ \cup {c}]
        PROVE  <1>1!:
    BY <2>2, WatchTypes
  <2> QED
    BY <2>1, <2>2 DEF WatchPart!Connect, WatchPart!Fresh
<1>2. /\ x3' \in [channel : Channels \cup {Null}, token : 0..CalendarChanges, error : BOOLEAN]
      /\ x3'.token = x3.token
  <2>1. CASE x3' = [x3 EXCEPT !.error = FALSE]
    BY <2>1, WatchTypes
  <2>2. ASSUME NEW c \in Channels, x3' = [x3 EXCEPT !.channel = c, !.error = FALSE]
        PROVE  <1>2!:
    BY <2>2, WatchTypes
  <2> QED
    BY <2>1, <2>2 DEF WatchPart!Connect, WatchPart!Fresh
<1>3. UNCHANGED <<x2, x4, x5, x7, x8>>
  BY DEF WatchPart!Connect
<1>4. x6' \in 0..SyncFaults
  BY FaultsCount DEF WatchPart!Connect
<1> QED
  BY <1>1, <1>2, <1>3, <1>4, WatchTypes, WordStays
     DEF Watching, WatchPart!TypeOK, WatchPart!TokenIsRead, WatchPart!Changes

\* Expire, Withdraw, Export: Google's numbers of changes, what the token covers and what was
\* told stay.
LEMMA OutsideStep ==
    ASSUME Watching, (\E c \in Channels : WatchPart!Expire(c)) \/ WatchPart!Withdraw
    PROVE  Watching'
<1>1. /\ x1' \in [last : 0..CalendarChanges, watches : SUBSET Channels, keeps : 0..CalendarChanges]
      /\ x1'.last = x1.last
  BY WatchTypes DEF WatchPart!Expire, WatchPart!Withdraw
<1>2. UNCHANGED <<x2, x3, x4, x5, x6, x7, x8>>
  BY DEF WatchPart!Expire, WatchPart!Withdraw
<1> QED
  BY <1>1, <1>2, WatchTypes, WordStays DEF Watching, WatchPart!TypeOK, WatchPart!TokenIsRead, WatchPart!Changes

LEMMA ExportStep ==
    ASSUME Watching, NEW works \in BOOLEAN, WatchPart!Export(works)
    PROVE  Watching'
<1>1. /\ x3' \in [channel : Channels \cup {Null}, token : 0..CalendarChanges, error : BOOLEAN]
      /\ x3'.token = x3.token
  <2>1. PICK b \in BOOLEAN : x3' = [x3 EXCEPT !.error = b]
    BY DEF WatchPart!Export
  <2> QED
    BY <2>1, WatchTypes
<1>2. UNCHANGED <<x1, x2, x4, x5, x7, x8>>
  BY DEF WatchPart!Export
<1>3. x6' \in 0..SyncFaults
  BY FaultsCount DEF WatchPart!Export
<1> QED
  BY <1>1, <1>2, <1>3, WatchTypes, WordStays
     DEF Watching, WatchPart!TypeOK, WatchPart!TokenIsRead, WatchPart!Changes

\* Word of a change goes out over the channels, or there is none.
LEMMA ChangeStep ==
    ASSUME Watching, WatchPart!Change
    PROVE  Watching'
<1>0. PICK n : n = x1.last + 1
  OBVIOUS
<1>1. /\ x1' \in [last : 0..CalendarChanges, watches : SUBSET Channels, keeps : 0..CalendarChanges]
      /\ x1'.last = n /\ n \in 1..CalendarChanges
  BY <1>0, WatchTypes DEF WatchPart!Change
<1>2. /\ x2' = x2 \cup [channel : x1.watches, for : {n}]
      /\ x8' = x8 \cup (IF x1.watches = {} THEN {<<n, "unwatched">>} ELSE {})
      /\ UNCHANGED <<x3, x4, x5, x6, x7>>
  BY <1>0 DEF WatchPart!Change
<1>3. x2' \subseteq [channel : Channels, for : 1..CalendarChanges]
  BY <1>1, <1>2, WatchTypes
<1>11. "unwatched" \in WatchPart!Ways
  BY DEF WatchPart!Ways
<1>12. x8' \subseteq (1..CalendarChanges) \X WatchPart!Ways
  BY <1>1, <1>2, <1>11, WatchTypes, LostInAWay
<1>4. \A m : WatchPart!Accounted(m) => WatchPart!Accounted(m)'
  BY <1>2, WordStays
<1>5. WatchPart!Accounted(n)'
  <2>1. CASE x1.watches = {}
    BY <1>1, <1>2, <1>11, <2>1, LostInAWay
  <2>2. ASSUME NEW c \in x1.watches
        PROVE  WatchPart!Accounted(n)'
    <3>1. PICK t \in x2' : t = [channel |-> c, for |-> n]
      BY <1>2, <2>2
    <3>2. t.for = n
      BY <3>1
    <3> QED
      BY <3>1, <3>2 DEF WatchPart!Accounted, WatchPart!Pending
  <2> QED
    BY <2>1, <2>2
<1>6. \A t \in x2' : t.for <= x1'.last
  BY <1>0, <1>1, <1>2, WatchTypes DEF Watching, WatchPart!TokenIsRead
<1>7. \A i \in DOMAIN x4 : x4[i].for \in 1..CalendarChanges /\ x4[i].for <= x1'.last
  <2>1. \A i \in DOMAIN x4 : x4[i] \in WatchPart!Job /\ x4[i].for <= x1.last
    BY WatchTypes DEF Watching, WatchPart!TokenIsRead
  <2> QED
    BY <1>0, <1>1, <2>1, WatchTypes DEF WatchPart!Job, WatchPart!Changes
<1>8. x5 # Null => x5.read <= x1'.last
  BY <1>0, <1>1, WatchTypes DEF Watching, WatchPart!TokenIsRead, WatchPart!Run
<1>9. \A m \in (1..x1'.last) \ x7 : WatchPart!Accounted(m)'
  <2>1. \A m \in (1..x1.last) \ x7 : WatchPart!Accounted(m)
    BY DEF Watching, WatchPart!TokenIsRead
  <2>2. \A m \in 1..x1'.last : m \in 1..x1.last \/ m = n
    BY <1>0, <1>1, WatchTypes
  <2> QED
    BY <1>4, <1>5, <2>1, <2>2
<1>10. WatchPart!TypeOK'
  BY <1>1, <1>2, <1>3, <1>12, WatchTypes DEF WatchPart!TypeOK, WatchPart!Changes
<1> QED
  BY <1>2, <1>6, <1>7, <1>8, <1>9, <1>10 DEF Watching, WatchPart!TokenIsRead

LEMMA WebhookStep ==
    ASSUME Watching, NEW t \in x2, WatchPart!Webhook(t)
    PROVE  Watching'
<1> DEFINE job == [channel |-> t.channel, for |-> t.for, left |-> SyncAttempts]
<1>1. job \in WatchPart!Job /\ job.for = t.for /\ t.for <= x1.last
  BY WatchTypes DEF WatchPart!Job, WatchPart!Changes, Watching, WatchPart!TokenIsRead
<1>2. x2' = x2 \ {t} /\ UNCHANGED <<x1, x3, x5, x7>> /\ x6' \in 0..SyncFaults
  BY FaultsCount DEF WatchPart!Webhook
<1>3. CASE x4' = Append(x4, job) /\ x8' = x8
  <2>1. /\ x4' \in Seq(WatchPart!Job)
        /\ \A i \in DOMAIN x4 : i \in DOMAIN x4' /\ x4'[i] = x4[i]
        /\ Len(x4) + 1 \in DOMAIN x4' /\ x4'[Len(x4) + 1] = job
        /\ \A i \in DOMAIN x4' : i \in DOMAIN x4 \/ i = Len(x4) + 1
    BY <1>1, <1>3, Appended, WatchTypes
  <2>2. \A n : WatchPart!Accounted(n) => WatchPart!Accounted(n)'
    BY <1>1, <1>2, <1>3, <2>1 DEF WatchPart!Accounted, WatchPart!Pending
  <2>3. \A i \in DOMAIN x4' : x4'[i].for <= x1.last
    BY <1>1, <2>1 DEF Watching, WatchPart!TokenIsRead
  <2> QED
    BY <1>2, <1>3, <2>1, <2>2, <2>3, WatchTypes
       DEF Watching, WatchPart!TypeOK, WatchPart!TokenIsRead, WatchPart!Changes
<1>4. CASE x4' = x4 /\ x8' = x8 \cup {<<t.for, "not queued">>}
  <2>1. x8' \subseteq (1..CalendarChanges) \X WatchPart!Ways /\ WatchPart!Accounted(t.for)'
    BY <1>4, WatchTypes, LostInAWay DEF WatchPart!Ways
  <2>2. \A n : WatchPart!Accounted(n) => WatchPart!Accounted(n)'
    BY <1>2, <1>4, <2>1 DEF WatchPart!Accounted, WatchPart!Pending, WatchPart!Ways
  <2> QED
    BY <1>2, <1>4, <2>1, <2>2, WatchTypes
       DEF Watching, WatchPart!TypeOK, WatchPart!TokenIsRead, WatchPart!Changes
<1> QED
  BY <1>3, <1>4 DEF WatchPart!Webhook

LEMMA ReadStep ==
    ASSUME Watching, WatchPart!Read
    PROVE  Watching'
<1>1. /\ Head(x4) \in WatchPart!Job /\ 1 \in DOMAIN x4 /\ Head(x4) = x4[1]
      /\ x4' \in Seq(WatchPart!Job) /\ x5 = Null
      /\ \A i \in DOMAIN x4' : i + 1 \in DOMAIN x4 /\ x4'[i] = x4[i + 1]
      /\ \A i \in DOMAIN x4 : i = 1 \/ (i - 1 \in DOMAIN x4' /\ x4'[i - 1] = x4[i])
  <2>1. x4 \in Seq(WatchPart!Job) /\ x4 # <<>> /\ x4' = Tail(x4) /\ x5 = Null
    BY WatchTypes DEF WatchPart!Read
  <2> QED
    BY <2>1, Taken
<1>2. UNCHANGED <<x1, x2, x3, x6, x7>>
  BY DEF WatchPart!Read
<1>3. \A i \in DOMAIN x4' : x4'[i].for <= x1.last
  BY <1>1 DEF Watching, WatchPart!TokenIsRead
<1>4. CASE Head(x4).channel = x3.channel
  <2> DEFINE gone == WatchPart!Withdrawn(x3.token)
  <2>1. x5' = [job |-> Head(x4), from |-> x3.token, read |-> x1.last, gone |-> gone] /\ x8' = x8
    BY <1>4 DEF WatchPart!Read
  <2>2. gone \in BOOLEAN
    BY DEF WatchPart!Withdrawn
  <2> HIDE DEF gone
  <2>3. x5' \in WatchPart!Run /\ x5'.job = Head(x4) /\ x5'.from = x3.token /\ x5'.read = x1.last
    BY <1>1, <2>1, <2>2, WatchTypes DEF WatchPart!Run
  <2>4. x5' # Null
    BY <2>3, NullAssumption
  <2>5. \A n : WatchPart!Accounted(n) => WatchPart!Accounted(n)'
    BY <1>1, <1>2, <2>1, <2>3, <2>4 DEF WatchPart!Accounted, WatchPart!Pending
  <2>6. Head(x4).for <= x1.last /\ x1.last <= x1.last
    BY <1>1, WatchTypes DEF Watching, WatchPart!TokenIsRead
  <2> QED
    BY <1>1, <1>2, <1>3, <2>1, <2>3, <2>5, <2>6, WatchTypes
       DEF Watching, WatchPart!TypeOK, WatchPart!TokenIsRead, WatchPart!Changes
<1>5. CASE Head(x4).channel # x3.channel
  <2>0. PICK m : m = Head(x4).for
    OBVIOUS
  <2>1. x8' = x8 \cup {<<m, "replaced channel">>} /\ x5' = x5
    BY <1>5, <2>0 DEF WatchPart!Read
  <2>2. x8' \subseteq (1..CalendarChanges) \X WatchPart!Ways /\ WatchPart!Accounted(m)'
    <3>1. m \in 1..CalendarChanges /\ "replaced channel" \in WatchPart!Ways
      BY <1>1, <2>0 DEF WatchPart!Ways, WatchPart!Job, WatchPart!Changes
    <3> QED
      BY <2>1, <3>1, LostInAWay
  <2>3. \A n : WatchPart!Accounted(n) => WatchPart!Accounted(n)'
    BY <1>1, <1>2, <2>0, <2>1, <2>2 DEF WatchPart!Accounted, WatchPart!Pending, WatchPart!Ways
  <2> QED
    BY <1>1, <1>2, <1>3, <2>1, <2>2, <2>3, WatchTypes
       DEF Watching, WatchPart!TypeOK, WatchPart!TokenIsRead, WatchPart!Changes
<1> QED
  BY <1>4, <1>5

LEMMA FinishStep ==
    ASSUME Watching, WatchPart!Finish
    PROVE  Watching'
<1>0. PICK m : m = x5.job.for
  OBVIOUS
<1>1. PICK gone \in BOOLEAN :
        /\ x5 # Null /\ x5' = Null
        /\ gone => /\ x3' = [x3 EXCEPT !.token = 0]
                   /\ x8' = x8 \cup {<<m, "token withdrawn">>} /\ x7' = x7
        /\ ~gone => /\ x3' = [x3 EXCEPT !.token = x5.read, !.error = FALSE]
                    /\ x7' = x7 \cup ((x5.from + 1)..x5.read) /\ x8' = x8
  <2>1. x5 # Null => x5.gone \in BOOLEAN
    BY WatchTypes DEF WatchPart!Run
  <2>2. WatchPart!Withdrawn(x5.from) \in BOOLEAN
    BY DEF WatchPart!Withdrawn
  <2> QED
    BY <1>0, <2>1, <2>2 DEF WatchPart!Finish, WatchPart!Covered
<1>2. UNCHANGED <<x1, x2, x4, x6>>
  BY DEF WatchPart!Finish
<1>3. /\ m \in 1..CalendarChanges /\ x5.from \in 0..CalendarChanges /\ x5.read \in 0..CalendarChanges
      /\ x1.last \in 0..CalendarChanges /\ 1..x5.from \subseteq x7 /\ m <= x5.read /\ x5.read <= x1.last
  BY <1>0, <1>1, WatchTypes DEF Watching, WatchPart!TokenIsRead, WatchPart!Run, WatchPart!Job, WatchPart!Changes
<1>4. CASE gone
  <2>1. x8' \subseteq (1..CalendarChanges) \X WatchPart!Ways /\ WatchPart!Accounted(m)'
    BY <1>1, <1>3, <1>4, LostInAWay DEF WatchPart!Ways
  <2>2. \A n : WatchPart!Accounted(n) => WatchPart!Accounted(n)'
    BY <1>0, <1>1, <1>2, <1>4, <2>1 DEF WatchPart!Accounted, WatchPart!Pending
  <2>3. x3' \in [channel : Channels \cup {Null}, token : 0..CalendarChanges, error : BOOLEAN] /\ x3'.token = 0
    <3>1. x3' = [x3 EXCEPT !.token = 0]
      BY <1>1, <1>4
    <3>2. 0 \in 0..CalendarChanges
      BY WatchTypes
    <3> QED
      BY <3>1, <3>2, WatchTypes
  <2>4. WatchPart!TypeOK'
    BY <1>1, <1>2, <1>4, <2>1, <2>3, WatchTypes DEF WatchPart!TypeOK, WatchPart!Changes
  <2>5. 1..x3'.token = {}
    BY <2>3
  <2> QED
    BY <1>1, <1>2, <1>4, <2>2, <2>4, <2>5 DEF Watching, WatchPart!TokenIsRead
<1>5. CASE ~gone
  <2>1. x3' \in [channel : Channels \cup {Null}, token : 0..CalendarChanges, error : BOOLEAN] /\ x3'.token = x5.read
    BY <1>1, <1>3, <1>5, WatchTypes
  <2>2. 1..x5.read \subseteq x7' /\ x7 \subseteq x7' /\ x7' \subseteq 1..CalendarChanges
    <3>1. x7' = x7 \cup ((x5.from + 1)..x5.read) /\ x7 \subseteq 1..CalendarChanges /\ CalendarChanges \in Nat
      BY <1>1, <1>5, WatchTypes
    <3>2. (x5.from + 1)..x5.read \subseteq 1..CalendarChanges
      BY <1>3, WatchTypes
    <3>3. \A n \in 1..x5.read : n \in 1..x5.from \/ n \in (x5.from + 1)..x5.read
      BY <1>3
    <3> QED
      BY <1>3, <3>1, <3>2, <3>3
  <2>3. \A n : WatchPart!Accounted(n) => n \in x7' \/ WatchPart!Accounted(n)'
    <3>1. m \in x7'
      BY <1>3, <2>2
    <3> QED
      BY <1>0, <1>1, <1>2, <1>5, <3>1 DEF WatchPart!Accounted, WatchPart!Pending
  <2>4. \A n \in (1..x1.last) \ x7' : WatchPart!Accounted(n)'
    BY <2>2, <2>3 DEF Watching, WatchPart!TokenIsRead
  <2> QED
    BY <1>1, <1>2, <1>5, <2>1, <2>2, <2>4, WatchTypes
       DEF Watching, WatchPart!TypeOK, WatchPart!TokenIsRead, WatchPart!Changes
<1> QED
  BY <1>4, <1>5

LEMMA FailStep ==
    ASSUME Watching, NEW shown \in BOOLEAN, WatchPart!Fail(shown)
    PROVE  Watching'
<1> DEFINE again == [x5.job EXCEPT !.left = @ - 1]
<1>1. x5 \in WatchPart!Run /\ x5 # Null /\ x5' = Null /\ UNCHANGED <<x1, x2, x7>> /\ x6' \in 0..SyncFaults
  BY FaultsCount, WatchTypes DEF WatchPart!Fail
<1>2. /\ x3' \in [channel : Channels \cup {Null}, token : 0..CalendarChanges, error : BOOLEAN]
      /\ x3'.token = x3.token
  <2>1. PICK b \in BOOLEAN : x3' = [x3 EXCEPT !.error = b]
    BY WatchTypes DEF WatchPart!Fail
  <2> QED
    BY <2>1, WatchTypes
<1>3. /\ x5.job \in WatchPart!Job /\ x5.job.for \in 1..CalendarChanges
      /\ x5.job.left \in 1..SyncAttempts /\ x5.job.for <= x1.last
  BY <1>1, WatchTypes DEF Watching, WatchPart!TokenIsRead, WatchPart!Run, WatchPart!Job, WatchPart!Changes
<1>4. CASE x5.job.left > 1
  <2>1. again \in WatchPart!Job /\ again.for = x5.job.for
    <3>1. x5.job.left - 1 \in 1..SyncAttempts
      BY <1>3, <1>4, WatchTypes
    <3> QED
      BY <1>3, <3>1 DEF WatchPart!Job
  <2>2. x4' = Append(x4, again) /\ x8' = x8
    BY <1>4 DEF WatchPart!Fail
  <2>3. /\ x4' \in Seq(WatchPart!Job)
        /\ \A i \in DOMAIN x4 : i \in DOMAIN x4' /\ x4'[i] = x4[i]
        /\ Len(x4) + 1 \in DOMAIN x4' /\ x4'[Len(x4) + 1] = again
        /\ \A i \in DOMAIN x4' : i \in DOMAIN x4 \/ i = Len(x4) + 1
    BY <2>1, <2>2, Appended, WatchTypes
  <2>4. \A n : WatchPart!Accounted(n) => WatchPart!Accounted(n)'
    BY <1>1, <2>1, <2>2, <2>3 DEF WatchPart!Accounted, WatchPart!Pending
  <2>5. \A i \in DOMAIN x4' : x4'[i].for <= x1.last
    BY <1>3, <2>1, <2>3 DEF Watching, WatchPart!TokenIsRead
  <2> QED
    BY <1>1, <1>2, <2>2, <2>3, <2>4, <2>5, WatchTypes
       DEF Watching, WatchPart!TypeOK, WatchPart!TokenIsRead, WatchPart!Changes
<1>5. CASE ~(x5.job.left > 1)
  <2>0. PICK m : m = x5.job.for
    OBVIOUS
  <2>1. x8' = x8 \cup {<<m, "gave up">>} /\ x4' = x4
    BY <1>5, <2>0 DEF WatchPart!Fail
  <2>2. x8' \subseteq (1..CalendarChanges) \X WatchPart!Ways /\ WatchPart!Accounted(m)'
    BY <1>3, <2>0, <2>1, LostInAWay DEF WatchPart!Ways
  <2>3. \A n : WatchPart!Accounted(n) => WatchPart!Accounted(n)'
    BY <1>1, <2>0, <2>1, <2>2 DEF WatchPart!Accounted, WatchPart!Pending
  <2> QED
    BY <1>1, <1>2, <2>1, <2>2, <2>3, WatchTypes
       DEF Watching, WatchPart!TypeOK, WatchPart!TokenIsRead, WatchPart!Changes
<1> QED
  BY <1>4, <1>5

LEMMA WatchStep ==
    ASSUME Watching, [WatchPart!Next]_(WatchPart!vars)
    PROVE  Watching'
<1>1. CASE UNCHANGED WatchPart!vars
  BY <1>1, WordStays DEF WatchPart!vars, Watching, WatchPart!TypeOK, WatchPart!TokenIsRead
<1>2. CASE WatchPart!Next
  BY <1>2, ConnectStep, OutsideStep, ExportStep, ChangeStep, WebhookStep, ReadStep, FinishStep, FailStep
     DEF WatchPart!Next
<1> QED
  BY <1>1, <1>2

\* A change in Google is read, unless word of it got lost in one of five ways.
THEOREM AChangeIsReadOrLost == ServicesSpec => []MissedForAReason
<1> DEFINE I == part = "watch" => Watching
<1>1. ServicesInit => I
  <2> SUFFICES ASSUME ServicesInit, part = "watch"
               PROVE  Watching
    OBVIOUS
  <2> USE PartsBegin, ServicesAssumption DEF WatchPart!Init
  <2>1. WatchPart!TypeOK
    <3>1. x1 \in [last : 0..CalendarChanges, watches : SUBSET Channels, keeps : 0..CalendarChanges]
      OBVIOUS
    <3>2. x3 \in [channel : Channels \cup {Null}, token : 0..CalendarChanges, error : BOOLEAN]
      <4>1. x3 = [channel |-> Null, token |-> 0, error |-> FALSE] /\ 0 \in 0..CalendarChanges
        OBVIOUS
      <4> QED
        BY ONLY <4>1
    <3>3. x4 \in Seq(WatchPart!Job)
      OBVIOUS
    <3> QED
      BY <3>1, <3>2, <3>3 DEF WatchPart!TypeOK, WatchPart!Changes
  <2>2. WatchPart!TokenIsRead
    BY DEF WatchPart!TokenIsRead
  <2> QED
    BY <2>1, <2>2 DEF Watching
<1>2. I /\ [ServicesNext]_registers => I'
  BY PartSteps, WatchStep
<1>3. I => MissedForAReason
  BY DEF Watching, WatchPart!TokenIsRead, MissedForAReason, WatchPart!MissedForAReason
<1> QED
  BY <1>1, <1>2, <1>3, PTL DEF ServicesSpec
-----------------------------------------------------------------------------
(* LeadImport: response is x1, told x2, rows x3, form x4, forms x5, calls x6 *)

Importing == LeadImportPart!TypeOK /\ LeadImportPart!EachOfOne
             /\ x1 \in [Persons -> Responses]

LEMMA TheLargest ==
    ASSUME NEW n \in Nat, NEW S \in SUBSET (1..n), S # {}
    PROVE  LeadImportPart!Max(S) \in S
<1> DEFINE R == OpToRel(<, Nat)
           T == {n - x : x \in S}
<1>1. IsWellFoundedOn(R, Nat)
  BY NatLessThanWellFounded
<1>2. \A x \in 1..n : n - x \in Nat
  OBVIOUS
<1>3. \A x, y \in Nat : x < y => <<x, y>> \in R
  BY DEF OpToRel
<1>4. T \subseteq Nat /\ T # {}
  BY <1>2
<1> HIDE DEF R
<1>5. PICK t \in T : \A y \in T : ~(<<y, t>> \in R)
  BY <1>1, <1>4, WFMin
<1>6. PICK x \in S : t = n - x
  BY <1>5
<1>7. \A y \in S : x >= y
  <2>1. TAKE y \in S
  <2>2. n - y \in T /\ n - y \in Nat /\ n - x \in Nat /\ ~(n - y < n - x)
    BY <1>2, <1>3, <1>5, <1>6
  <2> QED
    BY <2>2
<1> QED
  BY <1>6, <1>7 DEF LeadImportPart!Max

\* The number is the last that was given, as it is written.
LEMMA NumberGiven ==
    ASSUME x1 \in [Persons -> Responses], NEW p \in Persons, NEW f,
           \A w \in LeadImportPart!Writings : f[w] \in {"right", "foreign", "spaced"}, f["full"] = "right"
    PROVE  /\ LeadImportPart!Phone(p, f) \in [of: {p}, form: {"right", "foreign", "spaced"}] \cup {Null}
           /\ LeadImportPart!WithCountry(p) => LeadImportPart!Phone(p, f) = [of |-> p, form |-> "right"]
<1> DEFINE G == LeadImportPart!Given(p, "phone")
           last == LeadImportPart!Max(G)
<1>1. x1[p] \in Seq(LeadImportPart!Answer) /\ G \subseteq DOMAIN x1[p]
  BY ResponsesAssumption DEF LeadImportPart!Given
<1>2. \A i \in G : x1[p][i].said \in LeadImportPart!Writings
  BY <1>1, ResponsesAssumption DEF LeadImportPart!Given
<1>3. CASE G = {}
  BY <1>3 DEF LeadImportPart!Phone, LeadImportPart!WithCountry
<1>4. CASE G # {}
  <2>1. Len(x1[p]) \in Nat /\ DOMAIN x1[p] = 1..Len(x1[p])
    BY <1>1
  <2>2. last \in G
    BY <1>1, <1>4, <2>1, TheLargest
  <2>3. LeadImportPart!Phone(p, f) = [of |-> p, form |-> f[x1[p][last].said]]
    BY <1>4 DEF LeadImportPart!Phone
  <2> HIDE DEF last
  <2>4. f[x1[p][last].said] \in {"right", "foreign", "spaced"}
    BY <1>2, <2>2
  <2>5. LeadImportPart!WithCountry(p) => x1[p][last].said = "full"
    BY <2>2 DEF LeadImportPart!WithCountry
  <2> QED
    BY <2>3, <2>4, <2>5
<1> QED
  BY <1>3, <1>4

LEMMA WritingsAreRead ==
    /\ \A w \in LeadImportPart!Writings :
          /\ LeadImportPart!ToE164(w) \in {"right", "foreign", "spaced"}
          /\ LeadImportPart!NormalizePhone(w) \in {"right", "foreign", "spaced"}
    /\ LeadImportPart!ToE164("full") = "right" /\ LeadImportPart!NormalizePhone("full") = "right"
    /\ "full" \in LeadImportPart!Writings
BY DEF LeadImportPart!Writings, LeadImportPart!ToE164, LeadImportPart!NormalizePhone

\* What the answers of a person become is hers.
LEMMA AnswersAreOfOne ==
    ASSUME x1 \in [Persons -> Responses], NEW p \in Persons, NEW lead,
           lead = LeadImportPart!MapAnswers(p) \/ lead = LeadImportPart!ParseRespondiHtml(p)
    PROVE  lead \in LeadImportPart!Lead /\ LeadImportPart!OfOne(lead) /\ lead.name \in {p, Null}
<1>1. PICK f : /\ lead = LeadImportPart!Mapped(p, f)
               /\ \A w \in LeadImportPart!Writings : f[w] \in {"right", "foreign", "spaced"}
               /\ f["full"] = "right"
  BY WritingsAreRead DEF LeadImportPart!MapAnswers, LeadImportPart!ParseRespondiHtml
<1>2. /\ lead.name \in {p, Null} /\ lead.phone = LeadImportPart!Phone(p, f) /\ lead.mixed = FALSE
      /\ lead.texts = LeadImportPart!MapAnswers(p).texts
      /\ lead.texts \in [LeadImportPart!Areas -> Seq(Persons)]
      /\ lead = [name |-> lead.name, phone |-> lead.phone, texts |-> lead.texts, mixed |-> lead.mixed]
  BY <1>1 DEF LeadImportPart!Mapped, LeadImportPart!MapAnswers
<1>3. /\ lead.phone \in [of: {p}, form: {"right", "foreign", "spaced"}] \cup {Null}
      /\ LeadImportPart!WithCountry(p) => lead.phone = [of |-> p, form |-> "right"]
  BY <1>1, <1>2, NumberGiven
<1>4. lead.phone \in LeadImportPart!Numbers \cup {Null} /\ (lead.phone # Null => lead.phone.of = p)
  BY <1>3 DEF LeadImportPart!Numbers
<1>5. lead \in LeadImportPart!Lead
  BY <1>2, <1>4 DEF LeadImportPart!Lead
<1> QED
  BY <1>2, <1>3, <1>4, <1>5 DEF LeadImportPart!OfOne

LEMMA SomebodyIsNotNull == Null \notin Persons /\ Null \notin LeadImportPart!Numbers /\ Null \notin LeadImportPart!Form
BY NullAssumption

LEMMA EmptyIsALead == LeadImportPart!Empty \in LeadImportPart!Lead
BY DEF LeadImportPart!Empty, LeadImportPart!Lead

\* What one person says over what she said before is hers.
LEMMA CompletedIsOfOne ==
    ASSUME NEW old \in LeadImportPart!Lead, NEW lead \in LeadImportPart!Lead,
           old.name # Null, lead.phone # Null, old.phone = lead.phone,
           old.mixed \/ LeadImportPart!OfOne(old), lead.mixed \/ LeadImportPart!OfOne(lead),
           NEW both, both = LeadImportPart!Completed(old, lead)
    PROVE  /\ both \in LeadImportPart!Lead /\ both.name # Null /\ both.phone = old.phone
           /\ both.mixed \/ LeadImportPart!OfOne(both)
<1>1. /\ both.name = LeadImportPart!Or(lead.name, old.name) /\ both.phone = old.phone
      /\ both.texts = [a \in LeadImportPart!Areas |-> IF lead.texts[a] = <<>> THEN old.texts[a] ELSE lead.texts[a]]
      /\ both.mixed = (lead.mixed \/ old.mixed)
      /\ both = [name |-> both.name, phone |-> both.phone, mixed |-> both.mixed, texts |-> both.texts]
  BY DEF LeadImportPart!Completed
<1>2. /\ lead.name \in Persons \cup {Null} /\ old.name \in Persons \cup {Null}
      /\ old.phone \in LeadImportPart!Numbers \cup {Null}
      /\ old.texts \in [LeadImportPart!Areas -> Seq(Persons)] /\ lead.texts \in [LeadImportPart!Areas -> Seq(Persons)]
  BY DEF LeadImportPart!Lead
<1>3. both.name \in Persons /\ both.name \in {lead.name, old.name}
  BY <1>1, <1>2 DEF LeadImportPart!Or
<1>4. both.texts \in [LeadImportPart!Areas -> Seq(Persons)]
  BY <1>1, <1>2
<1>5. both.mixed \in BOOLEAN
  BY <1>1
<1>6. both \in LeadImportPart!Lead
  BY <1>1, <1>2, <1>3, <1>4, <1>5 DEF LeadImportPart!Lead
<1>7. ASSUME ~lead.mixed, ~old.mixed
      PROVE  LeadImportPart!OfOne(both)
  <2>1. lead # LeadImportPart!Empty /\ old # LeadImportPart!Empty
    BY DEF LeadImportPart!Empty
  <2>2. PICK p \in Persons :
          /\ lead.name \in {p, Null} /\ lead.phone.of = p
          /\ LeadImportPart!WithCountry(p) => lead.phone = [of |-> p, form |-> "right"]
          /\ \A a \in LeadImportPart!Areas : lead.texts[a] \in {<<>>, LeadImportPart!MapAnswers(p).texts[a]}
    BY <1>7, <2>1 DEF LeadImportPart!OfOne
  <2>3. PICK q \in Persons :
          /\ old.name \in {q, Null} /\ old.phone.of = q
          /\ \A a \in LeadImportPart!Areas : old.texts[a] \in {<<>>, LeadImportPart!MapAnswers(q).texts[a]}
    BY <1>7, <2>1 DEF LeadImportPart!OfOne
  <2>4. q = p
    BY <2>2, <2>3
  <2>5. \A a \in LeadImportPart!Areas : both.texts[a] \in {<<>>, LeadImportPart!MapAnswers(p).texts[a]}
    BY <1>1, <2>2, <2>3, <2>4
  <2> QED
    BY <1>1, <1>3, <2>2, <2>3, <2>4, <2>5 DEF LeadImportPart!OfOne
<1>8. both.mixed \/ (~lead.mixed /\ ~old.mixed)
  BY <1>1
<1> QED
  BY <1>1, <1>3, <1>6, <1>7, <1>8, SomebodyIsNotNull

Records(table) ==
    /\ table \in Seq(LeadImportPart!Row) /\ Len(table) <= LeadRows
    /\ \A i \in DOMAIN table : table[i].lead.name # Null /\ (table[i].lead.mixed \/ LeadImportPart!OfOne(table[i].lead))
    /\ \A i, j \in DOMAIN table :
          (i # j /\ table[i].lead.phone = table[j].lead.phone) => table[i].lead.phone = Null

\* A creation makes a record, completes one, or finds a conflict.
LEMMA CreationKeepsRecords ==
    ASSUME Records(x3), NEW lead \in LeadImportPart!Lead, lead.name # Null,
           lead.mixed \/ LeadImportPart!OfOne(lead), LeadRows \in Nat, NEW after, after = x3',
           LeadImportPart!Create(lead) \/ LeadImportPart!Complete(lead) \/ LeadImportPart!Conflict(lead)
    PROVE  Records(after)
<1> USE DEF Records
<1>1. CASE LeadImportPart!Create(lead)
  <2> DEFINE row == [lead |-> lead, stage |-> "LEAD"]
  <2>1. row \in LeadImportPart!Row /\ row.lead = lead
    BY DEF LeadImportPart!Row
  <2>2. /\ after = Append(x3, row) /\ Len(x3) < LeadRows
        /\ \A i \in DOMAIN x3 : lead.phone # Null => x3[i].lead.phone # lead.phone
    BY <1>1 DEF LeadImportPart!Create, LeadImportPart!With
  <2> HIDE DEF row
  <2>3. /\ after \in Seq(LeadImportPart!Row) /\ Len(after) = Len(x3) + 1
        /\ Len(x3) + 1 \in DOMAIN after /\ after[Len(x3) + 1] = row
        /\ \A i \in DOMAIN x3 : i \in DOMAIN after /\ after[i] = x3[i]
        /\ \A i \in DOMAIN after : i \in DOMAIN x3 \/ i = Len(x3) + 1
    BY <2>1, <2>2, Appended
  <2>4. Len(after) <= LeadRows
    BY <2>2, <2>3
  <2>5. \A i \in DOMAIN after : after[i].lead.name # Null /\ (after[i].lead.mixed \/ LeadImportPart!OfOne(after[i].lead))
    BY <2>1, <2>3
  <2>6. \A i, j \in DOMAIN after :
          (i # j /\ after[i].lead.phone = after[j].lead.phone) => after[i].lead.phone = Null
    BY <2>1, <2>2, <2>3
  <2> QED
    BY <2>3, <2>4, <2>5, <2>6
<1>2. CASE LeadImportPart!Complete(lead)
  <2>1. PICK i \in DOMAIN x3 :
          /\ lead.phone # Null /\ x3[i].lead.phone = lead.phone
          /\ after = [x3 EXCEPT ![i].lead = LeadImportPart!Completed(x3[i].lead, lead)]
    BY <1>2 DEF LeadImportPart!Complete, LeadImportPart!With
  <2> DEFINE both == LeadImportPart!Completed(x3[i].lead, lead)
  <2>2. x3[i] \in LeadImportPart!Row /\ x3[i].lead \in LeadImportPart!Lead
    <3>1. x3[i] \in LeadImportPart!Row
      OBVIOUS
    <3> QED
      BY <3>1 DEF LeadImportPart!Row
  <2>3. /\ both \in LeadImportPart!Lead /\ both.name # Null /\ both.phone = x3[i].lead.phone
        /\ both.mixed \/ LeadImportPart!OfOne(both)
    BY <2>1, <2>2, CompletedIsOfOne
  <2> HIDE DEF both
  <2>4. [x3[i] EXCEPT !.lead = both] \in LeadImportPart!Row /\ [x3[i] EXCEPT !.lead = both].lead = both
    BY <2>2, <2>3 DEF LeadImportPart!Row
  <2>5. /\ after \in Seq(LeadImportPart!Row) /\ Len(after) = Len(x3) /\ DOMAIN after = DOMAIN x3
        /\ after[i] = [x3[i] EXCEPT !.lead = both] /\ \A j \in DOMAIN x3 \ {i} : after[j] = x3[j]
    BY <2>1, <2>4 DEF both
  <2>6. \A j \in DOMAIN x3 : after[j].lead.phone = x3[j].lead.phone
    BY <2>3, <2>4, <2>5
  <2>7. \A j \in DOMAIN x3 : after[j].lead.name # Null /\ (after[j].lead.mixed \/ LeadImportPart!OfOne(after[j].lead))
    BY <2>3, <2>4, <2>5
  <2> QED
    BY <2>5, <2>6, <2>7
<1>3. CASE LeadImportPart!Conflict(lead)
  BY <1>3 DEF LeadImportPart!Conflict
<1> QED
  BY <1>1, <1>2, <1>3

\* Whose a lead is depends on the answers alone, which stay.
LEMMA OfOneStays ==
    ASSUME x1' = x1
    PROVE  \A lead : LeadImportPart!OfOne(lead) => LeadImportPart!OfOne(lead)'
BY DEF LeadImportPart!OfOne, LeadImportPart!WithCountry, LeadImportPart!Given, LeadImportPart!MapAnswers,
   LeadImportPart!Mapped

LEMMA ImportTypes ==
    ASSUME Importing
    PROVE  /\ x1 \in [Persons -> Responses] /\ x1 \in [Persons -> Seq(LeadImportPart!Answer)]
           /\ x2 \subseteq Persons /\ Records(x3)
           /\ x4 \in {Null} \cup LeadImportPart!Form /\ (x4 # Null => x5 > 0) /\ x5 \in 0..LeadForms
           /\ x6 \subseteq [form: 1..x5, lead: LeadImportPart!Lead, state: {"asked", "ok", "error"}]
           /\ x4 # Null => /\ x4.imports = 0 => x4.lead = LeadImportPart!Empty
                           /\ x4.lead.mixed \/ LeadImportPart!OfOne(x4.lead)
           /\ \A c \in x6 : c.lead.mixed \/ LeadImportPart!OfOne(c.lead)
           /\ LeadRows \in Nat /\ LeadForms \in Nat /\ LeadImports \in Nat
BY ServicesAssumption DEF Importing, LeadImportPart!TypeOK, LeadImportPart!EachOfOne, Records

\* The three places of a lead, each kept by itself.
FormIsRight(f, n) ==
    /\ f \in {Null} \cup LeadImportPart!Form /\ (f # Null => n > 0)
    /\ f # Null => /\ f.imports = 0 => f.lead = LeadImportPart!Empty
                   /\ f.lead.mixed \/ LeadImportPart!OfOne(f.lead)

CallsAreRight(calls, n) ==
    /\ calls \subseteq [form: 1..n, lead: LeadImportPart!Lead, state: {"asked", "ok", "error"}]
    /\ \A c \in calls : c.lead.mixed \/ LeadImportPart!OfOne(c.lead)

LEMMA ImportKept ==
    ASSUME Importing, x1' = x1, NEW rows, NEW form, NEW forms, NEW calls,
           rows = x3', form = x4', forms = x5', calls = x6',
           x2' \subseteq Persons, Records(rows), FormIsRight(form, forms), forms \in 0..LeadForms,
           CallsAreRight(calls, forms)
    PROVE  Importing'
<1>1. x1' \in [Persons -> Responses] /\ x1' \in [Persons -> Seq(LeadImportPart!Answer)]
  BY ImportTypes
<1>2. \A lead : LeadImportPart!OfOne(lead) => LeadImportPart!OfOne(lead)'
  BY OfOneStays
<1>3. LeadImportPart!TypeOK'
  BY <1>1 DEF LeadImportPart!TypeOK, Records, FormIsRight, CallsAreRight
<1>4. LeadImportPart!EachOfOne'
  <2>1. \A i \in DOMAIN rows : rows[i].lead.name # Null /\ (rows[i].lead.mixed \/ LeadImportPart!OfOne(rows[i].lead)')
    BY <1>2 DEF Records
  <2>2. \A c \in calls : c.lead.mixed \/ LeadImportPart!OfOne(c.lead)'
    BY <1>2 DEF CallsAreRight
  <2>3. form # Null => form.lead.mixed \/ LeadImportPart!OfOne(form.lead)'
    BY <1>2 DEF FormIsRight
  <2> QED
    BY <2>1, <2>2, <2>3 DEF LeadImportPart!EachOfOne, Records, FormIsRight
<1> QED
  BY <1>1, <1>3, <1>4 DEF Importing

\* A step that leaves a place alone keeps it.
LEMMA ImportHolds ==
    ASSUME Importing
    PROVE  Records(x3) /\ FormIsRight(x4, x5) /\ CallsAreRight(x6, x5) /\ x5 \in 0..LeadForms /\ x2 \subseteq Persons
BY ImportTypes DEF FormIsRight, CallsAreRight

LEMMA ImportedIsRight ==
    ASSUME Importing, x4 # Null, x4.imports < LeadImports, NEW p \in Persons, NEW lead,
           lead = LeadImportPart!MapAnswers(p) \/ lead = LeadImportPart!ParseRespondiHtml(p),
           NEW f, f = LeadImportPart!ApplyImported(lead)
    PROVE  FormIsRight(f, x5) /\ f \in LeadImportPart!Form /\ f.imports > 0
<1> DEFINE new == [name  |-> LeadImportPart!Or(lead.name, x4.lead.name),
                   phone |-> LeadImportPart!Or(lead.phone, x4.lead.phone),
                   texts |-> [a \in LeadImportPart!Areas |-> x4.lead.texts[a] \o lead.texts[a]],
                   mixed |-> x4.imports > 0]
<1>1. /\ x4 \in LeadImportPart!Form /\ x4.lead \in LeadImportPart!Lead /\ x4.imports \in Nat /\ x5 > 0
      /\ x4.imports = 0 => x4.lead = LeadImportPart!Empty
      /\ lead \in LeadImportPart!Lead /\ LeadImportPart!OfOne(lead)
  <2>1. x4 \in LeadImportPart!Form /\ x5 > 0 /\ (x4.imports = 0 => x4.lead = LeadImportPart!Empty)
    BY ImportTypes
  <2>2. x4.lead \in LeadImportPart!Lead /\ x4.imports \in Nat
    BY <2>1, ImportTypes DEF LeadImportPart!Form
  <2>3. lead \in LeadImportPart!Lead /\ LeadImportPart!OfOne(lead)
    BY ImportTypes, AnswersAreOfOne
  <2> QED
    BY <2>1, <2>2, <2>3
<1>2. /\ lead.name \in Persons \cup {Null} /\ lead.phone \in LeadImportPart!Numbers \cup {Null}
      /\ lead.texts \in [LeadImportPart!Areas -> Seq(Persons)]
      /\ x4.lead.name \in Persons \cup {Null} /\ x4.lead.phone \in LeadImportPart!Numbers \cup {Null}
      /\ x4.lead.texts \in [LeadImportPart!Areas -> Seq(Persons)]
  BY <1>1 DEF LeadImportPart!Lead
<1>3. new \in LeadImportPart!Lead
  <2>1. LeadImportPart!Or(lead.name, x4.lead.name) \in Persons \cup {Null}
    BY <1>2 DEF LeadImportPart!Or
  <2>2. LeadImportPart!Or(lead.phone, x4.lead.phone) \in LeadImportPart!Numbers \cup {Null}
    BY <1>2 DEF LeadImportPart!Or
  <2>3. [a \in LeadImportPart!Areas |-> x4.lead.texts[a] \o lead.texts[a]] \in [LeadImportPart!Areas -> Seq(Persons)]
    BY <1>2
  <2>4. (x4.imports > 0) \in BOOLEAN
    OBVIOUS
  <2> QED
    BY <2>1, <2>2, <2>3, <2>4 DEF LeadImportPart!Lead
<1>4. new.mixed \/ LeadImportPart!OfOne(new)
  <2>1. CASE x4.imports > 0
    BY <2>1
  <2>2. CASE x4.imports = 0
    <3>1. x4.lead = LeadImportPart!Empty
      BY <1>1, <2>2
    <3>2. new.name = lead.name
      BY <3>1, <1>2 DEF LeadImportPart!Empty, LeadImportPart!Or
    <3>3. new.phone = lead.phone
      BY <3>1, <1>2 DEF LeadImportPart!Empty, LeadImportPart!Or
    <3>4. \A a \in LeadImportPart!Areas : new.texts[a] = lead.texts[a]
      BY <3>1, <1>2 DEF LeadImportPart!Empty
    <3>5. new.mixed = FALSE
      <4>1. (x4.imports > 0) = FALSE
        BY <2>2
      <4> QED
        BY <4>1, Zenon
    <3>6. CASE lead = LeadImportPart!Empty
      <4>1. new.texts = [a \in LeadImportPart!Areas |-> <<>>]
        BY <3>4, <3>6 DEF LeadImportPart!Empty
      <4>2. new = LeadImportPart!Empty
        BY <3>2, <3>3, <3>5, <3>6, <4>1 DEF LeadImportPart!Empty
      <4> QED
        BY <4>2 DEF LeadImportPart!OfOne
    <3>7. CASE lead # LeadImportPart!Empty
      <4> HIDE DEF new
      <4> QED
        BY <1>1, <3>2, <3>3, <3>4, <3>7 DEF LeadImportPart!OfOne
    <3> QED
      BY <3>6, <3>7
  <2> QED
    BY <1>1, <2>1, <2>2
<1>5. f = [x4 EXCEPT !.imports = @ + 1, !.lead = new]
  BY DEF LeadImportPart!ApplyImported
<1> HIDE DEF new
<1>6. /\ x4.imports + 1 \in 0..LeadImports /\ x4.imports + 1 > 0
  BY <1>1, ImportTypes
<1>7. f \in LeadImportPart!Form /\ f.imports = x4.imports + 1 /\ f.lead = new
  BY <1>1, <1>3, <1>5, <1>6 DEF LeadImportPart!Form
<1> QED
  BY <1>1, <1>4, <1>6, <1>7 DEF FormIsRight

LEMMA FormSteps ==
    ASSUME Importing,
           \/ LeadImportPart!OpenForm \/ LeadImportPart!Close \/ LeadImportPart!UrlFails
           \/ \E p \in Persons : LeadImportPart!AskUrl(p)
    PROVE  Importing'
<1> USE ImportHolds, ImportKept, SomebodyIsNotNull
<1>1. CASE LeadImportPart!OpenForm
  <2> DEFINE f == [lead |-> LeadImportPart!Empty, imports |-> 0, importing |-> Null, submitting |-> FALSE]
  <2>1. /\ x4 = Null /\ x5 < LeadForms /\ x5' = x5 + 1 /\ x4' = f
        /\ UNCHANGED <<x1, x2, x3, x6>>
    BY <1>1 DEF LeadImportPart!OpenForm
  <2>2. f \in LeadImportPart!Form /\ f.lead = LeadImportPart!Empty
    BY EmptyIsALead, ImportTypes DEF LeadImportPart!Form
  <2> HIDE DEF f
  <2>3. LeadImportPart!OfOne(LeadImportPart!Empty)
    BY DEF LeadImportPart!OfOne
  <2>4. x5' \in 0..LeadForms /\ x5' > 0
    BY <2>1, ImportTypes
  <2>5. FormIsRight(x4', x5')
    BY <2>1, <2>2, <2>3, <2>4 DEF FormIsRight
  <2>6. CallsAreRight(x6', x5')
    <3>1. 1..x5 \subseteq 1..x5'
      BY <2>1, ImportTypes
    <3> QED
      BY <2>1, <3>1 DEF CallsAreRight
  <2> QED
    BY <2>1, <2>4, <2>5, <2>6
<1>2. CASE LeadImportPart!Close
  <2>1. FormIsRight(x4', x5')
    BY <1>2 DEF LeadImportPart!Close, FormIsRight
  <2> QED
    BY <1>2, <2>1 DEF LeadImportPart!Close
<1>3. ASSUME NEW q \in Persons \cup {Null}, x4 # Null, x4' = [x4 EXCEPT !.importing = q],
             UNCHANGED <<x1, x2, x3, x5, x6>>
      PROVE  Importing'
  <2>1. x4 \in LeadImportPart!Form
    BY <1>3, ImportTypes
  <2>2. x4' \in LeadImportPart!Form /\ x4'.lead = x4.lead /\ x4'.imports = x4.imports
    BY <1>3, <2>1 DEF LeadImportPart!Form
  <2>3. FormIsRight(x4', x5')
    BY <1>3, <2>2 DEF FormIsRight
  <2> QED
    BY <1>3, <2>3
<1>4. CASE LeadImportPart!UrlFails
  BY <1>3, <1>4 DEF LeadImportPart!UrlFails
<1>5. CASE \E p \in Persons : LeadImportPart!AskUrl(p)
  BY <1>3, <1>5 DEF LeadImportPart!AskUrl
<1> QED
  BY <1>1, <1>2, <1>4, <1>5

LEMMA ImportsStep ==
    ASSUME Importing, LeadImportPart!UrlArrives \/ \E p \in Persons : LeadImportPart!ImportHtml(p)
    PROVE  Importing'
<1> USE ImportHolds, ImportKept, SomebodyIsNotNull
<1>1. CASE LeadImportPart!UrlArrives
  <2>1. /\ x4 # Null /\ x4.importing # Null /\ x4.imports < LeadImports /\ UNCHANGED <<x1, x2, x3, x5, x6>>
        /\ x4' = [LeadImportPart!ApplyImported(LeadImportPart!MapAnswers(x4.importing)) EXCEPT !.importing = Null]
    BY <1>1 DEF LeadImportPart!UrlArrives
  <2>2. x4 \in LeadImportPart!Form
    BY <2>1, ImportTypes
  <2>3. x4.importing \in Persons
    BY <2>1, <2>2 DEF LeadImportPart!Form
  <2> DEFINE f == LeadImportPart!ApplyImported(LeadImportPart!MapAnswers(x4.importing))
  <2>4. FormIsRight(f, x5) /\ f \in LeadImportPart!Form
    BY <2>1, <2>3, ImportedIsRight
  <2> HIDE DEF f
  <2>5. x4' = [f EXCEPT !.importing = Null]
    BY <2>1 DEF f
  <2>6. x4' \in LeadImportPart!Form /\ x4'.lead = f.lead /\ x4'.imports = f.imports
    BY <2>4, <2>5 DEF LeadImportPart!Form
  <2>7. FormIsRight(x4', x5')
    BY <2>1, <2>4, <2>6 DEF FormIsRight
  <2> QED
    BY <2>1, <2>7
<1>2. ASSUME NEW p \in Persons, LeadImportPart!ImportHtml(p)
      PROVE  Importing'
  <2>1. /\ x4 # Null /\ x4.imports < LeadImports /\ UNCHANGED <<x1, x2, x3, x5, x6>>
        /\ x4' = LeadImportPart!ApplyImported(LeadImportPart!ParseRespondiHtml(p))
    BY <1>2 DEF LeadImportPart!ImportHtml
  <2>2. FormIsRight(x4', x5')
    BY <2>1, ImportedIsRight
  <2> QED
    BY <2>1, <2>2
<1> QED
  BY <1>1, <1>2

LEMMA RecordsStep ==
    ASSUME Importing,
           \/ \E p \in Persons : LeadImportPart!HandleWebhook(p) \/ LeadImportPart!Message(p)
           \/ \E i \in DOMAIN x3 : LeadImportPart!AdvanceToPipeline(i)
    PROVE  Importing'
<1> USE ImportHolds, ImportKept, SomebodyIsNotNull, ImportTypes
<1>1. ASSUME NEW p \in Persons, LeadImportPart!HandleWebhook(p)
      PROVE  Importing'
  <2> DEFINE lead == LeadImportPart!MapAnswers(p)
  <2>1. lead \in LeadImportPart!Lead /\ LeadImportPart!OfOne(lead)
    BY AnswersAreOfOne
  <2>2. UNCHANGED <<x1, x4, x5, x6>> /\ x2' \subseteq Persons
    BY <1>1 DEF LeadImportPart!HandleWebhook
  <2>3. \/ x3' = x3
        \/ /\ lead.name # Null
           /\ LeadImportPart!Create(lead) \/ LeadImportPart!Complete(lead) \/ LeadImportPart!Conflict(lead)
    BY <1>1 DEF LeadImportPart!HandleWebhook
  <2>4. Records(x3')
    BY <2>1, <2>3, CreationKeepsRecords
  <2> QED
    BY <2>2, <2>4
<1>2. ASSUME NEW p \in Persons, LeadImportPart!Message(p)
      PROVE  Importing'
  <2> DEFINE number == [of |-> p, form |-> "right"]
             lead == [LeadImportPart!Empty EXCEPT !.name = p, !.phone = number]
  <2>1. number \in LeadImportPart!Numbers
    BY DEF LeadImportPart!Numbers
  <2>2. lead \in LeadImportPart!Lead /\ lead.name = p /\ lead.phone = number
        /\ \A a \in LeadImportPart!Areas : lead.texts[a] = <<>>
    BY <2>1, EmptyIsALead DEF LeadImportPart!Lead, LeadImportPart!Empty
  <2>4. UNCHANGED <<x1, x2, x4, x5, x6>> /\ LeadImportPart!Create(lead)
    BY <1>2 DEF LeadImportPart!Message
  <2> HIDE DEF lead
  <2>3. LeadImportPart!OfOne(lead)
    <3>1. number.of = p
      OBVIOUS
    <3> QED
      BY <2>2, <3>1 DEF LeadImportPart!OfOne
  <2>5. Records(x3')
    BY <2>2, <2>3, <2>4, CreationKeepsRecords
  <2> QED
    BY <2>4, <2>5
<1>3. ASSUME NEW i \in DOMAIN x3, LeadImportPart!AdvanceToPipeline(i)
      PROVE  Importing'
  <2>1. x3' = [x3 EXCEPT ![i].stage = "FURTHER"] /\ UNCHANGED <<x1, x2, x4, x5, x6>>
    BY <1>3 DEF LeadImportPart!AdvanceToPipeline
  <2>2. x3 \in Seq(LeadImportPart!Row) /\ x3[i] \in LeadImportPart!Row
    BY DEF Records
  <2>3. [x3[i] EXCEPT !.stage = "FURTHER"] \in LeadImportPart!Row /\ [x3[i] EXCEPT !.stage = "FURTHER"].lead = x3[i].lead
    BY <2>2 DEF LeadImportPart!Row
  <2>4. /\ x3' \in Seq(LeadImportPart!Row) /\ Len(x3') = Len(x3) /\ DOMAIN x3' = DOMAIN x3
        /\ \A j \in DOMAIN x3 : x3'[j].lead = x3[j].lead
    BY <2>1, <2>2, <2>3
  <2>5. Records(x3')
    BY <2>4 DEF Records
  <2> QED
    BY <2>1, <2>5
<1> QED
  BY <1>1, <1>2, <1>3

LEMMA CallsStep ==
    ASSUME Importing,
           \/ LeadImportPart!HandleSubmit
           \/ \E c \in x6 : LeadImportPart!Serve(c) \/ LeadImportPart!Arrive(c) \/ LeadImportPart!Lost(c)
    PROVE  Importing'
<1> USE ImportHolds, ImportKept, SomebodyIsNotNull, ImportTypes
<1>0. ASSUME NEW b \in BOOLEAN, x4 # Null, NEW f, f = [x4 EXCEPT !.submitting = b]
      PROVE  FormIsRight(f, x5)
  <2>1. f \in LeadImportPart!Form /\ f.lead = x4.lead /\ f.imports = x4.imports
    BY <1>0 DEF LeadImportPart!Form
  <2> QED
    BY <1>0, <2>1 DEF FormIsRight
<1>1. CASE LeadImportPart!HandleSubmit
  <2> DEFINE asked == [form |-> x5, lead |-> x4.lead, state |-> "asked"]
  <2>1. /\ x4 # Null /\ x6' = x6 \cup {asked} /\ UNCHANGED <<x1, x2, x3, x5>>
        /\ x4' = [x4 EXCEPT !.submitting = TRUE]
    BY <1>1 DEF LeadImportPart!HandleSubmit
  <2>2. x4.lead \in LeadImportPart!Lead /\ x5 \in 1..x5
    BY <2>1 DEF LeadImportPart!Form
  <2>3. asked \in [form: 1..x5, lead: LeadImportPart!Lead, state: {"asked", "ok", "error"}] /\ asked.lead = x4.lead
    BY <2>2
  <2> HIDE DEF asked
  <2>4. CallsAreRight(x6', x5')
    BY <2>1, <2>3 DEF CallsAreRight
  <2>5. FormIsRight(x4', x5')
    BY <1>0, <2>1
  <2> QED
    BY <2>1, <2>4, <2>5
<1>2. ASSUME NEW c \in x6, LeadImportPart!Serve(c)
      PROVE  Importing'
  <2>1. PICK s \in {"ok", "error"} : x6' = (x6 \ {c}) \cup {[c EXCEPT !.state = s]}
    BY <1>2 DEF LeadImportPart!Serve, LeadImportPart!Becomes
  <2>2. [c EXCEPT !.state = s] \in [form: 1..x5, lead: LeadImportPart!Lead, state: {"asked", "ok", "error"}]
        /\ [c EXCEPT !.state = s].lead = c.lead
    OBVIOUS
  <2>3. UNCHANGED <<x1, x2, x4, x5>>
    BY <1>2 DEF LeadImportPart!Serve
  <2>4. CallsAreRight(x6', x5')
    BY <2>1, <2>2, <2>3 DEF CallsAreRight
  <2>5. \/ x3' = x3
        \/ c.lead.name # Null /\ (LeadImportPart!Create(c.lead) \/ LeadImportPart!Complete(c.lead) \/ LeadImportPart!Conflict(c.lead))
    BY <1>2 DEF LeadImportPart!Serve, LeadImportPart!Valid
  <2>6. c.lead \in LeadImportPart!Lead /\ (c.lead.mixed \/ LeadImportPart!OfOne(c.lead))
    OBVIOUS
  <2>7. Records(x3')
    BY <2>5, <2>6, CreationKeepsRecords
  <2> QED
    BY <2>3, <2>4, <2>7
<1>3. ASSUME NEW c \in x6, NEW ok \in BOOLEAN, LeadImportPart!Ends(c, ok)
      PROVE  Importing'
  <2>1. /\ x6' = x6 \ {c} /\ UNCHANGED <<x1, x2, x3, x5>>
        /\ x4' = x4 \/ x4' = Null \/ (x4 # Null /\ x4' = [x4 EXCEPT !.submitting = FALSE])
    BY <1>3 DEF LeadImportPart!Ends
  <2>2. FormIsRight(x4', x5')
    BY <1>0, <2>1 DEF FormIsRight
  <2>3. CallsAreRight(x6', x5')
    BY <2>1 DEF CallsAreRight
  <2> QED
    BY <2>1, <2>2, <2>3
<1>4. ASSUME NEW c \in x6, LeadImportPart!Arrive(c) \/ LeadImportPart!Lost(c)
      PROVE  Importing'
  <2>1. (c.state = "ok") \in BOOLEAN
    OBVIOUS
  <2> QED
    BY <1>3, <1>4, <2>1 DEF LeadImportPart!Arrive, LeadImportPart!Lost
<1> QED
  BY <1>1, <1>2, <1>4

LEMMA ImportStep ==
    ASSUME Importing, [LeadImportPart!Next]_(LeadImportPart!vars)
    PROVE  Importing'
<1>1. CASE UNCHANGED LeadImportPart!vars
  BY <1>1, ImportHolds, ImportKept DEF LeadImportPart!vars
<1>2. CASE LeadImportPart!Next
  BY <1>2, FormSteps, ImportsStep, RecordsStep, CallsStep DEF LeadImportPart!Next
<1> QED
  BY <1>1, <1>2

\* Who gives her number with its country has one record, with what she answered, however
\* she comes to the CRM; one form that took two imports apart.
THEOREM APersonHasOneRecord == ServicesSpec => []OnePersonOneRecord
<1> DEFINE I == part = "import" => Importing
<1>1. ServicesInit => I
  <2> SUFFICES ASSUME ServicesInit, part = "import"
               PROVE  Importing
    OBVIOUS
  <2>1. LeadImportPart!Init
    BY PartsBegin
  <2>2. LeadImportPart!TypeOK
    BY <2>1, ServicesAssumption, ResponsesAssumption DEF LeadImportPart!Init, LeadImportPart!TypeOK
  <2>3. LeadImportPart!EachOfOne
    BY <2>1 DEF LeadImportPart!Init, LeadImportPart!EachOfOne
  <2> QED
    BY <2>1, <2>2, <2>3 DEF Importing, LeadImportPart!Init
<1>2. I /\ [ServicesNext]_registers => I'
  BY PartSteps, ImportStep
<1>3. I => OnePersonOneRecord
  <2> SUFFICES ASSUME Importing
               PROVE  LeadImportPart!OnePersonOneRecord
    BY DEF OnePersonOneRecord
  <2>1. ASSUME NEW i \in DOMAIN x3, ~x3[i].lead.mixed
        PROVE  /\ x3[i].lead.name \in Persons
               /\ LeadImportPart!WithCountry(x3[i].lead.name) =>
                     x3[i].lead.phone = [of |-> x3[i].lead.name, form |-> "right"]
               /\ \A a \in LeadImportPart!Areas :
                     x3[i].lead.texts[a] \in {<<>>, LeadImportPart!MapAnswers(x3[i].lead.name).texts[a]}
    <3>1. x3[i].lead.name # Null /\ LeadImportPart!OfOne(x3[i].lead)
      BY <2>1, ImportTypes DEF Records
    <3>2. x3[i].lead # LeadImportPart!Empty
      BY <3>1 DEF LeadImportPart!Empty
    <3> QED
      BY <3>1, <3>2 DEF LeadImportPart!OfOne
  <2>2. ASSUME NEW i \in DOMAIN x3, NEW j \in DOMAIN x3, i # j, x3[i].lead.name = x3[j].lead.name,
               LeadImportPart!WithCountry(x3[i].lead.name)
        PROVE  x3[i].lead.mixed \/ x3[j].lead.mixed
    <3> SUFFICES ASSUME ~x3[i].lead.mixed, ~x3[j].lead.mixed
                 PROVE  FALSE
      OBVIOUS
    <3>1. /\ x3[i].lead.phone = [of |-> x3[i].lead.name, form |-> "right"] /\ x3[j].lead.phone = x3[i].lead.phone
          /\ x3[i].lead.name \in Persons
      BY <2>1, <2>2
    <3>2. x3[i].lead.phone = Null
      BY <2>2, <3>1, ImportTypes DEF Records
    <3> QED
      BY <3>1, <3>2, SomebodyIsNotNull DEF LeadImportPart!Numbers
  <2> QED
    BY <2>1, <2>2 DEF LeadImportPart!OnePersonOneRecord
<1> QED
  BY <1>1, <1>2, <1>3, PTL DEF ServicesSpec
-----------------------------------------------------------------------------
(* Breaker: failures is x1, opened x2, call x3, up x4, begun x5            *)

Hammering == BreakerPart!TypeOK /\ BreakerPart!EachBegunCounts

\* The smaller of two.
LEMMA SmallerOfTwo ==
    ASSUME NEW a \in Int, NEW b \in Int
    PROVE  BreakerPart!Min({a, b}) = IF a <= b THEN a ELSE b
<1>1. \E m \in {a, b} : \A n \in {a, b} : m <= n
  OBVIOUS
<1> QED
  BY <1>1 DEF BreakerPart!Min

\* The cardinality that the part uses is that of FiniteSets.
LEMMA SameCardinality ==
    ASSUME NEW S
    PROVE  BreakerPart!Cardinality(S) = Cardinality(S)
BY DEF BreakerPart!Cardinality, Cardinality

\* How many upserts are under way: one more where a caller begins one, one fewer where
\* one ends, and never more than there are callers.
LEMMA UnderWay ==
    ASSUME BreakerPart!TypeOK
    PROVE  /\ BreakerPart!Cardinality(BreakerPart!Upserts) \in Nat
           /\ BreakerPart!Cardinality(Callers) \in Nat
           /\ BreakerPart!Cardinality(BreakerPart!Upserts) <= BreakerPart!Cardinality(Callers)
           /\ \A c \in Callers \ BreakerPart!Upserts :
                 BreakerPart!Cardinality(BreakerPart!Upserts \cup {c}) = BreakerPart!Cardinality(BreakerPart!Upserts) + 1
           /\ \A c \in BreakerPart!Upserts :
                 BreakerPart!Cardinality(BreakerPart!Upserts \ {c}) = BreakerPart!Cardinality(BreakerPart!Upserts) - 1
<1>1. BreakerPart!Upserts \subseteq Callers /\ IsFiniteSet(Callers) /\ IsFiniteSet(BreakerPart!Upserts)
  BY ServicesAssumption, FS_Subset DEF BreakerPart!Upserts
<1>2. Cardinality(BreakerPart!Upserts) \in Nat /\ Cardinality(Callers) \in Nat
      /\ Cardinality(BreakerPart!Upserts) <= Cardinality(Callers)
  BY <1>1, FS_CardinalityType, FS_Subset
<1>3. \A c \in Callers \ BreakerPart!Upserts :
         Cardinality(BreakerPart!Upserts \cup {c}) = Cardinality(BreakerPart!Upserts) + 1
  BY <1>1, FS_AddElement
<1>4. \A c \in BreakerPart!Upserts :
         Cardinality(BreakerPart!Upserts \ {c}) = Cardinality(BreakerPart!Upserts) - 1
  BY <1>1, FS_RemoveElement
<1> QED
  BY <1>2, <1>3, <1>4, SameCardinality

\* The upserts under way after a step of a caller.
LEMMA UpsertsThen ==
    ASSUME BreakerPart!TypeOK, NEW c \in Callers, NEW k \in {"no", "upsert", "delete"},
           x3' = [x3 EXCEPT ![c] = k]
    PROVE  /\ BreakerPart!Upserts' = IF k = "upsert" THEN BreakerPart!Upserts \cup {c} ELSE BreakerPart!Upserts \ {c}
           /\ c \in BreakerPart!Upserts <=> x3[c] = "upsert"
           /\ x3' \in [Callers -> {"no", "upsert", "delete"}]
BY DEF BreakerPart!TypeOK, BreakerPart!Upserts

\* What is remembered of the upserts that began.
LEMMA Remembered ==
    ASSUME Hammering
    PROVE  /\ x5 \in [0..(ResetTicks - 1) -> Nat] /\ BreakerPart!Recent = x5[ResetTicks - 1]
           /\ x5[ResetTicks - 1] \in Nat
           /\ \A age \in 0..(ResetTicks - 1) : age + 1 \in 0..(ResetTicks - 1) => x5[age] <= x5[age + 1]
           /\ x1 \in 0..FailureThreshold /\ x2 \in -1..ResetTicks
           /\ x3 \in [Callers -> {"no", "upsert", "delete"}] /\ x4 \in BOOLEAN
           /\ x2 = -1 => /\ x1 < FailureThreshold
                         /\ x5[ResetTicks - 1] <= x1 + BreakerPart!Cardinality(BreakerPart!Upserts)
           /\ x2 # -1 => \A age \in 0..(ResetTicks - 1) : age < x2 => x5[age] = 0
           /\ x5[ResetTicks - 1] <= FailureThreshold + BreakerPart!Cardinality(Callers) - 1
<1>1. x5 \in [0..(ResetTicks - 1) -> Nat] /\ x1 \in 0..FailureThreshold /\ x2 \in (0..ResetTicks) \cup {-1}
  BY DEF Hammering, BreakerPart!TypeOK, BreakerPart!Open, BreakerPart!Closed
<1>2. ResetTicks - 1 \in 0..(ResetTicks - 1) /\ BreakerPart!Recent = x5[ResetTicks - 1]
  BY ServicesAssumption DEF BreakerPart!Recent
<1>3. DOMAIN x5 = 0..(ResetTicks - 1)
  BY <1>1
<1>4. x2 \in -1..ResetTicks
  BY <1>1, ServicesAssumption
<1> QED
  BY <1>1, <1>2, <1>3, <1>4 DEF Hammering, BreakerPart!TypeOK, BreakerPart!EachBegunCounts, BreakerPart!Closed

LEMMA RememberedThen ==
    ASSUME x5' \in [0..(ResetTicks - 1) -> Nat],
           \A age \in 0..(ResetTicks - 1) : age + 1 \in 0..(ResetTicks - 1) => x5'[age] <= x5'[age + 1],
           x1' \in 0..FailureThreshold, x2' \in -1..ResetTicks,
           x3' \in [Callers -> {"no", "upsert", "delete"}], x4' \in BOOLEAN,
           x2' = -1 => /\ x1' < FailureThreshold
                       /\ x5'[ResetTicks - 1] <= x1' + BreakerPart!Cardinality(BreakerPart!Upserts'),
           x2' # -1 => \A age \in 0..(ResetTicks - 1) : age < x2' => x5'[age] = 0,
           x5'[ResetTicks - 1] <= FailureThreshold + BreakerPart!Cardinality(Callers) - 1
    PROVE  Hammering'
<1>1. x2' \in (0..ResetTicks) \cup {-1} /\ DOMAIN x5' = 0..(ResetTicks - 1)
  BY ServicesAssumption
<1>2. BreakerPart!TypeOK'
  BY <1>1 DEF BreakerPart!TypeOK, BreakerPart!Open, BreakerPart!Closed
<1>3. BreakerPart!EachBegunCounts'
  BY <1>1 DEF BreakerPart!EachBegunCounts, BreakerPart!Recent, BreakerPart!Closed
<1> QED
  BY <1>2, <1>3 DEF Hammering

LEMMA BreakerStep ==
    ASSUME Hammering, [BreakerPart!Next]_(BreakerPart!vars)
    PROVE  Hammering'
<1> USE DEF BreakerPart!Closed
<1> DEFINE n == BreakerPart!Cardinality(BreakerPart!Upserts)
           all == BreakerPart!Cardinality(Callers)
           last == ResetTicks - 1
<1>0. BreakerPart!TypeOK /\ n \in Nat /\ all \in Nat /\ n <= all
  BY UnderWay DEF Hammering
<1>a. FailureThreshold \in Nat /\ FailureThreshold > 0 /\ ResetTicks \in Nat /\ last \in Nat /\ ResetTicks = last + 1
  BY ServicesAssumption
<1>1. ASSUME NEW c \in Callers, BreakerPart!BeginUpsert(c)
      PROVE  Hammering'
  <2>1. /\ x3[c] = "no" /\ ~(x2 # -1 /\ x2 < ResetTicks)
        /\ x2' = -1 /\ x1' = (IF x2 = ResetTicks THEN 0 ELSE x1) /\ x4' = x4
        /\ x3' = [x3 EXCEPT ![c] = "upsert"]
        /\ x5' = [age \in DOMAIN x5 |-> x5[age] + 1]
    BY <1>1, Remembered DEF BreakerPart!BeginUpsert, BreakerPart!IsOpen, BreakerPart!HalfOpen
  <2>2. /\ x5' \in [0..last -> Nat] /\ x5'[last] = x5[last] + 1
        /\ \A age \in 0..last : age + 1 \in 0..last => x5'[age] <= x5'[age + 1]
    BY <1>a, <2>1, Remembered
  <2>3. x2 = -1 \/ x2 = ResetTicks
    BY <1>a, <2>1, Remembered
  <2>4. x3' \in [Callers -> {"no", "upsert", "delete"}] /\ BreakerPart!Cardinality(BreakerPart!Upserts') = n + 1
    <3>1. BreakerPart!Upserts' = BreakerPart!Upserts \cup {c} /\ c \notin BreakerPart!Upserts
      BY <1>0, <2>1, UpsertsThen
    <3> QED
      BY <1>0, <2>1, <3>1, UpsertsThen, UnderWay
  <2>5. n + 1 <= all
    <3>1. BreakerPart!Upserts' \subseteq Callers /\ IsFiniteSet(Callers)
      BY ServicesAssumption DEF BreakerPart!Upserts
    <3>2. Cardinality(BreakerPart!Upserts') <= Cardinality(Callers)
      BY <3>1, FS_Subset
    <3> QED
      BY <2>4, <3>2, SameCardinality
  <2>6. x1' \in 0..(FailureThreshold - 1) /\ x5'[last] <= x1' + (n + 1)
    <3>1. CASE x2 = -1
      <4>1. x1' = x1 /\ x1 \in Nat /\ x1 < FailureThreshold /\ x5[last] \in Nat /\ x5[last] <= x1 + n
        BY <1>a, <2>1, <3>1, Remembered
      <4>2. x5'[last] = x5[last] + 1
        BY <2>2
      <4> HIDE DEF n, last
      <4> QED
        BY <1>0, <1>a, <4>1, <4>2
    <3>2. CASE x2 = ResetTicks
      <4>1. x5[last] = 0 /\ x1' = 0
        BY <1>a, <2>1, <3>2, Remembered
      <4> QED
        BY <1>0, <1>a, <2>2, <4>1
    <3> QED
      BY <2>3, <3>1, <3>2
  <2>7. x1' \in 0..FailureThreshold /\ x1' < FailureThreshold
    BY <1>a, <2>6
  <2>8. x5'[last] <= FailureThreshold + all - 1
    <3>1. x5'[last] \in Nat /\ x1' \in Nat
      BY <1>a, <2>2, <2>6
    <3> HIDE DEF n, all, last
    <3> QED
      BY <1>0, <1>a, <2>5, <2>6, <2>7, <3>1
  <2>9. x2' \in -1..ResetTicks
    BY <1>a, <2>1
  <2> QED
    BY <2>1, <2>2, <2>4, <2>6, <2>7, <2>8, <2>9, Remembered, RememberedThen
<1>2. ASSUME NEW c \in Callers, BreakerPart!BeginDelete(c)
      PROVE  Hammering'
  <2>1. /\ x3[c] = "no" /\ x3' = [x3 EXCEPT ![c] = "delete"] /\ UNCHANGED <<x1, x2, x4, x5>>
    BY <1>2 DEF BreakerPart!BeginDelete
  <2>2. BreakerPart!Upserts' = BreakerPart!Upserts /\ x3' \in [Callers -> {"no", "upsert", "delete"}]
    <3>1. x3' = [x3 EXCEPT ![c] = "delete"] /\ x3[c] # "upsert" /\ "delete" # "upsert"
      BY <2>1
    <3>2. /\ BreakerPart!Upserts' = BreakerPart!Upserts \ {c} /\ c \notin BreakerPart!Upserts
          /\ x3' \in [Callers -> {"no", "upsert", "delete"}]
      BY ONLY <1>0, <1>2, <3>1, UpsertsThen
    <3> QED
      BY <3>2
  <2> QED
    BY <2>1, <2>2, Remembered, RememberedThen
<1>3. ASSUME NEW c \in Callers, BreakerPart!RecordSuccess(c)
      PROVE  Hammering'
  <2>1. /\ x3' = [x3 EXCEPT ![c] = "no"] /\ x1' = 0 /\ x2' = -1 /\ x4' = x4
        /\ x5' = [age \in 0..last |-> 0]
    BY <1>3 DEF BreakerPart!RecordSuccess, BreakerPart!Forgotten
  <2>2. x5' \in [0..last -> Nat] /\ \A age \in 0..last : x5'[age] = 0
    BY <2>1
  <2>3. x3' \in [Callers -> {"no", "upsert", "delete"}]
    BY <1>0, <2>1, UpsertsThen
  <2>4. BreakerPart!Cardinality(BreakerPart!Upserts') \in Nat
    <3>1. IsFiniteSet(BreakerPart!Upserts')
      BY ServicesAssumption, FS_Subset DEF BreakerPart!Upserts
    <3> QED
      BY <3>1, FS_CardinalityType, SameCardinality
  <2>5. /\ x1' \in 0..FailureThreshold /\ x2' \in -1..ResetTicks /\ x1' < FailureThreshold
        /\ x5'[last] = 0 /\ 0 <= FailureThreshold + all - 1
    BY <1>0, <1>a, <2>1, <2>2
  <2>6. \A age \in 0..last : age + 1 \in 0..last => x5'[age] <= x5'[age + 1]
    BY <2>2
  <2>7. 0 <= x1' + BreakerPart!Cardinality(BreakerPart!Upserts')
    BY <2>1, <2>4
  <2> QED
    BY <2>1, <2>2, <2>3, <2>5, <2>6, <2>7, Remembered, RememberedThen
<1>4. ASSUME NEW c \in Callers, BreakerPart!RecordFailure(c)
      PROVE  Hammering'
  <2>1. /\ x3[c] # "no" /\ x3' = [x3 EXCEPT ![c] = "no"] /\ UNCHANGED <<x4, x5>>
        /\ x1' = (IF x1 + 1 <= FailureThreshold THEN x1 + 1 ELSE FailureThreshold)
        /\ x2' = (IF x1 + 1 >= FailureThreshold THEN 0 ELSE x2)
    <3>1. x1 + 1 \in Int /\ FailureThreshold \in Int
      BY <1>a, Remembered
    <3>2. BreakerPart!Min({x1 + 1, FailureThreshold})
             = IF x1 + 1 <= FailureThreshold THEN x1 + 1 ELSE FailureThreshold
      BY <3>1, SmallerOfTwo
    <3> QED
      BY <1>4, <3>2 DEF BreakerPart!RecordFailure, BreakerPart!Opens
  <2>2. /\ BreakerPart!Cardinality(BreakerPart!Upserts') \in {n, n - 1}
        /\ x3' \in [Callers -> {"no", "upsert", "delete"}]
    <3>1. BreakerPart!Upserts' = BreakerPart!Upserts \ {c} /\ x3' \in [Callers -> {"no", "upsert", "delete"}]
      <4>1. x3' = [x3 EXCEPT ![c] = "no"] /\ "no" # "upsert"
        BY <2>1
      <4> QED
        BY ONLY <1>0, <1>4, <4>1, UpsertsThen
    <3>2. CASE c \in BreakerPart!Upserts
      BY <1>0, <3>1, <3>2, UnderWay
    <3>3. CASE c \notin BreakerPart!Upserts
      BY <3>1, <3>3
    <3> QED
      BY <3>1, <3>2, <3>3
  <2>3. x2' = -1 => /\ x1' < FailureThreshold
                    /\ x5'[last] <= x1' + BreakerPart!Cardinality(BreakerPart!Upserts')
    <3>1. x1 \in Nat /\ x5[last] \in Nat
      BY <1>a, Remembered
    <3> QED
      BY <1>0, <1>a, <2>1, <2>2, <3>1, Remembered
  <2>4. /\ x1' \in 0..FailureThreshold /\ x2' \in -1..ResetTicks
        /\ x2' # -1 => \A age \in 0..last : age < x2' => x5'[age] = 0
    <3>1. x2' = 0 \/ x2' = x2
      BY <2>1
    <3>2. x1' \in 0..FailureThreshold /\ x2' \in -1..ResetTicks
      BY <1>a, <2>1, Remembered
    <3>3. x2' # -1 => \A age \in 0..last : age < x2' => x5'[age] = 0
      BY <2>1, <3>1, Remembered
    <3> QED
      BY <3>2, <3>3
  <2> HIDE DEF n, last
  <2>5. ResetTicks - 1 = last
    BY DEF last
  <2> QED
    BY <2>1, <2>2, <2>3, <2>4, <2>5, Remembered, RememberedThen
<1>5. CASE BreakerPart!Outage
  <2>1. UNCHANGED <<x1, x2, x3, x5>> /\ x4' \in BOOLEAN
    BY <1>5, Remembered DEF BreakerPart!Outage
  <2>2. BreakerPart!Upserts' = BreakerPart!Upserts
    BY <2>1 DEF BreakerPart!Upserts
  <2> QED
    BY <2>1, <2>2, Remembered, RememberedThen
<1>6. CASE BreakerPart!Tick
  <2>1. /\ UNCHANGED <<x1, x3, x4>>
        /\ x2' = (IF x2 = -1 THEN -1 ELSE IF x2 + 1 <= ResetTicks THEN x2 + 1 ELSE ResetTicks)
        /\ x5' = [age \in 0..last |-> IF age = 0 THEN 0 ELSE x5[age - 1]]
    <3>1. x2 + 1 \in Int /\ ResetTicks \in Int /\ DOMAIN x5 = 0..last
      BY <1>a, Remembered
    <3>2. BreakerPart!Min({x2 + 1, ResetTicks}) = IF x2 + 1 <= ResetTicks THEN x2 + 1 ELSE ResetTicks
      BY <3>1, SmallerOfTwo
    <3> QED
      BY <1>6, <3>1, <3>2 DEF BreakerPart!Tick
  <2>2. \A age \in 0..last : age # 0 => age - 1 \in 0..last /\ x5'[age] = x5[age - 1] /\ x5[age - 1] \in Nat
    <3>1. \A age \in 0..last : age # 0 => age - 1 \in 0..last
      BY <1>a
    <3> QED
      BY <2>1, <3>1, Remembered
  <2>3. x5' \in [0..last -> Nat] /\ x5'[0] = 0
    BY <1>a, <2>1, <2>2
  <2>4. \A age \in 0..last : age + 1 \in 0..last => x5'[age] <= x5'[age + 1]
    <3> TAKE age \in 0..last
    <3> HAVE age + 1 \in 0..last
    <3>1. x5'[age + 1] = x5[age] /\ x5[age] \in Nat
      BY <1>a, <2>2
    <3>2. CASE age = 0
      BY <2>3, <3>1, <3>2
    <3>3. CASE age # 0
      <4>1. age - 1 \in 0..last /\ x5'[age] = x5[age - 1] /\ (age - 1) + 1 = age
        BY <1>a, <2>2, <3>3
      <4> QED
        BY <3>1, <4>1, Remembered
    <3> QED
      BY <3>2, <3>3
  <2>5. x5'[last] \in Nat /\ x5'[last] <= x5[last]
    <3>1. CASE last = 0
      BY <1>a, <2>3, <3>1, Remembered
    <3>2. CASE last # 0
      <4>1. last \in 0..last /\ last - 1 \in 0..last /\ x5'[last] = x5[last - 1] /\ (last - 1) + 1 = last
        BY <1>a, <2>2, <3>2
      <4>2. x5[last - 1] <= x5[(last - 1) + 1]
        BY <4>1, Remembered
      <4> QED
        BY <2>3, <4>1, <4>2
    <3> QED
      BY <3>1, <3>2
  <2>6. x2' # -1 => \A age \in 0..last : age < x2' => x5'[age] = 0
    <3> SUFFICES ASSUME x2' # -1, NEW age \in 0..last, age < x2'
                 PROVE  x5'[age] = 0
      OBVIOUS
    <3>1. CASE age = 0
      BY <2>3, <3>1
    <3>2. CASE age # 0
      <4>1. x2 # -1 /\ age - 1 < x2 /\ age - 1 \in 0..last
        BY <1>a, <2>1, <2>2, <3>2, Remembered
      <4> QED
        BY <2>2, <3>2, <4>1, Remembered
    <3> QED
      BY <3>1, <3>2
  <2>7. BreakerPart!Upserts' = BreakerPart!Upserts
    BY <2>1 DEF BreakerPart!Upserts
  <2>8. x2' \in -1..ResetTicks /\ (x2' = -1 <=> x2 = -1) /\ x1 \in Nat /\ x5[last] \in Nat
    BY <1>a, <2>1, Remembered
  <2>9. x2' = -1 => x1' < FailureThreshold /\ x5'[last] <= x1' + BreakerPart!Cardinality(BreakerPart!Upserts')
    BY <1>0, <2>1, <2>5, <2>7, <2>8, Remembered
  <2>10. x5'[last] <= FailureThreshold + all - 1
    <3>1. x5[last] <= FailureThreshold + all - 1
      BY Remembered
    <3> HIDE DEF all, last
    <3> QED
      BY <1>0, <1>a, <2>5, <2>8, <3>1
  <2> QED
    BY <2>1, <2>3, <2>4, <2>6, <2>8, <2>9, <2>10, Remembered, RememberedThen
<1>7. CASE UNCHANGED BreakerPart!vars
  <2>1. UNCHANGED <<x1, x2, x3, x4, x5>>
    BY <1>7 DEF BreakerPart!vars
  <2>2. BreakerPart!Upserts' = BreakerPart!Upserts
    BY <2>1 DEF BreakerPart!Upserts
  <2> QED
    BY <2>1, <2>2, Remembered, RememberedThen
<1> QED
  BY <1>1, <1>2, <1>3, <1>4, <1>5, <1>6, <1>7 DEF BreakerPart!Next

\* While no call succeeds, what is sent in the time of one pause is at most the
\* threshold and what was under way, for any number of callers, any threshold and any pause.
THEOREM WhatIsDownIsNotHammered == ServicesSpec => []HammeringIsBounded
<1> DEFINE I == part = "breaker" => Hammering
<1>1. ServicesInit => I
  <2> SUFFICES ASSUME ServicesInit, part = "breaker"
               PROVE  Hammering
    OBVIOUS
  <2>1. BreakerPart!Init /\ FailureThreshold \in Nat \ {0} /\ ResetTicks \in Nat \ {0}
    BY PartsBegin, ServicesAssumption
  <2>2. BreakerPart!TypeOK
    BY <2>1 DEF BreakerPart!Init, BreakerPart!TypeOK, BreakerPart!Forgotten, BreakerPart!Closed
  <2>3. BreakerPart!EachBegunCounts
    <3>1. \A age \in 0..(ResetTicks - 1) : x5[age] = 0
      BY <2>1 DEF BreakerPart!Init, BreakerPart!Forgotten
    <3>2. DOMAIN x5 = 0..(ResetTicks - 1) /\ x5[ResetTicks - 1] = 0
      BY <2>1, <2>2, <3>1 DEF BreakerPart!TypeOK
    <3> QED
      BY <2>1, <2>2, <3>1, <3>2, UnderWay DEF BreakerPart!Init, BreakerPart!EachBegunCounts, BreakerPart!Recent
  <2> QED
    BY <2>2, <2>3 DEF Hammering
<1>2. I /\ [ServicesNext]_registers => I'
  BY PartSteps, BreakerStep
<1>3. I => HammeringIsBounded
  BY DEF Hammering, BreakerPart!EachBegunCounts, HammeringIsBounded, BreakerPart!HammeringIsBounded
<1> QED
  BY <1>1, <1>2, <1>3, PTL DEF ServicesSpec

-----------------------------------------------------------------------------
(* Slots: agenda is x1, question x2, slots x3                              *)

\* The members of S that come before a in the order R.
Preceding(a, S, R) == {b \in S : <<b, a>> \in R}

Orders(R, S) ==
    /\ \A a \in S : ~(<<a, a>> \in R)
    /\ \A a, b, c \in S : <<a, b>> \in R /\ <<b, c>> \in R => <<a, c>> \in R
    /\ \A a, b \in S : a # b => <<a, b>> \in R \/ <<b, a>> \in R

\* In a finite set with a total order there is one member with none before it, one with
\* one before it, and so on.
LEMMA EachHasItsRank ==
    ASSUME NEW S, NEW R, IsFiniteSet(S), Orders(R, S)
    PROVE  /\ \A n \in 1..Cardinality(S) : \E a \in S : Cardinality(Preceding(a, S, R)) = n - 1
           /\ \A a \in S : Cardinality(Preceding(a, S, R)) \in 0..(Cardinality(S) - 1)
           /\ \A a, c \in S : <<a, c>> \in R =>
                 Cardinality(Preceding(a, S, R)) < Cardinality(Preceding(c, S, R))
<1> DEFINE Before(a) == {b \in S : <<b, a>> \in R}
           N == Cardinality(S)
           rank == [a \in S |-> Cardinality(Before(a)) + 1]
<1>1. N \in Nat
  BY FS_CardinalityType
<1>2. \A a \in S : IsFiniteSet(Before(a)) /\ Cardinality(Before(a)) \in Nat
  <2>1. TAKE a \in S
  <2>2. Before(a) \subseteq S
    OBVIOUS
  <2> QED
    BY <2>2, FS_Subset, FS_CardinalityType
<1>3. ASSUME NEW a \in S, NEW c \in S, <<a, c>> \in R
      PROVE  Cardinality(Before(a)) < Cardinality(Before(c))
  <2>1. Before(a) \subseteq Before(c) /\ a \in Before(c) /\ a \notin Before(a)
    BY <1>3 DEF Orders
  <2> HIDE DEF Before
  <2>2. Cardinality(Before(a)) <= Cardinality(Before(c)) /\ Cardinality(Before(a)) # Cardinality(Before(c))
    BY <1>2, <2>1, FS_Subset
  <2> QED
    BY <1>2, <2>2
<1>4. ASSUME NEW a \in S
      PROVE  Cardinality(Before(a)) \in 0..(N - 1)
  <2>1. Before(a) \subseteq S /\ a \notin Before(a)
    BY DEF Orders
  <2> HIDE DEF Before
  <2>2. Cardinality(Before(a)) <= N /\ Cardinality(Before(a)) # N
    BY <2>1, FS_Subset
  <2> QED
    BY <1>1, <1>2, <2>2
<1>5. rank \in Injection(S, 1..N)
  <2> HIDE DEF Before, N
  <2>1. rank \in [S -> 1..N]
    BY <1>1, <1>4
  <2>2. ASSUME NEW a \in S, NEW c \in S, rank[a] = rank[c]
        PROVE  a = c
    <3>1. Cardinality(Before(a)) = Cardinality(Before(c))
      BY <1>2, <2>2
    <3>2. ~(<<a, c>> \in R) /\ ~(<<c, a>> \in R)
      <4>1. Cardinality(Before(a)) \in Nat /\ Cardinality(Before(c)) \in Nat
        BY <1>2
      <4> QED
        BY <1>3, <3>1, <4>1
    <3> QED
      BY <3>2 DEF Orders
  <2> HIDE DEF rank
  <2> QED
    BY <2>1, <2>2 DEF Injection, IsInjective
<1>6. rank \in Surjection(S, 1..N)
  <2>1. IsFiniteSet(1..N) /\ Cardinality(1..N) = N
    BY <1>1, FS_Interval
  <2> HIDE DEF rank
  <2> QED
    BY <1>5, <2>1, FS_Injection
<1>7. ASSUME NEW n \in 1..N
      PROVE  \E a \in S : Cardinality(Before(a)) = n - 1
  <2>1. PICK a \in S : rank[a] = n
    BY <1>6 DEF Surjection
  <2> HIDE DEF Before
  <2> QED
    BY <1>1, <1>2, <2>1
<1> QED
  BY <1>3, <1>4, <1>7 DEF Preceding

LEMMA SlotsCardinality ==
    ASSUME NEW S
    PROVE  SlotsPart!Cardinality(S) = Cardinality(S)
BY DEF SlotsPart!Cardinality, Cardinality

Asking == x1 \in RowsOfSlots /\ x2 \in Questions

\* When the days are that are searched: none ends after the range of the rows that are read.
LEMMA DaysInRange ==
    ASSUME Asking
    PROVE  /\ SlotsPart!RangeEnd \in Nat /\ SlotsPart!Days \subseteq Nat
           /\ \A day \in SlotsPart!Days :
                 /\ day * DayLength \in Nat /\ day * DayLength + DayLength <= SlotsPart!RangeEnd
                 /\ SlotsPart!Opening(day) = day * DayLength + OpensAt
                 /\ SlotsPart!Closing(day) = day * DayLength + ClosesAt
                 /\ \A other \in SlotsPart!Days :
                       other < day => other * DayLength + DayLength <= day * DayLength
<1> DEFINE from == x2.from
           first == from \div DayLength
<1>1. from \in Nat /\ DayLength \in Nat /\ DayLength > 0 /\ DaysAhead \in Nat
  BY ServicesAssumption DEF Asking
<1>2. first \in Nat /\ first * DayLength <= from
  BY <1>1
<1>3. SlotsPart!Days = first..(first + DaysAhead - 1)
  BY DEF SlotsPart!Days
<1>4. SlotsPart!RangeEnd = from + DaysAhead * DayLength
  BY DEF SlotsPart!RangeEnd
<1> HIDE DEF first, from
<1>5. DaysAhead * DayLength \in Nat /\ SlotsPart!Days \subseteq Nat
  BY <1>1, <1>2, <1>3
<1>6. \A m, n \in Nat : m + 1 <= n => m * DayLength + DayLength <= n * DayLength
  BY <1>1
<1>7. ASSUME NEW day \in SlotsPart!Days
      PROVE  day * DayLength \in Nat /\ day * DayLength + DayLength <= from + DaysAhead * DayLength
  <2>1. day \in Nat /\ day + 1 <= first + DaysAhead /\ first + DaysAhead \in Nat
    BY <1>1, <1>2, <1>3, <1>5, <1>7
  <2>2. day * DayLength + DayLength <= (first + DaysAhead) * DayLength
    BY <1>6, <2>1
  <2>3. (first + DaysAhead) * DayLength = first * DayLength + DaysAhead * DayLength
    BY <1>1, <1>2
  <2>4. day * DayLength \in Nat /\ first * DayLength \in Nat
    BY <1>1, <1>2, <2>1
  <2> QED
    BY <1>1, <1>2, <1>5, <2>2, <2>3, <2>4
<1>8. \A day, other \in SlotsPart!Days : other < day => other * DayLength + DayLength <= day * DayLength
  BY <1>5, <1>6
<1> QED
  BY <1>1, <1>4, <1>5, <1>7, <1>8 DEF SlotsPart!Opening, SlotsPart!Closing

\* The grid of a day: no step of it is further than a day from the opening.
LEMMA GridOfADay ==
    ASSUME NEW k \in 0..(DayLength \div SlotStep)
    PROVE  k * SlotStep \in 0..DayLength /\ (k * SlotStep) % SlotStep = 0
<1>1. DayLength \in Nat /\ SlotStep \in Nat /\ SlotStep > 0
  BY ServicesAssumption
<1>2. DayLength \div SlotStep \in Nat /\ (DayLength \div SlotStep) * SlotStep <= DayLength
  BY <1>1
<1>3. k \in Nat /\ k <= DayLength \div SlotStep
  BY <1>2
<1>4. k * SlotStep <= (DayLength \div SlotStep) * SlotStep /\ k * SlotStep \in Nat
  BY <1>1, <1>2, <1>3
<1>5. (k * SlotStep) % SlotStep = 0
  BY <1>1, <1>3
<1>6. (DayLength \div SlotStep) * SlotStep \in Nat
  BY <1>1, <1>2
<1> QED
  BY <1>1, <1>2, <1>4, <1>5, <1>6

\* A time is found exactly where a booking of the question would be accepted within the
\* opening hours, on the grid: nothing that a booking asks about lies outside of what was
\* read, and no blocked day has such a time.
LEMMA FoundIsBookable ==
    ASSUME Asking
    PROVE  /\ SlotsPart!Found \in SUBSET Nat /\ IsFiniteSet(SlotsPart!Found)
           /\ \A t \in SlotsPart!Found : SlotsPart!Booked(t) /\ SlotsPart!InHours(t)
           /\ \A day \in SlotsPart!Days, k \in 0..(DayLength \div SlotStep), t \in Int :
                 t = SlotsPart!Opening(day) + k * SlotStep /\ SlotsPart!InHours(t) /\ SlotsPart!Booked(t)
                 => t \in SlotsPart!Found
<1> DEFINE from == x2.from
           d == x2.duration
           Start(day) == day * DayLength
           end == SlotsPart!RangeEnd
<1>1. from \in Nat /\ x2.now \in Nat /\ d \in Nat /\ d > 0 /\ x2.limit \in Nat
  BY ServicesAssumption DEF Asking
<1>2. /\ \A r \in x1 : r.start \in Int /\ r.end \in Int /\ r.kind \in SlotsPart!Kinds
  BY RowsAssumption DEF Asking, SlotsPart!Row
<1>3. OpensAt \in Nat /\ ClosesAt \in Nat /\ ClosesAt <= DayLength /\ DayLength \in Nat
  BY ServicesAssumption
<1>4. /\ end \in Nat /\ SlotsPart!Days \subseteq Nat
      /\ \A day \in SlotsPart!Days :
            /\ Start(day) \in Nat /\ Start(day) + DayLength <= end
            /\ SlotsPart!Opening(day) = Start(day) + OpensAt
            /\ SlotsPart!Closing(day) = Start(day) + ClosesAt
            /\ \A other \in SlotsPart!Days : other < day => Start(other) + DayLength <= Start(day)
  BY DaysInRange
<1> HIDE DEF Start, end
<1>c. ASSUME NEW t, NEW day
      PROVE  t \in SlotsPart!Candidates(day) <=>
                /\ t \in SlotsPart!Opening(day)..(SlotsPart!Closing(day) - d)
                /\ (t - SlotsPart!Opening(day)) % SlotStep = 0
  BY Zenon DEF SlotsPart!Candidates
<1>5. ASSUME NEW t \in SlotsPart!Found
      PROVE  \E day \in SlotsPart!Days :
                /\ t \in (Start(day) + OpensAt)..(Start(day) + ClosesAt - d) /\ ~SlotsPart!DayBlocked(day)
                /\ t >= from /\ t >= x2.now /\ SlotsPart!Free(t)
  <2>1. PICK day \in SlotsPart!Days : t \in SlotsPart!Candidates(day) /\ ~SlotsPart!DayBlocked(day)
    BY <1>5 DEF SlotsPart!Found
  <2>2. t \in (Start(day) + OpensAt)..(Start(day) + ClosesAt - d)
    <3>1. t \in SlotsPart!Opening(day)..(SlotsPart!Closing(day) - d)
      BY ONLY Zenon, <1>c, <2>1
    <3>2. SlotsPart!Opening(day) = Start(day) + OpensAt /\ SlotsPart!Closing(day) = Start(day) + ClosesAt
          /\ Start(day) \in Nat
      BY <1>4
    <3> HIDE DEF d
    <3> QED
      BY <1>1, <1>3, <3>1, <3>2
  <2>3. t >= from /\ t >= x2.now /\ SlotsPart!Free(t)
    <3>1. ~SlotsPart!Past(t) /\ SlotsPart!Free(t) /\ t \in Int
      BY <1>5, <2>2 DEF SlotsPart!Found
    <3> QED
      BY <1>1, <3>1 DEF SlotsPart!Past
  <2> QED
    BY <2>1, <2>2, <2>3
<1>6. ASSUME NEW t \in SlotsPart!Found
      PROVE  SlotsPart!Booked(t) /\ SlotsPart!InHours(t) /\ t \in 0..end
  <2>1. PICK day \in SlotsPart!Days :
           /\ t \in (Start(day) + OpensAt)..(Start(day) + ClosesAt - d)
           /\ t >= from /\ t >= x2.now /\ SlotsPart!Free(t)
    BY <1>5, <1>6
  <2>2. Start(day) \in Nat /\ Start(day) + DayLength <= end /\ end \in Nat
    BY <1>4
  <2>3. t \in Nat /\ t + d <= end /\ t \in 0..end
    BY <1>1, <1>3, <2>1, <2>2
  <2>4. SlotsPart!InHours(t)
    <3>1. SlotsPart!Opening(day) <= t /\ t + d <= SlotsPart!Closing(day)
      BY <1>1, <1>3, <1>4, <2>1, <2>2
    <3> QED
      BY <3>1 DEF SlotsPart!InHours
  <2>5. ASSUME NEW r \in x1, r.kind # "OVER"
        PROVE  ~SlotsPart!Meets(t, t + d, r)
    <3>1. CASE SlotsPart!Meets(from, end, r)
      BY <2>1, <2>5, <3>1 DEF SlotsPart!Free, SlotsPart!Busy, end
    <3>2. CASE ~SlotsPart!Meets(from, end, r)
      BY <1>1, <1>2, <2>1, <2>2, <2>3, <3>2 DEF SlotsPart!Meets
    <3> QED
      BY <3>1, <3>2
  <2> QED
    BY <2>1, <2>3, <2>4, <2>5 DEF SlotsPart!Booked
<1>7. SlotsPart!Found \in SUBSET Nat /\ IsFiniteSet(SlotsPart!Found)
  <2>1. SlotsPart!Found \subseteq 0..end
    BY <1>6
  <2>2. IsFiniteSet(0..end)
    BY <1>4, FS_Interval
  <2>3. IsFiniteSet(SlotsPart!Found)
    BY <2>1, <2>2, FS_Subset
  <2> QED
    BY <2>1, <2>3
<1>8. ASSUME NEW day \in SlotsPart!Days, NEW k \in 0..(DayLength \div SlotStep), NEW t \in Int,
             t = SlotsPart!Opening(day) + k * SlotStep, SlotsPart!InHours(t), SlotsPart!Booked(t)
      PROVE  t \in SlotsPart!Found
  <2>1. PICK m : m = k * SlotStep
    OBVIOUS
  <2>2. m \in 0..DayLength /\ m % SlotStep = 0 /\ t = Start(day) + OpensAt + m
    BY <1>4, <1>8, <2>1, GridOfADay
  <2>3. PICK other \in SlotsPart!Days :
           /\ t >= Start(other) + OpensAt /\ t + d <= Start(other) + ClosesAt
           /\ SlotsPart!Opening(other) = Start(other) + OpensAt
           /\ SlotsPart!Closing(other) = Start(other) + ClosesAt
    <3>1. PICK other \in SlotsPart!Days : SlotsPart!Opening(other) <= t /\ t + d <= SlotsPart!Closing(other)
      BY <1>8 DEF SlotsPart!InHours
    <3>2. /\ SlotsPart!Opening(other) = Start(other) + OpensAt /\ Start(other) \in Nat
          /\ SlotsPart!Closing(other) = Start(other) + ClosesAt
      BY <1>4
    <3> QED
      BY <1>1, <1>3, <3>1, <3>2
  <2>4. t - (Start(other) + OpensAt) \in {m, 0}
    <3>1. day \in Nat /\ other \in Nat /\ Start(day) \in Nat /\ Start(other) \in Nat
      BY <1>4
    <3>2. CASE other = day
      BY <1>3, <2>2, <3>1, <3>2
    <3>3. CASE day < other
      <4>1. Start(day) + DayLength <= Start(other)
        BY <1>4, <3>3
      <4> QED
        BY <1>3, <2>2, <2>3, <3>1, <4>1
    <3>4. CASE other < day
      <4>1. Start(other) + DayLength <= Start(day)
        BY <1>4, <3>4
      <4> QED
        BY <1>1, <1>3, <2>2, <2>3, <3>1, <4>1
    <3> QED
      BY <3>1, <3>2, <3>3, <3>4
  <2>5. t \in SlotsPart!Candidates(other)
    <3>1. Start(other) \in Nat
      BY <1>4
    <3>2. t \in (Start(other) + OpensAt)..(Start(other) + ClosesAt - d)
      BY <1>1, <1>3, <2>3, <3>1
    <3>3. (t - (Start(other) + OpensAt)) % SlotStep = 0
      <4>1. SlotStep \in Nat /\ SlotStep > 0
        BY ServicesAssumption
      <4>2. 0 % SlotStep = 0
        BY <4>1
      <4> QED
        BY <2>2, <2>4, <4>2
    <3> QED
      <4>1. /\ t \in SlotsPart!Opening(other)..(SlotsPart!Closing(other) - d)
            /\ (t - SlotsPart!Opening(other)) % SlotStep = 0
        <5>1. SlotsPart!Opening(other) = Start(other) + OpensAt /\ SlotsPart!Closing(other) = Start(other) + ClosesAt
          BY <2>3
        <5> HIDE DEF d
        <5> QED
          BY <1>1, <1>3, <3>1, <3>2, <3>3, <5>1
      <4> QED
        BY Zenon, <1>c, <4>1
  <2>6. t >= from /\ t >= x2.now /\ \A r \in x1 : r.kind # "OVER" => ~SlotsPart!Meets(t, t + d, r)
    BY <1>8 DEF SlotsPart!Booked
  <2>7. SlotsPart!Free(t) /\ ~SlotsPart!Past(t)
    BY <1>1, <2>6 DEF SlotsPart!Free, SlotsPart!Busy, SlotsPart!Past
  <2>8. ~SlotsPart!DayBlocked(other)
    <3> SUFFICES ASSUME NEW r \in x1, r.kind # "OVER", r.start <= Start(other) + OpensAt,
                        r.end >= Start(other) + ClosesAt
                 PROVE  FALSE
      BY <2>3 DEF SlotsPart!DayBlocked, SlotsPart!Busy
    <3>1. Start(other) \in Nat
      BY <1>4
    <3> QED
      BY <1>1, <1>2, <1>3, <2>3, <2>6, <3>1 DEF SlotsPart!Meets
  <2> QED
    BY <2>5, <2>7, <2>8 DEF SlotsPart!Found
<1> QED
  BY <1>6, <1>7, <1>8

\* How many times of those that were found are earlier.
LEMMA FoundInOrder ==
    ASSUME Asking, NEW F, F = SlotsPart!Found
    PROVE  /\ \A n \in 1..Cardinality(F) : \E t \in F : Cardinality({u \in F : u < t}) = n - 1
           /\ \A t \in F : Cardinality({u \in F : u < t}) \in 0..(Cardinality(F) - 1)
           /\ \A t, v \in F : t < v => Cardinality({u \in F : u < t}) < Cardinality({u \in F : u < v})
           /\ Cardinality(F) \in Nat
<1> DEFINE R == {p \in F \X F : p[1] < p[2]}
<1>1. F \in SUBSET Nat /\ IsFiniteSet(F)
  BY FoundIsBookable
<1>2. \A u, t \in F : <<u, t>> \in R <=> u < t
  OBVIOUS
<1>3. \A t \in F : Preceding(t, F, R) = {u \in F : u < t}
  BY <1>2 DEF Preceding
<1> HIDE DEF R
<1>4. \A t \in F : ~(<<t, t>> \in R)
  BY <1>1, <1>2
<1>5. \A t, u, v \in F : <<t, u>> \in R /\ <<u, v>> \in R => <<t, v>> \in R
  BY <1>1, <1>2
<1>6. \A t, u \in F : t # u => <<t, u>> \in R \/ <<u, t>> \in R
  BY <1>1, <1>2
<1>7. /\ \A n \in 1..Cardinality(F) : \E t \in F : Cardinality(Preceding(t, F, R)) = n - 1
      /\ \A t \in F : Cardinality(Preceding(t, F, R)) \in 0..(Cardinality(F) - 1)
      /\ \A t, v \in F : <<t, v>> \in R =>
            Cardinality(Preceding(t, F, R)) < Cardinality(Preceding(v, F, R))
  <2>1. IsFiniteSet(F) /\ Orders(R, F)
    BY <1>1, <1>4, <1>5, <1>6 DEF Orders
  <2> QED
    BY <2>1, EachHasItsRank
<1>8. Cardinality(F) \in Nat
  BY <1>1, FS_CardinalityType
<1>9. ASSUME NEW n \in 1..Cardinality(F)
      PROVE  \E t \in F : Cardinality({u \in F : u < t}) = n - 1
  <2>1. PICK t \in F : Cardinality(Preceding(t, F, R)) = n - 1
    BY <1>7
  <2> QED
    BY <1>3, <2>1
<1>10. ASSUME NEW t \in F
       PROVE  Cardinality({u \in F : u < t}) \in 0..(Cardinality(F) - 1)
  BY <1>3, <1>7
<1>11. ASSUME NEW t \in F, NEW v \in F, t < v
       PROVE  Cardinality({u \in F : u < t}) < Cardinality({u \in F : u < v})
  BY <1>2, <1>3, <1>7, <1>11
<1> QED
  BY <1>8, <1>9, <1>10, <1>11

\* The times that are answered are the first of those found.
LEMMA AnswerIsRight ==
    ASSUME Asking, x3 = SlotsPart!FindAvailableSlots
    PROVE  SlotsPart!OfferedIsBookable
<1> DEFINE F == SlotsPart!Found
           N == Cardinality(F)
           L == IF N < x2.limit THEN N ELSE x2.limit
           Earlier(t) == {u \in F : u < t}
           Place(t) == Cardinality(Earlier(t))
<1>1. x2.limit \in Nat
  BY ServicesAssumption DEF Asking
<1>2. \A t \in F : t \in Nat
  BY FoundIsBookable
<1>3. /\ \A n \in 1..N : \E t \in F : Place(t) = n - 1
      /\ \A t \in F : Place(t) \in 0..(N - 1)
      /\ \A t, v \in F : t < v => Place(t) < Place(v)
      /\ N \in Nat
  BY FoundInOrder
<1>4. /\ x3 = [n \in 1..L |-> CHOOSE t \in F : SlotsPart!Cardinality({u \in F : u < t}) = n - 1]
      /\ \A t : SlotsPart!Cardinality({u \in F : u < t}) = Place(t)
  BY SlotsCardinality DEF SlotsPart!FindAvailableSlots
<1> HIDE DEF F, N, Earlier, Place
<1>5. L \in Nat /\ L <= N /\ L <= x2.limit /\ (L = N \/ L = x2.limit)
  BY <1>1, <1>3
<1> HIDE DEF L
<1>6. ASSUME NEW n \in 1..L
      PROVE  x3[n] \in F /\ Place(x3[n]) = n - 1
  <2>1. \E t \in F : SlotsPart!Cardinality({u \in F : u < t}) = n - 1
    <3>1. PICK t \in F : Place(t) = n - 1
      BY <1>3, <1>5
    <3> QED
      BY <1>4, <3>1
  <2>2. x3[n] = CHOOSE t \in F : SlotsPart!Cardinality({u \in F : u < t}) = n - 1
    BY <1>4
  <2> QED
    BY <1>4, <2>1, <2>2
<1>7. DOMAIN x3 = 1..L /\ Len(x3) = L
  BY <1>4, <1>5
<1>8. SlotsPart!Offered \subseteq F
  BY <1>6, <1>7 DEF SlotsPart!Offered
<1>9. \A i, j \in DOMAIN x3 : i < j => x3[i] < x3[j]
  <2> TAKE i, j \in DOMAIN x3
  <2> HAVE i < j
  <2>1. /\ x3[i] \in Nat /\ x3[j] \in Nat /\ x3[i] \in F /\ x3[j] \in F
        /\ Place(x3[i]) = i - 1 /\ Place(x3[j]) = j - 1 /\ i \in Nat /\ j \in Nat
    <3>1. i \in 1..L /\ j \in 1..L
      BY <1>7
    <3>2. x3[i] \in F /\ x3[j] \in F /\ Place(x3[i]) = i - 1 /\ Place(x3[j]) = j - 1
      BY <1>6, <3>1
    <3> QED
      BY <1>2, <3>1, <3>2
  <2>2. ~(x3[j] < x3[i]) /\ x3[i] # x3[j]
    BY <1>3, <2>1
  <2> QED
    BY <2>1, <2>2
<1>10. ASSUME NEW t \in F, t \notin SlotsPart!Offered
       PROVE  L = x2.limit /\ \A i \in DOMAIN x3 : x3[i] < t
  <2>1. Place(t) \in 0..(N - 1) /\ t \in Nat
    BY <1>2, <1>3
  <2>2. Place(t) >= L
    <3> SUFFICES ASSUME Place(t) < L
                 PROVE  FALSE
      BY <1>5, <2>1
    <3>1. Place(t) + 1 \in 1..L
      BY <1>5, <2>1
    <3>2. PICK i \in 1..L : i = Place(t) + 1
      BY <3>1
    <3>3. x3[i] \in F /\ x3[i] \in Nat /\ Place(x3[i]) = Place(t) /\ x3[i] \in SlotsPart!Offered
      <4>1. x3[i] \in F /\ Place(x3[i]) = i - 1
        BY <1>6
      <4>2. x3[i] \in SlotsPart!Offered
        BY <1>7 DEF SlotsPart!Offered
      <4> QED
        <5>1. Place(x3[i]) = Place(t)
          BY <2>1, <3>2, <4>1
        <5> QED
          BY <1>2, <4>1, <4>2, <5>1
    <3>4. ~(x3[i] < t) /\ ~(t < x3[i])
      BY <1>3, <2>1, <3>3
    <3> QED
      BY <1>10, <2>1, <3>3, <3>4
  <2>3. L = x2.limit
    BY <1>3, <1>5, <2>1, <2>2
  <2>4. ASSUME NEW i \in DOMAIN x3
        PROVE  x3[i] < t
    <3>1. x3[i] \in F /\ x3[i] \in Nat /\ Place(x3[i]) = i - 1 /\ i \in 1..L
      BY <1>2, <1>6, <1>7, <2>4
    <3>2. ~(t < x3[i]) /\ t # x3[i]
      BY <1>3, <1>5, <2>1, <2>2, <3>1
    <3> QED
      BY <2>1, <3>1, <3>2
  <2> QED
    BY <2>3, <2>4
<1>11. \A t \in SlotsPart!Offered : SlotsPart!Booked(t) /\ SlotsPart!InHours(t)
  BY <1>8, FoundIsBookable DEF F
<1>12. ASSUME NEW day \in SlotsPart!Days, NEW k \in 0..(DayLength \div SlotStep), NEW t \in Int,
              t = SlotsPart!Opening(day) + k * SlotStep,
              SlotsPart!InHours(t), SlotsPart!Booked(t), t \notin SlotsPart!Offered
       PROVE  Len(x3) = x2.limit /\ \A i \in DOMAIN x3 : x3[i] < t
  <2>1. t \in F
    BY <1>12, FoundIsBookable DEF F
  <2> QED
    BY <1>7, <1>10, <1>12, <2>1
<1>13. \A day \in SlotsPart!Days, k \in 0..(DayLength \div SlotStep) :
          SlotsPart!Opening(day) + k * SlotStep \in Int
  <2> TAKE day \in SlotsPart!Days, k \in 0..(DayLength \div SlotStep)
  <2>1. SlotsPart!Opening(day) = day * DayLength + OpensAt /\ day * DayLength \in Nat /\ OpensAt \in Nat
    BY DaysInRange, ServicesAssumption
  <2>2. k * SlotStep \in Nat
    BY GridOfADay, ServicesAssumption
  <2> QED
    BY <2>1, <2>2
<1>14. Len(x3) <= x2.limit
  BY <1>5, <1>7
<1> QED
  BY <1>9, <1>11, <1>12, <1>13, <1>14 DEF SlotsPart!OfferedIsBookable

\* What is offered to a client can be booked, and what could be booked on the grid is
\* offered, up to the limit, whatever rows the agenda has and whatever is asked.
THEOREM WhatIsOfferedCanBeBooked == ServicesSpec => []OfferedIsBookable
<1> DEFINE I == part = "slots" => Asking /\ x3 \in {<<-1>>, SlotsPart!FindAvailableSlots}
<1>1. ServicesInit => I
  BY PartsBegin DEF SlotsPart!Init, Asking
<1>2. I /\ [ServicesNext]_registers => I'
  <2> SUFFICES ASSUME part = "slots", Asking, x3 \in {<<-1>>, SlotsPart!FindAvailableSlots},
                      [ServicesNext]_registers
               PROVE  Asking' /\ x3' \in {<<-1>>, SlotsPart!FindAvailableSlots'}
    BY PartSteps
  <2>1. UNCHANGED <<x1, x2>> /\ (x3' = x3 \/ x3' = SlotsPart!FindAvailableSlots)
    BY PartSteps DEF SlotsPart!Next, SlotsPart!Answer, SlotsPart!vars
  <2>2. SlotsPart!Found' = SlotsPart!Found
    BY <2>1 DEF SlotsPart!Found, SlotsPart!Days, SlotsPart!Candidates, SlotsPart!DayBlocked, SlotsPart!Busy,
       SlotsPart!RangeEnd, SlotsPart!Past, SlotsPart!Free, SlotsPart!Closing
  <2>3. SlotsPart!FindAvailableSlots' = SlotsPart!FindAvailableSlots
    BY <2>1, <2>2 DEF SlotsPart!FindAvailableSlots
  <2> QED
    BY <2>1, <2>3 DEF Asking
<1>3. I => OfferedIsBookable
  <2>1. x3 = <<-1>> => SlotsPart!OfferedIsBookable
    BY DEF SlotsPart!OfferedIsBookable
  <2> QED
    BY <2>1, AnswerIsRight DEF OfferedIsBookable
<1> QED
  BY <1>1, <1>2, <1>3, PTL DEF ServicesSpec

-----------------------------------------------------------------------------
(* Risk: appts is x1, listener x2, score x3, missed x4, astray x5, heard x6 *)

Scoring == RiskPart!TypeOK /\ RiskPart!ScoresFollow

LEMMA RiskCardinality ==
    ASSUME NEW S
    PROVE  RiskPart!Cardinality(S) = Cardinality(S)
BY DEF RiskPart!Cardinality, Cardinality

LEMMA RiskTypes ==
    ASSUME Scoring
    PROVE  /\ x1 \in [Appts -> RiskPart!Row] /\ x3 \in RiskPart!Score /\ x4 \in BOOLEAN /\ x5 \in BOOLEAN
           /\ x6 \in Emitters /\ x6 \in BOOLEAN
           /\ DOMAIN x2 = Listeners
           /\ \A l \in Listeners : \/ x2[l] \in [pc: {"no", "read"}]
                                   \/ x2[l] \in [pc: {"write"}, score: RiskPart!Score]
           /\ x2 \in [Listeners -> [pc: {"no", "read"}] \cup [pc: {"write"}, score: RiskPart!Score]]
BY ServicesAssumption DEF Scoring, RiskPart!TypeOK

\* Where the list of events is not heard no listener ever runs.
LEMMA WhoRunsHeard ==
    ASSUME Scoring, NEW l \in Listeners, x2[l].pc # "no"
    PROVE  x6
BY RiskTypes DEF Scoring, RiskPart!ScoresFollow, RiskPart!Idle

\* What is counted: no more of any kind than there are appointments.
LEMMA RiskCounts ==
    ASSUME Scoring
    PROVE  /\ RiskPart!Total \in Nat /\ RiskPart!Total <= RiskPart!Cardinality(Appts)
           /\ RiskPart!Cardinality(RiskPart!Has("NO_SHOW")) \in 0..RiskPart!Total
           /\ RiskPart!Cardinality(RiskPart!LateCancels) \in 0..RiskPart!Total
           /\ RiskPart!Has("NO_SHOW") = {} => RiskPart!Cardinality(RiskPart!Has("NO_SHOW")) = 0
           /\ RiskPart!Cardinality(Appts) \in Nat \ {0}
<1>1. IsFiniteSet(Appts) /\ Appts # {}
  BY ServicesAssumption
<1>2. /\ RiskPart!Counted \subseteq Appts
      /\ RiskPart!Has("NO_SHOW") \subseteq RiskPart!Counted /\ RiskPart!LateCancels \subseteq RiskPart!Counted
  BY DEF RiskPart!Counted, RiskPart!Has, RiskPart!LateCancels
<1>3. /\ IsFiniteSet(RiskPart!Counted) /\ Cardinality(RiskPart!Counted) <= Cardinality(Appts)
      /\ Cardinality(RiskPart!Counted) \in Nat /\ Cardinality(Appts) \in Nat
  BY <1>1, <1>2, FS_Subset, FS_CardinalityType
<1>4. /\ Cardinality(RiskPart!Has("NO_SHOW")) <= Cardinality(RiskPart!Counted)
      /\ Cardinality(RiskPart!Has("NO_SHOW")) \in Nat
  BY <1>2, <1>3, FS_Subset, FS_CardinalityType
<1>5. /\ Cardinality(RiskPart!LateCancels) <= Cardinality(RiskPart!Counted)
      /\ Cardinality(RiskPart!LateCancels) \in Nat
  BY <1>2, <1>3, FS_Subset, FS_CardinalityType
<1>6. Cardinality(Appts) # 0 /\ Cardinality({}) = 0
  BY <1>1, FS_EmptySet
<1> QED
  BY <1>3, <1>4, <1>5, <1>6, RiskCardinality DEF RiskPart!Total

\* A score that is computed now follows the misses, and is not high without one.
LEMMA NewScoreFollows ==
    ASSUME Scoring, RiskPart!Total # 0
    PROVE  /\ RiskPart!NewScore \in RiskPart!Score /\ RiskPart!OfNow(RiskPart!NewScore)
           /\ RiskPart!Has("NO_SHOW") = {} => ~RiskPart!High(RiskPart!NewScore)
<1> DEFINE m == RiskPart!Cardinality(RiskPart!Has("NO_SHOW"))
           c == RiskPart!Cardinality(RiskPart!LateCancels)
           T == RiskPart!Total
           tenths == 6 * m + 2 * c + RiskPart!LateConfirmRisk * T
<1>1. RiskPart!LateConfirmRisk \in {0, 1, 2}
  BY DEF RiskPart!LateConfirmRisk
<1>2. RiskPart!NewScore = [tenths |-> tenths, total |-> T]
  BY DEF RiskPart!NewScore, RiskPart!Weighed
<1>3. /\ m \in 0..T /\ c \in 0..T /\ T \in Nat /\ T # 0 /\ T <= RiskPart!Cardinality(Appts)
      /\ RiskPart!Cardinality(Appts) \in Nat /\ (RiskPart!Has("NO_SHOW") = {} => m = 0)
  BY RiskCounts
<1> HIDE DEF m, c, T
<1>4. tenths \in Nat /\ tenths >= 6 * m /\ tenths <= 10 * T /\ (m = 0 => tenths <= 4 * T)
  <2>1. CASE RiskPart!LateConfirmRisk = 0
    BY <1>3, <2>1
  <2>2. CASE RiskPart!LateConfirmRisk = 1
    BY <1>3, <2>2
  <2>3. CASE RiskPart!LateConfirmRisk = 2
    BY <1>3, <2>3
  <2> QED
    BY <1>1, <2>1, <2>2, <2>3
<1> HIDE DEF tenths
<1>5. RiskPart!NewScore.tenths = tenths /\ RiskPart!NewScore.total = T
  BY <1>2
<1>6. tenths \in 0..(10 * RiskPart!Cardinality(Appts)) /\ T \in 1..RiskPart!Cardinality(Appts)
  BY <1>3, <1>4
<1>7. RiskPart!NewScore \in RiskPart!Score
  BY <1>2, <1>6 DEF RiskPart!Score
<1>8. RiskPart!OfNow(RiskPart!NewScore)
  BY <1>4, <1>5 DEF RiskPart!OfNow, m, T
<1>9. RiskPart!Has("NO_SHOW") = {} => ~RiskPart!High(RiskPart!NewScore)
  BY <1>3, <1>4, <1>5 DEF RiskPart!High
<1> QED
  BY <1>7, <1>8, <1>9

\* A step of a listener that is not yet to write.
LEMMA GoesTypes ==
    ASSUME Scoring, NEW l \in Listeners,
           NEW to \in [pc: {"no", "read"}] \cup [pc: {"write"}, score: RiskPart!Score], RiskPart!Goes(l, to)
    PROVE  /\ x2' \in [Listeners -> [pc: {"no", "read"}] \cup [pc: {"write"}, score: RiskPart!Score]]
           /\ x2'[l] = to /\ \A k \in Listeners : k # l => x2'[k] = x2[k]
           /\ RiskPart!Writers' = IF to.pc = "write" THEN RiskPart!Writers \cup {l} ELSE RiskPart!Writers \ {l}
<1>1. x2' = [x2 EXCEPT ![l] = to] /\ DOMAIN x2 = Listeners
  BY RiskTypes DEF RiskPart!Goes
<1>2. x2'[l] = to /\ \A k \in Listeners : k # l => x2'[k] = x2[k]
  BY <1>1
<1>3. x2' \in [Listeners -> [pc: {"no", "read"}] \cup [pc: {"write"}, score: RiskPart!Score]]
  BY <1>1, RiskTypes
<1>4. RiskPart!Writers' = IF to.pc = "write" THEN RiskPart!Writers \cup {l} ELSE RiskPart!Writers \ {l}
  BY <1>2 DEF RiskPart!Writers
<1> QED
  BY <1>2, <1>3, <1>4

LEMMA IdleListens ==
    /\ RiskPart!Idle \in [pc: {"no", "read"}] /\ RiskPart!Idle.pc = "no"
    /\ [pc |-> "read"] \in [pc: {"no", "read"}] /\ [pc |-> "read"].pc = "read"
BY DEF RiskPart!Idle

LEMMA ScoreReadStep ==
    ASSUME Scoring, NEW l \in Listeners, RiskPart!Read(l), x6' = x6
    PROVE  Scoring'
<1>0. x6' /\ x6' \in Emitters
  BY WhoRunsHeard, RiskTypes DEF RiskPart!Read
<1>1. /\ x2[l].pc = "read" /\ UNCHANGED <<x1, x3, x4>>
      /\ x5' = (x5 \/ \E other \in Listeners : x2[other].pc = "write")
  BY DEF RiskPart!Read
<1>2. /\ RiskPart!Has("NO_SHOW")' = RiskPart!Has("NO_SHOW") /\ RiskPart!Total' = RiskPart!Total
      /\ \A s : RiskPart!OfNow(s)' <=> RiskPart!OfNow(s)
      /\ RiskPart!HighRisk' <=> RiskPart!HighRisk
  BY <1>1 DEF RiskPart!Has, RiskPart!Total, RiskPart!Counted, RiskPart!OfNow, RiskPart!HighRisk, RiskPart!High
<1>3. x5' \in BOOLEAN /\ (~x5' => ~x5 /\ RiskPart!Writers = {})
  BY <1>1, RiskTypes DEF RiskPart!Writers
<1>4. CASE RiskPart!Total = 0
  <2>1. RiskPart!Goes(l, RiskPart!Idle)
    BY <1>4 DEF RiskPart!Read
  <2>2. /\ x2' \in [Listeners -> [pc: {"no", "read"}] \cup [pc: {"write"}, score: RiskPart!Score]]
        /\ \A k \in Listeners : k # l => x2'[k] = x2[k]
        /\ RiskPart!Writers' = RiskPart!Writers \ {l}
    BY <2>1, GoesTypes, IdleListens
  <2>3. RiskPart!TypeOK'
    BY <1>0, <1>1, <1>3, <2>2, RiskTypes DEF RiskPart!TypeOK
  <2>4. ~x4' => RiskPart!Has("NO_SHOW")' = {} /\ ~RiskPart!HighRisk' /\ \A k \in RiskPart!Writers' : ~RiskPart!High(x2'[k].score)
    BY <1>1, <1>2, <2>2 DEF Scoring, RiskPart!ScoresFollow, RiskPart!Writers
  <2>5. ~x5' => RiskPart!Writers' = {} /\ RiskPart!Total' = 0
    BY <1>2, <1>3, <1>4, <2>2
  <2> QED
    BY <1>0, <2>3, <2>4, <2>5 DEF Scoring, RiskPart!ScoresFollow
<1>5. CASE RiskPart!Total # 0
  <2> DEFINE to == [pc |-> "write", score |-> RiskPart!NewScore]
  <2>1. RiskPart!Goes(l, to)
    BY <1>5 DEF RiskPart!Read
  <2>2. to.pc = "write" /\ to.score = RiskPart!NewScore /\ to \in [pc: {"write"}, score: RiskPart!Score]
    BY <1>5, NewScoreFollows
  <2> HIDE DEF to
  <2>3. /\ x2' \in [Listeners -> [pc: {"no", "read"}] \cup [pc: {"write"}, score: RiskPart!Score]]
        /\ \A k \in Listeners : k # l => x2'[k] = x2[k]
        /\ x2'[l] = to /\ RiskPart!Writers' = RiskPart!Writers \cup {l}
    BY <2>1, <2>2, GoesTypes
  <2>4. RiskPart!TypeOK'
    BY <1>0, <1>1, <1>3, <2>3, RiskTypes DEF RiskPart!TypeOK
  <2>5. ~x4' => RiskPart!Has("NO_SHOW")' = {} /\ ~RiskPart!HighRisk' /\ \A k \in RiskPart!Writers' : ~RiskPart!High(x2'[k].score)
    <3> SUFFICES ASSUME ~x4, NEW k \in RiskPart!Writers'
                 PROVE  /\ RiskPart!Has("NO_SHOW") = {} /\ ~RiskPart!HighRisk
                        /\ ~RiskPart!High(x2'[k].score)
      BY <1>1, <1>2, <2>3
    <3>1. /\ RiskPart!Has("NO_SHOW") = {} /\ ~RiskPart!HighRisk
          /\ \A j \in RiskPart!Writers : ~RiskPart!High(x2[j].score)
      BY DEF Scoring, RiskPart!ScoresFollow
    <3>2. CASE k = l
      BY <1>5, <2>2, <2>3, <3>1, <3>2, NewScoreFollows
    <3>3. CASE k # l
      BY <2>3, <3>1, <3>3 DEF RiskPart!Writers
    <3> QED
      BY <3>1, <3>2, <3>3
  <2>6. ~x5' => RiskPart!Writers' = {l} /\ RiskPart!OfNow(x2[l].score)'
    <3>1. PICK s : s = RiskPart!NewScore
      OBVIOUS
    <3>2. RiskPart!OfNow(s)'
      BY <1>2, <1>5, <3>1, NewScoreFollows
    <3>3. x2'[l].score = s
      BY <2>2, <2>3, <3>1
    <3>4. RiskPart!OfNow(x2[l].score)'
      BY <3>2, <3>3 DEF RiskPart!OfNow
    <3> QED
      BY <1>3, <2>3, <3>4
  <2> QED
    BY <1>0, <2>4, <2>5, <2>6 DEF Scoring, RiskPart!ScoresFollow
<1> QED
  BY <1>4, <1>5

LEMMA WriteStep ==
    ASSUME Scoring, NEW l \in Listeners, RiskPart!Write(l), x6' = x6
    PROVE  Scoring'
<1>0. x6' /\ x6' \in Emitters
  BY WhoRunsHeard, RiskTypes DEF RiskPart!Write
<1>1. /\ x2[l].pc = "write" /\ x3' = x2[l].score /\ UNCHANGED <<x1, x4, x5>> /\ l \in RiskPart!Writers
  BY DEF RiskPart!Write, RiskPart!Writers
<1>2. /\ RiskPart!Has("NO_SHOW")' = RiskPart!Has("NO_SHOW") /\ RiskPart!Total' = RiskPart!Total
      /\ \A s : RiskPart!OfNow(s)' <=> RiskPart!OfNow(s)
      /\ RiskPart!HighRisk' <=> RiskPart!High(x2[l].score)
  BY <1>1 DEF RiskPart!Has, RiskPart!Total, RiskPart!Counted, RiskPart!OfNow, RiskPart!HighRisk, RiskPart!High
<1>3. /\ x2' \in [Listeners -> [pc: {"no", "read"}] \cup [pc: {"write"}, score: RiskPart!Score]]
      /\ x2'[l].pc = "no" /\ \A k \in Listeners : k # l => x2'[k] = x2[k]
      /\ RiskPart!Writers' = RiskPart!Writers \ {l}
  BY GoesTypes, IdleListens DEF RiskPart!Write
<1>4. RiskPart!TypeOK'
  <2>1. x2[l].score \in RiskPart!Score
    BY <1>1, RiskTypes
  <2> QED
    BY <1>0, <1>1, <1>3, <2>1, RiskTypes DEF RiskPart!TypeOK
<1>5. ~x4' => RiskPart!Has("NO_SHOW")' = {} /\ ~RiskPart!HighRisk' /\ \A k \in RiskPart!Writers' : ~RiskPart!High(x2'[k].score)
  BY <1>1, <1>2, <1>3 DEF Scoring, RiskPart!ScoresFollow, RiskPart!Writers
<1>6. ~x5' => RiskPart!Writers' = {}
  BY <1>1, <1>3 DEF Scoring, RiskPart!ScoresFollow
<1>7. ~x5' /\ (\A k \in Listeners : x2'[k].pc # "read") => RiskPart!OfNow(x3)'
  <2> SUFFICES ASSUME ~x5, \A k \in Listeners : x2'[k].pc # "read"
               PROVE  RiskPart!OfNow(x3)'
    BY <1>1
  <2>1. \A k \in Listeners : x2[k].pc # "read"
    BY <1>1, <1>3
  <2>2. RiskPart!OfNow(x2[l].score)
    BY <1>0, <1>1, <2>1 DEF Scoring, RiskPart!ScoresFollow
  <2>3. PICK s : s = x2[l].score
    OBVIOUS
  <2>4. RiskPart!OfNow(s)' /\ x3' = s
    BY <1>1, <1>2, <2>2, <2>3
  <2> QED
    BY <2>4 DEF RiskPart!OfNow
<1> QED
  BY <1>0, <1>4, <1>5, <1>6, <1>7 DEF Scoring, RiskPart!ScoresFollow

LEMMA FailsStep ==
    ASSUME Scoring, NEW l \in Listeners, RiskPart!Fails(l), x6' = x6
    PROVE  Scoring'
<1>0. x6' /\ x6' \in Emitters
  BY RiskTypes DEF RiskPart!Fails, Scoring, RiskPart!ScoresFollow
<1>1. x5' = TRUE /\ UNCHANGED <<x1, x3, x4>>
  BY DEF RiskPart!Fails
<1>2. /\ x2' \in [Listeners -> [pc: {"no", "read"}] \cup [pc: {"write"}, score: RiskPart!Score]]
      /\ \A k \in Listeners : k # l => x2'[k] = x2[k]
      /\ RiskPart!Writers' = RiskPart!Writers \ {l}
  BY GoesTypes, IdleListens DEF RiskPart!Fails
<1>3. RiskPart!Has("NO_SHOW")' = RiskPart!Has("NO_SHOW") /\ (RiskPart!HighRisk' <=> RiskPart!HighRisk)
  BY <1>1 DEF RiskPart!Has, RiskPart!HighRisk, RiskPart!High
<1>4. RiskPart!TypeOK'
  BY <1>0, <1>1, <1>2, RiskTypes DEF RiskPart!TypeOK
<1>5. ~x4' => RiskPart!Has("NO_SHOW")' = {} /\ ~RiskPart!HighRisk' /\ \A k \in RiskPart!Writers' : ~RiskPart!High(x2'[k].score)
  BY <1>1, <1>2, <1>3 DEF Scoring, RiskPart!ScoresFollow, RiskPart!Writers
<1> QED
  BY <1>0, <1>1, <1>4, <1>5 DEF Scoring, RiskPart!ScoresFollow

\* A change of an appointment, heard or not: rows stay rows, and nothing is missed that
\* was not, unless the change says so.
LEMMA RowChanges ==
    ASSUME Scoring, NEW a \in Appts, NEW row \in RiskPart!Row, x1' = [x1 EXCEPT ![a] = row]
    PROVE  /\ x1' \in [Appts -> RiskPart!Row]
           /\ row.status # "NO_SHOW" /\ RiskPart!Has("NO_SHOW") = {} => RiskPart!Has("NO_SHOW")' = {}
           /\ row.status = x1[a].status => \A s : RiskPart!Has(s)' = RiskPart!Has(s)
<1>1. /\ x1' \in [Appts -> RiskPart!Row] /\ x1'[a] = row /\ \A b \in Appts : b # a => x1'[b] = x1[b]
  BY RiskTypes
<1> QED
  BY <1>1 DEF RiskPart!Has

LEMMA Unheard ==
    ASSUME Scoring
    PROVE  ~x6 => x3 = RiskPart!Unscored /\ \A l \in Listeners : x2[l] = RiskPart!Idle
BY DEF Scoring, RiskPart!ScoresFollow

LEMMA UnheardStep ==
    ASSUME Scoring, RiskPart!ChangeUnheard, x6' = x6
    PROVE  Scoring'
<1>1. x5' = TRUE /\ UNCHANGED <<x2, x3, x4, x6>>
  BY DEF RiskPart!ChangeUnheard
<1>0. ~x6' => x3' = RiskPart!Unscored' /\ \A l \in Listeners : x2'[l] = RiskPart!Idle'
  BY <1>1, Unheard DEF RiskPart!Unscored, RiskPart!Idle
<1>2. PICK a \in Appts, row \in RiskPart!Row : row.status # "NO_SHOW" /\ x1' = [x1 EXCEPT ![a] = row]
  <2>1. PICK a \in Appts, lead \in Leads :
           x1' \in {[x1 EXCEPT ![a] = [status |-> "SCHEDULED", confirmed |-> RiskPart!NoLead, cancelled |-> RiskPart!NoLead]],
                    [x1 EXCEPT ![a].status = "CANCELLED", ![a].cancelled = lead]}
    BY DEF RiskPart!ChangeUnheard
  <2>2. [status |-> "SCHEDULED", confirmed |-> RiskPart!NoLead, cancelled |-> RiskPart!NoLead] \in RiskPart!Row
    BY DEF RiskPart!Row, RiskPart!Statuses
  <2> DEFINE row == [x1[a] EXCEPT !.status = "CANCELLED", !.cancelled = lead]
  <2>3. row \in RiskPart!Row /\ row.status = "CANCELLED"
    BY RiskTypes DEF RiskPart!Row, RiskPart!Statuses
  <2>4. [x1 EXCEPT ![a].status = "CANCELLED", ![a].cancelled = lead] = [x1 EXCEPT ![a] = row]
    BY RiskTypes
  <2> HIDE DEF row
  <2> QED
    BY <2>1, <2>2, <2>3, <2>4
<1>3. x1' \in [Appts -> RiskPart!Row] /\ (RiskPart!Has("NO_SHOW") = {} => RiskPart!Has("NO_SHOW")' = {})
  BY <1>2, RowChanges
<1>4. RiskPart!TypeOK'
  BY <1>1, <1>3, RiskTypes DEF RiskPart!TypeOK
<1>5. ~x4' => RiskPart!Has("NO_SHOW")' = {} /\ ~RiskPart!HighRisk' /\ \A k \in RiskPart!Writers' : ~RiskPart!High(x2'[k].score)
  BY <1>1, <1>3 DEF Scoring, RiskPart!ScoresFollow, RiskPart!Writers, RiskPart!HighRisk
<1> QED
  BY <1>0, <1>1, <1>4, <1>5 DEF Scoring, RiskPart!ScoresFollow

LEMMA LaterStep ==
    ASSUME Scoring, RiskPart!LaterWrite, x6' = x6
    PROVE  Scoring'
<1>1. UNCHANGED <<x2, x3, x4, x5, x6>>
  BY DEF RiskPart!LaterWrite
<1>0. ~x6' => x3' = RiskPart!Unscored' /\ \A l \in Listeners : x2'[l] = RiskPart!Idle'
  BY <1>1, Unheard DEF RiskPart!Unscored, RiskPart!Idle
<1>2. PICK a \in Appts, row \in RiskPart!Row : row.status = x1[a].status /\ x1' = [x1 EXCEPT ![a] = row]
  <2>1. PICK a \in Appts, lead \in Leads :
           x1' \in {[x1 EXCEPT ![a].confirmed = lead], [x1 EXCEPT ![a].cancelled = lead]}
    BY DEF RiskPart!LaterWrite
  <2> DEFINE confirmed == [x1[a] EXCEPT !.confirmed = lead]
             cancelled == [x1[a] EXCEPT !.cancelled = lead]
  <2>2. /\ confirmed \in RiskPart!Row /\ cancelled \in RiskPart!Row
        /\ confirmed.status = x1[a].status /\ cancelled.status = x1[a].status
    BY RiskTypes DEF RiskPart!Row
  <2>3. x1' \in {[x1 EXCEPT ![a] = confirmed], [x1 EXCEPT ![a] = cancelled]}
    BY <2>1, RiskTypes
  <2> HIDE DEF confirmed, cancelled
  <2> QED
    BY <2>2, <2>3
<1>3. x1' \in [Appts -> RiskPart!Row] /\ \A s : RiskPart!Has(s)' = RiskPart!Has(s)
  BY <1>2, RowChanges
<1>4. RiskPart!Total' = RiskPart!Total /\ \A s : RiskPart!OfNow(s)' <=> RiskPart!OfNow(s)
  BY <1>3 DEF RiskPart!Total, RiskPart!Counted, RiskPart!OfNow
<1>5. RiskPart!Writers' = RiskPart!Writers /\ (RiskPart!HighRisk' <=> RiskPart!HighRisk)
  BY <1>1 DEF RiskPart!Writers, RiskPart!HighRisk
<1>6. RiskPart!TypeOK'
  BY <1>1, <1>3, RiskTypes DEF RiskPart!TypeOK
<1>7. (RiskPart!OfNow(x3)' <=> RiskPart!OfNow(x3))
      /\ \A l \in Listeners : RiskPart!OfNow(x2[l].score)' <=> RiskPart!OfNow(x2[l].score)
  BY <1>1, <1>3, <1>4 DEF RiskPart!OfNow
<1> QED
  BY <1>0, <1>1, <1>3, <1>4, <1>5, <1>6, <1>7 DEF Scoring, RiskPart!ScoresFollow, RiskPart!Writers

\* A change of status: a listener is called, or none where the list is not heard.
LEMMA HeardStep ==
    ASSUME Scoring, RiskPart!ChangeStatus, x6' = x6
    PROVE  Scoring'
<1>0. PICK a \in Appts, to \in RiskPart!Statuses \ {"SCHEDULED"} :
         /\ \E row \in RiskPart!Changed(x1[a], to) : x1' = [x1 EXCEPT ![a] = row]
         /\ \/ x6 /\ \E l \in Listeners : RiskPart!Goes(l, [pc |-> "read"])
            \/ ~x6 /\ x2' = x2
         /\ x4' = (x4 \/ to = "NO_SHOW") /\ UNCHANGED <<x3, x5>>
  BY DEF RiskPart!ChangeStatus
<1>1. PICK row \in RiskPart!Changed(x1[a], to) : x1' = [x1 EXCEPT ![a] = row]
  BY <1>0
<1>2. row \in RiskPart!Row /\ row.status = to
  <2>1. x1[a] \in RiskPart!Row
    BY RiskTypes
  <2> QED
    BY <1>1, <2>1 DEF RiskPart!Changed, RiskPart!Row
<1>3. x1' \in [Appts -> RiskPart!Row] /\ (to # "NO_SHOW" /\ RiskPart!Has("NO_SHOW") = {} => RiskPart!Has("NO_SHOW")' = {})
  BY <1>1, <1>2, RowChanges
<1>4. CASE ~x6
  <2>1. x2' = x2 /\ x3' = x3 /\ ~x6'
    BY <1>0, <1>4
  <2>2. RiskPart!TypeOK'
    BY <1>0, <1>3, <2>1, RiskTypes DEF RiskPart!TypeOK
  <2>3. x3' = RiskPart!Unscored' /\ \A k \in Listeners : x2'[k] = RiskPart!Idle'
    BY <1>4, <2>1, Unheard DEF RiskPart!Unscored, RiskPart!Idle
  <2>4. RiskPart!Writers' = {}
    BY <2>3 DEF RiskPart!Writers, RiskPart!Idle
  <2>5. ~x4' => RiskPart!Has("NO_SHOW")' = {} /\ ~RiskPart!HighRisk'
    BY <1>0, <1>3 DEF Scoring, RiskPart!ScoresFollow, RiskPart!HighRisk
  <2> QED
    BY <2>1, <2>2, <2>3, <2>4, <2>5 DEF Scoring, RiskPart!ScoresFollow
<1>5. CASE x6
  <2>0. PICK l \in Listeners : RiskPart!Goes(l, [pc |-> "read"])
    BY <1>0, <1>5
  <2>1. /\ x2' \in [Listeners -> [pc: {"no", "read"}] \cup [pc: {"write"}, score: RiskPart!Score]]
        /\ x2'[l].pc = "read" /\ \A k \in Listeners : k # l => x2'[k] = x2[k]
        /\ RiskPart!Writers' = RiskPart!Writers \ {l}
    BY <2>0, GoesTypes, IdleListens
  <2>2. RiskPart!TypeOK'
    BY <1>0, <1>3, <2>1, RiskTypes DEF RiskPart!TypeOK
  <2>3. ~x4' => RiskPart!Has("NO_SHOW")' = {} /\ ~RiskPart!HighRisk' /\ \A k \in RiskPart!Writers' : ~RiskPart!High(x2'[k].score)
    BY <1>0, <1>3, <2>1 DEF Scoring, RiskPart!ScoresFollow, RiskPart!Writers, RiskPart!HighRisk
  <2>4. ~x5' => \A j, k \in RiskPart!Writers' : j = k
    BY <1>0, <2>1 DEF Scoring, RiskPart!ScoresFollow
  <2> QED
    BY <1>5, <2>1, <2>2, <2>3, <2>4 DEF Scoring, RiskPart!ScoresFollow
<1> QED
  BY <1>4, <1>5

LEMMA RiskStep ==
    ASSUME Scoring, [RiskPart!Next]_(RiskPart!vars)
    PROVE  Scoring'
<1>1. CASE UNCHANGED RiskPart!vars
  BY <1>1 DEF RiskPart!vars, Scoring, RiskPart!TypeOK, RiskPart!ScoresFollow, RiskPart!Has, RiskPart!HighRisk,
     RiskPart!Writers, RiskPart!OfNow, RiskPart!Total, RiskPart!Counted, RiskPart!Unscored, RiskPart!Idle
<1>2. CASE RiskPart!Next
  BY <1>2, HeardStep, UnheardStep, LaterStep, ScoreReadStep, WriteStep, FailsStep DEF RiskPart!Next
<1> QED
  BY <1>1, <1>2

\* What the scores say.
LEMMA ScoresSay ==
    ASSUME Scoring
    PROVE  RiskPart!RiskIsOfMisses
<1> DEFINE m == RiskPart!Cardinality(RiskPart!Has("NO_SHOW"))
           T == RiskPart!Total
<1>1. RiskPart!HighRisk => x4
  BY DEF Scoring, RiskPart!ScoresFollow
<1>0. ~x6 => x3 = RiskPart!Unscored
  BY Unheard
<1>2. ASSUME x6, 6 * m >= 5 * T, T > 0, \A l \in Listeners : x2[l] = RiskPart!Idle, ~x5
      PROVE  RiskPart!HighRisk
  <2>1. /\ \A l \in Listeners : x2[l].pc # "read"
        /\ RiskPart!Writers = {}
    BY <1>2, IdleListens DEF RiskPart!Writers
  <2>2. T \in Nat /\ m \in 0..T
    BY RiskCounts
  <2>3. RiskPart!OfNow(x3)
    BY <1>2, <2>1, <2>2 DEF Scoring, RiskPart!ScoresFollow
  <2>4. x3.total = T /\ x3.tenths >= 6 * m /\ x3.tenths \in Int
    BY <2>3, RiskTypes DEF RiskPart!OfNow, RiskPart!Score
  <2> HIDE DEF m, T
  <2> QED
    BY <1>2, <2>2, <2>4 DEF RiskPart!HighRisk, RiskPart!High
<1> QED
  BY <1>0, <1>1, <1>2 DEF RiskPart!RiskIsOfMisses

LEMMA ScoringBegins ==
    ASSUME RiskPart!Init
    PROVE  Scoring
<1>1. /\ x1 = [a \in Appts |-> [status |-> "SCHEDULED", confirmed |-> RiskPart!NoLead, cancelled |-> RiskPart!NoLead]]
      /\ x2 = [l \in Listeners |-> RiskPart!Idle] /\ x3 = [tenths |-> 0, total |-> 1] /\ x4 = FALSE /\ x5 = FALSE
      /\ x6 \in Emitters /\ x3 = RiskPart!Unscored
  BY DEF RiskPart!Init, RiskPart!Unscored
<1>2. Cardinality(Appts) \in Nat /\ Cardinality(Appts) # 0 /\ Cardinality({}) = 0
  BY ServicesAssumption, FS_EmptySet, FS_CardinalityType
<1>3. x3 \in RiskPart!Score
  BY <1>1, <1>2, RiskCardinality DEF RiskPart!Score
<1>4. RiskPart!TypeOK
  BY <1>1, <1>3, IdleListens DEF RiskPart!TypeOK, RiskPart!Row, RiskPart!Statuses
<1>5. RiskPart!Has("NO_SHOW") = {} /\ RiskPart!Counted = {} /\ RiskPart!Writers = {} /\ ~RiskPart!HighRisk
  BY <1>1, IdleListens DEF RiskPart!Has, RiskPart!Counted, RiskPart!Writers, RiskPart!HighRisk, RiskPart!High
<1>6. RiskPart!Total = 0
  BY <1>2, <1>5, RiskCardinality DEF RiskPart!Total
<1> QED
  BY <1>1, <1>4, <1>5, <1>6 DEF Scoring, RiskPart!ScoresFollow

-----------------------------------------------------------------------------
(* LeadList: leads is x1, query x2, total x3, pages x4                     *)

Listing == LeadListPart!TypeOK /\ LeadListPart!PagesGoOn

LEMMA LeadListCardinality ==
    ASSUME NEW S
    PROVE  LeadListPart!Cardinality(S) = Cardinality(S)
BY DEF LeadListPart!Cardinality, Cardinality

\* A score is a number.
LEMMA PointsAreNumbers ==
    ASSUME Listing, NEW a \in LeadIds, NEW entered
    PROVE  LeadListPart!Points(a, entered) \in Int
<1> DEFINE p == x1[a].profile
           source == LeadListPart!SourceWeight(p.source)
           stage == LeadListPart!StageProgressWeight(p.stage)
           hours == IF entered[a] <= 1 THEN 20 ELSE IF entered[a] <= 24 THEN 10 ELSE 0
           told == LeadListPart!If(p.painPoints, 15)
           wanted == LeadListPart!If(p.desires, 10)
           against == LeadListPart!If(p.objections, 10)
           sum == source + stage + told + wanted - against + hours
<1>1. p.source \in LeadListPart!Sources /\ p.stage \in LeadListPart!Stages
  BY DEF Listing, LeadListPart!TypeOK, LeadListPart!Profile
<1>2. source \in Int
  <2>1. \A s \in LeadListPart!Sources : LeadListPart!SourceWeight(s) \in Int
    BY DEF LeadListPart!SourceWeight, LeadListPart!Sources
  <2> QED
    BY <1>1, <2>1
<1>3. stage \in Int
  <2>1. \A s \in LeadListPart!Stages : LeadListPart!StageProgressWeight(s) \in Int
    BY DEF LeadListPart!StageProgressWeight, LeadListPart!Stages
  <2> QED
    BY <1>1, <2>1
<1>4. told \in Int /\ wanted \in Int /\ against \in Int /\ hours \in Int
  BY DEF LeadListPart!If
<1>5. LeadListPart!Points(a, entered) = IF sum < 0 THEN 0 ELSE IF sum > 100 THEN 100 ELSE sum
  BY DEF LeadListPart!Points, LeadListPart!ComputeLeadScore
<1> HIDE DEF source, stage, told, wanted, against, hours
<1>6. sum \in Int
  BY <1>2, <1>3, <1>4
<1> HIDE DEF sum
<1> QED
  BY <1>5, <1>6

\* The order of the list, as a relation.
LeadsBefore(entered) == {p \in LeadIds \X LeadIds : LeadListPart!Before(p[1], p[2], entered)}

\* The order is one of all leads: by id where all else is the same.
LEMMA LeadsAreOrdered ==
    ASSUME Listing, NEW entered
    PROVE  Orders(LeadsBefore(entered), LeadIds)
<1> DEFINE points(a) == LeadListPart!Points(a, entered)
           made(a) == x1[a].createdAt
<1>1. \A a \in LeadIds : points(a) \in Int /\ made(a) \in Int /\ a \in Nat
  BY PointsAreNumbers, ServicesAssumption DEF Listing, LeadListPart!TypeOK
<1>2. \A a, b \in LeadIds : <<a, b>> \in LeadsBefore(entered) <=>
         \/ (x2.desc /\ points(a) > points(b)) \/ (~x2.desc /\ points(a) < points(b))
         \/ points(a) = points(b) /\ (made(a) > made(b) \/ (made(a) = made(b) /\ a < b))
  BY DEF LeadsBefore, LeadListPart!Before, LeadListPart!Better
<1> HIDE DEF points, made
<1>3. \A a \in LeadIds : ~(<<a, a>> \in LeadsBefore(entered))
  BY <1>1, <1>2
<1>4. \A a, b \in LeadIds : a # b => <<a, b>> \in LeadsBefore(entered) \/ <<b, a>> \in LeadsBefore(entered)
  BY <1>1, <1>2
<1>5. ASSUME NEW a \in LeadIds, NEW b \in LeadIds, NEW c \in LeadIds,
             <<a, b>> \in LeadsBefore(entered), <<b, c>> \in LeadsBefore(entered)
      PROVE  <<a, c>> \in LeadsBefore(entered)
  <2>1. /\ points(a) \in Int /\ points(b) \in Int /\ points(c) \in Int
        /\ made(a) \in Int /\ made(b) \in Int /\ made(c) \in Int /\ a \in Nat /\ b \in Nat /\ c \in Nat
    BY <1>1
  <2>2. CASE x2.desc
    BY <1>2, <1>5, <2>1, <2>2
  <2>3. CASE ~x2.desc
    BY <1>2, <1>5, <2>1, <2>3
  <2> QED
    BY <2>2, <2>3
<1> QED
  BY <1>3, <1>4, <1>5 DEF Orders

\* How many leads come before a.
LeadPlace(a, entered) == Cardinality(Preceding(a, LeadIds, LeadsBefore(entered)))

LEMMA LeadsHavePlaces ==
    ASSUME Listing, NEW entered
    PROVE  /\ \A n \in 1..Cardinality(LeadIds) : \E a \in LeadIds : LeadPlace(a, entered) = n - 1
           /\ \A a \in LeadIds : LeadPlace(a, entered) \in 0..(Cardinality(LeadIds) - 1)
           /\ \A a, b \in LeadIds : LeadListPart!Before(a, b, entered) => LeadPlace(a, entered) < LeadPlace(b, entered)
           /\ \A a, b \in LeadIds : LeadPlace(a, entered) = LeadPlace(b, entered) => a = b
           /\ Cardinality(LeadIds) \in Nat
<1> DEFINE R == LeadsBefore(entered)
<1>1. IsFiniteSet(LeadIds) /\ Orders(R, LeadIds)
  BY ServicesAssumption, LeadsAreOrdered
<1>2. Cardinality(LeadIds) \in Nat
  BY <1>1, FS_CardinalityType
<1>3. \A a, b \in LeadIds : <<a, b>> \in R <=> LeadListPart!Before(a, b, entered)
  BY DEF LeadsBefore
<1> HIDE DEF R
<1>4. /\ \A n \in 1..Cardinality(LeadIds) : \E a \in LeadIds : Cardinality(Preceding(a, LeadIds, R)) = n - 1
      /\ \A a \in LeadIds : Cardinality(Preceding(a, LeadIds, R)) \in 0..(Cardinality(LeadIds) - 1)
      /\ \A a, b \in LeadIds : <<a, b>> \in R =>
            Cardinality(Preceding(a, LeadIds, R)) < Cardinality(Preceding(b, LeadIds, R))
  BY <1>1, EachHasItsRank
<1>5. ASSUME NEW a \in LeadIds, NEW b \in LeadIds,
             Cardinality(Preceding(a, LeadIds, R)) = Cardinality(Preceding(b, LeadIds, R))
      PROVE  a = b
  <2>1. ~(<<a, b>> \in R) /\ ~(<<b, a>> \in R)
    <3>1. Cardinality(Preceding(a, LeadIds, R)) \in Int
      BY <1>4
    <3> QED
      BY <1>4, <1>5, <3>1
  <2> QED
    BY <1>1, <2>1 DEF Orders
<1> QED
  BY <1>2, <1>3, <1>4, <1>5 DEF LeadPlace, R

\* Each list has the leads in their places, whatever the order of the rows.
LEMMA RankedInPlaces ==
    ASSUME Listing, NEW entered, NEW rows \in LeadListPart!SetToSeqs(LeadIds)
    PROVE  /\ LeadListPart!Ranked(rows, entered) \in [1..Cardinality(LeadIds) -> LeadIds]
           /\ Len(rows) = Cardinality(LeadIds)
           /\ \A n \in 1..Cardinality(LeadIds) :
                 /\ LeadListPart!Ranked(rows, entered)[n] \in LeadIds
                 /\ LeadPlace(LeadListPart!Ranked(rows, entered)[n], entered) = n - 1
<1> DEFINE N == Cardinality(LeadIds)
<1>1. rows \in [1..N -> LeadIds] /\ N \in Nat
  BY LeadListCardinality, LeadsHavePlaces DEF LeadListPart!SetToSeqs
<1>2. DOMAIN rows = 1..N /\ Len(rows) = N
  BY <1>1
<1>3. \A a \in LeadIds : \A b \in LeadIds : LeadListPart!Comes(b, a, rows, entered) <=> LeadListPart!Before(b, a, entered)
  <2> SUFFICES ASSUME NEW a \in LeadIds, NEW b \in LeadIds
               PROVE  LeadListPart!Comes(b, a, rows, entered) <=> LeadListPart!Before(b, a, entered)
    OBVIOUS
  <2>1. CASE a # b
    <3>1. LeadListPart!Before(a, b, entered) \/ LeadListPart!Before(b, a, entered)
      BY <2>1, LeadsAreOrdered DEF Orders, LeadsBefore
    <3> QED
      BY <3>1 DEF LeadListPart!Comes
  <2>2. CASE a = b
    <3>1. \E i \in DOMAIN rows : rows[i] = a
      <4>1. rows \in Injection(1..N, LeadIds)
        <5>1. \A i, j \in 1..N : rows[i] = rows[j] => i = j
          BY LeadListCardinality, LeadsHavePlaces DEF LeadListPart!SetToSeqs
        <5> QED
          BY <1>1, <1>2, <5>1 DEF Injection, IsInjective
      <4>2. IsFiniteSet(LeadIds) /\ Cardinality(1..N) = N
        BY <1>1, ServicesAssumption, FS_Interval
      <4>3. rows \in Surjection(1..N, LeadIds)
        BY <4>1, <4>2, FS_Injection
      <4> QED
        BY <1>2, <4>3 DEF Surjection
    <3> DEFINE at == CHOOSE i \in DOMAIN rows : rows[i] = a
    <3>2. at \in Nat
      BY <1>2, <3>1
    <3> HIDE DEF at
    <3>3. ~(at < at)
      BY <3>2
    <3> QED
      BY <2>2, <3>3 DEF LeadListPart!Comes, at
  <2> QED
    BY <2>1, <2>2
<1>4. \A a \in LeadIds : LeadListPart!Cardinality({b \in LeadIds : LeadListPart!Comes(b, a, rows, entered)}) = LeadPlace(a, entered)
  <2> TAKE a \in LeadIds
  <2>1. {b \in LeadIds : LeadListPart!Comes(b, a, rows, entered)} = Preceding(a, LeadIds, LeadsBefore(entered))
    BY <1>3 DEF Preceding, LeadsBefore
  <2> QED
    BY <2>1, LeadListCardinality DEF LeadPlace
<1>5. ASSUME NEW n \in 1..N
      PROVE  /\ LeadListPart!Ranked(rows, entered)[n] \in LeadIds
             /\ LeadPlace(LeadListPart!Ranked(rows, entered)[n], entered) = n - 1
  <2>1. LeadListPart!Ranked(rows, entered)[n] =
           CHOOSE a \in LeadIds : LeadListPart!Cardinality({b \in LeadIds : LeadListPart!Comes(b, a, rows, entered)}) = n - 1
    BY <1>2 DEF LeadListPart!Ranked
  <2>2. \E a \in LeadIds : LeadListPart!Cardinality({b \in LeadIds : LeadListPart!Comes(b, a, rows, entered)}) = n - 1
    <3>1. PICK a \in LeadIds : LeadPlace(a, entered) = n - 1
      BY LeadsHavePlaces
    <3> QED
      BY <1>4, <3>1
  <2> QED
    BY <1>4, <2>1, <2>2
<1>6. LeadListPart!Ranked(rows, entered) \in [1..N -> LeadIds]
  BY <1>2, <1>5 DEF LeadListPart!Ranked
<1> QED
  BY <1>2, <1>5, <1>6

\* Where no lead entered twice, every request computes with the same entries.
LEMMA SameEntries ==
    ASSUME Listing, LeadListPart!EnteredOnce, NEW e \in LeadListPart!FirstPipelineEntries,
           NEW f \in LeadListPart!FirstPipelineEntries
    PROVE  e = f
<1>1. ASSUME NEW a \in LeadIds
      PROVE  e[a] = f[a]
  <2>1. IsFiniteSet(LeadListPart!Entries(a))
    <3>1. x1[a].profile.entries \subseteq 0..LeadListPart!Never
      <4>1. x1[a].profile \in LeadListPart!Profile
        BY DEF Listing, LeadListPart!TypeOK
      <4> QED
        BY <4>1 DEF LeadListPart!Profile
    <3>2. LeadListPart!Entries(a) \subseteq 0..LeadListPart!Never
      BY <3>1 DEF LeadListPart!Entries, LeadListPart!Never
    <3>3. IsFiniteSet(0..LeadListPart!Never)
      <4>1. LeadListPart!Never \in Int
        BY DEF LeadListPart!Never
      <4> QED
        BY <4>1, FS_Interval
    <3> QED
      BY <3>2, <3>3, FS_Subset
  <2>2. Cardinality(LeadListPart!Entries(a)) = 1
    BY LeadListCardinality DEF LeadListPart!EnteredOnce
  <2>3. PICK x : LeadListPart!Entries(a) = {x}
    BY <2>1, <2>2, FS_Singleton
  <2>4. e[a] \in LeadListPart!Entries(a) /\ f[a] \in LeadListPart!Entries(a)
    BY DEF LeadListPart!FirstPipelineEntries
  <2> QED
    BY <2>3, <2>4
<1> QED
  BY <1>1 DEF LeadListPart!FirstPipelineEntries

LEMMA PlaceOfLead ==
    ASSUME Listing, NEW a \in LeadIds, NEW e, e = CHOOSE f \in LeadListPart!FirstPipelineEntries : TRUE
    PROVE  LeadListPart!Place(a) = LeadPlace(a, e)
<1>1. Preceding(a, LeadIds, LeadsBefore(e)) = {b \in LeadIds : LeadListPart!Before(b, a, e)}
  BY DEF Preceding, LeadsBefore
<1>2. LeadListPart!Place(a) = LeadListPart!Cardinality({b \in LeadIds : LeadListPart!Before(b, a, e)})
  BY DEF LeadListPart!Place
<1> QED
  BY <1>1, <1>2, LeadListCardinality DEF LeadPlace

LEMMA ListStep ==
    ASSUME Listing, LeadListPart!ListByScore
    PROVE  Listing'
<1> DEFINE N == Cardinality(LeadIds)
           t == x2.take
           L == Len(x4)
           last == IF L * t + t < N THEN L * t + t ELSE N
<1>1. PICK rows \in LeadListPart!SetToSeqs(LeadIds), entered \in LeadListPart!FirstPipelineEntries :
         /\ x4 = <<>> \/ LeadListPart!Skip < x3
         /\ x4' = Append(x4, SubSeq(LeadListPart!Ranked(rows, entered), LeadListPart!Skip + 1,
                                    IF LeadListPart!Skip + x2.take < Len(rows) THEN LeadListPart!Skip + x2.take ELSE Len(rows)))
         /\ x3' = Len(rows) /\ UNCHANGED <<x1, x2>>
  BY DEF LeadListPart!ListByScore
<1> DEFINE ranked == LeadListPart!Ranked(rows, entered)
           page == SubSeq(ranked, L * t + 1, last)
<1>2. /\ ranked \in [1..N -> LeadIds] /\ Len(rows) = N /\ N \in Nat
      /\ \A n \in 1..N : ranked[n] \in LeadIds /\ LeadPlace(ranked[n], entered) = n - 1
  BY RankedInPlaces, LeadsHavePlaces
<1>3. /\ x4' = Append(x4, page) /\ x3' = N /\ UNCHANGED <<x1, x2>>
      /\ x4 = <<>> \/ L * t < x3
  BY <1>1, <1>2 DEF LeadListPart!Skip
<1>4. /\ t \in Nat /\ t > 0 /\ x4 \in Seq(Seq(LeadIds)) /\ L \in Nat
      /\ x3 = IF x4 = <<>> THEN 0 ELSE N
  <2>1. x2.take \in PageSizes /\ x4 \in Seq(Seq(LeadIds))
    BY DEF Listing, LeadListPart!TypeOK
  <2>2. x3 = IF x4 = <<>> THEN 0 ELSE N
    BY LeadListCardinality DEF Listing, LeadListPart!PagesGoOn
  <2>3. t \in Nat \ {0}
    BY <2>1, ServicesAssumption
  <2>4. L \in Nat
    BY <2>1
  <2> QED
    BY <2>1, <2>2, <2>3, <2>4
<1> HIDE DEF N, ranked, t
<1>5. L * t \in Nat /\ L * t <= N
  <2>1. CASE x4 = <<>>
    <3>1. L = 0
      BY <2>1
    <3> QED
      BY <1>2, <1>4, <3>1
  <2>2. CASE x4 # <<>>
    <3>1. L * t < N
      BY <1>3, <1>4, <2>2
    <3>2. L * t \in Nat
      BY <1>4
    <3> QED
      BY <3>1, <3>2, <1>2
  <2> QED
    BY <2>1, <2>2
<1>6. ranked \in Seq(LeadIds) /\ Len(ranked) = N
  BY <1>2
<1>7. /\ page \in Seq(LeadIds) /\ Len(page) = last - L * t
      /\ \A i \in 1..Len(page) : page[i] = ranked[L * t + i]
  <2> DEFINE s == L * t
  <2>1. s \in Nat /\ s + 1 \in 1..(N + 1) /\ last \in s..N
    BY <1>2, <1>4, <1>5
  <2> HIDE DEF s, last
  <2>2. SubSeq(ranked, s + 1, last) \in Seq(LeadIds) /\ Len(SubSeq(ranked, s + 1, last)) = last - s
        /\ \A i \in 1..(last - s) : SubSeq(ranked, s + 1, last)[i] = ranked[s + i]
    <3>1. s + 1 \in Int /\ last \in Int /\ \A i \in (s + 1)..last : ranked[i] \in LeadIds
      BY <1>2, <2>1
    <3>2. /\ SubSeq(ranked, s + 1, last) \in Seq(LeadIds)
          /\ Len(SubSeq(ranked, s + 1, last)) = IF s + 1 <= last THEN last - (s + 1) + 1 ELSE 0
          /\ \A i \in 1..(last - (s + 1) + 1) : SubSeq(ranked, s + 1, last)[i] = ranked[(s + 1) + i - 1]
      BY <3>1, SubSeqProperties
    <3>3. s \in Int /\ last \in Int /\ s <= last
      BY <1>2, <2>1
    <3>4. last - (s + 1) + 1 = last - s /\ \A i \in Int : (s + 1) + i - 1 = s + i
      BY <3>3
    <3> QED
      BY <3>2, <3>3, <3>4
  <2> QED
    BY <2>2 DEF s
<1>8. DOMAIN page = {i \in 1..t : L * t + i <= N}
  <2> DEFINE s == L * t
  <2>1. s \in Nat /\ s <= N /\ last = (IF s + t < N THEN s + t ELSE N)
    BY <1>5
  <2>2. DOMAIN page = 1..(last - s)
    BY <1>7
  <2> HIDE DEF s, last, page
  <2>3. 1..(last - s) = {i \in 1..t : s + i <= N}
    BY <1>2, <1>4, <2>1
  <2> QED
    BY <2>2, <2>3 DEF s
<1>9. \A i \in DOMAIN page : page[i] \in LeadIds /\ LeadPlace(page[i], entered) = L * t + i - 1
  <2> TAKE i \in DOMAIN page
  <2>1. i \in 1..t /\ L * t + i <= N /\ i \in 1..Len(page)
    BY <1>7, <1>8
  <2>2. PICK n \in 1..N : n = L * t + i
    BY <1>2, <1>5, <2>1
  <2>3. page[i] = ranked[n]
    BY <1>7, <2>1, <2>2
  <2>4. page[i] \in LeadIds /\ LeadPlace(page[i], entered) = n - 1
    BY <1>2, <2>3
  <2>5. n - 1 = L * t + i - 1
    BY <1>5, <2>1, <2>2
  <2> QED
    BY <2>4, <2>5
<1> HIDE DEF page, last
<1>10. LeadListPart!TypeOK'
  <2>1. x4' \in Seq(Seq(LeadIds))
    BY <1>3, <1>4, <1>7
  <2>2. x3' \in Nat /\ x1' = x1 /\ x2' = x2
    BY <1>2, <1>3
  <2> QED
    BY <2>1, <2>2 DEF Listing, LeadListPart!TypeOK
<1>11. /\ LeadListPart!EnteredOnce' <=> LeadListPart!EnteredOnce
       /\ \A a : LeadListPart!Place(a)' = LeadListPart!Place(a)
  <2>1. LeadListPart!EnteredOnce' <=> LeadListPart!EnteredOnce
    BY <1>3 DEF LeadListPart!EnteredOnce, LeadListPart!Entries
  <2>2. \A a, b, e : LeadListPart!Before(b, a, e)' <=> LeadListPart!Before(b, a, e)
    BY <1>3 DEF LeadListPart!Before, LeadListPart!Better, LeadListPart!Points
  <2>3. LeadListPart!FirstPipelineEntries' = LeadListPart!FirstPipelineEntries
    BY <1>3 DEF LeadListPart!FirstPipelineEntries, LeadListPart!Entries
  <2>4. \A a : LeadListPart!Place(a)' = LeadListPart!Place(a)
    BY <1>3, <2>3 DEF LeadListPart!Place, LeadListPart!Before, LeadListPart!Better, LeadListPart!Points
  <2> QED
    BY <2>1, <2>4
<1>12. /\ Len(x4') = L + 1 /\ x4' # <<>>
       /\ x4'[L + 1] = page /\ \A k \in 1..L : x4'[k] = x4[k]
  BY <1>3, <1>4
<1>13. ASSUME LeadListPart!EnteredOnce, NEW k \in DOMAIN x4'
       PROVE  /\ DOMAIN x4'[k] = {i \in 1..t : (k - 1) * t + i <= N}
              /\ \A i \in DOMAIN x4'[k] : LeadListPart!Place(x4'[k][i]) = (k - 1) * t + i - 1
  <2>1. DOMAIN x4' = 1..(L + 1)
    BY <1>4, <1>10, <1>12 DEF LeadListPart!TypeOK
  <2>2. CASE k \in 1..L
    <3>1. k \in DOMAIN x4 /\ x4'[k] = x4[k]
      BY <1>4, <1>12, <2>2
    <3> QED
      BY <1>13, <3>1, LeadListCardinality DEF Listing, LeadListPart!PagesGoOn, t, N
  <2>3. CASE k = L + 1
    <3>1. k - 1 = L /\ x4'[k] = page
      BY <1>4, <1>12, <2>3
    <3>2. ASSUME NEW i \in DOMAIN page
          PROVE  LeadListPart!Place(page[i]) = L * t + i - 1
      <4>1. PICK e : e = CHOOSE f \in LeadListPart!FirstPipelineEntries : TRUE
        OBVIOUS
      <4>2. e \in LeadListPart!FirstPipelineEntries /\ e = entered
        BY <1>1, <1>13, <4>1, SameEntries
      <4>3. LeadListPart!Place(page[i]) = LeadPlace(page[i], e)
        BY <1>9, <4>1, PlaceOfLead
      <4> QED
        BY <1>9, <4>2, <4>3
    <3> QED
      BY <1>8, <3>1, <3>2
  <2> QED
    BY <1>4, <1>13, <2>1, <2>2, <2>3
<1>14. LeadListPart!PagesGoOn'
  <2>1. x3' = IF x4' = <<>> THEN 0 ELSE LeadListPart!Cardinality(LeadIds)
    BY <1>3, <1>12, LeadListCardinality DEF N
  <2>2. LeadListPart!EnteredOnce' => \A k \in DOMAIN x4' :
           /\ DOMAIN x4'[k] = {i \in 1..x2'.take : (k - 1) * x2'.take + i <= LeadListPart!Cardinality(LeadIds)}
           /\ \A i \in DOMAIN x4'[k] : LeadListPart!Place(x4[k][i])' = (k - 1) * x2'.take + i - 1
    <3> SUFFICES ASSUME LeadListPart!EnteredOnce, NEW k \in DOMAIN x4'
                 PROVE  /\ DOMAIN x4'[k] = {i \in 1..x2'.take : (k - 1) * x2'.take + i <= LeadListPart!Cardinality(LeadIds)}
                        /\ \A i \in DOMAIN x4'[k] : LeadListPart!Place(x4[k][i])' = (k - 1) * x2'.take + i - 1
      BY <1>11
    <3>1. DOMAIN x4'[k] = {i \in 1..x2'.take : (k - 1) * x2'.take + i <= LeadListPart!Cardinality(LeadIds)}
      BY <1>3, <1>13, LeadListCardinality DEF t, N
    <3>2. ASSUME NEW i \in DOMAIN x4'[k]
          PROVE  LeadListPart!Place(x4[k][i])' = (k - 1) * x2'.take + i - 1
      <4>1. PICK a : a = x4'[k][i]
        OBVIOUS
      <4>2. LeadListPart!Place(a)' = (k - 1) * x2'.take + i - 1
        BY <1>3, <1>11, <1>13, <4>1 DEF t
      <4> QED
        BY <4>1, <4>2 DEF LeadListPart!Place
    <3> QED
      BY <3>1, <3>2
  <2> QED
    BY <2>1, <2>2 DEF LeadListPart!PagesGoOn
<1> QED
  BY <1>10, <1>14 DEF Listing

\* Where a number lies on the pages: on exactly one, at one place of it.
LEMMA OnOnePage ==
    ASSUME NEW t \in Nat \ {0}, NEW L \in Nat, NEW n \in Nat \ {0}, n <= L * t
    PROVE  \E k \in 1..L, i \in 1..t : (k - 1) * t + i = n
<1> DEFINE R == OpToRel(<, Nat)
           S == {k \in Nat : n <= k * t}
<1>1. IsWellFoundedOn(R, Nat)
  BY NatLessThanWellFounded
<1>2. \A x, y \in Nat : x < y => <<x, y>> \in R
  BY DEF OpToRel
<1>3. L \in S /\ S \subseteq Nat
  OBVIOUS
<1> HIDE DEF R
<1>4. PICK k \in S : \A y \in S : ~(<<y, k>> \in R)
  <2> HIDE DEF S
  <2> QED
    BY <1>1, <1>3, WFMin
<1>5. k \in Nat /\ n <= k * t /\ k # 0 /\ k <= L
  <2>1. k \in Nat /\ n <= k * t /\ ~(L < k)
    BY <1>2, <1>3, <1>4
  <2>2. k # 0
    BY <2>1
  <2> QED
    BY <2>1, <2>2
<1>6. k - 1 \in Nat /\ ~(n <= (k - 1) * t)
  <2>1. k - 1 \in Nat /\ k - 1 < k
    BY <1>5
  <2>2. k - 1 \notin S
    BY <1>2, <1>4, <1>5, <2>1
  <2> QED
    BY <2>1, <2>2
<1>7. k * t = (k - 1) * t + t /\ (k - 1) * t \in Nat
  BY <1>5, <1>6
<1>8. PICK m : m = (k - 1) * t
  OBVIOUS
<1>9. n - m \in 1..t /\ m + (n - m) = n
  BY <1>5, <1>6, <1>7, <1>8
<1>10. k \in 1..L
  BY <1>5
<1> QED
  BY <1>8, <1>9, <1>10

\* A place on an earlier page, or earlier on the same, is an earlier place.
LEMMA PagesInOrder ==
    ASSUME NEW t \in Nat \ {0}, NEW j \in Nat \ {0}, NEW k \in Nat \ {0}, NEW h \in 1..t, NEW i \in 1..t,
           j < k \/ (j = k /\ h < i)
    PROVE  (j - 1) * t + h < (k - 1) * t + i
<1>1. CASE j = k /\ h < i
  <2>1. (k - 1) * t \in Int
    BY Z3
  <2> QED
    BY <1>1, <2>1
<1>2. CASE j < k
  <2>1. (k - 1 - j) * t >= 0 /\ (k - 1) * t = (k - 1 - j) * t + (j - 1) * t + t
    BY <1>2
  <2>2. (k - 1) * t \in Int /\ (j - 1) * t \in Int /\ (k - 1 - j) * t \in Int
    BY <1>2
  <2> QED
    BY <2>1, <2>2
<1> QED
  BY <1>1, <1>2

\* When all pages are read each lead is on one of them, once, in the order of the list.
LEMMA EachLeadListed ==
    ASSUME Listing
    PROVE  LeadListPart!EachLeadOnOnePage
<1> SUFFICES ASSUME x3 > 0, LeadListPart!Skip >= x3, LeadListPart!EnteredOnce
             PROVE  LeadListPart!EachLeadOnOnePage
  BY DEF LeadListPart!EachLeadOnOnePage
<1> DEFINE N == Cardinality(LeadIds)
           t == x2.take
           L == Len(x4)
           e == CHOOSE f \in LeadListPart!FirstPipelineEntries : TRUE
           Places == {p \in (DOMAIN x4) \X (1..t) : p[2] \in DOMAIN x4[p[1]]}
           At(p) == x4[p[1]][p[2]]
<1>1. t \in Nat \ {0} /\ L \in Nat /\ N \in Nat /\ x4 \in Seq(Seq(LeadIds)) /\ DOMAIN x4 = 1..L
  <2>1. x2.take \in PageSizes /\ x4 \in Seq(Seq(LeadIds))
    BY DEF Listing, LeadListPart!TypeOK
  <2>2. t \in Nat \ {0}
    BY <2>1, ServicesAssumption
  <2>3. L \in Nat /\ DOMAIN x4 = 1..L
    BY <2>1
  <2> QED
    BY <2>1, <2>2, <2>3, LeadsHavePlaces
<1>2. x3 = N /\ N <= L * t
  <2>1. x3 = IF x4 = <<>> THEN 0 ELSE N
    BY LeadListCardinality DEF Listing, LeadListPart!PagesGoOn
  <2>2. LeadListPart!Skip = L * t
    BY DEF LeadListPart!Skip
  <2> QED
    BY <1>1, <2>1, <2>2
<1>3. ASSUME NEW k \in 1..L
      PROVE  /\ DOMAIN x4[k] = {i \in 1..t : (k - 1) * t + i <= N}
             /\ \A i \in DOMAIN x4[k] : x4[k][i] \in LeadIds /\ LeadPlace(x4[k][i], e) = (k - 1) * t + i - 1
  <2>1. /\ DOMAIN x4[k] = {i \in 1..t : (k - 1) * t + i <= N}
        /\ \A i \in DOMAIN x4[k] : LeadListPart!Place(x4[k][i]) = (k - 1) * t + i - 1
    BY <1>1, LeadListCardinality DEF Listing, LeadListPart!PagesGoOn
  <2>2. x4[k] \in Seq(LeadIds)
    BY <1>1
  <2>3. \A i \in DOMAIN x4[k] : x4[k][i] \in LeadIds
    BY <2>2
  <2>4. \A a \in LeadIds : LeadListPart!Place(a) = LeadPlace(a, e)
    BY PlaceOfLead
  <2> HIDE DEF e, N, t
  <2> QED
    BY <2>1, <2>3, <2>4
<1>4. /\ \A a \in LeadIds : LeadPlace(a, e) \in 0..(N - 1)
      /\ \A a, b \in LeadIds : LeadListPart!Before(a, b, e) => LeadPlace(a, e) < LeadPlace(b, e)
      /\ \A a, b \in LeadIds : LeadPlace(a, e) = LeadPlace(b, e) => a = b
  BY LeadsHavePlaces
<1> HIDE DEF N, t, L, e
<1>5. ASSUME NEW p \in Places, NEW q \in Places
      PROVE  /\ At(p) \in LeadIds /\ At(q) \in LeadIds
             /\ p = <<p[1], p[2]>> /\ q = <<q[1], q[2]>>
             /\ LeadPlace(At(p), e) \in Nat /\ LeadPlace(At(q), e) \in Nat
             /\ p[1] < q[1] \/ (p[1] = q[1] /\ p[2] < q[2]) => LeadPlace(At(p), e) < LeadPlace(At(q), e)
             /\ p[1] \in Nat /\ p[2] \in Nat /\ q[1] \in Nat /\ q[2] \in Nat
  <2>1. PICK j \in 1..L, h \in 1..t : p = <<j, h>> /\ h \in DOMAIN x4[j]
    BY <1>1
  <2>2. PICK k \in 1..L, i \in 1..t : q = <<k, i>> /\ i \in DOMAIN x4[k]
    BY <1>1
  <2>3. /\ At(p) = x4[j][h] /\ At(q) = x4[k][i]
        /\ At(p) \in LeadIds /\ LeadPlace(At(p), e) = (j - 1) * t + h - 1
        /\ At(q) \in LeadIds /\ LeadPlace(At(q), e) = (k - 1) * t + i - 1
    BY <1>3, <2>1, <2>2
  <2>4. j < k \/ (j = k /\ h < i) => (j - 1) * t + h < (k - 1) * t + i
    <3>1. j \in Nat \ {0} /\ k \in Nat \ {0}
      BY <1>1
    <3> QED
      BY <1>1, <3>1, PagesInOrder
  <2>5. (j - 1) * t \in Int /\ (k - 1) * t \in Int
    BY <1>1
  <2>6. LeadPlace(At(p), e) \in Nat /\ LeadPlace(At(q), e) \in Nat
    <3>1. \A a \in LeadIds : LeadPlace(a, e) \in Nat
      BY <1>1, <1>4
    <3> HIDE DEF At
    <3> QED
      BY <2>3, <3>1
  <2>7. j < k \/ (j = k /\ h < i) => LeadPlace(At(p), e) < LeadPlace(At(q), e)
    BY <2>3, <2>4, <2>5
  <2> HIDE DEF At
  <2> QED
    BY <2>1, <2>2, <2>3, <2>6, <2>7
<1>6. ASSUME NEW a \in LeadIds
      PROVE  \E p \in Places : At(p) = a /\ \A q \in Places : At(q) = a => q = p
  <2>1. LeadPlace(a, e) + 1 \in Nat \ {0} /\ LeadPlace(a, e) + 1 <= N /\ LeadPlace(a, e) \in Nat
    BY <1>1, <1>4
  <2>2. LeadPlace(a, e) + 1 <= L * t
    <3>1. L * t \in Int
      BY <1>1
    <3> QED
      BY <1>1, <1>2, <2>1, <3>1
  <2>3. PICK k \in 1..L, i \in 1..t : (k - 1) * t + i = LeadPlace(a, e) + 1
    BY <1>1, <2>1, <2>2, OnOnePage
  <2>4. i \in DOMAIN x4[k]
    BY <1>3, <2>1, <2>3
  <2>5. x4[k][i] \in LeadIds /\ LeadPlace(x4[k][i], e) = LeadPlace(a, e)
    <3>1. PICK m : m = (k - 1) * t
      OBVIOUS
    <3>2. m \in Int /\ i \in Int
      BY <1>1, <3>1
    <3>3. x4[k][i] \in LeadIds /\ LeadPlace(x4[k][i], e) = m + i - 1 /\ m + i = LeadPlace(a, e) + 1
      BY <1>3, <2>3, <2>4, <3>1
    <3> QED
      BY <2>1, <3>2, <3>3
  <2>6. x4[k][i] = a
    BY <1>4, <2>5
  <2>7. <<k, i>> \in Places /\ At(<<k, i>>) = a
    BY <1>1, <2>4, <2>6
  <2>8. ASSUME NEW q \in Places, At(q) = a
        PROVE  q = <<k, i>>
    <3>1. PICK p \in Places : p = <<k, i>> /\ At(p) = a
      BY <2>7
    <3>2. ~(p[1] < q[1]) /\ ~(q[1] < p[1])
      BY <1>5, <2>8, <3>1
    <3>3. p[1] = q[1]
      BY <1>5, <3>1, <3>2
    <3>4. ~(p[2] < q[2]) /\ ~(q[2] < p[2])
      BY <1>5, <2>8, <3>1, <3>3
    <3>5. p[2] = q[2]
      BY <1>5, <3>1, <3>4
    <3> QED
      BY <1>5, <3>1, <3>3, <3>5
  <2> QED
    BY <2>7, <2>8
<1>7. ASSUME NEW p \in Places, NEW q \in Places, p[1] < q[1] \/ (p[1] = q[1] /\ p[2] < q[2])
      PROVE  ~LeadListPart!Better(LeadListPart!Points(At(q), e), LeadListPart!Points(At(p), e))
  <2>1. LeadPlace(At(p), e) < LeadPlace(At(q), e) /\ LeadPlace(At(p), e) \in Nat /\ LeadPlace(At(q), e) \in Nat
        /\ At(p) \in LeadIds /\ At(q) \in LeadIds
    BY <1>5, <1>7
  <2> HIDE DEF At
  <2>2. ~LeadListPart!Before(At(q), At(p), e)
    BY <1>4, <2>1
  <2> QED
    BY <2>2 DEF LeadListPart!Before
<1> QED
  BY <1>6, <1>7 DEF LeadListPart!EachLeadOnOnePage, t, e

LEMMA ListingBegins ==
    ASSUME LeadListPart!Init
    PROVE  Listing
<1>1. /\ x1 \in [LeadIds -> [profile: Profiles, createdAt: Instants]] /\ x2 \in [desc: BOOLEAN, take: PageSizes]
      /\ x3 = 0 /\ x4 = <<>>
  BY DEF LeadListPart!Init
<1>2. x1 \in [LeadIds -> [profile: LeadListPart!Profile, createdAt: Instants]]
  BY <1>1, RowsAssumption
<1>3. x4 \in Seq(Seq(LeadIds)) /\ DOMAIN x4 = {}
  BY <1>1
<1> QED
  BY <1>1, <1>2, <1>3 DEF Listing, LeadListPart!TypeOK, LeadListPart!PagesGoOn

LEMMA ListingStays ==
    ASSUME Listing, UNCHANGED LeadListPart!vars
    PROVE  Listing'
<1>1. UNCHANGED <<x1, x2, x3, x4>>
  BY DEF LeadListPart!vars
<1>2. LeadListPart!FirstPipelineEntries' = LeadListPart!FirstPipelineEntries
  BY <1>1 DEF LeadListPart!FirstPipelineEntries, LeadListPart!Entries
<1>3. \A a : LeadListPart!Place(a)' = LeadListPart!Place(a)
  BY <1>1, <1>2 DEF LeadListPart!Place, LeadListPart!Before, LeadListPart!Better, LeadListPart!Points
<1>4. \A k, i : LeadListPart!Place(x4[k][i])' = LeadListPart!Place(x4[k][i])
  <2>1. TAKE k, i
  <2>2. PICK a : a = x4[k][i]
    OBVIOUS
  <2>3. LeadListPart!Place(a)' = LeadListPart!Place(x4[k][i])
    BY <1>3, <2>2
  <2> QED
    BY <1>1, <2>2, <2>3 DEF LeadListPart!Place
<1>5. LeadListPart!EnteredOnce' <=> LeadListPart!EnteredOnce
  BY <1>1 DEF LeadListPart!EnteredOnce, LeadListPart!Entries
<1>6. LeadListPart!TypeOK'
  BY <1>1 DEF Listing, LeadListPart!TypeOK
<1>7. LeadListPart!PagesGoOn'
  <2>1. x3 = IF x4 = <<>> THEN 0 ELSE LeadListPart!Cardinality(LeadIds)
    BY DEF Listing, LeadListPart!PagesGoOn
  <2>2. ASSUME LeadListPart!EnteredOnce, NEW k \in DOMAIN x4
        PROVE  /\ DOMAIN x4[k] = {i \in 1..x2.take : (k - 1) * x2.take + i <= LeadListPart!Cardinality(LeadIds)}
               /\ \A i \in DOMAIN x4[k] : LeadListPart!Place(x4[k][i])' = (k - 1) * x2.take + i - 1
    BY <1>4, <2>2 DEF Listing, LeadListPart!PagesGoOn
  <2> QED
    BY <1>1, <1>5, <2>1, <2>2 DEF LeadListPart!PagesGoOn
<1> QED
  BY <1>6, <1>7 DEF Listing

\* A client at high risk has missed appointments and who misses most of them is at high
\* risk, whatever the listeners overlap with; and the pages of the leads have each of
\* them once, in the order of the scores, however many they are and in whatever order
\* their rows come.
THEOREM ScoresTellWhatHappened == ServicesSpec => []ScoresTell
<1> DEFINE I == (part = "risk" => Scoring) /\ (part = "leads" => Listing)
<1>1. ServicesInit => I
  BY PartsBegin, ScoringBegins, ListingBegins
<1>2. I /\ [ServicesNext]_registers => I'
  BY PartSteps, RiskStep, ListStep, ListingStays DEF LeadListPart!Next
<1>3. I => ScoresTell
  BY ScoresSay, EachLeadListed DEF ScoresTell
<1> QED
  BY <1>1, <1>2, <1>3, PTL DEF ServicesSpec
=============================================================================
