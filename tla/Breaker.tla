------------------------------ MODULE Breaker ------------------------------
(***************************************************************************)
(* The circuit breaker in front of Google Calendar: calls that overlap,    *)
(* one of the two kinds of call that never asks it (deletions), and an API *)
(* that goes down and comes back.                                          *)
(*                                                                         *)
(* isOpen, recordSuccess and recordFailure run to their end undisturbed;   *)
(* what interleaves is the call between the question and its answer.       *)
(***************************************************************************)
EXTENDS Integers, FiniteSetsExt

CONSTANTS Callers,      \* who may have a call under way: the worker, exports
          Threshold,    \* failureThreshold
          Pause,        \* resetAfterMs, in ticks of the clock
          MaxBegun      \* bound: calls remembered in one tick

Open == 0..Pause
Closed == -1

VARIABLES
    failures,   \* consecutiveFailures; Threshold stands for all that is above
    opened,     \* ticks since openedAt, Pause for all that is above; or Closed
    call,       \* what each caller has under way
    up,         \* whether the API answers
    begun       \* history: upserts begun in this tick and so many before it, since
                \* the API last answered

vars == <<failures, opened, call, up, begun>>
-----------------------------------------------------------------------------
TypeOK ==
    /\ failures \in 0..Threshold
    /\ opened \in Open \cup {Closed}
    /\ call \in [Callers -> {"no", "upsert", "delete"}]
    /\ up \in BOOLEAN
    /\ begun \in [0..(Pause - 1) -> Nat]

Forgotten == [age \in 0..(Pause - 1) |-> 0]

Init ==
    /\ failures = 0 /\ opened = Closed
    /\ call = [c \in Callers |-> "no"]
    /\ up \in BOOLEAN
    /\ begun = Forgotten

\* isOpen: the pause is over, and everything starts again.
IsOpen == opened # Closed /\ opened < Pause
HalfOpen ==
    /\ opened' = IF IsOpen THEN opened ELSE Closed
    /\ failures' = IF opened = Pause THEN 0 ELSE failures

BeginUpsert(c) ==
    /\ call[c] = "no" /\ ~IsOpen
    /\ begun[0] < MaxBegun
    /\ HalfOpen
    /\ call' = [call EXCEPT ![c] = "upsert"]
    /\ begun' = [age \in DOMAIN begun |-> begun[age] + 1]
    /\ UNCHANGED up

\* deleteEventForAppointment does not ask.
BeginDelete(c) ==
    /\ call[c] = "no"
    /\ call' = [call EXCEPT ![c] = "delete"]
    /\ UNCHANGED <<failures, opened, up, begun>>

RecordSuccess(c) ==
    /\ call[c] # "no" /\ up
    /\ failures' = 0 /\ opened' = Closed
    /\ call' = [call EXCEPT ![c] = "no"]
    /\ begun' = Forgotten
    /\ UNCHANGED up

\* Mutant of Opens: one failure more.
OpensLater(count) == count > Threshold

Opens(count) == count >= Threshold

\* The API is down, or the answer is lost, late, or an error of the database.
RecordFailure(c) ==
    /\ call[c] # "no"
    /\ failures' = Min({failures + 1, Threshold})
    /\ opened' = IF Opens(failures + 1) THEN 0 ELSE opened
    /\ call' = [call EXCEPT ![c] = "no"]
    /\ UNCHANGED <<up, begun>>

Outage == up' = ~up /\ UNCHANGED <<failures, opened, call, begun>>

Tick ==
    /\ opened' = IF opened = Closed THEN Closed ELSE Min({opened + 1, Pause})
    /\ begun' = [age \in DOMAIN begun |-> IF age = 0 THEN 0 ELSE begun[age - 1]]
    /\ UNCHANGED <<failures, call, up>>

Next ==
    \/ \E c \in Callers : BeginUpsert(c) \/ BeginDelete(c) \/ RecordSuccess(c) \/ RecordFailure(c)
    \/ Outage \/ Tick

Spec == Init /\ [][Next]_vars
-----------------------------------------------------------------------------
(* Properties *)

Recent == begun[Pause - 1]

Upserts == {c \in Callers : call[c] = "upsert"}

\* Inductive: while the circuit is closed, each recent upsert is under way or has
\* failed; while it is open, none has begun since it opened.
EachBegunCounts ==
    /\ \A age \in DOMAIN begun : age + 1 \in DOMAIN begun => begun[age] <= begun[age + 1]
    /\ opened = Closed => failures < Threshold /\ Recent <= failures + Cardinality(Upserts)
    /\ opened # Closed => \A age \in DOMAIN begun : age < opened => begun[age] = 0
    /\ Recent <= Threshold + Cardinality(Callers) - 1

\* While no call succeeds, the upserts sent in the time of one pause are at
\* most the threshold, and those that were under way when it was reached: late
\* answers, deletions that never ask and the restart of the count after a pause
\* do not let more through.
HammeringIsBounded == Recent <= Threshold + Cardinality(Callers) - 1
=============================================================================
