-------------------------- MODULE RemindersProofs --------------------------
(***************************************************************************)
(* Proofs about Reminders.tla, for every number of appointments, windows   *)
(* and listeners and every horizon: type correctness, that the reminders   *)
(* that wait are those of the row as it is, and that no reminder is told   *)
(* twice.                                                                  *)
(***************************************************************************)
EXTENDS Reminders, TLAPS

-----------------------------------------------------------------------------
(* What listeners and the worker hold, told by their pc *)

Work == Reminding \cup Planning \cup {Idle}

LEMMA WorkByPc ==
    ASSUME NEW q \in Work
    PROVE  /\ q.pc \in {"remove", "add"} <=> q \in Reminding
           /\ q.pc = "after" <=> q \in Planning
           /\ q.pc = "idle" <=> q = Idle
           /\ q # Idle => q.pc \in {"remove", "add", "after"} /\ q.appt \in Appts
  BY DEF Work, Reminding, Planning, Idle

LEMMA SendingByPc ==
    ASSUME NEW q \in Sending \cup {Idle}
    PROVE  /\ q # Idle <=> q \in Sending
           /\ q.pc \in {"send", "mark"} <=> q \in Sending
           /\ q \in Sending => q.appt \in Appts /\ q.kind \in Kinds /\ q.start \in Times
  BY DEF Sending, Idle

LEMMA Numbers ==
    /\ MaxTime \in Nat /\ AfterDelay \in Nat /\ MaxAttempts \in Nat /\ MaxAttempts > 0
    /\ MaxEdits \in Nat /\ MaxFailures \in Nat
    /\ Extra \in Windows
    /\ \A w \in Windows : Lead[w] \in Nat /\ Lead[w] > 0
    /\ \A t \in Times : t \in Nat /\ t <= MaxTime
  BY NumbersAssumption DEF Times

\* The two kinds of messages that are no reminders are no windows.
LEMMA KindsFacts ==
    /\ \A w \in Windows : w \in Kinds /\ w \notin After /\ Wanted(w) = "PENDING"
    /\ \A k \in After : k \in Kinds
  BY SentinelAssumption DEF Kinds, After, Wanted

\* The first window of a loop is one of those to do.
LEMMA FirstIsToDo ==
    ASSUME NEW todo, todo # {}
    PROVE  First(todo) \in todo
<1>1. \E w \in todo : w = Extra => todo = {Extra}
  <2>1. CASE todo = {Extra}
    BY <2>1
  <2>2. CASE todo # {Extra}
    BY <2>2
  <2> QED
    BY <2>1, <2>2
<1> QED
  BY <1>1 DEF First

\* One job changes, the others stay.
LEMMA OneJob ==
    ASSUME Typed, NEW a \in Appts, NEW k \in Kinds, NEW x, job' = [job EXCEPT ![<<a, k>>] = x]
    PROVE  /\ job'[<<a, k>>] = x
           /\ \A b \in Appts, l \in Kinds : b # a \/ l # k => job'[<<b, l>>] = job[<<b, l>>]
           /\ x \in Job \cup {None} => job' \in [Appts \X Kinds -> Job \cup {None}]
<1>1. <<a, k>> \in Appts \X Kinds /\ job \in [Appts \X Kinds -> Job \cup {None}]
  BY DEF Typed
<1>2. job'[<<a, k>>] = x
  BY <1>1
<1>3. \A i \in Appts \X Kinds : i # <<a, k>> => job'[i] = job[i]
  BY <1>1
<1>4. \A b \in Appts, l \in Kinds : b # a \/ l # k => <<b, l>> \in Appts \X Kinds /\ <<b, l>> # <<a, k>>
  OBVIOUS
<1>5. x \in Job \cup {None} => job' \in [Appts \X Kinds -> Job \cup {None}]
  BY <1>1
<1> QED
  BY <1>2, <1>3, <1>4, <1>5

LEMMA RowsTyped ==
    ASSUME Typed
    PROVE  /\ \A a \in Rows : a \in Appts /\ row[a] \in Row
           /\ \A a \in Appts, k \in Kinds : job[<<a, k>>] # None => job[<<a, k>>] \in Job
           /\ \A h \in Handlers : handler[h] \in Work
  BY DEF Typed, Rows, Work
-----------------------------------------------------------------------------
(* Type correctness *)

LEMMA GoesTyped ==
    ASSUME Typed, NEW h \in Handlers, NEW q \in Work, Goes(h, q)
    PROVE  handler' \in [Handlers -> Work]
  BY DEF Typed, Goes, Work

\* Announcing: an idle listener gets to work, the others go on.
LEMMA AnnounceGoes ==
    ASSUME Typed, NEW a, NEW q, Announce(a, q)
    PROVE  /\ \E h \in Handlers : handler[h] = Idle /\ Goes(h, q)
           /\ disturbed' = IF q.pc = "remove" /\ \E h \in Handlers : At(h, a)
                           THEN disturbed \cup {a} ELSE disturbed
  BY DEF Announce, Goes

LEMMA WriteTyped ==
    ASSUME Typed, NEW a \in Appts, NEW r \in Row, NEW q \in Work, Write(a, r, q)
    PROVE  Typed'
<1>1. PICK h \in Handlers : Goes(h, q)
  BY AnnounceGoes DEF Write
<1>2. handler' \in [Handlers -> Work]
  BY <1>1, GoesTyped
<1>3. row' \in [Appts -> Row \cup {Absent, Deleted}]
  BY DEF Write, Typed
<1>4. disturbed' \subseteq Appts /\ edits' \in 0..MaxEdits
  BY Numbers, AnnounceGoes DEF Write, Edit, Typed
<1> QED
  BY <1>2, <1>3, <1>4 DEF Write, Typed, Work

LEMMA RemindersTyped ==
    ASSUME NEW a \in Appts, NEW r \in Row, NEW again \in BOOLEAN
    PROVE  Reminders(a, r, again) \in Work
  BY DEF Reminders, Work, Reminding, Row, Cancels

\* Every action keeps the types, and leaves no listener at reminders without a
\* window to do.
HasTodo(p) == p.pc \in {"remove", "add"} => p.todo # {}

TodoInv == \A h \in Handlers : HasTodo(handler[h])

LEMMA AddTyped ==
    ASSUME Typed, NEW a \in Appts, NEW k \in Kinds, NEW due \in 0..(MaxTime + AfterDelay),
           Add(a, k, due)
    PROVE  /\ job' \in [Appts \X Kinds -> Job \cup {None}]
           /\ \A b \in Appts, l \in Kinds : b # a \/ l # k => job'[<<b, l>>] = job[<<b, l>>]
           /\ job'[<<a, k>>] = IF job[<<a, k>>] = None
                           THEN [due |-> due, left |-> MaxAttempts, state |-> "waiting"]
                           ELSE job[<<a, k>>]
           /\ \A b \in Appts, l \in Kinds : job[<<b, l>>] # None => job'[<<b, l>>] = job[<<b, l>>]
<1> DEFINE x == [due |-> due, left |-> MaxAttempts, state |-> "waiting"]
<1>1. x \in Job
  BY Numbers DEF Job
<1>2. CASE job[<<a, k>>] = None
  <2>1. job' = [job EXCEPT ![<<a, k>>] = x]
    BY <1>2 DEF Add
  <2> HIDE DEF x
  <2>2. /\ job'[<<a, k>>] = x
        /\ \A b \in Appts, l \in Kinds : b # a \/ l # k => job'[<<b, l>>] = job[<<b, l>>]
        /\ job' \in [Appts \X Kinds -> Job \cup {None}]
    BY <1>1, <2>1, OneJob
  <2> QED
    BY <1>2, <2>2 DEF x
<1>3. CASE job[<<a, k>>] # None
  BY <1>3 DEF Add, Typed
<1> QED
  BY <1>2, <1>3

\* The worker's job is the one that is active.
Busy == worker # Idle => IsIn(worker.appt, worker.kind, "active")

BasicInv == Typed /\ TodoInv /\ Busy

LEMMA GoesTodo ==
    ASSUME BasicInv, NEW h \in Handlers, NEW q \in Work, Goes(h, q),
           HasTodo(q)
    PROVE  /\ handler' \in [Handlers -> Work]
           /\ TodoInv'
           /\ handler'[h] = q
           /\ \A g \in Handlers : g # h => handler'[g] = handler[g]
<1>1. handler \in [Handlers -> Work]
  BY DEF BasicInv, Typed, Work
<1>2. /\ handler' \in [Handlers -> Work]
      /\ handler'[h] = q
      /\ \A g \in Handlers : g # h => handler'[g] = handler[g]
  BY <1>1 DEF Goes
<1> QED
  BY <1>2 DEF BasicInv, TodoInv

\* A change of one job that is not the worker's, or that leaves it active.
LEMMA BusyStays ==
    ASSUME BasicInv, worker' = worker,
           \A a \in Appts, k \in Kinds : IsIn(a, k, "active") => job'[<<a, k>>] = job[<<a, k>>]
    PROVE  Busy'
<1>1. CASE worker = Idle
  BY <1>1 DEF Busy
<1>2. CASE worker # Idle
  <2>1. worker \in Sending
    BY <1>2 DEF BasicInv, Typed
  <2>2. worker.appt \in Appts /\ worker.kind \in Kinds
    BY <2>1 DEF Sending
  <2> QED
    BY <1>2, <2>2 DEF BasicInv, Busy, IsIn
<1> QED
  BY <1>1, <1>2

LEMMA WriteBasic ==
    ASSUME BasicInv, NEW a \in Appts, NEW r \in Row, NEW q \in Work, Write(a, r, q),
           HasTodo(q)
    PROVE  BasicInv'
<1>1. PICK h \in Handlers : Goes(h, q)
  BY AnnounceGoes DEF Write, BasicInv
<1>2. Typed'
  BY WriteTyped DEF BasicInv
<1>3. TodoInv'
  BY <1>1, GoesTodo
<1>4. Busy'
  BY BusyStays DEF Write
<1> QED
  BY <1>2, <1>3, <1>4 DEF BasicInv

LEMMA WriteOnTheListBasic ==
    ASSUME BasicInv, NEW a \in Appts, NEW r \in Row, NEW q \in Work, WriteOnTheList(a, r, q),
           HasTodo(q)
    PROVE  BasicInv'
<1>1. CASE Write(a, r, q)
  BY <1>1, WriteBasic
<1>2. CASE /\ Edit /\ row' = [row EXCEPT ![a] = r]
           /\ UNCHANGED <<job, handler, worker, now, told, disturbed, failures>>
  <2>1. Typed'
    BY <1>2, Numbers DEF Typed, Edit, BasicInv
  <2> QED
    BY <1>2, <2>1, BusyStays DEF BasicInv, TodoInv
<1> QED
  BY <1>1, <1>2 DEF WriteOnTheList

\* What a request announces.
LEMMA WritesAnnounce ==
    ASSUME NEW a \in Appts, NEW r \in Row, NEW again \in BOOLEAN
    PROVE  /\ Reminders(a, r, again) \in Work
           /\ HasTodo(Reminders(a, r, again))
  BY RemindersTyped, Numbers DEF Reminders, Cancels, HasTodo

LEMMA PeopleBasic ==
    ASSUME BasicInv, People
    PROVE  BasicInv'
<1> USE DEF BasicInv
<1>1. CASE Create
  <2>1. PICK a \in Appts, t \in Times :
           LET r == [start |-> t, status |-> "PENDING"] IN WriteOnTheList(a, r, Reminders(a, r, TRUE))
    BY <1>1 DEF Create
  <2>2. [start |-> t, status |-> "PENDING"] \in Row
    BY DEF Row
  <2> QED
    BY <2>1, <2>2, WritesAnnounce, WriteOnTheListBasic
<1>2. CASE Reschedule
  <2>1. PICK a \in Rows, t \in Times :
           LET r == [start |-> t, status |-> "PENDING"] IN WriteOnTheList(a, r, Reminders(a, r, TRUE))
    BY <1>2 DEF Reschedule
  <2>2. [start |-> t, status |-> "PENDING"] \in Row /\ a \in Appts
    BY DEF Row, Rows
  <2> QED
    BY <2>1, <2>2, WritesAnnounce, WriteOnTheListBasic
<1>3. CASE Confirm
  <2>1. PICK a \in Rows :
           LET r == [row[a] EXCEPT !.status = "PENDING"] IN WriteOnTheList(a, r, Reminders(a, r, TRUE))
    BY <1>3 DEF Confirm
  <2>2. [row[a] EXCEPT !.status = "PENDING"] \in Row /\ a \in Appts
    BY RowsTyped DEF Row
  <2> QED
    BY <2>1, <2>2, WritesAnnounce, WriteOnTheListBasic
<1>4. CASE Cancel
  <2>1. PICK a \in Rows :
           LET r == [row[a] EXCEPT !.status = "CANCELLED"] IN Write(a, r, Reminders(a, r, FALSE))
    BY <1>4 DEF Cancel
  <2>2. [row[a] EXCEPT !.status = "CANCELLED"] \in Row /\ a \in Appts
    BY RowsTyped DEF Row
  <2> QED
    BY <2>1, <2>2, WritesAnnounce, WriteBasic
<1>5. CASE Complete
  <2>1. PICK a \in Rows : Write(a, [row[a] EXCEPT !.status = "COMPLETED"],
                                [pc |-> "after", appt |-> a, kind |-> "followup"])
    BY <1>5 DEF Complete
  <2>2. [row[a] EXCEPT !.status = "COMPLETED"] \in Row /\ a \in Appts
    BY RowsTyped DEF Row
  <2>3. [pc |-> "after", appt |-> a, kind |-> "followup"] \in Work
    BY <2>2 DEF Work, Planning, After
  <2> QED
    BY <2>1, <2>2, <2>3, WriteBasic DEF HasTodo
<1>6. CASE MarkNoShow
  <2>1. PICK a \in Rows : Write(a, [row[a] EXCEPT !.status = "NO_SHOW"],
                                [pc |-> "after", appt |-> a, kind |-> "noshow"])
    BY <1>6 DEF MarkNoShow
  <2>2. [row[a] EXCEPT !.status = "NO_SHOW"] \in Row /\ a \in Appts
    BY RowsTyped DEF Row
  <2>3. [pc |-> "after", appt |-> a, kind |-> "noshow"] \in Work
    BY <2>2 DEF Work, Planning, After
  <2> QED
    BY <2>1, <2>2, <2>3, WriteBasic DEF HasTodo
<1>7. CASE WriteFromGoogle
  <2>1. PICK a \in Appts, t \in Times, status \in {"PENDING", "COMPLETED", "CANCELLED"} :
           /\ row' = [row EXCEPT ![a] = [start |-> t, status |-> status]]
           /\ disturbed' = disturbed \cup {a}
           /\ Edit
           /\ UNCHANGED <<job, handler, worker, now, told, failures>>
    BY <1>7 DEF WriteFromGoogle
  <2>2. [start |-> t, status |-> status] \in Row
    BY DEF Row
  <2>3. Typed'
    BY <2>1, <2>2, Numbers DEF Typed, Edit
  <2> QED
    BY <2>1, <2>3, BusyStays DEF TodoInv
<1>8. CASE RemoveClient
  <2>1. PICK a \in Rows :
           /\ row' = [row EXCEPT ![a] = Deleted]
           /\ Edit
           /\ UNCHANGED <<job, handler, worker, now, told, disturbed, failures>>
    BY <1>8 DEF RemoveClient
  <2>2. Typed'
    BY <2>1, Numbers DEF Typed, Edit, Rows
  <2> QED
    BY <2>1, <2>2, BusyStays DEF TodoInv
<1> QED
  BY <1>1, <1>2, <1>3, <1>4, <1>5, <1>6, <1>7, <1>8 DEF People
-----------------------------------------------------------------------------
(* What the server's steps do, for the proofs below *)

\* How cancelReminders, and the loop of scheduleReminders, go on after window w.
AfterRemoval(q, w, p) ==
    \/ q.todo \ {w} # {} /\ p = [q EXCEPT !.todo = q.todo \ {w}]
    \/ q.todo \ {w} = {} /\ ~q.again /\ p = Idle
    \/ /\ q.todo \ {w} = {} /\ q.again
       /\ \E W \in {Windows, Windows \ {Extra}} : p = [q EXCEPT !.pc = "add", !.todo = W]

AfterAddition(q, w, p) ==
    \/ q.todo \ {w} = {} /\ p = Idle
    \/ q.todo \ {w} # {} /\ p = [q EXCEPT !.todo = q.todo \ {w}]

\* One window less to cancel: the job is gone, unless it is running.
LEMMA RemoveOneDoes ==
    ASSUME BasicInv, NEW h \in Handlers, RemoveOne(h),
           NEW q, q = handler[h], NEW w, w = First(q.todo)
    PROVE  /\ q \in Reminding /\ q.pc = "remove" /\ q.appt \in Appts
           /\ w \in q.todo /\ w \in Windows /\ w \in Kinds
           /\ \E p \in Work : Goes(h, p) /\ HasTodo(p) /\ AfterRemoval(q, w, p)
           /\ \/ /\ IsIn(q.appt, w, "active")
                 /\ disturbed' = disturbed \cup {q.appt} /\ job' = job
              \/ /\ ~IsIn(q.appt, w, "active")
                 /\ job' = [job EXCEPT ![<<q.appt, w>>] = None] /\ disturbed' = disturbed
<1>1. q \in Reminding /\ q.pc = "remove"
  BY WorkByPc, RowsTyped DEF RemoveOne, BasicInv
<1>2. w \in q.todo /\ q.todo \subseteq Windows
  BY <1>1, FirstIsToDo DEF BasicInv, TodoInv, HasTodo, Reminding
<1>3. q.appt \in Appts /\ w \in Windows /\ w \in Kinds
  BY <1>1, <1>2 DEF Reminding, Kinds
<1>4. /\ \/ q.todo \ {w} # {} /\ Goes(h, [q EXCEPT !.todo = q.todo \ {w}])
         \/ q.todo \ {w} = {} /\ ~q.again /\ Goes(h, Idle)
         \/ /\ q.todo \ {w} = {} /\ q.again
            /\ \E W \in {Windows, Windows \ {Extra}} : Goes(h, [q EXCEPT !.pc = "add", !.todo = W])
      /\ IF IsIn(q.appt, w, "active")
         THEN disturbed' = disturbed \cup {q.appt} /\ UNCHANGED job
         ELSE job' = [job EXCEPT ![<<q.appt, w>>] = None] /\ UNCHANGED disturbed
  BY DEF RemoveOne
<1>5. [q EXCEPT !.todo = q.todo \ {w}] \in Work
  BY <1>1, <1>2 DEF Work, Reminding
<1>6. \A W \in {Windows, Windows \ {Extra}} :
         [q EXCEPT !.pc = "add", !.todo = W] \in Work /\ W # {}
  BY <1>1, NumbersAssumption DEF Work, Reminding
<1>7. Idle \in Work /\ HasTodo(Idle)
  BY DEF Work, Idle, HasTodo
<1>8. \E p \in Work : Goes(h, p) /\ HasTodo(p) /\ AfterRemoval(q, w, p)
  <2>1. CASE q.todo \ {w} # {} /\ Goes(h, [q EXCEPT !.todo = q.todo \ {w}])
    <3>1. [q EXCEPT !.todo = q.todo \ {w}].todo = q.todo \ {w}
      BY <1>1 DEF Reminding
    <3> QED
      BY <2>1, <3>1, <1>5 DEF HasTodo, AfterRemoval
  <2>2. CASE q.todo \ {w} = {} /\ ~q.again /\ Goes(h, Idle)
    BY <2>2, <1>7 DEF HasTodo, AfterRemoval
  <2>3. CASE /\ q.todo \ {w} = {} /\ q.again
             /\ \E W \in {Windows, Windows \ {Extra}} : Goes(h, [q EXCEPT !.pc = "add", !.todo = W])
    <3>1. PICK W \in {Windows, Windows \ {Extra}} : Goes(h, [q EXCEPT !.pc = "add", !.todo = W])
      BY <2>3
    <3>2. [q EXCEPT !.pc = "add", !.todo = W].todo = W
      BY <1>1 DEF Reminding
    <3> QED
      BY <2>3, <3>1, <3>2, <1>6 DEF HasTodo, AfterRemoval
  <2> QED
    BY <1>4, <2>1, <2>2, <2>3
<1> QED
  BY <1>1, <1>2, <1>3, <1>4, <1>8

\* The loop of additions takes one window.
LEMMA LoopDoes ==
    ASSUME BasicInv, NEW h \in Handlers, LoopGoesOn(h), handler[h].pc = "add",
           NEW q, q = handler[h], NEW w, w = First(q.todo)
    PROVE  /\ q \in Reminding /\ q.pc = "add" /\ q.appt \in Appts /\ q.start \in Times
           /\ w \in q.todo /\ w \in Windows /\ w \in Kinds
           /\ \E p \in Work : Goes(h, p) /\ HasTodo(p) /\ AfterAddition(q, w, p)
<1>1. q \in Reminding
  BY WorkByPc, RowsTyped DEF BasicInv
<1>2. w \in q.todo /\ q.todo \subseteq Windows
  BY <1>1, FirstIsToDo DEF BasicInv, TodoInv, HasTodo, Reminding
<1>3. q.appt \in Appts /\ q.start \in Times /\ w \in Windows /\ w \in Kinds
  BY <1>1, <1>2 DEF Reminding, Kinds
<1>4. Goes(h, IF q.todo \ {w} = {} THEN Idle ELSE [q EXCEPT !.todo = q.todo \ {w}])
  BY DEF LoopGoesOn
<1>5. [q EXCEPT !.todo = q.todo \ {w}] \in Work /\ [q EXCEPT !.todo = q.todo \ {w}].todo = q.todo \ {w}
  BY <1>1, <1>2 DEF Work, Reminding
<1>6. Idle \in Work /\ HasTodo(Idle)
  BY DEF Work, Idle, HasTodo
<1>7. CASE q.todo \ {w} = {}
  BY <1>1, <1>2, <1>3, <1>4, <1>6, <1>7 DEF HasTodo, AfterAddition
<1>8. CASE q.todo \ {w} # {}
  BY <1>1, <1>2, <1>3, <1>4, <1>5, <1>8 DEF HasTodo, AfterAddition
<1> QED
  BY <1>7, <1>8

LEMMA RemoveOneBasic ==
    ASSUME BasicInv, NEW h \in Handlers, RemoveOne(h)
    PROVE  BasicInv'
<1> DEFINE q == handler[h]
           w == First(q.todo)
<1> HIDE DEF q, w
<1>1. /\ q.appt \in Appts /\ w \in Kinds
      /\ \E p \in Work : Goes(h, p) /\ HasTodo(p)
      /\ \/ /\ IsIn(q.appt, w, "active")
            /\ disturbed' = disturbed \cup {q.appt} /\ job' = job
         \/ /\ ~IsIn(q.appt, w, "active")
            /\ job' = [job EXCEPT ![<<q.appt, w>>] = None] /\ disturbed' = disturbed
  <2>1. q = handler[h] /\ w = First(q.todo)
    BY DEF q, w
  <2> QED
    BY <2>1, RemoveOneDoes
<1>2. handler' \in [Handlers -> Work] /\ TodoInv'
  BY <1>1, GoesTodo
<1>3. UNCHANGED <<row, worker, now, told, edits, failures>>
  BY DEF RemoveOne
<1>4. /\ job' \in [Appts \X Kinds -> Job \cup {None}]
      /\ \A a \in Appts, k \in Kinds : IsIn(a, k, "active") => job'[<<a, k>>] = job[<<a, k>>]
  <2>1. CASE job' = job
    BY <2>1 DEF BasicInv, Typed
  <2>2. CASE ~IsIn(q.appt, w, "active") /\ job' = [job EXCEPT ![<<q.appt, w>>] = None]
    BY <2>2, <1>1, OneJob DEF BasicInv
  <2> QED
    BY <1>1, <2>1, <2>2
<1>5. Typed'
  BY <1>1, <1>2, <1>3, <1>4 DEF BasicInv, Typed, Work
<1>6. Busy'
  BY <1>3, <1>4, BusyStays
<1> QED
  BY <1>2, <1>5, <1>6 DEF BasicInv

LEMMA AddOneBasic ==
    ASSUME BasicInv, NEW h \in Handlers, AddOne(h)
    PROVE  BasicInv'
<1> DEFINE q == handler[h]
           w == First(q.todo)
<1> HIDE DEF q, w
<1>1. /\ q.appt \in Appts /\ q.start \in Times /\ w \in Windows /\ w \in Kinds
      /\ \E p \in Work : Goes(h, p) /\ HasTodo(p)
  BY LoopDoes DEF q, w, AddOne
<1>2. handler' \in [Handlers -> Work] /\ TodoInv'
  BY <1>1, GoesTodo
<1>3. UNCHANGED <<row, worker, now, told, disturbed, edits, failures>>
  BY DEF AddOne
<1>4. IF Ahead(q.start, w) THEN Add(q.appt, w, q.start - Lead[w]) ELSE UNCHANGED job
  BY DEF AddOne, q, w
<1>5. /\ job' \in [Appts \X Kinds -> Job \cup {None}]
      /\ \A a \in Appts, k \in Kinds : IsIn(a, k, "active") => job'[<<a, k>>] = job[<<a, k>>]
  <2>1. CASE Ahead(q.start, w)
    <3>1. q.start - Lead[w] \in 0..(MaxTime + AfterDelay)
      BY <1>1, <2>1, Numbers DEF Ahead, BasicInv, Typed, Times
    <3> QED
      <4>1. Add(q.appt, w, q.start - Lead[w]) /\ Typed
        BY <1>4, <2>1 DEF BasicInv
      <4>2. /\ job' \in [Appts \X Kinds -> Job \cup {None}]
            /\ \A b \in Appts, l \in Kinds : job[<<b, l>>] # None => job'[<<b, l>>] = job[<<b, l>>]
        BY <1>1, <3>1, <4>1, AddTyped
      <4> QED
        BY <4>2 DEF IsIn
  <2>2. CASE ~Ahead(q.start, w)
    BY <1>4, <2>2 DEF BasicInv, Typed
  <2> QED
    BY <2>1, <2>2
<1>6. Typed'
  BY <1>2, <1>3, <1>5 DEF BasicInv, Typed, Work
<1>7. Busy'
  BY <1>3, <1>5, BusyStays
<1> QED
  BY <1>2, <1>6, <1>7 DEF BasicInv

LEMMA AddFailsBasic ==
    ASSUME BasicInv, NEW h \in Handlers, AddFails(h)
    PROVE  BasicInv'
<1>1. /\ handler[h].appt \in Appts
      /\ \E p \in Work : Goes(h, p) /\ HasTodo(p)
  BY LoopDoes DEF AddFails
<1>2. handler' \in [Handlers -> Work] /\ TodoInv'
  BY <1>1, GoesTodo
<1>3. Typed'
  BY <1>1, <1>2, Numbers DEF AddFails, Fail, BasicInv, Typed, Work
<1>4. Busy'
  BY BusyStays DEF AddFails
<1> QED
  BY <1>2, <1>3, <1>4 DEF BasicInv

LEMMA PlanAfterBasic ==
    ASSUME BasicInv, NEW h \in Handlers, PlanAfter(h)
    PROVE  BasicInv'
<1>1. handler[h] \in Planning
  BY WorkByPc, RowsTyped DEF PlanAfter, BasicInv
<1>2. handler[h].appt \in Appts /\ handler[h].kind \in Kinds
  BY <1>1, KindsFacts DEF Planning
<1>3. now + AfterDelay \in 0..(MaxTime + AfterDelay)
  BY Numbers DEF BasicInv, Typed, Times
<1>4. /\ job' \in [Appts \X Kinds -> Job \cup {None}]
      /\ \A a \in Appts, k \in Kinds : IsIn(a, k, "active") => job'[<<a, k>>] = job[<<a, k>>]
  <2>1. Add(handler[h].appt, handler[h].kind, now + AfterDelay) /\ Typed
    BY DEF PlanAfter, BasicInv
  <2>2. /\ job' \in [Appts \X Kinds -> Job \cup {None}]
        /\ \A b \in Appts, l \in Kinds : job[<<b, l>>] # None => job'[<<b, l>>] = job[<<b, l>>]
    BY <1>2, <1>3, <2>1, AddTyped
  <2> QED
    BY <2>2 DEF IsIn
<1>5. Idle \in Work /\ HasTodo(Idle)
  BY DEF Work, Idle, HasTodo
<1>6. handler' \in [Handlers -> Work] /\ TodoInv'
  BY <1>5, GoesTodo DEF PlanAfter
<1>7. Typed'
  BY <1>4, <1>6 DEF PlanAfter, BasicInv, Typed, Work
<1>8. Busy'
  BY <1>4, BusyStays DEF PlanAfter
<1> QED
  BY <1>6, <1>7, <1>8 DEF BasicInv

LEMMA HandlerDiesBasic ==
    ASSUME BasicInv, NEW h \in Handlers, HandlerDies(h)
    PROVE  BasicInv'
<1>1. handler[h].appt \in Appts
  BY WorkByPc, RowsTyped DEF HandlerDies, BasicInv
<1>2. Idle \in Work /\ HasTodo(Idle)
  BY DEF Work, Idle, HasTodo
<1>3. handler' \in [Handlers -> Work] /\ TodoInv'
  BY <1>2, GoesTodo DEF HandlerDies
<1>4. Typed'
  BY <1>1, <1>3, Numbers DEF HandlerDies, Fail, BasicInv, Typed, Work
<1>5. Busy'
  BY BusyStays DEF HandlerDies
<1> QED
  BY <1>3, <1>4, <1>5 DEF BasicInv

\* The job the worker has in hand.
LEMMA InHand ==
    ASSUME BasicInv, worker # Idle
    PROVE  /\ worker \in Sending /\ worker.appt \in Appts /\ worker.kind \in Kinds
           /\ worker.start \in Times
           /\ job[<<worker.appt, worker.kind>>] \in Job
           /\ IsIn(worker.appt, worker.kind, "active")
<1>1. worker \in Sending
  BY DEF BasicInv, Typed
<1>2. worker.appt \in Appts /\ worker.kind \in Kinds /\ worker.start \in Times
  BY <1>1, SendingByPc
<1> QED
  BY <1>1, <1>2, RowsTyped DEF BasicInv, Busy, IsIn

LEMMA Finishes ==
    ASSUME Typed, NEW a \in Appts, NEW k \in Kinds, job[<<a, k>>] \in Job, job' = Finished(<<a, k>>)
    PROVE  /\ job' \in [Appts \X Kinds -> Job \cup {None}]
           /\ job'[<<a, k>>] = [job[<<a, k>>] EXCEPT !.state = "done"]
           /\ job'[<<a, k>>] \in Job
           /\ \A b \in Appts, l \in Kinds : b # a \/ l # k => job'[<<b, l>>] = job[<<b, l>>]
<1> DEFINE x == [job[<<a, k>>] EXCEPT !.state = "done"]
<1>1. x \in Job
  BY DEF Job
<1>2. job' = [job EXCEPT ![<<a, k>>] = x]
  BY DEF Finished
<1> HIDE DEF x
<1>3. /\ job' \in [Appts \X Kinds -> Job \cup {None}]
      /\ job'[<<a, k>>] = x
      /\ \A b \in Appts, l \in Kinds : b # a \/ l # k => job'[<<b, l>>] = job[<<b, l>>]
  <2> Typed /\ a \in Appts /\ k \in Kinds
    OBVIOUS
  <2> QED
    BY ONLY Typed, a \in Appts, k \in Kinds, <1>1, <1>2, OneJob
<1> QED
  BY <1>1, <1>3 DEF x

LEMMA RetriedTyped ==
    ASSUME NEW x \in Job
    PROVE  Retried(x) \in Job /\ Retried(x).due = x.due /\ Retried(x).state \in {"waiting", "done"}
<1>1. /\ x = [due |-> x.due, left |-> x.left, state |-> x.state]
      /\ x.due \in 0..(MaxTime + AfterDelay)
      /\ x.left \in 1..MaxAttempts /\ MaxAttempts \in Nat
  BY Numbers DEF Job
<1>2. CASE x.left > 1
  <2>1. Retried(x) = [due |-> x.due, left |-> x.left - 1, state |-> "waiting"]
    BY <1>1, <1>2 DEF Retried
  <2>2. x.left - 1 \in 1..MaxAttempts
    BY <1>1, <1>2
  <2> QED
    BY <1>1, <2>1, <2>2 DEF Job
<1>3. CASE ~(x.left > 1)
  <2>1. Retried(x) = [due |-> x.due, left |-> x.left, state |-> "done"]
    BY <1>1, <1>3 DEF Retried
  <2> QED
    BY <1>1, <2>1 DEF Job
<1> QED
  BY <1>2, <1>3

LEMMA Ends ==
    ASSUME BasicInv, worker # Idle, AttemptEnds, NEW a, NEW k, a = worker.appt, k = worker.kind
    PROVE  /\ job' \in [Appts \X Kinds -> Job \cup {None}]
           /\ job'[<<a, k>>] = Retried(job[<<a, k>>])
           /\ Retried(job[<<a, k>>]) \in Job
           /\ \A b \in Appts, l \in Kinds : b # a \/ l # k => job'[<<b, l>>] = job[<<b, l>>]
<1> DEFINE x == Retried(job[<<a, k>>])
<1>1. a \in Appts /\ k \in Kinds /\ job[<<a, k>>] \in Job
  BY InHand
<1>2. x \in Job
  BY <1>1, RetriedTyped
<1>3. job' = [job EXCEPT ![<<a, k>>] = x]
  BY DEF AttemptEnds
<1> HIDE DEF x
<1>4. /\ job' \in [Appts \X Kinds -> Job \cup {None}]
      /\ job'[<<a, k>>] = x
      /\ \A b \in Appts, l \in Kinds : b # a \/ l # k => job'[<<b, l>>] = job[<<b, l>>]
  BY <1>1, <1>2, <1>3, OneJob DEF BasicInv
<1> QED
  BY <1>2, <1>4 DEF x

\* The job taken becomes active and its worker busy, or it is over at once.
LEMMA TakeJobDoes ==
    ASSUME BasicInv, NEW a \in Appts, NEW k \in Kinds, TakeJob(a, k)
    PROVE  /\ job' \in [Appts \X Kinds -> Job \cup {None}]
           /\ \A b \in Appts, l \in Kinds : b # a \/ l # k => job'[<<b, l>>] = job[<<b, l>>]
           /\ \/ /\ a \in Rows /\ row[a].status = Wanted(k)
                 /\ job'[<<a, k>>] = [job[<<a, k>>] EXCEPT !.state = "active"]
                 /\ job'[<<a, k>>] \in Job
                 /\ worker' = [pc |-> "send", appt |-> a, kind |-> k, start |-> row[a].start]
                 /\ worker' \in Sending
              \/ /\ ~(a \in Rows /\ row[a].status = Wanted(k))
                 /\ job'[<<a, k>>] = [job[<<a, k>>] EXCEPT !.state = "done"]
                 /\ worker' = worker
<1>1. job[<<a, k>>] \in Job
  BY RowsTyped DEF TakeJob, IsIn, BasicInv
<1>2. CASE a \in Rows /\ row[a].status = Wanted(k)
  <2> DEFINE x == [job[<<a, k>>] EXCEPT !.state = "active"]
  <2>1. x \in Job
    BY <1>1 DEF Job
  <2>2. job' = [job EXCEPT ![<<a, k>>] = x]
    BY <1>2 DEF TakeJob
  <2>3. /\ worker' = [pc |-> "send", appt |-> a, kind |-> k, start |-> row[a].start]
        /\ worker' \in Sending
    BY <1>2, RowsTyped DEF TakeJob, Sending, Row, BasicInv
  <2> HIDE DEF x
  <2>4. /\ job' \in [Appts \X Kinds -> Job \cup {None}]
        /\ job'[<<a, k>>] = x
        /\ \A b \in Appts, l \in Kinds : b # a \/ l # k => job'[<<b, l>>] = job[<<b, l>>]
    BY <2>1, <2>2, OneJob DEF BasicInv
  <2> QED
    BY <1>2, <2>1, <2>3, <2>4 DEF x
<1>3. CASE ~(a \in Rows /\ row[a].status = Wanted(k))
  <2>1. job' = Finished(<<a, k>>) /\ worker' = worker
    BY <1>3 DEF TakeJob
  <2> QED
    BY <1>1, <1>3, <2>1, Finishes DEF BasicInv
<1> QED
  BY <1>2, <1>3

LEMMA TakeJobBasic ==
    ASSUME BasicInv, NEW a \in Appts, NEW k \in Kinds, TakeJob(a, k)
    PROVE  BasicInv'
<1>1. /\ job' \in [Appts \X Kinds -> Job \cup {None}]
      /\ worker' \in Sending \cup {Idle}
      /\ Busy'
  <2>1. CASE /\ job'[<<a, k>>] = [job[<<a, k>>] EXCEPT !.state = "active"]
             /\ job'[<<a, k>>] \in Job
             /\ worker' = [pc |-> "send", appt |-> a, kind |-> k, start |-> row[a].start]
             /\ worker' \in Sending
    <3>1. job'[<<a, k>>] # None /\ job'[<<a, k>>].state = "active"
      BY <2>1, RowsTyped, SentinelAssumption DEF TakeJob, IsIn, BasicInv, Job
    <3> QED
      BY <2>1, <3>1, TakeJobDoes DEF Busy, IsIn
  <2>2. CASE worker' = worker
    BY <2>2, TakeJobDoes DEF Busy, TakeJob, BasicInv, Typed
  <2> QED
    BY <2>1, <2>2, TakeJobDoes
<1>2. Typed'
  BY <1>1 DEF TakeJob, BasicInv, Typed
<1> QED
  BY <1>1, <1>2 DEF TakeJob, BasicInv, TodoInv

LEMMA SendDoes ==
    ASSUME BasicInv, Send
    PROVE  \/ /\ worker.kind \in Windows
              /\ told' \in [Appts \X Windows -> SUBSET Times]
              /\ told'[<<worker.appt, worker.kind>>] = told[<<worker.appt, worker.kind>>] \cup {worker.start}
              /\ \A b \in Appts, l \in Windows :
                    b # worker.appt \/ l # worker.kind => told'[<<b, l>>] = told[<<b, l>>]
              /\ worker' = [worker EXCEPT !.pc = "mark"] /\ worker' \in Sending
              /\ worker'.appt = worker.appt /\ worker'.kind = worker.kind /\ worker'.pc = "mark"
              /\ job' = job
           \/ /\ worker.kind \notin Windows
              /\ worker' = Idle /\ told' = told
              /\ job' \in [Appts \X Kinds -> Job \cup {None}]
              /\ \A b \in Appts, l \in Windows : job'[<<b, l>>] = job[<<b, l>>]
<1>1. worker # Idle
  BY DEF Send, Idle
<1>2. /\ worker \in Sending /\ worker.appt \in Appts /\ worker.kind \in Kinds
      /\ worker.start \in Times /\ job[<<worker.appt, worker.kind>>] \in Job
  BY <1>1, InHand
<1>3. CASE worker.kind \in Windows
  <2> DEFINE i == <<worker.appt, worker.kind>>
             S == told[i] \cup {worker.start}
  <2>1. told' = [told EXCEPT ![i] = S] /\ worker' = [worker EXCEPT !.pc = "mark"] /\ job' = job
    BY <1>3 DEF Send
  <2>2. told \in [Appts \X Windows -> SUBSET Times] /\ i \in Appts \X Windows
    BY <1>2, <1>3 DEF BasicInv, Typed
  <2>3. S \in SUBSET Times
    BY <1>2, <2>2
  <2> HIDE DEF S
  <2>4. told' \in [Appts \X Windows -> SUBSET Times] /\ told'[i] = S
    BY <2>1, <2>2, <2>3
  <2>5. \A j \in Appts \X Windows : j # i => told'[j] = told[j]
    BY <2>1, <2>2
  <2>6. \A b \in Appts, l \in Windows :
           b # worker.appt \/ l # worker.kind => told'[<<b, l>>] = told[<<b, l>>]
    BY <2>5
  <2>7. /\ worker' \in Sending /\ worker'.appt = worker.appt
        /\ worker'.kind = worker.kind /\ worker'.pc = "mark"
    BY <1>2, <2>1 DEF Sending
  <2> QED
    BY <1>3, <2>1, <2>4, <2>6, <2>7 DEF S
<1>4. CASE worker.kind \notin Windows
  <2>1. /\ worker' = Idle /\ told' = told
        /\ job' = Finished(<<worker.appt, worker.kind>>)
    BY <1>4 DEF Send
  <2>2. /\ job' \in [Appts \X Kinds -> Job \cup {None}]
        /\ \A b \in Appts, l \in Kinds :
              b # worker.appt \/ l # worker.kind => job'[<<b, l>>] = job[<<b, l>>]
    BY <1>2, <2>1, Finishes DEF BasicInv
  <2> QED
    BY <1>4, <2>1, <2>2, KindsFacts
<1> QED
  BY <1>3, <1>4

LEMMA WorkerBasic ==
    ASSUME BasicInv, Send \/ Mark \/ MarkRefused \/ SendFails \/ FailsAfterSend
    PROVE  BasicInv'
<1>1. worker # Idle
  BY DEF Send, Mark, MarkRefused, SendFails, FailsAfterSend, Idle
<1>2. /\ worker \in Sending /\ worker.appt \in Appts /\ worker.kind \in Kinds
      /\ job[<<worker.appt, worker.kind>>] \in Job
      /\ IsIn(worker.appt, worker.kind, "active")
  BY <1>1, InHand
<1>3. CASE Send
  <2>1. UNCHANGED <<row, handler, now, disturbed, edits, failures>>
    BY <1>3 DEF Send
  <2>2. /\ job' \in [Appts \X Kinds -> Job \cup {None}]
        /\ worker' \in Sending \cup {Idle}
        /\ told' \in [Appts \X Windows -> SUBSET Times]
    BY <1>3, SendDoes DEF BasicInv, Typed
  <2>3. Typed'
    BY <2>1, <2>2 DEF BasicInv, Typed
  <2>4. Busy'
    BY <1>2, <1>3, SendDoes DEF Busy, IsIn
  <2> QED
    BY <2>1, <2>3, <2>4 DEF BasicInv, TodoInv
<1>4. CASE Mark
  <2>1. /\ UNCHANGED <<row, handler, now, told, disturbed, edits, failures>>
        /\ job' = Finished(<<worker.appt, worker.kind>>) /\ worker' = Idle
    BY <1>4 DEF Mark
  <2>2. job' \in [Appts \X Kinds -> Job \cup {None}]
    BY <1>2, <2>1, Finishes DEF BasicInv
  <2>3. Typed'
    BY <2>1, <2>2 DEF BasicInv, Typed
  <2> QED
    BY <2>1, <2>3 DEF BasicInv, TodoInv, Busy
<1>5. CASE MarkRefused \/ SendFails \/ FailsAfterSend
  <2>1. AttemptEnds /\ UNCHANGED told
    BY <1>5 DEF MarkRefused, SendFails, FailsAfterSend
  <2>2. job' \in [Appts \X Kinds -> Job \cup {None}]
    BY <1>1, <2>1, Ends
  <2>3. disturbed' \subseteq Appts /\ failures' \in 0..MaxFailures
    BY <1>2, <1>5, Numbers DEF MarkRefused, SendFails, FailsAfterSend, Fail, BasicInv, Typed
  <2>4. UNCHANGED <<row, handler, now, edits>> /\ worker' = Idle
    BY <2>1 DEF AttemptEnds
  <2>5. Typed'
    BY <2>1, <2>2, <2>3, <2>4 DEF BasicInv, Typed
  <2> QED
    BY <2>4, <2>5 DEF BasicInv, TodoInv, Busy
<1> QED
  BY <1>3, <1>4, <1>5

LEMMA BasicInit ==
    Init => BasicInv
  BY Numbers DEF Init, BasicInv, Typed, TodoInv, HasTodo, Busy, Idle, Times

LEMMA BasicStep ==
    ASSUME BasicInv, [Next]_vars
    PROVE  BasicInv'
<1>1. CASE People
  BY <1>1, PeopleBasic
<1>2. ASSUME NEW h \in Handlers,
             RemoveOne(h) \/ AddOne(h) \/ PlanAfter(h) \/ AddFails(h) \/ HandlerDies(h)
      PROVE  BasicInv'
  BY <1>2, RemoveOneBasic, AddOneBasic, PlanAfterBasic, AddFailsBasic, HandlerDiesBasic
<1>3. ASSUME NEW a \in Appts, NEW k \in Kinds, TakeJob(a, k)
      PROVE  BasicInv'
  BY <1>3, TakeJobBasic
<1>4. CASE Send \/ Mark \/ MarkRefused \/ SendFails \/ FailsAfterSend
  BY <1>4, WorkerBasic
<1>5. CASE Tick
  BY <1>5, Numbers DEF Tick, BasicInv, Typed, TodoInv, Busy, IsIn, Times
<1>6. CASE UNCHANGED vars
  BY <1>6 DEF vars, BasicInv, Typed, TodoInv, Busy, IsIn
<1> QED
  BY <1>1, <1>2, <1>3, <1>4, <1>5, <1>6 DEF Next, Progress, Losses

\* Rows, jobs, listeners and the worker are always what Reminders.tla says
\* they are.
THEOREM TypeCorrect == Spec => []TypeOK
<1>1. Init => BasicInv /\ heard \in Emitters
  BY BasicInit DEF Init
<1>2. BasicInv /\ [Next]_vars => BasicInv'
  BY BasicStep
<1>3. ASSUME heard \in Emitters, [Next]_vars PROVE (heard \in Emitters)'
  BY <1>3 DEF Next, vars
<1>4. BasicInv /\ heard \in Emitters => TypeOK
  BY DEF BasicInv, TypeOK
<1> QED
  BY <1>1, <1>2, <1>3, <1>4, PTL DEF Spec
-----------------------------------------------------------------------------
(* The invariant *)

\* The reminder of window w is as the row wants it.
Planned(a, w) ==
    /\ (job[<<a, w>>] # None /\ job[<<a, w>>].state \in {"waiting", "active"}) =>
           job[<<a, w>>].due = row[a].start - Lead[w]
    /\ IsIn(a, w, "waiting") => row[a].start \notin told[<<a, w>>]
    /\ (w # Extra /\ Ahead(row[a].start, w)) => IsIn(a, w, "waiting")

\* How far listener h is with the reminders of a.
HandlerInStep(h, a) ==
    /\ handler[h].start = row[a].start
    /\ row[a].status = "PENDING" => handler[h].again
    /\ row[a].status = "CANCELLED" => ~handler[h].again
    /\ handler[h].pc = "remove" => \A w \in Windows \ handler[h].todo : job[<<a, w>>] = None
    /\ handler[h].pc = "add" =>
           /\ handler[h].again
           /\ \A w \in handler[h].todo : job[<<a, w>>] = None
           /\ \A w \in Windows \ handler[h].todo : Planned(a, w)

\* One listener at most is at the reminders of a; when none is, they are those
\* of the row.
InStep(a) ==
    /\ \A g, h \in Handlers : At(g, a) /\ At(h, a) => g = h
    /\ \A h \in Handlers : At(h, a) => HandlerInStep(h, a)
    /\ (\A h \in Handlers : ~At(h, a)) =>
           /\ row[a].status = "PENDING" => \A w \in Windows : Planned(a, w)
           /\ row[a].status = "CANCELLED" => \A w \in Windows : job[<<a, w>>] = None

\* What has been told was due.
ToldInTime(a) == \A w \in Windows : \A t \in told[<<a, w>>] : t - Lead[w] <= now

\* What the worker is about to tell is due, and has not been told.
TellsNew ==
    (worker.pc = "send" /\ worker.kind \in Windows /\ worker.appt \notin disturbed) =>
        /\ worker.start \notin told[<<worker.appt, worker.kind>>]
        /\ worker.start - Lead[worker.kind] = job[<<worker.appt, worker.kind>>].due
        /\ worker.start - Lead[worker.kind] <= now

RemindersInv ==
    /\ BasicInv
    /\ TellsNew
    /\ \A a \in Appts \ disturbed : ToldInTime(a)
    /\ \A a \in Rows \ disturbed : InStep(a)

\* Nothing a reminder of a depends on changes.
SameAt(a) == \A h \in Handlers : At(h, a) \/ At(h, a)' => handler'[h] = handler[h]

SameFor(a) ==
    /\ row'[a] = row[a]
    /\ \A w \in Windows : job'[<<a, w>>] = job[<<a, w>>] /\ told'[<<a, w>>] = told[<<a, w>>]
    /\ SameAt(a)

LEMMA PlannedStays ==
    ASSUME BasicInv, BasicInv', NEW a \in Rows, NEW w \in Windows, Planned(a, w),
           row'[a] = row[a], job'[<<a, w>>] = job[<<a, w>>], told'[<<a, w>>] = told[<<a, w>>],
           now' >= now
    PROVE  Planned(a, w)'
<1>1. now \in Nat /\ now' \in Nat /\ Lead[w] \in Nat /\ row[a].start \in Nat
  BY RowsTyped, Numbers DEF BasicInv, Typed, Row
<1>2. Ahead(row[a].start, w)' => Ahead(row[a].start, w)
  BY <1>1 DEF Ahead
<1>3. IsIn(a, w, "waiting")' <=> IsIn(a, w, "waiting")
  BY DEF IsIn
<1> QED
  BY <1>2, <1>3 DEF Planned

LEMMA StaysInStep ==
    ASSUME BasicInv, BasicInv', NEW a \in Rows, InStep(a), SameFor(a), now' >= now
    PROVE  InStep(a)'
<1>1. \A h \in Handlers : At(h, a)' => At(h, a) /\ handler'[h] = handler[h]
  BY DEF SameFor, SameAt, At
<1>2. \A h \in Handlers : At(h, a) => At(h, a)'
  BY DEF SameFor, SameAt, At
<1>3. \A w \in Windows : Planned(a, w) => Planned(a, w)'
  BY PlannedStays DEF SameFor
<1>4. ASSUME NEW h \in Handlers, At(h, a)'
      PROVE  HandlerInStep(h, a)'
  <2>1. HandlerInStep(h, a) /\ handler'[h] = handler[h]
    BY <1>1, <1>4 DEF InStep
  <2>2. handler[h] \in Work /\ handler[h].pc \in {"remove", "add"}
    BY <1>1, <1>4, RowsTyped DEF BasicInv, At
  <2>3. handler[h].todo \subseteq Windows
    BY <2>2, WorkByPc DEF Reminding
  <2> QED
    BY <2>1, <2>3, <1>3 DEF HandlerInStep, SameFor
<1>5. \A g, h \in Handlers : At(g, a)' /\ At(h, a)' => g = h
  BY <1>1 DEF InStep
<1>6. (\A h \in Handlers : ~At(h, a)') =>
          /\ row'[a].status = "PENDING" => \A w \in Windows : Planned(a, w)'
          /\ row'[a].status = "CANCELLED" => \A w \in Windows : job'[<<a, w>>] = None
  BY <1>2, <1>3 DEF InStep, SameFor
<1> QED
  BY <1>4, <1>5, <1>6 DEF InStep

\* A listener that goes on elsewhere.
LEMMA GoesElsewhere ==
    ASSUME BasicInv, NEW a \in Appts, NEW h \in Handlers, NEW p \in Work, Goes(h, p),
           ~At(h, a), ~(p.pc \in {"remove", "add"} /\ p.appt = a)
    PROVE  SameAt(a)
<1>1. handler \in [Handlers -> Work]
  BY DEF BasicInv, Typed, Work
<1>2. /\ handler'[h] = p
      /\ \A g \in Handlers : g # h => handler'[g] = handler[g]
  BY <1>1 DEF Goes
<1> QED
  BY <1>2 DEF SameAt, At

\* Steps that tell nothing, and leave the worker and its job alone.
Quiet ==
    /\ worker' = worker /\ told' = told /\ now' >= now /\ disturbed \subseteq disturbed'
    /\ \A a \in Appts, k \in Kinds : IsIn(a, k, "active") => job'[<<a, k>>] = job[<<a, k>>]

LEMMA ToldStays ==
    ASSUME RemindersInv, BasicInv', told' = told, now' >= now, disturbed \subseteq disturbed'
    PROVE  \A a \in Appts \ disturbed' : ToldInTime(a)'
<1> SUFFICES ASSUME NEW a \in Appts \ disturbed', NEW w \in Windows, NEW t \in told'[<<a, w>>]
             PROVE  t - Lead[w] <= now'
  BY DEF ToldInTime
<1>1. t - Lead[w] <= now
  BY DEF RemindersInv, ToldInTime
<1>2. t \in Nat /\ now \in Nat /\ now' \in Nat /\ Lead[w] \in Nat
  <2>1. <<a, w>> \in Appts \X Windows /\ told \in [Appts \X Windows -> SUBSET Times]
    BY DEF RemindersInv, BasicInv, Typed
  <2>2. told[<<a, w>>] \subseteq Times
    BY <2>1
  <2> QED
    BY <2>2, Numbers DEF RemindersInv, BasicInv, Typed
<1> QED
  BY <1>1, <1>2

LEMMA QuietStays ==
    ASSUME RemindersInv, BasicInv', Quiet
    PROVE  TellsNew' /\ \A a \in Appts \ disturbed' : ToldInTime(a)'
<1>1. \A a \in Appts \ disturbed' : ToldInTime(a)'
  BY ToldStays DEF Quiet
<1>2. ASSUME worker.pc = "send", worker.kind \in Windows, worker.appt \notin disturbed'
      PROVE  /\ worker.start \notin told[<<worker.appt, worker.kind>>]
             /\ worker.start - Lead[worker.kind] = job'[<<worker.appt, worker.kind>>].due
             /\ worker.start - Lead[worker.kind] <= now'
  <2>1. /\ worker.start \notin told[<<worker.appt, worker.kind>>]
        /\ worker.start - Lead[worker.kind] = job[<<worker.appt, worker.kind>>].due
        /\ worker.start - Lead[worker.kind] <= now
    BY <1>2 DEF RemindersInv, TellsNew, Quiet
  <2>2. worker # Idle
    BY <1>2 DEF Idle
  <2>3. /\ job'[<<worker.appt, worker.kind>>] = job[<<worker.appt, worker.kind>>]
        /\ worker.start \in Nat /\ Lead[worker.kind] \in Nat
    BY <1>2, <2>2, InHand, Numbers DEF Quiet, RemindersInv
  <2>4. now \in Nat /\ now' \in Nat /\ now' >= now
    BY Numbers DEF RemindersInv, BasicInv, Typed, Quiet
  <2> QED
    BY <2>1, <2>3, <2>4
<1> QED
  BY <1>1, <1>2 DEF TellsNew, Quiet

\* What is left of a quiet step: the appointments in step.
LEMMA QuietStep ==
    ASSUME RemindersInv, BasicInv', Quiet, \A a \in (Rows \ disturbed)' : InStep(a)'
    PROVE  RemindersInv'
  BY QuietStays DEF RemindersInv

\* A row that is somebody else's stays in step.
LEMMA OthersInStep ==
    ASSUME RemindersInv, BasicInv', Quiet, NEW a \in (Rows \ disturbed)', SameFor(a)
    PROVE  InStep(a)'
<1>1. a \in Rows \ disturbed
  BY DEF SameFor, Quiet, Rows
<1>2. InStep(a)
  BY <1>1 DEF RemindersInv
<1> QED
  BY <1>1, <1>2, StaysInStep DEF RemindersInv, Quiet

-----------------------------------------------------------------------------
(* The requests *)

LEMMA WriteQuiet ==
    ASSUME RemindersInv, BasicInv', NEW a \in Appts, NEW r \in Row, NEW q \in Work, Write(a, r, q),
           q.appt = a
    PROVE  Quiet /\ \A b \in (Rows \ disturbed)' : b # a => InStep(b)'
<1>1. /\ worker' = worker /\ told' = told /\ now' = now /\ job' = job
      /\ row' = [row EXCEPT ![a] = r] /\ Announce(a, q)
  BY DEF Write
<1>2. PICK h \in Handlers : handler[h] = Idle /\ Goes(h, q)
  BY <1>1, AnnounceGoes DEF RemindersInv, BasicInv
<1>3. disturbed \subseteq disturbed'
  BY <1>1 DEF Announce
<1>4. Quiet
  BY <1>1, <1>3 DEF Quiet, RemindersInv, BasicInv, Typed, Times
<1>5. ASSUME NEW b \in (Rows \ disturbed)', b # a
      PROVE  InStep(b)'
  <2>1. b \in Appts /\ row'[b] = row[b]
    BY <1>1, <1>5 DEF Rows, RemindersInv, BasicInv, Typed
  <2>2. SameAt(b)
    BY <1>2, <1>5, <2>1, GoesElsewhere DEF RemindersInv, At, Idle
  <2> QED
    BY <1>1, <1>4, <2>1, <2>2, OthersInStep DEF SameFor
<1> QED
  BY <1>4, <1>5

\* A change that is announced with a new round of reminders.
LEMMA NewRound ==
    ASSUME RemindersInv, BasicInv', NEW a \in Appts, NEW r \in Row, NEW again \in BOOLEAN,
           r.status = "PENDING" => again, r.status = "CANCELLED" => ~again,
           Write(a, r, Reminders(a, r, again))
    PROVE  RemindersInv'
<1> DEFINE q == Reminders(a, r, again)
<1>1. /\ q \in Work /\ q.pc = "remove" /\ q.appt = a
      /\ q.start = r.start /\ q.again = again /\ q.todo = Windows
  BY RemindersTyped DEF Reminders, Cancels
<1> HIDE DEF q
<1>2. Write(a, r, q)
  BY DEF q
<1>3. Quiet /\ \A b \in (Rows \ disturbed)' : b # a => InStep(b)'
  BY <1>1, <1>2, WriteQuiet
<1>4. ASSUME a \notin disturbed'
      PROVE  InStep(a)'
  <2>1. PICK h \in Handlers : handler[h] = Idle /\ Goes(h, q)
    BY <1>2, AnnounceGoes DEF Write, RemindersInv, BasicInv
  <2>2. \A g \in Handlers : ~At(g, a)
    BY <1>1, <1>2, <1>4, AnnounceGoes DEF Write, RemindersInv, BasicInv
  <2>3. /\ handler'[h] = q
        /\ \A g \in Handlers : g # h => handler'[g] = handler[g]
    BY <2>1 DEF Goes, RemindersInv, BasicInv, Typed
  <2>4. At(h, a)' /\ \A g \in Handlers : At(g, a)' => g = h
    BY <1>1, <2>2, <2>3 DEF At
  <2>5. row'[a] = r
    BY <1>2 DEF Write, RemindersInv, BasicInv, Typed
  <2>6. HandlerInStep(h, a)'
    BY <1>1, <2>3, <2>5 DEF HandlerInStep
  <2> QED
    BY <2>4, <2>6 DEF InStep
<1> QED
  BY <1>3, <1>4, QuietStep

\* The end of the visit: nothing is asked of the reminders any more.
LEMMA VisitEnds ==
    ASSUME RemindersInv, BasicInv', NEW a \in Rows, NEW status \in {"COMPLETED", "NO_SHOW"},
           NEW q \in Work, q.pc = "after", q.appt = a,
           Write(a, [row[a] EXCEPT !.status = status], q)
    PROVE  RemindersInv'
<1> DEFINE r == [row[a] EXCEPT !.status = status]
<1>1. a \in Appts /\ r \in Row /\ r.start = row[a].start /\ r.status = status
  BY RowsTyped DEF RemindersInv, BasicInv, Row
<1> HIDE DEF r
<1>2. Write(a, r, q)
  BY DEF r
<1>3. Quiet /\ \A b \in (Rows \ disturbed)' : b # a => InStep(b)'
  BY <1>1, <1>2, WriteQuiet
<1>4. ASSUME a \notin disturbed'
      PROVE  InStep(a)'
  <2>1. PICK h \in Handlers : handler[h] = Idle /\ Goes(h, q)
    BY <1>2, AnnounceGoes DEF Write, RemindersInv, BasicInv
  <2>2. InStep(a)
    BY <1>3, <1>4 DEF Quiet, RemindersInv
  <2>3. /\ handler'[h] = q
        /\ \A g \in Handlers : g # h => handler'[g] = handler[g]
    BY <2>1 DEF Goes, RemindersInv, BasicInv, Typed
  <2>4. \A g \in Handlers : At(g, a)' => At(g, a) /\ handler'[g] = handler[g]
    BY <2>3 DEF At
  <2>5. row'[a] = r /\ job' = job /\ told' = told /\ now' = now
    BY <1>1, <1>2 DEF Write, RemindersInv, BasicInv, Typed
  <2>6. \A w \in Windows : Planned(a, w) => Planned(a, w)'
    BY <1>1, <2>5 DEF Planned, IsIn, Ahead
  <2>7. ASSUME NEW g \in Handlers, At(g, a)'
        PROVE  HandlerInStep(g, a)'
    <3>1. HandlerInStep(g, a) /\ handler'[g] = handler[g]
      BY <2>2, <2>4, <2>7 DEF InStep
    <3> QED
      BY <1>1, <2>5, <2>6, <3>1 DEF HandlerInStep
  <2> QED
    BY <1>1, <2>2, <2>4, <2>5, <2>7 DEF InStep
<1> QED
  BY <1>3, <1>4, QuietStep

LEMMA PeopleStep ==
    ASSUME RemindersInv, BasicInv', People, heard
    PROVE  RemindersInv'
<1>1. CASE Create \/ Reschedule
  <2>1. PICK a \in Appts, t \in Times :
           LET r == [start |-> t, status |-> "PENDING"] IN Write(a, r, Reminders(a, r, TRUE))
    BY <1>1 DEF Create, Reschedule, Rows, WriteOnTheList
  <2>2. [start |-> t, status |-> "PENDING"] \in Row
    BY DEF Row
  <2> QED
    BY <2>1, <2>2, NewRound
<1>2. CASE Confirm
  <2>1. PICK a \in Rows :
           LET r == [row[a] EXCEPT !.status = "PENDING"] IN Write(a, r, Reminders(a, r, TRUE))
    BY <1>2 DEF Confirm, WriteOnTheList
  <2> DEFINE r == [row[a] EXCEPT !.status = "PENDING"]
  <2>2. r \in Row /\ r.status = "PENDING" /\ a \in Appts
    BY RowsTyped DEF Row, RemindersInv, BasicInv
  <2> HIDE DEF r
  <2>3. Write(a, r, Reminders(a, r, TRUE))
    BY <2>1 DEF r
  <2> QED
    BY <2>2, <2>3, NewRound
<1>3. CASE Cancel
  <2>1. PICK a \in Rows :
           LET r == [row[a] EXCEPT !.status = "CANCELLED"] IN Write(a, r, Reminders(a, r, FALSE))
    BY <1>3 DEF Cancel
  <2> DEFINE r == [row[a] EXCEPT !.status = "CANCELLED"]
  <2>2. r \in Row /\ r.status = "CANCELLED" /\ a \in Appts
    BY RowsTyped DEF Row, RemindersInv, BasicInv
  <2> HIDE DEF r
  <2>3. Write(a, r, Reminders(a, r, FALSE))
    BY <2>1 DEF r
  <2> QED
    BY <2>2, <2>3, NewRound
<1>4. CASE Complete
  <2>1. PICK a \in Rows : Write(a, [row[a] EXCEPT !.status = "COMPLETED"],
                                [pc |-> "after", appt |-> a, kind |-> "followup"])
    BY <1>4 DEF Complete
  <2>2. [pc |-> "after", appt |-> a, kind |-> "followup"] \in Work
    BY DEF Work, Planning, After, Rows
  <2> QED
    BY <2>1, <2>2, VisitEnds
<1>5. CASE MarkNoShow
  <2>1. PICK a \in Rows : Write(a, [row[a] EXCEPT !.status = "NO_SHOW"],
                                [pc |-> "after", appt |-> a, kind |-> "noshow"])
    BY <1>5 DEF MarkNoShow
  <2>2. [pc |-> "after", appt |-> a, kind |-> "noshow"] \in Work
    BY DEF Work, Planning, After, Rows
  <2> QED
    BY <2>1, <2>2, VisitEnds
<1>6. CASE WriteFromGoogle \/ RemoveClient
  <2>1. PICK a \in Appts, x \in Row \cup {Deleted} :
           /\ row' = [row EXCEPT ![a] = x]
           /\ (x = Deleted /\ disturbed' = disturbed) \/ disturbed' = disturbed \cup {a}
           /\ UNCHANGED <<job, handler, worker, now, told, failures>>
    <3>1. CASE WriteFromGoogle
      <4>1. PICK a \in Appts, t \in Times, status \in {"PENDING", "COMPLETED", "CANCELLED"} :
               /\ row' = [row EXCEPT ![a] = [start |-> t, status |-> status]]
               /\ disturbed' = disturbed \cup {a}
               /\ UNCHANGED <<job, handler, worker, now, told, failures>>
        BY <3>1 DEF WriteFromGoogle
      <4>2. [start |-> t, status |-> status] \in Row
        BY DEF Row
      <4> QED
        BY <4>1, <4>2
    <3>2. CASE RemoveClient
      BY <3>2 DEF RemoveClient, Rows
    <3> QED
      BY <1>6, <3>1, <3>2
  <2>2. Quiet
    BY <2>1 DEF Quiet, RemindersInv, BasicInv, Typed, Times
  <2>3. ASSUME NEW b \in (Rows \ disturbed)'
        PROVE  InStep(b)'
    <3>1. row'[a] = x /\ \A c \in Appts : c # a => row'[c] = row[c]
      BY <2>1 DEF RemindersInv, BasicInv, Typed
    <3>2. b # a
      BY <2>1, <3>1 DEF Rows
    <3>3. SameFor(b)
      BY <2>1, <3>1, <3>2 DEF SameFor, SameAt, Rows
    <3> QED
      BY <2>2, <3>3, OthersInStep
  <2> QED
    BY <2>2, <2>3, QuietStep
<1> QED
  BY <1>1, <1>2, <1>3, <1>4, <1>5, <1>6 DEF People
-----------------------------------------------------------------------------
(* The listeners *)

LEMMA RemoveOneStep ==
    ASSUME RemindersInv, BasicInv', NEW h \in Handlers, RemoveOne(h)
    PROVE  RemindersInv'
<1>0. PICK q, w, a : q = handler[h] /\ w = First(q.todo) /\ a = q.appt
  OBVIOUS
<1>1. /\ q \in Reminding /\ q.pc = "remove" /\ a \in Appts /\ At(h, a)
      /\ w \in q.todo /\ w \in Windows /\ w \in Kinds /\ q.todo \subseteq Windows
  <2>1. /\ q \in Reminding /\ q.pc = "remove" /\ q.appt \in Appts
        /\ w \in q.todo /\ w \in Windows /\ w \in Kinds
    BY <1>0, RemoveOneDoes DEF RemindersInv
  <2> QED
    BY <1>0, <2>1 DEF At, Reminding
<1>2. PICK p \in Work : Goes(h, p) /\ HasTodo(p) /\ AfterRemoval(q, w, p)
  BY <1>0, RemoveOneDoes DEF RemindersInv
<1>3. \/ IsIn(a, w, "active") /\ disturbed' = disturbed \cup {a} /\ job' = job
      \/ /\ ~IsIn(a, w, "active")
         /\ job' = [job EXCEPT ![<<a, w>>] = None] /\ disturbed' = disturbed
  BY <1>0, RemoveOneDoes DEF RemindersInv
<1>4. UNCHANGED <<row, worker, now, told>>
  BY DEF RemoveOne
<1>5. \A b \in Appts, k \in Kinds : b # a \/ k # w => job'[<<b, k>>] = job[<<b, k>>]
  <2>1. CASE job' = job
    BY <2>1
  <2>2. CASE job' = [job EXCEPT ![<<a, w>>] = None]
    <3>1. job \in [Appts \X Kinds -> Job \cup {None}]
      BY DEF RemindersInv, BasicInv, Typed
    <3>2. \A i \in Appts \X Kinds : i # <<a, w>> => job'[i] = job[i]
      BY <2>2, <3>1
    <3> QED
      BY <3>2
  <2> QED
    BY <1>3, <2>1, <2>2
<1>6. a \notin disturbed' => job'[<<a, w>>] = None
  BY <1>1, <1>3, OneJob DEF RemindersInv, BasicInv
<1>7. Quiet
  BY <1>3, <1>4, <1>5 DEF Quiet, RemindersInv, BasicInv, Typed, Times
<1>8. p.pc \in {"remove", "add"} => p.appt = a /\ p.start = q.start /\ p.again = q.again
  <2>1. \A S : [q EXCEPT !.todo = S].appt = a /\ [q EXCEPT !.todo = S].start = q.start
               /\ [q EXCEPT !.todo = S].again = q.again
    BY <1>0, <1>1 DEF Reminding
  <2>2. \A S : /\ [q EXCEPT !.pc = "add", !.todo = S].appt = a
               /\ [q EXCEPT !.pc = "add", !.todo = S].start = q.start
               /\ [q EXCEPT !.pc = "add", !.todo = S].again = q.again
    BY <1>0, <1>1 DEF Reminding
  <2>3. p = Idle => ~(p.pc \in {"remove", "add"})
    BY DEF Idle
  <2> QED
    BY <1>2, <2>1, <2>2, <2>3 DEF AfterRemoval
<1>9. ASSUME NEW b \in (Rows \ disturbed)', b # a
      PROVE  InStep(b)'
  <2>1. b \in Appts /\ ~At(h, b)
    BY <1>0, <1>9 DEF Rows, At
  <2>2. SameAt(b)
    BY <1>2, <1>8, <1>9, <2>1, GoesElsewhere DEF RemindersInv
  <2>3. SameFor(b)
    BY <1>4, <1>5, <1>9, <2>1, <2>2, KindsFacts DEF SameFor
  <2> QED
    BY <1>7, <2>3, OthersInStep
<1>10. ASSUME a \in (Rows \ disturbed)'
       PROVE  InStep(a)'
  <2>1. a \in Rows \ disturbed
    BY <1>4, <1>7, <1>10 DEF Rows, Quiet
  <2>2. InStep(a) /\ HandlerInStep(h, a) /\ \A g \in Handlers : At(g, a) => g = h
    BY <1>1, <2>1 DEF InStep, RemindersInv
  <2>3. /\ handler'[h] = p
        /\ \A g \in Handlers : g # h => handler'[g] = handler[g]
    BY <1>2 DEF Goes, RemindersInv, BasicInv, Typed
  <2>4. \A g \in Handlers : At(g, a)' => g = h
    BY <2>2, <2>3 DEF At
  <2>5. \A v \in Windows \ (q.todo \ {w}) : job'[<<a, v>>] = None
    BY <1>0, <1>1, <1>5, <1>6, <1>10, <2>2, KindsFacts DEF HandlerInStep
  <2>6. /\ q.start = row[a].start
        /\ row[a].status = "PENDING" => q.again
        /\ row[a].status = "CANCELLED" => ~q.again
    BY <1>0, <2>2 DEF HandlerInStep
  <2>7. CASE p.pc \in {"remove", "add"}
    <3>1. HandlerInStep(h, a)'
      <4>1. CASE q.todo \ {w} # {} /\ p = [q EXCEPT !.todo = q.todo \ {w}]
        <5>1. p.pc = "remove" /\ p.todo = q.todo \ {w}
          BY <1>1, <4>1 DEF Reminding
        <5> QED
          BY <1>4, <1>8, <2>3, <2>5, <2>6, <5>1 DEF HandlerInStep
      <4>2. CASE /\ q.todo \ {w} = {} /\ q.again
                 /\ \E W \in {Windows, Windows \ {Extra}} : p = [q EXCEPT !.pc = "add", !.todo = W]
        <5>1. PICK W \in {Windows, Windows \ {Extra}} : p = [q EXCEPT !.pc = "add", !.todo = W]
          BY <4>2
        <5>2. p.pc = "add" /\ p.todo = W /\ p.again
          BY <1>1, <4>2, <5>1 DEF Reminding
        <5>3. \A v \in Windows : job'[<<a, v>>] = None
          BY <2>5, <4>2
        <5>4. \A v \in Windows \ W : v = Extra
          BY <5>1
        <5>5. \A v \in Windows \ W : Planned(a, v)'
          BY <5>3, <5>4 DEF Planned, IsIn
        <5> QED
          BY <1>4, <1>8, <2>3, <2>6, <2>7, <5>1, <5>2, <5>3, <5>5 DEF HandlerInStep
      <4>3. CASE p = Idle
        BY <2>7, <4>3 DEF Idle
      <4> QED
        BY <1>2, <4>1, <4>2, <4>3 DEF AfterRemoval
    <3>2. At(h, a)'
      BY <1>8, <2>3, <2>7 DEF At
    <3> QED
      BY <2>4, <3>1, <3>2 DEF InStep
  <2>8. CASE ~(p.pc \in {"remove", "add"})
    <3>1. q.todo \ {w} = {} /\ ~q.again
      BY <1>1, <1>2, <2>8 DEF AfterRemoval, Reminding
    <3>2. \A g \in Handlers : ~At(g, a)'
      BY <2>3, <2>4, <2>8 DEF At
    <3> QED
      BY <1>4, <2>4, <2>5, <2>6, <3>1, <3>2 DEF InStep
  <2> QED
    BY <2>7, <2>8
<1> QED
  BY <1>7, <1>9, <1>10, QuietStep

LEMMA AddOneStep ==
    ASSUME RemindersInv, BasicInv', NEW h \in Handlers, AddOne(h)
    PROVE  RemindersInv'
<1>0. PICK q, w, a : q = handler[h] /\ w = First(q.todo) /\ a = q.appt
  OBVIOUS
<1>1. /\ q \in Reminding /\ q.pc = "add" /\ a \in Appts /\ At(h, a) /\ q.start \in Times
      /\ w \in q.todo /\ w \in Windows /\ w \in Kinds /\ q.todo \subseteq Windows
  <2>1. /\ q \in Reminding /\ q.pc = "add" /\ q.appt \in Appts /\ q.start \in Times
        /\ w \in q.todo /\ w \in Windows /\ w \in Kinds
    BY <1>0, LoopDoes DEF RemindersInv, AddOne
  <2> QED
    BY <1>0, <2>1 DEF At, Reminding
<1>2. PICK p \in Work : Goes(h, p) /\ HasTodo(p) /\ AfterAddition(q, w, p)
  BY <1>0, LoopDoes DEF RemindersInv, AddOne
<1>3. /\ UNCHANGED <<row, worker, now, told, disturbed>>
      /\ IF Ahead(q.start, w) THEN Add(a, w, q.start - Lead[w]) ELSE UNCHANGED job
  BY <1>0 DEF AddOne
<1>4. /\ now \in Nat /\ Lead[w] \in Nat /\ q.start \in Nat
      /\ Ahead(q.start, w) => q.start - Lead[w] \in 0..(MaxTime + AfterDelay)
  BY <1>1, Numbers DEF Ahead, RemindersInv, BasicInv, Typed, Times
<1>5. /\ \A b \in Appts, k \in Kinds : b # a \/ k # w => job'[<<b, k>>] = job[<<b, k>>]
      /\ \A b \in Appts, k \in Kinds : job[<<b, k>>] # None => job'[<<b, k>>] = job[<<b, k>>]
      /\ Ahead(q.start, w) /\ job[<<a, w>>] = None =>
            job'[<<a, w>>] = [due |-> q.start - Lead[w], left |-> MaxAttempts, state |-> "waiting"]
      /\ ~Ahead(q.start, w) => job' = job
  <2>1. CASE Ahead(q.start, w)
    <3>1. Add(a, w, q.start - Lead[w]) /\ Typed /\ q.start - Lead[w] \in 0..(MaxTime + AfterDelay)
      BY <1>3, <1>4, <2>1 DEF RemindersInv, BasicInv
    <3> DEFINE due == q.start - Lead[w]
    <3> HIDE DEF due
    <3>2. /\ \A b \in Appts, k \in Kinds : b # a \/ k # w => job'[<<b, k>>] = job[<<b, k>>]
          /\ job'[<<a, w>>] = IF job[<<a, w>>] = None
                             THEN [due |-> due, left |-> MaxAttempts, state |-> "waiting"]
                             ELSE job[<<a, w>>]
          /\ \A b \in Appts, k \in Kinds : job[<<b, k>>] # None => job'[<<b, k>>] = job[<<b, k>>]
      BY <1>1, <3>1, AddTyped DEF due
    <3> QED
      BY <2>1, <3>2 DEF due
  <2>2. CASE ~Ahead(q.start, w)
    BY <1>3, <2>2
  <2> QED
    BY <2>1, <2>2
<1>6. Quiet
  BY <1>3, <1>5 DEF Quiet, RemindersInv, BasicInv, Typed, Times, IsIn
<1>7. p.pc \in {"remove", "add"} =>
          p.pc = "add" /\ p.appt = a /\ p.start = q.start /\ p.again = q.again /\ p.todo = q.todo \ {w}
  BY <1>0, <1>1, <1>2 DEF AfterAddition, Reminding, Idle
<1>8. ASSUME NEW b \in (Rows \ disturbed)', b # a
      PROVE  InStep(b)'
  <2>1. b \in Appts /\ ~At(h, b)
    BY <1>0, <1>8 DEF Rows, At
  <2>2. SameAt(b)
    BY <1>2, <1>7, <1>8, <2>1, GoesElsewhere DEF RemindersInv
  <2>3. SameFor(b)
    BY <1>3, <1>5, <1>8, <2>1, <2>2, KindsFacts DEF SameFor
  <2> QED
    BY <1>6, <2>3, OthersInStep
<1>9. ASSUME a \in (Rows \ disturbed)'
      PROVE  InStep(a)'
  <2>1. a \in Rows \ disturbed
    BY <1>3, <1>9 DEF Rows
  <2>2. InStep(a) /\ HandlerInStep(h, a) /\ \A g \in Handlers : At(g, a) => g = h
    BY <1>1, <2>1 DEF InStep, RemindersInv
  <2>3. /\ handler'[h] = p
        /\ \A g \in Handlers : g # h => handler'[g] = handler[g]
    BY <1>2 DEF Goes, RemindersInv, BasicInv, Typed
  <2>4. \A g \in Handlers : At(g, a)' => g = h
    BY <2>2, <2>3 DEF At
  <2>5. /\ q.start = row[a].start /\ q.again
        /\ row[a].status = "CANCELLED" => ~q.again
        /\ \A v \in q.todo : job[<<a, v>>] = None
        /\ \A v \in Windows \ q.todo : Planned(a, v)
    BY <1>0, <1>1, <2>2 DEF HandlerInStep
  <2>6. Planned(a, w)'
    <3>1. CASE Ahead(q.start, w)
      <4>1. job'[<<a, w>>] = [due |-> q.start - Lead[w], left |-> MaxAttempts, state |-> "waiting"]
        BY <1>1, <1>5, <2>5, <3>1
      <4>2. q.start \notin told[<<a, w>>]
        <5>1. \A t \in told[<<a, w>>] : t - Lead[w] <= now
          BY <1>1, <2>1 DEF RemindersInv, ToldInTime
        <5> QED
          BY <1>4, <3>1, <5>1 DEF Ahead
      <4>3. job'[<<a, w>>] # None
        <5>1. MaxAttempts \in 1..MaxAttempts
          BY Numbers
        <5>2. job'[<<a, w>>] \in Job
          BY <1>4, <3>1, <4>1, <5>1 DEF Job
        <5> QED
          BY <5>2, SentinelAssumption
      <4> QED
        BY <1>3, <2>5, <4>1, <4>2, <4>3 DEF Planned, IsIn
    <3>2. CASE ~Ahead(q.start, w)
      <4>1. job'[<<a, w>>] = None /\ ~Ahead(row[a].start, w)'
        BY <1>1, <1>3, <1>5, <2>5, <3>2 DEF Ahead
      <4> QED
        BY <1>3, <4>1 DEF Planned, IsIn
    <3> QED
      BY <3>1, <3>2
  <2>7. \A v \in Windows \ q.todo : Planned(a, v)'
    <3> SUFFICES ASSUME NEW v \in Windows \ q.todo
                 PROVE  Planned(a, v)'
      OBVIOUS
    <3>1. v # w /\ v \in Kinds
      BY <1>1, KindsFacts
    <3>2. job'[<<a, v>>] = job[<<a, v>>]
      BY <1>1, <1>5, <3>1
    <3> QED
      BY <1>3, <1>6, <2>1, <2>5, <3>2, PlannedStays DEF RemindersInv, Quiet
  <2>8. CASE p.pc \in {"remove", "add"}
    <3>1. \A v \in q.todo \ {w} : job'[<<a, v>>] = None
      BY <1>1, <1>5, <2>5, KindsFacts
    <3>2. HandlerInStep(h, a)'
      BY <1>3, <1>7, <2>3, <2>5, <2>6, <2>7, <2>8, <3>1 DEF HandlerInStep
    <3>3. At(h, a)'
      BY <1>7, <2>3, <2>8 DEF At
    <3> QED
      BY <2>4, <3>2, <3>3 DEF InStep
  <2>9. CASE ~(p.pc \in {"remove", "add"})
    <3>1. q.todo \ {w} = {}
      BY <1>1, <1>2, <2>9 DEF AfterAddition, Reminding
    <3>2. \A g \in Handlers : ~At(g, a)'
      BY <2>3, <2>4, <2>9 DEF At
    <3>3. \A v \in Windows : Planned(a, v)'
      BY <2>6, <2>7, <3>1
    <3> QED
      BY <1>3, <2>4, <2>5, <3>2, <3>3 DEF InStep
  <2> QED
    BY <2>8, <2>9
<1> QED
  BY <1>6, <1>8, <1>9, QuietStep

\* A listener that gives up: its appointment is disturbed.
LEMMA GivesUp ==
    ASSUME RemindersInv, BasicInv', NEW h \in Handlers, AddFails(h) \/ HandlerDies(h)
    PROVE  RemindersInv'
<1>0. PICK q, a : q = handler[h] /\ a = q.appt
  OBVIOUS
<1>1. /\ UNCHANGED <<row, job, worker, now, told>>
      /\ disturbed' = disturbed \cup {a}
  BY <1>0 DEF AddFails, HandlerDies
<1>2. PICK p \in Work : Goes(h, p) /\ (p.pc \in {"remove", "add"} => p.appt = a)
  <2>1. CASE AddFails(h)
    <3>1. PICK w : w = First(q.todo)
      OBVIOUS
    <3>2. q \in Reminding /\ \E p \in Work : Goes(h, p) /\ HasTodo(p) /\ AfterAddition(q, w, p)
      BY <1>0, <2>1, <3>1, LoopDoes DEF RemindersInv, AddFails
    <3>3. PICK p \in Work : Goes(h, p) /\ AfterAddition(q, w, p)
      BY <3>2
    <3>4. p.pc \in {"remove", "add"} => p.appt = a
      BY <1>0, <3>2, <3>3 DEF AfterAddition, Reminding, Idle
    <3> QED
      BY <3>3, <3>4
  <2>2. CASE HandlerDies(h)
    BY <2>2 DEF HandlerDies, Work, Idle
  <2> QED
    BY <2>1, <2>2
<1>3. Quiet
  BY <1>1 DEF Quiet, RemindersInv, BasicInv, Typed, Times
<1>4. ASSUME NEW b \in (Rows \ disturbed)'
      PROVE  InStep(b)'
  <2>1. b # a /\ b \in Appts
    BY <1>1, <1>4 DEF Rows
  <2>2. SameAt(b)
    BY <1>0, <1>2, <2>1, GoesElsewhere DEF RemindersInv, At
  <2> QED
    BY <1>1, <1>3, <1>4, <2>2, OthersInStep DEF SameFor
<1> QED
  BY <1>3, <1>4, QuietStep

\* The messages after a visit are no reminders.
LEMMA PlanAfterStep ==
    ASSUME RemindersInv, BasicInv', NEW h \in Handlers, PlanAfter(h)
    PROVE  RemindersInv'
<1>0. PICK a, k, due : a = handler[h].appt /\ k = handler[h].kind /\ due = now + AfterDelay
  OBVIOUS
<1>1. /\ UNCHANGED <<row, worker, now, told, disturbed>>
      /\ Add(a, k, due) /\ Goes(h, Idle)
  BY <1>0 DEF PlanAfter
<1>2. handler[h] \in Planning
  BY WorkByPc, RowsTyped DEF PlanAfter, RemindersInv, BasicInv
<1>3. a \in Appts /\ k \in After /\ k \in Kinds
  BY <1>0, <1>2, KindsFacts DEF Planning
<1>4. due \in 0..(MaxTime + AfterDelay)
  BY <1>0, Numbers DEF RemindersInv, BasicInv, Typed, Times
<1>5. Typed
  BY DEF RemindersInv, BasicInv
<1>6. /\ \A b \in Appts, l \in Kinds : b # a \/ l # k => job'[<<b, l>>] = job[<<b, l>>]
      /\ \A b \in Appts, l \in Kinds : job[<<b, l>>] # None => job'[<<b, l>>] = job[<<b, l>>]
  BY <1>1, <1>3, <1>4, <1>5, AddTyped
<1>7. Quiet
  BY <1>1, <1>6 DEF Quiet, RemindersInv, BasicInv, Typed, Times, IsIn
<1>8. ASSUME NEW b \in (Rows \ disturbed)'
      PROVE  InStep(b)'
  <2>1. b \in Appts
    BY <1>8 DEF Rows
  <2>2. Idle \in Work /\ ~(Idle.pc \in {"remove", "add"}) /\ ~At(h, b)
    BY DEF Idle, Work, PlanAfter, At
  <2>3. SameAt(b)
    BY <1>1, <2>1, <2>2, GoesElsewhere DEF RemindersInv
  <2>4. \A w \in Windows : job'[<<b, w>>] = job[<<b, w>>]
    BY <1>3, <1>6, <2>1, KindsFacts
  <2> QED
    BY <1>1, <1>7, <1>8, <2>3, <2>4, OthersInStep DEF SameFor
<1> QED
  BY <1>7, <1>8, QuietStep
-----------------------------------------------------------------------------
(* The worker *)

\* The listeners' rows that a step of the worker leaves alone.
LEMMA WorkerElsewhere ==
    ASSUME RemindersInv, BasicInv', NEW b \in (Rows \ disturbed)',
           row' = row, handler' = handler, now' = now, disturbed \subseteq disturbed',
           \A w \in Windows : job'[<<b, w>>] = job[<<b, w>>] /\ told'[<<b, w>>] = told[<<b, w>>]
    PROVE  InStep(b)'
<1>1. b \in Rows \ disturbed
  BY DEF Rows
<1>2. InStep(b)
  BY <1>1 DEF RemindersInv
<1>3. SameFor(b)
  BY DEF SameFor, SameAt
<1>4. now' >= now
  BY DEF RemindersInv, BasicInv, Typed, Times
<1> QED
  BY <1>1, <1>2, <1>3, <1>4, StaysInStep DEF RemindersInv

LEMMA TakeJobStep ==
    ASSUME RemindersInv, BasicInv', NEW a \in Appts, NEW k \in Kinds, TakeJob(a, k)
    PROVE  RemindersInv'
<1>1. /\ UNCHANGED <<row, handler, now, told>> /\ disturbed \subseteq disturbed'
      /\ worker = Idle /\ IsIn(a, k, "waiting") /\ job[<<a, k>>].due <= now
      /\ (k \in Windows /\ a \notin disturbed') => \A h \in Handlers : ~At(h, a)
  BY DEF TakeJob
<1>2. /\ \A b \in Appts, l \in Kinds : b # a \/ l # k => job'[<<b, l>>] = job[<<b, l>>]
      /\ \/ /\ a \in Rows /\ row[a].status = Wanted(k)
            /\ job'[<<a, k>>] = [job[<<a, k>>] EXCEPT !.state = "active"]
            /\ job'[<<a, k>>] \in Job
            /\ worker' = [pc |-> "send", appt |-> a, kind |-> k, start |-> row[a].start]
         \/ /\ ~(a \in Rows /\ row[a].status = Wanted(k))
            /\ job'[<<a, k>>] = [job[<<a, k>>] EXCEPT !.state = "done"]
            /\ worker' = worker
  BY TakeJobDoes DEF RemindersInv
<1>3. job[<<a, k>>] \in Job /\ now \in Nat /\ now' >= now
  BY <1>1, RowsTyped, Numbers DEF RemindersInv, BasicInv, IsIn, Typed
\* A reminder of an appointment in step is taken while no listener is at it.
<1>4. ASSUME k \in Windows, a \in Rows, a \notin disturbed'
      PROVE  /\ row[a].status = "CANCELLED" => FALSE
             /\ row[a].status = "PENDING" => \A w \in Windows : Planned(a, w)
             /\ \A h \in Handlers : ~At(h, a)
             /\ InStep(a)
  <2>1. InStep(a) /\ \A h \in Handlers : ~At(h, a)
    BY <1>1, <1>4 DEF RemindersInv
  <2> QED
    BY <1>1, <1>4, <2>1 DEF InStep, IsIn
<1>5. \A b \in Appts \ disturbed' : ToldInTime(b)'
  BY <1>1, <1>3, ToldStays
<1>6. TellsNew'
  <2>1. CASE /\ a \in Rows /\ row[a].status = Wanted(k)
             /\ job'[<<a, k>>] = [job[<<a, k>>] EXCEPT !.state = "active"]
             /\ worker' = [pc |-> "send", appt |-> a, kind |-> k, start |-> row[a].start]
    <3>1. /\ worker'.appt = a /\ worker'.kind = k /\ worker'.start = row[a].start
          /\ job'[<<a, k>>].due = job[<<a, k>>].due
      BY <1>3, <2>1 DEF Job
    <3>2. ASSUME k \in Windows, a \notin disturbed'
          PROVE  /\ row[a].start \notin told[<<a, k>>]
                 /\ row[a].start - Lead[k] = job[<<a, k>>].due
      <4>1. Planned(a, k)
        BY <1>4, <2>1, <3>2, KindsFacts
      <4> QED
        BY <1>1, <4>1 DEF Planned, IsIn
    <3> QED
      BY <1>1, <3>1, <3>2 DEF TellsNew
  <2>2. CASE worker' = worker
    BY <1>1, <2>2 DEF TellsNew, Idle
  <2> QED
    BY <1>2, <2>1, <2>2
<1>7. ASSUME NEW b \in (Rows \ disturbed)'
      PROVE  InStep(b)'
  <2>1. b \in Rows /\ b \in Appts /\ b \notin disturbed'
    BY <1>1, <1>7 DEF Rows
  <2>2. CASE b # a \/ k \notin Windows
    <3>1. \A w \in Windows : job'[<<b, w>>] = job[<<b, w>>] /\ told'[<<b, w>>] = told[<<b, w>>]
      BY <1>1, <1>2, <2>1, <2>2, KindsFacts
    <3> QED
      BY <1>1, <1>7, <3>1, WorkerElsewhere
  <2>3. CASE b = a /\ k \in Windows
    <3>1. /\ row[a].status # "CANCELLED"
          /\ row[a].status = "PENDING" => \A w \in Windows : Planned(a, w)
          /\ \A h \in Handlers : ~At(h, a)
      BY <1>4, <2>1, <2>3
    <3>2. \A h \in Handlers : ~At(h, a)'
      BY <1>1, <3>1 DEF At
    <3>3. ASSUME row[a].status = "PENDING", NEW w \in Windows
          PROVE  Planned(a, w)'
      <4>1. Planned(a, w)
        BY <3>1, <3>3
      <4>2. CASE w # k
        <5>1. job'[<<a, w>>] = job[<<a, w>>] /\ told'[<<a, w>>] = told[<<a, w>>] /\ row'[a] = row[a]
          BY <1>1, <1>2, <4>2, KindsFacts
        <5> QED
          BY <1>3, <2>1, <2>3, <4>1, <5>1, PlannedStays DEF RemindersInv
      <4>3. CASE w = k
        <5>1. job'[<<a, k>>] = [job[<<a, k>>] EXCEPT !.state = "active"] /\ job'[<<a, k>>] \in Job
          BY <1>2, <2>1, <2>3, <3>3, KindsFacts
        <5>2. job'[<<a, k>>].due = job[<<a, k>>].due /\ job'[<<a, k>>].state = "active"
          BY <1>3, <5>1 DEF Job
        <5>3. job[<<a, k>>].due = row[a].start - Lead[k]
          BY <1>1, <4>1, <4>3 DEF Planned, IsIn
        <5>4. ~Ahead(row[a].start, k)'
          <6>1. row[a].start - Lead[k] <= now /\ row[a].start \in Nat /\ Lead[k] \in Nat
            BY <1>1, <2>1, <2>3, <5>3, RowsTyped, Numbers DEF RemindersInv, BasicInv, Row
          <6> QED
            BY <1>1, <1>3, <6>1 DEF Ahead
        <5> QED
          BY <1>1, <4>3, <5>2, <5>3, <5>4 DEF Planned, IsIn
      <4> QED
        BY <4>2, <4>3
    <3> QED
      BY <1>1, <2>3, <3>1, <3>2, <3>3 DEF InStep
  <2> QED
    BY <2>2, <2>3
<1> QED
  BY <1>5, <1>6, <1>7 DEF RemindersInv

\* The reminder in the worker's hand may change, as long as it stays as the row
\* wants it: listeners that cancel have yet to come to it, those that add are
\* past it.
LEMMA InHandInStep ==
    ASSUME RemindersInv, BasicInv', NEW b \in Rows \ disturbed, NEW k \in Windows,
           job[<<b, k>>] # None, Planned(b, k) => Planned(b, k)',
           row' = row, handler' = handler, now' = now,
           \A w \in Windows : w # k =>
               job'[<<b, w>>] = job[<<b, w>>] /\ told'[<<b, w>>] = told[<<b, w>>]
    PROVE  InStep(b)'
<1>1. InStep(b)
  BY DEF RemindersInv
<1>2. \A w \in Windows : Planned(b, w) => Planned(b, w)'
  <2> SUFFICES ASSUME NEW w \in Windows, Planned(b, w), w # k
               PROVE  Planned(b, w)'
    OBVIOUS
  <2>1. now' >= now
    BY DEF RemindersInv, BasicInv, Typed, Times
  <2> QED
    BY <2>1, PlannedStays DEF RemindersInv
<1>3. \A w \in Windows : job[<<b, w>>] = None => job'[<<b, w>>] = None
  OBVIOUS
<1>4. \A h \in Handlers : At(h, b)' <=> At(h, b)
  BY DEF At
<1>5. ASSUME NEW h \in Handlers, At(h, b)
      PROVE  HandlerInStep(h, b)'
  <2>1. HandlerInStep(h, b)
    BY <1>1, <1>5 DEF InStep
  <2>2. handler[h].todo \subseteq Windows
    BY <1>5, WorkByPc, RowsTyped DEF RemindersInv, BasicInv, At, Reminding
  <2> QED
    BY <1>2, <1>3, <2>1, <2>2 DEF HandlerInStep
<1>6. (\A h \in Handlers : ~At(h, b)) =>
          /\ row[b].status = "PENDING" => \A w \in Windows : Planned(b, w)'
          /\ row[b].status = "CANCELLED" => \A w \in Windows : job'[<<b, w>>] = None
  BY <1>1, <1>2, <1>3 DEF InStep
<1> QED
  BY <1>1, <1>4, <1>5, <1>6 DEF InStep

LEMMA SendStep ==
    ASSUME RemindersInv, BasicInv', Send
    PROVE  RemindersInv'
<1>0. PICK a, k, t : a = worker.appt /\ k = worker.kind /\ t = worker.start
  OBVIOUS
<1>1. worker # Idle /\ worker.pc = "send" /\ UNCHANGED <<row, handler, now, disturbed>>
  BY DEF Send, Idle
<1>2. /\ a \in Appts /\ k \in Kinds /\ job[<<a, k>>] \in Job /\ IsIn(a, k, "active")
      /\ job[<<a, k>>] # None
  BY <1>0, <1>1, InHand DEF RemindersInv, IsIn
<1>3. CASE k \in Windows
  <2>1. /\ told'[<<a, k>>] = told[<<a, k>>] \cup {t}
        /\ \A b \in Appts, l \in Windows : b # a \/ l # k => told'[<<b, l>>] = told[<<b, l>>]
        /\ worker'.pc = "mark" /\ job' = job
    BY <1>0, <1>3, SendDoes DEF RemindersInv
  <2>2. TellsNew'
    BY <2>1 DEF TellsNew
  <2>3. ASSUME NEW b \in Appts \ disturbed'
        PROVE  ToldInTime(b)'
    <3> SUFFICES ASSUME NEW w \in Windows, NEW s \in told'[<<b, w>>]
                 PROVE  s - Lead[w] <= now
      BY <1>1 DEF ToldInTime
    <3>1. CASE s \in told[<<b, w>>]
      BY <1>1, <2>3, <3>1 DEF RemindersInv, ToldInTime
    <3>2. CASE s \notin told[<<b, w>>]
      <4>1. b = a /\ w = k /\ s = t
        BY <1>3, <2>1, <3>2
      <4> QED
        BY <1>0, <1>1, <2>3, <4>1 DEF RemindersInv, TellsNew
    <3> QED
      BY <3>1, <3>2
  <2>4. ASSUME NEW b \in (Rows \ disturbed)'
        PROVE  InStep(b)'
    <3>1. b \in Rows \ disturbed /\ b \in Appts
      BY <1>1, <2>4 DEF Rows
    <3>2. CASE b # a
      <4>1. \A w \in Windows : job'[<<b, w>>] = job[<<b, w>>] /\ told'[<<b, w>>] = told[<<b, w>>]
        BY <2>1, <3>1, <3>2
      <4> QED
        BY <1>1, <2>4, <4>1, WorkerElsewhere
    <3>3. CASE b = a
      <4>1. Planned(b, k) => Planned(b, k)'
        BY <1>1, <1>2, <2>1, <3>3 DEF Planned, IsIn, Ahead
      <4>2. \A w \in Windows : w # k =>
               job'[<<b, w>>] = job[<<b, w>>] /\ told'[<<b, w>>] = told[<<b, w>>]
        BY <2>1, <3>1
      <4> QED
        BY <1>1, <1>2, <1>3, <3>1, <3>3, <4>1, <4>2, InHandInStep
    <3> QED
      BY <3>2, <3>3
  <2> QED
    BY <2>2, <2>3, <2>4 DEF RemindersInv
<1>4. CASE k \notin Windows
  <2>1. /\ worker' = Idle /\ told' = told
        /\ \A b \in Appts, l \in Windows : job'[<<b, l>>] = job[<<b, l>>]
    BY <1>0, <1>4, SendDoes DEF RemindersInv
  <2>2. TellsNew'
    BY <2>1 DEF TellsNew, Idle
  <2>3. now' >= now
    BY <1>1 DEF RemindersInv, BasicInv, Typed, Times
  <2>4. \A b \in Appts \ disturbed' : ToldInTime(b)'
    BY <1>1, <2>1, <2>3, ToldStays
  <2>5. ASSUME NEW b \in (Rows \ disturbed)'
        PROVE  InStep(b)'
    BY <1>1, <2>1, <2>5, WorkerElsewhere DEF Rows
  <2> QED
    BY <2>2, <2>4, <2>5 DEF RemindersInv
<1> QED
  BY <1>3, <1>4

\* The worker puts its job down.
LEMMA PutDownStep ==
    ASSUME RemindersInv, BasicInv', Mark \/ MarkRefused \/ SendFails \/ FailsAfterSend
    PROVE  RemindersInv'
<1>0. PICK a, k, t : a = worker.appt /\ k = worker.kind /\ t = worker.start
  OBVIOUS
<1>1. /\ worker # Idle /\ worker' = Idle /\ UNCHANGED <<row, handler, now, told>>
      /\ disturbed \subseteq disturbed'
  BY DEF Mark, MarkRefused, SendFails, FailsAfterSend, AttemptEnds, Idle
<1>2. /\ a \in Appts /\ k \in Kinds /\ job[<<a, k>>] \in Job /\ IsIn(a, k, "active")
      /\ job[<<a, k>>] # None /\ t \in Times
  BY <1>0, <1>1, InHand DEF RemindersInv, IsIn
<1>3. TellsNew'
  BY <1>1 DEF TellsNew, Idle
<1>4. now' >= now
  BY <1>1 DEF RemindersInv, BasicInv, Typed, Times
<1>5. \A b \in Appts \ disturbed' : ToldInTime(b)'
  BY <1>1, <1>4, ToldStays
<1>6. \A b \in Appts, l \in Kinds : b # a \/ l # k => job'[<<b, l>>] = job[<<b, l>>]
  <2>1. CASE Mark
    <3>1. job' = Finished(<<a, k>>)
      BY <1>0, <2>1 DEF Mark
    <3> QED
      BY <1>2, <3>1, Finishes DEF RemindersInv, BasicInv
  <2>2. CASE AttemptEnds
    <3>1. BasicInv /\ worker # Idle
      BY <1>1 DEF RemindersInv
    <3>2. job' = [job EXCEPT ![<<a, k>>] = Retried(job[<<a, k>>])]
      BY <1>0, <2>2 DEF AttemptEnds
    <3>3. job \in [Appts \X Kinds -> Job \cup {None}]
      BY <3>1 DEF BasicInv, Typed
    <3>4. \A i \in Appts \X Kinds : i # <<a, k>> => job'[i] = job[i]
      BY <3>2, <3>3
    <3> QED
      BY <3>4
  <2> QED
    BY <2>1, <2>2 DEF MarkRefused, SendFails, FailsAfterSend
<1>7. ASSUME k \in Windows, a \in (Rows \ disturbed)'
      PROVE  InStep(a)'
  <2>1. a \in Rows \ disturbed
    BY <1>1, <1>7 DEF Rows
  <2>2. Planned(a, k) => Planned(a, k)'
    <3>1. CASE Mark
      <4>1. job' = Finished(<<a, k>>)
        BY <1>0, <3>1 DEF Mark
      <4>2. job'[<<a, k>>] = [job[<<a, k>>] EXCEPT !.state = "done"]
        BY <1>2, <4>1, Finishes DEF RemindersInv, BasicInv
      <4>3. job'[<<a, k>>].state = "done"
        BY <1>2, <4>2 DEF Job
      <4> QED
        BY <1>1, <1>2, <4>3 DEF Planned, IsIn, Ahead
    <3>2. CASE SendFails
      <4>1. job'[<<a, k>>] = Retried(job[<<a, k>>]) /\ Retried(job[<<a, k>>]) \in Job
        BY <1>0, <1>1, <3>2, Ends DEF RemindersInv, SendFails
      <4>2. job[<<a, k>>].left # 1
        BY <1>0, <1>7, <3>2 DEF SendFails
      <4>3. /\ job'[<<a, k>>].state = "waiting" /\ job'[<<a, k>>].due = job[<<a, k>>].due
            /\ job'[<<a, k>>] # None
        <5>1. job[<<a, k>>].left > 1
          BY <1>2, <4>2, Numbers DEF Job
        <5>2. Retried(job[<<a, k>>]).state = "waiting"
          BY <1>2, <5>1 DEF Retried, Job
        <5>3. Retried(job[<<a, k>>]).due = job[<<a, k>>].due
          BY <1>2, RetriedTyped
        <5> QED
          BY <4>1, <5>2, <5>3, SentinelAssumption
      <4>4. t \notin told[<<a, k>>] /\ t - Lead[k] = job[<<a, k>>].due
        BY <1>0, <1>7, <2>1, <3>2 DEF SendFails, RemindersInv, TellsNew
      <4>5. t \in Nat /\ row[a].start \in Nat /\ Lead[k] \in Nat
        BY <1>2, <1>7, <2>1, RowsTyped, Numbers DEF RemindersInv, BasicInv, Row
      <4>6. Planned(a, k) => row[a].start = t
        <5>1. Planned(a, k) => job[<<a, k>>].due = row[a].start - Lead[k]
          BY <1>2 DEF Planned, IsIn
        <5> QED
          BY <4>4, <4>5, <5>1
      <4> QED
        BY <1>1, <1>2, <4>3, <4>4, <4>6 DEF Planned, IsIn
    <3>3. CASE MarkRefused \/ FailsAfterSend
      BY <1>0, <1>7, <2>1, <3>3 DEF MarkRefused, FailsAfterSend
    <3> QED
      BY <3>1, <3>2, <3>3
  <2>3. \A w \in Windows : w # k =>
           job'[<<a, w>>] = job[<<a, w>>] /\ told'[<<a, w>>] = told[<<a, w>>]
    BY <1>1, <1>2, <1>6, KindsFacts
  <2> QED
    BY <1>1, <1>2, <1>7, <2>1, <2>2, <2>3, InHandInStep
<1>8. ASSUME NEW b \in (Rows \ disturbed)', b # a \/ k \notin Windows
      PROVE  InStep(b)'
  <2>1. \A w \in Windows : job'[<<b, w>>] = job[<<b, w>>]
    BY <1>6, <1>8, KindsFacts DEF Rows
  <2> QED
    BY <1>1, <1>8, <2>1, WorkerElsewhere
<1> QED
  BY <1>3, <1>5, <1>7, <1>8 DEF RemindersInv

-----------------------------------------------------------------------------
(* All steps *)

LEMMA RemindersInit ==
    Init => RemindersInv
<1> SUFFICES ASSUME Init PROVE RemindersInv
  OBVIOUS
<1>1. BasicInv
  BY BasicInit
<1>2. worker.pc = "idle" /\ Rows = {}
  BY DEF Init, Idle, Rows
<1>3. \A a \in Appts, w \in Windows : told[<<a, w>>] = {}
  BY DEF Init
<1> QED
  BY <1>1, <1>2, <1>3 DEF RemindersInv, TellsNew, ToldInTime

LEMMA RemindersStep ==
    ASSUME RemindersInv, [Next]_vars, heard
    PROVE  RemindersInv'
<1>1. BasicInv'
  BY BasicStep DEF RemindersInv
<1>2. CASE People
  BY <1>1, <1>2, PeopleStep
<1>3. ASSUME NEW h \in Handlers,
             RemoveOne(h) \/ AddOne(h) \/ PlanAfter(h) \/ AddFails(h) \/ HandlerDies(h)
      PROVE  RemindersInv'
  BY <1>1, <1>3, RemoveOneStep, AddOneStep, PlanAfterStep, GivesUp
<1>4. ASSUME NEW a \in Appts, NEW k \in Kinds, TakeJob(a, k)
      PROVE  RemindersInv'
  BY <1>1, <1>4, TakeJobStep
<1>5. CASE Send \/ Mark \/ MarkRefused \/ SendFails \/ FailsAfterSend
  BY <1>1, <1>5, SendStep, PutDownStep
<1>6. CASE Tick \/ UNCHANGED vars
  <2>1. /\ UNCHANGED <<row, job, handler, worker, told, disturbed>>
        /\ now' = now + 1 \/ now' = now
    BY <1>6 DEF Tick, vars
  <2>2. now' >= now
    BY <2>1, Numbers DEF RemindersInv, BasicInv, Typed
  <2>3. Quiet
    BY <2>1, <2>2 DEF Quiet
  <2>4. ASSUME NEW b \in (Rows \ disturbed)'
        PROVE  InStep(b)'
    BY <1>1, <2>1, <2>3, <2>4, OthersInStep DEF SameFor, SameAt
  <2> QED
    BY <1>1, <2>3, <2>4, QuietStep
<1> QED
  BY <1>2, <1>3, <1>4, <1>5, <1>6 DEF Next, Progress, Losses

-----------------------------------------------------------------------------
(* Where the emitter does not call the listener of the new rows *)

\* The listeners at work only cancel, and there is no reminder in the queue.
NothingPlanned ==
    /\ BasicInv
    /\ \A h \in Handlers : handler[h].pc # "add" /\ (handler[h].pc = "remove" => ~handler[h].again)
    /\ \A a \in Appts, w \in Windows : job[<<a, w>>] = None

\* A listener goes on, and plans nothing.
LEMMA PlansNothing ==
    ASSUME NothingPlanned, BasicInv', NEW h \in Handlers, NEW p, Goes(h, p),
           p.pc # "add", p.pc = "remove" => ~p.again,
           \A a \in Appts, w \in Windows : job'[<<a, w>>] = None
    PROVE  NothingPlanned'
<1>1. /\ handler'[h] = p
      /\ \A g \in Handlers : g # h => handler'[g] = handler[g]
  BY DEF Goes, NothingPlanned, BasicInv, Typed
<1> QED
  BY <1>1 DEF NothingPlanned

LEMMA NothingWritten ==
    ASSUME NothingPlanned, BasicInv', People, ~heard
    PROVE  NothingPlanned'
<1>0. Typed /\ \A a \in Rows : a \in Appts
  BY DEF NothingPlanned, BasicInv, Rows
<1>1. CASE UNCHANGED <<job, handler>>
  BY <1>1 DEF NothingPlanned
<1>2. CASE Create \/ Reschedule \/ Confirm \/ WriteFromGoogle \/ RemoveClient
  <2>1. UNCHANGED <<job, handler>>
    BY <1>2 DEF Create, Reschedule, Confirm, WriteOnTheList, WriteFromGoogle, RemoveClient
  <2> QED
    BY <1>1, <2>1
<1>3. ASSUME NEW a, NEW r, NEW q, Write(a, r, q), q.pc # "add", q.pc = "remove" => ~q.again
      PROVE  NothingPlanned'
  <2>1. Announce(a, q) /\ job' = job
    BY <1>3 DEF Write
  <2>2. PICK h \in Handlers : Goes(h, q)
    BY <1>0, <2>1, AnnounceGoes
  <2> QED
    BY <1>3, <2>1, <2>2, PlansNothing DEF NothingPlanned
<1>4. CASE Cancel
  <2>1. PICK a \in Rows :
           LET r == [row[a] EXCEPT !.status = "CANCELLED"] IN Write(a, r, Reminders(a, r, FALSE))
    BY <1>4 DEF Cancel
  <2>2. \A r : Reminders(a, r, FALSE).pc = "remove" /\ ~Reminders(a, r, FALSE).again
    BY DEF Reminders
  <2> QED
    BY <1>3, <2>1, <2>2
<1>5. CASE Complete \/ MarkNoShow
  <2>1. PICK a \in Rows, k \in After : \E r : Write(a, r, [pc |-> "after", appt |-> a, kind |-> k])
    BY <1>5 DEF Complete, MarkNoShow, After
  <2> QED
    BY <1>3, <2>1
<1> QED
  BY <1>2, <1>4, <1>5 DEF People

LEMMA NothingStep ==
    ASSUME NothingPlanned, [Next]_vars, ~heard
    PROVE  NothingPlanned'
<1>0. BasicInv /\ BasicInv'
  BY BasicStep DEF NothingPlanned
<1>1. CASE People
  BY <1>0, <1>1, NothingWritten
<1>2. ASSUME NEW h \in Handlers, RemoveOne(h)
      PROVE  NothingPlanned'
  <2>1. PICK q, w : q = handler[h] /\ w = First(q.todo)
    OBVIOUS
  <2>2. PICK p \in Work : Goes(h, p) /\ AfterRemoval(q, w, p)
    BY <1>0, <1>2, <2>1, RemoveOneDoes
  <2>3. /\ q \in Reminding /\ q.pc = "remove" /\ q.appt \in Appts /\ w \in Kinds
        /\ job' = job \/ job' = [job EXCEPT ![<<q.appt, w>>] = None]
    BY <1>0, <1>2, <2>1, RemoveOneDoes
  <2>4. ~q.again
    BY <2>1, <2>3 DEF NothingPlanned
  <2>5. p = Idle \/ p = [q EXCEPT !.todo = q.todo \ {w}]
    BY <2>2, <2>4 DEF AfterRemoval
  <2>6. p.pc # "add" /\ (p.pc = "remove" => ~p.again)
    BY <2>3, <2>4, <2>5 DEF Reminding, Idle
  <2>7. ASSUME NEW a \in Appts, NEW v \in Windows
        PROVE  job'[<<a, v>>] = None
    <3>1. job[<<a, v>>] = None /\ v \in Kinds
      BY KindsFacts DEF NothingPlanned
    <3>2. CASE job' = [job EXCEPT ![<<q.appt, w>>] = None]
      BY <1>0, <2>3, <3>1, <3>2, OneJob DEF BasicInv
    <3> QED
      BY <2>3, <3>1, <3>2
  <2> QED
    BY <1>0, <2>2, <2>6, <2>7, PlansNothing
<1>3. ASSUME NEW h \in Handlers, PlanAfter(h)
      PROVE  NothingPlanned'
  <2>1. handler[h] \in Planning
    BY <1>0, <1>3, WorkByPc, RowsTyped DEF PlanAfter, BasicInv
  <2>2. handler[h].appt \in Appts /\ handler[h].kind \in Kinds /\ handler[h].kind \notin Windows
    BY <2>1, KindsFacts DEF Planning
  <2>3. now + AfterDelay \in 0..(MaxTime + AfterDelay)
    BY <1>0, Numbers DEF BasicInv, Typed, Times
  <2>4. \A a \in Appts, w \in Windows : job'[<<a, w>>] = None
    <3>1. Add(handler[h].appt, handler[h].kind, now + AfterDelay) /\ Typed
      BY <1>0, <1>3 DEF PlanAfter, BasicInv
    <3>2. \A a \in Appts, k \in Kinds :
             a # handler[h].appt \/ k # handler[h].kind => job'[<<a, k>>] = job[<<a, k>>]
      BY <2>2, <2>3, <3>1, AddTyped
    <3> QED
      BY <2>2, <3>2, KindsFacts DEF NothingPlanned
  <2> QED
    BY <1>0, <1>3, <2>4, PlansNothing DEF PlanAfter, Idle
<1>4. ASSUME NEW h \in Handlers, AddOne(h) \/ AddFails(h) \/ HandlerDies(h)
      PROVE  NothingPlanned'
  <2>1. handler[h].pc # "add"
    BY DEF NothingPlanned
  <2>2. Goes(h, Idle) /\ job' = job
    BY <1>4, <2>1 DEF AddOne, AddFails, HandlerDies
  <2> QED
    BY <1>0, <2>2, PlansNothing DEF NothingPlanned, Idle
<1>5. ASSUME NEW a \in Appts, NEW k \in Kinds, TakeJob(a, k)
      PROVE  NothingPlanned'
  <2>1. k \notin Windows
    BY <1>5 DEF TakeJob, IsIn, NothingPlanned
  <2>2. \A b \in Appts, w \in Windows : job'[<<b, w>>] = job[<<b, w>>]
    <3>1. \A b \in Appts, l \in Kinds : b # a \/ l # k => job'[<<b, l>>] = job[<<b, l>>]
      BY <1>0, <1>5, TakeJobDoes, Zenon
    <3> QED
      BY <2>1, <3>1, KindsFacts
  <2> QED
    BY <1>0, <1>5, <2>2 DEF TakeJob, NothingPlanned
<1>6. CASE Send \/ Mark \/ MarkRefused \/ SendFails \/ FailsAfterSend
  <2>1. worker # Idle
    BY <1>6 DEF Send, Mark, MarkRefused, SendFails, FailsAfterSend, Idle
  <2>2. PICK a, k : a = worker.appt /\ k = worker.kind
    OBVIOUS
  <2>3. a \in Appts /\ k \in Kinds /\ job[<<a, k>>] \in Job /\ IsIn(a, k, "active")
    BY <1>0, <2>1, <2>2, InHand
  <2>4. k \notin Windows
    BY <2>3 DEF NothingPlanned, IsIn
  <2>5. \A b \in Appts, w \in Windows : job'[<<b, w>>] = job[<<b, w>>]
    <3>1. CASE Send
      BY <1>0, <2>2, <2>4, <3>1, SendDoes
    <3>2. CASE Mark
      <4>1. Typed /\ job' = Finished(<<a, k>>)
        BY <1>0, <2>2, <3>2 DEF Mark, BasicInv
      <4>2. \A b \in Appts, l \in Kinds : b # a \/ l # k => job'[<<b, l>>] = job[<<b, l>>]
        BY <2>3, <4>1, Finishes
      <4> QED
        BY <2>4, <4>2, KindsFacts
    <3>3. CASE MarkRefused \/ SendFails \/ FailsAfterSend
      <4>1. AttemptEnds /\ Typed
        BY <1>0, <3>3 DEF MarkRefused, SendFails, FailsAfterSend, BasicInv
      <4>2. Retried(job[<<a, k>>]) \in Job
        BY <2>3, RetriedTyped
      <4>3. job' = [job EXCEPT ![<<a, k>>] = Retried(job[<<a, k>>])]
        BY <2>2, <4>1 DEF AttemptEnds
      <4>4. \A b \in Appts, l \in Kinds : b # a \/ l # k => job'[<<b, l>>] = job[<<b, l>>]
        BY <2>3, <4>1, <4>2, <4>3, OneJob
      <4> QED
        BY <2>4, <4>4, KindsFacts
    <3> QED
      BY <1>6, <3>1, <3>2, <3>3
  <2>6. handler' = handler
    BY <1>6 DEF Send, Mark, MarkRefused, SendFails, FailsAfterSend, AttemptEnds
  <2> QED
    BY <1>0, <2>5, <2>6 DEF NothingPlanned
<1>7. CASE Tick \/ UNCHANGED vars
  BY <1>0, <1>7 DEF Tick, vars, NothingPlanned
<1> QED
  BY <1>1, <1>2, <1>3, <1>4, <1>5, <1>6, <1>7 DEF Next, Progress, Losses

-----------------------------------------------------------------------------
(* The theorems *)

WhateverIsHeard ==
    /\ heard => RemindersInv
    /\ ~heard => NothingPlanned

LEMMA RemindersAlways == Spec => []WhateverIsHeard
<1>1. Init => WhateverIsHeard
  <2> SUFFICES ASSUME Init PROVE RemindersInv /\ NothingPlanned
    BY DEF WhateverIsHeard
  <2>1. RemindersInv
    BY RemindersInit
  <2>2. \A h \in Handlers : handler[h].pc = "idle"
    BY DEF Init, Idle
  <2>3. \A a \in Appts, w \in Windows : job[<<a, w>>] = None
    BY KindsFacts DEF Init
  <2> QED
    BY <2>1, <2>2, <2>3, BasicInit DEF NothingPlanned
<1>2. ASSUME WhateverIsHeard, [Next]_vars PROVE WhateverIsHeard'
  <2>1. heard' = heard
    BY <1>2 DEF Next, vars
  <2>2. CASE heard
    BY <1>2, <2>1, <2>2, RemindersStep DEF WhateverIsHeard
  <2>3. CASE ~heard
    BY <1>2, <2>1, <2>3, NothingStep DEF WhateverIsHeard
  <2> QED
    BY <2>2, <2>3
<1> QED
  BY <1>1, <1>2, PTL DEF Spec

\* The reminders that wait are those of the row as it is, whatever the
\* listeners, the worker, the clock and the failures do between them, unless
\* the appointment was disturbed (scheduleReminders, cancelReminders), where
\* onScheduleChanged is heard; where it is not, there never is one.
THEOREM WaitingRemindersAreTheRows == Spec => []RemindersInStep
<1>1. WhateverIsHeard => RemindersInStep
  <2> SUFFICES ASSUME WhateverIsHeard PROVE RemindersInStep
    OBVIOUS
  <2>1. ASSUME heard, NEW a \in Rows \ disturbed,
               \A h \in Handlers : ~At(h, a), NEW w \in Windows
        PROVE  /\ (row[a].status = "PENDING" /\ IsIn(a, w, "waiting")) =>
                      job[<<a, w>>].due = row[a].start - Lead[w]
               /\ (row[a].status = "PENDING" /\ w # Extra /\ Ahead(row[a].start, w)) =>
                      IsIn(a, w, "waiting")
               /\ row[a].status = "CANCELLED" => ~IsIn(a, w, "waiting")
    <3>1. InStep(a)
      BY <2>1 DEF WhateverIsHeard, RemindersInv
    <3> QED
      BY <2>1, <3>1 DEF InStep, Planned, IsIn
  <2>2. ~heard => \A a \in Appts, w \in Windows : job[<<a, w>>] = None
    BY DEF WhateverIsHeard, NothingPlanned
  <2> QED
    BY <2>1, <2>2 DEF RemindersInStep
<1> QED
  BY <1>1, RemindersAlways, PTL

\* No reminder tells the client the same time twice, unless the appointment was
\* disturbed (sendToClient): in every state the message about to go is new.
THEOREM NoTimeIsToldTwice == Spec => NoSecondReminder
<1>1. WhateverIsHeard /\ [Next]_vars =>
         [\A a \in Appts, w \in Windows :
             (worker # Idle /\ worker.appt = a /\ worker.kind = w /\ Send) =>
                 worker.start \notin told[<<a, w>>] \/ a \in disturbed]_vars
  <2> SUFFICES ASSUME WhateverIsHeard, NEW a \in Appts, NEW w \in Windows,
                      worker # Idle, worker.appt = a, worker.kind = w, Send
               PROVE  worker.start \notin told[<<a, w>>] \/ a \in disturbed
    OBVIOUS
  <2>1. CASE heard
    BY <2>1 DEF WhateverIsHeard, RemindersInv, TellsNew, Send
  <2>2. CASE ~heard
    BY <2>2 DEF WhateverIsHeard, NothingPlanned, BasicInv, Busy, IsIn
  <2> QED
    BY <2>1, <2>2
<1> QED
  BY <1>1, RemindersAlways, PTL DEF Spec, NoSecondReminder
=============================================================================
