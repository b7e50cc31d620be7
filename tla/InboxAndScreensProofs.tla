----------------------- MODULE InboxAndScreensProofs -----------------------
(***************************************************************************)
(* Proofs about Inbox.tla, for every number of people, tasks, requests and *)
(* facts, any zones and any horizon: type correctness, that a deadline is  *)
(* told of before the scan stops looking back at it, and that nobody is    *)
(* told twice.  And about the parts of Screens.tla, for any sets of what   *)
(* they are about and any bounds: the answers of people, the messages, the *)
(* booking and the other forms, the list that is read page by page and the *)
(* other views, the reports of a period and those of the funnel.           *)
(***************************************************************************)
EXTENDS Inbox, Screens, Sequences, FiniteSetTheorems, WellFoundedInduction, TLAPS

-----------------------------------------------------------------------------
(* What is kept *)

\* A request holds, for what it is to write, a person or a deadline.
Fits(w) ==
    /\ w.op \in {"create", "assign"} => w.to \in Users \cup {None}
    /\ w.op = "move" => w.to \in Dues \cup {None}

RequestsFit == \A r \in Requests : req[r].pc \in {"assignee", "write"} => Fits(req[r])

\* The scan has open tasks to do, with a deadline and somebody to tell.
ScanFits ==
    scan # None => \A c \in scan.todo :
        c.row.status = "OPEN" /\ c.row.due \in Dues /\ c.row.assignee \in Users

TypeInv == TypeOK /\ RequestsFit /\ ScanFits

\* The key of the notice about a deadline.
KeyOf(t, due) == [task |-> t, due |-> due]

\* Somebody is to be told of the deadline of t, and was not.
Untold(t) ==
    /\ task[t] # Gone
    /\ task[t].status = "OPEN" /\ task[t].due # None /\ task[t].assignee \in active
    /\ <<task[t].assignee, KeyOf(t, task[t].due)>> \notin told

\* While the scan looks back at the deadline of t, and t is as it was in an earlier
\* part of the day: no scan of this part was whole, the one at work has t to do
\* still, and there was none in the parts since the deadline, or since t is so.
\* Later, t became so too late for it.
Waits(t) ==
    LET due == task[t].due IN
    /\ (since[t] < now /\ due <= now /\ now <= due + Lookback) =>
          /\ ~scanned
          /\ scan # None => [t |-> t, row |-> task[t]] \in scan.todo
    /\ now <= due + Lookback + 1 => (now - since[t] - 1 <= missed \/ now - due <= missed)
    /\ due + Lookback < now => due + Lookback <= since[t] + Outage

DeadlinesInv == TypeInv /\ \A t \in Tasks : Untold(t) => Waits(t)

\* What a scan has to do it looked back at when it began, and time stood still.
ScanLooks == scan # None => \A c \in scan.todo : now - Lookback <= c.row.due

\* The notice about a deadline is kept until the scan no longer looks back at it.
Outlasts(n) == \A t \in Tasks, due \in Dues : n.key = KeyOf(t, due) => due + Lookback <= n.createdAt + Retention

Noticed(u, key) == \E n \in notices : n.user = u /\ n.key = key

\* Whoever was told of a deadline the scan looks back at has the notice.
ToldAreNoticed ==
    \A u \in Users, t \in Tasks, due \in Dues :
        (<<u, KeyOf(t, due)>> \in told /\ now - Lookback <= due) => Noticed(u, KeyOf(t, due))

\* The keys of what may happen again.
Repeats == [fact: Cancellations]

\* Of what happens once, a listener is the only one to tell, and nobody was told.
TellersAreAlone ==
    \A r \in Requests : (req[r].pc = "tell" /\ req[r].key \notin Repeats) =>
        /\ \A u \in Users : <<u, req[r].key>> \notin told
        /\ \A s \in Requests : (req[s].pc = "tell" /\ req[s].key = req[r].key) => s = r

\* Nobody was told, or is about to be, of what has not happened.
NothingIsForetold ==
    \A f \in Facts \ (made \cup Cancellations) :
        /\ \A u \in Users : <<u, [fact |-> f]>> \notin told
        /\ \A r \in Requests : req[r].pc = "tell" => req[r].key # [fact |-> f]

\* The first notices may be gone.
Late == now > Retention

\* Till then there is the notice of what was told.
RepeatsAreNoticed ==
    \A u \in Users, f \in Cancellations :
        <<u, [fact |-> f]>> \in told => (Noticed(u, [fact |-> f]) \/ Late)

ToldInv ==
    /\ TypeInv
    /\ ScanLooks
    /\ \A n \in notices : Outlasts(n)
    /\ ToldAreNoticed
    /\ TellersAreAlone
    /\ NothingIsForetold
    /\ RepeatsAreNoticed

-----------------------------------------------------------------------------
(* Type correctness *)

LEMMA WorkByPc ==
    ASSUME NEW q \in Work \cup {Idle}
    PROVE  /\ q.pc \in {"assignee", "write", "tell", "idle"}
           /\ q.pc \in {"assignee", "write"} =>
                 q.by \in Users /\ q.op \in Ops /\ q.t \in Tasks /\ q.to \in Users \cup Dues \cup {None}
           /\ q.pc = "tell" => q.key \in [fact: Facts] /\ q.who \in SUBSET Users
           /\ q = Idle => q.pc = "idle"
           /\ q # Idle => q.pc # "idle"
  BY DEF Work, Idle

LEMMA RowFields ==
    ASSUME NEW row \in Row
    PROVE  /\ row.status \in {"OPEN", "DONE"}
           /\ row.assignee \in Users \cup {None} /\ row.createdBy \in Users
           /\ row.due \in Dues \cup {None}
           /\ row # Gone
  BY DEF Row, Gone

\* What a request or a listener goes on with.
LEMMA GoesType ==
    ASSUME TypeInv, NEW r \in Requests, NEW w \in Work \cup {Idle}, Goes(r, w),
           w.pc \in {"assignee", "write"} => Fits(w)
    PROVE  /\ req' \in [Requests -> Work \cup {Idle}]
           /\ RequestsFit'
           /\ \A s \in Requests : req'[s] = IF s = r THEN w ELSE req[s]
  <1>1. /\ req' \in [Requests -> Work \cup {Idle}]
        /\ \A s \in Requests : req'[s] = IF s = r THEN w ELSE req[s]
    BY DEF TypeInv, TypeOK, Goes
  <1>2. RequestsFit'
    BY <1>1 DEF TypeInv, RequestsFit
  <1>3. QED
    BY <1>1, <1>2

LEMMA GoesIdle ==
    ASSUME TypeInv, NEW r \in Requests, Goes(r, Idle)
    PROVE  /\ req' \in [Requests -> Work \cup {Idle}]
           /\ RequestsFit'
           /\ \A s \in Requests : req'[s] = IF s = r THEN Idle ELSE req[s]
  <1>1. Idle.pc = "idle"
    BY DEF Idle
  <1>2. QED
    BY <1>1, GoesType

LEMMA RequestFields ==
    ASSUME NEW pc \in {"assignee", "write"}, NEW by \in Users, NEW op \in Ops, NEW t \in Tasks,
           NEW to \in Users \cup Dues \cup {None}
    PROVE  \E w \in Work : /\ w = [pc |-> pc, by |-> by, op |-> op, t |-> t, to |-> to]
                          /\ w.op = op /\ w.to = to
  <1>1. /\ [pc |-> pc, by |-> by, op |-> op, t |-> t, to |-> to] \in Work
        /\ [pc |-> pc, by |-> by, op |-> op, t |-> t, to |-> to].op = op
        /\ [pc |-> pc, by |-> by, op |-> op, t |-> t, to |-> to].to = to
    BY DEF Work
  <1>2. QED
    BY <1>1

LEMMA CreateType == ASSUME TypeInv, NEW r \in Requests, Create(r) PROVE TypeInv'
  <1>1. PICK by \in active, to \in Users, t \in Tasks :
            /\ Act
            /\ Goes(r, [pc |-> IF to = by THEN "write" ELSE "assignee", by |-> by, op |-> "create",
                        t |-> t, to |-> to])
            /\ UNCHANGED <<active, made, task, notices, scan, now, scanned, missed, since, told>>
    BY DEF Create
  <1>2. by \in Users
    BY DEF TypeInv, TypeOK
  <1>3. PICK pc \in {"assignee", "write"} : pc = IF to = by THEN "write" ELSE "assignee"
    OBVIOUS
  <1>4. PICK w \in Work : /\ w = [pc |-> pc, by |-> by, op |-> "create", t |-> t, to |-> to]
                          /\ w.op = "create" /\ w.to = to
    <2>1. "create" \in Ops
      BY DEF Ops
    <2>2. QED
      BY <1>2, <2>1, RequestFields
  <1>5. Goes(r, w)
    BY <1>1, <1>3, <1>4
  <1>6. Fits(w)
    BY <1>4 DEF Fits
  <1>7. QED
    BY <1>1, <1>5, <1>6, GoesType, NumbersAssumption DEF TypeInv, TypeOK, ScanFits, Act

LEMMA AccessType == ASSUME TypeInv, NEW r \in Requests, Access(r) PROVE TypeInv'
  <1>1. PICK by \in active, op \in Ops \ {"create"}, t \in Tasks, to \in Users \cup Dues \cup {None} :
            /\ Act
            /\ CASE op = "assign" -> to \in Users \cup {None}
                 [] op = "move" -> to \in Dues \cup {None}
                 [] OTHER -> to = None
            /\ Goes(r, [pc |-> IF op = "assign" /\ to \notin {task[t].assignee, None} THEN "assignee" ELSE "write",
                        by |-> by, op |-> op, t |-> t, to |-> to])
            /\ UNCHANGED <<active, made, task, notices, scan, now, scanned, missed, since, told>>
    BY DEF Access
  <1>2. by \in Users
    BY DEF TypeInv, TypeOK
  <1>3. PICK pc \in {"assignee", "write"} :
            pc = IF op = "assign" /\ to \notin {task[t].assignee, None} THEN "assignee" ELSE "write"
    OBVIOUS
  <1>4. PICK w \in Work : /\ w = [pc |-> pc, by |-> by, op |-> op, t |-> t, to |-> to]
                          /\ w.op = op /\ w.to = to
    BY <1>2, RequestFields
  <1>5. Goes(r, w)
    BY <1>1, <1>3, <1>4
  <1>6. Fits(w)
    BY <1>1, <1>4 DEF Fits
  <1>7. QED
    BY <1>1, <1>5, <1>6, GoesType, NumbersAssumption DEF TypeInv, TypeOK, ScanFits, Act

LEMMA AssertAssigneeType == ASSUME TypeInv, NEW r \in Requests, AssertAssignee(r) PROVE TypeInv'
  <1>1. /\ req[r] \in Work \cup {Idle} /\ req[r].pc = "assignee" /\ Fits(req[r])
    BY DEF TypeInv, TypeOK, RequestsFit, AssertAssignee
  <1>2. PICK q \in Work : q = req[r]
    BY <1>1, WorkByPc
  <1>3. /\ [q EXCEPT !.pc = "write"] \in Work
        /\ [q EXCEPT !.pc = "write"].op = q.op /\ [q EXCEPT !.pc = "write"].to = q.to
    BY <1>1, <1>2 DEF Work
  <1>4. PICK w \in Work : w = [q EXCEPT !.pc = "write"] /\ w.op = q.op /\ w.to = q.to
    BY <1>3
  <1>5. Fits(w)
    BY <1>1, <1>2, <1>4 DEF Fits
  <1>6. Goes(r, w) \/ Goes(r, Idle)
    BY <1>2, <1>4 DEF AssertAssignee
  <1>7. req' \in [Requests -> Work \cup {Idle}] /\ RequestsFit'
    BY <1>5, <1>6, GoesType, GoesIdle
  <1>8. QED
    BY <1>7 DEF AssertAssignee, TypeInv, TypeOK, ScanFits
\* What a request writes is a row, or the end of one.
LEMMA WrittenType ==
    ASSUME TypeInv, NEW q \in Work, q.pc = "write", Fits(q), NEW row \in Row \cup {Gone},
           row # Gone \/ q.op = "create", NEW new \in Written(q, row)
    PROVE  new \in Row \cup {Gone}
  <1>1. q.by \in Users /\ q.op \in Ops
    BY WorkByPc
  <1>2. now \in Times
    BY DEF TypeInv, TypeOK
  <1>3. CASE q.op = "create"
    <2>1. PICK due \in Dues \cup {None} :
              new = [status |-> "OPEN", assignee |-> q.to, createdBy |-> q.by, due |-> due, completedAt |-> None]
      BY <1>3 DEF Written
    <2>2. QED
      BY <1>1, <1>3, <2>1 DEF Fits, Row
  <1>4. ASSUME q.op # "create"
        PROVE  row \in Row
    BY <1>4
  <1>5. CASE q.op = "assign"
    <2>1. new = [row EXCEPT !.assignee = q.to] /\ row \in Row /\ q.to \in Users \cup {None}
      BY <1>4, <1>5 DEF Written, Fits
    <2>2. QED
      BY <2>1 DEF Row
  <1>6. CASE q.op = "move"
    <2>1. new = [row EXCEPT !.due = q.to] /\ row \in Row /\ q.to \in Dues \cup {None}
      BY <1>4, <1>6 DEF Written, Fits
    <2>2. QED
      BY <2>1 DEF Row
  <1>7. CASE q.op = "complete"
    <2>1. new = [row EXCEPT !.status = "DONE", !.completedAt = now] /\ row \in Row
      BY <1>4, <1>7 DEF Written
    <2>2. QED
      BY <1>2, <2>1 DEF Row
  <1>8. CASE q.op = "reopen"
    <2>1. new = [row EXCEPT !.status = "OPEN", !.completedAt = None] /\ row \in Row
      BY <1>4, <1>8 DEF Written, Reopened
    <2>2. QED
      BY <2>1 DEF Row
  <1>9. CASE q.op = "remove"
    BY <1>9 DEF Written
  <1>10. QED
    BY <1>1, <1>3, <1>5, <1>6, <1>7, <1>8, <1>9 DEF Ops

\* A write changes one task, from now on, or nothing.
LEMMA WriteChanges ==
    ASSUME TypeInv, NEW r \in Requests, Write(r)
    PROVE  /\ \/ UNCHANGED <<task, since>>
              \/ \E t \in Tasks, new \in Row \cup {Gone} :
                    task' = [task EXCEPT ![t] = new] /\ since' = [since EXCEPT ![t] = now]
           /\ Goes(r, Idle)
           /\ UNCHANGED <<active, made, notices, scan, now, acts, scanned, missed, told>>
  <1>1. /\ req[r] \in Work \cup {Idle} /\ req[r].pc = "write" /\ Fits(req[r])
    BY DEF TypeInv, TypeOK, RequestsFit, Write
  <1>2. PICK q \in Work : q = req[r]
    BY <1>1, WorkByPc
  <1>3. PICK row \in Row \cup {Gone} : row = task[q.t]
    BY <1>1, <1>2, WorkByPc DEF TypeInv, TypeOK
  <1>4. q.t \in Tasks
    BY <1>1, <1>2, WorkByPc
  <1>5. /\ Goes(r, Idle)
        /\ IF row = Gone /\ q.op # "create"
           THEN UNCHANGED <<task, since>>
           ELSE /\ \E new \in Written(q, row) : task' = [task EXCEPT ![q.t] = new]
                /\ since' = [since EXCEPT ![q.t] = now]
        /\ UNCHANGED <<active, made, notices, scan, now, acts, scanned, missed, told>>
    BY <1>2, <1>3 DEF Write
  <1>6. CASE row = Gone /\ q.op # "create"
    BY <1>5, <1>6
  <1>7. CASE ~(row = Gone /\ q.op # "create")
    <2>1. PICK new \in Written(q, row) : task' = [task EXCEPT ![q.t] = new]
      BY <1>5, <1>7
    <2>2. new \in Row \cup {Gone}
      BY <1>1, <1>2, <1>7, WrittenType
    <2>3. QED
      BY <1>4, <1>5, <1>7, <2>1, <2>2
  <1>8. QED
    BY <1>6, <1>7

LEMMA WriteType == ASSUME TypeInv, NEW r \in Requests, Write(r) PROVE TypeInv'
  <1>1. req' \in [Requests -> Work \cup {Idle}] /\ RequestsFit'
    BY WriteChanges, GoesIdle
  <1>2. task' \in [Tasks -> Row \cup {Gone}] /\ since' \in [Tasks -> Times]
    BY WriteChanges DEF TypeInv, TypeOK
  <1>3. QED
    BY <1>1, <1>2, WriteChanges DEF TypeInv, TypeOK, ScanFits

LEMMA NotifyType ==
    ASSUME TypeInv, NEW who \in SUBSET Users, NEW key \in Key, NotifyUsers(who, key)
    PROVE  notices' \subseteq Notice /\ told' \subseteq Users \X Key
  <1>1. now \in Times /\ notices \subseteq Notice /\ told \subseteq Users \X Key
    BY DEF TypeInv, TypeOK
  <1>2. \A u \in who : [user |-> u, key |-> key, createdAt |-> now, read |-> FALSE] \in Notice
    BY <1>1 DEF Notice
  <1>3. QED
    BY <1>1, <1>2 DEF NotifyUsers

LEMMA EmitChanges ==
    ASSUME TypeInv, NEW r \in Requests, Emit(r)
    PROVE  /\ \E f \in Facts, who \in SUBSET Users : \E w \in Work :
                 /\ w.pc = "tell" /\ w.key = [fact |-> f] /\ w.who = who
                 /\ f \notin made /\ made' = made \cup ({f} \ Cancellations)
                 /\ Goes(r, w)
           /\ acts' \in 0..MaxActs
           /\ UNCHANGED <<active, task, notices, scan, now, scanned, missed, since, told>>
  <1>1. PICK f \in Facts, who \in {active} \cup {{u} : u \in active} :
            /\ Act
            /\ f \notin made /\ made' = made \cup ({f} \ Cancellations)
            /\ Goes(r, [pc |-> "tell", key |-> [fact |-> f], who |-> who])
            /\ UNCHANGED <<active, task, notices, scan, now, scanned, missed, since, told>>
    BY DEF Emit
  <1>2. who \in SUBSET Users
    BY DEF TypeInv, TypeOK
  <1>3. /\ [pc |-> "tell", key |-> [fact |-> f], who |-> who] \in Work
        /\ [pc |-> "tell", key |-> [fact |-> f], who |-> who].pc = "tell"
        /\ [pc |-> "tell", key |-> [fact |-> f], who |-> who].key = [fact |-> f]
        /\ [pc |-> "tell", key |-> [fact |-> f], who |-> who].who = who
    BY <1>2 DEF Work
  <1>4. acts' \in 0..MaxActs
    BY <1>1, NumbersAssumption DEF Act, TypeInv, TypeOK
  <1>5. PICK w \in Work : /\ w = [pc |-> "tell", key |-> [fact |-> f], who |-> who]
                          /\ w.pc = "tell" /\ w.key = [fact |-> f] /\ w.who = who
    BY <1>3
  <1>6. Goes(r, w)
    BY <1>1, <1>5
  <1>7. QED
    BY <1>1, <1>2, <1>4, <1>5, <1>6

LEMMA EmitType == ASSUME TypeInv, NEW r \in Requests, Emit(r) PROVE TypeInv'
  <1>1. PICK f \in Facts, w \in Work :
            w.pc = "tell" /\ Goes(r, w) /\ made' = made \cup ({f} \ Cancellations)
    BY EmitChanges
  <1>2. req' \in [Requests -> Work \cup {Idle}] /\ RequestsFit'
    BY <1>1, GoesType
  <1>3. made' \subseteq Facts
    BY <1>1 DEF TypeInv, TypeOK
  <1>4. QED
    BY <1>2, <1>3, EmitChanges DEF TypeInv, TypeOK, ScanFits

\* What a listener tells, and to whom.
LEMMA Telling ==
    ASSUME TypeInv, NEW r \in Requests, Tell(r)
    PROVE  \E f \in Facts, who \in SUBSET Users :
              /\ req[r].key = [fact |-> f] /\ req[r].pc = "tell" /\ [fact |-> f] \in Key
              /\ NotifyUsers(who, [fact |-> f])
  <1>1. req[r] \in Work \cup {Idle} /\ req[r].pc = "tell"
    BY DEF TypeInv, TypeOK, Tell
  <1>2. req[r].key \in [fact: Facts] /\ req[r].who \in SUBSET Users
    BY <1>1, WorkByPc
  <1>3. PICK f \in Facts, who \in SUBSET Users : req[r].key = [fact |-> f] /\ who = req[r].who
    BY <1>2
  <1>4. NotifyUsers(who, [fact |-> f])
    BY <1>3 DEF Tell
  <1>5. [fact |-> f] \in Key
    BY DEF Key
  <1>6. QED
    BY <1>1, <1>3, <1>4, <1>5

LEMMA TellType == ASSUME TypeInv, NEW r \in Requests, Tell(r) PROVE TypeInv'
  <1>1. notices' \subseteq Notice /\ told' \subseteq Users \X Key
    BY Telling, NotifyType
  <1>2. req' \in [Requests -> Work \cup {Idle}] /\ RequestsFit'
    BY GoesIdle DEF Tell
  <1>3. QED
    BY <1>1, <1>2 DEF Tell, TypeInv, TypeOK, ScanFits
LEMMA RequestFailsType == ASSUME TypeInv, NEW r \in Requests, RequestFails(r) PROVE TypeInv'
  <1>1. req' \in [Requests -> Work \cup {Idle}] /\ RequestsFit'
    BY GoesIdle DEF RequestFails
  <1>2. QED
    BY <1>1 DEF RequestFails, TypeInv, TypeOK, ScanFits

LEMMA PeopleType ==
    ASSUME TypeInv, \/ \E u \in Users : Deactivate(u)
                    \/ \E t \in Tasks : DeleteClient(t)
    PROVE  TypeInv'
  <1>1. acts' \in 0..MaxActs
    BY NumbersAssumption DEF Deactivate, DeleteClient, Act, TypeInv, TypeOK
  <1>2. active' \in SUBSET Users /\ task' \in [Tasks -> Row \cup {Gone}] /\ since' \in [Tasks -> Times]
    BY DEF Deactivate, DeleteClient, TypeInv, TypeOK
  <1>3. UNCHANGED <<made, notices, req, scan, now, scanned, missed, told>>
    BY DEF Deactivate, DeleteClient
  <1>4. QED
    BY <1>1, <1>2, <1>3 DEF TypeInv, TypeOK, ScanFits, RequestsFit

\* A notice that is read is the same notice.
LEMMA ReadNotice ==
    ASSUME NEW n \in Notice
    PROVE  /\ [n EXCEPT !.read = TRUE] \in Notice
           /\ [n EXCEPT !.read = TRUE].user = n.user
           /\ [n EXCEPT !.read = TRUE].key = n.key
           /\ [n EXCEPT !.read = TRUE].createdAt = n.createdAt
  BY DEF Notice

\* The notices of before are there, and no others, but for who has read them.
SameNotices ==
    /\ notices' \subseteq Notice
    /\ \A n \in notices' : \E o \in notices : o.user = n.user /\ o.key = n.key /\ o.createdAt = n.createdAt
    /\ \A o \in notices : \E n \in notices' : o.user = n.user /\ o.key = n.key

LEMMA ReadingChanges ==
    ASSUME TypeInv, MarkRead \/ MarkAllRead
    PROVE  /\ SameNotices /\ acts' \in 0..MaxActs
           /\ UNCHANGED <<active, made, task, req, scan, now, scanned, missed, since, told>>
  <1>1. notices \subseteq Notice
    BY DEF TypeInv, TypeOK
  <1>2. CASE MarkRead
    <2>1. PICK n \in notices : Act /\ notices' = (notices \ {n}) \cup {[n EXCEPT !.read = TRUE]}
      BY <1>2 DEF MarkRead
    <2>2. PICK m \in Notice : /\ m = [n EXCEPT !.read = TRUE]
                              /\ m.user = n.user /\ m.key = n.key /\ m.createdAt = n.createdAt
      BY <1>1, ReadNotice
    <2>3. notices' = (notices \ {n}) \cup {m}
      BY <2>1, <2>2
    <2>4. SameNotices
      BY <1>1, <2>2, <2>3 DEF SameNotices
    <2>5. QED
      BY <1>2, <2>1, <2>4, NumbersAssumption DEF Act, MarkRead, TypeInv, TypeOK
  <1>3. CASE MarkAllRead
    <2>1. PICK u \in Users :
              Act /\ notices' = {IF n.user = u THEN [n EXCEPT !.read = TRUE] ELSE n : n \in notices}
      BY <1>3 DEF MarkAllRead
    <2>2. \A n \in notices : \E m \in Notice :
              /\ m = IF n.user = u THEN [n EXCEPT !.read = TRUE] ELSE n
              /\ m.user = n.user /\ m.key = n.key /\ m.createdAt = n.createdAt
      BY <1>1, ReadNotice
    <2>3. ASSUME NEW n \in notices'
          PROVE  n \in Notice /\ \E o \in notices : o.user = n.user /\ o.key = n.key /\ o.createdAt = n.createdAt
      <3>1. PICK o \in notices : n = IF o.user = u THEN [o EXCEPT !.read = TRUE] ELSE o
        BY <2>1
      <3>2. QED
        BY <2>2, <3>1
    <2>4. ASSUME NEW o \in notices
          PROVE  \E n \in notices' : o.user = n.user /\ o.key = n.key
      <3>1. (IF o.user = u THEN [o EXCEPT !.read = TRUE] ELSE o) \in notices'
        BY <2>1
      <3>2. QED
        BY <2>2, <3>1
    <2>5. SameNotices
      BY <2>3, <2>4 DEF SameNotices
    <2>6. QED
      BY <1>3, <2>1, <2>5, NumbersAssumption DEF Act, MarkAllRead, TypeInv, TypeOK
  <1>4. QED
    BY <1>2, <1>3

LEMMA ReadingType == ASSUME TypeInv, MarkRead \/ MarkAllRead PROVE TypeInv'
  BY ReadingChanges DEF SameNotices, TypeInv, TypeOK, ScanFits, RequestsFit

-----------------------------------------------------------------------------
(* The scan, and time *)

LEMMA ScanFields ==
    ASSUME TypeInv, scan # None
    PROVE  scan \in Scanning /\ scan.todo \in SUBSET [t: Tasks, row: Row] /\ scan.purged \in BOOLEAN
  BY DEF TypeInv, TypeOK, Scanning

LEMMA StartScanChanges ==
    ASSUME TypeInv, StartScan
    PROVE  /\ scan' \in Scanning /\ scan'.todo = Candidates
           /\ \A c \in Candidates :
                 /\ c \in [t: Tasks, row: Row] /\ c.row.status = "OPEN" /\ c.row.due \in Dues
                 /\ c.row.assignee \in Users /\ now - Lookback <= c.row.due
  <1>1. \A c \in Candidates :
            /\ c.t \in Tasks /\ c.row \in Row /\ c \in [t: Tasks, row: Row] /\ c.row.status = "OPEN"
            /\ c.row.due # None /\ now - Lookback <= c.row.due /\ c.row.assignee \in active
    <2> SUFFICES ASSUME NEW c \in Candidates
                 PROVE  /\ c.t \in Tasks /\ c.row \in Row /\ c \in [t: Tasks, row: Row] /\ c.row.status = "OPEN"
                        /\ c.row.due # None /\ now - Lookback <= c.row.due /\ c.row.assignee \in active
      OBVIOUS
    <2>1. /\ c \in [t: Tasks, row: {task[t] : t \in Tasks} \ {Gone}]
          /\ c.row.status = "OPEN" /\ c.row.due # None /\ c.row.due >= now - Lookback
          /\ c.row.assignee \in active
      BY DEF Candidates
    <2>2. {task[t] : t \in Tasks} \ {Gone} \subseteq Row
      BY DEF TypeInv, TypeOK
    <2>3. c \in [t: Tasks, row: Row]
      BY <2>1, <2>2
    <2>4. c.row \in Row /\ c.row.due \in Dues
      BY <2>1, <2>3, RowFields
    <2>5. QED
      BY <2>1, <2>3, <2>4, SetsAssumption, NumbersAssumption DEF TypeInv, TypeOK, Times
  <1>2. Candidates \in SUBSET [t: Tasks, row: Row]
    BY <1>1
  <1>3. [todo |-> Candidates, purged |-> FALSE] \in Scanning /\ [todo |-> Candidates, purged |-> FALSE].todo = Candidates
    BY <1>2 DEF Scanning
  <1>4. \A c \in Candidates : c.row.due \in Dues /\ c.row.assignee \in Users
    BY <1>1, RowFields DEF TypeInv, TypeOK
  <1>5. QED
    BY <1>1, <1>3, <1>4 DEF StartScan

LEMMA ScanTaskChanges ==
    ASSUME TypeInv, ScanTask
    PROVE  \E c \in [t: Tasks, row: Row] :
              /\ scan # None /\ c \in scan.todo
              /\ c.row.due \in Dues /\ c.row.assignee \in Users /\ KeyOf(c.t, c.row.due) \in Key
              /\ scan' \in Scanning /\ scan'.todo = scan.todo \ {c}
              /\ IF TaskDueNotice(c.row.due, Zone[c.row.assignee])
                 THEN NotifyUsers({c.row.assignee}, KeyOf(c.t, c.row.due))
                 ELSE UNCHANGED <<notices, told>>
  <1>1. PICK c \in (IF scan = None THEN {} ELSE scan.todo) :
            /\ scan' = [scan EXCEPT !.todo = @ \ {c}]
            /\ IF TaskDueNotice(c.row.due, Zone[c.row.assignee])
               THEN NotifyUsers({c.row.assignee}, [task |-> c.t, due |-> c.row.due])
               ELSE UNCHANGED <<notices, told>>
    BY DEF ScanTask
  <1>2. scan # None /\ c \in scan.todo
    BY <1>1
  <1>3. c \in [t: Tasks, row: Row] /\ c.row.due \in Dues /\ c.row.assignee \in Users
    BY <1>2, ScanFields DEF TypeInv, ScanFits
  <1>4. scan' \in Scanning /\ scan'.todo = scan.todo \ {c}
    BY <1>1, <1>2, ScanFields DEF Scanning
  <1>5. KeyOf(c.t, c.row.due) \in Key
    BY <1>3 DEF KeyOf, Key
  <1>6. QED
    BY <1>1, <1>2, <1>3, <1>4, <1>5 DEF KeyOf

LEMMA PurgeChanges ==
    ASSUME TypeInv, PurgeOld
    PROVE  scan # None /\ scan' \in Scanning /\ scan'.todo = scan.todo
  BY ScanFields DEF PurgeOld, Scanning

LEMMA ScanType == ASSUME TypeInv, Scan PROVE TypeInv'
  <1>1. CASE StartScan
    BY <1>1, StartScanChanges DEF StartScan, TypeInv, TypeOK, ScanFits, RequestsFit
  <1>2. CASE ScanTask
    <2>1. PICK c \in [t: Tasks, row: Row] :
              /\ scan # None
              /\ c.row.due \in Dues /\ c.row.assignee \in Users /\ KeyOf(c.t, c.row.due) \in Key
              /\ scan' \in Scanning /\ scan'.todo = scan.todo \ {c}
              /\ \/ NotifyUsers({c.row.assignee}, KeyOf(c.t, c.row.due))
                 \/ UNCHANGED <<notices, told>>
      BY <1>2, ScanTaskChanges
    <2>2. {c.row.assignee} \in SUBSET Users
      BY <2>1
    <2>3. notices' \subseteq Notice /\ told' \subseteq Users \X Key
      BY <2>1, <2>2, NotifyType DEF TypeInv, TypeOK
    <2>4. ScanFits'
      BY <2>1 DEF TypeInv, ScanFits
    <2>5. QED
      BY <1>2, <2>1, <2>3, <2>4 DEF ScanTask, TypeInv, TypeOK, RequestsFit
  <1>3. CASE PurgeOld
    BY <1>3, PurgeChanges DEF PurgeOld, TypeInv, TypeOK, ScanFits, RequestsFit
  <1>4. CASE EndScan \/ ScanFails
    BY <1>4 DEF EndScan, ScanFails, TypeInv, TypeOK, ScanFits, RequestsFit
  <1>5. QED
    BY <1>1, <1>2, <1>3, <1>4 DEF Scan

LEMMA TickType == ASSUME TypeInv, Tick PROVE TypeInv'
  <1>1. now' \in Times
    BY NumbersAssumption DEF Tick, TypeInv, TypeOK, Times
  <1>2. missed \in 0..Outage /\ (scanned \/ missed < Outage) /\ missed' = IF scanned THEN 0 ELSE missed + 1
    BY DEF Tick, TypeInv, TypeOK
  <1>3. missed' \in 0..Outage
    BY <1>2, NumbersAssumption
  <1>4. QED
    BY <1>1, <1>3 DEF Tick, TypeInv, TypeOK, ScanFits, RequestsFit

LEMMA TypeInit == Init => TypeInv
  <1> SUFFICES ASSUME Init PROVE TypeInv
    OBVIOUS
  <1>1. [status: {"OPEN"}, assignee: Users \cup {None}, createdBy: Attendants, due: Dues, completedAt: {None}]
            \subseteq Row
    BY SetsAssumption DEF Row
  <1>2. task \in [Tasks -> Row \cup {Gone}]
    BY <1>1 DEF Init
  <1>3. RequestsFit
    BY DEF Init, RequestsFit, Idle
  <1>4. QED
    <2>1. 0 \in Times /\ 0 \in 0..MaxActs /\ 0 \in 0..Outage
      BY NumbersAssumption DEF Times
    <2>2. req \in [Requests -> Work \cup {Idle}] /\ since \in [Tasks -> Times]
      BY <2>1 DEF Init
    <2>3. QED
      BY <1>2, <1>3, <2>1, <2>2 DEF Init, TypeInv, TypeOK, ScanFits

LEMMA TypeStep == TypeInv /\ [Next]_vars => TypeInv'
  <1> SUFFICES ASSUME TypeInv, [Next]_vars PROVE TypeInv'
    OBVIOUS
  <1>1. ASSUME NEW r \in Requests, Step(r)
        PROVE  TypeInv'
    BY <1>1, CreateType, AccessType, AssertAssigneeType, WriteType, EmitType, TellType, RequestFailsType DEF Step
  <1>2. CASE UNCHANGED vars
    BY <1>2 DEF vars, TypeInv, TypeOK, ScanFits, RequestsFit
  <1>3. QED
    BY <1>1, <1>2, PeopleType, ReadingType, ScanType, TickType DEF Next

\* Every reachable state of the inbox is well typed, for any number of people,
\* tasks, facts and requests.
THEOREM TypeCorrect == Spec => []TypeOK
  <1>1. TypeInv => TypeOK
    BY DEF TypeInv
  <1>2. QED
    BY <1>1, TypeInit, TypeStep, PTL DEF Spec
-----------------------------------------------------------------------------
(* When it is time *)

LEMMA SamePart ==
    ASSUME NEW n \in Nat, n > 0, NEW a \in Int, NEW b \in Int
    PROVE  /\ a % n \in 0..(n - 1) /\ a \div n \in Int
           /\ a <= b => a \div n <= b \div n
           /\ a \div n = b \div n => a - b = (a % n) - (b % n)
  <1>1. a % n \in 0..(n - 1) /\ a \div n \in Int
    OBVIOUS
  <1>2. a <= b => a \div n <= b \div n
    OBVIOUS
  <1>3. a \div n = b \div n => a - b = (a % n) - (b % n)
    BY Z3T(30)
  <1>4. QED
    BY <1>1, <1>2, <1>3

\* At its deadline, and ever after, it is time to tell of a task.
LEMMA DueWhenItIs ==
    ASSUME TypeInv, NEW due \in Dues, NEW u \in Users, due <= now
    PROVE  TaskDueNotice(due, Zone[u])
  <1>1. /\ Zone[u] \in 0..(Day - 1) /\ due \in Nat /\ now \in Nat /\ Day \in Nat /\ Day > 0
        /\ Morning <= Day - 1 /\ Morning \in Nat /\ Soon \in Nat
    BY SetsAssumption, NumbersAssumption DEF TypeInv, TypeOK, Times
  <1>2. PICK z \in 0..(Day - 1) : z = Zone[u]
    BY <1>1
  <1>3. PICK a \in Int, b \in Int : a = due + z /\ b = now + z /\ a <= b
    BY <1>1, <1>2
  <1>4. /\ a \div Day \in Int /\ b \div Day \in Int /\ a % Day \in Int /\ b % Day \in 0..(Day - 1)
        /\ a \div Day <= b \div Day
        /\ a \div Day = b \div Day => a - b = (a % Day) - (b % Day)
    BY <1>1, <1>3, SamePart
  <1>5. (a % Day = Day - 1 /\ a \div Day = b \div Day) => b % Day >= Morning
    BY <1>1, <1>3, <1>4
  <1>6. due - now <= Soon
    BY <1>1
  <1>7. a % Day = Day - 1 => \/ b \div Day > a \div Day
                             \/ b \div Day = a \div Day /\ b % Day >= Morning
    BY <1>4, <1>5
  <1>8. QED
    BY <1>2, <1>3, <1>6, <1>7 DEF TaskDueNotice, PartOf, DayOf

\* Nobody is told so early that the notice could be purged while the scan still
\* looks back at the deadline.
LEMMA NotTooEarly ==
    ASSUME TypeInv, NEW due \in Dues, NEW u \in Users, TaskDueNotice(due, Zone[u])
    PROVE  due + Lookback <= now + Retention
  <1>1. /\ Zone[u] \in 0..(Day - 1) /\ due \in Nat /\ now \in Nat /\ Day \in Nat /\ Day > 0
        /\ Morning <= Day - 1 /\ Morning \in Nat /\ Soon \in Nat /\ Lookback \in Nat /\ Retention \in Nat
        /\ Lookback + Soon <= Retention /\ Lookback + (Day - 1 - Morning) <= Retention
    BY SetsAssumption, NumbersAssumption, HorizonsAssumption DEF TypeInv, TypeOK, Times
  <1>2. PICK z \in 0..(Day - 1) : z = Zone[u]
    BY <1>1
  <1>3. PICK a \in Int, b \in Int : a = due + z /\ b = now + z
    BY <1>1, <1>2
  <1>4. /\ a \div Day \in Int /\ b \div Day \in Int /\ a % Day \in Int /\ b % Day \in 0..(Day - 1)
        /\ b <= a => b \div Day <= a \div Day
        /\ a \div Day = b \div Day => a - b = (a % Day) - (b % Day)
    BY <1>1, <1>3, SamePart
  <1>5. IF a % Day = Day - 1
        THEN b \div Day > a \div Day \/ (b \div Day = a \div Day /\ b % Day >= Morning)
        ELSE due - now <= Soon
    BY <1>2, <1>3 DEF TaskDueNotice, PartOf, DayOf
  <1>6. CASE a % Day # Day - 1
    BY <1>1, <1>5, <1>6
  <1>7. CASE a % Day = Day - 1 /\ b \div Day > a \div Day
    <2>1. a < b
      BY <1>3, <1>4, <1>7
    <2>2. QED
      BY <1>1, <1>2, <1>3, <2>1
  <1>8. CASE a % Day = Day - 1 /\ b \div Day = a \div Day /\ b % Day >= Morning
    <2>1. a - b <= Day - 1 - Morning
      BY <1>1, <1>4, <1>8
    <2>2. QED
      BY <1>1, <1>2, <1>3, <2>1
  <1>9. QED
    BY <1>5, <1>6, <1>7, <1>8

-----------------------------------------------------------------------------
(* Deadlines are told of *)

WellTold(t) ==
    /\ task[t] \in Row /\ task[t].status = "OPEN" /\ task[t].assignee \in Users
    /\ task[t].due \in Dues /\ task[t].due \in Nat
    /\ since[t] \in Nat /\ now \in Nat /\ missed \in Nat /\ missed <= Outage

LEMMA UntoldFields == TypeInv => \A t \in Tasks : Untold(t) => WellTold(t)
  <1> SUFFICES ASSUME TypeInv, NEW t \in Tasks, Untold(t)
               PROVE  WellTold(t)
    OBVIOUS
  <1>1. task[t] \in Row
    BY DEF Untold, TypeInv, TypeOK
  <1>2. task[t].due \in Dues /\ task[t].assignee \in Users /\ task[t].status = "OPEN"
    BY <1>1, RowFields DEF Untold, TypeInv, TypeOK
  <1>3. since[t] \in Nat /\ now \in Nat
    BY NumbersAssumption DEF TypeInv, TypeOK, Times
  <1>4. missed \in Nat /\ missed <= Outage
    BY NumbersAssumption DEF TypeInv, TypeOK
  <1>5. task[t].due \in Nat
    <2>1. PICK due \in Dues : due = task[t].due
      BY <1>2
    <2>2. due \in 0..MaxTime
      BY SetsAssumption
    <2>3. QED
      BY <2>1, <2>2, NumbersAssumption
  <1>6. QED
    BY <1>1, <1>2, <1>3, <1>4, <1>5 DEF WellTold

LEMMA UntoldFieldsAfter == TypeInv' => \A t \in Tasks : Untold(t)' => WellTold(t)'
  <1>1. (TypeInv => \A t \in Tasks : Untold(t) => WellTold(t))'
    BY UntoldFields, PTL
  <1>2. QED
    BY <1>1

\* A step that changes no task, and neither the scan nor time.
LEMMA CalmDeadlines ==
    ASSUME DeadlinesInv, active' \subseteq active, told \subseteq told', scan' \in {scan, None},
           UNCHANGED <<task, since, now, missed, scanned>>
    PROVE  \A t \in Tasks : Untold(t)' => Waits(t)'
  <1> SUFFICES ASSUME NEW t \in Tasks, Untold(t)'
               PROVE  Waits(t)'
    OBVIOUS
  <1>1. Untold(t)
    BY DEF Untold
  <1>2. Waits(t)
    BY <1>1 DEF DeadlinesInv
  <1>3. QED
    BY <1>2 DEF Waits

\* A task that is written is as it is from now on.
LEMMA WrittenDeadlines ==
    ASSUME DeadlinesInv, TypeInv', NEW t \in Tasks, NEW new,
           task' = [task EXCEPT ![t] = new], since' = [since EXCEPT ![t] = now],
           UNCHANGED <<active, scan, now, missed, scanned, told>>
    PROVE  \A o \in Tasks : Untold(o)' => Waits(o)'
  <1> SUFFICES ASSUME NEW o \in Tasks, Untold(o)'
               PROVE  Waits(o)'
    OBVIOUS
  <1>1. /\ task'[o] = IF o = t THEN new ELSE task[o]
        /\ since'[o] = IF o = t THEN now ELSE since[o]
    BY DEF DeadlinesInv, TypeInv, TypeOK
  <1>2. CASE o = t
    <2>1. /\ task'[o].due \in Nat /\ since'[o] \in Nat /\ now' \in Nat /\ missed' \in Nat
          /\ Lookback \in Nat /\ Outage \in Nat
      BY UntoldFieldsAfter, NumbersAssumption DEF WellTold
    <2>2. since'[o] = now'
      BY <1>1, <1>2
    <2>3. QED
      BY <2>1, <2>2 DEF Waits
  <1>3. CASE o # t
    <2>1. Untold(o)
      BY <1>1, <1>3 DEF Untold
    <2>2. Waits(o)
      BY <2>1 DEF DeadlinesInv
    <2>3. QED
      BY <1>1, <1>3, <2>2 DEF Waits
  <1>4. QED
    BY <1>2, <1>3

LEMMA StartScanDeadlines ==
    ASSUME DeadlinesInv, TypeInv', StartScan
    PROVE  \A t \in Tasks : Untold(t)' => Waits(t)'
  <1> SUFFICES ASSUME NEW t \in Tasks, Untold(t)'
               PROVE  Waits(t)'
    OBVIOUS
  <1>1. Untold(t) /\ TypeInv
    BY DEF StartScan, Untold, DeadlinesInv
  <1>2. Waits(t)
    BY <1>1 DEF DeadlinesInv
  <1>3. ASSUME task[t].due <= now, now <= task[t].due + Lookback
        PROVE  [t |-> t, row |-> task[t]] \in Candidates
    <2>1. [t |-> t, row |-> task[t]] \in [t: Tasks, row: {task[s] : s \in Tasks} \ {Gone}]
      BY <1>1 DEF Untold
    <2>2. task[t].due >= now - Lookback /\ task[t].due <= now + Day
      BY <1>1, <1>3, UntoldFields, NumbersAssumption DEF WellTold
    <2>3. QED
      BY <1>1, <2>1, <2>2 DEF Untold, Candidates
  <1>4. scan'.todo = Candidates /\ ~scanned /\ UNCHANGED <<task, since, now, missed, scanned>>
    BY <1>1, StartScanChanges DEF StartScan
  <1>5. QED
    BY <1>2, <1>3, <1>4 DEF Waits

LEMMA ScanTaskDeadlines ==
    ASSUME DeadlinesInv, TypeInv', ScanTask
    PROVE  \A t \in Tasks : Untold(t)' => Waits(t)'
  <1> SUFFICES ASSUME NEW t \in Tasks, Untold(t)'
               PROVE  Waits(t)'
    OBVIOUS
  <1>1. PICK c \in [t: Tasks, row: Row] :
            /\ scan # None /\ c \in scan.todo
            /\ c.row.due \in Dues /\ c.row.assignee \in Users
            /\ scan'.todo = scan.todo \ {c}
            /\ IF TaskDueNotice(c.row.due, Zone[c.row.assignee])
               THEN NotifyUsers({c.row.assignee}, KeyOf(c.t, c.row.due))
               ELSE UNCHANGED <<notices, told>>
    BY ScanTaskChanges DEF DeadlinesInv
  <1>2. UNCHANGED <<active, made, task, now, scanned, missed, since>>
    BY DEF ScanTask
  <1>3. told \subseteq told'
    BY <1>1 DEF NotifyUsers
  <1>4. Untold(t) /\ TypeInv
    BY <1>2, <1>3 DEF Untold, DeadlinesInv
  <1>5. Waits(t)
    BY <1>4 DEF DeadlinesInv
  <1>6. ASSUME task[t].due <= now, c = [t |-> t, row |-> task[t]]
        PROVE  FALSE
    <2>1. c.t = t /\ c.row = task[t]
      BY <1>6
    <2>2. TaskDueNotice(task[t].due, Zone[task[t].assignee])
      BY <1>1, <1>4, <1>6, <2>1, UntoldFields, DueWhenItIs DEF WellTold
    <2>3. <<task[t].assignee, KeyOf(t, task[t].due)>> \in told'
      BY <1>1, <2>1, <2>2 DEF NotifyUsers
    <2>4. QED
      BY <1>2, <2>3 DEF Untold
  <1>7. QED
    BY <1>1, <1>2, <1>5, <1>6 DEF Waits

LEMMA ScanDeadlines ==
    ASSUME DeadlinesInv, TypeInv', Scan
    PROVE  \A t \in Tasks : Untold(t)' => Waits(t)'
  <1>1. CASE PurgeOld
    <2> SUFFICES ASSUME NEW t \in Tasks, Untold(t)'
                 PROVE  Waits(t)'
      OBVIOUS
    <2>1. Waits(t) /\ TypeInv
      BY <1>1 DEF PurgeOld, Untold, DeadlinesInv
    <2>2. scan # None /\ scan'.todo = scan.todo
      BY <1>1, <2>1, PurgeChanges
    <2>3. QED
      BY <1>1, <2>1, <2>2 DEF PurgeOld, Waits
  <1>2. CASE EndScan
    <2> SUFFICES ASSUME NEW t \in Tasks, Untold(t)'
                 PROVE  Waits(t)'
      OBVIOUS
    <2>1. Waits(t)
      BY <1>2 DEF EndScan, Untold, DeadlinesInv
    <2>2. QED
      BY <1>2, <2>1 DEF EndScan, Waits
  <1>3. CASE ScanFails
    BY <1>3, CalmDeadlines DEF ScanFails
  <1>4. QED
    BY <1>1, <1>2, <1>3, StartScanDeadlines, ScanTaskDeadlines DEF Scan

LEMMA TickDeadlines ==
    ASSUME DeadlinesInv, TypeInv', Tick
    PROVE  \A t \in Tasks : Untold(t)' => Waits(t)'
  <1> SUFFICES ASSUME NEW t \in Tasks, Untold(t)'
               PROVE  Waits(t)'
    OBVIOUS
  <1>1. Untold(t) /\ TypeInv
    BY DEF Tick, Untold, DeadlinesInv
  <1>2. Waits(t)
    BY <1>1 DEF DeadlinesInv
  <1>3. PICK due \in Nat, time \in Nat, of \in Nat :
            /\ due = task[t].due /\ time = now /\ of = since[t]
            /\ missed \in Nat /\ missed <= Outage /\ Outage \in Nat /\ Lookback \in Nat /\ Outage <= Lookback
    BY <1>1, UntoldFields, NumbersAssumption, HorizonsAssumption DEF WellTold
  <1>4. missed' \in Nat /\ missed' <= Outage
    BY UntoldFieldsAfter DEF WellTold
  <1>5. /\ now' = time + 1 /\ scan' = None /\ ~scanned'
        /\ missed' = IF scanned THEN 0 ELSE missed + 1
        /\ task'[t] = task[t] /\ since'[t] = of
    BY <1>3 DEF Tick
  <1>6. /\ (of < time /\ due <= time /\ time <= due + Lookback) => ~scanned
        /\ time <= due + Lookback + 1 => (time - of - 1 <= missed \/ time - due <= missed)
        /\ due + Lookback < time => due + Lookback <= of + Outage
    BY <1>2, <1>3 DEF Waits
  <1>7. time + 1 <= due + Lookback + 1 => (time + 1 - of - 1 <= missed' \/ time + 1 - due <= missed')
    <2>1. CASE scanned
      BY <1>3, <1>5, <1>6, <2>1
    <2>2. CASE ~scanned
      BY <1>3, <1>5, <1>6, <2>2
    <2>3. QED
      BY <2>1, <2>2
  <1>8. due + Lookback < time + 1 => due + Lookback <= of + Outage
    <2>1. CASE due + Lookback < time
      BY <1>6, <2>1
    <2>2. CASE due + Lookback = time
      BY <1>3, <1>4, <1>7, <2>2
    <2>3. QED
      BY <1>3, <2>1, <2>2
  <1>9. QED
    BY <1>3, <1>5, <1>7, <1>8 DEF Waits

LEMMA DeadlinesInit == Init => DeadlinesInv
  <1> SUFFICES ASSUME Init PROVE DeadlinesInv
    OBVIOUS
  <1>1. TypeInv
    BY TypeInit
  <1>2. ASSUME NEW t \in Tasks, Untold(t)
        PROVE  Waits(t)
    <2>1. WellTold(t) /\ now = 0 /\ since[t] = 0 /\ missed = 0
      BY <1>1, <1>2, UntoldFields DEF Init
    <2>2. QED
      BY <2>1, NumbersAssumption DEF Waits, WellTold
  <1>3. QED
    BY <1>1, <1>2 DEF DeadlinesInv

LEMMA DeadlinesStep == DeadlinesInv /\ [Next]_vars => DeadlinesInv'
  <1> SUFFICES ASSUME DeadlinesInv, [Next]_vars
               PROVE  \A t \in Tasks : Untold(t)' => Waits(t)'
    BY TypeStep DEF DeadlinesInv
  <1>1. TypeInv /\ TypeInv'
    BY TypeStep DEF DeadlinesInv
  <1>2. ASSUME NEW r \in Requests, Step(r)
        PROVE  \A t \in Tasks : Untold(t)' => Waits(t)'
    <2>1. CASE Create(r) \/ Access(r) \/ AssertAssignee(r) \/ Emit(r) \/ RequestFails(r)
      BY <2>1, CalmDeadlines DEF Create, Access, AssertAssignee, Emit, RequestFails
    <2>2. CASE Tell(r)
      BY <2>2, CalmDeadlines DEF Tell, NotifyUsers
    <2>3. CASE Write(r)
      <3>1. UNCHANGED <<active, scan, now, missed, scanned, told>>
        BY <1>1, <2>3, WriteChanges
      <3>2. CASE UNCHANGED <<task, since>>
        BY <3>1, <3>2, CalmDeadlines
      <3>3. ASSUME NEW t \in Tasks, NEW new,
                   task' = [task EXCEPT ![t] = new], since' = [since EXCEPT ![t] = now]
            PROVE  \A o \in Tasks : Untold(o)' => Waits(o)'
        BY <1>1, <3>1, <3>3, WrittenDeadlines
      <3>4. QED
        BY <1>1, <2>3, <3>2, <3>3, WriteChanges
    <2>4. QED
      BY <1>2, <2>1, <2>2, <2>3 DEF Step
  <1>3. CASE \E u \in Users : Deactivate(u)
    BY <1>3, CalmDeadlines DEF Deactivate
  <1>4. CASE \E t \in Tasks : DeleteClient(t)
    BY <1>1, <1>4, WrittenDeadlines DEF DeleteClient
  <1>5. CASE MarkRead \/ MarkAllRead
    BY <1>1, <1>5, ReadingChanges, CalmDeadlines
  <1>6. CASE UNCHANGED vars
    BY <1>6, CalmDeadlines DEF vars
  <1>7. QED
    BY <1>1, <1>2, <1>3, <1>4, <1>5, <1>6, ScanDeadlines, TickDeadlines DEF Next

\* Whatever requests, scans and outages overlap, the person who has an open task is
\* told of its deadline before the scan stops looking back at it, if she has had
\* the task, as it is, for longer than an outage.
THEOREM EveryDeadlineIsTold == Spec => []DeadlinesAreTold
  <1>1. DeadlinesInv => DeadlinesAreTold
    <2> SUFFICES ASSUME DeadlinesInv, NEW t \in Tasks, task[t] # Gone,
                        task[t].status = "OPEN", task[t].due # None, task[t].assignee \in active,
                        task[t].due + Lookback < now, since[t] + Outage < task[t].due + Lookback
                 PROVE  <<task[t].assignee, [task |-> t, due |-> task[t].due]>> \in told
      BY DEF DeadlinesAreTold
    <2>1. ASSUME Untold(t)
          PROVE  FALSE
      <3>1. TypeInv /\ Waits(t)
        BY <2>1 DEF DeadlinesInv
      <3>2. QED
        BY <2>1, <3>1, UntoldFields, NumbersAssumption DEF Waits, WellTold
    <2>2. QED
      BY <2>1 DEF Untold, KeyOf
  <1>2. QED
    BY <1>1, DeadlinesInit, DeadlinesStep, PTL DEF Spec
-----------------------------------------------------------------------------
(* Nobody is told twice *)

\* What ToldOnce says of a step.
OnlyNews ==
    \A n \in notices' :
        \/ \E o \in notices : o.user = n.user /\ o.key = n.key
        \/ <<n.user, n.key>> \notin told
        \/ n.key \in Repeats /\ Late

LEMMA Keys ==
    ASSUME NEW f \in Facts, NEW t \in Tasks, NEW due \in Dues
    PROVE  /\ [fact |-> f] # KeyOf(t, due)
           /\ \A o \in Tasks, d \in Dues : KeyOf(o, d) = KeyOf(t, due) => o = t /\ d = due
  <1>1. [fact |-> f] # [task |-> t, due |-> due]
    OBVIOUS
  <1>2. ASSUME NEW o \in Tasks, NEW d \in Dues, [task |-> o, due |-> d] = [task |-> t, due |-> due]
        PROVE  o = t /\ d = due
    <2>1. [task |-> o, due |-> d].task = o /\ [task |-> o, due |-> d].due = d
      OBVIOUS
    <2>2. [task |-> t, due |-> due].task = t /\ [task |-> t, due |-> due].due = due
      OBVIOUS
    <2>3. QED
      BY <1>2, <2>1, <2>2
  <1>3. QED
    BY <1>1, <1>2 DEF KeyOf

\* A step that changes nobody's notices, and lets no listener begin.
LEMMA CalmTold ==
    ASSUME ToldInv, TypeInv', SameNotices \/ UNCHANGED notices,
           scan' = scan \/ scan' = None, UNCHANGED <<made, now, told>>,
           \A r \in Requests : req'[r].pc = "tell" => req'[r] = req[r]
    PROVE  ToldInv' /\ OnlyNews
  <1>1. \A n \in notices' : \E o \in notices : o.user = n.user /\ o.key = n.key /\ o.createdAt = n.createdAt
    BY DEF SameNotices
  <1>2. \A o \in notices : \E n \in notices' : o.user = n.user /\ o.key = n.key
    BY DEF SameNotices
  <1>3. ScanLooks'
    BY DEF ToldInv, ScanLooks
  <1>4. ASSUME NEW n \in notices'
        PROVE  Outlasts(n)
    <2>1. PICK o \in notices : o.key = n.key /\ o.createdAt = n.createdAt
      BY <1>1
    <2>2. QED
      BY <2>1 DEF ToldInv, Outlasts
  <1>5. ToldAreNoticed'
    BY <1>2 DEF ToldInv, ToldAreNoticed, Noticed
  <1>6. TellersAreAlone'
    BY DEF ToldInv, TellersAreAlone
  <1>7. OnlyNews
    BY <1>1 DEF OnlyNews
  <1>8. NothingIsForetold'
    BY DEF ToldInv, NothingIsForetold
  <1>9. RepeatsAreNoticed'
    <2>1. Late' = Late
      BY DEF Late
    <2>2. ASSUME NEW u \in Users, NEW f \in Cancellations, <<u, [fact |-> f]>> \in told, ~Late
          PROVE  \E n \in notices' : n.user = u /\ n.key = [fact |-> f]
      <3>1. PICK n \in notices : n.user = u /\ n.key = [fact |-> f]
        BY <2>2 DEF ToldInv, RepeatsAreNoticed, Noticed
      <3>2. QED
        BY <1>2, <3>1
    <2>3. QED
      BY <2>1, <2>2 DEF RepeatsAreNoticed, Noticed
  <1>10. QED
    BY <1>3, <1>4, <1>5, <1>6, <1>7, <1>8, <1>9 DEF ToldInv

LEMMA Notifying ==
    ASSUME TypeInv, NEW who \in SUBSET Users, NEW key \in Key, NotifyUsers(who, key)
    PROVE  /\ notices \subseteq notices'
           /\ \A n \in notices' \ notices :
                 /\ n.user \in who /\ n.key = key /\ n.createdAt = now
                 /\ ~\E o \in notices : o.user = n.user /\ o.key = key
           /\ \A u \in who : \E n \in notices' : n.user = u /\ n.key = key
           /\ told' = told \cup (who \X {key})
  <1>1. PICK new : /\ new = {u \in who : ~\E n \in notices : n.user = u /\ n.key = key}
                   /\ notices' = notices \cup {[user |-> u, key |-> key, createdAt |-> now, read |-> FALSE] : u \in new}
    BY DEF NotifyUsers
  <1>2. ASSUME NEW n \in notices' \ notices
        PROVE  /\ n.user \in who /\ n.key = key /\ n.createdAt = now
               /\ ~\E o \in notices : o.user = n.user /\ o.key = key
    <2>1. PICK u \in new : n = [user |-> u, key |-> key, createdAt |-> now, read |-> FALSE]
      BY <1>1
    <2>2. QED
      BY <1>1, <2>1
  <1>3. ASSUME NEW u \in who
        PROVE  \E n \in notices' : n.user = u /\ n.key = key
    <2>1. CASE u \in new
      <3>1. [user |-> u, key |-> key, createdAt |-> now, read |-> FALSE] \in notices'
        BY <1>1, <2>1
      <3>2. QED
        BY <3>1
    <2>2. CASE u \notin new
      BY <1>1, <2>2
    <2>3. QED
      BY <2>1, <2>2
  <1>4. QED
    BY <1>1, <1>2, <1>3 DEF NotifyUsers

\* Facts are told apart by their keys.
LEMMA FactKeys ==
    ASSUME NEW f \in Facts
    PROVE  /\ [fact |-> f] \in Repeats <=> f \in Cancellations
           /\ \A g \in Facts : [fact |-> f] = [fact |-> g] => f = g
  <1>1. ASSUME NEW g, [fact |-> f] = [fact |-> g]
        PROVE  f = g
    <2>1. [fact |-> f].fact = f /\ [fact |-> g].fact = g
      OBVIOUS
    <2>2. QED
      BY <1>1, <2>1
  <1>2. QED
    BY <1>1 DEF Repeats

LEMMA EmitTold == ASSUME ToldInv, TypeInv', NEW r \in Requests, Emit(r) PROVE ToldInv' /\ OnlyNews
  <1>1. PICK f \in Facts, w \in Work :
            /\ w.pc = "tell" /\ w.key = [fact |-> f]
            /\ f \notin made /\ made' = made \cup ({f} \ Cancellations)
            /\ Goes(r, w)
    BY EmitChanges DEF ToldInv
  <1>2. /\ UNCHANGED <<active, task, notices, scan, now, scanned, missed, since, told>>
        /\ Late' = Late
    BY EmitChanges DEF ToldInv, Late
  <1>3. w.pc \notin {"assignee", "write"}
    BY <1>1
  <1>4. \A s \in Requests : req'[s] = IF s = r THEN w ELSE req[s]
    BY <1>1, <1>3, GoesType DEF ToldInv
  <1>5. TellersAreAlone'
    <2>1. CASE f \in Cancellations
      <3>1. w.key \in Repeats
        BY <1>1, <2>1, FactKeys
      <3>2. QED
        BY <1>2, <1>4, <3>1 DEF ToldInv, TellersAreAlone
    <2>2. CASE f \notin Cancellations
      <3>1. /\ \A u \in Users : <<u, w.key>> \notin told
            /\ \A s \in Requests : req[s].pc = "tell" => req[s].key # w.key
        BY <1>1, <2>2 DEF ToldInv, NothingIsForetold
      <3>2. QED
        BY <1>1, <1>2, <1>4, <3>1 DEF ToldInv, TellersAreAlone
    <2>3. QED
      BY <2>1, <2>2
  <1>6. ScanLooks' /\ ToldAreNoticed' /\ RepeatsAreNoticed' /\ (\A n \in notices : Outlasts(n))'
    BY <1>2 DEF ToldInv, ScanLooks, ToldAreNoticed, RepeatsAreNoticed, Noticed
  <1>7. NothingIsForetold'
    <2> SUFFICES ASSUME NEW g \in Facts, g \notin made', g \notin Cancellations
                 PROVE  /\ \A u \in Users : <<u, [fact |-> g]>> \notin told
                        /\ \A s \in Requests : req'[s].pc = "tell" => req'[s].key # [fact |-> g]
      BY <1>2 DEF NothingIsForetold
    <2>1. g # f /\ g \notin made
      BY <1>1
    <2>2. w.key # [fact |-> g]
      BY <1>1, <2>1, FactKeys
    <2>3. QED
      BY <1>4, <2>1, <2>2 DEF ToldInv, NothingIsForetold
  <1>8. QED
    BY <1>2, <1>5, <1>6, <1>7 DEF ToldInv, OnlyNews

LEMMA TellTold == ASSUME ToldInv, TypeInv', NEW r \in Requests, Tell(r) PROVE ToldInv' /\ OnlyNews
  <1>1. PICK f \in Facts, who \in SUBSET Users :
            /\ req[r].key = [fact |-> f] /\ req[r].pc = "tell" /\ [fact |-> f] \in Key
            /\ NotifyUsers(who, [fact |-> f])
    BY Telling DEF ToldInv
  <1>2. PICK key \in Key : key = [fact |-> f]
    BY <1>1
  <1>3. /\ notices \subseteq notices'
        /\ \A n \in notices' \ notices :
              /\ n.user \in who /\ n.key = key /\ n.createdAt = now
              /\ ~\E o \in notices : o.user = n.user /\ o.key = key
        /\ \A u \in who : \E n \in notices' : n.user = u /\ n.key = key
        /\ told' = told \cup (who \X {key})
    <2>1. NotifyUsers(who, key)
      BY <1>1, <1>2
    <2>2. QED
      BY <2>1, Notifying DEF ToldInv
  <1>4. UNCHANGED <<made, scan, now>> /\ Late' = Late
    BY DEF Tell, Late
  <1>5. \A s \in Requests : req'[s] = IF s = r THEN Idle ELSE req[s]
    BY GoesIdle DEF Tell, ToldInv
  <1>6. key \notin Repeats => \A u \in Users : <<u, key>> \notin told
    BY <1>1, <1>2 DEF ToldInv, TellersAreAlone
  <1>7. \A t \in Tasks, due \in Dues : key # KeyOf(t, due)
    BY <1>2, Keys
  <1>8. ScanLooks'
    BY <1>4 DEF ToldInv, ScanLooks
  <1>9. (\A n \in notices : Outlasts(n))'
    BY <1>3, <1>7 DEF ToldInv, Outlasts
  <1>10. ToldAreNoticed'
    <2> SUFFICES ASSUME NEW u \in Users, NEW t \in Tasks, NEW due \in Dues,
                        <<u, KeyOf(t, due)>> \in told', now - Lookback <= due
                 PROVE  \E n \in notices' : n.user = u /\ n.key = KeyOf(t, due)
      BY <1>4 DEF ToldAreNoticed, Noticed
    <2>1. <<u, KeyOf(t, due)>> \in told
      BY <1>3, <1>7
    <2>2. QED
      BY <1>3, <2>1 DEF ToldInv, ToldAreNoticed, Noticed
  <1>11. TellersAreAlone'
    <2>1. Idle.pc # "tell"
      BY DEF Idle
    <2> SUFFICES ASSUME NEW s \in Requests, s # r, req[s].pc = "tell", req[s].key \notin Repeats
                 PROVE  /\ \A u \in Users : <<u, req[s].key>> \notin told'
                        /\ \A o \in Requests : (o # r /\ req[o].pc = "tell" /\ req[o].key = req[s].key) => o = s
      BY <1>5, <2>1 DEF TellersAreAlone
    <2>2. req[s].key # key
      BY <1>1, <1>2 DEF ToldInv, TellersAreAlone
    <2>3. QED
      BY <1>3, <2>2 DEF ToldInv, TellersAreAlone
  <1>12. OnlyNews
    <2> SUFFICES ASSUME NEW n \in notices', n \notin notices, <<n.user, n.key>> \in told
                 PROVE  n.key \in Repeats /\ Late
      BY DEF OnlyNews
    <2>1. n.user \in Users /\ n.key = key /\ ~\E o \in notices : o.user = n.user /\ o.key = key
      BY <1>3
    <2>2. key \in Repeats /\ f \in Cancellations
      BY <1>2, <1>6, <2>1, FactKeys
    <2>3. <<n.user, [fact |-> f]>> \in told /\ ~Noticed(n.user, [fact |-> f])
      BY <1>2, <2>1 DEF Noticed
    <2>4. QED
      BY <2>1, <2>2, <2>3 DEF ToldInv, RepeatsAreNoticed
  <1>13. NothingIsForetold'
    <2>1. Idle.pc # "tell"
      BY DEF Idle
    <2> SUFFICES ASSUME NEW g \in Facts, g \notin made, g \notin Cancellations
                 PROVE  /\ \A u \in Users : <<u, [fact |-> g]>> \notin told'
                        /\ \A s \in Requests : req'[s].pc = "tell" => req'[s].key # [fact |-> g]
      BY <1>4 DEF NothingIsForetold
    <2>2. key # [fact |-> g]
      BY <1>1, <1>2 DEF ToldInv, NothingIsForetold
    <2>3. QED
      BY <1>3, <1>5, <2>1, <2>2 DEF ToldInv, NothingIsForetold
  <1>14. RepeatsAreNoticed'
    <2> SUFFICES ASSUME NEW u \in Users, NEW g \in Cancellations, <<u, [fact |-> g]>> \in told',
                        ~Late
                 PROVE  \E n \in notices' : n.user = u /\ n.key = [fact |-> g]
      BY <1>4 DEF RepeatsAreNoticed, Noticed
    <2>1. CASE <<u, [fact |-> g]>> \in told
      BY <1>3, <2>1 DEF ToldInv, RepeatsAreNoticed, Noticed
    <2>2. CASE u \in who /\ [fact |-> g] = key
      BY <1>3, <2>2
    <2>3. QED
      BY <1>3, <2>1, <2>2
  <1>15. QED
    BY <1>8, <1>9, <1>10, <1>11, <1>12, <1>13, <1>14 DEF ToldInv

LEMMA ScanTaskTold == ASSUME ToldInv, TypeInv', ScanTask PROVE ToldInv' /\ OnlyNews
  <1>1. PICK c \in [t: Tasks, row: Row] :
            /\ scan # None /\ c \in scan.todo
            /\ c.row.due \in Dues /\ c.row.assignee \in Users /\ KeyOf(c.t, c.row.due) \in Key
            /\ scan'.todo = scan.todo \ {c}
            /\ IF TaskDueNotice(c.row.due, Zone[c.row.assignee])
               THEN NotifyUsers({c.row.assignee}, KeyOf(c.t, c.row.due))
               ELSE UNCHANGED <<notices, told>>
    BY ScanTaskChanges DEF ToldInv
  <1>2. UNCHANGED <<made, req, now>> /\ Late' = Late
    BY DEF ScanTask, Late
  <1>3. ScanLooks'
    BY <1>1, <1>2 DEF ToldInv, ScanLooks
  <1>4. CASE UNCHANGED <<notices, told>>
    <2>1. /\ (\A n \in notices : Outlasts(n))' /\ ToldAreNoticed' /\ TellersAreAlone' /\ OnlyNews
          /\ NothingIsForetold' /\ RepeatsAreNoticed'
      BY <1>2, <1>4 DEF ToldInv, ToldAreNoticed, Noticed, TellersAreAlone, OnlyNews, NothingIsForetold,
                        RepeatsAreNoticed
    <2>2. QED
      BY <1>3, <2>1 DEF ToldInv
  <1>5. ASSUME TaskDueNotice(c.row.due, Zone[c.row.assignee]),
               NotifyUsers({c.row.assignee}, KeyOf(c.t, c.row.due))
        PROVE  ToldInv' /\ OnlyNews
    <2>1. PICK who \in SUBSET Users, key \in Key, a \in Users :
              who = {a} /\ a = c.row.assignee /\ key = KeyOf(c.t, c.row.due)
      BY <1>1
    <2>2. c.t \in Tasks
      BY <1>1
    <2>3. NotifyUsers(who, key)
      BY <1>5, <2>1
    <2>4. /\ notices \subseteq notices'
          /\ \A n \in notices' \ notices :
                /\ n.user \in who /\ n.key = key /\ n.createdAt = now
                /\ ~\E o \in notices : o.user = n.user /\ o.key = key
          /\ \A u \in who : \E n \in notices' : n.user = u /\ n.key = key
          /\ told' = told \cup (who \X {key})
      BY <2>3, Notifying DEF ToldInv
    <2>5. c.row.due + Lookback <= now + Retention
      BY <1>1, <1>5, NotTooEarly DEF ToldInv
    <2>6. (\A n \in notices : Outlasts(n))'
      <3> SUFFICES ASSUME NEW n \in notices', n \notin notices, NEW t \in Tasks, NEW due \in Dues,
                          n.key = KeyOf(t, due)
                   PROVE  due + Lookback <= n.createdAt + Retention
        BY DEF ToldInv, Outlasts
      <3>1. n.key = KeyOf(c.t, c.row.due) /\ n.createdAt = now
        BY <2>1, <2>4
      <3>2. [task |-> t, due |-> due] = [task |-> c.t, due |-> c.row.due]
        BY <3>1 DEF KeyOf
      <3>3. [task |-> t, due |-> due].due = due /\ [task |-> c.t, due |-> c.row.due].due = c.row.due
        OBVIOUS
      <3>4. due = c.row.due
        BY <3>2, <3>3
      <3>5. QED
        BY <2>5, <3>1, <3>4
    <2>7. ToldAreNoticed'
      <3> SUFFICES ASSUME NEW u \in Users, NEW t \in Tasks, NEW due \in Dues,
                          <<u, KeyOf(t, due)>> \in told', now - Lookback <= due
                   PROVE  \E n \in notices' : n.user = u /\ n.key = KeyOf(t, due)
        BY <1>2 DEF ToldAreNoticed, Noticed
      <3>1. CASE <<u, KeyOf(t, due)>> \in told
        BY <2>4, <3>1 DEF ToldInv, ToldAreNoticed, Noticed
      <3>2. CASE u \in who /\ KeyOf(t, due) = key
        BY <2>4, <3>2
      <3>3. QED
        BY <2>4, <3>1, <3>2
    <2>8. TellersAreAlone'
      <3>1. \A s \in Requests : req[s].pc = "tell" => req[s].key # key
        <4> SUFFICES ASSUME NEW s \in Requests, req[s].pc = "tell"
                     PROVE  req[s].key # key
          OBVIOUS
        <4>1. req[s].key \in [fact: Facts]
          BY WorkByPc DEF ToldInv, TypeInv, TypeOK
        <4>2. PICK f \in Facts : req[s].key = [fact |-> f]
          BY <4>1
        <4>3. QED
          BY <1>1, <2>1, <2>2, <4>2, Keys
      <3>2. QED
        BY <1>2, <2>4, <3>1 DEF ToldInv, TellersAreAlone
    <2>9. OnlyNews
      <3> SUFFICES ASSUME NEW n \in notices', n \notin notices, <<n.user, n.key>> \in told
                   PROVE  FALSE
        BY DEF OnlyNews
      <3>1. n.user = a /\ n.key = key /\ ~\E o \in notices : o.user = a /\ o.key = key
        BY <2>1, <2>4
      <3>2. now - Lookback <= c.row.due
        BY <1>1 DEF ToldInv, ScanLooks
      <3>3. Noticed(a, key)
        BY <1>1, <2>1, <2>2, <3>1, <3>2 DEF ToldInv, ToldAreNoticed
      <3>4. QED
        BY <3>1, <3>3 DEF Noticed
    <2>10. \A f \in Facts : [fact |-> f] # key
      BY <2>1, <2>2, <1>1, Keys
    <2>11. NothingIsForetold'
      <3> SUFFICES ASSUME NEW g \in Facts, g \notin made, g \notin Cancellations
                   PROVE  /\ \A u \in Users : <<u, [fact |-> g]>> \notin told'
                          /\ \A s \in Requests : req[s].pc = "tell" => req[s].key # [fact |-> g]
        BY <1>2 DEF NothingIsForetold
      <3>1. QED
        BY <2>4, <2>10 DEF ToldInv, NothingIsForetold
    <2>12. RepeatsAreNoticed'
      <3> SUFFICES ASSUME NEW u \in Users, NEW g \in Cancellations, <<u, [fact |-> g]>> \in told',
                          ~Late
                   PROVE  \E n \in notices' : n.user = u /\ n.key = [fact |-> g]
        BY <1>2 DEF RepeatsAreNoticed, Noticed
      <3>1. <<u, [fact |-> g]>> \in told
        BY <2>4, <2>10, SetsAssumption
      <3>2. QED
        BY <2>4, <3>1 DEF ToldInv, RepeatsAreNoticed, Noticed
    <2>13. QED
      BY <1>3, <2>6, <2>7, <2>8, <2>9, <2>11, <2>12 DEF ToldInv
  <1>6. QED
    BY <1>1, <1>4, <1>5

LEMMA PurgeTold == ASSUME ToldInv, TypeInv', PurgeOld PROVE ToldInv' /\ OnlyNews
  <1>1. scan # None /\ scan'.todo = scan.todo
    BY PurgeChanges DEF ToldInv
  <1>2. notices' = {n \in notices : ~Old(n)} /\ UNCHANGED <<made, req, now, told>>
        /\ Late' = Late
    BY DEF PurgeOld, Late
  <1>3. /\ ScanLooks' /\ TellersAreAlone' /\ (\A n \in notices : Outlasts(n))' /\ OnlyNews
        /\ NothingIsForetold'
    BY <1>1, <1>2 DEF ToldInv, ScanLooks, TellersAreAlone, OnlyNews, NothingIsForetold
  <1>4. ToldAreNoticed'
    <2> SUFFICES ASSUME NEW u \in Users, NEW t \in Tasks, NEW due \in Dues,
                        <<u, KeyOf(t, due)>> \in told, now - Lookback <= due
                 PROVE  \E n \in notices' : n.user = u /\ n.key = KeyOf(t, due)
      BY <1>2 DEF ToldAreNoticed, Noticed
    <2>1. PICK n \in notices : n.user = u /\ n.key = KeyOf(t, due)
      BY DEF ToldInv, ToldAreNoticed, Noticed
    <2>2. due + Lookback <= n.createdAt + Retention
      BY <2>1 DEF ToldInv, Outlasts
    <2>3. n.createdAt \in Nat /\ now \in Nat /\ due \in Nat
      BY SetsAssumption, NumbersAssumption DEF ToldInv, TypeInv, TypeOK, Notice, Times
    <2>4. ~Old(n)
      BY <2>2, <2>3, NumbersAssumption DEF Old
    <2>5. QED
      BY <1>2, <2>1, <2>4
  <1>5. RepeatsAreNoticed'
    <2> SUFFICES ASSUME NEW u \in Users, NEW f \in Cancellations, <<u, [fact |-> f]>> \in told,
                        ~Late
                 PROVE  \E n \in notices' : n.user = u /\ n.key = [fact |-> f]
      BY <1>2 DEF RepeatsAreNoticed, Noticed
    <2>1. PICK n \in notices : n.user = u /\ n.key = [fact |-> f]
      BY DEF ToldInv, RepeatsAreNoticed, Noticed
    <2>2. n.createdAt \in Nat /\ now \in Nat
      BY NumbersAssumption DEF ToldInv, TypeInv, TypeOK, Notice, Times
    <2>3. ~Old(n)
      BY <2>2, NumbersAssumption DEF Old, Late
    <2>4. QED
      BY <1>2, <2>1, <2>3
  <1>6. QED
    BY <1>3, <1>4, <1>5 DEF ToldInv

LEMMA TickTold == ASSUME ToldInv, TypeInv', Tick PROVE ToldInv' /\ OnlyNews
  <1>1. /\ now' = now + 1 /\ now \in Nat /\ Lookback \in Nat /\ scan' = None
        /\ UNCHANGED <<made, notices, told, req>> /\ Retention \in Nat
    BY NumbersAssumption DEF Tick, ToldInv, TypeInv, TypeOK, Times
  <1>2. ToldAreNoticed'
    <2> SUFFICES ASSUME NEW u \in Users, NEW t \in Tasks, NEW due \in Dues,
                        <<u, KeyOf(t, due)>> \in told, now + 1 - Lookback <= due
                 PROVE  Noticed(u, KeyOf(t, due))
      BY <1>1 DEF ToldAreNoticed, Noticed
    <2>1. now - Lookback <= due
      BY <1>1, SetsAssumption, NumbersAssumption DEF Times
    <2>2. QED
      BY <2>1 DEF ToldInv, ToldAreNoticed
  <1>3. RepeatsAreNoticed'
    <2> SUFFICES ASSUME NEW u \in Users, NEW f \in Cancellations, <<u, [fact |-> f]>> \in told,
                        ~Late'
                 PROVE  Noticed(u, [fact |-> f])
      BY <1>1 DEF RepeatsAreNoticed, Noticed
    <2>1. ~Late
      BY <1>1 DEF Late
    <2>2. QED
      BY <2>1 DEF ToldInv, RepeatsAreNoticed
  <1>4. QED
    BY <1>1, <1>2, <1>3 DEF ToldInv, ScanLooks, TellersAreAlone, NothingIsForetold, OnlyNews

LEMMA ToldInit == Init => ToldInv
  <1> SUFFICES ASSUME Init PROVE ToldInv
    OBVIOUS
  <1>1. TypeInv
    BY TypeInit
  <1>2. \A r \in Requests : req[r].pc = "idle"
    BY DEF Init, Idle
  <1>3. QED
    BY <1>1, <1>2 DEF Init, ToldInv, ScanLooks, ToldAreNoticed, TellersAreAlone, NothingIsForetold,
                      RepeatsAreNoticed

LEMMA ToldStep == ASSUME ToldInv, [Next]_vars PROVE ToldInv' /\ OnlyNews
  <1>1. TypeInv /\ TypeInv'
    BY TypeStep DEF ToldInv
  <1>2. ASSUME NEW r \in Requests, Step(r)
        PROVE  ToldInv' /\ OnlyNews
    <2>1. CASE Create(r)
      <3>1. PICK w : Goes(r, w) /\ w.pc # "tell"
        BY <2>1 DEF Create
      <3>2. \A s \in Requests : req'[s].pc = "tell" => req'[s] = req[s]
        BY <1>1, <3>1 DEF Goes, TypeInv, TypeOK
      <3>3. QED
        BY <1>1, <2>1, <3>2, CalmTold DEF Create
    <2>2. CASE Access(r)
      <3>1. PICK w : Goes(r, w) /\ w.pc # "tell"
        BY <2>2 DEF Access
      <3>2. \A s \in Requests : req'[s].pc = "tell" => req'[s] = req[s]
        BY <1>1, <3>1 DEF Goes, TypeInv, TypeOK
      <3>3. QED
        BY <1>1, <2>2, <3>2, CalmTold DEF Access
    <2>3. CASE AssertAssignee(r)
      <3>1. req[r] \in Work \cup {Idle} /\ req[r].pc = "assignee"
        BY <1>1, <2>3 DEF AssertAssignee, TypeInv, TypeOK
      <3>2. req[r] \in Work
        BY <3>1, WorkByPc
      <3>3. [req[r] EXCEPT !.pc = "write"].pc = "write"
        BY <3>1, <3>2 DEF Work
      <3>4. Idle.pc = "idle"
        BY DEF Idle
      <3>5. PICK w : Goes(r, w) /\ w.pc # "tell"
        BY <2>3, <3>3, <3>4 DEF AssertAssignee
      <3>6. \A s \in Requests : req'[s].pc = "tell" => req'[s] = req[s]
        BY <1>1, <3>5 DEF Goes, TypeInv, TypeOK
      <3>7. QED
        BY <1>1, <2>3, <3>6, CalmTold DEF AssertAssignee
    <2>4. CASE Write(r) \/ RequestFails(r)
      <3>1. Goes(r, Idle) /\ UNCHANGED <<made, notices, scan, now, told>>
        BY <1>1, <2>4, WriteChanges DEF RequestFails
      <3>2. \A s \in Requests : req'[s].pc = "tell" => req'[s] = req[s]
        BY <1>1, <3>1, GoesIdle DEF Idle
      <3>3. QED
        BY <1>1, <3>1, <3>2, CalmTold
    <2>5. QED
      BY <1>1, <1>2, <2>1, <2>2, <2>3, <2>4, EmitTold, TellTold DEF Step
  <1>3. CASE (\E u \in Users : Deactivate(u)) \/ (\E t \in Tasks : DeleteClient(t))
    BY <1>1, <1>3, CalmTold DEF Deactivate, DeleteClient
  <1>4. CASE MarkRead \/ MarkAllRead
    BY <1>1, <1>4, ReadingChanges, CalmTold
  <1>5. CASE StartScan
    <2>1. ScanLooks'
      BY <1>1, <1>5, StartScanChanges DEF StartScan, ScanLooks
    <2>2. UNCHANGED <<made, notices, req, now, told>> /\ Late' = Late
      BY <1>5 DEF StartScan, Late
    <2>3. QED
      BY <1>1, <2>1, <2>2 DEF ToldInv, ToldAreNoticed, Noticed, TellersAreAlone, OnlyNews,
                              NothingIsForetold, RepeatsAreNoticed
  <1>6. CASE EndScan \/ ScanFails
    BY <1>1, <1>6, CalmTold DEF EndScan, ScanFails
  <1>7. CASE UNCHANGED vars
    BY <1>1, <1>7, CalmTold DEF vars
  <1>8. QED
    BY <1>1, <1>2, <1>3, <1>4, <1>5, <1>6, <1>7, ScanTaskTold, PurgeTold, TickTold DEF Next, Scan

\* Nobody is ever told twice of one deadline, one lead or one booking, whatever
\* scans, purges, requests and listeners overlap; nor of one cancellation while
\* its notice is kept.
THEOREM NobodyIsToldTwice == Spec => ToldOnce
  <1>1. ToldInv /\ [Next]_vars => ToldInv'
    BY ToldStep
  <1>2. ToldInv /\ [Next]_vars => OnlyNews
    BY ToldStep
  <1>3. ToldInv /\ [Next]_vars =>
            [\A n \in notices' :
                \/ \E o \in notices : o.user = n.user /\ o.key = n.key
                \/ <<n.user, n.key>> \notin told
                \/ n.key \in [fact: Cancellations] /\ now > Retention]_vars
    BY <1>2 DEF OnlyNews, Repeats, Late
  <1>4. QED
    BY <1>1, <1>3, ToldInit, PTL DEF Spec, ToldOnce

-----------------------------------------------------------------------------
(* Screens: a part begins, and goes on, as it does by itself *)

\* The chosen part begins, and takes the steps.
LEMMA ScreensBegin ==
    ASSUME ScreensInit
    PROVE  /\ part = "people" => PeoplePart!Init
           /\ part = "list" => PagedListPart!Init
           /\ part = "view" => ViewsPart!Init
           /\ part = "messages" => MessagesPart!Init
           /\ part = "booking" => BookingPart!Init
           /\ part = "form" => FormsPart!Init
           /\ part = "report" => ReportsPart!Init
           /\ part = "funnel" => FunnelPart!Init
BY DEF ScreensInit

LEMMA ScreensStep ==
    ASSUME [ScreensNext]_registers
    PROVE  /\ part' = part
           /\ part = "people" => PeoplePart!Next \/ UNCHANGED PeoplePart!vars
           /\ part = "list" => PagedListPart!Next \/ UNCHANGED PagedListPart!vars
           /\ part = "view" => ViewsPart!Next \/ UNCHANGED ViewsPart!vars
           /\ part = "messages" => MessagesPart!Next \/ UNCHANGED MessagesPart!vars
           /\ part = "booking" => BookingPart!Next \/ UNCHANGED BookingPart!vars
           /\ part = "form" => FormsPart!Next \/ UNCHANGED FormsPart!vars
           /\ part = "report" => ReportsPart!Next \/ UNCHANGED ReportsPart!vars
           /\ part = "funnel" => FunnelPart!Next \/ UNCHANGED FunnelPart!vars
BY DEF ScreensNext, registers, PeoplePart!vars, PagedListPart!vars, ViewsPart!vars, MessagesPart!vars,
       BookingPart!vars, FormsPart!vars, ReportsPart!vars, FunnelPart!vars

-----------------------------------------------------------------------------
(* People *)

Rooting == PeoplePart!TypeOK /\ PeoplePart!Rooted

Handlers == [pc: {"no", "find", "create", "error", "ok"}] \cup [pc: {"update"}, row: Rows]

LEMMA PeopleTypes ==
    ASSUME Rooting
    PROVE  /\ x1 \in [Rows -> PeoplePart!Row \cup {Null}]
           /\ x2 \in [Answers -> Handlers]
           /\ x3 \in [kind: PeoplePart!Kinds \cup {Null}, url: Rows \cup {Null}, shown: PeoplePart!Profile \cup {Null}]
           /\ x4 \subseteq PeoplePart!Profile /\ x6 \subseteq Answers /\ x7 \subseteq Answers /\ x5 \in 0..PageOpens
           /\ \A r \in PeoplePart!There : r \in Rows /\ x1[r] \in PeoplePart!Row
           /\ \A r \in Rows \ PeoplePart!There : x1[r] = Null
           /\ PeoplePart!Profiles \subseteq PeoplePart!Profile
           /\ \A a \in Answers : PeoplePart!KindOf(a) \in PeoplePart!Kinds
           /\ Null \notin Answers /\ Null \notin PeoplePart!Row /\ Null \notin Rows
<1>1. PeoplePart!TypeOK
  BY DEF Rooting
<1>2. Null \notin Answers /\ Null \notin PeoplePart!Row /\ Null \notin Rows
  BY NullAssumption
<1>3. \A a \in Answers : PeoplePart!KindOf(a) \in PeoplePart!Kinds
  BY DEF PeoplePart!KindOf, PeoplePart!Kinds
<1>4. /\ x1 \in [Rows -> PeoplePart!Row \cup {Null}]
      /\ x2 \in [Answers -> Handlers]
      /\ x3 \in [kind: PeoplePart!Kinds \cup {Null}, url: Rows \cup {Null}, shown: PeoplePart!Profile \cup {Null}]
      /\ x4 \subseteq PeoplePart!Profile /\ x6 \subseteq Answers /\ x7 \subseteq Answers /\ x5 \in 0..PageOpens
  BY <1>1 DEF PeoplePart!TypeOK, Handlers
<1>5. PeoplePart!Profiles \subseteq PeoplePart!Profile
  BY <1>4 DEF PeoplePart!Profiles
<1> QED
  BY <1>2, <1>3, <1>4, <1>5 DEF PeoplePart!There

LEMMA RootingBegins ==
    ASSUME PeoplePart!Init
    PROVE  Rooting
<1>1. /\ x1 = [r \in Rows |-> Null] /\ x2 = [a \in Answers |-> [pc |-> "no"]]
      /\ x3 = [kind |-> Null, url |-> Null, shown |-> Null] /\ x4 = {} /\ x5 = 0 /\ x6 = {} /\ x7 = {}
  BY DEF PeoplePart!Init
<1>2. PeoplePart!TypeOK
  BY <1>1, ScreensAssumption DEF PeoplePart!TypeOK
<1>3. PeoplePart!Profiles = {}
  BY <1>1 DEF PeoplePart!Profiles
<1>4. \A a \in Answers : x2[a].pc = "no"
  BY <1>1
<1>5. PeoplePart!Rooted
  BY <1>1, <1>3, <1>4 DEF PeoplePart!Rooted
<1> QED
  BY <1>2, <1>5 DEF Rooting

\* A record that has the answer keeps it.
Stays(a) == \A r \in PeoplePart!There :
    x1[r].fields[PeoplePart!KindOf(a)] = a =>
        r \in PeoplePart!There' /\ x1'[r].fields[PeoplePart!KindOf(a)] = a

\* What was kept stays rooted while the page stays as it is, if the records that have
\* it keep it.
LEMMA StaysRooted ==
    ASSUME Rooting, UNCHANGED <<x3, x4>>, NEW a \in x6, a \notin x7, Stays(a)
    PROVE  \E r \in Rows : PeoplePart!Root(a, r)'
<1>1. PICK r \in Rows : PeoplePart!Root(a, r)
  BY DEF Rooting, PeoplePart!Rooted
<1>2. r \in PeoplePart!There' /\ x1'[r].fields[PeoplePart!KindOf(a)] = a
  BY <1>1 DEF PeoplePart!Root, Stays
<1>3. PeoplePart!Profiles' = PeoplePart!Profiles
  BY DEF PeoplePart!Profiles
<1>4. PeoplePart!Root(a, r)'
  BY <1>1, <1>2, <1>3 DEF PeoplePart!Root
<1> QED
  BY <1>4

\* An answer that is handled now, was not kept before: the page has not seen it.
LEMMA ComesNew ==
    ASSUME Rooting, UNCHANGED <<x3, x4>>, NEW a \in Answers, x2[a].pc # "ok",
           NEW r \in Rows, r \in PeoplePart!There', x1'[r].fields[PeoplePart!KindOf(a)] = a
    PROVE  PeoplePart!Root(a, r)'
<1>1. a \notin x6
  BY DEF Rooting, PeoplePart!Rooted
<1>2. \A p \in PeoplePart!Profiles : a \notin p.seen
  BY <1>1 DEF Rooting, PeoplePart!Rooted
<1>3. PeoplePart!Profiles' = PeoplePart!Profiles
  BY DEF PeoplePart!Profiles
<1> QED
  BY <1>2, <1>3 DEF PeoplePart!Root

\* What all steps of the server have in common.
LEMMA ServerRoots ==
    ASSUME Rooting, UNCHANGED <<x3, x4, x5>>, x1' \in [Rows -> PeoplePart!Row \cup {Null}],
           x2' \in [Answers -> Handlers], x7 \subseteq x7', x7' \subseteq Answers,
           x6' = {a \in Answers : x2'[a].pc = "ok"},
           \A a \in Answers : x2'[a].pc \in {"find", "create", "update"} => ~IsIntakeAnswer(a),
           \A a \in x6 : x2'[a].pc = "ok",
           \A a \in x6 \ x7' : Stays(a),
           \A a \in x6' \ x6 : \E r \in Rows : r \in PeoplePart!There' /\ x1'[r].fields[PeoplePart!KindOf(a)] = a
    PROVE  Rooting'
<1>1. PeoplePart!TypeOK'
  <2>1. x6' \subseteq Answers
    OBVIOUS
  <2> QED
    BY <2>1, PeopleTypes DEF PeoplePart!TypeOK, Handlers
<1>2. x6 \subseteq x6'
  BY PeopleTypes
<1>3. PeoplePart!Profiles' = PeoplePart!Profiles
  BY DEF PeoplePart!Profiles
<1>4. \A p \in PeoplePart!Profiles' : x3'.kind \in PeoplePart!Kinds /\ p.seen \subseteq {a \in x6' : PeoplePart!KindOf(a) = x3'.kind}
  BY <1>2, <1>3 DEF Rooting, PeoplePart!Rooted
<1>5. ASSUME NEW a \in x6' \ x7'
      PROVE  \E r \in Rows : PeoplePart!Root(a, r)'
  <2>1. CASE a \in x6
    BY <1>5, <2>1, StaysRooted
  <2>2. CASE a \notin x6
    <3>1. x2[a].pc # "ok" /\ a \in Answers
      BY <1>5, <2>2 DEF Rooting, PeoplePart!Rooted
    <3> QED
      BY <1>5, <2>2, <3>1, ComesNew
  <2> QED
    BY <2>1, <2>2
<1>6. PeoplePart!Rooted'
  BY <1>4, <1>5 DEF PeoplePart!Rooted
<1> QED
  BY <1>1, <1>6 DEF Rooting

\* The steps of the server that do not handle answers.
LEMMA RecordsRoot ==
    ASSUME Rooting, UNCHANGED <<x2, x3, x4, x5, x6>>, x1' \in [Rows -> PeoplePart!Row \cup {Null}],
           x7 \subseteq x7', x7' \subseteq Answers, \A a \in x6 \ x7' : Stays(a)
    PROVE  Rooting'
<1>1. /\ x6 = {a \in Answers : x2[a].pc = "ok"}
      /\ \A a \in Answers : x2[a].pc \in {"find", "create", "update"} => ~IsIntakeAnswer(a)
  BY DEF Rooting, PeoplePart!Rooted
<1> QED
  BY <1>1, PeopleTypes, ServerRoots

\* A group of fields is written: what was in it is replaced, or the same.
LEMMA WrittenOver ==
    ASSUME Rooting, NEW r \in PeoplePart!There, NEW k \in PeoplePart!Kinds, NEW answer \in Answers \cup {Null},
           x1' = [x1 EXCEPT ![r].fields[k] = answer]
    PROVE  /\ x1' \in [Rows -> PeoplePart!Row \cup {Null}] /\ r \in PeoplePart!There' /\ x1'[r].fields[k] = answer
           /\ \A a \in Answers : (x1[r].fields[k] = a => a = answer \/ PeoplePart!KindOf(a) # k) => Stays(a)
<1>1. r \in Rows /\ x1[r] \in PeoplePart!Row /\ x1 \in [Rows -> PeoplePart!Row \cup {Null}]
  BY PeopleTypes
<1>2. x1[r].fields \in [PeoplePart!Kinds -> Answers \cup {Null}]
  BY <1>1 DEF PeoplePart!Row
<1>3. PICK new : new = [x1[r] EXCEPT !.fields[k] = answer]
  OBVIOUS
<1>4. new \in PeoplePart!Row /\ new.fields = [x1[r].fields EXCEPT ![k] = answer]
  BY <1>1, <1>2, <1>3 DEF PeoplePart!Row
<1>5. x1' = [x1 EXCEPT ![r] = new]
  BY <1>3
<1>6. x1' \in [Rows -> PeoplePart!Row \cup {Null}] /\ x1'[r] = new /\ \A q \in Rows : q # r => x1'[q] = x1[q]
  BY <1>1, <1>4, <1>5
<1>7. new # Null
  BY <1>4, PeopleTypes
<1>8. \A q \in PeoplePart!There : q \in PeoplePart!There'
  BY <1>1, <1>6, <1>7 DEF PeoplePart!There
<1>9. x1'[r].fields[k] = answer
  BY <1>2, <1>4, <1>6
<1>10. ASSUME NEW a \in Answers, x1[r].fields[k] = a => a = answer \/ PeoplePart!KindOf(a) # k,
              NEW q \in PeoplePart!There, x1[q].fields[PeoplePart!KindOf(a)] = a
       PROVE  x1'[q].fields[PeoplePart!KindOf(a)] = a
  <2>1. CASE q # r
    BY <1>6, <1>10, <2>1, PeopleTypes
  <2>2. CASE q = r /\ PeoplePart!KindOf(a) # k
    BY <1>2, <1>4, <1>6, <1>10, <2>2, PeopleTypes
  <2>3. CASE q = r /\ PeoplePart!KindOf(a) = k
    BY <1>9, <1>10, <2>3
  <2> QED
    BY <2>1, <2>2, <2>3
<1> QED
  BY <1>6, <1>8, <1>9, <1>10 DEF Stays

\* A record is left as it is but for its number and stage.
LEMMA FieldsStay ==
    ASSUME Rooting, NEW r \in PeoplePart!There, NEW row \in PeoplePart!Row, row.fields = x1[r].fields,
           x1' = [x1 EXCEPT ![r] = row]
    PROVE  x1' \in [Rows -> PeoplePart!Row \cup {Null}] /\ \A a : Stays(a)
<1>1. r \in Rows /\ x1 \in [Rows -> PeoplePart!Row \cup {Null}] /\ row # Null
  BY PeopleTypes
<1>2. /\ x1' \in [Rows -> PeoplePart!Row \cup {Null}] /\ x1'[r] = row
      /\ \A q \in Rows : q # r => x1'[q] = x1[q]
  BY <1>1
<1>3. \A q \in PeoplePart!There : q \in PeoplePart!There' /\ x1'[q].fields = x1[q].fields
  BY <1>1, <1>2 DEF PeoplePart!There
<1> QED
  BY <1>2, <1>3 DEF Stays

\* A new record.
LEMMA RecordComes ==
    ASSUME Rooting, NEW r \in Rows \ PeoplePart!There, NEW row \in PeoplePart!Row, x1' = [x1 EXCEPT ![r] = row]
    PROVE  /\ x1' \in [Rows -> PeoplePart!Row \cup {Null}] /\ \A a : Stays(a)
           /\ r \in PeoplePart!There' /\ x1'[r] = row
<1>1. x1 \in [Rows -> PeoplePart!Row \cup {Null}] /\ row # Null
  BY PeopleTypes
<1>2. /\ x1' \in [Rows -> PeoplePart!Row \cup {Null}] /\ x1'[r] = row
      /\ \A q \in Rows : q # r => x1'[q] = x1[q]
  BY <1>1
<1>3. \A q \in PeoplePart!There : q \in PeoplePart!There' /\ x1'[q].fields = x1[q].fields
  BY <1>1, <1>2 DEF PeoplePart!There
<1>4. r \in PeoplePart!There'
  BY <1>1, <1>2 DEF PeoplePart!There
<1> QED
  BY <1>2, <1>3, <1>4 DEF Stays

LEMMA RecordsStep ==
    ASSUME Rooting,
           PeoplePart!NewRecord \/ PeoplePart!AdvanceLead \/ PeoplePart!Anonymize \/ PeoplePart!Remove
    PROVE  Rooting'
<1>1. CASE PeoplePart!NewRecord
  <2>1. PICK r \in Rows \ PeoplePart!There, n \in Numbers :
           /\ x1' = [x1 EXCEPT ![r] = [number |-> n, stage |-> "LEAD", fields |-> PeoplePart!Empty]]
           /\ UNCHANGED <<x2, x3, x4, x5, x6, x7>>
    BY <1>1 DEF PeoplePart!NewRecord
  <2>2. [number |-> n, stage |-> "LEAD", fields |-> PeoplePart!Empty] \in PeoplePart!Row
    BY DEF PeoplePart!Row, PeoplePart!Empty
  <2>3. x1' \in [Rows -> PeoplePart!Row \cup {Null}] /\ \A a : Stays(a)
    BY <2>1, <2>2, RecordComes
  <2> QED
    BY <2>1, <2>3, PeopleTypes, RecordsRoot
<1>2. CASE PeoplePart!AdvanceLead
  <2>1. PICK r \in PeoplePart!There :
           /\ x1' = [x1 EXCEPT ![r].stage = "FURTHER"] /\ UNCHANGED <<x2, x3, x4, x5, x6, x7>>
    BY <1>2 DEF PeoplePart!AdvanceLead
  <2>2. PICK row : row = [x1[r] EXCEPT !.stage = "FURTHER"]
    OBVIOUS
  <2>3. row \in PeoplePart!Row /\ row.fields = x1[r].fields
    BY <2>2, PeopleTypes DEF PeoplePart!Row
  <2>4. x1' = [x1 EXCEPT ![r] = row]
    BY <2>1, <2>2
  <2>5. x1' \in [Rows -> PeoplePart!Row \cup {Null}] /\ \A a : Stays(a)
    BY <2>3, <2>4, FieldsStay
  <2> QED
    BY <2>1, <2>5, PeopleTypes, RecordsRoot
<1>3. CASE PeoplePart!Anonymize
  <2>1. PICK r \in PeoplePart!There :
           /\ x1' = [x1 EXCEPT ![r].number = Null, ![r].fields["client"] = Null]
           /\ x7' = x7 \cup ({x1[r].fields["client"]} \ {Null}) /\ UNCHANGED <<x2, x3, x4, x5, x6>>
    BY <1>3 DEF PeoplePart!Anonymize
  <2>2. x1[r] \in PeoplePart!Row /\ r \in Rows
    BY PeopleTypes
  <2>3. x1[r].fields \in [PeoplePart!Kinds -> Answers \cup {Null}] /\ "client" \in PeoplePart!Kinds
    BY <2>2 DEF PeoplePart!Row, PeoplePart!Kinds
  <2>4. PICK row : row = [[x1[r] EXCEPT !.number = Null] EXCEPT !.fields["client"] = Null]
    OBVIOUS
  <2>5. row \in PeoplePart!Row /\ row.fields = [x1[r].fields EXCEPT !["client"] = Null]
    BY <2>2, <2>3, <2>4 DEF PeoplePart!Row
  <2>6. x1' = [x1 EXCEPT ![r] = row]
    <3>1. PICK f : f = [x1 EXCEPT ![r].number = Null]
      OBVIOUS
    <3>2. x1' = [f EXCEPT ![r].fields["client"] = Null] /\ f[r] = [x1[r] EXCEPT !.number = Null]
      BY <2>1, <2>2, <3>1, PeopleTypes
    <3>3. x1' = [f EXCEPT ![r] = row]
      BY <2>4, <3>2
    <3> QED
      BY <2>2, <3>1, <3>3, PeopleTypes
  <2>7. /\ x1' \in [Rows -> PeoplePart!Row \cup {Null}] /\ x1'[r] = row /\ row # Null
        /\ \A q \in Rows : q # r => x1'[q] = x1[q]
    BY <2>2, <2>5, <2>6, PeopleTypes
  <2>8. ASSUME NEW a \in x6 \ x7'
        PROVE  Stays(a)
    <3>1. a \in Answers /\ a # Null /\ PeoplePart!KindOf(a) \in PeoplePart!Kinds
      BY PeopleTypes
    <3>2. x1[r].fields["client"] # a
      BY <2>1, <2>8, <3>1
    <3>3. ASSUME NEW q \in PeoplePart!There, x1[q].fields[PeoplePart!KindOf(a)] = a
          PROVE  q \in PeoplePart!There' /\ x1'[q].fields[PeoplePart!KindOf(a)] = a
      <4>1. CASE q # r
        BY <2>7, <3>3, <4>1, PeopleTypes DEF PeoplePart!There
      <4>2. CASE q = r
        <5>1. PeoplePart!KindOf(a) # "client"
          BY <3>2, <3>3, <4>2
        <5>2. row.fields[PeoplePart!KindOf(a)] = a
          BY <2>3, <2>5, <3>1, <3>3, <4>2, <5>1
        <5> QED
          BY <2>2, <2>7, <4>2, <5>2 DEF PeoplePart!There
      <4> QED
        BY <4>1, <4>2
    <3> QED
      BY <3>3 DEF Stays
  <2>9. x7 \subseteq x7' /\ x7' \subseteq Answers
    BY <2>1, <2>3, PeopleTypes
  <2> QED
    BY <2>1, <2>7, <2>8, <2>9, RecordsRoot
<1>4. CASE PeoplePart!Remove
  <2>1. PICK r \in PeoplePart!There :
           /\ x1' = [x1 EXCEPT ![r] = Null]
           /\ x7' = x7 \cup ({x1[r].fields[k] : k \in PeoplePart!Kinds} \ {Null}) /\ UNCHANGED <<x2, x3, x4, x5, x6>>
    BY <1>4 DEF PeoplePart!Remove
  <2>2. x1[r] \in PeoplePart!Row /\ r \in Rows
    BY PeopleTypes
  <2>3. x1[r].fields \in [PeoplePart!Kinds -> Answers \cup {Null}]
    BY <2>2 DEF PeoplePart!Row
  <2>4. x1' \in [Rows -> PeoplePart!Row \cup {Null}] /\ \A q \in Rows : q # r => x1'[q] = x1[q]
    BY <2>1, <2>2, PeopleTypes
  <2>5. ASSUME NEW a \in x6 \ x7'
        PROVE  Stays(a)
    <3>1. a \in Answers /\ a # Null /\ PeoplePart!KindOf(a) \in PeoplePart!Kinds
      BY PeopleTypes
    <3>2. x1[r].fields[PeoplePart!KindOf(a)] # a
      BY <2>1, <2>5, <3>1
    <3>3. ASSUME NEW q \in PeoplePart!There, x1[q].fields[PeoplePart!KindOf(a)] = a
          PROVE  q \in PeoplePart!There' /\ x1'[q].fields[PeoplePart!KindOf(a)] = a
      BY <2>4, <3>2, <3>3, PeopleTypes DEF PeoplePart!There
    <3> QED
      BY <3>3 DEF Stays
  <2>6. x7 \subseteq x7' /\ x7' \subseteq Answers
    BY <2>1, <2>3, PeopleTypes
  <2> QED
    BY <2>1, <2>4, <2>5, <2>6, RecordsRoot
<1> QED
  BY <1>1, <1>2, <1>3, <1>4

\* An answer goes on, and is not handled yet, or is refused.
LEMMA HandlingRoots ==
    ASSUME Rooting, NEW a \in Answers, x2[a].pc # "ok", NEW to \in Handlers, to.pc # "ok",
           to.pc \in {"find", "create", "update"} => ~IsIntakeAnswer(a),
           PeoplePart!Goes(a, to), UNCHANGED <<x1, x3, x4, x5, x6, x7>>
    PROVE  Rooting'
<1>1. x2' = [x2 EXCEPT ![a] = to] /\ x2 \in [Answers -> Handlers]
  BY PeopleTypes DEF PeoplePart!Goes
<1>2. x2' \in [Answers -> Handlers] /\ x2'[a] = to /\ \A b \in Answers : b # a => x2'[b] = x2[b]
  BY <1>1
<1>3. /\ x6 = {b \in Answers : x2[b].pc = "ok"}
      /\ \A b \in Answers : x2[b].pc \in {"find", "create", "update"} => ~IsIntakeAnswer(b)
  BY DEF Rooting, PeoplePart!Rooted
<1>4. /\ x6' = {b \in Answers : x2'[b].pc = "ok"}
      /\ \A b \in Answers : x2'[b].pc \in {"find", "create", "update"} => ~IsIntakeAnswer(b)
      /\ \A b \in x6 : x2'[b].pc = "ok"
  BY <1>2, <1>3
<1>5. \A b \in x6 \ x7' : Stays(b)
  BY DEF Stays, PeoplePart!There
<1> QED
  BY <1>2, <1>4, <1>5, PeopleTypes, ServerRoots

\* An answer is stored.
LEMMA StoringRoots ==
    ASSUME Rooting, NEW a \in Answers, x2[a].pc # "ok", PeoplePart!Stored(a), UNCHANGED <<x3, x4, x5>>,
           x1' \in [Rows -> PeoplePart!Row \cup {Null}], x7 \subseteq x7', x7' \subseteq Answers,
           \A b \in x6 \ x7' : Stays(b),
           NEW r \in Rows, r \in PeoplePart!There', x1'[r].fields[PeoplePart!KindOf(a)] = a
    PROVE  Rooting'
<1>1. x2' = [x2 EXCEPT ![a] = [pc |-> "ok"]] /\ x6' = x6 \cup {a} /\ x2 \in [Answers -> Handlers]
  BY PeopleTypes DEF PeoplePart!Stored, PeoplePart!Goes
<1>2. [pc |-> "ok"] \in Handlers
  BY DEF Handlers
<1>3. x2' \in [Answers -> Handlers] /\ x2'[a].pc = "ok" /\ \A b \in Answers : b # a => x2'[b] = x2[b]
  BY <1>1, <1>2
<1>4. /\ x6 = {b \in Answers : x2[b].pc = "ok"}
      /\ \A b \in Answers : x2[b].pc \in {"find", "create", "update"} => ~IsIntakeAnswer(b)
  BY DEF Rooting, PeoplePart!Rooted
<1>5. /\ x6' = {b \in Answers : x2'[b].pc = "ok"}
      /\ \A b \in Answers : x2'[b].pc \in {"find", "create", "update"} => ~IsIntakeAnswer(b)
      /\ \A b \in x6 : x2'[b].pc = "ok"
  BY <1>1, <1>3, <1>4
<1>6. \A b \in x6' \ x6 : b = a
  BY <1>1
<1> QED
  BY <1>3, <1>5, <1>6, ServerRoots

\* A form's answers are written to a record.
LEMMA PuttingRoots ==
    ASSUME Rooting, NEW a \in Answers, x2[a].pc # "ok", NEW r \in PeoplePart!There,
           PeoplePart!Put(r, PeoplePart!KindOf(a), a), PeoplePart!Stored(a), UNCHANGED <<x3, x4, x5>>
    PROVE  Rooting'
<1> DEFINE k == PeoplePart!KindOf(a)
<1>1. x1' = [x1 EXCEPT ![r].fields[k] = a] /\ x7' = x7 \cup ({x1[r].fields[k]} \ {Null, a}) /\ k \in PeoplePart!Kinds
  BY PeopleTypes DEF PeoplePart!Put
<1> HIDE DEF k
<1>2. /\ x1' \in [Rows -> PeoplePart!Row \cup {Null}] /\ r \in PeoplePart!There' /\ x1'[r].fields[k] = a
      /\ \A b \in Answers : (x1[r].fields[k] = b => b = a \/ PeoplePart!KindOf(b) # k) => Stays(b)
  BY <1>1, WrittenOver
<1>3. x1[r].fields[k] \in Answers \cup {Null} /\ r \in Rows
  BY <1>1, PeopleTypes DEF PeoplePart!Row
<1>4. x7 \subseteq x7' /\ x7' \subseteq Answers
  BY <1>1, <1>3, PeopleTypes
<1>5. \A b \in x6 \ x7' : Stays(b)
  <2> TAKE b \in x6 \ x7'
  <2>1. b \in Answers /\ b # Null
    BY PeopleTypes
  <2>2. x1[r].fields[k] = b => b = a
    BY <1>1, <2>1
  <2> QED
    BY <1>2, <2>1, <2>2
<1> QED
  BY <1>2, <1>3, <1>4, <1>5, StoringRoots DEF k

LEMMA AnswersStep ==
    ASSUME Rooting, NEW a \in Answers,
           \/ PeoplePart!HandleWebhook(a) \/ PeoplePart!FindLead(a) \/ PeoplePart!CreateLead(a)
           \/ PeoplePart!UpdateLead(a) \/ PeoplePart!SubmitIntake(a)
    PROVE  Rooting'
<1>1. \A b \in Answers : x2[b].pc \in {"find", "create", "update"} => ~IsIntakeAnswer(b)
  BY DEF Rooting, PeoplePart!Rooted
<1>2. /\ [pc |-> "find"] \in Handlers /\ [pc |-> "create"] \in Handlers /\ [pc |-> "error"] \in Handlers
      /\ \A r \in Rows : [pc |-> "update", row |-> r] \in Handlers
  BY DEF Handlers
<1>3. CASE PeoplePart!HandleWebhook(a)
  <2>1. /\ ~IsIntakeAnswer(a) /\ x2[a].pc # "ok" /\ PeoplePart!Goes(a, [pc |-> "find"])
        /\ UNCHANGED <<x1, x3, x4, x5, x6, x7>>
    BY <1>3 DEF PeoplePart!HandleWebhook
  <2> QED
    BY <1>2, <2>1, HandlingRoots
<1>4. CASE PeoplePart!FindLead(a)
  <2>1. x2[a].pc = "find" /\ UNCHANGED <<x1, x3, x4, x5, x6, x7>>
    BY <1>4 DEF PeoplePart!FindLead
  <2>2. PICK to \in Handlers : to.pc # "ok" /\ PeoplePart!Goes(a, to)
    <3>1. \A n : PeoplePart!With(n) \subseteq Rows
      BY DEF PeoplePart!With, PeoplePart!There
    <3> QED
      BY <1>2, <1>4, <3>1 DEF PeoplePart!FindLead
  <2> QED
    BY <1>1, <2>1, <2>2, HandlingRoots
<1>5. CASE PeoplePart!CreateLead(a)
  <2>1. x2[a].pc = "create" /\ ~IsIntakeAnswer(a) /\ PeoplePart!KindOf(a) = "lead" /\ UNCHANGED <<x3, x4, x5>>
    BY <1>1, <1>5 DEF PeoplePart!CreateLead, PeoplePart!KindOf
  <2>2. CASE PeoplePart!Conflict(a)
    <3>1. PeoplePart!Goes(a, [pc |-> "error"]) /\ UNCHANGED <<x1, x6, x7>>
      BY <2>2 DEF PeoplePart!Conflict, PeoplePart!Refused
    <3> QED
      BY <1>1, <1>2, <2>1, <3>1, HandlingRoots
  <2>3. CASE ~PeoplePart!Conflict(a)
    <3>1. PICK r \in Rows \ PeoplePart!There :
             x1' = [x1 EXCEPT ![r] = [number |-> NumberOfAnswer(a), stage |-> "LEAD",
                                      fields |-> [PeoplePart!Empty EXCEPT !["lead"] = a]]]
      BY <1>5, <2>3 DEF PeoplePart!CreateLead
    <3>2. PICK row : row = [number |-> NumberOfAnswer(a), stage |-> "LEAD",
                            fields |-> [PeoplePart!Empty EXCEPT !["lead"] = a]]
      OBVIOUS
    <3>3. PeoplePart!Stored(a) /\ x7' = x7
      BY <1>5, <2>3 DEF PeoplePart!CreateLead
    <3>4. row \in PeoplePart!Row /\ row.fields["lead"] = a
      <4>1. NumberOfAnswer(a) \in Numbers
        BY ScreensAssumption DEF NumberOfAnswer
      <4>2. [PeoplePart!Empty EXCEPT !["lead"] = a] \in [PeoplePart!Kinds -> Answers \cup {Null}]
            /\ [PeoplePart!Empty EXCEPT !["lead"] = a]["lead"] = a
        BY DEF PeoplePart!Empty, PeoplePart!Kinds
      <4> QED
        BY <3>2, <4>1, <4>2 DEF PeoplePart!Row
    <3>5. x1' \in [Rows -> PeoplePart!Row \cup {Null}] /\ (\A b : Stays(b)) /\ r \in PeoplePart!There' /\ x1'[r] = row
      BY <3>1, <3>2, <3>4, RecordComes
    <3> QED
      BY <2>1, <3>3, <3>4, <3>5, PeopleTypes, StoringRoots
  <2> QED
    BY <2>2, <2>3
<1>6. CASE PeoplePart!UpdateLead(a)
  <2>1. x2[a].pc = "update" /\ ~IsIntakeAnswer(a) /\ PeoplePart!KindOf(a) = "lead" /\ UNCHANGED <<x3, x4, x5>>
    BY <1>1, <1>6 DEF PeoplePart!UpdateLead, PeoplePart!KindOf
  <2>2. CASE PeoplePart!Refused(a)
    <3>1. PeoplePart!Goes(a, [pc |-> "error"]) /\ UNCHANGED <<x1, x6, x7>>
      BY <2>2 DEF PeoplePart!Refused
    <3> QED
      BY <1>1, <1>2, <2>1, <3>1, HandlingRoots
  <2>3. CASE ~PeoplePart!Refused(a)
    <3>1. PICK r \in PeoplePart!There : PeoplePart!Put(r, "lead", a)
      BY <1>6, <2>3 DEF PeoplePart!UpdateLead
    <3>2. PeoplePart!Stored(a)
      BY <1>6, <2>3 DEF PeoplePart!UpdateLead
    <3> QED
      BY <2>1, <3>1, <3>2, PuttingRoots
  <2> QED
    BY <2>2, <2>3
<1>7. CASE PeoplePart!SubmitIntake(a)
  <2>1. x2[a].pc # "ok" /\ PeoplePart!KindOf(a) = "client" /\ PeoplePart!Stored(a) /\ UNCHANGED <<x3, x4, x5>>
    BY <1>7 DEF PeoplePart!SubmitIntake, PeoplePart!KindOf
  <2>2. PICK r \in PeoplePart!There : PeoplePart!Put(r, "client", a)
    BY <1>7 DEF PeoplePart!SubmitIntake
  <2> QED
    BY <2>1, <2>2, PuttingRoots
<1> QED
  BY <1>3, <1>4, <1>5, <1>6, <1>7

\* The page shows or loads other profiles, none with an answer to a root that the
\* record does not have.
LEMMA PageRoots ==
    ASSUME Rooting, UNCHANGED <<x1, x2, x6, x7>>, x5' \in 0..PageOpens,
           x3' \in [kind: PeoplePart!Kinds \cup {Null}, url: Rows \cup {Null}, shown: PeoplePart!Profile \cup {Null}],
           x4' \subseteq PeoplePart!Profile,
           \A p \in PeoplePart!Profiles' :
              \/ p \in PeoplePart!Profiles /\ x3'.kind = x3.kind
              \/ \E r \in PeoplePart!There : p = PeoplePart!ProfileOf(x3'.kind, r) /\ x3'.kind \in PeoplePart!Kinds
    PROVE  Rooting'
<1>1. PeoplePart!TypeOK'
  BY DEF Rooting, PeoplePart!TypeOK
<1>2. ASSUME NEW p \in PeoplePart!Profiles'
      PROVE  x3'.kind \in PeoplePart!Kinds /\ p.seen \subseteq {a \in x6 : PeoplePart!KindOf(a) = x3'.kind}
  <2>1. CASE p \in PeoplePart!Profiles /\ x3'.kind = x3.kind
    BY <2>1 DEF Rooting, PeoplePart!Rooted
  <2>2. CASE \E r \in PeoplePart!There : p = PeoplePart!ProfileOf(x3'.kind, r) /\ x3'.kind \in PeoplePart!Kinds
    BY <2>2 DEF PeoplePart!ProfileOf
  <2> QED
    BY <1>2, <2>1, <2>2
<1>3. ASSUME NEW a \in x6 \ x7
      PROVE  \E r \in Rows : PeoplePart!Root(a, r)'
  <2>1. PICK r \in Rows : PeoplePart!Root(a, r)
    BY DEF Rooting, PeoplePart!Rooted
  <2>2. ASSUME NEW p \in PeoplePart!Profiles', p.row = r, a \in p.seen
        PROVE  p.answer = a
    <3>1. CASE p \in PeoplePart!Profiles
      BY <2>1, <2>2, <3>1 DEF PeoplePart!Root
    <3>2. CASE \E q \in PeoplePart!There : p = PeoplePart!ProfileOf(x3'.kind, q)
      <4>1. PICK q \in PeoplePart!There : p = PeoplePart!ProfileOf(x3'.kind, q)
        BY <3>2
      <4>2. q = r /\ PeoplePart!KindOf(a) = x3'.kind /\ p.answer = x1[q].fields[x3'.kind]
        BY <2>2, <4>1 DEF PeoplePart!ProfileOf
      <4> QED
        BY <2>1, <4>2 DEF PeoplePart!Root
    <3> QED
      BY <2>2, <3>1, <3>2
  <2>3. PeoplePart!There' = PeoplePart!There
    BY DEF PeoplePart!There
  <2>4. PeoplePart!Root(a, r)'
    BY <2>1, <2>2, <2>3 DEF PeoplePart!Root
  <2> QED
    BY <2>4
<1>4. PeoplePart!Rooted'
  BY <1>2, <1>3 DEF Rooting, PeoplePart!Rooted
<1> QED
  BY <1>1, <1>4 DEF Rooting

LEMMA PageOfPersonStep ==
    ASSUME Rooting,
           \/ \E k \in PeoplePart!Kinds, r \in Rows : PeoplePart!Open(k, r)
           \/ \E p \in x4 : PeoplePart!Loaded(p) \/ PeoplePart!LoadFails(p)
    PROVE  Rooting'
<1>1. ASSUME NEW k \in PeoplePart!Kinds, NEW r \in Rows, PeoplePart!Open(k, r)
      PROVE  Rooting'
  <2>1. /\ r \in PeoplePart!There /\ x5 < PageOpens /\ x5' = x5 + 1 /\ UNCHANGED <<x1, x2, x6, x7>>
        /\ x3' = [kind |-> k, url |-> r, shown |-> IF x3.kind = k THEN x3.shown ELSE Null]
        /\ x4' = (IF x3.kind = k THEN x4 ELSE {}) \cup {PeoplePart!ProfileOf(k, r)}
    BY <1>1 DEF PeoplePart!Open
  <2>2. PeoplePart!ProfileOf(k, r) \in PeoplePart!Profile
    <3>1. x1[r].fields[k] \in Answers \cup {Null}
      BY <2>1, PeopleTypes DEF PeoplePart!Row
    <3> QED
      BY <3>1, PeopleTypes DEF PeoplePart!ProfileOf, PeoplePart!Profile
  <2>3. /\ x3' \in [kind: PeoplePart!Kinds \cup {Null}, url: Rows \cup {Null}, shown: PeoplePart!Profile \cup {Null}]
        /\ x4' \subseteq PeoplePart!Profile /\ x3'.kind = k /\ x3'.shown \in {x3.shown, Null}
        /\ (x3.kind # k => x3'.shown = Null)
    BY <2>1, <2>2, PeopleTypes
  <2>4. x5' \in 0..PageOpens
    BY <2>1, PeopleTypes, ScreensAssumption
  <2>5. ASSUME NEW p \in PeoplePart!Profiles'
        PROVE  (p \in PeoplePart!Profiles /\ x3.kind = k) \/ p = PeoplePart!ProfileOf(k, r)
    BY <2>1, <2>3 DEF PeoplePart!Profiles
  <2> QED
    BY <2>1, <2>3, <2>4, <2>5, PageRoots
<1>2. ASSUME NEW p \in x4, PeoplePart!Loaded(p)
      PROVE  Rooting'
  <2>1. x4' = x4 \ {p} /\ x3' = [x3 EXCEPT !.shown = p] /\ UNCHANGED <<x1, x2, x5, x6, x7>>
    BY <1>2 DEF PeoplePart!Loaded, PeoplePart!Show
  <2>2. /\ x3' \in [kind: PeoplePart!Kinds \cup {Null}, url: Rows \cup {Null}, shown: PeoplePart!Profile \cup {Null}]
        /\ x3'.kind = x3.kind /\ x3'.shown = p /\ x4' \subseteq PeoplePart!Profile
    BY <2>1, PeopleTypes
  <2>3. PeoplePart!Profiles' \subseteq PeoplePart!Profiles
    BY <2>1, <2>2 DEF PeoplePart!Profiles
  <2> QED
    BY <2>1, <2>2, <2>3, PeopleTypes, PageRoots
<1>3. ASSUME NEW p \in x4, PeoplePart!LoadFails(p)
      PROVE  Rooting'
  <2>1. x4' = x4 \ {p} /\ UNCHANGED <<x1, x2, x3, x5, x6, x7>>
    BY <1>3 DEF PeoplePart!LoadFails
  <2>2. PeoplePart!Profiles' \subseteq PeoplePart!Profiles /\ x4' \subseteq PeoplePart!Profile
    BY <2>1, PeopleTypes DEF PeoplePart!Profiles
  <2> QED
    BY <2>1, <2>2, PeopleTypes, PageRoots
<1> QED
  BY <1>1, <1>2, <1>3

\* What the page shows is saved: where it is the root of an answer that it has seen,
\* the answer is written again; what else it takes the place of counts as replaced.
LEMMA SaveRoots ==
    ASSUME Rooting, PeoplePart!Save
    PROVE  Rooting'
<1> DEFINE r == x3.url
           k == x3.kind
           answer == x3.shown.answer
<1>1. /\ r \in PeoplePart!There /\ x3.shown # Null /\ UNCHANGED <<x2, x3, x4, x5, x6>>
      /\ x1' = [x1 EXCEPT ![r].fields[k] = answer]
      /\ x7' = x7 \cup (PeoplePart!Blamed(r, k) \ {Null, answer})
  BY DEF PeoplePart!Save
<1>2. x3.shown \in PeoplePart!Profiles /\ x3.shown \in PeoplePart!Profile
  BY <1>1, PeopleTypes DEF PeoplePart!Profiles
<1>3. k \in PeoplePart!Kinds /\ answer \in Answers \cup {Null}
  BY <1>2 DEF Rooting, PeoplePart!Rooted, PeoplePart!Profile
<1> HIDE DEF r, k, answer
<1>4. /\ x1' \in [Rows -> PeoplePart!Row \cup {Null}]
      /\ \A a \in Answers : (x1[r].fields[k] = a => a = answer \/ PeoplePart!KindOf(a) # k) => Stays(a)
  BY <1>1, <1>3, WrittenOver
<1>5. x1[r].fields[k] \in Answers \cup {Null}
  BY <1>1, <1>3, PeopleTypes DEF PeoplePart!Row
<1>6. PeoplePart!Blamed(r, k) \subseteq {x1[r].fields[k]}
  BY DEF PeoplePart!Blamed
<1>7. x7 \subseteq x7' /\ x7' \subseteq Answers
  BY <1>1, <1>5, <1>6, PeopleTypes
<1>8. PeoplePart!TypeOK'
  BY <1>1, <1>4, <1>7 DEF Rooting, PeoplePart!TypeOK
<1>9. PeoplePart!Profiles' = PeoplePart!Profiles
  BY <1>1 DEF PeoplePart!Profiles
<1>10. ASSUME NEW a \in x6 \ x7'
       PROVE  \E q \in Rows : PeoplePart!Root(a, q)'
  <2>1. a \in Answers /\ a # Null /\ a \notin x7
    BY <1>1, <1>10, PeopleTypes
  <2>2. CASE ~(x1[r].fields[k] = a /\ a # answer /\ PeoplePart!KindOf(a) = k)
    <3>1. Stays(a)
      BY <1>4, <2>1, <2>2
    <3> QED
      BY <1>1, <1>10, <2>1, <3>1, StaysRooted
  <2>3. CASE x1[r].fields[k] = a /\ a # answer /\ PeoplePart!KindOf(a) = k
    <3>1. a \notin PeoplePart!Blamed(r, k)
      BY <1>1, <1>10, <2>1, <2>3
    <3>2. x3.shown.row = r /\ a \in x3.shown.seen
      BY <2>3, <3>1 DEF PeoplePart!Blamed
    <3>3. PICK q \in Rows : PeoplePart!Root(a, q)
      BY <1>10, <2>1 DEF Rooting, PeoplePart!Rooted
    <3>4. q # r
      BY <1>2, <2>3, <3>2, <3>3 DEF PeoplePart!Root, answer
    <3>5. q \in PeoplePart!There /\ r \in Rows /\ x1'[q] = x1[q]
      BY <1>1, <3>3, <3>4, PeopleTypes DEF PeoplePart!Root
    <3>6. PeoplePart!Root(a, q)'
      BY <1>9, <3>3, <3>5 DEF PeoplePart!Root, PeoplePart!There
    <3> QED
      BY <3>6
  <2> QED
    BY <2>2, <2>3
<1>11. PeoplePart!Rooted'
  BY <1>1, <1>9, <1>10 DEF Rooting, PeoplePart!Rooted
<1> QED
  BY <1>8, <1>11 DEF Rooting

LEMMA PeopleStep ==
    ASSUME Rooting, PeoplePart!Next
    PROVE  Rooting'
BY RecordsStep, AnswersStep, PageOfPersonStep, SaveRoots DEF PeoplePart!Next

LEMMA PeopleStay ==
    ASSUME Rooting, UNCHANGED PeoplePart!vars
    PROVE  Rooting'
<1>1. UNCHANGED <<x1, x2, x3, x4, x5, x6, x7>>
  BY DEF PeoplePart!vars
<1>2. \A a \in x6 \ x7' : Stays(a)
  BY <1>1 DEF Stays, PeoplePart!There
<1> QED
  BY <1>1, <1>2, PeopleTypes, RecordsRoot

\* An answer whose handling went well stays on a record, unless something else took its
\* place or a page that could not know of it was saved over it, however many records,
\* answers and profiles under way there are.
THEOREM AnswersStayRooted == ScreensSpec => []AnswersAreKept
<1> DEFINE I == part = "people" => Rooting
<1>1. ScreensInit => I
  BY ScreensBegin, RootingBegins
<1>2. I /\ [ScreensNext]_registers => I'
  BY ScreensStep, PeopleStep, PeopleStay
<1>3. I => AnswersAreKept
  BY DEF Rooting, PeoplePart!Rooted, PeoplePart!Root, AnswersAreKept, PeoplePart!AnswersAreKept
<1> QED
  BY <1>1, <1>2, <1>3, PTL DEF ScreensSpec

-----------------------------------------------------------------------------
(* Messages *)

Keeping == MessagesPart!TypeOK /\ MessagesPart!ColumnsAreLast

LEMMA KeepingBegins ==
    ASSUME MessagesPart!Init
    PROVE  Keeping
<1>1. MessagesPart!Bare \in MessagesPart!Saved
  BY DEF MessagesPart!Bare, MessagesPart!Saved
<1>2. Null \in MessagesPart!Items \cup {Null}
  OBVIOUS
<1>3. [loaded |-> FALSE, drafts |-> MessagesPart!Bare, busy |-> [c \in MessagesPart!Columns |-> Null],
       adding |-> FALSE] \in MessagesPart!Tab
  BY <1>1, <1>2 DEF MessagesPart!Tab
<1>4. MessagesPart!TypeOK
  BY <1>1, <1>3, ScreensAssumption DEF MessagesPart!Init, MessagesPart!TypeOK
<1> QED
  BY <1>4 DEF Keeping, MessagesPart!Init, MessagesPart!ColumnsAreLast

\* A request is made: it has read nothing yet.
LEMMA AskingKeeps ==
    ASSUME Keeping, MessagesPart!Act, NEW r, MessagesPart!Ask(r), r.tab \in Tabs, r.op \in {"put", "add", "remove"},
           r.item \in MessagesPart!Items, r.text \in Texts \cup {Null}, UNCHANGED <<x1, x5, x6>>,
           x2' \in [Tabs -> MessagesPart!Tab]
    PROVE  Keeping'
<1> DEFINE new == [tab |-> r.tab, op |-> r.op, item |-> r.item, text |-> r.text, n |-> x4 + 1, pc |-> "asked",
                   copy |-> MessagesPart!Bare]
<1>1. x3' = x3 \cup {new} /\ x4' = x4 + 1 /\ x4 < MessageActs
  BY DEF MessagesPart!Ask, MessagesPart!Act
<1>2. /\ x1 \in MessagesPart!Saved /\ x5 \in MessagesPart!Saved /\ x3 \subseteq MessagesPart!Request
      /\ \A q \in x3 : q.n <= x4 /\ q.n \in Nat
      /\ x4 \in 0..MessageActs /\ x6 \subseteq MessagesPart!Columns
  BY DEF Keeping, MessagesPart!TypeOK, MessagesPart!Request
<1>3. MessagesPart!Bare \in MessagesPart!Saved
  BY DEF MessagesPart!Bare, MessagesPart!Saved
<1>4. x4 \in Nat /\ x4 + 1 \in Nat \ {0} /\ x4 + 1 \in 0..MessageActs
  BY <1>1, <1>2, ScreensAssumption
<1>5. new \in MessagesPart!Request
  BY <1>3, <1>4 DEF MessagesPart!Request
<1>6. MessagesPart!TypeOK'
  <2>1. \A q \in x3' : q.n <= x4'
    BY <1>1, <1>2, <1>4
  <2> QED
    BY <1>1, <1>2, <1>4, <1>5, <2>1 DEF MessagesPart!TypeOK
<1>7. MessagesPart!ColumnsAreLast'
  BY <1>1 DEF Keeping, MessagesPart!ColumnsAreLast
<1> QED
  BY <1>6, <1>7 DEF Keeping

\* What a step does that leaves the columns and the requests alone.
LEMMA DraftsDoNotMatter ==
    ASSUME Keeping, UNCHANGED <<x1, x3, x5, x6>>, x2' \in [Tabs -> MessagesPart!Tab],
           x4' = x4 \/ MessagesPart!Act
    PROVE  Keeping'
<1>1. /\ x1 \in MessagesPart!Saved /\ x5 \in MessagesPart!Saved /\ x3 \subseteq MessagesPart!Request
      /\ \A q \in x3 : q.n <= x4 /\ q.n \in Nat
      /\ x4 \in 0..MessageActs /\ x6 \subseteq MessagesPart!Columns
  BY DEF Keeping, MessagesPart!TypeOK, MessagesPart!Request
<1>2. x4 \in Nat /\ x4' \in 0..MessageActs /\ x4 <= x4'
  BY <1>1, ScreensAssumption DEF MessagesPart!Act
<1>3. \A q \in x3 : q.n <= x4'
  BY <1>1, <1>2
<1>4. MessagesPart!TypeOK'
  BY <1>1, <1>2, <1>3 DEF MessagesPart!TypeOK
<1>5. MessagesPart!ColumnsAreLast'
  BY DEF Keeping, MessagesPart!ColumnsAreLast
<1> QED
  BY <1>4, <1>5 DEF Keeping

\* The parts of the page are changed to what they may be.
LEMMA TabsChange ==
    ASSUME NEW tabs \in [Tabs -> MessagesPart!Tab], NEW t \in Tabs
    PROVE  /\ [tabs EXCEPT ![t].adding = TRUE] \in [Tabs -> MessagesPart!Tab]
           /\ \A drafts \in MessagesPart!Saved :
                /\ [tabs EXCEPT ![t].adding = FALSE, ![t].drafts = drafts] \in [Tabs -> MessagesPart!Tab]
                /\ [tabs EXCEPT ![t].loaded = TRUE, ![t].drafts = drafts] \in [Tabs -> MessagesPart!Tab]
           /\ \A i \in MessagesPart!Items :
                /\ \A text \in Texts : [tabs EXCEPT ![t].drafts[i] = text] \in [Tabs -> MessagesPart!Tab]
                /\ [tabs EXCEPT ![t].busy[MessagesPart!Column(i)] = i] \in [Tabs -> MessagesPart!Tab]
                /\ \A drafts \in MessagesPart!Saved :
                     [tabs EXCEPT ![t].busy[MessagesPart!Column(i)] = Null, ![t].drafts = drafts]
                         \in [Tabs -> MessagesPart!Tab]
           /\ tabs[t].drafts \in MessagesPart!Saved
<1>1. tabs[t] \in MessagesPart!Tab
  OBVIOUS
<1>2. /\ tabs[t].drafts \in MessagesPart!Saved /\ tabs[t].busy \in [MessagesPart!Columns -> MessagesPart!Items \cup {Null}]
  BY <1>1 DEF MessagesPart!Tab
<1>3. \A i \in MessagesPart!Items : MessagesPart!Column(i) \in MessagesPart!Columns
  BY DEF MessagesPart!Column, MessagesPart!Columns
<1>4. ASSUME NEW i \in MessagesPart!Items, NEW text \in Texts
      PROVE  [tabs[t].drafts EXCEPT ![i] = text] \in MessagesPart!Saved
  BY <1>2 DEF MessagesPart!Saved
<1>5. ASSUME NEW i \in MessagesPart!Items, NEW x \in MessagesPart!Items \cup {Null}
      PROVE  [tabs[t].busy EXCEPT ![MessagesPart!Column(i)] = x] \in [MessagesPart!Columns -> MessagesPart!Items \cup {Null}]
  BY <1>2, <1>3
<1>6. [tabs EXCEPT ![t].adding = TRUE] \in [Tabs -> MessagesPart!Tab]
  BY <1>1 DEF MessagesPart!Tab
<1>7. ASSUME NEW drafts \in MessagesPart!Saved
      PROVE  /\ [tabs EXCEPT ![t].adding = FALSE, ![t].drafts = drafts] \in [Tabs -> MessagesPart!Tab]
             /\ [tabs EXCEPT ![t].loaded = TRUE, ![t].drafts = drafts] \in [Tabs -> MessagesPart!Tab]
  BY <1>1 DEF MessagesPart!Tab
<1>8. ASSUME NEW i \in MessagesPart!Items, NEW text \in Texts
      PROVE  [tabs EXCEPT ![t].drafts[i] = text] \in [Tabs -> MessagesPart!Tab]
  BY <1>1, <1>4 DEF MessagesPart!Tab
<1>9. ASSUME NEW i \in MessagesPart!Items
      PROVE  /\ [tabs EXCEPT ![t].busy[MessagesPart!Column(i)] = i] \in [Tabs -> MessagesPart!Tab]
             /\ \A drafts \in MessagesPart!Saved :
                  [tabs EXCEPT ![t].busy[MessagesPart!Column(i)] = Null, ![t].drafts = drafts]
                      \in [Tabs -> MessagesPart!Tab]
  BY <1>1, <1>5 DEF MessagesPart!Tab
<1> QED
  BY <1>2, <1>6, <1>7, <1>8, <1>9

\* The steps of the page.
LEMMA PageOfMessagesKeeps ==
    ASSUME Keeping,
           \/ \E t \in Tabs : MessagesPart!Load(t)
           \/ \E t \in Tabs, i \in MessagesPart!Items :
                MessagesPart!Save(t, i) \/ \E x \in Texts : MessagesPart!UpdateDraft(t, i, x)
           \/ \E t \in Tabs, k \in StandardKeys : MessagesPart!RestoreDefault(t, k)
           \/ \E t \in Tabs, i \in Own :
                MessagesPart!DeleteCustom(t, i) \/ \E x \in Texts : MessagesPart!AddCustom(t, i, x)
    PROVE  Keeping'
<1>1. x2 \in [Tabs -> MessagesPart!Tab] /\ x1 \in MessagesPart!Saved
  BY DEF Keeping, MessagesPart!TypeOK
<1>2. MessagesPart!Told(x1) \in MessagesPart!Saved
  BY <1>1, ScreensAssumption DEF MessagesPart!Told, MessagesPart!Saved
<1>3. ASSUME NEW t \in Tabs, MessagesPart!Load(t)
      PROVE  Keeping'
  BY <1>1, <1>2, <1>3, TabsChange, DraftsDoNotMatter DEF MessagesPart!Load
<1>4. ASSUME NEW t \in Tabs, NEW i \in MessagesPart!Items, NEW x \in Texts, MessagesPart!UpdateDraft(t, i, x)
      PROVE  Keeping'
  BY <1>1, <1>4, TabsChange, DraftsDoNotMatter DEF MessagesPart!UpdateDraft
<1>5. ASSUME NEW t \in Tabs, NEW i \in MessagesPart!Items, MessagesPart!Busy(t, i)
      PROVE  x2' \in [Tabs -> MessagesPart!Tab]
  BY <1>1, <1>5, TabsChange DEF MessagesPart!Busy
<1>6. ASSUME NEW t \in Tabs, NEW i \in MessagesPart!Items, MessagesPart!Save(t, i)
      PROVE  Keeping'
  <2>1. MessagesPart!Draft(t, i) \in Texts \cup {Null}
    <3>1. x2[t].drafts \in MessagesPart!Saved
      BY <1>1, TabsChange
    <3> QED
      BY <3>1 DEF MessagesPart!Draft, MessagesPart!Saved
  <2>2. PICK r : r = MessagesPart!Put(t, i, MessagesPart!Draft(t, i))
    OBVIOUS
  <2>3. /\ r.tab = t /\ r.op = "put" /\ r.item = i /\ r.text = MessagesPart!Draft(t, i)
        /\ MessagesPart!Ask(r) /\ MessagesPart!Act /\ MessagesPart!Busy(t, i) /\ UNCHANGED <<x1, x5, x6>>
    BY <1>6, <2>2 DEF MessagesPart!Save, MessagesPart!Put
  <2> QED
    BY <1>5, <2>1, <2>3, AskingKeeps
<1>7. ASSUME NEW t \in Tabs, NEW k \in StandardKeys, MessagesPart!RestoreDefault(t, k)
      PROVE  Keeping'
  <2>1. PICK r : r = MessagesPart!Put(t, k, Null)
    OBVIOUS
  <2>2. /\ r.tab = t /\ r.op = "put" /\ r.item = k /\ r.text = Null /\ k \in MessagesPart!Items
        /\ MessagesPart!Ask(r) /\ MessagesPart!Act /\ MessagesPart!Busy(t, k) /\ UNCHANGED <<x1, x5, x6>>
    BY <1>7, <2>1 DEF MessagesPart!RestoreDefault, MessagesPart!Put, MessagesPart!Items
  <2> QED
    BY <1>5, <2>2, AskingKeeps
<1>8. ASSUME NEW t \in Tabs, NEW i \in Own, MessagesPart!DeleteCustom(t, i)
      PROVE  Keeping'
  <2>1. PICK r : r = [tab |-> t, op |-> "remove", item |-> i, text |-> Null]
    OBVIOUS
  <2>2. /\ r.tab = t /\ r.op = "remove" /\ r.item = i /\ r.text = Null /\ i \in MessagesPart!Items
        /\ MessagesPart!Ask(r) /\ MessagesPart!Act /\ MessagesPart!Busy(t, i) /\ UNCHANGED <<x1, x5, x6>>
    BY <1>8, <2>1 DEF MessagesPart!DeleteCustom, MessagesPart!Items
  <2> QED
    BY <1>5, <2>2, AskingKeeps
<1>9. ASSUME NEW t \in Tabs, NEW i \in Own, NEW x \in Texts, MessagesPart!AddCustom(t, i, x)
      PROVE  Keeping'
  <2>1. PICK r : r = [tab |-> t, op |-> "add", item |-> i, text |-> x]
    OBVIOUS
  <2>2. /\ r.tab = t /\ r.op = "add" /\ r.item = i /\ r.text = x /\ i \in MessagesPart!Items
        /\ MessagesPart!Ask(r) /\ MessagesPart!Act /\ UNCHANGED <<x1, x5, x6>>
        /\ x2' = [x2 EXCEPT ![t].adding = TRUE]
    BY <1>9, <2>1 DEF MessagesPart!AddCustom, MessagesPart!Items
  <2>3. x2' \in [Tabs -> MessagesPart!Tab]
    BY <1>1, <2>2, TabsChange
  <2> QED
    BY <2>2, <2>3, AskingKeeps
<1> QED
  BY <1>3, <1>4, <1>6, <1>7, <1>8, <1>9

\* A request goes on, without a write.
LEMMA GoingOnKeeps ==
    ASSUME Keeping, NEW r \in x3, NEW pc \in {"read", "written", "refused", "answered"},
           NEW copy \in MessagesPart!Saved, pc = "read" => copy = x1,
           MessagesPart!Becomes(r, [r EXCEPT !.pc = pc, !.copy = copy]), UNCHANGED <<x1, x2, x4, x5, x6>>
    PROVE  Keeping'
<1> DEFINE new == [r EXCEPT !.pc = pc, !.copy = copy]
<1>1. x3' = (x3 \ {r}) \cup {new} /\ x3 \subseteq MessagesPart!Request
  BY DEF MessagesPart!Becomes, Keeping, MessagesPart!TypeOK
<1>2. new \in MessagesPart!Request /\ new.n = r.n /\ new.pc = pc /\ new.copy = copy
  BY <1>1 DEF MessagesPart!Request
<1>3. MessagesPart!TypeOK'
  BY <1>1, <1>2 DEF Keeping, MessagesPart!TypeOK
<1>4. MessagesPart!ColumnsAreLast'
  BY <1>1, <1>2 DEF Keeping, MessagesPart!ColumnsAreLast
<1> QED
  BY <1>3, <1>4 DEF Keeping

\* A write: what else is in the column is as it was read, unless another request is
\* about to write what it read before.
LEMMA WritingKeeps ==
    ASSUME Keeping, NEW r \in x3, MessagesPart!Write(r)
    PROVE  Keeping'
<1> DEFINE new == [r EXCEPT !.pc = "written"]
           C == MessagesPart!Column(r.item)
<1>1. /\ x3' = (x3 \ {r}) \cup {new} /\ r.pc = "read"
      /\ x1' = MessagesPart!Merged(r) /\ x5' = [x5 EXCEPT ![r.item] = r.text] /\ UNCHANGED <<x2, x4>>
      /\ x6' = x6 \cup {MessagesPart!Column(q.item) : q \in {q \in x3 \ {r} : q.pc = "read" /\ MessagesPart!Column(q.item) = C}}
  BY DEF MessagesPart!Becomes, MessagesPart!Write
<1>2. /\ x1 \in MessagesPart!Saved /\ x5 \in MessagesPart!Saved /\ x3 \subseteq MessagesPart!Request
      /\ x6 \subseteq MessagesPart!Columns
  BY DEF Keeping, MessagesPart!TypeOK
<1>3. new \in MessagesPart!Request /\ new.n = r.n /\ new.pc = "written" /\ new.item = r.item
      /\ r.item \in MessagesPart!Items /\ r.text \in Texts \cup {Null} /\ r.copy \in MessagesPart!Saved
  BY <1>2 DEF MessagesPart!Request
<1>4. C \in MessagesPart!Columns /\ r.item \in C
  BY <1>3 DEF MessagesPart!Column, MessagesPart!Columns, MessagesPart!Items
<1>5. x1' \in MessagesPart!Saved /\ x5' \in MessagesPart!Saved /\ x6' \subseteq MessagesPart!Columns
  BY <1>1, <1>2, <1>3, <1>4 DEF MessagesPart!Merged, MessagesPart!Saved
<1>6. MessagesPart!TypeOK'
  BY <1>1, <1>2, <1>3, <1>5 DEF Keeping, MessagesPart!TypeOK
<1>7. /\ \A i \in MessagesPart!Items : i \notin C => x1'[i] = x1[i] /\ x5'[i] = x5[i]
      /\ \A i \in C : i \in MessagesPart!Items /\ MessagesPart!Column(i) = C
      /\ \A i \in MessagesPart!Items : i \notin C => MessagesPart!Column(i) # C
  <2>1. \A i \in C : i \in MessagesPart!Items /\ MessagesPart!Column(i) = C
    BY <1>3, ScreensAssumption DEF MessagesPart!Column, MessagesPart!Items
  <2>2. \A i \in MessagesPart!Items : i \in MessagesPart!Column(i)
    BY DEF MessagesPart!Column, MessagesPart!Items
  <2>3. ASSUME NEW i \in MessagesPart!Items, i \notin C
        PROVE  x1'[i] = x1[i] /\ x5'[i] = x5[i]
    <3>1. i # r.item
      BY <1>4, <2>3
    <3> QED
      BY <1>1, <1>2, <2>3, <3>1 DEF MessagesPart!Merged, MessagesPart!Saved
  <2> QED
    BY <2>1, <2>2, <2>3
<1>8. ASSUME C \notin x6'
      PROVE  /\ \A i \in C : x1'[i] = x5'[i]
             /\ \A q \in x3 \ {r} : q.pc = "read" => MessagesPart!Column(q.item) # C
  <2>1. C \notin x6 /\ \A q \in x3 \ {r} : q.pc = "read" => MessagesPart!Column(q.item) # C
    BY <1>1, <1>8
  <2>2. \A i \in C : x1[i] = x5[i] /\ r.copy[i] = x1[i]
    BY <1>1, <1>7, <2>1 DEF Keeping, MessagesPart!ColumnsAreLast
  <2>3. \A i \in C : i # r.item => x1'[i] = r.copy[i] /\ x5'[i] = x5[i]
    BY <1>1, <1>2, <1>7 DEF MessagesPart!Merged, MessagesPart!Saved
  <2>4. x1'[r.item] = r.text /\ x5'[r.item] = r.text
    BY <1>1, <1>2, <1>3 DEF MessagesPart!Merged, MessagesPart!Saved
  <2> QED
    BY <2>1, <2>2, <2>3, <2>4
<1>9. MessagesPart!ColumnsAreLast'
  <2>1. ASSUME NEW i \in MessagesPart!Items, MessagesPart!Column(i) \notin x6'
        PROVE  x1'[i] = x5'[i]
    <3>1. CASE i \in C
      BY <1>7, <1>8, <2>1, <3>1
    <3>2. CASE i \notin C
      BY <1>1, <1>7, <2>1, <3>2 DEF Keeping, MessagesPart!ColumnsAreLast
    <3> QED
      BY <3>1, <3>2
  <2>2. ASSUME NEW q \in x3', q.pc = "read", MessagesPart!Column(q.item) \notin x6',
               NEW i \in MessagesPart!Column(q.item)
        PROVE  q.copy[i] = x1'[i]
    <3>1. q \in x3 \ {r} /\ q.item \in MessagesPart!Items
      BY <1>1, <1>2, <1>3, <2>2 DEF MessagesPart!Request
    <3>2. MessagesPart!Column(q.item) # C
      BY <1>8, <2>2, <3>1
    <3>3. i \in MessagesPart!Items /\ i \notin C
      BY <1>3, <2>2, <3>1, <3>2, ScreensAssumption DEF MessagesPart!Column, MessagesPart!Items
    <3>4. q.copy[i] = x1[i]
      BY <1>1, <2>2, <3>1 DEF Keeping, MessagesPart!ColumnsAreLast
    <3> QED
      BY <1>7, <3>3, <3>4
  <2> QED
    BY <2>1, <2>2 DEF MessagesPart!ColumnsAreLast
<1> QED
  BY <1>6, <1>9 DEF Keeping

\* A request ends.
LEMMA EndingKeeps ==
    ASSUME Keeping, NEW r \in x3, NEW drafts \in MessagesPart!Saved, MessagesPart!Ends(r, drafts)
    PROVE  Keeping'
<1>1. x3' = x3 \ {r} /\ UNCHANGED <<x1, x4, x5, x6>>
  BY DEF MessagesPart!Ends
<1>2. r.tab \in Tabs /\ r.item \in MessagesPart!Items /\ x2 \in [Tabs -> MessagesPart!Tab]
  BY DEF Keeping, MessagesPart!TypeOK, MessagesPart!Request
<1>3. x2' \in [Tabs -> MessagesPart!Tab]
  BY <1>2, TabsChange DEF MessagesPart!Ends
<1>4. MessagesPart!TypeOK'
  BY <1>1, <1>3 DEF Keeping, MessagesPart!TypeOK
<1>5. MessagesPart!ColumnsAreLast'
  BY <1>1 DEF Keeping, MessagesPart!ColumnsAreLast
<1> QED
  BY <1>4, <1>5 DEF Keeping

LEMMA KeepingStep ==
    ASSUME Keeping, MessagesPart!Next
    PROVE  Keeping'
<1>1. ASSUME NEW r \in x3, MessagesPart!Read(r)
      PROVE  Keeping'
  <2>1. r \in MessagesPart!Request /\ x1 \in MessagesPart!Saved
    BY DEF Keeping, MessagesPart!TypeOK
  <2>2. r.copy \in MessagesPart!Saved /\ [r EXCEPT !.pc = "refused"] = [r EXCEPT !.pc = "refused", !.copy = r.copy]
    BY <2>1 DEF MessagesPart!Request
  <2>3. CASE MessagesPart!Refused(r)
    <3>1. MessagesPart!Becomes(r, [r EXCEPT !.pc = "refused", !.copy = r.copy]) /\ UNCHANGED <<x1, x2, x4, x5, x6>>
      BY <1>1, <2>2, <2>3 DEF MessagesPart!Read
    <3> QED
      BY <2>2, <3>1, GoingOnKeeps
  <2>4. CASE ~MessagesPart!Refused(r)
    <3>1. MessagesPart!Becomes(r, [r EXCEPT !.pc = "read", !.copy = x1]) /\ UNCHANGED <<x1, x2, x4, x5, x6>>
      BY <1>1, <2>4 DEF MessagesPart!Read
    <3> QED
      BY <2>1, <3>1, GoingOnKeeps
  <2> QED
    BY <2>3, <2>4
<1>2. ASSUME NEW r \in x3, MessagesPart!Answer(r)
      PROVE  Keeping'
  <2>1. x1 \in MessagesPart!Saved
    BY DEF Keeping, MessagesPart!TypeOK
  <2>2. MessagesPart!Becomes(r, [r EXCEPT !.pc = "answered", !.copy = x1]) /\ UNCHANGED <<x1, x2, x4, x5, x6>>
    BY <1>2 DEF MessagesPart!Answer
  <2> QED
    BY <2>1, <2>2, GoingOnKeeps
<1>3. ASSUME NEW r \in x3, MessagesPart!Arrive(r) \/ MessagesPart!Fail(r)
      PROVE  Keeping'
  <2>1. r \in MessagesPart!Request /\ x2 \in [Tabs -> MessagesPart!Tab]
    BY DEF Keeping, MessagesPart!TypeOK
  <2>2. r.tab \in Tabs /\ r.copy \in MessagesPart!Saved
    BY <2>1 DEF MessagesPart!Request
  <2>3. x2[r.tab].drafts \in MessagesPart!Saved
    BY <2>1, <2>2, TabsChange
  <2>4. MessagesPart!Heard(r) \in MessagesPart!Saved
    <3>1. MessagesPart!Told(r.copy) \in MessagesPart!Saved
      BY <2>2, ScreensAssumption DEF MessagesPart!Told, MessagesPart!Saved
    <3> QED
      BY <2>3, <3>1 DEF MessagesPart!Heard, MessagesPart!Saved, MessagesPart!Draft
  <2> QED
    BY <1>3, <2>3, <2>4, EndingKeeps DEF MessagesPart!Arrive, MessagesPart!Fail
<1> QED
  BY <1>1, <1>2, <1>3, PageOfMessagesKeeps, WritingKeeps DEF MessagesPart!Next

\* What was written last of a message is what is sent, unless two requests overlapped,
\* however many messages, tabs and requests there are.
THEOREM WhatWasSavedIsSent == ScreensSpec => []SavedMessagesAreKept
<1> DEFINE I == part = "messages" => Keeping
<1>1. ScreensInit => I
  BY ScreensBegin, KeepingBegins
<1>2. I /\ [ScreensNext]_registers => I'
  <2> SUFFICES ASSUME I, [ScreensNext]_registers, part' = "messages"
               PROVE  Keeping'
    OBVIOUS
  <2>1. Keeping /\ (MessagesPart!Next \/ UNCHANGED MessagesPart!vars)
    BY ScreensStep
  <2>2. ASSUME UNCHANGED MessagesPart!vars
        PROVE  Keeping'
    <3>1. UNCHANGED <<x1, x2, x3, x4, x5, x6>>
      BY <2>2 DEF MessagesPart!vars
    <3> QED
      BY <2>1, <3>1, DraftsDoNotMatter DEF Keeping, MessagesPart!TypeOK
  <2> QED
    BY <2>1, <2>2, KeepingStep
<1>3. I => SavedMessagesAreKept
  BY DEF Keeping, MessagesPart!ColumnsAreLast, SavedMessagesAreKept, MessagesPart!SavedMessagesAreKept,
         MessagesPart!Told
<1> QED
  BY <1>1, <1>2, <1>3, PTL DEF ScreensSpec

-----------------------------------------------------------------------------
(* Views *)

Viewing == ViewsPart!TypeOK /\ ViewsPart!LastOneTells

LEMMA ViewingBegins ==
    ASSUME ViewsPart!Init
    PROVE  Viewing
<1>1. /\ x2 \in Params /\ x1 \in ViewsPart!Kinds
      /\ x4 = Null /\ x5 = FALSE /\ x8 = Null /\ x9 = 0 /\ x10 = 0 /\ x11 = FALSE
      /\ x3 = ViewsPart!Pauses
      /\ x6 = (IF ViewsPart!Pauses THEN 0 ELSE 1)
      /\ x7 = (IF ViewsPart!Pauses THEN {} ELSE {ViewsPart!Request(1, x2)})
  BY DEF ViewsPart!Init
<1>2. ViewsPart!Request(1, x2) \in [id: Nat, param: Params, rev: (0..ViewActs) \cup {Null}]
      /\ ViewsPart!Request(1, x2).id = 1 /\ ViewsPart!Request(1, x2).param = x2
      /\ ViewsPart!Request(1, x2).rev = Null
  BY <1>1 DEF ViewsPart!Request
<1>3. ViewsPart!Pauses \in BOOLEAN
  BY DEF ViewsPart!Pauses
<1>4. x3 \in BOOLEAN /\ x5 \in BOOLEAN /\ x11 \in BOOLEAN
  BY <1>1, <1>3
<1>5. /\ x6 \in Nat /\ x7 \subseteq [id: Nat, param: Params, rev: (0..ViewActs) \cup {Null}]
      /\ x9 \in 0..ViewActs /\ x10 \in 0..ViewActs
  BY <1>1, <1>2, ScreensAssumption
<1>6. ViewsPart!TypeOK
  BY <1>1, <1>4, <1>5 DEF ViewsPart!TypeOK
<1>7. ViewsPart!LastOneTells
  BY <1>1, <1>2 DEF ViewsPart!LastOneTells
<1> QED
  BY <1>6, <1>7 DEF Viewing

\* What is known of a state.
LEMMA ViewTypes ==
    ASSUME Viewing
    PROVE  /\ x1 \in ViewsPart!Kinds /\ x2 \in Params /\ x3 \in BOOLEAN /\ x5 \in BOOLEAN
           /\ x4 \in ViewsPart!Answer \cup {Null} /\ x6 \in Nat
           /\ x7 \subseteq [id: Nat, param: Params, rev: (0..ViewActs) \cup {Null}]
           /\ \A f \in x7 : f.id \in Nat /\ f.param \in Params /\ f.rev \in (0..ViewActs) \cup {Null} /\ f.id <= x6
           /\ x8 \in Params \cup {Null} /\ x9 \in Nat /\ x9 <= ViewActs /\ x10 \in Nat /\ x10 <= ViewActs
           /\ ViewActs \in Nat /\ x11 \in BOOLEAN
           /\ x9 + (IF x8 = Null THEN 0 ELSE 1) <= x10
BY ScreensAssumption DEF Viewing, ViewsPart!TypeOK, ViewsPart!LastOneTells

LEMMA RequestIs ==
    ASSUME NEW id \in Nat, NEW p \in Params
    PROVE  /\ ViewsPart!Request(id, p) \in [id: Nat, param: Params, rev: (0..ViewActs) \cup {Null}]
           /\ ViewsPart!Request(id, p).id = id /\ ViewsPart!Request(id, p).param = p
           /\ ViewsPart!Request(id, p).rev = Null
BY DEF ViewsPart!Request

LEMMA ViewChooses ==
    ASSUME Viewing, NEW p \in Params, ViewsPart!Choose(p)
    PROVE  Viewing'
<1> DEFINE new == ViewsPart!Request(x6 + 1, p)
<1>1. /\ x2' = p /\ x6' = x6 + 1 /\ x5' = FALSE /\ x3' = ViewsPart!Pauses
      /\ x7' = (IF ViewsPart!Pauses THEN x7 ELSE x7 \cup {new})
      /\ UNCHANGED <<x1, x4, x8, x9, x11>> /\ x10' = x10 + 1 /\ x10 < ViewActs
  BY DEF ViewsPart!Choose, ViewsPart!Act
<1>2. new \in [id: Nat, param: Params, rev: (0..ViewActs) \cup {Null}] /\ new.id = x6 + 1 /\ new.param = p /\ new.rev = Null
  BY ViewTypes, RequestIs
<1> HIDE DEF new
<1>3. \A f \in x7' : f.id <= x6'
  BY <1>1, <1>2, ViewTypes
<1>4. ViewsPart!TypeOK'
  <2>1. ViewsPart!Pauses \in BOOLEAN
    BY DEF ViewsPart!Pauses
  <2>2. x3' \in BOOLEAN /\ x5' \in BOOLEAN /\ x11' \in BOOLEAN
    BY <1>1, <2>1, ViewTypes
  <2>3. x7' \subseteq [id: Nat, param: Params, rev: (0..ViewActs) \cup {Null}] /\ x6' \in Nat /\ x10' \in 0..ViewActs
        /\ x9 \in 0..ViewActs
    BY <1>1, <1>2, ViewTypes
  <2> QED
    BY <1>1, <2>2, <2>3, ViewTypes DEF ViewsPart!TypeOK
<1>5. ViewsPart!Pauses' <=> ViewsPart!Pauses
  BY <1>1 DEF ViewsPart!Pauses
<1>6. ASSUME ~x3'
      PROVE  /\ \A f \in x7' : f.id = x6' => f.param = x2' /\ f.rev = Null
             /\ \E f \in x7' : f.id = x6'
  <2>1. x7' = x7 \cup {new}
    BY <1>1, <1>6
  <2> QED
    BY <1>1, <1>2, <2>1, ViewTypes
<1>7. x9' + (IF x8' = Null THEN 0 ELSE 1) <= x10'
  BY <1>1, ViewTypes
<1>8. ViewsPart!Pauses' \/ ~x3'
  BY <1>1, <1>5
<1>9. ViewsPart!LastOneTells'
  BY <1>3, <1>6, <1>7, <1>8 DEF ViewsPart!LastOneTells
<1> QED
  BY <1>4, <1>9 DEF Viewing

LEMMA ViewPauses ==
    ASSUME Viewing, ViewsPart!PauseOver
    PROVE  Viewing'
<1> DEFINE new == ViewsPart!Request(x6 + 1, x2)
<1>1. /\ x3' = FALSE /\ x6' = x6 + 1 /\ x5' = FALSE /\ x7' = x7 \cup {new}
      /\ UNCHANGED <<x1, x2, x4, x8, x9, x10, x11>>
  BY DEF ViewsPart!PauseOver
<1>2. new \in [id: Nat, param: Params, rev: (0..ViewActs) \cup {Null}] /\ new.id = x6 + 1 /\ new.param = x2 /\ new.rev = Null
  BY ViewTypes, RequestIs
<1> HIDE DEF new
<1>3. \A f \in x7' : f.id <= x6'
  BY <1>1, <1>2, ViewTypes
<1>4. ViewsPart!TypeOK'
  <2>1. x3' \in BOOLEAN /\ x5' \in BOOLEAN /\ x11' \in BOOLEAN
    BY <1>1, ViewTypes
  <2>2. x7' \subseteq [id: Nat, param: Params, rev: (0..ViewActs) \cup {Null}] /\ x6' \in Nat
    BY <1>1, <1>2, ViewTypes
  <2> QED
    BY <1>1, <2>1, <2>2 DEF Viewing, ViewsPart!TypeOK
<1>5. /\ \A f \in x7' : f.id = x6' => f.param = x2' /\ f.rev = Null
      /\ \E f \in x7' : f.id = x6'
  BY <1>1, <1>2, ViewTypes
<1>6. ViewsPart!LastOneTells'
  BY <1>1, <1>3, <1>5, ViewTypes DEF ViewsPart!LastOneTells
<1> QED
  BY <1>4, <1>6 DEF Viewing

\* An action begins or comes to nothing: the requests stay.
LEMMA ViewActing ==
    ASSUME Viewing, ViewsPart!BeginAction \/ ViewsPart!ActionFails
    PROVE  Viewing'
<1>1. /\ UNCHANGED <<x1, x2, x3, x4, x5, x6, x7, x9, x11>> /\ x8' \in Params \cup {Null}
      /\ \/ x10' = x10 + 1 /\ x10 < ViewActs /\ x8 = Null
         \/ x10' = x10 /\ x8' = Null
  BY ViewTypes DEF ViewsPart!BeginAction, ViewsPart!ActionFails, ViewsPart!Act
<1>2. x10' \in 0..ViewActs /\ x9' + (IF x8' = Null THEN 0 ELSE 1) <= x10'
  BY <1>1, ViewTypes
<1>3. ViewsPart!TypeOK'
  BY <1>1, <1>2, ViewTypes DEF Viewing, ViewsPart!TypeOK
<1>4. ViewsPart!LastOneTells'
  BY <1>1, <1>2 DEF Viewing, ViewsPart!LastOneTells, ViewsPart!Pauses
<1> QED
  BY <1>3, <1>4 DEF Viewing

\* An action ends: the last of what is loaded is for what is shown then, or the view
\* has gone astray.
LEMMA ViewReloads ==
    ASSUME Viewing, ViewsPart!EndAction
    PROVE  Viewing'
<1> DEFINE R == ViewsPart!Reloaded
           N == Len(R)
           Of(i) == ViewsPart!Request(x6 + i, R[i])
<1>1. /\ x8 # Null /\ x8' = Null /\ x9' = x9 + 1 /\ x6' = x6 + N /\ x5' = FALSE
      /\ x7' = x7 \cup {Of(i) : i \in DOMAIN R}
      /\ x11' = (x11 \/ R[N] # x2) /\ UNCHANGED <<x1, x2, x3, x4, x10>>
  BY DEF ViewsPart!EndAction
<1>2. N \in {1, 2} /\ DOMAIN R = 1..N /\ \A i \in 1..N : R[i] \in Params
  <2>1. x8 \in Params /\ x2 \in Params
    BY <1>1, ViewTypes
  <2>2. CASE x1 = "tasks"
    <3>1. R = <<x2, x8>>
      BY <2>2 DEF ViewsPart!Reloaded
    <3> HIDE DEF R
    <3> QED
      BY <2>1, <3>1
  <2>3. CASE x1 # "tasks"
    <3>1. PICK p \in Params : R = <<p>>
      BY <2>1, <2>3 DEF ViewsPart!Reloaded
    <3> HIDE DEF R
    <3> QED
      BY <3>1
  <2> QED
    BY <2>2, <2>3
<1>3. \A i \in 1..N : /\ Of(i) \in [id: Nat, param: Params, rev: (0..ViewActs) \cup {Null}]
                      /\ Of(i).id = x6 + i /\ Of(i).param = R[i] /\ Of(i).rev = Null
  <2> TAKE i \in 1..N
  <2>1. x6 + i \in Nat /\ R[i] \in Params
    BY <1>2, ViewTypes
  <2> QED
    BY <2>1, RequestIs
<1> HIDE DEF R, N, Of
<1>4. \A f \in x7' : f.id <= x6'
  BY <1>1, <1>2, <1>3, ViewTypes
<1>5. x9' \in 0..ViewActs /\ x9' + 0 <= x10'
  BY <1>1, ViewTypes
<1>6. x7' \subseteq [id: Nat, param: Params, rev: (0..ViewActs) \cup {Null}] /\ x6' \in Nat
  BY <1>1, <1>2, <1>3, ViewTypes
<1>7. ViewsPart!TypeOK'
  <2>1. x3' \in BOOLEAN /\ x5' \in BOOLEAN
    BY <1>1, ViewTypes
  <2>2. x11' \in BOOLEAN
    BY <1>1
  <2> QED
    BY <1>1, <1>5, <1>6, <2>1, <2>2 DEF Viewing, ViewsPart!TypeOK
<1>8. ASSUME ~x11'
      PROVE  /\ \A f \in x7' : f.id = x6' => f.param = x2' /\ f.rev = Null
             /\ \E f \in x7' : f.id = x6'
  <2>1. N \in 1..N /\ R[N] = x2
    <3>1. R[N] = x2
      BY <1>1, <1>8
    <3> QED
      BY <1>2, <3>1
  <2>2. Of(N) \in x7' /\ Of(N).id = x6'
    BY <1>1, <1>2, <1>3, <2>1
  <2>3. ASSUME NEW f \in x7', f.id = x6'
        PROVE  f.param = x2 /\ f.rev = Null
    <3>1. f \notin x7
      BY <1>1, <1>2, <2>3, ViewTypes
    <3>2. PICK i \in 1..N : f = Of(i)
      BY <1>1, <1>2, <3>1
    <3>3. i = N
      BY <1>1, <1>2, <1>3, <2>3, <3>2, ViewTypes
    <3> QED
      BY <1>3, <2>1, <3>2, <3>3
  <2> QED
    BY <1>1, <2>2, <2>3
<1>9. ViewsPart!LastOneTells'
  <2>1. ViewsPart!Pauses' \/ ~x3'
    BY <1>1 DEF Viewing, ViewsPart!LastOneTells, ViewsPart!Pauses
  <2> QED
    BY <1>1, <1>4, <1>5, <1>8, <2>1 DEF ViewsPart!LastOneTells
<1> QED
  BY <1>7, <1>9 DEF Viewing

LEMMA ViewServed ==
    ASSUME Viewing, NEW f \in x7, ViewsPart!Serve(f)
    PROVE  Viewing'
<1> DEFINE new == [f EXCEPT !.rev = x9]
<1>1. x7' = (x7 \ {f}) \cup {new} /\ UNCHANGED <<x1, x2, x3, x4, x5, x6, x8, x9, x10, x11>>
  BY DEF ViewsPart!Serve
<1>2. new \in [id: Nat, param: Params, rev: (0..ViewActs) \cup {Null}] /\ new.id = f.id /\ new.param = f.param /\ new.rev = x9
  <2>1. f \in [id: Nat, param: Params, rev: (0..ViewActs) \cup {Null}] /\ x9 \in 0..ViewActs
    BY ViewTypes
  <2> QED
    BY <2>1
<1> HIDE DEF new
<1>3. ViewsPart!TypeOK'
  BY <1>1, <1>2 DEF Viewing, ViewsPart!TypeOK
<1>4. ViewsPart!LastOneTells'
  <2>1. \A g \in x7' : g \in x7 \/ (g = new /\ f \in x7)
    BY <1>1
  <2>2. \A g \in x7' : g.id <= x6'
    BY <1>1, <1>2, <2>1 DEF Viewing, ViewsPart!LastOneTells
  <2>3. (\E g \in x7 : g.id = x6) => \E g \in x7' : g.id = x6'
    BY <1>1, <1>2
  <2>4. (~x11 /\ ~x3) => \A g \in x7' : g.id = x6' => g.param = x2' /\ g.rev \in {Null, x9'}
    BY <1>1, <1>2, <2>1 DEF Viewing, ViewsPart!LastOneTells
  <2>5. ViewsPart!Pauses' <=> ViewsPart!Pauses
    BY <1>1 DEF ViewsPart!Pauses
  <2> QED
    BY <1>1, <2>2, <2>3, <2>4, <2>5 DEF Viewing, ViewsPart!LastOneTells
<1> QED
  BY <1>3, <1>4 DEF Viewing

LEMMA ViewAnswered ==
    ASSUME Viewing, NEW f \in x7, ViewsPart!Arrive(f) \/ ViewsPart!LoadFails(f)
    PROVE  Viewing'
<1>1. /\ x7' = x7 \ {f} /\ UNCHANGED <<x1, x2, x3, x6, x8, x9, x10>>
  BY DEF ViewsPart!Arrive, ViewsPart!LoadFails
<1>2. /\ f.id \in Nat /\ f.param \in Params /\ f.rev \in (0..ViewActs) \cup {Null}
  BY ViewTypes
<1>3. x4' \in ViewsPart!Answer \cup {Null} /\ x5' \in BOOLEAN /\ x11' \in BOOLEAN
  <2>1. CASE ViewsPart!Arrive(f)
    <3>1. [param |-> f.param, rev |-> f.rev] \in ViewsPart!Answer
      BY <1>2, <2>1 DEF ViewsPart!Arrive, ViewsPart!Answer
    <3>2. x4' \in ViewsPart!Answer \cup {Null}
      BY <2>1, <3>1, ViewTypes DEF ViewsPart!Arrive
    <3>3. x5' = (x5 /\ ~ViewsPart!Counts(f)) /\ x11' = (x11 \/ (~ViewsPart!Guarded /\ f.id # x6))
      BY <2>1 DEF ViewsPart!Arrive
    <3>4. x5' \in BOOLEAN /\ x11' \in BOOLEAN
      BY ONLY <3>3
    <3> QED
      BY <3>2, <3>4
  <2>2. CASE ViewsPart!LoadFails(f)
    <3>1. x5' = (x5 \/ ViewsPart!Counts(f)) /\ x4' = x4 /\ x11' = x11
      BY <2>2 DEF ViewsPart!LoadFails
    <3>2. x5' \in BOOLEAN
      BY ONLY <3>1
    <3> QED
      BY <3>1, <3>2, ViewTypes
  <2> QED
    BY <2>1, <2>2
<1>4. ViewsPart!TypeOK'
  BY <1>1, <1>3 DEF Viewing, ViewsPart!TypeOK
<1>5. ASSUME ~x11', ~x3
      PROVE  x5' = TRUE \/ x4' = [param |-> x2, rev |-> x9] \/ \E g \in x7' : g.id = x6
  <2>1. /\ ~x11
        /\ \A g \in x7 : g.id = x6 => g.param = x2 /\ g.rev \in {Null, x9}
        /\ x5 = TRUE \/ x4 = [param |-> x2, rev |-> x9] \/ \E g \in x7 : g.id = x6
    BY <1>5 DEF Viewing, ViewsPart!TypeOK, ViewsPart!LastOneTells, ViewsPart!Arrive, ViewsPart!LoadFails
  <2>2. CASE f.id = x6
    <3>1. ViewsPart!Counts(f)
      BY <2>2 DEF ViewsPart!Counts
    <3>2. CASE ViewsPart!Arrive(f)
      BY <2>1, <2>2, <3>1, <3>2 DEF ViewsPart!Arrive
    <3>3. CASE ViewsPart!LoadFails(f)
      BY <3>1, <3>3 DEF ViewsPart!LoadFails
    <3> QED
      BY <3>2, <3>3
  <2>3. CASE f.id # x6
    <3>1. (\E g \in x7 : g.id = x6) => \E g \in x7' : g.id = x6
      BY <1>1, <2>3
    <3>2. CASE ViewsPart!Counts(f)
      <4>1. ~ViewsPart!Guarded
        BY <2>3, <3>2 DEF ViewsPart!Counts
      <4>2. ViewsPart!LoadFails(f)
        BY <1>5, <2>3, <4>1 DEF ViewsPart!Arrive
      <4> QED
        BY <3>2, <4>2 DEF ViewsPart!LoadFails
    <3>3. CASE ~ViewsPart!Counts(f)
      <4>1. x4' = x4 /\ (x5 = TRUE => x5' = TRUE)
        BY <3>3 DEF ViewsPart!Arrive, ViewsPart!LoadFails
      <4> QED
        BY <2>1, <3>1, <4>1
    <3> QED
      BY <3>2, <3>3
  <2> QED
    BY <2>2, <2>3
<1>6. ViewsPart!LastOneTells'
  <2>1. ViewsPart!Pauses' <=> ViewsPart!Pauses
    BY <1>1 DEF ViewsPart!Pauses
  <2>2. ~x11' => ~x11
    BY DEF ViewsPart!Arrive, ViewsPart!LoadFails
  <2>3. \A g \in x7' : g \in x7
    BY <1>1
  <2> QED
    BY <1>1, <1>5, <2>1, <2>2, <2>3 DEF Viewing, ViewsPart!LastOneTells
<1> QED
  BY <1>4, <1>6 DEF Viewing

LEMMA ViewStays ==
    ASSUME Viewing, UNCHANGED ViewsPart!vars
    PROVE  Viewing'
<1>1. UNCHANGED <<x1, x2, x3, x4, x5, x6, x7, x8, x9, x10, x11>>
  BY DEF ViewsPart!vars
<1> QED
  BY <1>1 DEF Viewing, ViewsPart!TypeOK, ViewsPart!LastOneTells, ViewsPart!Pauses

LEMMA ViewStep ==
    ASSUME Viewing, ViewsPart!Next
    PROVE  Viewing'
BY ViewChooses, ViewPauses, ViewActing, ViewReloads, ViewServed, ViewAnswered DEF ViewsPart!Next

LEMMA ViewTells ==
    ASSUME Viewing
    PROVE  ViewsPart!ViewShowsWhatIsAsked
BY DEF Viewing, ViewsPart!LastOneTells, ViewsPart!ViewShowsWhatIsAsked

-----------------------------------------------------------------------------
(* PagedList *)

LEMMA MaxOfTwo ==
    ASSUME NEW a \in Int, NEW b \in Int
    PROVE  /\ PagedListPart!Max({a, b}) \in {a, b}
           /\ PagedListPart!Max({a, b}) >= a /\ PagedListPart!Max({a, b}) >= b
<1>1. \E x \in {a, b} : \A y \in {a, b} : x >= y
  OBVIOUS
<1> QED
  BY <1>1 DEF PagedListPart!Max

LEMMA MinOfTwo ==
    ASSUME NEW a \in Int, NEW b \in Int
    PROVE  /\ PagedListPart!Min({a, b}) \in {a, b}
           /\ PagedListPart!Min({a, b}) <= a /\ PagedListPart!Min({a, b}) <= b
<1>1. \E x \in {a, b} : \A y \in {a, b} : x <= y
  OBVIOUS
<1> QED
  BY <1>1 DEF PagedListPart!Min

\* The pages of n rows: one at least, more for more rows, and none begins behind them.
LEMMA PagesOfRows ==
    ASSUME NEW n \in 0..ListRows
    PROVE  /\ PagedListPart!LastPage(n) \in PagedListPart!Pages
           /\ \A p \in Nat : p > 1 /\ n <= (p - 1) * RowsOnPage => PagedListPart!LastPage(n) <= p - 1
<1> DEFINE S == RowsOnPage
           q(k) == (k + S - 1) \div S
<1>1. S \in Nat /\ S >= 1 /\ ListRows \in Nat /\ n \in Nat /\ n <= ListRows
  BY ScreensAssumption
<1>2. \A k \in Nat : q(k) \in Nat /\ S * q(k) <= k + S - 1 /\ k + S - 1 < S * (q(k) + 1)
  BY <1>1
<1>3. \A k \in Nat : /\ PagedListPart!LastPage(k) \in {1, q(k)}
                     /\ PagedListPart!LastPage(k) >= 1 /\ PagedListPart!LastPage(k) >= q(k)
  <2> SUFFICES ASSUME NEW k \in Nat
               PROVE  /\ PagedListPart!LastPage(k) \in {1, q(k)}
                      /\ PagedListPart!LastPage(k) >= 1 /\ PagedListPart!LastPage(k) >= q(k)
    OBVIOUS
  <2>1. PagedListPart!LastPage(k) = PagedListPart!Max({1, q(k)})
    BY DEF PagedListPart!LastPage
  <2>2. q(k) \in Int /\ 1 \in Int
    BY <1>2
  <2> HIDE DEF q
  <2>3. /\ PagedListPart!Max({1, q(k)}) \in {1, q(k)}
        /\ PagedListPart!Max({1, q(k)}) >= 1 /\ PagedListPart!Max({1, q(k)}) >= q(k)
    BY ONLY <2>2, MaxOfTwo
  <2> QED
    BY <2>1, <2>3
<1> HIDE DEF q
<1>4. q(n) <= q(ListRows)
  <2> SUFFICES ASSUME q(n) >= q(ListRows) + 1
               PROVE  FALSE
    BY <1>1, <1>2
  <2>1. S * q(n) >= S * (q(ListRows) + 1)
    BY <1>1, <1>2
  <2>2. S * q(n) \in Nat /\ S * (q(ListRows) + 1) \in Nat
    BY <1>1, <1>2
  <2> QED
    BY <1>1, <1>2, <2>1, <2>2
<1>5. PagedListPart!LastPage(n) \in PagedListPart!Pages
  BY <1>1, <1>2, <1>3, <1>4 DEF PagedListPart!Pages
<1>6. ASSUME NEW p \in Nat, p > 1, n <= (p - 1) * S
      PROVE  PagedListPart!LastPage(n) <= p - 1
  <2>1. q(n) <= p - 1
    <3> SUFFICES ASSUME q(n) >= p
                 PROVE  FALSE
      BY <1>1, <1>2, <1>6
    <3>1. S * q(n) >= S * p
      <4>1. q(n) \in Nat
        BY <1>1, <1>2
      <4>2. PICK d \in Nat : q(n) = p + d
        BY <1>6, <4>1
      <4>3. S * (p + d) = S * p + S * d /\ S * d >= 0 /\ S * p \in Nat /\ S * d \in Nat
        BY <1>1, <1>6
      <4> QED
        BY <4>2, <4>3
    <3>2. S * p = (p - 1) * S + S
      BY <1>1, <1>6
    <3>3. S * q(n) \in Nat /\ S * p \in Nat /\ (p - 1) * S \in Nat
      BY <1>1, <1>2, <1>6
    <3> QED
      BY <1>1, <1>2, <1>6, <3>1, <3>2, <3>3
  <2> QED
    BY <1>1, <1>2, <1>3, <1>6, <2>1
<1> QED
  BY <1>5, <1>6

\* What is known of a state.
ListingFits ==
    /\ x1 \in [Searches -> 0..ListRows] /\ x2 \in PagedListPart!Url /\ x3 \in Searches
    /\ x4 \in PagedListPart!Page \cup {Null}
    /\ x5 \in Nat /\ x6 \in BOOLEAN /\ x7 \in BOOLEAN
    /\ x8 \subseteq [id: Nat, url: PagedListPart!Url, count: (0..ListRows) \cup {Null},
                     rows: (0..RowsOnPage) \cup {Null}]
    /\ x9 \in PagedListPart!Pages \cup {Null} /\ x10 \in PagedListPart!Url \cup {Null}
    /\ x11 \in Nat /\ x11 <= ListActs /\ x12 \in Nat /\ x12 <= ListChanges
    /\ x13 \in PagedListPart!Pages /\ x14 \in PagedListPart!Pages /\ x15 \in BOOLEAN

Listing == ListingFits /\ PagedListPart!LastIsOne /\ PagedListPart!LastIsWanted

LEMMA PagesAre == PagedListPart!Pages \subseteq Nat \ {0} /\ 1 \in PagedListPart!Pages
                  /\ \A p \in PagedListPart!Pages : p > 1 => p - 1 \in PagedListPart!Pages
<1>1. PagedListPart!LastPage(ListRows) \in Int /\ PagedListPart!LastPage(ListRows) >= 1
  <2>1. (ListRows + RowsOnPage - 1) \div RowsOnPage \in Int
    BY ScreensAssumption
  <2> QED
    BY <2>1, MaxOfTwo DEF PagedListPart!LastPage
<1> QED
  BY <1>1 DEF PagedListPart!Pages

\* A row count of the list, and what a page of it holds.
LEMMA RowsAre ==
    ASSUME ListingFits, NEW to \in PagedListPart!Url
    PROVE  /\ PagedListPart!RowsOf(to) \in 0..RowsOnPage
           /\ x1[to.search] \in 0..ListRows
           /\ PagedListPart!LastPage(x1[to.search]) \in PagedListPart!Pages
           /\ PagedListPart!RowsOf(to) = 0 /\ to.page > 1 => PagedListPart!LastPage(x1[to.search]) <= to.page - 1
<1>1. to.page \in Nat /\ to.page >= 1 /\ to.search \in Searches
  <2>1. to.page \in PagedListPart!Pages /\ to.search \in Searches
    BY DEF PagedListPart!Url
  <2>2. to.page \in Nat \ {0}
    BY <2>1, PagesAre
  <2> QED
    BY <2>1, <2>2
<1>2. x1[to.search] \in 0..ListRows
  BY <1>1 DEF ListingFits
<1>3. RowsOnPage \in Nat /\ RowsOnPage >= 1 /\ ListRows \in Nat
  BY ScreensAssumption
<1> DEFINE before == (to.page - 1) * RowsOnPage
           rest == x1[to.search] - before
<1>4. before \in Nat /\ rest \in Int /\ x1[to.search] \in Nat /\ (rest <= 0 => x1[to.search] <= before)
  <2>1. before \in Nat
    BY <1>1, <1>3
  <2> QED
    BY <1>2, <1>3, <2>1
<1>5. PagedListPart!RowsOf(to) = PagedListPart!Max({0, PagedListPart!Min({RowsOnPage, rest})})
  BY DEF PagedListPart!RowsOf
<1> HIDE DEF rest
<1>6. PagedListPart!Min({RowsOnPage, rest}) \in {RowsOnPage, rest} /\ PagedListPart!Min({RowsOnPage, rest}) <= RowsOnPage
      /\ PagedListPart!Min({RowsOnPage, rest}) <= rest
  <2>1. RowsOnPage \in Int /\ rest \in Int
    BY <1>3, <1>4
  <2> QED
    BY ONLY <2>1, MinOfTwo
<1>7. PagedListPart!RowsOf(to) \in 0..RowsOnPage /\ (PagedListPart!RowsOf(to) = 0 => rest <= 0)
  <2>1. PICK m \in {RowsOnPage, rest} : m = PagedListPart!Min({RowsOnPage, rest})
    BY <1>6
  <2>2. m \in Int /\ m <= RowsOnPage /\ m <= rest
    BY <1>3, <1>4, <1>6, <2>1
  <2>3. PagedListPart!Max({0, m}) \in {0, m} /\ PagedListPart!Max({0, m}) >= 0 /\ PagedListPart!Max({0, m}) >= m
    BY <2>2, MaxOfTwo
  <2> QED
    BY <1>3, <1>4, <1>5, <2>1, <2>2, <2>3
<1>8. /\ PagedListPart!LastPage(x1[to.search]) \in PagedListPart!Pages
      /\ to.page > 1 /\ x1[to.search] <= before => PagedListPart!LastPage(x1[to.search]) <= to.page - 1
  BY <1>1, <1>2, PagesOfRows
<1> QED
  BY <1>2, <1>4, <1>7, <1>8

\* The last request, and what is known of it.
LEMMA LastIs ==
    ASSUME Listing, NEW f \in x8, f.id = x5
    PROVE  /\ x6 /\ \A g \in x8 : g.id = x5 => g = f
           /\ ~x15 => /\ f.url = x2 /\ (f.count # Null => x14 <= PagedListPart!LastPage(f.count))
                      /\ (f.rows = 0 /\ x2.page > 1) => x14 <= x2.page - 1
<1>1. f \in PagedListPart!Last
  BY DEF PagedListPart!Last
<1>2. x6 /\ \A g \in PagedListPart!Last : g = f
  BY <1>1 DEF Listing, PagedListPart!LastIsOne
<1> QED
  BY <1>1, <1>2 DEF Listing, PagedListPart!LastIsWanted, PagedListPart!Last

\* The page an adjustment asks for is one of the list, and before the one it leaves.
LEMMA AdjustIs ==
    ASSUME NEW shown \in PagedListPart!Page, NEW to \in PagedListPart!Url, to.page > 1
    PROVE  LET p == PagedListPart!Min({to.page - 1, shown.totalPages})
           IN  /\ p \in PagedListPart!Pages /\ p < to.page
               /\ p \in {to.page - 1, shown.totalPages}
<1>1. to.page \in PagedListPart!Pages /\ shown.totalPages \in PagedListPart!Pages
  BY DEF PagedListPart!Page, PagedListPart!Url
<1>2. to.page \in Nat /\ shown.totalPages \in Nat /\ to.page - 1 \in PagedListPart!Pages
  BY <1>1, PagesAre
<1>3. to.page - 1 \in Int /\ shown.totalPages \in Int
  BY <1>2
<1> DEFINE p == PagedListPart!Min({to.page - 1, shown.totalPages})
<1>4. p \in {to.page - 1, shown.totalPages} /\ p <= to.page - 1
  BY <1>3, MinOfTwo
<1> HIDE DEF p
<1>5. p \in PagedListPart!Pages /\ p < to.page
  BY <1>1, <1>2, <1>4
<1> QED
  BY <1>4, <1>5 DEF p

\* The page that is wanted, and the fewest pages there were.
LEMMA FarDown ==
    ASSUME NEW p \in PagedListPart!Pages, NEW a \in PagedListPart!Pages, NEW b \in PagedListPart!Pages
    PROVE  (p >= PagedListPart!Min({a, b})) <=> (p >= a \/ p >= b)
<1>1. p \in Int /\ a \in Int /\ b \in Int
  BY PagesAre
<1> DEFINE m == PagedListPart!Min({a, b})
<1>2. m \in {a, b} /\ m <= a /\ m <= b
  BY ONLY <1>1, MinOfTwo
<1> HIDE DEF m
<1>3. (p >= m) <=> (p >= a \/ p >= b)
  BY <1>1, <1>2
<1> QED
  BY <1>3 DEF m

LEMMA Fewer ==
    ASSUME NEW a \in PagedListPart!Pages, NEW b \in PagedListPart!Pages
    PROVE  /\ PagedListPart!Min({a, b}) \in PagedListPart!Pages
           /\ PagedListPart!Min({a, b}) <= a /\ PagedListPart!Min({a, b}) <= b
<1>1. a \in Int /\ b \in Int
  BY PagesAre
<1>2. /\ PagedListPart!Min({a, b}) \in {a, b}
      /\ PagedListPart!Min({a, b}) <= a /\ PagedListPart!Min({a, b}) <= b
  BY ONLY <1>1, MinOfTwo
<1> QED
  BY <1>2

LEMMA ListingBegins ==
    ASSUME PagedListPart!Init
    PROVE  Listing
<1> DEFINE first == [id |-> 1, url |-> x2, count |-> Null, rows |-> Null]
<1>1. /\ x1 = [s \in Searches |-> ListRows] /\ x2 \in [page: PagedListPart!Pages, search: {Nothing}]
      /\ x3 = Nothing /\ x4 = Null /\ x7 = FALSE /\ x5 = 1 /\ x6 = TRUE /\ x8 = {first}
      /\ x9 = Null /\ x10 = Null /\ x11 = 0 /\ x12 = 0 /\ x13 = x2.page
      /\ x14 = PagedListPart!LastPage(x1[x2.search]) /\ x15 = FALSE
  BY DEF PagedListPart!Init
<1>2. x2 \in PagedListPart!Url /\ Nothing \in Searches
  BY <1>1, ScreensAssumption DEF PagedListPart!Url
<1>3. /\ first.id = 1 /\ first.url = x2 /\ first.count = Null /\ first.rows = Null
      /\ first \in [id: Nat, url: PagedListPart!Url, count: (0..ListRows) \cup {Null},
                    rows: (0..RowsOnPage) \cup {Null}]
  BY <1>2
<1> HIDE DEF first
<1>4. x1[x2.search] \in 0..ListRows /\ x2.page \in PagedListPart!Pages /\ x1 \in [Searches -> 0..ListRows]
  <2>1. ListRows \in 0..ListRows
    BY ScreensAssumption
  <2> QED
    BY <1>1, <1>2, <2>1 DEF PagedListPart!Url
<1>5. x14 \in PagedListPart!Pages
  BY <1>1, <1>4, PagesOfRows
<1>6. ListingFits
  <2>1. 0 <= ListActs /\ 0 <= ListChanges
    BY ScreensAssumption
  <2>2. x5 \in Nat /\ x11 \in Nat /\ x11 <= ListActs /\ x12 \in Nat /\ x12 <= ListChanges
    BY <1>1, <2>1
  <2>3. x6 \in BOOLEAN /\ x7 \in BOOLEAN /\ x15 \in BOOLEAN
    BY <1>1
  <2> QED
    BY <1>1, <1>2, <1>3, <1>4, <1>5, <2>2, <2>3 DEF ListingFits
<1>7. PagedListPart!LastIsOne
  <2>1. PagedListPart!Last = {first}
    BY <1>1, <1>3 DEF PagedListPart!Last
  <2>2. x14 <= PagedListPart!LastPage(x1[x2.search])
    BY <1>1, <1>5, PagesAre
  <2> QED
    BY <1>1, <1>3, <2>1, <2>2 DEF PagedListPart!LastIsOne
<1>8. PagedListPart!LastIsWanted
  <2>1. PagedListPart!NeverTooFarDown
    BY <1>1, <1>4, <1>5, FarDown, PagesAre DEF PagedListPart!NeverTooFarDown
  <2>2. \A f \in PagedListPart!Last : f.url = x2 /\ f.count = Null /\ f.rows # 0
    BY <1>1, <1>3, NullAssumption, ScreensAssumption DEF PagedListPart!Last
  <2> QED
    BY <1>1, <2>1, <2>2 DEF PagedListPart!LastIsWanted, PagedListPart!PageIsEmpty
<1> QED
  BY <1>6, <1>7, <1>8 DEF Listing

\* An adjustment types, whatever the render had.
LEMMA Adjusts ==
    ASSUME NEW isLoading, NEW shown \in PagedListPart!Page \cup {Null}, NEW to \in PagedListPart!Url,
           PagedListPart!Adjust(isLoading, shown, to)
    PROVE  /\ x9' \in PagedListPart!Pages \cup {Null}
           /\ IF PagedListPart!PageIsEmpty(isLoading, shown, to)
              THEN x9' \in {to.page - 1, shown.totalPages} /\ x9' < to.page /\ x9' # Null
              ELSE x9' = Null
<1>1. CASE PagedListPart!PageIsEmpty(isLoading, shown, to)
  <2>1. shown \in PagedListPart!Page /\ to.page > 1
    BY <1>1 DEF PagedListPart!PageIsEmpty
  <2>2. x9' = PagedListPart!Min({to.page - 1, shown.totalPages})
    BY <1>1 DEF PagedListPart!Adjust
  <2>3. Null \notin PagedListPart!Pages
    BY NullAssumption
  <2>4. x9' \in PagedListPart!Pages /\ x9' < to.page /\ x9' \in {to.page - 1, shown.totalPages}
    BY <2>1, <2>2, AdjustIs
  <2> QED
    BY <1>1, <2>3, <2>4
<1>2. CASE ~PagedListPart!PageIsEmpty(isLoading, shown, to)
  BY <1>2 DEF PagedListPart!Adjust
<1> QED
  BY <1>1, <1>2

\* To another address: one request more, the last one; nothing is adjusted, as what
\* is on the screen is of the address that is left.
LEMMA Moves ==
    ASSUME Listing, NEW to \in PagedListPart!Url, to # x2, PagedListPart!GoTo(to),
           x9 # Null => to.page = x9,
           x3' \in Searches, x11' \in Nat, x11' <= ListActs, UNCHANGED x12,
           x13' \in PagedListPart!Pages, x14' \in PagedListPart!Pages,
           x14' <= PagedListPart!LastPage(x1[to.search]),
           ~x15 => to.page >= x13' \/ to.page >= x14'
    PROVE  Listing'
<1> DEFINE new == [id |-> x5 + 1, url |-> to, count |-> Null, rows |-> Null]
<1>1. ListingFits
  BY DEF Listing
<1>2. /\ x2' = to /\ x5' = x5 + 1 /\ x6' = TRUE /\ x7' = FALSE /\ x8' = x8 \cup {new}
      /\ PagedListPart!Adjust(x6, x4, to) /\ UNCHANGED <<x1, x4, x10, x15>>
  BY DEF PagedListPart!GoTo
<1>3. /\ new.id = x5 + 1 /\ new.url = to /\ new.count = Null /\ new.rows = Null
      /\ new \in [id: Nat, url: PagedListPart!Url, count: (0..ListRows) \cup {Null},
                  rows: (0..RowsOnPage) \cup {Null}]
  BY <1>1 DEF ListingFits
<1> HIDE DEF new
<1>4. x9' \in PagedListPart!Pages \cup {Null}
  BY <1>1, <1>2, Adjusts DEF ListingFits
<1>5. ListingFits'
  <2>1. x5' \in Nat
    BY <1>1, <1>2 DEF ListingFits
  <2> QED
    BY <1>1, <1>2, <1>3, <1>4, <2>1 DEF ListingFits
<1>6. \A f \in x8 : f.id \in Nat /\ f.id <= x5 /\ x5 \in Nat
  BY <1>1 DEF Listing, PagedListPart!LastIsOne, ListingFits
<1>7. PagedListPart!Last' = {new}
  BY <1>2, <1>3, <1>6 DEF PagedListPart!Last
<1>8. PagedListPart!LastIsOne'
  <2>1. \A f \in x8' : f.id <= x5'
    BY <1>2, <1>3, <1>6
  <2> QED
    BY <1>2, <1>7, <2>1 DEF PagedListPart!LastIsOne
<1>9. PagedListPart!LastIsWanted'
  <2> SUFFICES ASSUME ~x15
               PROVE  /\ ~x7' /\ PagedListPart!NeverTooFarDown'
                      /\ new.url = x2' /\ new.count = Null /\ new.rows # 0
                      /\ x6' /\ x9' = Null
    BY <1>2, <1>7 DEF PagedListPart!LastIsWanted, PagedListPart!PageIsEmpty
  <2>1. new.rows # 0
    BY <1>3, NullAssumption, ScreensAssumption
  <2>2. PagedListPart!NeverTooFarDown'
    <3>1. to.page \in PagedListPart!Pages
      BY DEF PagedListPart!Url
    <3>2. to.page >= PagedListPart!Min({x13', x14'})
      BY <3>1, FarDown
    <3> QED
      BY <1>2, <3>2 DEF PagedListPart!NeverTooFarDown
  <2>3. ~PagedListPart!PageIsEmpty(x6, x4, to)
    <3> SUFFICES ASSUME PagedListPart!PageIsEmpty(x6, x4, to)
                 PROVE  FALSE
      OBVIOUS
    <3>1. /\ ~x6 /\ x4.page = to.page /\ x4.rows = 0 /\ to.page > 1 /\ x4 # Null /\ x4.page = x2.page
          /\ x9 = Null => ~PagedListPart!PageIsEmpty(x6, x4, x2)
          /\ x9 # Null => x9 < x2.page
      BY DEF PagedListPart!PageIsEmpty, Listing, PagedListPart!LastIsWanted
    <3>2. CASE x9 = Null
      BY <3>1, <3>2 DEF PagedListPart!PageIsEmpty
    <3>3. CASE x9 # Null
      <4>1. x2.page \in Nat
        BY <1>1, PagesAre DEF ListingFits, PagedListPart!Url
      <4> QED
        BY <3>1, <3>3, <4>1
    <3> QED
      BY <3>2, <3>3
  <2> QED
    BY <1>1, <1>2, <1>3, <2>1, <2>2, <2>3, Adjusts DEF ListingFits
<1> QED
  BY <1>5, <1>8, <1>9 DEF Listing

\* To the address that is there: nothing is asked for, and nothing is left to adjust.
LEMMA MovesNowhere ==
    ASSUME Listing, PagedListPart!GoTo(x2), x9 = Null \/ x15,
           x3' \in Searches, x11' \in Nat, x11' <= ListActs, UNCHANGED <<x12, x13, x14>>
    PROVE  Listing'
<1>1. /\ UNCHANGED <<x1, x2, x4, x5, x6, x7, x8, x10, x12, x13, x14, x15>>
      /\ PagedListPart!Adjust(x6, x4, x2)
  BY DEF PagedListPart!GoTo
<1>2. ListingFits
  BY DEF Listing
<1>3. x9' \in PagedListPart!Pages \cup {Null}
      /\ (~PagedListPart!PageIsEmpty(x6, x4, x2) => x9' = Null)
  BY <1>1, <1>2, Adjusts DEF ListingFits
<1>4. ListingFits'
  BY <1>1, <1>2, <1>3 DEF ListingFits
<1>5. PagedListPart!LastIsOne'
  BY <1>1 DEF Listing, PagedListPart!LastIsOne, PagedListPart!Last
<1>6. PagedListPart!LastIsWanted'
  BY <1>1, <1>3 DEF Listing, PagedListPart!LastIsWanted, PagedListPart!Last, PagedListPart!PageIsEmpty,
                    PagedListPart!NeverTooFarDown
<1> QED
  BY <1>4, <1>5, <1>6 DEF Listing

\* The user goes to an address.
LEMMA UserMoves ==
    ASSUME Listing, NEW to \in PagedListPart!Url, PagedListPart!GoTo(to), PagedListPart!Wanted(to),
           x9 = Null, x3' \in Searches, x11' \in Nat, x11' <= ListActs, UNCHANGED x12
    PROVE  Listing'
<1>1. CASE to = x2
  <2>1. PagedListPart!GoTo(x2) /\ UNCHANGED <<x13, x14>>
    BY <1>1 DEF PagedListPart!Wanted
  <2> QED
    BY <2>1, MovesNowhere
<1>2. CASE to # x2
  <2>1. x13' = to.page /\ x14' = PagedListPart!LastPage(x1[to.search])
    BY <1>2 DEF PagedListPart!Wanted
  <2>2. to.page \in PagedListPart!Pages /\ x14' \in PagedListPart!Pages
    BY <2>1, RowsAre DEF Listing, PagedListPart!Url
  <2>3. to.page \in Nat /\ x14' \in Nat
    BY <2>2, PagesAre
  <2> QED
    BY <1>2, <2>1, <2>2, <2>3, Moves
<1> QED
  BY <1>1, <1>2

LEMMA Acts ==
    ASSUME ListingFits, PagedListPart!Act
    PROVE  x9 = Null /\ x11' \in Nat /\ x11' <= ListActs /\ x12' = x12
BY ScreensAssumption DEF ListingFits, PagedListPart!Act

LEMMA UserChooses ==
    ASSUME Listing,
           \/ PagedListPart!Debounce
           \/ \E p \in PagedListPart!Pages : PagedListPart!SetPage(p)
           \/ \E to \in PagedListPart!Url : PagedListPart!Navigate(to)
    PROVE  Listing'
<1>1. ListingFits
  BY DEF Listing
<1>2. CASE PagedListPart!Debounce
  <2>1. PICK to : /\ to = [page |-> 1, search |-> x3] /\ PagedListPart!GoTo(to) /\ PagedListPart!Wanted(to)
                  /\ x9 = Null /\ UNCHANGED <<x3, x11, x12>>
    BY <1>2 DEF PagedListPart!Debounce
  <2>2. to \in PagedListPart!Url
    BY <1>1, <2>1, PagesAre DEF ListingFits, PagedListPart!Url
  <2>3. x3' \in Searches /\ x11' \in Nat /\ x11' <= ListActs
    BY <1>1, <2>1 DEF ListingFits
  <2> QED
    BY <2>1, <2>2, <2>3, UserMoves
<1>3. ASSUME NEW p \in PagedListPart!Pages, PagedListPart!SetPage(p)
      PROVE  Listing'
  <2>1. PICK to : /\ to = [x2 EXCEPT !.page = p] /\ PagedListPart!GoTo(to) /\ PagedListPart!Wanted(to)
                  /\ PagedListPart!Act /\ UNCHANGED x3
    BY <1>3 DEF PagedListPart!SetPage
  <2>2. to \in PagedListPart!Url /\ x3' \in Searches
    BY <1>1, <2>1 DEF ListingFits, PagedListPart!Url
  <2> QED
    BY <1>1, <2>1, <2>2, Acts, UserMoves
<1>4. ASSUME NEW to \in PagedListPart!Url, PagedListPart!Navigate(to)
      PROVE  Listing'
  <2>1. /\ PagedListPart!GoTo(to) /\ PagedListPart!Wanted(to) /\ PagedListPart!Act
        /\ x3' = IF to.search # x2.search THEN to.search ELSE x3
    BY <1>4 DEF PagedListPart!Navigate
  <2>2. x3' \in Searches
    BY <1>1, <2>1 DEF ListingFits, PagedListPart!Url
  <2> QED
    BY <1>1, <2>1, <2>2, Acts, UserMoves
<1> QED
  BY <1>2, <1>3, <1>4

LEMMA Redirected ==
    ASSUME Listing, PagedListPart!Redirect
    PROVE  Listing'
<1>1. ListingFits
  BY DEF Listing
<1>2. PICK to : /\ to = [x2 EXCEPT !.page = x9] /\ PagedListPart!GoTo(to) /\ x9 # Null
                /\ UNCHANGED <<x3, x11, x12, x13, x14>>
  BY DEF PagedListPart!Redirect
<1>3. to \in PagedListPart!Url /\ to.page = x9 /\ to.search = x2.search /\ x9 \in PagedListPart!Pages
  BY <1>1, <1>2 DEF ListingFits, PagedListPart!Url
<1>4. /\ x3' \in Searches /\ x11' \in Nat /\ x11' <= ListActs
      /\ x13' \in PagedListPart!Pages /\ x14' \in PagedListPart!Pages
  BY <1>1, <1>2 DEF ListingFits
<1>5. ~x15 => x14 <= x9 /\ x9 < x2.page
  BY <1>2 DEF Listing, PagedListPart!LastIsWanted
<1>6. x9 \in Nat /\ x2.page \in Nat /\ x14 \in Nat
  BY <1>1, <1>3, PagesAre DEF ListingFits, PagedListPart!Url
<1>7. CASE to = x2
  <2>1. x15
    BY <1>1, <1>3, <1>5, <1>6, <1>7 DEF ListingFits
  <2>2. PagedListPart!GoTo(x2)
    BY <1>2, <1>7
  <2> QED
    BY <1>2, <1>4, <2>1, <2>2, MovesNowhere
<1>8. CASE to # x2
  <2>1. x14' <= PagedListPart!LastPage(x1[to.search])
    BY <1>2, <1>3 DEF Listing, PagedListPart!LastIsOne
  <2>2. ~x15 => to.page >= x14'
    BY <1>2, <1>3, <1>5, <1>6
  <2> QED
    BY <1>2, <1>3, <1>4, <1>8, <2>1, <2>2, Moves
<1> QED
  BY <1>7, <1>8

\* Typing, the beginning of a deletion and one that fails change nothing of the list.
LEMMA ListIdle ==
    ASSUME Listing,
           \/ PagedListPart!Delete \/ PagedListPart!DeleteFails
           \/ \E s \in Searches : PagedListPart!Type(s)
    PROVE  Listing'
<1>1. ListingFits
  BY DEF Listing
<1>2. /\ UNCHANGED <<x1, x2, x4, x5, x6, x7, x8, x12, x13, x14, x15>> /\ x9' = x9
      /\ x3' \in Searches /\ x10' \in {x2, x10, Null} /\ x11' \in Nat /\ x11' <= ListActs
  <2>1. CASE PagedListPart!Delete
    BY <1>1, <2>1, Acts DEF PagedListPart!Delete, ListingFits
  <2>2. CASE PagedListPart!DeleteFails
    BY <1>1, <2>2 DEF PagedListPart!DeleteFails, ListingFits
  <2>3. ASSUME NEW s \in Searches, PagedListPart!Type(s)
        PROVE  /\ UNCHANGED <<x1, x2, x4, x5, x6, x7, x8, x12, x13, x14, x15>> /\ x9' = x9
               /\ x3' \in Searches /\ x10' \in {x2, x10, Null} /\ x11' \in Nat /\ x11' <= ListActs
    BY <1>1, <2>3, Acts DEF PagedListPart!Type
  <2> QED
    BY <2>1, <2>2, <2>3
<1>3. ListingFits'
  BY <1>1, <1>2 DEF ListingFits
<1>4. PagedListPart!LastIsOne'
  BY <1>2 DEF Listing, PagedListPart!LastIsOne, PagedListPart!Last
<1>5. PagedListPart!LastIsWanted'
  BY <1>2 DEF Listing, PagedListPart!LastIsWanted, PagedListPart!Last, PagedListPart!PageIsEmpty,
              PagedListPart!NeverTooFarDown
<1> QED
  BY <1>3, <1>4, <1>5 DEF Listing

\* The list changes: there may be fewer pages than there ever were.
LEMMA ListChanged ==
    ASSUME Listing, x1' \in [Searches -> 0..ListRows], x2' = x2, x13' = x13,
           x14' = PagedListPart!Min({x14, PagedListPart!LastPage(x1'[x2.search])})
    PROVE  /\ x14' \in PagedListPart!Pages /\ x14' \in Nat /\ x14 \in Nat /\ x14' <= x14
           /\ x14' <= PagedListPart!LastPage(x1'[x2'.search])
           /\ ~x15 => PagedListPart!NeverTooFarDown'
<1>1. ListingFits
  BY DEF Listing
<1>2. x1'[x2.search] \in 0..ListRows /\ x2.page \in PagedListPart!Pages
  BY <1>1 DEF ListingFits, PagedListPart!Url
<1>3. PagedListPart!LastPage(x1'[x2.search]) \in PagedListPart!Pages
  BY <1>2, PagesOfRows
<1>4. x13 \in PagedListPart!Pages /\ x14 \in PagedListPart!Pages
  BY <1>1 DEF ListingFits
<1>5. /\ x14' \in PagedListPart!Pages /\ x14' <= x14
      /\ x14' <= PagedListPart!LastPage(x1'[x2.search])
  BY <1>3, <1>4, Fewer
<1>6. x14' \in Nat /\ x14 \in Nat /\ x13 \in Nat /\ x2.page \in Nat
  BY <1>2, <1>4, <1>5, PagesAre
<1>7. ASSUME ~x15
      PROVE  PagedListPart!NeverTooFarDown'
  <2>1. x2.page >= PagedListPart!Min({x13, x14})
    BY <1>7 DEF Listing, PagedListPart!LastIsWanted, PagedListPart!NeverTooFarDown
  <2>2. x2.page >= x13 \/ x2.page >= x14
    BY <1>2, <1>4, <2>1, FarDown
  <2>3. x2.page >= x13 \/ x2.page >= x14'
    BY <1>5, <1>6, <2>2
  <2>4. x2.page >= PagedListPart!Min({x13, x14'})
    <3>1. PICK b \in PagedListPart!Pages : b = x14'
      BY <1>5
    <3>2. (x2.page >= PagedListPart!Min({x13, b})) <=> (x2.page >= x13 \/ x2.page >= b)
      BY <1>2, <1>4, FarDown
    <3> QED
      BY <2>3, <3>1, <3>2
  <2> QED
    BY <2>4 DEF PagedListPart!NeverTooFarDown
<1> QED
  BY <1>5, <1>6, <1>7

LEMMA OthersChange ==
    ASSUME Listing, NEW s \in Searches, NEW count \in {0, RowsOnPage, ListRows},
           PagedListPart!ChangeList(s, count)
    PROVE  Listing'
<1>1. ListingFits
  BY DEF Listing
<1>2. /\ x1' = [x1 EXCEPT ![s] = count] /\ x12' = x12 + 1 /\ x12 < ListChanges
      /\ x14' = PagedListPart!Min({x14, PagedListPart!LastPage(x1'[x2.search])})
      /\ UNCHANGED <<x2, x3, x4, x5, x6, x7, x8, x9, x10, x11, x13, x15>>
  BY DEF PagedListPart!ChangeList
<1>3. x1' \in [Searches -> 0..ListRows]
  BY <1>1, <1>2, ScreensAssumption DEF ListingFits
<1>4. /\ x14' \in PagedListPart!Pages /\ x14' \in Nat /\ x14 \in Nat /\ x14' <= x14
      /\ x14' <= PagedListPart!LastPage(x1'[x2'.search])
      /\ ~x15 => PagedListPart!NeverTooFarDown'
  BY <1>2, <1>3, ListChanged
<1>5. ListingFits'
  <2>1. x12' \in Nat /\ x12' <= ListChanges
    BY <1>1, <1>2, ScreensAssumption DEF ListingFits
  <2> QED
    BY <1>1, <1>2, <1>3, <1>4, <2>1 DEF ListingFits
<1>6. PagedListPart!LastIsOne'
  BY <1>2, <1>4 DEF Listing, PagedListPart!LastIsOne, PagedListPart!Last
<1>7. PagedListPart!LastIsWanted'
  <2> SUFFICES ASSUME ~x15
               PROVE  /\ \A f \in PagedListPart!Last :
                           /\ f.count # Null => x14' <= PagedListPart!LastPage(f.count)
                           /\ (f.rows = 0 /\ x2.page > 1) => x14' <= x2.page - 1
                      /\ x9 # Null => x14' <= x9
    BY <1>2, <1>4 DEF Listing, PagedListPart!LastIsWanted, PagedListPart!Last, PagedListPart!PageIsEmpty
  <2>1. ASSUME NEW f \in PagedListPart!Last
        PROVE  /\ f.count # Null => x14' <= PagedListPart!LastPage(f.count)
               /\ (f.rows = 0 /\ x2.page > 1) => x14' <= x2.page - 1
    <3>1. /\ f.count # Null => x14 <= PagedListPart!LastPage(f.count)
          /\ (f.rows = 0 /\ x2.page > 1) => x14 <= x2.page - 1
      BY DEF Listing, PagedListPart!LastIsWanted
    <3>2. f.count \in (0..ListRows) \cup {Null} /\ x2.page \in PagedListPart!Pages
      BY <1>1 DEF ListingFits, PagedListPart!Last, PagedListPart!Url
    <3>3. x2.page \in Nat /\ (f.count # Null => PagedListPart!LastPage(f.count) \in Nat)
      BY <3>2, PagesOfRows, PagesAre
    <3> QED
      BY <1>4, <3>1, <3>3
  <2>2. ASSUME x9 # Null
        PROVE  x14' <= x9
    <3>1. x14 <= x9
      BY <2>2 DEF Listing, PagedListPart!LastIsWanted
    <3>2. x9 \in PagedListPart!Pages
      BY <1>1, <2>2 DEF ListingFits
    <3>3. x9 \in Nat
      BY <3>2, PagesAre
    <3> QED
      BY <1>4, <3>1, <3>3
  <2> QED
    BY <2>1, <2>2
<1> QED
  BY <1>5, <1>6, <1>7 DEF Listing

\* A deletion that is done reloads the address at which it was begun.
LEMMA DeletionEnds ==
    ASSUME Listing, PagedListPart!Deleted
    PROVE  Listing'
<1> DEFINE new == [id |-> x5 + 1, url |-> x10, count |-> Null, rows |-> Null]
<1>1. ListingFits
  BY DEF Listing
<1>2. /\ x10 # Null /\ x9 = Null
      /\ x1' = [x1 EXCEPT ![x10.search] = PagedListPart!Max({0, @ - 1})]
      /\ x14' = PagedListPart!Min({x14, PagedListPart!LastPage(x1'[x2.search])})
      /\ x5' = x5 + 1 /\ x6' = TRUE /\ x7' = FALSE /\ x8' = x8 \cup {new}
      /\ x10' = Null /\ x15' = (x15 \/ x10 # x2)
      /\ UNCHANGED <<x2, x3, x4, x9, x11, x12, x13>>
  BY DEF PagedListPart!Deleted
<1>3. /\ new.id = x5 + 1 /\ new.url = x10 /\ new.count = Null /\ new.rows = Null
      /\ new \in [id: Nat, url: PagedListPart!Url, count: (0..ListRows) \cup {Null},
                  rows: (0..RowsOnPage) \cup {Null}]
  BY <1>1, <1>2 DEF ListingFits
<1> HIDE DEF new
<1>4. x1' \in [Searches -> 0..ListRows]
  <2>1. PICK s \in Searches : s = x10.search
    BY <1>1, <1>2 DEF ListingFits, PagedListPart!Url
  <2>2. x1[s] \in 0..ListRows
    BY <1>1 DEF ListingFits
  <2>3. x1[s] - 1 \in Int /\ x1[s] \in Nat /\ ListRows \in Nat
    BY <2>2, ScreensAssumption
  <2>4. PICK n \in {0, x1[s] - 1} : n = PagedListPart!Max({0, x1[s] - 1}) /\ n >= 0
    <3>1. PICK k \in Int : k = x1[s] - 1
      BY <2>3
    <3>2. PagedListPart!Max({0, k}) \in {0, k} /\ PagedListPart!Max({0, k}) >= 0
      BY MaxOfTwo
    <3> QED
      BY <3>1, <3>2
  <2>5. n \in 0..ListRows
    BY <2>2, <2>3, <2>4
  <2>6. x1' = [x1 EXCEPT ![s] = n]
    BY <1>2, <2>1, <2>4
  <2> QED
    BY <1>1, <2>5, <2>6 DEF ListingFits
<1>5. /\ x14' \in PagedListPart!Pages
      /\ x14' <= PagedListPart!LastPage(x1'[x2'.search])
      /\ ~x15 => PagedListPart!NeverTooFarDown'
  BY <1>2, <1>4, ListChanged
<1>6. ListingFits'
  <2>1. x5' \in Nat /\ x15' \in BOOLEAN
    BY <1>1, <1>2 DEF ListingFits
  <2> QED
    BY <1>1, <1>2, <1>3, <1>4, <1>5, <2>1 DEF ListingFits
<1>7. \A f \in x8 : f.id \in Nat /\ f.id <= x5 /\ x5 \in Nat
  BY <1>1 DEF Listing, PagedListPart!LastIsOne, ListingFits
<1>8. PagedListPart!Last' = {new}
  BY <1>2, <1>3, <1>7 DEF PagedListPart!Last
<1>9. PagedListPart!LastIsOne'
  <2>1. \A f \in x8' : f.id <= x5'
    BY <1>2, <1>3, <1>7
  <2> QED
    BY <1>2, <1>5, <1>8, <2>1 DEF PagedListPart!LastIsOne
<1>10. PagedListPart!LastIsWanted'
  <2>1. ~x15' => new.url = x2' /\ new.count = Null /\ new.rows # 0
    <3>1. new.rows # 0
      BY <1>3, NullAssumption, ScreensAssumption
    <3>2. ~x15' => x10 = x2
      BY <1>2
    <3> QED
      BY <1>2, <1>3, <3>1, <3>2
  <2>2. ~x15' => ~x15
    BY <1>2
  <2> QED
    BY <1>2, <1>5, <1>8, <2>1, <2>2 DEF PagedListPart!LastIsWanted, PagedListPart!PageIsEmpty
<1> QED
  BY <1>6, <1>9, <1>10 DEF Listing

\* The server counts, or reads, for the last request.
LEMMA RequestServed ==
    ASSUME Listing, NEW f \in x8, PagedListPart!Query(f)
    PROVE  Listing'
<1>1. ListingFits
  BY DEF Listing
<1>2. f.id = x5 /\ UNCHANGED <<x1, x2, x3, x4, x5, x6, x7, x9, x10, x11, x12, x13, x14, x15>>
  BY DEF PagedListPart!Query
<1>3. f \in [id: Nat, url: PagedListPart!Url, count: (0..ListRows) \cup {Null}, rows: (0..RowsOnPage) \cup {Null}]
  BY <1>1 DEF ListingFits
<1>4. PICK to \in PagedListPart!Url : to = f.url
  BY <1>3
<1>5. /\ PagedListPart!RowsOf(to) \in 0..RowsOnPage /\ x1[to.search] \in 0..ListRows
      /\ PagedListPart!LastPage(x1[to.search]) \in PagedListPart!Pages
      /\ PagedListPart!RowsOf(to) = 0 /\ to.page > 1 => PagedListPart!LastPage(x1[to.search]) <= to.page - 1
  BY <1>1, RowsAre
<1>6. PICK g : /\ x8' = (x8 \ {f}) \cup {g}
               /\ g \in [id: Nat, url: PagedListPart!Url, count: (0..ListRows) \cup {Null},
                         rows: (0..RowsOnPage) \cup {Null}]
               /\ g.id = x5 /\ g.url = to
               /\ g.count \in {f.count, x1[to.search]} /\ g.rows \in {f.rows, PagedListPart!RowsOf(to)}
  <2>1. CASE x8' = (x8 \ {f}) \cup {[f EXCEPT !.count = x1[f.url.search]]}
    <3>1. PICK c \in 0..ListRows : c = x1[to.search]
      BY <1>5
    <3> DEFINE g == [f EXCEPT !.count = c]
    <3>2. x8' = (x8 \ {f}) \cup {g}
      BY <1>4, <2>1, <3>1
    <3>3. /\ g \in [id: Nat, url: PagedListPart!Url, count: (0..ListRows) \cup {Null},
                    rows: (0..RowsOnPage) \cup {Null}]
          /\ g.id = f.id /\ g.url = f.url /\ g.count = c /\ g.rows = f.rows
      BY <1>3
    <3> HIDE DEF g
    <3> QED
      BY <1>2, <1>4, <3>1, <3>2, <3>3
  <2>2. CASE x8' = (x8 \ {f}) \cup {[f EXCEPT !.rows = PagedListPart!RowsOf(f.url)]}
    <3>1. PICK c \in 0..RowsOnPage : c = PagedListPart!RowsOf(to)
      BY <1>5
    <3> DEFINE g == [f EXCEPT !.rows = c]
    <3>2. x8' = (x8 \ {f}) \cup {g}
      BY <1>4, <2>2, <3>1
    <3>3. /\ g \in [id: Nat, url: PagedListPart!Url, count: (0..ListRows) \cup {Null},
                    rows: (0..RowsOnPage) \cup {Null}]
          /\ g.id = f.id /\ g.url = f.url /\ g.rows = c /\ g.count = f.count
      BY <1>3
    <3> HIDE DEF g
    <3> QED
      BY <1>2, <1>4, <3>1, <3>2, <3>3
  <2> QED
    BY <2>1, <2>2 DEF PagedListPart!Query
<1>7. ListingFits'
  BY <1>1, <1>2, <1>6 DEF ListingFits
<1>8. x6 /\ \A h \in x8 : h.id = x5 => h = f
  BY <1>2, LastIs
<1>9. PagedListPart!Last' = {g}
  BY <1>2, <1>6, <1>8 DEF PagedListPart!Last
<1>10. PagedListPart!LastIsOne'
  <2>1. x5 \in Nat
    BY <1>1 DEF ListingFits
  <2>2. \A h \in x8' : h.id <= x5
    BY <1>6, <2>1 DEF Listing, PagedListPart!LastIsOne
  <2> QED
    BY <1>2, <1>8, <1>9, <2>2 DEF Listing, PagedListPart!LastIsOne
<1>11. PagedListPart!LastIsWanted'
  <2>1. ASSUME ~x15
        PROVE  /\ to = x2 /\ (g.count # Null => x14 <= PagedListPart!LastPage(g.count))
               /\ (g.rows = 0 /\ x2.page > 1) => x14 <= x2.page - 1
    <3>1. /\ to = x2 /\ (f.count # Null => x14 <= PagedListPart!LastPage(f.count))
          /\ (f.rows = 0 /\ x2.page > 1) => x14 <= x2.page - 1
      BY <1>2, <1>4, <2>1, LastIs
    <3>2. x14 <= PagedListPart!LastPage(x1[x2.search])
      BY DEF Listing, PagedListPart!LastIsOne
    <3>3. x14 \in PagedListPart!Pages /\ to.page \in PagedListPart!Pages
      BY <1>1 DEF ListingFits, PagedListPart!Url
    <3>4. x14 \in Nat /\ PagedListPart!LastPage(x1[to.search]) \in Nat /\ to.page \in Nat
      BY <1>5, <3>3, PagesAre
    <3> QED
      BY <1>5, <1>6, <3>1, <3>2, <3>4
  <2> QED
    BY <1>2, <1>6, <1>9, <2>1 DEF Listing, PagedListPart!LastIsWanted, PagedListPart!PageIsEmpty,
                                  PagedListPart!NeverTooFarDown
<1> QED
  BY <1>7, <1>10, <1>11 DEF Listing

\* An answer that does not come: of the last request, it is known.
LEMMA RequestLost ==
    ASSUME Listing, NEW f \in x8, PagedListPart!LoadFails(f)
    PROVE  Listing'
<1>1. ListingFits
  BY DEF Listing
<1>2. /\ x9 = Null /\ x8' = x8 \ {f}
      /\ UNCHANGED <<x1, x2, x3, x4, x5, x10, x11, x12, x13, x14>>
  BY DEF PagedListPart!LoadFails
<1>3. CASE f.id = x5
  <2>1. /\ x7' = TRUE /\ x15' = TRUE /\ x6' = FALSE /\ PagedListPart!Adjust(FALSE, x4, x2)
    BY <1>3 DEF PagedListPart!LoadFails
  <2>2. x9' \in PagedListPart!Pages \cup {Null}
    BY <1>1, <2>1, Adjusts DEF ListingFits
  <2>3. ListingFits'
    BY <1>1, <1>2, <2>1, <2>2 DEF ListingFits
  <2>4. \A h \in x8 : h.id = x5 => h = f
    BY <1>3, LastIs
  <2>5. PagedListPart!Last' = {}
    BY <1>2, <2>4 DEF PagedListPart!Last
  <2>6. PagedListPart!LastIsOne'
    BY <1>2, <2>1, <2>5 DEF Listing, PagedListPart!LastIsOne
  <2>7. PagedListPart!LastIsWanted'
    BY <2>1 DEF PagedListPart!LastIsWanted
  <2> QED
    BY <2>3, <2>6, <2>7 DEF Listing
<1>4. CASE f.id # x5
  <2>1. UNCHANGED <<x6, x7, x9, x15>>
    BY <1>4 DEF PagedListPart!LoadFails
  <2>2. ListingFits'
    BY <1>1, <1>2, <2>1 DEF ListingFits
  <2>3. PagedListPart!Last' = PagedListPart!Last
    BY <1>2, <1>4 DEF PagedListPart!Last
  <2>4. PagedListPart!LastIsOne'
    BY <1>2, <2>1, <2>3 DEF Listing, PagedListPart!LastIsOne
  <2>5. PagedListPart!LastIsWanted'
    BY <1>2, <2>1, <2>3 DEF Listing, PagedListPart!LastIsWanted, PagedListPart!PageIsEmpty,
                            PagedListPart!NeverTooFarDown
  <2> QED
    BY <2>2, <2>4, <2>5 DEF Listing
<1> QED
  BY <1>3, <1>4

\* The answer that counts is the page of the address; where it is empty there were
\* fewer pages in the meantime.
LEMMA AnswerCounts ==
    ASSUME Listing, NEW f \in x8, PagedListPart!Arrive(f), f.id = x5
    PROVE  Listing'
<1>1. ListingFits
  BY DEF Listing
<1>2. /\ f.count # Null /\ f.rows # Null /\ x9 = Null /\ x8' = x8 \ {f}
      /\ x4' = PagedListPart!PageOf(f) /\ x6' = FALSE
      /\ PagedListPart!Adjust(FALSE, PagedListPart!PageOf(f), x2)
      /\ UNCHANGED <<x1, x2, x3, x5, x7, x10, x11, x12, x13, x14, x15>>
  BY DEF PagedListPart!Arrive
<1>3. f.url \in PagedListPart!Url /\ f.count \in 0..ListRows /\ f.rows \in 0..RowsOnPage
  BY <1>1, <1>2 DEF ListingFits
<1>4. PICK n \in 0..ListRows : n = f.count
  BY <1>3
<1>5. PagedListPart!LastPage(n) \in PagedListPart!Pages
  BY PagesOfRows
<1>6. PICK page \in PagedListPart!Page : /\ page = PagedListPart!PageOf(f)
                                          /\ page.page = f.url.page /\ page.search = f.url.search
                                          /\ page.rows = f.rows /\ page.totalPages = PagedListPart!LastPage(n)
  <2>1. PagedListPart!PageOf(f) \in PagedListPart!Page
    BY <1>3, <1>4, <1>5 DEF PagedListPart!PageOf, PagedListPart!Page, PagedListPart!Url
  <2>2. /\ PagedListPart!PageOf(f).page = f.url.page /\ PagedListPart!PageOf(f).search = f.url.search
        /\ PagedListPart!PageOf(f).rows = f.rows
        /\ PagedListPart!PageOf(f).totalPages = PagedListPart!LastPage(n)
    BY <1>4 DEF PagedListPart!PageOf
  <2> QED
    BY <2>1, <2>2
<1>7. page # Null
  <2>1. Null \notin PagedListPart!Page
    BY NullAssumption
  <2> QED
    BY <2>1
<1>8. x2 \in PagedListPart!Url
  BY <1>1 DEF ListingFits
<1>9. /\ x9' \in PagedListPart!Pages \cup {Null}
      /\ IF PagedListPart!PageIsEmpty(FALSE, page, x2)
         THEN x9' \in {x2.page - 1, page.totalPages} /\ x9' < x2.page /\ x9' # Null
         ELSE x9' = Null
  <2>1. PagedListPart!Adjust(FALSE, page, x2)
    BY <1>2, <1>6
  <2> QED
    BY <1>8, <2>1, Adjusts
<1>10. ListingFits'
  BY <1>1, <1>2, <1>6, <1>9 DEF ListingFits
<1>11. \A h \in x8 : h.id = x5 => h = f
  BY LastIs
<1>12. PagedListPart!Last' = {}
  BY <1>2, <1>11 DEF PagedListPart!Last
<1>13. PagedListPart!LastIsOne'
  BY <1>2, <1>12 DEF Listing, PagedListPart!LastIsOne
<1>14. PagedListPart!LastIsWanted'
  <2> SUFFICES ASSUME ~x15
               PROVE  PagedListPart!LastIsWanted'
    BY <1>2 DEF PagedListPart!LastIsWanted
  <2>1. /\ f.url = x2 /\ x14 <= PagedListPart!LastPage(n)
        /\ (f.rows = 0 /\ x2.page > 1) => x14 <= x2.page - 1
    BY <1>2, <1>4, LastIs
  <2>2. PagedListPart!PageIsEmpty(FALSE, page, x2) => x14 <= x9' /\ x9' < x2.page /\ x9' # Null
    BY <1>6, <1>9, <2>1 DEF PagedListPart!PageIsEmpty
  <2>3. ~PagedListPart!PageIsEmpty(FALSE, page, x2) => x9' = Null
    BY <1>9
  <2>4. x4' = page /\ x4' # Null /\ x4'.page = x2.page /\ x4'.search = x2.search
    BY <1>2, <1>6, <1>7, <2>1
  <2>5. IF x9' = Null THEN ~PagedListPart!PageIsEmpty(x6', x4', x2')
        ELSE ~x6' /\ x14' <= x9' /\ x9' < x2'.page
    BY <1>2, <2>2, <2>3, <2>4
  <2>6. ~x7' /\ PagedListPart!NeverTooFarDown'
    BY <1>2 DEF Listing, PagedListPart!LastIsWanted, PagedListPart!NeverTooFarDown
  <2> QED
    BY <1>2, <1>12, <2>4, <2>5, <2>6 DEF PagedListPart!LastIsWanted, PagedListPart!PageIsEmpty
<1> QED
  BY <1>10, <1>13, <1>14 DEF Listing

LEMMA AnswerIgnored ==
    ASSUME Listing, NEW f \in x8, PagedListPart!Arrive(f), f.id # x5
    PROVE  Listing'
<1>1. ListingFits
  BY DEF Listing
<1>2. /\ x8' = x8 \ {f}
      /\ UNCHANGED <<x1, x2, x3, x4, x5, x6, x7, x9, x10, x11, x12, x13, x14, x15>>
  BY DEF PagedListPart!Arrive
<1>3. ListingFits'
  BY <1>1, <1>2 DEF ListingFits
<1>4. PagedListPart!Last' = PagedListPart!Last
  BY <1>2 DEF PagedListPart!Last
<1>5. PagedListPart!LastIsOne'
  BY <1>2, <1>4 DEF Listing, PagedListPart!LastIsOne
<1>6. PagedListPart!LastIsWanted'
  BY <1>2, <1>4 DEF Listing, PagedListPart!LastIsWanted, PagedListPart!PageIsEmpty,
                    PagedListPart!NeverTooFarDown
<1> QED
  BY <1>3, <1>5, <1>6 DEF Listing

LEMMA ListStep ==
    ASSUME Listing, PagedListPart!Next
    PROVE  Listing'
BY Redirected, UserChooses, ListIdle, OthersChange, DeletionEnds, RequestServed, RequestLost,
   AnswerCounts, AnswerIgnored DEF PagedListPart!Next

LEMMA ListStays ==
    ASSUME Listing, UNCHANGED PagedListPart!vars
    PROVE  Listing'
<1>1. UNCHANGED <<x1, x2, x3, x4, x5, x6, x7, x8, x9, x10, x11, x12, x13, x14, x15>>
  BY DEF PagedListPart!vars
<1> QED
  BY <1>1 DEF Listing, ListingFits, PagedListPart!LastIsOne, PagedListPart!LastIsWanted, PagedListPart!Last,
              PagedListPart!PageIsEmpty, PagedListPart!NeverTooFarDown

LEMMA ListTells ==
    ASSUME Listing
    PROVE  PagedListPart!PageIsTheOneWanted
<1> SUFFICES ASSUME ~x15
             PROVE  /\ PagedListPart!NeverTooFarDown
                    /\ PagedListPart!AnswersAreNotMixed
                    /\ (x8 = {} /\ x9 = Null /\ x4.rows = 0) => x2.page = 1
  BY DEF PagedListPart!PageIsTheOneWanted
<1>1. PagedListPart!NeverTooFarDown
  BY DEF Listing, PagedListPart!LastIsWanted
<1>2. ASSUME x8 = {}
      PROVE  ~x6 /\ x4 # Null /\ x4.page = x2.page /\ x4.search = x2.search
  <2>1. ~x6
    BY <1>2 DEF Listing, PagedListPart!LastIsOne, PagedListPart!Last
  <2> QED
    BY <2>1 DEF Listing, PagedListPart!LastIsWanted
<1>3. PagedListPart!AnswersAreNotMixed
  BY <1>2 DEF PagedListPart!AnswersAreNotMixed
<1>4. ASSUME x8 = {}, x9 = Null, x4.rows = 0
      PROVE  x2.page = 1
  <2>1. ~PagedListPart!PageIsEmpty(x6, x4, x2)
    BY <1>4 DEF Listing, PagedListPart!LastIsWanted
  <2>2. ~(x2.page > 1)
    BY <1>2, <1>4, <2>1 DEF PagedListPart!PageIsEmpty
  <2>3. x2.page \in PagedListPart!Pages
    BY DEF Listing, ListingFits, PagedListPart!Url
  <2>4. x2.page \in Nat \ {0}
    BY <2>3, PagesAre
  <2> QED
    BY <2>2, <2>4
<1> QED
  BY <1>1, <1>3, <1>4

\* A list shows the page that is wanted and the other views what they are asked for,
\* once nothing is under way, for any searches, sizes of a page and parameters.
THEOREM ViewsShowWhatIsAsked == ScreensSpec => []ScreenShowsWhatIsAsked
<1> DEFINE I == (part = "list" => Listing) /\ (part = "view" => Viewing)
<1>1. ScreensInit => I
  BY ScreensBegin, ListingBegins, ViewingBegins
<1>2. I /\ [ScreensNext]_registers => I'
  BY ScreensStep, ListStep, ListStays, ViewStep, ViewStays
<1>3. I => ScreenShowsWhatIsAsked
  BY ListTells, ViewTells DEF ScreenShowsWhatIsAsked
<1> QED
  BY <1>1, <1>2, <1>3, PTL DEF ScreensSpec

-----------------------------------------------------------------------------
(* Forms *)

\* What is known of the form, the calls and the counts.
FormFits ==
    /\ x1 \in FormsPart!Kinds
    /\ x2 \in [filled: BOOLEAN, valid: BOOLEAN, busy: BOOLEAN, shows: {"nothing", "ask", "error", "refused"}]
    /\ x3 \subseteq [n: Nat, valid: BOOLEAN, pc: {"asked", "done", "refused"}]
    /\ x4 \in Nat /\ x5 \in Nat /\ x6 \in Nat /\ x7 \in Nat /\ x8 \in Nat

Submitting == FormFits /\ FormsPart!OneWishAtATime /\ FormsPart!OneCallAtATime

LEMMA SubmittingBegins ==
    ASSUME FormsPart!Init
    PROVE  Submitting
<1>1. x2 = FormsPart!Blank /\ x3 = {} /\ x4 = 0 /\ x5 = 0 /\ x6 = 0 /\ x7 = 0 /\ x8 = 0 /\ x1 \in FormsPart!Kinds
  BY DEF FormsPart!Init
<1>2. FormFits
  BY <1>1 DEF FormFits, FormsPart!Blank
<1>3. FormsPart!OneWishAtATime
  BY <1>1 DEF FormsPart!OneWishAtATime
<1>4. FormsPart!OneCallAtATime
  BY <1>1 DEF FormsPart!OneCallAtATime
<1> QED
  BY <1>2, <1>3, <1>4 DEF Submitting

\* What is known of a guarded form, with a number for the call that is done.
LEMMA GuardedIs ==
    ASSUME Submitting, x1.guarded
    PROVE  /\ x3 # {} => x2.busy /\ x6 < x5 /\ x2.shows # "refused"
           /\ \A c, d \in x3 : c = d
           /\ x4 <= x6 + x7 + 1
           /\ (\A c \in x3 : c.pc # "done") => x4 <= x6 + x7
BY DEF Submitting, FormFits, FormsPart!OneCallAtATime

LEMMA WishIs ==
    ASSUME Submitting
    PROVE  /\ x6 <= x4 /\ x6 <= x5 /\ x5 <= x6 + 1
           /\ \A c \in x3 : c.pc = "done" => x5 <= x4
           /\ x4 \in Nat /\ x5 \in Nat /\ x6 \in Nat /\ x7 \in Nat /\ x8 \in Nat
BY DEF Submitting, FormFits, FormsPart!OneWishAtATime

LEMMA FillSubmits ==
    ASSUME Submitting, NEW filled \in BOOLEAN, NEW valid \in BOOLEAN, FormsPart!Fill(filled, valid)
    PROVE  Submitting'
<1>1. x2' = [x2 EXCEPT !.filled = filled, !.valid = valid] /\ UNCHANGED <<x1, x3, x4, x5, x6, x7, x8>>
  BY DEF FormsPart!Fill
<1>2. x2' \in [filled: BOOLEAN, valid: BOOLEAN, busy: BOOLEAN, shows: {"nothing", "ask", "error", "refused"}]
      /\ x2'.busy = x2.busy /\ x2'.shows = x2.shows
  BY <1>1 DEF Submitting, FormFits
<1>3. FormFits'
  BY <1>1, <1>2 DEF Submitting, FormFits
<1>4. FormsPart!OneWishAtATime'
  BY <1>1 DEF Submitting, FormsPart!OneWishAtATime
<1>5. FormsPart!OneCallAtATime'
  BY <1>1, <1>2 DEF Submitting, FormsPart!OneCallAtATime
<1> QED
  BY <1>3, <1>4, <1>5 DEF Submitting

LEMMA WishSubmits ==
    ASSUME Submitting, FormsPart!Wish
    PROVE  Submitting'
<1>1. x5 = x6 /\ x3 = {} /\ x5' = x5 + 1 /\ UNCHANGED <<x1, x2, x3, x4, x6, x7, x8>>
  BY DEF FormsPart!Wish
<1>2. FormFits'
  BY <1>1 DEF Submitting, FormFits
<1>3. FormsPart!OneWishAtATime'
  BY <1>1, WishIs DEF FormsPart!OneWishAtATime
<1>4. FormsPart!OneCallAtATime'
  BY <1>1 DEF Submitting, FormsPart!OneCallAtATime
<1> QED
  BY <1>2, <1>3, <1>4 DEF Submitting

\* A submission: where the button goes off, nothing else is under way.
LEMMA SubmitSubmits ==
    ASSUME Submitting, FormsPart!HandleSubmit
    PROVE  Submitting'
<1> DEFINE new == [n |-> x8 + 1, valid |-> x2.valid, pc |-> "asked"]
<1>1. /\ FormsPart!CanSubmit /\ x6 < x5 /\ x8' = x8 + 1 /\ UNCHANGED <<x1, x4, x5, x6, x7>>
      /\ \/ x2' = [x2 EXCEPT !.shows = "ask"] /\ x3' = x3
         \/ x2' = [x2 EXCEPT !.shows = "nothing", !.busy = TRUE] /\ x3' = x3 \cup {new}
  BY DEF FormsPart!HandleSubmit
<1>2. /\ x2 \in [filled: BOOLEAN, valid: BOOLEAN, busy: BOOLEAN, shows: {"nothing", "ask", "error", "refused"}]
      /\ x3 \subseteq [n: Nat, valid: BOOLEAN, pc: {"asked", "done", "refused"}]
      /\ x1 \in FormsPart!Kinds /\ x8 \in Nat
  BY DEF Submitting, FormFits
<1>3. new \in [n: Nat, valid: BOOLEAN, pc: {"asked", "done", "refused"}] /\ new.pc = "asked"
  <2>1. x2.valid \in BOOLEAN
    BY <1>2
  <2> QED
    BY <1>2, <2>1
<1> HIDE DEF new
<1>4. x2' \in [filled: BOOLEAN, valid: BOOLEAN, busy: BOOLEAN, shows: {"nothing", "ask", "error", "refused"}]
      /\ x3' \subseteq [n: Nat, valid: BOOLEAN, pc: {"asked", "done", "refused"}]
      /\ x2'.shows # "refused" /\ (x2'.busy \/ (x3' = x3 /\ x2'.busy = x2.busy))
  <2>1. CASE x2' = [x2 EXCEPT !.shows = "ask"] /\ x3' = x3
    BY <1>2, <2>1
  <2>2. CASE x2' = [x2 EXCEPT !.shows = "nothing", !.busy = TRUE] /\ x3' = x3 \cup {new}
    BY <1>2, <1>3, <2>2
  <2> QED
    BY <1>1, <2>1, <2>2
<1>5. FormFits'
  BY <1>1, <1>2, <1>4, WishIs DEF FormFits
<1>6. FormsPart!OneWishAtATime'
  <2>1. \A c \in x3' : c.pc = "done" => c \in x3
    BY <1>1, <1>3
  <2> QED
    BY <1>1, <2>1, WishIs DEF FormsPart!OneWishAtATime
<1>7. FormsPart!OneCallAtATime'
  <2> SUFFICES ASSUME x1'.guarded
               PROVE  /\ x3' # {} => x2'.busy /\ x6' < x5' /\ x2'.shows # "refused"
                      /\ \A c, d \in x3' : c = d
                      /\ x4' <= x6' + x7' + (IF \E c \in x3' : c.pc = "done" THEN 1 ELSE 0)
    BY DEF FormsPart!OneCallAtATime
  <2>1. x1.guarded /\ ~x2.busy
    BY <1>1 DEF FormsPart!CanSubmit
  <2>2. x3 = {} /\ x4 <= x6 + x7
    BY <2>1, GuardedIs
  <2>3. x3' = {} \/ (x3' = {new} /\ x2'.busy)
    BY <1>1, <1>2, <2>2
  <2>4. \A c \in x3' : c.pc # "done"
    BY <1>3, <2>3
  <2> QED
    BY <1>1, <1>4, <2>2, <2>3, <2>4, WishIs
<1> QED
  BY <1>5, <1>6, <1>7 DEF Submitting

LEMMA ServeSubmits ==
    ASSUME Submitting, NEW c \in x3, FormsPart!Serve(c)
    PROVE  Submitting'
<1>1. PICK pc \in {"done", "refused"} :
         /\ x3' = (x3 \ {c}) \cup {[c EXCEPT !.pc = pc]} /\ c.pc = "asked"
         /\ x4' = (IF pc = "done" THEN x4 + 1 ELSE x4) /\ UNCHANGED <<x1, x2, x5, x6, x7, x8>>
  BY DEF FormsPart!Serve, FormsPart!Answered
<1> DEFINE new == [c EXCEPT !.pc = pc]
<1>2. x3 \subseteq [n: Nat, valid: BOOLEAN, pc: {"asked", "done", "refused"}]
  BY DEF Submitting, FormFits
<1>3. new \in [n: Nat, valid: BOOLEAN, pc: {"asked", "done", "refused"}] /\ new.pc = pc
  BY <1>2
<1>4. x3' = (x3 \ {c}) \cup {new}
  BY <1>1
<1> HIDE DEF new
<1>5. FormFits'
  <2>1. x4' \in Nat
    BY <1>1, WishIs
  <2> QED
    BY <1>1, <1>2, <1>3, <1>4, <2>1 DEF Submitting, FormFits
<1>6. FormsPart!OneWishAtATime'
  BY <1>1, <1>3, <1>4, WishIs DEF FormsPart!OneWishAtATime
<1>7. FormsPart!OneCallAtATime'
  <2> SUFFICES ASSUME x1.guarded
               PROVE  /\ x2.busy /\ x6 < x5 /\ x2.shows # "refused"
                      /\ \A d, e \in x3' : d = e
                      /\ x4' <= x6 + x7 + (IF \E d \in x3' : d.pc = "done" THEN 1 ELSE 0)
    BY <1>1 DEF FormsPart!OneCallAtATime
  <2>1. x3 = {c} /\ x3' = {new}
    BY <1>4, GuardedIs
  <2>2. x4 <= x6 + x7
    BY <1>1, <2>1, GuardedIs
  <2> QED
    BY <1>1, <1>3, <2>1, <2>2, GuardedIs, WishIs
<1> QED
  BY <1>5, <1>6, <1>7 DEF Submitting

\* A call ends, and the user is told how, or is not.
LEMMA EndSubmits ==
    ASSUME Submitting, NEW c \in x3, FormsPart!Done(c) \/ FormsPart!Refused(c) \/ FormsPart!Lost(c)
    PROVE  Submitting'
<1>1. x3' = x3 \ {c} /\ UNCHANGED <<x1, x4, x5, x8>>
      /\ \/ c.pc = "done" /\ x6' = x5 /\ x7' = x7
         \/ c.pc = "refused" /\ x6' = x6 /\ x7' = x7
         \/ x6' = x6 /\ x7' = x7 + 1
  BY DEF FormsPart!Done, FormsPart!Refused, FormsPart!Lost
<1>2. x2 \in [filled: BOOLEAN, valid: BOOLEAN, busy: BOOLEAN, shows: {"nothing", "ask", "error", "refused"}]
  BY DEF Submitting, FormFits
<1>3. x2' \in [filled: BOOLEAN, valid: BOOLEAN, busy: BOOLEAN, shows: {"nothing", "ask", "error", "refused"}]
  <2>1. CASE FormsPart!Done(c)
    BY <2>1 DEF FormsPart!Done, FormsPart!Blank
  <2>2. CASE FormsPart!Refused(c)
    <3>1. x2' = [x2 EXCEPT !.busy = FALSE, !.shows = "refused"]
      BY <2>2 DEF FormsPart!Refused
    <3> QED
      BY <1>2, <3>1
  <2>3. CASE FormsPart!Lost(c)
    <3>1. x2' = [x2 EXCEPT !.busy = FALSE, !.shows = "error"]
      BY <2>3 DEF FormsPart!Lost
    <3> QED
      BY <1>2, <3>1
  <2> QED
    BY <2>1, <2>2, <2>3
<1>4. FormFits'
  <2>1. x6' \in Nat /\ x7' \in Nat
    BY <1>1, WishIs
  <2> QED
    BY <1>1, <1>3, <2>1 DEF Submitting, FormFits
<1>5. FormsPart!OneWishAtATime'
  BY <1>1, WishIs DEF FormsPart!OneWishAtATime
<1>6. FormsPart!OneCallAtATime'
  <2> SUFFICES ASSUME x1.guarded
               PROVE  x3' = {} /\ x4' <= x6' + x7'
    <3>1. x6' \in Nat /\ x7' \in Nat
      BY <1>4 DEF FormFits
    <3> QED
      BY <1>1, <3>1 DEF FormsPart!OneCallAtATime
  <2>1. x3 = {c} /\ x6 < x5
    BY GuardedIs
  <2>2. c.pc # "done" => x4 <= x6 + x7
    BY <2>1, GuardedIs
  <2> QED
    BY <1>1, <2>1, <2>2, GuardedIs, WishIs
<1> QED
  BY <1>4, <1>5, <1>6 DEF Submitting

LEMMA FormStep ==
    ASSUME Submitting, FormsPart!Next
    PROVE  Submitting'
BY FillSubmits, WishSubmits, SubmitSubmits, ServeSubmits, EndSubmits DEF FormsPart!Next

LEMMA FormStays ==
    ASSUME Submitting, UNCHANGED FormsPart!vars
    PROVE  Submitting'
<1>1. UNCHANGED <<x1, x2, x3, x4, x5, x6, x7, x8>>
  BY DEF FormsPart!vars
<1> QED
  BY <1>1 DEF Submitting, FormFits, FormsPart!OneWishAtATime, FormsPart!OneCallAtATime

LEMMA FormTells ==
    ASSUME Submitting
    PROVE  FormsPart!DoneOnce
<1>1. ASSUME x1.guarded
      PROVE  x4 <= x5 + x7
  <2>1. CASE x3 = {}
    BY <1>1, <2>1, GuardedIs, WishIs
  <2>2. CASE x3 # {}
    BY <1>1, <2>2, GuardedIs, WishIs
  <2> QED
    BY <2>1, <2>2
<1>2. ASSUME x1.guarded, x7 = 0, x6 < x5, x2.shows = "refused"
      PROVE  x4 < x5
  <2>1. x3 = {}
    BY <1>2, GuardedIs
  <2> QED
    BY <1>2, <2>1, GuardedIs, WishIs
<1> QED
  BY <1>1, <1>2, WishIs DEF FormsPart!DoneOnce

-----------------------------------------------------------------------------
(* Booking *)

\* A submission.
RunSet == [n: Nat, pc: {"create", "created", "noClient", "book", "booked", "refused"},
           client: BookingPart!Clients \cup {Null}, number: Numbers \cup {Null},
           service: Services \cup {Null}, slot: BookingPart!Slot \cup {Null}]

\* What is known of the form, the requests and the submissions.
BookingFits ==
    /\ x1 \in BookingPart!Form \cup {Null}
    /\ x2 \subseteq [id: Nat, service: Services]
    /\ x3 \subseteq RunSet
    /\ x4 \in Seq(Numbers \cup {Null}) /\ Len(x4) <= NewClients
    /\ x7 \in Nat /\ x8 \in Nat /\ x10 \in BOOLEAN

Reserving == BookingFits /\ BookingPart!OneSubmission /\ BookingPart!TimesFit

LEMMA FormIsNotNull == Null \notin BookingPart!Form
BY NullAssumption

\* The part of the invariant about submissions stays where they do, and the form is
\* closed or has its button as it was.
LEMMA SubmissionStays ==
    ASSUME BookingPart!OneSubmission, UNCHANGED <<x3, x5, x10>>, x9 \subseteq x9',
           x1' = Null \/ (x1 # Null /\ x1' # Null /\ x1'.submitting = x1.submitting)
    PROVE  BookingPart!OneSubmission'
BY DEF BookingPart!OneSubmission, BookingPart!Acting, BookingPart!Booking

\* The part about times stays where they do.
LEMMA TimesStay ==
    ASSUME BookingPart!TimesFit, UNCHANGED <<x3, x5>>, x9 \subseteq x9',
           "stale" \notin x9' /\ x1' # Null =>
              /\ BookingPart!Complete(x1') => BookingPart!Fits(x1')
              /\ x1'.manual /\ x1'.slot # Null => x1'.slot.of = Manual
              /\ (~x1'.manual /\ x1'.service # Null) =>
                    /\ (~x1'.loading /\ x1'.slots # Null) => x1'.slots = x1'.service
                    /\ \A l \in x2' : x2' = {l} => l.service = x1'.service
    PROVE  BookingPart!TimesFit'
BY DEF BookingPart!TimesFit, BookingPart!Booking, BookingPart!Complete, BookingPart!Fits

\* What is known of the times on the form.
LEMMA FormTimes ==
    ASSUME BookingPart!TimesFit, "stale" \notin x9, x1 # Null
    PROVE  /\ x1.service # Null /\ x1.slot # Null => x1.slot.of \in {x1.service, Manual}
           /\ x1.manual /\ x1.slot # Null => x1.slot.of = Manual
           /\ (~x1.manual /\ x1.service # Null) =>
                /\ (~x1.loading /\ x1.slots # Null) => x1.slots = x1.service
                /\ \A l \in x2 : x2 = {l} => l.service = x1.service
BY DEF BookingPart!TimesFit, BookingPart!Complete, BookingPart!Fits

LEMMA BookingBegins ==
    ASSUME BookingPart!Init
    PROVE  Reserving
<1>1. /\ x1 = [client |-> Null, results |-> {}, fresh |-> FALSE, number |-> Null,
               service |-> Null, manual |-> FALSE, slots |-> Null, loading |-> FALSE,
               slot |-> Null, submitting |-> FALSE]
      /\ x2 = {} /\ x3 = {} /\ x4 = <<>> /\ x5 = {} /\ x7 = 0 /\ x8 = 0 /\ x9 = {} /\ x10 = FALSE
  BY DEF BookingPart!Init
<1>2. x1 \in BookingPart!Form
  BY <1>1 DEF BookingPart!Form
<1>3. BookingFits
  <2>1. NewClients \in Nat
    BY ScreensAssumption
  <2>2. x4 \in Seq(Numbers \cup {Null}) /\ Len(x4) = 0
    BY <1>1
  <2>3. x2 = {} /\ x3 = {} /\ x7 = 0 /\ x8 = 0 /\ x10 = FALSE
    BY <1>1
  <2>4. Len(x4) <= NewClients
    BY <2>1, <2>2
  <2> QED
    BY ONLY <1>2, <2>2, <2>3, <2>4 DEF BookingFits
<1>4. BookingPart!OneSubmission
  BY <1>1 DEF BookingPart!OneSubmission, BookingPart!Acting, BookingPart!Booking
<1>5. BookingPart!TimesFit
  <2>1. x1.service = Null /\ x1.slot = Null /\ x1.manual = FALSE
    BY <1>1
  <2> QED
    BY <1>1, <2>1 DEF BookingPart!TimesFit, BookingPart!Booking, BookingPart!Complete
<1> QED
  BY <1>3, <1>4, <1>5 DEF Reserving

\* The search and the choice of a client leave the times and the button alone.
LEMMA ClientChosen ==
    ASSUME Reserving,
           \/ BookingPart!Search
           \/ \E c \in BookingPart!Clients \cup {Null} : BookingPart!Select(c)
           \/ \E number \in Numbers \cup {Null} : BookingPart!NewClient(number)
    PROVE  Reserving'
<1>1. x1 \in BookingPart!Form /\ x1 # Null /\ x7' = x7 + 1 /\ UNCHANGED <<x2, x3, x4, x5, x8, x9, x10>>
  BY DEF Reserving, BookingFits, BookingPart!Search, BookingPart!Select, BookingPart!NewClient, BookingPart!Act
<1>2. /\ x1' \in BookingPart!Form
      /\ x1'.service = x1.service /\ x1'.slot = x1.slot /\ x1'.slots = x1.slots
      /\ x1'.manual = x1.manual /\ x1'.loading = x1.loading /\ x1'.submitting = x1.submitting
  <2>1. CASE BookingPart!Search
    <3>1. DOMAIN x4 \subseteq BookingPart!Clients
      BY ScreensAssumption DEF Reserving, BookingFits, BookingPart!Clients
    <3>2. x1' = [x1 EXCEPT !.results = DOMAIN x4]
      BY <2>1 DEF BookingPart!Search
    <3> QED
      BY <1>1, <3>1, <3>2 DEF BookingPart!Form
  <2>2. ASSUME NEW c \in BookingPart!Clients \cup {Null}, BookingPart!Select(c)
        PROVE  /\ x1' \in BookingPart!Form
               /\ x1'.service = x1.service /\ x1'.slot = x1.slot /\ x1'.slots = x1.slots
               /\ x1'.manual = x1.manual /\ x1'.loading = x1.loading /\ x1'.submitting = x1.submitting
    <3>1. x1' = [x1 EXCEPT !.client = c]
      BY <2>2 DEF BookingPart!Select
    <3> QED
      BY <1>1, <3>1 DEF BookingPart!Form
  <2>3. ASSUME NEW number \in Numbers \cup {Null}, BookingPart!NewClient(number)
        PROVE  /\ x1' \in BookingPart!Form
               /\ x1'.service = x1.service /\ x1'.slot = x1.slot /\ x1'.slots = x1.slots
               /\ x1'.manual = x1.manual /\ x1'.loading = x1.loading /\ x1'.submitting = x1.submitting
    <3>1. x1' = [x1 EXCEPT !.fresh = TRUE, !.number = number]
      BY <2>3 DEF BookingPart!NewClient
    <3> QED
      BY <1>1, <3>1 DEF BookingPart!Form
  <2> QED
    BY <2>1, <2>2, <2>3
<1>3. BookingFits'
  BY <1>1, <1>2 DEF Reserving, BookingFits
<1>4. BookingPart!OneSubmission'
  BY <1>1, <1>2, FormIsNotNull, SubmissionStays DEF Reserving
<1>5. BookingPart!TimesFit'
  BY <1>1, <1>2, FormTimes, TimesStay DEF Reserving, BookingPart!Complete, BookingPart!Fits
<1> QED
  BY <1>3, <1>4, <1>5 DEF Reserving

\* A service that is chosen, or the way back to the times offered, asks for times.
LEMMA TimesAsked ==
    ASSUME Reserving, BookingPart!Act, NEW s \in Services, NEW f,
           f \in BookingPart!Form, f.service = s, ~f.manual, f.submitting = x1.submitting,
           x1' = BookingPart!Asked(f), BookingPart!AskFor(s),
           UNCHANGED <<x3, x4, x5, x8, x9, x10>>
    PROVE  Reserving'
<1> DEFINE new == [id |-> x7 + 1, service |-> s]
<1>1. x1' = [f EXCEPT !.slot = Null, !.loading = TRUE]
  BY DEF BookingPart!Asked
<1>2. x2' = x2 \cup {new}
  BY DEF BookingPart!AskFor
<1>3. x1 # Null /\ x7' = x7 + 1 /\ x7 \in Nat
  BY DEF BookingPart!Act, Reserving, BookingFits
<1>4. new \in [id: Nat, service: Services] /\ new.service = s
  BY <1>3
<1> HIDE DEF new
<1>5. /\ x1' \in BookingPart!Form /\ x1' # Null /\ x1'.service = s /\ x1'.manual = FALSE
      /\ x1'.loading = TRUE /\ x1'.slot = Null /\ x1'.submitting = x1.submitting
  <2>1. x1' \in BookingPart!Form /\ x1'.service = s /\ x1'.manual = FALSE
        /\ x1'.loading = TRUE /\ x1'.slot = Null /\ x1'.submitting = x1.submitting
    BY <1>1 DEF BookingPart!Form
  <2> QED
    BY <2>1, FormIsNotNull
<1>6. BookingFits'
  BY <1>2, <1>3, <1>4, <1>5 DEF Reserving, BookingFits
<1>7. BookingPart!OneSubmission'
  BY <1>3, <1>5, SubmissionStays DEF Reserving
<1>8. BookingPart!TimesFit'
  <2>1. \A l \in x2' : x2' = {l} => l.service = s
    BY <1>2, <1>4
  <2> QED
    BY <1>5, <2>1, TimesStay DEF Reserving, BookingPart!Complete
<1> QED
  BY <1>6, <1>7, <1>8 DEF Reserving

LEMMA ServiceChosen ==
    ASSUME Reserving, NEW s \in Services \cup {Null}, BookingPart!ChooseService(s)
    PROVE  Reserving'
<1>1. x1 \in BookingPart!Form /\ x1 # Null /\ x7' = x7 + 1 /\ UNCHANGED <<x3, x4, x5, x8, x9, x10>>
  BY DEF Reserving, BookingFits, BookingPart!ChooseService, BookingPart!Act
<1> DEFINE f == [x1 EXCEPT !.service = s]
<1>2. /\ f \in BookingPart!Form /\ f.service = s /\ f.manual = x1.manual /\ f.slot = x1.slot
      /\ f.submitting = x1.submitting
  BY <1>1 DEF BookingPart!Form
<1>3. CASE ~(x1.manual \/ s = Null)
  <2>1. x1' = BookingPart!Asked(f) /\ BookingPart!AskFor(s) /\ BookingPart!Act
    BY <1>3 DEF BookingPart!ChooseService
  <2>2. s \in Services /\ ~f.manual
    BY <1>2, <1>3
  <2> HIDE DEF f
  <2> QED
    BY <1>1, <1>2, <2>1, <2>2, TimesAsked
<1>4. CASE x1.manual \/ s = Null
  <2>1. x1' = f /\ x2' = x2
    BY <1>4 DEF BookingPart!ChooseService
  <2> HIDE DEF f
  <2>2. x1' # Null
    BY <1>2, <2>1, FormIsNotNull
  <2>3. BookingFits'
    BY <1>1, <1>2, <2>1 DEF Reserving, BookingFits
  <2>4. BookingPart!OneSubmission'
    BY <1>1, <1>2, <2>1, <2>2, SubmissionStays DEF Reserving
  <2>5. BookingPart!TimesFit'
    BY <1>1, <1>2, <1>4, <2>1, FormTimes, TimesStay DEF Reserving, BookingPart!Complete, BookingPart!Fits
  <2> QED
    BY <2>3, <2>4, <2>5 DEF Reserving
<1> QED
  BY <1>3, <1>4

LEMMA EntryToggled ==
    ASSUME Reserving, BookingPart!ToggleManualEntry
    PROVE  Reserving'
<1>1. /\ x1 \in BookingPart!Form /\ x1 # Null /\ x7' = x7 + 1 /\ x1.service \in Services
      /\ UNCHANGED <<x3, x4, x5, x8, x9, x10>>
  BY DEF Reserving, BookingFits, BookingPart!ToggleManualEntry, BookingPart!Act, BookingPart!Form
<1>2. CASE x1.manual
  <2> DEFINE f == [x1 EXCEPT !.manual = FALSE]
  <2>1. /\ f \in BookingPart!Form /\ f.service = x1.service /\ ~f.manual
        /\ f.submitting = x1.submitting
    BY <1>1 DEF BookingPart!Form
  <2>2. x1' = BookingPart!Asked(f) /\ BookingPart!AskFor(x1.service) /\ BookingPart!Act
    BY <1>2 DEF BookingPart!ToggleManualEntry
  <2> HIDE DEF f
  <2>3. PICK s \in Services : s = x1.service
    BY <1>1
  <2>4. BookingPart!AskFor(s) /\ f.service = s
    BY <2>1, <2>2, <2>3 DEF BookingPart!AskFor
  <2> QED
    BY <1>1, <2>1, <2>2, <2>3, <2>4, TimesAsked
<1>3. CASE ~x1.manual
  <2>1. x1' = [x1 EXCEPT !.manual = TRUE, !.slot = Null] /\ x2' = x2
    BY <1>3 DEF BookingPart!ToggleManualEntry
  <2>2. x1' \in BookingPart!Form /\ x1'.manual /\ x1'.slot = Null /\ x1'.submitting = x1.submitting
    BY <1>1, <2>1 DEF BookingPart!Form
  <2>3. x1' # Null
    BY <2>2, FormIsNotNull
  <2>4. BookingFits'
    BY <1>1, <2>1, <2>2 DEF Reserving, BookingFits
  <2>5. BookingPart!OneSubmission'
    BY <1>1, <2>2, <2>3, SubmissionStays DEF Reserving
  <2>6. BookingPart!TimesFit'
    BY <1>1, <2>2, TimesStay DEF Reserving, BookingPart!Complete
  <2> QED
    BY <2>4, <2>5, <2>6 DEF Reserving
<1> QED
  BY <1>2, <1>3

\* A time is picked or typed.
LEMMA TimeChosen ==
    ASSUME Reserving, NEW at \in BookingTimes, BookingPart!PickSlot(at) \/ BookingPart!TypeManual(at)
    PROVE  Reserving'
<1>1. /\ x1 \in BookingPart!Form /\ x1 # Null /\ x7' = x7 + 1 /\ UNCHANGED <<x2, x3, x4, x5, x8, x10>>
      /\ x9 \subseteq x9'
  BY DEF Reserving, BookingFits, BookingPart!PickSlot, BookingPart!TypeManual, BookingPart!Act
<1>2. PICK of \in Services \cup {Manual} :
        /\ x1' = [x1 EXCEPT !.slot = [of |-> of, at |-> at]]
        /\ \/ x1.manual /\ of = Manual
           \/ /\ ~x1.manual /\ of = x1.slots /\ x1.slots # Null
              /\ x1.service # Null /\ "stale" \notin x9' => ~x1.loading
  <2>1. CASE BookingPart!PickSlot(at)
    <3>1. x1.slots \in Services
      BY <1>1, <2>1 DEF BookingPart!PickSlot, BookingPart!Form
    <3> QED
      BY <2>1, <3>1 DEF BookingPart!PickSlot
  <2>2. CASE BookingPart!TypeManual(at)
    BY <2>2 DEF BookingPart!TypeManual
  <2> QED
    BY <2>1, <2>2
<1>3. [of |-> of, at |-> at] \in BookingPart!Slot
  BY DEF BookingPart!Slot
<1>4. PICK slot \in BookingPart!Slot : slot = [of |-> of, at |-> at]
  BY <1>3
<1>5. /\ x1' \in BookingPart!Form /\ x1'.slot = slot /\ slot.of = of /\ x1'.manual = x1.manual
      /\ x1'.service = x1.service /\ x1'.slots = x1.slots /\ x1'.loading = x1.loading
      /\ x1'.submitting = x1.submitting
  <2>1. x1' = [x1 EXCEPT !.slot = slot]
    BY <1>2, <1>4
  <2>2. slot.of = of
    BY <1>4
  <2> QED
    BY <1>1, <2>1, <2>2 DEF BookingPart!Form
<1>6. x1' # Null
  BY <1>5, FormIsNotNull
<1>7. BookingFits'
  BY <1>1, <1>5 DEF Reserving, BookingFits
<1>8. BookingPart!OneSubmission'
  BY <1>1, <1>5, <1>6, SubmissionStays DEF Reserving
<1>9. BookingPart!TimesFit'
  <2>1. "stale" \notin x9' /\ x1.service # Null => of \in {x1.service, Manual}
    BY <1>1, <1>2, FormTimes DEF Reserving
  <2>2. x1.manual => of = Manual
    BY <1>2
  <2> QED
    BY <1>1, <1>5, <2>1, <2>2, FormTimes, TimesStay DEF Reserving, BookingPart!Complete, BookingPart!Fits
<1> QED
  BY <1>7, <1>8, <1>9 DEF Reserving

LEMMA TimesAnswered ==
    ASSUME Reserving, NEW l \in x2, BookingPart!SlotsArrive(l) \/ BookingPart!SlotsFail(l)
    PROVE  Reserving'
<1>1. /\ x1 \in BookingPart!Form \cup {Null} /\ l.service \in Services
      /\ x2' = x2 \ {l} /\ x9 \subseteq x9' /\ UNCHANGED <<x3, x4, x5, x7, x8, x10>>
      /\ "stale" \notin x9' => x2 = {l} /\ BookingPart!SlotsArrive(l)
  BY DEF Reserving, BookingFits, BookingPart!SlotsArrive, BookingPart!SlotsFail
<1>2. CASE x1 = Null
  <2>1. x1' = Null
    BY <1>2 DEF BookingPart!SlotsArrive, BookingPart!SlotsFail
  <2>2. BookingFits'
    BY <1>1, <2>1 DEF Reserving, BookingFits
  <2>3. BookingPart!OneSubmission' /\ BookingPart!TimesFit'
    BY <1>1, <2>1, SubmissionStays, TimesStay DEF Reserving
  <2> QED
    BY <2>2, <2>3 DEF Reserving
<1>3. CASE x1 # Null
  <2>1. /\ x1' \in BookingPart!Form /\ x1'.slot = x1.slot /\ x1'.manual = x1.manual
        /\ x1'.service = x1.service /\ x1'.submitting = x1.submitting
        /\ BookingPart!SlotsArrive(l) => x1'.slots = l.service
    <3>1. CASE BookingPart!SlotsArrive(l)
      <4>1. x1' = [x1 EXCEPT !.slots = l.service, !.loading = FALSE]
        BY <1>3, <3>1 DEF BookingPart!SlotsArrive
      <4>2. PICK s \in Services : s = l.service
        BY <1>1
      <4> QED
        BY <1>1, <1>3, <4>1, <4>2 DEF BookingPart!Form
    <3>2. CASE BookingPart!SlotsFail(l) /\ ~BookingPart!SlotsArrive(l)
      <4>1. x1' = [x1 EXCEPT !.loading = FALSE]
        BY <1>3, <3>2 DEF BookingPart!SlotsFail
      <4>2. /\ x1' \in BookingPart!Form /\ x1'.slot = x1.slot /\ x1'.manual = x1.manual
            /\ x1'.service = x1.service /\ x1'.submitting = x1.submitting
        BY <1>1, <1>3, <4>1 DEF BookingPart!Form
      <4> QED
        BY <3>2, <4>2
    <3> QED
      BY <3>1, <3>2
  <2>2. x1' # Null
    BY <2>1, FormIsNotNull
  <2>3. BookingFits'
    BY <1>1, <2>1 DEF Reserving, BookingFits
  <2>4. BookingPart!OneSubmission'
    BY <1>1, <1>3, <2>1, <2>2, SubmissionStays DEF Reserving
  <2>5. BookingPart!TimesFit'
    <3>1. ASSUME "stale" \notin x9'
          PROVE  x2' = {} /\ x1'.slots = l.service
                 /\ (~x1.manual /\ x1.service # Null => l.service = x1.service)
      BY <1>1, <1>3, <2>1, <3>1, FormTimes DEF Reserving
    <3> QED
      BY <1>1, <1>3, <2>1, <3>1, FormTimes, TimesStay DEF Reserving, BookingPart!Complete, BookingPart!Fits
  <2> QED
    BY <2>3, <2>4, <2>5 DEF Reserving
<1> QED
  BY <1>2, <1>3

LEMMA ClosedOrTaken ==
    ASSUME Reserving, BookingPart!Close \/ \E at \in BookingTimes : BookingPart!OthersBook(at)
    PROVE  Reserving'
<1>1. /\ x7' \in Nat /\ UNCHANGED <<x2, x3, x4, x5, x8, x9, x10>>
      /\ x1' = Null \/ (x1' = x1 /\ x1 # Null)
  BY DEF Reserving, BookingFits, BookingPart!Close, BookingPart!OthersBook, BookingPart!Act
<1>2. BookingFits'
  BY <1>1 DEF Reserving, BookingFits
<1>3. BookingPart!OneSubmission'
  BY <1>1, SubmissionStays DEF Reserving
<1>4. BookingPart!TimesFit'
  BY <1>1, FormTimes, TimesStay DEF Reserving, BookingPart!Complete, BookingPart!Fits
<1> QED
  BY <1>2, <1>3, <1>4 DEF Reserving

\* The submissions that there are when a click makes one, or when one of them goes
\* on: none that acts, or that one.
LEMMA NoneActs ==
    ASSUME Reserving, BookingPart!HandleSubmit, x9' \cap {"lost", "twice"} = {}
    PROVE  BookingPart!Acting = {} /\ x5 = {} /\ x1 # Null
<1>1. x9 \cap {"lost", "twice"} = {} /\ x1 # Null /\ ~x1.submitting
      /\ \A r \in x3 : r.pc \notin {"create", "created"}
  BY DEF BookingPart!HandleSubmit, BookingPart!CanSubmit
<1>2. BookingPart!Booking = {}
  BY <1>1 DEF Reserving, BookingPart!OneSubmission
<1>3. \A r \in x3 : r.pc \in {"create", "created", "noClient", "book", "booked", "refused"}
  BY DEF Reserving, BookingFits, RunSet
<1>4. BookingPart!Acting = {}
  BY <1>1, <1>2, <1>3 DEF BookingPart!Acting, BookingPart!Booking
<1>5. x5 = {}
  BY <1>1, <1>2 DEF Reserving, BookingPart!OneSubmission, BookingPart!Booking
<1> QED
  BY <1>1, <1>4, <1>5

LEMMA OneActs ==
    ASSUME Reserving, NEW r \in x3, r.pc # "noClient", x9 \cap {"lost", "twice"} = {}
    PROVE  /\ \A q \in x3 : q.pc # "noClient" => q = r
           /\ r.pc # "booked" => x5 = {}
           /\ r.pc \in {"book", "booked", "refused"} /\ x1 # Null => x1.submitting
<1>1. r \in BookingPart!Acting
  BY DEF BookingPart!Acting
<1>2. \A q \in x3 : q.pc # "noClient" => q = r
  BY <1>1 DEF Reserving, BookingPart!OneSubmission, BookingPart!Acting
<1>3. r.pc # "booked" => x5 = {}
  BY <1>1, <1>2 DEF Reserving, BookingPart!OneSubmission
<1>4. r.pc \in {"book", "booked", "refused"} /\ x1 # Null => x1.submitting
  BY DEF Reserving, BookingPart!OneSubmission, BookingPart!Booking
<1> QED
  BY <1>2, <1>3, <1>4

\* The part of the invariant about submissions, where at most one acts.
LEMMA OneGoesOn ==
    ASSUME x10' \/ (\E r \in x3' : r.pc = "booked") => x5' # {},
           x9' \cap {"lost", "twice"} = {} =>
              /\ \A r, q \in x3' : r.pc # "noClient" /\ q.pc # "noClient" => r = q
              /\ \A r \in x3' : r.pc \in {"book", "booked", "refused"} /\ x1' # Null => x1'.submitting
              /\ \A a, b \in x5' : a = b
              /\ x5' # {} => \/ x1' = Null /\ \A r \in x3' : r.pc = "noClient"
                             \/ \E r \in x3' : r.pc = "booked"
    PROVE  BookingPart!OneSubmission'
BY DEF BookingPart!OneSubmission, BookingPart!Acting, BookingPart!Booking

\* The part about times, where the form's stay and a submission goes on with its own.
LEMMA TimeGoesOn ==
    ASSUME Reserving, x2' = x2, x9 \subseteq x9',
           x1' = Null \/ (/\ x1 # Null /\ x1'.service = x1.service /\ x1'.slot = x1.slot
                          /\ x1'.manual = x1.manual /\ x1'.slots = x1.slots /\ x1'.loading = x1.loading),
           \A r \in x3' : /\ r.pc \in {"book", "booked", "refused"} => r.service # Null /\ r.slot # Null
                          /\ \/ \E q \in x3 : r.service = q.service /\ r.slot = q.slot
                             \/ x1 # Null /\ r.service = x1.service /\ r.slot = x1.slot,
           \A a \in x5' : \/ a \in x5
                          \/ \E q \in x3 : /\ q.service # Null /\ q.slot # Null
                                           /\ a.service = q.service /\ a.slot = q.slot
    PROVE  BookingPart!TimesFit'
<1>1. "stale" \notin x9' => "stale" \notin x9
  OBVIOUS
<1>2. BookingPart!TimesFit
  BY DEF Reserving
<1>3. \A r \in x3' : r.pc \in {"book", "booked", "refused"} => r.service # Null /\ r.slot # Null
  OBVIOUS
<1>4. ASSUME "stale" \notin x9', NEW r \in x3', r.service # Null, r.slot # Null
      PROVE  r.slot.of \in {r.service, Manual}
  BY <1>1, <1>2, <1>4, FormTimes DEF BookingPart!TimesFit, BookingPart!Complete, BookingPart!Fits
<1>5. ASSUME "stale" \notin x9', NEW a \in x5'
      PROVE  a.slot.of \in {a.service, Manual}
  BY <1>1, <1>2, <1>5 DEF BookingPart!TimesFit, BookingPart!Complete, BookingPart!Fits
<1>6. ASSUME "stale" \notin x9', x1' # Null
      PROVE  /\ x1'.service # Null /\ x1'.slot # Null => x1'.slot.of \in {x1'.service, Manual}
             /\ x1'.manual /\ x1'.slot # Null => x1'.slot.of = Manual
             /\ (~x1'.manual /\ x1'.service # Null) =>
                  /\ (~x1'.loading /\ x1'.slots # Null) => x1'.slots = x1'.service
                  /\ \A l \in x2' : x2' = {l} => l.service = x1'.service
  BY <1>1, <1>2, <1>6, FormTimes
<1> QED
  BY <1>3, <1>4, <1>5, <1>6 DEF BookingPart!TimesFit, BookingPart!Booking, BookingPart!Complete, BookingPart!Fits

\* A click: the submission takes what the form holds.
LEMMA Submits ==
    ASSUME Reserving, BookingPart!HandleSubmit
    PROVE  Reserving'
<1>1. /\ x1 \in BookingPart!Form /\ x1 # Null /\ x8 \in Nat /\ x8' = x8 + 1
      /\ x9 \subseteq x9' /\ UNCHANGED <<x2, x4, x5, x7, x10>> /\ x3 \subseteq RunSet
  BY DEF Reserving, BookingFits, BookingPart!HandleSubmit, BookingPart!CanSubmit
<1>2. PICK new :
        /\ new \in RunSet /\ x3' = x3 \cup {new}
        /\ new.service = x1.service /\ new.slot = x1.slot
        /\ \/ new.pc = "create" /\ x1' = x1
           \/ new.pc = "book" /\ new.service # Null /\ new.slot # Null
              /\ x1' = [x1 EXCEPT !.submitting = TRUE]
  <2>1. \A pc \in {"create", "book"} : BookingPart!Run(pc) \in RunSet
    BY <1>1 DEF BookingPart!Run, RunSet, BookingPart!Form
  <2>2. \A pc \in {"create", "book"} :
           /\ BookingPart!Run(pc).pc = pc
           /\ BookingPart!Run(pc).service = x1.service /\ BookingPart!Run(pc).slot = x1.slot
    BY DEF BookingPart!Run
  <2>3. \/ x3' = x3 \cup {BookingPart!Run("create")} /\ x1' = x1
        \/ /\ x3' = x3 \cup {BookingPart!Run("book")} /\ x1' = [x1 EXCEPT !.submitting = TRUE]
           /\ BookingPart!Complete(BookingPart!Run("book"))
    BY DEF BookingPart!HandleSubmit
  <2> QED
    BY <2>1, <2>2, <2>3 DEF BookingPart!Complete
<1>3. /\ x1' \in BookingPart!Form /\ x1'.service = x1.service /\ x1'.slot = x1.slot
      /\ x1'.manual = x1.manual /\ x1'.slots = x1.slots /\ x1'.loading = x1.loading
      /\ new.pc = "book" => x1'.submitting
  BY <1>1, <1>2 DEF BookingPart!Form
<1>4. BookingFits'
  BY <1>1, <1>2, <1>3 DEF Reserving, BookingFits
<1>5. BookingPart!OneSubmission'
  <2>1. x9' \cap {"lost", "twice"} = {} => (\A r \in x3 : r.pc = "noClient") /\ x5 = {}
    BY NoneActs DEF BookingPart!Acting
  <2>2. x10' \/ (\E r \in x3' : r.pc = "booked") => x5' # {}
    BY <1>1, <1>2 DEF Reserving, BookingPart!OneSubmission
  <2> QED
    BY <1>1, <1>2, <1>3, <2>1, <2>2, OneGoesOn
<1>6. BookingPart!TimesFit'
  <2>1. \A r \in x3' : /\ r.pc \in {"book", "booked", "refused"} => r.service # Null /\ r.slot # Null
                       /\ \/ \E q \in x3 : r.service = q.service /\ r.slot = q.slot
                          \/ x1 # Null /\ r.service = x1.service /\ r.slot = x1.slot
    BY <1>1, <1>2 DEF Reserving, BookingPart!TimesFit, BookingPart!Booking, BookingPart!Complete
  <2> QED
    BY <1>1, <1>3, <2>1, TimeGoesOn
<1> QED
  BY <1>4, <1>5, <1>6 DEF Reserving

\* A submission goes on, and takes its service and time along.
LEMMA RunGoesOn ==
    ASSUME Reserving, NEW r \in x3, NEW s, NEW pc \in {"create", "created", "noClient", "book", "booked", "refused"},
           s = [r EXCEPT !.pc = pc], x3' = (x3 \ {r}) \cup {s}
    PROVE  x3' \subseteq RunSet /\ s.pc = pc /\ s.service = r.service /\ s.slot = r.slot
BY DEF Reserving, BookingFits, RunSet

LEMMA ClientMade ==
    ASSUME Reserving, NEW r \in x3, BookingPart!ClientsCreate(r)
    PROVE  Reserving'
<1>1. /\ r.pc = "create" /\ x3 \subseteq RunSet /\ UNCHANGED <<x1, x2, x5, x7, x8, x9, x10>>
  BY DEF Reserving, BookingFits, BookingPart!ClientsCreate
<1>2. PICK s \in RunSet :
        /\ x3' = (x3 \ {r}) \cup {s} /\ s.pc \in {"noClient", "created"}
        /\ s.service = r.service /\ s.slot = r.slot
        /\ x4' \in Seq(Numbers \cup {Null}) /\ Len(x4') <= NewClients
  <2>1. CASE r.number # Null /\ \E c \in DOMAIN x4 : x4[c] = r.number
    <3>1. x3' = (x3 \ {r}) \cup {[r EXCEPT !.pc = "noClient"]} /\ x4' = x4
      BY <2>1 DEF BookingPart!ClientsCreate, BookingPart!Becomes
    <3>2. /\ [r EXCEPT !.pc = "noClient"] \in RunSet /\ [r EXCEPT !.pc = "noClient"].pc = "noClient"
          /\ [r EXCEPT !.pc = "noClient"].service = r.service
          /\ [r EXCEPT !.pc = "noClient"].slot = r.slot
      BY <1>1 DEF RunSet
    <3> QED
      BY <3>1, <3>2 DEF Reserving, BookingFits
  <2>2. CASE ~(r.number # Null /\ \E c \in DOMAIN x4 : x4[c] = r.number)
    <3> DEFINE s == [r EXCEPT !.pc = "created", !.client = Len(x4) + 1]
    <3>1. x3' = (x3 \ {r}) \cup {s} /\ x4' = Append(x4, r.number) /\ Len(x4) < NewClients
      BY <2>2 DEF BookingPart!ClientsCreate, BookingPart!Becomes
    <3>2. x4 \in Seq(Numbers \cup {Null}) /\ r.number \in Numbers \cup {Null} /\ NewClients \in Nat
      BY <1>1, ScreensAssumption DEF Reserving, BookingFits, RunSet
    <3>3. Len(x4) + 1 \in BookingPart!Clients
      BY <3>1, <3>2 DEF BookingPart!Clients
    <3>4. PICK c \in BookingPart!Clients : c = Len(x4) + 1
      BY <3>3
    <3>5. s \in RunSet /\ s.pc = "created" /\ s.service = r.service /\ s.slot = r.slot
      BY <1>1, <3>4 DEF RunSet
    <3> HIDE DEF s
    <3>6. x4' \in Seq(Numbers \cup {Null}) /\ Len(x4') <= NewClients
      BY <3>1, <3>2
    <3> QED
      BY <3>1, <3>5, <3>6
  <2> QED
    BY <2>1, <2>2
<1>3. BookingFits'
  BY <1>1, <1>2 DEF Reserving, BookingFits
<1>4. BookingPart!OneSubmission'
  <2>1. x9 \cap {"lost", "twice"} = {} => (\A q \in x3 : q.pc # "noClient" => q = r) /\ x5 = {}
    BY <1>1, OneActs
  <2>2. x10 \/ (\E q \in x3 : q.pc = "booked") => x5 # {}
    BY DEF Reserving, BookingPart!OneSubmission
  <2> QED
    BY <1>1, <1>2, <2>1, <2>2, OneGoesOn
<1>5. BookingPart!TimesFit'
  <2>1. \A q \in x3' : /\ q.pc \in {"book", "booked", "refused"} => q.service # Null /\ q.slot # Null
                       /\ \E p \in x3 : q.service = p.service /\ q.slot = p.slot
    BY <1>1, <1>2 DEF Reserving, BookingPart!TimesFit, BookingPart!Booking, BookingPart!Complete
  <2> QED
    BY <1>1, <2>1, TimeGoesOn
<1> QED
  BY <1>3, <1>4, <1>5 DEF Reserving

LEMMA SecondCall ==
    ASSUME Reserving, NEW r \in x3, BookingPart!ClientArrives(r), BookingPart!Complete(r)
    PROVE  Reserving'
<1>1. /\ r.pc = "created" /\ x3 \subseteq RunSet /\ UNCHANGED <<x2, x4, x5, x7, x8, x9, x10>>
      /\ r.service # Null /\ r.slot # Null /\ x1 \in BookingPart!Form \cup {Null}
      /\ x3' = (x3 \ {r}) \cup {[r EXCEPT !.pc = "book"]}
      /\ x1' = IF x1 = Null THEN Null ELSE [x1 EXCEPT !.submitting = TRUE]
  BY DEF Reserving, BookingFits, BookingPart!ClientArrives, BookingPart!Becomes, BookingPart!Complete
<1>2. PICK s \in RunSet : /\ x3' = (x3 \ {r}) \cup {s} /\ s.pc = "book"
                          /\ s.service = r.service /\ s.slot = r.slot
  <2>1. [r EXCEPT !.pc = "book"] \in RunSet /\ [r EXCEPT !.pc = "book"].pc = "book"
        /\ [r EXCEPT !.pc = "book"].service = r.service /\ [r EXCEPT !.pc = "book"].slot = r.slot
    BY <1>1 DEF RunSet
  <2> QED
    BY <1>1, <2>1
<1>3. \/ x1' = Null
      \/ /\ x1 # Null /\ x1' \in BookingPart!Form /\ x1'.submitting
         /\ x1'.service = x1.service /\ x1'.slot = x1.slot
         /\ x1'.manual = x1.manual /\ x1'.slots = x1.slots /\ x1'.loading = x1.loading
  <2>1. CASE x1 # Null
    <3>1. x1' = [x1 EXCEPT !.submitting = TRUE] /\ x1 \in BookingPart!Form
      BY <1>1, <2>1
    <3> QED
      BY <2>1, <3>1 DEF BookingPart!Form
  <2> QED
    BY <1>1, <2>1
<1>4. BookingFits'
  BY <1>1, <1>2, <1>3 DEF Reserving, BookingFits
<1>5. BookingPart!OneSubmission'
  <2>1. x9 \cap {"lost", "twice"} = {} => (\A q \in x3 : q.pc # "noClient" => q = r) /\ x5 = {}
    BY <1>1, OneActs
  <2>2. x10 \/ (\E q \in x3 : q.pc = "booked") => x5 # {}
    BY DEF Reserving, BookingPart!OneSubmission
  <2> QED
    BY <1>1, <1>2, <1>3, <2>1, <2>2, OneGoesOn
<1>6. BookingPart!TimesFit'
  <2>1. \A q \in x3' : /\ q.pc \in {"book", "booked", "refused"} => q.service # Null /\ q.slot # Null
                       /\ \E p \in x3 : q.service = p.service /\ q.slot = p.slot
    BY <1>1, <1>2 DEF Reserving, BookingPart!TimesFit, BookingPart!Booking, BookingPart!Complete
  <2> QED
    BY <1>1, <1>3, <2>1, TimeGoesOn
<1> QED
  BY <1>4, <1>5, <1>6 DEF Reserving

LEMMA AppointmentMade ==
    ASSUME Reserving, NEW r \in x3, BookingPart!AppointmentsCreate(r)
    PROVE  Reserving'
<1>1. /\ r.pc = "book" /\ x3 \subseteq RunSet /\ UNCHANGED <<x1, x2, x4, x7, x8, x9, x10>>
      /\ x1 \in BookingPart!Form \cup {Null}
  BY DEF Reserving, BookingFits, BookingPart!AppointmentsCreate
<1>2. r.service # Null /\ r.slot # Null
  BY <1>1 DEF Reserving, BookingPart!TimesFit, BookingPart!Booking, BookingPart!Complete
<1> DEFINE booking == [client |-> r.client, service |-> r.service, slot |-> r.slot]
<1>3. PICK s \in RunSet :
        /\ x3' = (x3 \ {r}) \cup {s} /\ s.service = r.service /\ s.slot = r.slot
        /\ \/ s.pc = "refused" /\ x5' = x5
           \/ s.pc = "booked" /\ x5' = x5 \cup {booking}
  <2>1. \A pc \in {"refused", "booked"} :
           /\ [r EXCEPT !.pc = pc] \in RunSet /\ [r EXCEPT !.pc = pc].pc = pc
           /\ [r EXCEPT !.pc = pc].service = r.service /\ [r EXCEPT !.pc = pc].slot = r.slot
    BY <1>1 DEF RunSet
  <2>2. \/ x3' = (x3 \ {r}) \cup {[r EXCEPT !.pc = "refused"]} /\ x5' = x5
        \/ x3' = (x3 \ {r}) \cup {[r EXCEPT !.pc = "booked"]} /\ x5' = x5 \cup {booking}
    BY DEF BookingPart!AppointmentsCreate, BookingPart!Becomes
  <2> QED
    BY <2>1, <2>2
<1>4. booking.service = r.service /\ booking.slot = r.slot
  OBVIOUS
<1> HIDE DEF booking
<1>5. BookingFits'
  BY <1>1, <1>3 DEF Reserving, BookingFits
<1>6. BookingPart!OneSubmission'
  <2>1. x9 \cap {"lost", "twice"} = {} =>
           (\A q \in x3 : q.pc # "noClient" => q = r) /\ x5 = {} /\ (x1 # Null => x1.submitting)
    BY <1>1, OneActs
  <2>2. x10 \/ (\E q \in x3 : q.pc = "booked") => x5 # {}
    BY DEF Reserving, BookingPart!OneSubmission
  <2> QED
    BY <1>1, <1>3, <2>1, <2>2, OneGoesOn
<1>7. BookingPart!TimesFit'
  <2>1. \A q \in x3' : /\ q.pc \in {"book", "booked", "refused"} => q.service # Null /\ q.slot # Null
                       /\ \E p \in x3 : q.service = p.service /\ q.slot = p.slot
    BY <1>1, <1>2, <1>3 DEF Reserving, BookingPart!TimesFit, BookingPart!Booking, BookingPart!Complete
  <2>2. \A a \in x5' : a \in x5 \/ (a.service = r.service /\ a.slot = r.slot)
    BY <1>3, <1>4
  <2> QED
    BY <1>1, <1>2, <2>1, <2>2, TimeGoesOn
<1> QED
  BY <1>5, <1>6, <1>7 DEF Reserving

\* A submission ends: done, refused, lost, or without a service or a time.
LEMMA SubmissionEnds ==
    ASSUME Reserving, NEW r \in x3,
           \/ BookingPart!Done(r) \/ BookingPart!Refused(r) \/ BookingPart!Lost(r)
           \/ BookingPart!ClientArrives(r) /\ ~BookingPart!Complete(r)
    PROVE  Reserving'
<1>1. /\ x3 \subseteq RunSet /\ x1 \in BookingPart!Form \cup {Null}
      /\ x3' = x3 \ {r} /\ x9 \subseteq x9' /\ UNCHANGED <<x2, x4, x5, x7, x8>>
      /\ x10' \in BOOLEAN /\ (x10' => x10 \/ r.pc = "booked")
      /\ x9' \cap {"lost", "twice"} = {} =>
            \/ r.pc = "booked" /\ x1' = Null
            \/ r.pc \in {"created", "refused"}
            \/ r.pc = "noClient" /\ x1' = x1
      /\ \/ x1' = x1 \/ x1' = Null
         \/ x1 # Null /\ x1' = [x1 EXCEPT !.submitting = FALSE]
  <2>1. x3 \subseteq RunSet /\ x1 \in BookingPart!Form \cup {Null} /\ x10 \in BOOLEAN
    BY DEF Reserving, BookingFits
  <2>2. CASE BookingPart!Done(r)
    BY <2>1, <2>2 DEF BookingPart!Done
  <2>3. CASE BookingPart!Refused(r)
    BY <2>1, <2>3 DEF BookingPart!Refused, BookingPart!Failed
  <2>4. CASE BookingPart!Lost(r)
    BY <2>1, <2>4 DEF BookingPart!Lost, BookingPart!Failed
  <2>5. CASE BookingPart!ClientArrives(r) /\ ~BookingPart!Complete(r)
    BY <2>1, <2>5 DEF BookingPart!ClientArrives
  <2> QED
    BY <2>2, <2>3, <2>4, <2>5
<1>2. \/ x1' = Null
      \/ /\ x1 # Null /\ x1' \in BookingPart!Form
         /\ x1'.service = x1.service /\ x1'.slot = x1.slot
         /\ x1'.manual = x1.manual /\ x1'.slots = x1.slots /\ x1'.loading = x1.loading
  <2>1. CASE x1' = x1 \/ x1' = Null
    BY <1>1, <2>1
  <2>2. CASE x1 # Null /\ x1' = [x1 EXCEPT !.submitting = FALSE]
    BY <1>1, <2>2 DEF BookingPart!Form
  <2> QED
    BY <1>1, <2>1, <2>2
<1>3. BookingFits'
  BY <1>1, <1>2 DEF Reserving, BookingFits
<1>4. BookingPart!OneSubmission'
  <2>1. x10 \/ (\E q \in x3 : q.pc = "booked") => x5 # {}
    BY DEF Reserving, BookingPart!OneSubmission
  <2>2. x10' \/ (\E q \in x3' : q.pc = "booked") => x5' # {}
    BY <1>1, <2>1
  <2>3. CASE x9' \cap {"lost", "twice"} # {}
    BY <2>2, <2>3, OneGoesOn
  <2>4. CASE x9' \cap {"lost", "twice"} = {} /\ r.pc = "noClient"
    <3>1. /\ \A p, q \in x3 : p.pc # "noClient" /\ q.pc # "noClient" => p = q
          /\ \A q \in x3 : q.pc \in {"book", "booked", "refused"} /\ x1 # Null => x1.submitting
          /\ \A a, b \in x5 : a = b
          /\ x5 # {} => \/ x1 = Null /\ \A q \in x3 : q.pc = "noClient"
                        \/ \E q \in x3 : q.pc = "booked"
      BY <1>1, <2>4 DEF Reserving, BookingPart!OneSubmission, BookingPart!Acting, BookingPart!Booking
    <3> QED
      BY <1>1, <2>2, <2>4, <3>1, OneGoesOn
  <2>5. CASE x9' \cap {"lost", "twice"} = {} /\ r.pc # "noClient"
    <3>1. x9 \cap {"lost", "twice"} = {}
      BY <1>1, <2>5
    <3>2. (\A q \in x3 : q.pc # "noClient" => q = r) /\ (r.pc # "booked" => x5 = {})
      BY <2>5, <3>1, OneActs
    <3>3. \A a, b \in x5 : a = b
      BY <3>1 DEF Reserving, BookingPart!OneSubmission
    <3>4. \A q \in x3' : q.pc = "noClient"
      BY <1>1, <3>2
    <3>5. r.pc = "booked" => x1' = Null
      BY <1>1, <2>5
    <3> QED
      BY <1>1, <2>2, <3>2, <3>3, <3>4, <3>5, OneGoesOn
  <2> QED
    BY <2>3, <2>4, <2>5
<1>5. BookingPart!TimesFit'
  <2>1. \A q \in x3' : q.pc \in {"book", "booked", "refused"} => q.service # Null /\ q.slot # Null
    BY <1>1 DEF Reserving, BookingPart!TimesFit, BookingPart!Booking, BookingPart!Complete
  <2> QED
    BY <1>1, <1>2, <2>1, TimeGoesOn
<1> QED
  BY <1>3, <1>4, <1>5 DEF Reserving

LEMMA BookingStep ==
    ASSUME Reserving, BookingPart!Next
    PROVE  Reserving'
BY ClientChosen, ServiceChosen, EntryToggled, TimeChosen, TimesAnswered, ClosedOrTaken, Submits,
   ClientMade, SecondCall, AppointmentMade, SubmissionEnds DEF BookingPart!Next

LEMMA BookingStays ==
    ASSUME Reserving, UNCHANGED BookingPart!vars
    PROVE  Reserving'
<1>1. UNCHANGED <<x1, x2, x3, x4, x5, x6, x7, x8, x9, x10>>
  BY DEF BookingPart!vars
<1> QED
  BY <1>1 DEF Reserving, BookingFits, BookingPart!OneSubmission, BookingPart!TimesFit, BookingPart!Acting,
              BookingPart!Booking, BookingPart!Complete, BookingPart!Fits

LEMMA BookingTells ==
    ASSUME Reserving
    PROVE  BookingPart!BookedOnce
<1>1. ASSUME x9 \cap {"lost", "twice"} = {}
      PROVE  ~(BookingPart!Cardinality(x5) > 1)
  <2>1. \A a, b \in x5 : a = b
    BY <1>1 DEF Reserving, BookingPart!OneSubmission
  <2>2. x5 = {} \/ \E a : x5 = {a}
    BY <2>1
  <2>3. Cardinality(x5) \in {0, 1}
    BY <2>2, FS_EmptySet, FS_Singleton
  <2>4. BookingPart!Cardinality(x5) = Cardinality(x5)
    BY DEF BookingPart!Cardinality, Cardinality
  <2> QED
    BY <2>3, <2>4
<1>2. ASSUME "stale" \notin x9, NEW a \in x5
      PROVE  a.slot.of \in {a.service, Manual}
  BY <1>2 DEF Reserving, BookingPart!TimesFit, BookingPart!Fits
<1>3. x10 => x5 # {}
  BY DEF Reserving, BookingPart!OneSubmission
<1> QED
  BY <1>1, <1>2, <1>3 DEF BookingPart!BookedOnce

\* What is submitted is carried out once, unless an answer was lost or the button was
\* on meanwhile, for any services, times, clients and clicks.
THEOREM WhatIsSubmittedIsDoneOnce == ScreensSpec => []SubmittedOnce
<1> DEFINE I == (part = "booking" => Reserving) /\ (part = "form" => Submitting)
<1>1. ScreensInit => I
  BY ScreensBegin, BookingBegins, SubmittingBegins
<1>2. I /\ [ScreensNext]_registers => I'
  BY ScreensStep, BookingStep, BookingStays, FormStep, FormStays
<1>3. I => SubmittedOnce
  BY BookingTells, FormTells DEF SubmittedOnce
<1> QED
  BY <1>1, <1>2, <1>3, PTL DEF ScreensSpec

-----------------------------------------------------------------------------
(* Sums *)

\* A property of finite sets that each has if all smaller ones have it: Q is the set
\* of those that have it.
LEMMA SmallerSetsFirst ==
    ASSUME NEW S, IsFiniteSet(S), NEW Q,
           \A T \in SUBSET S : (\A U \in SUBSET T : U # T => U \in Q) => T \in Q
    PROVE  \A T \in SUBSET S : T \in Q
<1> DEFINE R == StrictSubsetOrdering(S)
           Bad == {T \in SUBSET S : T \notin Q}
<1> SUFFICES ASSUME Bad # {}
             PROVE  FALSE
  OBVIOUS
<1>1. FiniteSubsetsOf(S) = SUBSET S
  BY FS_FiniteSubsetsOfFinite
<1>2. IsWellFoundedOn(R, SUBSET S)
  <2>1. IsWellFoundedOn(StrictSubsetOrdering(S), FiniteSubsetsOf(S))
    BY FS_StrictSubsetOrderingWellFounded
  <2> QED
    BY <1>1, <2>1
<1>3. \A T, U \in SUBSET S : U \subseteq T /\ U # T => <<U, T>> \in R
  BY DEF StrictSubsetOrdering
<1> HIDE DEF R
<1>4. Bad \subseteq SUBSET S /\ Bad # {}
  OBVIOUS
<1>5. PICK T \in Bad : \A U \in Bad : ~(<<U, T>> \in R)
  <2> HIDE DEF Bad
  <2> QED
    BY <1>2, <1>4, WFMin
<1>6. T \in SUBSET S /\ T \notin Q
  OBVIOUS
<1>7. ASSUME NEW U \in SUBSET T, U # T
      PROVE  U \in Q
  <2>1. U \in SUBSET S /\ <<U, T>> \in R
    BY <1>3, <1>6, <1>7
  <2> QED
    BY <1>5, <2>1
<1> QED
  BY <1>6, <1>7

First(s) == CHOOSE x \in s : TRUE

\* g adds up the values of f over each subset of S.
AddsUp(g, f, S) == g = [s \in SUBSET S |-> IF s = {} THEN 0 ELSE f[First(s)] + g[s \ {First(s)}]]

SumOver(f, S) == (CHOOSE g : AddsUp(g, f, S))[S]

LEMMA SumsAre ==
    ASSUME NEW f, NEW S
    PROVE  /\ ReportsPart!SumFunctionOnSet(f, S) = SumOver(f, S)
           /\ FunnelPart!SumFunctionOnSet(f, S) = SumOver(f, S)
<1>1. ReportsPart!SumFunctionOnSet(f, S) = SumOver(f, S)
  BY DEF ReportsPart!SumFunctionOnSet, ReportsPart!FoldFunctionOnSet, ReportsPart!MapThenFoldSet, SumOver, AddsUp, First
<1>2. FunnelPart!SumFunctionOnSet(f, S) = SumOver(f, S)
  BY DEF FunnelPart!SumFunctionOnSet, FunnelPart!FoldFunctionOnSet, FunnelPart!MapThenFoldSet, SumOver, AddsUp, First
<1> QED
  BY <1>1, <1>2

LEMMA FirstIs == \A s : s # {} => First(s) \in s
BY DEF First

LEMMA AddsUpOnce ==
    ASSUME NEW f, NEW S, NEW T, NEW g, NEW h, AddsUp(g, f, S), AddsUp(h, f, T), IsFiniteSet(S), S \subseteq T
    PROVE  \A R \in SUBSET S : g[R] = h[R]
<1> DEFINE Q == {R \in SUBSET S : g[R] = h[R]}
<1>1. ASSUME NEW R \in SUBSET S, \A U \in SUBSET R : U # R => U \in Q
      PROVE  R \in Q
  <2>1. /\ g[R] = IF R = {} THEN 0 ELSE f[First(R)] + g[R \ {First(R)}]
        /\ h[R] = IF R = {} THEN 0 ELSE f[First(R)] + h[R \ {First(R)}]
    BY DEF AddsUp
  <2>2. CASE R = {}
    BY <2>1, <2>2
  <2>3. CASE R # {}
    <3>1. First(R) \in R
      BY <2>3, FirstIs
    <3>2. R \ {First(R)} \in Q
      BY <1>1, <3>1
    <3> QED
      BY <2>1, <2>3, <3>2
  <2> QED
    BY <2>2, <2>3
<1> HIDE DEF Q
<1>2. \A R \in SUBSET S : R \in Q
  BY <1>1, SmallerSetsFirst
<1> QED
  BY <1>2 DEF Q

LEMMA SumsExist ==
    ASSUME NEW f, NEW S, IsFiniteSet(S)
    PROVE  \A T \in SUBSET S : \E g : AddsUp(g, f, T)
<1> DEFINE Q == {T \in SUBSET S : \E g : AddsUp(g, f, T)}
<1>1. ASSUME NEW T \in SUBSET S, \A U \in SUBSET T : U # T => U \in Q
      PROVE  T \in Q
  <2> DEFINE v(s) == IF s = {} THEN 0 ELSE f[First(s)] + SumOver(f, s \ {First(s)})
             g == [s \in SUBSET T |-> v(s)]
  <2>1. ASSUME NEW s \in SUBSET T, s # T
        PROVE  SumOver(f, s) = v(s)
    <3>1. s \in Q
      BY <1>1, <2>1
    <3>2. PICK h : h = CHOOSE k : AddsUp(k, f, s)
      OBVIOUS
    <3>3. AddsUp(h, f, s)
      BY <3>1, <3>2
    <3>4. SumOver(f, s) = h[s]
      BY <3>2 DEF SumOver
    <3>5. h[s] = IF s = {} THEN 0 ELSE f[First(s)] + h[s \ {First(s)}]
      BY <3>3 DEF AddsUp
    <3>6. CASE s = {}
      BY <3>4, <3>5, <3>6
    <3>7. CASE s # {}
      <4> DEFINE r == s \ {First(s)}
      <4>1. First(s) \in s
        BY <3>7, FirstIs
      <4>2. r \in SUBSET T /\ r # T /\ r \subseteq s
        BY <4>1
      <4>3. r \in Q
        BY <1>1, <4>2
      <4>4. PICK k : k = CHOOSE l : AddsUp(l, f, r)
        OBVIOUS
      <4>5. AddsUp(k, f, r)
        BY <4>3, <4>4
      <4>6. SumOver(f, r) = k[r]
        BY <4>4 DEF SumOver
      <4>7. IsFiniteSet(r)
        BY <4>2, FS_Subset
      <4>8. k[r] = h[r]
        <5> HIDE DEF r
        <5> QED
          BY <3>3, <4>2, <4>5, <4>7, AddsUpOnce
      <4> QED
        BY <3>4, <3>5, <3>7, <4>6, <4>8
    <3> QED
      BY <3>6, <3>7
  <2>2. ASSUME NEW s \in SUBSET T
        PROVE  g[s] = IF s = {} THEN 0 ELSE f[First(s)] + g[s \ {First(s)}]
    <3>1. CASE s = {}
      BY <3>1
    <3>2. CASE s # {}
      <4> DEFINE r == s \ {First(s)}
      <4>1. First(s) \in s
        BY <3>2, FirstIs
      <4>2. r \in SUBSET T /\ r # T
        BY <4>1
      <4>3. SumOver(f, r) = v(r)
        BY <2>1, <4>2
      <4>4. g[r] = v(r) /\ g[s] = f[First(s)] + SumOver(f, r)
        BY <3>2, <4>2
      <4> QED
        BY <3>2, <4>3, <4>4
    <3> QED
      BY <3>1, <3>2
  <2>3. AddsUp(g, f, T)
    <3>1. g = [s \in SUBSET T |-> g[s]]
      OBVIOUS
    <3> HIDE DEF g
    <3> QED
      BY <2>2, <3>1 DEF AddsUp
  <2> QED
    BY <2>3
<1> HIDE DEF Q
<1>2. \A T \in SUBSET S : T \in Q
  BY <1>1, SmallerSetsFirst
<1> QED
  BY <1>2 DEF Q

\* What a sum is: nothing of nothing, and of a set its first value and the rest.
LEMMA SumStarts ==
    ASSUME NEW f, NEW S, IsFiniteSet(S)
    PROVE  SumOver(f, S) = IF S = {} THEN 0 ELSE f[First(S)] + SumOver(f, S \ {First(S)})
<1>1. PICK h : h = CHOOSE k : AddsUp(k, f, S)
  OBVIOUS
<1>2. AddsUp(h, f, S)
  BY <1>1, SumsExist
<1>3. SumOver(f, S) = h[S]
  BY <1>1 DEF SumOver
<1>4. h[S] = IF S = {} THEN 0 ELSE f[First(S)] + h[S \ {First(S)}]
  BY <1>2 DEF AddsUp
<1> DEFINE r == S \ {First(S)}
<1>5. PICK k : k = CHOOSE l : AddsUp(l, f, r)
  OBVIOUS
<1>6. AddsUp(k, f, r)
  BY <1>5, SumsExist
<1>7. SumOver(f, r) = k[r]
  BY <1>5 DEF SumOver
<1>8. k[r] = h[r]
  <2>1. IsFiniteSet(r) /\ r \subseteq S
    BY FS_RemoveElement
  <2> HIDE DEF r
  <2> QED
    BY <1>2, <1>6, <2>1, AddsUpOnce
<1> QED
  BY <1>3, <1>4, <1>7, <1>8

\* A sum of integers is one, and any element can be taken out first.
LEMMA SumTakesOut ==
    ASSUME NEW f, NEW S, IsFiniteSet(S), \A x \in S : f[x] \in Int
    PROVE  /\ SumOver(f, {}) = 0
           /\ \A T \in SUBSET S : SumOver(f, T) \in Int
           /\ \A T \in SUBSET S : \A x \in T : SumOver(f, T) = f[x] + SumOver(f, T \ {x})
<1>1. SumOver(f, {}) = 0
  BY FS_EmptySet, SumStarts
<1> DEFINE Q == {T \in SUBSET S : /\ SumOver(f, T) \in Int
                                  /\ \A x \in T : SumOver(f, T) = f[x] + SumOver(f, T \ {x})}
<1>2. ASSUME NEW T \in SUBSET S, \A U \in SUBSET T : U # T => U \in Q
      PROVE  T \in Q
  <2>1. CASE T = {}
    BY <1>1, <2>1
  <2>2. CASE T # {}
    <3>1. PICK y \in T : SumOver(f, T) = f[y] + SumOver(f, T \ {y})
      <4>1. IsFiniteSet(T)
        BY FS_Subset
      <4>2. First(T) \in T /\ SumOver(f, T) = f[First(T)] + SumOver(f, T \ {First(T)})
        BY <2>2, <4>1, SumStarts, FirstIs
      <4> QED
        BY <4>2
    <3>2. T \ {y} \in Q
      BY <1>2, <3>1
    <3>3. SumOver(f, T) \in Int
      BY <3>1, <3>2
    <3>4. ASSUME NEW x \in T
          PROVE  SumOver(f, T) = f[x] + SumOver(f, T \ {x})
      <4>1. CASE x = y
        BY <3>1, <4>1
      <4>2. CASE x # y
        <5>1. SumOver(f, T \ {y}) = f[x] + SumOver(f, (T \ {y}) \ {x})
          BY <3>2, <4>2
        <5>2. T \ {x} \in Q /\ (T \ {y}) \ {x} \in Q
          BY <1>2, <3>4
        <5>3. SumOver(f, T \ {x}) = f[y] + SumOver(f, (T \ {x}) \ {y})
          BY <4>2, <5>2
        <5>4. (T \ {x}) \ {y} = (T \ {y}) \ {x}
          OBVIOUS
        <5>5. f[x] \in Int /\ f[y] \in Int /\ SumOver(f, (T \ {y}) \ {x}) \in Int
          BY <5>2
        <5>6. SumOver(f, T \ {x}) = f[y] + SumOver(f, (T \ {y}) \ {x})
          BY <5>3, <5>4
        <5>7. \A a, b, r \in Int : b + (a + r) = a + (b + r)
          OBVIOUS
        <5>8. f[y] + (f[x] + SumOver(f, (T \ {y}) \ {x})) = f[x] + (f[y] + SumOver(f, (T \ {y}) \ {x}))
          BY <5>5, <5>7
        <5> QED
          BY <3>1, <5>1, <5>6, <5>8, Zenon
      <4> QED
        BY <4>1, <4>2
    <3> QED
      BY <3>3, <3>4
  <2> QED
    BY <2>1, <2>2
<1> HIDE DEF Q
<1>3. \A T \in SUBSET S : T \in Q
  BY <1>2, SmallerSetsFirst
<1> QED
  BY <1>1, <1>3 DEF Q

\* An element that comes to a set.
LEMMA SumPutsIn ==
    ASSUME NEW f, NEW S, IsFiniteSet(S), \A y \in S : f[y] \in Int, NEW x, x \notin S, f[x] \in Int
    PROVE  SumOver(f, S \cup {x}) = f[x] + SumOver(f, S) /\ SumOver(f, S) \in Int
<1>1. IsFiniteSet(S \cup {x}) /\ \A y \in S \cup {x} : f[y] \in Int
  BY FS_AddElement
<1>2. (S \cup {x}) \ {x} = S
  OBVIOUS
<1> DEFINE T == S \cup {x}
<1>3. /\ \A U \in SUBSET T : SumOver(f, U) \in Int
      /\ \A U \in SUBSET T : \A y \in U : SumOver(f, U) = f[y] + SumOver(f, U \ {y})
  <2> HIDE DEF T
  <2> QED
    BY <1>1, SumTakesOut DEF T
<1>4. x \in T /\ T \in SUBSET T /\ S \in SUBSET T
  OBVIOUS
<1> QED
  BY <1>2, <1>3, <1>4

\* Functions that agree on a set have the same sum over it.
LEMMA SumsAgree ==
    ASSUME NEW f, NEW g, NEW S, IsFiniteSet(S), \A x \in S : f[x] \in Int /\ g[x] = f[x]
    PROVE  SumOver(g, S) = SumOver(f, S)
<1> DEFINE Q == {T \in SUBSET S : SumOver(g, T) = SumOver(f, T)}
<1>1. /\ SumOver(f, {}) = 0 /\ SumOver(g, {}) = 0
      /\ \A T \in SUBSET S : \A x \in T : SumOver(f, T) = f[x] + SumOver(f, T \ {x})
      /\ \A T \in SUBSET S : \A x \in T : SumOver(g, T) = g[x] + SumOver(g, T \ {x})
  BY SumTakesOut
<1>2. ASSUME NEW T \in SUBSET S, \A U \in SUBSET T : U # T => U \in Q
      PROVE  T \in Q
  <2>1. CASE T = {}
    BY <1>1, <2>1
  <2>2. CASE T # {}
    <3>1. PICK x \in T : TRUE
      BY <2>2
    <3>2. T \ {x} \in Q
      BY <1>2, <3>1
    <3> QED
      BY <1>1, <3>2
  <2> QED
    BY <2>1, <2>2
<1> HIDE DEF Q
<1>3. \A T \in SUBSET S : T \in Q
  BY <1>2, SmallerSetsFirst
<1> QED
  BY <1>3 DEF Q

\* One for each is how many there are, and nothing for each is nothing.
LEMMA SumOfOnes ==
    ASSUME NEW f, NEW S, IsFiniteSet(S)
    PROVE  /\ (\A x \in S : f[x] = 1) => SumOver(f, S) = Cardinality(S)
           /\ (\A x \in S : f[x] = 0) => SumOver(f, S) = 0
<1>1. ASSUME NEW c \in {0, 1}, \A x \in S : f[x] = c
      PROVE  SumOver(f, S) = IF c = 1 THEN Cardinality(S) ELSE 0
  <2> DEFINE Q == {T \in SUBSET S : SumOver(f, T) = IF c = 1 THEN Cardinality(T) ELSE 0}
  <2>1. /\ SumOver(f, {}) = 0
        /\ \A T \in SUBSET S : \A x \in T : SumOver(f, T) = f[x] + SumOver(f, T \ {x})
    <3>1. \A x \in S : f[x] \in Int
      BY <1>1
    <3> QED
      BY <3>1, SumTakesOut
  <2>2. ASSUME NEW T \in SUBSET S, \A U \in SUBSET T : U # T => U \in Q
        PROVE  T \in Q
    <3>1. CASE T = {}
      BY <2>1, <3>1, FS_EmptySet
    <3>2. CASE T # {}
      <4>1. PICK x \in T : TRUE
        BY <3>2
      <4>2. T \ {x} \in Q
        BY <2>2, <4>1
      <4>3. IsFiniteSet(T) /\ Cardinality(T \ {x}) = Cardinality(T) - 1 /\ Cardinality(T) \in Nat
        BY FS_Subset, FS_RemoveElement, FS_CardinalityType
      <4>4. SumOver(f, T) = c + SumOver(f, T \ {x})
        BY <1>1, <2>1
      <4>5. SumOver(f, T \ {x}) = IF c = 1 THEN Cardinality(T) - 1 ELSE 0
        BY <4>2, <4>3
      <4> QED
        BY <4>3, <4>4, <4>5
    <3> QED
      BY <3>1, <3>2
  <2> HIDE DEF Q
  <2>3. \A T \in SUBSET S : T \in Q
    BY <2>2, SmallerSetsFirst
  <2> QED
    BY <2>3 DEF Q
<1> QED
  BY <1>1

\* g sums f over the elements of each kind, or counts them.
SumsByKind(g, f, S, K, kind) ==
    /\ \A x \in S : kind[x] \in K
    /\ \A k \in K : g[k] = SumOver(f, {x \in S : kind[x] = k})

CountsByKind(g, S, K, kind) ==
    /\ \A x \in S : kind[x] \in K
    /\ \A k \in K : g[k] = Cardinality({x \in S : kind[x] = k})

\* What adds up by kind adds up.
LEMMA SumsOfKinds ==
    ASSUME NEW f, NEW S, IsFiniteSet(S), \A x \in S : f[x] \in Int,
           NEW K, IsFiniteSet(K), NEW kind, NEW g, SumsByKind(g, f, S, K, kind)
    PROVE  SumOver(g, K) = SumOver(f, S)
<1> DEFINE Of(T, k) == {x \in T : kind[x] = k}
           G(T) == [k \in K |-> SumOver(f, Of(T, k))]
           Q == {T \in SUBSET S : SumOver(G(T), K) = SumOver(f, T)}
<1> USE DEF SumsByKind
<1>1. /\ SumOver(f, {}) = 0
      /\ \A T \in SUBSET S : SumOver(f, T) \in Int
      /\ \A T \in SUBSET S : \A x \in T : SumOver(f, T) = f[x] + SumOver(f, T \ {x})
  BY SumTakesOut
<1>2. \A T \in SUBSET S, k \in K : G(T)[k] \in Int /\ G(T)[k] = SumOver(f, Of(T, k)) /\ Of(T, k) \in SUBSET S
  BY <1>1
<1>3. ASSUME NEW T \in SUBSET S, \A U \in SUBSET T : U # T => U \in Q
      PROVE  T \in Q
  <2>1. CASE T = {}
    <3>1. \A k \in K : G(T)[k] = 0
      <4>1. \A k \in K : Of(T, k) = {}
        BY <2>1
      <4> QED
        BY <1>1, <1>2, <4>1
    <3>2. SumOver(G(T), K) = 0
      <4> HIDE DEF G
      <4> QED
        BY <3>1, SumOfOnes
    <3> QED
      BY <1>1, <2>1, <3>2
  <2>2. CASE T # {}
    <3>1. PICK x \in T : TRUE
      BY <2>2
    <3> DEFINE k == kind[x]
               U == T \ {x}
    <3>2. U \in SUBSET S /\ k \in K /\ x \in S
      BY <3>1
    <3>3. SumOver(G(U), K) = SumOver(f, U)
      BY <1>3, <3>1
    <3>4. \A l \in K \ {k} : G(T)[l] = G(U)[l]
      <4>1. \A l \in K \ {k} : Of(T, l) = Of(U, l)
        OBVIOUS
      <4> QED
        BY <1>2, <3>2, <4>1
    <3>5. G(T)[k] = f[x] + G(U)[k]
      <4>1. Of(T, k) \ {x} = Of(U, k) /\ x \in Of(T, k)
        OBVIOUS
      <4>2. SumOver(f, Of(T, k)) = f[x] + SumOver(f, Of(U, k))
        <5> HIDE DEF U, k
        <5> QED
          BY <1>1, <1>2, <3>2, <4>1
      <4> QED
        BY <1>2, <3>2, <4>2
    <3>6. \A V \in {T, U} : /\ SumOver(G(V), K) = G(V)[k] + SumOver(G(V), K \ {k})
                            /\ SumOver(G(V), K \ {k}) \in Int
      <4>1. ASSUME NEW h, \A l \in K : h[l] \in Int
            PROVE  SumOver(h, K) = h[k] + SumOver(h, K \ {k}) /\ SumOver(h, K \ {k}) \in Int
        <5>1. /\ \A L \in SUBSET K : SumOver(h, L) \in Int
              /\ \A L \in SUBSET K : \A l \in L : SumOver(h, L) = h[l] + SumOver(h, L \ {l})
          BY ONLY <4>1, IsFiniteSet(K), SumTakesOut
        <5>2. K \in SUBSET K /\ K \ {k} \in SUBSET K
          OBVIOUS
        <5> QED
          BY <3>2, <5>1, <5>2
      <4> HIDE DEF G, U, k
      <4> QED
        BY <1>2, <3>2, <4>1
    <3>7. SumOver(G(T), K \ {k}) = SumOver(G(U), K \ {k})
      <4>1. IsFiniteSet(K \ {k}) /\ \A l \in K \ {k} : G(U)[l] \in Int
        BY <1>2, <3>2, FS_RemoveElement
      <4> HIDE DEF G, U, k
      <4> QED
        BY <3>4, <4>1, SumsAgree
    <3>8. SumOver(f, T) = f[x] + SumOver(f, U)
      BY <1>1, <3>2
    <3>9. f[x] \in Int /\ G(U)[k] \in Int /\ SumOver(G(U), K \ {k}) \in Int
      BY <1>2, <3>2, <3>6
    <3> HIDE DEF G, U, k
    <3>10. SumOver(G(T), K) = SumOver(f, T)
      <4>1. PICK a, b, r \in Int : a = f[x] /\ b = G(U)[k] /\ r = SumOver(G(U), K \ {k})
        BY <3>9
      <4>2. SumOver(G(T), K) = (a + b) + r
        BY <3>5, <3>6, <3>7, <4>1
      <4>3. SumOver(G(U), K) = b + r
        BY <3>6, <4>1
      <4>4. SumOver(f, T) = a + (b + r)
        BY <3>3, <3>8, <4>1, <4>3
      <4> QED
        BY <4>2, <4>4
    <3> QED
      BY <3>10
  <2> QED
    BY <2>1, <2>2
<1> HIDE DEF Q
<1>4. \A T \in SUBSET S : T \in Q
  BY <1>3, SmallerSetsFirst
<1>5. SumOver(G(S), K) = SumOver(f, S)
  BY <1>4 DEF Q
<1>6. SumOver(g, K) = SumOver(G(S), K)
  <2>1. \A k \in K : G(S)[k] \in Int /\ g[k] = G(S)[k]
    BY <1>2
  <2> HIDE DEF G
  <2> QED
    BY <2>1, SumsAgree
<1> QED
  BY <1>5, <1>6

\* So what is counted by kind is counted.
LEMMA CountsOfKinds ==
    ASSUME NEW S, IsFiniteSet(S), NEW K, IsFiniteSet(K), NEW kind, NEW g, CountsByKind(g, S, K, kind)
    PROVE  SumOver(g, K) = Cardinality(S) /\ \A k \in K : g[k] \in Int
<1> DEFINE one == [x \in S |-> 1]
<1>1. \A T \in SUBSET S : SumOver(one, T) = Cardinality(T) /\ Cardinality(T) \in Int
  <2> TAKE T \in SUBSET S
  <2>1. IsFiniteSet(T) /\ \A x \in T : one[x] = 1
    BY FS_Subset
  <2> HIDE DEF one
  <2> QED
    BY <2>1, SumOfOnes, FS_CardinalityType
<1>2. \A x \in S : one[x] \in Int
  OBVIOUS
<1>3. \A k \in K : g[k] = SumOver(one, {x \in S : kind[x] = k}) /\ g[k] \in Int
  <2> HIDE DEF one
  <2> QED
    BY <1>1 DEF CountsByKind
<1>4. SumOver(g, K) = SumOver(one, S)
  <2> HIDE DEF one
  <2> QED
    BY <1>2, <1>3, SumsOfKinds DEF SumsByKind, CountsByKind
<1> QED
  BY <1>1, <1>3, <1>4

-----------------------------------------------------------------------------
(* Reports *)

\* What the screen asked for, and that it shows what the server makes of it.
Reporting ==
    /\ x1 \in [link : Links, today : Todays, viewer : Zones, professional : Zones, agenda : RowsOfReports]
    /\ x2.state = "refused" => ReportsPart!Refused
    /\ x2.state = "shown" => /\ x2.kpis.total = ReportsPart!Cardinality(ReportsPart!NonCancelled)
                             /\ x2.points = ReportsPart!ChartPoints(ReportsPart!GetAppointmentsByDay)

LEMMA ReportingBegins ==
    ASSUME ReportsPart!Init
    PROVE  Reporting
BY DEF ReportsPart!Init, Reporting

LEMMA ReportingStep ==
    ASSUME Reporting, ReportsPart!Next
    PROVE  Reporting'
<1>1. /\ x1' = x1
      /\ x2' = IF ReportsPart!Refused THEN [state |-> "refused"]
               ELSE [state |-> "shown", kpis |-> ReportsPart!GetKpis,
                     points |-> ReportsPart!ChartPoints(ReportsPart!GetAppointmentsByDay)]
  BY DEF ReportsPart!Next, ReportsPart!Answer
<1>2. /\ ReportsPart!Refused' = ReportsPart!Refused
      /\ ReportsPart!NonCancelled' = ReportsPart!NonCancelled
      /\ ReportsPart!ChartPoints(ReportsPart!GetAppointmentsByDay)' = ReportsPart!ChartPoints(ReportsPart!GetAppointmentsByDay)
  BY <1>1 DEF ReportsPart!Refused, ReportsPart!NonCancelled, ReportsPart!InPeriod, ReportsPart!Begins,
     ReportsPart!Ends, ReportsPart!ReadPeriod, ReportsPart!GetAppointmentsByDay, ReportsPart!ChartDays
<1>3. ReportsPart!Cardinality(ReportsPart!NonCancelled)' = ReportsPart!Cardinality(ReportsPart!NonCancelled)
  BY <1>2
<1>4. ReportsPart!GetKpis.total = ReportsPart!Cardinality(ReportsPart!NonCancelled)
  BY DEF ReportsPart!GetKpis
<1> QED
  BY <1>1, <1>2, <1>3, <1>4 DEF Reporting

LEMMA ReportingStays ==
    ASSUME Reporting, UNCHANGED ReportsPart!vars
    PROVE  Reporting'
<1>1. x1' = x1 /\ x2' = x2
  BY DEF ReportsPart!vars
<1>2. /\ ReportsPart!Refused' = ReportsPart!Refused
      /\ ReportsPart!NonCancelled' = ReportsPart!NonCancelled
      /\ ReportsPart!ChartPoints(ReportsPart!GetAppointmentsByDay)' = ReportsPart!ChartPoints(ReportsPart!GetAppointmentsByDay)
  BY <1>1 DEF ReportsPart!Refused, ReportsPart!NonCancelled, ReportsPart!InPeriod, ReportsPart!Begins,
     ReportsPart!Ends, ReportsPart!ReadPeriod, ReportsPart!GetAppointmentsByDay, ReportsPart!ChartDays
<1>3. ReportsPart!Cardinality(ReportsPart!NonCancelled)' = ReportsPart!Cardinality(ReportsPart!NonCancelled)
  BY <1>2
<1> QED
  BY <1>1, <1>2, <1>3 DEF Reporting

\* The hours of some days.
LEMMA Hours ==
    /\ \A a, b \in Int : (a + b) * HoursOfDay = a * HoursOfDay + b * HoursOfDay /\ a * HoursOfDay \in Int
    /\ \A a \in Int : 0 < a => HoursOfDay <= a * HoursOfDay
    /\ 1 * HoursOfDay = HoursOfDay
<1>1. HoursOfDay \in Int /\ HoursOfDay >= 2
  BY ReportsAssumption
<1> QED
  BY <1>1

LEMMA DayThatHas ==
    ASSUME NEW u \in Int
    PROVE  LET near == u \div HoursOfDay
           IN  near \in Int /\ near * HoursOfDay <= u /\ u < near * HoursOfDay + HoursOfDay
<1>1. HoursOfDay \in Nat /\ HoursOfDay >= 2
  BY ReportsAssumption
<1> QED
  BY <1>1

\* A day begins before the next.
LEMMA DaysInOrder ==
    ASSUME NEW z \in Zones
    PROVE  /\ \A d \in Int : ReportsPart!StartOf(z, d) \in Int
           /\ \A d, e \in Int : d < e => ReportsPart!StartOf(z, d) < ReportsPart!StartOf(z, e)
<1>1. z.ahead \in Int /\ z.back \in Int /\ z.forward \in Int /\ HoursOfDay \in Int /\ HoursOfDay >= 2
  BY ReportsAssumption
<1>2. ASSUME NEW d \in Int
      PROVE  ReportsPart!StartOf(z, d) \in Int
  BY <1>1, Hours DEF ReportsPart!StartOf
<1>3. ASSUME NEW d \in Int, NEW e \in Int, d < e
      PROVE  ReportsPart!StartOf(z, d) < ReportsPart!StartOf(z, e)
  <2>1. PICK k \in Int : e = d + k /\ 0 < k
    <3>1. e - d \in Int /\ e = d + (e - d) /\ 0 < e - d
      BY <1>3
    <3> QED
      BY <3>1
  <2>2. PICK p, q, r \in Int : p = d * HoursOfDay /\ q = e * HoursOfDay /\ r = k * HoursOfDay
    BY Hours
  <2>3. q = p + r /\ HoursOfDay <= r
    BY <2>1, <2>2, Hours
  <2>4. /\ ReportsPart!StartOf(z, d) = p - z.ahead + (IF d > z.back THEN 1 ELSE 0) - (IF d > z.forward THEN 1 ELSE 0)
        /\ ReportsPart!StartOf(z, e) = q - z.ahead + (IF e > z.back THEN 1 ELSE 0) - (IF e > z.forward THEN 1 ELSE 0)
    BY <2>2 DEF ReportsPart!StartOf
  <2> QED
    BY <1>1, <1>3, <2>3, <2>4
<1> QED
  BY <1>2, <1>3

\* An instant is of one day, and a later one of no earlier day.
LEMMA DaysOfInstants ==
    ASSUME NEW z \in Zones
    PROVE  /\ \A t \in Int : ReportsPart!DayOf(z, t) \in Int
           /\ \A t, u \in Int : t <= u => ReportsPart!DayOf(z, t) <= ReportsPart!DayOf(z, u)
<1>1. ASSUME NEW t \in Int
      PROVE  /\ ReportsPart!DayOf(z, t) \in Int
             /\ ReportsPart!StartOf(z, ReportsPart!DayOf(z, t)) <= t
             /\ t < ReportsPart!StartOf(z, ReportsPart!DayOf(z, t) + 1)
  <2>1. z.ahead \in Int /\ z.back \in Int /\ z.forward \in Int /\ HoursOfDay \in Int /\ HoursOfDay >= 2
    BY ReportsAssumption
  <2>2. PICK u \in Int : u = t + z.ahead
    BY <2>1
  <2>3. PICK near \in Int : /\ near = u \div HoursOfDay
                            /\ near * HoursOfDay <= u /\ u < near * HoursOfDay + HoursOfDay
    BY DayThatHas
  <2>4. PICK p \in Int : p = near * HoursOfDay
    BY Hours
  <2>5. (near - 1) * HoursOfDay = p - HoursOfDay /\ (near + 2) * HoursOfDay = p + HoursOfDay + HoursOfDay
    <3>1. /\ near = (near - 1) + 1 /\ near + 2 = (near + 1) + 1 /\ near - 1 \in Int /\ 1 \in Int
          /\ near + 1 \in Int
      OBVIOUS
    <3>2. p = (near - 1) * HoursOfDay + HoursOfDay
      BY <2>4, <3>1, Hours
    <3>3. (near + 2) * HoursOfDay = (near + 1) * HoursOfDay + HoursOfDay
      BY <3>1, Hours
    <3>4. (near + 1) * HoursOfDay = p + HoursOfDay
      BY <2>4, <3>1, Hours
    <3>5. PICK q \in Int : q = (near - 1) * HoursOfDay
      BY <3>1, Hours
    <3> QED
      BY <2>1, <3>2, <3>3, <3>4, <3>5
  <2> DEFINE s(d) == ReportsPart!StartOf(z, d)
  <2>6. s(near - 1) <= t
    <3>1. s(near - 1) = (p - HoursOfDay) - z.ahead + (IF near - 1 > z.back THEN 1 ELSE 0)
                                                   - (IF near - 1 > z.forward THEN 1 ELSE 0)
      BY <2>5 DEF ReportsPart!StartOf
    <3> QED
      BY <2>1, <2>2, <2>3, <2>4, <3>1
  <2>7. t < s(near + 2)
    <3>1. s(near + 2) = (p + HoursOfDay + HoursOfDay) - z.ahead + (IF near + 2 > z.back THEN 1 ELSE 0)
                                                                - (IF near + 2 > z.forward THEN 1 ELSE 0)
      BY <2>5 DEF ReportsPart!StartOf
    <3> QED
      BY <2>1, <2>2, <2>3, <2>4, <3>1
  <2>8. /\ s(near - 1) \in Int /\ s(near) \in Int /\ s(near + 1) \in Int /\ s(near + 2) \in Int
        /\ (near - 1) + 1 = near /\ (near + 1) + 1 = near + 2
    BY DaysInOrder
  <2>9. \E d \in (near - 1)..(near + 1) : s(d) <= t /\ t < s(d + 1)
    <3>1. CASE t < s(near)
      <4>1. s(near - 1) <= t /\ t < s((near - 1) + 1) /\ near - 1 \in (near - 1)..(near + 1)
        BY <2>6, <2>8, <3>1
      <4> HIDE DEF s
      <4> QED
        BY <4>1
    <3>2. CASE ~(t < s(near)) /\ t < s(near + 1)
      <4>1. s(near) <= t /\ t < s(near + 1) /\ near \in (near - 1)..(near + 1)
        BY <2>8, <3>2
      <4> HIDE DEF s
      <4> QED
        BY <4>1
    <3>3. CASE ~(t < s(near + 1))
      <4>1. s(near + 1) <= t /\ t < s((near + 1) + 1) /\ near + 1 \in (near - 1)..(near + 1)
        BY <2>7, <2>8, <3>3
      <4> HIDE DEF s
      <4> QED
        BY <4>1
    <3> QED
      BY <3>1, <3>2, <3>3
  <2>10. ReportsPart!DayOf(z, t) = CHOOSE d \in (near - 1)..(near + 1) : s(d) <= t /\ t < s(d + 1)
    BY <2>2, <2>3 DEF ReportsPart!DayOf
  <2> HIDE DEF s
  <2>11. /\ ReportsPart!DayOf(z, t) \in (near - 1)..(near + 1)
         /\ s(ReportsPart!DayOf(z, t)) <= t /\ t < s(ReportsPart!DayOf(z, t) + 1)
    BY <2>9, <2>10
  <2> QED
    BY <2>11 DEF s
<1>2. ASSUME NEW t \in Int, NEW u \in Int, t <= u
      PROVE  ReportsPart!DayOf(z, t) <= ReportsPart!DayOf(z, u)
  <2>1. PICK d, e \in Int : d = ReportsPart!DayOf(z, t) /\ e = ReportsPart!DayOf(z, u)
    BY <1>1
  <2>2. ReportsPart!StartOf(z, d) <= t /\ u < ReportsPart!StartOf(z, e + 1)
    BY <1>1, <2>1
  <2>3. /\ ReportsPart!StartOf(z, d) \in Int /\ ReportsPart!StartOf(z, e + 1) \in Int
        /\ e + 1 < d => ReportsPart!StartOf(z, e + 1) < ReportsPart!StartOf(z, d)
    BY DaysInOrder
  <2>4. ~(e + 1 < d) /\ ~(e + 1 = d)
    BY <1>2, <2>2, <2>3
  <2> QED
    BY <2>1, <2>4
<1> QED
  BY <1>1, <1>2

\* The period: of so many days.
LEMMA PeriodIs ==
    ASSUME Reporting
    PROVE  /\ ReportsPart!ReadPeriod.from \in Int /\ ReportsPart!ReadPeriod.to \in Int
           /\ ReportsPart!ReadPeriod.to - ReportsPart!ReadPeriod.from + 1 <= LongestPeriod
<1>1. x1.link \in Links /\ x1.today \in Todays
  BY DEF Reporting
<1>2. CASE ReportsPart!ValidCustomPeriod(x1.link.from, x1.link.to)
  BY <1>1, <1>2, ReportsAssumption DEF ReportsPart!ReadPeriod, ReportsPart!ValidCustomPeriod
<1>3. CASE ~ReportsPart!ValidCustomPeriod(x1.link.from, x1.link.to)
  <2> DEFINE p == ReportsPart!Preset(x1.link.preset, x1.today)
  <2>1. ReportsPart!ReadPeriod = p
    BY <1>3 DEF ReportsPart!ReadPeriod
  <2>2. x1.today \in Int /\ DaysOfMonth \in Nat \ {0}
    BY <1>1, ReportsAssumption
  <2>3. ReportsPart!FirstOfMonth(x1.today) \in Int
    BY <2>2 DEF ReportsPart!FirstOfMonth
  <2>4. p.from \in Int /\ p.to \in Int
    BY <2>2, <2>3 DEF ReportsPart!Preset
  <2>5. p.to - p.from + 1 <= LongestPeriod
    BY <1>1, ReportsAssumption
  <2> QED
    BY <2>1, <2>4, <2>5
<1> QED
  BY <1>2, <1>3

\* A period is refused only for the hour by which the clocks go back.
LEMMA RefusedForAnHour ==
    ASSUME Reporting, ReportsPart!Refused
    PROVE  /\ ReportsPart!ReadPeriod.to - ReportsPart!ReadPeriod.from + 1 = LongestPeriod
           /\ x1.viewer.back \in ReportsPart!ReadPeriod.from..ReportsPart!ReadPeriod.to
<1>1. PICK z \in Zones, from, to \in Int :
         z = x1.viewer /\ from = ReportsPart!ReadPeriod.from /\ to = ReportsPart!ReadPeriod.to
  <2>1. x1.viewer \in Zones
    BY DEF Reporting
  <2> QED
    BY <2>1, PeriodIs
<1>2. z.ahead \in Int /\ z.back \in Int /\ z.forward \in Int /\ HoursOfDay \in Int /\ HoursOfDay >= 2
  BY ReportsAssumption
<1>3. to - from + 1 <= LongestPeriod /\ LongestPeriod \in Int
  BY <1>1, PeriodIs, ReportsAssumption
<1>4. PICK p, q, m \in Int : /\ p = from * HoursOfDay /\ q = (to + 1) * HoursOfDay
                             /\ m = LongestPeriod * HoursOfDay
  <2>1. to + 1 \in Int
    OBVIOUS
  <2>2. from * HoursOfDay \in Int /\ (to + 1) * HoursOfDay \in Int /\ LongestPeriod * HoursOfDay \in Int
    BY <1>3, <2>1, Hours
  <2> QED
    BY <2>2
<1>5. PICK k \in Int : LongestPeriod = (to + 1 - from) + k /\ 0 <= k
  <2>1. LongestPeriod - (to + 1 - from) \in Int
    BY <1>3
  <2> QED
    BY <1>3, <2>1
<1>6. PICK r \in Int : r = k * HoursOfDay
  BY Hours
<1>7. m = (q - p) + r
  <2>1. to + 1 = from + (to + 1 - from) /\ to + 1 - from \in Int
    OBVIOUS
  <2>2. PICK l \in Int : l = (to + 1 - from) * HoursOfDay
    BY <2>1, Hours
  <2>3. q = p + l
    BY <1>4, <2>1, <2>2, Hours
  <2>4. m = l + r
    BY <1>4, <1>5, <1>6, <2>1, <2>2, Hours
  <2> QED
    BY <2>3, <2>4
<1>8. ReportsPart!StartOf(z, to + 1) - ReportsPart!StartOf(z, from) > m
  BY <1>1, <1>4 DEF ReportsPart!Refused, ReportsPart!Begins, ReportsPart!Ends
<1>9. /\ ReportsPart!StartOf(z, from) = p - z.ahead + (IF from > z.back THEN 1 ELSE 0) - (IF from > z.forward THEN 1 ELSE 0)
      /\ ReportsPart!StartOf(z, to + 1) = q - z.ahead + (IF to + 1 > z.back THEN 1 ELSE 0) - (IF to + 1 > z.forward THEN 1 ELSE 0)
  BY <1>4 DEF ReportsPart!StartOf
<1>10. r < 2
  BY <1>2, <1>7, <1>8, <1>9
<1>11. k = 0 /\ r = 0
  <2>1. 0 < k => HoursOfDay <= r
    BY <1>6, Hours
  <2>2. k = 0
    BY <1>2, <1>5, <1>10, <2>1
  <2>3. 0 * HoursOfDay = 0
    BY <1>2
  <2> QED
    BY <1>6, <2>2, <2>3
<1>12. to - from + 1 = LongestPeriod /\ 0 <= LongestPeriod
  BY <1>3, <1>5, <1>11, ReportsAssumption
<1>13. from <= z.back /\ z.back <= to
  BY <1>2, <1>7, <1>8, <1>9, <1>11, <1>12
<1> QED
  BY <1>1, <1>2, <1>12, <1>13

\* What a chart by days counts it shows, by days or by months.
LEMMA PointsAddUp ==
    ASSUME NEW D, IsFiniteSet(D), NEW days, days = [d \in D |-> days[d]], \A d \in D : days[d] \in Int
    PROVE  ReportsPart!SumFunction(ReportsPart!ChartPoints(days)) = SumOver(days, D)
<1>1. DOMAIN days = D
  OBVIOUS
<1>2. \A f : ReportsPart!SumFunction(f) = SumOver(f, DOMAIN f)
  BY SumsAre DEF ReportsPart!SumFunction
<1>3. CASE ReportsPart!ChartPoints(days) = days
  BY <1>1, <1>2, <1>3
<1>4. CASE ReportsPart!ChartPoints(days) # days
  <2> DEFINE first(d) == ReportsPart!FirstOfMonth(d)
             K == {first(d) : d \in D}
             kind == [d \in D |-> first(d)]
             of(m) == {d \in D : first(d) = m}
             months == [m \in K |-> SumOver(days, of(m))]
  <2>1. ReportsPart!ChartPoints(days) = months
    <3>1. \A m : ReportsPart!SumFunctionOnSet(days, of(m)) = SumOver(days, of(m))
      BY SumsAre
    <3>2. ReportsPart!ChartPoints(days) = [m \in K |-> ReportsPart!SumFunctionOnSet(days, of(m))]
      BY <1>1, <1>4 DEF ReportsPart!ChartPoints
    <3> HIDE DEF of, K
    <3> QED
      BY <3>1, <3>2
  <2>2. IsFiniteSet(K)
    <3>1. kind \in Surjection(D, K)
      BY DEF Surjection
    <3> QED
      BY ONLY <3>1, IsFiniteSet(D), FS_Surjection
  <2>3. \A m \in K : months[m] = SumOver(days, {d \in D : kind[d] = m})
    <3>1. \A m : of(m) = {d \in D : kind[d] = m}
      OBVIOUS
    <3>2. \A m \in K : months[m] = SumOver(days, of(m))
      OBVIOUS
    <3> HIDE DEF of, K, kind, months
    <3> QED
      BY <3>1, <3>2
  <2>4. \A d \in D : kind[d] \in K
    OBVIOUS
  <2>5. DOMAIN months = K
    OBVIOUS
  <2> HIDE DEF first, K, kind, months
  <2>6. SumOver(months, K) = SumOver(days, D)
    <3>1. IsFiniteSet(D) /\ \A d \in D : days[d] \in Int
      OBVIOUS
    <3>2. SumsByKind(months, days, D, K, kind)
      BY <2>3, <2>4 DEF SumsByKind
    <3> QED
      BY ONLY <2>2, <3>1, <3>2, SumsOfKinds
  <2> QED
    BY <1>2, <2>1, <2>5, <2>6
<1> QED
  BY <1>3, <1>4

LEMMA ReportsTell ==
    ASSUME Reporting
    PROVE  ReportsPart!ChartAddsUp
<1>1. ASSUME x2.state = "refused"
      PROVE  /\ ReportsPart!ReadPeriod.to - ReportsPart!ReadPeriod.from + 1 = LongestPeriod
             /\ x1.viewer.back \in ReportsPart!ReadPeriod.from..ReportsPart!ReadPeriod.to
  BY <1>1, RefusedForAnHour DEF Reporting
<1>2. ASSUME x2.state = "shown"
      PROVE  ReportsPart!SumFunction(x2.points) = x2.kpis.total
  <2> DEFINE A == ReportsPart!NonCancelled
             z == x1.professional
             D == ReportsPart!ChartDays
             days == ReportsPart!GetAppointmentsByDay
             kind == [a \in A |-> ReportsPart!DayOf(z, a.at)]
  <2>1. x1.viewer \in Zones /\ z \in Zones /\ x1.agenda \in RowsOfReports
    BY DEF Reporting
  <2>2. ReportsPart!Begins \in Int /\ ReportsPart!Ends \in Int
    <3>1. /\ ReportsPart!ReadPeriod.from \in Int /\ ReportsPart!ReadPeriod.to \in Int
          /\ ReportsPart!ReadPeriod.to + 1 \in Int
      BY PeriodIs
    <3> QED
      BY <2>1, <3>1, DaysInOrder DEF ReportsPart!Begins, ReportsPart!Ends
  <2>3. /\ IsFiniteSet(A)
        /\ \A a \in A : a.at \in Int /\ ReportsPart!Begins <= a.at /\ a.at <= ReportsPart!Ends - 1
    <3>1. IsFiniteSet(x1.agenda) /\ \A a \in x1.agenda : a.at \in Int
      BY <2>1, ReportsAssumption
    <3>2. A \subseteq x1.agenda /\ \A a \in A : ReportsPart!Begins <= a.at /\ a.at < ReportsPart!Ends
      BY DEF ReportsPart!NonCancelled, ReportsPart!InPeriod
    <3>3. IsFiniteSet(A)
      BY <3>1, <3>2, FS_Subset
    <3> QED
      BY <2>2, <3>1, <3>2, <3>3
  <2>4. PICK first, last \in Int : first = ReportsPart!DayOf(z, ReportsPart!Begins) /\ last = ReportsPart!DayOf(z, ReportsPart!Ends - 1)
    BY <2>1, <2>2, DaysOfInstants
  <2>5. D = first..last /\ IsFiniteSet(D) /\ D \subseteq Int
    <3>1. D = first..last
      BY <2>4 DEF ReportsPart!ChartDays
    <3> QED
      BY <3>1, FS_Interval
  <2>6. \A a \in A : kind[a] \in D
    <3>1. ASSUME NEW a \in A
          PROVE  kind[a] \in first..last
      <4>1. /\ a.at \in Int /\ ReportsPart!Begins <= a.at /\ a.at <= ReportsPart!Ends - 1
            /\ ReportsPart!Ends - 1 \in Int
        BY <2>2, <2>3
      <4>2. /\ ReportsPart!DayOf(z, a.at) \in Int
            /\ first <= ReportsPart!DayOf(z, a.at) /\ ReportsPart!DayOf(z, a.at) <= last
        BY <2>1, <2>2, <2>4, <4>1, DaysOfInstants
      <4> QED
        BY <4>2
    <3> QED
      BY <2>5, <3>1
  <2>7. days = [d \in D |-> days[d]] /\ \A d \in D : days[d] = Cardinality({a \in A : kind[a] = d})
    <3>1. \A s : ReportsPart!Cardinality(s) = Cardinality(s)
      BY DEF ReportsPart!Cardinality, Cardinality
    <3>2. days = [d \in D |-> Cardinality({a \in A : ReportsPart!DayOf(z, a.at) = d})]
      BY <3>1 DEF ReportsPart!GetAppointmentsByDay
    <3>3. \A d : {a \in A : ReportsPart!DayOf(z, a.at) = d} = {a \in A : kind[a] = d}
      OBVIOUS
    <3> HIDE DEF A, z, D, days, kind
    <3> QED
      BY <3>2, <3>3
  <2>8. x2.points = ReportsPart!ChartPoints(days) /\ x2.kpis.total = Cardinality(A)
    BY <1>2 DEF Reporting, ReportsPart!Cardinality, Cardinality
  <2> HIDE DEF A, z, D, days, kind
  <2>9. SumOver(days, D) = Cardinality(A) /\ \A d \in D : days[d] \in Int
    <3>1. IsFiniteSet(A) /\ IsFiniteSet(D) /\ CountsByKind(days, A, D, kind)
      BY <2>3, <2>5, <2>6, <2>7 DEF CountsByKind
    <3> QED
      BY ONLY <3>1, CountsOfKinds
  <2>10. ReportsPart!SumFunction(ReportsPart!ChartPoints(days)) = SumOver(days, D)
    BY <2>5, <2>7, <2>9, PointsAddUp
  <2> QED
    BY <2>8, <2>9, <2>10
<1> QED
  BY <1>1, <1>2 DEF ReportsPart!ChartAddsUp

-----------------------------------------------------------------------------
(* The funnel *)

Lasted == [e \in FunnelPart!Event |-> e.exitedAt - e.enteredAt]
LeftBy(p) == {e \in x3 : e.of = p /\ e.exitedAt # Null}

FunnelTyped ==
    /\ x1 \in FunnelPart!Instants /\ x4 \in 0..FunnelMoves
    /\ x2 \in [FunnelPeople -> FunnelPart!Person \cup {Null}]
    /\ x3 \subseteq FunnelPart!Event /\ IsFiniteSet(x3)
    /\ x7 \subseteq FunnelPart!Move

\* An event is somebody's, who came there after she was registered.  Unless a move of
\* hers was written over another, she is where it says as long as it is open, and nobody
\* leaves the last stage.
EventsOfRecords ==
    \A e \in x3 :
        /\ e.of \in FunnelPart!There /\ e.n <= x4
        /\ x2[e.of].createdAt <= e.enteredAt /\ e.enteredAt <= x1
        /\ e.exitedAt # Null => e.exitedAt <= x1
        /\ e.of \notin x8 =>
             /\ e.exitedAt = Null => x2[e.of].stage = e.stage /\ x2[e.of].enteredAt = e.enteredAt
             /\ e.stage = "CLOSED_WON" => x2[e.of].stage = "CLOSED_WON"

\* Unless a move was written over another, one event is open at a time.
EventsApart ==
    \A e, d \in x3 :
        (e.n = d.n \/ (e.of = d.of /\ e.of \notin x8 /\ e.exitedAt = Null /\ d.exitedAt = Null)) => e = d

\* Who has come to a stage has an event that says so, and was new; and a client has
\* closed, whatever was written over that since.
RecordsInFunnel ==
    \A p \in FunnelPart!There :
        /\ x2[p].createdAt <= x1 /\ x2[p].enteredAt <= x1
        /\ x2[p].funnel = "LEAD" => x2[p].stage = Null /\ \A e \in x3 : e.of # p
        /\ x2[p].funnel # "LEAD" =>
             /\ x2[p].stage # Null
             /\ p \notin x8 => x2[p].funnel = FunnelPart!TerminalToFunnel(x2[p].stage)
             /\ \E e \in x3 : /\ e.of = p /\ e.stage = x2[p].stage /\ e.enteredAt = x2[p].enteredAt
                              /\ p \notin x8 => e.exitedAt = Null
             /\ \E e \in x3 : e.of = p /\ e.stage = "NEW"
             /\ x2[p].funnel = "CLIENT" => \E e \in x3 : e.of = p /\ e.stage = "CLOSED_WON"

\* A move at work is somebody's, who was registered before and is on her way unless it is
\* the first; and who is where the move read her as long as it has missed nothing.
MovesAtWork ==
    \A m \in x7 :
        /\ m.of \in FunnelPart!There /\ m.n <= x4
        /\ x2[m.of].createdAt <= m.at /\ m.at <= x1
        /\ m.auto => m.stage = "NO_SHOW"
        /\ m.stage # "NEW" => x2[m.of].funnel # "LEAD"
        /\ m.missed = {} => x2[m.of].funnel \in {"LEAD", "PIPELINE"} /\ x2[m.of].enteredAt <= m.at
        /\ \A e \in x3 : e.n # m.n
        /\ \A o \in x7 : o.n = m.n => o = m

\* The stages that somebody left took her the time from her first event to the last.
TimesOfStages ==
    \A e \in x3 : e.of \notin x8 =>
        \E first \in x3 :
            /\ first.of = e.of /\ \A d \in x3 : d.of = e.of => first.enteredAt <= d.enteredAt
            /\ FunnelPart!SumFunctionOnSet(Lasted, LeftBy(e.of)) = x2[e.of].enteredAt - first.enteredAt

\* What an export has found is what it asks for, while the table stays as it is.
ExportFound ==
    x5 # Null =>
      /\ x5 \in [kind: DOMAIN FunnelPart!Exported, period: FunnelPart!Periods, total: Nat \cup {Null},
                 rows: (SUBSET FunnelPeople) \cup {Null}]
      /\ ~x6 => /\ x5.total # Null => x5.total = FunnelPart!Cardinality(FunnelPart!Asked)
                /\ x5.rows # Null => x5.rows \subseteq FunnelPart!Asked

FunnelKept ==
    /\ FunnelTyped /\ EventsOfRecords /\ EventsApart /\ RecordsInFunnel /\ MovesAtWork /\ TimesOfStages
    /\ ExportFound

LEMMA PeopleThere ==
    /\ Null \notin FunnelPart!Person /\ Null \notin FunnelPart!PipelineStages
    /\ Null \notin FunnelPart!Instants
    /\ FunnelTyped => \A p \in FunnelPart!There : p \in FunnelPeople /\ x2[p] \in FunnelPart!Person
    /\ FunnelTyped => \A p \in FunnelPeople : x2[p] \in FunnelPart!Person => p \in FunnelPart!There
BY FunnelAssumption DEF FunnelTyped, FunnelPart!There, FunnelPart!Instants

LEMMA FunnelBegins ==
    ASSUME FunnelPart!Init
    PROVE  FunnelKept
<1>1. x1 = 0 /\ x4 = 0 /\ x2 = [p \in FunnelPeople |-> Null] /\ x3 = {} /\ x5 = Null /\ x7 = {}
  BY DEF FunnelPart!Init
<1>2. FunnelTyped
  BY <1>1, FunnelAssumption, FS_EmptySet DEF FunnelTyped, FunnelPart!Instants
<1>3. FunnelPart!There = {}
  BY <1>1 DEF FunnelPart!There
<1> QED
  BY <1>1, <1>2, <1>3 DEF FunnelKept, EventsOfRecords, EventsApart, RecordsInFunnel, MovesAtWork, TimesOfStages,
     ExportFound

\* Time passes, or an export goes on.
LEMMA TableStays ==
    ASSUME FunnelKept, x1' \in FunnelPart!Instants, x1 <= x1', UNCHANGED <<x2, x3, x4, x7, x8>>
    PROVE  FunnelTyped' /\ EventsOfRecords' /\ EventsApart' /\ RecordsInFunnel' /\ MovesAtWork' /\ TimesOfStages'
<1>1. x1 \in Int /\ x1' \in Int
  BY FunnelAssumption DEF FunnelKept, FunnelTyped, FunnelPart!Instants
<1>2. FunnelTyped'
  BY DEF FunnelKept, FunnelTyped
<1>3. FunnelPart!There' = FunnelPart!There
  BY DEF FunnelPart!There
<1>4. ASSUME NEW e \in x3
      PROVE  /\ e.enteredAt <= x1 => e.enteredAt <= x1'
             /\ e.exitedAt # Null /\ e.exitedAt <= x1 => e.exitedAt <= x1'
  <2>1. e \in FunnelPart!Event
    BY DEF FunnelKept, FunnelTyped
  <2>2. e.enteredAt \in Int /\ (e.exitedAt # Null => e.exitedAt \in Int)
    BY <2>1, FunnelAssumption DEF FunnelPart!Event, FunnelPart!Instants
  <2> QED
    BY <1>1, <2>2
<1>5. EventsOfRecords'
  BY <1>3, <1>4 DEF FunnelKept, EventsOfRecords
<1>6. EventsApart'
  BY DEF FunnelKept, EventsApart
<1>7. RecordsInFunnel'
  <2>1. ASSUME NEW p \in FunnelPart!There
        PROVE  x2[p].createdAt <= x1' /\ x2[p].enteredAt <= x1'
    <3>1. x2[p] \in FunnelPart!Person
      BY PeopleThere DEF FunnelKept
    <3>2. x2[p].createdAt \in Int /\ x2[p].enteredAt \in Int
      BY <3>1, FunnelAssumption DEF FunnelPart!Person, FunnelPart!Instants
    <3>3. x2[p].createdAt <= x1 /\ x2[p].enteredAt <= x1
      BY DEF FunnelKept, RecordsInFunnel
    <3> QED
      BY <1>1, <3>2, <3>3
  <2> QED
    BY <1>3, <2>1 DEF FunnelKept, RecordsInFunnel
<1>8. TimesOfStages'
  BY DEF FunnelKept, TimesOfStages, LeftBy
<1>9. MovesAtWork'
  <2>1. ASSUME NEW m \in x7
        PROVE  m.at <= x1'
    <3>1. m \in FunnelPart!Move /\ m.at <= x1
      BY DEF FunnelKept, FunnelTyped, MovesAtWork
    <3>2. m.at \in Int
      BY <3>1, FunnelAssumption DEF FunnelPart!Move, FunnelPart!Instants
    <3> QED
      BY <1>1, <3>1, <3>2
  <2> QED
    BY <1>3, <2>1 DEF FunnelKept, MovesAtWork
<1> QED
  BY <1>2, <1>5, <1>6, <1>7, <1>8, <1>9

\* What is asked for does not depend on what the export has found.
LEMMA AskedStays ==
    ASSUME UNCHANGED x2, x5'.kind = x5.kind, x5'.period = x5.period
    PROVE  FunnelPart!Asked' = FunnelPart!Asked
<1>1. FunnelPart!There' = FunnelPart!There
  BY DEF FunnelPart!There
<1> QED
  BY <1>1 DEF FunnelPart!Asked, FunnelPart!Matching

LEMMA AskedThere == FunnelPart!Asked \subseteq FunnelPart!There /\ FunnelPart!There \subseteq FunnelPeople
BY DEF FunnelPart!Asked, FunnelPart!Matching, FunnelPart!There

LEMMA FunnelTicks ==
    ASSUME FunnelKept, FunnelPart!Tick
    PROVE  FunnelKept'
<1>1. x1 \in 0..LastInstant /\ x1' = x1 + 1 /\ x1 < LastInstant /\ UNCHANGED <<x2, x3, x4, x5, x6, x7, x8>>
  BY DEF FunnelPart!Tick, FunnelKept, FunnelTyped, FunnelPart!Instants
<1>2. x1' \in FunnelPart!Instants /\ x1 <= x1'
  BY <1>1, FunnelAssumption DEF FunnelPart!Instants
<1>3. FunnelPart!Asked' = FunnelPart!Asked
  BY <1>1, AskedStays
<1>4. ExportFound'
  BY <1>1, <1>3 DEF FunnelKept, ExportFound
<1> QED
  BY <1>1, <1>2, <1>4, TableStays DEF FunnelKept

LEMMA ExportGoesOn ==
    ASSUME FunnelKept,
           \/ \E kind \in DOMAIN FunnelPart!Exported, to \in FunnelPart!Instants :
                 FunnelPart!Export(kind, [from |-> 0, to |-> to])
           \/ FunnelPart!Count \/ FunnelPart!FindMany
    PROVE  FunnelKept'
<1>1. UNCHANGED <<x1, x2, x3, x4, x7, x8>>
  BY DEF FunnelPart!Export, FunnelPart!Count, FunnelPart!FindMany
<1>2. x1' \in FunnelPart!Instants /\ x1 <= x1'
  BY <1>1, FunnelAssumption DEF FunnelPart!Instants, FunnelKept, FunnelTyped
<1> DEFINE Files == [kind: DOMAIN FunnelPart!Exported, period: FunnelPart!Periods, total: Nat \cup {Null},
                     rows: (SUBSET FunnelPeople) \cup {Null}]
<1>3. ExportFound'
  <2>1. CASE \E kind \in DOMAIN FunnelPart!Exported, to \in FunnelPart!Instants :
                FunnelPart!Export(kind, [from |-> 0, to |-> to])
    <3>1. PICK kind \in DOMAIN FunnelPart!Exported, to \in FunnelPart!Instants :
             x5' = [kind |-> kind, period |-> [from |-> 0, to |-> to], total |-> Null, rows |-> Null]
      BY <2>1 DEF FunnelPart!Export
    <3>2. PICK period \in FunnelPart!Periods : period = [from |-> 0, to |-> to]
      <4>1. 0 \in FunnelPart!Instants
        BY FunnelAssumption DEF FunnelPart!Instants
      <4>2. [from |-> 0, to |-> to] \in FunnelPart!Periods
        BY <4>1 DEF FunnelPart!Periods
      <4> QED
        BY <4>2
    <3>3. x5' \in Files /\ x5'.total = Null /\ x5'.rows = Null
      <4>1. x5' = [kind |-> kind, period |-> period, total |-> Null, rows |-> Null]
        BY <3>1, <3>2
      <4>2. x5' \in Files
        <5> DEFINE Kinds == DOMAIN FunnelPart!Exported
                   Totals == Nat \cup {Null}
                   Lists == (SUBSET FunnelPeople) \cup {Null}
        <5>1. kind \in Kinds /\ Null \in Totals /\ Null \in Lists
          OBVIOUS
        <5>2. Files = [kind: Kinds, period: FunnelPart!Periods, total: Totals, rows: Lists]
          OBVIOUS
        <5> HIDE DEF Files, Kinds, Totals, Lists
        <5> QED
          BY <4>1, <5>1, <5>2
      <4> QED
        BY <4>1, <4>2
    <3> QED
      BY <3>3 DEF ExportFound
  <2>2. CASE FunnelPart!Count
    <3>1. x5 \in Files /\ x5' = [x5 EXCEPT !.total = FunnelPart!Cardinality(FunnelPart!Asked)] /\ x6' = x6
          /\ x5.total = Null
      BY <2>2 DEF FunnelPart!Count, FunnelKept, ExportFound
    <3>2. FunnelPart!Cardinality(FunnelPart!Asked) \in Nat
      <4>1. IsFiniteSet(FunnelPart!Asked)
        BY AskedThere, FunnelAssumption, FS_Subset
      <4>2. Cardinality(FunnelPart!Asked) \in Nat
        BY <4>1, FS_CardinalityType
      <4> QED
        BY <4>2 DEF FunnelPart!Cardinality, Cardinality
    <3>3. PICK c \in Nat : c = FunnelPart!Cardinality(FunnelPart!Asked)
      BY <3>2
    <3>4. /\ x5' \in Files /\ x5'.kind = x5.kind /\ x5'.period = x5.period /\ x5'.total = c
          /\ x5'.rows = x5.rows
      BY <3>1, <3>3
    <3>5. FunnelPart!Asked' = FunnelPart!Asked
      BY <1>1, <3>4, AskedStays
    <3>6. x5 # Null
      BY <2>2 DEF FunnelPart!Count
    <3> QED
      BY <3>1, <3>3, <3>4, <3>5, <3>6 DEF FunnelKept, ExportFound
  <2>3. CASE FunnelPart!FindMany
    <3>1. PICK rows \in SUBSET FunnelPart!Asked : x5' = [x5 EXCEPT !.rows = rows]
      BY <2>3 DEF FunnelPart!FindMany
    <3>2. x5 \in Files /\ x6' = x6 /\ x5.rows = Null /\ x5 # Null
      BY <2>3 DEF FunnelPart!FindMany, FunnelKept, ExportFound
    <3>3. rows \in SUBSET FunnelPeople
      BY <3>1, AskedThere
    <3>4. /\ x5' \in Files /\ x5'.kind = x5.kind /\ x5'.period = x5.period /\ x5'.total = x5.total
          /\ x5'.rows = rows
      BY <3>1, <3>2, <3>3
    <3>5. FunnelPart!Asked' = FunnelPart!Asked
      BY <1>1, <3>4, AskedStays
    <3> QED
      BY <3>1, <3>2, <3>4, <3>5 DEF FunnelKept, ExportFound
  <2> QED
    BY <2>1, <2>2, <2>3
<1> QED
  BY <1>1, <1>2, <1>3, TableStays DEF FunnelKept

\* While the table changes nothing is said of an export.
LEMMA ExportLooksAway ==
    ASSUME FunnelKept, x6' = TRUE, x5' = x5
    PROVE  ExportFound'
BY DEF FunnelKept, ExportFound

\* A record comes, without events.
LEMMA PersonRegistered ==
    ASSUME FunnelKept, NEW p \in FunnelPeople, FunnelPart!Register(p)
    PROVE  FunnelKept'
<1>1. PICK r : r = [source |-> SourceOf[p], funnel |-> "LEAD", stage |-> Null, createdAt |-> x1, enteredAt |-> x1]
  OBVIOUS
<1>2. /\ x2[p] = Null /\ x2' = [x2 EXCEPT ![p] = r] /\ x6' = TRUE
      /\ UNCHANGED <<x1, x3, x4, x5, x7, x8>>
  BY <1>1 DEF FunnelPart!Register
<1>3. r \in FunnelPart!Person
  BY <1>1, FunnelAssumption DEF FunnelPart!Person, FunnelKept, FunnelTyped
<1>4. x1 \in FunnelPart!Instants /\ x2 \in [FunnelPeople -> FunnelPart!Person \cup {Null}]
  BY DEF FunnelKept, FunnelTyped
<1>5. x2' \in [FunnelPeople -> FunnelPart!Person \cup {Null}] /\ x2'[p] = r
      /\ \A q \in FunnelPeople \ {p} : x2'[q] = x2[q]
  BY <1>2, <1>3, <1>4
<1>6. FunnelPart!There' = FunnelPart!There \cup {p} /\ p \notin FunnelPart!There
  BY <1>2, <1>3, <1>5, PeopleThere DEF FunnelPart!There
<1>7. \A e \in x3 : e.of \in FunnelPart!There /\ e.of \in FunnelPeople \ {p}
  BY <1>6, AskedThere DEF FunnelKept, EventsOfRecords
<1>8. FunnelTyped'
  BY <1>2, <1>5 DEF FunnelKept, FunnelTyped
<1>9. EventsOfRecords'
  BY <1>2, <1>5, <1>6, <1>7 DEF FunnelKept, EventsOfRecords
<1>10. EventsApart'
  BY <1>2 DEF FunnelKept, EventsApart
<1>11. RecordsInFunnel'
  <2>1. r.createdAt = x1 /\ r.enteredAt = x1 /\ r.funnel = "LEAD" /\ r.stage = Null /\ x1 <= x1
    BY <1>1, <1>4, FunnelAssumption DEF FunnelPart!Instants
  <2>2. \A q \in FunnelPart!There : q \in FunnelPeople \ {p}
    BY <1>6, AskedThere
  <2> QED
    BY <1>2, <1>5, <1>6, <1>7, <2>1, <2>2 DEF FunnelKept, RecordsInFunnel
<1>12. TimesOfStages'
  BY <1>2, <1>5, <1>7 DEF FunnelKept, TimesOfStages, LeftBy
<1>13. MovesAtWork'
  <2>1. \A m \in x7 : m.of \in FunnelPart!There /\ x2'[m.of] = x2[m.of]
    BY <1>5, <1>6, AskedThere DEF FunnelKept, MovesAtWork
  <2> QED
    BY <1>2, <1>6, <2>1 DEF FunnelKept, MovesAtWork
<1> QED
  BY <1>2, <1>8, <1>9, <1>10, <1>11, <1>12, <1>13, ExportLooksAway DEF FunnelKept

\* A record goes with its events.
LEMMA PersonRemoved ==
    ASSUME FunnelKept, NEW p \in FunnelPeople, FunnelPart!Remove(p)
    PROVE  FunnelKept'
<1>1. /\ x2' = [x2 EXCEPT ![p] = Null] /\ x3' = {e \in x3 : e.of # p} /\ x6' = TRUE
      /\ x7' = {m \in x7 : m.of # p} /\ x8' = x8 \ {p} /\ UNCHANGED <<x1, x4, x5>>
  BY DEF FunnelPart!Remove
<1>2. x2 \in [FunnelPeople -> FunnelPart!Person \cup {Null}] /\ x3 \subseteq FunnelPart!Event /\ IsFiniteSet(x3)
  BY DEF FunnelKept, FunnelTyped
<1>3. x2' \in [FunnelPeople -> FunnelPart!Person \cup {Null}] /\ x2'[p] = Null
      /\ \A q \in FunnelPeople \ {p} : x2'[q] = x2[q]
  BY <1>1, <1>2
<1>4. FunnelPart!There' = FunnelPart!There \ {p}
  BY <1>1, <1>3, PeopleThere DEF FunnelPart!There
<1>5. x3' \subseteq x3 /\ IsFiniteSet(x3')
  BY <1>1, <1>2, FS_Subset
<1>6. \A e \in x3' : /\ e \in x3 /\ e.of # p /\ e.of \in FunnelPart!There /\ e.of \in FunnelPeople \ {p}
                     /\ e.of \in x8' <=> e.of \in x8
  BY <1>1, AskedThere DEF FunnelKept, EventsOfRecords
<1>7. FunnelTyped'
  BY <1>1, <1>2, <1>3, <1>5 DEF FunnelKept, FunnelTyped
<1>8. EventsOfRecords'
  BY <1>1, <1>3, <1>4, <1>6 DEF FunnelKept, EventsOfRecords
<1>9. EventsApart'
  BY <1>5, <1>6 DEF FunnelKept, EventsApart
<1>10. RecordsInFunnel'
  <2>1. \A q \in FunnelPart!There' : /\ q \in FunnelPart!There /\ q \in FunnelPeople \ {p}
                                     /\ q \in x8' <=> q \in x8
    BY <1>1, <1>4, AskedThere
  <2>2. \A q : q # p => \A e \in x3 : e.of = q => e \in x3'
    BY <1>1
  <2> QED
    BY <1>1, <1>3, <1>5, <2>1, <2>2 DEF FunnelKept, RecordsInFunnel
<1>11. TimesOfStages'
  <2>1. \A q : q # p => LeftBy(q)' = LeftBy(q)
    BY <1>1 DEF LeftBy
  <2>2. ASSUME NEW e \in x3', e.of \notin x8'
        PROVE  \E first \in x3' :
                  /\ first.of = e.of /\ \A d \in x3' : d.of = e.of => first.enteredAt <= d.enteredAt
                  /\ FunnelPart!SumFunctionOnSet(Lasted, LeftBy(e.of)') = x2'[e.of].enteredAt - first.enteredAt
    <3>0. e \in x3 /\ e.of # p /\ e.of \in FunnelPeople \ {p} /\ (e.of \in x8' <=> e.of \in x8)
      BY <1>6
    <3>1. e \in x3 /\ e.of # p /\ e.of \notin x8 /\ x2'[e.of] = x2[e.of]
      BY <1>3, <2>2, <3>0
    <3>2. PICK first \in x3 :
             /\ first.of = e.of /\ \A d \in x3 : d.of = e.of => first.enteredAt <= d.enteredAt
             /\ FunnelPart!SumFunctionOnSet(Lasted, LeftBy(e.of)) = x2[e.of].enteredAt - first.enteredAt
      BY <3>1 DEF FunnelKept, TimesOfStages
    <3>3. first \in x3'
      BY <1>1, <3>1, <3>2
    <3> QED
      BY <1>5, <2>1, <3>1, <3>2, <3>3
  <2>3. \A q : FunnelPart!SumFunctionOnSet(Lasted, LeftBy(q))' = FunnelPart!SumFunctionOnSet(Lasted, LeftBy(q)')
    BY DEF Lasted
  <2> QED
    BY <2>2, <2>3 DEF TimesOfStages
<1>12. MovesAtWork'
  <2>1. ASSUME NEW m \in x7'
        PROVE  m \in x7 /\ m.of \in FunnelPart!There' /\ x2'[m.of] = x2[m.of]
    <3>1. m \in x7 /\ m.of # p
      BY <1>1
    <3>2. m.of \in FunnelPart!There
      BY <3>1 DEF FunnelKept, MovesAtWork
    <3> QED
      BY <1>3, <1>4, <3>1, <3>2, AskedThere
  <2> QED
    BY <1>1, <1>5, <2>1 DEF FunnelKept, MovesAtWork
<1> QED
  BY <1>1, <1>7, <1>8, <1>9, <1>10, <1>11, <1>12, ExportLooksAway DEF FunnelKept

\* A move has read a record that allows it.
LEMMA MoveRead ==
    ASSUME FunnelKept, NEW p \in FunnelPart!There, NEW stage \in FunnelPart!PipelineStages, NEW auto \in BOOLEAN,
           FunnelPart!Reads(p, stage, auto), auto => stage = "NO_SHOW",
           x2[p].funnel \in {"LEAD", "PIPELINE"}, stage # "NEW" => x2[p].funnel # "LEAD"
    PROVE  FunnelKept'
<1>1. PICK m : m = [of |-> p, stage |-> stage, auto |-> auto, at |-> x1, n |-> x4 + 1, missed |-> {}]
  OBVIOUS
<1>2. x4 < FunnelMoves /\ x4' = x4 + 1 /\ x7' = x7 \cup {m} /\ UNCHANGED <<x1, x2, x3, x5, x6, x8>>
  BY <1>1 DEF FunnelPart!Reads
<1>3. /\ m.of = p /\ m.stage = stage /\ m.at = x1 /\ m.n = x4 + 1 /\ m.missed = {}
      /\ m.auto => m.stage = "NO_SHOW"
  BY <1>1
<1>4. x1 \in FunnelPart!Instants /\ x4 \in 0..FunnelMoves /\ p \in FunnelPeople /\ x1 \in Int
  BY PeopleThere, FunnelAssumption DEF FunnelKept, FunnelTyped, FunnelPart!Instants
<1>5. x4' \in 0..FunnelMoves /\ x4 + 1 \in 1..FunnelMoves /\ x4 \in Int
  BY <1>2, <1>4, FunnelAssumption
<1>6. m \in FunnelPart!Move
  BY <1>1, <1>4, <1>5 DEF FunnelPart!Move
<1>7. FunnelPart!There' = FunnelPart!There
  BY <1>2 DEF FunnelPart!There
<1>8. \A e \in x3 : e.n <= x4 /\ e.n <= x4 + 1 /\ e.n # x4 + 1
  <2> TAKE e \in x3
  <2>1. e.n \in Nat /\ e.n <= x4
    BY DEF FunnelKept, FunnelTyped, EventsOfRecords, FunnelPart!Event
  <2> QED
    BY <1>5, <2>1
<1>9. \A o \in x7 : o.n <= x4 + 1 /\ o.n # x4 + 1
  <2> TAKE o \in x7
  <2>1. o.n \in Int /\ o.n <= x4
    BY DEF FunnelKept, FunnelTyped, MovesAtWork, FunnelPart!Move
  <2> QED
    BY <1>5, <2>1
<1>10. FunnelTyped'
  BY <1>2, <1>5, <1>6 DEF FunnelKept, FunnelTyped
<1>11. EventsOfRecords' /\ EventsApart' /\ RecordsInFunnel' /\ TimesOfStages'
  <2>1. EventsOfRecords'
    BY <1>2, <1>7, <1>8 DEF FunnelKept, EventsOfRecords
  <2>2. EventsApart'
    BY <1>2 DEF FunnelKept, EventsApart
  <2>3. RecordsInFunnel'
    BY <1>2, <1>7 DEF FunnelKept, RecordsInFunnel
  <2>4. TimesOfStages'
    BY <1>2 DEF FunnelKept, TimesOfStages, LeftBy
  <2> QED
    BY <2>1, <2>2, <2>3, <2>4
<1>12. MovesAtWork'
  <2>1. x2[p].createdAt <= x1 /\ x2[p].enteredAt <= x1 /\ x1 <= x1 /\ x4 + 1 <= x4 + 1
    BY <1>4, <1>5 DEF FunnelKept, RecordsInFunnel
  <2>2. ASSUME NEW o \in x7 \cup {m}
        PROVE  /\ o.of \in FunnelPart!There /\ o.n <= x4 + 1
               /\ x2[o.of].createdAt <= o.at /\ o.at <= x1
               /\ o.auto => o.stage = "NO_SHOW"
               /\ o.stage # "NEW" => x2[o.of].funnel # "LEAD"
               /\ o.missed = {} => x2[o.of].funnel \in {"LEAD", "PIPELINE"} /\ x2[o.of].enteredAt <= o.at
               /\ \A e \in x3 : e.n # o.n
               /\ \A q \in x7 \cup {m} : q.n = o.n => q = o
    <3>1. CASE o = m
      BY <1>3, <1>8, <1>9, <2>1, <3>1
    <3>2. CASE o \in x7
      BY <1>3, <1>9, <3>2 DEF FunnelKept, MovesAtWork
    <3> QED
      BY <2>2, <3>1, <3>2
  <2> QED
    BY <1>2, <1>7, <2>2 DEF MovesAtWork
<1>13. ExportFound'
  <2>1. FunnelPart!Asked' = FunnelPart!Asked
    BY <1>2, AskedStays
  <2> QED
    BY <1>2, <2>1 DEF FunnelKept, ExportFound
<1> QED
  BY <1>10, <1>11, <1>12, <1>13 DEF FunnelKept

\* Event d is what became of event e: closed at t, if it was the open one of p and was seen.
Follows(d, e, p, t, unseen) ==
    /\ d.of = e.of /\ d.stage = e.stage /\ d.enteredAt = e.enteredAt /\ d.n = e.n
    /\ IF e.of = p /\ e.exitedAt = Null /\ e.n \notin unseen THEN d.exitedAt = t ELSE d = e

\* The events when a move is carried out: those that were there, and one that opens.
LEMMA EventsEntered ==
    ASSUME FunnelKept, NEW m \in x7, FunnelPart!Enter(m)
    PROVE  /\ x3' \subseteq FunnelPart!Event /\ IsFiniteSet(x3')
           /\ \E unseen \in SUBSET m.missed, new \in x3' :
                /\ new.of = m.of /\ new.stage = m.stage /\ new.enteredAt = m.at /\ new.exitedAt = Null /\ new.n = m.n
                /\ \A d \in x3' \ {new} : \E e \in x3 : Follows(d, e, m.of, m.at, unseen)
                /\ \A e \in x3 : \E d \in x3' : Follows(d, e, m.of, m.at, unseen)
<1>1. PICK new : new = [of |-> m.of, stage |-> m.stage, enteredAt |-> m.at, exitedAt |-> Null, n |-> m.n]
  OBVIOUS
<1>2. PICK unseen \in SUBSET m.missed :
         x3' = {IF e.of = m.of /\ e.exitedAt = Null /\ e.n \notin unseen
                THEN [e EXCEPT !.exitedAt = m.at] ELSE e : e \in x3} \cup {new}
  BY <1>1 DEF FunnelPart!Enter
<1> DEFINE Close(e) == IF e.of = m.of /\ e.exitedAt = Null /\ e.n \notin unseen
                       THEN [e EXCEPT !.exitedAt = m.at] ELSE e
<1>3. x3' = {Close(e) : e \in x3} \cup {new}
  BY <1>2
<1>4. /\ x3 \subseteq FunnelPart!Event /\ IsFiniteSet(x3) /\ m \in FunnelPart!Move
      /\ m.of \in FunnelPeople /\ m.stage \in FunnelPart!PipelineStages /\ m.at \in FunnelPart!Instants
      /\ m.n \in Nat
  BY FunnelAssumption DEF FunnelKept, FunnelTyped, FunnelPart!Move
<1>5. new \in FunnelPart!Event
  BY <1>1, <1>4 DEF FunnelPart!Event
<1>6. \A e \in x3 : Close(e) \in FunnelPart!Event /\ Follows(Close(e), e, m.of, m.at, unseen)
  <2> TAKE e \in x3
  <2>1. e \in FunnelPart!Event
    BY <1>4
  <2>2. CASE e.of = m.of /\ e.exitedAt = Null /\ e.n \notin unseen
    <3>1. Close(e) = [e EXCEPT !.exitedAt = m.at]
      BY <2>2
    <3> HIDE DEF Close
    <3> QED
      BY <1>4, <2>1, <2>2, <3>1 DEF FunnelPart!Event, Follows
  <2>3. CASE ~(e.of = m.of /\ e.exitedAt = Null /\ e.n \notin unseen)
    BY <2>1, <2>3 DEF Follows
  <2> QED
    BY <2>2, <2>3
<1> HIDE DEF Close
<1>7. IsFiniteSet({Close(e) : e \in x3})
  <2> DEFINE C == {Close(e) : e \in x3}
             f == [e \in x3 |-> Close(e)]
  <2>1. f \in Surjection(x3, C)
    BY DEF Surjection
  <2> HIDE DEF C, f
  <2>2. IsFiniteSet(C)
    BY <1>4, <2>1, FS_Surjection
  <2> QED
    BY <2>2 DEF C
<1>8. IsFiniteSet(x3')
  BY <1>3, <1>7, FS_AddElement
<1>9. x3' \subseteq FunnelPart!Event
  BY <1>3, <1>5, <1>6
<1>10. /\ new.of = m.of /\ new.stage = m.stage /\ new.enteredAt = m.at /\ new.exitedAt = Null /\ new.n = m.n
       /\ new \in x3'
  BY <1>1, <1>3
<1>11. \A d \in x3' \ {new} : \E e \in x3 : Follows(d, e, m.of, m.at, unseen)
  BY <1>3, <1>6
<1>12. \A e \in x3 : \E d \in x3' : Follows(d, e, m.of, m.at, unseen)
  BY <1>3, <1>6
<1> QED
  BY <1>8, <1>9, <1>10, <1>11, <1>12

\* What a move makes of the record of its person.
LEMMA RecordMoved ==
    ASSUME FunnelKept, NEW m \in x7
    PROVE  LET r == FunnelPart!Moved(x2[m.of], m) IN
           /\ r \in FunnelPart!Person /\ r.stage = m.stage /\ r.enteredAt = m.at
           /\ r.createdAt = x2[m.of].createdAt /\ r.funnel # "LEAD"
           /\ r.funnel = "CLIENT" => m.stage = "CLOSED_WON" \/ x2[m.of].funnel = "CLIENT"
           /\ m.missed = {} => r.funnel = FunnelPart!TerminalToFunnel(m.stage)
<1>1. x2[m.of] \in FunnelPart!Person /\ m.stage \in FunnelPart!PipelineStages /\ m.at \in FunnelPart!Instants
  BY PeopleThere DEF FunnelKept, FunnelTyped, MovesAtWork, FunnelPart!Move
<1>2. /\ m.auto => m.stage = "NO_SHOW" /\ m.stage # "NEW"
      /\ m.stage # "NEW" => x2[m.of].funnel # "LEAD"
      /\ m.missed = {} => x2[m.of].funnel \in {"LEAD", "PIPELINE"}
  BY DEF FunnelKept, MovesAtWork
<1>3. PICK g \in {"CLIENT", "LOST", "PIPELINE"} :
        /\ g = FunnelPart!TerminalToFunnel(m.stage) /\ (g = "CLIENT" => m.stage = "CLOSED_WON")
        /\ m.stage = "NO_SHOW" => g = "PIPELINE"
  BY DEF FunnelPart!TerminalToFunnel
<1>4. PICK f : f = IF m.auto THEN x2[m.of].funnel ELSE g
  OBVIOUS
<1>5. /\ f \in {"LEAD", "PIPELINE", "CLIENT", "LOST"} /\ f # "LEAD"
      /\ f = "CLIENT" => m.stage = "CLOSED_WON" \/ x2[m.of].funnel = "CLIENT"
      /\ m.missed = {} => f = g
  <2>1. x2[m.of].funnel \in {"LEAD", "PIPELINE", "CLIENT", "LOST"}
    BY <1>1 DEF FunnelPart!Person
  <2>2. CASE m.auto
    BY <1>2, <1>3, <1>4, <2>1, <2>2
  <2>3. CASE ~m.auto
    BY <1>3, <1>4, <2>3
  <2> QED
    BY <2>2, <2>3
<1>6. PICK r : r = [x2[m.of] EXCEPT !.stage = m.stage, !.enteredAt = m.at, !.funnel = f]
  OBVIOUS
<1>7. FunnelPart!Moved(x2[m.of], m) = r
  <2>1. PICK r0 : r0 = [x2[m.of] EXCEPT !.stage = m.stage, !.enteredAt = m.at]
    OBVIOUS
  <2>2. r0.funnel = x2[m.of].funnel
    BY <1>1, <2>1 DEF FunnelPart!Person
  <2>3. FunnelPart!Moved(x2[m.of], m) = [r0 EXCEPT !.funnel = IF m.auto THEN r0.funnel ELSE g]
    BY <1>3, <2>1 DEF FunnelPart!Moved
  <2>4. (IF m.auto THEN r0.funnel ELSE g) = f
    BY <1>4, <2>2
  <2>5. FunnelPart!Moved(x2[m.of], m) = [r0 EXCEPT !.funnel = f]
    BY <2>3, <2>4
  <2> QED
    BY <1>6, <2>1, <2>5
<1>8. /\ r \in FunnelPart!Person /\ r.stage = m.stage /\ r.enteredAt = m.at /\ r.funnel = f
      /\ r.createdAt = x2[m.of].createdAt
  BY <1>1, <1>5, <1>6 DEF FunnelPart!Person
<1> QED
  BY <1>3, <1>5, <1>7, <1>8

\* A move is carried out.
LEMMA MoveEntered ==
    ASSUME FunnelKept, NEW m \in x7, FunnelPart!Enter(m)
    PROVE  FunnelKept'
<1>1. PICK p : p = m.of
  OBVIOUS
<1>2. PICK r : r = FunnelPart!Moved(x2[p], m)
  OBVIOUS
<1>3. x6' = TRUE /\ UNCHANGED <<x1, x4, x5>> /\ x2' = [x2 EXCEPT ![p] = r]
  BY <1>1, <1>2 DEF FunnelPart!Enter
<1>4. /\ p \notin x8' => p \notin x8 /\ m.missed = {}
      /\ \A q : q # p => (q \in x8' <=> q \in x8)
  <2>1. x8' = x8 \cup {q \in {p} : m.missed # {}}
    BY <1>1 DEF FunnelPart!Enter
  <2> QED
    BY <2>1
<1>5. /\ x2 \in [FunnelPeople -> FunnelPart!Person \cup {Null}] /\ x3 \subseteq FunnelPart!Event
      /\ x1 \in FunnelPart!Instants /\ x4 \in 0..FunnelMoves /\ x4 \in Int
      /\ x1 \in Int /\ \A t \in FunnelPart!Instants : t \in Int
  BY FunnelAssumption DEF FunnelKept, FunnelTyped, FunnelPart!Instants
<1>6. m \in FunnelPart!Move /\ m.at \in FunnelPart!Instants /\ m.at \in Int /\ m.n \in Int
  <2>1. m \in FunnelPart!Move
    BY DEF FunnelKept, FunnelTyped
  <2>2. m.at \in FunnelPart!Instants /\ m.n \in 1..FunnelMoves
    BY <2>1 DEF FunnelPart!Move
  <2>3. m.at \in Int
    BY <2>2, FunnelAssumption DEF FunnelPart!Instants
  <2>4. m.n \in Int
    BY <2>2, FunnelAssumption
  <2> QED
    BY <2>1, <2>2, <2>3, <2>4, Zenon
<1>7. /\ p \in FunnelPart!There /\ p \in FunnelPeople /\ x2[p] \in FunnelPart!Person /\ m.n <= x4
      /\ x2[p].createdAt <= m.at /\ m.at <= x1 /\ \A e \in x3 : e.n # m.n
      /\ m.missed = {} => x2[p].funnel \in {"LEAD", "PIPELINE"} /\ x2[p].enteredAt <= m.at
      /\ m.stage # "NEW" => x2[p].funnel # "LEAD"
  BY <1>1, PeopleThere DEF FunnelKept, MovesAtWork
<1>8. /\ r \in FunnelPart!Person /\ r.stage = m.stage /\ r.enteredAt = m.at
      /\ r.createdAt = x2[p].createdAt /\ r.funnel # "LEAD"
      /\ r.funnel = "CLIENT" => m.stage = "CLOSED_WON" \/ x2[p].funnel = "CLIENT"
      /\ m.missed = {} => r.funnel = FunnelPart!TerminalToFunnel(m.stage)
  BY <1>1, <1>2, RecordMoved
<1>9. /\ x2' \in [FunnelPeople -> FunnelPart!Person \cup {Null}] /\ x2'[p] = r
      /\ \A q \in FunnelPeople \ {p} : x2'[q] = x2[q]
  BY <1>3, <1>5, <1>7, <1>8
<1>10. FunnelPart!There' = FunnelPart!There /\ FunnelPart!There \subseteq FunnelPeople
  BY <1>7, <1>8, <1>9, PeopleThere, AskedThere DEF FunnelPart!There
<1>11. x3' \subseteq FunnelPart!Event /\ IsFiniteSet(x3')
  BY EventsEntered
<1>12. PICK unseen \in SUBSET m.missed, new \in x3' :
         /\ new.of = m.of /\ new.stage = m.stage /\ new.enteredAt = m.at /\ new.exitedAt = Null /\ new.n = m.n
         /\ \A d \in x3' \ {new} : \E e \in x3 : Follows(d, e, m.of, m.at, unseen)
         /\ \A e \in x3 : \E d \in x3' : Follows(d, e, m.of, m.at, unseen)
  BY EventsEntered
<1>13. /\ new.of = p /\ new.stage = m.stage /\ new.enteredAt = m.at /\ new.exitedAt = Null /\ new.n = m.n
       /\ \A d \in x3' \ {new} : \E e \in x3 : Follows(d, e, p, m.at, unseen)
       /\ \A e \in x3 : \E d \in x3' : Follows(d, e, p, m.at, unseen)
       /\ p \notin x8' => unseen = {}
  BY <1>1, <1>4, <1>12
<1>14. \A e \in x3 : /\ e \in FunnelPart!Event /\ e.of \in FunnelPart!There /\ e.n \in Nat /\ e.n <= x4
                     /\ e.enteredAt \in Int /\ e.exitedAt \in FunnelPart!Instants \cup {Null}
  BY <1>5 DEF FunnelKept, EventsOfRecords, FunnelPart!Event
<1>15. Null \notin FunnelPart!Instants /\ m.at # Null /\ m.stage # Null
  BY <1>6, PeopleThere DEF FunnelPart!Move
<1>16. ASSUME p \notin x8'
       PROVE  \A e \in x3 : e.of = p => e.stage # "CLOSED_WON" /\ x2[p].funnel = "PIPELINE"
  <2>1. x2[p].funnel = "LEAD" \/ x2[p].funnel = "PIPELINE"
    BY <1>4, <1>7, <1>16
  <2>2. x2[p].funnel = "PIPELINE" => x2[p].stage # "CLOSED_WON"
    BY <1>4, <1>7, <1>16 DEF FunnelKept, RecordsInFunnel, FunnelPart!TerminalToFunnel
  <2>3. x2[p].funnel = "LEAD" => \A e \in x3 : e.of # p
    BY <1>7 DEF FunnelKept, RecordsInFunnel
  <2> QED
    BY <1>4, <1>16, <2>1, <2>2, <2>3 DEF FunnelKept, EventsOfRecords
<1>17. FunnelTyped'
  <2>1. x7' \subseteq FunnelPart!Move
    <3>1. ASSUME NEW o \in x7
          PROVE  [o EXCEPT !.missed = @ \cup {m.n}] \in FunnelPart!Move
      <4>1. o \in FunnelPart!Move /\ m.n \in 1..FunnelMoves
        BY <1>6 DEF FunnelKept, FunnelTyped, FunnelPart!Move
      <4>2. PICK s : s = o.missed \cup {m.n}
        OBVIOUS
      <4>3. s \in SUBSET (1..FunnelMoves)
        BY <4>1, <4>2 DEF FunnelPart!Move
      <4>4. [o EXCEPT !.missed = s] \in FunnelPart!Move
        BY <4>1, <4>3 DEF FunnelPart!Move
      <4> QED
        BY <4>2, <4>4
    <3>2. x7 \subseteq FunnelPart!Move
      BY DEF FunnelKept, FunnelTyped
    <3> QED
      BY <3>1, <3>2 DEF FunnelPart!Enter
  <2> QED
    BY <1>3, <1>5, <1>9, <1>11, <2>1 DEF FunnelTyped
<1>18. EventsOfRecords'
  <2>1. ASSUME NEW d \in x3'
        PROVE  /\ d.of \in FunnelPart!There /\ d.n <= x4
               /\ x2'[d.of].createdAt <= d.enteredAt /\ d.enteredAt <= x1
               /\ d.exitedAt # Null => d.exitedAt <= x1
               /\ d.of \notin x8' =>
                    /\ d.exitedAt = Null => x2'[d.of].stage = d.stage /\ x2'[d.of].enteredAt = d.enteredAt
                    /\ d.stage = "CLOSED_WON" => x2'[d.of].stage = "CLOSED_WON"
    <3>1. CASE d = new
      BY <1>7, <1>8, <1>9, <1>13, <3>1
    <3>2. CASE d # new
      <4>1. PICK e \in x3 : Follows(d, e, p, m.at, unseen)
        BY <1>13, <3>2
      <4>2. /\ d.of = e.of /\ d.stage = e.stage /\ d.enteredAt = e.enteredAt /\ d.n = e.n
            /\ IF e.of = p /\ e.exitedAt = Null /\ e.n \notin unseen THEN d.exitedAt = m.at ELSE d = e
        BY <4>1 DEF Follows
      <4>3. /\ e.of \in FunnelPart!There /\ e.n <= x4
            /\ x2[e.of].createdAt <= e.enteredAt /\ e.enteredAt <= x1
            /\ e.exitedAt # Null => e.exitedAt <= x1
            /\ e.of \notin x8 =>
                 /\ e.exitedAt = Null => x2[e.of].stage = e.stage /\ x2[e.of].enteredAt = e.enteredAt
                 /\ e.stage = "CLOSED_WON" => x2[e.of].stage = "CLOSED_WON"
        BY DEF FunnelKept, EventsOfRecords
      <4>4. CASE e.of = p
        <5>1. d.exitedAt # Null => d.exitedAt <= x1
          BY <1>7, <4>2, <4>3
        <5>2. p \notin x8' => d.exitedAt # Null /\ d.stage # "CLOSED_WON"
          BY <1>13, <1>15, <1>16, <4>2, <4>4
        <5> QED
          BY <1>8, <1>9, <4>2, <4>3, <4>4, <5>1, <5>2
      <4>5. CASE e.of # p
        <5>1. d = e /\ x2'[d.of] = x2[e.of] /\ (d.of \in x8' <=> e.of \in x8)
          BY <1>4, <1>9, <1>10, <4>2, <4>3, <4>5
        <5> QED
          BY <4>3, <5>1
      <4> QED
        BY <4>4, <4>5
    <3> QED
      BY <3>1, <3>2
  <2> QED
    BY <1>3, <1>10, <2>1 DEF EventsOfRecords
<1>19. EventsApart'
  <2>1. ASSUME NEW d \in x3' \ {new}
        PROVE  d.n # new.n /\ ~(d.of = p /\ p \notin x8' /\ d.exitedAt = Null)
    <3>1. PICK e \in x3 : Follows(d, e, p, m.at, unseen)
      BY <1>13, <2>1
    <3> QED
      BY <1>7, <1>13, <1>15, <3>1 DEF Follows
  <2>2. ASSUME NEW c \in x3' \ {new}, NEW d \in x3' \ {new},
               c.n = d.n \/ (c.of = d.of /\ c.of \notin x8' /\ c.exitedAt = Null /\ d.exitedAt = Null)
        PROVE  c = d
    <3>1. PICK e \in x3 : Follows(c, e, p, m.at, unseen)
      BY <1>13, <2>2
    <3>2. PICK g \in x3 : Follows(d, g, p, m.at, unseen)
      BY <1>13, <2>2
    <3>3. e.n = g.n \/ (e.of = g.of /\ e.of \notin x8 /\ e.exitedAt = Null /\ g.exitedAt = Null)
      BY <1>4, <1>15, <2>2, <3>1, <3>2 DEF Follows
    <3>4. e = g
      BY <3>3 DEF FunnelKept, EventsApart
    <3>5. c \in FunnelPart!Event /\ d \in FunnelPart!Event
      BY <1>11, <2>2
    <3>6. c.of = d.of /\ c.stage = d.stage /\ c.enteredAt = d.enteredAt /\ c.n = d.n /\ c.exitedAt = d.exitedAt
      BY <3>1, <3>2, <3>4 DEF Follows
    <3> QED
      BY <3>5, <3>6 DEF FunnelPart!Event
  <2> QED
    BY <1>13, <2>1, <2>2 DEF EventsApart
<1>20. /\ \A e \in x3 : e.of # p => e \in x3'
       /\ \A d \in x3' : d.of # p => d \in x3
  BY <1>13 DEF Follows
<1>21. RecordsInFunnel'
  <2>1. ASSUME NEW q \in FunnelPart!There
        PROVE  /\ x2'[q].createdAt <= x1 /\ x2'[q].enteredAt <= x1
               /\ x2'[q].funnel = "LEAD" => x2'[q].stage = Null /\ \A e \in x3' : e.of # q
               /\ x2'[q].funnel # "LEAD" =>
                    /\ x2'[q].stage # Null
                    /\ q \notin x8' => x2'[q].funnel = FunnelPart!TerminalToFunnel(x2'[q].stage)
                    /\ \E e \in x3' : /\ e.of = q /\ e.stage = x2'[q].stage /\ e.enteredAt = x2'[q].enteredAt
                                      /\ q \notin x8' => e.exitedAt = Null
                    /\ \E e \in x3' : e.of = q /\ e.stage = "NEW"
                    /\ x2'[q].funnel = "CLIENT" => \E e \in x3' : e.of = q /\ e.stage = "CLOSED_WON"
    <3>1. /\ x2[q].createdAt <= x1 /\ x2[q].enteredAt <= x1
          /\ x2[q].funnel = "LEAD" => x2[q].stage = Null /\ \A e \in x3 : e.of # q
          /\ x2[q].funnel # "LEAD" =>
               /\ x2[q].stage # Null
               /\ q \notin x8 => x2[q].funnel = FunnelPart!TerminalToFunnel(x2[q].stage)
               /\ \E e \in x3 : /\ e.of = q /\ e.stage = x2[q].stage /\ e.enteredAt = x2[q].enteredAt
                                /\ q \notin x8 => e.exitedAt = Null
               /\ \E e \in x3 : e.of = q /\ e.stage = "NEW"
               /\ x2[q].funnel = "CLIENT" => \E e \in x3 : e.of = q /\ e.stage = "CLOSED_WON"
      BY DEF FunnelKept, RecordsInFunnel
    <3>2. CASE q = p
      <4>1. ASSUME NEW s, m.stage = s \/ \E e \in x3 : e.of = p /\ e.stage = s
            PROVE  \E e \in x3' : e.of = p /\ e.stage = s
        BY <1>13, <4>1 DEF Follows
      <4>2. \E e \in x3' : e.of = p /\ e.stage = "NEW"
        BY <1>7, <3>1, <3>2, <4>1
      <4>3. x2'[q].funnel = "CLIENT" => \E e \in x3' : e.of = p /\ e.stage = "CLOSED_WON"
        BY <1>8, <1>9, <3>1, <3>2, <4>1
      <4>4. /\ x2'[q].createdAt <= x1 /\ x2'[q].enteredAt <= x1 /\ x2'[q].funnel # "LEAD" /\ x2'[q].stage = m.stage
            /\ q \notin x8' => x2'[q].funnel = FunnelPart!TerminalToFunnel(x2'[q].stage)
        BY <1>4, <1>7, <1>8, <1>9, <3>1, <3>2
      <4>5. new.of = q /\ new.stage = x2'[q].stage /\ new.enteredAt = x2'[q].enteredAt /\ new.exitedAt = Null
        BY <1>8, <1>9, <1>13, <3>2
      <4> QED
        BY <1>15, <3>2, <4>2, <4>3, <4>4, <4>5
    <3>3. CASE q # p
      <4>1. x2'[q] = x2[q] /\ (q \in x8' <=> q \in x8)
        BY <1>4, <1>9, <1>10, <3>3
      <4> QED
        BY <1>20, <3>1, <3>3, <4>1
    <3> QED
      BY <3>2, <3>3
  <2>2. x1' = x1
    BY <1>3
  <2>3. \A q : FunnelPart!TerminalToFunnel(x2[q].stage)' = FunnelPart!TerminalToFunnel(x2'[q].stage)
    BY DEF FunnelPart!TerminalToFunnel
  <2> QED
    BY <1>10, <2>1, <2>2, <2>3 DEF RecordsInFunnel
<1>22. MovesAtWork'
  <2>1. ASSUME NEW c \in x7'
        PROVE  \E o \in x7 \ {m} : /\ c.of = o.of /\ c.stage = o.stage /\ c.auto = o.auto /\ c.at = o.at /\ c.n = o.n
                                   /\ c = IF o.of = p THEN [o EXCEPT !.missed = @ \cup {m.n}] ELSE o
                                   /\ IF o.of = p THEN c.missed # {} ELSE c = o
    <3>1. PICK o \in x7 \ {m} : c = IF o.of = p THEN [o EXCEPT !.missed = @ \cup {m.n}] ELSE o
      BY <1>1 DEF FunnelPart!Enter
    <3>2. o \in FunnelPart!Move
      BY DEF FunnelKept, FunnelTyped
    <3>3. CASE o.of = p
      <4>1. PICK s : s = o.missed \cup {m.n}
        OBVIOUS
      <4>2. c = [o EXCEPT !.missed = s]
        BY <3>1, <3>3, <4>1
      <4>3. /\ c.of = o.of /\ c.stage = o.stage /\ c.auto = o.auto /\ c.at = o.at /\ c.n = o.n
            /\ c.missed = s
        BY <3>2, <4>2 DEF FunnelPart!Move
      <4> QED
        BY <3>1, <3>3, <4>1, <4>3
    <3>4. CASE o.of # p
      BY <3>1, <3>4
    <3> QED
      BY <3>3, <3>4
  <2>2. ASSUME NEW o \in x7 \ {m}
        PROVE  /\ o.of \in FunnelPart!There /\ o.n <= x4
               /\ x2'[o.of].createdAt <= o.at /\ o.at <= x1
               /\ o.auto => o.stage = "NO_SHOW"
               /\ o.stage # "NEW" => x2'[o.of].funnel # "LEAD"
               /\ (o.of # p /\ o.missed = {}) =>
                    x2'[o.of].funnel \in {"LEAD", "PIPELINE"} /\ x2'[o.of].enteredAt <= o.at
               /\ o.n # m.n /\ \A e \in x3 : e.n # o.n
               /\ \A k \in x7 : k.n = o.n => k = o
    <3>1. /\ o.of \in FunnelPart!There /\ o.n <= x4
          /\ x2[o.of].createdAt <= o.at /\ o.at <= x1
          /\ o.auto => o.stage = "NO_SHOW"
          /\ o.stage # "NEW" => x2[o.of].funnel # "LEAD"
          /\ o.missed = {} => x2[o.of].funnel \in {"LEAD", "PIPELINE"} /\ x2[o.of].enteredAt <= o.at
          /\ \A e \in x3 : e.n # o.n
          /\ \A k \in x7 : k.n = o.n => k = o
      BY DEF FunnelKept, MovesAtWork
    <3>2. o.of = p => x2'[o.of] = r
      BY <1>9
    <3>3. o.of # p => x2'[o.of] = x2[o.of]
      BY <1>9, <1>10, <3>1
    <3> QED
      BY <1>8, <3>1, <3>2, <3>3
  <2>3. \A d \in x3' : d.n = m.n \/ \E e \in x3 : d.n = e.n
    BY <1>13 DEF Follows
  <2>4. ASSUME NEW c \in x7'
        PROVE  /\ c.of \in FunnelPart!There /\ c.n <= x4
               /\ x2'[c.of].createdAt <= c.at /\ c.at <= x1
               /\ c.auto => c.stage = "NO_SHOW"
               /\ c.stage # "NEW" => x2'[c.of].funnel # "LEAD"
               /\ c.missed = {} => x2'[c.of].funnel \in {"LEAD", "PIPELINE"} /\ x2'[c.of].enteredAt <= c.at
               /\ \A e \in x3' : e.n # c.n
               /\ \A k \in x7' : k.n = c.n => k = c
    <3>1. PICK o \in x7 \ {m} :
             /\ c.of = o.of /\ c.stage = o.stage /\ c.auto = o.auto /\ c.at = o.at /\ c.n = o.n
             /\ c = IF o.of = p THEN [o EXCEPT !.missed = @ \cup {m.n}] ELSE o
             /\ IF o.of = p THEN c.missed # {} ELSE c = o
      BY <2>1
    <3>2. \A e \in x3' : e.n # c.n
      BY <2>2, <2>3, <3>1
    <3>3. ASSUME NEW k \in x7', k.n = c.n
          PROVE  k = c
      <4>1. PICK l \in x7 \ {m} : /\ k.n = l.n
                                  /\ k = IF l.of = p THEN [l EXCEPT !.missed = @ \cup {m.n}] ELSE l
        BY <2>1
      <4>2. l = o
        BY <2>2, <3>1, <3>3, <4>1
      <4> QED
        BY <3>1, <4>1, <4>2
    <3>4. c.missed = {} => x2'[c.of].funnel \in {"LEAD", "PIPELINE"} /\ x2'[c.of].enteredAt <= c.at
      BY <2>2, <3>1
    <3> QED
      BY <2>2, <3>1, <3>2, <3>3, <3>4
  <2> QED
    BY <1>3, <1>10, <2>4 DEF MovesAtWork
<1>23. TimesOfStages'
  <2>1. ASSUME NEW d \in x3', d.of \notin x8'
        PROVE  \E first \in x3' :
                  /\ first.of = d.of /\ \A c \in x3' : c.of = d.of => first.enteredAt <= c.enteredAt
                  /\ SumOver(Lasted, LeftBy(d.of)') = x2'[d.of].enteredAt - first.enteredAt
    <3>1. CASE d.of # p
      <4>1. d \in x3 /\ d.of \notin x8 /\ x2'[d.of] = x2[d.of]
        BY <1>4, <1>9, <1>10, <1>14, <1>20, <2>1, <3>1
      <4>2. PICK first \in x3 :
              /\ first.of = d.of /\ \A c \in x3 : c.of = d.of => first.enteredAt <= c.enteredAt
              /\ SumOver(Lasted, LeftBy(d.of)) = x2[d.of].enteredAt - first.enteredAt
        BY <4>1, SumsAre DEF FunnelKept, TimesOfStages
      <4>3. LeftBy(d.of)' = LeftBy(d.of)
        BY <1>20, <3>1 DEF LeftBy
      <4> QED
        BY <1>20, <3>1, <4>1, <4>2, <4>3
    <3>2. CASE d.of = p /\ \A e \in x3 : e.of # p
      <4>1. \A c \in x3' : c.of = p => c = new
        BY <1>13, <3>2 DEF Follows
      <4>2. LeftBy(p)' = {}
        BY <1>13, <4>1 DEF LeftBy
      <4>3. SumOver(Lasted, {}) = 0
        BY FS_EmptySet, SumStarts
      <4>4. x2'[p].enteredAt - new.enteredAt = 0 /\ new.enteredAt <= new.enteredAt
        BY <1>6, <1>8, <1>9, <1>13
      <4> QED
        BY <1>13, <3>2, <4>1, <4>2, <4>3, <4>4
    <3>3. CASE d.of = p /\ \E e \in x3 : e.of = p
      <4>1. PICK o \in x3 : o.of = p /\ o.enteredAt = x2[p].enteredAt /\ o.exitedAt = Null
        BY <1>4, <1>7, <1>16, <2>1, <3>3 DEF FunnelKept, RecordsInFunnel
      <4>2. o.enteredAt \in Int /\ o.enteredAt <= m.at /\ p \notin x8 /\ unseen = {}
        BY <1>4, <1>7, <1>13, <1>14, <2>1, <3>3, <4>1
      <4>3. PICK c \in x3' : c.of = p /\ c.enteredAt = o.enteredAt /\ c.n = o.n /\ c.exitedAt = m.at
        BY <1>13, <4>1, <4>2 DEF Follows
      <4>4. c \notin x3
        BY <1>15, <4>1, <4>3 DEF FunnelKept, EventsApart
      <4>5. LeftBy(p)' = LeftBy(p) \cup {c}
        <5>1. ASSUME NEW g \in x3', g.of = p, g.exitedAt # Null, g \notin LeftBy(p)
              PROVE  g = c
          <6>1. PICK e \in x3 : Follows(g, e, p, m.at, unseen)
            BY <1>13, <5>1
          <6>2. e.of = p /\ e.exitedAt = Null /\ g.n = e.n
            BY <5>1, <6>1 DEF LeftBy, Follows
          <6>3. e = o
            BY <4>1, <4>2, <6>2 DEF FunnelKept, EventsApart
          <6> QED
            BY <1>19, <4>3, <6>2, <6>3 DEF EventsApart
        <5>2. \A e \in LeftBy(p) : e \in x3' /\ e.of = p /\ e.exitedAt # Null
          BY <1>13 DEF LeftBy, Follows
        <5>3. LeftBy(p)' = {e \in x3' : e.of = p /\ e.exitedAt # Null}
          BY DEF LeftBy
        <5> QED
          BY <1>15, <4>3, <5>1, <5>2, <5>3
      <4>6. /\ IsFiniteSet(LeftBy(p)) /\ c \notin LeftBy(p)
            /\ \A e \in LeftBy(p) : Lasted[e] \in Int
            /\ Lasted[c] = m.at - o.enteredAt /\ Lasted[c] \in Int
        <5>1. LeftBy(p) \subseteq x3 /\ IsFiniteSet(x3)
          BY DEF LeftBy, FunnelKept, FunnelTyped
        <5>2. IsFiniteSet(LeftBy(p))
          BY <5>1, FS_Subset
        <5>3. \A e \in LeftBy(p) : e \in FunnelPart!Event /\ e.enteredAt \in Int /\ e.exitedAt \in Int
          BY <1>5, <1>14 DEF LeftBy
        <5>4. c \in FunnelPart!Event
          BY <1>11
        <5> QED
          BY <1>6, <4>2, <4>3, <4>4, <5>1, <5>2, <5>3, <5>4 DEF Lasted
      <4>7. /\ SumOver(Lasted, LeftBy(p) \cup {c}) = Lasted[c] + SumOver(Lasted, LeftBy(p))
            /\ SumOver(Lasted, LeftBy(p)) \in Int
        BY ONLY <4>6, SumPutsIn
      <4>8. PICK start \in x3 :
              /\ start.of = p /\ \A e \in x3 : e.of = p => start.enteredAt <= e.enteredAt
              /\ SumOver(Lasted, LeftBy(p)) = x2[p].enteredAt - start.enteredAt
        BY <3>3, <4>2, SumsAre DEF FunnelKept, TimesOfStages
      <4>9. PICK first \in x3' : first.of = p /\ first.enteredAt = start.enteredAt
        BY <1>13, <4>8 DEF Follows
      <4>10. start.enteredAt \in Int /\ start.enteredAt <= m.at
        BY <1>6, <1>14, <4>1, <4>2, <4>8
      <4>11. \A e \in x3' : e.of = p => first.enteredAt <= e.enteredAt
        BY <1>13, <4>8, <4>9, <4>10 DEF Follows
      <4>12. SumOver(Lasted, LeftBy(p)') = x2'[p].enteredAt - first.enteredAt
        BY <1>6, <1>8, <1>9, <4>1, <4>2, <4>5, <4>6, <4>7, <4>8, <4>9, <4>10
      <4> QED
        BY <3>3, <4>9, <4>11, <4>12
    <3> QED
      BY <3>1, <3>2, <3>3
  <2>2. \A q : FunnelPart!SumFunctionOnSet(Lasted, LeftBy(q))' = FunnelPart!SumFunctionOnSet(Lasted, LeftBy(q)')
    BY DEF Lasted
  <2>3. \A q : FunnelPart!SumFunctionOnSet(Lasted, LeftBy(q)') = SumOver(Lasted, LeftBy(q)')
    BY SumsAre
  <2> QED
    BY <2>1, <2>2, <2>3 DEF TimesOfStages
<1> QED
  BY <1>3, <1>17, <1>18, <1>19, <1>21, <1>22, <1>23, ExportLooksAway DEF FunnelKept

LEMMA StagesAre ==
    /\ FunnelPart!PipelineStages = {"NEW", "CALL_SCHEDULED", "CLOSED_WON", "NO_SHOW", "CLOSED_LOST"}
    /\ DOMAIN FunnelPart!MainFunnelOrder = 1..3 /\ FunnelPart!MainFunnelOrder[3] = "CLOSED_WON"
    /\ FunnelPart!Len(FunnelPart!MainFunnelOrder) = 3
    /\ IsFiniteSet(FunnelPart!PipelineStages)
<1> DEFINE order == <<"NEW", "CALL_SCHEDULED", "CLOSED_WON">>
<1>1. DOMAIN order = 1..3 /\ order[1] = "NEW" /\ order[2] = "CALL_SCHEDULED" /\ order[3] = "CLOSED_WON"
  OBVIOUS
<1>2. FunnelPart!MainFunnelOrder = order
  BY DEF FunnelPart!MainFunnelOrder
<1>3. {order[i] : i \in 1..3} = {"NEW", "CALL_SCHEDULED", "CLOSED_WON"}
  <2>1. \A i : i \in 1..3 <=> i = 1 \/ i = 2 \/ i = 3
    OBVIOUS
  <2> HIDE DEF order
  <2> QED
    BY <1>1, <2>1
<1> HIDE DEF order
<1>4. FunnelPart!PipelineStages = {"NEW", "CALL_SCHEDULED", "CLOSED_WON", "NO_SHOW", "CLOSED_LOST"}
  BY <1>1, <1>2, <1>3 DEF FunnelPart!PipelineStages, FunnelPart!SideStages
<1>5. FunnelPart!Len(order) = 3
  <2>1. \A n \in Nat : 1..n = 1..3 => n = 3
    OBVIOUS
  <2> QED
    BY <1>1, <2>1
<1>6. IsFiniteSet({"NEW", "CALL_SCHEDULED", "CLOSED_WON", "NO_SHOW", "CLOSED_LOST"})
  <2>1. IsFiniteSet({"NEW"})
    BY FS_Singleton
  <2>2. IsFiniteSet({"NEW"} \cup {"CALL_SCHEDULED"})
    BY <2>1, FS_AddElement
  <2>3. IsFiniteSet(({"NEW"} \cup {"CALL_SCHEDULED"}) \cup {"CLOSED_WON"})
    BY <2>2, FS_AddElement
  <2>4. IsFiniteSet((({"NEW"} \cup {"CALL_SCHEDULED"}) \cup {"CLOSED_WON"}) \cup {"NO_SHOW"})
    BY <2>3, FS_AddElement
  <2>5. IsFiniteSet(((({"NEW"} \cup {"CALL_SCHEDULED"}) \cup {"CLOSED_WON"}) \cup {"NO_SHOW"}) \cup {"CLOSED_LOST"})
    BY <2>4, FS_AddElement
  <2>6. ((({"NEW"} \cup {"CALL_SCHEDULED"}) \cup {"CLOSED_WON"}) \cup {"NO_SHOW"}) \cup {"CLOSED_LOST"}
          = {"NEW", "CALL_SCHEDULED", "CLOSED_WON", "NO_SHOW", "CLOSED_LOST"}
    OBVIOUS
  <2> QED
    BY <2>5, <2>6
<1> QED
  BY <1>1, <1>2, <1>4, <1>5, <1>6

LEMMA FunnelStep ==
    ASSUME FunnelKept, FunnelPart!Next
    PROVE  FunnelKept'
<1>1. CASE \E p \in FunnelPeople : FunnelPart!Register(p)
  BY <1>1, PersonRegistered
<1>2. CASE \E p \in FunnelPeople : FunnelPart!Remove(p)
  BY <1>2, PersonRemoved
<1>3. ASSUME NEW p \in FunnelPeople, FunnelPart!AdvanceToPipeline(p)
      PROVE  FunnelKept'
  <2>1. /\ p \in FunnelPart!There /\ "NEW" \in FunnelPart!PipelineStages /\ x2[p].funnel = "LEAD"
        /\ FunnelPart!Reads(p, "NEW", FALSE)
    BY <1>3, StagesAre DEF FunnelPart!AdvanceToPipeline
  <2> QED
    BY <2>1, MoveRead
<1>4. ASSUME NEW p \in FunnelPeople, NEW s \in FunnelPart!PipelineStages, FunnelPart!ChangeStage(p, s)
      PROVE  FunnelKept'
  BY <1>4, MoveRead DEF FunnelPart!ChangeStage
<1>5. ASSUME NEW p \in FunnelPeople, FunnelPart!OnAppointmentNoShow(p)
      PROVE  FunnelKept'
  <2>1. /\ p \in FunnelPart!There /\ "NO_SHOW" \in FunnelPart!PipelineStages /\ x2[p].funnel = "PIPELINE"
        /\ FunnelPart!Reads(p, "NO_SHOW", TRUE)
    BY <1>5, StagesAre DEF FunnelPart!OnAppointmentNoShow
  <2> QED
    BY <2>1, MoveRead
<1>6. CASE \E m \in x7 : FunnelPart!Enter(m)
  BY <1>6, MoveEntered
<1> QED
  BY <1>1, <1>2, <1>3, <1>4, <1>5, <1>6, FunnelTicks, ExportGoesOn DEF FunnelPart!Next

LEMMA FunnelStays ==
    ASSUME FunnelKept, UNCHANGED FunnelPart!vars
    PROVE  FunnelKept'
<1>1. UNCHANGED <<x1, x2, x3, x4, x5, x6, x7, x8>>
  BY DEF FunnelPart!vars
<1>2. x1' \in FunnelPart!Instants /\ x1 <= x1'
  BY <1>1, FunnelAssumption DEF FunnelPart!Instants, FunnelKept, FunnelTyped
<1>3. FunnelPart!Asked' = FunnelPart!Asked
  BY <1>1, AskedStays
<1>4. ExportFound'
  BY <1>1, <1>3 DEF FunnelKept, ExportFound
<1> QED
  BY <1>1, <1>2, <1>4, TableStays DEF FunnelKept

\* What the instances count is what is counted here.
LEMMA FunnelCounts ==
    /\ \A S : FunnelPart!Cardinality(S) = Cardinality(S)
    /\ \A f : FunnelPart!SumFunction(f) = SumOver(f, DOMAIN f)
<1>1. \A S : FunnelPart!Cardinality(S) = Cardinality(S)
  BY DEF FunnelPart!Cardinality, Cardinality
<1>2. \A f : FunnelPart!SumFunction(f) = SumOver(f, DOMAIN f)
  BY SumsAre DEF FunnelPart!SumFunction
<1> QED
  BY <1>1, <1>2

\* Who was at the last stage, or closed, is counted by the funnel.
LEMMA ClosedAreReached ==
    ASSUME FunnelKept
    PROVE  /\ \A p \in FunnelPart!There :
                FunnelPart!Closed(p) => p \in FunnelPart!Reached("CLOSED_WON", [from |-> 0, to |-> x1])
           /\ \A p \in FunnelPart!Reached("CLOSED_WON", [from |-> 0, to |-> x1]) : FunnelPart!Closed(p) \/ p \in x8
           /\ \A period \in FunnelPart!Periods :
                /\ FunnelPart!ClosedWon(period) \subseteq FunnelPart!Reached("CLOSED_WON", period)
                /\ \A s : {p \in FunnelPart!OfSource(s, period) : FunnelPart!Closed(p)}
                             \subseteq FunnelPart!Reached("CLOSED_WON", [from |-> period.from, to |-> x1])
           /\ \A s, period : /\ FunnelPart!Reached(s, period) \subseteq FunnelPeople
                             /\ IsFiniteSet(FunnelPart!Reached(s, period))
<1>1. \A e \in x3 : /\ e \in FunnelPart!Event /\ e.of \in FunnelPart!There
                    /\ e.enteredAt \in Int /\ 0 <= e.enteredAt /\ e.enteredAt <= x1
                    /\ x2[e.of].createdAt <= e.enteredAt
                    /\ e.stage = "CLOSED_WON" => x2[e.of].stage = "CLOSED_WON" \/ e.of \in x8
  BY FunnelAssumption DEF FunnelKept, FunnelTyped, EventsOfRecords, FunnelPart!Event, FunnelPart!Instants
<1>2. \A p \in FunnelPart!There : FunnelPart!Closed(p) <=> x2[p].funnel = "CLIENT" \/ x2[p].stage = "CLOSED_WON"
  BY DEF FunnelPart!Closed
<1>3. \A s, from, to, p :
         p \in FunnelPart!Reached(s, [from |-> from, to |-> to])
           <=> \E e \in x3 : e.of = p /\ e.stage = s /\ from <= e.enteredAt /\ e.enteredAt <= to
  BY DEF FunnelPart!Reached, FunnelPart!In
<1>4. ASSUME NEW p \in FunnelPart!There, x2[p].stage = "CLOSED_WON"
      PROVE  \E e \in x3 : e.of = p /\ e.stage = "CLOSED_WON" /\ e.enteredAt = x2[p].enteredAt
  <2>1. x2[p].funnel # "LEAD"
    BY <1>4, PeopleThere, StagesAre DEF FunnelKept, RecordsInFunnel
  <2> QED
    BY <1>4, <2>1 DEF FunnelKept, RecordsInFunnel
<1>8. \A p \in FunnelPart!There : FunnelPart!Closed(p) => \E e \in x3 : e.of = p /\ e.stage = "CLOSED_WON"
  BY <1>2, <1>4 DEF FunnelKept, RecordsInFunnel
<1>5. /\ \A p \in FunnelPart!There :
             FunnelPart!Closed(p) => p \in FunnelPart!Reached("CLOSED_WON", [from |-> 0, to |-> x1])
      /\ \A p \in FunnelPart!Reached("CLOSED_WON", [from |-> 0, to |-> x1]) : FunnelPart!Closed(p) \/ p \in x8
  BY <1>1, <1>2, <1>3, <1>8
<1>6. ASSUME NEW period \in FunnelPart!Periods
      PROVE  /\ FunnelPart!ClosedWon(period) \subseteq FunnelPart!Reached("CLOSED_WON", period)
             /\ \A s : {p \in FunnelPart!OfSource(s, period) : FunnelPart!Closed(p)}
                          \subseteq FunnelPart!Reached("CLOSED_WON", [from |-> period.from, to |-> x1])
  <2>1. period.from \in Int /\ period.to \in Int /\ period = [from |-> period.from, to |-> period.to]
    BY FunnelAssumption DEF FunnelPart!Periods, FunnelPart!Instants
  <2>2. ASSUME NEW p \in FunnelPart!ClosedWon(period)
        PROVE  p \in FunnelPart!Reached("CLOSED_WON", period)
    <3>1. /\ p \in FunnelPart!There /\ x2[p].stage = "CLOSED_WON"
          /\ period.from <= x2[p].enteredAt /\ x2[p].enteredAt <= period.to
      BY DEF FunnelPart!ClosedWon, FunnelPart!In
    <3>2. PICK e \in x3 : e.of = p /\ e.stage = "CLOSED_WON" /\ e.enteredAt = x2[p].enteredAt
      BY <1>4, <3>1
    <3>3. p \in FunnelPart!Reached("CLOSED_WON", [from |-> period.from, to |-> period.to])
      BY <1>3, <3>1, <3>2
    <3> QED
      BY <2>1, <3>3
  <2>3. ASSUME NEW s, NEW p \in FunnelPart!OfSource(s, period), FunnelPart!Closed(p)
        PROVE  p \in FunnelPart!Reached("CLOSED_WON", [from |-> period.from, to |-> x1])
    <3>1. p \in FunnelPart!There /\ period.from <= x2[p].createdAt
      BY <2>3 DEF FunnelPart!OfSource, FunnelPart!In
    <3>2. PICK e \in x3 : e.of = p /\ e.stage = "CLOSED_WON"
      BY <1>8, <2>3, <3>1
    <3>3. x2[p].createdAt \in Int
      BY <3>1, PeopleThere, FunnelAssumption DEF FunnelKept, FunnelPart!Person, FunnelPart!Instants
    <3>4. period.from <= e.enteredAt /\ e.enteredAt <= x1
      BY <1>1, <2>1, <3>1, <3>2, <3>3
    <3> QED
      BY <1>3, <3>2, <3>4
  <2> QED
    BY <2>2, <2>3
<1>7. ASSUME NEW s, NEW period
      PROVE  /\ FunnelPart!Reached(s, period) \subseteq FunnelPeople
             /\ IsFiniteSet(FunnelPart!Reached(s, period))
  <2>1. FunnelPart!Reached(s, period) \subseteq FunnelPeople
    BY <1>1, AskedThere DEF FunnelPart!Reached
  <2> QED
    BY <2>1, FunnelAssumption, FS_Subset
<1> QED
  BY <1>5, <1>6, <1>7

\* The times of the stages are the times of the people, if no move was written over another.
LEMMA TimesAgree ==
    ASSUME FunnelKept, x8 = {}
    PROVE  FunnelPart!SumFunction([s \in FunnelPart!PipelineStages |->
                                      FunnelPart!TimeIn(s, [from |-> 0, to |-> x1])])
             = FunnelPart!SumFunction([p \in {p \in FunnelPart!There : FunnelPart!EntriesOf(p) # {}} |->
                                          x2[p].enteredAt - FunnelPart!Min(FunnelPart!EntriesOf(p))])
<1> DEFINE Left == {e \in x3 : e.exitedAt # Null}
           whole == [from |-> 0, to |-> x1]
           Stages == FunnelPart!PipelineStages
           stageOf == [e \in Left |-> e.stage]
           byStage == [s \in Stages |-> FunnelPart!TimeIn(s, whole)]
           Walkers == {p \in FunnelPart!There : FunnelPart!EntriesOf(p) # {}}
           personOf == [e \in Left |-> e.of]
           byPerson == [p \in Walkers |-> x2[p].enteredAt - FunnelPart!Min(FunnelPart!EntriesOf(p))]
<1>1. /\ IsFiniteSet(Left)
      /\ \A e \in Left : /\ e \in FunnelPart!Event /\ e.stage \in Stages /\ Lasted[e] \in Int
                         /\ Lasted[e] = e.exitedAt - e.enteredAt
                         /\ 0 <= e.exitedAt /\ e.exitedAt <= x1
  <2>1. IsFiniteSet(Left)
    BY FS_Subset DEF FunnelKept, FunnelTyped
  <2>2. ASSUME NEW e \in Left
        PROVE  /\ e \in FunnelPart!Event /\ e.stage \in Stages /\ e.exitedAt \in Nat /\ e.enteredAt \in Int
               /\ e.exitedAt <= x1
    BY FunnelAssumption DEF FunnelKept, FunnelTyped, EventsOfRecords, FunnelPart!Event, FunnelPart!Instants
  <2>3. ASSUME NEW e \in Left
        PROVE  Lasted[e] = e.exitedAt - e.enteredAt
    BY <2>2 DEF Lasted
  <2> HIDE DEF Left, Stages
  <2> QED
    BY <2>1, <2>2, <2>3
<1>2. ASSUME NEW T \in SUBSET Left
      PROVE  FunnelPart!SumFunction([e \in T |-> e.exitedAt - e.enteredAt]) = SumOver(Lasted, T)
  <2> DEFINE g == [e \in T |-> e.exitedAt - e.enteredAt]
  <2>1. IsFiniteSet(T) /\ \A e \in T : Lasted[e] \in Int /\ g[e] = Lasted[e]
    <3>1. IsFiniteSet(T)
      BY <1>1, FS_Subset
    <3> QED
      BY <1>1, <3>1
  <2>2. DOMAIN g = T
    OBVIOUS
  <2> HIDE DEF g
  <2>3. SumOver(g, T) = SumOver(Lasted, T)
    BY ONLY <2>1, SumsAgree
  <2>4. FunnelPart!SumFunction(g) = SumOver(Lasted, T)
    BY <2>2, <2>3, FunnelCounts
  <2> QED
    BY <2>4 DEF g
<1>3. SumsByKind(byStage, Lasted, Left, Stages, stageOf)
  <2>1. ASSUME NEW s \in Stages
        PROVE  byStage[s] = SumOver(Lasted, {e \in Left : stageOf[e] = s})
    <3> DEFINE left == {e \in x3 : e.stage = s /\ e.exitedAt # Null /\ FunnelPart!In(e.exitedAt, whole)}
    <3>1. left = {e \in Left : stageOf[e] = s}
      <4>1. \A e \in Left : FunnelPart!In(e.exitedAt, whole)
        BY <1>1 DEF FunnelPart!In
      <4> QED
        BY <4>1
    <3>2. byStage[s] = FunnelPart!SumFunction([e \in left |-> e.exitedAt - e.enteredAt])
      BY DEF FunnelPart!TimeIn
    <3>3. left \in SUBSET Left
      OBVIOUS
    <3> HIDE DEF left, Left, stageOf, byStage, whole
    <3>4. FunnelPart!SumFunction([e \in left |-> e.exitedAt - e.enteredAt]) = SumOver(Lasted, left)
      BY <1>2, <3>3
    <3> QED
      BY <3>1, <3>2, <3>4
  <2>2. \A e \in Left : stageOf[e] \in Stages
    BY <1>1
  <2> HIDE DEF Left, Stages, stageOf, byStage
  <2> QED
    BY <2>1, <2>2 DEF SumsByKind
<1>4. SumsByKind(byPerson, Lasted, Left, Walkers, personOf)
  <2>1. ASSUME NEW p \in Walkers
        PROVE  byPerson[p] = SumOver(Lasted, {e \in Left : personOf[e] = p})
    <3>1. PICK e \in x3 : e.of = p
      BY DEF FunnelPart!EntriesOf
    <3>2. PICK first \in x3 :
            /\ first.of = p /\ \A d \in x3 : d.of = p => first.enteredAt <= d.enteredAt
            /\ SumOver(Lasted, LeftBy(p)) = x2[p].enteredAt - first.enteredAt
      BY <3>1, SumsAre DEF FunnelKept, TimesOfStages
    <3>3. FunnelPart!Min(FunnelPart!EntriesOf(p)) = first.enteredAt
      <4> DEFINE S == FunnelPart!EntriesOf(p)
      <4>1. first.enteredAt \in S /\ \A t \in S : first.enteredAt <= t /\ t \in Int
        BY <3>2, FunnelAssumption DEF FunnelPart!EntriesOf, FunnelKept, FunnelTyped, FunnelPart!Event,
           FunnelPart!Instants
      <4> HIDE DEF S
      <4>2. PICK m : m = CHOOSE x \in S : \A y \in S : x <= y
        OBVIOUS
      <4>3. m \in S /\ \A y \in S : m <= y
        BY <4>1, <4>2
      <4>4. m = first.enteredAt
        BY <4>1, <4>3
      <4> QED
        BY <4>2, <4>4 DEF FunnelPart!Min, S
    <3>4. {d \in Left : personOf[d] = p} = LeftBy(p)
      BY DEF LeftBy
    <3>5. byPerson[p] = x2[p].enteredAt - first.enteredAt
      BY <3>3
    <3> HIDE DEF byPerson, Left, personOf
    <3> QED
      BY <3>2, <3>4, <3>5
  <2>2. \A e \in Left : personOf[e] \in Walkers
    BY DEF FunnelKept, EventsOfRecords, FunnelPart!EntriesOf
  <2> HIDE DEF Left, Walkers, personOf, byPerson
  <2> QED
    BY <2>1, <2>2 DEF SumsByKind
<1>5. IsFiniteSet(Stages) /\ IsFiniteSet(Walkers)
  <2>1. Walkers \subseteq FunnelPeople
    BY AskedThere
  <2> QED
    BY <2>1, StagesAre, FunnelAssumption, FS_Subset
<1>6. DOMAIN byStage = Stages /\ DOMAIN byPerson = Walkers
  OBVIOUS
<1>7. \A e \in Left : Lasted[e] \in Int
  BY <1>1
<1> HIDE DEF Left, Stages, stageOf, byStage, Walkers, personOf, byPerson
<1>8. SumOver(byStage, Stages) = SumOver(Lasted, Left)
  BY ONLY <1>1, <1>7, <1>3, <1>5, SumsOfKinds
<1>9. SumOver(byPerson, Walkers) = SumOver(Lasted, Left)
  BY ONLY <1>1, <1>7, <1>4, <1>5, SumsOfKinds
<1>10. FunnelPart!SumFunction(byStage) = FunnelPart!SumFunction(byPerson)
  BY <1>6, <1>8, <1>9, FunnelCounts
<1> QED
  BY <1>10 DEF byStage, byPerson, Stages, Walkers

LEMMA FunnelTells ==
    ASSUME FunnelKept
    PROVE  FunnelPart!ReportsAgree
<1> DEFINE whole == [from |-> 0, to |-> x1]
           won == "CLOSED_WON"
<1>1. ASSUME NEW p \in FunnelPart!There, x2[p].funnel = "PIPELINE"
      PROVE  FunnelPart!Cardinality({s \in FunnelPart!PipelineStages : p \in FunnelPart!Board[s]}) = 1
  <2>1. x2[p].stage \in FunnelPart!PipelineStages
    <3>1. x2[p] \in FunnelPart!Person /\ x2[p].stage # Null
      BY <1>1, PeopleThere DEF FunnelKept, RecordsInFunnel
    <3> QED
      BY <3>1 DEF FunnelPart!Person
  <2>2. {s \in FunnelPart!PipelineStages : p \in FunnelPart!Board[s]} = {x2[p].stage}
    BY <1>1, <2>1 DEF FunnelPart!Board
  <2> QED
    BY <2>2, FunnelCounts, FS_Singleton
<1>2. /\ \A p \in FunnelPart!There : FunnelPart!Closed(p) => p \in FunnelPart!Reached(won, whole)
      /\ \A p \in FunnelPart!Reached(won, whole) : FunnelPart!Closed(p) \/ p \in x8
  BY ClosedAreReached
<1>3. ASSUME NEW period \in FunnelPart!Periods
      PROVE  /\ FunnelPart!Cardinality(FunnelPart!ClosedWon(period))
                  <= FunnelPart!FunnelReport(period)[FunnelPart!Len(FunnelPart!MainFunnelOrder)].count
             /\ \A s \in DOMAIN FunnelPart!OriginReport(period) :
                  FunnelPart!OriginReport(period)[s].closedWon
                    <= FunnelPart!Cardinality(FunnelPart!Reached(won, [from |-> period.from, to |-> x1]))
  <2>1. FunnelPart!FunnelReport(period)[3].count = FunnelPart!Cardinality(FunnelPart!Reached(won, period))
    <3>1. 3 \in DOMAIN FunnelPart!MainFunnelOrder
      BY StagesAre
    <3> QED
      BY <3>1, StagesAre DEF FunnelPart!FunnelReport
  <2>2. FunnelPart!Cardinality(FunnelPart!ClosedWon(period)) <= FunnelPart!Cardinality(FunnelPart!Reached(won, period))
    <3>1. /\ FunnelPart!ClosedWon(period) \subseteq FunnelPart!Reached(won, period)
          /\ IsFiniteSet(FunnelPart!Reached(won, period))
      BY ClosedAreReached
    <3> QED
      BY <3>1, FunnelCounts, FS_Subset
  <2>3. ASSUME NEW s \in DOMAIN FunnelPart!OriginReport(period)
        PROVE  FunnelPart!OriginReport(period)[s].closedWon
                 <= FunnelPart!Cardinality(FunnelPart!Reached(won, [from |-> period.from, to |-> x1]))
    <3> DEFINE C == {p \in FunnelPart!OfSource(s, period) : FunnelPart!Closed(p)}
               R == FunnelPart!Reached(won, [from |-> period.from, to |-> x1])
    <3>1. FunnelPart!OriginReport(period)[s].closedWon = FunnelPart!Cardinality(C)
      BY <2>3 DEF FunnelPart!OriginReport
    <3>2. C \subseteq R /\ IsFiniteSet(R)
      BY ClosedAreReached
    <3> HIDE DEF C, R
    <3>3. Cardinality(C) <= Cardinality(R)
      BY <3>2, FS_Subset
    <3>4. FunnelPart!OriginReport(period)[s].closedWon <= FunnelPart!Cardinality(R)
      BY <3>1, <3>3, FunnelCounts
    <3> QED
      BY <3>4 DEF R
  <2> QED
    BY <2>1, <2>2, <2>3, StagesAre
<1>4. ASSUME NEW s \in FunnelPart!PipelineStages
      PROVE  FunnelPart!Reached(s, whole) \subseteq FunnelPart!Reached("NEW", whole)
  <2>1. ASSUME NEW e \in x3
        PROVE  e.of \in FunnelPart!Reached("NEW", whole)
    <3>1. PICK d \in x3 : d.of = e.of /\ d.stage = "NEW"
      BY DEF FunnelKept, EventsOfRecords, RecordsInFunnel
    <3>2. 0 <= d.enteredAt /\ d.enteredAt <= x1
      BY FunnelAssumption DEF FunnelKept, FunnelTyped, EventsOfRecords, FunnelPart!Event, FunnelPart!Instants
    <3> QED
      BY <3>1, <3>2 DEF FunnelPart!Reached, FunnelPart!In
  <2> QED
    BY <2>1 DEF FunnelPart!Reached
<1>5. ASSUME FunnelPart!Sent, ~x6
      PROVE  FunnelPart!Truncated <=> FunnelPart!Asked # x5.rows
  <2>1. /\ x5.rows \subseteq FunnelPart!Asked
        /\ FunnelPart!Truncated <=> Cardinality(FunnelPart!Asked) > Cardinality(x5.rows)
    <3>1. x5.total = FunnelPart!Cardinality(FunnelPart!Asked) /\ x5.rows \subseteq FunnelPart!Asked
      BY <1>5 DEF FunnelPart!Sent, FunnelKept, ExportFound
    <3> QED
      BY <3>1, FunnelCounts DEF FunnelPart!Truncated
  <2>2. IsFiniteSet(FunnelPart!Asked)
    BY AskedThere, FunnelAssumption, FS_Subset
  <2>3. /\ IsFiniteSet(x5.rows) /\ Cardinality(x5.rows) <= Cardinality(FunnelPart!Asked)
        /\ Cardinality(x5.rows) = Cardinality(FunnelPart!Asked) => x5.rows = FunnelPart!Asked
        /\ Cardinality(x5.rows) \in Nat /\ Cardinality(FunnelPart!Asked) \in Nat
    BY <2>1, <2>2, FS_Subset, FS_CardinalityType
  <2>4. (Cardinality(FunnelPart!Asked) > Cardinality(x5.rows)) <=> FunnelPart!Asked # x5.rows
    BY <2>3
  <2> QED
    BY <2>1, <2>4
<1> QED
  BY <1>1, <1>2, <1>3, <1>4, <1>5, TimesAgree DEF FunnelPart!ReportsAgree

\* The chart adds up to the numbers, and the reports of the funnel agree with each other
\* and with the records.
THEOREM ReportsAddUp == ScreensSpec => []NumbersAddUp
<1> DEFINE I == (part = "report" => Reporting) /\ (part = "funnel" => FunnelKept)
<1>1. ScreensInit => I
  BY ScreensBegin, ReportingBegins, FunnelBegins
<1>2. I /\ [ScreensNext]_registers => I'
  BY ScreensStep, ReportingStep, ReportingStays, FunnelStep, FunnelStays
<1>3. I => NumbersAddUp
  BY ReportsTell, FunnelTells DEF NumbersAddUp
<1> QED
  BY <1>1, <1>2, <1>3, PTL DEF ScreensSpec
=============================================================================
