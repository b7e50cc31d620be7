--------------------------- MODULE PipelineProofs ---------------------------
(***************************************************************************)
(* Proofs about Pipeline.tla, for every number of clients, calls, stages   *)
(* and requests at work: type correctness, that the current stage of a     *)
(* card is always an open event of its history, and that only moves        *)
(* decided on a stale row break the funnel.                                *)
(***************************************************************************)
EXTENDS Pipeline, TLAPS

-----------------------------------------------------------------------------
(* What a request holds, told by its pc *)

Work == Move \cup Booking \cup Planning \cup Marking \cup Reacting \cup {Idle}

\* The pc of a request tells what its record holds.
LEMMA WorkByPc ==
    ASSUME NEW q \in Work
    PROVE  /\ q.pc \in {"begin", "commit"} <=> q \in Move
           /\ q.pc = "book" <=> q \in Booking
           /\ q.pc = "plan" <=> q \in Planning
           /\ q.pc = "mark" <=> q \in Marking
           /\ q.pc = "react" <=> q \in Reacting
           /\ q.pc = "idle" <=> q = Idle
  BY DEF Work, Move, PipelineMove, SuccessMove, Booking, Planning, Marking, Reacting, Idle

\* A closed event is an event: closing leaves the length and the rest alone.
LEMMA ClosedIs ==
    ASSUME NEW h \in Seq(StageEvent), NEW S
    PROVE  /\ Closed(h, S) \in Seq(StageEvent)
           /\ Len(Closed(h, S)) = Len(h)
           /\ \A i \in 1..Len(h) :
                 /\ Closed(h, S)[i].module = h[i].module
                 /\ Closed(h, S)[i].from = h[i].from
                 /\ Closed(h, S)[i].to = h[i].to
                 /\ Closed(h, S)[i].open = (h[i].open /\ i \notin S)
<1> DEFINE f == Closed(h, S)
<1>1. DOMAIN h = 1..Len(h) /\ Len(h) \in Nat
  OBVIOUS
<1>2. \A i \in 1..Len(h) : h[i] \in StageEvent
  OBVIOUS
<1>3. \A i \in 1..Len(h) : f[i] = IF i \in S THEN [h[i] EXCEPT !.open = FALSE] ELSE h[i]
  BY <1>1 DEF Closed
<1>4. \A i \in 1..Len(h) :
          /\ f[i] \in StageEvent
          /\ f[i].module = h[i].module
          /\ f[i].from = h[i].from
          /\ f[i].to = h[i].to
          /\ f[i].open = (h[i].open /\ i \notin S)
  BY <1>2, <1>3 DEF StageEvent
<1>5. f = [i \in 1..Len(h) |-> f[i]]
  BY <1>1 DEF Closed
<1>6. f \in [1..Len(h) -> StageEvent]
  BY <1>4, <1>5
<1>7. f \in Seq(StageEvent) /\ Len(f) = Len(h)
  BY <1>1, <1>6
<1> QED
  BY <1>4, <1>7

\* A move opens one event, and a second one when the card is won.
LEMMA OpenedIs ==
    ASSUME NEW q \in Move
    PROVE  /\ Opened(q) \in Seq(StageEvent)
           /\ Len(Opened(q)) \in {1, 2}
           /\ Opened(q)[1] = [module |-> ModuleOf(q.op), from |-> q.from,
                              to |-> q.to, open |-> TRUE]
           /\ (q.op = "change" /\ q.to = "CLOSED_WON") =>
                 /\ Len(Opened(q)) = 2
                 /\ Opened(q)[2] = [module |-> "SUCCESS", from |-> None,
                                    to |-> "NEW_CLIENT", open |-> TRUE]
           /\ ~(q.op = "change" /\ q.to = "CLOSED_WON") => Len(Opened(q)) = 1
<1> DEFINE one == [module |-> ModuleOf(q.op), from |-> q.from, to |-> q.to, open |-> TRUE]
           two == [module |-> "SUCCESS", from |-> None, to |-> "NEW_CLIENT", open |-> TRUE]
<1>1. one \in StageEvent /\ two \in StageEvent
  BY DEF Move, PipelineMove, SuccessMove, StageEvent, ModuleOf, Modules, SuccessStages
<1> HIDE DEF one, two
<1>2. CASE q.op = "change" /\ q.to = "CLOSED_WON"
  <2>1. Opened(q) = <<one, two>>
    BY <1>2 DEF Opened, one, two
  <2> QED
    BY <2>1, <1>1, <1>2 DEF one, two
<1>3. CASE ~(q.op = "change" /\ q.to = "CLOSED_WON")
  <2>1. Opened(q) = <<one>>
    BY <1>3 DEF Opened, one
  <2> QED
    BY <2>1, <1>1, <1>3 DEF one
<1> QED
  BY <1>2, <1>3
\* The history after a move: the old events, some of them closed, then what the
\* move opened.
After(h, q) == Closed(h, q.snap) \o Opened(q)

LEMMA HistoryAfterMove ==
    ASSUME NEW h \in Seq(StageEvent), NEW q \in Move
    PROVE  /\ After(h, q) \in Seq(StageEvent) /\ Len(h) \in Nat
           /\ Len(After(h, q)) \in {Len(h) + 1, Len(h) + 2}
           /\ \A i \in 1..Len(h) :
                 /\ After(h, q)[i].module = h[i].module
                 /\ After(h, q)[i].from = h[i].from
                 /\ After(h, q)[i].to = h[i].to
                 /\ After(h, q)[i].open = (h[i].open /\ i \notin q.snap)
           /\ After(h, q)[Len(h) + 1] = [module |-> ModuleOf(q.op), from |-> q.from,
                                         to |-> q.to, open |-> TRUE]
           /\ (q.op = "change" /\ q.to = "CLOSED_WON") =>
                 /\ Len(After(h, q)) = Len(h) + 2
                 /\ After(h, q)[Len(h) + 2] = [module |-> "SUCCESS", from |-> None,
                                               to |-> "NEW_CLIENT", open |-> TRUE]
           /\ ~(q.op = "change" /\ q.to = "CLOSED_WON") => Len(After(h, q)) = Len(h) + 1
<1> DEFINE c == Closed(h, q.snap)
           o == Opened(q)
           g == After(h, q)
           n == Len(h)
<1>1. c \in Seq(StageEvent) /\ Len(c) = n /\ n \in Nat
  BY ClosedIs
<1>2. \A i \in 1..n : /\ c[i].module = h[i].module
                    /\ c[i].from = h[i].from
                    /\ c[i].to = h[i].to
                    /\ c[i].open = (h[i].open /\ i \notin q.snap)
  BY ClosedIs
<1>3. o \in Seq(StageEvent) /\ Len(o) \in {1, 2}
  BY OpenedIs
<1>4. o[1] = [module |-> ModuleOf(q.op), from |-> q.from, to |-> q.to, open |-> TRUE]
  BY OpenedIs
<1>5. /\ (q.op = "change" /\ q.to = "CLOSED_WON") =>
            /\ Len(o) = 2
            /\ o[2] = [module |-> "SUCCESS", from |-> None, to |-> "NEW_CLIENT", open |-> TRUE]
      /\ ~(q.op = "change" /\ q.to = "CLOSED_WON") => Len(o) = 1
  BY OpenedIs
<1>6. g = c \o o
  BY DEF After
<1> HIDE DEF c, o, g
<1>7. /\ c \o o \in Seq(StageEvent)
      /\ Len(c \o o) = Len(c) + Len(o)
      /\ \A i \in 1..Len(c) : (c \o o)[i] = c[i]
      /\ \A j \in 1..Len(o) : (c \o o)[Len(c) + j] = o[j]
  BY <1>1, <1>3
<1>8. /\ g \in Seq(StageEvent)
      /\ Len(g) = n + Len(o)
      /\ \A i \in 1..n : g[i] = c[i]
      /\ \A j \in 1..Len(o) : g[n + j] = o[j]
  BY <1>1, <1>6, <1>7, Zenon
<1>9. 1 \in 1..Len(o) /\ (Len(o) = 2 => 2 \in 1..Len(o))
  <2>1. CASE Len(o) = 1
    BY <2>1
  <2>2. CASE Len(o) = 2
    BY <2>2
  <2> QED
    BY <1>3, <2>1, <2>2
<1>10. /\ g[n + 1] = o[1]
       /\ Len(o) = 2 => g[n + 2] = o[2]
       /\ Len(g) \in {n + 1, n + 2} /\ (Len(o) = 2 => Len(g) = n + 2)
       /\ Len(o) = 1 => Len(g) = n + 1
  BY <1>1, <1>3, <1>8, <1>9
<1>11. \A i \in 1..n : /\ g[i].module = h[i].module
                     /\ g[i].from = h[i].from
                     /\ g[i].to = h[i].to
                     /\ g[i].open = (h[i].open /\ i \notin q.snap)
  BY <1>2, <1>8, Zenon
<1> QED
  BY <1>1, <1>4, <1>5, <1>8, <1>10, <1>11 DEF g
-----------------------------------------------------------------------------
(* Type correctness *)

LEMMA GoesTyped ==
    ASSUME TypeOK, NEW r \in Requests, NEW q \in Work, Goes(r, q)
    PROVE  req' \in [Requests -> Work]
  BY DEF TypeOK, Goes, Work

\* A request that reads a row holds a move.
LEMMA ReadsTyped ==
    ASSUME TypeOK, NEW r \in Requests, NEW c \in Cards,
           NEW op, NEW from, NEW to, NEW at \in Times,
           \/ /\ op \in {"advance", "change", "noshow"}
              /\ from \in Stages \cup {None} /\ to \in Stages
           \/ op = "success" /\ from \in SuccessStages \cup {None} /\ to \in SuccessStages,
           Reads(r, op, c, from, to, at)
    PROVE  req' \in [Requests -> Work]
<1> DEFINE q == [pc |-> "begin", op |-> op, client |-> c, from |-> from, to |-> to,
                 at |-> at, seen |-> Len(history[c]), snap |-> {}]
<1>1. c \in Clients /\ Len(history[c]) \in Nat
  BY DEF TypeOK, Cards
<1>2. q \in Move
  BY <1>1 DEF Move, PipelineMove, SuccessMove
<1>3. q \in Work /\ Goes(r, q)
  BY <1>2 DEF Work, Reads
<1> HIDE DEF q
<1> QED
  BY <1>3, GoesTyped

\* The rows of the tables.
LEMMA RowsTyped ==
    ASSUME TypeOK
    PROVE  /\ \A c \in Cards : c \in Clients /\ card[c] \in Card
           /\ \A a \in CallRows : a \in Calls /\ call[a] \in Call
           /\ \A r \in Requests : req[r] \in Work
           /\ \A c \in Clients : history[c] \in Seq(StageEvent)
  BY DEF TypeOK, Cards, CallRows, Work

LEMMA MovedTyped ==
    ASSUME NEW x \in Card, NEW q \in Move
    PROVE  Moved(x, q) \in Card
<1>1. FunnelOf(q.to) \in FunnelStages
  BY DEF FunnelOf, FunnelStages
<1>2. CASE q \in PipelineMove
  BY <1>1, <1>2 DEF Moved, PipelineMove, Card, FunnelStages, Stages, SuccessStages
<1>3. CASE q \in SuccessMove
  BY <1>3 DEF Moved, SuccessMove, Card
<1> QED
  BY <1>2, <1>3 DEF Move

LEMMA TimesFacts == 0 \in Times /\ \A at \in 0..(MaxTime - 1) : at \in Times
  BY NumbersAssumption DEF Times

\* Every action keeps the types.
LEMMA TypeStep == TypeOK /\ [Next]_vars => TypeOK'
<1> SUFFICES ASSUME TypeOK, [Next]_vars PROVE TypeOK'
  OBVIOUS
<1> USE TimesFacts, RowsTyped
<1>1. ASSUME NEW c \in Clients, NewLead(c) PROVE TypeOK'
  <2>1. [funnel |-> "LEAD", stage |-> None, success |-> None] \in Card
    BY DEF Card, FunnelStages
  <2> QED
    BY <1>1, <2>1 DEF NewLead, TypeOK
<1>2. ASSUME NEW c \in Clients, RemoveClient(c) PROVE TypeOK'
  <2>1. card' \in [Clients -> Card \cup {Absent, Deleted}]
    BY <1>2 DEF RemoveClient, TypeOK
  <2>2. history' \in [Clients -> Seq(StageEvent)]
    BY <1>2 DEF RemoveClient, TypeOK
  <2>3. call' \in [Calls -> Call \cup {Absent, Deleted}]
    BY <1>2 DEF RemoveClient, TypeOK
  <2> QED
    BY <1>2, <2>1, <2>2, <2>3, NumbersAssumption DEF RemoveClient, TypeOK, Edit
<1>3. ASSUME NEW r \in Requests, ReadAdvance(r) PROVE TypeOK'
  <2>1. PICK c \in Cards : Edit /\ Reads(r, "advance", c, None, "NEW", 0) /\ UNCHANGED failures
    BY <1>3 DEF ReadAdvance
  <2>2. req' \in [Requests -> Work]
    BY <2>1, ReadsTyped DEF Stages
  <2> QED
    BY <2>1, <2>2, NumbersAssumption DEF TypeOK, Edit, Reads, Work
<1>4. ASSUME NEW r \in Requests, ReadChange(r) PROVE TypeOK'
  <2>1. PICK c \in Cards, to \in Stages, at \in 0..(MaxTime - 1) :
            Edit /\ Reads(r, "change", c, card[c].stage, to, at) /\ UNCHANGED failures
    BY <1>4 DEF ReadChange
  <2>2. card[c].stage \in Stages \cup {None}
    BY DEF Card
  <2>3. req' \in [Requests -> Work]
    BY <2>1, <2>2, ReadsTyped
  <2> QED
    BY <2>1, <2>3, NumbersAssumption DEF TypeOK, Edit, Reads, Work
<1>5. ASSUME NEW r \in Requests, ReadSuccess(r) PROVE TypeOK'
  <2>1. PICK c \in Cards, to \in SuccessStages :
            Edit /\ Reads(r, "success", c, card[c].success, to, 0) /\ UNCHANGED failures
    BY <1>5 DEF ReadSuccess
  <2>2. card[c].success \in SuccessStages \cup {None}
    BY DEF Card
  <2>3. req' \in [Requests -> Work]
    BY <2>1, <2>2, ReadsTyped
  <2> QED
    BY <2>1, <2>3, NumbersAssumption DEF TypeOK, Edit, Reads, Work
<1>6. ASSUME NEW r \in Requests, MissCall(r) PROVE TypeOK'
  <2>1. PICK a \in CallRows :
            /\ Edit
            /\ call' = [call EXCEPT ![a].status = "NO_SHOW"]
            /\ Goes(r, [pc |-> "react", client |-> call[a].client])
            /\ UNCHANGED <<card, history, check, now, raced, failures>>
    BY <1>6 DEF MissCall
  <2>2. [call[a] EXCEPT !.status = "NO_SHOW"] \in Call /\ call[a].client \in Clients
    BY DEF Call
  <2>3. [pc |-> "react", client |-> call[a].client] \in Work
    BY <2>2 DEF Work, Reacting
  <2>4. req' \in [Requests -> Work]
    BY <2>1, <2>3, GoesTyped
  <2> QED
    BY <2>1, <2>2, <2>4, NumbersAssumption DEF TypeOK, Edit, Work
<1>7. ASSUME RescheduleCall \/ ConfirmCall \/ CloseCall PROVE TypeOK'
  <2>1. PICK a \in CallRows, at \in 0..(MaxTime - 1) :
            \/ call' = [call EXCEPT ![a].start = at, ![a].status = "PENDING"]
            \/ call' = [call EXCEPT ![a].status = "PENDING"]
            \/ call' = [call EXCEPT ![a].status = "CLOSED"]
    <3>1. 0 \in 0..(MaxTime - 1)
      BY NumbersAssumption
    <3> QED
      BY <1>7, <3>1 DEF RescheduleCall, ConfirmCall, CloseCall
  <2>2. /\ [call[a] EXCEPT !.start = at, !.status = "PENDING"] \in Call
        /\ [call[a] EXCEPT !.status = "PENDING"] \in Call
        /\ [call[a] EXCEPT !.status = "CLOSED"] \in Call
    BY DEF Call
  <2>3. call' \in [Calls -> Call \cup {Absent, Deleted}]
    BY <2>1, <2>2 DEF TypeOK
  <2>4. Edit /\ UNCHANGED <<card, history, check, req, now, raced, failures>>
    BY <1>7 DEF RescheduleCall, ConfirmCall, CloseCall
  <2> QED
    BY <2>3, <2>4, NumbersAssumption DEF TypeOK, Edit
<1>8. ASSUME NEW r \in Requests, BeginMove(r) PROVE TypeOK'
  <2> DEFINE S == OpenEvents(req[r].client, ModuleOf(req[r].op))
  <2>1. req[r] \in Move
    BY <1>8, WorkByPc DEF BeginMove
  <2>2. S \in SUBSET Nat
    BY <2>1 DEF OpenEvents, Move, PipelineMove, SuccessMove
  <2>3. [req[r] EXCEPT !.pc = "commit", !.snap = S] \in Work
    BY <2>1, <2>2 DEF Move, PipelineMove, SuccessMove, Work
  <2>4. req' \in [Requests -> Work]
    BY <1>8, <2>3, GoesTyped DEF BeginMove
  <2> QED
    BY <1>8, <2>4 DEF BeginMove, TypeOK, Work
<1>9. ASSUME NEW r \in Requests, CommitMove(r) PROVE TypeOK'
  <2> DEFINE q == req[r]
             c == req[r].client
             h == After(history[c], q)
  <2>1. q \in Move /\ c \in Cards
    BY <1>9, WorkByPc DEF CommitMove
  <2>2. h \in Seq(StageEvent)
    BY <2>1, HistoryAfterMove
  <2>3. Moved(card[c], q) \in Card
    BY <2>1, MovedTyped
  <2>4. c \in Clients /\ q.at \in Times
    BY <2>1 DEF Move, PipelineMove, SuccessMove
  <2>5. req' \in [Requests -> Work]
    <3>1. Goes(r, [pc |-> "book", client |-> c, at |-> q.at]) \/ Goes(r, Idle)
      BY <1>9 DEF CommitMove
    <3>2. [pc |-> "book", client |-> c, at |-> q.at] \in Work /\ Idle \in Work
      BY <2>4 DEF Work, Booking
    <3> QED
      BY <3>1, <3>2, GoesTyped
  <2>6. card' \in [Clients -> Card \cup {Absent, Deleted}]
    BY <1>9, <2>3 DEF CommitMove, TypeOK
  <2>7. history' \in [Clients -> Seq(StageEvent)]
    BY <1>9, <2>2 DEF CommitMove, TypeOK, After
  <2>8. raced' \subseteq Clients
    BY <1>9, <2>4 DEF CommitMove, TypeOK
  <2> QED
    BY <1>9, <2>5, <2>6, <2>7, <2>8 DEF CommitMove, TypeOK, Work
<1>10. ASSUME NEW r \in Requests, MoveRefused(r) \/ BookingRefused(r) \/ GiveUp(r) PROVE TypeOK'
  <2>1. Idle \in Work /\ Goes(r, Idle)
    BY <1>10 DEF Work, MoveRefused, BookingRefused, GiveUp
  <2>2. req' \in [Requests -> Work]
    BY <2>1, GoesTyped
  <2> QED
    BY <1>10, <2>2 DEF MoveRefused, BookingRefused, GiveUp, TypeOK, Work
<1>11. ASSUME NEW r \in Requests, ReadNoShow(r) PROVE TypeOK'
  <2>1. CASE Goes(r, Idle)
    <3>1. req' \in [Requests -> Work]
      BY <2>1, GoesTyped DEF Work
    <3> QED
      BY <1>11, <3>1 DEF ReadNoShow, Reads, TypeOK, Work
  <2>2. CASE /\ req[r].client \in Cards
             /\ Reads(r, "noshow", req[r].client, card[req[r].client].stage, "NO_SHOW", 0)
    <3>1. card[req[r].client].stage \in Stages \cup {None}
      BY <2>2 DEF Card
    <3>2. req' \in [Requests -> Work]
      BY <2>2, <3>1, ReadsTyped DEF Stages
    <3> QED
      BY <1>11, <2>2, <3>2 DEF ReadNoShow, Reads, TypeOK, Work
  <2> QED
    BY <1>11, <2>1, <2>2 DEF ReadNoShow
<1>12. ASSUME NEW r \in Requests, BookCall(r) PROVE TypeOK'
  <2>1. req[r] \in Booking
    BY <1>12, WorkByPc DEF BookCall
  <2>2. PICK a \in Calls :
            /\ call' = [call EXCEPT ![a] = [client |-> req[r].client, start |-> req[r].at,
                                            status |-> "PENDING"]]
            /\ Goes(r, [pc |-> "plan", call |-> a, at |-> req[r].at])
    BY <1>12 DEF BookCall
  <2>3. /\ [client |-> req[r].client, start |-> req[r].at, status |-> "PENDING"] \in Call
        /\ [pc |-> "plan", call |-> a, at |-> req[r].at] \in Work
    BY <2>1 DEF Booking, Call, Work, Planning
  <2>4. req' \in [Requests -> Work]
    BY <2>2, <2>3, GoesTyped
  <2> QED
    BY <1>12, <2>2, <2>3, <2>4 DEF BookCall, TypeOK, Work
<1>13. ASSUME NEW r \in Requests, PlanCheck(r) PROVE TypeOK'
  <2>1. req[r] \in Planning
    BY <1>13, WorkByPc DEF PlanCheck
  <2>2. [due |-> req[r].at + 1, left |-> MaxAttempts] \in Check
    BY <2>1, NumbersAssumption DEF Planning, Check, Times
  <2>3. check' \in [Calls -> Check \cup {None}]
    BY <1>13, <2>2 DEF PlanCheck, TypeOK
  <2>4. req' \in [Requests -> Work]
    BY <1>13, GoesTyped DEF PlanCheck, Work
  <2> QED
    BY <1>13, <2>3, <2>4 DEF PlanCheck, TypeOK, Work
<1>14. ASSUME NEW job \in Check PROVE Retried(job) \in Check \cup {None}
  BY <1>14, NumbersAssumption DEF Retried, Check
<1>15. ASSUME NEW r \in Requests, ReadCall(r) PROVE TypeOK'
  <2>1. PICK a \in Calls :
            /\ check[a] # None
            /\ Goes(r, [pc |-> "mark", call |-> a, job |-> check[a]]) \/ UNCHANGED req
            /\ check' = [check EXCEPT ![a] = None]
    BY <1>15 DEF ReadCall
  <2>2. [pc |-> "mark", call |-> a, job |-> check[a]] \in Work
    BY <2>1 DEF TypeOK, Work, Marking
  <2>3. req' \in [Requests -> Work]
    BY <2>1, <2>2, GoesTyped DEF TypeOK, Work
  <2>4. check' \in [Calls -> Check \cup {None}]
    BY <2>1 DEF TypeOK
  <2> QED
    BY <1>15, <2>3, <2>4 DEF ReadCall, TypeOK, Work
<1>16. ASSUME NEW r \in Requests, MarkCall(r) PROVE TypeOK'
  <2> DEFINE a == req[r].call
  <2>1. a \in CallRows
    BY <1>16 DEF MarkCall
  <2>2. [call[a] EXCEPT !.status = "NO_SHOW"] \in Call /\ call[a].client \in Clients
    BY <2>1 DEF Call
  <2>3. [pc |-> "react", client |-> call[a].client] \in Work
    BY <2>2 DEF Work, Reacting
  <2>4. req' \in [Requests -> Work]
    BY <1>16, <2>3, GoesTyped DEF MarkCall
  <2> QED
    BY <1>16, <2>2, <2>4 DEF MarkCall, TypeOK, Work
<1>17. ASSUME NEW r \in Requests, MarkRefused(r) \/ MarkFails(r) PROVE TypeOK'
  <2> DEFINE a == req[r].call
  <2>1. req[r] \in Marking
    BY <1>17, WorkByPc DEF MarkRefused, MarkFails
  <2>2. /\ a \in Calls /\ Goes(r, Idle)
        /\ check' = [check EXCEPT ![a] = Retried(req[r].job)]
    BY <1>17, <2>1 DEF MarkRefused, MarkFails, Marking
  <2>3. Retried(req[r].job) \in Check \cup {None}
    BY <2>1, <1>14 DEF Marking
  <2>4. check' \in [Calls -> Check \cup {None}]
    BY <2>2, <2>3 DEF TypeOK
  <2>5. req' \in [Requests -> Work]
    BY <2>2, GoesTyped DEF Work
  <2>6. call' \in [Calls -> Call \cup {Absent, Deleted}]
    <3>1. \/ UNCHANGED call
          \/ a \in CallRows /\ call' = [call EXCEPT ![a].status = "NO_SHOW"]
      BY <1>17 DEF MarkRefused, MarkFails
    <3>2. a \in CallRows => [call[a] EXCEPT !.status = "NO_SHOW"] \in Call
      BY DEF Call
    <3> QED
      BY <3>1, <3>2 DEF TypeOK
  <2>7. failures' \in 0..MaxFailures
    BY <1>17, NumbersAssumption DEF MarkRefused, MarkFails, Fail, TypeOK
  <2>8. UNCHANGED <<card, history, now, raced, edits>>
    BY <1>17 DEF MarkRefused, MarkFails
  <2> QED
    BY <2>4, <2>5, <2>6, <2>7, <2>8 DEF TypeOK, Work
<1>18. ASSUME Tick PROVE TypeOK'
  BY <1>18, NumbersAssumption DEF Tick, TypeOK, Times
<1>19. ASSUME UNCHANGED vars PROVE TypeOK'
  BY <1>19 DEF vars, TypeOK
<1> QED
  BY <1>1, <1>2, <1>3, <1>4, <1>5, <1>6, <1>7, <1>8, <1>9, <1>10, <1>11, <1>12, <1>13,
     <1>15, <1>16, <1>17, <1>18, <1>19 DEF Next, People, Progress, Losses

THEOREM TypeCorrect == Spec => []TypeOK
<1>1. Init => TypeOK
  <2> SUFFICES ASSUME Init PROVE TypeOK
    OBVIOUS
  <2> QED
    BY NumbersAssumption DEF Init, TypeOK, Times
<1> QED
  BY <1>1, TypeStep, PTL DEF Spec
-----------------------------------------------------------------------------
(* The current stage is on record *)

\* A move under way knows where it goes, and will close events of its own
\* module only, none of which is later than what it has read.
MoveHolds(r) ==
    LET q == req[r]  c == req[r].client IN
    q.pc \in {"begin", "commit"} =>
        /\ card[c] # Absent
        /\ q.op = "advance" => q.to = "NEW"
        /\ q.op = "noshow" => q.to = "NO_SHOW"
        /\ c \in Cards => \A i \in q.snap : /\ i \in 1..Len(history[c])
                                          /\ history[c][i].module = ModuleOf(q.op)

\* CurrentStageOnRecord, for one client.
OnRecord(c) ==
    /\ card[c].stage # None => OpenAt(c, "PIPELINE", card[c].stage)
    /\ card[c].success # None => OpenAt(c, "SUCCESS", card[c].success)

RecordInv ==
    /\ TypeOK
    /\ \A r \in Requests : MoveHolds(r)
    /\ \A c \in Cards : OnRecord(c)

\* A step that leaves rows and histories alone keeps what is on record.
LEMMA RecordUnchanged ==
    ASSUME RecordInv, UNCHANGED <<card, history>>
    PROVE  /\ \A c \in Cards' : OnRecord(c)'
           /\ \A r \in Requests : req'[r] = req[r] => MoveHolds(r)'
  BY DEF RecordInv, Cards, OnRecord, OpenAt, OpenEvents, MoveHolds

\* The other requests, when r goes on with something that is no move.
LEMMA GoesHolds ==
    ASSUME RecordInv, UNCHANGED <<card, history>>, NEW r \in Requests, NEW q,
           Goes(r, q), q.pc \notin {"begin", "commit"}
    PROVE  (\A s \in Requests : MoveHolds(s)') /\ (\A c \in Cards' : OnRecord(c)')
<1>1. \A s \in Requests : req'[s] = IF s = r THEN q ELSE req[s]
  BY DEF Goes, RecordInv, TypeOK
<1> QED
  BY <1>1, RecordUnchanged DEF MoveHolds

\* A request that has read its row.
LEMMA ReadsHolds ==
    ASSUME RecordInv, NEW r \in Requests, NEW c \in Cards, NEW op, NEW from, NEW to, NEW at,
           Reads(r, op, c, from, to, at),
           op = "advance" => to = "NEW", op = "noshow" => to = "NO_SHOW"
    PROVE  (\A s \in Requests : MoveHolds(s)') /\ (\A d \in Cards' : OnRecord(d)')
<1> DEFINE q == [pc |-> "begin", op |-> op, client |-> c, from |-> from, to |-> to,
                 at |-> at, seen |-> Len(history[c]), snap |-> {}]
<1>1. UNCHANGED <<card, history>> /\ \A s \in Requests : req'[s] = IF s = r THEN q ELSE req[s]
  BY DEF Reads, Goes, RecordInv, TypeOK
<1>2. MoveHolds(r)'
  BY <1>1 DEF MoveHolds, Cards
<1> QED
  BY <1>1, <1>2, RecordUnchanged

\* The commit of a move.
LEMMA CommitHolds ==
    ASSUME RecordInv, NEW r \in Requests, CommitMove(r), NEW c, c = req[r].client
    PROVE  (\A s \in Requests : MoveHolds(s)') /\ (\A d \in Cards' : OnRecord(d)')
<1> DEFINE q == req[r]
           h == history[c]
           g == After(h, q)
           n == Len(h)
<1>1. q \in Move /\ c \in Cards /\ c \in Clients /\ h \in Seq(StageEvent) /\ card[c] \in Card
  BY WorkByPc, RowsTyped DEF CommitMove, RecordInv
<1>2. history' = [history EXCEPT ![c] = g] /\ card' = [card EXCEPT ![c] = Moved(card[c], q)]
  BY DEF CommitMove, After
<1>3. /\ history'[c] = g /\ card'[c] = Moved(card[c], q)
      /\ \A d \in Clients \ {c} : history'[d] = history[d] /\ card'[d] = card[d]
  BY <1>1, <1>2 DEF RecordInv, TypeOK
<1>4. n \in Nat /\ Len(g) \in {n + 1, n + 2} /\ g \in Seq(StageEvent)
  BY <1>1, HistoryAfterMove
<1>5. \A i \in 1..n : /\ g[i].module = h[i].module
                    /\ g[i].to = h[i].to
                    /\ g[i].open = (h[i].open /\ i \notin q.snap)
  BY <1>1, HistoryAfterMove
<1>6. /\ g[n + 1].open /\ g[n + 1].module = ModuleOf(q.op) /\ g[n + 1].to = q.to
      /\ q.op = "change" /\ q.to = "CLOSED_WON" =>
            /\ Len(g) = n + 2 /\ g[n + 2].open
            /\ g[n + 2].module = "SUCCESS" /\ g[n + 2].to = "NEW_CLIENT"
  <2>1. g[n + 1] = [module |-> ModuleOf(q.op), from |-> q.from, to |-> q.to, open |-> TRUE]
    BY <1>1, HistoryAfterMove
  <2>2. q.op = "change" /\ q.to = "CLOSED_WON" =>
            /\ Len(g) = n + 2
            /\ g[n + 2] = [module |-> "SUCCESS", from |-> None, to |-> "NEW_CLIENT", open |-> TRUE]
    BY <1>1, HistoryAfterMove
  <2> HIDE DEF g
  <2> QED
    BY <2>1, <2>2
<1>7. ASSUME NEW m, NEW s
      PROVE  OpenAt(c, m, s) <=> \E i \in 1..n : h[i].module = m /\ h[i].open /\ h[i].to = s
  BY <1>1 DEF OpenAt, OpenEvents
<1>8. DOMAIN g = 1..Len(g)
  BY <1>4
<1> HIDE DEF g
<1>9. ASSUME NEW m, NEW s, NEW i \in 1..Len(g), g[i].module = m, g[i].open, g[i].to = s
      PROVE  \E j \in OpenEvents(c, m)' : history'[c][j].to = s
  BY <1>3, <1>8, <1>9 DEF OpenEvents
<1>10. MoveHolds(r) /\ q.pc = "commit"
  BY DEF RecordInv, CommitMove
<1>11. \A i \in q.snap : i \in 1..n /\ h[i].module = ModuleOf(q.op)
  BY <1>1, <1>10 DEF MoveHolds
<1>12. Cards' = Cards
  <2>1. card'[c] \in Card
    BY <1>1, <1>3, MovedTyped
  <2> QED
    BY <1>1, <1>3, <2>1, SentinelAssumption DEF Cards
<1>13. n + 1 \in 1..Len(g) /\ (Len(g) = n + 2 => n + 2 \in 1..Len(g)) /\ \A i \in 1..n : i \in 1..Len(g)
  BY <1>4
<1>14. OnRecord(c)'
  <2>1. OnRecord(c)
    BY <1>1 DEF RecordInv
  <2>2. ASSUME NEW m, NEW s, m # ModuleOf(q.op), OpenAt(c, m, s)
        PROVE  \E j \in OpenEvents(c, m)' : history'[c][j].to = s
    <3>1. PICK i \in 1..n : h[i].module = m /\ h[i].open /\ h[i].to = s
      BY <1>7, <2>2
    <3>2. i \notin q.snap
      BY <1>11, <2>2, <3>1
    <3>3. i \in 1..Len(g) /\ g[i].module = m /\ g[i].open /\ g[i].to = s
      BY <1>5, <1>13, <3>1, <3>2
    <3> QED
      BY <1>9, <3>3
  <2>3. ASSUME NEW m, m = ModuleOf(q.op)
        PROVE  \E j \in OpenEvents(c, m)' : history'[c][j].to = q.to
    BY <1>6, <1>9, <1>13, <2>3
  <2>4. q.op = "change" /\ q.to = "CLOSED_WON" =>
            \E j \in OpenEvents(c, "SUCCESS")' : history'[c][j].to = "NEW_CLIENT"
    BY <1>6, <1>9, <1>13
  <2>5. CASE q.op = "success"
    <3>1. card'[c].stage = card[c].stage /\ card'[c].success = q.to
      BY <1>1, <1>3, <2>5 DEF Moved, Card
    <3>2. ModuleOf(q.op) = "SUCCESS"
      BY <2>5 DEF ModuleOf
    <3>3. card[c].stage # None =>
              \E j \in OpenEvents(c, "PIPELINE")' : history'[c][j].to = card[c].stage
      BY <2>1, <2>2, <3>2 DEF OnRecord
    <3>4. \E j \in OpenEvents(c, "SUCCESS")' : history'[c][j].to = q.to
      BY <2>3, <3>2
    <3> QED
      BY <3>1, <3>3, <3>4 DEF OnRecord, OpenAt
  <2>6. CASE q.op \in {"advance", "change", "noshow"}
    <3>1. /\ card'[c].stage = q.to
          /\ card'[c].success = IF q.op = "change" /\ q.to = "CLOSED_WON" THEN "NEW_CLIENT"
                                ELSE card[c].success
      BY <1>1, <1>3, <1>10, <2>6 DEF Moved, Card, MoveHolds
    <3>2. ModuleOf(q.op) = "PIPELINE"
      BY <2>6 DEF ModuleOf
    <3>3. card[c].success # None =>
              \E j \in OpenEvents(c, "SUCCESS")' : history'[c][j].to = card[c].success
      BY <2>1, <2>2, <3>2 DEF OnRecord
    <3>4. card'[c].success # None =>
              \E j \in OpenEvents(c, "SUCCESS")' : history'[c][j].to = card'[c].success
      BY <2>4, <3>1, <3>3
    <3>5. \E j \in OpenEvents(c, "PIPELINE")' : history'[c][j].to = q.to
      BY <2>3, <3>2
    <3> QED
      BY <3>1, <3>4, <3>5 DEF OnRecord, OpenAt
  <2> QED
    BY <1>1, <2>5, <2>6 DEF Move, PipelineMove, SuccessMove
<1>15. \A s \in Requests : MoveHolds(s)'
  <2> SUFFICES ASSUME NEW s \in Requests PROVE MoveHolds(s)'
    OBVIOUS
  <2>1. CASE s = r
    <3>1. req'[r].pc \notin {"begin", "commit"}
      BY DEF CommitMove, Goes, RecordInv, TypeOK, Idle
    <3> QED
      BY <2>1, <3>1 DEF MoveHolds
  <2>2. CASE s # r
    <3>1. req'[s] = req[s] /\ MoveHolds(s)
      BY <2>2 DEF CommitMove, Goes, RecordInv, TypeOK
    <3>2. CASE req[s].pc \in {"begin", "commit"} /\ req[s].client = c
      <4>1. /\ card'[c] # Absent
            /\ \A i \in req[s].snap : i \in 1..n /\ h[i].module = ModuleOf(req[s].op)
        BY <1>1, <1>12, <3>1, <3>2 DEF MoveHolds, Cards
      <4>2. \A i \in req[s].snap : /\ i \in 1..Len(g)
                                  /\ g[i].module = ModuleOf(req[s].op)
        BY <1>5, <1>13, <4>1
      <4> QED
        BY <1>3, <3>1, <3>2, <4>1, <4>2 DEF MoveHolds
    <3>3. CASE req[s].pc \in {"begin", "commit"} /\ req[s].client # c
      <4>1. req[s].client \in Clients
        BY <3>3, WorkByPc, RowsTyped DEF RecordInv, Move, PipelineMove, SuccessMove
      <4> QED
        BY <1>3, <1>12, <3>1, <3>3, <4>1 DEF MoveHolds
    <3> QED
      BY <3>1, <3>2, <3>3 DEF MoveHolds
  <2> QED
    BY <2>1, <2>2
<1>16. ASSUME NEW d \in Cards', d # c PROVE OnRecord(d)'
  BY <1>3, <1>12, <1>16 DEF RecordInv, OnRecord, OpenAt, OpenEvents, Cards
<1> QED
  BY <1>14, <1>15, <1>16

\* Every action keeps the invariant.
LEMMA RecordStep == RecordInv /\ [Next]_vars => RecordInv'
<1> SUFFICES ASSUME RecordInv, [Next]_vars
             PROVE  (\A s \in Requests : MoveHolds(s)') /\ (\A d \in Cards' : OnRecord(d)')
  BY TypeStep DEF RecordInv
<1> DEFINE Kept == (\A s \in Requests : MoveHolds(s)') /\ (\A d \in Cards' : OnRecord(d)')
<1>1. ASSUME NEW c \in Clients, NewLead(c) PROVE Kept
  <2>1. /\ card[c] = Absent /\ history' = history /\ req' = req
        /\ card' = [card EXCEPT ![c] = [funnel |-> "LEAD", stage |-> None, success |-> None]]
    BY <1>1 DEF NewLead
  <2>2. /\ card'[c] = [funnel |-> "LEAD", stage |-> None, success |-> None]
        /\ \A d \in Clients \ {c} : card'[d] = card[d]
    BY <2>1 DEF RecordInv, TypeOK
  <2>3. ASSUME NEW s \in Requests PROVE MoveHolds(s)'
    <3>1. CASE req[s].pc \in {"begin", "commit"}
      <4>1. req[s].client \in Clients
        BY <3>1, WorkByPc, RowsTyped DEF RecordInv, Move, PipelineMove, SuccessMove
      <4>2. MoveHolds(s) /\ req[s].client # c
        BY <2>1, <3>1 DEF RecordInv, MoveHolds
      <4> QED
        BY <2>1, <2>2, <3>1, <4>1, <4>2 DEF MoveHolds, Cards
    <3> QED
      BY <2>1, <3>1 DEF MoveHolds
  <2>4. ASSUME NEW d \in Cards' PROVE OnRecord(d)'
    <3>1. CASE d = c
      BY <2>2, <3>1 DEF OnRecord
    <3>2. CASE d # c
      BY <2>1, <2>2, <2>4, <3>2 DEF RecordInv, Cards, OnRecord, OpenAt, OpenEvents
    <3> QED
      BY <3>1, <3>2
  <2> QED
    BY <2>3, <2>4
<1>2. ASSUME NEW c \in Clients, RemoveClient(c) PROVE Kept
  <2>1. /\ req' = req
        /\ card' = [card EXCEPT ![c] = Deleted] /\ history' = [history EXCEPT ![c] = <<>>]
    BY <1>2 DEF RemoveClient
  <2>2. /\ card'[c] = Deleted /\ Deleted # Absent
        /\ \A d \in Clients \ {c} : card'[d] = card[d] /\ history'[d] = history[d]
    BY <2>1, SentinelAssumption DEF RecordInv, TypeOK
  <2>3. ASSUME NEW s \in Requests PROVE MoveHolds(s)'
    <3>1. CASE req[s].pc \in {"begin", "commit"}
      <4>1. req[s].client \in Clients
        BY <3>1, WorkByPc, RowsTyped DEF RecordInv, Move, PipelineMove, SuccessMove
      <4>2. MoveHolds(s)
        BY DEF RecordInv
      <4> QED
        BY <2>1, <2>2, <3>1, <4>1, <4>2 DEF MoveHolds, Cards
    <3> QED
      BY <2>1, <3>1 DEF MoveHolds
  <2>4. ASSUME NEW d \in Cards' PROVE OnRecord(d)'
    <3>1. d # c /\ d \in Cards
      BY <2>2, <2>4 DEF Cards
    <3> QED
      BY <2>2, <3>1 DEF RecordInv, Cards, OnRecord, OpenAt, OpenEvents
  <2> QED
    BY <2>3, <2>4
<1>3. ASSUME NEW r \in Requests, ReadAdvance(r) \/ ReadChange(r) \/ ReadSuccess(r) PROVE Kept
  <2>1. \E c \in Cards : \E op, from, to, at :
            /\ Reads(r, op, c, from, to, at)
            /\ op = "advance" => to = "NEW"
            /\ op = "noshow" => to = "NO_SHOW"
    <3>1. CASE ReadAdvance(r)
      BY <3>1 DEF ReadAdvance
    <3>2. CASE ReadChange(r)
      BY <3>2 DEF ReadChange
    <3>3. CASE ReadSuccess(r)
      BY <3>3 DEF ReadSuccess
    <3> QED
      BY <1>3, <3>1, <3>2, <3>3
  <2> QED
    BY <2>1, ReadsHolds
<1>4. ASSUME NEW r \in Requests, BeginMove(r) PROVE Kept
  <2> DEFINE q == [req[r] EXCEPT !.pc = "commit",
                                 !.snap = OpenEvents(req[r].client, ModuleOf(req[r].op))]
  <2>1. req[r] \in Move
    BY <1>4, WorkByPc, RowsTyped DEF BeginMove, RecordInv
  <2>2. UNCHANGED <<card, history>> /\ \A s \in Requests : req'[s] = IF s = r THEN q ELSE req[s]
    BY <1>4 DEF BeginMove, Goes, RecordInv, TypeOK
  <2>3. /\ q.pc = "commit" /\ q.client = req[r].client /\ q.op = req[r].op /\ q.to = req[r].to
        /\ q.snap = OpenEvents(req[r].client, ModuleOf(req[r].op))
    BY <2>1 DEF Move, PipelineMove, SuccessMove
  <2>4. req[r].client \in Clients /\ DOMAIN history[req[r].client] = 1..Len(history[req[r].client])
    BY <2>1, RowsTyped DEF RecordInv, Move, PipelineMove, SuccessMove
  <2>5. MoveHolds(r) /\ req[r].pc = "begin"
    BY <1>4 DEF RecordInv, BeginMove
  <2> HIDE DEF q
  <2>6. MoveHolds(r)'
    BY <2>2, <2>3, <2>4, <2>5 DEF MoveHolds, OpenEvents
  <2> QED
    BY <2>2, <2>6, RecordUnchanged
<1>5. ASSUME NEW r \in Requests, CommitMove(r) PROVE Kept
  BY <1>5, CommitHolds
<1>6. ASSUME NEW r \in Requests, ReadNoShow(r) PROVE Kept
  <2>1. CASE Goes(r, Idle) /\ UNCHANGED <<card, history>>
    BY <2>1, GoesHolds DEF Idle
  <2>2. CASE /\ req[r].client \in Cards
             /\ Reads(r, "noshow", req[r].client, card[req[r].client].stage, "NO_SHOW", 0)
    BY <2>2, ReadsHolds
  <2> QED
    BY <1>6, <2>1, <2>2 DEF ReadNoShow
<1>7. ASSUME NEW r \in Requests,
             \/ MoveRefused(r) \/ BookingRefused(r) \/ PlanCheck(r) \/ GiveUp(r)
             \/ MarkRefused(r) \/ MarkFails(r)
      PROVE  Kept
  <2>1. Goes(r, Idle) /\ UNCHANGED <<card, history>>
    BY <1>7 DEF MoveRefused, BookingRefused, PlanCheck, GiveUp, MarkRefused, MarkFails
  <2> QED
    BY <2>1, GoesHolds DEF Idle
<1>8. ASSUME NEW r \in Requests, BookCall(r) \/ MarkCall(r) \/ MissCall(r) PROVE Kept
  <2>1. \E q : Goes(r, q) /\ q.pc \notin {"begin", "commit"} /\ UNCHANGED <<card, history>>
    <3>1. CASE BookCall(r)
      BY <3>1 DEF BookCall
    <3>2. CASE MarkCall(r)
      BY <3>2 DEF MarkCall
    <3>3. CASE MissCall(r)
      BY <3>3 DEF MissCall
    <3> QED
      BY <1>8, <3>1, <3>2, <3>3
  <2> QED
    BY <2>1, GoesHolds
<1>9. ASSUME NEW r \in Requests, ReadCall(r) PROVE Kept
  <2>1. CASE UNCHANGED <<card, history, req>>
    BY <2>1, RecordUnchanged
  <2>2. CASE \E q : Goes(r, q) /\ q.pc \notin {"begin", "commit"} /\ UNCHANGED <<card, history>>
    BY <2>2, GoesHolds
  <2> QED
    BY <1>9, <2>1, <2>2 DEF ReadCall
<1>10. ASSUME RescheduleCall \/ ConfirmCall \/ CloseCall \/ Tick \/ UNCHANGED vars PROVE Kept
  <2>1. UNCHANGED <<card, history, req>>
    BY <1>10 DEF RescheduleCall, ConfirmCall, CloseCall, Tick, vars
  <2> QED
    BY <2>1, RecordUnchanged
<1> QED
  BY <1>1, <1>2, <1>3, <1>4, <1>5, <1>6, <1>7, <1>8, <1>9, <1>10
     DEF Next, People, Progress, Losses

\* The stage a card is in is always an open event of its history: moves that
\* overlap may leave other events open, or the modules out of step, but never
\* lose where the client is.
THEOREM CurrentStageAlwaysOnRecord == Spec => []CurrentStageOnRecord
<1>1. Init => RecordInv
  <2> SUFFICES ASSUME Init PROVE RecordInv
    OBVIOUS
  <2>1. TypeOK
    BY NumbersAssumption DEF Init, TypeOK, Times
  <2>2. Cards = {}
    BY DEF Init, Cards
  <2>3. \A r \in Requests : MoveHolds(r)
    BY DEF Init, MoveHolds, Idle
  <2> QED
    BY <2>1, <2>2, <2>3 DEF RecordInv
<1>2. RecordInv => CurrentStageOnRecord
  BY DEF RecordInv, OnRecord, CurrentStageOnRecord
<1> QED
  BY <1>1, <1>2, RecordStep, PTL DEF Spec
-----------------------------------------------------------------------------
(* Only races break the funnel *)

\* A client who is in stage s of module m has it as the last event of the
\* module, and the only open one; who is in none has no event of it.
Last(h, m, s) ==
    /\ s = None => \A i \in DOMAIN h : h[i].module # m
    /\ s # None => \E i \in DOMAIN h :
           /\ h[i].module = m /\ h[i].open /\ h[i].to = s
           /\ \A j \in DOMAIN h : h[j].module = m => j <= i /\ (h[j].open => j = i)

\* OnlyRacesBreakTheFunnel for one client: x is her row, h her history.
Agrees(x) ==
    /\ x.funnel = "LEAD" <=> x.stage = None
    /\ x.stage # None => x.funnel = FunnelOf(x.stage)
    /\ x.success # None <=> x.funnel = "CLIENT"

Chain(h) ==
    \A i, j \in DOMAIN h :
        (/\ i < j /\ h[i].module = h[j].module
         /\ \A k \in (i + 1)..(j - 1) : h[k].module # h[i].module)
            => h[j].from = h[i].to

Whole(x, h) ==
    Last(h, "PIPELINE", x.stage) /\ Last(h, "SUCCESS", x.success) /\ Agrees(x) /\ Chain(h)

\* What a move whose row is not stale still knows of it.
Fresh(q, x, h) ==
    /\ q.op = "advance" => x.funnel = "LEAD" /\ q.from = None /\ q.to = "NEW"
    /\ q.op = "change" => x.funnel = "PIPELINE" /\ q.from = x.stage
    /\ q.op = "noshow" => x.funnel = "PIPELINE" /\ q.from = x.stage /\ q.to = "NO_SHOW"
    /\ q.op = "success" => x.funnel = "CLIENT" /\ q.from = x.success
    /\ q.pc = "commit" =>
           q.snap = {i \in DOMAIN h : h[i].module = ModuleOf(q.op) /\ h[i].open}

\* While nothing has happened to the client since, the row is not stale.
MoveIsFresh(r) ==
    LET q == req[r]  c == req[r].client IN
    (q.pc \in {"begin", "commit"} /\ card[c] # Deleted) =>
        /\ card[c] # Absent
        /\ q.seen <= Len(history[c])
        /\ q.seen = Len(history[c]) => Fresh(q, card[c], history[c])

FunnelInv ==
    /\ TypeOK
    /\ \A c \in Clients : card[c] = Absent => history[c] = <<>>
    /\ \A r \in Requests : MoveIsFresh(r)
    /\ \A c \in Cards \ raced : Whole(card[c], history[c])

\* A move whose row is not stale leaves a whole history whole.
LEMMA WholeAfter ==
    ASSUME NEW x \in Card, NEW h \in Seq(StageEvent), NEW q \in Move,
           q.pc = "commit", Whole(x, h), Fresh(q, x, h)
    PROVE  Whole(Moved(x, q), After(h, q))
<1> DEFINE g == After(h, q)
           n == Len(h)
           y == Moved(x, q)
           m == ModuleOf(q.op)
           won == q.op = "change" /\ q.to = "CLOSED_WON"
           current == IF m = "PIPELINE" THEN x.stage ELSE x.success
<1>1. /\ n \in Nat /\ g \in Seq(StageEvent)
      /\ won => Len(g) = n + 2
      /\ ~won => Len(g) = n + 1
  BY HistoryAfterMove
<1>2. \A i \in 1..n : /\ g[i].module = h[i].module
                    /\ g[i].from = h[i].from
                    /\ g[i].to = h[i].to
                    /\ g[i].open = (h[i].open /\ i \notin q.snap)
  BY HistoryAfterMove
<1>3. /\ g[n + 1].module = m /\ g[n + 1].from = q.from /\ g[n + 1].to = q.to /\ g[n + 1].open
      /\ won => /\ g[n + 2].module = "SUCCESS" /\ g[n + 2].from = None
                /\ g[n + 2].to = "NEW_CLIENT" /\ g[n + 2].open
  <2>1. g[n + 1] = [module |-> m, from |-> q.from, to |-> q.to, open |-> TRUE]
    BY HistoryAfterMove
  <2>2. won => g[n + 2] = [module |-> "SUCCESS", from |-> None, to |-> "NEW_CLIENT", open |-> TRUE]
    BY HistoryAfterMove
  <2> HIDE DEF g, m
  <2> QED
    BY <2>1, <2>2
<1>4. DOMAIN h = 1..n /\ DOMAIN g = 1..Len(g)
  BY <1>1
<1>5. /\ q.op \in {"advance", "change", "noshow"} => m = "PIPELINE" /\ q.to \in Stages
      /\ q.op = "success" => m = "SUCCESS" /\ q.to \in SuccessStages
      /\ q.op \in {"advance", "change", "noshow", "success"}
  BY DEF Move, PipelineMove, SuccessMove, ModuleOf
<1>6. q.to # None /\ "NEW_CLIENT" # None /\ "NEW" # None
  BY <1>5, SentinelAssumption DEF Stages, SuccessStages
<1>7. q.from = current
  BY <1>5 DEF Fresh, Whole, Agrees
<1>8. Last(h, m, current)
  BY <1>5 DEF Whole
<1>9. q.snap = {i \in 1..n : h[i].module = m /\ h[i].open}
  BY <1>4 DEF Fresh
<1>10. /\ n + 1 \in 1..Len(g)
       /\ won => n + 2 \in 1..Len(g)
       /\ \A i \in 1..Len(g) : i \in 1..n \/ i = n + 1 \/ (won /\ i = n + 2)
       /\ \A i \in 1..n : i \in 1..Len(g) /\ i <= n + 1 /\ i <= n + 2
  BY <1>1
<1>11. won => m = "PIPELINE" /\ x.success = None
  BY <1>5 DEF Fresh, Whole, Agrees
<1> HIDE DEF g, m
<1>12. Last(g, m, q.to)
  <2>1. g[n + 1].module = m /\ g[n + 1].open /\ g[n + 1].to = q.to
    BY <1>3
  <2>2. ASSUME NEW j \in 1..Len(g), g[j].module = m
        PROVE  j <= n + 1 /\ (g[j].open => j = n + 1)
    <3>1. CASE j \in 1..n
      <4>1. ~g[j].open
        BY <1>2, <1>9, <2>2, <3>1
      <4> QED
        BY <1>10, <3>1, <4>1
    <3>2. CASE j = n + 1
      BY <1>1, <3>2
    <3>3. CASE won /\ j = n + 2
      BY <1>3, <1>11, <2>2, <3>3
    <3> QED
      BY <1>10, <3>1, <3>2, <3>3
  <2>3. q.to # None /\ n + 1 \in DOMAIN g
    BY <1>4, <1>6, <1>10
  <2>4. \A j \in DOMAIN g : g[j].module = m => j <= n + 1 /\ (g[j].open => j = n + 1)
    BY <1>4, <2>2
  <2> QED
    BY <2>1, <2>3, <2>4, Zenon DEF Last
<1>13. ASSUME NEW k \in Modules, NEW s, k # m, ~(won /\ k = "SUCCESS"), Last(h, k, s)
       PROVE  Last(g, k, s)
  <2>1. ASSUME NEW j \in 1..Len(g), g[j].module = k PROVE j \in 1..n /\ h[j].module = k
    <3>1. j # n + 1
      BY <1>3, <1>13, <2>1
    <3>2. ~(won /\ j = n + 2)
      BY <1>3, <1>13, <2>1
    <3> QED
      BY <1>2, <1>10, <2>1, <3>1, <3>2
  <2>2. CASE s = None
    BY <1>4, <1>13, <2>1, <2>2 DEF Last
  <2>3. CASE s # None
    <3>1. PICK i \in 1..n : /\ h[i].module = k /\ h[i].open /\ h[i].to = s
                            /\ \A j \in 1..n : h[j].module = k => j <= i /\ (h[j].open => j = i)
      BY <1>4, <1>13, <2>3 DEF Last
    <3>2. i \in 1..Len(g) /\ g[i].module = k /\ g[i].open /\ g[i].to = s
      BY <1>2, <1>9, <1>10, <1>13, <3>1
    <3>3. \A j \in 1..Len(g) : g[j].module = k => j <= i /\ (g[j].open => j = i)
      BY <1>2, <2>1, <3>1
    <3> QED
      BY <1>4, <2>3, <3>2, <3>3 DEF Last
  <2> QED
    BY <2>2, <2>3
<1>14. ASSUME won PROVE Last(g, "SUCCESS", "NEW_CLIENT")
  <2>1. \A i \in 1..n : g[i].module # "SUCCESS"
    BY <1>2, <1>4, <1>11, <1>14 DEF Whole, Last
  <2>2. \A j \in 1..Len(g) : g[j].module = "SUCCESS" => j = n + 2
    BY <1>3, <1>10, <1>11, <1>14, <2>1
  <2>3. n + 2 \in 1..Len(g) /\ n + 2 <= n + 2
    BY <1>1, <1>10, <1>14
  <2> QED
    BY <1>3, <1>4, <1>6, <1>14, <2>2, <2>3 DEF Last
<1>15. /\ q.op = "success" => y.stage = x.stage /\ y.success = q.to /\ y.funnel = x.funnel
       /\ q.op = "advance" => y.stage = "NEW" /\ y.success = x.success /\ y.funnel = "PIPELINE"
       /\ q.op = "noshow" => y.stage = "NO_SHOW" /\ y.success = x.success /\ y.funnel = x.funnel
       /\ q.op = "change" => /\ y.stage = q.to /\ y.funnel = FunnelOf(q.to)
                             /\ y.success = IF won THEN "NEW_CLIENT" ELSE x.success
  BY DEF Moved, Card
<1>16. Agrees(y)
  BY <1>5, <1>6, <1>15 DEF Agrees, Whole, Fresh, FunnelOf
<1>17. Last(g, "PIPELINE", y.stage) /\ Last(g, "SUCCESS", y.success)
  <2>1. Last(h, "PIPELINE", x.stage) /\ Last(h, "SUCCESS", x.success)
    BY DEF Whole
  <2>2. CASE q.op = "success"
    BY <1>5, <1>12, <1>13, <1>15, <2>1, <2>2 DEF Modules
  <2>3. CASE won
    BY <1>5, <1>12, <1>14, <1>15, <2>3
  <2>4. CASE q.op \in {"advance", "change", "noshow"} /\ ~won
    <3>1. y.stage = q.to /\ y.success = x.success
      BY <1>15, <2>4 DEF Fresh
    <3> QED
      BY <1>5, <1>12, <1>13, <2>1, <2>4, <3>1 DEF Modules
  <2> QED
    BY <1>5, <2>2, <2>3, <2>4
<1>18. Chain(g)
  <2> SUFFICES ASSUME NEW i \in 1..Len(g), NEW j \in 1..Len(g), i < j, g[i].module = g[j].module,
                      \A k \in (i + 1)..(j - 1) : g[k].module # g[i].module
               PROVE  g[j].from = g[i].to
    BY <1>4 DEF Chain
  <2>1. CASE j \in 1..n
    <3>1. i \in 1..n /\ \A k \in (i + 1)..(j - 1) : k \in 1..n
      BY <1>1, <1>10, <2>1
    <3>2. \A k \in (i + 1)..(j - 1) : h[k].module # h[i].module
      BY <1>2, <3>1
    <3> QED
      BY <1>2, <1>4, <2>1, <3>1, <3>2 DEF Whole, Chain
  <2>2. CASE j = n + 1
    <3>1. i \in 1..n /\ h[i].module = m
      BY <1>1, <1>2, <1>3, <2>2
    <3>2. PICK l \in 1..n : /\ h[l].module = m /\ h[l].to = current
                            /\ \A k \in 1..n : h[k].module = m => k <= l
      BY <1>4, <1>8, <3>1 DEF Last
    <3>3. l = i
      <4>1. SUFFICES ASSUME i < l PROVE FALSE
        BY <3>1, <3>2
      <4>2. l \in (i + 1)..(j - 1)
        BY <1>1, <2>2, <4>1
      <4> QED
        BY <1>2, <3>1, <3>2, <4>2
    <3> QED
      BY <1>2, <1>3, <1>7, <2>2, <3>2, <3>3
  <2>3. CASE won /\ j = n + 2
    <3>1. \A k \in 1..n : g[k].module # "SUCCESS"
      BY <1>2, <1>4, <1>11, <2>3 DEF Whole, Last
    <3> QED
      BY <1>1, <1>3, <1>10, <1>11, <2>3, <3>1
  <2> QED
    BY <1>10, <2>1, <2>2, <2>3
<1> QED
  BY <1>16, <1>17, <1>18 DEF Whole, g

\* A step that leaves rows and histories alone keeps what is whole, and what
\* the requests know that it leaves alone.
LEMMA FunnelUnchanged ==
    ASSUME FunnelInv, UNCHANGED <<card, history, raced>>
    PROVE  /\ \A c \in Cards' \ raced' : Whole(card'[c], history'[c])
           /\ \A r \in Requests : req'[r] = req[r] => MoveIsFresh(r)'
  BY DEF FunnelInv, Cards, MoveIsFresh

\* The other requests, when r goes on with something that is no move.
LEMMA GoesFresh ==
    ASSUME FunnelInv, UNCHANGED <<card, history, raced>>, NEW r \in Requests, NEW q,
           Goes(r, q), q.pc \notin {"begin", "commit"}
    PROVE  /\ \A s \in Requests : MoveIsFresh(s)'
           /\ \A c \in Cards' \ raced' : Whole(card'[c], history'[c])
<1>1. \A s \in Requests : req'[s] = IF s = r THEN q ELSE req[s]
  BY DEF Goes, FunnelInv, TypeOK
<1> QED
  BY <1>1, FunnelUnchanged DEF MoveIsFresh

\* A request that has just read its row.
LEMMA ReadsFresh ==
    ASSUME FunnelInv, NEW r \in Requests, NEW c \in Cards, NEW op, NEW from, NEW to, NEW at,
           Reads(r, op, c, from, to, at),
           op = "advance" => card[c].funnel = "LEAD" /\ from = None /\ to = "NEW",
           op = "change" => card[c].funnel = "PIPELINE" /\ from = card[c].stage,
           op = "noshow" => card[c].funnel = "PIPELINE" /\ from = card[c].stage /\ to = "NO_SHOW",
           op = "success" => card[c].funnel = "CLIENT" /\ from = card[c].success
    PROVE  /\ \A s \in Requests : MoveIsFresh(s)'
           /\ \A d \in Cards' \ raced' : Whole(card'[d], history'[d])
<1> DEFINE q == [pc |-> "begin", op |-> op, client |-> c, from |-> from, to |-> to,
                 at |-> at, seen |-> Len(history[c]), snap |-> {}]
<1>1. /\ UNCHANGED <<card, history, raced>>
      /\ \A s \in Requests : req'[s] = IF s = r THEN q ELSE req[s]
  BY DEF Reads, Goes, FunnelInv, TypeOK
<1>2. Len(history[c]) \in Nat /\ card[c] # Absent
  BY RowsTyped DEF FunnelInv, Cards
<1>3. Fresh(q, card[c], history[c])
  BY DEF Fresh
<1>4. q.pc = "begin" /\ q.client = c /\ q.seen = Len(history[c])
  OBVIOUS
<1> HIDE DEF q
<1>5. MoveIsFresh(r)'
  BY <1>1, <1>2, <1>3, <1>4 DEF MoveIsFresh
<1> QED
  BY <1>1, <1>5, FunnelUnchanged

\* The commit of a move: what was whole is whole again, unless the move was
\* stale, and every other move of this client is stale from now on.
LEMMA CommitFresh ==
    ASSUME FunnelInv, NEW r \in Requests, CommitMove(r), NEW c, c = req[r].client
    PROVE  /\ \A s \in Requests : MoveIsFresh(s)'
           /\ \A d \in Cards' \ raced' : Whole(card'[d], history'[d])
<1> DEFINE q == req[r]
           h == history[c]
           g == After(h, q)
           y == Moved(card[c], q)
<1>1. q \in Move /\ c \in Cards /\ c \in Clients /\ h \in Seq(StageEvent) /\ card[c] \in Card
  BY WorkByPc, RowsTyped DEF CommitMove, FunnelInv
<1>2. /\ q.pc = "commit"
      /\ history' = [history EXCEPT ![c] = g] /\ card' = [card EXCEPT ![c] = y]
      /\ raced' = IF Len(h) = q.seen THEN raced ELSE raced \cup {c}
  BY DEF CommitMove, After
<1>3. /\ history'[c] = g /\ card'[c] = y
      /\ \A d \in Clients \ {c} : history'[d] = history[d] /\ card'[d] = card[d]
  BY <1>1, <1>2 DEF FunnelInv, TypeOK
<1>4. Len(h) \in Nat /\ Len(g) \in Nat /\ Len(g) > Len(h)
  <2>1. Len(h) \in Nat /\ Len(g) \in {Len(h) + 1, Len(h) + 2}
    BY <1>1, HistoryAfterMove
  <2> QED
    BY <2>1
<1>5. y \in Card /\ y # Absent /\ y # Deleted
  BY <1>1, MovedTyped, SentinelAssumption
<1>6. Cards' = Cards
  BY <1>1, <1>3, <1>5 DEF Cards
<1> HIDE DEF g, y
<1>7. ASSUME NEW s \in Requests PROVE MoveIsFresh(s)'
  <2>1. CASE s = r
    <3>1. req'[r].pc \notin {"begin", "commit"}
      BY DEF CommitMove, Goes, FunnelInv, TypeOK, Idle
    <3> QED
      BY <2>1, <3>1 DEF MoveIsFresh
  <2>2. CASE s # r /\ req[s].pc \in {"begin", "commit"} /\ req[s].client = c
    <3>1. req'[s] = req[s] /\ MoveIsFresh(s)
      BY <2>2 DEF CommitMove, Goes, FunnelInv, TypeOK
    <3>2. req[s].seen <= Len(h) /\ req[s].seen \in Nat
      BY <1>1, <2>2, <3>1, WorkByPc, RowsTyped
         DEF FunnelInv, MoveIsFresh, Cards, Move, PipelineMove, SuccessMove
    <3>3. req[s].seen <= Len(g) /\ req[s].seen # Len(g)
      BY <1>4, <3>2
    <3> QED
      BY <1>3, <1>5, <2>2, <3>1, <3>3 DEF MoveIsFresh
  <2>3. CASE s # r /\ req[s].pc \in {"begin", "commit"} /\ req[s].client # c
    <3>1. req'[s] = req[s] /\ MoveIsFresh(s)
      BY <2>3 DEF CommitMove, Goes, FunnelInv, TypeOK
    <3>2. req[s].client \in Clients
      BY <2>3, WorkByPc, RowsTyped DEF FunnelInv, Move, PipelineMove, SuccessMove
    <3> QED
      BY <1>3, <2>3, <3>1, <3>2 DEF MoveIsFresh
  <2>4. CASE s # r /\ req[s].pc \notin {"begin", "commit"}
    BY <2>4 DEF CommitMove, Goes, FunnelInv, TypeOK, MoveIsFresh
  <2> QED
    BY <2>1, <2>2, <2>3, <2>4
<1>8. ASSUME NEW d \in Cards' \ raced' PROVE Whole(card'[d], history'[d])
  <2>1. CASE d = c
    <3>1. c \notin raced /\ Len(h) = q.seen
      BY <1>2, <1>8, <2>1
    <3>2. Whole(card[c], h)
      BY <1>1, <3>1 DEF FunnelInv
    <3>3. Fresh(q, card[c], h)
      BY <1>1, <1>2, <3>1 DEF FunnelInv, MoveIsFresh, Cards
    <3> QED
      BY <1>1, <1>2, <1>3, <2>1, <3>2, <3>3, WholeAfter DEF g, y
  <2>2. CASE d # c
    BY <1>2, <1>3, <1>6, <1>8, <2>2 DEF FunnelInv, Cards
  <2> QED
    BY <2>1, <2>2
<1> QED
  BY <1>7, <1>8

\* Before there is a client nothing has happened to her.
LEMMA NothingBefore ==
    ASSUME FunnelInv, [Next]_vars
    PROVE  \A c \in Clients : card'[c] = Absent => history'[c] = <<>>
<1> SUFFICES ASSUME NEW d \in Clients, card'[d] = Absent PROVE history'[d] = <<>>
  OBVIOUS
<1>1. ASSUME NEW c \in Clients, NewLead(c) PROVE history'[d] = <<>>
  <2>1. [funnel |-> "LEAD", stage |-> None, success |-> None] \in Card
    BY DEF Card, FunnelStages
  <2>2. d # c
    BY <1>1, <2>1, SentinelAssumption DEF NewLead, FunnelInv, TypeOK
  <2> QED
    BY <1>1, <2>2 DEF NewLead, FunnelInv, TypeOK
<1>2. ASSUME NEW c \in Clients, RemoveClient(c) PROVE history'[d] = <<>>
  BY <1>2, SentinelAssumption DEF RemoveClient, FunnelInv, TypeOK
<1>3. ASSUME NEW r \in Requests, CommitMove(r) PROVE history'[d] = <<>>
  <2> DEFINE c == req[r].client
  <2>1. c \in Cards /\ req[r] \in Move /\ c \in Clients
    BY <1>3, WorkByPc, RowsTyped DEF CommitMove, FunnelInv
  <2>2. Moved(card[c], req[r]) # Absent
    BY <2>1, MovedTyped, RowsTyped, SentinelAssumption DEF FunnelInv
  <2>3. d # c
    BY <1>3, <2>1, <2>2 DEF CommitMove, FunnelInv, TypeOK
  <2> QED
    BY <1>3, <2>1, <2>3 DEF CommitMove, FunnelInv, TypeOK
<1>4. CASE UNCHANGED <<card, history>>
  BY <1>4 DEF FunnelInv
<1>5. \/ UNCHANGED <<card, history>>
      \/ \E c \in Clients : NewLead(c) \/ RemoveClient(c)
      \/ \E r \in Requests : CommitMove(r)
  BY DEF Next, People, Progress, Losses, vars, ReadAdvance, ReadChange, ReadSuccess, ReadNoShow,
     Reads, MissCall, RescheduleCall, ConfirmCall, CloseCall, BeginMove, MoveRefused, BookCall,
     BookingRefused, PlanCheck, ReadCall, MarkCall, MarkRefused, MarkFails, GiveUp, Tick
<1> QED
  BY <1>1, <1>2, <1>3, <1>4, <1>5

\* Every action keeps the invariant.
LEMMA FunnelStep == FunnelInv /\ [Next]_vars => FunnelInv'
<1> DEFINE Kept == /\ \A s \in Requests : MoveIsFresh(s)'
                   /\ \A d \in Cards' \ raced' : Whole(card'[d], history'[d])
<1> SUFFICES ASSUME FunnelInv, [Next]_vars PROVE Kept
  BY TypeStep, NothingBefore DEF FunnelInv
<1>1. ASSUME NEW c \in Clients, NewLead(c) PROVE Kept
  <2> DEFINE x == [funnel |-> "LEAD", stage |-> None, success |-> None]
  <2>1. /\ card[c] = Absent /\ UNCHANGED <<history, req, raced>>
        /\ card' = [card EXCEPT ![c] = x]
    BY <1>1 DEF NewLead
  <2>2. card'[c] = x /\ \A d \in Clients \ {c} : card'[d] = card[d]
    BY <2>1 DEF FunnelInv, TypeOK
  <2>3. ASSUME NEW s \in Requests PROVE MoveIsFresh(s)'
    <3>1. CASE req[s].pc \in {"begin", "commit"}
      <4>1. req[s].client \in Clients
        BY <3>1, WorkByPc, RowsTyped DEF FunnelInv, Move, PipelineMove, SuccessMove
      <4>2. MoveIsFresh(s) /\ req[s].client # c
        BY <2>1, <3>1, SentinelAssumption DEF FunnelInv, MoveIsFresh
      <4> QED
        BY <2>1, <2>2, <3>1, <4>1, <4>2 DEF MoveIsFresh
    <3> QED
      BY <2>1, <3>1 DEF MoveIsFresh
  <2>4. history[c] = <<>>
    BY <2>1 DEF FunnelInv
  <2>5. Whole(x, <<>>)
    BY DEF Whole, Last, Agrees, Chain
  <2>6. ASSUME NEW d \in Cards' \ raced' PROVE Whole(card'[d], history'[d])
    <3>1. CASE d = c
      BY <2>1, <2>2, <2>4, <2>5, <3>1
    <3>2. CASE d # c
      BY <2>1, <2>2, <2>6, <3>2 DEF FunnelInv, Cards
    <3> QED
      BY <3>1, <3>2
  <2> QED
    BY <2>3, <2>6
<1>2. ASSUME NEW c \in Clients, RemoveClient(c) PROVE Kept
  <2>1. /\ UNCHANGED <<req, raced>>
        /\ card' = [card EXCEPT ![c] = Deleted] /\ history' = [history EXCEPT ![c] = <<>>]
    BY <1>2 DEF RemoveClient
  <2>2. /\ card'[c] = Deleted
        /\ \A d \in Clients \ {c} : card'[d] = card[d] /\ history'[d] = history[d]
    BY <2>1 DEF FunnelInv, TypeOK
  <2>3. ASSUME NEW s \in Requests PROVE MoveIsFresh(s)'
    <3>1. CASE req[s].pc \in {"begin", "commit"}
      <4>1. req[s].client \in Clients
        BY <3>1, WorkByPc, RowsTyped DEF FunnelInv, Move, PipelineMove, SuccessMove
      <4>2. MoveIsFresh(s)
        BY DEF FunnelInv
      <4> QED
        BY <2>1, <2>2, <3>1, <4>1, <4>2 DEF MoveIsFresh
    <3> QED
      BY <2>1, <3>1 DEF MoveIsFresh
  <2>4. ASSUME NEW d \in Cards' \ raced' PROVE Whole(card'[d], history'[d])
    BY <2>1, <2>2, <2>4 DEF FunnelInv, Cards
  <2> QED
    BY <2>3, <2>4
<1>3. ASSUME NEW r \in Requests, ReadAdvance(r) PROVE Kept
  <2>1. PICK c \in Cards : card[c].funnel = "LEAD" /\ Reads(r, "advance", c, None, "NEW", 0)
    BY <1>3 DEF ReadAdvance
  <2> QED
    BY <2>1, ReadsFresh
<1>4. ASSUME NEW r \in Requests, ReadChange(r) PROVE Kept
  <2>1. PICK c \in Cards, to \in Stages, at \in 0..(MaxTime - 1) :
            card[c].funnel = "PIPELINE" /\ Reads(r, "change", c, card[c].stage, to, at)
    BY <1>4 DEF ReadChange
  <2> QED
    BY <2>1, ReadsFresh
<1>5. ASSUME NEW r \in Requests, ReadSuccess(r) PROVE Kept
  <2>1. PICK c \in Cards, to \in SuccessStages :
            card[c].funnel = "CLIENT" /\ Reads(r, "success", c, card[c].success, to, 0)
    BY <1>5 DEF ReadSuccess
  <2> QED
    BY <2>1, ReadsFresh
<1>6. ASSUME NEW r \in Requests, ReadNoShow(r) PROVE Kept
  <2> DEFINE c == req[r].client
  <2>1. CASE Goes(r, Idle) /\ UNCHANGED <<card, history, raced>>
    BY <2>1, GoesFresh DEF Idle
  <2>2. CASE /\ c \in Cards /\ card[c].funnel = "PIPELINE"
             /\ Reads(r, "noshow", c, card[c].stage, "NO_SHOW", 0)
    BY <2>2, ReadsFresh
  <2> QED
    BY <1>6, <2>1, <2>2 DEF ReadNoShow
<1>7. ASSUME NEW r \in Requests, BeginMove(r) PROVE Kept
  <2> DEFINE c == req[r].client
             S == OpenEvents(c, ModuleOf(req[r].op))
             q == [req[r] EXCEPT !.pc = "commit", !.snap = S]
  <2>1. req[r] \in Move
    BY <1>7, WorkByPc, RowsTyped DEF BeginMove, FunnelInv
  <2>2. /\ UNCHANGED <<card, history, raced>>
        /\ \A s \in Requests : req'[s] = IF s = r THEN q ELSE req[s]
    BY <1>7 DEF BeginMove, Goes, FunnelInv, TypeOK
  <2>3. /\ q.pc = "commit" /\ q.client = c /\ q.op = req[r].op /\ q.to = req[r].to
        /\ q.from = req[r].from /\ q.seen = req[r].seen /\ q.snap = S
    BY <2>1 DEF Move, PipelineMove, SuccessMove
  <2>4. MoveIsFresh(r) /\ req[r].pc = "begin"
    BY <1>7 DEF FunnelInv, BeginMove
  <2> HIDE DEF q
  <2>5. ASSUME card[c] # Deleted, q.seen = Len(history[c]) PROVE Fresh(q, card[c], history[c])
    BY <2>3, <2>4, <2>5 DEF MoveIsFresh, Fresh, OpenEvents
  <2>6. MoveIsFresh(r)'
    BY <2>2, <2>3, <2>4, <2>5 DEF MoveIsFresh
  <2> QED
    BY <2>2, <2>6, FunnelUnchanged
<1>8. ASSUME NEW r \in Requests, CommitMove(r) PROVE Kept
  BY <1>8, CommitFresh
<1>9. ASSUME NEW r \in Requests,
             \/ MoveRefused(r) \/ BookingRefused(r) \/ PlanCheck(r) \/ GiveUp(r)
             \/ MarkRefused(r) \/ MarkFails(r)
      PROVE  Kept
  <2>1. Goes(r, Idle) /\ UNCHANGED <<card, history, raced>>
    BY <1>9 DEF MoveRefused, BookingRefused, PlanCheck, GiveUp, MarkRefused, MarkFails
  <2> QED
    BY <2>1, GoesFresh DEF Idle
<1>10. ASSUME NEW r \in Requests, BookCall(r) \/ MarkCall(r) \/ MissCall(r) \/ ReadCall(r)
       PROVE Kept
  <2>1. /\ UNCHANGED <<card, history, raced>>
        /\ UNCHANGED req \/ \E q : Goes(r, q) /\ q.pc \notin {"begin", "commit"}
    <3>1. CASE BookCall(r)
      BY <3>1 DEF BookCall
    <3>2. CASE MarkCall(r)
      BY <3>2 DEF MarkCall
    <3>3. CASE MissCall(r)
      BY <3>3 DEF MissCall
    <3>4. CASE ReadCall(r)
      BY <3>4 DEF ReadCall
    <3> QED
      BY <1>10, <3>1, <3>2, <3>3, <3>4
  <2> QED
    BY <2>1, GoesFresh, FunnelUnchanged
<1>11. ASSUME RescheduleCall \/ ConfirmCall \/ CloseCall \/ Tick \/ UNCHANGED vars PROVE Kept
  <2>1. UNCHANGED <<card, history, raced, req>>
    BY <1>11 DEF RescheduleCall, ConfirmCall, CloseCall, Tick, vars
  <2> QED
    BY <2>1, FunnelUnchanged
<1> QED
  BY <1>1, <1>2, <1>3, <1>4, <1>5, <1>6, <1>7, <1>8, <1>9, <1>10, <1>11
     DEF Next, People, Progress, Losses

\* A whole history has one open event in each module its client has entered,
\* and each of its events begins where the one before ended.
LEMMA WholeIsUnbroken ==
    ASSUME TypeOK, NEW c \in Cards, Whole(card[c], history[c])
    PROVE  OneOpenEvent(c) /\ Migrated(c) /\ Chained(c)
<1> DEFINE h == history[c]
           x == card[c]
<1>1. x \in Card
  BY RowsTyped
<1>2. ASSUME NEW m, NEW s, Last(h, m, s)
      PROVE  (\A i, j \in OpenEvents(c, m) : i = j) /\ (s = None <=> OpenEvents(c, m) = {})
  BY <1>2 DEF Last, OpenEvents
<1>3. OneOpenEvent(c)
  BY <1>2 DEF Whole, OneOpenEvent, Modules
<1>4. Migrated(c)
  BY DEF Whole, Agrees, Migrated
<1>5. Chained(c)
  BY DEF Whole, Chain, Chained
<1> QED
  BY <1>3, <1>4, <1>5

\* As long as no move of a client was decided on a stale row, her rows and her
\* history are in step, whatever else goes on.
THEOREM OnlyRacesEverBreakTheFunnel == Spec => []OnlyRacesBreakTheFunnel
<1>1. Init => FunnelInv
  <2> SUFFICES ASSUME Init PROVE FunnelInv
    OBVIOUS
  <2>1. TypeOK
    BY NumbersAssumption DEF Init, TypeOK, Times
  <2>2. Cards = {} /\ \A c \in Clients : history[c] = <<>>
    BY DEF Init, Cards
  <2>3. \A r \in Requests : MoveIsFresh(r)
    BY DEF Init, MoveIsFresh, Idle
  <2> QED
    BY <2>1, <2>2, <2>3 DEF FunnelInv
<1>2. FunnelInv => OnlyRacesBreakTheFunnel
  BY WholeIsUnbroken DEF FunnelInv, OnlyRacesBreakTheFunnel
<1> QED
  BY <1>1, <1>2, FunnelStep, PTL DEF Spec
=============================================================================
