------------------------- MODULE CalendarSyncProofs -------------------------
(***************************************************************************)
(* Proofs about CalendarSync.tla, for every number of appointments,        *)
(* events, jobs and attempts: type correctness, and that an appointment    *)
(* and its event, and an external event and its block, are only out of     *)
(* step in the ways the module names.                                      *)
(***************************************************************************)
EXTENDS CalendarSync, TLAPS

-----------------------------------------------------------------------------
(* Records *)

LEMMA RowFacts ==
    /\ Absent # Deleted
    /\ \A r \in Row :
          /\ r # Absent /\ r # Deleted
          /\ r.time \in Times /\ r.status \in {"ACTIVE", "DONE", "CANCELLED"}
          /\ r.source \in {"CRM", "GOOGLE"} /\ r.event \in Events \cup {None}
    /\ \A t \in Times : [time |-> t, status |-> "ACTIVE", source |-> "CRM", event |-> None] \in Row
    /\ \A r \in Row, t \in Times :
          /\ [r EXCEPT !.time = t, !.status = "ACTIVE"] \in Row
          /\ [r EXCEPT !.time = t, !.status = "ACTIVE"].event = r.event
          /\ [r EXCEPT !.time = t, !.source = "GOOGLE"] \in Row
    /\ \A r \in Row, s \in {"ACTIVE", "DONE", "CANCELLED"} :
          /\ [r EXCEPT !.status = s] \in Row /\ [r EXCEPT !.status = s].event = r.event
          /\ [r EXCEPT !.status = s].status = s
          /\ [r EXCEPT !.status = s, !.source = "GOOGLE"] \in Row
    /\ \A r \in Row, e \in Events : [r EXCEPT !.event = e] \in Row /\ [r EXCEPT !.event = e].event = e
<1>1. Absent # Deleted /\ Absent \notin Row /\ Deleted \notin Row
  BY SentinelAssumption
<1> QED
  BY <1>1 DEF Row

LEMMA IdFacts ==
    /\ \A a \in Appts : a \notin AllEvents /\ a # None
    /\ \A e \in AllEvents : e \notin Appts /\ e # None
    /\ \A e \in Events : e \in AllEvents /\ e \notin Externals
    /\ \A e \in Externals : e \in AllEvents /\ e \notin Events
    /\ \A e \in AllEvents : e \in Events \/ e \in Externals
  BY IdsAssumption DEF AllEvents

LEMMA EventFacts ==
    /\ \A x \in Event : /\ x # Absent /\ x.appt \in Appts \cup {None} /\ x.time \in Times
                        /\ x.live \in BOOLEAN
    /\ \A a \in Appts \cup {None}, t \in Times, by \in {"CRM", "HAND"} :
          [appt |-> a, time |-> t, live |-> TRUE, by |-> by] \in Event
    /\ \A x \in Event, t \in Times, by \in {"CRM", "HAND"} :
          /\ [x EXCEPT !.time = t, !.by = by] \in Event
          /\ [x EXCEPT !.time = t, !.by = by].appt = x.appt
          /\ [x EXCEPT !.live = FALSE, !.by = by] \in Event
          /\ [x EXCEPT !.live = FALSE, !.by = by].appt = x.appt
<1>1. Absent \notin Event
  BY SentinelAssumption
<1> QED
  BY <1>1 DEF Event

LEMMA JobFacts ==
    /\ \A x \in Job : /\ x # None /\ x.kind \in {"upsert", "delete", "sync"}
                     /\ x.appt \in Appts \cup {None} /\ x.event \in Events \cup {None}
                     /\ x.left \in 1..MaxAttempts /\ x.state \in {"announced", "waiting", "active"}
    /\ \A x \in Job, s \in {"announced", "waiting", "active"} :
          LET y == [x EXCEPT !.state = s] IN
          y \in Job /\ y.state = s /\ y.kind = x.kind /\ y.appt = x.appt /\ y.event = x.event
    /\ \A x \in Job : Retried(x) \in Job \cup {None}
    /\ \A x \in Job : LET y == Retried(x) IN
          /\ x.left > 1 => y # None
          /\ y # None => y.state = "waiting" /\ y.kind = x.kind /\ y.appt = x.appt /\ y.event = x.event
<1>1. None \notin Job /\ MaxAttempts \in Nat /\ MaxAttempts # 0
  BY SentinelAssumption, BoundsAssumption
<1>2. \A x \in Job : /\ x # None /\ x.kind \in {"upsert", "delete", "sync"}
                     /\ x.appt \in Appts \cup {None} /\ x.event \in Events \cup {None}
                     /\ x.left \in 1..MaxAttempts /\ x.state \in {"announced", "waiting", "active"}
  BY <1>1 DEF Job
<1>3. ASSUME NEW x \in Job, NEW s \in {"announced", "waiting", "active"}
      PROVE  LET y == [x EXCEPT !.state = s] IN
             y \in Job /\ y.state = s /\ y.kind = x.kind /\ y.appt = x.appt /\ y.event = x.event
  BY DEF Job
<1>4. ASSUME NEW x \in Job, x.left > 1
      PROVE  LET y == [x EXCEPT !.state = "waiting", !.left = x.left - 1] IN
             y \in Job /\ y.state = "waiting" /\ y.kind = x.kind /\ y.appt = x.appt /\ y.event = x.event
  <2>1. x.left - 1 \in 1..MaxAttempts
    BY <1>1, <1>2, <1>4
  <2> QED
    BY <2>1 DEF Job
<1>5. \A x \in Job : /\ Retried(x) \in Job \cup {None}
                     /\ x.left > 1 => Retried(x) = [x EXCEPT !.state = "waiting", !.left = x.left - 1]
                     /\ ~(x.left > 1) => Retried(x) = None
  BY <1>4 DEF Retried
<1>6. ASSUME NEW x \in Job
      PROVE  /\ x.left > 1 => Retried(x) # None
             /\ Retried(x) # None =>
                   /\ Retried(x).state = "waiting" /\ Retried(x).kind = x.kind
                   /\ Retried(x).appt = x.appt /\ Retried(x).event = x.event
  <2>1. CASE x.left > 1
    <3> DEFINE y == [x EXCEPT !.state = "waiting", !.left = x.left - 1]
    <3>1. y \in Job /\ y.state = "waiting" /\ y.kind = x.kind /\ y.appt = x.appt /\ y.event = x.event
      BY <1>4, <2>1
    <3>2. Retried(x) = y
      BY <1>5, <2>1
    <3> HIDE DEF y
    <3> QED
      BY <1>1, <3>1, <3>2
  <2>2. CASE ~(x.left > 1)
    BY <1>5, <2>2
  <2> QED
    BY <2>1, <2>2
<1> QED
  BY <1>2, <1>3, <1>5, <1>6

LEMMA CallFacts ==
    /\ "worker" \in Callers /\ "export" \in Callers
    /\ \A u \in Upsert : /\ u # Idle /\ u.pc \in {"call", "save"} /\ u.appt \in Appts
                         /\ u.time \in Times /\ u.event \in Events \cup {None} /\ u.new \in BOOLEAN
    /\ \A u \in Upsert, e \in Events :
          LET v == [u EXCEPT !.pc = "save", !.event = e] IN
          v \in Upsert /\ v.pc = "save" /\ v.appt = u.appt /\ v.new = u.new /\ v.event = e
<1>1. \A u \in Upsert : /\ u # Idle /\ u.pc \in {"call", "save"} /\ u.appt \in Appts
                        /\ u.time \in Times /\ u.event \in Events \cup {None} /\ u.new \in BOOLEAN
  BY DEF Upsert, Idle
<1>2. ASSUME NEW u \in Upsert, NEW e \in Events
      PROVE  LET v == [u EXCEPT !.pc = "save", !.event = e] IN
             v \in Upsert /\ v.pc = "save" /\ v.appt = u.appt /\ v.new = u.new /\ v.event = e
  BY DEF Upsert
<1> QED
  BY <1>1, <1>2 DEF Callers

LEMMA SyncFacts ==
    \A s \in Sync : /\ s # Idle /\ s.pc \in {"next", "apply"}
                    /\ s.listed \subseteq AllEvents /\ s.fresh \subseteq AllEvents
                    /\ s.seen \in [AllEvents -> Event \cup {Absent}]
                    /\ s.appt \in Appts \cup {None} /\ s.event \in Events \cup {None}
  BY DEF Sync, Idle

-----------------------------------------------------------------------------
(* What belongs together *)

\* The event of a row is there, and is its own.
RowKept(a) ==
    a \in Rows /\ row[a].event # None =>
        event[row[a].event] # Absent /\ event[row[a].event].appt = a

\* Jobs name events and appointments there are, or were.
JobKept(j) == jobs[j] # None =>
    /\ jobs[j].event # None => event[jobs[j].event] # Absent
    /\ jobs[j].appt # None => row[jobs[j].appt] # Absent
    /\ jobs[j].kind # "sync" => jobs[j].appt # None
    /\ jobs[j].kind = "sync" => jobs[j].state # "announced"

\* So do the callers, which only make a new event for a row that had none.
CallKept(c) == upsert[c] # Idle =>
    /\ row[upsert[c].appt] # Absent
    /\ ~upsert[c].new \/ upsert[c].pc = "save" =>
          /\ upsert[c].event # None /\ event[upsert[c].event] # Absent
          /\ event[upsert[c].event].appt = upsert[c].appt
    /\ ~upsert[c].new /\ upsert[c].appt \in Rows => row[upsert[c].appt].event # None

\* Whose an event is shows in its id.
EventKept(e) == event[e] # Absent =>
    /\ e \in Events => event[e].appt # None /\ row[event[e].appt] # Absent
    /\ e \in Externals => event[e].appt = None

FeedKept == \A e \in feed : event[e] # Absent

Kept ==
    /\ \A a \in Appts : RowKept(a)
    /\ \A j \in Jobs : JobKept(j)
    /\ \A c \in Callers : CallKept(c)
    /\ \A e \in AllEvents : EventKept(e)
    /\ FeedKept

\* The worker has one job at a time, and does what that job says.
Busy ==
    /\ \A i, j \in Jobs : Active(i) /\ Active(j) => i = j
    /\ \A j \in Jobs : Active(j) =>
          \/ jobs[j].kind = "sync" /\ sync # Idle /\ upsert["worker"] = Idle
          \/ /\ jobs[j].kind = "upsert" /\ sync = Idle /\ upsert["worker"] # Idle
             /\ jobs[j].appt = upsert["worker"].appt
    /\ WorkerIdle => sync = Idle /\ upsert["worker"] = Idle

\* The events a sync has yet to reconcile.
ToDo == sync.listed \cup (IF sync.pc = "apply" THEN {sync.event} ELSE {})

\* What a sync has listed is as it was seen, or has changed since.
SyncKept == sync # Idle =>
    /\ ToDo \subseteq feed /\ sync.fresh \subseteq feed
    /\ \A e \in ToDo : /\ sync.seen[e] # Absent /\ sync.seen[e].appt = event[e].appt
                       /\ e \in sync.fresh \/ sync.seen[e] = event[e]
    /\ sync.pc = "apply" => sync.appt # None /\ sync.appt = event[sync.event].appt

Base == Typed /\ Kept /\ Busy /\ SyncKept

-----------------------------------------------------------------------------
(* What steps have in common *)

RowsGoOn == \A a \in Appts : row[a] # Absent =>
    /\ row'[a] # Absent
    /\ a \in Rows' => a \in Rows /\ (row[a].event # None => row'[a].event # None)

EventsGoOn == \A e \in AllEvents : event[e] # Absent =>
    event'[e] # Absent /\ event'[e].appt = event[e].appt

LEMMA KeptOn ==
    ASSUME Typed, Kept, RowsGoOn, EventsGoOn
    PROVE  /\ \A a \in Appts : row'[a] = row[a] => RowKept(a)'
           /\ \A j \in Jobs : jobs'[j] = jobs[j] => JobKept(j)'
           /\ \A c \in Callers : upsert'[c] = upsert[c] => CallKept(c)'
           /\ \A e \in AllEvents : event[e] # Absent \/ event'[e] = Absent => EventKept(e)'
           /\ \A e \in feed : event'[e] # Absent
<1>1. ASSUME NEW a \in Appts, row'[a] = row[a] PROVE RowKept(a)'
  <2> SUFFICES ASSUME a \in Rows', row'[a].event # None
               PROVE  event'[row'[a].event] # Absent /\ event'[row'[a].event].appt = a
    BY DEF RowKept
  <2>1. a \in Rows /\ row[a] \in Row
    BY <1>1 DEF Rows, Typed
  <2>2. row[a].event \in AllEvents
    BY <1>1, <2>1, RowFacts, IdFacts
  <2> QED
    BY <1>1, <2>1, <2>2 DEF Kept, RowKept, EventsGoOn
<1>2. ASSUME NEW j \in Jobs, jobs'[j] = jobs[j] PROVE JobKept(j)'
  <2> SUFFICES ASSUME jobs[j] # None
               PROVE  JobKept(j)'
    BY <1>2 DEF JobKept
  <2>1. jobs[j] \in Job
    BY DEF Typed
  <2>2. /\ jobs[j].event # None => jobs[j].event \in AllEvents
        /\ jobs[j].appt # None => jobs[j].appt \in Appts
    BY <2>1, JobFacts, IdFacts
  <2> QED
    BY <1>2, <2>2 DEF Kept, JobKept, EventsGoOn, RowsGoOn
<1>3. ASSUME NEW c \in Callers, upsert'[c] = upsert[c] PROVE CallKept(c)'
  <2> SUFFICES ASSUME upsert[c] # Idle
               PROVE  CallKept(c)'
    BY <1>3 DEF CallKept
  <2>1. upsert[c] \in Upsert
    BY DEF Typed
  <2>2. upsert[c].appt \in Appts /\ (upsert[c].event # None => upsert[c].event \in AllEvents)
    BY <2>1, CallFacts, IdFacts
  <2>3. CallKept(c)
    BY DEF Kept
  <2> QED
    BY <1>3, <2>2, <2>3 DEF CallKept, EventsGoOn, RowsGoOn
<1>4. ASSUME NEW e \in AllEvents, event[e] # Absent \/ event'[e] = Absent PROVE EventKept(e)'
  <2> SUFFICES ASSUME event[e] # Absent, event'[e] # Absent
               PROVE  EventKept(e)'
    BY <1>4 DEF EventKept
  <2>1. event[e].appt \in Appts \cup {None} /\ event'[e].appt = event[e].appt
    BY EventFacts DEF Typed, EventsGoOn
  <2> QED
    BY <2>1 DEF Kept, EventKept, RowsGoOn
<1>5. \A e \in feed : event'[e] # Absent
  BY DEF Kept, FeedKept, EventsGoOn, Typed
<1> QED
  BY <1>1, <1>2, <1>3, <1>4, <1>5

\* Most steps leave the rows, or the events, alone.
LEMMA SameRows ==
    ASSUME row' = row
    PROVE  RowsGoOn
  BY DEF RowsGoOn, Rows

LEMMA SameEvents ==
    ASSUME event' = event
    PROVE  EventsGoOn
  BY DEF EventsGoOn

\* The worker's job stays as it is.
LEMMA BusyOn ==
    ASSUME Busy,
           \A j \in Jobs : /\ Active(j)' <=> Active(j)
                           /\ Active(j) => jobs'[j].kind = jobs[j].kind /\ jobs'[j].appt = jobs[j].appt,
           sync' = Idle <=> sync = Idle,
           upsert'["worker"] = Idle <=> upsert["worker"] = Idle,
           upsert["worker"] # Idle => upsert'["worker"].appt = upsert["worker"].appt
    PROVE  Busy'
<1>1. WorkerIdle' => WorkerIdle
  BY DEF WorkerIdle, Active
<1> QED
  BY <1>1 DEF Busy

\* Nothing of the sync changes, but for what is new.
LEMMA SyncOn ==
    ASSUME Typed, SyncKept, FeedKept, EventsGoOn, feed \subseteq feed',
           sync' # Idle => /\ sync # Idle /\ sync'.listed = sync.listed /\ sync'.pc = sync.pc
                           /\ sync'.event = sync.event /\ sync'.seen = sync.seen /\ sync'.appt = sync.appt
                           /\ sync.fresh \subseteq sync'.fresh /\ sync'.fresh \subseteq feed'
                           /\ \A e \in feed : event'[e] = event[e] \/ e \in sync'.fresh
    PROVE  SyncKept'
<1> SUFFICES ASSUME sync' # Idle
             PROVE  /\ ToDo' \subseteq feed' /\ sync'.fresh \subseteq feed'
                    /\ \A e \in ToDo' : /\ sync'.seen[e] # Absent /\ sync'.seen[e].appt = event'[e].appt
                                        /\ e \in sync'.fresh \/ sync'.seen[e] = event'[e]
                    /\ sync'.pc = "apply" => sync'.appt # None /\ sync'.appt = event'[sync'.event].appt
  BY DEF SyncKept
<1>1. ToDo' = ToDo /\ ToDo \subseteq feed
  BY DEF ToDo, SyncKept
<1>2. \A e \in feed : /\ e \in AllEvents
                      /\ sync.seen[e] # Absent /\ sync.seen[e] = event[e] => event[e] # Absent
  BY DEF Typed
<1>3. \A e \in ToDo : sync'.seen[e] # Absent /\ sync'.seen[e].appt = event'[e].appt
  <2> TAKE e \in ToDo
  <2>1. e \in AllEvents /\ sync.seen[e] # Absent /\ sync.seen[e].appt = event[e].appt
    BY <1>1, <1>2 DEF SyncKept
  <2>2. event[e] # Absent
    BY <1>1 DEF FeedKept
  <2> QED
    BY <2>1, <2>2 DEF EventsGoOn
<1> QED
  BY <1>1, <1>2, <1>3 DEF SyncKept, EventsGoOn, ToDo

LEMMA NewJob ==
    ASSUME NEW kind \in {"upsert", "delete", "sync"}, NEW appt \in Appts \cup {None},
           NEW id \in Events \cup {None}, NEW state \in {"announced", "waiting", "active"}
    PROVE  [kind |-> kind, appt |-> appt, event |-> id, left |-> MaxAttempts, state |-> state] \in Job
<1>1. MaxAttempts \in 1..MaxAttempts
  BY BoundsAssumption
<1> QED
  BY <1>1 DEF Job

LEMMA CountsOn ==
    ASSUME Typed
    PROVE  /\ Edit => edits' \in 0..MaxEdits
           /\ Fail => failures' \in 0..MaxFailures
  BY BoundsAssumption DEF Typed, Edit, Fail

\* An event changes in Google.
LEMMA ChangesOn ==
    ASSUME Typed, Kept, SyncKept, NEW e \in AllEvents, NEW x \in Event, Changes(e, x),
           event[e] # Absent => x.appt = event[e].appt
    PROVE  /\ event' \in [AllEvents -> Event \cup {Absent}]
           /\ event'[e] = x /\ x # Absent /\ \A f \in AllEvents : f # e => event'[f] = event[f]
           /\ feed' = feed \cup {e} /\ feed' \subseteq AllEvents
           /\ pinged' \in BOOLEAN
           /\ sync' = Idle \/ sync' \in Sync
           /\ sync' = Idle <=> sync = Idle
           /\ sync' # Idle => /\ e \in sync'.fresh
                              /\ sync'.listed = sync.listed /\ sync'.pc = sync.pc
                              /\ sync'.event = sync.event /\ sync'.seen = sync.seen
                              /\ sync'.appt = sync.appt /\ sync.fresh \subseteq sync'.fresh
           /\ EventsGoOn /\ SyncKept' /\ FeedKept'
<1>1. /\ event' = [event EXCEPT ![e] = x] /\ event \in [AllEvents -> Event \cup {Absent}]
      /\ x # Absent
  BY EventFacts DEF Changes, Typed
<1>2. /\ event' \in [AllEvents -> Event \cup {Absent}]
      /\ event'[e] = x /\ \A f \in AllEvents : f # e => event'[f] = event[f]
  BY <1>1
<1>3. feed' = feed \cup {e} /\ feed' \subseteq AllEvents /\ pinged' \in BOOLEAN
  BY DEF Changes, Typed
<1>4. CASE sync = Idle
  <2>1. sync' = Idle
    BY <1>4 DEF Changes
  <2> QED
    BY <1>1, <1>2, <1>3, <1>4, <2>1 DEF EventsGoOn, SyncKept, Kept, FeedKept, Typed
<1>5. CASE sync # Idle
  <2>1. sync \in Sync /\ sync' = [sync EXCEPT !.fresh = @ \cup {e}]
    BY <1>5 DEF Changes, Typed
  <2>2. /\ sync' \in Sync /\ sync' # Idle
        /\ sync'.fresh = sync.fresh \cup {e}
        /\ sync'.listed = sync.listed /\ sync'.pc = sync.pc
        /\ sync'.event = sync.event /\ sync'.seen = sync.seen
        /\ sync'.appt = sync.appt
    <3>1. sync.fresh \cup {e} \in SUBSET AllEvents
      BY <2>1, SyncFacts
    <3>2. sync' \in Sync
      BY <2>1, <3>1 DEF Sync
    <3> QED
      BY <2>1, <3>2, SyncFacts DEF Sync
  <2>3. EventsGoOn
    BY <1>1, <1>2 DEF EventsGoOn
  <2>4. FeedKept /\ sync.fresh \subseteq feed
    BY <1>5 DEF Kept, SyncKept
  <2>5. SyncKept'
    <3>1. \A f \in feed : event'[f] = event[f] \/ f \in sync'.fresh
      BY <1>2, <2>2 DEF Typed
    <3> QED
      BY <1>3, <1>5, <2>2, <2>3, <2>4, <3>1, SyncOn
  <2>6. FeedKept'
    BY <1>1, <1>2, <1>3, <2>4 DEF FeedKept, Typed
  <2> QED
    BY <1>1, <1>2, <1>3, <1>5, <2>2, <2>3, <2>5, <2>6
<1> QED
  BY <1>4, <1>5

-----------------------------------------------------------------------------
(* The steps of the CRM *)

\* What the callers of Write write.
Writing(a, r, kind) ==
    /\ a \in Appts /\ r \in Row /\ kind \in {"upsert", "delete"}
    /\ \/ row[a] = Absent /\ r.event = None
       \/ a \in Rows /\ r.event = row[a].event
    /\ r.status = "ACTIVE" => kind = "upsert"
    /\ Write(a, r, kind)

Writes == \E a, r, kind : Writing(a, r, kind)

LEMMA WritesAre ==
    ASSUME Typed, Create \/ Reschedule \/ Confirm \/ Cancel
    PROVE  Writes
<1>1. \A a \in Rows : a \in Appts /\ row[a] \in Row
  BY DEF Rows, Typed
<1>2. CASE Create
  <2>1. PICK a \in Appts, t \in Times :
          row[a] = Absent /\ Write(a, [time |-> t, status |-> "ACTIVE", source |-> "CRM", event |-> None], "upsert")
    BY <1>2 DEF Create
  <2> QED
    BY <2>1, RowFacts DEF Writes, Writing
<1>3. CASE Reschedule
  <2>1. PICK a \in Rows, t \in Times : Write(a, [row[a] EXCEPT !.time = t, !.status = "ACTIVE"], "upsert")
    BY <1>3 DEF Reschedule
  <2> DEFINE r == [row[a] EXCEPT !.time = t, !.status = "ACTIVE"]
  <2>2. r \in Row /\ r.event = row[a].event
    BY <1>1, <2>1 DEF Row
  <2>3. Writing(a, r, "upsert")
    BY <1>1, <2>1, <2>2 DEF Writing
  <2> QED
    BY <2>3 DEF Writes
<1>4. CASE Confirm
  <2>1. PICK a \in Rows : Write(a, [row[a] EXCEPT !.status = "ACTIVE"], "upsert")
    BY <1>4 DEF Confirm
  <2> DEFINE r == [row[a] EXCEPT !.status = "ACTIVE"]
  <2>2. r \in Row /\ r.event = row[a].event
    BY <1>1, <2>1, RowFacts
  <2>3. Writing(a, r, "upsert")
    BY <1>1, <2>1, <2>2 DEF Writing
  <2> QED
    BY <2>3 DEF Writes
<1>5. CASE Cancel
  <2>1. PICK a \in Rows : Write(a, [row[a] EXCEPT !.status = "CANCELLED"], "delete")
    BY <1>5 DEF Cancel
  <2> DEFINE r == [row[a] EXCEPT !.status = "CANCELLED"]
  <2>2. r \in Row /\ r.event = row[a].event /\ r.status = "CANCELLED"
    BY <1>1, <2>1, RowFacts
  <2>3. Writing(a, r, "delete")
    BY <1>1, <2>1, <2>2 DEF Writing
  <2> QED
    BY <2>3 DEF Writes
<1> QED
  BY <1>2, <1>3, <1>4, <1>5

LEMMA WriteStep ==
    ASSUME Base, NEW a, NEW r, NEW kind, Writing(a, r, kind)
    PROVE  /\ Base'
           /\ row'[a] = r /\ \A b \in Appts : b # a => row'[b] = row[b]
           /\ astray \subseteq astray'
           /\ \A j \in Jobs : jobs[j] # None => jobs'[j] = jobs[j]
           /\ \/ a \in astray'
              \/ \E j \in Jobs : /\ jobs'[j] # None /\ ~Active(j)'
                                 /\ jobs'[j].kind = kind /\ jobs'[j].appt = a
<1>0. Typed /\ Kept /\ Busy /\ SyncKept
  BY DEF Base
<1>1. /\ a \in Appts /\ r \in Row /\ kind \in {"upsert", "delete"}
      /\ (row[a] = Absent /\ r.event = None) \/ (a \in Rows /\ r.event = row[a].event)
      /\ row' = [row EXCEPT ![a] = r]
      /\ Announce(a, r, kind) /\ Edit
      /\ UNCHANGED <<block, connected, upsert, sync, exporting, event, feed, pinged, token, failures>>
  BY DEF Writing, Write, google
<1>2. r # Absent /\ r # Deleted /\ r.event \in Events \cup {None} /\ r.source \in {"CRM", "GOOGLE"}
  BY <1>1, RowFacts
<1>3. /\ row'[a] = r /\ \A b \in Appts : b # a => row'[b] = row[b]
      /\ row' \in [Appts -> Row \cup {Absent, Deleted}]
  BY <1>0, <1>1 DEF Typed
<1>4. RowsGoOn /\ EventsGoOn
  BY <1>1, <1>2, <1>3, SameEvents DEF RowsGoOn, Rows
<1>5. /\ astray \subseteq astray' /\ astray' \subseteq Appts \cup AllEvents
      /\ \A j \in Jobs : jobs[j] # None => jobs'[j] = jobs[j]
      /\ jobs' \in [Jobs -> Job \cup {None}]
      /\ \A j \in Jobs : jobs'[j] # jobs[j] =>
            /\ jobs'[j] \in Job /\ jobs'[j].state = "announced" /\ jobs'[j].kind = kind
            /\ jobs'[j].appt = a /\ (jobs'[j].event # None => jobs'[j].event = r.event)
      /\ a \in astray' \/ \E j \in Jobs : jobs'[j] # jobs[j]
  <2>1. CASE r.source = "GOOGLE" \/ (kind = "upsert" /\ ~heard)
    BY <1>0, <1>1, <2>1 DEF Announce, Typed
  <2>2. CASE ~(r.source = "GOOGLE" \/ (kind = "upsert" /\ ~heard))
    <3> DEFINE x == [kind |-> kind, appt |-> a,
                     event |-> IF kind = "delete" THEN r.event ELSE None,
                     left |-> MaxAttempts, state |-> "announced"]
    <3>1. PICK j \in Jobs : jobs[j] = None /\ jobs' = [jobs EXCEPT ![j] = x]
      BY <1>1, <2>2 DEF Announce
    <3>2. x \in Job
      BY <1>1, <1>2, NewJob
    <3>3. x # None /\ x.state = "announced" /\ x.kind = kind /\ x.appt = a /\ (x.event # None => x.event = r.event)
      BY <3>2, JobFacts
    <3>4. astray' = astray
      BY <1>1, <2>2 DEF Announce
    <3> HIDE DEF x
    <3> QED
      BY <1>0, <1>1, <3>1, <3>2, <3>3, <3>4 DEF Typed
  <2> QED
    BY <2>1, <2>2
<1>6. Typed'
  BY <1>0, <1>1, <1>3, <1>5, CountsOn DEF Typed
<1>7. Kept'
  <2>1. RowKept(a)'
    BY <1>0, <1>1, <1>3 DEF RowKept, Kept, Rows
  <2>2. \A j \in Jobs : JobKept(j)'
    <3> TAKE j \in Jobs
    <3>1. CASE jobs'[j] = jobs[j]
      BY <1>0, <1>4, <3>1, KeptOn
    <3>2. CASE jobs'[j] # jobs[j]
      <4>1. r.event # None => event[r.event] # Absent
        BY <1>0, <1>1 DEF Kept, RowKept
      <4>2. a # None
        BY <1>1, IdFacts
      <4> QED
        BY <1>1, <1>2, <1>3, <1>5, <3>2, <4>1, <4>2 DEF JobKept
    <3> QED
      BY <3>1, <3>2
  <2>3. \A e \in AllEvents : EventKept(e)'
    BY <1>0, <1>1, <1>4, KeptOn
  <2>4. FeedKept'
    BY <1>0, <1>1 DEF Kept, FeedKept
  <2> QED
    BY <1>0, <1>1, <1>3, <1>4, <2>1, <2>2, <2>3, <2>4, KeptOn DEF Kept
<1>8. Busy'
  <2>1. \A j \in Jobs : (Active(j)' <=> Active(j)) /\ (Active(j) => jobs'[j] = jobs[j])
    BY <1>5 DEF Active
  <2> QED
    BY <1>0, <1>1, <2>1, BusyOn
<1>9. SyncKept'
  BY <1>0, <1>1 DEF SyncKept, ToDo
<1> QED
  BY <1>3, <1>5, <1>6, <1>7, <1>8, <1>9 DEF Base, Active

\* Close and RemoveClient.
LEMMA RowGoesStep ==
    ASSUME Base, Close \/ RemoveClient
    PROVE  /\ Base'
           /\ \E a \in Rows :
                /\ row'[a] = Deleted \/ row'[a] = [row[a] EXCEPT !.status = "DONE"]
                /\ \A b \in Appts : b # a => row'[b] = row[b]
           /\ UNCHANGED <<block, jobs, upsert, sync, event, feed, astray>>
<1>0. Typed /\ Kept /\ Busy /\ SyncKept
  BY DEF Base
<1>1. PICK a \in Rows :
         /\ Edit
         /\ \/ row' = [row EXCEPT ![a] = Deleted]
            \/ row' = [row EXCEPT ![a] = [row[a] EXCEPT !.status = "DONE"]]
         /\ UNCHANGED <<block, connected, jobs, upsert, sync, exporting, event, feed, pinged, token,
                        astray, failures>>
  BY DEF Close, RemoveClient, google
<1>2. a \in Appts /\ row[a] \in Row /\ row[a] # Absent
  BY <1>0, <1>1, RowFacts DEF Typed, Rows
<1>3. /\ \/ row'[a] = Deleted
         \/ row'[a] = [row[a] EXCEPT !.status = "DONE"] /\ row'[a] \in Row /\ row'[a].event = row[a].event
      /\ \A b \in Appts : b # a => row'[b] = row[b]
  <2>1. [row[a] EXCEPT !.status = "DONE"] \in Row /\ [row[a] EXCEPT !.status = "DONE"].event = row[a].event
    BY <1>2, RowFacts
  <2> QED
    BY <1>0, <1>1, <1>2, <2>1 DEF Typed
<1>4. RowsGoOn /\ EventsGoOn
  BY <1>1, <1>2, <1>3, SameEvents, RowFacts DEF RowsGoOn, Rows
<1>5. Typed'
  BY <1>0, <1>1, <1>2, <1>3, CountsOn DEF Typed
<1>6. Kept'
  <2>1. RowKept(a)'
    BY <1>0, <1>1, <1>2, <1>3 DEF RowKept, Kept, Rows
  <2>2. FeedKept'
    BY <1>0, <1>1 DEF Kept, FeedKept
  <2> QED
    BY <1>0, <1>1, <1>3, <1>4, <2>1, <2>2, KeptOn DEF Kept
<1>7. Busy'
  BY <1>0, <1>1, BusyOn DEF Active
<1>8. SyncKept'
  BY <1>0, <1>1 DEF SyncKept, ToDo
<1> QED
  BY <1>1, <1>3, <1>5, <1>6, <1>7, <1>8 DEF Base

\* Nothing happens to the rows, to the jobs and in Google.
LEMMA BlockGoesStep ==
    ASSUME Base, DeleteBlock
    PROVE  /\ Base'
           /\ astray \subseteq astray'
           /\ \A e \in Externals : block'[e] = block[e] \/ e \in astray'
           /\ UNCHANGED <<row, jobs, upsert, sync, event, feed>>
<1>0. Typed /\ Kept /\ Busy /\ SyncKept
  BY DEF Base
<1>1. PICK e \in Externals :
         /\ Edit
         /\ block' = [block EXCEPT ![e] = None] /\ astray' = astray \cup {e}
         /\ UNCHANGED <<row, connected, jobs, upsert, sync, exporting, event, feed, pinged, token, failures>>
  BY DEF DeleteBlock, google
<1>2. /\ block' \in [Externals -> Times \cup {None}]
      /\ \A f \in Externals : f # e => block'[f] = block[f]
      /\ astray' \subseteq Appts \cup AllEvents
  BY <1>0, <1>1, IdFacts DEF Typed
<1>3. RowsGoOn /\ EventsGoOn
  BY <1>1, SameRows, SameEvents
<1>4. Typed'
  BY <1>0, <1>1, <1>2, CountsOn DEF Typed
<1>5. Kept' /\ Busy' /\ SyncKept'
  BY <1>0, <1>1, <1>3, KeptOn, BusyOn DEF Kept, FeedKept, SyncKept, ToDo, Active
<1> QED
  BY <1>1, <1>2, <1>4, <1>5 DEF Base

\* One job changes, and the worker's is another one.
LEMMA JobChanges ==
    ASSUME Base, NEW j \in Jobs, NEW x \in Job \cup {None}, jobs' = [jobs EXCEPT ![j] = x],
           ~Active(j), x # None => x.state # "active",
           x # None => /\ x.event # None => event[x.event] # Absent
                       /\ x.appt # None => row[x.appt] # Absent
                       /\ x.kind # "sync" => x.appt # None
                       /\ x.kind = "sync" => x.state # "announced",
           UNCHANGED <<row, upsert, sync, event, feed>>
    PROVE  /\ jobs' \in [Jobs -> Job \cup {None}] /\ Kept' /\ Busy' /\ SyncKept'
           /\ jobs'[j] = x /\ \A i \in Jobs : i # j => jobs'[i] = jobs[i]
           /\ \A i \in Jobs : Active(i)' <=> Active(i)
<1>0. Typed /\ Kept /\ Busy /\ SyncKept
  BY DEF Base
<1>1. /\ jobs' \in [Jobs -> Job \cup {None}]
      /\ jobs'[j] = x /\ \A i \in Jobs : i # j => jobs'[i] = jobs[i]
  BY <1>0 DEF Typed
<1>2. \A i \in Jobs : Active(i)' <=> Active(i)
  BY <1>1 DEF Active
<1>3. RowsGoOn /\ EventsGoOn
  BY SameRows, SameEvents
<1>4. JobKept(j)'
  BY <1>1 DEF JobKept
<1>5. Kept'
  BY <1>0, <1>1, <1>3, <1>4, KeptOn DEF Kept, FeedKept
<1>6. Busy'
  BY <1>0, <1>1, <1>2, BusyOn
<1>7. SyncKept'
  BY <1>0 DEF SyncKept, ToDo
<1> QED
  BY <1>1, <1>2, <1>5, <1>6, <1>7

LEMMA EnqueueStep ==
    ASSUME Base, NEW j \in Jobs, Enqueue(j) \/ LoseEnqueue(j)
    PROVE  /\ Base'
           /\ \A i \in Jobs : i # j => jobs'[i] = jobs[i]
           /\ \A i \in Jobs : Active(i)' <=> Active(i)
           /\ \/ /\ jobs'[j] # None /\ jobs'[j].kind = jobs[j].kind /\ jobs'[j].appt = jobs[j].appt
                 /\ astray' = astray
              \/ /\ jobs[j] # None /\ astray' = astray \cup {jobs[j].appt}
           /\ UNCHANGED <<row, block, upsert, sync, event, feed>>
<1>0. Typed /\ Kept /\ Busy /\ SyncKept /\ JobKept(j)
  BY DEF Base, Kept
<1>1. /\ UNCHANGED <<row, block, connected, upsert, sync, exporting, event, feed, pinged, token, edits>>
      /\ jobs[j] # None /\ jobs[j].state = "announced"
  BY DEF Enqueue, LoseEnqueue, crm, google
<1>2. jobs[j] \in Job /\ ~Active(j) /\ jobs[j].appt \in Appts \cup {None}
  BY <1>0, <1>1, JobFacts DEF Typed, Active
<1>3. CASE Enqueue(j)
  <2> DEFINE x == [jobs[j] EXCEPT !.state = "waiting"]
  <2>1. /\ x \in Job /\ x.state = "waiting" /\ x.kind = jobs[j].kind /\ x.appt = jobs[j].appt
        /\ x.event = jobs[j].event
    BY <1>2, JobFacts
  <2>2. jobs' = [jobs EXCEPT ![j] = x] /\ astray' = astray /\ failures' = failures
    BY <1>3 DEF Enqueue
  <2> HIDE DEF x
  <2>3. /\ jobs' \in [Jobs -> Job \cup {None}] /\ Kept' /\ Busy' /\ SyncKept'
        /\ jobs'[j] = x /\ \A i \in Jobs : i # j => jobs'[i] = jobs[i]
        /\ \A i \in Jobs : Active(i)' <=> Active(i)
    BY <1>0, <1>1, <1>2, <2>1, <2>2, JobChanges DEF JobKept
  <2>4. x # None
    BY <2>1, JobFacts
  <2>5. Typed'
    BY <1>0, <1>1, <2>2, <2>3 DEF Typed
  <2> QED
    BY <1>1, <2>1, <2>2, <2>3, <2>4, <2>5 DEF Base
<1>4. CASE LoseEnqueue(j)
  <2>1. /\ jobs' = [jobs EXCEPT ![j] = None] /\ astray' = astray \cup {jobs[j].appt} /\ Fail
    BY <1>4 DEF LoseEnqueue
  <2>2. /\ jobs' \in [Jobs -> Job \cup {None}] /\ Kept' /\ Busy' /\ SyncKept'
        /\ \A i \in Jobs : i # j => jobs'[i] = jobs[i]
        /\ \A i \in Jobs : Active(i)' <=> Active(i)
    BY <1>1, <1>2, <2>1, JobChanges
  <2>3. jobs[j].appt \in Appts
    BY <1>0, <1>1, <1>2 DEF JobKept
  <2> QED
    BY <1>0, <1>1, <2>1, <2>2, <2>3, CountsOn DEF Typed, Base
<1> QED
  BY <1>3, <1>4

-----------------------------------------------------------------------------
(* The steps of the calls to Google *)

\* A job that keeps what it is about.
LEMMA JobGoesOn ==
    ASSUME Typed, Kept, RowsGoOn, EventsGoOn, NEW j \in Jobs,
           \/ jobs'[j] = None
           \/ /\ jobs[j] # None /\ jobs'[j].kind = jobs[j].kind
              /\ jobs'[j].appt = jobs[j].appt /\ jobs'[j].event = jobs[j].event
              /\ jobs'[j].state # "announced"
    PROVE  JobKept(j)'
<1> SUFFICES ASSUME jobs'[j] # None
             PROVE  JobKept(j)'
  BY DEF JobKept
<1>1. jobs[j] \in Job /\ JobKept(j)
  BY DEF Typed, Kept
<1>2. /\ jobs[j].event # None => jobs[j].event \in AllEvents
      /\ jobs[j].appt # None => jobs[j].appt \in Appts
  BY <1>1, JobFacts, IdFacts
<1> QED
  BY <1>1, <1>2 DEF JobKept, EventsGoOn, RowsGoOn

\* The worker is done with its job.
LEMMA WorkerRests ==
    ASSUME Busy, sync' = Idle, upsert'["worker"] = Idle,
           \A j \in Jobs : Active(j) => jobs'[j] = None \/ jobs'[j].state = "waiting",
           \A j \in Jobs : ~Active(j) => jobs'[j] = jobs[j]
    PROVE  Busy' /\ \A j \in Jobs : ~Active(j)'
<1>1. \A j \in Jobs : ~Active(j)'
  BY DEF Active
<1> QED
  BY <1>1 DEF Busy

LEMMA ReadCall ==
    ASSUME Base, NEW c \in Callers, NEW a \in Rows, Read(c, a)
    PROVE  /\ upsert' \in [Callers -> Upsert \cup {Idle}]
           /\ upsert'[c] # Idle /\ upsert'[c].pc = "call" /\ upsert'[c].appt = a
           /\ ~upsert'[c].new =>
                 /\ upsert'[c].event # None /\ event[upsert'[c].event] # Absent
                 /\ event[upsert'[c].event].appt = a
                 /\ row[a].event # None
           /\ \A d \in Callers : d # c => upsert'[d] = upsert[d]
           /\ astray' = astray \ {a} /\ astray' \subseteq Appts \cup AllEvents
<1>0. Typed /\ Kept
  BY DEF Base
<1> DEFINE u == [pc |-> "call", appt |-> a, time |-> row[a].time,
                 event |-> row[a].event, new |-> row[a].event = None]
<1>1. a \in Appts /\ row[a] \in Row
  BY <1>0 DEF Typed, Rows
<1>2. u \in Upsert
  BY <1>1, RowFacts DEF Upsert
<1>3. upsert' = [upsert EXCEPT ![c] = u] /\ astray' = astray \ {a}
  BY DEF Read
<1>4. /\ upsert' \in [Callers -> Upsert \cup {Idle}] /\ upsert'[c] = u
      /\ \A d \in Callers : d # c => upsert'[d] = upsert[d]
  BY <1>0, <1>2, <1>3 DEF Typed
<1>5. row[a].event # None => event[row[a].event] # Absent /\ event[row[a].event].appt = a
  BY <1>0, <1>1 DEF Kept, RowKept
<1>6. u # Idle
  BY <1>2, CallFacts
<1>7. u.new <=> row[a].event = None
  OBVIOUS
<1> QED
  BY <1>0, <1>3, <1>4, <1>5, <1>6, <1>7 DEF Typed

LEMMA TakeUpsertStep ==
    ASSUME Base, NEW j \in Jobs, TakeUpsert(j)
    PROVE  /\ Base'
           /\ \A i \in Jobs : i # j => jobs'[i] = jobs[i]
           /\ jobs[j] # None
           /\ \/ jobs[j].appt \in astray' /\ astray \subseteq astray' /\ upsert' = upsert
              \/ /\ astray' = astray \ {jobs[j].appt}
                 /\ upsert["worker"] = Idle /\ upsert'["worker"] # Idle
                 /\ upsert'["worker"].pc = "call" /\ upsert'["worker"].appt = jobs[j].appt
                 /\ upsert'["export"] = upsert["export"]
           /\ UNCHANGED <<row, block, sync, event, feed>>
<1>0. Typed /\ Kept /\ Busy /\ SyncKept /\ JobKept(j) /\ CallKept("worker")
  BY CallFacts DEF Base, Kept
<1>1. /\ UNCHANGED <<row, block, connected, sync, exporting, event, feed, pinged, token, edits, failures>>
      /\ jobs[j] # None /\ jobs[j].kind = "upsert" /\ jobs[j].state = "waiting" /\ WorkerIdle
  BY DEF TakeUpsert, Waits, crm, google
<1>2. /\ jobs[j] \in Job /\ ~Active(j) /\ jobs[j].appt \in Appts
      /\ sync = Idle /\ upsert["worker"] = Idle /\ \A i \in Jobs : ~Active(i)
  BY <1>0, <1>1, JobFacts DEF Typed, Active, Busy, WorkerIdle, JobKept
<1>3. CASE jobs[j].appt \in Rows /\ connected
  <2> DEFINE x == [jobs[j] EXCEPT !.state = "active"]  a == jobs[j].appt
  <2>1. x \in Job /\ x.state = "active" /\ x.kind = "upsert" /\ x.appt = a /\ x.event = jobs[j].event /\ x # None
    BY <1>1, <1>2, JobFacts
  <2>2. jobs' = [jobs EXCEPT ![j] = x] /\ Read("worker", a)
    BY <1>3 DEF TakeUpsert
  <2>3. /\ jobs' \in [Jobs -> Job \cup {None}] /\ jobs'[j] = x
        /\ \A i \in Jobs : i # j => jobs'[i] = jobs[i]
    BY <1>0, <2>1, <2>2 DEF Typed
  <2> HIDE DEF x
  <2>4. /\ upsert' \in [Callers -> Upsert \cup {Idle}]
        /\ upsert'["worker"] # Idle /\ upsert'["worker"].pc = "call" /\ upsert'["worker"].appt = a
        /\ ~upsert'["worker"].new =>
              /\ upsert'["worker"].event # None /\ event[upsert'["worker"].event] # Absent
              /\ event[upsert'["worker"].event].appt = a
              /\ row[a].event # None
        /\ \A d \in Callers : d # "worker" => upsert'[d] = upsert[d]
        /\ astray' = astray \ {a} /\ astray' \subseteq Appts \cup AllEvents
    BY <1>3, <2>2, CallFacts, ReadCall
  <2>5. RowsGoOn /\ EventsGoOn
    BY <1>1, SameRows, SameEvents
  <2>6. Typed'
    BY <1>0, <1>1, <2>3, <2>4 DEF Typed
  <2>7. Kept'
    <3>1. JobKept(j)'
      BY <1>0, <1>1, <2>1, <2>3, <2>5, JobGoesOn
    <3>2. CallKept("worker")'
      <4>1. row'[a] # Absent
        BY <1>0, <1>1, <1>2, <1>3, RowFacts, IdFacts DEF Rows
      <4> QED
        BY <1>1, <2>4, <4>1 DEF CallKept
    <3> QED
      BY <1>0, <1>1, <2>3, <2>4, <2>5, <3>1, <3>2, KeptOn DEF Kept, FeedKept
  <2>8. Busy'
    <3>1. \A i \in Jobs : Active(i)' <=> i = j
      BY <1>2, <2>1, <2>3 DEF Active
    <3>2. ~WorkerIdle'
      BY <2>1, <2>3 DEF WorkerIdle
    <3> QED
      BY <1>1, <1>2, <2>1, <2>3, <2>4, <3>1, <3>2 DEF Busy
  <2>9. SyncKept'
    BY <1>0, <1>1 DEF SyncKept, ToDo
  <2> QED
    BY <1>1, <1>2, <2>3, <2>4, <2>6, <2>7, <2>8, <2>9, CallFacts DEF Base
<1>4. CASE ~(jobs[j].appt \in Rows /\ connected)
  <2>1. jobs' = [jobs EXCEPT ![j] = None] /\ astray' = astray \cup {jobs[j].appt} /\ upsert' = upsert
    BY <1>4 DEF TakeUpsert
  <2>2. /\ jobs' \in [Jobs -> Job \cup {None}] /\ Kept' /\ Busy' /\ SyncKept'
        /\ \A i \in Jobs : i # j => jobs'[i] = jobs[i]
    BY <1>1, <1>2, <2>1, JobChanges
  <2> QED
    BY <1>0, <1>1, <1>2, <2>1, <2>2 DEF Typed, Base
<1> QED
  BY <1>3, <1>4

\* The steps of an export that read, or that do not call.
LEMMA ExportStep ==
    ASSUME Base, ExportNext \/ StartExport \/ Connect
    PROVE  /\ Base'
           /\ \/ upsert' = upsert /\ astray' = astray
              \/ \E a \in Rows :
                    /\ astray' = astray \ {a}
                    /\ upsert["export"] = Idle /\ upsert'["export"] # Idle
                    /\ upsert'["export"].pc = "call" /\ upsert'["export"].appt = a
                    /\ upsert'["worker"] = upsert["worker"]
           /\ UNCHANGED <<row, block, jobs, sync, event, feed>>
<1>0. Typed /\ Kept /\ Busy /\ SyncKept
  BY DEF Base
<1>1. UNCHANGED <<row, block, jobs, sync, event, feed, pinged, token, failures>>
  BY DEF ExportNext, StartExport, Connect, crm, google
<1>2. CASE upsert' = upsert /\ astray' = astray
  <2>1. exporting' \subseteq Appts /\ connected' \in BOOLEAN /\ edits' \in 0..MaxEdits
    BY <1>0, <1>2, CountsOn DEF ExportNext, StartExport, Connect, Read, crm, google, Typed, Rows
  <2>2. Kept' /\ SyncKept' /\ Busy'
    BY <1>0, <1>1, <1>2, SameRows, SameEvents, KeptOn, BusyOn DEF Kept, FeedKept, SyncKept, ToDo, Active
  <2>3. Typed'
    BY <1>0, <1>1, <1>2, <2>1 DEF Typed
  <2> QED
    BY <1>1, <1>2, <2>2, <2>3 DEF Base
<1>3. CASE ~(upsert' = upsert /\ astray' = astray)
  <2>1. PICK a \in exporting : /\ upsert["export"] = Idle
                               /\ a \in Rows /\ Read("export", a)
                               /\ UNCHANGED <<exporting, connected, edits>>
    BY <1>3 DEF ExportNext, StartExport, Connect, crm
  <2>2. /\ upsert' \in [Callers -> Upsert \cup {Idle}]
        /\ upsert'["export"] # Idle /\ upsert'["export"].pc = "call" /\ upsert'["export"].appt = a
        /\ ~upsert'["export"].new =>
              /\ upsert'["export"].event # None /\ event[upsert'["export"].event] # Absent
              /\ event[upsert'["export"].event].appt = a
              /\ row[a].event # None
        /\ \A d \in Callers : d # "export" => upsert'[d] = upsert[d]
        /\ astray' = astray \ {a} /\ astray' \subseteq Appts \cup AllEvents
    BY <2>1, CallFacts, ReadCall
  <2>3. RowsGoOn /\ EventsGoOn
    BY <1>1, SameRows, SameEvents
  <2>4. CallKept("export")'
    <3>1. row'[a] # Absent
      BY <1>1, <2>1 DEF Rows
    <3> QED
      BY <1>1, <2>2, <3>1 DEF CallKept
  <2>5. Kept'
    BY <1>0, <1>1, <2>2, <2>3, <2>4, KeptOn DEF Kept, FeedKept
  <2>6. Typed'
    BY <1>0, <1>1, <2>1, <2>2 DEF Typed
  <2>7. upsert'["worker"] = upsert["worker"]
    BY <2>2, CallFacts
  <2>8. Busy'
    BY <1>0, <1>1, <2>7, BusyOn DEF Active
  <2>9. SyncKept'
    BY <1>0, <1>1 DEF SyncKept, ToDo
  <2> QED
    BY <1>1, <2>1, <2>2, <2>5, <2>6, <2>7, <2>8, <2>9 DEF Base
<1> QED
  BY <1>2, <1>3

\* What follows when an event changes in Google.
ChangedOnly(e) ==
    /\ event'[e] # Absent
    /\ \A f \in AllEvents : f # e => event'[f] = event[f]
    /\ feed' = feed \cup {e}
    /\ sync' # Idle => e \in sync'.fresh
    /\ sync' = Idle <=> sync = Idle
    /\ sync' # Idle => /\ sync'.listed = sync.listed /\ sync'.pc = sync.pc /\ sync'.event = sync.event
                       /\ sync.fresh \subseteq sync'.fresh

LEMMA CallGoogleStep ==
    ASSUME Base, NEW c \in Callers, CallGoogle(c)
    PROVE  /\ Base'
           /\ \E e \in Events : ChangedOnly(e) /\ event'[e].appt = upsert[c].appt
           /\ EventsGoOn
           /\ upsert[c] # Idle /\ upsert'[c] # Idle
           /\ upsert'[c].pc = "save" /\ upsert'[c].appt = upsert[c].appt
           /\ upsert'[c].new = upsert[c].new
           /\ ~upsert[c].new /\ upsert[c].appt \in Rows => row[upsert[c].appt].event # None
           /\ \A d \in Callers : d # c => upsert'[d] = upsert[d]
           /\ UNCHANGED <<row, block, jobs, astray>>
<1>0. Typed /\ Kept /\ Busy /\ SyncKept /\ CallKept(c)
  BY DEF Base, Kept
<1>1. /\ UNCHANGED <<row, block, connected, jobs, exporting, token, astray, edits, failures>>
      /\ upsert[c] # Idle /\ upsert[c].pc = "call" /\ upsert[c] \in Upsert
  BY <1>0 DEF CallGoogle, crm, Typed
<1>2. upsert[c].appt \in Appts /\ upsert[c].time \in Times /\ upsert[c].event \in Events \cup {None}
      /\ upsert[c].new \in BOOLEAN
  BY <1>1, CallFacts
<1> DEFINE x == [appt |-> upsert[c].appt, time |-> upsert[c].time, live |-> TRUE, by |-> "CRM"]
<1>3. PICK e : /\ e \in IF upsert[c].new THEN {f \in Events : event[f] = Absent} ELSE {upsert[c].event}
               /\ Changes(e, x)
               /\ upsert' = [upsert EXCEPT ![c] = [upsert[c] EXCEPT !.pc = "save", !.event = e]]
  BY <1>0 DEF CallGoogle, Typed
<1>4. e \in Events /\ e \in AllEvents /\ (event[e] # Absent => event[e].appt = upsert[c].appt)
  BY <1>0, <1>1, <1>2, <1>3, IdFacts DEF CallKept
<1>5. x \in Event /\ x.appt = upsert[c].appt
  BY <1>2, EventFacts
<1> HIDE DEF x
<1>6. /\ event' \in [AllEvents -> Event \cup {Absent}]
      /\ event'[e] = x /\ x # Absent /\ \A f \in AllEvents : f # e => event'[f] = event[f]
      /\ feed' = feed \cup {e} /\ feed' \subseteq AllEvents
      /\ pinged' \in BOOLEAN
      /\ sync' = Idle \/ sync' \in Sync
      /\ sync' = Idle <=> sync = Idle
      /\ sync' # Idle => /\ e \in sync'.fresh
                         /\ sync'.listed = sync.listed /\ sync'.pc = sync.pc
                         /\ sync'.event = sync.event /\ sync'.seen = sync.seen
                         /\ sync'.appt = sync.appt /\ sync.fresh \subseteq sync'.fresh
      /\ EventsGoOn /\ SyncKept' /\ FeedKept'
  BY <1>0, <1>3, <1>4, <1>5, ChangesOn
<1>7. LET u == [upsert[c] EXCEPT !.pc = "save", !.event = e] IN
         u \in Upsert /\ u # Idle /\ u.pc = "save" /\ u.appt = upsert[c].appt /\ u.new = upsert[c].new /\ u.event = e
  BY <1>1, <1>4, CallFacts
<1>8. /\ upsert' \in [Callers -> Upsert \cup {Idle}]
      /\ upsert'[c] # Idle /\ upsert'[c].pc = "save" /\ upsert'[c].appt = upsert[c].appt
      /\ upsert'[c].new = upsert[c].new /\ upsert'[c].event = e
      /\ \A d \in Callers : d # c => upsert'[d] = upsert[d]
  BY <1>0, <1>3, <1>7 DEF Typed
<1>9. RowsGoOn
  BY <1>1, SameRows
<1>10. ~upsert[c].new /\ upsert[c].appt \in Rows => row[upsert[c].appt].event # None
  BY <1>0, <1>1 DEF CallKept
<1>11. Typed'
  BY <1>0, <1>1, <1>6, <1>8 DEF Typed
<1>12. Kept'
  <2>1. CallKept(c)'
    <3>1. row'[upsert'[c].appt] # Absent
      BY <1>0, <1>1, <1>8 DEF CallKept
    <3>2. upsert'[c].event # None
      BY <1>4, <1>8, IdFacts
    <3>3. ~upsert'[c].new /\ upsert'[c].appt \in Rows' => row'[upsert'[c].appt].event # None
      BY <1>1, <1>8, <1>10 DEF Rows
    <3> QED
      BY <1>5, <1>6, <1>8, <3>1, <3>2, <3>3 DEF CallKept
  <2>2. EventKept(e)'
    BY <1>0, <1>1, <1>2, <1>4, <1>5, <1>6, IdFacts DEF EventKept, CallKept
  <2>3. \A f \in AllEvents : EventKept(f)'
    BY <1>0, <1>6, <1>9, <2>2, KeptOn
  <2> QED
    BY <1>0, <1>1, <1>6, <1>8, <1>9, <2>1, <2>3, KeptOn DEF Kept
<1>13. Busy'
  BY <1>0, <1>1, <1>6, <1>8, BusyOn, CallFacts DEF Active
<1> QED
  BY <1>1, <1>4, <1>5, <1>6, <1>8, <1>10, <1>11, <1>12, <1>13 DEF Base, ChangedOnly

\* Between the end of a call and the next one the worker does nothing.
LEMMA WorkerLeaves ==
    ASSUME Base, NEW c \in Callers, upsert[c] # Idle, Leave(c), sync' = sync,
           \A j \in Jobs : IF c = "worker" /\ Active(j)
                           THEN jobs'[j] = None \/ jobs'[j].state = "waiting" ELSE jobs'[j] = jobs[j]
    PROVE  /\ Busy'
           /\ upsert' \in [Callers -> Upsert \cup {Idle}] /\ exporting' \subseteq Appts
           /\ upsert'[c] = Idle /\ \A d \in Callers : d # c => upsert'[d] = upsert[d]
<1>0. Typed /\ Busy
  BY DEF Base
<1>1. /\ upsert' \in [Callers -> Upsert \cup {Idle}] /\ exporting' \subseteq Appts
      /\ upsert'[c] = Idle /\ \A d \in Callers : d # c => upsert'[d] = upsert[d]
  BY <1>0 DEF Leave, Typed
<1>2. CASE c = "worker"
  <2>1. sync = Idle
    BY <1>0, <1>2 DEF Busy, WorkerIdle, Active
  <2> QED
    BY <1>0, <1>1, <1>2, <2>1, WorkerRests
<1>3. CASE c # "worker"
  <2>1. upsert'["worker"] = upsert["worker"]
    BY <1>1, <1>3, CallFacts
  <2> QED
    BY <1>0, <1>1, <1>3, <2>1, BusyOn DEF Active
<1> QED
  BY <1>2, <1>3

LEMMA SaveEventStep ==
    ASSUME Base, NEW c \in Callers, SaveEvent(c)
    PROVE  /\ Base'
           /\ upsert[c].pc = "save" /\ upsert'[c] = Idle
           /\ \A d \in Callers : d # c => upsert'[d] = upsert[d]
           /\ \A j \in Jobs : ~Active(j) => jobs'[j] = jobs[j]
           /\ \/ row' = row /\ ~upsert[c].new
              \/ \E a \in Rows : /\ a = upsert[c].appt /\ upsert[c].event \in Events
                                 /\ row'[a] = [row[a] EXCEPT !.event = upsert[c].event]
                                 /\ \A b \in Appts : b # a => row'[b] = row[b]
           /\ UNCHANGED <<block, sync, event, feed, astray>>
<1>0. Typed /\ Kept /\ Busy /\ SyncKept /\ CallKept(c)
  BY DEF Base, Kept
<1>1. /\ UNCHANGED <<block, connected, sync, event, feed, pinged, token, astray, edits, failures>>
      /\ upsert[c] # Idle /\ upsert[c].pc = "save" /\ upsert[c] \in Upsert
      /\ Leave(c)
  BY <1>0 DEF SaveEvent, google, Typed
<1>2. /\ jobs' \in [Jobs -> Job \cup {None}]
      /\ \A j \in Jobs : jobs'[j] = IF c = "worker" /\ Active(j) THEN None ELSE jobs[j]
  BY <1>0 DEF SaveEvent, Typed
<1>3. /\ Busy'
      /\ upsert' \in [Callers -> Upsert \cup {Idle}] /\ exporting' \subseteq Appts
      /\ upsert'[c] = Idle /\ \A d \in Callers : d # c => upsert'[d] = upsert[d]
  BY <1>1, <1>2, WorkerLeaves
<1>4. \/ row' = row /\ ~upsert[c].new
      \/ \E a \in Rows : /\ a = upsert[c].appt /\ upsert[c].event \in Events
                         /\ row' = [row EXCEPT ![a] = [row[a] EXCEPT !.event = upsert[c].event]]
  BY <1>0, <1>1, CallFacts DEF SaveEvent, CallKept
<1>5. /\ row' \in [Appts -> Row \cup {Absent, Deleted}]
      /\ RowsGoOn
      /\ \A a \in Appts : RowKept(a)'
      /\ \/ row' = row /\ ~upsert[c].new
         \/ \E a \in Rows : /\ a = upsert[c].appt /\ upsert[c].event \in Events
                            /\ row'[a] = [row[a] EXCEPT !.event = upsert[c].event]
                            /\ \A b \in Appts : b # a => row'[b] = row[b]
  <2>1. CASE row' = row /\ ~upsert[c].new
    <3>1. RowsGoOn /\ EventsGoOn
      BY <1>1, <2>1, SameRows, SameEvents
    <3> QED
      BY <1>0, <2>1, <3>1, KeptOn DEF Typed
  <2>2. CASE ~(row' = row /\ ~upsert[c].new)
    <3>1. PICK a \in Rows : /\ a = upsert[c].appt /\ upsert[c].event \in Events
                            /\ row' = [row EXCEPT ![a] = [row[a] EXCEPT !.event = upsert[c].event]]
      BY <1>4, <2>2
    <3>2. a \in Appts /\ row[a] \in Row
      BY <1>0, <3>1 DEF Typed, Rows
    <3> DEFINE r == [row[a] EXCEPT !.event = upsert[c].event]
    <3>3. r \in Row /\ r.event = upsert[c].event /\ r # Absent /\ r # Deleted
      <4>1. r \in Row /\ r.event = upsert[c].event
        BY <3>1, <3>2 DEF Row
      <4> QED
        BY <4>1, RowFacts
    <3>4. row' = [row EXCEPT ![a] = r]
      BY <3>1
    <3>5. /\ row'[a] = r /\ \A b \in Appts : b # a => row'[b] = row[b]
          /\ row' \in [Appts -> Row \cup {Absent, Deleted}]
      BY <1>0, <3>2, <3>3, <3>4 DEF Typed
    <3>6. row'[a] = [row[a] EXCEPT !.event = upsert[c].event]
      BY <3>5
    <3> HIDE DEF r
    <3>7. RowsGoOn /\ EventsGoOn
      BY <1>1, <3>1, <3>3, <3>5, SameEvents, IdFacts DEF RowsGoOn, Rows
    <3>8. RowKept(a)'
      BY <1>0, <1>1, <3>1, <3>3, <3>5 DEF CallKept, RowKept
    <3> QED
      BY <1>0, <3>1, <3>5, <3>6, <3>7, <3>8, KeptOn
  <2> QED
    BY <2>1, <2>2
<1>6. EventsGoOn
  BY <1>1, SameEvents
<1>7. Typed'
  BY <1>0, <1>1, <1>2, <1>3, <1>5 DEF Typed
<1>8. Kept'
  <2>1. CallKept(c)'
    BY <1>3 DEF CallKept
  <2>2. \A j \in Jobs : JobKept(j)'
    BY <1>0, <1>2, <1>5, <1>6, KeptOn, JobGoesOn
  <2> QED
    BY <1>0, <1>1, <1>3, <1>5, <1>6, <2>1, <2>2, KeptOn DEF Kept, FeedKept
<1>9. SyncKept'
  BY <1>0, <1>1 DEF SyncKept, ToDo
<1> QED
  BY <1>1, <1>2, <1>3, <1>5, <1>7, <1>8, <1>9 DEF Base

\* A call is given up, and left to the next attempt or to nobody.
LEMMA GiveUpStep ==
    ASSUME Base, NEW c \in Callers, UpsertFails(c) \/ UpsertRefused(c)
    PROVE  /\ Base'
           /\ upsert'[c] = Idle
           /\ \A d \in Callers : d # c => upsert'[d] = upsert[d]
           /\ \A j \in Jobs : ~Active(j) => jobs'[j] = jobs[j]
           /\ astray \subseteq astray'
           /\ \/ upsert[c].appt \in astray'
              \/ \E j \in Jobs : /\ jobs'[j] # None /\ ~Active(j)'
                                 /\ jobs'[j].kind = "upsert" /\ jobs'[j].appt = upsert[c].appt
           /\ UNCHANGED <<row, block, sync, event, feed>>
<1>0. Typed /\ Kept /\ Busy /\ SyncKept
  BY DEF Base
<1>1. /\ upsert[c] # Idle /\ GiveUp(c) /\ failures' \in 0..MaxFailures
  BY <1>0, CountsOn DEF UpsertFails, UpsertRefused, Typed
<1>2. /\ UNCHANGED <<row, block, connected, sync, event, feed, pinged, token, edits>>
      /\ upsert[c] \in Upsert /\ upsert[c].appt \in Appts
      /\ Leave(c)
  BY <1>0, <1>1, CallFacts DEF GiveUp, crm, google, Typed
<1>3. \A j \in Jobs : Active(j) => jobs[j] \in Job /\ Retried(jobs[j]) \in Job \cup {None}
  BY <1>0, JobFacts DEF Typed, Active
<1>4. \A j \in Jobs : jobs'[j] = IF c = "worker" /\ Active(j) THEN Retried(jobs[j]) ELSE jobs[j]
  BY <1>1 DEF GiveUp
<1>5. jobs' \in [Jobs -> Job \cup {None}]
  BY <1>0, <1>1, <1>3 DEF GiveUp, Typed
<1>6. \A j \in Jobs : IF c = "worker" /\ Active(j)
                      THEN jobs'[j] = None \/ jobs'[j].state = "waiting" ELSE jobs'[j] = jobs[j]
  BY <1>3, <1>4, JobFacts
<1>7. /\ Busy'
      /\ upsert' \in [Callers -> Upsert \cup {Idle}] /\ exporting' \subseteq Appts
      /\ upsert'[c] = Idle /\ \A d \in Callers : d # c => upsert'[d] = upsert[d]
  BY <1>1, <1>2, <1>6, WorkerLeaves
<1>8. /\ astray \subseteq astray' /\ astray' \subseteq Appts \cup AllEvents
      /\ \/ upsert[c].appt \in astray'
         \/ \E j \in Jobs : /\ jobs'[j] # None /\ ~Active(j)'
                            /\ jobs'[j].kind = "upsert" /\ jobs'[j].appt = upsert[c].appt
  <2>1. CASE c = "worker" /\ \E j \in Jobs : Active(j) /\ jobs[j].left > 1
    <3>1. PICK j \in Jobs : Active(j) /\ jobs[j].left > 1
      BY <2>1
    <3>2. jobs[j].kind = "upsert" /\ jobs[j].appt = upsert["worker"].appt
      BY <1>0, <1>1, <2>1, <3>1 DEF Busy
    <3>3. jobs'[j] = Retried(jobs[j]) /\ jobs[j] \in Job
      BY <1>3, <1>4, <2>1, <3>1
    <3>4. jobs'[j] # None /\ jobs'[j].state = "waiting" /\ jobs'[j].kind = "upsert" /\ jobs'[j].appt = upsert[c].appt
      BY <2>1, <3>1, <3>2, <3>3, JobFacts
    <3>5. astray' = astray
      BY <1>1, <2>1 DEF GiveUp
    <3> QED
      BY <1>0, <3>4, <3>5 DEF Active, Typed
  <2>2. CASE ~(c = "worker" /\ \E j \in Jobs : Active(j) /\ jobs[j].left > 1)
    <3>1. astray' = astray \cup {upsert[c].appt}
      BY <1>1, <2>2 DEF GiveUp
    <3> QED
      BY <1>0, <1>2, <3>1 DEF Typed
  <2> QED
    BY <2>1, <2>2
<1>9. RowsGoOn /\ EventsGoOn
  BY <1>2, SameRows, SameEvents
<1>10. Typed'
  BY <1>0, <1>1, <1>2, <1>5, <1>7, <1>8 DEF Typed
<1>11. Kept'
  <2>1. CallKept(c)'
    BY <1>7 DEF CallKept
  <2>2. ASSUME NEW j \in Jobs PROVE JobKept(j)'
    <3>1. CASE c = "worker" /\ Active(j)
      <4>1. jobs'[j] = None \/ /\ jobs[j] # None /\ jobs'[j].kind = jobs[j].kind
                               /\ jobs'[j].appt = jobs[j].appt /\ jobs'[j].event = jobs[j].event
                               /\ jobs'[j].state # "announced"
        BY <1>3, <1>4, <3>1, JobFacts DEF Active
      <4> QED
        BY <1>0, <1>9, <4>1, JobGoesOn
    <3>2. CASE ~(c = "worker" /\ Active(j))
      BY <1>0, <1>4, <1>9, <3>2, KeptOn
    <3> QED
      BY <3>1, <3>2
  <2> QED
    BY <1>0, <1>2, <1>7, <1>9, <2>1, <2>2, KeptOn DEF Kept, FeedKept
<1>12. SyncKept'
  BY <1>0, <1>2 DEF SyncKept, ToDo
<1> QED
  BY <1>2, <1>4, <1>7, <1>8, <1>10, <1>11, <1>12 DEF Base

-----------------------------------------------------------------------------
(* The steps of deletions, notifications and people in Google *)

\* An event changes, and nothing of the CRM but the queue.
LEMMA HandStep ==
    ASSUME Base, HandCreate \/ HandMove \/ HandDelete
    PROVE  /\ Base'
           /\ \E e \in AllEvents : ChangedOnly(e)
           /\ EventsGoOn
           /\ UNCHANGED <<row, block, jobs, upsert, astray>>
<1>0. Typed /\ Kept /\ Busy /\ SyncKept
  BY DEF Base
<1>1. PICK e \in AllEvents, x \in Event :
         /\ Changes(e, x)
         /\ event[e] # Absent => x.appt = event[e].appt
         /\ event[e] = Absent => e \in Externals /\ x.appt = None
  <2>1. CASE HandCreate
    BY <2>1, EventFacts, IdFacts DEF HandCreate
  <2>2. CASE HandMove
    <3>1. PICK e \in AllEvents, t \in Times :
             event[e] # Absent /\ Changes(e, [event[e] EXCEPT !.time = t, !.by = "HAND"])
      BY <2>2 DEF HandMove
    <3> DEFINE x == [event[e] EXCEPT !.time = t, !.by = "HAND"]
    <3>2. event[e] \in Event
      BY <1>0, <3>1 DEF Typed
    <3>3. x \in Event /\ x.appt = event[e].appt
      BY <3>1, <3>2 DEF Event
    <3> QED
      BY <3>1, <3>3
  <2>3. CASE HandDelete
    <3>1. PICK e \in AllEvents :
             event[e] # Absent /\ Changes(e, [event[e] EXCEPT !.live = FALSE, !.by = "HAND"])
      BY <2>3 DEF HandDelete
    <3> DEFINE x == [event[e] EXCEPT !.live = FALSE, !.by = "HAND"]
    <3>2. event[e] \in Event
      BY <1>0, <3>1 DEF Typed
    <3>3. x \in Event /\ x.appt = event[e].appt
      BY <3>2 DEF Event
    <3> QED
      BY <3>1, <3>3
  <2> QED
    BY <2>1, <2>2, <2>3
<1>2. /\ UNCHANGED <<row, block, connected, jobs, upsert, exporting, token, astray, failures>>
      /\ Edit
  BY DEF HandCreate, HandMove, HandDelete, crm
<1>3. /\ event' \in [AllEvents -> Event \cup {Absent}]
      /\ event'[e] = x /\ x # Absent /\ \A f \in AllEvents : f # e => event'[f] = event[f]
      /\ feed' = feed \cup {e} /\ feed' \subseteq AllEvents
      /\ pinged' \in BOOLEAN
      /\ sync' = Idle \/ sync' \in Sync
      /\ sync' = Idle <=> sync = Idle
      /\ sync' # Idle => /\ e \in sync'.fresh
                         /\ sync'.listed = sync.listed /\ sync'.pc = sync.pc
                         /\ sync'.event = sync.event /\ sync'.seen = sync.seen
                         /\ sync'.appt = sync.appt /\ sync.fresh \subseteq sync'.fresh
      /\ EventsGoOn /\ SyncKept' /\ FeedKept'
  BY <1>0, <1>1, ChangesOn
<1>4. RowsGoOn
  BY <1>2, SameRows
<1>5. Kept'
  <2>1. EventKept(e)'
    <3>1. CASE event[e] # Absent
      BY <1>0, <1>3, <1>4, <3>1, KeptOn
    <3>2. CASE event[e] = Absent
      BY <1>1, <1>3, <3>2, IdFacts DEF EventKept
    <3> QED
      BY <3>1, <3>2
  <2>2. \A f \in AllEvents : EventKept(f)'
    BY <1>0, <1>3, <1>4, <2>1, KeptOn
  <2> QED
    BY <1>0, <1>2, <1>3, <1>4, <2>2, KeptOn DEF Kept
<1>6. Typed'
  BY <1>0, <1>2, <1>3, CountsOn DEF Typed
<1>7. Busy'
  BY <1>0, <1>2, <1>3, BusyOn DEF Active
<1> QED
  BY <1>2, <1>3, <1>5, <1>6, <1>7 DEF Base, ChangedOnly

\* DeleteEvent and DeleteFails.
LEMMA DeleteStep ==
    ASSUME Base, NEW j \in Jobs, DeleteEvent(j) \/ DeleteFails(j)
    PROVE  /\ Base'
           /\ (\E e \in AllEvents : ChangedOnly(e)) \/ UNCHANGED <<event, feed, sync>>
           /\ EventsGoOn
           /\ astray \subseteq astray'
           /\ \A i \in Jobs : i # j => jobs'[i] = jobs[i]
           /\ jobs[j].kind = "delete" /\ jobs[j] # None /\ \A i \in Jobs : ~Active(i)
           /\ UNCHANGED <<row, block, upsert>>
<1>0. Typed /\ Kept /\ Busy /\ SyncKept /\ JobKept(j)
  BY DEF Base, Kept
<1>1. /\ UNCHANGED <<row, block, connected, upsert, exporting, token, edits>>
      /\ jobs[j] # None /\ jobs[j].kind = "delete" /\ jobs[j].state = "waiting" /\ WorkerIdle
      /\ Removes(jobs[j]) \/ UNCHANGED <<event, feed, pinged, sync>>
      /\ failures' \in 0..MaxFailures
  BY <1>0, CountsOn DEF DeleteEvent, DeleteFails, Waits, crm, google, Typed
<1>2. /\ jobs[j] \in Job /\ jobs[j].appt \in Appts
      /\ \A i \in Jobs : ~Active(i)
      /\ jobs[j].event # None => jobs[j].event \in AllEvents /\ event[jobs[j].event] \in Event
  BY <1>0, <1>1, JobFacts, IdFacts DEF Typed, Active, WorkerIdle, JobKept
<1>3. /\ jobs' \in [Jobs -> Job \cup {None}]
      /\ \A i \in Jobs : i # j => jobs'[i] = jobs[i]
      /\ jobs'[j] = None \/ jobs'[j] = Retried(jobs[j])
      /\ astray \subseteq astray' /\ astray' \subseteq Appts \cup AllEvents
  BY <1>0, <1>2, JobFacts DEF DeleteEvent, DeleteFails, Typed
<1>4. \/ UNCHANGED <<event, feed, pinged, sync>>
      \/ /\ jobs[j].event \in AllEvents
         /\ \E x \in Event : Changes(jobs[j].event, x) /\ x.appt = event[jobs[j].event].appt
  <2>1. CASE jobs[j].event # None /\ Changes(jobs[j].event, [event[jobs[j].event] EXCEPT !.live = FALSE, !.by = "CRM"])
    <3> DEFINE x == [event[jobs[j].event] EXCEPT !.live = FALSE, !.by = "CRM"]
    <3>1. x \in Event /\ x.appt = event[jobs[j].event].appt
      BY <1>2, <2>1 DEF Event
    <3> QED
      BY <1>2, <2>1, <3>1
  <2> QED
    BY <1>1, <2>1 DEF Removes, google
<1>5. /\ event' \in [AllEvents -> Event \cup {Absent}] /\ feed' \subseteq AllEvents
      /\ pinged' \in BOOLEAN /\ (sync' = Idle \/ sync' \in Sync)
      /\ sync' = Idle <=> sync = Idle
      /\ EventsGoOn /\ SyncKept' /\ FeedKept'
      /\ (\E e \in AllEvents : ChangedOnly(e)) \/ UNCHANGED <<event, feed, sync>>
  <2>1. CASE UNCHANGED <<event, feed, pinged, sync>>
    BY <1>0, <2>1, SameEvents DEF Typed, Kept, FeedKept, SyncKept, ToDo
  <2>2. ASSUME jobs[j].event \in AllEvents, NEW x \in Event, Changes(jobs[j].event, x),
               x.appt = event[jobs[j].event].appt
        PROVE  <1>5!:
    BY <1>0, <2>2, ChangesOn DEF ChangedOnly
  <2> QED
    BY <1>4, <2>1, <2>2
<1>6. RowsGoOn
  BY <1>1, SameRows
<1>7. Kept'
  <2>1. JobKept(j)'
    <3>1. jobs'[j] = None \/ /\ jobs[j] # None /\ jobs'[j].kind = jobs[j].kind
                             /\ jobs'[j].appt = jobs[j].appt /\ jobs'[j].event = jobs[j].event
                             /\ jobs'[j].state # "announced"
      BY <1>1, <1>2, <1>3, JobFacts
    <3> QED
      BY <1>0, <1>5, <1>6, <3>1, JobGoesOn
  <2>2. \A e \in AllEvents : EventKept(e)'
    <3> TAKE e \in AllEvents
    <3>1. event[e] # Absent \/ event'[e] = Absent
      <4>1. CASE UNCHANGED <<event, feed, pinged, sync>>
        BY <4>1
      <4>2. ASSUME jobs[j].event \in AllEvents, NEW x \in Event, Changes(jobs[j].event, x),
                   x.appt = event[jobs[j].event].appt
            PROVE  event[e] # Absent \/ event'[e] = Absent
        <5>1. jobs[j].event = e => event[e] # Absent
          BY <1>2, <4>2, IdFacts, EventFacts
        <5>2. e # jobs[j].event => event'[e] = event[e]
          BY <1>0, <4>2, ChangesOn
        <5> QED
          BY <5>1, <5>2
      <4> QED
        BY <1>4, <4>1, <4>2
    <3> QED
      BY <1>0, <1>5, <1>6, <3>1, KeptOn
  <2> QED
    BY <1>0, <1>1, <1>3, <1>5, <1>6, <2>1, <2>2, KeptOn DEF Kept
<1>8. Typed'
  BY <1>0, <1>1, <1>3, <1>5 DEF Typed
<1>9. Busy'
  <2>1. \A i \in Jobs : ~Active(i)'
    BY <1>2, <1>3, JobFacts DEF Active
  <2> QED
    BY <1>0, <1>1, <1>2, <1>5, <2>1, BusyOn
<1> QED
  BY <1>1, <1>2, <1>3, <1>5, <1>7, <1>8, <1>9 DEF Base

\* Webhook and LosePing.
LEMMA PingStep ==
    ASSUME Base, Webhook \/ LosePing
    PROVE  /\ Base'
           /\ \A j \in Jobs : jobs[j] # None => jobs'[j] = jobs[j]
           /\ UNCHANGED <<row, block, upsert, sync, event, feed, astray>>
<1>0. Typed /\ Kept /\ Busy /\ SyncKept
  BY DEF Base
<1>1. /\ UNCHANGED <<row, block, connected, upsert, sync, exporting, event, feed, token, astray, edits>>
      /\ pinged' = FALSE /\ failures' \in 0..MaxFailures
  BY <1>0, CountsOn DEF Webhook, LosePing, crm, Typed
<1> DEFINE x == [kind |-> "sync", appt |-> None, event |-> None, left |-> MaxAttempts, state |-> "waiting"]
<1>2. x \in Job /\ x.kind = "sync" /\ x.appt = None /\ x.event = None /\ x.state = "waiting"
  BY NewJob
<1>3. jobs' = jobs \/ \E j \in Jobs : jobs[j] = None /\ jobs' = [jobs EXCEPT ![j] = x]
  BY DEF Webhook, LosePing
<1> HIDE DEF x
<1>4. /\ jobs' \in [Jobs -> Job \cup {None}] /\ Kept' /\ Busy' /\ SyncKept'
      /\ \A j \in Jobs : jobs[j] # None => jobs'[j] = jobs[j]
  <2>1. CASE jobs' = jobs
    BY <1>0, <1>1, <2>1, SameRows, SameEvents, KeptOn, BusyOn
       DEF Typed, Kept, FeedKept, SyncKept, ToDo, Active
  <2>2. ASSUME NEW j \in Jobs, jobs[j] = None, jobs' = [jobs EXCEPT ![j] = x] PROVE <1>4!:
    <3>1. ~Active(j)
      BY <2>2 DEF Active
    <3> QED
      BY <1>1, <1>2, <2>2, <3>1, JobChanges
  <2> QED
    BY <1>3, <2>1, <2>2
<1>5. Typed'
  BY <1>0, <1>1, <1>4 DEF Typed
<1> QED
  BY <1>1, <1>4, <1>5 DEF Base

-----------------------------------------------------------------------------
(* The steps of the incremental sync *)

\* A sync's job is the worker's.
LEMMA SyncIsBusy ==
    ASSUME Busy, sync # Idle
    PROVE  /\ upsert["worker"] = Idle
           /\ \E j \in Jobs : Active(j)
           /\ \A j \in Jobs : Active(j) => jobs[j].kind = "sync"
  BY DEF Busy, WorkerIdle, Active

LEMMA TakeSyncStep ==
    ASSUME Base, NEW j \in Jobs, TakeSync(j)
    PROVE  /\ Base'
           /\ sync = Idle /\ sync' # Idle /\ sync'.pc = "next" /\ sync'.fresh = {}
           /\ \A e \in feed : e \in ToDo' \cup astray'
           /\ astray \subseteq astray'
           /\ jobs[j].kind = "sync" /\ \A i \in Jobs : ~Active(i) /\ (i # j => jobs'[i] = jobs[i])
           /\ UNCHANGED <<row, block, upsert, event, feed>>
<1>0. Typed /\ Kept /\ Busy /\ SyncKept /\ FeedKept
  BY DEF Base, Kept
<1> DEFINE listed == {e \in feed : token \/ event[e].live}
           seen == [e \in AllEvents |-> IF e \in listed THEN event[e] ELSE Absent]
           s == [pc |-> "next", listed |-> listed, fresh |-> {}, seen |-> seen, appt |-> None, event |-> None]
           x == [jobs[j] EXCEPT !.state = "active"]
<1>1. /\ UNCHANGED <<row, block, connected, upsert, exporting, event, feed, pinged, token, edits, failures>>
      /\ jobs[j] # None /\ jobs[j].kind = "sync" /\ jobs[j].state = "waiting" /\ WorkerIdle
      /\ sync' = s /\ jobs' = [jobs EXCEPT ![j] = x]
      /\ astray' = astray \cup {e \in feed : ~token /\ ~event[e].live}
  BY DEF TakeSync, Waits, crm, google
<1>2. /\ jobs[j] \in Job /\ sync = Idle /\ upsert["worker"] = Idle
      /\ \A i \in Jobs : ~Active(i)
  BY <1>0, <1>1 DEF Typed, Busy, Active, WorkerIdle
<1>3. listed \subseteq feed /\ listed \subseteq AllEvents /\ feed \subseteq AllEvents
  BY <1>0 DEF Typed
<1>4. seen \in [AllEvents -> Event \cup {Absent}]
  BY <1>0 DEF Typed
<1>5. s \in Sync
  BY <1>3, <1>4 DEF Sync
<1>6. s # Idle /\ s.pc = "next" /\ s.listed = listed /\ s.fresh = {} /\ s.seen = seen
  BY <1>5, SyncFacts
<1>7. \A e \in listed : seen[e] = event[e]
  BY <1>3
<1>8. x \in Job /\ x.state = "active" /\ x.kind = "sync" /\ x.appt = jobs[j].appt /\ x.event = jobs[j].event /\ x # None
  BY <1>1, <1>2, JobFacts
<1>9. \A e \in feed : e \in listed \/ e \in astray'
  BY <1>1
<1> HIDE DEF listed, seen, s, x
<1>10. /\ jobs' \in [Jobs -> Job \cup {None}] /\ jobs'[j] = x
       /\ \A i \in Jobs : i # j => jobs'[i] = jobs[i]
  BY <1>0, <1>1, <1>8 DEF Typed
<1>11. ToDo' = listed
  BY <1>1, <1>6 DEF ToDo
<1>12. SyncKept'
  BY <1>0, <1>1, <1>3, <1>6, <1>7, <1>11 DEF SyncKept, FeedKept
<1>13. Busy'
  <2>1. \A i \in Jobs : Active(i)' <=> i = j
    BY <1>2, <1>8, <1>10 DEF Active
  <2>2. ~WorkerIdle'
    BY <1>8, <1>10 DEF WorkerIdle
  <2> QED
    BY <1>1, <1>2, <1>6, <1>8, <1>10, <2>1, <2>2 DEF Busy
<1>14. RowsGoOn /\ EventsGoOn
  BY <1>1, SameRows, SameEvents
<1>15. Kept'
  <2>1. JobKept(j)'
    BY <1>0, <1>1, <1>8, <1>10, <1>14, JobGoesOn
  <2> QED
    BY <1>0, <1>1, <1>10, <1>14, <2>1, KeptOn DEF Kept, FeedKept
<1>16. Typed'
  BY <1>0, <1>1, <1>5, <1>10 DEF Typed
<1> QED
  BY <1>1, <1>2, <1>6, <1>9, <1>10, <1>11, <1>12, <1>13, <1>15, <1>16 DEF Base

LEMMA TokenExpiresStep ==
    ASSUME Base, NEW j \in Jobs, TokenExpires(j)
    PROVE  /\ Base'
           /\ sync = Idle
           /\ feed' = {e \in AllEvents : event[e] # Absent}
           /\ jobs[j].kind = "sync" /\ \A i \in Jobs : ~Active(i) /\ (i # j => jobs'[i] = jobs[i])
           /\ UNCHANGED <<row, block, upsert, sync, event, astray>>
<1>0. Typed /\ Kept /\ Busy /\ SyncKept
  BY DEF Base
<1>1. /\ UNCHANGED <<row, block, connected, upsert, sync, exporting, event, pinged, astray, edits>>
      /\ jobs[j] # None /\ jobs[j].kind = "sync" /\ jobs[j].state = "waiting" /\ WorkerIdle
      /\ token' = FALSE /\ jobs' = [jobs EXCEPT ![j] = None] /\ Fail
      /\ feed' = {e \in AllEvents : event[e] # Absent}
  BY DEF TokenExpires, Waits, crm
<1>2. sync = Idle /\ \A i \in Jobs : ~Active(i)
  BY <1>0, <1>1 DEF Busy, Active, WorkerIdle
<1>3. /\ jobs' \in [Jobs -> Job \cup {None}] /\ jobs'[j] = None
      /\ \A i \in Jobs : i # j => jobs'[i] = jobs[i]
  BY <1>0, <1>1 DEF Typed
<1>4. RowsGoOn /\ EventsGoOn
  BY <1>1, SameRows, SameEvents
<1>5. Kept'
  <2>1. JobKept(j)' /\ FeedKept'
    BY <1>1, <1>3 DEF JobKept, FeedKept
  <2> QED
    BY <1>0, <1>1, <1>3, <1>4, <2>1, KeptOn DEF Kept
<1>6. Typed'
  BY <1>0, <1>1, <1>3, CountsOn DEF Typed
<1>7. Busy'
  <2>1. \A i \in Jobs : ~Active(i)'
    BY <1>2, <1>3 DEF Active
  <2> QED
    BY <1>0, <1>1, <1>2, <2>1, BusyOn
<1>8. SyncKept'
  BY <1>1, <1>2 DEF SyncKept
<1> QED
  BY <1>1, <1>2, <1>3, <1>5, <1>6, <1>7, <1>8 DEF Base

\* The sync moves on, and leaves out e.
LEMMA SyncMoves ==
    ASSUME Base, sync # Idle, sync' \in Sync, sync'.seen = sync.seen, sync'.fresh = sync.fresh,
           ToDo' \subseteq ToDo,
           sync'.pc = "apply" => sync'.appt # None /\ sync'.appt = event[sync'.event].appt,
           UNCHANGED <<jobs, upsert, event, feed>>, RowsGoOn, \A a \in Appts : RowKept(a)'
    PROVE  Kept' /\ Busy' /\ SyncKept'
<1>0. Typed /\ Kept /\ Busy /\ SyncKept
  BY DEF Base
<1>1. EventsGoOn /\ sync' # Idle
  BY SameEvents, SyncFacts
<1>2. Kept'
  BY <1>0, <1>1, KeptOn DEF Kept, FeedKept
<1>3. Busy'
  BY <1>0, <1>1, BusyOn DEF Active
<1>4. SyncKept'
  BY <1>0, <1>1 DEF SyncKept
<1> QED
  BY <1>2, <1>3, <1>4

LEMMA ReconcileStep ==
    ASSUME Base, Reconcile
    PROVE  /\ Base'
           /\ sync # Idle /\ sync' # Idle /\ sync'.fresh = sync.fresh
           /\ \E e \in ToDo :
                 /\ \A f \in ToDo : f # e => f \in ToDo'
                 /\ \A f \in Externals : f # e => block'[f] = block[f]
                 /\ e \in Externals =>
                       block'[e] = IF sync.seen[e].live THEN sync.seen[e].time ELSE None
                 /\ e \in Events =>
                       \/ e \in ToDo'
                       \/ sync.seen[e].appt \notin Rows
                       \/ sync.seen[e].live /\ sync.seen[e].time = row[sync.seen[e].appt].time
                 /\ \A x : x \in astray => x \in astray' \/ (x = e /\ e \in Externals)
           /\ UNCHANGED <<row, jobs, upsert, event, feed>>
<1>0. Typed /\ Kept /\ Busy /\ SyncKept
  BY DEF Base
<1>1. /\ sync # Idle /\ sync.pc = "next"
      /\ UNCHANGED <<row, connected, jobs, upsert, exporting, event, feed, pinged, token, edits, failures>>
  BY DEF Reconcile, google
<1>2. PICK e \in sync.listed : ReconcileOurs(e) \/ ReconcileExternal(e)
  BY DEF Reconcile
<1>3. sync \in Sync /\ ToDo = sync.listed /\ e \in AllEvents /\ sync.listed \subseteq AllEvents
  BY <1>0, <1>1, <1>2, SyncFacts DEF Typed, ToDo
<1>4. /\ sync.seen[e] \in Event /\ sync.seen[e].appt = event[e].appt /\ event[e] # Absent
      /\ e \in Externals <=> sync.seen[e].appt = None
      /\ e \in Events <=> sync.seen[e].appt # None
  <2>1. sync.seen[e] # Absent /\ sync.seen[e].appt = event[e].appt /\ e \in feed
    BY <1>0, <1>1, <1>2, <1>3 DEF SyncKept
  <2>2. event[e] # Absent
    BY <1>0, <2>1 DEF Kept, FeedKept
  <2>3. sync.seen[e] \in Event
    BY <1>3, <2>1, SyncFacts
  <2> QED
    BY <1>0, <1>3, <2>1, <2>2, <2>3, IdFacts DEF Kept, EventKept
<1>5. RowsGoOn /\ \A a \in Appts : RowKept(a)'
  BY <1>0, <1>1, SameRows, SameEvents, KeptOn
<1>6. CASE sync' = [sync EXCEPT !.listed = sync.listed \ {e}]
  <2>1. /\ sync' \in Sync /\ sync'.pc = "next" /\ sync'.listed = sync.listed \ {e} /\ sync'.seen = sync.seen
        /\ sync'.fresh = sync.fresh
    <3>1. sync.listed \ {e} \in SUBSET AllEvents
      BY <1>3
    <3> QED
      BY <1>1, <1>3, <1>6, <3>1 DEF Sync
  <2>2. ToDo' = ToDo \ {e}
    BY <1>3, <2>1 DEF ToDo
  <2>3. Kept' /\ Busy' /\ SyncKept'
    BY <1>1, <1>5, <2>1, <2>2, SyncMoves
  <2>4. CASE ReconcileOurs(e)
    <3>1. block' = block /\ astray' = astray /\ sync.seen[e].appt # None
      BY <2>4 DEF ReconcileOurs
    <3>2. \/ sync.seen[e].appt \notin Rows
          \/ sync.seen[e].live /\ sync.seen[e].time = row[sync.seen[e].appt].time
      <4> SUFFICES ASSUME sync.seen[e].appt \in Rows,
                          ~sync.seen[e].live \/ sync.seen[e].time # row[sync.seen[e].appt].time
                   PROVE  FALSE
        BY <1>4, EventFacts
      <4>1. sync' = [sync EXCEPT !.pc = "apply", !.listed = @ \ {e}, !.appt = sync.seen[e].appt, !.event = e]
        BY <2>4 DEF ReconcileOurs
      <4>2. sync'.pc = "apply"
        BY <1>3, <4>1 DEF Sync
      <4> QED
        BY <2>1, <4>2
    <3>3. Typed'
      BY <1>0, <1>1, <2>1, <3>1 DEF Typed
    <3> QED
      BY <1>1, <1>2, <1>3, <1>4, <2>1, <2>2, <2>3, <3>1, <3>2, <3>3, SyncFacts DEF Base
  <2>5. CASE ReconcileExternal(e)
    <3>1. /\ e \in Externals /\ astray' = astray \ {e}
          /\ block' = [block EXCEPT ![e] = IF sync.seen[e].live THEN sync.seen[e].time ELSE None]
      BY <1>4, <2>5 DEF ReconcileExternal
    <3>2. (IF sync.seen[e].live THEN sync.seen[e].time ELSE None) \in Times \cup {None}
      BY <1>4, EventFacts
    <3>3. /\ block' \in [Externals -> Times \cup {None}]
          /\ block'[e] = IF sync.seen[e].live THEN sync.seen[e].time ELSE None
          /\ \A f \in Externals : f # e => block'[f] = block[f]
      BY <1>0, <3>1, <3>2 DEF Typed
    <3>4. astray' \subseteq Appts \cup AllEvents
      BY <1>0, <3>1 DEF Typed
    <3>5. Typed'
      BY <1>0, <1>1, <2>1, <3>3, <3>4 DEF Typed
    <3> QED
      BY <1>1, <1>2, <1>3, <2>1, <2>2, <2>3, <3>1, <3>3, <3>5, SyncFacts, IdFacts DEF Base
  <2> QED
    BY <1>2, <2>4, <2>5
<1>7. CASE /\ ReconcileOurs(e)
           /\ sync' = [sync EXCEPT !.pc = "apply", !.listed = sync.listed \ {e},
                                   !.appt = sync.seen[e].appt, !.event = e]
  <2>1. block' = block /\ astray' = astray /\ sync.seen[e].appt # None /\ e \in Events
    BY <1>4, <1>7 DEF ReconcileOurs
  <2>2. /\ sync' \in Sync /\ sync'.pc = "apply" /\ sync'.listed = sync.listed \ {e} /\ sync'.seen = sync.seen
        /\ sync'.fresh = sync.fresh /\ sync'.event = e /\ sync'.appt = sync.seen[e].appt
    <3>1. sync.listed \ {e} \in SUBSET AllEvents /\ sync.seen[e].appt \in Appts \cup {None}
      BY <1>3, <1>4, EventFacts
    <3> QED
      BY <1>3, <1>7, <2>1, <3>1 DEF Sync
  <2>3. ToDo' = ToDo
    BY <1>2, <1>3, <2>2 DEF ToDo
  <2>4. Kept' /\ Busy' /\ SyncKept'
    BY <1>1, <1>4, <1>5, <2>1, <2>2, <2>3, SyncMoves
  <2>5. Typed'
    BY <1>0, <1>1, <2>1, <2>2 DEF Typed
  <2> QED
    BY <1>1, <1>2, <1>3, <2>1, <2>2, <2>3, <2>4, <2>5, SyncFacts, IdFacts DEF Base
<1> QED
  BY <1>2, <1>6, <1>7 DEF ReconcileOurs, ReconcileExternal

LEMMA ApplyChangeStep ==
    ASSUME Base, ApplyChange
    PROVE  /\ Base'
           /\ sync # Idle /\ sync' # Idle /\ sync'.fresh = sync.fresh
           /\ sync.pc = "apply"
           /\ sync.event \in ToDo /\ \A f \in ToDo : f # sync.event => f \in ToDo'
           /\ sync.appt \in Rows /\ sync.event \in Events /\ sync.appt = event[sync.event].appt
           /\ row'[sync.appt] = Reconciled(row[sync.appt], sync.seen[sync.event])
           /\ \A b \in Appts : b # sync.appt => row'[b] = row[b]
           /\ UNCHANGED <<block, jobs, upsert, event, feed, astray>>
<1>0. Typed /\ Kept /\ Busy /\ SyncKept
  BY DEF Base
<1> DEFINE a == sync.appt  e == sync.event  x == sync.seen[e]  r == Reconciled(row[a], x)
<1>1. /\ sync # Idle /\ sync.pc = "apply" /\ a \in Rows
      /\ UNCHANGED <<block, connected, jobs, upsert, exporting, event, feed, pinged, token, astray, edits, failures>>
      /\ row' = [row EXCEPT ![a] = r]
      /\ sync' = [sync EXCEPT !.pc = "next", !.appt = None, !.event = None]
  BY <1>0 DEF ApplyChange, Accepted, google, Typed, Rows
<1>2. /\ sync \in Sync /\ e \in ToDo /\ e \in AllEvents /\ a \in Appts /\ row[a] \in Row
      /\ x # Absent /\ x.appt = event[e].appt /\ event[e] # Absent /\ a = event[e].appt
  BY <1>0, <1>1 DEF Typed, SyncKept, ToDo, Kept, FeedKept, Rows
<1>3. x \in Event /\ e \in Events
  BY <1>0, <1>1, <1>2, SyncFacts, IdFacts DEF Kept, EventKept, SyncKept
<1>4. r \in Row /\ r.event = row[a].event
  <2>1. x.time \in Times
    BY <1>3, EventFacts
  <2>2. /\ [row[a] EXCEPT !.time = x.time, !.source = "GOOGLE"] \in Row
        /\ [row[a] EXCEPT !.time = x.time, !.source = "GOOGLE"].event = row[a].event
    BY <1>2, <2>1 DEF Row
  <2>3. /\ [row[a] EXCEPT !.status = "CANCELLED", !.source = "GOOGLE"] \in Row
        /\ [row[a] EXCEPT !.status = "CANCELLED", !.source = "GOOGLE"].event = row[a].event
    BY <1>2 DEF Row
  <2> QED
    BY <2>2, <2>3 DEF Reconciled
<1>5. /\ row' \in [Appts -> Row \cup {Absent, Deleted}]
      /\ row'[a] = r /\ \A b \in Appts : b # a => row'[b] = row[b]
  <2> HIDE DEF r
  <2> QED
    BY <1>0, <1>1, <1>2, <1>4 DEF Typed
<1>6. /\ sync' \in Sync /\ sync'.pc = "next" /\ sync'.listed = sync.listed /\ sync'.seen = sync.seen
      /\ sync'.fresh = sync.fresh
  BY <1>1, <1>2 DEF Sync
<1>7. ToDo' \subseteq ToDo /\ \A f \in ToDo : f # e => f \in ToDo'
  BY <1>1, <1>6 DEF ToDo
<1>8. EventsGoOn /\ RowsGoOn
  <2> HIDE DEF r
  <2> QED
    BY <1>1, <1>2, <1>4, <1>5, SameEvents, RowFacts DEF RowsGoOn, Rows
<1>9. \A b \in Appts : RowKept(b)'
  <2> TAKE b \in Appts
  <2>1. CASE b = a
    <3>1. /\ b \in Rows /\ row'[b].event = row[b].event
          /\ row[b].event # None => row[b].event \in AllEvents
      BY <1>1, <1>2, <1>4, <1>5, <2>1, RowFacts, IdFacts
    <3>2. RowKept(b)
      BY <1>0 DEF Kept
    <3> QED
      BY <1>1, <3>1, <3>2 DEF RowKept
  <2>2. CASE b # a
    BY <1>0, <1>5, <1>8, <2>2, KeptOn
  <2> QED
    BY <2>1, <2>2
<1>10. Kept' /\ Busy' /\ SyncKept'
  BY <1>1, <1>6, <1>7, <1>8, <1>9, SyncMoves
<1>11. Typed'
  BY <1>0, <1>1, <1>5, <1>6 DEF Typed
<1> QED
  BY <1>1, <1>2, <1>3, <1>5, <1>6, <1>7, <1>10, <1>11, SyncFacts DEF Base

\* SyncEnds, SyncFails and SyncRefused.
LEMMA SyncOverStep ==
    ASSUME Base, SyncEnds \/ SyncFails \/ SyncRefused
    PROVE  /\ Base'
           /\ sync # Idle /\ sync' = Idle
           /\ feed' = feed \/ (feed' = sync.fresh /\ ToDo = {})
           /\ \A j \in Jobs : ~Active(j) => jobs'[j] = jobs[j]
           /\ UNCHANGED <<row, block, upsert, event, astray>>
<1>0. Typed /\ Kept /\ Busy /\ SyncKept
  BY DEF Base
<1>1. /\ sync # Idle /\ sync' = Idle
      /\ UNCHANGED <<row, block, connected, upsert, exporting, event, pinged, astray, edits>>
      /\ failures' \in 0..MaxFailures /\ token' \in BOOLEAN
      /\ feed' = feed \/ (feed' = sync.fresh /\ sync.pc = "next" /\ sync.listed = {})
  BY <1>0, CountsOn DEF SyncEnds, SyncFails, SyncRefused, SyncStops, crm, google, Typed
<1>2. /\ \A j \in Jobs : Active(j) => jobs[j] \in Job /\ Retried(jobs[j]) \in Job \cup {None}
      /\ upsert["worker"] = Idle
  BY <1>0, <1>1, JobFacts, SyncIsBusy DEF Typed, Active
<1>3. /\ jobs' \in [Jobs -> Job \cup {None}]
      /\ \A j \in Jobs : Active(j) => jobs'[j] = None \/ jobs'[j] = Retried(jobs[j])
      /\ \A j \in Jobs : ~Active(j) => jobs'[j] = jobs[j]
  BY <1>0, <1>2 DEF SyncEnds, SyncFails, SyncRefused, SyncStops, Typed
<1>4. RowsGoOn /\ EventsGoOn
  BY <1>1, SameRows, SameEvents
<1>5. Kept'
  <2>1. ASSUME NEW j \in Jobs PROVE JobKept(j)'
    <3>1. CASE Active(j)
      <4>1. jobs'[j] = None \/ /\ jobs[j] # None /\ jobs'[j].kind = jobs[j].kind
                               /\ jobs'[j].appt = jobs[j].appt /\ jobs'[j].event = jobs[j].event
                               /\ jobs'[j].state # "announced"
        BY <1>2, <1>3, <3>1, JobFacts DEF Active
      <4> QED
        BY <1>0, <1>4, <4>1, JobGoesOn
    <3>2. CASE ~Active(j)
      BY <1>0, <1>3, <1>4, <3>2, KeptOn
    <3> QED
      BY <3>1, <3>2
  <2>2. FeedKept'
    BY <1>0, <1>1 DEF Kept, FeedKept, SyncKept
  <2> QED
    BY <1>0, <1>1, <1>4, <2>1, <2>2, KeptOn DEF Kept
<1>6. Busy'
  BY <1>0, <1>1, <1>2, <1>3, WorkerRests, JobFacts
<1>7. Typed'
  <2>1. feed' \subseteq AllEvents
    BY <1>0, <1>1 DEF Typed, SyncKept
  <2> QED
    BY <1>0, <1>1, <1>3, <2>1 DEF Typed
<1>8. SyncKept'
  BY <1>1 DEF SyncKept
<1> QED
  BY <1>1, <1>3, <1>5, <1>6, <1>7, <1>8 DEF Base, ToDo

LEMMA BaseInit ==
    Init => Base
<1> SUFFICES ASSUME Init PROVE Base
  OBVIOUS
<1>1. Rows = {} /\ \A j \in Jobs : ~Active(j)
  BY DEF Init, Rows, Active
<1>2. Typed
  <2>1. /\ 0 \in 0..MaxEdits /\ 0 \in 0..MaxFailures
        /\ {FALSE} \subseteq BOOLEAN
    BY BoundsAssumption
  <2>2. row \in [Appts -> Row \cup {Absent, Deleted}]
    BY DEF Init
  <2>3. block \in [Externals -> Times \cup {None}] /\ jobs \in [Jobs -> Job \cup {None}]
    BY DEF Init
  <2>4. upsert \in [Callers -> Upsert \cup {Idle}] /\ event \in [AllEvents -> Event \cup {Absent}]
    BY DEF Init
  <2> QED
    BY <2>1, <2>2, <2>3, <2>4 DEF Init, Typed
<1>3. Kept
  BY <1>1, CallFacts DEF Init, Kept, RowKept, JobKept, CallKept, EventKept, FeedKept
<1>4. Busy
  BY <1>1, CallFacts DEF Init, Busy
<1>5. SyncKept
  BY DEF Init, SyncKept
<1> QED
  BY <1>2, <1>3, <1>4, <1>5 DEF Base

LEMMA BaseStep ==
    ASSUME Base, [Next]_vars
    PROVE  Base'
<1>1. CASE UNCHANGED vars
  <2>1. UNCHANGED <<row, block, connected, jobs, upsert, sync, exporting, event, feed, pinged, token, astray,
                    edits, failures>>
    BY <1>1 DEF vars
  <2>2. RowsGoOn /\ EventsGoOn
    BY <2>1, SameRows, SameEvents
  <2> QED
    BY <2>1, <2>2, KeptOn, BusyOn DEF Base, Typed, Kept, FeedKept, SyncKept, ToDo, Active
<1>2. CASE People
  BY <1>2, WritesAre, WriteStep, RowGoesStep, BlockGoesStep, ExportStep, HandStep DEF People, Writes, Base
<1>3. CASE Progress
  BY <1>3, EnqueueStep, TakeUpsertStep, DeleteStep, TakeSyncStep, CallGoogleStep, SaveEventStep, GiveUpStep,
     PingStep, ReconcileStep, ApplyChangeStep, SyncOverStep, ExportStep DEF Progress
<1>4. CASE Losses
  BY <1>4, EnqueueStep, DeleteStep, TokenExpiresStep, GiveUpStep, PingStep, SyncOverStep DEF Losses
<1> QED
  BY <1>1, <1>2, <1>3, <1>4 DEF Next

\* Rows, events, jobs and the calls under way are always what CalendarSync.tla
\* says they are.
THEOREM TypeCorrect == Spec => []TypeOK
<1>1. Init => heard \in Emitters
  BY DEF Init
<1>2. ASSUME heard \in Emitters, [Next]_vars PROVE (heard \in Emitters)'
  BY <1>2 DEF Next, vars
<1>3. Base /\ heard \in Emitters => TypeOK
  BY DEF Base, TypeOK
<1> QED
  BY <1>1, <1>2, <1>3, BaseInit, BaseStep, PTL DEF Spec
-----------------------------------------------------------------------------
(* What keeps the mirrors in step *)

\* A call to Google is due for appointment a.
Pending(a) ==
    \/ \E j \in Jobs : jobs[j] # None /\ ~Active(j) /\ jobs[j].kind = "upsert" /\ jobs[j].appt = a
    \/ \E c \in Callers : upsert[c] # Idle /\ upsert[c].pc = "call" /\ upsert[c].appt = a

Stands(a) == a \in Rows /\ row[a].status = "ACTIVE" /\ a \notin astray

\* Event e and what mirrors it in the CRM say the same, or a call is due, or it
\* is one of several events of its appointment.
InStep(e) ==
    /\ e \in Externals => block[e] = IF event[e].live THEN event[e].time ELSE None
    /\ \A a \in Appts : event[e].appt = a /\ Stands(a) =>
          \/ Pending(a) \/ ~OnlyEvent(a, e)
          \/ event[e].live /\ event[e].time = row[a].time

\* Appointment a has its event, is getting it, or came from Google.
HasOne(a) ==
    \/ row[a].event # None \/ row[a].source = "GOOGLE"
    \/ \E c \in Callers : upsert[c] # Idle /\ upsert[c].pc = "save" /\ upsert[c].new /\ upsert[c].appt = a

HasEvent == \A a \in Appts : Stands(a) => Pending(a) \/ HasOne(a)

\* The listing after the one under way shows event e.
Fresh(e) == e \in feed /\ (sync # Idle => e \in sync.fresh)

\* What no listing shows any more is in step, and so is what the sync under way
\* has reconciled.
Mirror ==
    /\ \A e \in AllEvents : event[e] # Absent => e \in feed \/ e \in astray \/ InStep(e)
    /\ sync # Idle => \A e \in AllEvents :
          event[e] # Absent => e \in sync.fresh \/ e \in astray \/ e \in ToDo \/ InStep(e)

-----------------------------------------------------------------------------
(* What every step does to an appointment, and to the events *)

\* An event of appointment a is new, or says what the row says.
Told(a) == \E e \in Events : event'[e] # Absent /\ event'[e].appt = a /\ (Fresh(e)' \/ InStep(e)')

Steady(a) == Stands(a)' =>
    \/ Pending(a)'
    \/ HasOne(a)' /\ Told(a)
    \/ Stands(a) /\ ~Pending(a) /\ row'[a].time = row[a].time /\ (HasOne(a) => HasOne(a)')

LEMMA PendingOn ==
    ASSUME NEW a, Pending(a),
           \A j \in Jobs : jobs[j] # None /\ ~Active(j) /\ jobs[j].kind = "upsert" /\ jobs[j].appt = a =>
               jobs'[j] # None /\ ~Active(j)' /\ jobs'[j].kind = "upsert" /\ jobs'[j].appt = a,
           \A c \in Callers : upsert[c] # Idle /\ upsert[c].pc = "call" /\ upsert[c].appt = a =>
               upsert'[c] = upsert[c]
    PROVE  Pending(a)'
  BY DEF Pending

LEMMA HasOneOn ==
    ASSUME NEW a, HasOne(a), row'[a] = row[a],
           \A c \in Callers : upsert[c] # Idle /\ upsert[c].pc = "save" /\ upsert[c].new /\ upsert[c].appt = a =>
               upsert'[c] = upsert[c]
    PROVE  HasOne(a)'
  BY DEF HasOne

\* A step that leaves the row of a alone, and forgets nothing about it.
LEMMA SteadyOn ==
    ASSUME NEW a \in Appts, row'[a] = row[a], a \in astray => a \in astray',
           \A j \in Jobs : jobs[j] # None /\ ~Active(j) /\ jobs[j].kind = "upsert" /\ jobs[j].appt = a =>
               jobs'[j] # None /\ ~Active(j)' /\ jobs'[j].kind = "upsert" /\ jobs'[j].appt = a,
           \A c \in Callers : upsert[c] # Idle /\ (upsert[c].pc = "call" \/ upsert[c].new) /\ upsert[c].appt = a =>
               upsert'[c] = upsert[c]
    PROVE  Steady(a)
<1>1. Stands(a)' => Stands(a)
  BY DEF Stands, Rows
<1>2. Pending(a) => Pending(a)'
  BY PendingOn
<1>3. HasOne(a) => HasOne(a)'
  BY HasOneOn
<1> QED
  BY <1>1, <1>2, <1>3 DEF Steady

LEMMA SteadyWrite ==
    ASSUME Base, Create \/ Reschedule \/ Confirm \/ Cancel, NEW b \in Appts
    PROVE  Steady(b)
<1>0. Typed
  BY DEF Base
<1>1. PICK a, r, kind : Writing(a, r, kind)
  BY <1>0, WritesAre DEF Writes
<1>2. /\ row'[a] = r /\ \A c \in Appts : c # a => row'[c] = row[c]
      /\ astray \subseteq astray'
      /\ \A j \in Jobs : jobs[j] # None => jobs'[j] = jobs[j]
      /\ \/ a \in astray'
         \/ \E j \in Jobs : /\ jobs'[j] # None /\ ~Active(j)'
                            /\ jobs'[j].kind = kind /\ jobs'[j].appt = a
  BY <1>1, WriteStep
<1>3. upsert' = upsert /\ (r.status = "ACTIVE" => kind = "upsert")
  BY <1>1 DEF Writing, Write
<1>4. CASE b # a
  BY <1>2, <1>3, <1>4, SteadyOn DEF Active
<1>5. CASE b = a
  BY <1>2, <1>3, <1>5 DEF Steady, Stands, Pending
<1> QED
  BY <1>4, <1>5

LEMMA SteadyRowGoes ==
    ASSUME Base, Close \/ RemoveClient, NEW b \in Appts
    PROVE  Steady(b)
<1>1. PICK a \in Rows :
        /\ row'[a] = Deleted \/ row'[a] = [row[a] EXCEPT !.status = "DONE"]
        /\ \A c \in Appts : c # a => row'[c] = row[c]
        /\ UNCHANGED <<jobs, upsert, astray>>
  BY RowGoesStep
<1>2. CASE b # a
  BY <1>1, <1>2, SteadyOn DEF Active
<1>3. CASE b = a
  <2>1. row[a] \in Row
    BY <1>1 DEF Base, Typed, Rows
  <2>2. [row[a] EXCEPT !.status = "DONE"].status = "DONE"
    BY <2>1 DEF Row
  <2>3. row'[a] = Deleted \/ row'[a].status = "DONE"
    BY <1>1, <2>2
  <2> QED
    BY <1>3, <2>3 DEF Steady, Stands, Rows
<1> QED
  BY <1>2, <1>3

LEMMA SteadyEnqueue ==
    ASSUME Base, NEW j \in Jobs, Enqueue(j) \/ LoseEnqueue(j), NEW b \in Appts
    PROVE  Steady(b)
<1>1. /\ \A i \in Jobs : i # j => jobs'[i] = jobs[i]
      /\ \A i \in Jobs : Active(i)' <=> Active(i)
      /\ \/ /\ jobs'[j] # None /\ jobs'[j].kind = jobs[j].kind /\ jobs'[j].appt = jobs[j].appt
            /\ astray' = astray
         \/ /\ jobs[j] # None /\ astray' = astray \cup {jobs[j].appt}
      /\ UNCHANGED <<row, upsert>>
  BY EnqueueStep
<1>2. CASE b \in astray'
  BY <1>2 DEF Steady, Stands
<1>3. CASE b \notin astray'
  <2>1. b \notin astray /\ (jobs[j].appt = b => /\ jobs'[j] # None /\ jobs'[j].kind = jobs[j].kind
                                                /\ jobs'[j].appt = jobs[j].appt)
    BY <1>1, <1>3
  <2>2. ASSUME NEW i \in Jobs, jobs[i] # None, ~Active(i), jobs[i].kind = "upsert", jobs[i].appt = b
        PROVE  jobs'[i] # None /\ ~Active(i)' /\ jobs'[i].kind = "upsert" /\ jobs'[i].appt = b
    BY <1>1, <2>1, <2>2
  <2> QED
    BY <1>1, <2>1, <2>2, SteadyOn
<1> QED
  BY <1>2, <1>3
LEMMA SteadyTake ==
    ASSUME Base, NEW j \in Jobs, TakeUpsert(j), NEW b \in Appts
    PROVE  Steady(b)
<1>1. /\ \A i \in Jobs : i # j => jobs'[i] = jobs[i]
      /\ jobs[j] # None
      /\ \/ jobs[j].appt \in astray' /\ astray \subseteq astray' /\ upsert' = upsert
         \/ /\ astray' = astray \ {jobs[j].appt}
            /\ upsert["worker"] = Idle /\ upsert'["worker"] # Idle
            /\ upsert'["worker"].pc = "call" /\ upsert'["worker"].appt = jobs[j].appt
            /\ upsert'["export"] = upsert["export"]
      /\ UNCHANGED row
  BY TakeUpsertStep
<1>2. CASE b = jobs[j].appt
  BY <1>1, <1>2, CallFacts DEF Steady, Stands, Pending
<1>3. CASE b # jobs[j].appt
  <2>1. /\ b \in astray => b \in astray'
        /\ \A c \in Callers : upsert[c] # Idle => upsert'[c] = upsert[c]
    BY <1>1, <1>3 DEF Callers
  <2>2. \A i \in Jobs : jobs[i] # None /\ jobs[i].appt = b => jobs'[i] = jobs[i]
    BY <1>1, <1>3
  <2> QED
    BY <1>1, <2>1, <2>2, SteadyOn DEF Active
<1> QED
  BY <1>2, <1>3

LEMMA SteadyExport ==
    ASSUME Base, ExportNext \/ StartExport \/ Connect, NEW b \in Appts
    PROVE  Steady(b)
<1>1. /\ \/ upsert' = upsert /\ astray' = astray
         \/ \E a \in Rows :
               /\ astray' = astray \ {a}
               /\ upsert["export"] = Idle /\ upsert'["export"] # Idle
               /\ upsert'["export"].pc = "call" /\ upsert'["export"].appt = a
               /\ upsert'["worker"] = upsert["worker"]
      /\ UNCHANGED <<row, jobs>>
  BY ExportStep
<1>2. CASE upsert' = upsert /\ astray' = astray
  BY <1>1, <1>2, SteadyOn DEF Active
<1>3. ASSUME NEW a \in Rows,
             astray' = astray \ {a},
             upsert["export"] = Idle, upsert'["export"] # Idle,
             upsert'["export"].pc = "call", upsert'["export"].appt = a,
             upsert'["worker"] = upsert["worker"]
      PROVE  Steady(b)
  <2>1. CASE b = a
    BY <1>3, <2>1, CallFacts DEF Steady, Pending
  <2>2. CASE b # a
    <3>1. /\ b \in astray => b \in astray'
          /\ \A c \in Callers : upsert[c] # Idle => upsert'[c] = upsert[c]
      BY <1>3, <2>2 DEF Callers
    <3> QED
      BY <1>1, <3>1, SteadyOn DEF Active
  <2> QED
    BY <2>1, <2>2
<1> QED
  BY <1>1, <1>2, <1>3

LEMMA SteadyCall ==
    ASSUME Base, NEW c \in Callers, CallGoogle(c), NEW b \in Appts
    PROVE  Steady(b)
<1>1. /\ Base'
      /\ upsert[c] # Idle /\ upsert'[c] # Idle
      /\ upsert'[c].pc = "save" /\ upsert'[c].appt = upsert[c].appt
      /\ upsert'[c].new = upsert[c].new
      /\ ~upsert[c].new /\ upsert[c].appt \in Rows => row[upsert[c].appt].event # None
      /\ \A d \in Callers : d # c => upsert'[d] = upsert[d]
      /\ UNCHANGED <<row, jobs, astray>>
  BY CallGoogleStep
<1>2. PICK e \in Events : ChangedOnly(e) /\ event'[e].appt = upsert[c].appt
  BY CallGoogleStep
<1>3. CASE b = upsert[c].appt
  <2>1. Told(b)
    BY <1>2, <1>3 DEF Told, ChangedOnly, Fresh
  <2>2. Stands(b)' => HasOne(b)'
    BY <1>1, <1>3 DEF Stands, HasOne, Rows
  <2> QED
    BY <2>1, <2>2 DEF Steady
<1>4. CASE b # upsert[c].appt
  <2>1. \A d \in Callers : upsert[d].appt = b => upsert'[d] = upsert[d]
    BY <1>1, <1>4
  <2> QED
    BY <1>1, <2>1, SteadyOn DEF Active
<1> QED
  BY <1>3, <1>4

LEMMA SteadySave ==
    ASSUME Base, NEW c \in Callers, SaveEvent(c), NEW b \in Appts
    PROVE  Steady(b)
<1>1. /\ upsert[c].pc = "save" /\ upsert'[c] = Idle
      /\ \A d \in Callers : d # c => upsert'[d] = upsert[d]
      /\ \A j \in Jobs : ~Active(j) => jobs'[j] = jobs[j]
      /\ \/ row' = row /\ ~upsert[c].new
         \/ \E a \in Rows : /\ a = upsert[c].appt /\ upsert[c].event \in Events
                            /\ row'[a] = [row[a] EXCEPT !.event = upsert[c].event]
                            /\ \A x \in Appts : x # a => row'[x] = row[x]
      /\ UNCHANGED astray
  BY SaveEventStep
<1>2. \A j \in Jobs : jobs[j] # None /\ ~Active(j) /\ jobs[j].kind = "upsert" /\ jobs[j].appt = b =>
        jobs'[j] # None /\ ~Active(j)' /\ jobs'[j].kind = "upsert" /\ jobs'[j].appt = b
  BY <1>1 DEF Active
<1>3. CASE row' = row /\ ~upsert[c].new
  <2>1. \A d \in Callers : upsert[d].pc = "call" \/ upsert[d].new => upsert'[d] = upsert[d]
    BY <1>1, <1>3
  <2> QED
    BY <1>1, <1>2, <1>3, <2>1, SteadyOn
<1>4. ASSUME NEW a \in Rows, a = upsert[c].appt, upsert[c].event \in Events,
             row'[a] = [row[a] EXCEPT !.event = upsert[c].event],
             \A x \in Appts : x # a => row'[x] = row[x]
      PROVE  Steady(b)
  <2>1. CASE b = a
    <3>1. row[a] \in Row /\ a \in Appts
      BY <1>4 DEF Base, Typed, Rows
    <3>2. LET r == [row[a] EXCEPT !.event = upsert[c].event] IN
          r.time = row[a].time /\ r.status = row[a].status /\ r.event = upsert[c].event
      BY <3>1 DEF Row
    <3>3. row'[a].time = row[a].time /\ row'[a].status = row[a].status /\ row'[a].event # None
      BY <1>4, <3>2, IdFacts
    <3>4. Stands(b)' => Stands(b)
      BY <1>1, <1>4, <2>1, <3>1, <3>3 DEF Stands
    <3>5. Pending(b) => Pending(b)'
      BY <1>1, <1>2, PendingOn
    <3>6. HasOne(b)'
      BY <2>1, <3>3 DEF HasOne
    <3> QED
      BY <2>1, <3>3, <3>4, <3>5, <3>6 DEF Steady
  <2>2. CASE b # a
    <3>1. \A d \in Callers : upsert[d].appt = b => upsert'[d] = upsert[d]
      BY <1>1, <1>4, <2>2
    <3> QED
      BY <1>1, <1>2, <1>4, <2>2, <3>1, SteadyOn
  <2> QED
    BY <2>1, <2>2
<1> QED
  BY <1>1, <1>3, <1>4

LEMMA SteadyGiveUp ==
    ASSUME Base, NEW c \in Callers, UpsertFails(c) \/ UpsertRefused(c), NEW b \in Appts
    PROVE  Steady(b)
<1>1. /\ upsert'[c] = Idle
      /\ \A d \in Callers : d # c => upsert'[d] = upsert[d]
      /\ \A j \in Jobs : ~Active(j) => jobs'[j] = jobs[j]
      /\ astray \subseteq astray'
      /\ \/ upsert[c].appt \in astray'
         \/ \E j \in Jobs : /\ jobs'[j] # None /\ ~Active(j)'
                            /\ jobs'[j].kind = "upsert" /\ jobs'[j].appt = upsert[c].appt
      /\ UNCHANGED row
  BY GiveUpStep
<1>2. CASE b = upsert[c].appt
  BY <1>1, <1>2 DEF Steady, Stands, Pending
<1>3. CASE b # upsert[c].appt
  <2>1. \A d \in Callers : upsert[d].appt = b => upsert'[d] = upsert[d]
    BY <1>1, <1>3
  <2> QED
    BY <1>1, <2>1, SteadyOn DEF Active
<1> QED
  BY <1>2, <1>3

LEMMA SteadyApply ==
    ASSUME Base, ApplyChange, NEW b \in Appts
    PROVE  Steady(b)
<1>0. Typed /\ Kept /\ SyncKept
  BY DEF Base
<1>1. /\ sync # Idle /\ sync' # Idle /\ sync'.fresh = sync.fresh /\ sync.pc = "apply"
      /\ sync.event \in ToDo
      /\ sync.appt \in Rows /\ sync.event \in Events /\ sync.appt = event[sync.event].appt
      /\ row'[sync.appt] = Reconciled(row[sync.appt], sync.seen[sync.event])
      /\ \A x \in Appts : x # sync.appt => row'[x] = row[x]
      /\ UNCHANGED <<jobs, upsert, event, feed, astray>>
  BY ApplyChangeStep
<1>2. CASE b # sync.appt
  BY <1>1, <1>2, SteadyOn DEF Active
<1>3. CASE b = sync.appt
  <2>1. PICK e, x : e = sync.event /\ x = sync.seen[e]
    OBVIOUS
  <2>2. /\ row[b] \in Row /\ b \in Rows /\ e \in Events /\ e \in AllEvents /\ e \in feed
        /\ event[e] # Absent /\ event[e] \in Event /\ event[e].appt = b
        /\ e \in sync.fresh \/ x = event[e]
        /\ x # Absent
    BY <1>0, <1>1, <1>3, <2>1, IdFacts DEF Typed, Rows, SyncKept, Kept, FeedKept
  <2>3. x \in Event
    BY <1>0, <1>1, <2>1, <2>2, SyncFacts DEF Typed
  <2>4. row'[b] = Reconciled(row[b], x)
    BY <1>1, <1>3, <2>1
  <2>5. /\ ~x.live => row'[b].status = "CANCELLED"
        /\ x.live => row'[b].status = row[b].status /\ row'[b].time = x.time /\ row'[b].source = "GOOGLE"
    <3>1. CASE x.live
      <4>1. row'[b] = [row[b] EXCEPT !.time = x.time, !.source = "GOOGLE"]
        BY <2>4, <3>1 DEF Reconciled
      <4> QED
        BY <2>2, <3>1, <4>1 DEF Row
    <3>2. CASE ~x.live
      <4>1. row'[b] = [row[b] EXCEPT !.status = "CANCELLED", !.source = "GOOGLE"]
        BY <2>4, <3>2 DEF Reconciled
      <4> QED
        BY <2>2, <3>2, <4>1 DEF Row
    <3> QED
      BY <3>1, <3>2
  <2>6. Stands(b)' => x.live /\ HasOne(b)'
    BY <2>5 DEF Stands, HasOne
  <2>7. x.live => Told(b)
    <3>1. ASSUME x.live PROVE Fresh(e)' \/ InStep(e)'
      <4>1. CASE e \in sync.fresh
        BY <1>1, <2>2, <4>1 DEF Fresh
      <4>2. CASE x = event[e]
        <5>1. event'[e].live /\ event'[e].appt = b /\ event'[e].time = row'[b].time
          BY <1>1, <2>2, <2>5, <3>1, <4>2
        <5>2. e \notin Externals
          BY <2>2, IdFacts
        <5> QED
          BY <5>1, <5>2 DEF InStep
      <4> QED
        BY <2>2, <4>1, <4>2
    <3> QED
      BY <1>1, <2>2, <3>1 DEF Told
  <2> QED
    BY <2>6, <2>7 DEF Steady
<1> QED
  BY <1>2, <1>3

LEMMA SteadyStep ==
    ASSUME Base, [Next]_vars, NEW b \in Appts
    PROVE  Steady(b)
<1>0. Typed /\ Busy
  BY DEF Base
<1>1. CASE UNCHANGED vars
  BY <1>1, SteadyOn DEF vars, Active
<1>2. CASE People
  <2>1. CASE HandCreate \/ HandMove \/ HandDelete
    BY <2>1, HandStep, SteadyOn DEF Active
  <2>2. CASE DeleteBlock
    BY <2>2, BlockGoesStep, SteadyOn DEF Active
  <2> QED
    BY <1>2, <2>1, <2>2, SteadyWrite, SteadyRowGoes, SteadyExport DEF People
<1>3. ASSUME NEW j \in Jobs, DeleteEvent(j) \/ DeleteFails(j)
      PROVE  Steady(b)
  <2>1. /\ b \in astray => b \in astray'
        /\ \A i \in Jobs : i # j => jobs'[i] = jobs[i]
        /\ jobs[j].kind = "delete"
        /\ UNCHANGED <<row, upsert>>
    BY <1>3, DeleteStep
  <2>2. \A i \in Jobs : jobs[i].kind = "upsert" => jobs'[i] = jobs[i]
    BY <2>1
  <2> QED
    BY <2>1, <2>2, SteadyOn DEF Active
<1>4. ASSUME NEW j \in Jobs, TakeSync(j) \/ TokenExpires(j)
      PROVE  Steady(b)
  <2>1. /\ b \in astray => b \in astray'
        /\ \A i \in Jobs : i # j => jobs'[i] = jobs[i]
        /\ jobs[j].kind = "sync"
        /\ UNCHANGED <<row, upsert>>
    BY <1>4, TakeSyncStep, TokenExpiresStep
  <2>2. \A i \in Jobs : jobs[i].kind = "upsert" => jobs'[i] = jobs[i]
    BY <2>1
  <2> QED
    BY <2>1, <2>2, SteadyOn DEF Active
<1>5. CASE Webhook \/ LosePing
  BY <1>5, PingStep, SteadyOn DEF Active
<1>6. CASE SyncEnds \/ SyncFails \/ SyncRefused
  BY <1>6, SyncOverStep, SteadyOn DEF Active
<1>7. CASE Reconcile
  <2>1. b \in astray => b \in astray'
    BY <1>7, ReconcileStep, IdFacts
  <2> QED
    BY <1>7, <2>1, ReconcileStep, SteadyOn DEF Active
<1>8. CASE Progress
  BY <1>3, <1>4, <1>5, <1>6, <1>7, <1>8, SteadyEnqueue, SteadyTake, SteadyCall, SteadySave, SteadyGiveUp,
     SteadyApply, SteadyExport DEF Progress
<1>9. CASE Losses
  BY <1>3, <1>4, <1>5, <1>6, <1>9, SteadyEnqueue, SteadyGiveUp DEF Losses
<1> QED
  BY <1>1, <1>2, <1>8, <1>9 DEF Next
\* What every step does to the events, the feed and the sync.
EventsMirrored ==
    /\ EventsGoOn
    /\ \A e \in AllEvents : e \in astray => e \in astray' \/ Fresh(e)' \/ InStep(e)'
    /\ \A e \in AllEvents : event'[e] # Absent => Fresh(e)' \/ event'[e] = event[e]
    /\ \A e \in Externals : event'[e] = event[e] /\ event[e] # Absent /\ InStep(e) =>
          e \in astray' \/ Fresh(e)' \/ InStep(e)'
    /\ sync = Idle => feed \subseteq feed'
    /\ sync = Idle /\ sync' # Idle => \A e \in feed : e \in ToDo' \/ e \in astray'
    /\ sync # Idle /\ sync' = Idle => feed' = feed \/ (feed' = sync.fresh /\ ToDo = {})
    /\ sync # Idle /\ sync' # Idle =>
          /\ feed \subseteq feed' /\ sync.fresh \subseteq sync'.fresh
          /\ \A e \in ToDo : e \in ToDo' \/ Fresh(e)' \/ InStep(e)'

LEMMA InStepOn ==
    ASSUME Base, EventsGoOn, NEW e \in Events, event[e] # Absent, event'[e] = event[e],
           InStep(e), \A a \in Appts : Steady(a)
    PROVE  Fresh(e)' \/ InStep(e)'
<1>1. e \notin Externals
  BY IdFacts
<1> SUFFICES ASSUME ~Fresh(e)', ~InStep(e)'
             PROVE  FALSE
  OBVIOUS
<1>2. PICK b \in Appts : /\ event'[e].appt = b /\ Stands(b)' /\ ~Pending(b)' /\ OnlyEvent(b, e)'
                         /\ ~(event'[e].live /\ event'[e].time = row'[b].time)
  BY <1>1 DEF InStep
<1>3. Stands(b)' /\ ~Pending(b)' /\ OnlyEvent(b, e)'
  BY <1>2
<1>4. OnlyEvent(b, e)
  <2>1. \A x \in Events \ {e} : event'[x] = Absent \/ event'[x].appt # b
    BY <1>3 DEF OnlyEvent
  <2> QED
    BY <2>1, IdFacts DEF OnlyEvent, EventsGoOn
<1>5. \/ HasOne(b)' /\ Told(b)
      \/ Stands(b) /\ ~Pending(b) /\ row'[b].time = row[b].time
  BY <1>3 DEF Steady
<1>6. CASE Told(b)
  <2>1. PICK x \in Events : event'[x] # Absent /\ event'[x].appt = b /\ (Fresh(x)' \/ InStep(x)')
    BY <1>6 DEF Told
  <2>2. x = e
    BY <1>3, <2>1 DEF OnlyEvent
  <2>3. Fresh(e)' \/ InStep(e)'
    BY <2>1, <2>2
  <2> QED
    BY <2>3
<1>7. CASE Stands(b) /\ ~Pending(b) /\ row'[b].time = row[b].time
  <2>1. event[e].live /\ event[e].time = row[b].time
    BY <1>2, <1>4, <1>7 DEF InStep
  <2> QED
    BY <1>2, <1>7, <2>1
<1> QED
  BY <1>5, <1>6, <1>7

\* Together these keep the mirrors.
LEMMA MirrorOn ==
    ASSUME Base, Mirror, EventsMirrored, \A a \in Appts : Steady(a)
    PROVE  Mirror'
<1>1. ASSUME NEW e \in AllEvents, event'[e] # Absent
      PROVE  e \in feed' \/ e \in astray' \/ InStep(e)'
  <2> SUFFICES ASSUME e \notin feed', e \notin astray'
               PROVE  InStep(e)'
    OBVIOUS
  <2>1. ~Fresh(e)' /\ event'[e] = event[e] /\ (e \in astray => InStep(e)')
    BY <1>1 DEF EventsMirrored, Fresh
  <2>2. InStep(e)' \/ InStep(e)
    <3>1. CASE e \notin feed
      BY <1>1, <2>1, <3>1 DEF Mirror
    <3>2. CASE sync # Idle /\ feed' = sync.fresh /\ ToDo = {}
      BY <1>1, <2>1, <3>2 DEF Mirror
    <3> QED
      BY <1>1, <2>1, <3>1, <3>2 DEF EventsMirrored
  <2>3. CASE InStep(e) /\ e \in Externals
    BY <1>1, <2>1, <2>3 DEF EventsMirrored
  <2>4. CASE InStep(e) /\ e \in Events
    BY <1>1, <2>1, <2>4, InStepOn DEF EventsMirrored
  <2> QED
    BY <2>2, <2>3, <2>4, IdFacts
<1>2. ASSUME sync' # Idle, NEW e \in AllEvents, event'[e] # Absent
      PROVE  e \in sync'.fresh \/ e \in astray' \/ e \in ToDo' \/ InStep(e)'
  <2> SUFFICES ASSUME e \notin sync'.fresh, e \notin astray', e \notin ToDo'
               PROVE  InStep(e)'
    OBVIOUS
  <2>1. ~Fresh(e)' /\ event'[e] = event[e] /\ (e \in astray => InStep(e)')
    BY <1>2 DEF EventsMirrored, Fresh
  <2>2. InStep(e)' \/ InStep(e)
    <3>1. CASE sync = Idle
      BY <1>2, <2>1, <3>1 DEF Mirror, EventsMirrored
    <3>2. CASE sync # Idle
      BY <1>2, <2>1, <3>2 DEF Mirror, EventsMirrored
    <3> QED
      BY <3>1, <3>2
  <2>3. CASE InStep(e) /\ e \in Externals
    BY <1>2, <2>1, <2>3 DEF EventsMirrored
  <2>4. CASE InStep(e) /\ e \in Events
    BY <1>2, <2>1, <2>4, InStepOn DEF EventsMirrored
  <2> QED
    BY <2>2, <2>3, <2>4, IdFacts
<1> QED
  BY <1>1, <1>2 DEF Mirror

LEMMA ExternalInStep ==
    ASSUME Base, NEW e \in Externals, event'[e] = event[e], event[e] # Absent,
           block'[e] = IF event[e].live THEN event[e].time ELSE None
    PROVE  InStep(e)'
<1>1. event'[e].appt = None
  BY IdFacts DEF Base, Kept, EventKept
<1> QED
  BY <1>1, IdFacts DEF InStep

LEMMA BlockOn ==
    ASSUME Base, NEW e \in Externals, event'[e] = event[e], event[e] # Absent,
           block'[e] = block[e], InStep(e)
    PROVE  InStep(e)'
  BY ExternalInStep DEF InStep

\* A step that leaves Google, the sync and the blocks alone.
LEMMA MirrorCalm ==
    ASSUME Base, UNCHANGED <<block, event, feed, sync>>, \A e \in AllEvents : e \in astray => e \in astray'
    PROVE  EventsMirrored
<1>1. EventsGoOn
  BY SameEvents
<1>2. \A e \in Externals : event'[e] = event[e] /\ event[e] # Absent /\ InStep(e) => InStep(e)'
  BY BlockOn
<1>3. ToDo' = ToDo
  BY DEF ToDo
<1> QED
  BY <1>1, <1>2, <1>3 DEF EventsMirrored

\* A block is deleted.
LEMMA MirrorBlockGoes ==
    ASSUME Base, DeleteBlock
    PROVE  EventsMirrored
<1>1. /\ astray \subseteq astray'
      /\ \A e \in Externals : block'[e] = block[e] \/ e \in astray'
      /\ UNCHANGED <<event, feed, sync>>
  BY BlockGoesStep
<1>2. EventsGoOn
  BY <1>1, SameEvents
<1>3. \A e \in Externals : event'[e] = event[e] /\ event[e] # Absent /\ InStep(e) => e \in astray' \/ InStep(e)'
  BY <1>1, BlockOn
<1>4. ToDo' = ToDo
  BY <1>1 DEF ToDo
<1> QED
  BY <1>1, <1>2, <1>3, <1>4 DEF EventsMirrored

\* One event changes.
LEMMA MirrorChanged ==
    ASSUME Base, NEW e \in AllEvents, ChangedOnly(e), EventsGoOn, block' = block, astray \subseteq astray'
    PROVE  EventsMirrored
<1>1. Fresh(e)'
  BY DEF ChangedOnly, Fresh
<1>2. \A f \in Externals : event'[f] = event[f] /\ event[f] # Absent /\ InStep(f) => InStep(f)'
  BY BlockOn
<1>3. sync' # Idle => ToDo' = ToDo
  BY DEF ChangedOnly, ToDo
<1> QED
  BY <1>1, <1>2, <1>3 DEF EventsMirrored, ChangedOnly
LEMMA MirrorTakeSync ==
    ASSUME Base, NEW j \in Jobs, TakeSync(j)
    PROVE  EventsMirrored
<1>1. /\ sync = Idle /\ sync' # Idle
      /\ \A e \in feed : e \in ToDo' \cup astray'
      /\ astray \subseteq astray'
      /\ UNCHANGED <<block, event, feed>>
  BY TakeSyncStep
<1>2. \A e \in Externals : event'[e] = event[e] /\ event[e] # Absent /\ InStep(e) => InStep(e)'
  BY <1>1, BlockOn
<1> QED
  BY <1>1, <1>2, SameEvents DEF EventsMirrored

LEMMA MirrorExpires ==
    ASSUME Base, NEW j \in Jobs, TokenExpires(j)
    PROVE  EventsMirrored
<1>1. /\ sync = Idle /\ sync' = Idle
      /\ feed' = {e \in AllEvents : event[e] # Absent}
      /\ UNCHANGED <<block, event, astray>>
  BY TokenExpiresStep
<1>2. \A e \in Externals : event'[e] = event[e] /\ event[e] # Absent /\ InStep(e) => InStep(e)'
  BY <1>1, BlockOn
<1>3. feed \subseteq feed'
  BY <1>1 DEF Base, Typed, Kept, FeedKept
<1> QED
  BY <1>1, <1>2, <1>3, SameEvents DEF EventsMirrored

LEMMA MirrorSyncOver ==
    ASSUME Base, SyncEnds \/ SyncFails \/ SyncRefused
    PROVE  EventsMirrored
<1>1. /\ sync # Idle /\ sync' = Idle
      /\ feed' = feed \/ (feed' = sync.fresh /\ ToDo = {})
      /\ UNCHANGED <<block, event, astray>>
  BY SyncOverStep
<1>2. \A e \in Externals : event'[e] = event[e] /\ event[e] # Absent /\ InStep(e) => InStep(e)'
  BY <1>1, BlockOn
<1> QED
  BY <1>1, <1>2, SameEvents DEF EventsMirrored

LEMMA MirrorReconcile ==
    ASSUME Base, Reconcile
    PROVE  EventsMirrored
<1>0. Typed /\ Kept /\ SyncKept
  BY DEF Base
<1>1. /\ sync # Idle /\ sync' # Idle /\ sync'.fresh = sync.fresh
      /\ UNCHANGED <<row, jobs, upsert, event, feed>>
  BY ReconcileStep
<1>2. PICK e \in ToDo :
        /\ \A f \in ToDo : f # e => f \in ToDo'
        /\ \A f \in Externals : f # e => block'[f] = block[f]
        /\ e \in Externals =>
              block'[e] = IF sync.seen[e].live THEN sync.seen[e].time ELSE None
        /\ e \in Events =>
              \/ e \in ToDo'
              \/ sync.seen[e].appt \notin Rows
              \/ sync.seen[e].live /\ sync.seen[e].time = row[sync.seen[e].appt].time
        /\ \A x : x \in astray => x \in astray' \/ (x = e /\ e \in Externals)
  BY ReconcileStep
<1>3. e \in feed /\ e \in AllEvents /\ event[e] # Absent /\ (e \in sync.fresh \/ sync.seen[e] = event[e])
  BY <1>0, <1>1 DEF Typed, SyncKept, Kept, FeedKept
<1>4. e \in ToDo' \/ Fresh(e)' \/ InStep(e)'
  <2>1. CASE e \in sync.fresh
    BY <1>1, <1>3, <2>1 DEF Fresh
  <2>2. CASE sync.seen[e] = event[e] /\ e \in Externals
    BY <1>1, <1>2, <1>3, <2>2, ExternalInStep
  <2>3. CASE sync.seen[e] = event[e] /\ e \in Events
    <3> SUFFICES ASSUME e \notin ToDo' PROVE InStep(e)'
      OBVIOUS
    <3>1. event[e].appt \in Rows => event[e].live /\ event[e].time = row[event[e].appt].time
      BY <1>2, <2>3
    <3>2. \A a \in Appts : event'[e].appt = a /\ Stands(a)' => event'[e].live /\ event'[e].time = row'[a].time
      BY <1>1, <3>1 DEF Stands, Rows
    <3> QED
      BY <2>3, <3>2, IdFacts DEF InStep
  <2> QED
    BY <1>3, <2>1, <2>2, <2>3, IdFacts
<1>5. ASSUME NEW f \in Externals, event[f] # Absent, InStep(f)
      PROVE  Fresh(f)' \/ InStep(f)'
  <2>1. CASE f # e
    BY <1>1, <1>2, <1>5, <2>1, BlockOn
  <2>2. CASE f = e /\ f \in sync.fresh
    BY <1>1, <1>3, <2>2 DEF Fresh
  <2>3. CASE f = e /\ sync.seen[f] = event[f]
    BY <1>1, <1>2, <1>5, <2>3, ExternalInStep
  <2> QED
    BY <1>3, <2>1, <2>2, <2>3
<1>6. \A f \in ToDo : f \in ToDo' \/ Fresh(f)' \/ InStep(f)'
  BY <1>2, <1>4
<1>7. \A f \in AllEvents : f \in astray => f \in astray' \/ Fresh(f)' \/ InStep(f)'
  <2>1. e \in Externals => Fresh(e)' \/ InStep(e)'
    <3>1. CASE e \in sync.fresh
      BY <1>1, <1>3, <3>1 DEF Fresh
    <3>2. CASE sync.seen[e] = event[e] /\ e \in Externals
      BY <1>1, <1>2, <1>3, <3>2, ExternalInStep
    <3> QED
      BY <1>3, <3>1, <3>2
  <2> QED
    BY <1>2, <2>1
<1> QED
  BY <1>1, <1>5, <1>6, <1>7, SameEvents DEF EventsMirrored

LEMMA MirrorApply ==
    ASSUME Base, ApplyChange
    PROVE  EventsMirrored
<1>0. Typed /\ Kept /\ SyncKept
  BY DEF Base
<1>1. /\ sync # Idle /\ sync' # Idle /\ sync'.fresh = sync.fresh
      /\ sync.event \in ToDo /\ \A f \in ToDo : f # sync.event => f \in ToDo'
      /\ sync.appt \in Rows /\ sync.event \in Events /\ sync.appt = event[sync.event].appt
      /\ row'[sync.appt] = Reconciled(row[sync.appt], sync.seen[sync.event])
      /\ UNCHANGED <<block, jobs, upsert, event, feed, astray>>
  BY ApplyChangeStep
<1>2. PICK e \in Events : e = sync.event
  BY <1>1
<1>3. e \in feed /\ event[e] # Absent /\ sync.seen[e] # Absent /\ (e \in sync.fresh \/ sync.seen[e] = event[e])
  BY <1>0, <1>1, <1>2 DEF SyncKept, Kept, FeedKept
<1>4. Fresh(e)' \/ InStep(e)'
  <2>1. CASE e \in sync.fresh
    BY <1>1, <1>3, <2>1 DEF Fresh
  <2>2. CASE sync.seen[e] = event[e]
    <3>1. PICK a \in Rows : a = sync.appt
      BY <1>1
    <3>2. row[a] \in Row /\ event[e] \in Event /\ event[e].appt = a /\ row'[a] = Reconciled(row[a], event[e])
      BY <1>0, <1>1, <1>2, <1>3, <2>2, <3>1, IdFacts DEF Typed, Rows
    <3>3. event[e].live => row'[a].time = event[e].time
      BY <3>2 DEF Reconciled, Row
    <3>4. ~event[e].live => row'[a].status = "CANCELLED"
      BY <3>2 DEF Reconciled, Row
    <3>5. \A b \in Appts : event'[e].appt = b /\ Stands(b)' => event'[e].live /\ event'[e].time = row'[b].time
      BY <1>1, <3>2, <3>3, <3>4 DEF Stands
    <3> QED
      BY <3>5, IdFacts DEF InStep
  <2> QED
    BY <1>3, <2>1, <2>2
<1>5. \A f \in Externals : event'[f] = event[f] /\ event[f] # Absent /\ InStep(f) => InStep(f)'
  BY <1>1, BlockOn
<1>6. \A f \in ToDo : f \in ToDo' \/ Fresh(f)' \/ InStep(f)'
  BY <1>1, <1>2, <1>4
<1> QED
  BY <1>1, <1>5, <1>6, SameEvents DEF EventsMirrored

LEMMA EventsMirroredStep ==
    ASSUME Base, [Next]_vars
    PROVE  EventsMirrored
<1>1. CASE UNCHANGED vars
  BY <1>1, MirrorCalm DEF vars
<1>2. CASE Create \/ Reschedule \/ Confirm \/ Cancel
  <2>1. PICK a, r, kind : Writing(a, r, kind)
    BY <1>2, WritesAre DEF Writes, Base
  <2>2. UNCHANGED <<block, event, feed, sync>>
    BY <2>1 DEF Writing, Write, google
  <2> QED
    BY <2>1, <2>2, WriteStep, MirrorCalm
<1>3. CASE Close \/ RemoveClient
  BY <1>3, RowGoesStep, MirrorCalm
<1>4. CASE ExportNext \/ StartExport \/ Connect
  <2>1. \A e \in AllEvents : e \in astray => e \in astray'
    BY <1>4, ExportStep, IdFacts DEF Rows
  <2> QED
    BY <1>4, <2>1, ExportStep, MirrorCalm
<1>5. CASE HandCreate \/ HandMove \/ HandDelete
  <2>1. EventsGoOn /\ UNCHANGED <<block, astray>>
    BY <1>5, HandStep
  <2>2. PICK e \in AllEvents : ChangedOnly(e)
    BY <1>5, HandStep
  <2> QED
    BY <2>1, <2>2, MirrorChanged
<1>6. ASSUME NEW j \in Jobs, Enqueue(j) \/ LoseEnqueue(j)
      PROVE  EventsMirrored
  BY <1>6, EnqueueStep, MirrorCalm
<1>7. ASSUME NEW j \in Jobs, TakeUpsert(j)
      PROVE  EventsMirrored
  <2>1. \/ astray \subseteq astray'
        \/ astray' = astray \ {jobs[j].appt} /\ jobs[j].appt \in Appts \cup {None}
    BY <1>7, TakeUpsertStep, JobFacts DEF Base, Typed
  <2>2. \A e \in AllEvents : e \in astray => e \in astray'
    BY <2>1, IdFacts
  <2> QED
    BY <1>7, <2>2, TakeUpsertStep, MirrorCalm
<1>8. ASSUME NEW j \in Jobs, DeleteEvent(j) \/ DeleteFails(j)
      PROVE  EventsMirrored
  <2>1. /\ (\E e \in AllEvents : ChangedOnly(e)) \/ UNCHANGED <<event, feed, sync>>
        /\ EventsGoOn /\ astray \subseteq astray' /\ block' = block
    BY <1>8, DeleteStep
  <2>2. CASE \E e \in AllEvents : ChangedOnly(e)
    BY <2>1, <2>2, MirrorChanged
  <2>3. CASE UNCHANGED <<event, feed, sync>>
    BY <2>1, <2>3, MirrorCalm
  <2> QED
    BY <2>1, <2>2, <2>3
<1>9. ASSUME NEW c \in Callers, CallGoogle(c)
      PROVE  EventsMirrored
  <2>1. EventsGoOn /\ UNCHANGED <<block, astray>>
    BY <1>9, CallGoogleStep
  <2>2. PICK e \in Events : ChangedOnly(e)
    BY <1>9, CallGoogleStep
  <2> QED
    BY <2>1, <2>2, IdFacts, MirrorChanged
<1>10. ASSUME NEW c \in Callers, SaveEvent(c)
       PROVE  EventsMirrored
  BY <1>10, SaveEventStep, MirrorCalm
<1>11. ASSUME NEW c \in Callers, UpsertFails(c) \/ UpsertRefused(c)
       PROVE  EventsMirrored
  BY <1>11, GiveUpStep, MirrorCalm
<1>12. CASE Webhook \/ LosePing
  BY <1>12, PingStep, MirrorCalm
<1>13. CASE People
  <2>1. CASE DeleteBlock
    BY <2>1, MirrorBlockGoes
  <2> QED
    BY <1>2, <1>3, <1>4, <1>5, <1>13, <2>1 DEF People
<1>14. CASE Progress
  BY <1>4, <1>6, <1>7, <1>8, <1>9, <1>10, <1>11, <1>12, <1>14, MirrorTakeSync, MirrorReconcile, MirrorApply,
     MirrorSyncOver DEF Progress
<1>15. CASE Losses
  BY <1>6, <1>8, <1>11, <1>12, <1>15, MirrorExpires, MirrorSyncOver DEF Losses
<1> QED
  BY <1>1, <1>13, <1>14, <1>15 DEF Next

-----------------------------------------------------------------------------
(* The mirrors *)

SyncInv == Base /\ HasEvent /\ Mirror

LEMMA SyncInvInit ==
    Init => SyncInv
<1> SUFFICES ASSUME Init PROVE SyncInv
  OBVIOUS
<1>1. Rows = {} /\ \A e \in AllEvents : event[e] = Absent
  BY DEF Init, Rows
<1>2. HasEvent /\ Mirror
  BY <1>1 DEF Init, HasEvent, Stands, Mirror
<1> QED
  BY <1>2, BaseInit DEF SyncInv

LEMMA SyncInvStep ==
    ASSUME SyncInv, [Next]_vars
    PROVE  SyncInv'
<1>1. Base /\ HasEvent /\ Mirror
  BY DEF SyncInv
<1>2. Base' /\ EventsMirrored /\ \A a \in Appts : Steady(a)
  BY <1>1, BaseStep, EventsMirroredStep, SteadyStep
<1>3. HasEvent'
  BY <1>1, <1>2 DEF HasEvent, Steady
<1>4. Mirror'
  BY <1>1, <1>2, MirrorOn
<1> QED
  BY <1>2, <1>3, <1>4 DEF SyncInv

\* When no job and no call is about an appointment that stands, its event in
\* Google says what the row says, unless the next listing shows the event, the
\* appointment has a second event, or its last change went astray
\* (upsertEventForAppointment, reconcileIncomingEvent, CalendarSyncListener).
THEOREM AnAppointmentAndItsEventAgree == Spec => []MirrorsAgree
<1>1. SyncInv => MirrorsAgree
  <2> SUFFICES ASSUME SyncInv, NEW a \in Rows, Settled(a), row[a].status = "ACTIVE", a \notin astray
               PROVE  \/ row[a].event = None /\ row[a].source = "GOOGLE"
                      \/ /\ row[a].event # None
                         /\ \/ row[a].event \in feed \cup astray
                            \/ ~OnlyEvent(a, row[a].event)
                            \/ /\ event[row[a].event].live
                               /\ event[row[a].event].time = row[a].time
    BY DEF MirrorsAgree
  <2>1. a \in Appts /\ row[a] \in Row /\ Stands(a) /\ ~Pending(a)
    BY DEF SyncInv, Base, Typed, Rows, Stands, Pending, Settled
  <2>2. row[a].event # None \/ row[a].source = "GOOGLE"
    BY <2>1 DEF SyncInv, HasEvent, HasOne, Settled
  <2>3. CASE row[a].event # None
    <3>1. PICK e \in Events : e = row[a].event
      BY <2>1, <2>3, RowFacts
    <3>2. e \in AllEvents /\ event[e] # Absent /\ event[e].appt = a
      BY <2>1, <2>3, <3>1, IdFacts DEF SyncInv, Base, Kept, RowKept
    <3>3. e \in feed \/ e \in astray \/ InStep(e)
      BY <3>2 DEF SyncInv, Mirror
    <3>4. InStep(e) => ~OnlyEvent(a, e) \/ (event[e].live /\ event[e].time = row[a].time)
      BY <2>1, <3>2 DEF InStep
    <3> QED
      BY <2>3, <3>1, <3>3, <3>4
  <2> QED
    BY <2>2, <2>3
<1> QED
  BY <1>1, SyncInvInit, SyncInvStep, PTL DEF Spec

\* An event made in Google that no listing owes has the block it should have,
\* at its time while it lives, and none when it is deleted
\* (reconcileExternalEvent, with the syncToken saved at the end of a sync).
THEOREM ExternalEventsHaveTheirBlocks == Spec => []BlocksMirrored
<1>1. SyncInv => BlocksMirrored
  BY IdFacts DEF SyncInv, Mirror, InStep, BlocksMirrored
<1> QED
  BY <1>1, SyncInvInit, SyncInvStep, PTL DEF Spec
=============================================================================
