--------------------------------- MODULE Bell ---------------------------------
(***************************************************************************)
(* The bell of a user and her notices at the server (Inbox.tla): the count *)
(* is polled, what the user does shows at once and is sent after, and any  *)
(* answer counts.                                                          *)
(***************************************************************************)
EXTENDS Integers, FiniteSets

CONSTANTS Notices,
          Calls,       \* requests of the count under way at a time, a bound
          MaxActs,     \* bound: of the user
          MaxFaults    \* bound: calls that fail

VARIABLES
    server,     \* the notices
    unread,     \* the number on the bell
    items,      \* the list: what it holds, and what of that is unread
    call,       \* requests of the count
    list,       \* the request of the list
    writes,     \* what is to be marked: one notice, or all there are
    acts, faults

vars == <<server, unread, items, call, list, writes, acts, faults>>
-----------------------------------------------------------------------------
No == [pc |-> "no"]
Asked == [pc |-> "asked"]

Shown == [held: SUBSET Notices, unread: SUBSET Notices]

TypeOK ==
    /\ server \in [Notices -> {"none", "unread", "read"}]
    /\ unread \in 0..Cardinality(Notices)
    /\ items \in Shown /\ items.unread \subseteq items.held
    /\ call \in [Calls -> {No, Asked} \cup [pc : {"back"}, count : 0..Cardinality(Notices)]]
    /\ list \in {No, Asked} \cup [pc : {"back"}, items : Shown]
    /\ writes \subseteq SUBSET Notices
    /\ acts \in 0..MaxActs /\ faults \in 0..MaxFaults

Unread == {n \in Notices : server[n] = "unread"}
Held == [held |-> {n \in Notices : server[n] # "none"}, unread |-> Unread]

Init ==
    /\ server \in [Notices -> {"none", "unread"}]
    /\ unread = 0 /\ items = [held |-> {}, unread |-> {}]
    /\ call = [c \in Calls |-> No] /\ list = No /\ writes = {}
    /\ acts = 0 /\ faults = 0

Act == acts < MaxActs /\ acts' = acts + 1 /\ UNCHANGED faults
Fault == faults < MaxFaults /\ faults' = faults + 1 /\ UNCHANGED acts
-----------------------------------------------------------------------------
\* Inbox.tla; also in another tab.
Notify == \E n \in Notices :
    /\ server[n] = "none"
    /\ server' = [server EXCEPT ![n] = "unread"]
    /\ UNCHANGED <<unread, items, call, list, writes, acts, faults>>

\* Mutant of Polls: only until there is something to show.
PollsUntilThere == unread = 0

Polls == TRUE

\* refreshCount: when mounted, every minute, and when the window is focused.
Poll(c) ==
    /\ call[c] = No /\ Polls
    /\ call' = [call EXCEPT ![c] = Asked]
    /\ UNCHANGED <<server, unread, items, list, writes, acts, faults>>

UnreadCount(c) ==
    /\ call[c] = Asked
    /\ call' = [call EXCEPT ![c] = [pc |-> "back", count |-> Cardinality(Unread)]]
    /\ UNCHANGED <<server, unread, items, list, writes, acts, faults>>

CountArrives(c) ==
    /\ call[c].pc = "back"
    /\ unread' = call[c].count
    /\ call' = [call EXCEPT ![c] = No]
    /\ UNCHANGED <<server, items, list, writes, acts, faults>>

CountFails(c) ==
    /\ call[c] # No /\ Fault
    /\ call' = [call EXCEPT ![c] = No]
    /\ UNCHANGED <<server, unread, items, list, writes>>

Open ==
    /\ Act /\ list = No /\ list' = Asked
    /\ UNCHANGED <<server, unread, items, call, writes>>

List ==
    /\ list = Asked /\ list' = [pc |-> "back", items |-> Held]
    /\ UNCHANGED <<server, unread, items, call, writes, acts, faults>>

ListArrives ==
    /\ list.pc = "back"
    /\ items' = list.items /\ list' = No
    /\ UNCHANGED <<server, unread, call, writes, acts, faults>>

ListFails ==
    /\ list # No /\ Fault /\ list' = No
    /\ UNCHANGED <<server, unread, items, call, writes>>

\* Shown as read at once.
OpenItem(n) ==
    /\ Act /\ n \in items.unread
    /\ items' = [items EXCEPT !.unread = @ \ {n}]
    /\ unread' = IF unread > 0 THEN unread - 1 ELSE 0
    /\ writes' = writes \cup {{n}}
    /\ UNCHANGED <<server, call, list>>

\* The button is there while the bell shows a number.
MarkAll ==
    /\ Act /\ unread > 0
    /\ items' = [items EXCEPT !.unread = {}]
    /\ unread' = 0
    /\ writes' = writes \cup {Notices}
    /\ UNCHANGED <<server, call, list>>

\* markRead, markAllRead: those that came meanwhile, too.
Marked(w) == [n \in Notices |-> IF n \in Unread /\ n \in w THEN "read" ELSE server[n]]

MarkRead(w) ==
    /\ writes' = writes \ {w}
    /\ server' = Marked(w)
    /\ UNCHANGED <<unread, items, call, list, acts, faults>>

\* The call fails, or its answer is lost: the count, and after markAllRead the
\* list, are asked for again.
MarkReadFails(w) ==
    /\ Fault
    /\ writes' = writes \ {w}
    /\ \E c \in Calls : call[c] = No /\ call' = [call EXCEPT ![c] = Asked]
    /\ list' = IF w = Notices THEN Asked ELSE list
    /\ server' \in {server, Marked(w)}
    /\ UNCHANGED <<unread, items>>
-----------------------------------------------------------------------------
Next ==
    \/ Notify \/ Open \/ List \/ ListArrives \/ ListFails \/ MarkAll
    \/ \E c \in Calls : Poll(c) \/ UnreadCount(c) \/ CountArrives(c) \/ CountFails(c)
    \/ \E n \in Notices : OpenItem(n)
    \/ \E w \in writes : MarkRead(w) \/ MarkReadFails(w)

\* Time passes, and calls are answered.
Fairness ==
    /\ \A c \in Calls : WF_vars(Poll(c)) /\ WF_vars(UnreadCount(c)) /\ WF_vars(CountArrives(c))
    /\ WF_vars(\E w \in writes : MarkRead(w))

Spec == Init /\ [][Next]_vars /\ Fairness
-----------------------------------------------------------------------------
(* Properties *)

\* When no more notices come, the bell comes to tell how many are unread, and
\* keeps to it, whatever was shown before the server knew and however late the
\* answers came.
Counted == unread = Cardinality(Unread)

BellCatchesUp == <>[]Counted
=============================================================================
