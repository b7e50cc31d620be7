------------------------------ MODULE Messages ------------------------------
(***************************************************************************)
(* The texts a user gives to the messages of WhatsApp, standard ones and   *)
(* her own: two JSON columns of her row, each read, changed and written    *)
(* back by every request, and the page of the settings in which she edits  *)
(* them, open in several tabs.  A button is off only while the message it  *)
(* belongs to is being saved, so that requests of one tab overlap as well. *)
(***************************************************************************)
EXTENDS Integers, FiniteSets

CONSTANTS Tabs, Keys,     \* standard messages
          Ids,            \* of her own messages
          Texts, Default, None,
          MaxActs         \* bound

VARIABLES
    saved,         \* the columns; None: the standard text, or no message
    tabs,
    requests,
    acts,
    last,          \* history: what was written last of each message
    overlapped     \* history: columns written between the read and the write of a request

vars == <<saved, tabs, requests, acts, last, overlapped>>
-----------------------------------------------------------------------------
Items == Keys \cup Ids
Column(i) == IF i \in Keys THEN Keys ELSE Ids
Columns == {Keys, Ids}
Saved == [Items -> Texts \cup {None}]

Tab == [loaded: BOOLEAN, drafts: Saved, busy: [Columns -> Items \cup {None}], adding: BOOLEAN]
Request == [tab: Tabs, op: {"put", "add", "remove"}, item: Items, text: Texts \cup {None}, n: Nat \ {0},
            pc: {"asked", "read", "written", "refused", "answered"}, copy: Saved]

TypeOK ==
    /\ saved \in Saved /\ last \in Saved
    /\ tabs \in [Tabs -> Tab]
    /\ requests \subseteq Request /\ \A r \in requests : r.n <= acts
    /\ acts \in 0..MaxActs /\ overlapped \subseteq Columns

Bare == [i \in Items |-> None]

Init ==
    /\ saved = Bare /\ last = Bare
    /\ tabs = [t \in Tabs |-> [loaded |-> FALSE, drafts |-> Bare, busy |-> [c \in Columns |-> None],
                               adding |-> FALSE]]
    /\ requests = {} /\ acts = 0 /\ overlapped = {}

Act == acts < MaxActs /\ acts' = acts + 1

\* What is sent: resolveMessageTemplate; and what getMessageTemplates tells.
Told(s) == [i \in Items |-> IF i \in Keys /\ s[i] = None THEN Default ELSE s[i]]
-----------------------------------------------------------------------------
(* MessageTemplatesSection *)

Load(t) ==
    /\ ~tabs[t].loaded
    /\ tabs' = [tabs EXCEPT ![t].loaded = TRUE, ![t].drafts = Told(saved)]
    /\ UNCHANGED <<saved, requests, acts, last, overlapped>>

Draft(t, i) == tabs[t].drafts[i]

UpdateDraft(t, i, text) ==
    /\ Act /\ Draft(t, i) \notin {None, text}
    /\ tabs' = [tabs EXCEPT ![t].drafts[i] = text]
    /\ UNCHANGED <<saved, requests, last, overlapped>>

Put(t, i, text) == [tab |-> t, op |-> "put", item |-> i, text |-> text]

Ask(r) == requests' = requests \cup
    {[tab |-> r.tab, op |-> r.op, item |-> r.item, text |-> r.text, n |-> acts + 1, pc |-> "asked", copy |-> Bare]}

Free(t, i) == Draft(t, i) # None /\ tabs[t].busy[Column(i)] # i
Busy(t, i) == tabs' = [tabs EXCEPT ![t].busy[Column(i)] = i]

Save(t, i) ==
    /\ Act /\ Free(t, i) /\ Busy(t, i)
    /\ Ask(Put(t, i, Draft(t, i)))
    /\ UNCHANGED <<saved, last, overlapped>>

RestoreDefault(t, k) ==
    /\ Act /\ Free(t, k) /\ Busy(t, k)
    /\ Draft(t, k) # Default
    /\ Ask(Put(t, k, None))
    /\ UNCHANGED <<saved, last, overlapped>>

DeleteCustom(t, i) ==
    /\ Act /\ Free(t, i) /\ Busy(t, i)
    /\ Ask([tab |-> t, op |-> "remove", item |-> i, text |-> None])
    /\ UNCHANGED <<saved, last, overlapped>>

\* The id is new.
AddCustom(t, i, text) ==
    /\ Act /\ tabs[t].loaded /\ ~tabs[t].adding
    /\ tabs' = [tabs EXCEPT ![t].adding = TRUE]
    /\ last[i] = None /\ \A u \in Tabs : Draft(u, i) = None
    /\ \A r \in requests : r.item # i
    /\ Ask([tab |-> t, op |-> "add", item |-> i, text |-> text])
    /\ UNCHANGED <<saved, last, overlapped>>
-----------------------------------------------------------------------------
(* UsersService *)

Becomes(r, changed) == requests' = (requests \ {r}) \cup {changed}

\* Her own messages are changed and removed only if they are there.
Refused(r) == r.item \in Ids /\ r.op # "add" /\ saved[r.item] = None

Read(r) ==
    /\ r.pc = "asked"
    /\ Becomes(r, IF Refused(r) THEN [r EXCEPT !.pc = "refused"] ELSE [r EXCEPT !.pc = "read", !.copy = saved])
    /\ UNCHANGED <<saved, tabs, acts, last, overlapped>>

\* Mutant of Merged: the patch alone.
MergedPatch(r) == [i \in Items |-> IF i = r.item THEN r.text ELSE IF i \in Column(r.item) THEN None ELSE saved[i]]

\* The other column is left alone.
Merged(r) == [i \in Items |-> IF i = r.item THEN r.text ELSE IF i \in Column(r.item) THEN r.copy[i] ELSE saved[i]]

Write(r) ==
    /\ r.pc = "read"
    /\ saved' = Merged(r)
    /\ last' = [last EXCEPT ![r.item] = r.text]
    /\ overlapped' = overlapped \cup
         {Column(q.item) : q \in {q \in requests \ {r} : q.pc = "read" /\ Column(q.item) = Column(r.item)}}
    /\ Becomes(r, [r EXCEPT !.pc = "written"])
    /\ UNCHANGED <<tabs, acts>>

\* getMessageTemplates, at the end of each request.
Answer(r) ==
    /\ r.pc = "written"
    /\ Becomes(r, [r EXCEPT !.pc = "answered", !.copy = saved])
    /\ UNCHANGED <<saved, tabs, acts, last, overlapped>>

\* All drafts of the column give way to the answer.
Heard(r) == [i \in Items |-> IF i \in Column(r.item) THEN Told(r.copy)[i] ELSE Draft(r.tab, i)]

Ends(r, drafts) ==
    /\ requests' = requests \ {r}
    /\ tabs' = IF r.op = "add" THEN [tabs EXCEPT ![r.tab].adding = FALSE, ![r.tab].drafts = drafts]
               ELSE [tabs EXCEPT ![r.tab].busy[Column(r.item)] = None, ![r.tab].drafts = drafts]
    /\ UNCHANGED <<saved, acts, last, overlapped>>

Arrive(r) == r.pc = "answered" /\ Ends(r, Heard(r))

\* An error, the request or its answer lost: the drafts stay.
Fail(r) == r.pc \in {"asked", "refused", "answered"} /\ Ends(r, tabs[r.tab].drafts)
-----------------------------------------------------------------------------
Next ==
    \/ \E t \in Tabs : Load(t)
    \/ \E t \in Tabs, i \in Items :
         Save(t, i) \/ \E x \in Texts : UpdateDraft(t, i, x)
    \/ \E t \in Tabs, k \in Keys : RestoreDefault(t, k)
    \/ \E t \in Tabs, i \in Ids : DeleteCustom(t, i) \/ \E x \in Texts : AddCustom(t, i, x)
    \/ \E r \in requests : Read(r) \/ Write(r) \/ Answer(r) \/ Arrive(r) \/ Fail(r)

Spec == Init /\ [][Next]_vars
-----------------------------------------------------------------------------
(* Properties *)

\* Inductive: a column in which no requests overlapped holds what was written last,
\* and a request that has read it read what it holds.
ColumnsAreLast ==
    /\ \A i \in Items : Column(i) \notin overlapped => saved[i] = last[i]
    /\ \A r \in requests : (r.pc = "read" /\ Column(r.item) \notin overlapped) =>
          \A i \in Column(r.item) : r.copy[i] = saved[i]

\* What was written last of a message is what is sent, whatever else was saved,
\* in whatever tab and with whatever drafts, unless two requests overlapped that
\* change messages of the same column.
SavedMessagesAreKept ==
    \A i \in Items : Column(i) \notin overlapped => Told(saved)[i] = Told(last)[i]
=============================================================================
