------------------------------- MODULE People -------------------------------
(***************************************************************************)
(* Records of people: what they answer in forms, what the people of the    *)
(* CRM save over it from a page that stays open, and what becomes of it    *)
(* when a record is anonymized or removed.                                 *)
(*                                                                         *)
(* A record has the fields of the lead (the form of Respondi, LeadDetail)  *)
(* and those of the client (the intake form, ClientDetail); a group of     *)
(* fields holds the answers of one form, edited or not.  Moves between the *)
(* stages are in Pipeline.tla.                                             *)
(***************************************************************************)
EXTENDS Integers, FiniteSets

CONSTANTS Rows, Numbers, Answers,
          NumberOf(_),     \* the number given in an answer to Respondi's form
          IsIntake(_),     \* the answers to the intake form
          None,
          MaxOpens         \* bound: pages opened

VARIABLES
    rows,       \* the table of clients
    handler,    \* what handles each answer
    page,       \* the page of a record that is open
    loads,      \* profiles on their way to the page
    opens,
    kept,       \* history: answers whose handling went well
    replaced    \* history: answers replaced by what came later

vars == <<rows, handler, page, loads, opens, kept, replaced>>
-----------------------------------------------------------------------------
Kinds == {"lead", "client"}
KindOf(a) == IF IsIntake(a) THEN "client" ELSE "lead"

Row == [number: Numbers \cup {None}, stage: {"LEAD", "FURTHER"}, fields: [Kinds -> Answers \cup {None}]]
Profile == [row: Rows, answer: Answers \cup {None}, seen: SUBSET Answers]

TypeOK ==
    /\ rows \in [Rows -> Row \cup {None}]
    /\ handler \in [Answers -> [pc: {"no", "find", "create", "error", "ok"}]
                               \cup [pc: {"update"}, row: Rows]]
    /\ page \in [kind: Kinds \cup {None}, url: Rows \cup {None}, shown: Profile \cup {None}]
    /\ loads \subseteq Profile
    /\ opens \in 0..MaxOpens
    /\ kept \subseteq Answers /\ replaced \subseteq Answers

Empty == [k \in Kinds |-> None]

Init ==
    /\ rows = [r \in Rows |-> None]
    /\ handler = [a \in Answers |-> [pc |-> "no"]]
    /\ page = [kind |-> None, url |-> None, shown |-> None]
    /\ loads = {} /\ opens = 0
    /\ kept = {} /\ replaced = {}

There == {r \in Rows : rows[r] # None}
With(n) == {r \in There : rows[r].number = n}
Goes(a, to) == handler' = [handler EXCEPT ![a] = to]

\* A group of fields is written; what was in it is gone.
Put(r, k, a) ==
    /\ rows' = [rows EXCEPT ![r].fields[k] = a]
    /\ replaced' = replaced \cup ({rows[r].fields[k]} \ {None, a})

\* findOrCreateByPhone, and a client or lead without answers: the number is
\* unique.
NewRecord == \E r \in Rows \ There, n \in Numbers :
    /\ With(n) = {}
    /\ rows' = [rows EXCEPT ![r] = [number |-> n, stage |-> "LEAD", fields |-> Empty]]
    /\ UNCHANGED <<handler, page, loads, opens, kept, replaced>>

AdvanceLead == \E r \in There :
    /\ rows[r].stage = "LEAD"
    /\ rows' = [rows EXCEPT ![r].stage = "FURTHER"]
    /\ UNCHANGED <<handler, page, loads, opens, kept, replaced>>

\* What identifies the client goes; what the lead answered stays.
Anonymize == \E r \in There :
    /\ rows' = [rows EXCEPT ![r].number = None, ![r].fields["client"] = None]
    /\ replaced' = replaced \cup ({rows[r].fields["client"]} \ {None})
    /\ UNCHANGED <<handler, page, loads, opens, kept>>

Remove == \E r \in There :
    /\ rows' = [rows EXCEPT ![r] = None]
    /\ replaced' = replaced \cup ({rows[r].fields[k] : k \in Kinds} \ {None})
    /\ UNCHANGED <<handler, page, loads, opens, kept>>
-----------------------------------------------------------------------------
(* Answers *)

\* The webhook of Respondi.  It is answered with 200 whatever happens, so that
\* nothing is delivered again.
HandleWebhook(a) ==
    /\ ~IsIntake(a) /\ handler[a].pc = "no"
    /\ Goes(a, [pc |-> "find"])
    /\ UNCHANGED <<rows, page, loads, opens, kept, replaced>>

\* LeadsService.create looks for the number: a record of a lead is completed,
\* one that is further on is a conflict.
FindLead(a) ==
    /\ handler[a].pc = "find"
    /\ IF With(NumberOf(a)) = {} THEN Goes(a, [pc |-> "create"])
       ELSE \E r \in With(NumberOf(a)) :
               Goes(a, IF rows[r].stage = "LEAD" THEN [pc |-> "update", row |-> r] ELSE [pc |-> "error"])
    /\ UNCHANGED <<rows, page, loads, opens, kept, replaced>>

Refused(a) == Goes(a, [pc |-> "error"]) /\ UNCHANGED <<rows, replaced, kept>>
Stored(a) == Goes(a, [pc |-> "ok"]) /\ kept' = kept \cup {a}

\* Mutant of Conflict: a number taken in between is taken for a repetition.
ConflictIgnored(a) == Stored(a) /\ UNCHANGED <<rows, replaced>>

\* The number was taken in between.
Conflict(a) == Refused(a)

CreateLead(a) ==
    /\ handler[a].pc = "create"
    /\ \/ /\ With(NumberOf(a)) = {}
          /\ \E r \in Rows \ There :
                rows' = [rows EXCEPT ![r] = [number |-> NumberOf(a), stage |-> "LEAD",
                                             fields |-> [Empty EXCEPT !["lead"] = a]]]
          /\ Stored(a) /\ UNCHANGED replaced
       \/ With(NumberOf(a)) # {} /\ Conflict(a)
    /\ UNCHANGED <<page, loads, opens>>

\* By its id, whatever the record has become.
UpdateLead(a) ==
    /\ handler[a].pc = "update"
    /\ LET r == handler[a].row IN
       \/ r \in There /\ Put(r, "lead", a) /\ Stored(a)
       \/ r \notin There /\ Refused(a)
    /\ UNCHANGED <<page, loads, opens>>

\* The link is of the record's id and does not expire.
SubmitIntake(a) ==
    /\ IsIntake(a) /\ handler[a].pc = "no"
    /\ \E r \in There : Put(r, "client", a)
    /\ Stored(a)
    /\ UNCHANGED <<page, loads, opens>>
-----------------------------------------------------------------------------
(* The page of a record *)

\* As much of a record as the page writes back, and the answers that had come.
ProfileOf(k, r) ==
    [row |-> r, answer |-> rows[r].fields[k], seen |-> {a \in kept : KindOf(a) = k}]

\* From one record to another the page stays as it is until the profile comes.
Open(k, r) ==
    /\ r \in There
    /\ opens < MaxOpens /\ opens' = opens + 1
    /\ page' = [kind |-> k, url |-> r, shown |-> IF page.kind = k THEN page.shown ELSE None]
    /\ loads' = (IF page.kind = k THEN loads ELSE {}) \cup {ProfileOf(k, r)}
    /\ UNCHANGED <<rows, handler, kept, replaced>>

Show(p) == p

\* In any order: no answer is recognised as an old one.
Loaded(p) ==
    /\ p \in loads
    /\ loads' = loads \ {p}
    /\ page' = [page EXCEPT !.shown = Show(p)]
    /\ UNCHANGED <<rows, handler, opens, kept, replaced>>

LoadFails(p) ==
    /\ p \in loads
    /\ loads' = loads \ {p}
    /\ UNCHANGED <<rows, handler, page, opens, kept, replaced>>

\* What the page shows, edited, is written to the record of the address.  What
\* is lost by it can be blamed on the page if the page was of another record,
\* or had not seen the answer.
Blamed(r, k) == IF page.shown.row # r THEN {rows[r].fields[k]}
                ELSE {rows[r].fields[k]} \ page.shown.seen

Save ==
    /\ page.url # None /\ page.shown # None /\ page.url \in There
    /\ LET r == page.url  k == page.kind IN
       /\ rows' = [rows EXCEPT ![r].fields[k] = page.shown.answer]
       /\ replaced' = replaced \cup (Blamed(r, k) \ {None, page.shown.answer})
    /\ UNCHANGED <<handler, page, loads, opens, kept>>
-----------------------------------------------------------------------------
Next ==
    \/ NewRecord \/ AdvanceLead \/ Anonymize \/ Remove
    \/ \E a \in Answers : HandleWebhook(a) \/ FindLead(a) \/ CreateLead(a) \/ UpdateLead(a) \/ SubmitIntake(a)
    \/ \E k \in Kinds, r \in Rows : Open(k, r)
    \/ \E p \in loads : Loaded(p) \/ LoadFails(p)
    \/ Save

Spec == Init /\ [][Next]_vars
-----------------------------------------------------------------------------
(* Properties *)

\* The answer is on the record, where the page, too, would write it again if it
\* has seen it.
Profiles == loads \cup ({page.shown} \ {None})
Root(a, r) ==
    /\ r \in There /\ rows[r].fields[KindOf(a)] = a
    /\ \A p \in Profiles : (p.row = r /\ a \in p.seen) => p.answer = a

\* Inductive: an answer that was kept has such a record; the page has seen none but
\* those that were kept.
Rooted ==
    /\ kept = {a \in Answers : handler[a].pc = "ok"}
    /\ \A a \in Answers : handler[a].pc \in {"find", "create", "update"} => ~IsIntake(a)
    /\ \A p \in Profiles : page.kind \in Kinds /\ p.seen \subseteq {a \in kept : KindOf(a) = page.kind}
    /\ \A a \in kept \ replaced : \E r \in Rows : Root(a, r)

\* An answer whose handling went well is on a record, unless another answer, an
\* anonymization or a removal took its place, or a page was saved over it that
\* showed another record or had been loaded before the answer came.
AnswersAreKept ==
    \A a \in kept \ replaced : \E r \in There : rows[r].fields[KindOf(a)] = a
=============================================================================
