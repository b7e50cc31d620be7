-------------------------------- MODULE Views --------------------------------
(***************************************************************************)
(* The other views of the CRM: they load what their parameters (a period,  *)
(* a tab, a week, a person) ask for, and load it again after an action of  *)
(* the user.  There are five kinds:                                        *)
(*   report   guarded: only the answer to the last request counts          *)
(*            (useAsyncData; the dashboard)                                *)
(*   palette  the same after a pause in typing (CommandPalette)            *)
(*   tasks    the same, and the end of an action loads twice: for the tab  *)
(*            that is open, and for the one where the action began         *)
(*   panel    any answer counts, and the end of an action loads for the    *)
(*            person for whom it began (TasksPanel)                        *)
(*   agenda   any answer counts, and the end of an action loads what is    *)
(*            open (Agenda, Pipeline, Services)                            *)
(***************************************************************************)
EXTENDS Integers, Sequences

CONSTANTS Params, MaxActs, None

VARIABLES
    kind,
    param,      \* what the view is to show
    due,        \* whether the pause before a request is under way
    shown, failed,
    latest,     \* number of the last request
    flights,    \* requests under way
    acting,     \* the parameter for which the action under way was begun
    rev,        \* the actions that were carried out
    acts,
    astray      \* history: an answer overtaken, or loaded for what was left

vars == <<kind, param, due, shown, failed, latest, flights, acting, rev, acts, astray>>
-----------------------------------------------------------------------------
Kinds == {"report", "palette", "tasks", "panel", "agenda"}
Guarded == kind \in {"report", "palette", "tasks"}
Pauses == kind \in {"palette", "tasks"}
Answer == [param: Params, rev: 0..MaxActs]

TypeOK ==
    /\ kind \in Kinds /\ param \in Params
    /\ due \in BOOLEAN /\ failed \in BOOLEAN
    /\ shown \in Answer \cup {None}
    /\ latest \in Nat
    /\ flights \subseteq [id: Nat, param: Params, rev: (0..MaxActs) \cup {None}]
    /\ acting \in Params \cup {None}
    /\ rev \in 0..MaxActs /\ acts \in 0..MaxActs /\ astray \in BOOLEAN

Request(id, p) == [id |-> id, param |-> p, rev |-> None]

Init ==
    /\ kind \in Kinds /\ param \in Params
    /\ due = Pauses
    /\ shown = None /\ failed = FALSE
    /\ latest = (IF Pauses THEN 0 ELSE 1)
    /\ flights = IF Pauses THEN {} ELSE {Request(1, param)}
    /\ acting = None /\ rev = 0 /\ acts = 0 /\ astray = FALSE

Act == acts < MaxActs /\ acts' = acts + 1

\* Whatever is under way for the old parameter does not count any more.
Choose(p) ==
    /\ Act /\ p # param
    /\ param' = p
    /\ latest' = latest + 1 /\ failed' = FALSE
    /\ due' = Pauses
    /\ flights' = IF Pauses THEN flights ELSE flights \cup {Request(latest + 1, p)}
    /\ UNCHANGED <<kind, shown, acting, rev, astray>>

PauseOver ==
    /\ due /\ due' = FALSE
    /\ latest' = latest + 1 /\ failed' = FALSE
    /\ flights' = flights \cup {Request(latest + 1, param)}
    /\ UNCHANGED <<kind, param, shown, acting, rev, acts, astray>>

BeginAction ==
    /\ Act /\ acting = None
    /\ kind \in {"tasks", "panel", "agenda"}
    /\ acting' = param
    /\ UNCHANGED <<kind, param, due, shown, failed, latest, flights, rev, astray>>

\* What is loaded at the end, the last one last.
Reloaded == CASE kind = "tasks" -> <<param, acting>>
              [] kind = "panel" -> <<acting>>
              [] OTHER -> <<param>>

EndAction ==
    /\ acting # None /\ acting' = None
    /\ rev' = rev + 1
    /\ latest' = latest + Len(Reloaded) /\ failed' = FALSE
    /\ flights' = flights \cup {Request(latest + i, Reloaded[i]) : i \in DOMAIN Reloaded}
    /\ astray' = (astray \/ Reloaded[Len(Reloaded)] # param)
    /\ UNCHANGED <<kind, param, due, shown, acts>>

\* A message, and nothing is loaded.
ActionFails ==
    /\ acting # None /\ acting' = None
    /\ UNCHANGED <<kind, param, due, shown, failed, latest, flights, rev, acts, astray>>

Serve(f) ==
    /\ f.rev = None
    /\ flights' = (flights \ {f}) \cup {[f EXCEPT !.rev = rev]}
    /\ UNCHANGED <<kind, param, due, shown, failed, latest, acting, rev, acts, astray>>

\* Mutant of Counts: the view does not look whose answer it is.
CountsAlways(f) == TRUE

Counts(f) == Guarded => f.id = latest

\* Overtaken: an answer that counts although a later one is there.
Arrive(f) ==
    /\ f.rev # None
    /\ flights' = flights \ {f}
    /\ shown' = IF Counts(f) THEN [param |-> f.param, rev |-> f.rev] ELSE shown
    /\ failed' = (failed /\ ~Counts(f))
    /\ astray' = (astray \/ (~Guarded /\ f.id # latest))
    /\ UNCHANGED <<kind, param, due, latest, acting, rev, acts>>

LoadFails(f) ==
    /\ flights' = flights \ {f}
    /\ failed' = (failed \/ Counts(f))
    /\ UNCHANGED <<kind, param, due, shown, latest, acting, rev, acts, astray>>

Next ==
    \/ \E p \in Params : Choose(p)
    \/ PauseOver \/ BeginAction \/ EndAction \/ ActionFails
    \/ \E f \in flights : Serve(f) \/ Arrive(f) \/ LoadFails(f)

Spec == Init /\ [][Next]_vars
-----------------------------------------------------------------------------
(* Properties *)

\* Inductive: the last request is for what the view is to show, and has not been
\* overtaken by an action; it is under way, has failed, or is what is shown.
LastOneTells ==
    /\ \A f \in flights : f.id <= latest
    /\ Pauses \/ ~due
    /\ (~astray /\ ~due) =>
         /\ \A f \in flights : f.id = latest => f.param = param /\ f.rev \in {None, rev}
         /\ failed \/ shown = [param |-> param, rev |-> rev] \/ \E f \in flights : f.id = latest
    /\ rev + (IF acting = None THEN 0 ELSE 1) <= acts

\* Once nothing is under way, a view shows what its parameters ask for, with all
\* that the user did; unless an action ended after its parameter was left, or, in
\* a view that takes every answer, one came late.
ViewShowsWhatIsAsked ==
    (flights = {} /\ ~due /\ acting = None /\ ~failed /\ ~astray) =>
        shown = [param |-> param, rev |-> rev]
=============================================================================
