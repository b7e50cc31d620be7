-------------------------------- MODULE Forms --------------------------------
(***************************************************************************)
(* The other forms and buttons of the screen: each submission is a request *)
(* that is carried out or refused, and whose answer, or which itself, may  *)
(* be lost.  They differ in four ways:                                     *)
(*   checks    something is asked of the fields, or of the user, before    *)
(*   guarded   the button is off while a request is under way              *)
(*   adds      the request makes one more of something                     *)
(*   once      the server refuses it when it has been carried out before   *)
(* A wish of the user is one thing to be done; she submits until she is    *)
(* told that it is done, sometimes twice before she is told anything.      *)
(***************************************************************************)
EXTENDS Integers, FiniteSets

CONSTANTS MaxWishes, MaxClicks      \* bounds

VARIABLES
    kind,
    form,        \* what the screen holds; shows: how the last call ended, told or not
    calls,       \* requests under way
    effect,      \* how often something was carried out
    wishes,      \* history: wishes, and those the user was told are fulfilled
    told,
    lost,        \* history: answers that were lost
    clicks

vars == <<kind, form, calls, effect, wishes, told, lost, clicks>>
-----------------------------------------------------------------------------
Does(checks, guarded, adds, once) == [checks |-> checks, guarded |-> guarded, adds |-> adds, once |-> once]

\* A number is unique, but a client may have none.
ClientForm == {Does(FALSE, TRUE, TRUE, numbered) : numbered \in BOOLEAN}
BlockForm == Does(FALSE, TRUE, TRUE, FALSE)

\* A title, and a date if there is a time; a task is made or changed.
TaskForm == {Does(TRUE, TRUE, new, FALSE) : new \in BOOLEAN}

SendMessageForm == Does(TRUE, TRUE, TRUE, FALSE)
IntakeForm == Does(FALSE, TRUE, FALSE, FALSE)

\* With the old password, which is not the right one any more afterwards.
ChangePassword == Does(TRUE, TRUE, FALSE, TRUE)
Login == Does(FALSE, TRUE, FALSE, FALSE)
ServiceForm == {Does(FALSE, FALSE, new, FALSE) : new \in BOOLEAN}
PhotoUpload == Does(TRUE, FALSE, TRUE, FALSE)
ChangeSuccessStage == Does(FALSE, TRUE, TRUE, FALSE)
IntakeLink == Does(FALSE, FALSE, FALSE, FALSE)
Advance == Does(FALSE, TRUE, TRUE, TRUE)

\* After a confirmation, or a phrase and a confirmation.
DeleteClient == Does(TRUE, TRUE, FALSE, TRUE)
WipeAll == Does(TRUE, TRUE, FALSE, FALSE)

AppointmentAction == Does(FALSE, TRUE, FALSE, FALSE)

\* What is there already is not imported or exported again.
GoogleImport == Does(FALSE, TRUE, FALSE, FALSE)
ExportFile == Does(FALSE, TRUE, TRUE, FALSE)
Connect == Does(FALSE, TRUE, FALSE, FALSE)

Kinds == ClientForm \cup TaskForm \cup ServiceForm \cup
    {BlockForm, SendMessageForm, IntakeForm, ChangePassword, Login, PhotoUpload, ChangeSuccessStage,
     IntakeLink, Advance, DeleteClient, WipeAll, AppointmentAction, GoogleImport, ExportFile, Connect}

TypeOK ==
    /\ kind \in Kinds
    /\ form \in [filled: BOOLEAN, valid: BOOLEAN, busy: BOOLEAN, shows: {"nothing", "ask", "error", "refused"}]
    /\ calls \subseteq [n: 1..MaxClicks, valid: BOOLEAN, pc: {"asked", "done", "refused"}]
    /\ effect \in 0..MaxClicks /\ lost \in 0..MaxClicks /\ clicks \in 0..MaxClicks
    /\ wishes \in 0..MaxWishes /\ told \in 0..MaxClicks

Blank == [filled |-> FALSE, valid |-> FALSE, busy |-> FALSE, shows |-> "nothing"]

Init ==
    /\ kind \in Kinds
    /\ form = Blank /\ calls = {}
    /\ effect = 0 /\ wishes = 0 /\ told = 0 /\ lost = 0 /\ clicks = 0
-----------------------------------------------------------------------------
\* valid: the server will find nothing wrong with it.
Fill(filled, valid) ==
    /\ form' = [form EXCEPT !.filled = filled, !.valid = valid]
    /\ form' # form
    /\ UNCHANGED <<kind, calls, effect, wishes, told, lost, clicks>>

\* The last wish is fulfilled: another one.
Wish ==
    /\ wishes < MaxWishes /\ wishes = told /\ calls = {}
    /\ wishes' = wishes + 1
    /\ UNCHANGED <<kind, form, calls, effect, told, lost, clicks>>

\* Mutant of CanSubmit: the button stays on.
CanSubmitAlways == TRUE

CanSubmit == kind.guarded => ~form.busy

\* A user who was told that it is done does not submit again.
HandleSubmit ==
    /\ CanSubmit /\ told < wishes
    /\ clicks < MaxClicks /\ clicks' = clicks + 1
    /\ IF kind.checks /\ ~form.filled
       THEN form' = [form EXCEPT !.shows = "ask"] /\ UNCHANGED calls
       ELSE /\ form' = [form EXCEPT !.shows = "nothing", !.busy = TRUE]
            /\ calls' = calls \cup {[n |-> clicks + 1, valid |-> form.valid, pc |-> "asked"]}
    /\ UNCHANGED <<kind, effect, wishes, told, lost>>

Answered(c, pc) == calls' = (calls \ {c}) \cup {[c EXCEPT !.pc = pc]}

\* Whether what the wish is about has been carried out before.
Before == effect >= wishes

Serve(c) ==
    /\ c.pc = "asked"
    /\ IF c.valid /\ ~(kind.once /\ Before)
       THEN effect' = effect + 1 /\ Answered(c, "done")
       ELSE UNCHANGED effect /\ Answered(c, "refused")
    /\ UNCHANGED <<kind, form, wishes, told, lost, clicks>>

Done(c) ==
    /\ c.pc = "done" /\ calls' = calls \ {c}
    /\ told' = wishes
    /\ form' = Blank
    /\ UNCHANGED <<kind, effect, wishes, lost, clicks>>

Refused(c) ==
    /\ c.pc = "refused" /\ calls' = calls \ {c}
    /\ form' = [form EXCEPT !.busy = FALSE, !.shows = "refused"]
    /\ UNCHANGED <<kind, effect, wishes, told, lost, clicks>>

\* What was typed stays.
Lost(c) ==
    /\ calls' = calls \ {c}
    /\ form' = [form EXCEPT !.busy = FALSE, !.shows = "error"]
    /\ lost' = lost + 1
    /\ UNCHANGED <<kind, effect, wishes, told, clicks>>

Next ==
    \/ \E filled, valid \in BOOLEAN : Fill(filled, valid)
    \/ Wish \/ HandleSubmit
    \/ \E c \in calls : Serve(c) \/ Done(c) \/ Refused(c) \/ Lost(c)

Spec == Init /\ [][Next]_vars
-----------------------------------------------------------------------------
(* Properties *)

\* Inductive: one wish is open at most, and a call that is done was for it.
OneWishAtATime ==
    /\ told <= effect /\ told <= wishes /\ wishes <= told + 1
    /\ \A c \in calls : c.pc = "done" => wishes <= effect

\* Inductive: a button that goes off has one call under way, for a wish that is open,
\* and every other effect is one she was told or whose answer was lost.
OneCallAtATime == kind.guarded =>
    /\ calls # {} => form.busy /\ told < wishes /\ form.shows # "refused"
    /\ \A c, d \in calls : c = d
    /\ effect <= told + lost + (IF \E c \in calls : c.pc = "done" THEN 1 ELSE 0)

\* What the user wishes is done once: what she is told is done was carried out, a
\* form whose button goes off adds no more than she wished and one for each answer
\* that was lost, and where the server refuses a repetition she is told that it was
\* refused only if it was not carried out, or an answer was lost.
DoneOnce ==
    /\ told <= effect
    /\ (kind.adds /\ kind.guarded) => effect <= wishes + lost
    /\ (kind.once /\ kind.guarded /\ lost = 0 /\ told < wishes /\ form.shows = "refused") => effect < wishes
=============================================================================
