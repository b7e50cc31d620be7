------------------------------- MODULE Booking -------------------------------
(***************************************************************************)
(* The form for a new appointment: the search for a person or the entry of *)
(* a new client, the times offered for a service or one that is typed, and *)
(* the submission, which makes the client first and then the appointment.  *)
(* The button is off during the second of these calls only.  The server    *)
(* refuses a number that is there and a time that is taken.                *)
(***************************************************************************)
EXTENDS Integers, Sequences, FiniteSets

CONSTANTS Services, Times, Numbers, None,
          Manual,                         \* in place of the service a time was offered for
          MaxActs, MaxClients, MaxClicks     \* bounds

VARIABLES
    form,         \* what the person of the CRM sees; None: closed
    loads,        \* requests for times under way
    runs,         \* submissions under way
    clients,      \* the number of each client
    appts,        \* [client, service, slot] of the appointments of this form
    taken,        \* times that are not free
    acts, clicks,
    known,        \* history: what went wrong of what is known to go wrong
    told          \* history: the form said that it was done

vars == <<form, loads, runs, clients, appts, taken, acts, clicks, known, told>>
-----------------------------------------------------------------------------
Clients == 1..MaxClients
Slot == [of: Services \cup {Manual}, at: Times]

Form ==
    [client: Clients \cup {None}, results: SUBSET Clients,
     fresh: BOOLEAN, number: Numbers \cup {None},           \* newClientMode, and its fields
     service: Services \cup {None}, manual: BOOLEAN, slots: Services \cup {None}, loading: BOOLEAN,
     slot: Slot \cup {None}, submitting: BOOLEAN]

TypeOK ==
    /\ form \in Form \cup {None}
    /\ \A l \in loads : l.service \in Services /\ l.id \in 1..MaxActs
    /\ \A r \in runs : r.pc \in {"create", "created", "noClient", "book", "booked", "refused"}
    /\ clients \in Seq(Numbers \cup {None}) /\ Len(clients) <= MaxClients
    /\ taken \subseteq Times
    /\ acts \in 0..MaxActs /\ clicks \in 0..MaxClicks
    /\ known \subseteq {"lost", "twice", "stale"} /\ told \in BOOLEAN

Init ==
    /\ form = [client |-> None, results |-> {}, fresh |-> FALSE, number |-> None,
               service |-> None, manual |-> FALSE, slots |-> None, loading |-> FALSE,
               slot |-> None, submitting |-> FALSE]
    /\ loads = {} /\ runs = {}
    /\ clients = <<>> /\ appts = {} /\ taken = {}
    /\ acts = 0 /\ clicks = 0 /\ known = {} /\ told = FALSE

Act == form # None /\ acts < MaxActs /\ acts' = acts + 1
-----------------------------------------------------------------------------
(* The client *)

\* After a pause; an answer that was overtaken does not count, so that a search is
\* one step.
Search ==
    /\ Act /\ form.client = None
    /\ form' = [form EXCEPT !.results = DOMAIN clients]
    /\ form' # form
    /\ UNCHANGED <<loads, runs, clients, appts, taken, clicks, known, told>>

\* One of the results, or none again.
Select(c) ==
    /\ Act /\ (c = None \/ c \in form.results) /\ c # form.client
    /\ form' = [form EXCEPT !.client = c]
    /\ UNCHANGED <<loads, runs, clients, appts, taken, clicks, known, told>>

\* Offered when a search found nobody, and it stays.
NewClient(number) ==
    /\ Act /\ form.client = None
    /\ form.fresh \/ form.results = {}
    /\ form' = [form EXCEPT !.fresh = TRUE, !.number = number]
    /\ form' # form
    /\ UNCHANGED <<loads, runs, clients, appts, taken, clicks, known, told>>
-----------------------------------------------------------------------------
(* The time *)

\* A change to a service, or back to the times offered, asks for the times; those
\* that are shown stay, and can be picked, until others come.
Asked(f) == [f EXCEPT !.slot = None, !.loading = TRUE]
AskFor(s) == loads' = loads \cup {[id |-> acts + 1, service |-> s]}

ChooseService(s) ==
    /\ Act /\ s # form.service
    /\ IF form.manual \/ s = None THEN form' = [form EXCEPT !.service = s] /\ UNCHANGED loads
       ELSE form' = Asked([form EXCEPT !.service = s]) /\ AskFor(s)
    /\ UNCHANGED <<runs, clients, appts, taken, clicks, known, told>>

\* The request that is answered last counts, whatever it was for.
SlotsArrive(l) ==
    /\ loads' = loads \ {l}
    /\ form' = IF form = None THEN None ELSE [form EXCEPT !.slots = l.service, !.loading = FALSE]
    /\ known' = known \cup (IF loads = {l} THEN {} ELSE {"stale"})
    /\ UNCHANGED <<runs, clients, appts, taken, acts, clicks, told>>

SlotsFail(l) ==
    /\ loads' = loads \ {l}
    /\ form' = IF form = None THEN None ELSE [form EXCEPT !.loading = FALSE]
    /\ known' = known \cup {"stale"}
    /\ UNCHANGED <<runs, clients, appts, taken, acts, clicks, told>>

PickSlot(at) ==
    /\ Act /\ ~form.manual /\ form.service # None /\ form.slots # None
    /\ form' = [form EXCEPT !.slot = [of |-> form.slots, at |-> at]]
    /\ form' # form
    /\ known' = known \cup (IF form.loading THEN {"stale"} ELSE {})
    /\ UNCHANGED <<loads, runs, clients, appts, taken, clicks, told>>

ToggleManualEntry ==
    /\ Act /\ form.service # None
    /\ IF form.manual THEN form' = Asked([form EXCEPT !.manual = FALSE]) /\ AskFor(form.service)
       ELSE form' = [form EXCEPT !.manual = TRUE, !.slot = None] /\ UNCHANGED loads
    /\ UNCHANGED <<runs, clients, appts, taken, clicks, known, told>>

TypeManual(at) ==
    /\ Act /\ form.manual
    /\ form' = [form EXCEPT !.slot = [of |-> Manual, at |-> at]]
    /\ UNCHANGED <<loads, runs, clients, appts, taken, clicks, known, told>>
-----------------------------------------------------------------------------
(* handleSubmit *)

\* What the form held at the click, and where the submission is.
Run(pc) == [n |-> clicks + 1, pc |-> pc, client |-> form.client, number |-> form.number,
            service |-> form.service, slot |-> form.slot]

Complete(r) == r.service # None /\ r.slot # None

\* Mutant of CanSubmit: the button is never off.
CanSubmitAlways == form # None
CanSubmit == form # None /\ ~form.submitting

\* The client is made although there may be no service or time yet.
HandleSubmit ==
    /\ CanSubmit /\ clicks < MaxClicks /\ clicks' = clicks + 1
    /\ \/ /\ form.client # None /\ Complete(Run("book"))
          /\ runs' = runs \cup {Run("book")}
          /\ form' = [form EXCEPT !.submitting = TRUE]
       \/ /\ form.client = None /\ form.fresh
          /\ runs' = runs \cup {Run("create")}
          /\ UNCHANGED form
    /\ known' = known \cup (IF \E r \in runs : r.pc \in {"create", "created"} THEN {"twice"} ELSE {})
    /\ UNCHANGED <<loads, clients, appts, taken, acts, told>>

Becomes(r, changed) == runs' = (runs \ {r}) \cup {changed}

ClientsCreate(r) ==
    /\ r.pc = "create"
    /\ IF r.number # None /\ \E c \in DOMAIN clients : clients[c] = r.number
       THEN Becomes(r, [r EXCEPT !.pc = "noClient"]) /\ UNCHANGED clients
       ELSE /\ Len(clients) < MaxClients
            /\ clients' = Append(clients, r.number)
            /\ Becomes(r, [r EXCEPT !.pc = "created", !.client = Len(clients) + 1])
    /\ UNCHANGED <<form, loads, appts, taken, acts, clicks, known, told>>

\* With the client that was made, even if the form was closed in between.
ClientArrives(r) ==
    /\ r.pc = "created"
    /\ IF Complete(r)
       THEN /\ Becomes(r, [r EXCEPT !.pc = "book"])
            /\ form' = IF form = None THEN None ELSE [form EXCEPT !.submitting = TRUE]
       ELSE runs' = runs \ {r} /\ UNCHANGED form
    /\ UNCHANGED <<loads, clients, appts, taken, acts, clicks, known, told>>

AppointmentsCreate(r) ==
    /\ r.pc = "book"
    /\ IF r.slot.at \in taken THEN Becomes(r, [r EXCEPT !.pc = "refused"]) /\ UNCHANGED <<appts, taken>>
       ELSE /\ appts' = appts \cup {[client |-> r.client, service |-> r.service, slot |-> r.slot]}
            /\ taken' = taken \cup {r.slot.at}
            /\ Becomes(r, [r EXCEPT !.pc = "booked"])
    /\ UNCHANGED <<form, loads, clients, acts, clicks, known, told>>

\* An error is shown, and the button is on again.
Failed(r) ==
    /\ runs' = runs \ {r}
    /\ form' = IF form = None \/ r.pc \in {"create", "created", "noClient"} THEN form
               ELSE [form EXCEPT !.submitting = FALSE]

Done(r) ==
    /\ r.pc = "booked"
    /\ runs' = runs \ {r} /\ form' = None /\ told' = TRUE
    /\ UNCHANGED <<loads, clients, appts, taken, acts, clicks, known>>

Refused(r) ==
    /\ r.pc \in {"noClient", "refused"} /\ Failed(r)
    /\ UNCHANGED <<loads, clients, appts, taken, acts, clicks, known, told>>

Lost(r) ==
    /\ r.pc \in {"create", "created", "book", "booked"} /\ Failed(r)
    /\ known' = known \cup {"lost"}
    /\ UNCHANGED <<loads, clients, appts, taken, acts, clicks, told>>

Close ==
    /\ form # None /\ form' = None
    /\ UNCHANGED <<loads, runs, clients, appts, taken, acts, clicks, known, told>>

\* Somebody else books the time.
OthersBook(at) ==
    /\ Act /\ at \notin taken /\ taken' = taken \cup {at}
    /\ UNCHANGED <<form, loads, runs, clients, appts, clicks, known, told>>
-----------------------------------------------------------------------------
Next ==
    \/ Search \/ ToggleManualEntry \/ HandleSubmit \/ Close
    \/ \E c \in Clients \cup {None} : Select(c)
    \/ \E number \in Numbers \cup {None} : NewClient(number)
    \/ \E s \in Services \cup {None} : ChooseService(s)
    \/ \E l \in loads : SlotsArrive(l) \/ SlotsFail(l)
    \/ \E at \in Times : PickSlot(at) \/ TypeManual(at) \/ OthersBook(at)
    \/ \E r \in runs : ClientsCreate(r) \/ ClientArrives(r) \/ AppointmentsCreate(r)
                       \/ Done(r) \/ Refused(r) \/ Lost(r)

Spec == Init /\ [][Next]_vars
-----------------------------------------------------------------------------
(* Properties *)

Acting == {r \in runs : r.pc # "noClient"}
Booking == {r \in runs : r.pc \in {"book", "booked", "refused"}}

\* Inductive: without answers lost or clicks too many there is one submission at a
\* time, the button is off in its second call, and the appointment is its own.
OneSubmission ==
    /\ known \cap {"lost", "twice"} = {} =>
         /\ \A r, q \in Acting : r = q
         /\ Booking # {} /\ form # None => form.submitting
         /\ \A a, b \in appts : a = b
         /\ appts # {} => (form = None /\ Acting = {}) \/ \E r \in runs : r.pc = "booked"
    /\ told \/ (\E r \in runs : r.pc = "booked") => appts # {}

\* A time typed, or offered for the service.
Fits(x) == x.slot.of \in {x.service, Manual}

\* Inductive: times on the form are for its service once they are there, and so is
\* the one that was picked, and what was submitted.
TimesFit ==
    /\ \A r \in Booking : Complete(r)
    /\ "stale" \notin known =>
         /\ form # None =>
              /\ Complete(form) => Fits(form)
              /\ form.manual /\ form.slot # None => form.slot.of = Manual
              /\ (~form.manual /\ form.service # None) =>
                   /\ (~form.loading /\ form.slots # None) => form.slots = form.service
                   /\ \A l \in loads : loads = {l} => l.service = form.service
         /\ \A r \in runs : Complete(r) => Fits(r)
         /\ \A a \in appts : Fits(a)

\* A form makes one appointment, at a time offered for its service or typed, and one
\* that says it is done has made it.  Except after an answer that was lost or a
\* click during the creation of the client; and as to the time, one picked before
\* the times for the service were there.
BookedOnce ==
    /\ Cardinality(appts) > 1 => known \cap {"lost", "twice"} # {}
    /\ \A a \in appts : a.slot.of \in {a.service, Manual} \/ "stale" \in known
    /\ told => appts # {}
=============================================================================
