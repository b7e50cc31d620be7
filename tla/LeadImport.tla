----------------------------- MODULE LeadImport -----------------------------
(***************************************************************************)
(* The answers to Respondi's form on their way to a lead: the webhook, and *)
(* the two imports of the form for a new lead, by link and from the pasted *)
(* page, next to the messages of the same people on WhatsApp.  Two         *)
(* creations that overlap are in People.tla: here a creation is one step.  *)
(*                                                                         *)
(* A number is written in one of several ways; what is stored is the       *)
(* number as WhatsApp has it, the number of another country, or the right  *)
(* number with spaces in it.                                               *)
(***************************************************************************)
EXTENDS Integers, Sequences, FiniteSets, FiniteSetsExt

CONSTANTS People, None,
          Responses,      \* sequences of answers, see Answer
          MaxRows, MaxForms, MaxImports      \* bounds

VARIABLES
    response,     \* what each person answers
    told,         \* whose answers the webhook brought
    rows,         \* the table of leads
    form,         \* the form for a new lead
    forms,        \* forms opened
    calls         \* creations under way for a form

vars == <<response, told, rows, form, forms, calls>>
-----------------------------------------------------------------------------
(* Answers *)

Areas == {"painPoints", "desires", "objections", "leadNotes"}

\* A question has the words of a field as a whole, or hints at areas.
Question == [exact: {"name", "phone", None}, hints: SUBSET {"painPoints", "desires", "objections"}]

\* Ways of writing a number: without the country, with it, with it and spaces, as
\* an object whose country is missing.
Writings == {"local", "full", "spaced", "bare"}
Answer == [question: Question, said: Writings \cup {"text", "blank"}]

FieldOf(q) ==
    IF q.exact # None THEN q.exact
    ELSE IF "painPoints" \in q.hints THEN "painPoints"
    ELSE IF "desires" \in q.hints THEN "desires"
    ELSE IF "objections" \in q.hints THEN "objections"
    ELSE "leadNotes"

\* Mutant of ToE164: a number is taken for a local one whatever its length.
ToE164Always(said) == IF said = "full" THEN "foreign" ELSE IF said = "spaced" THEN "spaced" ELSE "right"

\* Ten or eleven digits get the country; after a plus nothing is changed.  The
\* object of a phone already has become a plus and its digits.
ToE164(said) == CASE said = "spaced" -> "spaced" [] said = "bare" -> "foreign" [] OTHER -> "right"

\* The pasted page: a plus and the digits, whatever they are.
NormalizePhone(said) == IF said \in {"local", "bare"} THEN "foreign" ELSE "right"

Given(p, field) == {i \in DOMAIN response[p] :
    response[p][i].said # "blank" /\ FieldOf(response[p][i].question) = field}

Phone(p, formOf) ==
    IF Given(p, "phone") = {} THEN None
    ELSE [of |-> p, form |-> formOf[response[p][Max(Given(p, "phone"))].said]]

\* The answers in the fields of a lead; what a person answers in an area, one line
\* for each answer, is known by the person.
Mapped(p, formOf) ==
    [name  |-> IF Given(p, "name") = {} THEN None ELSE p,
     phone |-> Phone(p, formOf),
     texts |-> [a \in Areas |-> IF Given(p, a) = {} THEN <<>> ELSE <<p>>],
     mixed |-> FALSE]

MapAnswers(p) == Mapped(p, [w \in Writings |-> ToE164(w)])
ParseRespondiHtml(p) == Mapped(p, [w \in Writings |-> NormalizePhone(w)])

HasAnyParsedData(lead) ==
    lead.name # None \/ lead.phone # None \/ \E a \in Areas : lead.texts[a] # <<>>
-----------------------------------------------------------------------------
(* The form and the table *)

\* mixed (history): holds what more than one import brought.
Numbers == [of: People, form: {"right", "foreign", "spaced"}]
Lead == [name: People \cup {None}, phone: Numbers \cup {None},
         texts: [Areas -> Seq(People)], mixed: BOOLEAN]

Row == [lead: Lead, stage: {"LEAD", "FURTHER"}]
Form == [lead: Lead, imports: 0..MaxImports, importing: People \cup {None}, submitting: BOOLEAN]

TypeOK ==
    /\ response \in [People -> Seq(Answer)]
    /\ told \subseteq People
    /\ rows \in Seq(Row) /\ Len(rows) <= MaxRows
    /\ form \in {None} \cup Form /\ (form # None => forms > 0)
    /\ forms \in 0..MaxForms
    /\ calls \subseteq [form: 1..forms, lead: Lead, state: {"asked", "ok", "error"}]

Empty == [name |-> None, phone |-> None, texts |-> [a \in Areas |-> <<>>], mixed |-> FALSE]

Init ==
    /\ response \in [People -> Responses]
    /\ told = {} /\ rows = <<>>
    /\ form = None /\ forms = 0 /\ calls = {}

Or(value, old) == IF value = None THEN old ELSE value

\* A creation for a number that is known completes the record of a lead; what it
\* does not say stays.
Completed(old, lead) ==
    [name |-> Or(lead.name, old.name), phone |-> old.phone, mixed |-> lead.mixed \/ old.mixed,
     texts |-> [a \in Areas |-> IF lead.texts[a] = <<>> THEN old.texts[a] ELSE lead.texts[a]]]

With(phone) == {i \in DOMAIN rows : phone # None /\ rows[i].lead.phone = phone}

Create(lead) ==
    /\ With(lead.phone) = {}
    /\ Len(rows) < MaxRows
    /\ rows' = Append(rows, [lead |-> lead, stage |-> "LEAD"])

Complete(lead) == \E i \in With(lead.phone) :
    /\ rows[i].stage = "LEAD"
    /\ rows' = [rows EXCEPT ![i].lead = Completed(rows[i].lead, lead)]

Conflict(lead) == \E i \in With(lead.phone) : rows[i].stage # "LEAD" /\ UNCHANGED rows

\* Without the validation of a request; without a name or a number nothing is made.
HandleWebhook(p) ==
    /\ p \notin told /\ told' = told \cup {p}
    /\ LET lead == MapAnswers(p) IN
       IF lead.name = None \/ lead.phone = None THEN UNCHANGED rows
       ELSE Create(lead) \/ Complete(lead) \/ Conflict(lead)
    /\ UNCHANGED <<response, form, forms, calls>>

\* A message of WhatsApp: findOrCreateByPhone.
Message(p) ==
    /\ Create([Empty EXCEPT !.name = p, !.phone = [of |-> p, form |-> "right"]])
    /\ UNCHANGED <<response, told, form, forms, calls>>

AdvanceToPipeline(i) ==
    /\ rows[i].stage = "LEAD"
    /\ rows' = [rows EXCEPT ![i].stage = "FURTHER"]
    /\ UNCHANGED <<response, told, form, forms, calls>>
-----------------------------------------------------------------------------
(* LeadFormModal *)

OpenForm ==
    /\ form = None /\ forms < MaxForms
    /\ forms' = forms + 1
    /\ form' = [lead |-> Empty, imports |-> 0, importing |-> None, submitting |-> FALSE]
    /\ UNCHANGED <<response, told, rows, calls>>

\* What is under way goes on, and its answer comes to nothing.
Close ==
    /\ form # None /\ form' = None
    /\ UNCHANGED <<response, told, rows, forms, calls>>

\* Texts are added to what is in the form, the rest is replaced.
ApplyImported(lead) ==
    LET old == form.lead IN
    [form EXCEPT !.imports = @ + 1, !.lead =
        [name  |-> Or(lead.name, old.name), phone |-> Or(lead.phone, old.phone),
         texts |-> [a \in Areas |-> old.texts[a] \o lead.texts[a]], mixed |-> form.imports > 0]]

AskUrl(p) ==
    /\ form # None /\ form.importing = None /\ form.imports < MaxImports
    /\ form' = [form EXCEPT !.importing = p]
    /\ UNCHANGED <<response, told, rows, forms, calls>>

UrlArrives ==
    /\ form # None /\ form.importing # None /\ form.imports < MaxImports
    /\ response[form.importing] # <<>>
    /\ form' = [ApplyImported(MapAnswers(form.importing)) EXCEPT !.importing = None]
    /\ UNCHANGED <<response, told, rows, forms, calls>>

\* No token, an expired one, another error of Respondi, no answers.
UrlFails ==
    /\ form # None /\ form.importing # None
    /\ form' = [form EXCEPT !.importing = None]
    /\ UNCHANGED <<response, told, rows, forms, calls>>

\* Possibly while an import by link is under way.
ImportHtml(p) ==
    /\ form # None /\ form.imports < MaxImports
    /\ HasAnyParsedData(ParseRespondiHtml(p))
    /\ form' = ApplyImported(ParseRespondiHtml(p))
    /\ UNCHANGED <<response, told, rows, forms, calls>>

HandleSubmit ==
    /\ form # None /\ ~form.submitting
    /\ form' = [form EXCEPT !.submitting = TRUE]
    /\ calls' = calls \cup {[form |-> forms, lead |-> form.lead, state |-> "asked"]}
    /\ UNCHANGED <<response, told, rows, forms>>

\* The validation wants a name, and may find the number of another country invalid;
\* it finds nothing wrong with spaces.
Valid(lead) == lead.name # None
MayBeInvalid(lead) == lead.name = None \/ (lead.phone # None /\ lead.phone.form = "foreign")

Becomes(c, state) == calls' = (calls \ {c}) \cup {[c EXCEPT !.state = state]}

Serve(c) ==
    /\ c.state = "asked"
    /\ \/ Valid(c.lead) /\ (Create(c.lead) \/ Complete(c.lead)) /\ Becomes(c, "ok")
       \/ Valid(c.lead) /\ Conflict(c.lead) /\ Becomes(c, "error")
       \/ MayBeInvalid(c.lead) /\ UNCHANGED rows /\ Becomes(c, "error")
    /\ UNCHANGED <<response, told, form, forms>>

Ends(c, ok) ==
    /\ calls' = calls \ {c}
    /\ form' = IF form = None \/ c.form # forms THEN form
               ELSE IF ok THEN None ELSE [form EXCEPT !.submitting = FALSE]
    /\ UNCHANGED <<response, told, rows, forms>>

Arrive(c) == c.state # "asked" /\ Ends(c, c.state = "ok")

\* The request or its answer is lost; what was typed stays in the form.
Lost(c) == Ends(c, FALSE)
-----------------------------------------------------------------------------
Next ==
    \/ \E p \in People : HandleWebhook(p) \/ Message(p) \/ AskUrl(p) \/ ImportHtml(p)
    \/ \E i \in DOMAIN rows : AdvanceToPipeline(i)
    \/ OpenForm \/ Close \/ UrlArrives \/ UrlFails \/ HandleSubmit
    \/ \E c \in calls : Serve(c) \/ Arrive(c) \/ Lost(c)

Spec == Init /\ [][Next]_vars
-----------------------------------------------------------------------------
(* Properties *)

WithCountry(p) ==
    Given(p, "phone") # {} /\ \A i \in Given(p, "phone") : response[p][i].said = "full"

\* What a lead says is of one person, or it says nothing.
OfOne(lead) == lead = Empty \/ \E p \in People :
    /\ lead.name \in {p, None}
    /\ lead.phone # None => lead.phone.of = p
    /\ WithCountry(p) => lead.phone = [of |-> p, form |-> "right"]
    /\ \A a \in Areas : lead.texts[a] \in {<<>>, MapAnswers(p).texts[a]}

\* Inductive: wherever a lead is, it is of one person, except where one form took two
\* imports; and no two records have one number.
EachOfOne ==
    /\ \A i \in DOMAIN rows : rows[i].lead.name # None /\ (rows[i].lead.mixed \/ OfOne(rows[i].lead))
    /\ \A i, j \in DOMAIN rows : (i # j /\ rows[i].lead.phone = rows[j].lead.phone) => rows[i].lead.phone = None
    /\ form # None => /\ form.imports = 0 => form.lead = Empty
                      /\ form.lead.mixed \/ OfOne(form.lead)
    /\ \A c \in calls : c.lead.mixed \/ OfOne(c.lead)

\* However a person who gives her number with its country comes to the CRM, by the
\* webhook, an import, or WhatsApp, with answers lost and forms sent again, she has
\* one record; and a record has what its person answered, each text once.  Except
\* where one form took two imports.
OnePersonOneRecord ==
    /\ \A i, j \in DOMAIN rows :
         (i # j /\ rows[i].lead.name = rows[j].lead.name /\ WithCountry(rows[i].lead.name)) =>
             rows[i].lead.mixed \/ rows[j].lead.mixed
    /\ \A i \in DOMAIN rows : ~rows[i].lead.mixed =>
         \A a \in Areas : rows[i].lead.texts[a] \in {<<>>, MapAnswers(rows[i].lead.name).texts[a]}
=============================================================================
