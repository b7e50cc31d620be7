---------------------------- MODULE Conversation ----------------------------
(***************************************************************************)
(* whatsapp/conversation and the scan of hand-offs of inbox/: one phone    *)
(* number, its conversation, the messages that come in, the handlers that  *)
(* answer them, and the notices to the people of the CRM.                  *)
(*                                                                         *)
(* The webhook answers "ok" whatever happens, so a message is delivered    *)
(* again only by a provider that did not get the answer, or that sends its *)
(* history.  Handlers run in requests of their own: they overlap.  Each    *)
(* one works with the state it read when it began.                         *)
(*                                                                         *)
(* The steps of booking, moving and cancelling have no entry in the menu   *)
(* of this version.  A conversation left in one of them by the version     *)
(* whose menu is in docs/03-fluxos-whatsapp.md goes on from there: Init.   *)
(*                                                                         *)
(* Data left out: wording, names, the service and where it takes place,    *)
(* the photo.  One unit of time is more than two minutes.  An answer is    *)
(* queued at once; how it is sent is the module Delivery.                  *)
(***************************************************************************)
EXTENDS Integers, FiniteSets, Sequences

CONSTANTS MaxMsgs,        \* bound: messages the client sends
          Contents,       \* what a message may be: [text, photo]
          Handlers,       \* bound: handlers at work at the same time
          Slots,          \* the times that can be booked, a set of numbers
          Own,            \* the one of the appointment the client has
          Limit,          \* how many are offered
          Day,            \* ONE_DAY_MS and HANDOFF_WINDOW_MS
          MaxTime,        \* bound: the horizon
          MaxTroubles,    \* bound: second deliveries, acts of the people of the
                          \* CRM, calls that fail and handlers that die
          Absent, None

ASSUME NumbersAssumption ==
    /\ MaxMsgs \in Nat /\ MaxTime \in Nat /\ Day \in Nat \ {0} /\ Limit \in Nat \ {0}
    /\ Slots \subseteq Nat \ {0} /\ IsFiniteSet(Slots) /\ Own \in Slots
    /\ MaxTroubles \in Nat

VARIABLES
    client,     \* the row of clients with this number
    conv,       \* the row of conversations
    sent,       \* the messages the client sent, by number: when, None once stored
    stored,     \* those in the table messages
    last,       \* the newest row there: its number, 0 if it is ours
    agenda,     \* the times that are booked, by others and by the client
    handler,    \* what each handler is about to do
    now,
    noticed,    \* messages the people of the CRM have a notice of
    settled,    \* history: stored messages that were answered, or are excused
    twice,      \* history: a message was answered by two handlers
    heard,      \* history: the last answer that says how to go on
    told,       \* history: the times the client was told she has booked
    accident,   \* history: what went wrong so far
    delivered,  \* history: messages that reached the webhook
    troubles

vars == <<client, conv, sent, stored, last, agenda, handler, now,
          noticed, settled, twice, heard, told, accident, delivered, troubles>>
-----------------------------------------------------------------------------
Msgs == 1..MaxMsgs
Times == 0..MaxTime

Texts == {"1", "2", "3", "4", "menu", "outro dia", "words"}

Await == {"TALK_TO_LUANA_AWAIT_MESSAGE", "METHOD_AWAIT_ANSWERS", "OTHER_SUBJECT_AWAIT_MESSAGE"}
Booking == {"SCHEDULE_CHOOSE_SERVICE", "SCHEDULE_CHOOSE_LOCATION", "SCHEDULE_CHOOSE_SLOT",
            "SCHEDULE_CONFIRM"}
Moving == {"RESCHEDULE_CHOOSE_APPOINTMENT", "RESCHEDULE_CHOOSE_SLOT", "RESCHEDULE_CONFIRM"}
Cancelling == {"CANCEL_CHOOSE_APPOINTMENT", "CANCEL_ASK_REASON"}
Steps == {"MENU", "HUMAN_HANDOFF"} \cup Await \cup Booking \cup Moving \cup Cancelling

\* With the data the handler of the step takes for granted.
State ==
    {s \in [step: Steps, updatedAt: Times, offered: SUBSET Slots, chosen: Slots \cup {None}] :
        /\ s.step \in {"SCHEDULE_CHOOSE_SLOT", "RESCHEDULE_CHOOSE_SLOT"} => s.offered # {}
        /\ s.step \in {"SCHEDULE_CONFIRM", "RESCHEDULE_CONFIRM"} => s.chosen # None}

Conv == [state: State \cup {None}, needsHuman: BOOLEAN, lastMessageAt: Times]

\* Answers that leave the conversation where it is, and those that say how to
\* go on.
Asides == {"photo", "invalid", "taken"}
Answers == {"welcome", "menu", "clarify", "option", "community", "ack", "location?",
            "slots", "noslots", "confirm?", "reason?", "booked", "cancelled"}

\* spoke: it has given an answer; say: the answer to give; mark: needsHuman
\* comes next; after: the times it has offered before.
Handling == [pc: {"create", "upsert", "store", "touch", "photo", "reply", "offer",
                  "load", "book", "cancel", "mark", "save"},
             msg: Msgs, text: Texts \cup {None}, at: Times, spoke: BOOLEAN, owner: BOOLEAN,
             read: State \cup {None}, say: Asides \cup Answers, mark: BOOLEAN,
             next: State \cup {None}, after: SUBSET Slots]

Idle == [pc |-> "idle"]

Accidents == {"died", "backlog", "overlapped", "moved", "late"}

\* others: booked by someone else.  mine: booked here.  target: the
\* appointment the client had, and whether it stands.
Agenda == [others: SUBSET Slots, mine: SUBSET Slots,
           target: [slot: Slots, stands: BOOLEAN] \cup {Absent}]

ASSUME ContentsAssumption == Contents \subseteq [text: Texts \cup {None}, photo: BOOLEAN]

\* Null, and what stands for no row, are none of the values.
ASSUME SentinelAssumption ==
    /\ None \notin Nat \cup Answers /\ None \notin State
    /\ Absent \notin {"owner", "other"} \cup Conv \cup [slot: Slots, stands: BOOLEAN]

TypeOK ==
    /\ client \in {Absent, "owner", "other"}
    /\ conv \in Conv \cup {Absent}
    /\ sent \in Seq(Times \cup {None}) /\ Len(sent) <= MaxMsgs
    /\ stored \subseteq Msgs /\ last \in Msgs \cup {0}
    /\ agenda \in Agenda
    /\ handler \in [Handlers -> Handling \cup {Idle}]
    /\ now \in Times /\ noticed \subseteq stored
    /\ settled \subseteq stored /\ twice \in BOOLEAN /\ heard \in Answers \cup {None}
    /\ told \subseteq Slots
    /\ delivered \subseteq Msgs /\ troubles \in 0..MaxTroubles
    /\ accident \in [Accidents -> BOOLEAN]

\* freshState.
Fresh(step) == [step |-> step, updatedAt |-> now, offered |-> {}, chosen |-> None]

Taken == agenda.others \cup agenda.mine
         \cup (IF agenda.target # Absent /\ agenda.target.stands THEN {agenda.target.slot} ELSE {})

\* A conversation as an earlier version left it in a step of the agenda: the
\* last thing the client heard is the question of that step, about free times.
Left ==
    {s \in State :
        /\ s.step \in Booking \cup Moving \cup Cancelling /\ s.updatedAt = 0
        /\ s.offered = IF s.step \in {"SCHEDULE_CHOOSE_SLOT", "RESCHEDULE_CHOOSE_SLOT"}
                       THEN Slots \ Taken ELSE {}
        /\ IF s.step \in {"SCHEDULE_CONFIRM", "RESCHEDULE_CONFIRM"}
           THEN s.chosen \in Slots \ Taken ELSE s.chosen = None}

Init ==
    /\ now = 0 /\ noticed = {}
    /\ agenda = [others |-> {}, mine |-> {}, target |-> [slot |-> Own, stands |-> TRUE]]
    /\ \/ client \in {Absent, "owner"} /\ conv = Absent
       \/ /\ client = "owner"
          /\ \E s \in Left : conv = [state |-> s, needsHuman |-> FALSE, lastMessageAt |-> 0]
    /\ sent = <<>> /\ stored = {} /\ last = 0
    /\ handler = [h \in Handlers |-> Idle]
    /\ settled = {} /\ twice = FALSE /\ heard = None /\ told = {}
    /\ delivered = {} /\ troubles = 0
    /\ accident = [a \in Accidents |-> FALSE]

Trouble == troubles < MaxTroubles /\ troubles' = troubles + 1

\* The handling of q ends too early: its message is excused if it was stored.
Interrupted(q) ==
    /\ accident' = [accident EXCEPT !["died"] = TRUE]
    /\ settled' = IF q.pc \in {"create", "upsert", "store"} THEN settled ELSE settled \cup {q.msg}

Goes(h, q) == handler' = [handler EXCEPT ![h] = q]
Ends(h) == Goes(h, Idle)
At(m) == \E h \in Handlers : handler[h].pc # "idle" /\ handler[h].msg = m
-----------------------------------------------------------------------------
(* The state machine: what the text of a message leads to from a state *)

OlderThanADay(t) == now - t > Day

\* Ways to go on: an answer and then the next state, a hand-off, or one of the
\* calls to the agenda.
\* (What a handler does not need any more is left out of its record.)
Saving(q) == [q EXCEPT !.pc = "save", !.say = "menu", !.read = None, !.after = {}, !.mark = FALSE]
Reply(q, say, next) == [q EXCEPT !.pc = "reply", !.say = say, !.next = next]
Stay(q) == Saving([q EXCEPT !.next = q.read])
Invalid(q) == Reply(q, "invalid", q.read)
Offer(q, after) == [q EXCEPT !.pc = "offer", !.after = after]

\* Mutant of HandoffToHuman: the flag is forgotten.
HandoffUnflagged(q) == Reply(q, "ack", Fresh("HUMAN_HANDOFF"))

\* handoffToHuman.
HandoffToHuman(q) == [Reply(q, "ack", Fresh("HUMAN_HANDOFF")) EXCEPT !.mark = TRUE]

Options == {"1", "2", "4"}
Choice(text) == CASE text = "1" -> "TALK_TO_LUANA_AWAIT_MESSAGE"
                  [] text = "2" -> "METHOD_AWAIT_ANSWERS"
                  [] text = "4" -> "OTHER_SUBJECT_AWAIT_MESSAGE"

\* Mutant of StepMenu: an option keeps the conversation in the menu.
MenuForgetsOption(q, text, greet) ==
    Reply(q, IF text \in Options THEN "option" ELSE IF greet THEN "welcome" ELSE "clarify",
          Fresh("MENU"))

StepMenu(q, text, greet) ==
    IF text \in Options THEN Reply(q, "option", Fresh(Choice(text)))
    ELSE Reply(q, CASE text = "3" -> "community"
                    [] text # "3" /\ greet -> "welcome"
                    [] text = "menu" /\ ~greet -> "menu"
                    [] OTHER -> "clarify",
               Fresh("MENU"))

\* The number of an entry of a list, 0 when the text is none.
Index(text) == CASE text = "1" -> 1 [] text = "2" -> 2 [] text = "3" -> 3 [] text = "4" -> 4 [] OTHER -> 0

\* Is s entry i of the offered times, which are in order?
Entry(offered, i, s) == s \in offered /\ Cardinality({r \in offered : r <= s}) = i

Confirming(q, confirm, slot) ==
    Reply(q, "confirm?", [Fresh(confirm) EXCEPT !.offered = q.read.offered, !.chosen = slot])

ChooseSlot(q, text, confirm) ==
    LET offered == q.read.offered IN
    IF \E s \in Slots : Entry(offered, Index(text), s)
    THEN Confirming(q, confirm, CHOOSE s \in Slots : Entry(offered, Index(text), s))
    ELSE Invalid(q)

RouteStep(q, text) ==
    LET step == q.read.step IN
    CASE ~q.owner -> Stay(q)      \* no conversation of this client is found
      [] q.owner /\ text = "menu" -> Reply(q, "menu", Fresh("MENU"))
      [] q.owner /\ text # "menu" ->
         CASE step \in Await -> HandoffToHuman(q)
           [] step = "HUMAN_HANDOFF" -> Stay(q)
           [] step = "SCHEDULE_CHOOSE_SERVICE" ->
                IF text = "1" THEN Reply(q, "location?", Fresh("SCHEDULE_CHOOSE_LOCATION")) ELSE Invalid(q)
           [] step = "SCHEDULE_CHOOSE_LOCATION" -> Offer(q, {})
           [] step = "SCHEDULE_CHOOSE_SLOT" ->
                IF text = "outro dia" THEN Offer(q, q.read.offered)
                ELSE ChooseSlot(q, text, "SCHEDULE_CONFIRM")
           [] step = "RESCHEDULE_CHOOSE_SLOT" -> ChooseSlot(q, text, "RESCHEDULE_CONFIRM")
           [] step \in {"SCHEDULE_CONFIRM", "RESCHEDULE_CONFIRM"} ->
                IF text = "1" THEN [q EXCEPT !.pc = "book"] ELSE Offer(q, {})
           [] step = "RESCHEDULE_CHOOSE_APPOINTMENT" ->
                IF text = "1" THEN [q EXCEPT !.pc = "load"] ELSE Invalid(q)
           [] step = "CANCEL_CHOOSE_APPOINTMENT" ->
                IF text = "1" THEN Reply(q, "reason?", Fresh("CANCEL_ASK_REASON")) ELSE Invalid(q)
           [] step = "CANCEL_ASK_REASON" -> [q EXCEPT !.pc = "cancel"]

\* handleIncoming, from the state it read to the call of a step.
Handle(q, text) ==
    CASE q.read = None \/ (q.read # None /\ OlderThanADay(q.read.updatedAt)) -> StepMenu(q, text, TRUE)
      [] q.read # None /\ ~OlderThanADay(q.read.updatedAt) ->
         IF q.read.step = "MENU" THEN StepMenu(q, text, FALSE) ELSE RouteStep(q, text)
-----------------------------------------------------------------------------
(* The client and the provider *)

Send ==
    /\ Len(sent) < MaxMsgs
    /\ sent' = Append(sent, now)
    /\ UNCHANGED <<client, conv, stored, last, agenda, handler, now, noticed, settled, twice,
                   heard, told, accident, delivered, troubles>>

\* A delivery: a message already stored is left alone, and of any other the
\* handler looks up the client (findOrCreateByPhone).
Receive(h) == \E m \in 1..Len(sent) :
    /\ handler[h] = Idle
    /\ delivered' = delivered \cup {m}
    /\ IF m \in delivered THEN Trouble ELSE UNCHANGED troubles
    /\ IF m \in stored THEN UNCHANGED <<handler, accident>>
       ELSE /\ Goes(h, [pc |-> IF client = Absent THEN "create" ELSE "upsert", msg |-> m,
                        text |-> None, at |-> sent[m], spoke |-> FALSE, owner |-> client # "other",
                        read |-> None, say |-> "menu", mark |-> FALSE, next |-> None, after |-> {}])
            /\ accident' = [accident EXCEPT !["overlapped"] = @ \/ \E g \in Handlers : handler[g] # Idle,
                                            !["late"] = @ \/ OlderThanADay(sent[m])]
    /\ UNCHANGED <<client, conv, sent, stored, last, agenda, now, noticed, settled, twice, heard,
                   told>>
-----------------------------------------------------------------------------
(* handleIncoming *)

\* findOrCreateByPhone: the insert.  The number is unique: when another handler
\* was faster it throws, and the message is never stored.
CreateClient(h) ==
    /\ handler[h].pc = "create"
    /\ IF client # Absent THEN Ends(h) /\ UNCHANGED client
       ELSE /\ client' = IF conv = Absent THEN "owner" ELSE "other"
            /\ Goes(h, [handler[h] EXCEPT !.pc = "upsert", !.owner = client' = "owner"])
    /\ UNCHANGED <<conv, sent, stored, last, agenda, now, noticed, settled, twice, heard, told,
                   accident, delivered, troubles>>

\* The state is read here, and nowhere else.
UpsertConversation(h) ==
    /\ handler[h].pc = "upsert"
    /\ conv' = IF conv = Absent THEN [state |-> None, needsHuman |-> FALSE, lastMessageAt |-> now]
               ELSE [conv EXCEPT !.lastMessageAt = handler[h].at]
    /\ Goes(h, [handler[h] EXCEPT !.pc = "store", !.read = conv'.state])
    /\ UNCHANGED <<client, sent, stored, last, agenda, now, noticed, settled, twice, heard, told,
                   accident, delivered, troubles>>

\* Mutant of Unique: the id of the provider is not unique.
UniqueDropped(m) == TRUE

\* Message.providerMessageId is unique.
Unique(m) == m \notin stored

\* isDelayedDelivery, and not older than a day.
Backlog(at) == at < now /\ ~OlderThanADay(at)

\* What follows the insert.  In a conversation without a state, parseState
\* makes one of this moment, no late message is newer, and nothing is written.
AfterStore(q, photo) ==
    CASE Backlog(q.at) -> IF q.read # None /\ q.at > q.read.updatedAt THEN [q EXCEPT !.pc = "touch"]
                          ELSE Idle
      [] ~Backlog(q.at) /\ photo -> [q EXCEPT !.pc = "photo"]
      [] OTHER -> Handle(q, q.text)

\* What a message says is chosen here: nobody looks at it before.
StoreMessage(h) ==
    LET q == handler[h] IN
    /\ q.pc = "store"
    /\ IF Unique(q.msg)
       THEN /\ stored' = stored \cup {q.msg} /\ last' = q.msg
            /\ sent' = [sent EXCEPT ![q.msg] = None]
            /\ \E c \in Contents : Goes(h, AfterStore([q EXCEPT !.text = c.text], c.photo))
            /\ settled' = IF Backlog(q.at) THEN settled \cup {q.msg} ELSE settled
            /\ accident' = [accident EXCEPT !["backlog"] = @ \/ Backlog(q.at)]
       ELSE Ends(h) /\ UNCHANGED <<stored, last, sent, settled, accident>>
    /\ UNCHANGED <<client, conv, agenda, now, noticed, twice, heard, told, delivered, troubles>>

\* The end of a late message: the state as read, with the time of the message.
Touch(h) ==
    /\ handler[h].pc = "touch"
    /\ conv' = [conv EXCEPT !.state = [handler[h].read EXCEPT !.updatedAt = handler[h].at]]
    /\ Ends(h)
    /\ UNCHANGED <<client, sent, stored, last, agenda, now, noticed, settled, twice, heard, told,
                   accident, delivered, troubles>>

\* sendToConversation: a row in messages, and lastMessageAt.
Answer(h, say) ==
    /\ last' = 0
    /\ conv' = [conv EXCEPT !.lastMessageAt = now]
    /\ settled' = settled \cup {handler[h].msg}
    /\ twice' = (twice \/ (~handler[h].spoke /\ handler[h].msg \in settled))
    /\ heard' = IF say \in Answers THEN say ELSE heard

\* A photo is confirmed; without a text the message ends there.
ConfirmPhoto(h) ==
    /\ handler[h].pc = "photo"
    /\ Answer(h, "photo")
    /\ Goes(h, LET q == [handler[h] EXCEPT !.spoke = TRUE] IN
               IF q.text = None THEN Idle ELSE Handle(q, q.text))
    /\ UNCHANGED <<client, sent, stored, agenda, now, noticed, told, accident, delivered, troubles>>

GiveAnswer(h) ==
    LET q == [handler[h] EXCEPT !.spoke = TRUE] IN
    /\ q.pc = "reply"
    /\ Answer(h, q.say)
    /\ told' = IF q.say = "booked" /\ q.read.step = "SCHEDULE_CONFIRM"
                THEN told \cup {q.read.chosen} ELSE told
    /\ Goes(h, IF q.say = "taken" THEN Offer(q, {})
               ELSE IF q.mark THEN [q EXCEPT !.pc = "mark"] ELSE Saving(q))
    /\ UNCHANGED <<client, sent, stored, agenda, now, noticed, accident, delivered, troubles>>

MarkNeedsHuman(h) ==
    /\ handler[h].pc = "mark"
    /\ conv' = [conv EXCEPT !.needsHuman = TRUE]
    /\ Goes(h, Saving(handler[h]))
    /\ UNCHANGED <<client, sent, stored, last, agenda, now, noticed, settled, twice, heard, told,
                   accident, delivered, troubles>>

\* The last write wins.
SaveState(h) ==
    /\ handler[h].pc = "save"
    /\ conv' = [conv EXCEPT !.state = handler[h].next]
    /\ Ends(h)
    /\ UNCHANGED <<client, sent, stored, last, agenda, now, noticed, settled, twice, heard, told,
                   accident, delivered, troubles>>
-----------------------------------------------------------------------------
(* The calls to the agenda *)

\* findAvailableSlots, as far as this module goes: the first free times that
\* come after those.
FirstFree(after) ==
    LET free == {s \in Slots \ Taken : \A r \in after : r < s} IN
    {s \in free : Cardinality({r \in free : r < s}) < Limit}

\* offerSlots and offerRescheduleSlots: without a time to offer a person has
\* to help.
OfferSlots(h) ==
    LET q == [handler[h] EXCEPT !.spoke = TRUE]
        slots == FirstFree(q.after)
        step == IF q.read.step \in Moving THEN "RESCHEDULE_CHOOSE_SLOT" ELSE "SCHEDULE_CHOOSE_SLOT"
        none == [q EXCEPT !.pc = "mark", !.next = Fresh("MENU")]
        some == Saving([q EXCEPT !.next = [Fresh(step) EXCEPT !.offered = slots]])
    IN /\ q.pc = "offer"
       /\ Answer(h, IF slots = {} THEN "noslots" ELSE "slots")
       /\ Goes(h, IF slots = {} THEN none ELSE some)
       /\ UNCHANGED <<client, sent, stored, agenda, now, noticed, told, accident, delivered, troubles>>

\* Mutant of Outcome: the client is told before the agenda has agreed.
OutcomeUnchecked(q, refused) == Reply(q, "booked", Fresh("MENU"))

\* What the client hears: any error is told as "just taken".
Outcome(q, refused) == IF refused THEN Reply(q, "taken", None) ELSE Reply(q, "booked", Fresh("MENU"))

\* AppointmentsService and the constraint: slot is taken, but for the
\* appointment that is to be moved.
Refused(slot, own) == slot \in agenda.others \cup agenda.mine \/ (~own /\ slot \in Taken)

\* scheduleConfirm and rescheduleConfirm: create, or reschedule, which takes an
\* appointment of any status.
Book(h) ==
    LET q == handler[h]  own == q.read.step = "RESCHEDULE_CONFIRM"  slot == q.read.chosen
        refused == Refused(slot, own) \/ (own /\ agenda.target = Absent)
    IN /\ q.pc = "book"
       /\ agenda' = CASE refused -> agenda
                      [] ~refused /\ own -> [agenda EXCEPT !.target = [slot |-> slot, stands |-> TRUE]]
                      [] OTHER -> [agenda EXCEPT !.mine = @ \cup {slot}]
       /\ Goes(h, Outcome(q, refused))
       /\ UNCHANGED <<client, conv, sent, stored, last, now, noticed, settled, twice, heard, told,
                      accident, delivered, troubles>>

\* rescheduleChooseAppointment: findById throws when the row is gone.
LoadAppointment(h) ==
    LET q == handler[h] IN
    /\ q.pc = "load"
    /\ IF agenda.target = Absent
       THEN Ends(h) /\ Interrupted(q)
       ELSE Goes(h, Offer(q, {})) /\ UNCHANGED <<settled, accident>>
    /\ UNCHANGED <<client, conv, sent, stored, last, agenda, now, noticed, twice, heard, told,
                   delivered, troubles>>

\* cancelAskReason: cancel throws when the row is gone.
CancelAppointment(h) ==
    LET q == handler[h] IN
    /\ q.pc = "cancel"
    /\ IF agenda.target = Absent
       THEN /\ Ends(h) /\ UNCHANGED agenda
            /\ Interrupted(q)
       ELSE /\ agenda' = [agenda EXCEPT !.target.stands = FALSE]
            /\ Goes(h, Reply(q, "cancelled", Fresh("MENU")))
            /\ UNCHANGED <<settled, accident>>
    /\ UNCHANGED <<client, conv, sent, stored, last, now, noticed, twice, heard, told,
                   delivered, troubles>>
-----------------------------------------------------------------------------
(* What goes wrong *)

\* A call throws or the process dies.  The webhook still answers "ok", or the
\* provider delivers again: that is Receive.
HandlerDies(h) ==
    /\ handler[h] # Idle
    /\ Trouble
    /\ Ends(h)
    /\ Interrupted(handler[h])
    /\ heard' = IF handler[h].spoke THEN None ELSE heard
    /\ UNCHANGED <<client, conv, sent, stored, last, agenda, now, noticed, twice, told,
                   delivered>>

\* The call that books, or the answer that tells of it: both are inside the try,
\* and whatever fails there is told as a time that has just been taken.
BookingFails(h) ==
    LET q == handler[h] IN
    /\ q.pc = "book" \/ (q.pc = "reply" /\ q.say = "booked")
    /\ Trouble
    /\ Goes(h, Reply(q, "taken", None))
    /\ accident' = [accident EXCEPT !["died"] = TRUE]
    /\ UNCHANGED <<client, conv, sent, stored, last, agenda, now, noticed, settled, twice, heard,
                   told, delivered>>
-----------------------------------------------------------------------------
(* The people of the CRM, and the scan *)

\* sendManual.
ManualAnswer ==
    /\ Trouble /\ conv # Absent
    /\ last' = 0 /\ conv' = [conv EXCEPT !.lastMessageAt = now]
    /\ UNCHANGED <<client, sent, stored, agenda, handler, now, noticed, settled, twice, heard,
                   told, accident, delivered>>

\* Someone else is booked, or the client's appointment is moved, cancelled or
\* deleted.
ChangeAgenda ==
    /\ Trouble
    /\ \/ \E s \in Slots \ Taken : agenda' = [agenda EXCEPT !.others = @ \cup {s}]
       \/ \E s \in Slots \ Taken :
            agenda.target # Absent /\ agenda' = [agenda EXCEPT !.target.slot = s]
       \/ agenda.target # Absent /\ agenda' = [agenda EXCEPT !.target.stands = FALSE]
       \/ agenda.target # Absent /\ agenda' = [agenda EXCEPT !.target = Absent]
    /\ UNCHANGED <<client, conv, sent, stored, last, handler, now, noticed, settled, twice, heard,
                   told, accident, delivered>>

\* update gives the client another number, or anonymize takes it away: the
\* conversation keeps its client, and the number has none.
ReleaseNumber ==
    /\ Trouble /\ client = "owner"
    /\ client' = Absent
    /\ accident' = [accident EXCEPT !["moved"] = TRUE]
    /\ UNCHANGED <<conv, sent, stored, last, agenda, handler, now, noticed, settled, twice, heard,
                   told, delivered>>

\* Mutant of InWindow: the comparison the wrong way round.
OutOfWindow(at) == at <= now - Day

InWindow(at) == at >= now - Day

\* What scanHandoffs would give notice of, once by its dedupeKey.  The last
\* message has to be the client's.
Pending ==
    /\ conv # Absent /\ conv.needsHuman /\ InWindow(conv.lastMessageAt)
    /\ last \in Msgs \ noticed

Scan ==
    /\ Pending
    /\ noticed' = noticed \cup {last}
    /\ UNCHANGED <<client, conv, sent, stored, last, agenda, handler, now, settled, twice, heard, told,
                   accident, delivered, troubles>>

\* Far more than two minutes go by: handlers have ended and a scan has run.
Tick ==
    /\ now < MaxTime /\ now' = now + 1
    /\ ~Pending
    /\ \A h \in Handlers : handler[h] = Idle
    /\ UNCHANGED <<client, conv, sent, stored, last, agenda, handler, noticed, settled, twice, heard, told,
                   accident, delivered, troubles>>

Step(h) ==
    \/ CreateClient(h) \/ UpsertConversation(h) \/ StoreMessage(h)
    \/ Touch(h) \/ ConfirmPhoto(h) \/ GiveAnswer(h) \/ MarkNeedsHuman(h) \/ SaveState(h)
    \/ OfferSlots(h) \/ LoadAppointment(h) \/ Book(h) \/ CancelAppointment(h)

People == ManualAnswer \/ ChangeAgenda \/ ReleaseNumber

Next ==
    \/ Send \/ People \/ Scan \/ Tick
    \/ \E h \in Handlers : Receive(h) \/ Step(h) \/ HandlerDies(h) \/ BookingFails(h)

Spec == Init /\ [][Next]_vars

\* The scan runs again and again.
FairSpec == Spec /\ WF_vars(Scan)
-----------------------------------------------------------------------------
(* Properties *)

Quiet == \A h \in Handlers : handler[h] = Idle

\* However often a message is delivered, and by however many handlers at a
\* time, the client gets no answer to it twice.
EachAnsweredOnce == ~twice

\* The steps in which the client's next message is read as what the answer asks
\* for; after an answer that asks for nothing, or shows the menu, that is the
\* menu.  No step reads what follows "cancelled": "Quer já deixar outro horário
\* marcado? 1) Sim, agendar agora 2) Não, por enquanto não" is left to the menu,
\* whose 1 is "Falar com a Luana" and whose 2 is another subject.
StepsAfter(answer) ==
    CASE answer = "option"    -> Await
      [] answer = "ack"       -> {"HUMAN_HANDOFF"}
      [] answer = "location?" -> {"SCHEDULE_CHOOSE_LOCATION"}
      [] answer = "slots"     -> {"SCHEDULE_CHOOSE_SLOT", "RESCHEDULE_CHOOSE_SLOT"}
      [] answer = "confirm?"  -> {"SCHEDULE_CONFIRM", "RESCHEDULE_CONFIRM"}
      [] answer = "reason?"   -> {"CANCEL_ASK_REASON"}
      [] answer = "cancelled" -> {}
      [] OTHER                -> {"MENU"}

\* What the client heard last is where the stored conversation stands, unless
\* handlers overlapped or it was the question of "cancelled", which no step
\* reads: her next message is read as an answer to it.  (A handler that dies
\* between the two leaves heard empty.)
HeardWhereItStands ==
    (Quiet /\ heard \notin {None, "cancelled"} /\ ~accident["overlapped"]) =>
        conv.state # None /\ conv.state.step \in StepsAfter(heard)

\* Silence is for conversations a person has been called to: any message that
\* is stored gets an answer, unless the conversation needs a human or the number
\* has changed hands.  (Excused: a handler that died, a message delivered late.)
SilenceMeansHandoff ==
    \A m \in stored \ settled : At(m) \/ accident["moved"] \/ conv.needsHuman

\* The client is told of every appointment made here, and of no other, even
\* when she confirms it twice at once.
BookedAsTold == (Quiet /\ ~accident["died"]) => told = agenda.mine

\* A message that waits for a person is noticed, unless it is answered, or
\* another one follows.  (A message more than a day late sets lastMessageAt
\* back, and the scan passes the conversation over.)
AwaitingIsNoticed ==
    \A m \in Msgs :
        (conv # Absent /\ conv.needsHuman /\ last = m)
            ~> (m \in noticed \/ last # m \/ accident["late"])

\* "Marca como aguardando atendimento humano e fica em silêncio"
\* (conversation-engine.service.ts:165): a late message of a conversation
\* without a state calls a person.
BacklogIsHandedOver ==
    (Quiet /\ accident["backlog"] /\ conv.state = None) => conv.needsHuman
=============================================================================
