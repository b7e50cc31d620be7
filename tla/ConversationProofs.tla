------------------------- MODULE ConversationProofs -------------------------
(***************************************************************************)
(* Proofs about Conversation.tla, for every number of messages, handlers   *)
(* and times to book: type correctness, that a message is answered once,   *)
(* that the client heard where her conversation stands, that silence       *)
(* means a person was called, and that she is told what was booked.        *)
(***************************************************************************)
EXTENDS Conversation, TLAPS

-----------------------------------------------------------------------------
(* States of a conversation *)

SlotSteps == {"SCHEDULE_CHOOSE_SLOT", "RESCHEDULE_CHOOSE_SLOT"}
Confirms == {"SCHEDULE_CONFIRM", "RESCHEDULE_CONFIRM"}

LEMMA StateFacts ==
    \A s \in State : /\ s # None /\ s.step \in Steps /\ s.updatedAt \in Times
                     /\ s.offered \in SUBSET Slots /\ s.chosen \in Slots \cup {None}
                     /\ s.step \in Confirms => s.chosen \in Slots
<1>1. None \notin State
  BY SentinelAssumption
<1> QED
  BY <1>1 DEF State, Confirms

LEMMA FreshFacts ==
    ASSUME TypeOK, NEW step \in Steps
    PROVE  /\ Fresh(step).step = step
           /\ step \notin SlotSteps \cup Confirms => Fresh(step) \in State
  BY DEF TypeOK, Fresh, State, SlotSteps, Confirms

LEMMA OfferedFacts ==
    ASSUME TypeOK, NEW step \in Steps \ Confirms, NEW slots \in SUBSET Slots, slots # {}
    PROVE  [Fresh(step) EXCEPT !.offered = slots] \in State /\ [Fresh(step) EXCEPT !.offered = slots].step = step
  BY DEF TypeOK, Fresh, State, Confirms

LEMMA ChosenFacts ==
    ASSUME TypeOK, NEW step \in Confirms, NEW slots \in SUBSET Slots, NEW s \in Slots
    PROVE  /\ [Fresh(step) EXCEPT !.offered = slots, !.chosen = s] \in State
           /\ [Fresh(step) EXCEPT !.offered = slots, !.chosen = s].step = step
<1>1. s # None /\ step \in Steps
  BY SentinelAssumption, NumbersAssumption DEF Confirms, Steps, Booking, Moving
<1> QED
  BY <1>1 DEF TypeOK, Fresh, State, Confirms

LEMMA TouchedFacts ==
    ASSUME NEW s \in State, NEW t \in Times
    PROVE  [s EXCEPT !.updatedAt = t] \in State /\ [s EXCEPT !.updatedAt = t].step = s.step
  BY DEF State

LEMMA StepFacts ==
    /\ SlotSteps \subseteq Steps /\ Confirms \subseteq Steps /\ SlotSteps \cap Confirms = {}
    /\ Await \subseteq Steps \ (SlotSteps \cup Confirms)
    /\ "MENU" \in Steps \ (SlotSteps \cup Confirms)
    /\ "HUMAN_HANDOFF" \in Steps \ (SlotSteps \cup Confirms)
    /\ "SCHEDULE_CHOOSE_LOCATION" \in Steps \ (SlotSteps \cup Confirms)
    /\ "CANCEL_ASK_REASON" \in Steps \ (SlotSteps \cup Confirms)
  BY DEF SlotSteps, Confirms, Steps, Await, Booking, Moving, Cancelling

-----------------------------------------------------------------------------
(* What a handler is about to do *)

\* It is about the same message, and the same client.
Same(w, q) == w.msg = q.msg /\ w.at = q.at /\ w.spoke = q.spoke /\ w.owner = q.owner /\ w.text = q.text

LEMMA HandlingFacts ==
    \A q \in Handling :
        /\ q.pc # "idle" /\ q # Idle
        /\ q.pc \in {"create", "upsert", "store", "touch", "photo", "reply", "offer",
                     "load", "book", "cancel", "mark", "save"}
        /\ q.msg \in Msgs /\ q.text \in Texts \cup {None} /\ q.at \in Times /\ q.spoke \in BOOLEAN
        /\ q.owner \in BOOLEAN /\ q.read \in State \cup {None} /\ q.say \in Asides \cup Answers
        /\ q.mark \in BOOLEAN /\ q.next \in State \cup {None} /\ q.after \in SUBSET Slots
  BY DEF Handling, Idle

LEMMA PcFacts ==
    ASSUME NEW q \in Handling,
           NEW pc \in {"create", "upsert", "store", "touch", "photo", "reply", "offer",
                       "load", "book", "cancel", "mark", "save"}
    PROVE  LET w == [q EXCEPT !.pc = pc] IN
           w \in Handling /\ w.pc = pc /\ Same(w, q) /\ w.read = q.read /\ w.say = q.say /\ w.next = q.next
           /\ w.mark = q.mark
  BY DEF Handling, Same

LEMMA SpeaksFacts ==
    ASSUME NEW q \in Handling
    PROVE  LET w == [q EXCEPT !.spoke = TRUE] IN
           /\ w \in Handling /\ w.pc = q.pc /\ w.spoke = TRUE /\ w.msg = q.msg /\ w.at = q.at
           /\ w.owner = q.owner /\ w.text = q.text /\ w.read = q.read /\ w.say = q.say
           /\ w.next = q.next /\ w.mark = q.mark /\ w.after = q.after
  BY DEF Handling

LEMMA NextFacts ==
    ASSUME NEW q \in Handling, NEW s \in State \cup {None}
    PROVE  LET w == [q EXCEPT !.next = s] IN
           /\ w \in Handling /\ w.pc = q.pc /\ w.next = s /\ Same(w, q)
           /\ w.read = q.read /\ w.mark = q.mark
  BY DEF Handling, Same

LEMMA SavingFacts ==
    ASSUME NEW q \in Handling
    PROVE  LET w == Saving(q) IN
           w \in Handling /\ w.pc = "save" /\ w.read = None /\ w.next = q.next /\ Same(w, q)
  BY DEF Handling, Same, Saving, Answers

LEMMA ReplyFacts ==
    ASSUME NEW q \in Handling, NEW say \in Asides \cup Answers, NEW next \in State \cup {None}
    PROVE  LET w == Reply(q, say, next) IN
           /\ w \in Handling /\ w.pc = "reply" /\ w.say = say /\ w.next = next /\ w.read = q.read
           /\ Same(w, q) /\ w.mark = q.mark
  BY DEF Handling, Same, Reply

LEMMA OfferFacts ==
    ASSUME NEW q \in Handling, NEW after \in SUBSET Slots
    PROVE  LET w == Offer(q, after) IN
           w \in Handling /\ w.pc = "offer" /\ w.read = q.read /\ Same(w, q)
  BY DEF Handling, Same, Offer
-----------------------------------------------------------------------------
(* What the state machine leads to *)

\* The state says that a person has been called.
Human(s) == s # None /\ s.step = "HUMAN_HANDOFF"

\* Where each answer leaves the conversation: where it says, but for the
\* question of "cancelled", which leaves it in the menu.
StandsAfter(answer) == IF answer = "cancelled" THEN {"MENU"} ELSE StepsAfter(answer)

\* What w, which comes of a message, says and writes belongs together.
Sound(w, q) ==
    /\ w \in Handling /\ Same(w, q)
    /\ w.pc \in {"reply", "save", "offer", "book", "load", "cancel"}
    /\ w.pc # "save" => w.read = q.read
    /\ w.pc = "save" => w.read = None /\ w.next = q.read /\ (~q.owner \/ Human(q.read))
    /\ w.pc = "book" => q.read # None /\ q.read.step \in Confirms
    /\ w.pc = "reply" =>
          \/ /\ w.say \in Answers \ {"booked", "cancelled"} /\ w.next # None
             /\ w.next.step \in StandsAfter(w.say)
             /\ Human(w.next) => w.mark
          \/ w.say = "invalid" /\ w.next = q.read

LEMMA SoundReply ==
    ASSUME TypeOK, NEW q \in Handling, NEW say \in Answers \ {"booked", "cancelled", "ack"},
           NEW next \in State, next.step \in StandsAfter(say)
    PROVE  Sound(Reply(q, say, next), q)
<1>1. LET w == Reply(q, say, next) IN
      /\ w \in Handling /\ w.pc = "reply" /\ w.say = say /\ w.next = next /\ w.read = q.read
      /\ Same(w, q)
  BY ReplyFacts
<1>2. next # None /\ next.step # "HUMAN_HANDOFF"
  BY StateFacts DEF StandsAfter, StepsAfter, Answers, Await
<1> HIDE DEF Reply
<1> QED
  BY <1>1, <1>2 DEF Sound, Human

LEMMA SoundInvalid ==
    ASSUME NEW q \in Handling
    PROVE  Sound(Invalid(q), q)
<1>0. "invalid" \in Asides \cup Answers /\ q.read \in State \cup {None}
  BY HandlingFacts DEF Asides
<1>1. LET w == Reply(q, "invalid", q.read) IN
      /\ w \in Handling /\ w.pc = "reply" /\ w.say = "invalid" /\ w.next = q.read /\ w.read = q.read
      /\ Same(w, q)
  BY <1>0, ReplyFacts
<1> HIDE DEF Reply
<1> QED
  BY <1>1 DEF Sound, Invalid

LEMMA SoundStay ==
    ASSUME NEW q \in Handling, ~q.owner \/ Human(q.read)
    PROVE  Sound(Stay(q), q)
<1> DEFINE r == [q EXCEPT !.next = q.read]
<1>1. r \in Handling /\ r.next = q.read /\ Same(r, q)
  BY HandlingFacts, NextFacts
<1> HIDE DEF r
<1>2. LET w == Saving(r) IN
      w \in Handling /\ w.pc = "save" /\ w.read = None /\ w.next = r.next /\ Same(w, r)
  BY <1>1, SavingFacts
<1>3. Stay(q) = Saving(r)
  BY DEF Stay, r
<1> HIDE DEF Saving
<1> QED
  BY <1>1, <1>2, <1>3 DEF Sound, Same

LEMMA SoundOffer ==
    ASSUME NEW q \in Handling, NEW after \in SUBSET Slots
    PROVE  Sound(Offer(q, after), q)
<1>1. LET w == Offer(q, after) IN w \in Handling /\ w.pc = "offer" /\ w.read = q.read /\ Same(w, q)
  BY OfferFacts
<1> HIDE DEF Offer
<1> QED
  BY <1>1 DEF Sound

LEMMA SoundPc ==
    ASSUME NEW q \in Handling, NEW pc \in {"book", "load", "cancel"},
           pc = "book" => q.read # None /\ q.read.step \in Confirms
    PROVE  Sound([q EXCEPT !.pc = pc], q)
<1> DEFINE w == [q EXCEPT !.pc = pc]
<1>1. w \in Handling /\ w.pc = pc /\ Same(w, q) /\ w.read = q.read
  BY DEF Handling, Same
<1> HIDE DEF w
<1>2. Sound(w, q)
  BY <1>1 DEF Sound
<1> QED
  BY <1>2 DEF w

LEMMA SoundHandoff ==
    ASSUME TypeOK, NEW q \in Handling
    PROVE  Sound(HandoffToHuman(q), q)
<1> DEFINE s == Fresh("HUMAN_HANDOFF")  r == Reply(q, "ack", s)  w == [r EXCEPT !.mark = TRUE]
<1>1. s \in State /\ s.step = "HUMAN_HANDOFF" /\ s # None
  BY FreshFacts, StepFacts, StateFacts
<1> HIDE DEF s
<1>2. r \in Handling /\ r.pc = "reply" /\ r.say = "ack" /\ r.next = s /\ r.read = q.read /\ Same(r, q)
  BY <1>1, ReplyFacts DEF Answers
<1> HIDE DEF r
<1>3. /\ w \in Handling /\ w.pc = "reply" /\ w.say = "ack" /\ w.next = s /\ w.read = q.read /\ Same(w, q)
      /\ w.mark = TRUE
  BY <1>2 DEF Handling, Same
<1>4. HandoffToHuman(q) = w
  BY DEF HandoffToHuman, w, r, s
<1> HIDE DEF w
<1> QED
  BY <1>1, <1>3, <1>4 DEF Sound, StandsAfter, StepsAfter, Answers

LEMMA SoundMenu ==
    ASSUME TypeOK, NEW q \in Handling, NEW text, NEW greet \in BOOLEAN
    PROVE  Sound(StepMenu(q, text, greet), q)
<1>1. Fresh("MENU") \in State /\ Fresh("MENU").step = "MENU"
  BY FreshFacts, StepFacts
<1>2. CASE text \in Options
  <2>1. Choice(text) \in Await
    BY <1>2 DEF Options, Choice, Await
  <2>2. Fresh(Choice(text)) \in State /\ Fresh(Choice(text)).step \in Await
    BY <2>1, FreshFacts, StepFacts
  <2>3. Sound(Reply(q, "option", Fresh(Choice(text))), q)
    BY <2>2, SoundReply DEF StandsAfter, StepsAfter, Answers
  <2> QED
    BY <1>2, <2>3 DEF StepMenu
<1>3. CASE text \notin Options
  <2>1. \A say \in {"community", "welcome", "menu", "clarify"} : Sound(Reply(q, say, Fresh("MENU")), q)
    BY <1>1, SoundReply DEF StandsAfter, StepsAfter, Answers
  <2>2. \E say \in {"community", "welcome", "menu", "clarify"} : StepMenu(q, text, greet) = Reply(q, say, Fresh("MENU"))
    BY <1>3 DEF StepMenu
  <2> QED
    BY <2>1, <2>2
<1> QED
  BY <1>2, <1>3

LEMMA SoundChoose ==
    ASSUME TypeOK, NEW q \in Handling, NEW text, q.read # None,
           NEW confirm \in Confirms
    PROVE  Sound(ChooseSlot(q, text, confirm), q)
<1>1. q.read \in State /\ q.read.offered \in SUBSET Slots
  BY HandlingFacts, StateFacts
<1>2. CASE \E s \in Slots : Entry(q.read.offered, Index(text), s)
  <2>1. PICK s \in Slots : s = CHOOSE x \in Slots : Entry(q.read.offered, Index(text), x)
    BY <1>2
  <2> DEFINE next == [Fresh(confirm) EXCEPT !.offered = q.read.offered, !.chosen = s]
  <2>2. next \in State /\ next.step = confirm
    BY <1>1, ChosenFacts
  <2> HIDE DEF next
  <2>3. Sound(Reply(q, "confirm?", next), q)
    BY <2>2, SoundReply DEF StandsAfter, StepsAfter, Answers, Confirms
  <2>4. ChooseSlot(q, text, confirm) = Reply(q, "confirm?", next)
    BY <1>2, <2>1 DEF ChooseSlot, Confirming, next
  <2> QED
    BY <2>3, <2>4
<1>3. CASE ~\E s \in Slots : Entry(q.read.offered, Index(text), s)
  BY <1>3, SoundInvalid DEF ChooseSlot
<1> QED
  BY <1>2, <1>3

LEMMA SoundRoute ==
    ASSUME TypeOK, NEW q \in Handling, NEW text, q.read # None, q.read.step # "MENU"
    PROVE  Sound(RouteStep(q, text), q)
<1>1. q.read \in State /\ q.read.step \in Steps /\ q.read.offered \in SUBSET Slots
  BY HandlingFacts, StateFacts
<1>2. \A step \in {"MENU", "SCHEDULE_CHOOSE_LOCATION", "CANCEL_ASK_REASON"} :
        Fresh(step) \in State /\ Fresh(step).step = step
  BY FreshFacts, StepFacts
<1>3. /\ Sound(Reply(q, "menu", Fresh("MENU")), q)
      /\ Sound(Reply(q, "location?", Fresh("SCHEDULE_CHOOSE_LOCATION")), q)
      /\ Sound(Reply(q, "reason?", Fresh("CANCEL_ASK_REASON")), q)
  BY <1>2, SoundReply DEF StandsAfter, StepsAfter, Answers
<1>4. Sound(Offer(q, {}), q) /\ Sound(Offer(q, q.read.offered), q) /\ Sound(Invalid(q), q)
      /\ Sound(HandoffToHuman(q), q)
  BY <1>1, SoundOffer, SoundInvalid, SoundHandoff
<1>5. CASE ~q.owner
  BY <1>5, SoundStay DEF RouteStep
<1>6. CASE q.owner /\ text = "menu"
  BY <1>3, <1>6 DEF RouteStep
<1>7. CASE q.owner /\ text # "menu"
  <2>1. CASE q.read.step \in Await
    BY <1>4, <1>7, <2>1 DEF RouteStep, Await
  <2>2. CASE q.read.step = "HUMAN_HANDOFF"
    <3>1. Sound(Stay(q), q)
      BY <1>1, <2>2, SoundStay, StateFacts DEF Human
    <3> QED
      BY <1>7, <2>2, <3>1 DEF RouteStep, Await
  <2>3. CASE q.read.step \in {"SCHEDULE_CHOOSE_SERVICE", "SCHEDULE_CHOOSE_LOCATION", "CANCEL_CHOOSE_APPOINTMENT"}
    BY <1>3, <1>4, <1>7, <2>3 DEF RouteStep, Await
  <2>4. CASE q.read.step \in SlotSteps
    <3>1. Sound(ChooseSlot(q, text, "SCHEDULE_CONFIRM"), q) /\ Sound(ChooseSlot(q, text, "RESCHEDULE_CONFIRM"), q)
      BY SoundChoose DEF Confirms
    <3> QED
      BY <1>4, <1>7, <2>4, <3>1 DEF RouteStep, Await, SlotSteps
  <2>5. CASE q.read.step \in Confirms
    <3>1. Sound([q EXCEPT !.pc = "book"], q)
      BY <2>5, SoundPc
    <3> QED
      BY <1>4, <1>7, <2>5, <3>1 DEF RouteStep, Await, Confirms
  <2>6. CASE q.read.step = "RESCHEDULE_CHOOSE_APPOINTMENT"
    <3>1. Sound([q EXCEPT !.pc = "load"], q)
      BY SoundPc
    <3> QED
      BY <1>4, <1>7, <2>6, <3>1 DEF RouteStep, Await
  <2>7. CASE q.read.step = "CANCEL_ASK_REASON"
    <3>1. Sound([q EXCEPT !.pc = "cancel"], q)
      BY SoundPc
    <3> QED
      BY <1>7, <2>7, <3>1 DEF RouteStep, Await
  <2> QED
    BY <1>1, <2>1, <2>2, <2>3, <2>4, <2>5, <2>6, <2>7
       DEF Steps, Booking, Moving, Cancelling, SlotSteps, Confirms
<1> QED
  BY <1>5, <1>6, <1>7

LEMMA SoundHandle ==
    ASSUME TypeOK, NEW q \in Handling, NEW text
    PROVE  Sound(Handle(q, text), q)
<1>1. Sound(StepMenu(q, text, TRUE), q) /\ Sound(StepMenu(q, text, FALSE), q)
  BY SoundMenu
<1>2. CASE q.read = None \/ OlderThanADay(q.read.updatedAt)
  BY <1>1, <1>2 DEF Handle
<1>3. CASE q.read # None /\ ~OlderThanADay(q.read.updatedAt)
  BY <1>1, <1>3, SoundRoute DEF Handle
<1> QED
  BY <1>2, <1>3
-----------------------------------------------------------------------------
(* The rows and the handlers *)

\* The steps of a handler whose message is stored.
After == {"touch", "photo", "reply", "offer", "load", "book", "cancel", "mark", "save"}

RowsKept ==
    /\ stored \subseteq 1..Len(sent) /\ last \in stored \cup {0}
    /\ \A m \in 1..Len(sent) : m \notin stored => sent[m] \in Times
    /\ stored # {} => conv # Absent

\* What a handler at q can take for granted of the rows, and of itself.
HandlerKept(q) ==
    /\ q.msg \in 1..Len(sent)
    /\ q.pc \in After => q.msg \in stored
    /\ q.pc \notin {"create", "upsert"} => conv # Absent
    /\ q.pc \in {"create", "upsert", "store"} => ~q.spoke
    /\ q.pc = "mark" => q.spoke
    /\ q.pc = "touch" => q.read # None
    /\ q.pc = "book" => q.read # None /\ q.read.step \in Confirms
    /\ q.pc = "reply" /\ q.say \in {"booked", "taken"} => q.read # None /\ q.read.step \in Confirms

HandlersKept == \A g \in Handlers, q \in Handling : handler[g] = q => HandlerKept(q)

Base == TypeOK /\ RowsKept /\ HandlersKept

LEMMA ConvFacts ==
    Absent \notin Conv /\ \A c \in Conv : c.state \in State \cup {None} /\ c.needsHuman \in BOOLEAN
  BY SentinelAssumption DEF Conv

LEMMA ConvAt ==
    \A c \in Conv, t \in Times :
        /\ [c EXCEPT !.lastMessageAt = t] \in Conv
        /\ [c EXCEPT !.lastMessageAt = t].state = c.state
        /\ [c EXCEPT !.lastMessageAt = t].needsHuman = c.needsHuman
  BY DEF Conv

LEMMA ConvIn ==
    \A c \in Conv, s \in State \cup {None} :
        /\ [c EXCEPT !.state = s] \in Conv
        /\ [c EXCEPT !.state = s].state = s /\ [c EXCEPT !.state = s].needsHuman = c.needsHuman
  BY DEF Conv

LEMMA ConvMarked ==
    \A c \in Conv :
        /\ [c EXCEPT !.needsHuman = TRUE] \in Conv
        /\ [c EXCEPT !.needsHuman = TRUE].state = c.state /\ [c EXCEPT !.needsHuman = TRUE].needsHuman = TRUE
  BY DEF Conv

LEMMA Move ==
    ASSUME TypeOK, NEW h \in Handlers, NEW w \in Handling \cup {Idle}, Goes(h, w)
    PROVE  /\ handler' \in [Handlers -> Handling \cup {Idle}] /\ handler'[h] = w
           /\ \A g \in Handlers \ {h} : handler'[g] = handler[g]
  BY DEF TypeOK, Goes

\* The rows only grow.
Grows ==
    /\ sent' \in Seq(Times \cup {None}) /\ Len(sent) <= Len(sent')
    /\ stored \subseteq stored' /\ (conv # Absent => conv' # Absent)

LEMMA KeptOn ==
    ASSUME TypeOK, Grows, NEW q \in Handling, HandlerKept(q)
    PROVE  HandlerKept(q)'
<1>1. Len(sent) \in Nat /\ Len(sent') \in Nat
  BY DEF TypeOK, Grows
<1> QED
  BY <1>1 DEF HandlerKept, Grows

LEMMA HandlersOn ==
    ASSUME Base, Grows, NEW h \in Handlers, NEW w \in Handling \cup {Idle}, Goes(h, w),
           w # Idle => HandlerKept(w)'
    PROVE  HandlersKept'
<1> SUFFICES ASSUME NEW g \in Handlers, NEW q \in Handling, handler'[g] = q
             PROVE  HandlerKept(q)'
  BY DEF HandlersKept
<1>1. q # Idle
  BY HandlingFacts
<1>2. CASE g = h
  BY <1>1, <1>2, Move DEF Base
<1>3. CASE g # h
  <2>1. HandlerKept(q)
    BY <1>3, Move DEF Base, HandlersKept
  <2> QED
    BY <2>1, KeptOn DEF Base
<1> QED
  BY <1>2, <1>3

LEMMA HandlersStill ==
    ASSUME Base, Grows, UNCHANGED handler
    PROVE  HandlersKept'
  BY KeptOn DEF Base, HandlersKept

\* A handler that is not idle.
LEMMA AtWork ==
    ASSUME Base, NEW h \in Handlers, handler[h] # Idle
    PROVE  /\ handler[h] \in Handling /\ HandlerKept(handler[h])
           /\ client \in {Absent, "owner", "other"}
  BY DEF Base, TypeOK, HandlersKept
LEMMA TroubleFacts == ASSUME TypeOK, Trouble PROVE troubles' \in 0..MaxTroubles
  BY NumbersAssumption DEF TypeOK, Trouble

LEMMA BaseInit == ASSUME Init PROVE Base
<1>1. 0 \in Times /\ 0 \in 0..MaxTroubles
  BY NumbersAssumption DEF Times
<1>2. conv \in Conv \cup {Absent}
  <2>1. CASE conv = Absent
    BY <2>1
  <2>2. CASE \E s \in Left : conv = [state |-> s, needsHuman |-> FALSE, lastMessageAt |-> 0]
    <3>1. PICK s \in Left : conv = [state |-> s, needsHuman |-> FALSE, lastMessageAt |-> 0]
      BY <2>2
    <3>2. s \in State
      BY DEF Left
    <3> QED
      BY <1>1, <3>1, <3>2 DEF Conv
  <2> QED
    BY <2>1, <2>2 DEF Init
<1>3. agenda \in Agenda
  BY NumbersAssumption DEF Init, Agenda
<1>4. TypeOK
  <2>1. sent \in Seq(Times \cup {None}) /\ Len(sent) <= MaxMsgs
    BY NumbersAssumption DEF Init
  <2>2. handler \in [Handlers -> Handling \cup {Idle}]
    BY DEF Init
  <2>3. accident \in [Accidents -> BOOLEAN]
    BY DEF Init
  <2> QED
    BY <1>1, <1>2, <1>3, <2>1, <2>2, <2>3 DEF Init, TypeOK
<1>5. RowsKept
  BY DEF Init, RowsKept
<1>6. HandlersKept
  BY HandlingFacts DEF Init, HandlersKept
<1> QED
  BY <1>4, <1>5, <1>6 DEF Base

-----------------------------------------------------------------------------
(* Steps of the client, the people of the CRM, the scan and time *)

LEMMA SendBase == ASSUME Base, Send PROVE Base'
<1>1. sent \in Seq(Times \cup {None}) /\ now \in Times
  BY DEF Base, TypeOK
<1>2. /\ sent' \in Seq(Times \cup {None}) /\ Len(sent') = Len(sent) + 1 /\ Len(sent) \in Nat
      /\ \A m \in 1..Len(sent') : sent'[m] = IF m = Len(sent) + 1 THEN now ELSE sent[m]
  BY <1>1 DEF Send
<1>3. TypeOK'
  BY <1>2, NumbersAssumption DEF Base, Send, TypeOK
<1>4. RowsKept'
  BY <1>1, <1>2 DEF Base, Send, RowsKept
<1>5. HandlersKept'
  BY <1>2, HandlersStill DEF Send, Grows
<1> QED
  BY <1>3, <1>4, <1>5 DEF Base

LEMMA ManualBase == ASSUME Base, ManualAnswer PROVE Base' /\ conv' \in Conv /\ conv'.state = conv.state /\ conv'.needsHuman = conv.needsHuman
<1>1. conv' \in Conv /\ conv'.state = conv.state /\ conv'.needsHuman = conv.needsHuman
  <2>1. conv \in Conv /\ now \in Times /\ conv' = [conv EXCEPT !.lastMessageAt = now]
    BY DEF Base, TypeOK, ManualAnswer
  <2> QED
    BY <2>1, ConvAt
<1>2. TypeOK'
  BY <1>1, TroubleFacts DEF Base, TypeOK, ManualAnswer
<1>3. RowsKept'
  BY <1>1, ConvFacts DEF Base, RowsKept, ManualAnswer
<1>4. HandlersKept'
  BY <1>1, ConvFacts, HandlersStill DEF Base, TypeOK, ManualAnswer, Grows
<1> QED
  BY <1>1, <1>2, <1>3, <1>4 DEF Base

LEMMA ChangeBase == ASSUME Base, ChangeAgenda PROVE Base' /\ agenda'.mine = agenda.mine
<1>1. agenda \in Agenda /\ (agenda.target # Absent => agenda.target \in [slot: Slots, stands: BOOLEAN])
  BY DEF Base, TypeOK, Agenda
<1>2. agenda' \in Agenda /\ agenda'.mine = agenda.mine
  <2>1. CASE \E s \in Slots \ Taken : agenda' = [agenda EXCEPT !.others = @ \cup {s}]
    BY <1>1, <2>1 DEF Agenda
  <2>2. CASE \E s \in Slots \ Taken : agenda.target # Absent /\ agenda' = [agenda EXCEPT !.target.slot = s]
    BY <1>1, <2>2 DEF Agenda
  <2>3. CASE agenda.target # Absent /\ agenda' = [agenda EXCEPT !.target.stands = FALSE]
    BY <1>1, <2>3 DEF Agenda
  <2>4. CASE agenda' = [agenda EXCEPT !.target = Absent]
    BY <1>1, <2>4 DEF Agenda
  <2> QED
    BY <2>1, <2>2, <2>3, <2>4 DEF ChangeAgenda
<1>3. TypeOK'
  BY <1>2, TroubleFacts DEF Base, TypeOK, ChangeAgenda
<1>4. RowsKept'
  BY DEF Base, RowsKept, ChangeAgenda
<1>5. HandlersKept'
  BY HandlersStill DEF Base, TypeOK, ChangeAgenda, Grows
<1> QED
  BY <1>2, <1>3, <1>4, <1>5 DEF Base

LEMMA ReleaseBase == ASSUME Base, ReleaseNumber PROVE Base'
<1>1. TypeOK'
  BY TroubleFacts DEF Base, TypeOK, ReleaseNumber
<1>2. RowsKept'
  BY DEF Base, RowsKept, ReleaseNumber
<1>3. HandlersKept'
  BY HandlersStill DEF Base, TypeOK, ReleaseNumber, Grows
<1> QED
  BY <1>1, <1>2, <1>3 DEF Base

LEMMA ScanBase == ASSUME Base, Scan PROVE Base'
<1>1. TypeOK'
  BY NumbersAssumption DEF Base, TypeOK, RowsKept, Scan, Pending, Msgs
<1>2. RowsKept'
  BY DEF Base, RowsKept, Scan
<1>3. HandlersKept'
  BY HandlersStill DEF Base, TypeOK, Scan, Grows
<1> QED
  BY <1>1, <1>2, <1>3 DEF Base

LEMMA TickBase == ASSUME Base, Tick PROVE Base'
<1>1. TypeOK'
  BY NumbersAssumption DEF Base, TypeOK, Tick, Times
<1>2. RowsKept'
  BY DEF Base, RowsKept, Tick
<1>3. HandlersKept'
  BY HandlersStill DEF Base, TypeOK, Tick, Grows
<1> QED
  BY <1>1, <1>2, <1>3 DEF Base
-----------------------------------------------------------------------------
(* Steps of a handler: what each does to its handler, and that it keeps Base *)

\* What goes wrong, as the other parts of the model see it.
LEMMA AccidentFacts ==
    ASSUME TypeOK, NEW a \in Accidents, NEW b \in BOOLEAN
    PROVE  LET after == [accident EXCEPT ![a] = b] IN
           /\ after \in [Accidents -> BOOLEAN] /\ after[a] = b
           /\ \A o \in Accidents \ {a} : after[o] = accident[o]
  BY DEF TypeOK

Received(h) ==
    \/ UNCHANGED <<handler, accident>>
    \/ \E w \in Handling :
         /\ handler[h] = Idle /\ Goes(h, w)
         /\ w.pc = IF client = Absent THEN "create" ELSE "upsert"
         /\ ~w.spoke /\ w.owner = (client # "other") /\ w.msg \in 1..Len(sent)
         /\ accident'["overlapped"] = (accident["overlapped"] \/ \E g \in Handlers : handler[g] # Idle)
         /\ accident'["moved"] = accident["moved"] /\ accident'["died"] = accident["died"]

LEMMA ReceiveBase == ASSUME Base, NEW h \in Handlers, Receive(h) PROVE Base' /\ Received(h)
<1>1. PICK m \in 1..Len(sent) :
        /\ handler[h] = Idle /\ delivered' = delivered \cup {m}
        /\ IF m \in delivered THEN Trouble ELSE UNCHANGED troubles
        /\ IF m \in stored THEN UNCHANGED <<handler, accident>>
           ELSE /\ Goes(h, [pc |-> IF client = Absent THEN "create" ELSE "upsert", msg |-> m,
                            text |-> None, at |-> sent[m], spoke |-> FALSE, owner |-> client # "other",
                            read |-> None, say |-> "menu", mark |-> FALSE, next |-> None, after |-> {}])
                /\ accident' = [accident EXCEPT !["overlapped"] = @ \/ \E g \in Handlers : handler[g] # Idle,
                                                !["late"] = @ \/ OlderThanADay(sent[m])]
  BY DEF Receive
<1>2. m \in Msgs /\ Len(sent) \in Nat
  BY NumbersAssumption DEF Base, TypeOK, Msgs
<1>3. troubles' \in 0..MaxTroubles
  BY <1>1, TroubleFacts DEF Base, TypeOK
<1>4. UNCHANGED <<client, conv, sent, stored, last, agenda, now, noticed, settled, twice, heard, told>>
  BY DEF Receive
<1>5. RowsKept'
  BY <1>4 DEF Base, RowsKept
<1>6. Grows
  BY <1>4, <1>2 DEF Base, TypeOK, Grows
<1>7. CASE m \in stored
  <2>1. TypeOK'
    BY <1>1, <1>2, <1>3, <1>4, <1>7 DEF Base, TypeOK
  <2>2. HandlersKept'
    BY <1>1, <1>6, <1>7, HandlersStill
  <2> QED
    BY <1>1, <1>5, <1>7, <2>1, <2>2 DEF Base, Received
<1>8. CASE m \notin stored
  <2> DEFINE new == [pc |-> IF client = Absent THEN "create" ELSE "upsert", msg |-> m,
                     text |-> None, at |-> sent[m], spoke |-> FALSE, owner |-> client # "other",
                     read |-> None, say |-> "menu", mark |-> FALSE, next |-> None, after |-> {}]
  <2>1. sent[m] \in Times
    BY <1>8 DEF Base, RowsKept
  <2>2. /\ new \in Handling /\ new.pc = (IF client = Absent THEN "create" ELSE "upsert")
        /\ ~new.spoke /\ new.owner = (client # "other") /\ new.msg = m
    BY <1>2, <2>1 DEF Handling, Answers
  <2>3. PICK w \in Handling : w = new /\ Goes(h, w)
    BY <1>1, <1>8, <2>2
  <2> HIDE DEF new
  <2>4. HandlerKept(w)'
    BY <1>4, <2>2, <2>3 DEF HandlerKept, After
  <2>5. HandlersKept'
    BY <1>6, <2>3, <2>4, HandlersOn
  <2>6. handler' \in [Handlers -> Handling \cup {Idle}]
    BY <2>3, Move DEF Base
  <2> DEFINE o == accident["overlapped"] \/ \E g \in Handlers : handler[g] # Idle
             l == accident["late"] \/ OlderThanADay(sent[m])
  <2>7. o \in BOOLEAN /\ l \in BOOLEAN /\ accident \in [Accidents -> BOOLEAN]
    BY DEF Base, TypeOK, Accidents, OlderThanADay
  <2>8. accident' = [accident EXCEPT !["overlapped"] = o, !["late"] = l]
    BY <1>1, <1>8
  <2>9. /\ accident'["overlapped"] = o
        /\ accident'["moved"] = accident["moved"] /\ accident'["died"] = accident["died"]
        /\ accident' \in [Accidents -> BOOLEAN]
    <3> HIDE DEF o, l
    <3> QED
      BY <2>7, <2>8 DEF Accidents
  <2>10. TypeOK'
    BY <1>1, <1>2, <1>3, <1>4, <2>6, <2>9 DEF Base, TypeOK
  <2>11. Received(h)
    BY <1>1, <2>2, <2>3, <2>9 DEF Received
  <2> QED
    BY <1>5, <2>5, <2>10, <2>11 DEF Base
<1> QED
  BY <1>7, <1>8

Created(h) == \E q \in Handling :
    /\ handler[h] = q /\ q.pc = "create"
    /\ \/ client # Absent /\ client' = client /\ Goes(h, Idle)
       \/ \E w \in Handling :
            /\ client = Absent /\ client' = IF conv = Absent THEN "owner" ELSE "other"
            /\ Goes(h, w) /\ w.pc = "upsert" /\ w.msg = q.msg /\ w.owner = (client' = "owner")
    /\ UNCHANGED <<conv, sent, stored, settled, twice, heard, told, agenda, accident>>

LEMMA CreateBase == ASSUME Base, NEW h \in Handlers, CreateClient(h) PROVE Base' /\ Created(h)
<1>1. PICK q \in Handling : q = handler[h] /\ HandlerKept(q) /\ q.pc = "create"
  BY AtWork DEF CreateClient, Idle
<1>2. UNCHANGED <<conv, sent, stored, last, agenda, now, noticed, settled, twice, heard, told,
                  accident, delivered, troubles>>
  BY DEF CreateClient
<1>3. RowsKept' /\ Grows
  BY <1>2 DEF Base, TypeOK, RowsKept, Grows
<1>4. CASE client # Absent
  <2>1. client' = client /\ Goes(h, Idle)
    BY <1>4 DEF CreateClient, Ends
  <2>2. HandlersKept' /\ handler' \in [Handlers -> Handling \cup {Idle}]
    BY <1>3, <2>1, HandlersOn, Move DEF Base
  <2>3. TypeOK'
    BY <1>2, <2>1, <2>2 DEF Base, TypeOK
  <2> QED
    BY <1>1, <1>2, <1>3, <1>4, <2>1, <2>2, <2>3 DEF Base, Created
<1>5. CASE client = Absent
  <2> DEFINE c == IF conv = Absent THEN "owner" ELSE "other"
             new == [q EXCEPT !.pc = "upsert", !.owner = c = "owner"]
  <2>1. client' = c /\ Goes(h, new)
    BY <1>1, <1>5 DEF CreateClient
  <2>2. PICK w \in Handling :
          w = new /\ w.pc = "upsert" /\ w.owner = (c = "owner") /\ w.msg = q.msg /\ w.spoke = q.spoke
    <3>1. /\ new \in Handling /\ new.pc = "upsert" /\ new.owner = (c = "owner")
          /\ new.msg = q.msg /\ new.spoke = q.spoke
      BY DEF Handling
    <3> HIDE DEF new, c
    <3> QED
      BY <3>1
  <2> HIDE DEF new
  <2>3. HandlerKept(w)'
    BY <1>1, <1>2, <2>2 DEF HandlerKept, After
  <2>4. HandlersKept' /\ handler' \in [Handlers -> Handling \cup {Idle}]
    BY <1>3, <2>1, <2>2, <2>3, HandlersOn, Move DEF Base
  <2>5. TypeOK'
    BY <1>2, <2>1, <2>4 DEF Base, TypeOK
  <2> QED
    BY <1>1, <1>2, <1>3, <1>5, <2>1, <2>2, <2>4, <2>5 DEF Base, Created
<1> QED
  BY <1>4, <1>5

Upserted(h) == \E q, w \in Handling :
    /\ handler[h] = q /\ q.pc = "upsert"
    /\ Goes(h, w) /\ w.pc = "store" /\ w.msg = q.msg /\ w.spoke = q.spoke /\ w.owner = q.owner
    /\ conv' \in Conv /\ w.read = conv'.state
    /\ \/ conv = Absent /\ conv'.state = None
       \/ conv \in Conv /\ conv'.state = conv.state /\ conv'.needsHuman = conv.needsHuman
    /\ UNCHANGED <<client, sent, stored, settled, twice, heard, told, agenda, accident>>

LEMMA UpsertBase == ASSUME Base, NEW h \in Handlers, UpsertConversation(h) PROVE Base' /\ Upserted(h)
<1>1. PICK q \in Handling : q = handler[h] /\ HandlerKept(q) /\ q.pc = "upsert"
  BY AtWork DEF UpsertConversation, Idle
<1>2. UNCHANGED <<client, sent, stored, last, agenda, now, noticed, settled, twice, heard, told,
                  accident, delivered, troubles>>
  BY DEF UpsertConversation
<1>3. /\ conv' \in Conv
      /\ \/ conv = Absent /\ conv'.state = None
         \/ conv \in Conv /\ conv'.state = conv.state /\ conv'.needsHuman = conv.needsHuman
  <2>1. q.at \in Times /\ now \in Times /\ conv \in Conv \cup {Absent}
    BY HandlingFacts DEF Base, TypeOK
  <2>2. CASE conv = Absent
    <3>1. conv' = [state |-> None, needsHuman |-> FALSE, lastMessageAt |-> now]
      BY <2>2 DEF UpsertConversation
    <3> QED
      BY <2>1, <2>2, <3>1 DEF Conv
  <2>3. CASE conv \in Conv
    <3>1. conv' = [conv EXCEPT !.lastMessageAt = q.at]
      BY <1>1, <2>3, ConvFacts DEF UpsertConversation
    <3> QED
      BY <2>1, <2>3, <3>1, ConvAt
  <2> QED
    BY <2>1, <2>2, <2>3
<1> DEFINE w == [q EXCEPT !.pc = "store", !.read = conv'.state]
<1>4. Goes(h, w)
  BY <1>1 DEF UpsertConversation
<1>5. /\ w \in Handling /\ w.pc = "store" /\ w.msg = q.msg /\ w.spoke = q.spoke /\ w.owner = q.owner
      /\ w.read = conv'.state
  <2>1. conv'.state \in State \cup {None}
    BY <1>3, ConvFacts
  <2> QED
    BY <2>1 DEF Handling
<1>6. PICK v \in Handling : v = w
  BY <1>5
<1> HIDE DEF w
<1>7. RowsKept' /\ Grows /\ conv' # Absent
  BY <1>2, <1>3, ConvFacts DEF Base, TypeOK, RowsKept, Grows
<1>8. HandlerKept(v)'
  BY <1>1, <1>2, <1>5, <1>6, <1>7 DEF HandlerKept, After
<1>9. HandlersKept' /\ handler' \in [Handlers -> Handling \cup {Idle}]
  BY <1>4, <1>6, <1>7, <1>8, HandlersOn, Move DEF Base
<1>10. TypeOK'
  BY <1>2, <1>3, <1>9 DEF Base, TypeOK
<1>11. Upserted(h)
  BY <1>1, <1>2, <1>3, <1>4, <1>5, <1>6 DEF Upserted
<1> QED
  BY <1>7, <1>9, <1>10, <1>11 DEF Base
\* About the same message, with the same state at hand.
Like(r, q) == r.msg = q.msg /\ r.owner = q.owner /\ r.read = q.read

LEMMA SoundKept ==
    ASSUME NEW q \in Handling, NEW w, Sound(w, q), q.msg \in 1..Len(sent'), q.msg \in stored', conv' # Absent
    PROVE  w \in Handling /\ HandlerKept(w)'
  BY DEF Sound, Same, HandlerKept, Answers

Stored(h) == \E q \in Handling :
    /\ handler[h] = q /\ q.pc = "store"
    /\ \/ Goes(h, Idle) /\ UNCHANGED <<stored, settled>>
       \/ /\ q.msg \notin stored /\ stored' = stored \cup {q.msg}
          /\ \/ settled' = settled \cup {q.msg} /\ Goes(h, Idle)
             \/ \E w \in Handling : /\ settled' = settled \cup {q.msg} /\ Goes(h, w)
                                    /\ w.pc = "touch" /\ Like(w, q)
             \/ \E w, r \in Handling : /\ settled' = settled /\ Goes(h, w)
                                       /\ Like(r, q) /\ ~r.spoke
                                       /\ (w.pc = "photo" /\ w = r) \/ Sound(w, r)
    /\ \A a \in Accidents \ {"backlog"} : accident'[a] = accident[a]
    /\ UNCHANGED <<client, conv, twice, heard, told, agenda>>

\* What follows the insert, by what the message is.
LEMMA AfterStoreFacts ==
    ASSUME TypeOK, NEW r \in Handling, ~r.spoke, r.pc = "store", NEW photo \in BOOLEAN
    PROVE  LET w == AfterStore(r, photo) IN
           \/ Backlog(r.at) /\ w = Idle
           \/ Backlog(r.at) /\ w \in Handling /\ w.pc = "touch" /\ Like(w, r) /\ ~w.spoke /\ w.read # None
           \/ ~Backlog(r.at) /\ w \in Handling /\ w.pc = "photo" /\ Like(w, r) /\ ~w.spoke
           \/ ~Backlog(r.at) /\ Sound(w, r)
<1>1. CASE Backlog(r.at)
  <2>1. LET w == [r EXCEPT !.pc = "touch"] IN w \in Handling /\ w.pc = "touch" /\ Like(w, r) /\ ~w.spoke
    BY DEF Handling, Like
  <2>2. CASE r.read # None /\ r.at > r.read.updatedAt
    <3>1. AfterStore(r, photo) = [r EXCEPT !.pc = "touch"]
      BY <1>1, <2>2 DEF AfterStore
    <3> QED
      BY <1>1, <2>1, <2>2, <3>1 DEF Like
  <2>3. CASE ~(r.read # None /\ r.at > r.read.updatedAt)
    BY <1>1, <2>3 DEF AfterStore
  <2> QED
    BY <2>2, <2>3
<1>2. CASE ~Backlog(r.at) /\ photo
  <2>1. LET w == [r EXCEPT !.pc = "photo"] IN w \in Handling /\ w.pc = "photo" /\ Like(w, r) /\ ~w.spoke
    BY DEF Handling, Like
  <2>2. AfterStore(r, photo) = [r EXCEPT !.pc = "photo"]
    BY <1>2 DEF AfterStore
  <2> QED
    BY <1>2, <2>1, <2>2
<1>3. CASE ~Backlog(r.at) /\ ~photo
  <2>1. AfterStore(r, photo) = Handle(r, r.text)
    BY <1>3 DEF AfterStore
  <2> QED
    BY <1>3, <2>1, SoundHandle
<1> QED
  BY <1>1, <1>2, <1>3

LEMMA StoreBase == ASSUME Base, NEW h \in Handlers, StoreMessage(h) PROVE Base' /\ Stored(h)
<1>1. PICK q \in Handling : q = handler[h] /\ HandlerKept(q) /\ q.pc = "store"
  BY AtWork DEF StoreMessage, Idle
<1>2. UNCHANGED <<client, conv, agenda, now, noticed, twice, heard, told, delivered, troubles>>
  BY DEF StoreMessage
<1>3. /\ sent \in Seq(Times \cup {None}) /\ q.msg \in 1..Len(sent) /\ q.msg \in Msgs /\ ~q.spoke /\ conv # Absent
      /\ q.msg # 0
  BY <1>1, HandlingFacts, NumbersAssumption DEF Base, TypeOK, HandlerKept, Msgs
<1>4. CASE ~Unique(q.msg)
  <2>1. Goes(h, Idle) /\ UNCHANGED <<stored, last, sent, settled, accident>>
    BY <1>1, <1>4 DEF StoreMessage, Ends
  <2>2. RowsKept' /\ Grows
    BY <1>2, <2>1 DEF Base, TypeOK, RowsKept, Grows
  <2>3. HandlersKept' /\ handler' \in [Handlers -> Handling \cup {Idle}]
    BY <2>1, <2>2, HandlersOn, Move DEF Base
  <2>4. TypeOK'
    BY <1>2, <2>1, <2>3 DEF Base, TypeOK
  <2>5. Stored(h)
    BY <1>1, <1>2, <2>1 DEF Stored
  <2> QED
    BY <2>2, <2>3, <2>4, <2>5 DEF Base
<1>5. CASE Unique(q.msg)
  <2>1. /\ stored' = stored \cup {q.msg} /\ last' = q.msg /\ sent' = [sent EXCEPT ![q.msg] = None]
        /\ settled' = (IF Backlog(q.at) THEN settled \cup {q.msg} ELSE settled)
        /\ accident' = [accident EXCEPT !["backlog"] = @ \/ Backlog(q.at)]
        /\ \E c \in Contents : Goes(h, AfterStore([q EXCEPT !.text = c.text], c.photo))
    BY <1>1, <1>5 DEF StoreMessage
  <2>2. PICK c \in Contents : Goes(h, AfterStore([q EXCEPT !.text = c.text], c.photo))
    BY <2>1
  <2>3. c.text \in Texts \cup {None} /\ c.photo \in BOOLEAN
    BY ContentsAssumption
  <2>4. PICK r \in Handling : /\ r = [q EXCEPT !.text = c.text] /\ r.pc = "store" /\ r.at = q.at /\ ~r.spoke
                              /\ Like(r, q)
    <3>1. LET r == [q EXCEPT !.text = c.text] IN
          r \in Handling /\ r.pc = "store" /\ r.at = q.at /\ ~r.spoke /\ Like(r, q)
      BY <1>1, <1>3, <2>3 DEF Handling, Like
    <3> QED
      BY <3>1
  <2>5. PICK w : w = AfterStore(r, c.photo)
    OBVIOUS
  <2>6. Goes(h, w)
    BY <2>2, <2>4, <2>5
  <2>7. \/ Backlog(q.at) /\ w = Idle
        \/ Backlog(q.at) /\ w \in Handling /\ w.pc = "touch" /\ Like(w, r) /\ ~w.spoke /\ w.read # None
        \/ ~Backlog(q.at) /\ w \in Handling /\ w.pc = "photo" /\ Like(w, r) /\ ~w.spoke
        \/ ~Backlog(q.at) /\ Sound(w, r)
    BY <2>3, <2>4, <2>5, AfterStoreFacts DEF Base
  <2>8. Len(sent') = Len(sent) /\ sent' \in Seq(Times \cup {None}) /\ \A m \in 1..Len(sent) : m # q.msg => sent'[m] = sent[m]
    BY <1>3, <2>1
  <2>9. RowsKept' /\ Grows
    BY <1>2, <1>3, <2>1, <2>8 DEF Base, TypeOK, RowsKept, Grows
  <2>10. /\ q.msg \in 1..Len(sent') /\ q.msg \in stored' /\ conv' # Absent
         /\ r.msg = q.msg
    BY <1>2, <1>3, <2>1, <2>4, <2>8 DEF Like
  <2>11. w # Idle => w \in Handling /\ HandlerKept(w)'
    <3>1. CASE w.pc \in {"touch", "photo"} /\ w \in Handling /\ Like(w, r) /\ (w.pc = "touch" => w.read # None)
      BY <2>10, <3>1 DEF HandlerKept, Like, After
    <3>2. CASE Sound(w, r)
      BY <2>10, <3>2, SoundKept
    <3> QED
      BY <2>7, <3>1, <3>2
  <2>12. HandlersKept' /\ handler' \in [Handlers -> Handling \cup {Idle}]
    BY <2>6, <2>9, <2>11, HandlersOn, Move DEF Base
  <2>13. settled' \subseteq stored' /\ noticed \subseteq stored' /\ last' \in Msgs \cup {0} /\ stored' \subseteq Msgs
    BY <1>3, <2>1 DEF Base, TypeOK
  <2>14. accident' \in [Accidents -> BOOLEAN] /\ \A a \in Accidents \ {"backlog"} : accident'[a] = accident[a]
    <3>1. (accident["backlog"] \/ Backlog(q.at)) \in BOOLEAN /\ "backlog" \in Accidents
      BY DEF Base, TypeOK, Accidents
    <3> QED
      BY <2>1, <3>1 DEF Base, TypeOK
  <2>15. TypeOK'
    BY <1>2, <2>8, <2>12, <2>13, <2>14 DEF Base, TypeOK
  <2>16. \/ settled' = settled \cup {q.msg} /\ Goes(h, Idle)
         \/ w \in Handling /\ settled' = settled \cup {q.msg} /\ w.pc = "touch" /\ Like(w, q)
         \/ w \in Handling /\ settled' = settled /\ w.pc = "photo" /\ Like(w, q) /\ ~w.spoke
         \/ w \in Handling /\ settled' = settled /\ Sound(w, r)
    BY <2>1, <2>4, <2>6, <2>7, <2>11 DEF Like, Sound
  <2>17. Stored(h)
    <3>1. /\ handler[h] = q /\ q.pc = "store" /\ q.msg \notin stored /\ stored' = stored \cup {q.msg}
          /\ \A a \in Accidents \ {"backlog"} : accident'[a] = accident[a]
          /\ UNCHANGED <<client, conv, twice, heard, told, agenda>>
      BY <1>1, <1>2, <1>5, <2>1, <2>14 DEF Unique
    <3>2. CASE settled' = settled \cup {q.msg} /\ Goes(h, Idle)
      BY <3>1, <3>2 DEF Stored
    <3>3. CASE w \in Handling /\ settled' = settled \cup {q.msg} /\ w.pc = "touch" /\ Like(w, q)
      BY <2>6, <3>1, <3>3 DEF Stored
    <3>4. CASE w \in Handling /\ settled' = settled /\ w.pc = "photo" /\ Like(w, q) /\ ~w.spoke
      BY <2>6, <3>1, <3>4 DEF Stored
    <3>5. CASE w \in Handling /\ settled' = settled /\ Sound(w, r)
      BY <2>4, <2>6, <3>1, <3>5 DEF Stored
    <3> QED
      BY <2>16, <3>2, <3>3, <3>4, <3>5
  <2> QED
    BY <2>9, <2>12, <2>15, <2>17 DEF Base
<1> QED
  BY <1>4, <1>5
\* The row says something else now; the rest of what the client sees is as it was.
Touched(h) == \E q \in Handling :
    /\ handler[h] = q /\ q.pc = "touch" /\ q.read # None /\ Goes(h, Idle)
    /\ conv' \in Conv /\ conv'.state # None /\ conv'.state.step = q.read.step /\ conv'.needsHuman = conv.needsHuman
    /\ UNCHANGED <<client, stored, settled, twice, heard, told, agenda, accident>>

LEMMA TouchBase == ASSUME Base, NEW h \in Handlers, Touch(h) PROVE Base' /\ Touched(h)
<1>1. PICK q \in Handling : q = handler[h] /\ HandlerKept(q) /\ q.pc = "touch"
  BY AtWork DEF Touch, Idle
<1>2. UNCHANGED <<client, sent, stored, last, agenda, now, noticed, settled, twice, heard, told,
                  accident, delivered, troubles>> /\ Goes(h, Idle)
  BY DEF Touch, Ends
<1>3. conv \in Conv /\ q.read \in State /\ q.at \in Times
  BY <1>1, HandlingFacts DEF Base, TypeOK, HandlerKept
<1>4. PICK s \in State : s = [q.read EXCEPT !.updatedAt = q.at] /\ s.step = q.read.step
  BY <1>3, TouchedFacts
<1>5. conv' = [conv EXCEPT !.state = s]
  BY <1>1, <1>4 DEF Touch
<1>6. conv' \in Conv /\ conv'.state = s /\ conv'.needsHuman = conv.needsHuman /\ s # None /\ q.read # None
  BY <1>3, <1>5, ConvIn, StateFacts
<1>7. RowsKept' /\ Grows
  BY <1>2, <1>6, ConvFacts DEF Base, TypeOK, RowsKept, Grows
<1>8. HandlersKept' /\ handler' \in [Handlers -> Handling \cup {Idle}]
  BY <1>2, <1>7, HandlersOn, Move DEF Base
<1>9. TypeOK'
  BY <1>2, <1>6, <1>8 DEF Base, TypeOK
<1>10. Touched(h)
  BY <1>1, <1>2, <1>4, <1>6 DEF Touched
<1> QED
  BY <1>7, <1>8, <1>9, <1>10 DEF Base

\* An answer of the handler at q, as the other parts of the model see it.
Spoken(q, say) ==
    /\ conv' \in Conv /\ conv'.state = conv.state /\ conv'.needsHuman = conv.needsHuman
    /\ settled' = settled \cup {q.msg}
    /\ twice' = (twice \/ (~q.spoke /\ q.msg \in settled))
    /\ heard' = IF say \in Answers THEN say ELSE heard

LEMMA SpokenFacts ==
    ASSUME Base, NEW h \in Handlers, NEW q \in Handling, q = handler[h], HandlerKept(q), q.pc \in After,
           NEW say, Answer(h, say)
    PROVE  Spoken(q, say) /\ conv' # Absent
<1>1. conv \in Conv /\ now \in Times
  BY DEF Base, TypeOK, HandlerKept, After
<1> QED
  BY <1>1, ConvAt, ConvFacts DEF Answer, Spoken

LEMMA AnswerBase ==
    ASSUME Base, NEW h \in Handlers, NEW q \in Handling, q = handler[h], HandlerKept(q), q.pc \in After,
           NEW say, Answer(h, say),
           NEW w \in Handling \cup {Idle}, Goes(h, w), w # Idle => HandlerKept(w)',
           told' \subseteq Slots,
           UNCHANGED <<client, sent, stored, agenda, now, noticed, accident, delivered, troubles>>
    PROVE  Base'
<1>1. Spoken(q, say) /\ conv' # Absent
  BY SpokenFacts
<1>2. q.msg \in stored
  BY DEF HandlerKept
<1>3. RowsKept' /\ Grows
  BY <1>1 DEF Answer, Base, TypeOK, RowsKept, Grows
<1>4. HandlersKept' /\ handler' \in [Handlers -> Handling \cup {Idle}]
  BY <1>3, HandlersOn, Move DEF Base
<1>5. settled' \subseteq stored' /\ twice' \in BOOLEAN /\ heard' \in Answers \cup {None}
  BY <1>1, <1>2 DEF Spoken, Base, TypeOK
<1>6. TypeOK'
  BY <1>1, <1>4, <1>5 DEF Answer, Spoken, Base, TypeOK
<1> QED
  BY <1>3, <1>4, <1>6 DEF Base

PhotoConfirmed(h) == \E q, r \in Handling :
    /\ handler[h] = q /\ q.pc = "photo" /\ Spoken(q, "photo") /\ Like(r, q) /\ r.spoke
    /\ \/ Goes(h, Idle)
       \/ \E w \in Handling : Goes(h, w) /\ Sound(w, r)
    /\ UNCHANGED <<client, stored, told, agenda, accident>>

LEMMA PhotoBase == ASSUME Base, NEW h \in Handlers, ConfirmPhoto(h) PROVE Base' /\ PhotoConfirmed(h)
<1>1. PICK q \in Handling : q = handler[h] /\ HandlerKept(q) /\ q.pc = "photo"
  BY AtWork DEF ConfirmPhoto, Idle
<1>2. /\ UNCHANGED <<client, sent, stored, agenda, now, noticed, told, accident, delivered, troubles>>
      /\ Answer(h, "photo") /\ told' \subseteq Slots
  BY DEF ConfirmPhoto, Base, TypeOK
<1>3. Spoken(q, "photo") /\ conv' # Absent
  BY <1>1, <1>2, SpokenFacts DEF After
<1>4. PICK r \in Handling : r = [q EXCEPT !.spoke = TRUE] /\ r.text = q.text /\ Like(r, q) /\ r.spoke
  <2>1. LET r == [q EXCEPT !.spoke = TRUE] IN r \in Handling /\ r.text = q.text /\ Like(r, q) /\ r.spoke
    BY DEF Handling, Like
  <2> QED
    BY <2>1
<1>5. Goes(h, IF r.text = None THEN Idle ELSE Handle(r, r.text))
  BY <1>1, <1>4 DEF ConfirmPhoto
<1>6. q.msg \in 1..Len(sent') /\ q.msg \in stored' /\ r.msg = q.msg
  BY <1>1, <1>2, <1>4 DEF HandlerKept, Like, After
<1>7. CASE r.text = None
  <2>1. Goes(h, Idle)
    BY <1>5, <1>7
  <2>2. Base'
    BY <1>1, <1>2, <2>1, AnswerBase DEF After
  <2> QED
    BY <1>1, <1>2, <1>3, <1>4, <2>1, <2>2 DEF PhotoConfirmed
<1>8. CASE r.text # None
  <2>1. PICK w : w = Handle(r, r.text)
    OBVIOUS
  <2>2. Goes(h, w) /\ Sound(w, r)
    BY <1>5, <1>8, <2>1, SoundHandle DEF Base
  <2>3. w \in Handling /\ HandlerKept(w)'
    BY <1>3, <1>6, <2>2, SoundKept
  <2>4. Base'
    BY <1>1, <1>2, <2>2, <2>3, AnswerBase DEF After
  <2> QED
    BY <1>1, <1>2, <1>3, <1>4, <2>2, <2>3, <2>4 DEF PhotoConfirmed
<1> QED
  BY <1>7, <1>8

AnswerGiven(h) == \E q, w \in Handling :
    /\ handler[h] = q /\ q.pc = "reply" /\ Spoken(q, q.say)
    /\ Goes(h, w) /\ w.msg = q.msg /\ w.owner = q.owner /\ w.spoke
    /\ \/ q.say = "taken" /\ w.pc = "offer" /\ w.read = q.read
       \/ q.say # "taken" /\ q.mark /\ w.pc = "mark" /\ w.next = q.next /\ w.read = q.read
       \/ q.say # "taken" /\ ~q.mark /\ w.pc = "save" /\ w.next = q.next /\ w.read = None
    /\ told' = (IF q.say = "booked" /\ q.read.step = "SCHEDULE_CONFIRM" THEN told \cup {q.read.chosen} ELSE told)
    /\ UNCHANGED <<client, stored, agenda, accident>>

LEMMA GiveBase == ASSUME Base, NEW h \in Handlers, GiveAnswer(h) PROVE Base' /\ AnswerGiven(h)
<1>1. PICK q \in Handling : q = handler[h] /\ HandlerKept(q) /\ q.pc = "reply"
  <2>1. [handler[h] EXCEPT !.spoke = TRUE].pc = "reply"
    BY DEF GiveAnswer
  <2>2. handler[h] # Idle
    BY <2>1 DEF Idle
  <2>3. handler[h] \in Handling /\ HandlerKept(handler[h])
    BY <2>2, AtWork
  <2>4. handler[h].pc = "reply"
    BY <2>1, <2>3, SpeaksFacts
  <2> QED
    BY <2>3, <2>4
<1>2. PICK r : r = [q EXCEPT !.spoke = TRUE]
  OBVIOUS
<1>3. /\ r \in Handling /\ r.pc = q.pc /\ r.spoke = TRUE /\ r.msg = q.msg /\ r.owner = q.owner /\ r.read = q.read
      /\ r.say = q.say /\ r.next = q.next /\ r.mark = q.mark
  BY <1>2, SpeaksFacts
<1>4. /\ Answer(h, q.say)
      /\ told' = (IF q.say = "booked" /\ q.read.step = "SCHEDULE_CONFIRM" THEN told \cup {q.read.chosen} ELSE told)
      /\ Goes(h, IF q.say = "taken" THEN Offer(r, {}) ELSE IF q.mark THEN [r EXCEPT !.pc = "mark"] ELSE Saving(r))
      /\ UNCHANGED <<client, sent, stored, agenda, now, noticed, accident, delivered, troubles>>
  BY <1>1, <1>2, <1>3 DEF GiveAnswer
<1>5. Spoken(q, q.say) /\ conv' # Absent
  BY <1>1, <1>4, SpokenFacts DEF After
<1>6. told' \subseteq Slots
  <2>1. q.say = "booked" => q.read \in State /\ q.read.step \in Confirms
    BY <1>1, HandlingFacts DEF HandlerKept
  <2> QED
    BY <1>4, <2>1, StateFacts DEF Base, TypeOK
<1>7. PICK w \in Handling :
        /\ Goes(h, w) /\ w.msg = q.msg /\ w.owner = q.owner /\ w.spoke
        /\ \/ q.say = "taken" /\ w.pc = "offer" /\ w.read = q.read
           \/ q.say # "taken" /\ q.mark /\ w.pc = "mark" /\ w.next = q.next /\ w.read = q.read
           \/ q.say # "taken" /\ ~q.mark /\ w.pc = "save" /\ w.next = q.next /\ w.read = None
  <2>1. CASE q.say = "taken"
    <3>1. LET w == Offer(r, {}) IN w \in Handling /\ w.pc = "offer" /\ w.read = r.read /\ Same(w, r)
      BY <1>3, OfferFacts
    <3> HIDE DEF Offer
    <3> QED
      BY <1>3, <1>4, <2>1, <3>1 DEF Same
  <2>2. CASE q.say # "taken" /\ q.mark
    <3>1. LET w == [r EXCEPT !.pc = "mark"] IN
          w \in Handling /\ w.pc = "mark" /\ w.read = r.read /\ w.next = r.next /\ Same(w, r)
      BY <1>3 DEF Handling, Same
    <3> QED
      BY <1>3, <1>4, <2>2, <3>1 DEF Same
  <2>3. CASE q.say # "taken" /\ ~q.mark
    <3>1. LET w == Saving(r) IN
          w \in Handling /\ w.pc = "save" /\ w.next = r.next /\ w.read = None /\ Same(w, r)
      BY <1>3, SavingFacts
    <3> HIDE DEF Saving
    <3> QED
      BY <1>3, <1>4, <2>3, <3>1 DEF Same
  <2> QED
    BY <2>1, <2>2, <2>3
<1>8. HandlerKept(w)'
  BY <1>1, <1>4, <1>5, <1>7 DEF HandlerKept, After
<1>9. Base'
  BY <1>1, <1>4, <1>6, <1>7, <1>8, AnswerBase DEF After
<1>10. AnswerGiven(h)
  BY <1>1, <1>4, <1>5, <1>7 DEF AnswerGiven
<1> QED
  BY <1>9, <1>10
Marked(h) == \E q, w \in Handling :
    /\ handler[h] = q /\ q.pc = "mark" /\ q.spoke
    /\ Goes(h, w) /\ w.pc = "save" /\ w.next = q.next /\ w.read = None /\ w.msg = q.msg /\ w.owner = q.owner /\ w.spoke
    /\ conv' \in Conv /\ conv'.state = conv.state /\ conv'.needsHuman
    /\ UNCHANGED <<client, stored, settled, twice, heard, told, agenda, accident>>

LEMMA MarkBase == ASSUME Base, NEW h \in Handlers, MarkNeedsHuman(h) PROVE Base' /\ Marked(h)
<1>1. PICK q \in Handling : q = handler[h] /\ HandlerKept(q) /\ q.pc = "mark"
  BY AtWork DEF MarkNeedsHuman, Idle
<1>2. UNCHANGED <<client, sent, stored, last, agenda, now, noticed, settled, twice, heard, told,
                  accident, delivered, troubles>>
  BY DEF MarkNeedsHuman
<1>3. conv' \in Conv /\ conv'.state = conv.state /\ conv'.needsHuman
  <2>1. conv \in Conv /\ conv' = [conv EXCEPT !.needsHuman = TRUE]
    BY <1>1 DEF Base, TypeOK, HandlerKept, MarkNeedsHuman
  <2> QED
    BY <2>1, ConvMarked
<1>4. PICK w : w = Saving(q)
  OBVIOUS
<1>5. w \in Handling /\ w.pc = "save" /\ w.next = q.next /\ w.read = None /\ Same(w, q)
  BY <1>4, SavingFacts
<1>6. Goes(h, w)
  BY <1>1, <1>4 DEF MarkNeedsHuman
<1>7. RowsKept' /\ Grows /\ conv' # Absent
  BY <1>2, <1>3, ConvFacts DEF Base, TypeOK, RowsKept, Grows
<1>8. HandlerKept(w)'
  BY <1>1, <1>2, <1>5, <1>7 DEF HandlerKept, After, Same
<1>9. HandlersKept' /\ handler' \in [Handlers -> Handling \cup {Idle}]
  BY <1>5, <1>6, <1>7, <1>8, HandlersOn, Move DEF Base
<1>10. TypeOK'
  BY <1>2, <1>3, <1>9 DEF Base, TypeOK
<1>11. Marked(h)
  BY <1>1, <1>2, <1>3, <1>5, <1>6 DEF Marked, HandlerKept, Same
<1> QED
  BY <1>7, <1>9, <1>10, <1>11 DEF Base

Saved(h) == \E q \in Handling :
    /\ handler[h] = q /\ q.pc = "save" /\ Goes(h, Idle)
    /\ conv \in Conv /\ conv' \in Conv /\ conv'.state = q.next /\ conv'.needsHuman = conv.needsHuman
    /\ UNCHANGED <<client, stored, settled, twice, heard, told, agenda, accident>>

LEMMA SaveBase == ASSUME Base, NEW h \in Handlers, SaveState(h) PROVE Base' /\ Saved(h)
<1>1. PICK q \in Handling : q = handler[h] /\ HandlerKept(q) /\ q.pc = "save"
  BY AtWork DEF SaveState, Idle
<1>2. UNCHANGED <<client, sent, stored, last, agenda, now, noticed, settled, twice, heard, told,
                  accident, delivered, troubles>> /\ Goes(h, Idle)
  BY DEF SaveState, Ends
<1>3. conv \in Conv /\ conv' \in Conv /\ conv'.state = q.next /\ conv'.needsHuman = conv.needsHuman
  <2>1. conv \in Conv /\ conv' = [conv EXCEPT !.state = q.next] /\ q.next \in State \cup {None}
    BY <1>1, HandlingFacts DEF Base, TypeOK, HandlerKept, SaveState
  <2> QED
    BY <2>1, ConvIn
<1>4. RowsKept' /\ Grows
  BY <1>2, <1>3, ConvFacts DEF Base, TypeOK, RowsKept, Grows
<1>5. HandlersKept' /\ handler' \in [Handlers -> Handling \cup {Idle}]
  BY <1>2, <1>4, HandlersOn, Move DEF Base
<1>6. TypeOK'
  BY <1>2, <1>3, <1>5 DEF Base, TypeOK
<1>7. Saved(h)
  BY <1>1, <1>2, <1>3 DEF Saved
<1> QED
  BY <1>4, <1>5, <1>6, <1>7 DEF Base

Offered(h) == \E q, w \in Handling :
    /\ handler[h] = q /\ q.pc = "offer" /\ Goes(h, w) /\ w.msg = q.msg /\ w.owner = q.owner /\ w.spoke
    /\ w.next # None
    /\ \/ Spoken(q, "noslots") /\ w.pc = "mark" /\ w.read = q.read /\ w.next.step \in StandsAfter("noslots")
       \/ Spoken(q, "slots") /\ w.pc = "save" /\ w.read = None /\ w.next.step \in StandsAfter("slots")
    /\ UNCHANGED <<client, stored, told, agenda, accident>>

LEMMA OfferBase == ASSUME Base, NEW h \in Handlers, OfferSlots(h) PROVE Base' /\ Offered(h)
<1>1. PICK q \in Handling : q = handler[h] /\ HandlerKept(q) /\ q.pc = "offer"
  <2>1. [handler[h] EXCEPT !.spoke = TRUE].pc = "offer"
    BY DEF OfferSlots
  <2>2. handler[h] # Idle
    BY <2>1 DEF Idle
  <2>3. handler[h] \in Handling /\ HandlerKept(handler[h])
    BY <2>2, AtWork
  <2>4. handler[h].pc = "offer"
    BY <2>1, <2>3, SpeaksFacts
  <2> QED
    BY <2>3, <2>4
<1>2. PICK r : r = [q EXCEPT !.spoke = TRUE]
  OBVIOUS
<1>3. /\ r \in Handling /\ r.pc = q.pc /\ r.spoke = TRUE /\ r.msg = q.msg /\ r.owner = q.owner /\ r.read = q.read
      /\ r.after = q.after
  BY <1>2, SpeaksFacts
<1>4. PICK slots : slots = FirstFree(q.after)
  OBVIOUS
<1>5. PICK step \in SlotSteps :
        step = IF q.read.step \in Moving THEN "RESCHEDULE_CHOOSE_SLOT" ELSE "SCHEDULE_CHOOSE_SLOT"
  BY DEF SlotSteps
<1>6. /\ Answer(h, IF slots = {} THEN "noslots" ELSE "slots")
      /\ Goes(h, IF slots = {} THEN [r EXCEPT !.pc = "mark", !.next = Fresh("MENU")]
                 ELSE Saving([r EXCEPT !.next = [Fresh(step) EXCEPT !.offered = slots]]))
      /\ UNCHANGED <<client, sent, stored, agenda, now, noticed, told, accident, delivered, troubles>>
  BY <1>1, <1>2, <1>3, <1>4, <1>5 DEF OfferSlots
<1>7. Spoken(q, IF slots = {} THEN "noslots" ELSE "slots") /\ conv' # Absent
  BY <1>1, <1>6, SpokenFacts DEF After
<1>8. told' \subseteq Slots
  BY <1>6 DEF Base, TypeOK
<1>9. PICK w \in Handling :
        /\ Goes(h, w) /\ w.msg = q.msg /\ w.owner = q.owner /\ w.spoke /\ w.next # None
        /\ \/ slots = {} /\ w.pc = "mark" /\ w.read = q.read /\ w.next.step \in StandsAfter("noslots")
           \/ slots # {} /\ w.pc = "save" /\ w.read = None /\ w.next.step \in StandsAfter("slots")
  <2>1. CASE slots = {}
    <3>1. PICK s \in State : s = Fresh("MENU") /\ s.step = "MENU" /\ s # None
      BY FreshFacts, StepFacts, StateFacts DEF Base
    <3>2. LET w == [r EXCEPT !.pc = "mark", !.next = s] IN
          w \in Handling /\ w.pc = "mark" /\ w.next = s /\ Same(w, r) /\ w.read = r.read
      BY <1>3 DEF Handling, Same
    <3> QED
      <4>1. PICK w \in Handling : w = [r EXCEPT !.pc = "mark", !.next = s] /\ w.pc = "mark" /\ w.next = s
                                  /\ Same(w, r) /\ w.read = r.read
        BY <3>2
      <4>2. Goes(h, w)
        BY <1>6, <2>1, <3>1, <4>1
      <4>3. w.msg = q.msg /\ w.owner = q.owner /\ w.spoke /\ w.read = q.read
        BY <1>3, <4>1 DEF Same
      <4>4. w.next # None /\ w.next.step \in StandsAfter("noslots")
        BY <3>1, <4>1 DEF StandsAfter, StepsAfter
      <4> QED
        BY <2>1, <4>1, <4>2, <4>3, <4>4
  <2>2. CASE slots # {}
    <3>1. slots \in SUBSET Slots /\ step \in Steps \ Confirms
      BY <1>4, StepFacts DEF FirstFree
    <3>2. PICK s \in State : s = [Fresh(step) EXCEPT !.offered = slots] /\ s.step = step /\ s # None
      BY <2>2, <3>1, OfferedFacts, StateFacts DEF Base
    <3>3. LET v == [r EXCEPT !.next = s] IN v \in Handling /\ v.next = s /\ Same(v, r)
      BY <1>3, NextFacts
    <3>4. PICK v \in Handling : v = [r EXCEPT !.next = s] /\ v.next = s /\ Same(v, r)
      BY <3>3
    <3>5. LET w == Saving(v) IN
          w \in Handling /\ w.pc = "save" /\ w.next = v.next /\ w.read = None /\ Same(w, v)
      BY SavingFacts
    <3> HIDE DEF Saving
    <3> QED
      <4>1. PICK w \in Handling : w = Saving(v) /\ w.pc = "save" /\ w.next = s /\ w.read = None /\ Same(w, v)
        BY <3>4, <3>5
      <4>2. Goes(h, w)
        BY <1>6, <2>2, <3>2, <3>4, <4>1
      <4>3. w.msg = q.msg /\ w.owner = q.owner /\ w.spoke
        BY <1>3, <3>4, <4>1 DEF Same
      <4>4. w.next # None /\ w.next.step \in StandsAfter("slots")
        BY <3>2, <4>1 DEF StandsAfter, StepsAfter, SlotSteps
      <4> QED
        BY <2>2, <4>1, <4>2, <4>3, <4>4
  <2> QED
    BY <2>1, <2>2
<1>10. HandlerKept(w)'
  BY <1>1, <1>6, <1>7, <1>9 DEF HandlerKept, After
<1>11. Base'
  BY <1>1, <1>6, <1>8, <1>9, <1>10, AnswerBase DEF After
<1>12. Offered(h)
  BY <1>1, <1>6, <1>7, <1>9 DEF Offered
<1> QED
  BY <1>11, <1>12
\* The handling of q ends too early.
Broken(q) ==
    /\ accident'["died"] /\ \A a \in Accidents \ {"died"} : accident'[a] = accident[a]
    /\ settled' = IF q.pc \in {"create", "upsert", "store"} THEN settled ELSE settled \cup {q.msg}

LEMMA BrokenFacts ==
    ASSUME Base, NEW q \in Handling, HandlerKept(q), Interrupted(q), stored' = stored
    PROVE  Broken(q) /\ accident' \in [Accidents -> BOOLEAN] /\ settled' \subseteq stored'
<1>1. "died" \in Accidents
  BY DEF Accidents
<1>2. settled' \subseteq stored'
  BY HandlingFacts DEF Base, TypeOK, Interrupted, HandlerKept, After
<1> QED
  BY <1>1, <1>2 DEF Base, TypeOK, Interrupted, Broken

Loaded(h) == \E q \in Handling :
    /\ handler[h] = q /\ q.pc = "load"
    /\ \/ Goes(h, Idle) /\ Broken(q)
       \/ /\ UNCHANGED <<settled, accident>>
          /\ \E w \in Handling : Goes(h, w) /\ w.pc = "offer" /\ Like(w, q) /\ w.spoke = q.spoke
    /\ UNCHANGED <<client, conv, stored, twice, heard, told, agenda>>

LEMMA LoadBase == ASSUME Base, NEW h \in Handlers, LoadAppointment(h) PROVE Base' /\ Loaded(h)
<1>1. PICK q \in Handling : q = handler[h] /\ HandlerKept(q) /\ q.pc = "load"
  BY AtWork DEF LoadAppointment, Idle
<1>2. UNCHANGED <<client, conv, sent, stored, last, agenda, now, noticed, twice, heard, told,
                  delivered, troubles>>
  BY DEF LoadAppointment
<1>3. RowsKept' /\ Grows
  BY <1>2 DEF Base, TypeOK, RowsKept, Grows
<1>4. CASE agenda.target = Absent
  <2>1. Goes(h, Idle) /\ Interrupted(q)
    BY <1>1, <1>4 DEF LoadAppointment, Ends
  <2>2. Broken(q) /\ accident' \in [Accidents -> BOOLEAN] /\ settled' \subseteq stored'
    BY <1>1, <1>2, <2>1, BrokenFacts
  <2>3. HandlersKept' /\ handler' \in [Handlers -> Handling \cup {Idle}]
    BY <1>3, <2>1, HandlersOn, Move DEF Base
  <2>4. TypeOK'
    BY <1>2, <2>2, <2>3 DEF Base, TypeOK
  <2> QED
    BY <1>1, <1>2, <1>3, <2>1, <2>2, <2>3, <2>4 DEF Base, Loaded
<1>5. CASE agenda.target # Absent
  <2>1. PICK w : w = Offer(q, {})
    OBVIOUS
  <2>2. Goes(h, w) /\ UNCHANGED <<settled, accident>>
    BY <1>1, <1>5, <2>1 DEF LoadAppointment
  <2>3. w \in Handling /\ w.pc = "offer" /\ Like(w, q) /\ w.spoke = q.spoke
    BY <2>1, OfferFacts DEF Like, Same
  <2>4. HandlerKept(w)'
    BY <1>1, <1>2, <2>3 DEF HandlerKept, After, Like
  <2>5. HandlersKept' /\ handler' \in [Handlers -> Handling \cup {Idle}]
    BY <1>3, <2>2, <2>3, <2>4, HandlersOn, Move DEF Base
  <2>6. TypeOK'
    BY <1>2, <2>2, <2>5 DEF Base, TypeOK
  <2> QED
    BY <1>1, <1>2, <1>3, <2>2, <2>3, <2>5, <2>6 DEF Base, Loaded
<1> QED
  BY <1>4, <1>5

\* The time that is booked is told next, by an answer of its own.
Booked(h) == \E q, w \in Handling :
    /\ handler[h] = q /\ q.pc = "book" /\ q.read # None /\ q.read.step \in Confirms
    /\ Goes(h, w) /\ w.pc = "reply" /\ Like(w, q) /\ w.spoke = q.spoke
    /\ \/ w.say = "taken" /\ w.next = None /\ agenda' = agenda
       \/ /\ w.say = "booked" /\ w.next # None /\ w.next.step = "MENU"
          /\ agenda'.mine = IF q.read.step = "RESCHEDULE_CONFIRM" THEN agenda.mine
                            ELSE agenda.mine \cup {q.read.chosen}
    /\ UNCHANGED <<client, conv, stored, settled, twice, heard, told, accident>>

LEMMA BookBase == ASSUME Base, NEW h \in Handlers, Book(h) PROVE Base' /\ Booked(h)
<1>1. PICK q \in Handling : q = handler[h] /\ HandlerKept(q) /\ q.pc = "book"
  BY AtWork DEF Book, Idle
<1>2. UNCHANGED <<client, conv, sent, stored, last, now, noticed, settled, twice, heard, told,
                  accident, delivered, troubles>>
  BY DEF Book
<1>3. RowsKept' /\ Grows
  BY <1>2 DEF Base, TypeOK, RowsKept, Grows
<1>4. q.read \in State /\ q.read.step \in Confirms /\ q.read.chosen \in Slots /\ q.read # None
  BY <1>1, HandlingFacts, StateFacts DEF HandlerKept
<1> DEFINE own == q.read.step = "RESCHEDULE_CONFIRM"  slot == q.read.chosen
<1>5. PICK refused \in BOOLEAN : refused <=> (Refused(slot, own) \/ (own /\ agenda.target = Absent))
  OBVIOUS
<1>6. /\ agenda' = (CASE refused -> agenda
                      [] ~refused /\ own -> [agenda EXCEPT !.target = [slot |-> slot, stands |-> TRUE]]
                      [] OTHER -> [agenda EXCEPT !.mine = @ \cup {slot}])
      /\ Goes(h, Outcome(q, refused))
  BY <1>1, <1>5 DEF Book, Outcome
<1>7. agenda \in Agenda
  BY DEF Base, TypeOK
<1>8. agenda' \in Agenda /\ (refused => agenda' = agenda)
      /\ (~refused => agenda'.mine = IF own THEN agenda.mine ELSE agenda.mine \cup {slot})
  <2>1. CASE refused
    BY <1>6, <1>7, <2>1
  <2>2. CASE ~refused /\ own
    <3>1. agenda' = [agenda EXCEPT !.target = [slot |-> slot, stands |-> TRUE]]
      BY <1>6, <2>2
    <3> QED
      BY <1>4, <1>7, <2>2, <3>1 DEF Agenda
  <2>3. CASE ~refused /\ ~own
    <3>1. agenda' = [agenda EXCEPT !.mine = @ \cup {slot}]
      BY <1>6, <2>3
    <3> QED
      BY <1>4, <1>7, <2>3, <3>1 DEF Agenda
  <2> QED
    BY <2>1, <2>2, <2>3
<1>9. PICK w \in Handling :
        /\ Goes(h, w) /\ w.pc = "reply" /\ Like(w, q) /\ w.spoke = q.spoke
        /\ \/ refused /\ w.say = "taken" /\ w.next = None
           \/ ~refused /\ w.say = "booked" /\ w.next # None /\ w.next.step = "MENU"
  <2>1. CASE refused
    <3>1. PICK w : w = Reply(q, "taken", None)
      OBVIOUS
    <3>2. w \in Handling /\ w.pc = "reply" /\ w.say = "taken" /\ w.next = None /\ w.read = q.read /\ Same(w, q)
      BY <3>1, ReplyFacts DEF Asides
    <3> QED
      BY <1>6, <2>1, <3>1, <3>2 DEF Outcome, Like, Same
  <2>2. CASE ~refused
    <3>1. PICK w : w = Reply(q, "booked", Fresh("MENU"))
      OBVIOUS
    <3>2. PICK s \in State : s = Fresh("MENU") /\ s.step = "MENU" /\ s # None
      BY FreshFacts, StepFacts, StateFacts DEF Base
    <3>3. w \in Handling /\ w.pc = "reply" /\ w.say = "booked" /\ w.next = s /\ w.read = q.read /\ Same(w, q)
      BY <3>1, <3>2, ReplyFacts DEF Answers
    <3> QED
      BY <1>6, <2>2, <3>1, <3>2, <3>3 DEF Outcome, Like, Same
  <2> QED
    BY <2>1, <2>2
<1>10. HandlerKept(w)'
  BY <1>1, <1>2, <1>4, <1>9 DEF HandlerKept, After, Like
<1>11. HandlersKept' /\ handler' \in [Handlers -> Handling \cup {Idle}]
  BY <1>3, <1>9, <1>10, HandlersOn, Move DEF Base
<1>12. TypeOK'
  BY <1>2, <1>8, <1>11 DEF Base, TypeOK
<1>13. Booked(h)
  BY <1>1, <1>2, <1>4, <1>8, <1>9 DEF Booked
<1> QED
  BY <1>3, <1>11, <1>12, <1>13 DEF Base
Cancelled(h) == \E q \in Handling :
    /\ handler[h] = q /\ q.pc = "cancel"
    /\ \/ Goes(h, Idle) /\ Broken(q)
       \/ /\ UNCHANGED <<settled, accident>>
          /\ \E w \in Handling : /\ Goes(h, w) /\ w.pc = "reply" /\ Like(w, q) /\ w.spoke = q.spoke
                                 /\ w.say = "cancelled" /\ w.next # None /\ w.next.step = "MENU"
    /\ agenda'.mine = agenda.mine
    /\ UNCHANGED <<client, conv, stored, twice, heard, told>>

LEMMA CancelBase == ASSUME Base, NEW h \in Handlers, CancelAppointment(h) PROVE Base' /\ Cancelled(h)
<1>1. PICK q \in Handling : q = handler[h] /\ HandlerKept(q) /\ q.pc = "cancel"
  BY AtWork DEF CancelAppointment, Idle
<1>2. UNCHANGED <<client, conv, sent, stored, last, now, noticed, twice, heard, told, delivered, troubles>>
  BY DEF CancelAppointment
<1>3. RowsKept' /\ Grows
  BY <1>2 DEF Base, TypeOK, RowsKept, Grows
<1>4. CASE agenda.target = Absent
  <2>1. Goes(h, Idle) /\ Interrupted(q) /\ agenda' = agenda
    BY <1>1, <1>4 DEF CancelAppointment, Ends
  <2>2. Broken(q) /\ accident' \in [Accidents -> BOOLEAN] /\ settled' \subseteq stored'
    BY <1>1, <1>2, <2>1, BrokenFacts
  <2>3. HandlersKept' /\ handler' \in [Handlers -> Handling \cup {Idle}]
    BY <1>3, <2>1, HandlersOn, Move DEF Base
  <2>4. TypeOK'
    BY <1>2, <2>1, <2>2, <2>3 DEF Base, TypeOK
  <2> QED
    BY <1>1, <1>2, <1>3, <2>1, <2>2, <2>3, <2>4 DEF Base, Cancelled
<1>5. CASE agenda.target # Absent
  <2>1. PICK w : w = Reply(q, "cancelled", Fresh("MENU"))
    OBVIOUS
  <2>2. /\ Goes(h, w) /\ UNCHANGED <<settled, accident>>
        /\ agenda' = [agenda EXCEPT !.target.stands = FALSE]
    BY <1>1, <1>5, <2>1 DEF CancelAppointment
  <2>3. PICK s \in State : s = Fresh("MENU") /\ s.step = "MENU" /\ s # None
    BY FreshFacts, StepFacts, StateFacts DEF Base
  <2>4. w \in Handling /\ w.pc = "reply" /\ w.say = "cancelled" /\ w.next = s /\ w.read = q.read /\ Same(w, q)
    <3>1. w = Reply(q, "cancelled", s) /\ "cancelled" \in Asides \cup Answers
      BY <2>1, <2>3 DEF Answers
    <3> QED
      BY <3>1, ReplyFacts
  <2>5. HandlerKept(w)'
    BY <1>1, <1>2, <2>4 DEF HandlerKept, After, Same
  <2>6. HandlersKept' /\ handler' \in [Handlers -> Handling \cup {Idle}]
    BY <1>3, <2>2, <2>4, <2>5, HandlersOn, Move DEF Base
  <2>7. agenda' \in Agenda /\ agenda'.mine = agenda.mine
    <3>1. agenda \in Agenda /\ agenda.target \in [slot: Slots, stands: BOOLEAN]
      BY <1>5 DEF Base, TypeOK, Agenda
    <3> QED
      BY <2>2, <3>1 DEF Agenda
  <2>8. TypeOK'
    BY <1>2, <2>2, <2>6, <2>7 DEF Base, TypeOK
  <2>9. Cancelled(h)
    BY <1>1, <1>2, <2>2, <2>3, <2>4, <2>7 DEF Cancelled, Like, Same
  <2> QED
    BY <1>3, <2>6, <2>8, <2>9 DEF Base
<1> QED
  BY <1>4, <1>5

Died(h) == \E q \in Handling :
    /\ handler[h] = q /\ Goes(h, Idle) /\ Broken(q)
    /\ heard' = IF q.spoke THEN None ELSE heard
    /\ UNCHANGED <<client, conv, stored, twice, told, agenda>>

LEMMA DiesBase == ASSUME Base, NEW h \in Handlers, HandlerDies(h) PROVE Base' /\ Died(h)
<1>1. PICK q \in Handling : q = handler[h] /\ HandlerKept(q)
  BY AtWork DEF HandlerDies
<1>2. /\ Goes(h, Idle) /\ Interrupted(q) /\ Trouble /\ heard' = IF q.spoke THEN None ELSE heard
      /\ UNCHANGED <<client, conv, sent, stored, last, agenda, now, noticed, twice, told, delivered>>
  BY <1>1 DEF HandlerDies, Ends
<1>3. RowsKept' /\ Grows
  BY <1>2 DEF Base, TypeOK, RowsKept, Grows
<1>4. Broken(q) /\ accident' \in [Accidents -> BOOLEAN] /\ settled' \subseteq stored'
  BY <1>1, <1>2, BrokenFacts
<1>5. HandlersKept' /\ handler' \in [Handlers -> Handling \cup {Idle}]
  BY <1>2, <1>3, HandlersOn, Move DEF Base
<1>6. troubles' \in 0..MaxTroubles /\ heard' \in Answers \cup {None}
  BY <1>2, TroubleFacts DEF Base, TypeOK
<1>7. TypeOK'
  BY <1>2, <1>4, <1>5, <1>6 DEF Base, TypeOK
<1>8. Died(h)
  BY <1>1, <1>2, <1>4 DEF Died
<1> QED
  BY <1>3, <1>5, <1>7, <1>8 DEF Base

Failed(h) == \E q, w \in Handling :
    /\ handler[h] = q /\ (q.pc = "book" \/ (q.pc = "reply" /\ q.say = "booked"))
    /\ Goes(h, w) /\ w.pc = "reply" /\ w.say = "taken" /\ w.next = None /\ Like(w, q) /\ w.spoke = q.spoke
    /\ accident'["died"] /\ \A a \in Accidents \ {"died"} : accident'[a] = accident[a]
    /\ UNCHANGED <<client, conv, stored, settled, twice, heard, told, agenda>>

LEMMA FailsBase == ASSUME Base, NEW h \in Handlers, BookingFails(h) PROVE Base' /\ Failed(h)
<1>1. PICK q \in Handling : q = handler[h] /\ HandlerKept(q) /\ (q.pc = "book" \/ (q.pc = "reply" /\ q.say = "booked"))
  BY AtWork DEF BookingFails, Idle
<1>2. PICK w : w = Reply(q, "taken", None)
  OBVIOUS
<1>3. /\ Goes(h, w) /\ Trouble /\ accident' = [accident EXCEPT !["died"] = TRUE]
      /\ UNCHANGED <<client, conv, sent, stored, last, agenda, now, noticed, settled, twice, heard,
                     told, delivered>>
  BY <1>1, <1>2 DEF BookingFails
<1>4. w \in Handling /\ w.pc = "reply" /\ w.say = "taken" /\ w.next = None /\ w.read = q.read /\ Same(w, q)
  BY <1>2, ReplyFacts DEF Asides
<1>5. RowsKept' /\ Grows
  BY <1>3 DEF Base, TypeOK, RowsKept, Grows
<1>6. HandlerKept(w)'
  BY <1>1, <1>3, <1>4 DEF HandlerKept, After, Same
<1>7. HandlersKept' /\ handler' \in [Handlers -> Handling \cup {Idle}]
  BY <1>3, <1>4, <1>5, <1>6, HandlersOn, Move DEF Base
<1>8. /\ accident' \in [Accidents -> BOOLEAN] /\ accident'["died"]
      /\ \A a \in Accidents \ {"died"} : accident'[a] = accident[a]
  BY <1>3 DEF Base, TypeOK, Accidents
<1>9. TypeOK'
  BY <1>3, <1>7, <1>8, TroubleFacts DEF Base, TypeOK
<1>10. Failed(h)
  BY <1>1, <1>3, <1>4, <1>8 DEF Failed, Like, Same
<1> QED
  BY <1>5, <1>7, <1>9, <1>10 DEF Base

LEMMA BaseStep == ASSUME Base, [Next]_vars PROVE Base'
<1>1. CASE Send \/ People \/ Scan \/ Tick
  BY <1>1, SendBase, ManualBase, ChangeBase, ReleaseBase, ScanBase, TickBase DEF People
<1>2. ASSUME NEW h \in Handlers, Receive(h) \/ Step(h) \/ HandlerDies(h) \/ BookingFails(h)
      PROVE  Base'
  BY <1>2, ReceiveBase, CreateBase, UpsertBase, StoreBase, TouchBase, PhotoBase, GiveBase, MarkBase,
     SaveBase, OfferBase, LoadBase, BookBase, CancelBase, DiesBase, FailsBase DEF Step
<1>3. CASE UNCHANGED vars
  <2>1. TypeOK'
    BY <1>3 DEF vars, Base, TypeOK
  <2>2. RowsKept'
    BY <1>3 DEF vars, Base, RowsKept
  <2>3. HandlersKept'
    BY <1>3, HandlersStill DEF vars, Base, TypeOK, Grows
  <2> QED
    BY <2>1, <2>2, <2>3 DEF Base
<1> QED
  BY <1>1, <1>2, <1>3 DEF Next

\* Every variable of the conversation, of its messages and of the handlers that
\* answer them has its type: a handler goes on only with a step of the menu or
\* of the agenda it has the data for (conversation-engine.service.ts).
THEOREM TypeCorrect == Spec => []TypeOK
<1>1. Base => TypeOK
  BY DEF Base
<1> QED
  BY <1>1, BaseInit, BaseStep, PTL DEF Spec
-----------------------------------------------------------------------------
(* A message is answered once *)

\* The steps of a handler from which the next answer is its first.
Asking == {"photo", "reply", "offer", "load", "book", "cancel"}

OnceInv ==
    /\ ~twice
    /\ \A g \in Handlers, p \in Handling :
         handler[g] = p /\ p.pc \in Asking /\ ~p.spoke => p.msg \notin settled
    /\ \A g, h \in Handlers, p, q \in Handling :
         handler[g] = p /\ handler[h] = q /\ p.pc \in After /\ q.pc \in After /\ p.msg = q.msg => g = h

\* A handler goes on before it has stored its message, or ends.
LEMMA OnceBefore ==
    ASSUME Base, OnceInv, NEW h \in Handlers, NEW w \in Handling \cup {Idle}, Goes(h, w),
           w # Idle => w.pc \notin After, UNCHANGED <<twice, settled>>
    PROVE  OnceInv'
<1>1. /\ handler'[h] = w /\ Idle \notin Handling
      /\ \A g \in Handlers \ {h} : handler'[g] = handler[g]
  BY Move, HandlingFacts DEF Base
<1> QED
  BY <1>1 DEF OnceInv, Asking, After

\* No other handler is past the insert of message m.
Alone(h, m) == \A g \in Handlers \ {h}, p \in Handling : handler[g] = p /\ p.pc \in After => p.msg # m

\* The one handler past the insert of message m goes on.
LEMMA OnceMoves ==
    ASSUME Base, OnceInv, NEW h \in Handlers, NEW w \in Handling \cup {Idle}, Goes(h, w), NEW m,
           Alone(h, m),
           settled' = settled \/ settled' = settled \cup {m}, ~twice',
           w # Idle => w.msg = m /\ (w.pc \in Asking /\ ~w.spoke => m \notin settled')
    PROVE  OnceInv'
<1>1. /\ handler'[h] = w /\ Idle \notin Handling /\ Asking \subseteq After
      /\ \A g \in Handlers \ {h} : handler'[g] = handler[g]
  BY Move, HandlingFacts DEF Base, Asking, After
<1>2. ASSUME NEW g \in Handlers, NEW p \in Handling, handler'[g] = p, p.pc \in Asking, ~p.spoke
      PROVE  p.msg \notin settled'
  <2>1. CASE g = h
    BY <1>1, <1>2, <2>1
  <2>2. CASE g # h
    <3>1. p.msg \notin settled /\ p.msg # m
      BY <1>1, <1>2, <2>2 DEF Alone, OnceInv
    <3> QED
      BY <3>1
  <2> QED
    BY <2>1, <2>2
<1>3. ASSUME NEW g \in Handlers, NEW f \in Handlers, NEW p \in Handling, NEW q \in Handling,
             handler'[g] = p, handler'[f] = q, p.pc \in After, q.pc \in After, p.msg = q.msg
      PROVE  g = f
  <2>1. CASE g # h /\ f # h
    BY <1>1, <1>3, <2>1 DEF OnceInv
  <2>2. CASE g = h \/ f = h
    BY <1>1, <1>3, <2>2 DEF Alone
  <2> QED
    BY <2>1, <2>2
<1> QED
  BY <1>2, <1>3 DEF OnceInv

LEMMA OncePast ==
    ASSUME Base, OnceInv, NEW h \in Handlers, NEW q \in Handling, handler[h] = q, q.pc \in After,
           NEW w \in Handling \cup {Idle}, Goes(h, w),
           settled' = settled \/ settled' = settled \cup {q.msg},
           twice' = twice \/ (q.pc \in Asking /\ twice' = (twice \/ (~q.spoke /\ q.msg \in settled))),
           w # Idle => /\ w.msg = q.msg
                       /\ w.spoke \/ w.pc \notin Asking \/ (settled' = settled /\ q.pc \in Asking /\ ~q.spoke)
    PROVE  OnceInv'
<1>1. PICK m : m = q.msg
  OBVIOUS
<1>2. Alone(h, m)
  BY <1>1 DEF Alone, OnceInv
<1>3. ~twice'
  <2>1. q.pc \in Asking => ~(twice \/ (~q.spoke /\ q.msg \in settled))
    BY DEF OnceInv
  <2> QED
    BY <2>1 DEF OnceInv
<1>4. w # Idle => w.msg = m /\ (w.pc \in Asking /\ ~w.spoke => m \notin settled')
  BY <1>1 DEF OnceInv
<1> QED
  <2>1. settled' = settled \/ settled' = settled \cup {m}
    BY <1>1
  <2> QED
    BY <1>2, <1>3, <1>4, <2>1, OnceMoves

LEMMA StoreOnce == ASSUME Base, OnceInv, NEW h \in Handlers, Stored(h), UNCHANGED twice PROVE OnceInv'
<1>1. PICK q \in Handling :
        /\ handler[h] = q /\ q.pc = "store"
        /\ \/ Goes(h, Idle) /\ UNCHANGED <<stored, settled>>
           \/ /\ q.msg \notin stored /\ stored' = stored \cup {q.msg}
              /\ \/ settled' = settled \cup {q.msg} /\ Goes(h, Idle)
                 \/ \E w \in Handling : /\ settled' = settled \cup {q.msg} /\ Goes(h, w)
                                        /\ w.pc = "touch" /\ Like(w, q)
                 \/ \E w, r \in Handling : /\ settled' = settled /\ Goes(h, w)
                                           /\ Like(r, q) /\ ~r.spoke
                                           /\ (w.pc = "photo" /\ w = r) \/ Sound(w, r)
  BY DEF Stored
<1>2. CASE Goes(h, Idle) /\ UNCHANGED <<stored, settled>>
  BY <1>2, OnceBefore
<1>3. CASE q.msg \notin stored
  <2>1. Alone(h, q.msg)
    BY <1>3 DEF Alone, Base, HandlersKept, HandlerKept
  <2>2. ~twice' /\ q.msg \notin settled
    BY <1>3 DEF OnceInv, Base, TypeOK
  <2>3. CASE settled' = settled \cup {q.msg} /\ Goes(h, Idle)
    BY <2>1, <2>2, <2>3, OnceMoves
  <2>4. ASSUME NEW w \in Handling, settled' = settled \cup {q.msg}, Goes(h, w), w.pc = "touch", Like(w, q)
        PROVE  OnceInv'
    <3>1. w.msg = q.msg /\ w.pc \notin Asking
      BY <2>4 DEF Like, Asking
    <3> QED
      BY <2>1, <2>2, <2>4, <3>1, OnceMoves
  <2>5. ASSUME NEW w \in Handling, NEW r \in Handling, settled' = settled, Goes(h, w), Like(r, q), ~r.spoke,
               (w.pc = "photo" /\ w = r) \/ Sound(w, r)
        PROVE  OnceInv'
    <3>1. w.msg = q.msg /\ q.msg \notin settled'
      BY <2>2, <2>5 DEF Like, Sound, Same
    <3> QED
      BY <2>1, <2>2, <2>5, <3>1, OnceMoves
  <2> QED
    BY <1>1, <1>2, <2>3, <2>4, <2>5
<1> QED
  BY <1>1, <1>2, <1>3

LEMMA PhotoOnce == ASSUME Base, OnceInv, NEW h \in Handlers, PhotoConfirmed(h) PROVE OnceInv'
<1>1. PICK q, r \in Handling :
        /\ handler[h] = q /\ q.pc = "photo" /\ Spoken(q, "photo") /\ Like(r, q) /\ r.spoke
        /\ Goes(h, Idle) \/ \E w \in Handling : Goes(h, w) /\ Sound(w, r)
  BY DEF PhotoConfirmed
<1>2. /\ settled' = settled \cup {q.msg} /\ q.pc \in Asking /\ q.pc \in After
      /\ twice' = (twice \/ (~q.spoke /\ q.msg \in settled))
  BY <1>1 DEF Spoken, Asking, After
<1>3. CASE Goes(h, Idle)
  BY <1>1, <1>2, <1>3, OncePast
<1>4. ASSUME NEW w \in Handling, Goes(h, w), Sound(w, r)
      PROVE  OnceInv'
  <2>1. w.msg = q.msg /\ w.spoke
    BY <1>1, <1>4 DEF Like, Sound, Same
  <2> QED
    BY <1>1, <1>2, <1>4, <2>1, OncePast
<1> QED
  BY <1>1, <1>3, <1>4

LEMMA GiveOnce == ASSUME Base, OnceInv, NEW h \in Handlers, AnswerGiven(h) PROVE OnceInv'
<1>1. PICK q, w \in Handling :
        handler[h] = q /\ q.pc = "reply" /\ Spoken(q, q.say) /\ Goes(h, w) /\ w.msg = q.msg /\ w.spoke
  BY DEF AnswerGiven
<1>2. /\ settled' = settled \cup {q.msg} /\ q.pc \in Asking /\ q.pc \in After
      /\ twice' = (twice \/ (~q.spoke /\ q.msg \in settled))
  BY <1>1 DEF Spoken, Asking, After
<1> QED
  BY <1>1, <1>2, OncePast

LEMMA OfferOnce == ASSUME Base, OnceInv, NEW h \in Handlers, Offered(h) PROVE OnceInv'
<1>1. PICK q, w \in Handling :
        /\ handler[h] = q /\ q.pc = "offer" /\ Goes(h, w) /\ w.msg = q.msg /\ w.spoke
        /\ Spoken(q, "noslots") \/ Spoken(q, "slots")
  BY DEF Offered
<1>2. /\ settled' = settled \cup {q.msg} /\ q.pc \in Asking /\ q.pc \in After
      /\ twice' = (twice \/ (~q.spoke /\ q.msg \in settled))
  BY <1>1 DEF Spoken, Asking, After
<1> QED
  BY <1>1, <1>2, OncePast

\* Steps that give no answer: the handler ends, or goes on with its message.
LEMMA OnceSilent ==
    ASSUME Base, OnceInv, NEW h \in Handlers, NEW q \in Handling, handler[h] = q, q.pc \in After,
           UNCHANGED twice, settled' = settled \/ settled' = settled \cup {q.msg},
           \/ Goes(h, Idle)
           \/ \E w \in Handling : /\ Goes(h, w) /\ w.msg = q.msg
                                  /\ \/ w.pc \notin Asking \/ w.spoke
                                     \/ settled' = settled /\ w.spoke = q.spoke /\ q.pc \in Asking
    PROVE  OnceInv'
<1>1. CASE Goes(h, Idle)
  BY <1>1, OncePast
<1>2. ASSUME NEW w \in Handling, Goes(h, w), w.msg = q.msg,
             \/ w.pc \notin Asking \/ w.spoke
             \/ settled' = settled /\ w.spoke = q.spoke /\ q.pc \in Asking
      PROVE  OnceInv'
  <2>1. w.spoke \/ w.pc \notin Asking \/ (settled' = settled /\ q.pc \in Asking /\ ~q.spoke)
    BY <1>2
  <2> QED
    BY <1>2, <2>1, OncePast
<1> QED
  BY <1>1, <1>2

LEMMA BrokenOnce ==
    ASSUME Base, OnceInv, NEW h \in Handlers, NEW q \in Handling, handler[h] = q, Goes(h, Idle), Broken(q),
           UNCHANGED twice
    PROVE  OnceInv'
<1>1. CASE q.pc \in {"create", "upsert", "store"}
  BY <1>1, OnceBefore DEF Broken
<1>2. CASE q.pc \notin {"create", "upsert", "store"}
  <2>1. q.pc \in After /\ settled' = settled \cup {q.msg}
    BY <1>2, HandlingFacts DEF Broken, After
  <2> QED
    BY <2>1, OnceSilent
<1> QED
  BY <1>1, <1>2

LEMMA AgendaOnce ==
    ASSUME Base, OnceInv, NEW h \in Handlers, Loaded(h) \/ Cancelled(h) \/ Booked(h) \/ Failed(h)
    PROVE  OnceInv'
<1>1. CASE Booked(h) \/ Failed(h)
  <2>1. PICK q, w \in Handling : /\ handler[h] = q /\ q.pc \in {"book", "reply"} /\ Goes(h, w) /\ Like(w, q)
                                 /\ w.spoke = q.spoke /\ UNCHANGED <<twice, settled>>
    BY <1>1 DEF Booked, Failed
  <2>2. w.msg = q.msg /\ q.pc \in Asking /\ q.pc \in After
    BY <2>1 DEF Like, Asking, After
  <2> QED
    BY <2>1, <2>2, OnceSilent
<1>2. CASE Loaded(h) \/ Cancelled(h)
  <2>1. PICK q \in Handling :
          /\ handler[h] = q /\ q.pc \in {"load", "cancel"} /\ UNCHANGED twice
          /\ \/ Goes(h, Idle) /\ Broken(q)
             \/ UNCHANGED settled /\ \E w \in Handling : Goes(h, w) /\ Like(w, q) /\ w.spoke = q.spoke
    BY <1>2 DEF Loaded, Cancelled
  <2>2. CASE Goes(h, Idle) /\ Broken(q)
    BY <2>1, <2>2, BrokenOnce
  <2>3. ASSUME NEW w \in Handling, UNCHANGED settled, Goes(h, w), Like(w, q), w.spoke = q.spoke
        PROVE  OnceInv'
    <3>1. w.msg = q.msg /\ q.pc \in Asking /\ q.pc \in After
      BY <2>1, <2>3 DEF Like, Asking, After
    <3> QED
      BY <2>1, <2>3, <3>1, OnceSilent
  <2> QED
    BY <2>1, <2>2, <2>3
<1> QED
  BY <1>1, <1>2

LEMMA PlainOnce ==
    ASSUME Base, OnceInv, NEW h \in Handlers, Created(h) \/ Upserted(h) \/ Touched(h) \/ Marked(h) \/ Saved(h)
    PROVE  OnceInv'
<1>1. CASE Created(h) \/ Upserted(h)
  <2>1. PICK w \in Handling \cup {Idle} : Goes(h, w) /\ (w # Idle => w.pc \in {"upsert", "store"}) /\ UNCHANGED <<twice, settled>>
    BY <1>1 DEF Created, Upserted
  <2>2. w # Idle => w.pc \notin After
    BY <2>1 DEF After
  <2> QED
    BY <2>1, <2>2, OnceBefore
<1>2. CASE Touched(h) \/ Saved(h)
  <2>1. PICK q \in Handling : handler[h] = q /\ q.pc \in After /\ Goes(h, Idle) /\ UNCHANGED <<twice, settled>>
    BY <1>2 DEF Touched, Saved, After
  <2> QED
    BY <2>1, OnceSilent
<1>3. CASE Marked(h)
  <2>1. PICK q, w \in Handling : handler[h] = q /\ q.pc \in After /\ Goes(h, w) /\ w.msg = q.msg /\ w.spoke /\ UNCHANGED <<twice, settled>>
    BY <1>3 DEF Marked, After
  <2> QED
    BY <2>1, OnceSilent
<1> QED
  BY <1>1, <1>2, <1>3

LEMMA StillOnce == ASSUME OnceInv, UNCHANGED <<handler, settled, twice>> PROVE OnceInv'
  BY DEF OnceInv
LEMMA OnceStep == ASSUME Base, OnceInv, [Next]_vars PROVE OnceInv'
<1>1. CASE Send \/ People \/ Scan \/ Tick \/ UNCHANGED vars
  BY <1>1, StillOnce DEF Send, People, ManualAnswer, ChangeAgenda, ReleaseNumber, Scan, Tick, vars
<1>2. ASSUME NEW h \in Handlers, Receive(h)
      PROVE  OnceInv'
  <2>1. UNCHANGED <<twice, settled>>
    BY <1>2 DEF Receive
  <2>2. CASE UNCHANGED handler
    BY <2>1, <2>2, StillOnce
  <2>3. ASSUME NEW w \in Handling, Goes(h, w), w.pc \in {"create", "upsert"}
        PROVE  OnceInv'
    BY <2>1, <2>3, OnceBefore DEF After
  <2> QED
    BY <1>2, <2>2, <2>3, ReceiveBase DEF Received
<1>3. ASSUME NEW h \in Handlers, StoreMessage(h)
      PROVE  OnceInv'
  BY <1>3, StoreBase, StoreOnce DEF StoreMessage
<1>4. ASSUME NEW h \in Handlers, HandlerDies(h)
      PROVE  OnceInv'
  BY <1>4, DiesBase, BrokenOnce DEF Died
<1>5. ASSUME NEW h \in Handlers, Step(h) \/ BookingFails(h), ~StoreMessage(h)
      PROVE  OnceInv'
  BY <1>5, CreateBase, UpsertBase, TouchBase, PhotoBase, GiveBase, MarkBase, SaveBase, OfferBase, LoadBase,
     BookBase, CancelBase, FailsBase, PhotoOnce, GiveOnce, OfferOnce, AgendaOnce, PlainOnce DEF Step
<1> QED
  BY <1>1, <1>2, <1>3, <1>4, <1>5 DEF Next

\* However often the provider delivers a message, and however many requests
\* handle it at a time, the client gets one answer to it: the insert of the
\* message is what decides (handleIncoming, providerMessageId is unique).
THEOREM AMessageIsAnsweredOnce == Spec => []EachAnsweredOnce
<1>1. Init => OnceInv
  BY HandlingFacts DEF Init, OnceInv
<1>2. OnceInv => EachAnsweredOnce
  BY DEF OnceInv, EachAnsweredOnce
<1>3. Base /\ OnceInv /\ [Next]_vars => Base' /\ OnceInv'
  BY BaseStep, OnceStep
<1> QED
  BY <1>1, <1>2, <1>3, BaseInit, PTL DEF Spec
-----------------------------------------------------------------------------
(* Silence means that a person has been called *)

Called == accident["moved"] \/ conv.needsHuman

\* What a handler at q knows about who is called.
SilenceHandler(q) ==
    /\ ~q.owner \/ (client = Absent /\ q.pc # "create") => accident["moved"]
    /\ q.pc \notin {"create", "upsert"} /\ Human(q.read) => conv.needsHuman
    /\ q.pc = "save" /\ Human(q.next) => conv.needsHuman
    /\ q.pc = "reply" /\ Human(q.next) => q.mark \/ conv.needsHuman
    /\ q.pc = "touch" => q.msg \in settled
    /\ q.pc \in After /\ q.spoke => q.msg \in settled
    /\ q.pc = "save" /\ ~q.spoke => Called

SilenceRows ==
    /\ client = "other" => accident["moved"]
    /\ client = Absent /\ conv # Absent => accident["moved"]
    /\ conv # Absent /\ Human(conv.state) => conv.needsHuman

SilenceHandlers == \A g \in Handlers, q \in Handling : handler[g] = q => SilenceHandler(q)

\* A handler past the insert of message m is still at work.
Past(m) == \E g \in Handlers, q \in Handling : handler[g] = q /\ q.pc \in After /\ q.msg = m

SilenceInv == SilenceRows /\ SilenceHandlers /\ \A m \in stored \ settled : Past(m) \/ Called

\* Whoever is called stays called, and what is settled stays settled.
Steady ==
    /\ (accident["moved"] => accident'["moved"]) /\ settled \subseteq settled'
    /\ conv # Absent => conv' # Absent /\ (conv.needsHuman => conv'.needsHuman)
    /\ client' = Absent => client = Absent \/ accident'["moved"]

LEMMA SilenceOn ==
    ASSUME Base, Steady, NEW q \in Handling, HandlerKept(q), SilenceHandler(q)
    PROVE  SilenceHandler(q)'
<1>1. q.pc \notin {"create", "upsert"} => conv # Absent
  BY DEF HandlerKept
<1> QED
  BY <1>1 DEF SilenceHandler, Steady, Called

LEMMA SilenceMoves ==
    ASSUME Base, SilenceInv, Steady, SilenceRows',
           NEW h \in Handlers, NEW w \in Handling \cup {Idle}, Goes(h, w),
           w # Idle => SilenceHandler(w)',
           \A m \in stored' \ settled' :
              \/ w # Idle /\ w.pc \in After /\ w.msg = m
              \/ Called'
              \/ m \in stored /\ ~(handler[h] # Idle /\ handler[h].pc \in After /\ handler[h].msg = m)
    PROVE  SilenceInv'
<1>1. /\ handler'[h] = w /\ Idle \notin Handling
      /\ \A g \in Handlers \ {h} : handler'[g] = handler[g]
  BY Move, HandlingFacts DEF Base
<1>2. ASSUME NEW g \in Handlers, NEW q \in Handling, handler'[g] = q
      PROVE  SilenceHandler(q)'
  <2>1. CASE g = h
    BY <1>1, <1>2, <2>1
  <2>2. CASE g # h
    <3>1. SilenceHandler(q) /\ HandlerKept(q)
      BY <1>1, <1>2, <2>2 DEF Base, HandlersKept, SilenceInv, SilenceHandlers
    <3> QED
      BY <3>1, SilenceOn
  <2> QED
    BY <2>1, <2>2
<1>3. ASSUME NEW m \in stored' \ settled'
      PROVE  Past(m)' \/ Called'
  <2>1. CASE w # Idle /\ w.pc \in After /\ w.msg = m
    BY <1>1, <2>1 DEF Past
  <2>2. CASE m \in stored /\ ~(handler[h] # Idle /\ handler[h].pc \in After /\ handler[h].msg = m)
    <3>1. m \in stored \ settled /\ conv # Absent
      BY <1>3, <2>2 DEF Steady, Base, RowsKept
    <3>2. CASE Called
      BY <3>1, <3>2 DEF Called, Steady
    <3>3. CASE Past(m)
      <4>1. PICK g \in Handlers, q \in Handling : handler[g] = q /\ q.pc \in After /\ q.msg = m
        BY <3>3 DEF Past
      <4>2. g # h
        BY <1>1, <2>2, <4>1
      <4> QED
        BY <1>1, <4>1, <4>2 DEF Past
    <3> QED
      BY <3>1, <3>2, <3>3 DEF SilenceInv
  <2> QED
    BY <1>3, <2>1, <2>2
<1> QED
  BY <1>2, <1>3 DEF SilenceInv, SilenceHandlers

LEMMA StillSilence ==
    ASSUME Base, SilenceInv, Steady, SilenceRows', UNCHANGED <<handler, stored>>
    PROVE  SilenceInv'
<1>1. SilenceHandlers'
  BY SilenceOn DEF Base, HandlersKept, SilenceInv, SilenceHandlers
<1>2. ASSUME NEW m \in stored' \ settled' PROVE Past(m)' \/ Called'
  <2>1. m \in stored \ settled /\ conv # Absent
    BY <1>2 DEF Steady, Base, RowsKept
  <2>2. Past(m) \/ Called
    BY <2>1 DEF SilenceInv
  <2> QED
    BY <2>1, <2>2 DEF Past, Called, Steady
<1> QED
  BY <1>1, <1>2 DEF SilenceInv

\* What a message leads to: the handlers go on knowing who is called.
LEMMA SoundSilence ==
    ASSUME Base', NEW r \in Handling, NEW w \in Handling, Sound(w, r),
           ~r.owner \/ client' = Absent => accident'["moved"],
           Human(r.read) => conv'.needsHuman,
           r.spoke => r.msg \in settled'
    PROVE  SilenceHandler(w)'
<1>1. /\ w.pc \in {"reply", "save", "offer", "book", "load", "cancel"} /\ Same(w, r)
      /\ w.pc # "save" => w.read = r.read
      /\ w.pc = "save" => w.next = r.read /\ (~r.owner \/ Human(r.read))
  BY DEF Sound
<1>2. w.pc = "reply" /\ Human(w.next) => w.mark \/ conv'.needsHuman
  BY DEF Sound
<1>3. w.pc = "save" => ~Human(w.read) \/ conv'.needsHuman
  BY DEF Sound, Human
<1> QED
  BY <1>1, <1>2, <1>3 DEF SilenceHandler, Same, Called
LEMMA CreatedSilence == ASSUME Base, Base', SilenceInv, NEW h \in Handlers, Created(h) PROVE SilenceInv'
<1>1. PICK q \in Handling :
        /\ handler[h] = q /\ q.pc = "create"
        /\ \/ client # Absent /\ client' = client /\ Goes(h, Idle)
           \/ \E w \in Handling :
                /\ client = Absent /\ client' = IF conv = Absent THEN "owner" ELSE "other"
                /\ Goes(h, w) /\ w.pc = "upsert" /\ w.msg = q.msg /\ w.owner = (client' = "owner")
        /\ UNCHANGED <<conv, stored, settled, accident>>
  BY DEF Created
<1>2. q.pc \notin After /\ "owner" # Absent /\ "other" # Absent
  BY <1>1, SentinelAssumption DEF After
<1>3. CASE client # Absent /\ client' = client /\ Goes(h, Idle)
  <2>1. Steady /\ SilenceRows'
    BY <1>1, <1>3 DEF Steady, SilenceInv, SilenceRows
  <2>2. \A m \in stored' \ settled' :
          m \in stored /\ ~(handler[h] # Idle /\ handler[h].pc \in After /\ handler[h].msg = m)
    BY <1>1, <1>2
  <2> QED
    BY <1>3, <2>1, <2>2, SilenceMoves
<1>4. ASSUME NEW w \in Handling, client = Absent, client' = (IF conv = Absent THEN "owner" ELSE "other"),
             Goes(h, w), w.pc = "upsert", w.owner = (client' = "owner")
      PROVE  SilenceInv'
  <2>1. Steady /\ SilenceRows'
    BY <1>1, <1>2, <1>4 DEF Steady, SilenceInv, SilenceRows
  <2>2. \A m \in stored' \ settled' :
          m \in stored /\ ~(handler[h] # Idle /\ handler[h].pc \in After /\ handler[h].msg = m)
    BY <1>1, <1>2
  <2>3. SilenceHandler(w)'
    BY <1>1, <1>2, <1>4 DEF SilenceHandler, SilenceInv, SilenceRows, After
  <2> QED
    BY <1>4, <2>1, <2>2, <2>3, SilenceMoves
<1> QED
  BY <1>1, <1>3, <1>4

LEMMA UpsertedSilence == ASSUME Base, Base', SilenceInv, NEW h \in Handlers, Upserted(h) PROVE SilenceInv'
<1>1. PICK q, w \in Handling :
        /\ handler[h] = q /\ q.pc = "upsert"
        /\ Goes(h, w) /\ w.pc = "store" /\ w.msg = q.msg /\ w.spoke = q.spoke /\ w.owner = q.owner
        /\ conv' \in Conv /\ w.read = conv'.state
        /\ \/ conv = Absent /\ conv'.state = None
           \/ conv \in Conv /\ conv'.state = conv.state /\ conv'.needsHuman = conv.needsHuman
        /\ UNCHANGED <<client, stored, settled, accident>>
  BY DEF Upserted
<1>2. SilenceHandler(q) /\ q.pc \notin After /\ conv' # Absent
  BY <1>1, ConvFacts DEF SilenceInv, SilenceHandlers, After
<1>3. Steady
  BY <1>1, <1>2, ConvFacts DEF Steady
<1>4. Human(conv'.state) => conv'.needsHuman
  BY <1>1, ConvFacts DEF Human, SilenceInv, SilenceRows
<1>5. client' = Absent => accident'["moved"]
  BY <1>1, <1>2 DEF SilenceHandler
<1>6. SilenceRows'
  BY <1>1, <1>4, <1>5 DEF SilenceInv, SilenceRows
<1>7. \A m \in stored' \ settled' :
        m \in stored /\ ~(handler[h] # Idle /\ handler[h].pc \in After /\ handler[h].msg = m)
  BY <1>1, <1>2
<1>8. SilenceHandler(w)'
  BY <1>1, <1>2, <1>4, <1>5 DEF SilenceHandler, After
<1> QED
  BY <1>1, <1>3, <1>6, <1>7, <1>8, SilenceMoves

LEMMA ReceivedSilence ==
    ASSUME Base, Base', SilenceInv, NEW h \in Handlers, Received(h),
           UNCHANGED <<client, conv, stored, settled>>
    PROVE  SilenceInv'
<1>1. CASE UNCHANGED <<handler, accident>>
  BY <1>1, StillSilence DEF Steady, SilenceInv, SilenceRows
<1>2. ASSUME NEW w \in Handling, handler[h] = Idle, Goes(h, w), w.pc = (IF client = Absent THEN "create" ELSE "upsert"),
             ~w.spoke, w.owner = (client # "other"), accident'["moved"] = accident["moved"]
      PROVE  SilenceInv'
  <2>1. Steady /\ SilenceRows'
    BY <1>2 DEF Steady, SilenceInv, SilenceRows
  <2>2. \A m \in stored' \ settled' :
          m \in stored /\ ~(handler[h] # Idle /\ handler[h].pc \in After /\ handler[h].msg = m)
    BY <1>2
  <2>3. SilenceHandler(w)'
    BY <1>2 DEF SilenceHandler, SilenceInv, SilenceRows, After
  <2> QED
    BY <1>2, <2>1, <2>2, <2>3, SilenceMoves
<1> QED
  BY <1>1, <1>2 DEF Received

LEMMA StoredSilence == ASSUME Base, Base', SilenceInv, NEW h \in Handlers, Stored(h) PROVE SilenceInv'
<1>1. PICK q \in Handling :
        /\ handler[h] = q /\ q.pc = "store"
        /\ \/ Goes(h, Idle) /\ UNCHANGED <<stored, settled>>
           \/ /\ q.msg \notin stored /\ stored' = stored \cup {q.msg}
              /\ \/ settled' = settled \cup {q.msg} /\ Goes(h, Idle)
                 \/ \E w \in Handling : /\ settled' = settled \cup {q.msg} /\ Goes(h, w)
                                        /\ w.pc = "touch" /\ Like(w, q)
                 \/ \E w, r \in Handling : /\ settled' = settled /\ Goes(h, w)
                                           /\ Like(r, q) /\ ~r.spoke
                                           /\ (w.pc = "photo" /\ w = r) \/ Sound(w, r)
        /\ accident'["moved"] = accident["moved"]
        /\ UNCHANGED <<client, conv>>
  BY DEF Stored, Accidents
<1>2. SilenceHandler(q) /\ q.pc \notin After
  BY <1>1 DEF SilenceInv, SilenceHandlers, After
<1>3. SilenceRows'
  BY <1>1 DEF SilenceInv, SilenceRows
<1>4. settled \subseteq settled' => Steady
  BY <1>1 DEF Steady
<1> DEFINE Even == UNCHANGED <<stored, settled>> \/ (settled' = settled \cup {q.msg} /\ stored' = stored \cup {q.msg})
<1>5. Even => /\ Steady
              /\ \A m \in stored' \ settled' :
                   m \in stored /\ ~(handler[h] # Idle /\ handler[h].pc \in After /\ handler[h].msg = m)
  BY <1>1, <1>2, <1>4
<1>6. CASE Even /\ Goes(h, Idle)
  BY <1>3, <1>5, <1>6, SilenceMoves
<1>7. ASSUME NEW w \in Handling, Even, Goes(h, w), settled' = settled \cup {q.msg}, w.pc = "touch", Like(w, q)
      PROVE  SilenceInv'
  <2>1. SilenceHandler(w)'
    BY <1>1, <1>2, <1>7 DEF SilenceHandler, Like
  <2> QED
    BY <1>3, <1>5, <1>7, <2>1, SilenceMoves
<1>8. ASSUME NEW w \in Handling, NEW r \in Handling, settled' = settled, Goes(h, w), stored' = stored \cup {q.msg},
             Like(r, q), ~r.spoke, (w.pc = "photo" /\ w = r) \/ Sound(w, r)
      PROVE  SilenceInv'
  <2>1. w.msg = q.msg /\ w.pc \in After
    BY <1>8 DEF Like, Sound, Same, After
  <2>2. \A m \in stored' \ settled' :
           \/ w # Idle /\ w.pc \in After /\ w.msg = m
           \/ Called'
           \/ m \in stored /\ ~(handler[h] # Idle /\ handler[h].pc \in After /\ handler[h].msg = m)
    BY <1>1, <1>2, <1>8, <2>1, HandlingFacts
  <2>3. /\ ~r.owner \/ client' = Absent => accident'["moved"]
        /\ Human(r.read) => conv'.needsHuman
    BY <1>1, <1>2, <1>8 DEF SilenceHandler, Like
  <2>4. SilenceHandler(w)'
    <3>1. CASE w.pc = "photo" /\ w = r
      BY <1>8, <2>3, <3>1 DEF SilenceHandler, Called
    <3>2. CASE Sound(w, r)
      BY <1>8, <2>3, <3>2, SoundSilence
    <3> QED
      BY <1>8, <3>1, <3>2
  <2> QED
    <3>1. Steady
      BY <1>4, <1>8
    <3> QED
      BY <1>3, <1>8, <2>2, <2>4, <3>1, SilenceMoves
<1> QED
  BY <1>1, <1>6, <1>7, <1>8
\* A handler past the insert goes on with its message, or ends.
LEMMA SilencePast ==
    ASSUME Base, SilenceInv, Steady, SilenceRows', UNCHANGED stored,
           NEW h \in Handlers, NEW q \in Handling, handler[h] = q,
           NEW w \in Handling \cup {Idle}, Goes(h, w), w # Idle => SilenceHandler(w)',
           \/ q.pc \notin After \/ q.msg \in settled' \/ Called'
           \/ w # Idle /\ w.pc \in After /\ w.msg = q.msg
    PROVE  SilenceInv'
<1>1. ASSUME NEW m \in stored' \ settled'
      PROVE  \/ w # Idle /\ w.pc \in After /\ w.msg = m
             \/ Called'
             \/ m \in stored /\ ~(handler[h] # Idle /\ handler[h].pc \in After /\ handler[h].msg = m)
  <2>1. m \in stored
    BY <1>1
  <2>2. CASE m # q.msg
    BY <2>1, <2>2
  <2>3. CASE m = q.msg
    BY <1>1, <2>1, <2>3
  <2> QED
    BY <2>2, <2>3
<1> QED
  BY <1>1, SilenceMoves

\* The row of a conversation a handler works on, and the handler.
LEMMA SilenceKnows ==
    ASSUME Base, SilenceInv, NEW h \in Handlers, NEW q \in Handling, handler[h] = q, q.pc \in After
    PROVE  /\ conv \in Conv /\ conv # Absent /\ SilenceHandler(q)
           /\ client = Absent => accident["moved"]
           /\ Human(conv.state) => conv.needsHuman
<1>1. conv # Absent /\ conv \in Conv /\ SilenceHandler(q)
  BY DEF Base, TypeOK, HandlersKept, HandlerKept, SilenceInv, SilenceHandlers, After
<1> QED
  BY <1>1 DEF SilenceInv, SilenceRows

\* The rows, when a step writes conv, and calls no one away.
LEMMA SilenceConv ==
    ASSUME SilenceInv, conv # Absent, conv' \in Conv, conv.needsHuman => conv'.needsHuman,
           Human(conv'.state) => conv'.needsHuman, UNCHANGED client,
           accident["moved"] => accident'["moved"], settled \subseteq settled'
    PROVE  Steady /\ SilenceRows'
  BY ConvFacts DEF Steady, SilenceInv, SilenceRows

LEMMA SpokenSilence ==
    ASSUME Base, SilenceInv, NEW h \in Handlers, NEW q \in Handling, handler[h] = q, q.pc \in After,
           NEW say, Spoken(q, say), UNCHANGED <<client, accident>>
    PROVE  /\ Steady /\ SilenceRows' /\ SilenceHandler(q) /\ q.msg \in settled'
           /\ conv'.needsHuman = conv.needsHuman
           /\ client = Absent => accident["moved"]
<1>1. /\ conv \in Conv /\ conv # Absent /\ SilenceHandler(q)
      /\ client = Absent => accident["moved"]
      /\ Human(conv.state) => conv.needsHuman
  BY SilenceKnows
<1>2. /\ conv' \in Conv /\ conv'.state = conv.state /\ conv'.needsHuman = conv.needsHuman
      /\ settled' = settled \cup {q.msg}
  BY DEF Spoken
<1> QED
  BY <1>1, <1>2, SilenceConv

LEMMA PhotoSilence == ASSUME Base, Base', SilenceInv, NEW h \in Handlers, PhotoConfirmed(h) PROVE SilenceInv'
<1>1. PICK q, r \in Handling :
        /\ handler[h] = q /\ q.pc = "photo" /\ Spoken(q, "photo") /\ Like(r, q) /\ r.spoke
        /\ Goes(h, Idle) \/ \E w \in Handling : Goes(h, w) /\ Sound(w, r)
        /\ UNCHANGED <<client, stored, accident>>
  BY DEF PhotoConfirmed
<1>2. /\ Steady /\ SilenceRows' /\ SilenceHandler(q) /\ q.msg \in settled'
      /\ conv'.needsHuman = conv.needsHuman
      /\ client = Absent => accident["moved"]
  BY <1>1, SpokenSilence DEF After
<1>3. CASE Goes(h, Idle)
  BY <1>1, <1>2, <1>3, SilencePast
<1>4. ASSUME NEW w \in Handling, Goes(h, w), Sound(w, r)
      PROVE  SilenceInv'
  <2>1. /\ ~r.owner \/ client' = Absent => accident'["moved"]
        /\ Human(r.read) => conv'.needsHuman
        /\ r.spoke => r.msg \in settled'
    BY <1>1, <1>2 DEF Like, SilenceHandler
  <2>2. SilenceHandler(w)'
    BY <1>4, <2>1, SoundSilence
  <2> QED
    BY <1>1, <1>2, <1>4, <2>2, SilencePast
<1> QED
  BY <1>1, <1>3, <1>4

LEMMA GiveSilence == ASSUME Base, Base', SilenceInv, NEW h \in Handlers, AnswerGiven(h) PROVE SilenceInv'
<1>1. PICK q, w \in Handling :
        /\ handler[h] = q /\ q.pc = "reply" /\ Spoken(q, q.say)
        /\ Goes(h, w) /\ w.msg = q.msg /\ w.owner = q.owner /\ w.spoke
        /\ \/ q.say = "taken" /\ w.pc = "offer" /\ w.read = q.read
           \/ q.say # "taken" /\ q.mark /\ w.pc = "mark" /\ w.next = q.next /\ w.read = q.read
           \/ q.say # "taken" /\ ~q.mark /\ w.pc = "save" /\ w.next = q.next /\ w.read = None
        /\ UNCHANGED <<client, stored, accident>>
  BY DEF AnswerGiven
<1>2. /\ Steady /\ SilenceRows' /\ SilenceHandler(q) /\ q.msg \in settled'
      /\ conv'.needsHuman = conv.needsHuman
      /\ client = Absent => accident["moved"]
  BY <1>1, SpokenSilence DEF After
<1>3. w.pc = "save" => ~Human(w.read)
  BY <1>1 DEF Human
<1>4. SilenceHandler(w)'
  BY <1>1, <1>2, <1>3 DEF SilenceHandler, Called
<1> QED
  BY <1>1, <1>2, <1>4, SilencePast
LEMMA OfferSilence == ASSUME Base, Base', SilenceInv, NEW h \in Handlers, Offered(h) PROVE SilenceInv'
<1>1. PICK q, w \in Handling :
        /\ handler[h] = q /\ q.pc = "offer" /\ Goes(h, w) /\ w.msg = q.msg /\ w.owner = q.owner /\ w.spoke
        /\ \/ Spoken(q, "noslots") /\ w.pc = "mark" /\ w.read = q.read /\ w.next.step \in StandsAfter("noslots")
           \/ Spoken(q, "slots") /\ w.pc = "save" /\ w.read = None /\ w.next.step \in StandsAfter("slots")
        /\ UNCHANGED <<client, stored, accident>>
  BY DEF Offered
<1>2. /\ Steady /\ SilenceRows' /\ SilenceHandler(q) /\ q.msg \in settled'
      /\ conv'.needsHuman = conv.needsHuman
      /\ client = Absent => accident["moved"]
  BY <1>1, SpokenSilence DEF After
<1>3. w.pc = "save" => ~Human(w.read) /\ ~Human(w.next)
  BY <1>1 DEF Human, StandsAfter, StepsAfter
<1>4. SilenceHandler(w)'
  BY <1>1, <1>2, <1>3 DEF SilenceHandler, Called
<1> QED
  BY <1>1, <1>2, <1>4, SilencePast

LEMMA MarkSilence == ASSUME Base, Base', SilenceInv, NEW h \in Handlers, Marked(h) PROVE SilenceInv'
<1>1. PICK q, w \in Handling :
        /\ handler[h] = q /\ q.pc = "mark" /\ q.spoke
        /\ Goes(h, w) /\ w.pc = "save" /\ w.msg = q.msg /\ w.owner = q.owner /\ w.spoke
        /\ conv' \in Conv /\ conv'.state = conv.state /\ conv'.needsHuman
        /\ UNCHANGED <<client, stored, settled, accident>>
  BY DEF Marked
<1>2. /\ conv \in Conv /\ conv # Absent /\ SilenceHandler(q)
      /\ client = Absent => accident["moved"]
  BY <1>1, SilenceKnows DEF After
<1>3. Steady /\ SilenceRows'
  BY <1>1, <1>2, SilenceConv
<1>4. q.msg \in settled
  BY <1>1, <1>2 DEF SilenceHandler, After
<1>5. SilenceHandler(w)'
  BY <1>1, <1>2, <1>4 DEF SilenceHandler, Called
<1> QED
  BY <1>1, <1>3, <1>4, <1>5, SilencePast

LEMMA SaveSilence == ASSUME Base, Base', SilenceInv, NEW h \in Handlers, Saved(h) PROVE SilenceInv'
<1>1. PICK q \in Handling :
        /\ handler[h] = q /\ q.pc = "save" /\ Goes(h, Idle)
        /\ conv' \in Conv /\ conv'.state = q.next /\ conv'.needsHuman = conv.needsHuman
        /\ UNCHANGED <<client, stored, settled, accident>>
  BY DEF Saved
<1>2. conv # Absent /\ SilenceHandler(q)
  BY <1>1, SilenceKnows DEF After
<1>3. Human(conv'.state) => conv'.needsHuman
  BY <1>1, <1>2 DEF SilenceHandler
<1>4. Steady /\ SilenceRows'
  BY <1>1, <1>2, <1>3, SilenceConv
<1>5. q.msg \in settled' \/ Called'
  BY <1>1, <1>2 DEF SilenceHandler, Called, After
<1> QED
  BY <1>1, <1>4, <1>5, SilencePast

LEMMA TouchSilence == ASSUME Base, Base', SilenceInv, NEW h \in Handlers, Touched(h) PROVE SilenceInv'
<1>1. PICK q \in Handling :
        /\ handler[h] = q /\ q.pc = "touch" /\ q.read # None /\ Goes(h, Idle)
        /\ conv' \in Conv /\ conv'.state # None /\ conv'.state.step = q.read.step
        /\ conv'.needsHuman = conv.needsHuman
        /\ UNCHANGED <<client, stored, settled, accident>>
  BY DEF Touched
<1>2. conv # Absent /\ SilenceHandler(q)
  BY <1>1, SilenceKnows DEF After
<1>3. Human(conv'.state) => conv'.needsHuman
  BY <1>1, <1>2 DEF SilenceHandler, Human
<1>4. Steady /\ SilenceRows'
  BY <1>1, <1>2, <1>3, SilenceConv
<1>5. q.msg \in settled'
  BY <1>1, <1>2 DEF SilenceHandler
<1> QED
  BY <1>1, <1>4, <1>5, SilencePast

LEMMA BrokenSilence ==
    ASSUME Base, Base', SilenceInv, NEW h \in Handlers, NEW q \in Handling, handler[h] = q, Goes(h, Idle),
           Broken(q), UNCHANGED <<client, conv, stored>>
    PROVE  SilenceInv'
<1>1. accident'["moved"] = accident["moved"] /\ settled \subseteq settled'
  BY DEF Broken, Accidents
<1>2. Steady /\ SilenceRows'
  BY <1>1 DEF Steady, SilenceInv, SilenceRows
<1>3. q.pc \notin After \/ q.msg \in settled'
  BY DEF Broken, After
<1> QED
  BY <1>2, <1>3, SilencePast

\* A step of the agenda: what is said next calls no one, and was not said before.
LEMMA AgendaSilence ==
    ASSUME Base, Base', SilenceInv, NEW h \in Handlers, NEW q \in Handling, handler[h] = q, q.pc \in After \ {"touch"},
           UNCHANGED <<client, conv, stored, settled>>, accident'["moved"] = accident["moved"],
           NEW w \in Handling, Goes(h, w), Like(w, q), w.spoke = q.spoke,
           w.pc = "offer" \/ (w.pc = "reply" /\ ~Human(w.next))
    PROVE  SilenceInv'
<1>1. SilenceHandler(q) /\ (client = Absent => accident["moved"])
  BY SilenceKnows
<1>2. Steady /\ SilenceRows'
  BY DEF Steady, SilenceInv, SilenceRows
<1>3. w.msg = q.msg /\ w.pc \in After /\ w # Idle
  BY HandlingFacts DEF Like, After
<1>4. q.spoke => q.msg \in settled
  BY <1>1 DEF SilenceHandler
<1>5. Human(q.read) => conv.needsHuman
  BY <1>1 DEF SilenceHandler, After
<1>6. SilenceHandler(w)'
  BY <1>1, <1>3, <1>4, <1>5 DEF SilenceHandler, Like, Called
<1> QED
  BY <1>2, <1>3, <1>6, SilencePast

LEMMA BookSilence ==
    ASSUME Base, Base', SilenceInv, NEW h \in Handlers, Booked(h) \/ Failed(h) \/ Loaded(h) \/ Cancelled(h)
    PROVE  SilenceInv'
<1>1. CASE Booked(h) \/ Failed(h)
  <2>1. PICK q, w \in Handling :
          /\ handler[h] = q /\ q.pc \in {"book", "reply"} /\ Goes(h, w) /\ Like(w, q) /\ w.spoke = q.spoke
          /\ w.pc = "reply" /\ (w.next = None \/ w.next.step = "MENU")
          /\ UNCHANGED <<client, conv, stored, settled>> /\ accident'["moved"] = accident["moved"]
    BY <1>1 DEF Booked, Failed, Accidents
  <2>2. q.pc \in After \ {"touch"} /\ ~Human(w.next)
    BY <2>1 DEF After, Human
  <2> QED
    BY <2>1, <2>2, AgendaSilence
<1>2. CASE Loaded(h) \/ Cancelled(h)
  <2>1. PICK q \in Handling :
          /\ handler[h] = q /\ q.pc \in {"load", "cancel"}
          /\ \/ Goes(h, Idle) /\ Broken(q)
             \/ /\ UNCHANGED <<settled, accident>>
                /\ \E w \in Handling : /\ Goes(h, w) /\ Like(w, q) /\ w.spoke = q.spoke
                                       /\ w.pc = "offer" \/ (w.pc = "reply" /\ w.next.step = "MENU")
          /\ UNCHANGED <<client, conv, stored>>
    BY <1>2 DEF Loaded, Cancelled
  <2>2. CASE Goes(h, Idle) /\ Broken(q)
    BY <2>1, <2>2, BrokenSilence
  <2>3. ASSUME NEW w \in Handling, UNCHANGED <<settled, accident>>, Goes(h, w), Like(w, q), w.spoke = q.spoke,
               w.pc = "offer" \/ (w.pc = "reply" /\ w.next.step = "MENU")
        PROVE  SilenceInv'
    <3>1. q.pc \in After \ {"touch"} /\ (w.pc = "reply" => ~Human(w.next))
      BY <2>1, <2>3 DEF After, Human
    <3>2. w.pc = "offer" \/ (w.pc = "reply" /\ ~Human(w.next))
      BY <2>3, <3>1
    <3> QED
      BY <2>1, <2>3, <3>1, <3>2, AgendaSilence
  <2> QED
    BY <2>1, <2>2, <2>3
<1> QED
  BY <1>1, <1>2

LEMMA SilenceStep == ASSUME Base, SilenceInv, [Next]_vars PROVE SilenceInv'
<1>0. Base'
  BY BaseStep
<1>1. CASE Send \/ ChangeAgenda \/ ReleaseNumber \/ Scan \/ Tick \/ UNCHANGED vars
  <2>1. accident["moved"] => accident'["moved"]
    BY <1>1 DEF Send, ChangeAgenda, ReleaseNumber, Scan, Tick, vars, Base, TypeOK, Accidents
  <2>2. client # client' => client = "owner" /\ client' = Absent /\ accident'["moved"]
    BY <1>1 DEF Send, ChangeAgenda, ReleaseNumber, Scan, Tick, vars, Base, TypeOK, Accidents
  <2>3. UNCHANGED <<conv, settled, handler, stored>>
    BY <1>1 DEF Send, ChangeAgenda, ReleaseNumber, Scan, Tick, vars
  <2>4. Steady /\ SilenceRows'
    BY <2>1, <2>2, <2>3, SentinelAssumption DEF Steady, SilenceInv, SilenceRows
  <2> QED
    BY <2>3, <2>4, StillSilence
<1>2. CASE ManualAnswer
  <2>1. conv' \in Conv /\ conv'.state = conv.state /\ conv'.needsHuman = conv.needsHuman
    BY <1>2, ManualBase
  <2>2. conv # Absent /\ UNCHANGED <<client, settled, accident, handler, stored>>
    BY <1>2 DEF ManualAnswer
  <2>3. Steady /\ SilenceRows'
    BY <2>1, <2>2, SilenceConv DEF SilenceInv, SilenceRows
  <2> QED
    BY <2>2, <2>3, StillSilence
<1>3. ASSUME NEW h \in Handlers, Receive(h)
      PROVE  SilenceInv'
  BY <1>0, <1>3, ReceiveBase, ReceivedSilence DEF Receive
<1>4. ASSUME NEW h \in Handlers, HandlerDies(h)
      PROVE  SilenceInv'
  BY <1>0, <1>4, DiesBase, BrokenSilence DEF Died
<1>5. ASSUME NEW h \in Handlers, Step(h) \/ BookingFails(h)
      PROVE  SilenceInv'
  BY <1>0, <1>5, CreateBase, UpsertBase, StoreBase, TouchBase, PhotoBase, GiveBase, MarkBase, SaveBase, OfferBase,
     LoadBase, BookBase, CancelBase, FailsBase, CreatedSilence, UpsertedSilence, StoredSilence, TouchSilence,
     PhotoSilence, GiveSilence, MarkSilence, SaveSilence, OfferSilence, BookSilence DEF Step
<1> QED
  BY <1>1, <1>2, <1>3, <1>4, <1>5 DEF Next, People

\* The client meets silence only when a person has been called: every message
\* that is stored is being handled, or was answered, or the conversation needs a
\* human, or the number has changed hands (handoffToHuman, and the silence of
\* HUMAN_HANDOFF in routeStep).
THEOREM SilenceOnlyAfterACall == Spec => []SilenceMeansHandoff
<1>1. Init => SilenceInv
  <2> SUFFICES ASSUME Init PROVE SilenceInv
    OBVIOUS
  <2>1. SilenceRows
    <3>1. conv # Absent => \E s \in Left : conv = [state |-> s, needsHuman |-> FALSE, lastMessageAt |-> 0]
      BY DEF Init
    <3>2. conv # Absent => conv.state.step \in Booking \cup Moving \cup Cancelling
      BY <3>1 DEF Left
    <3>3. client # "other" /\ (client = Absent => conv = Absent)
      BY SentinelAssumption DEF Init
    <3> QED
      BY <3>2, <3>3 DEF SilenceRows, Human, Booking, Moving, Cancelling
  <2> QED
    BY <2>1, HandlingFacts DEF Init, SilenceInv, SilenceHandlers
<1>2. Base /\ SilenceInv => SilenceMeansHandoff
  BY HandlingFacts DEF SilenceInv, SilenceMeansHandoff, Past, Called, At, Base
<1>3. Base /\ SilenceInv /\ [Next]_vars => Base' /\ SilenceInv'
  BY BaseStep, SilenceStep
<1> QED
  BY <1>1, <1>2, <1>3, BaseInit, PTL DEF Spec
-----------------------------------------------------------------------------
(* The client heard where the conversation stands *)

\* Going on from s is what the client was told last.
Agrees(s) == heard # None => s # None /\ s.step \in StandsAfter(heard)

Waiting == {"store", "touch", "photo", "reply", "offer", "load", "book", "cancel"}

HeardHandler(q) ==
    /\ q.pc \in {"create", "upsert"} /\ conv # Absent => Agrees(conv.state)
    /\ q.pc \in Waiting => q.read = conv.state /\ Agrees(conv.state)
    /\ q.pc = "reply" => q.say # "photo"
    /\ q.pc = "reply" /\ q.say \in Answers => q.next # None /\ q.next.step \in StandsAfter(q.say)
    /\ q.pc = "reply" /\ q.say = "invalid" => q.next = q.read
    /\ q.pc \in {"mark", "save"} => Agrees(q.next)
    /\ q.pc = "save" /\ ~q.spoke => Agrees(conv.state)

\* As long as no two handlers have been at work at the same time.
HeardInv ==
    ~accident["overlapped"] =>
        /\ heard # None => conv # Absent
        /\ \A g, h \in Handlers : handler[g] # Idle /\ handler[h] # Idle => g = h
        /\ Quiet /\ conv # Absent => Agrees(conv.state)
        /\ \A g \in Handlers, q \in Handling : handler[g] = q => HeardHandler(q)

LEMMA HeardKnows ==
    ASSUME Base, HeardInv, ~accident["overlapped"], NEW h \in Handlers, NEW q \in Handling, handler[h] = q
    PROVE  HeardHandler(q) /\ HandlerKept(q) /\ (heard # None => conv # Absent)
  BY DEF Base, HandlersKept, HeardInv

\* The one handler at work goes on, or ends.
LEMMA HeardMoves ==
    ASSUME Base, HeardInv, NEW h \in Handlers, NEW q \in Handling, handler[h] = q,
           NEW w \in Handling \cup {Idle}, Goes(h, w), accident'["overlapped"] = accident["overlapped"],
           ~accident["overlapped"] =>
              /\ heard' # None => conv' # Absent
              /\ w = Idle /\ conv' # Absent => Agrees(conv.state)'
              /\ w # Idle => HeardHandler(w)'
    PROVE  HeardInv'
<1> SUFFICES ASSUME ~accident["overlapped"]
             PROVE  /\ heard' # None => conv' # Absent
                    /\ \A f, g \in Handlers : handler'[f] # Idle /\ handler'[g] # Idle => f = g
                    /\ Quiet' /\ conv' # Absent => Agrees(conv.state)'
                    /\ \A g \in Handlers, p \in Handling : handler'[g] = p => HeardHandler(p)'
  BY DEF HeardInv
<1>1. /\ handler'[h] = w /\ Idle \notin Handling
      /\ \A g \in Handlers \ {h} : handler'[g] = handler[g] /\ handler[g] = Idle
  BY Move, HandlingFacts DEF Base, HeardInv
<1>2. \A f, g \in Handlers : handler'[f] # Idle /\ handler'[g] # Idle => f = g
  BY <1>1
<1>3. Quiet' => w = Idle
  BY <1>1 DEF Quiet
<1>4. \A g \in Handlers, p \in Handling : handler'[g] = p => HeardHandler(p)'
  BY <1>1
<1> QED
  BY <1>2, <1>3, <1>4

LEMMA StillHeard ==
    ASSUME Base, HeardInv, UNCHANGED <<handler, heard>>, accident'["overlapped"] = accident["overlapped"],
           UNCHANGED conv \/ (conv # Absent /\ conv' \in Conv /\ conv'.state = conv.state)
    PROVE  HeardInv'
<1>1. (conv # Absent <=> conv' # Absent) /\ (conv # Absent => conv'.state = conv.state)
  BY ConvFacts
<1>2. ASSUME NEW q \in Handling, HeardHandler(q), HandlerKept(q)
      PROVE  HeardHandler(q)'
  BY <1>1, <1>2 DEF HeardHandler, HandlerKept, Agrees, Waiting
<1>3. Quiet' = Quiet /\ (conv # Absent /\ Agrees(conv.state) => Agrees(conv.state)')
  BY <1>1 DEF Quiet, Agrees
<1>4. \A g \in Handlers, q \in Handling : handler[g] = q => HandlerKept(q)
  BY DEF Base, HandlersKept
<1> QED
  BY <1>1, <1>2, <1>3, <1>4 DEF HeardInv

\* What a message leads to agrees with the state that was read.
LEMMA SoundHeard ==
    ASSUME NEW r \in Handling, NEW w \in Handling, Sound(w, r),
           r.read = conv'.state, Agrees(conv.state)'
    PROVE  HeardHandler(w)'
<1>1. w.pc \in {"reply", "save", "offer", "book", "load", "cancel"}
  BY DEF Sound
<1>2. CASE w.pc = "save"
  BY <1>2 DEF Sound, HeardHandler, Agrees, Waiting
<1>3. CASE w.pc = "reply"
  BY <1>3 DEF Sound, HeardHandler, Waiting, Answers
<1>4. CASE w.pc \in {"offer", "book", "load", "cancel"}
  BY <1>4 DEF Sound, HeardHandler, Waiting
<1> QED
  BY <1>1, <1>2, <1>3, <1>4
LEMMA CreatedHeard == ASSUME Base, HeardInv, NEW h \in Handlers, Created(h) PROVE HeardInv'
<1>1. PICK q \in Handling, w \in Handling \cup {Idle} :
        /\ handler[h] = q /\ q.pc = "create" /\ Goes(h, w) /\ (w # Idle => w.pc = "upsert")
        /\ UNCHANGED <<conv, heard, accident>>
  BY DEF Created
<1>2. ~accident["overlapped"] =>
        /\ heard' # None => conv' # Absent
        /\ w = Idle /\ conv' # Absent => Agrees(conv.state)'
        /\ w # Idle => HeardHandler(w)'
  BY <1>1, HeardKnows DEF HeardHandler, Agrees, Waiting
<1> QED
  BY <1>1, <1>2, HeardMoves

LEMMA UpsertedHeard == ASSUME Base, HeardInv, NEW h \in Handlers, Upserted(h) PROVE HeardInv'
<1>1. PICK q, w \in Handling :
        /\ handler[h] = q /\ q.pc = "upsert" /\ Goes(h, w) /\ w.pc = "store"
        /\ conv' \in Conv /\ w.read = conv'.state
        /\ \/ conv = Absent /\ conv'.state = None
           \/ conv \in Conv /\ conv'.state = conv.state
        /\ UNCHANGED <<heard, accident>>
  BY DEF Upserted
<1>2. conv' # Absent /\ w # Idle
  BY <1>1, ConvFacts, HandlingFacts
<1>3. ASSUME ~accident["overlapped"]
      PROVE  HeardHandler(w)'
  <2>1. HeardHandler(q) /\ (heard # None => conv # Absent)
    BY <1>1, <1>3, HeardKnows
  <2>2. Agrees(conv.state)'
    BY <1>1, <2>1, ConvFacts DEF HeardHandler, Agrees
  <2> QED
    BY <1>1, <2>2 DEF HeardHandler, Waiting
<1> QED
  BY <1>1, <1>2, <1>3, HeardMoves

LEMMA ReceivedHeard ==
    ASSUME Base, HeardInv, NEW h \in Handlers, Received(h), UNCHANGED <<conv, heard>>
    PROVE  HeardInv'
<1>1. CASE UNCHANGED <<handler, accident>>
  BY <1>1, StillHeard
<1>2. ASSUME NEW w \in Handling, handler[h] = Idle, Goes(h, w),
             w.pc = (IF client = Absent THEN "create" ELSE "upsert"),
             accident'["overlapped"] = (accident["overlapped"] \/ \E g \in Handlers : handler[g] # Idle)
      PROVE  HeardInv'
  <2> SUFFICES ASSUME ~accident'["overlapped"]
               PROVE  /\ heard' # None => conv' # Absent
                      /\ \A f, g \in Handlers : handler'[f] # Idle /\ handler'[g] # Idle => f = g
                      /\ Quiet' /\ conv' # Absent => Agrees(conv.state)'
                      /\ \A g \in Handlers, p \in Handling : handler'[g] = p => HeardHandler(p)'
    BY DEF HeardInv
  <2>1. ~accident["overlapped"] /\ \A g \in Handlers : handler[g] = Idle
    BY <1>2
  <2>2. /\ handler'[h] = w /\ w # Idle /\ Idle \notin Handling
        /\ \A g \in Handlers \ {h} : handler'[g] = Idle
    BY <1>2, <2>1, Move, HandlingFacts DEF Base
  <2>3. (heard # None => conv # Absent) /\ (conv # Absent => Agrees(conv.state))
    BY <2>1 DEF HeardInv, Quiet
  <2>4. HeardHandler(w)'
    BY <1>2, <2>3 DEF HeardHandler, Agrees, Waiting
  <2>5. ~Quiet'
    BY <2>2 DEF Quiet
  <2> QED
    BY <2>2, <2>3, <2>4, <2>5
<1> QED
  BY <1>1, <1>2 DEF Received

LEMMA StoredHeard == ASSUME Base, HeardInv, NEW h \in Handlers, Stored(h) PROVE HeardInv'
<1>1. PICK q \in Handling :
        /\ handler[h] = q /\ q.pc = "store"
        /\ \/ Goes(h, Idle)
           \/ \E w \in Handling : Goes(h, w) /\ w.pc = "touch" /\ Like(w, q)
           \/ \E w, r \in Handling : /\ Goes(h, w) /\ Like(r, q)
                                     /\ (w.pc = "photo" /\ w = r) \/ Sound(w, r)
        /\ accident'["overlapped"] = accident["overlapped"]
        /\ UNCHANGED <<conv, heard>>
  BY DEF Stored, Accidents
<1>2. ~accident["overlapped"] =>
        /\ heard' # None => conv' # Absent
        /\ q.read = conv'.state /\ Agrees(conv.state)'
  BY <1>1, HeardKnows DEF HeardHandler, Agrees, Waiting
<1>3. CASE Goes(h, Idle)
  BY <1>1, <1>2, <1>3, HeardMoves
<1>4. ASSUME NEW w \in Handling, Goes(h, w), w.pc \in {"touch", "photo"}, Like(w, q)
      PROVE  HeardInv'
  <2>1. ~accident["overlapped"] => HeardHandler(w)'
    BY <1>2, <1>4 DEF HeardHandler, Waiting, Like
  <2>2. w # Idle
    BY HandlingFacts
  <2> QED
    BY <1>1, <1>2, <1>4, <2>1, <2>2, HeardMoves
<1>5. ASSUME NEW w \in Handling, NEW r \in Handling, Goes(h, w), Like(r, q), Sound(w, r)
      PROVE  HeardInv'
  <2>1. ~accident["overlapped"] => HeardHandler(w)'
    BY <1>2, <1>5, SoundHeard DEF Like
  <2>2. w # Idle
    BY HandlingFacts
  <2> QED
    BY <1>1, <1>2, <1>5, <2>1, <2>2, HeardMoves
<1> QED
  BY <1>1, <1>3, <1>4, <1>5

LEMMA TouchedHeard == ASSUME Base, HeardInv, NEW h \in Handlers, Touched(h) PROVE HeardInv'
<1>1. PICK q \in Handling :
        /\ handler[h] = q /\ q.pc = "touch" /\ Goes(h, Idle)
        /\ conv' \in Conv /\ conv'.state # None /\ conv'.state.step = q.read.step
        /\ UNCHANGED <<heard, accident>>
  BY DEF Touched
<1>2. ~accident["overlapped"] => Agrees(conv.state)'
  BY <1>1, HeardKnows DEF HeardHandler, Agrees, Waiting
<1>3. conv' # Absent
  BY <1>1, ConvFacts
<1> QED
  BY <1>1, <1>2, <1>3, HeardMoves

LEMMA SavedHeard == ASSUME Base, HeardInv, NEW h \in Handlers, Saved(h) PROVE HeardInv'
<1>1. PICK q \in Handling :
        /\ handler[h] = q /\ q.pc = "save" /\ Goes(h, Idle) /\ conv' \in Conv /\ conv'.state = q.next
        /\ UNCHANGED <<heard, accident>>
  BY DEF Saved
<1>2. ~accident["overlapped"] => Agrees(conv.state)'
  BY <1>1, HeardKnows DEF HeardHandler, Agrees
<1>3. conv' # Absent
  BY <1>1, ConvFacts
<1> QED
  BY <1>1, <1>2, <1>3, HeardMoves

LEMMA MarkedHeard == ASSUME Base, HeardInv, NEW h \in Handlers, Marked(h) PROVE HeardInv'
<1>1. PICK q, w \in Handling :
        /\ handler[h] = q /\ q.pc = "mark" /\ Goes(h, w) /\ w.pc = "save" /\ w.next = q.next /\ w.spoke
        /\ conv' \in Conv /\ UNCHANGED <<heard, accident>>
  BY DEF Marked
<1>2. ~accident["overlapped"] => HeardHandler(w)'
  BY <1>1, HeardKnows DEF HeardHandler, Agrees, Waiting
<1>3. conv' # Absent /\ w # Idle
  BY <1>1, ConvFacts, HandlingFacts
<1> QED
  BY <1>1, <1>2, <1>3, HeardMoves

LEMMA PhotoHeard == ASSUME Base, HeardInv, NEW h \in Handlers, PhotoConfirmed(h) PROVE HeardInv'
<1>1. PICK q, r \in Handling :
        /\ handler[h] = q /\ q.pc = "photo" /\ Spoken(q, "photo") /\ Like(r, q)
        /\ Goes(h, Idle) \/ \E w \in Handling : Goes(h, w) /\ Sound(w, r)
        /\ UNCHANGED accident
  BY DEF PhotoConfirmed
<1>2. conv' \in Conv /\ conv' # Absent /\ conv'.state = conv.state /\ heard' = heard
  BY <1>1, ConvFacts DEF Spoken, Answers
<1>3. ~accident["overlapped"] => r.read = conv'.state /\ Agrees(conv.state)'
  BY <1>1, <1>2, HeardKnows DEF HeardHandler, Agrees, Waiting, Like
<1>4. CASE Goes(h, Idle)
  BY <1>1, <1>2, <1>3, <1>4, HeardMoves
<1>5. ASSUME NEW w \in Handling, Goes(h, w), Sound(w, r)
      PROVE  HeardInv'
  <2>1. ~accident["overlapped"] => HeardHandler(w)'
    BY <1>3, <1>5, SoundHeard
  <2>2. w # Idle
    BY HandlingFacts
  <2> QED
    BY <1>1, <1>2, <1>5, <2>1, <2>2, HeardMoves
<1> QED
  BY <1>1, <1>4, <1>5

LEMMA GivenHeard == ASSUME Base, HeardInv, NEW h \in Handlers, AnswerGiven(h) PROVE HeardInv'
<1>1. PICK q, w \in Handling :
        /\ handler[h] = q /\ q.pc = "reply" /\ Spoken(q, q.say) /\ Goes(h, w) /\ w.spoke
        /\ \/ q.say = "taken" /\ w.pc = "offer" /\ w.read = q.read
           \/ q.say # "taken" /\ w.pc \in {"mark", "save"} /\ w.next = q.next
        /\ UNCHANGED accident
  BY DEF AnswerGiven
<1>2. conv' \in Conv /\ conv' # Absent /\ conv'.state = conv.state /\ w # Idle
      /\ heard' = (IF q.say \in Answers THEN q.say ELSE heard)
  BY <1>1, ConvFacts, HandlingFacts DEF Spoken
<1>3. ASSUME ~accident["overlapped"]
      PROVE  HeardHandler(w)'
  <2>1. HeardHandler(q) /\ q.say \in Asides \cup Answers
    BY <1>1, <1>3, HeardKnows, HandlingFacts
  <2>2. CASE q.say \in Answers
    <3>1. w.pc \in {"mark", "save"} /\ heard' = q.say /\ q.next # None /\ q.next.step \in StandsAfter(q.say)
      BY <1>1, <1>2, <2>1, <2>2 DEF HeardHandler, Answers
    <3> QED
      BY <1>1, <3>1 DEF HeardHandler, Agrees, Waiting
  <2>3. CASE q.say \notin Answers
    <3>1. heard' = heard /\ q.say \in {"invalid", "taken"} /\ q.read = conv'.state /\ Agrees(conv.state)'
      BY <1>1, <1>2, <2>1, <2>3 DEF HeardHandler, Agrees, Waiting, Asides
    <3>2. CASE q.say = "taken"
      BY <1>1, <3>1, <3>2 DEF HeardHandler, Waiting
    <3>3. CASE q.say = "invalid"
      BY <1>1, <2>1, <3>1, <3>3 DEF HeardHandler, Agrees, Waiting
    <3> QED
      BY <3>1, <3>2, <3>3
  <2> QED
    BY <2>2, <2>3
<1> QED
  BY <1>1, <1>2, <1>3, HeardMoves

LEMMA OfferedHeard == ASSUME Base, HeardInv, NEW h \in Handlers, Offered(h) PROVE HeardInv'
<1>1. PICK q, w \in Handling, say \in {"noslots", "slots"} :
        /\ handler[h] = q /\ Goes(h, w) /\ w.spoke /\ w.next # None /\ Spoken(q, say)
        /\ w.pc \in {"mark", "save"} /\ w.next.step \in StandsAfter(say)
        /\ UNCHANGED accident
  BY DEF Offered
<1>2. conv' \in Conv /\ conv' # Absent /\ w # Idle /\ heard' = say
  BY <1>1, ConvFacts, HandlingFacts DEF Spoken, Answers
<1>3. HeardHandler(w)'
  BY <1>1, <1>2 DEF HeardHandler, Agrees, Waiting
<1> QED
  BY <1>1, <1>2, <1>3, HeardMoves

LEMMA AgendaHeard ==
    ASSUME Base, HeardInv, NEW h \in Handlers, Loaded(h) \/ Cancelled(h) \/ Booked(h) \/ Failed(h)
    PROVE  HeardInv'
<1>1. PICK q \in Handling, w \in Handling \cup {Idle} :
        /\ handler[h] = q /\ q.pc \in Waiting /\ Goes(h, w) /\ UNCHANGED <<conv, heard>>
        /\ accident'["overlapped"] = accident["overlapped"]
        /\ w # Idle => /\ Like(w, q)
                       /\ \/ w.pc = "offer"
                          \/ w.pc = "reply" /\ w.say = "taken"
                          \/ w.pc = "reply" /\ w.say \in {"booked", "cancelled"} /\ w.next # None /\ w.next.step = "MENU"
  <2>1. CASE Loaded(h) \/ Cancelled(h)
    BY <2>1 DEF Loaded, Cancelled, Broken, Accidents, Waiting
  <2>2. CASE Booked(h) \/ Failed(h)
    <3>1. PICK q \in Handling, w \in Handling :
            /\ handler[h] = q /\ q.pc \in {"book", "reply"} /\ Goes(h, w) /\ UNCHANGED <<conv, heard>>
            /\ Like(w, q) /\ w.pc = "reply"
            /\ w.say = "taken" \/ (w.say = "booked" /\ w.next # None /\ w.next.step = "MENU")
            /\ accident'["overlapped"] = accident["overlapped"]
      BY <2>2 DEF Booked, Failed, Accidents
    <3> QED
      BY <3>1 DEF Waiting
  <2> QED
    BY <2>1, <2>2
<1>2. ~accident["overlapped"] =>
        /\ heard' # None => conv' # Absent
        /\ q.read = conv'.state /\ Agrees(conv.state)'
  BY <1>1, HeardKnows DEF HeardHandler, Agrees
<1>3. ~accident["overlapped"] /\ w # Idle => HeardHandler(w)'
  BY <1>1, <1>2 DEF HeardHandler, Like, Waiting, Answers, StandsAfter, StepsAfter
<1> QED
  BY <1>1, <1>2, <1>3, HeardMoves

LEMMA DiedHeard == ASSUME Base, HeardInv, NEW h \in Handlers, Died(h) PROVE HeardInv'
<1>1. PICK q \in Handling :
        /\ handler[h] = q /\ Goes(h, Idle) /\ accident'["overlapped"] = accident["overlapped"]
        /\ heard' = (IF q.spoke THEN None ELSE heard) /\ UNCHANGED conv
  BY DEF Died, Broken, Accidents
<1>2. ASSUME ~accident["overlapped"]
      PROVE  (heard' # None => conv' # Absent) /\ (conv' # Absent => Agrees(conv.state)')
  <2>1. HeardHandler(q) /\ HandlerKept(q) /\ (heard # None => conv # Absent)
    BY <1>1, <1>2, HeardKnows
  <2>2. CASE q.spoke
    BY <1>1, <2>1, <2>2 DEF Agrees
  <2>3. CASE ~q.spoke
    <3>1. q.pc \in {"create", "upsert", "save"} \cup Waiting
      BY <2>1, <2>3, HandlingFacts DEF HandlerKept, Waiting
    <3>2. conv # Absent => Agrees(conv.state)
      BY <2>1, <2>3, <3>1 DEF HeardHandler
    <3> QED
      BY <1>1, <2>1, <2>3, <3>2 DEF Agrees
  <2> QED
    BY <2>2, <2>3
<1> QED
  BY <1>1, <1>2, HeardMoves
LEMMA HeardStep == ASSUME Base, HeardInv, [Next]_vars PROVE HeardInv'
<1>1. CASE Send \/ ChangeAgenda \/ ReleaseNumber \/ Scan \/ Tick \/ UNCHANGED vars
  <2>1. UNCHANGED <<handler, heard, conv>>
    BY <1>1 DEF Send, ChangeAgenda, ReleaseNumber, Scan, Tick, vars
  <2>2. accident'["overlapped"] = accident["overlapped"]
    BY <1>1 DEF Send, ChangeAgenda, ReleaseNumber, Scan, Tick, vars, Base, TypeOK, Accidents
  <2> QED
    BY <2>1, <2>2, StillHeard
<1>2. CASE ManualAnswer
  <2>1. conv' \in Conv /\ conv'.state = conv.state
    BY <1>2, ManualBase
  <2>2. conv # Absent /\ UNCHANGED <<handler, heard, accident>>
    BY <1>2 DEF ManualAnswer
  <2> QED
    BY <2>1, <2>2, StillHeard
<1>3. ASSUME NEW h \in Handlers, Receive(h)
      PROVE  HeardInv'
  BY <1>3, ReceiveBase, ReceivedHeard DEF Receive
<1>4. ASSUME NEW h \in Handlers, Step(h) \/ HandlerDies(h) \/ BookingFails(h)
      PROVE  HeardInv'
  BY <1>4, CreateBase, UpsertBase, StoreBase, TouchBase, PhotoBase, GiveBase, MarkBase, SaveBase, OfferBase,
     LoadBase, BookBase, CancelBase, DiesBase, FailsBase, CreatedHeard, UpsertedHeard, StoredHeard, TouchedHeard,
     PhotoHeard, GivenHeard, MarkedHeard, SavedHeard, OfferedHeard, AgendaHeard, DiedHeard DEF Step
<1> QED
  BY <1>1, <1>2, <1>3, <1>4 DEF Next, People

\* As long as no two requests have handled messages of the client at the same
\* time, what she heard last is where the stored conversation stands: the state
\* that is saved is the one the answer spoke of (advance and
\* handleIncoming in conversation-engine.service.ts).
THEOREM TheClientHeardWhereItStands == Spec => []HeardWhereItStands
<1>1. Init => HeardInv
  BY HandlingFacts DEF Init, HeardInv, Agrees
<1>2. HeardInv => HeardWhereItStands
  BY DEF HeardInv, HeardWhereItStands, Agrees, StandsAfter
<1>3. Base /\ HeardInv /\ [Next]_vars => Base' /\ HeardInv'
  BY BaseStep, HeardStep
<1> QED
  BY <1>1, <1>2, <1>3, BaseInit, PTL DEF Spec

-----------------------------------------------------------------------------
(* She is told what was booked *)

\* The handler at q is about to tell of a time it has booked.
Due(q) == q.pc = "reply" /\ q.say = "booked" /\ q.read.step = "SCHEDULE_CONFIRM"

BookedInv ==
    ~accident["died"] =>
        /\ told \subseteq agenda.mine
        /\ \A g \in Handlers, q \in Handling : handler[g] = q /\ Due(q) => q.read.chosen \in agenda.mine
        /\ \A s \in agenda.mine \ told : \E g \in Handlers, q \in Handling : handler[g] = q /\ Due(q) /\ q.read.chosen = s

LEMMA BookedMoves ==
    ASSUME Base, BookedInv, NEW h \in Handlers, NEW w \in Handling \cup {Idle}, Goes(h, w),
           accident'["died"] = accident["died"],
           told \subseteq told', agenda.mine \subseteq agenda'.mine,
           ~accident["died"] => told' \subseteq agenda'.mine,
           w # Idle /\ Due(w) => w.read.chosen \in agenda'.mine,
           \A s \in agenda'.mine \ told' :
              \/ w # Idle /\ Due(w) /\ w.read.chosen = s
              \/ s \in agenda.mine /\ \A q \in Handling : handler[h] = q /\ Due(q) => q.read.chosen # s
    PROVE  BookedInv'
<1>1. /\ handler'[h] = w /\ Idle \notin Handling
      /\ \A g \in Handlers \ {h} : handler'[g] = handler[g]
  BY Move, HandlingFacts DEF Base
<1> SUFFICES ASSUME ~accident["died"]
             PROVE  /\ \A g \in Handlers, q \in Handling : handler'[g] = q /\ Due(q) => q.read.chosen \in agenda'.mine
                    /\ \A s \in agenda'.mine \ told' :
                         \E g \in Handlers, q \in Handling : handler'[g] = q /\ Due(q) /\ q.read.chosen = s
  BY DEF BookedInv
<1>2. ASSUME NEW g \in Handlers, NEW q \in Handling, handler'[g] = q, Due(q)
      PROVE  q.read.chosen \in agenda'.mine
  BY <1>1, <1>2 DEF BookedInv
<1>3. ASSUME NEW s \in agenda'.mine \ told'
      PROVE  \E g \in Handlers, q \in Handling : handler'[g] = q /\ Due(q) /\ q.read.chosen = s
  <2>1. CASE w # Idle /\ Due(w) /\ w.read.chosen = s
    BY <1>1, <2>1
  <2>2. CASE s \in agenda.mine /\ \A q \in Handling : handler[h] = q /\ Due(q) => q.read.chosen # s
    <3>1. PICK g \in Handlers, q \in Handling : handler[g] = q /\ Due(q) /\ q.read.chosen = s
      BY <1>3, <2>2 DEF BookedInv
    <3>2. g # h
      BY <2>2, <3>1
    <3> QED
      BY <1>1, <3>1, <3>2
  <2> QED
    BY <1>3, <2>1, <2>2
<1> QED
  BY <1>2, <1>3

\* No booking is made and none is told.
LEMMA BookedBeside ==
    ASSUME Base, BookedInv, NEW h \in Handlers, NEW w \in Handling \cup {Idle}, Goes(h, w),
           accident'["died"] = accident["died"], told' = told, agenda'.mine = agenda.mine,
           \A q \in Handling : handler[h] = q => ~Due(q), w # Idle => ~Due(w)
    PROVE  BookedInv'
<1>1. ~accident["died"] => told' \subseteq agenda'.mine
  BY DEF BookedInv
<1>2. \A s \in agenda'.mine \ told' :
        s \in agenda.mine /\ \A q \in Handling : handler[h] = q /\ Due(q) => q.read.chosen # s
  OBVIOUS
<1> QED
  BY <1>1, <1>2, BookedMoves

LEMMA BookedLost == ASSUME accident'["died"] PROVE BookedInv'
  BY DEF BookedInv

LEMMA StillBooked ==
    ASSUME BookedInv, UNCHANGED <<handler, told>>, agenda'.mine = agenda.mine, accident'["died"] = accident["died"]
    PROVE  BookedInv'
  BY DEF BookedInv
LEMMA GivenBooked == ASSUME Base, BookedInv, NEW h \in Handlers, AnswerGiven(h) PROVE BookedInv'
<1>1. PICK q, w \in Handling :
        /\ handler[h] = q /\ q.pc = "reply" /\ Goes(h, w) /\ w.pc \in {"offer", "mark", "save"}
        /\ told' = (IF q.say = "booked" /\ q.read.step = "SCHEDULE_CONFIRM" THEN told \cup {q.read.chosen} ELSE told)
        /\ UNCHANGED <<agenda, accident>>
  BY DEF AnswerGiven
<1>2. ~Due(w) /\ w # Idle
  BY <1>1, HandlingFacts DEF Due
<1>3. CASE ~Due(q)
  <2>1. told' = told
    BY <1>1, <1>3 DEF Due
  <2> QED
    BY <1>1, <1>2, <1>3, <2>1, BookedBeside
<1>4. CASE Due(q)
  <2>1. told' = told \cup {q.read.chosen}
    BY <1>1, <1>4 DEF Due
  <2>2. ~accident["died"] => told' \subseteq agenda'.mine
    BY <1>1, <1>4, <2>1 DEF BookedInv
  <2>3. \A s \in agenda'.mine \ told' :
          s \in agenda.mine /\ \A p \in Handling : handler[h] = p /\ Due(p) => p.read.chosen # s
    BY <1>1, <2>1
  <2>4. told \subseteq told' /\ agenda.mine \subseteq agenda'.mine /\ accident'["died"] = accident["died"]
    BY <1>1, <2>1
  <2> QED
    BY <1>1, <1>2, <2>2, <2>3, <2>4, BookedMoves
<1> QED
  BY <1>3, <1>4

LEMMA MadeBooked == ASSUME Base, BookedInv, NEW h \in Handlers, Booked(h) PROVE BookedInv'
<1>1. PICK q, w \in Handling :
        /\ handler[h] = q /\ q.pc = "book" /\ q.read.step \in Confirms
        /\ Goes(h, w) /\ w.pc = "reply" /\ Like(w, q)
        /\ \/ w.say = "taken" /\ agenda' = agenda
           \/ /\ w.say = "booked"
              /\ agenda'.mine = IF q.read.step = "RESCHEDULE_CONFIRM" THEN agenda.mine
                                ELSE agenda.mine \cup {q.read.chosen}
        /\ UNCHANGED <<told, accident>>
  BY DEF Booked
<1>2. w # Idle /\ w.read = q.read /\ \A p \in Handling : handler[h] = p => ~Due(p)
  BY <1>1, HandlingFacts DEF Due, Like
<1>3. CASE w.say = "taken" \/ q.read.step = "RESCHEDULE_CONFIRM"
  <2>1. ~Due(w) /\ agenda'.mine = agenda.mine
    BY <1>1, <1>2, <1>3 DEF Due
  <2> QED
    BY <1>1, <1>2, <2>1, BookedBeside
<1>4. CASE w.say = "booked" /\ q.read.step = "SCHEDULE_CONFIRM"
  <2>1. Due(w) /\ agenda'.mine = agenda.mine \cup {w.read.chosen}
    BY <1>1, <1>2, <1>4 DEF Due
  <2>2. ~accident["died"] => told' \subseteq agenda'.mine
    BY <1>1, <2>1 DEF BookedInv
  <2>3. \A s \in agenda'.mine \ told' :
          \/ w # Idle /\ Due(w) /\ w.read.chosen = s
          \/ s \in agenda.mine /\ \A p \in Handling : handler[h] = p /\ Due(p) => p.read.chosen # s
    BY <1>2, <2>1
  <2>4. /\ told \subseteq told' /\ agenda.mine \subseteq agenda'.mine /\ accident'["died"] = accident["died"]
        /\ w # Idle /\ Due(w) => w.read.chosen \in agenda'.mine
    BY <1>1, <2>1
  <2> QED
    BY <1>1, <2>2, <2>3, <2>4, BookedMoves
<1> QED
  BY <1>1, <1>3, <1>4 DEF Confirms

LEMMA StoredBooked == ASSUME Base, BookedInv, NEW h \in Handlers, Stored(h) \/ PhotoConfirmed(h) PROVE BookedInv'
<1>1. PICK q \in Handling, w \in Handling \cup {Idle} :
        /\ handler[h] = q /\ q.pc \in {"store", "photo"} /\ Goes(h, w)
        /\ w # Idle => w.pc \in {"touch", "photo"} \/ \E r \in Handling : Sound(w, r)
        /\ accident'["died"] = accident["died"] /\ UNCHANGED <<told, agenda>>
  <2>1. CASE Stored(h)
    BY <2>1 DEF Stored, Accidents
  <2>2. CASE PhotoConfirmed(h)
    BY <2>2 DEF PhotoConfirmed
  <2> QED
    BY <2>1, <2>2
<1>2. \A p \in Handling : handler[h] = p => ~Due(p)
  BY <1>1 DEF Due
<1>3. w # Idle => ~Due(w)
  BY <1>1 DEF Due, Sound, Answers
<1> QED
  BY <1>1, <1>2, <1>3, BookedBeside

LEMMA PlainBooked ==
    ASSUME Base, BookedInv, NEW h \in Handlers,
           Created(h) \/ Upserted(h) \/ Touched(h) \/ Marked(h) \/ Saved(h) \/ Offered(h)
    PROVE  BookedInv'
<1>1. PICK q \in Handling, w \in Handling \cup {Idle} :
        /\ handler[h] = q /\ q.pc # "reply" /\ Goes(h, w) /\ (w # Idle => w.pc # "reply")
        /\ UNCHANGED <<told, agenda, accident>>
  BY DEF Created, Upserted, Touched, Marked, Saved, Offered
<1>2. (\A p \in Handling : handler[h] = p => ~Due(p)) /\ (w # Idle => ~Due(w))
  BY <1>1 DEF Due
<1> QED
  BY <1>1, <1>2, BookedBeside

LEMMA LoadedBooked == ASSUME Base, BookedInv, NEW h \in Handlers, Loaded(h) \/ Cancelled(h) PROVE BookedInv'
<1>1. PICK q \in Handling :
        /\ handler[h] = q /\ q.pc \in {"load", "cancel"} /\ agenda'.mine = agenda.mine /\ UNCHANGED told
        /\ \/ Broken(q)
           \/ /\ UNCHANGED accident
              /\ \E w \in Handling : Goes(h, w) /\ (w.pc = "offer" \/ w.say = "cancelled")
  BY DEF Loaded, Cancelled
<1>2. CASE Broken(q)
  BY <1>2, BookedLost DEF Broken
<1>3. ASSUME NEW w \in Handling, UNCHANGED accident, Goes(h, w), w.pc = "offer" \/ w.say = "cancelled"
      PROVE  BookedInv'
  <2>1. (\A p \in Handling : handler[h] = p => ~Due(p)) /\ (w # Idle => ~Due(w))
    BY <1>1, <1>3 DEF Due
  <2> QED
    BY <1>1, <1>3, <2>1, BookedBeside
<1> QED
  BY <1>1, <1>2, <1>3

LEMMA ReceivedBooked ==
    ASSUME Base, BookedInv, NEW h \in Handlers, Received(h), UNCHANGED <<told, agenda>>
    PROVE  BookedInv'
<1>1. CASE UNCHANGED <<handler, accident>>
  BY <1>1, StillBooked
<1>2. ASSUME NEW w \in Handling, handler[h] = Idle, Goes(h, w), w.pc \in {"create", "upsert"},
             accident'["died"] = accident["died"]
      PROVE  BookedInv'
  <2>1. (\A p \in Handling : handler[h] = p => ~Due(p)) /\ (w # Idle => ~Due(w))
    BY <1>2, HandlingFacts DEF Due
  <2> QED
    BY <1>2, <2>1, BookedBeside
<1> QED
  BY <1>1, <1>2 DEF Received

LEMMA BookedStep == ASSUME Base, BookedInv, [Next]_vars PROVE BookedInv'
<1>1. CASE Send \/ People \/ Scan \/ Tick \/ UNCHANGED vars
  <2>1. UNCHANGED <<handler, told>>
    BY <1>1 DEF Send, People, ManualAnswer, ChangeAgenda, ReleaseNumber, Scan, Tick, vars
  <2>2. agenda'.mine = agenda.mine
    BY <1>1, ChangeBase DEF Send, People, ManualAnswer, ReleaseNumber, Scan, Tick, vars
  <2>3. accident'["died"] = accident["died"]
    BY <1>1 DEF Send, People, ManualAnswer, ChangeAgenda, ReleaseNumber, Scan, Tick, vars, Base, TypeOK, Accidents
  <2> QED
    BY <2>1, <2>2, <2>3, StillBooked
<1>2. ASSUME NEW h \in Handlers, Receive(h)
      PROVE  BookedInv'
  BY <1>2, ReceiveBase, ReceivedBooked DEF Receive
<1>3. ASSUME NEW h \in Handlers, HandlerDies(h) \/ BookingFails(h)
      PROVE  BookedInv'
  BY <1>3, DiesBase, FailsBase, BookedLost DEF Died, Failed, Broken
<1>4. ASSUME NEW h \in Handlers, Step(h)
      PROVE  BookedInv'
  BY <1>4, CreateBase, UpsertBase, StoreBase, TouchBase, PhotoBase, GiveBase, MarkBase, SaveBase, OfferBase,
     LoadBase, BookBase, CancelBase, GivenBooked, MadeBooked, StoredBooked, PlainBooked, LoadedBooked DEF Step
<1> QED
  BY <1>1, <1>2, <1>3, <1>4 DEF Next

\* Unless a handler was lost, the client is told of every appointment the
\* conversation has made for her, and of no other, even when she confirms it
\* twice at once (scheduleConfirm: the answer follows the call that books).
THEOREM SheIsToldWhatIsBooked == Spec => []BookedAsTold
<1>1. Init => BookedInv
  BY HandlingFacts DEF Init, BookedInv
<1>2. BookedInv => BookedAsTold
  <2> SUFFICES ASSUME BookedInv, Quiet, ~accident["died"] PROVE told = agenda.mine
    BY DEF BookedAsTold
  <2>1. told \subseteq agenda.mine
    BY DEF BookedInv
  <2>2. ASSUME NEW s \in agenda.mine \ told PROVE FALSE
    <3>1. PICK g \in Handlers, q \in Handling : handler[g] = q /\ Due(q)
      BY <2>2 DEF BookedInv
    <3> QED
      BY <3>1, HandlingFacts DEF Quiet
  <2> QED
    BY <2>1, <2>2
<1>3. Base /\ BookedInv /\ [Next]_vars => Base' /\ BookedInv'
  BY BaseStep, BookedStep
<1> QED
  BY <1>1, <1>2, <1>3, BaseInit, PTL DEF Spec
=============================================================================
