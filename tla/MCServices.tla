----------------------------- MODULE MCServices -----------------------------
(***************************************************************************)
(* Small instances of the parts of Services.tla.                           *)
(***************************************************************************)
EXTENDS Services
-----------------------------------------------------------------------------
(* Values of the constants *)

SlotRows == [start: {1, 2, 3, 5, 8, 9, 12, 15}, length: {1, 3, 8}, kind: {"ACTIVE", "OVER", "OFF"}]
AgendaRow(start, end, kind) == [start |-> start, end |-> end, kind |-> kind]

\* One row, with an appointment of the first day or a block of the second.
MCRowsOfSlots == {{}} \cup UNION {
    LET row == AgendaRow(r.start, r.start + r.length, r.kind)
    IN  {{row}, {row, AgendaRow(4, 6, "ACTIVE")}, {row, AgendaRow(11, 14, "BLOCK")}} : r \in SlotRows}
MCQuestions == [from: {0, 3, 9}, now: {0, 4}, duration: {2, 3}, limit: {1, 3}]

\* Scores that differ, that are equal for different reasons, and one below zero.
ProfileOf(source, stage, entries, told, objections) ==
    [source |-> source, stage |-> stage, entries |-> entries, painPoints |-> told, desires |-> told,
     objections |-> objections]
MCProfiles ==
    {ProfileOf("NONE", "NONE", {}, FALSE, TRUE), ProfileOf("NONE", "NEW", {30}, FALSE, FALSE),
     ProfileOf("OTHER", "NEW", {24}, FALSE, FALSE), ProfileOf("CHALLENGE", "NONE", {}, FALSE, FALSE),
     ProfileOf("OTHER", "NEW", {20, 30}, FALSE, FALSE), ProfileOf("REFERRAL", "PROPOSAL_SENT", {1}, TRUE, FALSE)}

Question(exact) == [exact |-> exact, hints |-> {}]
Hinting(hints) == [exact |-> Null, hints |-> hints]
Reply(question, said) == [question |-> question, said |-> said]

\* All in order, with each way of writing the number; in disorder and incomplete; none.
MCResponses ==
    {<<Reply(Question("name"), "text"), Reply(Question("phone"), s),
       Reply(Hinting({"painPoints", "desires"}), "text")>> : s \in {"full", "local", "blank"}}
    \cup {<<Reply(Hinting({"objections"}), "text"), Reply(Question("phone"), "spaced"),
            Reply(Question("name"), "text"), Reply(Hinting({}), "blank")>>, <<>>}
=============================================================================
