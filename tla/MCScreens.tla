------------------------------ MODULE MCScreens ------------------------------
(***************************************************************************)
(* Small instances of the parts of Screens.tla.                            *)
(***************************************************************************)
EXTENDS Screens

CONSTANTS n1, p1, s1
-----------------------------------------------------------------------------
(* Values of the constants *)

\* Everybody who answers gives one number.
MCGivenNumber == [a \in Answers |-> n1]

\* A zone whose clocks stay, one whose clocks go back, one whose go forward.
Never == 1000
MCZones == {[ahead |-> 0, back |-> Never, forward |-> Never],
            [ahead |-> 2, back |-> 34, forward |-> Never],
            [ahead |-> -1, back |-> Never, forward |-> 33]}
MCLinks == [from: {0, 31, 33}, to: {0, 32, 34, 38, 39}, preset: {"none", "last7"}]
MCRowsOfReports ==
    {{[at |-> x, status |-> s], [at |-> y, status |-> "CONFIRMED"]} :
        x \in 122..157, y \in {127, 143}, s \in {"CANCELLED", "NO_SHOW"}}

\* One of the people of the funnel says where she comes from.
MCSourceOf == [p \in FunnelPeople |-> IF p = p1 THEN s1 ELSE Null]
-----------------------------------------------------------------------------
\* Nothing is asked of an export in whose course people or events changed, and nothing
\* waits for it: two states that differ in such a file only are taken for one.
Void == part = "funnel" /\ x5 # Null /\ x6
Seen == <<part, x1, x2, x3, x4, IF Void THEN Void ELSE x5, x6, x7, x8, x9, x10, x11, x12, x13, x14, x15>>
=============================================================================
