---------------------------- MODULE MCConversation ----------------------------
(***************************************************************************)
(* Small instances of Conversation.tla for TLC.                            *)
(***************************************************************************)
EXTENDS Conversation

\* Option 1 stands for options 2 and 4 too; photos have no text.
MCContents ==
    {[text |-> t, photo |-> FALSE] : t \in {"1", "menu", "words"}}
    \cup {[text |-> None, photo |-> TRUE]}

\* A third message is followed where handlers take turns and nothing is wrong.
Followed == Len(sent) = 3 => ~accident["overlapped"] /\ troubles = 0
=============================================================================
