------------------------------ MODULE MCInbox ------------------------------
(***************************************************************************)
(* Small instances of Inbox.tla for TLC: a day has three parts, and two    *)
(* people live in two time zones, so that the deadline that is the end of  *)
(* the day for one of them is an hour of the day for the other.            *)
(***************************************************************************)
EXTENDS Inbox, TLC

CONSTANTS ana, bia

\* Requests are interchangeable.
Symmetry == Permutations(Requests)

MCZone == (ana :> 0) @@ (bia :> 1)
=============================================================================
