----------------------------- MODULE MCReminders -----------------------------
(***************************************************************************)
(* Small instances of Reminders.tla for TLC.                               *)
(***************************************************************************)
EXTENDS Reminders, TLC

\* The first reminder comes two units of time before, the one for clients at
\* risk one unit before.
MCLead == [w \in Windows |-> IF w = Extra THEN 1 ELSE 2]

\* Nothing is asked of an appointment once something went wrong with it, so a
\* run with a third change need not follow it any further.
Followed == disturbed = {} \/ edits <= 2
=============================================================================
