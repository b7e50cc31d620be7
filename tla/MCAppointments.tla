--------------------------- MODULE MCAppointments ---------------------------
(***************************************************************************)
(* Small instances of Appointments.tla for TLC.                            *)
(***************************************************************************)
EXTENDS Appointments, TLC

\* An event edited or made in Google may take the whole horizon.
MCGoogleSpans == {<<0, 2>>}

\* Ids are interchangeable: they are only compared for equality.
Interchangeable ==
    Permutations(Appts) \cup Permutations(Requests)
=============================================================================
