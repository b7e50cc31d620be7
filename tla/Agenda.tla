------------------------------- MODULE Agenda -------------------------------
(***************************************************************************)
(* What the agenda promises, with no database, request or race in it: a    *)
(* ledger in which every appointment holds a set of cells and no cell has  *)
(* two holders.  A cell is one instant of one professional's time.         *)
(*                                                                         *)
(* Appointments.tla, the model of AppointmentsService over its PostgreSQL  *)
(* tables, implements this specification (AppointmentsProofs.tla).         *)
(***************************************************************************)
CONSTANTS Appts,   \* the appointments that may ever exist
          Cells    \* <<professional, instant>> pairs

VARIABLE held      \* held[a]: the cells appointment a occupies

TypeOK == held \in [Appts -> SUBSET Cells]

Init == held = [a \in Appts |-> {}]

\* Booking, moving or reviving a: whatever it held before, it gets cells that
\* no other appointment has.
Claim(a) ==
    /\ held' \in [Appts -> SUBSET Cells]
    /\ \A b \in Appts \ {a} : held'[b] = held[b] /\ held'[a] \cap held[b] = {}

\* Cancelling or deleting: some appointments give all their cells back.
Release == held' \in [Appts -> SUBSET Cells] /\ \A a \in Appts : held'[a] \in {held[a], {}}

Next == Release \/ \E a \in Appts : Claim(a)

Spec == Init /\ [][Next]_held

\* No instant of a professional's time has two holders.
Exclusive == \A a, b \in Appts : a # b => held[a] \cap held[b] = {}
=============================================================================
