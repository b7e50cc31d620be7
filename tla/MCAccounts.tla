----------------------------- MODULE MCAccounts -----------------------------
(***************************************************************************)
(* Small instances of Accounts.tla for TLC.                                *)
(***************************************************************************)
EXTENDS Accounts
=============================================================================
