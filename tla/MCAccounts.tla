----------------------------- MODULE MCAccounts -----------------------------
(***************************************************************************)
(* Accounts on small instances.                                            *)
(***************************************************************************)
EXTENDS Accounts

TwoOrigins == <<"site", "admin">>

\* One name is taken, one is free.
Names  == {"ann", "bob"}
OneOld == {[id |-> 0, name |-> "ann", pswd |-> "q"]}
=============================================================================
