----------------------------- MODULE MCAccounts -----------------------------
(* Small instances of Accounts for TLC.                                     *)
EXTENDS Accounts, TLC

Symmetric == Permutations(Emails) \cup Permutations(Subjects)
             \cup Permutations(Requests)
=============================================================================
