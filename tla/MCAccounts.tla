----------------------------- MODULE MCAccounts -----------------------------
(* Accounts for TLC: the symmetries of its constants.                      *)
EXTENDS Accounts, TLC

Symmetry == Permutations(Emails) \cup Permutations(Client) \cup Permutations(Passwords)
=============================================================================
