----------------------------- MODULE MCAccounts -----------------------------
(* Instances of Accounts for model checking.                               *)
EXTENDS Accounts, TLC

Symmetric == Permutations(Password) \cup Permutations(Person)
=============================================================================
