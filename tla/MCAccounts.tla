----------------------------- MODULE MCAccounts -----------------------------
(* An instance of Accounts: a referrer and newcomers, any of whom may be    *)
(* any other, handled by goroutines that are alike.                         *)
EXTENDS Accounts, TLC

Symmetry == Permutations(Users) \cup Permutations(Handlers)
=============================================================================
