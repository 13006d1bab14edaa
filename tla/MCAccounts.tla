----------------------------- MODULE MCAccounts -----------------------------
(* What the instance does not tell apart.                                  *)
EXTENDS Accounts, TLC

Symmetry == Permutations(Accounts) \union Permutations(Addresses) \union Permutations(Sessions)
            \union Permutations(Browsers) \union Permutations(Requests)
=============================================================================
