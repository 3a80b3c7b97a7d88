----------------------------- MODULE MCAccounts -----------------------------
EXTENDS Accounts, TLC

\* Accounts and requests are interchangeable.
Symmetry == Permutations(Account) \cup Permutations(Patch)
=============================================================================
