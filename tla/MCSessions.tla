----------------------------- MODULE MCSessions -----------------------------
EXTENDS SessionProperties, TLC

\* Accounts, tokens, tabs and calls are interchangeable.
Symmetry == Permutations(Account) \cup Permutations(Token)
            \cup Permutations(Tab) \cup Permutations(Call)
=============================================================================
