------------------------------ MODULE Timeline ------------------------------
(* ORDER BY created_at: how comments and messages are listed.              *)
EXTENDS Naturals, FiniteSets, Sequences

\* The members of S by their times, which differ.
InOrder(S, time) ==
    CHOOSE q \in [1..Cardinality(S) -> S] :
        \A i, j \in DOMAIN q : i < j => time[q[i]] < time[q[j]]
=============================================================================
