-------------------------- MODULE MCConnectionPool --------------------------
EXTENDS ConnectionPool

CONSTANTS u1, u2, c1, r1

\* Two uploads on a pool of two connections, a question and a listing.
MCKindOf == [r \in Request |-> IF r \in {u1, u2} THEN "document"
                               ELSE IF r = c1 THEN "chat" ELSE "read"]
=============================================================================
