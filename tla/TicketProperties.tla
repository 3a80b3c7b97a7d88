-------------------------- MODULE TicketProperties --------------------------
EXTENDS Dashboard

TicketsTypeOK ==
    /\ ticket \in [Ticket -> Row]
    /\ comments \subseteq Request
    /\ applied \subseteq Request
    /\ treq \in [Request -> TicketRequest]
    /\ view \in [Request -> View]
    /\ stamp \in [Request -> Nat]
    /\ now \in Nat

\* Comments are listed by the time their transactions began, and requests
\* overlap: still a comment made after another one was answered comes after it.
CommentsInOrder ==
    \A c \in comments : \A d \in comments \cap treq[c].after : stamp[d] < stamp[c]

\* The bars of the dashboard are counted before and after the total they are
\* shown with: those by status never add up to more than the total, and those
\* by category never to less, however many tickets are opened meanwhile.
BarsAgreeWithTotal ==
    \A r \in Request : At(r, "done") /\ Is(r, "dashboard") =>
        counts[r]["byStatus"] <= counts[r]["total"] /\ counts[r]["total"] <= counts[r]["byCategory"]

-----------------------------------------------------------------------------
(* The abstract view of the tables.                                        *)

\* The changes whose author has been found to be an administrator.
Admitted == {r \in Request : Is(r, "change") /\ treq[r].by \in Admin
                             /\ treq[r].at \notin {"idle", "sent"}}

Columns(row) == [k \in Column |-> row[k]]

WishOf(r) == [id |-> r, by |-> treq[r].by, ticket |-> treq[r].ticket,
              cols |-> treq[r].cols, want |-> Columns(treq[r].want)]

Thread == {<<c, treq[c].ticket, treq[c].by>> : c \in comments}

Board == INSTANCE TicketBoard WITH
    Change <- Request,
    Value <- Status \cup Priority \cup User \cup {NoUser},
    owner <- [t \in Ticket |-> ticket[t].by],
    column <- [t \in Ticket |-> Columns(ticket[t])],
    asked <- {WishOf(r) : r \in Admitted},
    thread <- Thread

\* However requests interleave and fail, the tables implement the board: no
\* change is undone by one that did not name its column, none takes effect
\* twice, and only the owner and administrators comment.
ImplementsBoard == Board!Spec
=============================================================================
