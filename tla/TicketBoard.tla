---------------------------- MODULE TicketBoard ----------------------------
(***************************************************************************)
(* What the ticket endpoints promise, without requests, sessions and       *)
(* statements: every change somebody asked for takes effect at once and at *)
(* most once, on the columns it named and no others.                       *)
(***************************************************************************)
CONSTANTS User, Admin, Ticket, Change, Column, Value, NoUser

VARIABLES
    owner,     \* who opened a ticket; NoUser before that
    column,    \* the ticket's columns
    asked,     \* the changes administrators have asked for
    applied,   \* the changes that have taken effect
    thread     \* the comments: <<comment, ticket, author>>

Wish == [id: Change, by: Admin, ticket: Ticket, cols: SUBSET Column, want: [Column -> Value]]

boardVars == <<owner, column, asked, applied, thread>>

Init ==
    /\ owner \in [Ticket -> User \cup {NoUser}]
    /\ column \in [Ticket -> [Column -> Value]]
    /\ asked = {} /\ applied = {} /\ thread = {}

\* A user opens a ticket.
Open(t, u) ==
    /\ owner[t] = NoUser
    /\ owner' = [owner EXCEPT ![t] = u]
    /\ \E row \in [Column -> Value] : column' = [column EXCEPT ![t] = row]
    /\ UNCHANGED <<asked, applied, thread>>

\* An administrator asks for a change.
Ask(a) ==
    /\ a \in Wish
    /\ \A b \in asked : b.id # a.id
    /\ asked' = asked \cup {a}
    /\ UNCHANGED <<owner, column, applied, thread>>

\* It takes effect on the columns cols, which may be fewer than it named: one
\* that had the value already may have been changed by somebody else since.
Apply(a, cols) ==
    /\ a \in asked /\ a.id \notin applied
    /\ cols \subseteq a.cols
    /\ owner[a.ticket] # NoUser
    /\ applied' = applied \cup {a.id}
    /\ column' = [column EXCEPT ![a.ticket] =
                    [k \in Column |-> IF k \in cols THEN a.want[k] ELSE @[k]]]
    /\ UNCHANGED <<owner, asked, thread>>

\* The owner of a ticket or an administrator comments on it.
Comment(c, t, u) ==
    /\ owner[t] # NoUser
    /\ u = owner[t] \/ u \in Admin
    /\ \A x \in thread : x[1] # c
    /\ thread' = thread \cup {<<c, t, u>>}
    /\ UNCHANGED <<owner, column, asked, applied>>

Next ==
    \/ \E t \in Ticket, u \in User : Open(t, u)
    \/ \E a \in asked' : Ask(a)
    \/ \E a \in asked : \E cols \in SUBSET a.cols : Apply(a, cols)
    \/ \E c \in Change, t \in Ticket, u \in User : Comment(c, t, u)

Spec == Init /\ [][Next]_boardVars
=============================================================================
