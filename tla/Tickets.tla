------------------------------ MODULE Tickets ------------------------------
(***************************************************************************)
(* The ticket endpoints (api/tickets.py) over the tables tickets and       *)
(* ticket_comments, one action per statement or commit.  A request is made *)
(* once; the comment of request r is r itself.  Tickets, comments and      *)
(* users are never deleted by the program, and roles are fixed here.       *)
(***************************************************************************)
EXTENDS Naturals, FiniteSets, SequencesExt, Timeline

CONSTANTS
    User, Admin, Ticket, Request,
    Status, Priority,   \* the values of the enums an instance uses
    Faults,             \* what may fail: "db", and, in TicketPage, "lost"
    NoUser, NoTicket

ASSUME TicketsAssumption ==
    /\ Admin \subseteq User
    /\ NoUser \notin User
    /\ NoTicket \notin Ticket
    /\ "OPEN" \in Status
    /\ Priority # {}

VARIABLES
    ticket,    \* the rows of tickets
    comments,  \* the rows of ticket_comments
    applied,   \* history: the changes that were committed
    treq,      \* the requests
    view,      \* the ticket a request is answered with
    stamp,     \* when the transaction of a comment began: its created_at
    now        \* the number of transactions begun

clock      == <<stamp, now>>
ticketVars == <<ticket, comments, applied, treq, view, stamp, now>>

Row   == [by: User \cup {NoUser}, status: Status, priority: Priority,
          assignee: User \cup {NoUser}]
NoRow == [by |-> NoUser, status |-> "OPEN", priority |-> CHOOSE p \in Priority : TRUE,
          assignee |-> NoUser]
View  == [row: Row, comments: Seq(Request)]
NoView == [row |-> NoRow, comments |-> <<>>]

Column == {"status", "priority", "assignee"}
Kind   == {"create", "read", "comment", "change", "dashboard"}
Point  == {"idle", "sent", "loaded", "committed", "viewing", "posted",
           "done", "failed"}
TicketRequest ==
    [at: Point, kind: Kind, by: User \cup {NoUser}, ticket: Ticket \cup {NoTicket},
     cols: SUBSET Column, want: Row, seen: Row,
     after: SUBSET Request]   \* history: the comments answered before it was made
NoRequest ==
    [at |-> "idle", kind |-> "read", by |-> NoUser, ticket |-> NoTicket, cols |-> {},
     want |-> NoRow, seen |-> NoRow, after |-> {}]

\* Some tickets are there already.
TicketsInit ==
    /\ ticket \in [Ticket -> {NoRow} \cup {[NoRow EXCEPT !.by = u] : u \in User}]
    /\ comments = {}
    /\ applied = {}
    /\ treq = [r \in Request |-> NoRequest]
    /\ view = [r \in Request |-> NoView]
    /\ stamp = [r \in Request |-> 0]
    /\ now = 0

At(r, point)   == treq[r].at = point
Is(r, kind)    == treq[r].kind = kind
Goto(r, point) == treq' = [treq EXCEPT ![r].at = point]
Exists(t)      == t \in Ticket /\ ticket[t].by # NoUser

\* get_visible_ticket: its owner and administrators see a ticket.
Visible(t, u) == Exists(t) /\ (ticket[t].by = u \/ u \in Admin)

\* list_for_ticket: by created_at.
Listing(t) == InOrder({c \in comments : treq[c].ticket = t}, stamp)

\* row with the values of want in the columns cols.
Merged(row, cols, want) ==
    [by       |-> row.by,
     status   |-> IF "status" \in cols THEN want.status ELSE row.status,
     priority |-> IF "priority" \in cols THEN want.priority ELSE row.priority,
     assignee |-> IF "assignee" \in cols THEN want.assignee ELSE row.assignee]

-----------------------------------------------------------------------------
Submit(r, kind, u, t, cols, want) ==
    /\ At(r, "idle")
    /\ treq' = [treq EXCEPT ![r] =
          [NoRequest EXCEPT !.at = "sent", !.kind = kind, !.by = u, !.ticket = t,
              !.cols = cols, !.want = want,
              !.after = {c \in comments : At(c, "done")}]]
    /\ UNCHANGED <<ticket, comments, applied, view, clock>>

\* Mutant: a clock too coarse to tell transactions apart.
BeginCoarse(r) ==
    /\ stamp' = [stamp EXCEPT ![r] = now]
    /\ UNCHANGED now

\* The request's first statement starts its transaction; a comment's created_at is
\* the time of the transaction, not of the INSERT.
Begin(r) ==
    /\ stamp' = [stamp EXCEPT ![r] = now + 1]
    /\ now' = now + 1

\* require_admin: roles are fixed, so it does not matter that the caller's is
\* read in a statement of its own.
Forbidden(r) == treq[r].kind \in {"change", "dashboard"} /\ treq[r].by \notin Admin

Refuse(r) ==
    /\ At(r, "sent") /\ Forbidden(r)
    /\ Goto(r, "failed")
    /\ UNCHANGED <<ticket, comments, applied, view, clock>>

\* Mutant: the status is left to the client.
InsertTicketWithoutStatus(r) ==
    /\ At(r, "sent") /\ Is(r, "create")
    /\ \E t \in Ticket :
        /\ ~Exists(t)
        /\ ticket' = [ticket EXCEPT ![t] =
              [treq[r].want EXCEPT !.by = treq[r].by, !.status = "", !.assignee = NoUser]]
        /\ treq' = [treq EXCEPT ![r] = [@ EXCEPT !.at = "committed", !.ticket = t]]
    /\ UNCHANGED <<comments, applied, view, clock>>

\* ticket_repository.create, up to its commit.
InsertTicket(r) ==
    /\ At(r, "sent") /\ Is(r, "create")
    /\ \E t \in Ticket :
        /\ ~Exists(t)
        /\ ticket' = [ticket EXCEPT ![t] =
              [treq[r].want EXCEPT !.by = treq[r].by, !.status = "OPEN", !.assignee = NoUser]]
        /\ treq' = [treq EXCEPT ![r] = [@ EXCEPT !.at = "committed", !.ticket = t]]
    /\ UNCHANGED <<comments, applied, view, clock>>

\* get_by_id, or get_visible_ticket; 404 when there is nothing for the caller.
LoadTicket(r) ==
    /\ At(r, "sent") /\ ~Forbidden(r)
    /\ treq[r].kind \in {"read", "comment", "change"}
    /\ IF Is(r, "comment") THEN Begin(r) ELSE UNCHANGED clock
    /\ IF Visible(treq[r].ticket, treq[r].by)
       THEN /\ treq' = [treq EXCEPT ![r] =
                [@ EXCEPT !.at = IF Is(r, "read") THEN "viewing" ELSE "loaded",
                          !.seen = ticket[treq[r].ticket]]]
            /\ view' = [view EXCEPT ![r].row = ticket[treq[r].ticket]]
       ELSE Goto(r, "failed") /\ UNCHANGED view
    /\ UNCHANGED <<ticket, comments, applied>>

\* Mutant: the whole row is written, as it was loaded.
DirtyAll(r) == Column

\* The unit of work writes the columns that differ from the row it loaded.
Dirty(r) ==
    {k \in treq[r].cols :
        \/ k = "status" /\ treq[r].want.status # treq[r].seen.status
        \/ k = "priority" /\ treq[r].want.priority # treq[r].seen.priority
        \/ k = "assignee" /\ treq[r].want.assignee # treq[r].seen.assignee}

\* ticket_repository.update and assign, up to their commit.
CommitChange(r) ==
    /\ At(r, "loaded") /\ Is(r, "change")
    /\ ticket' = [ticket EXCEPT ![treq[r].ticket] =
          Merged(@, Dirty(r), Merged(treq[r].seen, treq[r].cols, treq[r].want))]
    /\ applied' = applied \cup {r}
    /\ Goto(r, "committed")
    /\ UNCHANGED <<comments, view, clock>>

\* Mutant: the answer is made from the row as it was loaded.
RefreshTicketNot(r) ==
    /\ At(r, "committed")
    /\ Goto(r, "viewing")
    /\ UNCHANGED <<ticket, comments, applied, view, clock>>

\* The refresh after the commit, which other commits may have preceded.
RefreshTicket(r) ==
    /\ At(r, "committed")
    /\ view' = [view EXCEPT ![r].row = ticket[treq[r].ticket]]
    /\ Goto(r, "viewing")
    /\ UNCHANGED <<ticket, comments, applied, clock>>

\* _load_detail reads the comments in a statement of its own.
ListComments(r) ==
    /\ At(r, "viewing")
    /\ view' = [view EXCEPT ![r].comments = Listing(treq[r].ticket)]
    /\ Goto(r, "done")
    /\ UNCHANGED <<ticket, comments, applied, clock>>

\* ticket_comment_repository.create, up to its commit.
InsertComment(r) ==
    /\ At(r, "loaded") /\ Is(r, "comment")
    /\ comments' = comments \cup {r}
    /\ Goto(r, "posted")
    /\ UNCHANGED <<ticket, applied, view, clock>>

RefreshComment(r) ==
    /\ At(r, "posted")
    /\ Goto(r, "done")
    /\ UNCHANGED <<ticket, comments, applied, view, clock>>

\* A statement fails or the process dies: nothing of it is kept.
Break(r) ==
    /\ "db" \in Faults
    /\ treq[r].at \notin {"idle", "done", "failed"}
    /\ Goto(r, "failed")
    /\ UNCHANGED <<ticket, comments, applied, view, clock>>

Serve(r) ==
    \/ Refuse(r) \/ InsertTicket(r) \/ LoadTicket(r) \/ CommitChange(r)
    \/ RefreshTicket(r) \/ ListComments(r) \/ InsertComment(r) \/ RefreshComment(r)
    \/ Break(r)

\* PATCH names a status, a priority or both; assign names the assignee.
Changes == {{"assignee"}, {"status"}, {"priority"}, {"status", "priority"}}

\* The rows that give the columns cols a value.
Wants(cols) ==
    {want \in Row : want.by = NoUser /\ \A k \in Column \ cols : want[k] = NoRow[k]}

\* Any client may name any ticket there is, and any user as the assignee.
SubmitAny(r) ==
    \E u \in User :
        \/ \E want \in Wants({"priority"}) : Submit(r, "create", u, NoTicket, {"priority"}, want)
        \/ \E t \in Ticket : Exists(t) /\
              \/ \E kind \in {"read", "comment"} : Submit(r, kind, u, t, {}, NoRow)
              \/ \E cols \in Changes : \E want \in Wants(cols) :
                    Submit(r, "change", u, t, cols, want)
        \/ Submit(r, "dashboard", u, NoTicket, {}, NoRow)
=============================================================================
