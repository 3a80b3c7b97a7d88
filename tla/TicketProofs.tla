---------------------------- MODULE TicketProofs ----------------------------
(***************************************************************************)
(* Theorems about the ticket endpoints with the dashboard, and about the   *)
(* page that calls them, for any number of users, tickets and requests and *)
(* whatever fails.                                                         *)
(***************************************************************************)
EXTENDS TicketPage, TimelineProofs, TLAPS

Types ==
    /\ ticket \in [Ticket -> Row]
    /\ comments \subseteq Request
    /\ applied \subseteq Request
    /\ treq \in [Request -> TicketRequest]
    /\ stamp \in [Request -> Nat]
    /\ now \in Nat

\* What is known of one request, wherever the others are.
Known(r) ==
    /\ treq[r].at # "idle" => treq[r].by \in User
    /\ treq[r].at = "loaded" => Visible(treq[r].ticket, treq[r].by)
    /\ treq[r].at = "loaded" /\ Is(r, "change") => treq[r].by \in Admin
    /\ Is(r, "change") => treq[r].ticket \in Ticket
    /\ r \in comments => Is(r, "comment") /\ treq[r].at \notin {"idle", "sent", "loaded"}
    /\ r \in applied => Is(r, "change") /\ treq[r].at \notin {"idle", "sent", "loaded"}
    /\ treq[r].after \subseteq comments
    /\ stamp[r] <= now
    /\ r \in comments \/ (Is(r, "comment") /\ At(r, "loaded")) =>
           \A d \in treq[r].after : stamp[d] < stamp[r]

IInv == Types /\ \A r \in Request : Known(r)

Step(r) == SubmitAny(r) \/ ServeAny(r)

-----------------------------------------------------------------------------
LEMMA GotoTypes ==
    ASSUME NEW r \in Request, NEW point \in Point, Goto(r, point),
           treq \in [Request -> TicketRequest]
    PROVE  treq' \in [Request -> TicketRequest]
BY DEF Goto, TicketRequest

LEMMA GotoKeeps ==
    ASSUME NEW r \in Request, NEW point, Goto(r, point), treq \in [Request -> TicketRequest]
    PROVE  /\ treq'[r].at = point
           /\ treq'[r].kind = treq[r].kind /\ treq'[r].by = treq[r].by
           /\ treq'[r].ticket = treq[r].ticket /\ treq'[r].cols = treq[r].cols
           /\ treq'[r].want = treq[r].want /\ treq'[r].after = treq[r].after
BY DEF Goto, TicketRequest

LEMMA RequestTypes ==
    ASSUME NEW q \in TicketRequest, NEW point \in Point,
           NEW t \in Ticket \cup {NoTicket}, NEW row \in Row
    PROVE  /\ [q EXCEPT !.at = point, !.ticket = t] \in TicketRequest
           /\ [q EXCEPT !.at = point, !.seen = row] \in TicketRequest
BY DEF TicketRequest

LEMMA NoRowTypes == ASSUME TicketsAssumption PROVE NoRow \in Row
BY DEF NoRow, Row, TicketsAssumption

LEMMA MergedTypes ==
    ASSUME NEW row \in Row, NEW want \in Row, NEW cols
    PROVE  Merged(row, cols, want) \in Row /\ Merged(row, cols, want).by = row.by
BY DEF Merged, Row

\* A submission: what the new request is.
LEMMA Submitted ==
    ASSUME NEW r \in Request, SubmitAny(r), Types, TicketsAssumption
    PROVE  /\ At(r, "idle")
           /\ treq' \in [Request -> TicketRequest]
           /\ treq'[r].at = "sent" /\ treq'[r].by \in User
           /\ treq'[r].after = {c \in comments : At(c, "done")}
           /\ treq'[r].kind = "change" => treq'[r].ticket \in Ticket
           /\ \A s \in Request \ {r} : treq'[s] = treq[s]
           /\ UNCHANGED <<ticket, comments, applied, view, clock>>
<1>1. PICK u \in User, kind \in Kind, t \in Ticket \cup {NoTicket}, cols \in SUBSET Column, want \in Row :
        Submit(r, kind, u, t, cols, want) /\ (kind = "change" => t \in Ticket)
    <2>1. NoRow \in Row BY NoRowTypes
    <2>2. {"priority"} \in SUBSET Column /\ {} \in SUBSET Column BY DEF Column
    <2>3. \A cols \in Changes : cols \in SUBSET Column BY DEF Changes, Column
    <2>4. \A cols : Wants(cols) \subseteq Row BY DEF Wants
    <2>5. {"create", "read", "comment", "change", "dashboard"} \subseteq Kind BY DEF Kind
    <2> QED BY <2>1, <2>2, <2>3, <2>4, <2>5 DEF SubmitAny
<1>2. NoRow \in Row BY NoRowTypes
<1> DEFINE new == [NoRequest EXCEPT !.at = "sent", !.kind = kind, !.by = u, !.ticket = t,
                      !.cols = cols, !.want = want, !.after = {c \in comments : At(c, "done")}]
<1>3. treq' = [treq EXCEPT ![r] = new] BY <1>1 DEF Submit
<1>4. new \in TicketRequest /\ new.at = "sent" /\ new.by = u
      /\ new.kind = kind /\ new.ticket = t
      /\ new.after = {c \in comments : At(c, "done")}
    BY <1>2 DEF NoRequest, TicketRequest, Point, Types
<1> HIDE DEF new
<1> QED BY <1>1, <1>3, <1>4 DEF Submit, Types

\* r's step leaves the other requests alone.
LEMMA StepOthers ==
    ASSUME NEW r \in Request, Step(r), Types, TicketsAssumption
    PROVE  /\ \A s \in Request \ {r} : treq'[s] = treq[s]
           /\ \A s \in Request \ {r} : s \in comments' <=> s \in comments
           /\ \A s \in Request \ {r} : s \in applied' <=> s \in applied
           /\ \A s \in Request \ {r} : stamp'[s] = stamp[s]
           /\ comments \subseteq comments'
           /\ \A t \in Ticket : ticket[t].by # NoUser => ticket'[t].by = ticket[t].by
<1> USE DEF Types, Goto, clock
<1>1. CASE SubmitAny(r) BY <1>1, Submitted
<1>2. CASE InsertTicket(r) BY <1>2 DEF InsertTicket, Exists
<1>3. CASE LoadTicket(r) BY <1>3 DEF LoadTicket, Begin
<1>4. CASE CommitChange(r)
    <2>1. treq[r].seen \in Row /\ treq[r].want \in Row BY DEF TicketRequest
    <2>2. \A t \in Ticket : ticket'[t].by = ticket[t].by
        BY <1>4, <2>1, MergedTypes DEF CommitChange
    <2> QED BY <1>4, <2>2 DEF CommitChange
<1>5. CASE InsertComment(r) BY <1>5 DEF InsertComment
<1>6. CASE Refuse(r) \/ RefreshTicket(r) \/ ListComments(r) \/ RefreshComment(r) \/ Break(r) \/ CountNext(r)
    BY <1>6 DEF Refuse, RefreshTicket, ListComments, RefreshComment, Break, CountNext
<1> QED BY <1>1, <1>2, <1>3, <1>4, <1>5, <1>6 DEF Step, ServeAny, Serve

LEMMA StepTypes ==
    ASSUME NEW r \in Request, Step(r), IInv, TicketsAssumption
    PROVE  Types'
<1>1. Types /\ Known(r) BY DEF IInv
<1> USE <1>1 DEF Types, clock
<1>2. CASE SubmitAny(r) BY <1>2, Submitted
<1>3. CASE InsertTicket(r)
    <2>1. PICK t \in Ticket :
            /\ ticket' = [ticket EXCEPT ![t] =
                 [treq[r].want EXCEPT !.by = treq[r].by, !.status = "OPEN", !.assignee = NoUser]]
            /\ treq' = [treq EXCEPT ![r] = [@ EXCEPT !.at = "committed", !.ticket = t]]
        BY <1>3 DEF InsertTicket
    <2>2. treq[r].want \in Row /\ treq[r].by \in User \cup {NoUser} BY DEF TicketRequest
    <2>3. [treq[r].want EXCEPT !.by = treq[r].by, !.status = "OPEN", !.assignee = NoUser] \in Row
        BY <2>2 DEF Row, TicketsAssumption
    <2>. "committed" \in Point /\ treq[r] \in TicketRequest /\ treq[r].want \in Row BY <2>2 DEF Point
    <2>4. [treq[r] EXCEPT !.at = "committed", !.ticket = t] \in TicketRequest
        BY RequestTypes
    <2>5. treq' \in [Request -> TicketRequest] BY <2>1, <2>4
    <2> QED BY <1>3, <2>1, <2>3, <2>5 DEF InsertTicket
<1>4. CASE LoadTicket(r)
    <2>1. CASE Visible(treq[r].ticket, treq[r].by)
        <3>1. ticket[treq[r].ticket] \in Row BY <2>1 DEF Visible, Exists
        <3>2. PICK point \in Point :
                treq' = [treq EXCEPT ![r] = [@ EXCEPT !.at = point, !.seen = ticket[treq[r].ticket]]]
            BY <1>4, <2>1 DEF LoadTicket, Point
        <3>3. [treq[r] EXCEPT !.at = point, !.seen = ticket[treq[r].ticket]] \in TicketRequest
            BY <3>1, RequestTypes
        <3>4. treq' \in [Request -> TicketRequest] BY <3>2, <3>3
        <3> QED BY <1>4, <3>4 DEF LoadTicket, Begin
    <2>2. CASE ~Visible(treq[r].ticket, treq[r].by)
        <3>1. treq' \in [Request -> TicketRequest] BY <1>4, <2>2, GotoTypes DEF LoadTicket, Point
        <3> QED BY <1>4, <3>1 DEF LoadTicket, Begin
    <2> QED BY <2>1, <2>2
<1>5. CASE CommitChange(r)
    <2>1. treq' \in [Request -> TicketRequest] BY <1>5, GotoTypes DEF CommitChange, Point
    <2>2. treq[r].ticket \in Ticket /\ treq[r].seen \in Row /\ treq[r].want \in Row
        BY <1>5 DEF CommitChange, Known, At, Visible, Exists, TicketRequest
    <2>3. Merged(treq[r].seen, treq[r].cols, treq[r].want) \in Row BY <2>2, MergedTypes
    <2>4. Merged(ticket[treq[r].ticket], Dirty(r), Merged(treq[r].seen, treq[r].cols, treq[r].want)) \in Row
        BY <2>2, <2>3, MergedTypes
    <2> QED BY <1>5, <2>1, <2>4 DEF CommitChange
<1>6. CASE InsertComment(r)
    <2>1. treq' \in [Request -> TicketRequest] BY <1>6, GotoTypes DEF InsertComment, Point
    <2> QED BY <1>6, <2>1 DEF InsertComment
<1>7. CASE Refuse(r) \/ RefreshTicket(r) \/ ListComments(r) \/ RefreshComment(r) \/ Break(r) \/ CountNext(r)
    <2>1. treq' = treq \/ \E point \in Point : Goto(r, point)
        BY <1>7 DEF Refuse, RefreshTicket, ListComments, RefreshComment, Break, CountNext, Point
    <2>2. treq' \in [Request -> TicketRequest] BY <2>1, GotoTypes
    <2> QED BY <1>7, <2>2 DEF Refuse, RefreshTicket, ListComments, RefreshComment, Break, CountNext
<1> QED BY <1>2, <1>3, <1>4, <1>5, <1>6, <1>7 DEF Step, ServeAny, Serve

\* The clock only goes forward, and the time of a stored comment is fixed.
LEMMA StepStamps ==
    ASSUME NEW r \in Request, Step(r), IInv, TicketsAssumption
    PROVE  /\ now <= now'
           /\ \A s \in comments : stamp'[s] = stamp[s]
           /\ \A s \in Request : stamp'[s] <= now'
<1>1. Types /\ Known(r) /\ \A s \in Request : stamp[s] <= now BY DEF IInv, Known
<1> USE <1>1 DEF Types, clock
<1>2. CASE LoadTicket(r) /\ Is(r, "comment")
    <2>1. r \notin comments BY <1>2 DEF LoadTicket, Known, At
    <2>2. now' = now + 1 /\ stamp' = [stamp EXCEPT ![r] = now + 1] BY <1>2 DEF LoadTicket, Begin
    <2> QED BY <2>1, <2>2
<1>3. CASE ~(LoadTicket(r) /\ Is(r, "comment"))
    <2>1. UNCHANGED clock
        BY <1>3 DEF Step, SubmitAny, Submit, ServeAny, Serve, Refuse, InsertTicket, LoadTicket,
                    CommitChange, RefreshTicket, ListComments, InsertComment, RefreshComment,
                    Break, CountNext
    <2> QED BY <2>1
<1> QED BY <1>2, <1>3

\* What is known of the other requests stays true.
LEMMA Frame ==
    ASSUME NEW r \in Request, Step(r), IInv, TicketsAssumption, NEW s \in Request \ {r}
    PROVE  Known(s)'
<1>1. Types /\ Known(s) BY DEF IInv
<1>2. treq'[s] = treq[s] /\ (s \in comments' <=> s \in comments)
      /\ (s \in applied' <=> s \in applied) /\ stamp'[s] = stamp[s]
      /\ comments \subseteq comments'
    BY <1>1, StepOthers
<1>3. Visible(treq[s].ticket, treq[s].by) => Visible(treq[s].ticket, treq[s].by)'
    BY <1>1, <1>2, StepOthers DEF Visible, Exists
<1>4. stamp'[s] <= now' /\ \A d \in treq[s].after : stamp'[d] = stamp[d]
    BY <1>1, StepStamps DEF Known
<1> QED BY <1>1, <1>2, <1>3, <1>4 DEF Known, At, Is

\* What is known of r after its own step.
LEMMA OwnStep ==
    ASSUME NEW r \in Request, Step(r), IInv, TicketsAssumption
    PROVE  Known(r)'
<1>1. Types /\ Known(r) /\ \A s \in Request : stamp[s] <= now BY DEF IInv, Known
<1>2. stamp'[r] <= now' /\ (\A s \in comments : stamp'[s] = stamp[s]) /\ comments \subseteq comments'
    BY <1>1, StepStamps, StepOthers
<1> USE <1>1, <1>2 DEF At, Is
<1>3. CASE SubmitAny(r)
    <2>1. /\ treq[r].at = "idle" /\ treq'[r].at = "sent" /\ treq'[r].by \in User
          /\ treq'[r].kind = "change" => treq'[r].ticket \in Ticket
          /\ treq'[r].after \subseteq comments /\ comments' = comments /\ applied' = applied
        BY <1>3, Submitted
    <2> QED BY <2>1 DEF Known
<1>4. CASE InsertTicket(r)
    <2>1. PICK t \in Ticket : treq' = [treq EXCEPT ![r] = [@ EXCEPT !.at = "committed", !.ticket = t]]
        BY <1>4 DEF InsertTicket
    <2>2. /\ treq'[r].at = "committed" /\ treq'[r].by = treq[r].by /\ treq'[r].kind = treq[r].kind
          /\ treq'[r].after = treq[r].after
        BY <2>1 DEF Types, TicketRequest
    <2>3. comments' = comments /\ applied' = applied BY <1>4 DEF InsertTicket
    <2> QED BY <1>4, <2>2, <2>3 DEF Known, InsertTicket
<1>5. CASE LoadTicket(r)
    <2>1. comments' = comments /\ applied' = applied /\ ticket' = ticket /\ treq[r].at = "sent"
        BY <1>5 DEF LoadTicket
    <2>2. r \notin comments /\ r \notin applied /\ treq[r].by \in User BY <2>1 DEF Known
    <2>3. CASE Visible(treq[r].ticket, treq[r].by)
        <3>1. treq' = [treq EXCEPT ![r] = [@ EXCEPT !.at = IF Is(r, "read") THEN "viewing" ELSE "loaded",
                                                    !.seen = ticket[treq[r].ticket]]]
            BY <1>5, <2>3 DEF LoadTicket
        <3>2. /\ treq'[r].at \in {"viewing", "loaded"} /\ treq'[r].by = treq[r].by
              /\ treq'[r].kind = treq[r].kind /\ treq'[r].ticket = treq[r].ticket
              /\ treq'[r].after = treq[r].after
            BY <3>1 DEF Types, TicketRequest
        <3>3. Is(r, "change") => treq[r].by \in Admin BY <1>5, <2>2 DEF LoadTicket, Forbidden
        <3>4. Visible(treq[r].ticket, treq[r].by)' BY <2>1, <2>3, <3>2 DEF Visible, Exists
        <3>5. Is(r, "comment") => \A d \in treq[r].after : stamp'[d] < stamp'[r]
            BY <1>5 DEF LoadTicket, Begin, Types, Known
        <3> QED BY <2>1, <2>2, <3>2, <3>3, <3>4, <3>5 DEF Known
    <2>4. CASE ~Visible(treq[r].ticket, treq[r].by)
        <3>1. /\ treq'[r].at = "failed" /\ treq'[r].by = treq[r].by /\ treq'[r].after = treq[r].after
              /\ treq'[r].kind = treq[r].kind /\ treq'[r].ticket = treq[r].ticket
            BY <1>5, <2>4, GotoKeeps DEF LoadTicket, Types
        <3> QED BY <2>1, <2>2, <3>1 DEF Known
    <2> QED BY <2>3, <2>4
<1>6. CASE CommitChange(r)
    <2>1. /\ treq'[r].at = "committed" /\ treq'[r].by = treq[r].by /\ treq'[r].kind = treq[r].kind
          /\ treq'[r].after = treq[r].after /\ treq'[r].ticket = treq[r].ticket
        BY <1>6, GotoKeeps DEF CommitChange, Types
    <2>2. comments' = comments /\ r \notin comments /\ treq[r].kind = "change" /\ treq[r].by \in User
        BY <1>6 DEF CommitChange, Known
    <2> QED BY <2>1, <2>2 DEF Known
<1>7. CASE InsertComment(r)
    <2>1. /\ treq'[r].at = "posted" /\ treq'[r].by = treq[r].by /\ treq'[r].kind = treq[r].kind
          /\ treq'[r].after = treq[r].after /\ treq'[r].ticket = treq[r].ticket
        BY <1>7, GotoKeeps DEF InsertComment, Types
    <2>2. /\ applied' = applied /\ r \notin applied /\ treq[r].kind = "comment" /\ treq[r].at = "loaded"
          /\ stamp' = stamp
        BY <1>7 DEF InsertComment, Known, clock
    <2> QED BY <2>1, <2>2 DEF Known
<1>8. CASE Refuse(r) \/ RefreshTicket(r) \/ ListComments(r) \/ RefreshComment(r) \/ Break(r) \/ CountNext(r)
    <2>1. comments' = comments /\ applied' = applied /\ stamp' = stamp
        BY <1>8 DEF Refuse, RefreshTicket, ListComments, RefreshComment, Break, CountNext, clock
    <2>2. treq' = treq \/ \E point \in {"failed", "viewing", "done"} : Goto(r, point)
        BY <1>8 DEF Refuse, RefreshTicket, ListComments, RefreshComment, Break, CountNext
    <2>3. treq[r].at # "idle"
        BY <1>8 DEF Refuse, RefreshTicket, ListComments, RefreshComment, Break, CountNext
    <2>4. CASE treq' = treq
        <3>1. treq[r].at = "sent" /\ ticket' = ticket
            BY <1>8, <2>4, GotoKeeps DEF Refuse, RefreshTicket, ListComments, RefreshComment, Break,
               CountNext, Types
        <3> QED BY <2>1, <2>4, <3>1 DEF Known
    <2>5. CASE \E point \in {"failed", "viewing", "done"} : Goto(r, point)
        <3>1. /\ treq'[r].at \in {"failed", "viewing", "done"} /\ treq'[r].by = treq[r].by
              /\ treq'[r].kind = treq[r].kind /\ treq'[r].after = treq[r].after
              /\ treq'[r].ticket = treq[r].ticket
            BY <2>5, GotoKeeps DEF Types
        <3> QED BY <2>1, <2>3, <3>1 DEF Known
    <2> QED BY <2>2, <2>4, <2>5
<1> QED BY <1>3, <1>4, <1>5, <1>6, <1>7, <1>8 DEF Step, ServeAny, Serve

LEMMA IInvStep ==
    ASSUME NEW r \in Request, Step(r), IInv, TicketsAssumption
    PROVE  IInv'
<1>1. Types' BY StepTypes
<1>2. \A s \in Request : Known(s)' BY Frame, OwnStep
<1> QED BY <1>1, <1>2 DEF IInv

LEMMA IInvInit == TicketsInit /\ TicketsAssumption => IInv
<1> SUFFICES ASSUME TicketsInit, TicketsAssumption PROVE IInv OBVIOUS
<1> USE DEF TicketsInit
<1>1. NoRow \in Row BY NoRowTypes
<1>2. \A u \in User : [NoRow EXCEPT !.by = u] \in Row BY <1>1 DEF Row
<1>3. NoRequest \in TicketRequest BY <1>1 DEF NoRequest, TicketRequest, Point, Kind
<1>4. Types BY <1>1, <1>2, <1>3 DEF Types
<1>5. \A r \in Request : treq[r].at = "idle" /\ treq[r].after = {} /\ treq[r].kind = "read"
    BY DEF NoRequest
<1>6. \A r \in Request : Known(r) BY <1>5 DEF Known, At, Is
<1> QED BY <1>4, <1>6 DEF IInv

LEMMA IInvInvariant == TicketsSpec => []IInv
<1>1. DashboardInit => IInv BY IInvInit, TicketsAssumption DEF DashboardInit
<1>2. IInv /\ [TicketsNext]_<<ticketVars, counts>> => IInv'
    <2> SUFFICES ASSUME IInv, [TicketsNext]_<<ticketVars, counts>> PROVE IInv' OBVIOUS
    <2>1. ASSUME NEW r \in Request, Step(r) PROVE IInv' BY <2>1, IInvStep, TicketsAssumption
    <2>2. CASE UNCHANGED <<ticketVars, counts>>
        BY <2>2 DEF ticketVars, IInv, Types, Known, At, Is, Visible, Exists
    <2> QED BY <2>1, <2>2 DEF TicketsNext, Step
<1> QED BY <1>1, <1>2, PTL DEF TicketsSpec

\* A comment made after another was answered is listed after it, however their
\* transactions overlap with others (ticket_comment_repository.list_for_ticket).
THEOREM CommentsStayInOrder == TicketsSpec => []CommentsInOrder
<1>1. IInv => CommentsInOrder BY DEF IInv, Known, CommentsInOrder, Types
<1> QED BY <1>1, IInvInvariant, PTL

-----------------------------------------------------------------------------
(* The tables implement the board.                                         *)

AskedWishes == {WishOf(r) : r \in Admitted}

LEMMA WishMembers ==
    /\ \A a \in AskedWishes : a.id \in Admitted /\ a = WishOf(a.id)
    /\ \A r \in Admitted : WishOf(r) \in AskedWishes
    /\ \A r : WishOf(r).id = r
<1>1. \A r : WishOf(r).id = r BY DEF WishOf
<1>2. ASSUME NEW a \in AskedWishes PROVE a.id \in Admitted /\ a = WishOf(a.id)
    <2> PICK r \in Admitted : a = WishOf(r) BY DEF AskedWishes
    <2> QED BY <1>1
<1>3. \A r \in Admitted : WishOf(r) \in AskedWishes BY DEF AskedWishes
<1> QED BY <1>1, <1>2, <1>3

LEMMA ThreadMembers ==
    /\ \A x \in Thread : x[1] \in comments
    /\ \A c \in comments : <<c, treq[c].ticket, treq[c].by>> \in Thread
BY DEF Thread

LEMMA ColumnsTypes ==
    ASSUME NEW row \in Row
    PROVE  Columns(row) \in [Column -> Status \cup Priority \cup User \cup {NoUser}]
BY DEF Columns, Column, Row

LEMMA WishTypes ==
    ASSUME NEW r \in Request, Types, treq[r].by \in Admin, treq[r].ticket \in Ticket
    PROVE  WishOf(r) \in Board!Wish
<1>1. treq[r].want \in Row /\ treq[r].cols \in SUBSET Column BY DEF Types, TicketRequest
<1>2. Columns(treq[r].want) \in [Column -> Status \cup Priority \cup User \cup {NoUser}]
    BY <1>1, ColumnsTypes
<1> QED BY <1>1, <1>2 DEF WishOf, Board!Wish

\* The row a change leaves, column by column.
LEMMA ColumnsWritten ==
    ASSUME NEW row \in Row, NEW seen \in Row, NEW want \in Row,
           NEW cols \in SUBSET Column, NEW dirty \in SUBSET cols
    PROVE  Columns(Merged(row, dirty, Merged(seen, cols, want))) =
               [k \in Column |-> IF k \in dirty THEN Columns(want)[k] ELSE Columns(row)[k]]
<1> DEFINE new == Merged(row, dirty, Merged(seen, cols, want))
<1>1. new.status = IF "status" \in dirty THEN want.status ELSE row.status BY DEF Merged
<1>2. new.priority = IF "priority" \in dirty THEN want.priority ELSE row.priority BY DEF Merged
<1>3. new.assignee = IF "assignee" \in dirty THEN want.assignee ELSE row.assignee BY DEF Merged
<1> HIDE DEF new
<1>4. Columns(new) = [k \in Column |-> IF k \in dirty THEN Columns(want)[k] ELSE Columns(row)[k]]
    BY <1>1, <1>2, <1>3 DEF Columns, Column
<1> QED BY <1>4 DEF new

LEMMA SameBoard ==
    ASSUME ticket' = ticket, comments' = comments, applied' = applied, Admitted' = Admitted,
           \A r \in Admitted : WishOf(r)' = WishOf(r),
           \A c \in comments : treq'[c].ticket = treq[c].ticket /\ treq'[c].by = treq[c].by
    PROVE  UNCHANGED Board!boardVars
<1>1. AskedWishes' = AskedWishes BY DEF AskedWishes
<1>2. Thread' = Thread BY DEF Thread
<1> QED BY <1>1, <1>2 DEF Board!boardVars, AskedWishes

\* A step of r that only advances it: an administrator's change that is read
\* is one that is asked for.
LEMMA Advances ==
    ASSUME NEW r \in Request, IInv, TicketsAssumption,
           ticket' = ticket, comments' = comments, applied' = applied,
           \A s \in Request \ {r} : treq'[s] = treq[s],
           treq[r].at # "idle", treq'[r].at # "idle",
           treq'[r].by = treq[r].by, treq'[r].kind = treq[r].kind, treq'[r].ticket = treq[r].ticket,
           treq'[r].cols = treq[r].cols, treq'[r].want = treq[r].want,
           treq[r].at # "sent" => treq'[r].at # "sent"
    PROVE  Board!Next \/ UNCHANGED Board!boardVars
<1>1. Types /\ Known(r) BY DEF IInv
<1>2. \A s \in Request : WishOf(s)' = WishOf(s)
    <2>1. \A s \in Request \ {r} : WishOf(s)' = WishOf(s) BY DEF WishOf
    <2>2. WishOf(r)' = WishOf(r) BY DEF WishOf
    <2> QED BY <2>1, <2>2
<1>3. \A c \in comments : treq'[c].ticket = treq[c].ticket /\ treq'[c].by = treq[c].by
    BY <1>1 DEF Types
<1>4. CASE treq[r].at = "sent" /\ treq'[r].at # "sent" /\ Is(r, "change") /\ treq[r].by \in Admin
    <2>1. Admitted' = Admitted \cup {r} /\ r \notin Admitted BY <1>4 DEF Admitted, Is
    <2>2. AskedWishes' = AskedWishes \cup {WishOf(r)} BY <1>2, <2>1 DEF AskedWishes, Admitted
    <2>3. WishOf(r) \in Board!Wish BY <1>1, <1>4, WishTypes DEF Known
    <2>4. \A b \in AskedWishes : b.id # WishOf(r).id BY <2>1, WishMembers
    <2>5. Thread' = Thread BY <1>3 DEF Thread
    <2>6. Board!Ask(WishOf(r)) BY <2>2, <2>3, <2>4, <2>5 DEF Board!Ask, AskedWishes
    <2>7. WishOf(r) \in AskedWishes' BY <2>2
    <2> QED BY <2>6, <2>7 DEF Board!Next, AskedWishes
<1>5. CASE ~(treq[r].at = "sent" /\ treq'[r].at # "sent" /\ Is(r, "change") /\ treq[r].by \in Admin)
    <2>1. r \in Admitted' <=> r \in Admitted BY <1>5 DEF Admitted, Is
    <2>2. Admitted' = Admitted BY <2>1 DEF Admitted, Is
    <2>3. \A s \in Admitted : WishOf(s)' = WishOf(s) BY <1>2 DEF Admitted
    <2> QED BY <1>3, <2>2, <2>3, SameBoard
<1> QED BY <1>4, <1>5

\* Each step is a step of the board, or none.
LEMMA StepSimulates ==
    ASSUME NEW r \in Request, IInv, Step(r), TicketsAssumption
    PROVE  Board!Next \/ UNCHANGED Board!boardVars
<1>1. Types /\ Known(r) BY DEF IInv
<1>2. \A s \in Request \ {r} : treq'[s] = treq[s] BY <1>1, StepOthers
<1>3. treq[r] \in TicketRequest /\ treq \in [Request -> TicketRequest] BY <1>1 DEF Types
<1>4. \A s \in Request \ {r} : WishOf(s)' = WishOf(s) BY <1>2 DEF WishOf
<1>5. CASE SubmitAny(r)
    <2>1. treq[r].at = "idle" /\ treq'[r].at = "sent" BY <1>1, <1>5, Submitted DEF At
    <2>2. ticket' = ticket /\ comments' = comments /\ applied' = applied BY <1>1, <1>5, Submitted
    <2>3. r \notin comments BY <1>1, <2>1 DEF Known
    <2>4. r \notin Admitted /\ Admitted' = Admitted BY <1>2, <2>1 DEF Admitted, Is
    <2>5. \A s \in Admitted : WishOf(s)' = WishOf(s) BY <1>4, <2>4 DEF Admitted
    <2>6. \A c \in comments : treq'[c] = treq[c] BY <1>1, <1>2, <2>3 DEF Types
    <2> QED BY <2>2, <2>4, <2>5, <2>6, SameBoard
<1>6. CASE InsertTicket(r)
    <2>1. PICK t \in Ticket :
            /\ ~Exists(t)
            /\ ticket' = [ticket EXCEPT ![t] =
                 [treq[r].want EXCEPT !.by = treq[r].by, !.status = "OPEN", !.assignee = NoUser]]
            /\ treq' = [treq EXCEPT ![r] = [@ EXCEPT !.at = "committed", !.ticket = t]]
        BY <1>6 DEF InsertTicket
    <2>2. comments' = comments /\ applied' = applied /\ treq[r].kind = "create" /\ treq[r].at = "sent"
        BY <1>6 DEF InsertTicket, At, Is
    <2>3. treq'[r].kind = "create" BY <1>3, <2>1, <2>2 DEF TicketRequest
    <2>4. r \notin comments /\ r \notin Admitted /\ Admitted' = Admitted
        BY <1>1, <1>2, <2>2, <2>3 DEF Known, Admitted, Is
    <2>5. AskedWishes' = AskedWishes BY <1>4, <2>4 DEF AskedWishes, Admitted
    <2>6. Thread' = Thread BY <1>1, <1>2, <2>2, <2>4 DEF Thread, Types
    <2> DEFINE row == [treq[r].want EXCEPT !.by = treq[r].by, !.status = "OPEN", !.assignee = NoUser]
    <2>7. treq[r].want \in Row /\ treq[r].by \in User BY <1>1, <1>3, <2>2 DEF TicketRequest, Known
    <2>8. row \in Row /\ row.by = treq[r].by BY <2>7 DEF Row, TicketsAssumption
    <2> HIDE DEF row
    <2>9. ticket' = [ticket EXCEPT ![t] = row] BY <2>1 DEF row
    <2>10. /\ [s \in Ticket |-> ticket[s].by]' = [[s \in Ticket |-> ticket[s].by] EXCEPT ![t] = treq[r].by]
           /\ [s \in Ticket |-> Columns(ticket[s])]' =
                  [[s \in Ticket |-> Columns(ticket[s])] EXCEPT ![t] = Columns(row)]
        BY <1>1, <2>8, <2>9 DEF Types, Columns
    <2>11. Columns(row) \in [Column -> Status \cup Priority \cup User \cup {NoUser}]
        BY <2>8, ColumnsTypes
    <2>12. \E u \in User : Board!Open(t, u)
        BY <2>1, <2>2, <2>7, <2>5, <2>6, <2>10, <2>11 DEF Board!Open, Exists, AskedWishes
    <2> QED BY <2>12 DEF Board!Next
<1>7. CASE LoadTicket(r)
    <2>1. ticket' = ticket /\ comments' = comments /\ applied' = applied /\ treq[r].at = "sent"
        BY <1>7 DEF LoadTicket, At
    <2>2. CASE Visible(treq[r].ticket, treq[r].by)
        <3>1. treq' = [treq EXCEPT ![r] = [@ EXCEPT !.at = IF Is(r, "read") THEN "viewing" ELSE "loaded",
                                                    !.seen = ticket[treq[r].ticket]]]
            BY <1>7, <2>2 DEF LoadTicket
        <3>2. /\ treq'[r].at # "idle" /\ treq'[r].by = treq[r].by
              /\ treq'[r].kind = treq[r].kind /\ treq'[r].ticket = treq[r].ticket
              /\ treq'[r].cols = treq[r].cols /\ treq'[r].want = treq[r].want
            BY <1>3, <3>1 DEF TicketRequest
        <3> QED BY <1>2, <2>1, <3>2, Advances
    <2>3. CASE ~Visible(treq[r].ticket, treq[r].by)
        <3>1. Goto(r, "failed") BY <1>7, <2>3 DEF LoadTicket
        <3> QED BY <1>2, <1>3, <2>1, <3>1, GotoKeeps, Advances
    <2> QED BY <2>2, <2>3
<1>8. CASE CommitChange(r)
    <2>1. /\ Goto(r, "committed") /\ applied' = applied \cup {r} /\ comments' = comments
          /\ ticket' = [ticket EXCEPT ![treq[r].ticket] =
                Merged(@, Dirty(r), Merged(treq[r].seen, treq[r].cols, treq[r].want))]
          /\ treq[r].at = "loaded" /\ Is(r, "change")
        BY <1>8 DEF CommitChange, At
    <2>2. /\ treq'[r].at = "committed"
          /\ treq'[r].kind = treq[r].kind /\ treq'[r].by = treq[r].by
          /\ treq'[r].ticket = treq[r].ticket /\ treq'[r].cols = treq[r].cols
          /\ treq'[r].want = treq[r].want
        BY <1>3, <2>1, GotoKeeps
    <2>3. /\ r \notin applied /\ treq[r].by \in Admin /\ treq[r].ticket \in Ticket
          /\ ticket[treq[r].ticket].by # NoUser
        BY <1>1, <2>1 DEF Known, At, Visible, Exists
    <2>4. Admitted' = Admitted /\ r \in Admitted BY <1>2, <2>1, <2>2, <2>3 DEF Admitted, Is
    <2>5. WishOf(r)' = WishOf(r) BY <2>2 DEF WishOf
    <2>6. AskedWishes' = AskedWishes BY <1>4, <2>4, <2>5 DEF AskedWishes, Admitted
    <2>7. Thread' = Thread BY <1>1, <1>2, <2>1, <2>2 DEF Thread, Types
    <2> DEFINE t == treq[r].ticket
               row == Merged(ticket[t], Dirty(r), Merged(treq[r].seen, treq[r].cols, treq[r].want))
    <2>8. ticket[t] \in Row /\ treq[r].seen \in Row /\ treq[r].want \in Row
          /\ treq[r].cols \in SUBSET Column /\ Dirty(r) \in SUBSET treq[r].cols
        BY <1>1, <1>3, <2>3 DEF Types, TicketRequest, Dirty
    <2>9. Columns(row) = [k \in Column |-> IF k \in Dirty(r) THEN Columns(treq[r].want)[k]
                                           ELSE Columns(ticket[t])[k]]
        BY <2>8, ColumnsWritten
    <2>10. row.by = ticket[t].by BY DEF Merged
    <2>11. t \in Ticket /\ ticket' = [ticket EXCEPT ![t] = row] BY <2>1, <2>3
    <2> HIDE DEF row
    <2>12. /\ [s \in Ticket |-> ticket[s].by]' = [s \in Ticket |-> ticket[s].by]
           /\ [s \in Ticket |-> Columns(ticket[s])]' =
                  [[s \in Ticket |-> Columns(ticket[s])] EXCEPT ![t] = Columns(row)]
        BY <1>1, <2>10, <2>11 DEF Types, Columns
    <2>13. /\ WishOf(r) \in AskedWishes /\ WishOf(r).id = r /\ WishOf(r).ticket = t
           /\ WishOf(r).cols = treq[r].cols /\ WishOf(r).want = Columns(treq[r].want)
        BY <2>4, WishMembers DEF WishOf
    <2>14. Board!Apply(WishOf(r), Dirty(r))
        BY <2>1, <2>3, <2>6, <2>7, <2>8, <2>9, <2>12, <2>13 DEF Board!Apply, AskedWishes
    <2> QED BY <2>8, <2>13, <2>14 DEF Board!Next, AskedWishes
<1>9. CASE InsertComment(r)
    <2>1. /\ comments' = comments \cup {r} /\ Goto(r, "posted") /\ ticket' = ticket
          /\ applied' = applied /\ treq[r].at = "loaded" /\ Is(r, "comment")
        BY <1>9 DEF InsertComment, At
    <2>2. treq'[r].kind = treq[r].kind /\ treq'[r].by = treq[r].by /\ treq'[r].ticket = treq[r].ticket
        BY <1>3, <2>1, GotoKeeps
    <2>3. Visible(treq[r].ticket, treq[r].by) /\ treq[r].by \in User /\ r \notin comments
        BY <1>1, <2>1 DEF Known, At
    <2>4. Admitted' = Admitted /\ r \notin Admitted BY <1>2, <2>1, <2>2 DEF Admitted, Is
    <2>5. AskedWishes' = AskedWishes BY <1>4, <2>4 DEF AskedWishes, Admitted
    <2>6. \A c \in comments : treq'[c] = treq[c] BY <1>1, <1>2, <2>3 DEF Types
    <2>7. Thread' = Thread \cup {<<r, treq[r].ticket, treq[r].by>>} BY <2>1, <2>2, <2>6 DEF Thread
    <2>8. \A x \in Thread : x[1] # r BY <2>3, ThreadMembers
    <2>9. Board!Comment(r, treq[r].ticket, treq[r].by)
        BY <2>1, <2>3, <2>5, <2>7, <2>8 DEF Board!Comment, Visible, Exists, AskedWishes
    <2> QED BY <2>3, <2>9 DEF Board!Next, Visible, Exists
<1>10. CASE Refuse(r) \/ RefreshTicket(r) \/ ListComments(r) \/ RefreshComment(r) \/ Break(r) \/ CountNext(r)
    <2>1. ticket' = ticket /\ comments' = comments /\ applied' = applied /\ treq[r].at # "idle"
        BY <1>10 DEF Refuse, RefreshTicket, ListComments, RefreshComment, Break, CountNext, At
    <2>2. treq' = treq \/ \E point \in {"failed", "viewing", "done"} : Goto(r, point)
        BY <1>10 DEF Refuse, RefreshTicket, ListComments, RefreshComment, Break, CountNext
    <2>3. CASE treq' = treq BY <1>2, <2>1, <2>3, Advances
    <2>4. CASE \E point \in {"failed", "viewing", "done"} : Goto(r, point)
        BY <1>2, <1>3, <2>1, <2>4, GotoKeeps, Advances
    <2> QED BY <2>2, <2>3, <2>4
<1> QED BY <1>5, <1>6, <1>7, <1>8, <1>9, <1>10 DEF Step, ServeAny, Serve

\* Every behaviour of the endpoints is one of the board: no change is lost or
\* made twice (ticket_repository.update and assign).
THEOREM BoardImplemented == TicketsSpec => ImplementsBoard
<1>1. DashboardInit => Board!Init
    <2> SUFFICES ASSUME DashboardInit PROVE Board!Init OBVIOUS
    <2>1. Types BY IInvInit, TicketsAssumption DEF DashboardInit, IInv
    <2>2. comments = {} /\ applied = {} /\ \A r \in Request : treq[r].at = "idle"
        BY DEF DashboardInit, TicketsInit, NoRequest
    <2>3. Admitted = {} /\ Thread = {} BY <2>2 DEF Admitted, Thread
    <2>4. AskedWishes = {} BY <2>3 DEF AskedWishes
    <2>5. \A t \in Ticket : /\ ticket[t].by \in User \cup {NoUser}
                            /\ Columns(ticket[t]) \in [Column -> Status \cup Priority \cup User \cup {NoUser}]
        BY <2>1, ColumnsTypes DEF Types, Row
    <2> QED BY <2>2, <2>3, <2>4, <2>5 DEF Board!Init, AskedWishes
<1>2. IInv /\ [TicketsNext]_<<ticketVars, counts>> => [Board!Next]_(Board!boardVars)
    <2> SUFFICES ASSUME IInv, [TicketsNext]_<<ticketVars, counts>>
                 PROVE  [Board!Next]_(Board!boardVars)
        OBVIOUS
    <2>1. CASE UNCHANGED <<ticketVars, counts>>
        <3>1. ticket' = ticket /\ comments' = comments /\ applied' = applied /\ treq' = treq
            BY <2>1 DEF ticketVars
        <3> QED BY <3>1, SameBoard DEF Admitted, WishOf, Is
    <2>2. CASE TicketsNext BY <2>2, StepSimulates, TicketsAssumption DEF TicketsNext, Step
    <2> QED BY <2>1, <2>2
<1> QED BY <1>1, <1>2, IInvInvariant, PTL DEF TicketsSpec, ImplementsBoard, Board!Spec

-----------------------------------------------------------------------------
(* The page only makes requests that a client may make.                    *)

PInv == calls # {} \/ Loaded => Exists(open)

LEMMA CallSubmits ==
    ASSUME NEW r \in Request, NEW kind, NEW cols, NEW want, Exists(open),
           Submit(r, kind, Me, open, cols, want), TicketsAssumption, PageAssumption,
           \/ kind \in {"read", "comment"} /\ cols = {} /\ want = NoRow
           \/ kind = "change" /\ cols \in Changes /\ want \in Wants(cols)
    PROVE  SubmitAny(r)
<1>1. Me \in User /\ open \in Ticket BY DEF Exists, TicketsAssumption, PageAssumption
<1> QED BY <1>1 DEF SubmitAny

LEMMA PageStep ==
    ASSUME NEW r \in Request, PInv, IInv, TicketsAssumption, PageAssumption,
           OpenPage(r) \/ ChangeControl(r) \/ PostComment(r) \/ Receive(r)
               \/ ServerStep(r) \/ Elsewhere(r)
    PROVE  [TicketsNext]_<<ticketVars, counts>> /\ PInv'
<1>1. CASE OpenPage(r)
    <2>1. PICK t \in Ticket : Exists(t) /\ Call(r, "read", t, {}, NoRow) /\ open' = t
        BY <1>1 DEF OpenPage
    <2>2. Submit(r, "read", Me, t, {}, NoRow) /\ UNCHANGED counts BY <2>1 DEF Call
    <2>3. SubmitAny(r) BY <2>1, <2>2 DEF SubmitAny, TicketsAssumption, PageAssumption
    <2>4. Exists(open)' BY <2>1, <2>2 DEF Exists, Submit
    <2> QED BY <2>2, <2>3, <2>4 DEF TicketsNext, PInv
<1>2. CASE ChangeControl(r)
    <2>1. PICK k \in Column : \E want \in Wants({k}) : Call(r, "change", open, {k}, want)
        BY <1>2 DEF ChangeControl
    <2>2. PICK want \in Wants({k}) : Submit(r, "change", Me, open, {k}, want) /\ UNCHANGED counts
        BY <2>1 DEF Call
    <2>3. Exists(open) /\ open' = open BY <1>2 DEF ChangeControl, PInv
    <2>4. {k} \in Changes BY DEF Column, Changes
    <2>5. SubmitAny(r) BY <2>2, <2>3, <2>4, CallSubmits
    <2>6. Exists(open)' BY <2>2, <2>3 DEF Exists, Submit
    <2> QED BY <2>2, <2>5, <2>6 DEF TicketsNext, PInv
<1>3. CASE PostComment(r)
    <2>1. Submit(r, "comment", Me, open, {}, NoRow) /\ UNCHANGED counts
        BY <1>3 DEF PostComment, Call
    <2>2. Exists(open) /\ open' = open BY <1>3 DEF PostComment, PInv
    <2>3. SubmitAny(r) BY <2>1, <2>2, CallSubmits
    <2>4. Exists(open)' BY <2>1, <2>2 DEF Exists, Submit
    <2> QED BY <2>1, <2>3, <2>4 DEF TicketsNext, PInv
<1>4. CASE Receive(r)
    <2>1. r \in calls /\ UNCHANGED <<ticketVars, counts, open>>
        BY <1>4 DEF Receive, ReceiveTicket, ReceiveComment, ReceiveError, Over
    <2>2. Exists(open)' BY <2>1 DEF PInv, Exists, ticketVars
    <2> QED BY <2>1, <2>2 DEF PInv
<1>5. CASE ServerStep(r) \/ Elsewhere(r)
    <2>1. UNCHANGED <<open, calls, shown>> BY <1>5 DEF ServerStep, Elsewhere, pageVars
    <2>2. Step(r) /\ ((SubmitAny(r) /\ UNCHANGED counts) \/ ServeAny(r))
        BY <1>5 DEF ServerStep, Elsewhere, Step
    <2>3. Exists(open) => Exists(open)' BY <2>1, <2>2, StepOthers DEF Exists, IInv
    <2>4. Loaded' <=> Loaded BY <2>1 DEF Loaded
    <2> QED BY <2>1, <2>2, <2>3, <2>4 DEF TicketsNext, PInv
<1> QED BY <1>1, <1>2, <1>3, <1>4, <1>5

\* What the page makes of the endpoints is something they do: the theorems about
\* TicketsSpec hold of the composition (AdminTicketControls, CommentSection).
THEOREM PageUsesEndpoints == Spec => TicketsSpec
<1>1. Init => DashboardInit /\ PInv BY DEF Init, PageInit, PInv, Loaded
<1>2. PInv /\ IInv /\ [Next]_vars => [TicketsNext]_<<ticketVars, counts>> /\ PInv' /\ IInv'
    <2> SUFFICES ASSUME PInv, IInv, [Next]_vars
                 PROVE  [TicketsNext]_<<ticketVars, counts>> /\ PInv' /\ IInv'
        OBVIOUS
    <2>1. CASE UNCHANGED vars
        BY <2>1 DEF vars, ticketVars, pageVars, PInv, Loaded, Exists, IInv, Types, Known, At, Is, Visible
    <2>2. CASE Next
        <3>1. [TicketsNext]_<<ticketVars, counts>> /\ PInv'
            BY <2>2, PageStep, TicketsAssumption, PageAssumption DEF Next
        <3>2. IInv'
            <4>1. CASE UNCHANGED <<ticketVars, counts>>
                BY <4>1 DEF ticketVars, IInv, Types, Known, At, Is, Visible, Exists
            <4>2. CASE TicketsNext BY <4>2, IInvStep, TicketsAssumption DEF TicketsNext, Step
            <4> QED BY <3>1, <4>1, <4>2
        <3> QED BY <3>1, <3>2
    <2> QED BY <2>1, <2>2
<1>3. DashboardInit => IInv BY IInvInit, TicketsAssumption DEF DashboardInit
<1> QED BY <1>1, <1>2, <1>3, PTL DEF Spec, TicketsSpec

\* So the page's own comments stay in order, and its changes are as the board's.
THEOREM PageKeepsBoard == Spec => []CommentsInOrder /\ ImplementsBoard
BY PageUsesEndpoints, CommentsStayInOrder, BoardImplemented

-----------------------------------------------------------------------------
(* What the answers say, and in which order comments are listed.           *)

On(t) == {c \in comments : treq[c].ticket = t}

\* What is known of the times and of the answers of requests.
Answers(r) ==
    /\ Is(r, "comment") => treq[r].at \notin {"committed", "viewing"}
    /\ treq[r].at = "posted" => Is(r, "comment")
    /\ Is(r, "comment") /\ treq[r].at \in {"posted", "done"} => r \in comments
    /\ Is(r, "comment") /\ treq[r].at \in {"loaded", "posted", "done"} => stamp[r] > 0
    /\ r \in comments => stamp[r] > 0
    /\ \A s \in Request : stamp[r] = stamp[s] /\ stamp[r] > 0 => r = s
    /\ treq[r].at = "committed" => Exists(treq[r].ticket)
    /\ treq[r].kind \in {"read", "change"} /\ treq[r].at \in {"viewing", "done"} =>
           view[r].row.by # NoUser

AnswersInv == view \in [Request -> View] /\ \A r \in Request : Answers(r)


\* The comments have times that differ, so any of them can be listed.
LEMMA CommentTimes ==
    ASSUME IInv, AnswersInv, NEW S \in SUBSET comments
    PROVE  /\ Distinct(S, stamp) /\ now \in Nat /\ \A c \in S : stamp[c] <= now
           /\ InOrder(S, stamp) \in Seq(Request)
<1>1. Types /\ S \subseteq Request BY DEF IInv, Types
<1>2. \A c \in S : stamp[c] \in Nat /\ stamp[c] > 0 /\ stamp[c] <= now
    BY <1>1 DEF IInv, Known, Types, AnswersInv, Answers
<1>3. \A c, d \in S : stamp[c] = stamp[d] => c = d
    BY <1>1, <1>2 DEF AnswersInv, Answers
<1>4. Distinct(S, stamp) BY <1>2, <1>3 DEF Distinct
<1>5. now \in Nat BY <1>1 DEF Types
<1>6. InOrder(S, stamp) \in Seq(S) BY <1>2, <1>4, <1>5, Listed
<1> QED BY <1>1, <1>2, <1>4, <1>5, <1>6

\* A step gives no request a time but its own, and that is the newest.
LEMMA StepClock ==
    ASSUME NEW r \in Request, Step(r), Types
    PROVE  \/ UNCHANGED clock
           \/ /\ LoadTicket(r) /\ Is(r, "comment")
              /\ now' = now + 1 /\ stamp' = [stamp EXCEPT ![r] = now + 1]
BY DEF Step, SubmitAny, Submit, ServeAny, Serve, Refuse, InsertTicket, LoadTicket,
       CommitChange, RefreshTicket, ListComments, InsertComment, RefreshComment, Break, CountNext,
       Begin

\* The answer a step prepares.
LEMMA StepView ==
    ASSUME NEW r \in Request, Step(r)
    PROVE  \/ view' = view
           \/ /\ LoadTicket(r) /\ Visible(treq[r].ticket, treq[r].by)
              /\ view' = [view EXCEPT ![r].row = ticket[treq[r].ticket]]
           \/ RefreshTicket(r) /\ view' = [view EXCEPT ![r].row = ticket[treq[r].ticket]]
           \/ ListComments(r) /\ view' = [view EXCEPT ![r].comments = Listing(treq[r].ticket)]
BY DEF Step, SubmitAny, Submit, ServeAny, Serve, Refuse, InsertTicket, LoadTicket,
       CommitChange, RefreshTicket, ListComments, InsertComment, RefreshComment, Break, CountNext

\* Where a step leads, by the point it starts from.
LEMMA StepPoint ==
    ASSUME NEW r \in Request, Step(r), Types, TicketsAssumption
    PROVE  \/ SubmitAny(r) /\ treq[r].at = "idle" /\ treq'[r].at = "sent"
           \/ /\ treq[r].at # "idle"
              /\ treq'[r].kind = treq[r].kind /\ treq'[r].by = treq[r].by
              /\ Is(r, "create") \/ treq'[r].ticket = treq[r].ticket
              /\ \/ treq'[r].at = "failed"
                 \/ /\ treq[r].at = "sent" /\ Is(r, "create")
                    /\ treq'[r].at = "committed"
                 \/ /\ CountNext(r) /\ treq[r].at = "sent" /\ Is(r, "dashboard")
                    /\ treq'[r].at \in {"sent", "done"}
                 \/ /\ LoadTicket(r) /\ Visible(treq[r].ticket, treq[r].by)
                    /\ treq[r].at = "sent" /\ treq[r].kind \in {"read", "comment", "change"}
                    /\ treq'[r].at = IF Is(r, "read") THEN "viewing" ELSE "loaded"
                 \/ CommitChange(r) /\ treq[r].at = "loaded" /\ Is(r, "change") /\ treq'[r].at = "committed"
                 \/ RefreshTicket(r) /\ treq[r].at = "committed" /\ treq'[r].at = "viewing"
                 \/ ListComments(r) /\ treq[r].at = "viewing" /\ treq'[r].at = "done"
                 \/ InsertComment(r) /\ treq[r].at = "loaded" /\ Is(r, "comment") /\ treq'[r].at = "posted"
                 \/ RefreshComment(r) /\ treq[r].at = "posted" /\ treq'[r].at = "done"
<1> USE DEF Types, Goto, At
<1>0. treq \in [Request -> TicketRequest] OBVIOUS
<1>1. CASE SubmitAny(r) BY <1>1, Submitted
<1>2. CASE InsertTicket(r)
    <2>1. PICK t \in Ticket : treq' = [treq EXCEPT ![r] = [@ EXCEPT !.at = "committed", !.ticket = t]]
        BY <1>2 DEF InsertTicket
    <2>2. treq'[r].at = "committed" /\ treq'[r].by = treq[r].by /\ treq'[r].kind = treq[r].kind
        BY <2>1 DEF TicketRequest
    <2> QED BY <1>2, <2>2 DEF InsertTicket, Is
<1>3. CASE LoadTicket(r)
    <2>1. treq[r].at = "sent" /\ treq[r].kind \in {"read", "comment", "change"}
        BY <1>3 DEF LoadTicket
    <2>2. CASE Visible(treq[r].ticket, treq[r].by)
        <3>1. treq' = [treq EXCEPT ![r] = [@ EXCEPT !.at = IF Is(r, "read") THEN "viewing" ELSE "loaded",
                                                    !.seen = ticket[treq[r].ticket]]]
            BY <1>3, <2>2 DEF LoadTicket
        <3>2. /\ treq'[r].at = (IF Is(r, "read") THEN "viewing" ELSE "loaded")
              /\ treq'[r].by = treq[r].by
              /\ treq'[r].kind = treq[r].kind /\ treq'[r].ticket = treq[r].ticket
            BY <3>1 DEF TicketRequest
        <3> QED BY <1>3, <2>1, <2>2, <3>2
    <2>3. CASE ~Visible(treq[r].ticket, treq[r].by)
        <3>1. Goto(r, "failed") BY <1>3, <2>3 DEF LoadTicket
        <3> QED BY <1>0, <2>1, <3>1, GotoKeeps
    <2> QED BY <2>2, <2>3
<1>4. ASSUME NEW point, Goto(r, point)
      PROVE  /\ treq'[r].at = point
             /\ treq'[r].kind = treq[r].kind /\ treq'[r].by = treq[r].by
             /\ treq'[r].ticket = treq[r].ticket
    BY <1>0, <1>4, GotoKeeps
<1>5. CASE CommitChange(r) BY <1>4, <1>5 DEF CommitChange
<1>6. CASE RefreshTicket(r) BY <1>4, <1>6 DEF RefreshTicket
<1>7. CASE ListComments(r) BY <1>4, <1>7 DEF ListComments
<1>8. CASE InsertComment(r) BY <1>4, <1>8 DEF InsertComment
<1>9. CASE RefreshComment(r) BY <1>4, <1>9 DEF RefreshComment
<1>10. CASE Refuse(r) \/ Break(r) BY <1>4, <1>10 DEF Refuse, Break
<1>11. CASE CountNext(r)
    <2>1. treq[r].at = "sent" /\ Is(r, "dashboard") /\ (Goto(r, "done") \/ treq' = treq)
        BY <1>11 DEF CountNext
    <2> QED BY <1>4, <1>11, <2>1
<1> QED BY <1>1, <1>2, <1>3, <1>5, <1>6, <1>7, <1>8, <1>9, <1>10, <1>11 DEF Step, ServeAny, Serve

LEMMA ViewTypes ==
    ASSUME NEW r \in Request, Step(r), IInv, AnswersInv, TicketsAssumption
    PROVE  view' \in [Request -> View]
<1>1. view[r] \in View /\ view \in [Request -> View] /\ Types BY DEF AnswersInv, IInv
<1>2. CASE view' = view BY <1>1, <1>2
<1>3. CASE LoadTicket(r) /\ Visible(treq[r].ticket, treq[r].by)
            /\ view' = [view EXCEPT ![r].row = ticket[treq[r].ticket]]
    <2>1. ticket[treq[r].ticket] \in Row BY <1>1, <1>3 DEF Visible, Exists, Types
    <2>2. [view[r] EXCEPT !.row = ticket[treq[r].ticket]] \in View BY <1>1, <2>1 DEF View
    <2> QED BY <1>1, <1>3, <2>2
<1>4. CASE RefreshTicket(r) /\ view' = [view EXCEPT ![r].row = ticket[treq[r].ticket]]
    <2>1. ticket[treq[r].ticket] \in Row
        BY <1>1, <1>4 DEF Types, RefreshTicket, AnswersInv, Answers, At, Exists
    <2>2. [view[r] EXCEPT !.row = ticket[treq[r].ticket]] \in View BY <1>1, <2>1 DEF View
    <2> QED BY <1>1, <1>4, <2>2
<1>5. CASE ListComments(r) /\ view' = [view EXCEPT ![r].comments = Listing(treq[r].ticket)]
    <2>1. On(treq[r].ticket) \in SUBSET comments BY DEF On
    <2>2. Listing(treq[r].ticket) \in Seq(Request) BY <2>1, CommentTimes DEF On, Listing
    <2>3. [view[r] EXCEPT !.comments = Listing(treq[r].ticket)] \in View BY <1>1, <2>2 DEF View
    <2> QED BY <1>1, <1>5, <2>3
<1> QED BY <1>2, <1>3, <1>4, <1>5, StepView

\* A ticket that is there stays there.
LEMMA StillThere ==
    ASSUME NEW r \in Request, Step(r), IInv, TicketsAssumption
    PROVE  \A t \in Ticket : ticket[t].by # NoUser => ticket'[t].by # NoUser
BY StepOthers DEF IInv

\* What is known of the other requests stays true.
LEMMA AnswersFrame ==
    ASSUME NEW r \in Request, Step(r), IInv, AnswersInv, TicketsAssumption,
           NEW s \in Request \ {r}
    PROVE  Answers(s)'
<1>1. Types /\ Answers(s) /\ now \in Nat /\ stamp \in [Request -> Nat] BY DEF IInv, Types, AnswersInv
<1>2. /\ treq'[s] = treq[s] /\ (s \in comments' <=> s \in comments)
      /\ \A q \in Request \ {r} : stamp'[q] = stamp[q]
    BY <1>1, StepOthers
<1>3. view'[s] = view[s]
    <2>1. view \in [Request -> View] BY DEF AnswersInv
    <2> QED BY <2>1, StepView
<1>4. treq[s].at = "committed" => Exists(treq[s].ticket)'
    BY <1>1, <1>2, StillThere DEF Answers, Exists
<1>5. ASSUME stamp'[s] = stamp'[r], stamp'[s] > 0 PROVE s = r
    <2>1. stamp[s] <= now BY DEF IInv, Known
    <2>2. CASE UNCHANGED clock BY <1>1, <1>5, <2>2 DEF Answers, clock
    <2>3. CASE now' = now + 1 /\ stamp' = [stamp EXCEPT ![r] = now + 1]
        BY <1>1, <1>2, <1>5, <2>1, <2>3
    <2> QED BY <1>1, <2>2, <2>3, StepClock
<1>6. \A q \in Request : stamp'[s] = stamp'[q] /\ stamp'[s] > 0 => s = q
    BY <1>1, <1>2, <1>5 DEF Answers
<1>7. /\ Is(s, "comment")' <=> Is(s, "comment")
      /\ treq'[s].at = treq[s].at /\ treq'[s].kind = treq[s].kind /\ treq'[s].ticket = treq[s].ticket
      /\ stamp'[s] = stamp[s]
    BY <1>2 DEF Is
<1> QED BY <1>1, <1>2, <1>3, <1>4, <1>6, <1>7 DEF Answers

LEMMA AnswersOwn ==
    ASSUME NEW r \in Request, Step(r), IInv, AnswersInv, TicketsAssumption
    PROVE  Answers(r)'
<1>1. /\ Types /\ Answers(r) /\ Known(r) /\ now \in Nat /\ stamp \in [Request -> Nat]
      /\ view \in [Request -> View] /\ \A s \in Request : stamp[s] <= now /\ Answers(s)
    BY DEF IInv, Types, AnswersInv, Known
<1>2. \A s \in Request \ {r} : stamp'[s] = stamp[s] BY <1>1, StepOthers
<1>3. \A s \in Request : stamp'[r] = stamp'[s] /\ stamp'[r] > 0 => r = s
    <2>1. CASE UNCHANGED clock BY <1>1, <2>1 DEF Answers, clock
    <2>2. CASE now' = now + 1 /\ stamp' = [stamp EXCEPT ![r] = now + 1]
        <3>1. ASSUME NEW s \in Request \ {r} PROVE stamp'[r] # stamp'[s]
            <4>1. stamp'[r] = now + 1 /\ stamp'[s] = stamp[s] /\ stamp[s] <= now /\ stamp[s] \in Nat
                BY <1>1, <1>2, <2>2
            <4> QED BY <1>1, <4>1
        <3> QED BY <3>1
    <2> QED BY <1>1, <2>1, <2>2, StepClock
<1>4. stamp[r] > 0 => stamp'[r] > 0
    <2>1. CASE UNCHANGED clock BY <2>1 DEF clock
    <2>2. CASE stamp' = [stamp EXCEPT ![r] = now + 1] BY <1>1, <2>2
    <2> QED BY <1>1, <2>1, <2>2, StepClock
<1>5. treq'[r].at = "committed" => Exists(treq[r].ticket)'
    <2> SUFFICES ASSUME treq'[r].at = "committed" PROVE Exists(treq[r].ticket)' OBVIOUS
    <2>1. CASE treq[r].at = "sent"
        <3>1. InsertTicket(r)
            <4>1. \A point : Goto(r, point) => treq'[r].at = point
                BY <1>1, GotoKeeps DEF Types
            <4>2. treq[r].at = "sent" /\ ~SubmitAny(r) BY <1>1, <2>1, Submitted DEF At
            <4>3. LoadTicket(r) => treq[r].kind \in {"read", "comment", "change"} BY DEF LoadTicket
            <4>4. ~LoadTicket(r) BY <1>1, <2>1, <4>3, StepPoint DEF Is
            <4> QED BY <4>1, <4>2, <4>4 DEF Step, ServeAny, Serve, Refuse,
                    CommitChange, RefreshTicket, ListComments, InsertComment, RefreshComment, Break,
                    CountNext, At, Is
        <3>2. PICK t \in Ticket :
                /\ ticket' = [ticket EXCEPT ![t] =
                      [treq[r].want EXCEPT !.by = treq[r].by, !.status = "OPEN", !.assignee = NoUser]]
                /\ treq' = [treq EXCEPT ![r] = [@ EXCEPT !.at = "committed", !.ticket = t]]
            BY <3>1 DEF InsertTicket
        <3>3. treq[r].want \in Row /\ treq[r].by \in User /\ treq[r] \in TicketRequest
              /\ ticket \in [Ticket -> Row] /\ treq \in [Request -> TicketRequest]
            BY <1>1, <2>1 DEF Types, TicketRequest, Known
        <3>4. treq'[r].ticket = t BY <3>2, <3>3 DEF TicketRequest
        <3>5. ticket'[t].by = treq[r].by BY <3>2, <3>3 DEF Row
        <3> QED BY <3>3, <3>4, <3>5 DEF Exists, TicketsAssumption
    <2>2. CASE treq[r].at # "sent"
        <3>1. treq[r].at = "loaded" /\ treq'[r].ticket = treq[r].ticket
            BY <1>1, <2>2, StepPoint DEF Is
        <3>2. Exists(treq[r].ticket) BY <1>1, <3>1 DEF Known, Visible
        <3> QED BY <3>1, <3>2, StillThere DEF Exists
    <2> QED BY <2>1, <2>2
<1>6. treq'[r].kind \in {"read", "change"} /\ treq'[r].at \in {"viewing", "done"} =>
          view'[r].row.by # NoUser
    <2> SUFFICES ASSUME treq'[r].kind \in {"read", "change"}, treq'[r].at \in {"viewing", "done"}
                 PROVE  view'[r].row.by # NoUser
        OBVIOUS
    <2>0. view[r] \in View BY <1>1
    <2>1. CASE LoadTicket(r) /\ Visible(treq[r].ticket, treq[r].by)
        <3>1. view' = [view EXCEPT ![r].row = ticket[treq[r].ticket]]
            BY <2>1 DEF LoadTicket
        <3> QED BY <1>1, <2>0, <2>1, <3>1 DEF Visible, Exists, View
    <2>2. CASE RefreshTicket(r)
        <3>1. view' = [view EXCEPT ![r].row = ticket[treq[r].ticket]]
            BY <2>2 DEF RefreshTicket
        <3>2. Exists(treq[r].ticket) BY <1>1, <2>2 DEF RefreshTicket, At, Answers
        <3> QED BY <1>1, <2>0, <3>1, <3>2 DEF Exists, View
    <2>3. CASE ListComments(r)
        <3>1. view' = [view EXCEPT ![r].comments = Listing(treq[r].ticket)]
            BY <2>3 DEF ListComments
        <3>2. view'[r].row = view[r].row BY <1>1, <2>0, <3>1 DEF View
        <3>3. treq[r].at = "viewing" /\ treq[r].kind = treq'[r].kind
            BY <1>1, <2>3, GotoKeeps DEF ListComments, At, Types
        <3> QED BY <1>1, <3>2, <3>3 DEF Answers
    <2>4. treq[r].at = "posted" => Is(r, "comment") BY <1>1 DEF Answers
    <2>5. treq[r].at = "posted" => treq[r].kind \notin {"read", "change"} BY <2>4 DEF Is
    <2> QED BY <1>1, <2>1, <2>2, <2>3, <2>5, StepPoint DEF Is
<1>7. r \in comments' =>
          r \in comments \/ (Is(r, "comment") /\ treq[r].at = "loaded" /\ treq'[r].at = "posted")
    <2>1. comments' = comments \/ InsertComment(r)
        BY DEF Step, SubmitAny, Submit, ServeAny, Serve, Refuse, InsertTicket, LoadTicket,
           CommitChange, RefreshTicket, ListComments, RefreshComment, Break, CountNext
    <2>2. CASE InsertComment(r)
        <3>1. treq'[r].at = "posted" BY <1>1, <2>2, GotoKeeps DEF InsertComment, Types
        <3> QED BY <2>2, <3>1 DEF InsertComment, At
    <2> QED BY <2>1, <2>2
<1>8. comments \subseteq comments' /\ (InsertComment(r) => r \in comments')
    BY <1>1, StepOthers DEF InsertComment
<1>9. LoadTicket(r) /\ Is(r, "comment") => stamp'[r] > 0
    BY <1>1 DEF LoadTicket, Begin
<1>10. Is(r, "comment")' => treq'[r].at \notin {"committed", "viewing"}
    BY <1>1, StepPoint DEF Is, Answers
<1>11. Is(r, "comment")' /\ treq'[r].at \in {"posted", "done"} => r \in comments'
    BY <1>1, <1>8, StepPoint DEF Is, Answers
<1>12. Is(r, "comment")' /\ treq'[r].at \in {"loaded", "posted", "done"} => stamp'[r] > 0
    BY <1>1, <1>4, <1>9, StepPoint DEF Is, Answers
<1>13. r \in comments' => stamp'[r] > 0
    BY <1>1, <1>4, <1>7 DEF Answers
<1>14. (treq[r].at = "posted" => Is(r, "comment"))'
    BY <1>1, StepPoint DEF Is, Answers
<1> QED BY <1>3, <1>5, <1>6, <1>10, <1>11, <1>12, <1>13, <1>14 DEF Answers, Is

LEMMA AnswersStep ==
    ASSUME NEW r \in Request, Step(r), IInv, AnswersInv, TicketsAssumption
    PROVE  AnswersInv'
<1>1. view' \in [Request -> View] BY ViewTypes
<1>2. \A s \in Request : Answers(s)' BY AnswersFrame, AnswersOwn
<1> QED BY <1>1, <1>2 DEF AnswersInv

LEMMA AnswersInvariant == TicketsSpec => []AnswersInv
<1>1. DashboardInit => AnswersInv
    <2> SUFFICES ASSUME DashboardInit PROVE AnswersInv OBVIOUS
    <2>1. NoView \in View BY NoRowTypes, TicketsAssumption DEF NoView, View
    <2>2. \A r \in Request : stamp[r] = 0 /\ treq[r].at = "idle"
        BY DEF DashboardInit, TicketsInit, NoRequest
    <2>3. \A r \in Request : r \notin comments BY DEF DashboardInit, TicketsInit
    <2> QED BY <2>1, <2>2, <2>3 DEF AnswersInv, Answers, DashboardInit, TicketsInit
<1>2. IInv /\ AnswersInv /\ [TicketsNext]_<<ticketVars, counts>> => AnswersInv'
    <2> SUFFICES ASSUME IInv, AnswersInv, [TicketsNext]_<<ticketVars, counts>> PROVE AnswersInv'
        OBVIOUS
    <2>1. ASSUME NEW r \in Request, Step(r) PROVE AnswersInv' BY <2>1, AnswersStep, TicketsAssumption
    <2>2. CASE UNCHANGED <<ticketVars, counts>>
        BY <2>2 DEF ticketVars, AnswersInv, Answers, Is, Exists
    <2> QED BY <2>1, <2>2 DEF TicketsNext, Step
<1> QED BY <1>1, <1>2, IInvInvariant, PTL DEF TicketsSpec

-----------------------------------------------------------------------------
(* What the page shows.                                                    *)

\* What the page waits for.
CallsInv ==
    /\ calls \subseteq Request
    /\ \A r \in calls :
          /\ treq[r].at # "idle" /\ treq[r].ticket = open
          /\ treq[r].kind \in {"read", "change", "comment"}
          /\ Is(r, "read") <=> ~Loaded
          /\ Is(r, "change") => busy
          /\ Is(r, "comment") => submitting
    /\ \A r, s \in calls : treq[r].kind = treq[s].kind => r = s
    /\ shown \in View

RowInv ==
    /\ \A s \in Request \ calls : Is(s, "change") => treq[s].at \in {"done", "failed"}
    /\ Loaded /\ calls \cap applied = {} => shown.row = ticket[open]
    /\ \A r \in calls : ~Is(r, "comment") /\ treq[r].at \in {"viewing", "done"} =>
           view[r].row = ticket[open]

CommentsInv ==
    /\ \A s \in Request \ calls : Is(s, "comment") => treq[s].at \in {"done", "failed"}
    /\ \A r, s \in calls : ~(Is(r, "change") /\ Is(s, "comment"))
    /\ Loaded => shown.comments = InOrder(On(open) \ calls, stamp)
    /\ \A r \in calls : ~Is(r, "comment") /\ At(r, "done") => view[r].comments = Listing(open)
    /\ \A r \in calls : Is(r, "comment") /\ treq[r].at \in {"loaded", "posted", "done"} =>
           \A d \in comments \ {r} : stamp[d] < stamp[r]

PageInv ==
    /\ PInv /\ CallsInv
    /\ "row" \notin strayed => RowInv
    /\ "comments" \notin strayed => CommentsInv

\* A listing does not change with the times of later comments.
LEMMA ListingKept ==
    ASSUME NEW r \in Request, Step(r), IInv, AnswersInv, TicketsAssumption,
           NEW S \in SUBSET comments
    PROVE  InOrder(S, stamp') = InOrder(S, stamp)
<1>1. \A c \in S : stamp'[c] = stamp[c] BY StepStamps
<1>2. Distinct(S, stamp) /\ now \in Nat /\ \A c \in S : stamp[c] <= now BY CommentTimes
<1> QED BY <1>1, <1>2, ListedSame

\* The rows a step leaves, and the comments of a ticket.
LEMMA StepRows ==
    ASSUME NEW r \in Request, Step(r)
    PROVE  CommitChange(r) \/ \A t \in Ticket : ticket[t].by # NoUser => ticket'[t] = ticket[t]
<1>1. CASE InsertTicket(r) BY <1>1 DEF InsertTicket, Exists
<1> QED BY <1>1 DEF Step, SubmitAny, Submit, ServeAny, Serve, Refuse, LoadTicket,
       RefreshTicket, ListComments, InsertComment, RefreshComment, Break, CountNext

LEMMA StepComments ==
    ASSUME NEW r \in Request, Step(r), IInv, TicketsAssumption
    PROVE  /\ \A c \in comments : treq'[c].ticket = treq[c].ticket
           /\ comments' = comments \/ (InsertComment(r) /\ comments' = comments \cup {r})
<1>1. Types /\ comments \subseteq Request BY DEF IInv, Types
<1>2. r \in comments => treq'[r].ticket = treq[r].ticket
    BY <1>1, StepPoint DEF IInv, Known, Is
<1>3. \A c \in comments \ {r} : treq'[c] = treq[c] BY <1>1, StepOthers
<1>4. comments' = comments \/ (InsertComment(r) /\ comments' = comments \cup {r})
    BY DEF Step, SubmitAny, Submit, ServeAny, Serve, Refuse, InsertTicket, LoadTicket,
       CommitChange, RefreshTicket, ListComments, InsertComment, RefreshComment, Break, CountNext
<1> QED BY <1>2, <1>3, <1>4

\* The page waits while the server works.
LEMMA ServerCalls ==
    ASSUME NEW r \in Request, ServerStep(r), IInv, AnswersInv, TicketsAssumption, CallsInv
    PROVE  CallsInv'
<1>1. Step(r) /\ UNCHANGED pageVars /\ Types /\ Known(r) BY DEF ServerStep, Step, IInv
<1>2. \A s \in Request \ {r} : treq'[s] = treq[s] BY <1>1, StepOthers
<1>3. r \in calls =>
          /\ treq'[r].at # "idle" /\ treq'[r].ticket = treq[r].ticket /\ treq'[r].kind = treq[r].kind
    <2>1. r \in calls => treq[r].at # "idle" /\ ~Is(r, "create") BY DEF CallsInv, Is
    <2>2. treq[r].at # "idle" => treq'[r].at # "idle" BY <1>1, StepPoint
    <2> QED BY <1>1, <2>1, <2>2, StepPoint
<1>4. \A q \in calls :
          /\ treq'[q].at # "idle" /\ treq'[q].ticket = treq[q].ticket /\ treq'[q].kind = treq[q].kind
    BY <1>2, <1>3 DEF CallsInv
<1> QED BY <1>1, <1>4 DEF CallsInv, pageVars, Is, Loaded

LEMMA ServerRow ==
    ASSUME NEW r \in Request, ServerStep(r), IInv, AnswersInv, TicketsAssumption,
           PInv, CallsInv, RowInv
    PROVE  RowInv'
<1>1. Step(r) /\ UNCHANGED pageVars /\ Types /\ Known(r) BY DEF ServerStep, Step, IInv
<1>2. /\ \A s \in Request \ {r} : treq'[s] = treq[s]
      /\ view \in [Request -> View]
    BY <1>1, StepOthers DEF AnswersInv
<1>4. r \notin calls /\ Is(r, "change")' => treq'[r].at \in {"done", "failed"}
    <2>2. r \notin calls /\ Is(r, "change") => treq[r].at \in {"done", "failed"} BY DEF RowInv
    <2>3. treq[r].at # "idle"
        BY DEF ServerStep, ServeAny, Serve, Refuse, InsertTicket, LoadTicket, CommitChange,
               RefreshTicket, ListComments, InsertComment, RefreshComment, Break, CountNext, At
    <2> QED BY <1>1, <2>2, <2>3, StepPoint DEF Is
<1>5. CommitChange(r) => r \in calls
    BY <1>1 DEF CommitChange, RowInv, At
<1>6. ASSUME calls # {} \/ Loaded, ~CommitChange(r)
      PROVE  ticket'[open] = ticket[open]
    <2>1. open \in Ticket /\ ticket[open].by # NoUser BY <1>6 DEF PInv, Exists
    <2> QED BY <1>1, <1>6, <2>1, StepRows
<1>7. ASSUME Loaded', (calls \cap applied = {})' PROVE shown'.row = ticket'[open]
    <2>1. Loaded /\ shown' = shown /\ calls' = calls BY <1>1, <1>7 DEF Loaded, pageVars
    <2>2. applied \subseteq applied' /\ (CommitChange(r) => r \in applied')
        BY <1>1, StepOthers DEF Step, SubmitAny, Submit, ServeAny, Serve, Refuse, InsertTicket,
           LoadTicket, CommitChange, RefreshTicket, ListComments, InsertComment, RefreshComment,
           Break, CountNext
    <2>3. ~CommitChange(r) BY <1>5, <1>7, <2>1, <2>2
    <2> QED BY <1>6, <1>7, <2>1, <2>2, <2>3 DEF RowInv
<1>8. ASSUME NEW q \in calls, ~Is(q, "comment")', treq'[q].at \in {"viewing", "done"}
      PROVE  view'[q].row = ticket'[open]
    <2>1. treq'[q].kind = treq[q].kind /\ treq[q].ticket = open /\ q \in Request
          /\ treq[q].kind \in {"read", "change"} /\ view[q] \in View
        <3>1. treq[q].ticket = open /\ q \in Request /\ treq[q].kind \in {"read", "change", "comment"}
              /\ treq[q].at # "idle"
            BY DEF CallsInv
        <3>2. treq'[q].kind = treq[q].kind
            BY <1>1, <1>2, <3>1, StepPoint
        <3> QED BY <1>2, <1>8, <3>1, <3>2 DEF Is
    <2>2. CASE q # r
        <3>1. view'[q] = view[q] /\ treq'[q] = treq[q] BY <1>1, <1>2, <2>1, <2>2, StepView
        <3>2. ~CommitChange(r)
            <4> SUFFICES ASSUME CommitChange(r) PROVE FALSE OBVIOUS
            <4>1. r \in calls /\ Is(r, "change") BY <1>5 DEF CommitChange
            <4> QED BY <2>1, <2>2, <4>1 DEF CallsInv, Is
        <3> QED BY <1>6, <1>8, <2>1, <3>1, <3>2 DEF RowInv, Is
    <2>3. CASE q = r /\ (LoadTicket(r) \/ RefreshTicket(r))
        <3>1. ticket' = ticket BY <2>3 DEF LoadTicket, RefreshTicket
        <3>2. view' = [view EXCEPT ![r].row = ticket[open]]
            <4>1. CASE RefreshTicket(r) BY <2>1, <2>3, <4>1 DEF RefreshTicket
            <4>2. CASE LoadTicket(r)
                <5>1. Visible(treq[r].ticket, treq[r].by)
                    <6> SUFFICES ASSUME ~Visible(treq[r].ticket, treq[r].by) PROVE FALSE OBVIOUS
                    <6>1. Goto(r, "failed") BY <4>2 DEF LoadTicket
                    <6>2. treq'[r].at = "failed" BY <1>1, <6>1, GotoKeeps DEF Types
                    <6> QED BY <1>8, <2>3, <6>2
                <5> QED BY <2>1, <2>3, <4>2, <5>1 DEF LoadTicket
            <4> QED BY <2>3, <4>1, <4>2
        <3> QED BY <1>2, <2>1, <2>3, <3>1, <3>2 DEF View
    <2>4. CASE q = r /\ ListComments(r)
        <3>1. ticket' = ticket /\ view' = [view EXCEPT ![r].comments = Listing(treq[r].ticket)]
              /\ treq[r].at = "viewing"
            BY <2>4 DEF ListComments, At
        <3>2. view'[r].row = view[r].row BY <1>2, <2>1, <2>4, <3>1 DEF View
        <3> QED BY <2>1, <2>4, <3>1, <3>2 DEF RowInv, Is
    <2>5. q = r => LoadTicket(r) \/ RefreshTicket(r) \/ ListComments(r)
        <3>1. treq[r].at = "posted" => Is(r, "comment") BY DEF AnswersInv, Answers
        <3> QED BY <1>1, <1>8, <2>1, <3>1, StepPoint DEF Is
    <2> QED BY <2>2, <2>3, <2>4, <2>5
<1>9. \A s \in Request \ calls' : Is(s, "change")' => treq'[s].at \in {"done", "failed"}
    BY <1>1, <1>2, <1>4 DEF RowInv, Is, pageVars
<1>10. calls' = calls /\ open' = open BY <1>1 DEF pageVars
<1> QED BY <1>7, <1>8, <1>9, <1>10 DEF RowInv

LEMMA ServerComments ==
    ASSUME NEW r \in Request, ServerStep(r), IInv, AnswersInv, TicketsAssumption,
           PInv, CallsInv, CommentsInv
    PROVE  CommentsInv'
<1>1. /\ Step(r) /\ Types /\ Known(r) /\ Answers(r)
      /\ calls' = calls /\ open' = open /\ shown' = shown
      /\ stamp \in [Request -> Nat] /\ now \in Nat /\ view \in [Request -> View]
    BY DEF ServerStep, Step, IInv, Types, AnswersInv, pageVars
<1>2. \A s \in Request \ {r} : treq'[s] = treq[s] /\ stamp'[s] = stamp[s] /\ view'[s] = view[s]
    BY <1>1, StepOthers, StepView
<1>3. /\ treq[r].at # "idle" /\ treq'[r].kind = treq[r].kind
      /\ r \in calls => treq'[r].ticket = treq[r].ticket
    <2>1. treq[r].at # "idle"
        BY DEF ServerStep, ServeAny, Serve, Refuse, InsertTicket, LoadTicket, CommitChange,
               RefreshTicket, ListComments, InsertComment, RefreshComment, Break, CountNext, At
    <2>2. r \in calls => ~Is(r, "create") BY DEF CallsInv, Is
    <2> QED BY <1>1, <2>1, <2>2, StepPoint
<1>4. \A s \in Request : treq'[s].kind = treq[s].kind
    BY <1>2, <1>3
<1>5. \A s \in Request \ calls : Is(s, "comment")' => treq'[s].at \in {"done", "failed"}
    <2>1. r \notin calls /\ Is(r, "comment") => treq[r].at \in {"done", "failed"} BY DEF CommentsInv
    <2>2. r \notin calls /\ Is(r, "comment") => treq'[r].at \in {"done", "failed"}
        BY <1>1, <2>1, StepPoint DEF Is
    <2> QED BY <1>2, <1>4, <2>2 DEF CommentsInv, Is
<1>6. InsertComment(r) => r \in calls /\ Is(r, "comment")
    BY DEF InsertComment, CommentsInv, At
\* The comments that the page does not wait for are the same.
<1>7. On(open)' \ calls' = On(open) \ calls
    BY <1>1, <1>6, StepComments DEF On
<1>8. Loaded' => shown'.comments = InOrder(On(open) \ calls, stamp)'
    <2>1. On(open) \ calls \in SUBSET comments BY DEF On
    <2>2. InOrder(On(open) \ calls, stamp') = InOrder(On(open) \ calls, stamp)
        BY <1>1, <2>1, ListingKept
    <2> QED BY <1>1, <1>7, <2>2 DEF CommentsInv, Loaded
<1>9. ASSUME NEW q \in calls, ~Is(q, "comment")', At(q, "done")'
      PROVE  view'[q].comments = Listing(open)'
    <2>1. q \in Request /\ treq[q].kind \in {"read", "change"} /\ treq[q].ticket = open
        BY <1>4, <1>9 DEF CallsInv, Is
    <2>2. ~InsertComment(r)
        <3> SUFFICES ASSUME InsertComment(r) PROVE FALSE OBVIOUS
        <3>1. r \in calls /\ Is(r, "comment") BY <1>6
        <3>2. ~Is(q, "change") BY <3>1 DEF CommentsInv
        <3>3. Is(q, "read") /\ ~Is(r, "read") BY <2>1, <3>1, <3>2 DEF Is
        <3> QED BY <3>1, <3>3 DEF CallsInv
    <2>3. On(open)' = On(open) BY <1>1, <2>2, StepComments DEF On
    <2>4. Listing(open) = InOrder(On(open), stamp) /\ Listing(open)' = InOrder(On(open)', stamp')
        BY DEF Listing, On
    <2>5. On(open) \in SUBSET comments BY DEF On
    <2>6. Listing(open)' = Listing(open) BY <1>1, <2>3, <2>4, <2>5, ListingKept
    <2>7. CASE q # r
        <3>1. view'[q] = view[q] /\ treq'[q] = treq[q] BY <1>2, <2>1, <2>7
        <3> QED BY <1>9, <2>1, <2>6, <3>1 DEF CommentsInv, Is, At
    <2>8. CASE q = r
        <3>1. treq[r].at = "posted" => Is(r, "comment") BY <1>1 DEF Answers
        <3>2. ListComments(r) BY <1>1, <1>9, <2>1, <2>8, <3>1, StepPoint DEF Is, At
        <3>3. view' = [view EXCEPT ![r].comments = Listing(open)]
            BY <2>1, <2>8, <3>2 DEF ListComments
        <3>4. view'[r].comments = Listing(open) BY <1>1, <3>3 DEF View
        <3> QED BY <2>6, <2>8, <3>4
    <2> QED BY <2>7, <2>8
<1>10. ASSUME NEW q \in calls, Is(q, "comment")', treq'[q].at \in {"loaded", "posted", "done"},
              NEW d \in comments' \ {q}
       PROVE  stamp'[d] < stamp'[q]
    <2>1. q \in Request /\ Is(q, "comment") BY <1>4, <1>10 DEF CallsInv, Is
    <2>2. d \in comments
        <3> SUFFICES ASSUME d \notin comments PROVE FALSE OBVIOUS
        <3>1. InsertComment(r) /\ d = r BY <1>1, StepComments
        <3>2. r \in calls /\ Is(r, "comment") BY <1>6, <3>1
        <3>3. q = r BY <2>1, <3>2 DEF CallsInv, Is
        <3> QED BY <1>10, <3>1, <3>3
    <2>3. d \in Request /\ stamp'[d] = stamp[d] /\ stamp[d] <= now /\ stamp[d] \in Nat
        BY <1>1, <2>2, StepStamps DEF IInv, Known, Types
    <2>4. CASE LoadTicket(r) /\ Is(r, "comment") /\ q = r
              /\ now' = now + 1 /\ stamp' = [stamp EXCEPT ![r] = now + 1]
        BY <1>1, <2>3, <2>4
    <2>5. CASE q = r /\ UNCHANGED clock
        <3>1. treq[q].at \in {"loaded", "posted", "done"}
            <4>1. ~(LoadTicket(r) /\ Is(r, "comment"))
                BY <1>1, <2>5 DEF LoadTicket, Begin, clock
            <4>2. treq[r].at # "viewing" /\ Is(r, "comment") BY <1>1, <2>1, <2>5 DEF Answers
            <4> QED BY <1>1, <1>3, <1>10, <2>5, <4>1, <4>2, StepPoint DEF Is
        <3> QED BY <2>1, <2>2, <2>5, <3>1 DEF CommentsInv, clock
    <2>6. CASE q # r
        <3>1. treq'[q] = treq[q] /\ stamp'[q] = stamp[q] BY <1>2, <2>1, <2>6
        <3> QED BY <1>10, <2>1, <2>2, <2>3, <3>1 DEF CommentsInv
    <2> QED BY <1>1, <2>4, <2>5, <2>6, StepClock
<1>11. \A q, s \in calls : ~(Is(q, "change") /\ Is(s, "comment"))'
    BY <1>4 DEF CallsInv, CommentsInv, Is
<1> QED BY <1>1, <1>5, <1>8, <1>9, <1>10, <1>11 DEF CommentsInv

\* What a submission leaves alone.
LEMMA NewRequest ==
    ASSUME NEW r \in Request, SubmitAny(r), IInv, AnswersInv, TicketsAssumption, CallsInv
    PROVE  /\ r \notin calls /\ r \notin comments /\ r \notin applied
           /\ treq'[r].at = "sent"
           /\ \A s \in Request \ {r} : treq'[s] = treq[s]
           /\ ticket' = ticket /\ comments' = comments /\ applied' = applied /\ view' = view
           /\ stamp' = stamp
           /\ \A t : {c \in comments' : treq'[c].ticket = t} = On(t)
<1>1. Types /\ Known(r) BY DEF IInv
<1>2. At(r, "idle") BY <1>1, Submitted
<1>3. r \notin calls /\ r \notin comments /\ r \notin applied
    BY <1>1, <1>2 DEF CallsInv, Known, At
<1>4. /\ treq'[r].at = "sent" /\ \A s \in Request \ {r} : treq'[s] = treq[s]
      /\ ticket' = ticket /\ comments' = comments /\ applied' = applied /\ view' = view
      /\ stamp' = stamp
    BY <1>1, Submitted DEF clock
<1>5. \A c \in comments : treq'[c] = treq[c] BY <1>1, <1>3, <1>4 DEF Types
<1> QED BY <1>3, <1>4, <1>5 DEF On

\* A submission that the page does not wait for, or a call of the page, keeps
\* what is known of what it shows.
LEMMA SubmissionRow ==
    ASSUME NEW r \in Request, SubmitAny(r), IInv, AnswersInv, TicketsAssumption,
           CallsInv, CallsInv', RowInv,
           shown' = shown,
           \/ calls' = calls /\ open' = open /\ ~Is(r, "change")'
           \/ calls' = calls \cup {r} /\ (open' = open \/ (calls = {} /\ ~Loaded))
    PROVE  RowInv'
<1>1. /\ r \notin calls /\ r \notin applied /\ treq'[r].at = "sent"
      /\ \A s \in Request \ {r} : treq'[s] = treq[s]
      /\ ticket' = ticket /\ applied' = applied /\ view' = view
    BY NewRequest
<1>2. \A s \in Request \ calls' : Is(s, "change")' => treq'[s].at \in {"done", "failed"}
    BY <1>1 DEF RowInv, Is
<1>3. Loaded' /\ (calls \cap applied = {})' => shown'.row = ticket'[open']
    <2>1. (calls \cap applied = {})' => calls \cap applied = {} BY <1>1
    <2>2. Loaded' => Loaded /\ open' = open BY DEF Loaded
    <2> QED BY <1>1, <2>1, <2>2 DEF RowInv
<1>4. ASSUME NEW q \in calls', ~Is(q, "comment")', treq'[q].at \in {"viewing", "done"}
      PROVE  view'[q].row = ticket'[open']
    <2>1. q \in calls /\ q # r BY <1>1, <1>4
    <2>2. treq'[q] = treq[q] /\ open' = open BY <1>1, <2>1 DEF CallsInv
    <2> QED BY <1>1, <1>4, <2>1, <2>2 DEF RowInv, Is
<1> QED BY <1>2, <1>3, <1>4 DEF RowInv

LEMMA SubmissionComments ==
    ASSUME NEW r \in Request, SubmitAny(r), IInv, AnswersInv, TicketsAssumption,
           CallsInv, CallsInv', CommentsInv,
           shown' = shown,
           \/ calls' = calls /\ open' = open /\ ~Is(r, "comment")'
           \/ calls' = calls \cup {r} /\ (open' = open \/ (calls = {} /\ ~Loaded)),
           \A q, s \in calls' : ~(Is(q, "change") /\ Is(s, "comment"))'
    PROVE  CommentsInv'
<1>1. /\ r \notin calls /\ r \notin comments /\ treq'[r].at = "sent"
      /\ \A s \in Request \ {r} : treq'[s] = treq[s]
      /\ comments' = comments /\ view' = view /\ stamp' = stamp
      /\ \A t : {c \in comments' : treq'[c].ticket = t} = On(t)
    BY NewRequest
<1>2. \A s \in Request \ calls' : Is(s, "comment")' => treq'[s].at \in {"done", "failed"}
    BY <1>1 DEF CommentsInv, Is
<1>3. On(open)' = On(open') BY <1>1 DEF On
<1>4. Loaded' => shown'.comments = InOrder(On(open) \ calls, stamp)'
    <2>1. Loaded' => Loaded /\ open' = open BY DEF Loaded
    <2>2. r \notin On(open) BY <1>1 DEF On
    <2>3. open' = open => On(open)' \ calls' = On(open) \ calls BY <1>3, <2>2
    <2> QED BY <1>1, <2>1, <2>3 DEF CommentsInv
<1>5. ASSUME NEW q \in calls', ~Is(q, "comment")', At(q, "done")'
      PROVE  view'[q].comments = Listing(open)'
    <2>1. q \in calls /\ q # r BY <1>1, <1>5 DEF At
    <2>2. treq'[q] = treq[q] /\ open' = open BY <1>1, <2>1 DEF CallsInv
    <2>3. Listing(open)' = Listing(open) BY <1>1, <1>3, <2>2 DEF Listing, On
    <2> QED BY <1>1, <1>5, <2>1, <2>2, <2>3 DEF CommentsInv, Is, At
<1>6. ASSUME NEW q \in calls', Is(q, "comment")', treq'[q].at \in {"loaded", "posted", "done"},
              NEW d \in comments' \ {q}
      PROVE  stamp'[d] < stamp'[q]
    <2>1. q \in calls /\ q # r BY <1>1, <1>6
    <2>2. treq'[q] = treq[q] BY <1>1, <2>1 DEF CallsInv
    <2> QED BY <1>1, <1>6, <2>1, <2>2 DEF CommentsInv, Is
<1> QED BY <1>2, <1>4, <1>5, <1>6 DEF CommentsInv

-----------------------------------------------------------------------------
(* What the page does.                                                     *)

LEMMA OpenPageStep ==
    ASSUME NEW r \in Request, OpenPage(r), IInv, AnswersInv, PageInv,
           TicketsAssumption, PageAssumption
    PROVE  PageInv'
<1>1. PICK t \in Ticket : Exists(t) /\ Call(r, "read", t, {}, NoRow) /\ open' = t
    BY DEF OpenPage
<1>2. SubmitAny(r) BY <1>1 DEF Call, SubmitAny, TicketsAssumption, PageAssumption
<1>3. PInv' BY PageStep DEF PageInv
<1>4. calls = {} /\ ~Loaded /\ calls' = {r} /\ shown' = shown
    BY <1>1 DEF OpenPage, PageInv, PInv, Exists, TicketsAssumption, Call
<1>5. treq' \in [Request -> TicketRequest] /\ treq'[r].at = "sent" /\ treq'[r].kind = "read"
      /\ treq'[r].ticket = t
    BY <1>1, <1>2, Submitted DEF Call, Submit, NoRequest, IInv, Types
<1>6. CallsInv' BY <1>1, <1>4, <1>5 DEF CallsInv, Is, Loaded, PageInv
<1>7. strayed' = strayed BY DEF OpenPage
<1>8. "row" \notin strayed' => RowInv'
    BY <1>2, <1>4, <1>6, <1>7, SubmissionRow DEF PageInv
<1>9. "comments" \notin strayed' => CommentsInv'
    BY <1>2, <1>4, <1>5, <1>6, <1>7, SubmissionComments DEF PageInv, Is
<1> QED BY <1>3, <1>6, <1>8, <1>9 DEF PageInv

LEMMA ChangeControlStep ==
    ASSUME NEW r \in Request, ChangeControl(r), IInv, AnswersInv, PageInv,
           TicketsAssumption, PageAssumption
    PROVE  PageInv'
<1>1. PICK k \in Column : \E want \in Wants({k}) : Call(r, "change", open, {k}, want)
    BY DEF ChangeControl
<1>2. PICK want \in Wants({k}) : Call(r, "change", open, {k}, want)
    BY <1>1
<1>3. {k} \in Changes BY DEF Column, Changes
<1>4. Exists(open) /\ Loaded /\ ~busy BY DEF ChangeControl, PageInv, PInv
<1>5. SubmitAny(r) BY <1>2, <1>3, <1>4, CallSubmits DEF Call
<1>6. PInv' BY PageStep DEF PageInv
<1>7. calls' = calls \cup {r} /\ shown' = shown /\ open' = open /\ busy' = TRUE
      /\ submitting' = submitting
    BY <1>2 DEF ChangeControl, Call
<1>8. treq'[r].at = "sent" /\ treq'[r].kind = "change" /\ treq'[r].ticket = open
    BY <1>2 DEF Call, Submit, NoRequest, IInv, Types
<1>9. /\ r \notin calls /\ calls \subseteq Request
      /\ \A s \in calls : treq'[s] = treq[s]
    BY <1>5, NewRequest DEF PageInv, CallsInv
<1>10. \A s \in calls : treq[s].kind # "change"
    BY <1>4 DEF PageInv, CallsInv, Is
<1>11. CallsInv'
    BY <1>4, <1>7, <1>8, <1>9, <1>10 DEF PageInv, CallsInv, Is, Loaded
<1>12. "row" \notin strayed' => RowInv'
    <2>1. "row" \notin strayed' => "row" \notin strayed BY DEF ChangeControl
    <2> QED BY <1>5, <1>7, <1>11, <2>1, SubmissionRow DEF PageInv
<1>13. "comments" \notin strayed' => CommentsInv'
    <2>1. "comments" \notin strayed' => "comments" \notin strayed /\ ~submitting BY DEF ChangeControl
    <2>2. ~submitting => \A s \in calls' : ~Is(s, "comment")'
        BY <1>7, <1>8, <1>9 DEF PageInv, CallsInv, Is
    <2> QED BY <1>5, <1>7, <1>11, <2>1, <2>2, SubmissionComments DEF PageInv
<1> QED BY <1>6, <1>11, <1>12, <1>13 DEF PageInv

LEMMA PostCommentStep ==
    ASSUME NEW r \in Request, PostComment(r), IInv, AnswersInv, PageInv,
           TicketsAssumption, PageAssumption
    PROVE  PageInv'
<1>1. Call(r, "comment", open, {}, NoRow) BY DEF PostComment
<1>2. Exists(open) /\ Loaded /\ ~submitting BY DEF PostComment, PageInv, PInv
<1>3. SubmitAny(r) BY <1>1, <1>2, CallSubmits DEF Call
<1>4. PInv' BY PageStep DEF PageInv
<1>5. calls' = calls \cup {r} /\ shown' = shown /\ open' = open /\ busy' = busy
      /\ submitting' = TRUE
    BY <1>1 DEF PostComment, Call
<1>6. treq'[r].at = "sent" /\ treq'[r].kind = "comment" /\ treq'[r].ticket = open
    BY <1>1 DEF Call, Submit, NoRequest, IInv, Types
<1>7. /\ r \notin calls /\ calls \subseteq Request
      /\ \A s \in calls : treq'[s] = treq[s]
    BY <1>3, NewRequest DEF PageInv, CallsInv
<1>8. \A s \in calls : treq[s].kind # "comment"
    BY <1>2 DEF PageInv, CallsInv, Is
<1>9. CallsInv'
    BY <1>2, <1>5, <1>6, <1>7, <1>8 DEF PageInv, CallsInv, Is, Loaded
<1>10. "row" \notin strayed' => RowInv'
    <2>1. "row" \notin strayed' => "row" \notin strayed BY DEF PostComment
    <2> QED BY <1>3, <1>5, <1>9, <2>1, SubmissionRow DEF PageInv
<1>11. "comments" \notin strayed' => CommentsInv'
    <2>1. "comments" \notin strayed' => "comments" \notin strayed /\ ~busy BY DEF PostComment
    <2>2. ~busy => \A s \in calls' : ~Is(s, "change")'
        BY <1>5, <1>6, <1>7 DEF PageInv, CallsInv, Is
    <2> QED BY <1>3, <1>5, <1>9, <2>1, <2>2, SubmissionComments DEF PageInv
<1> QED BY <1>4, <1>9, <1>10, <1>11 DEF PageInv

LEMMA ElsewhereStep ==
    ASSUME NEW r \in Request, Elsewhere(r), IInv, AnswersInv, PageInv,
           TicketsAssumption, PageAssumption
    PROVE  PageInv'
<1>1. SubmitAny(r) /\ calls' = calls /\ open' = open /\ shown' = shown
      /\ busy' = busy /\ submitting' = submitting
    BY DEF Elsewhere
<1>2. PInv' BY PageStep DEF PageInv
<1>3. r \notin calls /\ \A s \in calls : treq'[s] = treq[s]
    BY <1>1, NewRequest DEF PageInv, CallsInv
<1>4. CallsInv' BY <1>1, <1>3 DEF PageInv, CallsInv, Is, Loaded
<1>5. "row" \notin strayed' => RowInv'
    <2>1. "row" \notin strayed' => "row" \notin strayed /\ ~Is(r, "change")' BY DEF Elsewhere, Is
    <2> QED BY <1>1, <1>4, <2>1, SubmissionRow DEF PageInv
<1>6. "comments" \notin strayed' => CommentsInv'
    <2>1. "comments" \notin strayed' => "comments" \notin strayed /\ ~Is(r, "comment")'
        BY DEF Elsewhere, Is
    <2>2. "comments" \notin strayed => \A q, s \in calls' : ~(Is(q, "change") /\ Is(s, "comment"))'
        BY <1>1, <1>3 DEF PageInv, CommentsInv, Is
    <2> QED BY <1>1, <1>4, <2>1, <2>2, SubmissionComments DEF PageInv
<1> QED BY <1>2, <1>4, <1>5, <1>6 DEF PageInv

LEMMA ReceiveTicketStep ==
    ASSUME NEW r \in Request, ReceiveTicket(r), IInv, AnswersInv, PageInv,
           TicketsAssumption, PageAssumption
    PROVE  PageInv'
<1>1. /\ r \in calls /\ treq[r].at = "done" /\ treq[r].kind \in {"read", "change"}
      /\ shown' = view[r] /\ calls' = calls \ {r} /\ busy' = (busy /\ Is(r, "read"))
      /\ submitting' = submitting /\ strayed' = strayed
      /\ UNCHANGED ticketVars /\ open' = open
    BY DEF ReceiveTicket, Over, At
<1>2. /\ treq' = treq /\ comments' = comments /\ applied' = applied /\ ticket' = ticket
      /\ view' = view /\ stamp' = stamp
    BY <1>1 DEF ticketVars
<1>3. view[r] \in View /\ view[r].row.by # NoUser /\ Known(r)
    BY <1>1 DEF AnswersInv, Answers, IInv
<1>4. Loaded' BY <1>1, <1>3 DEF Loaded, NoView, NoRow
<1>5. PInv' BY PageStep DEF PageInv, Receive
<1>6. \A q \in calls' : q \in calls /\ ~Is(q, "read") /\ treq[q].kind # treq[r].kind
    BY <1>1 DEF PageInv, CallsInv, Is
<1>7. CallsInv' BY <1>1, <1>2, <1>3, <1>4, <1>6 DEF PageInv, CallsInv, Is
<1>8. "row" \notin strayed' => RowInv'
    <2> SUFFICES ASSUME "row" \notin strayed PROVE RowInv' BY <1>1
    <2>1. RowInv BY DEF PageInv
    <2>2. shown'.row = ticket[open] BY <1>1, <2>1 DEF RowInv, Is
    <2> QED BY <1>1, <1>2, <1>6, <2>1, <2>2 DEF RowInv, Is
<1>9. "comments" \notin strayed' => CommentsInv'
    <2> SUFFICES ASSUME "comments" \notin strayed PROVE CommentsInv' BY <1>1
    <2>1. CommentsInv BY DEF PageInv
    <2>2. shown'.comments = InOrder(On(open), stamp)
        BY <1>1, <2>1 DEF CommentsInv, Is, At, Listing, On
    <2>3. \A c \in comments : Is(c, "comment") BY DEF IInv, Types, Known
    <2>4. calls' \cap comments = {}
        <3>1. CASE Is(r, "change") BY <1>1, <1>6, <2>1, <2>3, <3>1 DEF CommentsInv
        <3>2. CASE Is(r, "read") BY <1>1, <1>6, <3>2 DEF PageInv, CallsInv, Is
        <3> QED BY <1>1, <3>1, <3>2 DEF Is
    <2>5. On(open) \ calls' = On(open) BY <2>4 DEF On
    <2>6. On(open)' = On(open) BY <1>1, <1>2 DEF On
    <2>7. Loaded' => shown'.comments = InOrder(On(open) \ calls, stamp)'
        BY <1>2, <2>2, <2>5, <2>6
    <2>8. Listing(open)' = Listing(open) BY <1>1, <1>2 DEF Listing
    <2>9. \A s \in Request \ calls' : Is(s, "comment")' => treq'[s].at \in {"done", "failed"}
        BY <1>1, <1>2, <2>1 DEF CommentsInv, Is
    <2> QED BY <1>2, <1>6, <2>1, <2>7, <2>8, <2>9 DEF CommentsInv, Is, At
<1> QED BY <1>5, <1>7, <1>8, <1>9 DEF PageInv

LEMMA ReceiveCommentStep ==
    ASSUME NEW r \in Request, ReceiveComment(r), IInv, AnswersInv, PageInv,
           TicketsAssumption, PageAssumption
    PROVE  PageInv'
<1>1. /\ r \in calls /\ treq[r].at = "done" /\ treq[r].kind = "comment"
      /\ shown' = WithComment(r) /\ calls' = calls \ {r} /\ busy' = busy
      /\ submitting' = FALSE /\ strayed' = strayed
      /\ UNCHANGED ticketVars /\ open' = open
    BY DEF ReceiveComment, Over, At, Is
<1>2. /\ treq' = treq /\ comments' = comments /\ applied' = applied /\ ticket' = ticket
      /\ view' = view /\ stamp' = stamp
    BY <1>1 DEF ticketVars
<1>3. /\ shown \in View /\ Loaded /\ treq[r].ticket = open
    BY <1>1 DEF PageInv, CallsInv, Is
<1>4. /\ shown'.row = shown.row /\ shown'.comments = Append(shown.comments, r)
      /\ shown' \in View
    BY <1>1, <1>3 DEF WithComment, View
<1>5. Loaded'
    <2>1. Len(shown'.comments) = Len(shown.comments) + 1 /\ Len(shown.comments) \in Nat
        BY <1>3, <1>4 DEF View
    <2>2. Len(NoView.comments) = 0 BY DEF NoView
    <2> QED BY <2>1, <2>2 DEF Loaded
<1>6. PInv' BY PageStep DEF PageInv, Receive
<1>7. \A q \in calls' : q \in calls /\ q # r /\ treq[q].kind # "comment"
    BY <1>1 DEF PageInv, CallsInv
<1>8. CallsInv' BY <1>1, <1>2, <1>3, <1>4, <1>5, <1>7 DEF PageInv, CallsInv, Is
<1>9. r \in comments /\ r \notin applied
    BY <1>1 DEF AnswersInv, Answers, IInv, Known, Is
<1>10. "row" \notin strayed' => RowInv'
    <2> SUFFICES ASSUME "row" \notin strayed PROVE RowInv' BY <1>1
    <2>1. RowInv BY DEF PageInv
    <2>2. shown.row = ticket[open] \/ calls' \cap applied # {}
        BY <1>1, <1>3, <1>9, <2>1 DEF RowInv
    <2> QED BY <1>1, <1>2, <1>4, <1>7, <2>1, <2>2 DEF RowInv, Is
<1>11. "comments" \notin strayed' => CommentsInv'
    <2> SUFFICES ASSUME "comments" \notin strayed PROVE CommentsInv' BY <1>1
    <2>1. CommentsInv BY DEF PageInv
    <2> DEFINE S == On(open) \ calls
    <2>2. S \in SUBSET comments /\ r \notin S /\ \A d \in S : stamp[d] < stamp[r]
        BY <1>1, <2>1 DEF CommentsInv, Is, On
    <2>3. Distinct(S, stamp) /\ now \in Nat /\ (\A c \in S : stamp[c] <= now) /\ stamp[r] \in Nat
        BY <2>2, CommentTimes DEF IInv, Types
    <2>4. shown.comments = InOrder(S, stamp) BY <1>3, <2>1 DEF CommentsInv
    <2>5. On(open)' = On(open) BY <1>1, <1>2 DEF On
    <2>6. On(open) \ calls' = S \cup {r} BY <1>1, <1>3, <1>9 DEF On
    <2> HIDE DEF S
    <2>7. InOrder(S \cup {r}, stamp) = Append(InOrder(S, stamp), r)
        BY <2>2, <2>3, ListedLast
    <2>8. shown'.comments = InOrder(On(open) \ calls, stamp)'
        BY <1>2, <1>4, <2>4, <2>5, <2>6, <2>7
    <2>9. Listing(open)' = Listing(open) BY <1>1, <1>2 DEF Listing
    <2>10. \A s \in Request \ calls' : Is(s, "comment")' => treq'[s].at \in {"done", "failed"}
        BY <1>1, <1>2, <2>1 DEF CommentsInv, Is
    <2> QED BY <1>2, <1>7, <2>1, <2>8, <2>9, <2>10 DEF CommentsInv, Is, At
<1> QED BY <1>6, <1>8, <1>10, <1>11 DEF PageInv

LEMMA ReceiveErrorStep ==
    ASSUME NEW r \in Request, ReceiveError(r), IInv, AnswersInv, PageInv,
           TicketsAssumption, PageAssumption
    PROVE  PageInv'
<1>1. /\ r \in calls /\ shown' = shown /\ calls' = calls \ {r}
      /\ busy' = (busy /\ ~Is(r, "change")) /\ submitting' = (submitting /\ ~Is(r, "comment"))
      /\ UNCHANGED ticketVars /\ open' = open
    BY DEF ReceiveError, Over
<1>2. /\ treq' = treq /\ comments' = comments /\ applied' = applied /\ ticket' = ticket
      /\ view' = view /\ stamp' = stamp
    BY <1>1 DEF ticketVars
<1>3. PInv' BY PageStep DEF PageInv, Receive
<1>4. \A q \in calls' : q \in calls /\ q # r /\ treq[q].kind # treq[r].kind
    BY <1>1 DEF PageInv, CallsInv
<1>5. CallsInv' BY <1>1, <1>2, <1>4 DEF PageInv, CallsInv, Is, Loaded
<1>6. Known(r) BY DEF IInv
<1>7. "row" \notin strayed' => RowInv'
    <2> SUFFICES ASSUME "row" \notin strayed' PROVE RowInv' OBVIOUS
    <2>1. "row" \notin strayed /\ (Is(r, "change") => r \notin applied /\ treq[r].at = "failed")
        BY DEF ReceiveError, At
    <2>2. RowInv BY <2>1 DEF PageInv
    <2>3. r \notin applied BY <1>6, <2>1 DEF Known
    <2>4. calls' \cap applied = {} => calls \cap applied = {} BY <1>1, <2>3
    <2> QED BY <1>1, <1>2, <1>4, <2>1, <2>2, <2>4 DEF RowInv, Is, Loaded
<1>8. "comments" \notin strayed' => CommentsInv'
    <2> SUFFICES ASSUME "comments" \notin strayed' PROVE CommentsInv' OBVIOUS
    <2>1. "comments" \notin strayed /\ (Is(r, "comment") => r \notin comments /\ treq[r].at = "failed")
        BY DEF ReceiveError, At
    <2>2. CommentsInv BY <2>1 DEF PageInv
    <2>3. r \notin comments BY <1>6, <2>1 DEF Known
    <2>4. On(open)' = On(open) BY <1>1, <1>2 DEF On
    <2>5. On(open) \ calls' = On(open) \ calls BY <1>1, <2>3 DEF On
    <2>6. Loaded' => shown'.comments = InOrder(On(open) \ calls, stamp)'
        BY <1>1, <1>2, <2>2, <2>4, <2>5 DEF CommentsInv, Loaded
    <2>7. Listing(open)' = Listing(open) BY <1>1, <1>2 DEF Listing
    <2>8. \A s \in Request \ calls' : Is(s, "comment")' => treq'[s].at \in {"done", "failed"}
        BY <1>1, <1>2, <2>1, <2>2 DEF CommentsInv, Is
    <2> QED BY <1>2, <1>4, <2>2, <2>6, <2>7, <2>8 DEF CommentsInv, Is, At
<1> QED BY <1>3, <1>5, <1>7, <1>8 DEF PageInv

LEMMA ServerSideStep ==
    ASSUME NEW r \in Request, ServerStep(r), IInv, AnswersInv, PageInv,
           TicketsAssumption, PageAssumption
    PROVE  PageInv'
<1>1. PInv' BY PageStep DEF PageInv
<1>2. CallsInv' BY ServerCalls DEF PageInv
<1>3. strayed' = strayed BY DEF ServerStep, pageVars
<1>4. "row" \notin strayed' => RowInv' BY <1>3, ServerRow DEF PageInv
<1>5. "comments" \notin strayed' => CommentsInv' BY <1>3, ServerComments DEF PageInv
<1> QED BY <1>1, <1>2, <1>4, <1>5 DEF PageInv

LEMMA PageHolds == Spec => [](IInv /\ AnswersInv /\ PageInv)
<1>1. Init => PageInv
    <2> SUFFICES ASSUME Init PROVE PageInv OBVIOUS
    <2>1. calls = {} /\ ~Loaded BY DEF Init, PageInit, Loaded
    <2>2. shown \in View BY NoRowTypes, TicketsAssumption DEF Init, PageInit, NoView, View
    <2>3. comments = {} /\ \A r \in Request : treq[r].kind = "read"
        BY DEF Init, DashboardInit, TicketsInit, NoRequest
    <2>4. RowInv /\ CommentsInv BY <2>1, <2>3 DEF RowInv, CommentsInv, Is
    <2> QED BY <2>1, <2>2, <2>4 DEF PageInv, PInv, CallsInv
<1>2. IInv /\ AnswersInv /\ PageInv /\ [Next]_vars => PageInv'
    <2> SUFFICES ASSUME IInv, AnswersInv, PageInv, [Next]_vars PROVE PageInv' OBVIOUS
    <2>1. CASE UNCHANGED vars
        BY <2>1 DEF vars, ticketVars, pageVars, PageInv, PInv, CallsInv, RowInv, CommentsInv, Is, At,
           Exists, Loaded, On, Listing
    <2>2. ASSUME NEW r \in Request,
                 OpenPage(r) \/ ChangeControl(r) \/ PostComment(r) \/ Receive(r)
                     \/ ServerStep(r) \/ Elsewhere(r)
          PROVE  PageInv'
        BY <2>2, OpenPageStep, ChangeControlStep, PostCommentStep, ReceiveTicketStep,
           ReceiveCommentStep, ReceiveErrorStep, ServerSideStep, ElsewhereStep,
           TicketsAssumption, PageAssumption DEF Receive
    <2> QED BY <2>1, <2>2 DEF Next
<1> QED BY <1>1, <1>2, PageUsesEndpoints, IInvInvariant, AnswersInvariant, PTL DEF Spec

\* The page shows the ticket's row as it is stored: overlapping comments, failed
\* changes and answers that replace all of it leave it right (AdminTicketControls,
\* setTicket).
THEOREM PageShowsRow == Spec => []ShownRowIsStored
<1>1. PageInv => ShownRowIsStored BY DEF PageInv, RowInv, ShownRowIsStored
<1> QED BY <1>1, PageHolds, PTL

\* It shows every comment of the ticket, in the order in which they are listed
\* (CommentSection, onCommentAdded).
THEOREM PageShowsComments == Spec => []ShownCommentsAreStored
<1>1. PageInv => ShownCommentsAreStored
    <2> SUFFICES ASSUME PageInv, Loaded, calls = {}, "comments" \notin strayed
                 PROVE  shown.comments = Listing(open)
        BY DEF ShownCommentsAreStored
    <2>1. shown.comments = InOrder(On(open) \ calls, stamp) BY DEF PageInv, CommentsInv
    <2>2. On(open) \ calls = On(open) OBVIOUS
    <2> QED BY <2>1, <2>2 DEF Listing, On
<1> QED BY <1>1, PageHolds, PTL

LEMMA SmallTypes ==
    Spec => [](open \in Ticket \cup {NoTicket} /\ {busy, submitting} \subseteq BOOLEAN
               /\ strayed \subseteq {"row", "comments"})
<1> DEFINE Small == /\ open \in Ticket \cup {NoTicket} /\ {busy, submitting} \subseteq BOOLEAN
                    /\ strayed \subseteq {"row", "comments"}
<1>1. Init => Small BY DEF Init, PageInit
<1>2. Small /\ [Next]_vars => Small'
    <2> SUFFICES ASSUME Small, [Next]_vars PROVE Small' OBVIOUS
    <2>1. CASE UNCHANGED vars BY <2>1 DEF vars, pageVars
    <2>2. CASE Next
        BY <2>2 DEF Next, OpenPage, ChangeControl, PostComment, Receive, ReceiveTicket,
           ReceiveComment, ReceiveError, ServerStep, Elsewhere, Over, Call, pageVars
    <2> QED BY <2>1, <2>2
<1> QED BY <1>1, <1>2, PTL DEF Spec

\* Every answer, and what the page makes of it, is a ticket with comments.
THEOREM PageTypes == Spec => []TypeOK
<1>1. IInv /\ AnswersInv /\ PageInv
      /\ open \in Ticket \cup {NoTicket} /\ {busy, submitting} \subseteq BOOLEAN
      /\ strayed \subseteq {"row", "comments"} => TypeOK
    BY DEF IInv, Types, AnswersInv, PageInv, CallsInv, TypeOK, TicketsTypeOK
<1> QED BY <1>1, PageHolds, SmallTypes, PTL

-----------------------------------------------------------------------------
(* The dashboard.                                                          *)

\* What a dashboard has counted, query by query.
Counted(r) ==
    /\ DOMAIN counts[r] \in {{}, {"byStatus"}, {"byStatus", "total"},
                             {"byStatus", "total", "byCategory"}}
    /\ Is(r, "dashboard") => treq[r].at \in {"sent", "done", "failed"}
    /\ treq[r].at \in {"idle", "sent"} => "byCategory" \notin DOMAIN counts[r]
    /\ At(r, "done") /\ Is(r, "dashboard") => "byCategory" \in DOMAIN counts[r]
    /\ "byStatus" \in DOMAIN counts[r] =>
           counts[r]["byStatus"] \in Nat /\ counts[r]["byStatus"] <= Cardinality(Opened)
    /\ "total" \in DOMAIN counts[r] =>
           /\ counts[r]["total"] \in Nat /\ counts[r]["total"] <= Cardinality(Opened)
           /\ counts[r]["byStatus"] <= counts[r]["total"]
    /\ "byCategory" \in DOMAIN counts[r] => counts[r]["total"] <= counts[r]["byCategory"]

DashboardInv == DOMAIN counts = Request /\ \A r \in Request : Counted(r)

\* The bars by status add up to all the tickets there are at the time.
LEMMA StatusesAddUp ==
    ASSUME Types, IsFiniteSet(Ticket), IsFiniteSet(Status)
    PROVE  SumFunction(CountByStatus) = Cardinality(Opened)
<1> DEFINE With(s) == {t \in Opened : ticket[t].status \in s}
           g == [s \in SUBSET Status |-> Cardinality(With(s))]
<1>1. IsFiniteSet(Opened) /\ \A s : IsFiniteSet(With(s)) /\ Cardinality(With(s)) \in Nat
    <2>1. Opened \subseteq Ticket BY DEF Opened
    <2>2. IsFiniteSet(Opened) BY <2>1, FS_Subset
    <2> QED BY <2>2, FS_Subset, FS_CardinalityType
<1>2. \A x \in Status : CountByStatus[x] = Cardinality(With({x}))
    <2>1. ASSUME NEW x PROVE With({x}) = {t \in Opened : ticket[t].status = x} OBVIOUS
    <2> QED BY <2>1 DEF CountByStatus
<1>3. With({}) = {} /\ With(Status) = Opened
    BY DEF Opened, Types, Exists, Row
<1>4. ASSUME NEW s \in SUBSET Status, NEW x \in s
      PROVE  Cardinality(With(s)) = Cardinality(With({x})) + Cardinality(With(s \ {x}))
    <2>1. With(s) = With({x}) \cup With(s \ {x}) /\ With({x}) \cap With(s \ {x}) = {} OBVIOUS
    <2> HIDE DEF With
    <2>2. Cardinality(With({x}) \cup With(s \ {x})) =
              Cardinality(With({x})) + Cardinality(With(s \ {x})) - Cardinality({})
        BY <1>1, <2>1, FS_Union
    <2>3. Cardinality({}) = 0 BY FS_EmptySet
    <2>4. Cardinality(With({x})) \in Nat /\ Cardinality(With(s \ {x})) \in Nat BY <1>1
    <2>5. Cardinality(With(s)) = Cardinality(With({x}) \cup With(s \ {x})) BY <2>1
    <2>6. Cardinality(With(s)) = Cardinality(With({x})) + Cardinality(With(s \ {x})) - 0
        BY <2>2, <2>3, <2>5
    <2> QED BY <2>4, <2>6
<1>5. CountByStatus \in [Status -> Nat]
    <2>1. CountByStatus = [x \in Status |-> CountByStatus[x]] BY DEF CountByStatus
    <2> HIDE DEF With
    <2> QED BY <1>1, <1>2, <2>1
<1> HIDE DEF With
<1>6. g \in [SUBSET Status -> Nat] BY <1>1
<1>7. g[{}] = 0 BY <1>3, FS_EmptySet
<1>8. \A s \in SUBSET Status : \A x \in s : g[s] = CountByStatus[x] + g[s \ {x}]
    BY <1>2, <1>4
<1> HIDE DEF g
<1>9. SumFunction(CountByStatus) = g[Status] BY <1>5, <1>6, <1>7, <1>8, SumOfParts
<1> QED BY <1>3, <1>9 DEF g

\* Tickets are only added.
LEMMA OpenedGrows ==
    ASSUME NEW r \in Request, Step(r), IInv, TicketsAssumption, IsFiniteSet(Ticket)
    PROVE  /\ Cardinality(Opened) \in Nat /\ Cardinality(Opened') \in Nat
           /\ Cardinality(Opened) <= Cardinality(Opened')
<1>1. Opened \subseteq Opened' /\ Opened' \subseteq Ticket
    BY StepOthers DEF Opened, Exists, IInv
<1>2. IsFiniteSet(Opened') BY <1>1, FS_Subset
<1>3. IsFiniteSet(Opened) /\ Cardinality(Opened) <= Cardinality(Opened') BY <1>1, <1>2, FS_Subset
<1> QED BY <1>2, <1>3, FS_CardinalityType

LEMMA CountNextStep ==
    ASSUME NEW r \in Request, CountNext(r), IInv, DashboardInv, TicketsAssumption,
           IsFiniteSet(Ticket), IsFiniteSet(Status)
    PROVE  Counted(r)' /\ \A s \in Request \ {r} : counts'[s] = counts[s]
<1> DEFINE f == counts[r]
           n == Cardinality(Opened)
<1>1. Types /\ treq \in [Request -> TicketRequest] BY DEF IInv, Types
<1>2. /\ Counted(r) /\ treq[r].at = "sent" /\ Is(r, "dashboard") /\ DOMAIN counts = Request
      /\ ticket' = ticket
    BY DEF CountNext, DashboardInv, At
<1>3. n \in Nat
    <2>1. Opened \subseteq Ticket BY DEF Opened
    <2> QED BY <2>1, FS_Subset, FS_CardinalityType
<1>4. \A q : CountOf(q) = n BY <1>1, StatusesAddUp DEF CountOf
<1>5. Opened' = Opened BY <1>2 DEF Opened, Exists
<1>6. PICK query : /\ query = Queries[Cardinality(DOMAIN f) + 1]
                   /\ counts' = [counts EXCEPT ![r] =
                         [q \in DOMAIN f \cup {query} |-> IF q = query THEN n ELSE f[q]]]
    BY <1>4 DEF CountNext
<1>7. /\ counts'[r] = [q \in DOMAIN f \cup {query} |-> IF q = query THEN n ELSE f[q]]
      /\ \A s \in Request \ {r} : counts'[s] = counts[s]
    BY <1>2, <1>6
<1>8. /\ DOMAIN counts'[r] = {query} \cup DOMAIN f
      /\ counts'[r][query] = n
      /\ \A q \in DOMAIN f : q # query => counts'[r][q] = f[q]
    BY <1>7
<1>9. ToSet(Queries) = {"byStatus", "total", "byCategory"}
    <2>1. DOMAIN Queries = {1, 2, 3} BY DEF Queries
    <2> QED BY <2>1 DEF ToSet, Queries
<1>10. /\ DOMAIN counts'[r] = ToSet(Queries) => Goto(r, "done")
       /\ DOMAIN counts'[r] # ToSet(Queries) => treq' = treq
    BY DEF CountNext
<1>11. /\ DOMAIN counts'[r] = ToSet(Queries) => treq'[r].at = "done"
       /\ DOMAIN counts'[r] # ToSet(Queries) => treq'[r].at = "sent"
    BY <1>1, <1>2, <1>10, GotoKeeps
<1>12. Cardinality({}) = 0 /\ Cardinality({"byStatus"}) = 1 /\ Cardinality({"byStatus", "total"}) = 2
    <2>1. {"byStatus", "total"} = {"byStatus"} \cup {"total"} OBVIOUS
    <2>2. IsFiniteSet({"byStatus"}) /\ Cardinality({"byStatus"}) = 1 BY FS_Singleton
    <2>3. Cardinality({"byStatus"} \cup {"total"}) = Cardinality({"byStatus"}) + 1
        BY <2>2, FS_AddElement
    <2>4. Cardinality({}) = 0 BY FS_EmptySet
    <2> QED BY <2>1, <2>2, <2>3, <2>4
<1> HIDE DEF f, n
<1>13. CASE DOMAIN f = {}
    <2>1. query = "byStatus" BY <1>6, <1>12, <1>13 DEF Queries
    <2>2. DOMAIN counts'[r] = {"byStatus"} BY <1>8, <1>13, <2>1
    <2> QED BY <1>3, <1>5, <1>7, <1>8, <1>9, <1>11, <2>1, <2>2 DEF Counted, At, n
<1>14. CASE DOMAIN f = {"byStatus"}
    <2>1. query = "total" BY <1>6, <1>12, <1>14 DEF Queries
    <2>2. DOMAIN counts'[r] = {"byStatus", "total"} BY <1>8, <1>14, <2>1
    <2>3. f["byStatus"] \in Nat /\ f["byStatus"] <= n BY <1>2, <1>14 DEF Counted, f, n
    <2>4. counts'[r]["byStatus"] = f["byStatus"] /\ counts'[r]["total"] = n BY <1>8, <1>14, <2>1
    <2> QED BY <1>3, <1>5, <1>7, <1>9, <1>11, <2>2, <2>3, <2>4 DEF Counted, At, n
<1>15. CASE DOMAIN f = {"byStatus", "total"}
    <2>1. query = "byCategory" BY <1>6, <1>12, <1>15 DEF Queries
    <2>2. DOMAIN counts'[r] = {"byStatus", "total", "byCategory"} BY <1>8, <1>15, <2>1
    <2>3. /\ f["byStatus"] \in Nat /\ f["byStatus"] <= n
          /\ f["total"] \in Nat /\ f["total"] <= n /\ f["byStatus"] <= f["total"]
        BY <1>2, <1>15 DEF Counted, f, n
    <2>4. /\ counts'[r]["byStatus"] = f["byStatus"] /\ counts'[r]["total"] = f["total"]
          /\ counts'[r]["byCategory"] = n
        BY <1>8, <1>15, <2>1
    <2> QED BY <1>3, <1>5, <1>7, <1>9, <1>11, <2>2, <2>3, <2>4 DEF Counted, At, n
<1>16. "byCategory" \notin DOMAIN f BY <1>2 DEF Counted, f
<1> QED BY <1>2, <1>13, <1>14, <1>15, <1>16 DEF Counted, f

LEMMA DashboardStep ==
    ASSUME NEW r \in Request, (SubmitAny(r) /\ UNCHANGED counts) \/ ServeAny(r),
           IInv, DashboardInv, TicketsAssumption, IsFiniteSet(Ticket), IsFiniteSet(Status)
    PROVE  DashboardInv'
<1>1. Step(r) /\ Types /\ Known(r) BY DEF Step, ServeAny, IInv
<1>2. /\ Cardinality(Opened) \in Nat /\ Cardinality(Opened') \in Nat
      /\ Cardinality(Opened) <= Cardinality(Opened')
    BY <1>1, OpenedGrows
<1>3. DOMAIN counts' = Request BY DEF ServeAny, CountNext, DashboardInv
<1>4. ASSUME NEW s \in Request, counts'[s] = counts[s],
             treq'[s].at \in {"idle", "sent"} => treq[s].at \in {"idle", "sent"},
             treq'[s].at = "done" /\ Is(s, "dashboard")' => treq[s].at = "done" /\ Is(s, "dashboard"),
             Is(s, "dashboard")' => treq'[s].at \in {"sent", "done", "failed"}
      PROVE  Counted(s)'
    <2>1. Counted(s) BY DEF DashboardInv
    <2> QED BY <1>2, <1>4, <2>1 DEF Counted, At
<1>5. \A s \in Request \ {r} : treq'[s] = treq[s] BY <1>1, StepOthers
<1>8. Is(r, "dashboard") => treq[r].at \in {"sent", "done", "failed"}
    BY DEF DashboardInv, Counted
<1>6. CASE CountNext(r)
    <2>1. Counted(r)' /\ \A s \in Request \ {r} : counts'[s] = counts[s] BY <1>6, CountNextStep
    <2>2. \A s \in Request \ {r} : Counted(s)'
        BY <1>4, <1>5, <2>1 DEF DashboardInv, Counted, Is
    <2> QED BY <1>3, <2>1, <2>2 DEF DashboardInv
<1>7. CASE ~CountNext(r)
    <2>1. counts' = counts BY <1>7 DEF ServeAny
    <2>2. treq'[r].at \in {"idle", "sent"} => treq[r].at \in {"idle", "sent"}
        BY <1>1, StepPoint
    <2>3. treq'[r].at = "done" /\ Is(r, "dashboard")' => treq[r].at = "done" /\ Is(r, "dashboard")
        BY <1>1, <1>7, <1>8, StepPoint DEF Is
    <2>4. Is(r, "dashboard")' => treq'[r].at \in {"sent", "done", "failed"}
        BY <1>1, <1>8, StepPoint DEF Is
    <2>5. \A s \in Request \ {r} : Is(s, "dashboard")' => treq'[s].at \in {"sent", "done", "failed"}
        BY <1>5 DEF DashboardInv, Counted, Is
    <2>6. \A s \in Request : Counted(s)' BY <1>4, <1>5, <2>1, <2>2, <2>3, <2>4, <2>5 DEF Is
    <2> QED BY <1>3, <2>6 DEF DashboardInv
<1> QED BY <1>6, <1>7

\* The bars by status never exceed the total that is shown with them, nor the
\* total the bars by category, though each is counted in a query of its own
\* (dashboard_service.get_dashboard_metrics).
THEOREM DashboardAgrees ==
    ASSUME IsFiniteSet(Ticket), IsFiniteSet(Status)
    PROVE  TicketsSpec => []BarsAgreeWithTotal
<1>1. DashboardInit => DashboardInv
    BY DEF DashboardInit, CountsInit, TicketsInit, NoRequest, DashboardInv, Counted, At, Is
<1>2. IInv /\ DashboardInv /\ [TicketsNext]_<<ticketVars, counts>> => DashboardInv'
    <2> SUFFICES ASSUME IInv, DashboardInv, [TicketsNext]_<<ticketVars, counts>> PROVE DashboardInv'
        OBVIOUS
    <2>1. ASSUME NEW r \in Request, (SubmitAny(r) /\ UNCHANGED counts) \/ ServeAny(r)
          PROVE  DashboardInv'
        BY <2>1, DashboardStep, TicketsAssumption
    <2>2. CASE UNCHANGED <<ticketVars, counts>>
        BY <2>2 DEF ticketVars, DashboardInv, Counted, At, Is, Opened, Exists
    <2> QED BY <2>1, <2>2 DEF TicketsNext
<1>3. DashboardInv => BarsAgreeWithTotal
    BY DEF DashboardInv, Counted, BarsAgreeWithTotal
<1> QED BY <1>1, <1>2, <1>3, IInvInvariant, PTL DEF TicketsSpec
=============================================================================
