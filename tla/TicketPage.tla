----------------------------- MODULE TicketPage -----------------------------
(***************************************************************************)
(* An administrator's ticket page (AdminTicketControls, CommentSection)    *)
(* composed with the endpoints it calls.  The controls and the comment     *)
(* form disable themselves separately, so a change and a comment overlap.  *)
(***************************************************************************)
EXTENDS TicketProperties

CONSTANT Me   \* the administrator at the page

ASSUME PageAssumption == Me \in Admin

VARIABLES
    open,        \* the ticket of the page
    shown,       \* the page's ticket with its comments; NoView while it loads
    busy,        \* AdminTicketControls is waiting
    submitting,  \* CommentSection is waiting
    calls,       \* the page's requests that are not answered yet
    strayed      \* history: the parts the page cannot be expected to know

pageVars == <<open, shown, busy, submitting, calls, strayed>>
vars == <<ticketVars, counts, pageVars>>

PageInit ==
    /\ open = NoTicket
    /\ shown = NoView
    /\ busy = FALSE /\ submitting = FALSE
    /\ calls = {}
    /\ strayed = {}

Init == DashboardInit /\ PageInit

Call(r, kind, t, cols, want) ==
    /\ Submit(r, kind, Me, t, cols, want)
    /\ calls' = calls \cup {r}
    /\ UNCHANGED counts

\* The page loads its ticket once.
OpenPage(r) ==
    /\ open = NoTicket
    /\ \E t \in Ticket : Exists(t) /\ Call(r, "read", t, {}, NoRow) /\ open' = t
    /\ UNCHANGED <<shown, busy, submitting, strayed>>

Loaded == shown # NoView

\* A select fires when another value than the one shown is chosen.
ChangeControl(r) ==
    /\ Loaded /\ ~busy
    /\ \E k \in Column : \E want \in Wants({k}) :
        want[k] # shown.row[k] /\ Call(r, "change", open, {k}, want)
    /\ busy' = TRUE
    /\ strayed' = IF submitting THEN strayed \cup {"comments"} ELSE strayed
    /\ UNCHANGED <<open, shown, submitting>>

PostComment(r) ==
    /\ Loaded /\ ~submitting
    /\ Call(r, "comment", open, {}, NoRow)
    /\ submitting' = TRUE
    /\ strayed' = IF busy THEN strayed \cup {"comments"} ELSE strayed
    /\ UNCHANGED <<open, shown, busy>>

\* What the page does with an answer.
Over(r) == calls' = calls \ {r} /\ UNCHANGED <<ticketVars, counts, open>>

\* setTicket, with the answer of the load or of a control.
ReceiveTicket(r) ==
    /\ r \in calls /\ At(r, "done") /\ treq[r].kind \in {"read", "change"}
    /\ shown' = view[r]
    /\ busy' = (busy /\ Is(r, "read"))
    /\ Over(r)
    /\ UNCHANGED <<submitting, strayed>>

\* Mutant: the newest comment first.
WithCommentFirst(r) == [shown EXCEPT !.comments = <<r>> \o @]

WithComment(r) == [shown EXCEPT !.comments = Append(@, r)]

\* onCommentAdded
ReceiveComment(r) ==
    /\ r \in calls /\ At(r, "done") /\ Is(r, "comment")
    /\ shown' = WithComment(r)
    /\ submitting' = FALSE
    /\ Over(r)
    /\ UNCHANGED <<busy, strayed>>

\* The request failed or its answer is lost: what is shown stays.
ReceiveError(r) ==
    /\ r \in calls
    /\ At(r, "failed") \/ "lost" \in Faults
    /\ busy' = (busy /\ ~Is(r, "change"))
    /\ submitting' = (submitting /\ ~Is(r, "comment"))
    /\ strayed' = strayed \cup
          (IF Is(r, "change") /\ (r \in applied \/ ~At(r, "failed")) THEN {"row"} ELSE {})
          \cup (IF Is(r, "comment") /\ (r \in comments \/ ~At(r, "failed")) THEN {"comments"} ELSE {})
    /\ Over(r)
    /\ UNCHANGED shown

Receive(r) == ReceiveTicket(r) \/ ReceiveComment(r) \/ ReceiveError(r)

ServerStep(r) == ServeAny(r) /\ UNCHANGED pageVars

\* Another client, this administrator's included.
Elsewhere(r) ==
    /\ SubmitAny(r) /\ treq'[r].kind # "read"
    /\ strayed' = strayed \cup (IF treq'[r].kind = "change" THEN {"row"} ELSE {})
                          \cup (IF treq'[r].kind = "comment" THEN {"comments"} ELSE {})
    /\ UNCHANGED <<counts, open, shown, busy, submitting, calls>>

Next ==
    \E r \in Request :
        \/ OpenPage(r) \/ ChangeControl(r) \/ PostComment(r)
        \/ Receive(r) \/ ServerStep(r) \/ Elsewhere(r)

Spec == Init /\ [][Next]_vars

-----------------------------------------------------------------------------
TypeOK ==
    /\ TicketsTypeOK
    /\ open \in Ticket \cup {NoTicket}
    /\ shown \in View
    /\ {busy, submitting} \subseteq BOOLEAN
    /\ calls \subseteq Request
    /\ strayed \subseteq {"row", "comments"}

\* The page shows the ticket as it is stored, when nothing is under way and
\* nobody else has changed it: overlapping comments and failed changes leave it
\* right, though every answer replaces all of it.
ShownRowIsStored ==
    Loaded /\ calls = {} /\ "row" \notin strayed => shown.row = ticket[open]

\* It shows all comments, in their order, when nobody else comments and no
\* comment is posted while a control is busy: then the answer to the change may
\* bring the comments of before.
ShownCommentsAreStored ==
    Loaded /\ calls = {} /\ "comments" \notin strayed => shown.comments = Listing(open)
=============================================================================
