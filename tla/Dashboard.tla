----------------------------- MODULE Dashboard -----------------------------
(***************************************************************************)
(* The ticket counts of the admin dashboard (dashboard_service), which are *)
(* queries of their own, made one after the other while tickets are opened *)
(* and changed.                                                            *)
(***************************************************************************)
EXTENDS Tickets

VARIABLE counts   \* what each dashboard request has counted so far

Opened == {t \in Ticket : Exists(t)}

\* ticket_repository.count_by_status
CountByStatus == [s \in Status |-> Cardinality({t \in Opened : ticket[t].status = s})]

\* What the page shows of a query: of the grouped ones, all the bars together;
\* of the categories, which never change, nothing else is kept.
CountOf(query) ==
    IF query = "byStatus" THEN SumFunction(CountByStatus) ELSE Cardinality(Opened)

\* Mutant: the total is counted first.
QueriesTotalFirst == <<"total", "byStatus", "byCategory">>

\* The order of the queries in get_dashboard_metrics.
Queries == <<"byStatus", "total", "byCategory">>

CountsInit == counts = [r \in Request |-> <<>>]

CountNext(r) ==
    /\ At(r, "sent") /\ Is(r, "dashboard") /\ ~Forbidden(r)
    /\ LET query == Queries[Cardinality(DOMAIN counts[r]) + 1] IN
       counts' = [counts EXCEPT ![r] =
          [q \in DOMAIN @ \cup {query} |-> IF q = query THEN CountOf(q) ELSE @[q]]]
    /\ IF DOMAIN counts'[r] = ToSet(Queries) THEN Goto(r, "done") ELSE UNCHANGED treq
    /\ UNCHANGED <<ticket, comments, applied, view, clock>>

DashboardInit == TicketsInit /\ CountsInit

ServeAny(r) == (Serve(r) /\ UNCHANGED counts) \/ CountNext(r)

TicketsNext == \E r \in Request : (SubmitAny(r) /\ UNCHANGED counts) \/ ServeAny(r)

TicketsSpec == DashboardInit /\ [][TicketsNext]_<<ticketVars, counts>>
=============================================================================
