---------------------------- MODULE MCTicketPage ----------------------------
EXTENDS TicketPage

\* Tickets and requests are interchangeable.
Symmetry == Permutations(Ticket) \cup Permutations(Request)
=============================================================================
