\* An administrator's page and other clients, three requests on a ticket.
SPECIFICATION Spec
CONSTANTS
    User = {u1, u2}
    Admin = {u1}
    Me = u1
    Ticket = {t1}
    Request = {r1, r2, r3}
    Status = {"OPEN", "CLOSED"}
    Priority = {"LOW"}
    Faults = {"db", "lost"}
    NoUser = NoUser
    NoTicket = NoTicket
SYMMETRY Symmetry
INVARIANTS
    TypeOK
    CommentsInOrder
    BarsAgreeWithTotal
    ShownRowIsStored
    ShownCommentsAreStored
PROPERTIES
    ImplementsBoard
\* Every request is made once.
CHECK_DEADLOCK FALSE
