\* Two uploads, a question and a listing share two connections.
SPECIFICATION Spec
CONSTANTS
    u1 = u1
    u2 = u2
    c1 = c1
    r1 = r1
    Request = {u1, u2, c1, r1}
    KindOf <- MCKindOf
    Limit = 2
INVARIANTS
    ConnectionsComeBack
    UnsettledOnlyIfRefused
PROPERTIES
    EveryRequestEnds
\* Every request is made once.
CHECK_DEADLOCK FALSE
