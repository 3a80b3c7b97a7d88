\* Three requests, made by the page, by other tabs of its user or by another user.
SPECIFICATION Spec
CONSTANTS
    User = {u1, u2}
    Me = u1
    Conversation = {c1, c2}
    Request = {r1, r2, r3}
    Faults = {"model", "db", "lost"}
    NoUser = NoUser
    NoConversation = NoConversation
SYMMETRY Symmetry
INVARIANTS
    AnswerFollowsQuestion
    AnsweredIsKept
    OneQuestionAtATime
    ShownIsStored
PROPERTIES
    ImplementsTranscripts
\* The system stops when all requests have been made and answered.
CHECK_DEADLOCK FALSE
