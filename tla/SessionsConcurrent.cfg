\* Two PATCH requests and two calls at a time, of two accounts.
SPECIFICATION Spec
CONSTANTS
    Account = {a1, a2}
    Patch = {p1, p2}
    NoAccount = NoAccount
    Token = {k1, k2}
    Tab = {t1}
    Call = {c1, c2}
    Faults = {}
    NoToken = NoToken
    NoTab = NoTab
SYMMETRY Symmetry
INVARIANTS
    TypeOK
    DeactivatedGetsNothing
PROPERTIES
    LockoutNeedsOverlap
    DeactivationStands
