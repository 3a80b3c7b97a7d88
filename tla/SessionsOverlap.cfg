\* Two calls at a time; tokens expire, handlers fail, and the answers of handlers
\* that go on are lost.
SPECIFICATION Spec
CONSTANTS
    Account = {a1, a2}
    Patch = {}
    NoAccount = NoAccount
    Token = {k1, k2, k3}
    Tab = {t1}
    Call = {c1, c2}
    Faults = {"expired", "lost"}
    NoToken = NoToken
    NoTab = NoTab
SYMMETRY Symmetry
INVARIANTS
    ChainKeepsAccount
    SpentTokenIsRefused
    OneLiveTokenPerSignIn
    LogoutEndsSession
