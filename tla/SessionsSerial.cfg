\* One call at a time, one tab; tokens expire, handlers fail and answers are lost.
SPECIFICATION FairSpec
CONSTANTS
    Account = {a1, a2}
    Patch = {}
    NoAccount = NoAccount
    Token = {k1, k2, k3}
    Tab = {t1}
    Call = {c1}
    Faults = {"expired", "lost"}
    NoToken = NoToken
    NoTab = NoTab
PROPERTIES
    ReloadRestoresSession
    LoadingEnds
