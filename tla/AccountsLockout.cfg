\* Two administrators, each with a PATCH request in flight.
SPECIFICATION AccountsSpec
CONSTANTS
    Account = {a1, a2}
    Patch = {p1, p2}
    NoAccount = NoAccount
INVARIANTS
    SomeAdminIsActive
