\* Two users and a ring of up to two accounts, one lifetime.
CONSTANTS
    Users = {u1, u2, blank}
    Blank = blank
    Accounts = {a1, a2}
    Issues = {i1}
    Proofs = {p1}
    MaxQuota = 2
    MaxCapacity = 2
    MaxLives = 1
    MaxReports = 2
    None = None
SYMMETRY Symmetry
SPECIFICATION Spec
INVARIANTS
    RevokedNeverVerifies
