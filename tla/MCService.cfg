\* One user, two accounts that take turns in the ring, two lifetimes.
CONSTANTS
    Users = {u1, blank}
    Blank = blank
    Accounts = {a1, a2}
    Issues = {i1}
    Proofs = {p1, p2}
    MaxQuota = 2
    MaxCapacity = 1
    MaxLives = 2
    MaxReports = 2
    None = None
SYMMETRY Symmetry
SPECIFICATION Spec
INVARIANTS
    TypeOK
    RingSound
    AcksAreDurable
    OneQuotaPerIssue
    VerifiedOnce
    AlwaysRestartable
PROPERTIES
    ImplementsOneTimePass
