\* The smallest service in which a join can fail to persist.
CONSTANTS
    Users = {u1, blank}
    Blank = blank
    Accounts = {a1}
    Issues = {i1}
    Proofs = {p1}
    MaxQuota = 1
    MaxCapacity = 1
    MaxLives = 1
    MaxReports = 2
    None = None
SPECIFICATION Spec
PROPERTIES
    RingOpsAtomic
