\* Two authorities, two windows that overlap and an empty one, two epochs.
CONSTANTS
    a1 = a1
    a2 = a2
    b1 = b1
    x = x
    y = y
    Users = {alice, bob}
    Accounts = {a1, a2, b1}
    Secrets = {x, y}
    Keys = {ka, kb}
    Domains = {d}
    Terms = {t}
    Challenges = {ch}
    Messages = {m1, m2}
    Slots = {0}
    Apps = {v}
    SecretOf <- MCSecretOf
    Windows <- MCWindows
    MaxTime = 3
    MaxEpoch = 2
    Capacity = 2
    MaxEnrollments = 3
    MaxApprovals = 1
    MaxRegistries = 2
    None = None
SYMMETRY Symmetry
SPECIFICATION TrustSpec
INVARIANTS
    AcceptedAreEnrolled
    NeverOutOfDate
    TraceResolves
CHECK_DEADLOCK FALSE
