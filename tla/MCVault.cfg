\* Three callers on two handles of one wallet, one issue.
CONSTANTS
    Workers = {w1, w2, w3}
    Handles = {h1, h2}
    Issues = {i1}
    Secrets = {x1}
    MaxQuota = 2
    IssueLimit = 1
    None = None
    NoFile = NoFile
SPECIFICATION Spec
SYMMETRY Symmetry
INVARIANTS TypeOK NoSlotTwice ProofsAreBurned KeyHeldWhileInUse
PROPERTIES ImplementsOneTimePass
