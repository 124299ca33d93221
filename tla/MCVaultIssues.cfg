\* Two callers on two handles, two issues of which the wallet holds one, and two
\* secrets that compete to create it, under weak fairness; no symmetry, since a
\* property is temporal.
CONSTANTS
    Workers = {w1, w2}
    Handles = {h1, h2}
    Issues = {i1, i2}
    Secrets = {x1, x2}
    MaxQuota = 1
    IssueLimit = 1
    None = None
    NoFile = NoFile
SPECIFICATION FairSpec
INVARIANTS NeverUnreadable
PROPERTIES OnlyForward CallsDrain
