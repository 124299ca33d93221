\* Four sessions (starts and resets), three setups.  A killed server may stay down.
CONSTANTS
    Steps <- MCSteps
    MaxRuns = 4
    MaxSetups = 3
    None = None
SPECIFICATION Spec
INVARIANTS
    ViewTruthful
    ExpectationsMet
    EvidenceSound
    SetupPinned
CHECK_DEADLOCK FALSE
