\* Two threads with three requests each, frames of three pieces in pipes of two,
\* in a host that may reap the child itself; no symmetry, since a property is
\* temporal.
CONSTANTS
    Threads = {t1, t2}
    MaxRequests = 3
    FrameSize = 3
    PipeSize = 2
    AutoReap = TRUE
    None = None
SPECIFICATION FairSpec
INVARIANTS
    TypeOK
    OwnAnswer
    HandledOnce
    ChildReaped
PROPERTIES
    AllReturn
CHECK_DEADLOCK FALSE
