\* A scenario of two steps, three sessions.
CONSTANTS
    Steps = 2
    MaxRuns = 3
    None = None
SPECIFICATION FairPageSpec
PROPERTIES
    NeverBackwards
    AutoEnds
