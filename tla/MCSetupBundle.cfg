CONSTANTS
  Procs = {p1, p2}
  Dirs = {d1, d2}
  MaxSetups = 2
SPECIFICATION Spec
SYMMETRY Symmetry
INVARIANTS
  WholeOrAbsent
  LoadedIsPinned
  ReportedSurvives
