\* Small captures; after the conclusions nothing is left to do.
SPECIFICATION AnalysisSpec
CONSTANTS
  MetadataLocks = {2}
  MiB = 1
  PeakWindow = 3
  Mysqld = {}
  Evidence <- MCEvidence
INVARIANTS
  AbsenceNeverEscalates
  PeakOfShortestWindows
CHECK_DEADLOCK FALSE
