\* The directories of MCReport; whether a report is built of all of them.
SPECIFICATION ReportSpec
CONSTANTS
  Names <- MCNames
  Directories <- MCDirectories
  KnownSuffixes <- MCKnownSuffixes
  Sidecars <- MCSidecars
  MaxFileBytes = 2
  MaxLost = 1
  Mysqld = {2}
  Architectures = {}
  Brands = {}
  Volatile = {"moves"}
  MetadataLocks = {2}
  MiB = 1
  PeakWindow = 3
INVARIANT NeverPanics
CHECK_DEADLOCK FALSE
