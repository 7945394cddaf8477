\* Directories of up to three snapshots; when the report is built nothing is left to do.
SPECIFICATION ReportSpec
CONSTANTS
  Names <- MCNames
  Directories <- MCDirectories
  KnownSuffixes <- MCKnownSuffixes
  Sidecars <- MCSidecars
  MaxFileBytes = 2
  MaxLost = 1
  Mysqld = {2}
  Architectures = {}
  Brands = {}
  Volatile = {"moves"}
  MetadataLocks = {2}
  MiB = 1
  PeakWindow = 3
INVARIANTS
  EverythingMirrored
  NothingHalfParsed
  NewestSidecar
  UptimeAnchored
  PanelsMarkChanges
  OnlyObservedGrowth
CHECK_DEADLOCK FALSE
