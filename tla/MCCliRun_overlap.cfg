SPECIFICATION Spec
CONSTANTS
  a = a
  b = b
  o = o
  Absent = Absent
  Foreign = Foreign
  Runs <- MCRuns
  Overwrite <- MCOverwrite
  Archives <- MCArchives
INVARIANTS
  ExitCleansUp
PROPERTIES
  ImplementsAtomicOutput
CHECK_DEADLOCK FALSE
