\* Two dialogs with two recordings, an edit and two submissions; the user may stop.
SPECIFICATION FairSpec
CONSTANTS
  MaxOpenings = 2
  MaxEdits = 1
  MaxRecordings = 2
  MaxSubmits = 2
INVARIANTS
  NoStrayMicrophone
  CancelledRecordingStaysOut
  DroppedForAReason
  OwnKeySameContent
  RetryKeepsKey
PROPERTIES
  SubmissionGetsThrough
CHECK_DEADLOCK FALSE
