SPECIFICATION FairSpec
CONSTANTS
  r1 = r1
  r2 = r2
  k1 = k1
  k2 = k2
  a = a
  b = b
  NoIssue = NoIssue
  Requests <- ShareRequests
  Keys <- RetryKeys
  Objects = {a, b}
  KeyOf <- RetryKeyOf
  Attachments <- ShareAttachments
INVARIANTS
  DuplicatesExplained
  SuccessIsReplayable
  FailureOpensNoIssue
  NoOrphanAfterFailure
  BrokenLinksExplained
PROPERTIES
  EventuallyAnswered
  KeysAreFreed
CHECK_DEADLOCK FALSE
