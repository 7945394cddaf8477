SPECIFICATION Spec
CONSTANTS
  r1 = r1
  r2 = r2
  k1 = k1
  k2 = k2
  a = a
  b = b
  NoIssue = NoIssue
  Requests <- ShareRequests
  Keys <- ShareKeys
  Objects = {a, b}
  KeyOf <- ShareKeyOf
  Attachments <- ShareAttachments
PROPERTIES
  LinkedObjectsRemain
CHECK_DEADLOCK FALSE
