SPECIFICATION FairEmailSpec
CONSTANTS
  r1 = r1
  c1 = c1
  t1 = t1
  Request <- MCRequest
  Attempt <- MCAttempt
  TestAttempt <- MCTestAttempt
  None = None
  MaxRevision = 2
  Commands = 2
INVARIANTS SentHasEvidence ReportsTruly
PROPERTIES SessionEnds AttemptsReleased
