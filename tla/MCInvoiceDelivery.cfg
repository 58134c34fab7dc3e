SPECIFICATION Spec
CONSTANTS
  r1 = r1
  r2 = r2
  c1 = c1
  c2 = c2
  Request <- MCRequest
  Attempt <- MCAttempt
  TestAttempt = {}
  None = None
  MaxRevision = 2
SYMMETRY Symmetric
INVARIANTS OneUnresolved  
           SendsUnderReservation AttemptsOwned
