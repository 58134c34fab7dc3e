CONSTANTS
  Value = {v1, v2, v3}
  None = None
  Torn = Torn
  Idle = Idle
  Reading = Reading
SPECIFICATION Spec
INVARIANTS
  OnlyNextIsTorn
  MovesNeverCollide
PROPERTY RegisterSpec
