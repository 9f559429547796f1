SPECIFICATION MCSpec
CONSTANTS
  Sits = {s1, s2}
  Requests = {r1, r2}
  Days = {1, 2}
  None = None
  MaxSequence = 2
  MaxBegun = 5
SYMMETRY Symmetry
INVARIANTS
  TypeOK
  TakenIsNumbered
  NumbersDiffer
  DeliveredIsCharged
PROPERTIES
  KeepsTheStorages
CHECK_DEADLOCK FALSE
