SPECIFICATION MCSpec
CONSTANTS
  Ppms = {p1, p2}
  Advances = {a1, a2}
  Documents = {d1}
  Dates = {}
  Plans = {}
  Requests = {r1, r2}
  None = None
  MaxBegun = 4
  MaxAdvanced = 1
SYMMETRY Symmetry
INVARIANTS
  TypeOK
  DatesAgree
  CompletedByReview
PROPERTIES
  KeepsTheMove
CHECK_DEADLOCK FALSE
