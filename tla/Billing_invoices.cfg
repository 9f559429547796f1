SPECIFICATION Spec
CONSTANTS
  Requests = {r1, r2}
  BaseCodes = {LHS}
  StorageInTransitCodes = {c210A}
  PreapprovalCodes = {c105B}
  ThirdPartyCodes = {}
  None = None
  MaxItems = 2
  MaxInvoices = 2
SYMMETRY Symmetry
INVARIANTS
  TypeOK
  BoundIsBilled
PROPERTIES
  KeepsTheInvoices
CHECK_DEADLOCK FALSE
