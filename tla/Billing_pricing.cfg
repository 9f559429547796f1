SPECIFICATION Spec
CONSTANTS
  Requests = {r1, r2}
  BaseCodes = {LHS, c135A}
  StorageInTransitCodes = {c210A}
  PreapprovalCodes = {c105B}
  ThirdPartyCodes = {}
  None = None
  MaxItems = 5
  MaxInvoices = 0
SYMMETRY Symmetry
INVARIANTS
  BaseItemsComplete
CHECK_DEADLOCK FALSE
