SPECIFICATION Spec
CONSTANTS
  Requests = {r1, r2}
  BaseCodes = {LHS}
  StorageInTransitCodes = {c210A}
  PreapprovalCodes = {c35A}
  ThirdPartyCodes = {c35A}
  None = None
  MaxItems = 2
  MaxInvoices = 2
SYMMETRY Symmetry
INVARIANTS
  LimitedToOneInvoice
CHECK_DEADLOCK FALSE
