SPECIFICATION AccountsSpec
CONSTANTS
  ann = ann
  bob = bob
  People <- MCPeople
  Visits <- MCVisits
  Tabs = {t1, t2}
  RoleApps = {"admin"}
  Codes = {c1}
  None = None
SYMMETRY Symmetry
INVARIANTS
  AccountsTypeOK
  CookieIsBacked
  CodesAreKept
