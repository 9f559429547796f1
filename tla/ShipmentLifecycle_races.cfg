SPECIFICATION MCSpec
CONSTANTS
  Requests = {r1, r2, r3}
  TSPs = {t1, t2}
  NoTSP = NoTSP
  None = None
  MaxOffers = 2
  MaxGBLs = 2
SYMMETRY Symmetry
INVARIANTS
  TypeOK
  RowAgrees
  AcceptedTSPFound
  OneRealOffer
  DeliveredIsPriced
  PricedOnce
PROPERTIES
  KeepsTheContract
