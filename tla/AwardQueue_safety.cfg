SPECIFICATION Spec
CONSTANTS
  s1 = s1 s2 = s2 s3 = s3 s4 = s4
  t1 = t1 t2 = t2 t3 = t3 t4 = t4 t5 = t5 t6 = t6 t7 = t7 t8 = t8
  p1 = p1 p2 = p2 p3 = p3 p4 = p4 p5 = p5
  east = east west = west
  Shipments = {s1, s2}
  TSPPs = {t1, t2}
  TSPs = {p1, p2}
  TDLs = {east}
  Days = {1, 2}
  PickupDates = {1}
  PatchDates = {1}
  Volatile = {p1, p2}
  Runners = {r1, r2}
  MaxOffers = 5
  MaxRollbacks = 1
  None = None
  OffersPerQualityBand <- MCOffersPerQualityBand
  TspOf <- MCTspOf
  BVS <- MCBVS
  GroupOf <- MCGroupOf
  TdlOf <- MCTdlOf
  Blackouts <- MCBlackouts
INVARIANTS
  TypeOK
  OneRealOffer
  AwardedIffOffered
  OfferCountIsLedger
