SPECIFICATION FairSpec
CONSTANTS
  s1 = s1 s2 = s2 s3 = s3 s4 = s4
  t1 = t1 t2 = t2 t3 = t3 t4 = t4 t5 = t5 t6 = t6 t7 = t7 t8 = t8
  p1 = p1 p2 = p2 p3 = p3 p4 = p4 p5 = p5
  east = east west = west
  Shipments = {s1, s4}
  TSPPs = {t1, t3, t7, t8}
  TSPs = {p1, p2, p3}
  TDLs = {east, west}
  Days = {1}
  PickupDates = {1}
  PatchDates = {}
  Volatile = {}
  Runners = {r1, r2}
  MaxOffers = 8
  MaxRollbacks = 1
  None = None
  OffersPerQualityBand <- MCOffersPerQualityBand
  TspOf <- MCTspOf
  BVS <- MCBVS
  GroupOf <- MCGroupOf
  TdlOf <- MCTdlOf
  Blackouts <- MCBlackouts
PROPERTIES
  EventuallyAwarded
  EveryRunEnds
