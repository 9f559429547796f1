---------------------------- MODULE MCAwardQueue ----------------------------
(* Small instances of the award queue for TLC.                             *)
EXTENDS AwardQueue, TLC

CONSTANTS s1, s2, s3, s4, t1, t2, t3, t4, t5, t6, t7, t8, p1, p2, p3, p4, p5, east, west

MCOffersPerQualityBand == [b \in qualityBands |-> 1]

(* Up to five TSPs serve the peak cycle of one list, one more than there   *)
(* are bands; p1 also serves the non-peak cycle, with the row t6.  The     *)
(* other list, of the shipment s4, is served by p1 and p2, who both have a *)
(* blackout on day 1.                                                      *)
Peak == [tdl |-> east, cycle |-> {1}]
NonPeak == [tdl |-> east, cycle |-> {2}]
West == [tdl |-> west, cycle |-> {1}]
MCTspOf == [t \in TSPPs |-> CASE t \in {t1, t6, t7} -> p1 [] t \in {t2, t8} -> p2 [] t = t3 -> p3
                              [] t = t4 -> p4 [] t = t5 -> p5]
MCGroupOf == [t \in TSPPs |-> CASE t = t6 -> NonPeak [] t \in {t7, t8} -> West [] OTHER -> Peak]
MCTdlOf == [s \in Shipments |-> IF s = s4 THEN west ELSE east]

MCBVS == [t \in TSPPs |-> CASE t = t1 -> 90 [] t = t2 -> 80 [] t = t3 -> 70
                            [] t = t4 -> 60 [] t = t5 -> 50 [] t \in {t6, t7} -> 90 [] t = t8 -> 80]

(* Day 1 has TSPs with and without a blackout; nobody works on day 3.      *)
MCBlackouts ==
  ({<<p1, 1>>, <<p2, 1>>, <<p4, 1>>, <<p1, 2>>} \union (TSPs \X {3})) \cap (TSPs \X Days)
=============================================================================
