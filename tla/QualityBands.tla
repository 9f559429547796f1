---------------------------- MODULE QualityBands ----------------------------
(***************************************************************************)
(* The arithmetic of the TSP award queue: how the performance records      *)
(* (TSPPs) of one group are divided over the quality bands, and which band *)
(* receives the next shipment offer.                                       *)
(*                                                                         *)
(* pkg/awardqueue/awardqueue.go and                                        *)
(* pkg/models/transportation_service_provider_performance.go               *)
(***************************************************************************)
EXTENDS Integers, FiniteSets

CONSTANT OffersPerQualityBand   \* offers per round of each band; all 1 in the code

numQualBands == 4
qualityBands == 1..numQualBands

ASSUME OffersPerQualityBandAssumption ==
  OffersPerQualityBand \in [qualityBands -> Nat \ {0}]

(* getTSPsPerBand: an even share for every band, and the remainder handed  *)
(* out from the top band down.                                             *)
getTSPsPerBand(count) ==
  [b \in qualityBands |->
     (count \div numQualBands) + (IF b <= count % numQualBands THEN 1 ELSE 0)]

(* Faulty: the remainder goes to the bottom band. *)
FilledBottomUp(count, b) ==
  IF b = numQualBands THEN count ELSE b * (count \div numQualBands)

(* How many of the TSPPs, best value score first, are in bands 1..b once   *)
(* the two nested loops of assignPerformanceBandsForTSPPerformanceGroup    *)
(* have filled them.                                                       *)
FilledThrough(count, b) ==
  b * (count \div numQualBands)
    + (IF b <= count % numQualBands THEN b ELSE count % numQualBands)

(* The band those loops give to the TSPP at position rank.                 *)
BandOfRank(count, rank) ==
  CHOOSE b \in qualityBands :
    FilledThrough(count, b - 1) < rank /\ rank <= FilledThrough(count, b)

(* Rounds are quotients offerCount/OffersPerQualityBand[band]; they are    *)
(* compared crosswise so that the quotients stay exact.                    *)
FewerRounds(offerCount, b, c) ==
  offerCount[b] * OffersPerQualityBand[c] < offerCount[c] * OffersPerQualityBand[b]

(* The band before b in sortedMapIntKeys, for a b that is not the first.   *)
Previous(bands, b) ==
  CHOOSE c \in bands : c < b /\ \A d \in bands : d < b => d <= c

TopBand(bands) == CHOOSE b \in bands : \A c \in bands : b <= c

(* offerCount maps every band that has an eligible TSPP to the offer count *)
(* of its next TSPP.  A band is behind when it has had fewer rounds than   *)
(* the band before it; the top band is behind while its round is partial   *)
(* (its rounds are below their ceiling).                                   *)
Behind(offerCount, b) ==
  IF b = TopBand(DOMAIN offerCount)
  THEN offerCount[b] % OffersPerQualityBand[b] # 0
  ELSE FewerRounds(offerCount, b, Previous(DOMAIN offerCount, b))

(* Faulty: always the top band; and a band that is level with the one      *)
(* before it counts as behind.                                             *)
SelectTopBand(offerCount) == TopBand(DOMAIN offerCount)
SelectLevelBand(offerCount) ==
  LET bands == DOMAIN offerCount
      behind == {b \in bands \ {TopBand(bands)} :
                   ~ FewerRounds(offerCount, Previous(bands, b), b)}
  IN  TopBand(IF behind = {} THEN bands ELSE behind)

(* SelectNextTSPPerformance: the first band that is behind, or the top     *)
(* band when none is.                                                      *)
SelectNextTSPPerformance(offerCount) ==
  LET behind == {b \in DOMAIN offerCount : Behind(offerCount, b)}
  IN  TopBand(IF behind = {} THEN DOMAIN offerCount ELSE behind)
=============================================================================
