------------------------- MODULE AwardQueue_proofs -------------------------
(***************************************************************************)
(* What holds of the award queue for any shipments, TSPs, lists, scores    *)
(* and any number of overlapping runs.                                     *)
(***************************************************************************)
EXTENDS AwardQueue, SequenceTheorems, FiniteSetTheorems, TLAPS

-----------------------------------------------------------------------------
(* Quality bands.                                                          *)

(* The remainder of a division by the number of bands.                     *)
LEMMA DivModFour ==
  ASSUME NEW count \in Nat
  PROVE  /\ count \div 4 \in Nat
         /\ count % 4 \in 0..3
         /\ count = 4 * (count \div 4) + (count % 4)
OBVIOUS

(* The two nested loops fill every band to the size getTSPsPerBand gives   *)
(* it, and use every TSPP: perfs[perfsIndex] never runs out of range.      *)
THEOREM LoopsFillTheBands ==
  ASSUME NEW count \in Nat
  PROVE  /\ FilledThrough(count, 0) = 0
         /\ FilledThrough(count, numQualBands) = count
         /\ \A b \in qualityBands :
              FilledThrough(count, b) = FilledThrough(count, b - 1) + getTSPsPerBand(count)[b]
<1> DEFINE q == count \div 4
           r == count % 4
<1>1. q \in Nat /\ r \in 0..3 /\ count = 4 * q + r
  BY DivModFour
<1>2. FilledThrough(count, 0) = 0
  BY <1>1 DEF FilledThrough, numQualBands
<1>3. FilledThrough(count, numQualBands) = count
  BY <1>1 DEF FilledThrough, numQualBands
<1>4. ASSUME NEW b \in qualityBands
      PROVE  FilledThrough(count, b) = FilledThrough(count, b - 1) + getTSPsPerBand(count)[b]
  <2>1. b \in 1..4
    BY DEF qualityBands, numQualBands
  <2>2. getTSPsPerBand(count)[b] = q + (IF b <= r THEN 1 ELSE 0)
    BY DEF getTSPsPerBand, qualityBands, numQualBands
  <2>3. FilledThrough(count, b) = b * q + (IF b <= r THEN b ELSE r)
    BY DEF FilledThrough, numQualBands
  <2>4. FilledThrough(count, b - 1) = (b - 1) * q + (IF b - 1 <= r THEN b - 1 ELSE r)
    BY DEF FilledThrough, numQualBands
  <2>5. b = 1 \/ b = 2 \/ b = 3 \/ b = 4
    BY <2>1
  <2> HIDE DEF q, r
  <2> QED
    BY <1>1, <2>2, <2>3, <2>4, <2>5
<1> QED
  BY <1>2, <1>3, <1>4

(* Every position of the ordered list gets one of the four bands.          *)
LEMMA EveryRankHasABand ==
  ASSUME NEW count \in Nat, NEW rank \in 1..count
  PROVE  BandOfRank(count, rank) \in qualityBands
<1> DEFINE F(b) == FilledThrough(count, b)
<1>1. F(0) = 0 /\ F(4) = count
  BY LoopsFillTheBands DEF numQualBands
<1>2. F(1) \in Int /\ F(2) \in Int /\ F(3) \in Int
  BY DivModFour DEF FilledThrough, numQualBands
<1>3. \E b \in qualityBands : F(b - 1) < rank /\ rank <= F(b)
  <2> HIDE DEF F
  <2>1. CASE rank <= F(1)
    BY <1>1, <2>1 DEF qualityBands, numQualBands
  <2>2. CASE F(1) < rank /\ rank <= F(2)
    BY <2>2 DEF qualityBands, numQualBands
  <2>3. CASE F(2) < rank /\ rank <= F(3)
    BY <2>3 DEF qualityBands, numQualBands
  <2>4. CASE F(3) < rank
    BY <1>1, <2>4 DEF qualityBands, numQualBands
  <2> QED
    BY <1>2, <2>1, <2>2, <2>3, <2>4
<1> QED
  BY <1>3 DEF BandOfRank
-----------------------------------------------------------------------------
(* Types.                                                                  *)

LEMMA BandableIsFinite ==
  ASSUME NEW g
  PROVE  Bandable(g) \subseteq TSPPs /\ Cardinality(Bandable(g)) \in Nat
<1>1. Bandable(g) \subseteq TSPPs
  BY DEF Bandable
<1>2. IsFiniteSet(Bandable(g))
  BY <1>1, AwardQueueAssumption, FS_Subset DEF AwardQueueAssumption
<1> QED
  BY <1>1, <1>2, FS_CardinalityType

(* Whatever NextEligibleTSPPerformance returns is a row of the table.      *)
LEMMA NextEligibleIsTSPP ==
  ASSUME NEW p, NEW s, NEW day
  PROVE  NextEligible(p, s, day) \subseteq TSPPs
BY DEF NextEligible, NextInBand, Eligible

(* The end of a run leaves well-typed, empty run variables.                *)
LEMMA ForgetType ==
  ASSUME TypeOK, NEW r \in Runners, Forget(r)
  PROVE  /\ lock' \in Runners \union {None}
         /\ pc' \in [Runners -> {"idle", "waiting", "banding", "listing", "offering"}]
         /\ txPerf' \in [Runners -> [TSPPs -> Perf]]
         /\ txOffers' \in [Runners -> Seq(Offer)]
         /\ txAwarded' \in [Runners -> SUBSET Shipments]
         /\ groups' \in [Runners -> SUBSET Groups]
         /\ listed' \in [Runners -> UNION {[S -> Dates] : S \in SUBSET Shipments}]
         /\ attempt' \in [Runners -> [shipment : Shipments \union {None},
                                     first : TSPPs \union {None},
                                     next : TSPPs \union {None},
                                     again : BOOLEAN]]
<1>1. [t \in TSPPs |-> [band |-> 0, offerCount |-> 0]] \in [TSPPs -> Perf]
  BY DEF Perf, numQualBands
<1>2. NoListed \in UNION {[S -> Dates] : S \in SUBSET Shipments}
  <2>1. NoListed \in [{} -> Dates]
    BY DEF NoListed
  <2> QED
    BY <2>1
<1>3. NoAttempt \in [shipment : Shipments \union {None}, first : TSPPs \union {None},
                     next : TSPPs \union {None}, again : BOOLEAN]
  BY DEF NoAttempt
<1>4. <<>> \in Seq(Offer)
  BY EmptySeq
<1> QED
  BY <1>1, <1>2, <1>3, <1>4 DEF Forget, TypeOK

LEMMA DropType ==
  ASSUME TypeOK, NEW r \in Runners, NEW s, Drop(r, s)
  PROVE  /\ pc' \in [Runners -> {"idle", "waiting", "banding", "listing", "offering"}]
         /\ listed' \in [Runners -> UNION {[S -> Dates] : S \in SUBSET Shipments}]
         /\ attempt' \in [Runners -> [shipment : Shipments \union {None},
                                     first : TSPPs \union {None},
                                     next : TSPPs \union {None},
                                     again : BOOLEAN]]
<1>1. PICK S \in SUBSET Shipments : listed[r] \in [S -> Dates]
  BY DEF TypeOK
<1>2. [u \in DOMAIN listed[r] \ {s} |-> listed[r][u]] \in [S \ {s} -> Dates]
  BY <1>1
<1>3. [u \in DOMAIN listed[r] \ {s} |-> listed[r][u]]
        \in UNION {[T -> Dates] : T \in SUBSET Shipments}
  BY <1>2
<1>4. NoAttempt \in [shipment : Shipments \union {None}, first : TSPPs \union {None},
                     next : TSPPs \union {None}, again : BOOLEAN]
  BY DEF NoAttempt
<1> QED
  BY <1>3, <1>4 DEF Drop, TypeOK
-----------------------------------------------------------------------------
(* The inductive invariant.                                                *)

(* A run that is offering has a listed shipment and a TSPP at hand.        *)
Attempting ==
  \A r \in Runners :
    pc[r] = "offering" => attempt[r].shipment \in DOMAIN listed[r] /\ attempt[r].next \in TSPPs

(* Exactly the run that holds the advisory lock is at work.                *)
Working == {"banding", "listing", "offering"}
HolderWorks == \A r \in Runners : pc[r] \in Working <=> lock = r

(* Nothing is written before the shipments are listed.                     *)
NothingBeforeListing ==
  \A r \in Runners :
    pc[r] \notin {"listing", "offering"} =>
      txOffers[r] = <<>> /\ txAwarded[r] = {} /\ listed[r] = NoListed

(* What a run still has to offer is as it was when the run listed it.      *)
ListedIsCurrent ==
  \A r \in Runners : \A s \in DOMAIN listed[r] :
    /\ shipment[s].status = "SUBMITTED"
    /\ OffersOf(offers, s) = {}
    /\ RealOffersOf(txOffers[r], s) = {}

(* A run only offers shipments that have no committed offer.               *)
NewOffersAreFirst ==
  \A r \in Runners : \A i \in DOMAIN txOffers[r] :
    /\ shipment[txOffers[r][i].shipment].status = "SUBMITTED"
    /\ OffersOf(offers, txOffers[r][i].shipment) = {}

(* Within a transaction the two tables agree, and each shipment is given   *)
(* away at most once.                                                      *)
AwardedInRun ==
  \A r \in Runners : \A s \in Shipments :
    s \in txAwarded[r] <=> RealOffersOf(txOffers[r], s) # {}

OneRealOfferInRun ==
  \A r \in Runners : \A s \in Shipments : \A i, j \in RealOffersOf(txOffers[r], s) : i = j

RunInv ==
  /\ HolderWorks
  /\ NothingBeforeListing
  /\ ListedIsCurrent
  /\ NewOffersAreFirst
  /\ AwardedInRun
  /\ OneRealOfferInRun

Inv ==
  /\ TypeOK
  /\ Attempting
  /\ RunInv
  /\ OneRealOffer
  /\ AwardedIffOffered
-----------------------------------------------------------------------------
(* Type correctness is preserved.                                          *)

LEMMA InitType ==
  ASSUME Init
  PROVE  TypeOK /\ Attempting
<1>1. [t \in TSPPs |-> [band |-> 0, offerCount |-> 0]] \in [TSPPs -> Perf]
  BY DEF Perf, numQualBands
<1>2. NoListed \in UNION {[S -> Dates] : S \in SUBSET Shipments}
  <2>1. NoListed \in [{} -> Dates]
    BY DEF NoListed
  <2> QED
    BY <2>1
<1>3. NoAttempt \in [shipment : Shipments \union {None}, first : TSPPs \union {None},
                     next : TSPPs \union {None}, again : BOOLEAN]
  BY DEF NoAttempt
<1>4. <<>> \in Seq(Offer)
  BY EmptySeq
<1>5. enrolled \subseteq TSPs
  BY DEF Init
<1>6. TypeOK
  BY <1>1, <1>2, <1>3, <1>4, <1>5, AwardQueueAssumption DEF Init, TypeOK, AwardQueueAssumption
<1>7. Attempting
  BY DEF Init, Attempting
<1> QED
  BY <1>6, <1>7

(* What CreateShipmentOffer and IncrementTSPPerformanceOfferCount write.   *)
LEMMA RecordOfferType ==
  ASSUME TypeOK, NEW r \in Runners, NEW administrative \in BOOLEAN, RecordOffer(r, administrative),
         attempt[r].shipment \in Shipments, attempt[r].next \in TSPPs
  PROVE  /\ txOffers' \in [Runners -> Seq(Offer)]
         /\ txPerf' \in [Runners -> [TSPPs -> Perf]]
<1> DEFINE o == [shipment |-> attempt[r].shipment, tspp |-> attempt[r].next,
                 administrative |-> administrative]
<1>1. o \in Offer
  BY DEF Offer
<1>2. txOffers[r] \in Seq(Offer)
  BY DEF TypeOK
<1>3. Append(txOffers[r], o) \in Seq(Offer)
  BY <1>1, <1>2, AppendProperties
<1>4. txOffers' \in [Runners -> Seq(Offer)]
  BY <1>3 DEF TypeOK, RecordOffer
<1>5. txPerf[r] \in [TSPPs -> Perf] /\ txPerf[r][attempt[r].next] \in Perf
  BY DEF TypeOK
<1>6. [txPerf[r][attempt[r].next] EXCEPT !.offerCount = @ + 1] \in Perf
  BY <1>5 DEF Perf
<1>7. txPerf' = [txPerf EXCEPT ![r] =
                   [txPerf[r] EXCEPT ![attempt[r].next] =
                      [txPerf[r][attempt[r].next] EXCEPT !.offerCount = @ + 1]]]
  BY DEF RecordOffer, TypeOK
<1>8. txPerf' \in [Runners -> [TSPPs -> Perf]]
  BY <1>5, <1>6, <1>7 DEF TypeOK
<1> QED
  BY <1>4, <1>8

(* AssignQualityBandToTSPPerformance writes one of the four bands.         *)
LEMMA AssignBandsType ==
  ASSUME TypeOK, NEW r \in Runners, NEW g, AssignBands(r, g)
  PROVE  txPerf' \in [Runners -> [TSPPs -> Perf]]
<1> DEFINE n == Cardinality(Bandable(g))
<1>1. n \in Nat /\ Bandable(g) \subseteq TSPPs
  BY BandableIsFinite
<1>2. PICK rank \in Rankings(Bandable(g)) :
        txPerf' = [txPerf EXCEPT ![r] =
          [t \in TSPPs |-> IF t \in Bandable(g)
                           THEN [txPerf[r][t] EXCEPT !.band = BandOfRank(n, rank[t])]
                           ELSE txPerf[r][t]]]
  BY DEF AssignBands
<1>3. rank \in [Bandable(g) -> 1..n]
  BY DEF Rankings
<1>4. ASSUME NEW t \in Bandable(g)
      PROVE  BandOfRank(n, rank[t]) \in 0..numQualBands
  <2>1. rank[t] \in 1..n
    BY <1>3
  <2>2. BandOfRank(n, rank[t]) \in qualityBands
    BY <2>1, <1>1, EveryRankHasABand
  <2> QED
    BY <2>2 DEF qualityBands, numQualBands
<1>5. txPerf[r] \in [TSPPs -> Perf]
  BY DEF TypeOK
<1>6. ASSUME NEW t \in TSPPs
      PROVE  (IF t \in Bandable(g)
              THEN [txPerf[r][t] EXCEPT !.band = BandOfRank(n, rank[t])]
              ELSE txPerf[r][t]) \in Perf
  BY <1>4, <1>5 DEF Perf
<1> HIDE DEF n
<1> QED
  BY <1>2, <1>6 DEF TypeOK
LEMMA TypeStep ==
  ASSUME TypeOK, Attempting, [Next]_vars
  PROVE  TypeOK'
<1> USE DEF TypeOK
<1>1. ASSUME NEW s \in Shipments, SubmitMove(s)
      PROVE  TypeOK'
  BY <1>1, AwardQueueAssumption
     DEF SubmitMove, progress, AwardQueueAssumption
<1>2. ASSUME NEW s \in Shipments, PatchShipment(s)
      PROVE  TypeOK'
  <2> DEFINE Row == [status : {"DRAFT", "SUBMITTED", "AWARDED"},
                     requestedPickup : Days \union {None},
                     actualPickup : Days \union {None}]
  <2>1. shipment[s] \in Row
    OBVIOUS
  <2>2. PICK day \in Days : \/ shipment' = [shipment EXCEPT ![s].requestedPickup = day]
                           \/ shipment' = [shipment EXCEPT ![s].actualPickup = day]
    BY <1>2, AwardQueueAssumption DEF PatchShipment, AwardQueueAssumption
  <2>3. [shipment[s] EXCEPT !.requestedPickup = day] \in Row
    BY <2>1
  <2>4. [shipment[s] EXCEPT !.actualPickup = day] \in Row
    BY <2>1
  <2>5. shipment' \in [Shipments -> Row]
    <3> HIDE DEF Row
    <3>1. shipment \in [Shipments -> Row]
      BY DEF Row
    <3> HIDE DEF TypeOK
    <3> QED
      BY <2>2, <2>3, <2>4, <3>1
  <2> QED
    BY <1>2, <2>5 DEF PatchShipment, progress
<1>3. ASSUME NEW p \in Volatile, ChangeEnrolment(p)
      PROVE  TypeOK'
  BY <1>3, AwardQueueAssumption DEF ChangeEnrolment, progress, AwardQueueAssumption
<1>4. ASSUME NEW r \in Runners, StartRun(r)
      PROVE  TypeOK'
  BY <1>4 DEF StartRun, tables, progress
<1>5. ASSUME NEW r \in Runners, AcquireLock(r)
      PROVE  TypeOK'
  <2>1. UnbandedGroups(perf) \in SUBSET Groups
    BY DEF UnbandedGroups, Groups
  <2> QED
    BY <1>5, <2>1 DEF AcquireLock, tables
<1>6. ASSUME NEW r \in Runners, NEW g \in Groups, AssignBands(r, g)
      PROVE  TypeOK'
  <2>1. txPerf' \in [Runners -> [TSPPs -> Perf]]
    BY <1>6, AssignBandsType
  <2>2. groups' \in [Runners -> SUBSET Groups]
    BY <1>6 DEF AssignBands
  <2> QED
    BY <1>6, <2>1, <2>2 DEF AssignBands, tables
<1>7. ASSUME NEW r \in Runners, ListShipments(r)
      PROVE  TypeOK'
  <2>1. Unoffered(r) \subseteq Shipments
    BY DEF Unoffered
  <2>2. [s \in Unoffered(r) |-> DatesOf(s)] \in [Unoffered(r) -> Dates]
    BY <2>1 DEF DatesOf, Dates
  <2>3. listed' \in [Runners -> UNION {[S -> Dates] : S \in SUBSET Shipments}]
    BY <1>7, <2>1, <2>2 DEF ListShipments
  <2> QED
    BY <1>7, <2>3 DEF ListShipments, tables
<1>8. ASSUME NEW r \in Runners, NEW s \in Shipments, BeginAttempt(r, s)
      PROVE  TypeOK'
  <2> DEFINE next == NextEligible(txPerf[r], s, listed[r][s].requestedPickup)
  <2>1. CASE Drop(r, s)
    BY <1>8, <2>1, DropType DEF BeginAttempt, tables
  <2>2. ASSUME NEW t \in next,
               attempt' = [attempt EXCEPT ![r] =
                             [shipment |-> s, first |-> t, next |-> t, again |-> FALSE]],
               pc' = [pc EXCEPT ![r] = "offering"],
               UNCHANGED listed
        PROVE  TypeOK'
    <3>1. t \in TSPPs
      BY NextEligibleIsTSPP
    <3> QED
      BY <1>8, <2>2, <3>1 DEF BeginAttempt, tables
  <2> QED
    BY <1>8, <2>1, <2>2 DEF BeginAttempt
<1>9. ASSUME NEW r \in Runners, GiveUp(r)
      PROVE  TypeOK'
  BY <1>9, DropType DEF GiveUp, tables
<1>10. ASSUME NEW r \in Runners, OfferAdministrative(r)
       PROVE  TypeOK'
  <2>1. attempt[r].next \in TSPPs /\ attempt[r].shipment \in Shipments
    BY <1>10 DEF OfferAdministrative, Attempting
  <2>2. txOffers' \in [Runners -> Seq(Offer)] /\ txPerf' \in [Runners -> [TSPPs -> Perf]]
    BY <1>10, <2>1, RecordOfferType DEF OfferAdministrative
  <2>3. CASE Drop(r, attempt[r].shipment)
    BY <1>10, <2>2, <2>3, DropType DEF OfferAdministrative, tables
  <2>4. ASSUME NEW u \in TSPPs,
               attempt' = [attempt EXCEPT ![r].next = u, ![r].again = TRUE],
               UNCHANGED <<pc, listed>>
        PROVE  TypeOK'
    <3> DEFINE Try == [shipment : Shipments \union {None}, first : TSPPs \union {None},
                       next : TSPPs \union {None}, again : BOOLEAN]
    <3>1. attempt[r] \in Try
      OBVIOUS
    <3>2. [attempt[r] EXCEPT !.next = u, !.again = TRUE] \in Try
      BY <3>1
    <3>3. attempt' = [attempt EXCEPT ![r] = [attempt[r] EXCEPT !.next = u, !.again = TRUE]]
      BY <2>4
    <3>4. attempt' \in [Runners -> Try]
      BY <3>2, <3>3
    <3> QED
      BY <1>10, <2>2, <2>4, <3>4 DEF OfferAdministrative, tables
  <2> QED
    BY <1>10, <2>3, <2>4, NextEligibleIsTSPP DEF OfferAdministrative
<1>11. ASSUME NEW r \in Runners, OfferForReal(r)
       PROVE  TypeOK'
  <2>1. attempt[r].next \in TSPPs /\ attempt[r].shipment \in Shipments
    BY <1>11 DEF OfferForReal, Attempting
  <2>2. txOffers' \in [Runners -> Seq(Offer)] /\ txPerf' \in [Runners -> [TSPPs -> Perf]]
    BY <1>11, <2>1, RecordOfferType DEF OfferForReal
  <2>3. txAwarded' \in [Runners -> SUBSET Shipments]
    BY <1>11, <2>1 DEF OfferForReal
  <2> QED
    BY <1>11, <2>2, <2>3, DropType DEF OfferForReal, tables
<1>12. ASSUME NEW r \in Runners, Commit(r)
       PROVE  TypeOK'
  <2>1. offers' \in Seq(Offer)
    BY <1>12, ConcatProperties DEF Commit
  <2> QED
    BY <1>12, <2>1, ForgetType DEF Commit
<1>13. ASSUME NEW r \in Runners, Rollback(r)
       PROVE  TypeOK'
  BY <1>13, ForgetType, AwardQueueAssumption DEF Rollback, tables, AwardQueueAssumption
<1>14. CASE UNCHANGED vars
  BY <1>14 DEF vars, tables, progress
<1> QED
  BY <1>1, <1>2, <1>3, <1>4, <1>5, <1>6, <1>7, <1>8, <1>9, <1>10, <1>11, <1>12, <1>13, <1>14
     DEF Next, RunStep
-----------------------------------------------------------------------------
(* The offers of a shipment in a longer book.                              *)

LEMMA OffersOfEmpty ==
  ASSUME NEW s
  PROVE  OffersOf(<<>>, s) = {} /\ RealOffersOf(<<>>, s) = {}
BY DEF OffersOf, RealOffersOf

LEMMA OffersOfAppend ==
  ASSUME NEW book \in Seq(Offer), NEW o \in Offer, NEW s
  PROVE  /\ OffersOf(Append(book, o), s) =
              OffersOf(book, s) \union (IF o.shipment = s THEN {Len(book) + 1} ELSE {})
         /\ RealOffersOf(Append(book, o), s) =
              RealOffersOf(book, s) \union
                (IF o.shipment = s /\ ~ o.administrative THEN {Len(book) + 1} ELSE {})
<1>1. /\ DOMAIN Append(book, o) = 1..Len(book) + 1
      /\ DOMAIN book = 1..Len(book)
      /\ Len(book) \in Nat
  BY AppendProperties, LenProperties
<1>2. /\ \A i \in 1..Len(book) : Append(book, o)[i] = book[i]
      /\ Append(book, o)[Len(book) + 1] = o
  BY AppendProperties
<1> QED
  BY <1>1, <1>2 DEF OffersOf, RealOffersOf

LEMMA OffersOfConcat ==
  ASSUME NEW book \in Seq(Offer), NEW new \in Seq(Offer), NEW s, NEW i
  PROVE  /\ i \in OffersOf(book \o new, s) <=>
              i \in OffersOf(book, s) \/ (i - Len(book) \in OffersOf(new, s) /\ i \in Int)
         /\ i \in RealOffersOf(book \o new, s) <=>
              i \in RealOffersOf(book, s) \/ (i - Len(book) \in RealOffersOf(new, s) /\ i \in Int)
<1>1. /\ DOMAIN (book \o new) = 1..Len(book) + Len(new)
      /\ DOMAIN book = 1..Len(book)
      /\ DOMAIN new = 1..Len(new)
      /\ Len(book) \in Nat /\ Len(new) \in Nat
  BY ConcatProperties, LenProperties
<1>2. \A k \in 1..Len(book) + Len(new) :
        (book \o new)[k] = IF k <= Len(book) THEN book[k] ELSE new[k - Len(book)]
  BY ConcatProperties
<1>3. i \in OffersOf(book \o new, s) <=>
        i \in OffersOf(book, s) \/ (i - Len(book) \in OffersOf(new, s) /\ i \in Int)
  BY <1>1, <1>2 DEF OffersOf
<1>4. i \in RealOffersOf(book \o new, s) <=>
        i \in RealOffersOf(book, s) \/ (i - Len(book) \in RealOffersOf(new, s) /\ i \in Int)
  BY <1>1, <1>2, <1>3 DEF OffersOf, RealOffersOf
<1> QED
  BY <1>3, <1>4

(* Only the run at work has written anything.                              *)
LEMMA IdleRunsHaveNothing ==
  ASSUME RunInv, NEW r \in Runners, NEW q \in Runners, pc[r] \in Working, q # r
  PROVE  /\ pc[q] \notin Working
         /\ txOffers[q] = <<>> /\ txAwarded[q] = {} /\ listed[q] = NoListed
BY DEF RunInv, HolderWorks, NothingBeforeListing, Working

LEMMA NoListedIsEmpty == DOMAIN NoListed = {}
BY DEF NoListed
-----------------------------------------------------------------------------
(* The invariant is preserved.                                             *)

LEMMA InitInv ==
  ASSUME Init
  PROVE  Inv
<1>1. TypeOK /\ Attempting
  BY InitType
<1>2. RunInv
  <2> USE DEF Init
  <2>1. HolderWorks
    BY AwardQueueAssumption DEF HolderWorks, Working, AwardQueueAssumption
  <2>2. NothingBeforeListing
    BY DEF NothingBeforeListing
  <2>3. ListedIsCurrent
    BY NoListedIsEmpty DEF ListedIsCurrent
  <2>4. NewOffersAreFirst
    BY DEF NewOffersAreFirst
  <2>5. AwardedInRun
    BY OffersOfEmpty DEF AwardedInRun
  <2>6. OneRealOfferInRun
    BY OffersOfEmpty DEF OneRealOfferInRun
  <2> QED
    BY <2>1, <2>2, <2>3, <2>4, <2>5, <2>6 DEF RunInv
<1>3. OneRealOffer /\ AwardedIffOffered
  BY OffersOfEmpty DEF Init, OneRealOffer, AwardedIffOffered
<1> QED
  BY <1>1, <1>2, <1>3 DEF Inv

(* PatchShipmentHandler replaces a date and nothing else.                  *)
LEMMA PatchKeepsStatus ==
  ASSUME TypeOK, NEW s \in Shipments, PatchShipment(s)
  PROVE  \A u \in Shipments : shipment'[u].status = shipment[u].status
<1> DEFINE Row == [status : {"DRAFT", "SUBMITTED", "AWARDED"},
                   requestedPickup : Days \union {None},
                   actualPickup : Days \union {None}]
<1>1. PICK day \in PatchDates : \/ shipment' = [shipment EXCEPT ![s].requestedPickup = day]
                               \/ shipment' = [shipment EXCEPT ![s].actualPickup = day]
  BY DEF PatchShipment
<1>2. shipment \in [Shipments -> Row]
  BY DEF TypeOK
<1>3. /\ [shipment[s] EXCEPT !.requestedPickup = day].status = shipment[s].status
      /\ [shipment[s] EXCEPT !.actualPickup = day].status = shipment[s].status
  BY <1>2
<1> HIDE DEF Row
<1>4. DOMAIN shipment = Shipments
  BY <1>2
<1>5. CASE shipment' = [shipment EXCEPT ![s].requestedPickup = day]
  BY <1>3, <1>4, <1>5
<1>6. CASE shipment' = [shipment EXCEPT ![s].actualPickup = day]
  BY <1>3, <1>4, <1>6
<1> QED
  BY <1>1, <1>5, <1>6

(* Neither submissions nor patches nor enrolments touch an offer or an     *)
(* award, and a run relies on SUBMITTED shipments only.                    *)
LEMMA OutsideStep ==
  ASSUME Inv,
         \/ \E s \in Shipments : SubmitMove(s) \/ PatchShipment(s)
         \/ \E p \in Volatile : ChangeEnrolment(p)
  PROVE  Attempting' /\ RunInv' /\ OneRealOffer' /\ AwardedIffOffered'
<1> USE DEF Inv
<1>1. UNCHANGED <<offers, lock, pc, txOffers, txAwarded, listed, attempt>>
  BY DEF SubmitMove, PatchShipment, ChangeEnrolment, progress
<1>2. \A s \in Shipments :
        /\ shipment[s].status = "SUBMITTED" => shipment'[s].status = "SUBMITTED"
        /\ shipment'[s].status = "AWARDED" <=> shipment[s].status = "AWARDED"
  <2>1. ASSUME NEW s \in Shipments, SubmitMove(s)
        PROVE  \A u \in Shipments :
                 /\ shipment[u].status = "SUBMITTED" => shipment'[u].status = "SUBMITTED"
                 /\ shipment'[u].status = "AWARDED" <=> shipment[u].status = "AWARDED"
    BY <2>1 DEF SubmitMove, TypeOK
  <2>2. ASSUME NEW s \in Shipments, PatchShipment(s)
        PROVE  \A u \in Shipments : shipment'[u].status = shipment[u].status
    BY <2>2, PatchKeepsStatus
  <2>3. ASSUME NEW p \in Volatile, ChangeEnrolment(p)
        PROVE  shipment' = shipment
    BY <2>3 DEF ChangeEnrolment
  <2> QED
    BY <2>1, <2>2, <2>3
<1>3. Attempting'
  BY <1>1 DEF Attempting
<1>4. HolderWorks' /\ NothingBeforeListing'
  BY <1>1 DEF RunInv, HolderWorks, NothingBeforeListing
<1>5. ListedIsCurrent'
  <2>1. \A r \in Runners : DOMAIN listed[r] \subseteq Shipments
    BY DEF TypeOK
  <2> QED
    BY <1>1, <1>2, <2>1 DEF RunInv, ListedIsCurrent, OffersOf, RealOffersOf
<1>6. NewOffersAreFirst'
  <2>1. \A r \in Runners : \A i \in DOMAIN txOffers[r] : txOffers[r][i].shipment \in Shipments
    <3>1. ASSUME NEW r \in Runners, NEW i \in DOMAIN txOffers[r]
          PROVE  txOffers[r][i].shipment \in Shipments
      <4>1. txOffers[r] \in Seq(Offer)
        BY DEF TypeOK
      <4>2. txOffers[r][i] \in Offer
        BY <4>1, ElementOfSeq, LenProperties
      <4> QED
        BY <4>2 DEF Offer
    <3> QED
      BY <3>1
  <2> QED
    BY <1>1, <1>2, <2>1 DEF RunInv, NewOffersAreFirst, OffersOf
<1>7. AwardedInRun' /\ OneRealOfferInRun'
  BY <1>1 DEF RunInv, AwardedInRun, OneRealOfferInRun, RealOffersOf, OffersOf
<1>8. OneRealOffer' /\ AwardedIffOffered'
  BY <1>1, <1>2 DEF OneRealOffer, AwardedIffOffered, RealOffersOf, OffersOf
<1> QED
  BY <1>3, <1>4, <1>5, <1>6, <1>7, <1>8 DEF RunInv

(* Starting, banding, listing and choosing a TSP write no offer.           *)
LEMMA ReadingStep ==
  ASSUME Inv, NEW r \in Runners,
         \/ StartRun(r)
         \/ AcquireLock(r)
         \/ \E g \in Groups : AssignBands(r, g)
         \/ ListShipments(r)
         \/ \E s \in Shipments : BeginAttempt(r, s)
         \/ GiveUp(r)
  PROVE  Attempting' /\ RunInv' /\ OneRealOffer' /\ AwardedIffOffered'
<1> USE DEF Inv
<1>1. UNCHANGED <<shipment, offers, txOffers, txAwarded>>
  BY DEF StartRun, AcquireLock, AssignBands, ListShipments, BeginAttempt, GiveUp, tables, progress
<1>2. AwardedInRun' /\ OneRealOfferInRun' /\ NewOffersAreFirst'
  BY <1>1 DEF RunInv, AwardedInRun, OneRealOfferInRun, NewOffersAreFirst, RealOffersOf, OffersOf
<1>3. OneRealOffer' /\ AwardedIffOffered'
  BY <1>1 DEF OneRealOffer, AwardedIffOffered, RealOffersOf, OffersOf
<1>4. Attempting'
  <2>1. CASE StartRun(r)
    BY <2>1 DEF StartRun, Attempting, TypeOK, progress
  <2>2. CASE AcquireLock(r)
    BY <2>2 DEF AcquireLock, Attempting, TypeOK
  <2>3. ASSUME NEW g \in Groups, AssignBands(r, g)
        PROVE  Attempting'
    BY <2>3 DEF AssignBands, Attempting
  <2>4. CASE ListShipments(r)
    BY <2>4 DEF ListShipments, Attempting, TypeOK
  <2>5. ASSUME NEW s \in Shipments, BeginAttempt(r, s)
        PROVE  Attempting'
    <3>1. CASE Drop(r, s)
      BY <3>1 DEF Drop, Attempting, TypeOK
    <3>2. ASSUME NEW t \in TSPPs,
                 attempt' = [attempt EXCEPT ![r] =
                   [shipment |-> s, first |-> t, next |-> t, again |-> FALSE]],
                 pc' = [pc EXCEPT ![r] = "offering"], UNCHANGED listed
          PROVE  Attempting'
      BY <2>5, <3>2 DEF BeginAttempt, Attempting, TypeOK
    <3> QED
      BY <2>5, <3>1, <3>2, NextEligibleIsTSPP DEF BeginAttempt
  <2>6. CASE GiveUp(r)
    BY <2>6 DEF GiveUp, Drop, Attempting, TypeOK
  <2> QED
    BY <2>1, <2>2, <2>3, <2>4, <2>5, <2>6
<1>5. HolderWorks' /\ NothingBeforeListing' /\ ListedIsCurrent'
  <2> USE DEF RunInv
  <2>1. CASE StartRun(r)
    BY <1>1, <2>1 DEF StartRun, HolderWorks, NothingBeforeListing, ListedIsCurrent, Working,
       TypeOK, progress, OffersOf, RealOffersOf
  <2>2. CASE AcquireLock(r)
    BY <1>1, <2>2, AwardQueueAssumption DEF AcquireLock, HolderWorks, NothingBeforeListing,
       ListedIsCurrent, Working, TypeOK, OffersOf, RealOffersOf, AwardQueueAssumption
  <2>3. ASSUME NEW g \in Groups, AssignBands(r, g)
        PROVE  HolderWorks' /\ NothingBeforeListing' /\ ListedIsCurrent'
    BY <1>1, <2>3 DEF AssignBands, HolderWorks, NothingBeforeListing, ListedIsCurrent,
       OffersOf, RealOffersOf
  <2>4. CASE ListShipments(r)
    <3>1. txOffers[r] = <<>>
      BY <2>4 DEF ListShipments, NothingBeforeListing
    <3>2. offers \o txOffers[r] = offers
      BY <3>1, ConcatEmptySeq DEF TypeOK
    <3>3. \A s \in DOMAIN listed'[r] : shipment[s].status = "SUBMITTED" /\ OffersOf(offers, s) = {}
      BY <2>4, <3>2 DEF ListShipments, Unoffered, TypeOK
    <3>4. \A q \in Runners \ {r} : listed'[q] = listed[q]
      BY <2>4 DEF ListShipments, TypeOK
    <3>5. ListedIsCurrent'
      <4>1. \A s : RealOffersOf(txOffers[r], s) = {}
        BY <3>1, OffersOfEmpty
      <4>2. \A s : OffersOf(offers, s)' = OffersOf(offers, s)
        BY <1>1 DEF OffersOf
      <4>3. \A q \in Runners : \A s : RealOffersOf(txOffers[q], s)' = RealOffersOf(txOffers[q], s)
        BY <1>1 DEF OffersOf, RealOffersOf
      <4> QED
        BY <1>1, <3>3, <3>4, <4>1, <4>2, <4>3 DEF ListedIsCurrent
    <3> QED
      BY <1>1, <2>4, <3>5 DEF ListShipments, HolderWorks, NothingBeforeListing, Working, TypeOK
  <2>5. ASSUME NEW s, Drop(r, s), pc[r] \in {"listing", "offering"}, UNCHANGED lock
        PROVE  HolderWorks' /\ NothingBeforeListing' /\ ListedIsCurrent'
    BY <1>1, <2>5 DEF Drop, HolderWorks, NothingBeforeListing, ListedIsCurrent, Working, TypeOK,
       OffersOf, RealOffersOf
  <2>6. CASE UNCHANGED <<lock, listed>> /\ pc[r] = "listing" /\ pc' = [pc EXCEPT ![r] = "offering"]
    BY <1>1, <2>6 DEF HolderWorks, NothingBeforeListing, ListedIsCurrent, Working, TypeOK,
       OffersOf, RealOffersOf
  <2> QED
    BY <2>1, <2>2, <2>3, <2>4, <2>5, <2>6 DEF BeginAttempt, GiveUp
<1> QED
  BY <1>2, <1>3, <1>4, <1>5 DEF RunInv
(* An administrative offer adds a row that awards nothing.                 *)
LEMMA OfferAdministrativeStep ==
  ASSUME Inv, NEW r \in Runners, OfferAdministrative(r)
  PROVE  Attempting' /\ RunInv' /\ OneRealOffer' /\ AwardedIffOffered'
<1> USE DEF Inv, RunInv
<1> DEFINE s == attempt[r].shipment
           o == [shipment |-> s, tspp |-> attempt[r].next, administrative |-> TRUE]
<1>1. /\ pc[r] = "offering"
      /\ UNCHANGED <<shipment, offers, lock, txAwarded>>
      /\ txOffers' = [txOffers EXCEPT ![r] = Append(txOffers[r], o)]
  BY DEF OfferAdministrative, RecordOffer, tables
<1>2. /\ s \in DOMAIN listed[r]
      /\ s \in Shipments
      /\ o \in Offer
  BY <1>1 DEF Attempting, TypeOK, Offer
<1>3. \/ Drop(r, s)
      \/ \E u \in TSPPs : /\ attempt' = [attempt EXCEPT ![r].next = u, ![r].again = TRUE]
                          /\ UNCHANGED <<pc, listed>>
  BY NextEligibleIsTSPP DEF OfferAdministrative
<1>4. txOffers[r] \in Seq(Offer) /\ txOffers'[r] = Append(txOffers[r], o)
  BY <1>1 DEF TypeOK
<1>5. \A q \in Runners \ {r} : txOffers'[q] = txOffers[q]
  BY <1>1 DEF TypeOK
<1>6. \A u : RealOffersOf(txOffers'[r], u) = RealOffersOf(txOffers[r], u)
  <2>1. o.administrative
    OBVIOUS
  <2> HIDE DEF o
  <2>2. \A u : RealOffersOf(Append(txOffers[r], o), u) =
                RealOffersOf(txOffers[r], u) \union
                  (IF o.shipment = u /\ ~ o.administrative THEN {Len(txOffers[r]) + 1} ELSE {})
    BY <1>2, <1>4, OffersOfAppend
  <2> QED
    BY <1>4, <2>1, <2>2
<1>7. /\ shipment[s].status = "SUBMITTED"
      /\ OffersOf(offers, s) = {}
  BY <1>2 DEF ListedIsCurrent
<1> HIDE DEF s, o
<1> DEFINE Follows ==
             /\ pc'[r] \in {"listing", "offering"}
             /\ DOMAIN listed'[r] \subseteq DOMAIN listed[r]
             /\ \A q \in Runners \ {r} : /\ pc'[q] = pc[q]
                                        /\ listed'[q] = listed[q]
                                        /\ attempt'[q] = attempt[q]
             /\ pc'[r] = "offering" => /\ attempt'[r].shipment \in DOMAIN listed'[r]
                                       /\ attempt'[r].next \in TSPPs
<1>8. Follows
  <2>1. CASE Drop(r, s)
    BY <2>1 DEF Drop, TypeOK
  <2>2. ASSUME NEW u \in TSPPs, attempt' = [attempt EXCEPT ![r].next = u, ![r].again = TRUE],
               UNCHANGED <<pc, listed>>
        PROVE  Follows
    BY <1>1, <1>2, <2>2 DEF TypeOK, s
  <2> QED
    BY <1>3, <2>1, <2>2
<1>9. Attempting'
  BY <1>8 DEF Attempting
<1>10. HolderWorks' /\ NothingBeforeListing'
  <2>1. HolderWorks'
    BY <1>1, <1>8 DEF HolderWorks, Working
  <2>2. NothingBeforeListing'
    BY <1>1, <1>5, <1>8 DEF NothingBeforeListing
  <2> QED
    BY <2>1, <2>2
<1>11. ListedIsCurrent'
  <2>1. \A q \in Runners : \A u \in DOMAIN listed'[q] :
          /\ shipment[u].status = "SUBMITTED" /\ OffersOf(offers, u) = {}
          /\ RealOffersOf(txOffers'[q], u) = {}
    BY <1>5, <1>6, <1>8 DEF ListedIsCurrent
  <2> QED
    BY <1>1, <2>1 DEF ListedIsCurrent, OffersOf, RealOffersOf
<1>12. NewOffersAreFirst'
  <2>1. \A i \in DOMAIN txOffers'[r] : \/ i \in DOMAIN txOffers[r] /\ txOffers'[r][i] = txOffers[r][i]
                                   \/ txOffers'[r][i] = o
    BY <1>2, <1>4, AppendProperties, LenProperties
  <2>2. \A q \in Runners : \A i \in DOMAIN txOffers'[q] :
          /\ shipment[txOffers'[q][i].shipment].status = "SUBMITTED"
          /\ OffersOf(offers, txOffers'[q][i].shipment) = {}
    <3>1. ASSUME NEW i \in DOMAIN txOffers'[r]
          PROVE  /\ shipment[txOffers'[r][i].shipment].status = "SUBMITTED"
                 /\ OffersOf(offers, txOffers'[r][i].shipment) = {}
      <4>1. CASE i \in DOMAIN txOffers[r] /\ txOffers'[r][i] = txOffers[r][i]
        BY <4>1 DEF NewOffersAreFirst
      <4>2. CASE txOffers'[r][i] = o
        <5>1. txOffers'[r][i].shipment = s
          BY <4>2 DEF o
        <5> QED
          BY <1>7, <5>1
      <4> QED
        BY <2>1, <4>1, <4>2
    <3>2. ASSUME NEW q \in Runners \ {r}, NEW i \in DOMAIN txOffers'[q]
          PROVE  /\ shipment[txOffers'[q][i].shipment].status = "SUBMITTED"
                 /\ OffersOf(offers, txOffers'[q][i].shipment) = {}
      BY <1>5, <3>2 DEF NewOffersAreFirst
    <3> QED
      BY <3>1, <3>2
  <2> QED
    BY <1>1, <2>2 DEF NewOffersAreFirst, OffersOf
<1>13. AwardedInRun' /\ OneRealOfferInRun'
  <2>1. \A q \in Runners, u \in Shipments :
          RealOffersOf(txOffers'[q], u) = RealOffersOf(txOffers[q], u)
    BY <1>5, <1>6
  <2>2. \A q \in Runners, u \in Shipments :
          (RealOffersOf(txOffers[q], u))' = RealOffersOf(txOffers'[q], u)
    BY DEF RealOffersOf, OffersOf
  <2> QED
    BY <1>1, <2>1, <2>2 DEF AwardedInRun, OneRealOfferInRun
<1>14. OneRealOffer' /\ AwardedIffOffered'
  BY <1>1 DEF OneRealOffer, AwardedIffOffered, RealOffersOf, OffersOf
<1> QED
  BY <1>9, <1>10, <1>11, <1>12, <1>13, <1>14
(* The real offer and the award are made together, and the shipment leaves *)
(* the list.                                                               *)
LEMMA OfferForRealStep ==
  ASSUME Inv, NEW r \in Runners, OfferForReal(r)
  PROVE  Attempting' /\ RunInv' /\ OneRealOffer' /\ AwardedIffOffered'
<1> USE DEF Inv, RunInv
<1> DEFINE s == attempt[r].shipment
           o == [shipment |-> s, tspp |-> attempt[r].next, administrative |-> FALSE]
           n == Len(txOffers[r]) + 1
<1>1. /\ pc[r] = "offering"
      /\ UNCHANGED <<shipment, offers, lock>>
      /\ txOffers' = [txOffers EXCEPT ![r] = Append(txOffers[r], o)]
      /\ Drop(r, s)
  BY DEF OfferForReal, RecordOffer, tables
<1>2. /\ s \in DOMAIN listed[r]
      /\ s \in Shipments
      /\ o \in Offer
  BY <1>1 DEF Attempting, TypeOK, Offer
<1>3. /\ shipment[s].status = "SUBMITTED"
      /\ OffersOf(offers, s) = {}
      /\ RealOffersOf(txOffers[r], s) = {}
  BY <1>2 DEF ListedIsCurrent
<1>4. txAwarded' = [txAwarded EXCEPT ![r] = txAwarded[r] \union {s}]
  BY <1>3 DEF OfferForReal
<1>5. txOffers[r] \in Seq(Offer) /\ txOffers'[r] = Append(txOffers[r], o)
  BY <1>1 DEF TypeOK
<1>6. \A q \in Runners \ {r} : /\ txOffers'[q] = txOffers[q]
                             /\ txAwarded'[q] = txAwarded[q]
                             /\ listed'[q] = listed[q]
                             /\ attempt'[q] = attempt[q]
                             /\ pc'[q] = pc[q]
  BY <1>1, <1>4 DEF Drop, TypeOK
<1>7. /\ txAwarded'[r] = txAwarded[r] \union {s}
      /\ DOMAIN listed'[r] = DOMAIN listed[r] \ {s}
      /\ pc'[r] = "listing"
  BY <1>1, <1>4 DEF Drop, TypeOK
<1>8. \A u : RealOffersOf(txOffers'[r], u) =
              IF u = s THEN {n} ELSE RealOffersOf(txOffers[r], u)
  <2>1. o.shipment = s /\ ~ o.administrative
    OBVIOUS
  <2> HIDE DEF o, s
  <2>2. \A u : RealOffersOf(Append(txOffers[r], o), u) =
                RealOffersOf(txOffers[r], u) \union
                  (IF o.shipment = u /\ ~ o.administrative THEN {n} ELSE {})
    BY <1>2, <1>5, OffersOfAppend
  <2> HIDE DEF n
  <2> QED
    BY <1>3, <1>5, <2>1, <2>2
<1>9. o.shipment = s
  OBVIOUS
<1> HIDE DEF s, o, n
<1>10. Attempting'
  BY <1>6, <1>7 DEF Attempting
<1>11. HolderWorks' /\ NothingBeforeListing'
  BY <1>1, <1>6, <1>7 DEF HolderWorks, Working, NothingBeforeListing
<1>12. ListedIsCurrent'
  <2>1. \A q \in Runners : \A u \in DOMAIN listed'[q] :
          /\ shipment[u].status = "SUBMITTED" /\ OffersOf(offers, u) = {}
          /\ RealOffersOf(txOffers'[q], u) = {}
    BY <1>6, <1>7, <1>8 DEF ListedIsCurrent
  <2> QED
    BY <1>1, <2>1 DEF ListedIsCurrent, OffersOf, RealOffersOf
<1>13. NewOffersAreFirst'
  <2>1. \A i \in DOMAIN txOffers'[r] : \/ i \in DOMAIN txOffers[r] /\ txOffers'[r][i] = txOffers[r][i]
                                   \/ txOffers'[r][i] = o
    BY <1>2, <1>5, AppendProperties, LenProperties
  <2>2. \A i \in DOMAIN txOffers'[r] :
          /\ shipment[txOffers'[r][i].shipment].status = "SUBMITTED"
          /\ OffersOf(offers, txOffers'[r][i].shipment) = {}
    BY <1>3, <1>9, <2>1 DEF NewOffersAreFirst
  <2>3. \A q \in Runners : \A i \in DOMAIN txOffers'[q] :
          /\ shipment[txOffers'[q][i].shipment].status = "SUBMITTED"
          /\ OffersOf(offers, txOffers'[q][i].shipment) = {}
    <3>1. ASSUME NEW q \in Runners \ {r}, NEW i \in DOMAIN txOffers'[q]
          PROVE  /\ shipment[txOffers'[q][i].shipment].status = "SUBMITTED"
                 /\ OffersOf(offers, txOffers'[q][i].shipment) = {}
      BY <1>6, <3>1 DEF NewOffersAreFirst
    <3> QED
      BY <2>2, <3>1
  <2> QED
    BY <1>1, <2>3 DEF NewOffersAreFirst, OffersOf
<1>14. AwardedInRun' /\ OneRealOfferInRun'
  <2>1. \A q \in Runners, u \in Shipments :
          (RealOffersOf(txOffers[q], u))' = RealOffersOf(txOffers'[q], u)
    BY DEF RealOffersOf, OffersOf
  <2>2. \A q \in Runners, u \in Shipments :
          u \in txAwarded'[q] <=> RealOffersOf(txOffers'[q], u) # {}
    BY <1>6, <1>7, <1>8 DEF AwardedInRun
  <2>3. \A q \in Runners, u \in Shipments : \A i, j \in RealOffersOf(txOffers'[q], u) : i = j
    BY <1>6, <1>8 DEF OneRealOfferInRun
  <2> QED
    BY <2>1, <2>2, <2>3 DEF AwardedInRun, OneRealOfferInRun
<1>15. OneRealOffer' /\ AwardedIffOffered'
  BY <1>1 DEF OneRealOffer, AwardedIffOffered, RealOffersOf, OffersOf
<1> QED
  BY <1>10, <1>11, <1>12, <1>13, <1>14, <1>15

(* The end of a run leaves the invariants about runs as they were for the  *)
(* other runs, provided the shipments they work on are left alone.         *)
LEMMA ForgetStep ==
  ASSUME Inv, NEW r \in Runners, Forget(r), r # None,
         UNCHANGED <<shipment, offers>> \/ pc[r] \in Working
  PROVE  Attempting' /\ RunInv'
<1> USE DEF Inv, RunInv
<1>1. /\ pc'[r] = "idle"
      /\ txOffers'[r] = <<>> /\ txAwarded'[r] = {} /\ listed'[r] = NoListed
  BY DEF Forget, TypeOK
<1>2. \A q \in Runners \ {r} : /\ pc'[q] = pc[q]
                             /\ txOffers'[q] = txOffers[q]
                             /\ txAwarded'[q] = txAwarded[q]
                             /\ listed'[q] = listed[q]
                             /\ attempt'[q] = attempt[q]
  BY DEF Forget, TypeOK
<1>3. lock' = IF lock = r THEN None ELSE lock
  BY DEF Forget
<1>4. Attempting'
  BY <1>1, <1>2 DEF Attempting
<1>5. HolderWorks'
  BY <1>1, <1>2, <1>3, AwardQueueAssumption DEF HolderWorks, Working, AwardQueueAssumption
<1>6. NothingBeforeListing'
  BY <1>1, <1>2 DEF NothingBeforeListing
<1>7. \A u : RealOffersOf(txOffers'[r], u) = {}
  BY <1>1, OffersOfEmpty
<1>8. \A q \in Runners : \A u : (RealOffersOf(txOffers[q], u))' = RealOffersOf(txOffers'[q], u)
  BY DEF RealOffersOf, OffersOf
<1>9. \A u : (OffersOf(offers, u))' = OffersOf(offers', u)
  BY DEF OffersOf
<1>10. AwardedInRun' /\ OneRealOfferInRun'
  <2>1. ASSUME NEW q \in Runners, NEW u \in Shipments
        PROVE  /\ u \in txAwarded'[q] <=> RealOffersOf(txOffers'[q], u) # {}
               /\ \A i, j \in RealOffersOf(txOffers'[q], u) : i = j
    <3>1. CASE q = r
      BY <1>1, <1>7, <3>1
    <3>2. CASE q # r
      BY <1>2, <3>2 DEF AwardedInRun, OneRealOfferInRun
    <3> QED
      BY <3>1, <3>2
  <2> QED
    BY <1>8, <2>1 DEF AwardedInRun, OneRealOfferInRun
<1>11. CASE UNCHANGED <<shipment, offers>>
  <2>1. ListedIsCurrent'
    BY <1>1, <1>2, <1>8, <1>9, <1>11, NoListedIsEmpty DEF ListedIsCurrent
  <2>2. NewOffersAreFirst'
    <3>1. ASSUME NEW q \in Runners, NEW i \in DOMAIN txOffers'[q]
          PROVE  /\ shipment'[txOffers'[q][i].shipment].status = "SUBMITTED"
                 /\ OffersOf(offers', txOffers'[q][i].shipment) = {}
      <4>1. q # r
        BY <1>1
      <4>2. txOffers'[q] = txOffers[q]
        BY <1>2, <4>1
      <4> QED
        BY <1>11, <4>2 DEF NewOffersAreFirst
    <3> QED
      BY <1>9, <3>1 DEF NewOffersAreFirst
  <2> QED
    BY <1>4, <1>5, <1>6, <1>10, <2>1, <2>2
<1>12. CASE pc[r] \in Working
  <2>1. \A q \in Runners : txOffers'[q] = <<>> /\ listed'[q] = NoListed
    BY <1>1, <1>2, <1>12, IdleRunsHaveNothing
  <2>2. ListedIsCurrent'
    BY <2>1, NoListedIsEmpty DEF ListedIsCurrent
  <2>3. NewOffersAreFirst'
    BY <2>1 DEF NewOffersAreFirst
  <2> QED
    BY <1>4, <1>5, <1>6, <1>10, <2>2, <2>3
<1> QED
  BY <1>11, <1>12

(* The commit publishes the offers and the awards of the run together.     *)
LEMMA CommitStep ==
  ASSUME Inv, NEW r \in Runners, Commit(r)
  PROVE  Attempting' /\ RunInv' /\ OneRealOffer' /\ AwardedIffOffered'
<1> USE DEF Inv, RunInv
<1>1. /\ pc[r] \in Working
      /\ Forget(r)
      /\ offers' = offers \o txOffers[r]
  BY DEF Commit, Working
<1>2. Attempting' /\ RunInv'
  <2>1. r # None
    BY AwardQueueAssumption DEF AwardQueueAssumption
  <2> QED
    BY <1>1, <2>1, ForgetStep
<1>3. offers \in Seq(Offer) /\ txOffers[r] \in Seq(Offer)
  BY DEF TypeOK
<1>4. \A s, i : i \in RealOffersOf(offers', s) <=>
                 i \in RealOffersOf(offers, s)
                 \/ (i - Len(offers) \in RealOffersOf(txOffers[r], s) /\ i \in Int)
  BY <1>1, <1>3, OffersOfConcat
<1>5. \A s \in Shipments : RealOffersOf(txOffers[r], s) # {} =>
        shipment[s].status = "SUBMITTED" /\ RealOffersOf(offers, s) = {}
  BY DEF NewOffersAreFirst, RealOffersOf, OffersOf
<1>6. /\ Len(offers) \in Nat
      /\ \A s : RealOffersOf(txOffers[r], s) \subseteq Nat
  BY <1>3, LenProperties DEF RealOffersOf, OffersOf
<1>7. OneRealOffer'
  <2>1. \A s : (RealOffersOf(offers, s))' = RealOffersOf(offers', s)
    BY DEF RealOffersOf, OffersOf
  <2>2. ASSUME NEW s \in Shipments, NEW i \in RealOffersOf(offers', s),
               NEW j \in RealOffersOf(offers', s)
        PROVE  i = j
    <3>1. CASE RealOffersOf(txOffers[r], s) = {}
      BY <1>4, <2>2, <3>1 DEF OneRealOffer
    <3>2. CASE RealOffersOf(txOffers[r], s) # {}
      <4>1. /\ i \in Int /\ i - Len(offers) \in RealOffersOf(txOffers[r], s)
            /\ j \in Int /\ j - Len(offers) \in RealOffersOf(txOffers[r], s)
        BY <1>4, <1>5, <2>2, <3>2
      <4>2. i - Len(offers) = j - Len(offers)
        BY <4>1 DEF OneRealOfferInRun
      <4> QED
        BY <1>6, <4>1, <4>2
    <3> QED
      BY <3>1, <3>2
  <2> QED
    BY <2>1, <2>2 DEF OneRealOffer
<1>8. AwardedIffOffered'
  <2>1. \A s : (RealOffersOf(offers, s))' = RealOffersOf(offers', s)
    BY DEF RealOffersOf, OffersOf
  <2>2. \A s \in Shipments :
          shipment'[s].status = "AWARDED" <=> s \in txAwarded[r] \/ shipment[s].status = "AWARDED"
    BY DEF Commit, TypeOK
  <2>3. \A s : RealOffersOf(offers', s) # {} <=>
               RealOffersOf(offers, s) # {} \/ RealOffersOf(txOffers[r], s) # {}
    <3>1. ASSUME NEW s, NEW k \in RealOffersOf(txOffers[r], s)
          PROVE  k + Len(offers) \in RealOffersOf(offers', s)
      <4>1. k \in Nat /\ k + Len(offers) \in Int /\ (k + Len(offers)) - Len(offers) = k
        BY <1>6, <3>1
      <4> QED
        BY <1>4, <3>1, <4>1
    <3> QED
      BY <1>4, <3>1
  <2> QED
    BY <2>1, <2>2, <2>3 DEF AwardedIffOffered, AwardedInRun
<1> QED
  BY <1>2, <1>7, <1>8
(* A run that fails leaves no trace.                                       *)
LEMMA RollbackStep ==
  ASSUME Inv, NEW r \in Runners, Rollback(r)
  PROVE  Attempting' /\ RunInv' /\ OneRealOffer' /\ AwardedIffOffered'
<1>1. Forget(r) /\ UNCHANGED <<shipment, offers>>
  BY DEF Rollback, tables
<1>2. r # None
  BY AwardQueueAssumption DEF AwardQueueAssumption
<1>3. Attempting' /\ RunInv'
  BY <1>1, <1>2, ForgetStep
<1>4. OneRealOffer' /\ AwardedIffOffered'
  BY <1>1 DEF Inv, OneRealOffer, AwardedIffOffered, RealOffersOf, OffersOf
<1> QED
  BY <1>3, <1>4

LEMMA InvStep == Inv /\ [Next]_vars => Inv'
<1> SUFFICES ASSUME Inv, [Next]_vars
             PROVE  Inv'
  OBVIOUS
<1>1. TypeOK'
  BY TypeStep DEF Inv
<1> DEFINE Rest == Attempting /\ RunInv /\ OneRealOffer /\ AwardedIffOffered
<1>2. ASSUME NEW s \in Shipments, SubmitMove(s) \/ PatchShipment(s)
      PROVE  Rest'
  BY <1>2, OutsideStep
<1>3. ASSUME NEW p \in Volatile, ChangeEnrolment(p)
      PROVE  Rest'
  BY <1>3, OutsideStep
<1>4. ASSUME NEW r \in Runners, StartRun(r)
      PROVE  Rest'
  BY <1>4, ReadingStep
<1>5. ASSUME NEW r \in Runners, RunStep(r)
      PROVE  Rest'
  <2>1. CASE AcquireLock(r)
    BY <2>1, ReadingStep
  <2>2. CASE \E g \in Groups : AssignBands(r, g)
    BY <2>2, ReadingStep
  <2>3. CASE ListShipments(r)
    BY <2>3, ReadingStep
  <2>4. CASE \E s \in Shipments : BeginAttempt(r, s)
    BY <2>4, ReadingStep
  <2>5. CASE GiveUp(r)
    BY <2>5, ReadingStep
  <2>6. CASE OfferAdministrative(r)
    BY <2>6, OfferAdministrativeStep
  <2>7. CASE OfferForReal(r)
    BY <2>7, OfferForRealStep
  <2>8. CASE Commit(r)
    BY <2>8, CommitStep
  <2> QED
    BY <1>5, <2>1, <2>2, <2>3, <2>4, <2>5, <2>6, <2>7, <2>8 DEF RunStep
<1>6. ASSUME NEW r \in Runners, Rollback(r)
      PROVE  Rest'
  BY <1>6, RollbackStep
<1>7. ASSUME UNCHANGED vars
      PROVE  Rest'
  BY <1>7 DEF vars, tables, progress, Inv, Attempting, RunInv, HolderWorks, NothingBeforeListing,
     ListedIsCurrent, NewOffersAreFirst, AwardedInRun, OneRealOfferInRun, OneRealOffer,
     AwardedIffOffered, OffersOf, RealOffersOf
<1>8. Rest'
  <2> HIDE DEF Rest
  <2> QED
    BY <1>2, <1>3, <1>4, <1>5, <1>6, <1>7 DEF Next
<1> QED
  BY <1>1, <1>8 DEF Inv

(* However many runs overlap, fail or are killed, Inv holds: it is         *)
(* inductive.                                                              *)
THEOREM Invariance == Spec => []Inv
<1>1. Init => Inv
  BY InitInv
<1> QED
  BY <1>1, InvStep, PTL DEF Spec

(* Every table and every run variable keeps its type; in particular bands  *)
(* stay within 1..4 and an attempt always has a shipment and a TSPP.       *)
THEOREM TypeCorrect == Spec => []TypeOK
<1>1. Inv => TypeOK
  BY DEF Inv
<1> QED
  BY <1>1, Invariance, PTL

(* However many runs overlap, fail or are killed, no shipment is given to  *)
(* two TSPs.                                                               *)
THEOREM AtMostOneRealOffer == Spec => []OneRealOffer
<1>1. Inv => OneRealOffer
  BY DEF Inv
<1> QED
  BY <1>1, Invariance, PTL

(* A shipment is AWARDED exactly when the table of offers gives it to a    *)
(* TSP.                                                                    *)
THEOREM StatusAgreesWithOffers == Spec => []AwardedIffOffered
<1>1. Inv => AwardedIffOffered
  BY DEF Inv
<1> QED
  BY <1>1, Invariance, PTL
-----------------------------------------------------------------------------
(* The offer counts are the ledger of the offers.                          *)

(* The counts that a run sees include the offers it has made itself.       *)
RunCountIsLedger ==
  \A r \in Runners : pc[r] \in Working =>
    \A t \in TSPPs :
      txPerf[r][t].offerCount = Cardinality(OffersTo(offers \o txOffers[r], t))

Ledger == OfferCountIsLedger /\ RunCountIsLedger

(* IncrementTSPPerformanceOfferCount keeps up with CreateShipmentOffer.    *)
LEMMA OffersToAppend ==
  ASSUME NEW book \in Seq(Offer), NEW o \in Offer, NEW t
  PROVE  Cardinality(OffersTo(Append(book, o), t)) =
           Cardinality(OffersTo(book, t)) + (IF o.tspp = t THEN 1 ELSE 0)
<1>1. /\ DOMAIN Append(book, o) = 1..Len(book) + 1
      /\ DOMAIN book = 1..Len(book)
      /\ Len(book) \in Nat
      /\ \A i \in 1..Len(book) : Append(book, o)[i] = book[i]
      /\ Append(book, o)[Len(book) + 1] = o
  BY AppendProperties, LenProperties
<1>2. OffersTo(Append(book, o), t) =
        OffersTo(book, t) \union (IF o.tspp = t THEN {Len(book) + 1} ELSE {})
  BY <1>1 DEF OffersTo
<1>3. IsFiniteSet(OffersTo(book, t)) /\ Len(book) + 1 \notin OffersTo(book, t)
  <2>1. OffersTo(book, t) \subseteq 1..Len(book)
    BY <1>1 DEF OffersTo
  <2>2. IsFiniteSet(1..Len(book))
    BY <1>1, FS_Interval
  <2> QED
    BY <1>1, <2>1, <2>2, FS_Subset
<1>4. Cardinality(OffersTo(book, t)) \in Nat
  BY <1>3, FS_CardinalityType
<1>5. CASE o.tspp = t
  <2>1. OffersTo(Append(book, o), t) = OffersTo(book, t) \union {Len(book) + 1}
    BY <1>2, <1>5
  <2> QED
    BY <1>3, <1>5, <2>1, FS_AddElement
<1>6. CASE o.tspp # t
  <2>1. OffersTo(Append(book, o), t) = OffersTo(book, t)
    BY <1>2, <1>6
  <2> QED
    BY <1>4, <1>6, <2>1
<1> QED
  BY <1>5, <1>6

LEMMA OffersToEmpty ==
  ASSUME NEW t
  PROVE  Cardinality(OffersTo(<<>>, t)) = 0
<1>1. OffersTo(<<>>, t) = {}
  BY DEF OffersTo
<1> QED
  BY <1>1, FS_EmptySet

LEMMA ConcatAppend ==
  ASSUME NEW a \in Seq(Offer), NEW b \in Seq(Offer), NEW o \in Offer
  PROVE  a \o Append(b, o) = Append(a \o b, o)
<1>1. /\ Append(b, o) \in Seq(Offer) /\ a \o b \in Seq(Offer)
      /\ Len(Append(b, o)) = Len(b) + 1 /\ Len(a \o b) = Len(a) + Len(b)
      /\ Len(a) \in Nat /\ Len(b) \in Nat
  BY AppendProperties, ConcatProperties, LenProperties
<1>2. /\ a \o Append(b, o) \in Seq(Offer)
      /\ Append(a \o b, o) \in Seq(Offer)
      /\ Len(a \o Append(b, o)) = Len(a) + Len(b) + 1
      /\ Len(Append(a \o b, o)) = Len(a) + Len(b) + 1
  BY <1>1, AppendProperties, ConcatProperties
<1>3. ASSUME NEW i \in 1..(Len(a) + Len(b) + 1)
      PROVE  (a \o Append(b, o))[i] = Append(a \o b, o)[i]
  <2>1. CASE i <= Len(a)
    BY <1>1, <2>1, AppendProperties, ConcatProperties
  <2>2. CASE Len(a) < i /\ i <= Len(a) + Len(b)
    BY <1>1, <2>2, AppendProperties, ConcatProperties
  <2>3. CASE i = Len(a) + Len(b) + 1
    BY <1>1, <2>3, AppendProperties, ConcatProperties
  <2> QED
    BY <1>1, <2>1, <2>2, <2>3
<1> QED
  BY <1>2, <1>3, SeqEqual

(* One offer more in the transaction, one more in the count of its TSPP.   *)
LEMMA RecordOfferKeepsCount ==
  ASSUME Inv, Ledger, NEW r \in Runners, pc[r] = "offering", NEW administrative \in BOOLEAN,
         RecordOffer(r, administrative), NEW t \in TSPPs
  PROVE  txPerf'[r][t].offerCount = Cardinality(OffersTo(offers \o txOffers'[r], t))
<1> DEFINE u == attempt[r].next
           o == [shipment |-> attempt[r].shipment, tspp |-> u, administrative |-> administrative]
<1>1. o \in Offer /\ u \in TSPPs
  BY DEF Inv, Attempting, TypeOK, Offer
<1>2. offers \in Seq(Offer) /\ txOffers[r] \in Seq(Offer)
  BY DEF Inv, TypeOK
<1>3. txOffers'[r] = Append(txOffers[r], o)
  BY DEF RecordOffer, Inv, TypeOK
<1>4. offers \o Append(txOffers[r], o) = Append(offers \o txOffers[r], o)
  <2> HIDE DEF o
  <2> QED
    BY <1>1, <1>2, ConcatAppend
<1>5. Cardinality(OffersTo(offers \o txOffers'[r], t)) =
        Cardinality(OffersTo(offers \o txOffers[r], t)) + (IF u = t THEN 1 ELSE 0)
  <2>1. o.tspp = u
    OBVIOUS
  <2> HIDE DEF o, u
  <2>2. offers \o txOffers[r] \in Seq(Offer)
    BY <1>2, ConcatProperties
  <2>3. Cardinality(OffersTo(Append(offers \o txOffers[r], o), t)) =
          Cardinality(OffersTo(offers \o txOffers[r], t)) + (IF o.tspp = t THEN 1 ELSE 0)
    BY <1>1, <2>2, OffersToAppend
  <2> QED
    BY <1>3, <1>4, <2>1, <2>3
<1>6. txPerf'[r][t].offerCount = txPerf[r][t].offerCount + (IF u = t THEN 1 ELSE 0)
  <2>1. txPerf[r] \in [TSPPs -> Perf] /\ txPerf \in [Runners -> [TSPPs -> Perf]]
    BY DEF Inv, TypeOK
  <2>2. txPerf'[r][t] = IF u = t THEN [txPerf[r][t] EXCEPT !.offerCount = @ + 1]
                                 ELSE txPerf[r][t]
    BY <2>1, <1>1 DEF RecordOffer
  <2>3. txPerf[r][t] \in Perf
    BY <2>1
  <2> QED
    BY <2>2, <2>3 DEF Perf
<1>7. txPerf[r][t].offerCount = Cardinality(OffersTo(offers \o txOffers[r], t))
  BY DEF Ledger, RunCountIsLedger, Working
<1> QED
  BY <1>5, <1>6, <1>7
LEMMA LedgerInit ==
  ASSUME Init
  PROVE  Ledger
<1>1. OfferCountIsLedger
  BY OffersToEmpty DEF Init, OfferCountIsLedger
<1>2. RunCountIsLedger
  BY DEF Init, RunCountIsLedger, Working
<1> QED
  BY <1>1, <1>2 DEF Ledger

LEMMA LedgerStep ==
  ASSUME Inv, Ledger, [Next]_vars
  PROVE  Ledger'
<1> USE DEF Ledger
<1>1. ASSUME UNCHANGED <<perf, offers, txPerf, txOffers>>,
             \A q \in Runners : pc'[q] \in Working => pc[q] \in Working
      PROVE  Ledger'
  BY <1>1 DEF OfferCountIsLedger, RunCountIsLedger, OffersTo
<1>2. ASSUME NEW s \in Shipments, SubmitMove(s) \/ PatchShipment(s)
      PROVE  Ledger'
  BY <1>1, <1>2 DEF SubmitMove, PatchShipment, progress
<1>3. ASSUME NEW p \in Volatile, ChangeEnrolment(p)
      PROVE  Ledger'
  BY <1>1, <1>3 DEF ChangeEnrolment, progress
<1>4. ASSUME NEW r \in Runners, StartRun(r)
      PROVE  Ledger'
  BY <1>1, <1>4 DEF StartRun, tables, progress, Working, Inv, TypeOK
<1>5. ASSUME NEW r \in Runners, AcquireLock(r)
      PROVE  Ledger'
  <2>1. OfferCountIsLedger'
    BY <1>5 DEF AcquireLock, tables, OfferCountIsLedger, OffersTo
  <2>2. txOffers[r] = <<>>
    BY <1>5 DEF AcquireLock, Inv, RunInv, NothingBeforeListing
  <2>3. offers \o txOffers[r] = offers
    BY <2>2, ConcatEmptySeq DEF Inv, TypeOK
  <2>4. txPerf'[r] = perf /\ \A q \in Runners \ {r} : txPerf'[q] = txPerf[q] /\ pc'[q] = pc[q]
    BY <1>5 DEF AcquireLock, Inv, TypeOK
  <2>5. UNCHANGED <<offers, txOffers>>
    BY <1>5 DEF AcquireLock, tables
  <2>6. RunCountIsLedger'
    <3>1. ASSUME NEW q \in Runners, pc'[q] \in Working, NEW t \in TSPPs
          PROVE  txPerf'[q][t].offerCount = Cardinality(OffersTo(offers \o txOffers[q], t))
      <4>1. CASE q = r
        BY <2>3, <2>4, <4>1 DEF OfferCountIsLedger
      <4>2. CASE q # r
        BY <2>4, <3>1, <4>2 DEF RunCountIsLedger
      <4> QED
        BY <4>1, <4>2
    <3> QED
      BY <2>5, <3>1 DEF RunCountIsLedger, OffersTo
  <2> QED
    BY <2>1, <2>6
<1>6. ASSUME NEW r \in Runners, NEW g \in Groups, AssignBands(r, g)
      PROVE  Ledger'
  <2>1. UNCHANGED <<perf, offers, pc, txOffers>>
    BY <1>6 DEF AssignBands, tables
  <2>2. \A t \in TSPPs : txPerf'[r][t].offerCount = txPerf[r][t].offerCount
    <3>1. \A t \in TSPPs : txPerf[r][t] \in Perf
      BY DEF Inv, TypeOK
    <3>2. PICK rank \in Rankings(Bandable(g)) :
            txPerf' = [txPerf EXCEPT ![r] =
              [t \in TSPPs |->
                 IF t \in Bandable(g)
                 THEN [txPerf[r][t] EXCEPT
                         !.band = BandOfRank(Cardinality(Bandable(g)), rank[t])]
                 ELSE txPerf[r][t]]]
      BY <1>6 DEF AssignBands
    <3> QED
      BY <3>1, <3>2 DEF Inv, TypeOK, Perf
  <2>3. \A q \in Runners \ {r} : txPerf'[q] = txPerf[q]
    BY <1>6 DEF AssignBands, Inv, TypeOK
  <2>4. \A q \in Runners, t \in TSPPs : txPerf'[q][t].offerCount = txPerf[q][t].offerCount
    BY <2>2, <2>3
  <2> QED
    BY <2>1, <2>4 DEF OfferCountIsLedger, RunCountIsLedger, OffersTo
<1>7. ASSUME NEW r \in Runners,
             ListShipments(r) \/ GiveUp(r) \/ \E s \in Shipments : BeginAttempt(r, s)
      PROVE  Ledger'
  <2>1. UNCHANGED <<perf, offers, txPerf, txOffers>> /\ pc[r] \in Working
    BY <1>7 DEF ListShipments, GiveUp, BeginAttempt, tables, Working
  <2>2. \A q \in Runners \ {r} : pc'[q] = pc[q]
    BY <1>7 DEF ListShipments, GiveUp, BeginAttempt, Drop, Inv, TypeOK
  <2> QED
    BY <1>1, <2>1, <2>2
<1>8. ASSUME NEW r \in Runners, NEW administrative \in BOOLEAN, pc[r] = "offering",
             RecordOffer(r, administrative), UNCHANGED <<perf, offers>>,
             \A q \in Runners \ {r} : pc'[q] = pc[q]
      PROVE  Ledger'
  <2>1. OfferCountIsLedger'
    BY <1>8 DEF OfferCountIsLedger, OffersTo
  <2>2. \A q \in Runners \ {r} : txPerf'[q] = txPerf[q] /\ txOffers'[q] = txOffers[q]
    BY <1>8 DEF RecordOffer, Inv, TypeOK
  <2>3. \A t \in TSPPs :
          txPerf'[r][t].offerCount = Cardinality(OffersTo(offers \o txOffers'[r], t))
    BY <1>8, RecordOfferKeepsCount
  <2>4. RunCountIsLedger'
    <3>1. ASSUME NEW q \in Runners, pc'[q] \in Working, NEW t \in TSPPs
          PROVE  txPerf'[q][t].offerCount = Cardinality(OffersTo(offers' \o txOffers'[q], t))
      <4>1. CASE q = r
        BY <1>8, <2>3, <4>1
      <4>2. CASE q # r
        BY <1>8, <2>2, <3>1, <4>2 DEF RunCountIsLedger
      <4> QED
        BY <4>1, <4>2
    <3> QED
      BY <3>1 DEF RunCountIsLedger, OffersTo
  <2> QED
    BY <2>1, <2>4
<1>9. ASSUME NEW r \in Runners, OfferAdministrative(r)
      PROVE  Ledger'
  <2>1. pc[r] = "offering" /\ RecordOffer(r, TRUE) /\ UNCHANGED <<perf, offers>>
    BY <1>9 DEF OfferAdministrative, tables
  <2>2. \A q \in Runners \ {r} : pc'[q] = pc[q]
    BY <1>9 DEF OfferAdministrative, Drop, Inv, TypeOK
  <2> QED
    BY <1>8, <2>1, <2>2
<1>10. ASSUME NEW r \in Runners, OfferForReal(r)
       PROVE  Ledger'
  <2>1. pc[r] = "offering" /\ RecordOffer(r, FALSE) /\ UNCHANGED <<perf, offers>>
    BY <1>10 DEF OfferForReal, tables
  <2>2. \A q \in Runners \ {r} : pc'[q] = pc[q]
    BY <1>10 DEF OfferForReal, Drop, Inv, TypeOK
  <2> QED
    BY <1>8, <2>1, <2>2
<1>11. ASSUME NEW r \in Runners, Commit(r)
       PROVE  Ledger'
  <2>1. pc[r] \in Working /\ perf' = txPerf[r] /\ offers' = offers \o txOffers[r]
    BY <1>11 DEF Commit, Working
  <2>2. OfferCountIsLedger'
    BY <2>1 DEF OfferCountIsLedger, RunCountIsLedger, OffersTo
  <2>3. \A q \in Runners : pc'[q] \notin Working
    BY <1>11, <2>1, IdleRunsHaveNothing DEF Commit, Forget, Working, Inv, TypeOK
  <2> QED
    BY <2>2, <2>3 DEF RunCountIsLedger
<1>12. ASSUME NEW r \in Runners, Rollback(r)
       PROVE  Ledger'
  <2>1. UNCHANGED <<perf, offers>> /\ pc'[r] \notin Working
    BY <1>12 DEF Rollback, Forget, tables, Working, Inv, TypeOK
  <2>2. \A q \in Runners \ {r} : txPerf'[q] = txPerf[q] /\ txOffers'[q] = txOffers[q]
                                  /\ pc'[q] = pc[q]
    BY <1>12 DEF Rollback, Forget, Inv, TypeOK
  <2> QED
    BY <2>1, <2>2 DEF OfferCountIsLedger, RunCountIsLedger, OffersTo
<1>13. CASE UNCHANGED vars
  BY <1>1, <1>13 DEF vars, tables, progress
<1> QED
  BY <1>2, <1>3, <1>4, <1>5, <1>6, <1>7, <1>9, <1>10, <1>11, <1>12, <1>13 DEF Next, RunStep

(* The offer_count column never loses an increment, although it is read    *)
(* and written back by several runs.                                       *)
THEOREM NoLostOfferCount == Spec => []OfferCountIsLedger
<1>1. Init => Ledger
  BY LedgerInit
<1>2. Inv /\ Ledger /\ [Next]_vars => Ledger'
  BY LedgerStep
<1>3. Ledger => OfferCountIsLedger
  BY DEF Ledger
<1> QED
  BY <1>1, <1>2, <1>3, Invariance, PTL DEF Spec
-----------------------------------------------------------------------------
(* The award queue implements the offer book.                              *)

LEMMA BookInitially ==
  ASSUME Init
  PROVE  Book!BookInit
BY DEF Init, Book!BookInit

(* A commit is a batch of the book: its rows are those of the transaction. *)
LEMMA CommitIsBatch ==
  ASSUME Inv, NEW r \in Runners, Commit(r)
  PROVE  Book!AwardBatch
<1> USE DEF Inv, RunInv
<1> DEFINE new == txOffers[r]
           n == Len(offers)
<1>1. offers' = offers \o new /\ offers \in Seq(Offer) /\ new \in Seq(Offer)
  BY DEF Commit, TypeOK
<1> HIDE DEF new
<1>2. /\ offers' \in Seq(Offer)
      /\ n \in Nat /\ Len(new) \in Nat
      /\ Len(offers') = n + Len(new)
      /\ DOMAIN offers = 1..n /\ DOMAIN new = 1..Len(new) /\ DOMAIN offers' = 1..(n + Len(new))
      /\ \A i \in 1..(n + Len(new)) : offers'[i] = IF i <= n THEN offers[i] ELSE new[i - n]
  BY <1>1, ConcatProperties, LenProperties
<1>3. Book!InBatch = {i \in 1..(n + Len(new)) : i > n}
  BY <1>2 DEF Book!InBatch
<1> HIDE DEF n
<1>4. \A i \in Book!InBatch : i - n \in DOMAIN new /\ offers'[i] = new[i - n]
  BY <1>2, <1>3
<1>5. \A k \in DOMAIN new : /\ k + n \in Book!InBatch
                            /\ offers'[k + n] = new[k]
  <2>1. ASSUME NEW k \in DOMAIN new
        PROVE  k + n \in Book!InBatch /\ (k + n) - n = k
    BY <1>2, <1>3
  <2> QED
    BY <1>4, <2>1
<1>6. \A k \in DOMAIN new : new[k].shipment \in Shipments
  <2>1. \A k \in DOMAIN new : new[k] \in Offer
    BY <1>1, <1>2, ElementOfSeq
  <2> QED
    BY <2>1 DEF Offer
<1>7. \A i \in Book!InBatch : Book!Unoffered(offers'[i].shipment)
  <2>1. \A k \in DOMAIN new : /\ shipment[new[k].shipment].status = "SUBMITTED"
                              /\ OffersOf(offers, new[k].shipment) = {}
    BY DEF NewOffersAreFirst, new
  <2> QED
    BY <1>4, <1>6, <2>1 DEF Book!Unoffered, Book!OffersOf, OffersOf
<1>8. ASSUME NEW i \in Book!InBatch, NEW j \in Book!InBatch,
             ~ offers'[i].administrative, ~ offers'[j].administrative,
             offers'[i].shipment = offers'[j].shipment
      PROVE  i = j
  <2>1. i - n \in RealOffersOf(new, offers'[i].shipment) /\ j - n \in RealOffersOf(new, offers'[i].shipment)
    BY <1>4, <1>8 DEF RealOffersOf, OffersOf
  <2>2. offers'[i].shipment \in Shipments
    BY <1>4, <1>6
  <2>3. i - n = j - n
    BY <2>1, <2>2 DEF OneRealOfferInRun, new
  <2> QED
    BY <1>2, <1>3, <2>3
<1>9. \A s \in Shipments :
        s \in txAwarded[r] <=>
          \E i \in Book!InBatch : offers'[i].shipment = s /\ ~ offers'[i].administrative
  <2>1. \A s \in Shipments : s \in txAwarded[r] <=> RealOffersOf(new, s) # {}
    BY DEF AwardedInRun, new
  <2>2. ASSUME NEW s \in Shipments
        PROVE  RealOffersOf(new, s) # {} <=>
                 \E i \in Book!InBatch : offers'[i].shipment = s /\ ~ offers'[i].administrative
    <3>1. ASSUME NEW k \in RealOffersOf(new, s)
          PROVE  \E i \in Book!InBatch : offers'[i].shipment = s /\ ~ offers'[i].administrative
      BY <1>5, <3>1 DEF RealOffersOf, OffersOf
    <3>2. ASSUME NEW i \in Book!InBatch, offers'[i].shipment = s, ~ offers'[i].administrative
          PROVE  i - n \in RealOffersOf(new, s)
      BY <1>4, <3>2 DEF RealOffersOf, OffersOf
    <3> QED
      BY <3>1, <3>2
  <2> QED
    BY <2>1, <2>2
<1>10. [s \in Shipments |-> shipment'[s].status] =
         [s \in Shipments |->
            IF \E i \in Book!InBatch : offers'[i].shipment = s /\ ~ offers'[i].administrative
            THEN "AWARDED" ELSE shipment[s].status]
  <2>1. ASSUME NEW s \in Shipments
        PROVE  shipment'[s].status = IF s \in txAwarded[r] THEN "AWARDED" ELSE shipment[s].status
    BY DEF Commit, TypeOK
  <2> QED
    BY <1>9, <2>1
<1>11. \A s \in Shipments : [u \in Shipments |-> shipment[u].status][s] = shipment[s].status
  OBVIOUS
<1>12. offers' \in Seq(Book!Offer)
  BY <1>2 DEF Book!Offer, Offer
<1> QED
  BY <1>2, <1>7, <1>8, <1>10, <1>11, <1>12 DEF Book!AwardBatch, n

LEMMA BookStep ==
  ASSUME Inv, [Next]_vars
  PROVE  [Book!BookNext]_(Book!bookVars)
<1> DEFINE Same == UNCHANGED offers /\ \A s \in Shipments : shipment'[s].status = shipment[s].status
<1>1. ASSUME Same
      PROVE  UNCHANGED Book!bookVars
  BY <1>1 DEF Book!bookVars
<1>2. ASSUME NEW s \in Shipments, SubmitMove(s)
      PROVE  Book!Submit(s)
  <2>1. shipment[s].status = "DRAFT" /\ UNCHANGED offers
    BY <1>2 DEF SubmitMove
  <2>2. \A u \in Shipments :
          shipment'[u].status = IF u = s THEN "SUBMITTED" ELSE shipment[u].status
    BY <1>2 DEF SubmitMove, Inv, TypeOK
  <2>3. [u \in Shipments |-> shipment'[u].status] =
          [[u \in Shipments |-> shipment[u].status] EXCEPT ![s] = "SUBMITTED"]
    BY <2>2
  <2> QED
    BY <2>1, <2>3 DEF Book!Submit
<1>3. ASSUME NEW s \in Shipments, PatchShipment(s)
      PROVE  Same
  <2>1. TypeOK
    BY DEF Inv
  <2> QED
    BY <1>3, <2>1, PatchKeepsStatus DEF PatchShipment
<1>4. ASSUME NEW p \in Volatile, ChangeEnrolment(p)
      PROVE  Same
  BY <1>4 DEF ChangeEnrolment
<1>5. ASSUME NEW r \in Runners, RunStep(r), ~ Commit(r)
      PROVE  Same
  BY <1>5 DEF RunStep, AcquireLock, AssignBands, ListShipments, BeginAttempt, GiveUp,
     OfferAdministrative, OfferForReal, tables
<1>6. ASSUME NEW r \in Runners, StartRun(r) \/ Rollback(r)
      PROVE  Same
  BY <1>6 DEF StartRun, Rollback, tables
<1>7. ASSUME UNCHANGED vars
      PROVE  Same
  BY <1>7 DEF vars, tables
<1> HIDE DEF Same
<1> QED
  BY <1>1, <1>2, <1>3, <1>4, <1>5, <1>6, <1>7, CommitIsBatch DEF Next, Book!BookNext

(* Nothing of a run is visible before its commit, and then all of it: the  *)
(* batches of the offer book.                                              *)
THEOREM AwardQueueKeepsTheBook == Spec => KeepsTheBook
<1>1. Init => Book!BookInit
  BY BookInitially
<1>2. Inv /\ [Next]_vars => [Book!BookNext]_(Book!bookVars)
  BY BookStep
<1> QED
  BY <1>1, <1>2, Invariance, PTL DEF Spec, KeepsTheBook, Book!BookSpec
-----------------------------------------------------------------------------
(* The bands of a group.                                                   *)

(* The TSPPs of a group that are banded once every TSP is enrolled.        *)
Market(g) == {t \in TSPPs : GroupOf[t] = g /\ BVS[t] > mps}

(* A group is banded as a whole, the better scores in the better bands.    *)
BandsInOrder(p) ==
  \A t \in TSPPs :
    p[t].band # 0 =>
      /\ BVS[t] > mps
      /\ \A u \in Market(GroupOf[t]) : /\ p[u].band # 0
                                       /\ BVS[t] > BVS[u] => p[t].band <= p[u].band

BandsFilled(p) ==
  \A g \in Groups :
    (\E t \in Market(g) : p[t].band # 0) =>
      \A b \in qualityBands :
        Cardinality({t \in Market(g) : p[t].band = b}) = getTSPsPerBand(Cardinality(Market(g)))[b]

Arranged(p) == BandsInOrder(p) /\ BandsFilled(p)

Arrangement ==
  /\ enrolled = TSPs
  /\ Arranged(perf)
  /\ \A r \in Runners : Arranged(txPerf[r])
-----------------------------------------------------------------------------
(* Offers go round.                                                        *)

(* Enrolment does not change, every band gets one offer a round, no two    *)
(* scores of a group are the same and no two groups of a list share a day. *)
SteadyMarket ==
  /\ Volatile = {}
  /\ \A b \in qualityBands : OffersPerQualityBand[b] = 1
  /\ \A t, u \in TSPPs : GroupOf[t] = GroupOf[u] /\ BVS[t] = BVS[u] => t = u
  /\ \A t, u \in TSPPs :
       GroupOf[t].tdl = GroupOf[u].tdl /\ GroupOf[t].cycle \cap GroupOf[u].cycle # {} =>
         GroupOf[t] = GroupOf[u]

(* A better score has as many offers or one more.                          *)
OffersInOrder(p) ==
  \A t \in TSPPs, u \in TSPPs :
    GroupOf[t] = GroupOf[u] /\ BVS[t] > BVS[u] /\ BVS[u] > mps =>
      p[t].offerCount \in {p[u].offerCount, p[u].offerCount + 1}

(* The best score among the TSPPs of the group with the fewest offers.     *)
HasTurn(p, t) ==
  /\ p[t].band # 0
  /\ \A u \in Market(GroupOf[t]) :
       \/ p[t].offerCount < p[u].offerCount
       \/ p[t].offerCount = p[u].offerCount /\ BVS[t] >= BVS[u]

(* The TSPPs from the first one down to the next one, from the best score  *)
(* on again after the worst.                                               *)
Round(a) ==
  IF a.again /\ a.next = a.first THEN Market(GroupOf[a.next])
  ELSE {t \in Market(GroupOf[a.next]) :
          IF BVS[a.first] >= BVS[a.next]
          THEN BVS[a.first] >= BVS[t] /\ BVS[t] > BVS[a.next]
          ELSE BVS[a.first] >= BVS[t] \/ BVS[t] > BVS[a.next]}

Tried(book, s) == {book[i].tspp : i \in OffersOf(book, s)}

(* An attempt has tried one round so far, and the next one has its turn.   *)
InRound(a, p, book, day) ==
  /\ a.first \in TSPPs /\ GroupOf[a.first] = GroupOf[a.next] /\ BVS[a.first] > mps
  /\ a.again \/ a.next = a.first
  /\ GroupOf[a.next].tdl = TdlOf[a.shipment] /\ day \in GroupOf[a.next].cycle
  /\ HasTurn(p, a.next)
  /\ Tried(book, a.shipment) = Round(a)

NoRepeatIn(book) ==
  \A i, j \in DOMAIN book :
    book[i].shipment = book[j].shipment /\ book[i].tspp = book[j].tspp => i = j

(* Only the shipment that is being offered has offers of the run, of those *)
(* still on its list.                                                      *)
RoundsOf(r) ==
  /\ pc[r] = "offering" =>
       InRound(attempt[r], txPerf[r], txOffers[r], listed[r][attempt[r].shipment].requestedPickup)
  /\ \A s \in DOMAIN listed[r] :
       pc[r] # "offering" \/ s # attempt[r].shipment => OffersOf(txOffers[r], s) = {}
  /\ NoRepeatIn(txOffers[r])
  /\ OffersInOrder(txPerf[r])

GoRound ==
  /\ Arrangement
  /\ OffersInOrder(perf)
  /\ NoRepeatIn(offers)
  /\ \A r \in Runners : RoundsOf(r)
-----------------------------------------------------------------------------
(* The bands.                                                              *)

(* The loops give the ranks of a band, and only them, its number.          *)
LEMMA BandOfRankIs ==
  ASSUME NEW count \in Nat, NEW rank \in 1..count, NEW b \in qualityBands
  PROVE  BandOfRank(count, rank) = b
           <=> FilledThrough(count, b - 1) < rank /\ rank <= FilledThrough(count, b)
<1> DEFINE F(c) == FilledThrough(count, c)
           In(c) == F(c - 1) < rank /\ rank <= F(c)
<1>1. F(0) \in Int /\ F(1) \in Int /\ F(2) \in Int /\ F(3) \in Int /\ F(4) \in Int
  BY DivModFour DEF FilledThrough, numQualBands
<1>2. F(0) <= F(1) /\ F(1) <= F(2) /\ F(2) <= F(3) /\ F(3) <= F(4)
  <2>1. \A c \in 1..4 : getTSPsPerBand(count)[c] \in Nat
    BY DivModFour DEF getTSPsPerBand, qualityBands, numQualBands
  <2>2. \A c \in 1..4 : F(c) = F(c - 1) + getTSPsPerBand(count)[c]
    BY LoopsFillTheBands DEF qualityBands, numQualBands
  <2> HIDE DEF F
  <2>3. /\ F(1) = F(0) + getTSPsPerBand(count)[1] /\ F(2) = F(1) + getTSPsPerBand(count)[2]
        /\ F(3) = F(2) + getTSPsPerBand(count)[3] /\ F(4) = F(3) + getTSPsPerBand(count)[4]
    <3>1. 1 - 1 = 0 /\ 2 - 1 = 1 /\ 3 - 1 = 2 /\ 4 - 1 = 3
      OBVIOUS
    <3>2. 1 \in 1..4 /\ 2 \in 1..4 /\ 3 \in 1..4 /\ 4 \in 1..4
      OBVIOUS
    <3> QED
      BY <2>2, <3>1, <3>2, Zenon
  <2>4. /\ getTSPsPerBand(count)[1] \in Nat /\ getTSPsPerBand(count)[2] \in Nat
        /\ getTSPsPerBand(count)[3] \in Nat /\ getTSPsPerBand(count)[4] \in Nat
    BY <2>1
  <2> QED
    BY <1>1, <2>3, <2>4
<1>3. \E c \in qualityBands : In(c)
  <2>1. F(0) = 0 /\ F(4) = count
    BY LoopsFillTheBands DEF numQualBands
  <2> HIDE DEF F
  <2> QED
    BY <1>1, <2>1 DEF qualityBands, numQualBands
<1>4. \A c, d \in qualityBands : In(c) /\ In(d) => c = d
  <2> HIDE DEF F
  <2> QED
    BY <1>1, <1>2 DEF qualityBands, numQualBands
<1>5. BandOfRank(count, rank) = CHOOSE c \in qualityBands : In(c)
  BY DEF BandOfRank
<1> HIDE DEF In
<1>6. In(BandOfRank(count, rank)) /\ BandOfRank(count, rank) \in qualityBands
  BY <1>3, <1>5
<1>7. BandOfRank(count, rank) = b <=> In(b)
  BY <1>4, <1>6
<1> QED
  BY <1>7 DEF In

(* Better ranks are in better bands.                                       *)
LEMMA BandsFollowRanks ==
  ASSUME NEW count \in Nat, NEW i \in 1..count, NEW j \in 1..count, i < j
  PROVE  BandOfRank(count, i) <= BandOfRank(count, j)
<1> DEFINE F(c) == FilledThrough(count, c)
           a == BandOfRank(count, i)
           b == BandOfRank(count, j)
<1>1. a \in 1..4 /\ b \in 1..4
  BY EveryRankHasABand DEF qualityBands, numQualBands
<1>2. F(a - 1) < i /\ i <= F(a) /\ F(b - 1) < j /\ j <= F(b)
  BY <1>1, BandOfRankIs DEF qualityBands, numQualBands
<1>3. ASSUME b < a PROVE FALSE
  <2>1. b <= a - 1 /\ a - 1 \in 1..4
    BY <1>1, <1>3
  <2>2. \A c, d \in 0..4 : c <= d => F(c) <= F(d)
    <3> SUFFICES ASSUME NEW c \in 0..4, NEW d \in 0..4, c <= d
                 PROVE  F(c) <= F(d)
      OBVIOUS
    <3>1. PICK q \in Nat : q = count \div 4
      BY DivModFour
    <3>2. PICK r \in 0..3 : r = count % 4
      BY DivModFour
    <3>3. F(c) = c * q + (IF c <= r THEN c ELSE r) /\ F(d) = d * q + (IF d <= r THEN d ELSE r)
      BY <3>1, <3>2 DEF FilledThrough, numQualBands
    <3>4. (c = 0 \/ c = 1 \/ c = 2 \/ c = 3 \/ c = 4) /\ (d = 0 \/ d = 1 \/ d = 2 \/ d = 3 \/ d = 4)
      OBVIOUS
    <3> HIDE DEF F
    <3> QED
      BY <3>3, <3>4
  <2>3. F(b) <= F(a - 1)
    <3> HIDE DEF F, a, b
    <3> QED
      BY <1>1, <2>1, <2>2
  <2>4. F(b) \in Int /\ F(a - 1) \in Int
    <3>1. \A c \in 0..4 : F(c) \in Int
      BY DivModFour DEF FilledThrough, numQualBands
    <3> HIDE DEF F, a, b
    <3> QED
      BY <1>1, <2>1, <3>1
  <2> HIDE DEF F, a, b
  <2> QED
    BY <1>2, <2>3, <2>4
<1> HIDE DEF a, b
<1>4. a <= b
  BY <1>1, <1>3
<1> QED
  BY <1>4 DEF a, b

(* However the loops order ties, a band gets as many TSPPs as it should.   *)
LEMMA RanksFillTheBands ==
  ASSUME NEW S \in SUBSET TSPPs, NEW rank \in Rankings(S), NEW b \in qualityBands
  PROVE  Cardinality({t \in S : BandOfRank(Cardinality(S), rank[t]) = b})
           = getTSPsPerBand(Cardinality(S))[b]
<1> DEFINE n == Cardinality(S)
           P == {t \in S : BandOfRank(n, rank[t]) = b}
           lo == FilledThrough(n, b - 1)
           hi == FilledThrough(n, b)
           T == (lo + 1)..hi
           f == [t \in P |-> rank[t]]
<1>1. IsFiniteSet(S) /\ n \in Nat
  BY AwardQueueAssumption, FS_Subset, FS_CardinalityType DEF AwardQueueAssumption
<1>2. /\ rank \in [S -> 1..n]
      /\ \A t, u \in S : t # u => rank[t] # rank[u]
  BY DEF Rankings
<1> HIDE DEF n
<1>3. /\ lo \in Nat /\ hi \in Nat
      /\ lo <= hi /\ hi <= n
      /\ hi = lo + getTSPsPerBand(n)[b]
      /\ getTSPsPerBand(n)[b] \in Nat
  <2>1. PICK q \in Nat : q = n \div 4
    BY <1>1, DivModFour
  <2>2. PICK r \in 0..3 : r = n % 4
    BY <1>1, DivModFour
  <2>3. n = 4 * q + r
    BY <1>1, <2>1, <2>2, DivModFour
  <2>4. b = 1 \/ b = 2 \/ b = 3 \/ b = 4
    BY DEF qualityBands, numQualBands
  <2>5. /\ hi = b * q + (IF b <= r THEN b ELSE r)
        /\ lo = (b - 1) * q + (IF b - 1 <= r THEN b - 1 ELSE r)
    BY <2>1, <2>2 DEF FilledThrough, numQualBands
  <2>6. hi = lo + getTSPsPerBand(n)[b]
    BY <1>1, LoopsFillTheBands
  <2>7. getTSPsPerBand(n)[b] = q + (IF b <= r THEN 1 ELSE 0)
    BY <2>1, <2>2 DEF getTSPsPerBand, numQualBands
  <2>8. lo \in Nat /\ hi \in Nat /\ lo <= hi /\ hi <= n /\ getTSPsPerBand(n)[b] \in Nat
    <3> HIDE DEF lo, hi
    <3>1. CASE b = 1
      BY <2>3, <2>5, <2>7, <3>1
    <3>2. CASE b = 2
      BY <2>3, <2>5, <2>7, <3>2
    <3>3. CASE b = 3
      BY <2>3, <2>5, <2>7, <3>3
    <3>4. CASE b = 4
      BY <2>3, <2>5, <2>7, <3>4
    <3> QED
      BY <2>4, <3>1, <3>2, <3>3, <3>4
  <2> QED
    BY <2>6, <2>8
<1>4. rank \in Surjection(S, 1..n)
  <2>1. rank \in Injection(S, 1..n)
    BY <1>2 DEF Injection, IsInjective
  <2>2. IsFiniteSet(1..n) /\ Cardinality(1..n) = n
    <3>1. /\ IsFiniteSet(1..n)
          /\ Cardinality(1..n) = IF 1 > n THEN 0 ELSE n - 1 + 1
      BY <1>1, FS_Interval
    <3> QED
      BY <1>1, <3>1
  <2> QED
    BY <1>1, <2>1, <2>2, FS_Injection DEF n
<1>5. \A t \in S : t \in P <=> rank[t] \in T
  <2> SUFFICES ASSUME NEW t \in S PROVE BandOfRank(n, rank[t]) = b <=> rank[t] \in T
    OBVIOUS
  <2>1. BandOfRank(n, rank[t]) = b <=> lo < rank[t] /\ rank[t] <= hi
    BY <1>1, <1>2, BandOfRankIs
  <2>2. rank[t] \in Int
    BY <1>2
  <2> HIDE DEF lo, hi
  <2> QED
    BY <1>3, <2>1, <2>2
<1>6. f \in Bijection(P, T)
  <2>1. f \in [P -> T]
    BY <1>5
  <2>2. \A t, u \in P : f[t] = f[u] => t = u
    BY <1>2
  <2>3. \A k \in T : \E t \in P : f[t] = k
    <3> SUFFICES ASSUME NEW k \in T PROVE \E t \in P : f[t] = k
      OBVIOUS
    <3>1. k \in 1..n
      BY <1>1, <1>3
    <3>2. PICK t \in S : rank[t] = k
      BY <1>4, <3>1 DEF Surjection
    <3> QED
      BY <1>5, <3>2
  <2> HIDE DEF f, P, T
  <2> QED
    BY <2>1, <2>2, <2>3 DEF Bijection, Injection, Surjection, IsInjective
<1>7. Cardinality(P) = Cardinality(T)
  <2>1. IsFiniteSet(P)
    BY <1>1, FS_Subset
  <2> HIDE DEF P, T, f
  <2> QED
    BY <1>6, <2>1, FS_Bijection DEF ExistsBijection
<1>8. Cardinality(T) = hi - lo
  <2> HIDE DEF lo, hi
  <2>1. Cardinality(T) = IF lo + 1 > hi THEN 0 ELSE hi - (lo + 1) + 1
    <3>1. lo + 1 \in Int /\ hi \in Int
      BY <1>3
    <3> QED
      BY <3>1, FS_Interval, Zenon
  <2> QED
    BY <1>3, <2>1
<1>9. Cardinality(P) = getTSPsPerBand(n)[b]
  <2> HIDE DEF P, T, lo, hi
  <2> QED
    BY <1>3, <1>7, <1>8
<1> QED
  BY <1>9 DEF n

LEMMA SameBands ==
  ASSUME NEW p, NEW q, Arranged(p), \A t \in TSPPs : q[t].band = p[t].band
  PROVE  Arranged(q)
<1>1. BandsInOrder(q)
  BY DEF Arranged, BandsInOrder, Market
<1>2. BandsFilled(q)
  <2>1. \A g, b : {t \in Market(g) : q[t].band = b} = {t \in Market(g) : p[t].band = b}
    BY DEF Market
  <2>2. \A t, g : t \in Market(g) => q[t].band = p[t].band
    BY DEF Market
  <2> QED
    BY <2>1, <2>2 DEF Arranged, BandsFilled
<1> QED
  BY <1>1, <1>2 DEF Arranged

LEMMA NoBands ==
  ASSUME NEW p, \A t \in TSPPs : p[t].band = 0
  PROVE  Arranged(p)
BY DEF Arranged, BandsInOrder, BandsFilled, Market

(* A group is banded as a whole.                                           *)
LEMMA AssignedBands ==
  ASSUME TypeOK, enrolled = TSPs, NEW r \in Runners, NEW g \in Groups, AssignBands(r, g),
         Arranged(txPerf[r])
  PROVE  /\ Arranged(txPerf'[r])
         /\ \A t \in TSPPs : txPerf'[r][t].offerCount = txPerf[r][t].offerCount
<1> DEFINE M == Market(g)
           n == Cardinality(M)
           p == txPerf[r]
           q == txPerf'[r]
<1>1. Bandable(g) = M
  BY AwardQueueAssumption DEF Bandable, Market, AwardQueueAssumption
<1>2. PICK rank \in Rankings(M) :
        txPerf' = [txPerf EXCEPT ![r] =
          [t \in TSPPs |->
             IF t \in M THEN [txPerf[r][t] EXCEPT !.band = BandOfRank(n, rank[t])]
             ELSE txPerf[r][t]]]
  <2>1. PICK rank \in Rankings(Bandable(g)) :
          txPerf' = [txPerf EXCEPT ![r] =
            [t \in TSPPs |->
               IF t \in Bandable(g)
               THEN [txPerf[r][t] EXCEPT !.band = BandOfRank(Cardinality(Bandable(g)), rank[t])]
               ELSE txPerf[r][t]]]
    BY DEF AssignBands
  <2> HIDE DEF M
  <2> QED
    BY <1>1, <2>1
<1>3. /\ M \in SUBSET TSPPs /\ n \in Nat
      /\ rank \in [M -> 1..n]
      /\ \A t, u \in M : t # u /\ BVS[t] > BVS[u] => rank[t] < rank[u]
      /\ \A t \in M : GroupOf[t] = g /\ BVS[t] > mps
  <2>1. n \in Nat
    BY <1>1, BandableIsFinite
  <2> QED
    BY <1>2, <2>1 DEF Rankings, Market
<1>4. \A t \in TSPPs : p[t] \in Perf
  BY DEF TypeOK
<1>5. \A t \in TSPPs : q[t] = IF t \in M THEN [p[t] EXCEPT !.band = BandOfRank(n, rank[t])] ELSE p[t]
  BY <1>2 DEF TypeOK
<1> HIDE DEF q, p, n
<1>6. \A t \in TSPPs : /\ q[t].offerCount = p[t].offerCount
                       /\ t \in M => q[t].band = BandOfRank(n, rank[t])
                       /\ t \notin M => q[t].band = p[t].band
  BY <1>4, <1>5 DEF Perf
<1>7. \A t \in M : BandOfRank(n, rank[t]) \in qualityBands
  BY <1>3, EveryRankHasABand
<1> HIDE DEF M
<1>8. BandsInOrder(q)
  <2> SUFFICES ASSUME NEW t \in TSPPs, q[t].band # 0
               PROVE  /\ BVS[t] > mps
                      /\ \A u \in Market(GroupOf[t]) : /\ q[u].band # 0
                                                       /\ BVS[t] > BVS[u] => q[t].band <= q[u].band
    BY DEF BandsInOrder
  <2>1. CASE t \in M
    <3>1. BVS[t] > mps /\ GroupOf[t] = g
      BY <1>3, <2>1
    <3>2. ASSUME NEW u \in M
          PROVE  q[u].band # 0 /\ (BVS[t] > BVS[u] => q[t].band <= q[u].band)
      <4>1. q[u].band = BandOfRank(n, rank[u]) /\ q[t].band = BandOfRank(n, rank[t])
        BY <1>3, <1>6, <2>1
      <4>2. q[u].band # 0
        BY <1>7, <4>1 DEF qualityBands, numQualBands
      <4>3. ASSUME BVS[t] > BVS[u] PROVE q[t].band <= q[u].band
        <5>1. t # u
          <6>1. BVS[u] \in Nat
            BY <1>3, AwardQueueAssumption DEF AwardQueueAssumption
          <6> QED
            BY <4>3, <6>1
        <5>2. rank[t] < rank[u] /\ rank[t] \in 1..n /\ rank[u] \in 1..n
          BY <1>3, <2>1, <4>3, <5>1
        <5> QED
          BY <1>3, <4>1, <5>2, BandsFollowRanks
      <4> QED
        BY <4>2, <4>3
    <3> QED
      BY <3>1, <3>2 DEF M
  <2>2. CASE t \notin M
    <3>1. q[t].band = p[t].band /\ p[t].band # 0
      BY <1>6, <2>2
    <3>2. /\ BVS[t] > mps
          /\ \A u \in Market(GroupOf[t]) : /\ p[u].band # 0
                                           /\ BVS[t] > BVS[u] => p[t].band <= p[u].band
      BY <3>1 DEF Arranged, BandsInOrder, p
    <3>3. GroupOf[t] # g
      BY <2>2, <3>2 DEF M, Market
    <3>4. \A u \in Market(GroupOf[t]) : u \in TSPPs /\ u \notin M
      BY <3>3 DEF M, Market
    <3> QED
      BY <1>6, <3>1, <3>2, <3>4
  <2> QED
    BY <2>1, <2>2
<1>9. BandsFilled(q)
  <2> SUFFICES ASSUME NEW h \in Groups, NEW v \in Market(h), q[v].band # 0, NEW b \in qualityBands
               PROVE  Cardinality({t \in Market(h) : q[t].band = b})
                        = getTSPsPerBand(Cardinality(Market(h)))[b]
    BY DEF BandsFilled
  <2>1. CASE h = g
    <3>1. {t \in Market(h) : q[t].band = b} = {t \in M : BandOfRank(n, rank[t]) = b}
      BY <1>3, <1>6, <2>1 DEF M
    <3>2. Cardinality({t \in M : BandOfRank(n, rank[t]) = b}) = getTSPsPerBand(n)[b]
      BY <1>2, <1>3, RanksFillTheBands DEF n
    <3> QED
      BY <2>1, <3>1, <3>2 DEF M, n
  <2>2. CASE h # g
    <3>1. \A t \in Market(h) : t \in TSPPs /\ q[t].band = p[t].band
      BY <1>6, <2>2 DEF M, Market
    <3>2. {t \in Market(h) : q[t].band = b} = {t \in Market(h) : p[t].band = b}
      BY <3>1
    <3>3. p[v].band # 0
      BY <3>1
    <3> QED
      BY <3>2, <3>3 DEF Arranged, BandsFilled, p
  <2> QED
    BY <2>1, <2>2
<1> QED
  BY <1>6, <1>8, <1>9 DEF Arranged, p, q

LEMMA ArrangementInit ==
  ASSUME Volatile = {}, Init
  PROVE  Arrangement
<1>1. enrolled = TSPs
  BY DEF Init
<1>2. \A t \in TSPPs : perf[t].band = 0
  BY DEF Init
<1>3. \A r \in Runners : txPerf[r] = perf
  BY DEF Init
<1> QED
  BY <1>1, <1>2, <1>3, NoBands DEF Arrangement

(* Recording an offer leaves the bands alone, and counts one offer.        *)
LEMMA RecordedOffer ==
  ASSUME TypeOK, NEW r \in Runners, NEW administrative, RecordOffer(r, administrative),
         attempt[r].next \in TSPPs
  PROVE  /\ \A t \in TSPPs :
              /\ txPerf'[r][t].band = txPerf[r][t].band
              /\ txPerf'[r][t].offerCount =
                   IF t = attempt[r].next THEN txPerf[r][t].offerCount + 1 ELSE txPerf[r][t].offerCount
         /\ \A q \in Runners \ {r} : txPerf'[q] = txPerf[q] /\ txOffers'[q] = txOffers[q]
         /\ txOffers'[r] = Append(txOffers[r], [shipment |-> attempt[r].shipment,
                                                tspp |-> attempt[r].next,
                                                administrative |-> administrative])
<1>1. txPerf[r] \in [TSPPs -> Perf]
  BY DEF TypeOK
<1>2. \A t \in TSPPs :
        txPerf'[r][t] = IF t = attempt[r].next
                        THEN [txPerf[r][t] EXCEPT !.offerCount = @ + 1] ELSE txPerf[r][t]
  BY <1>1 DEF RecordOffer, TypeOK
<1>3. \A q \in Runners \ {r} : txPerf'[q] = txPerf[q] /\ txOffers'[q] = txOffers[q]
  BY DEF RecordOffer, TypeOK
<1>4. txOffers'[r] = Append(txOffers[r], [shipment |-> attempt[r].shipment,
                                          tspp |-> attempt[r].next,
                                          administrative |-> administrative])
  BY DEF RecordOffer, TypeOK
<1>5. \A t \in TSPPs : txPerf[r][t] \in Perf
  BY <1>1
<1>6. \A t \in TSPPs :
        /\ txPerf'[r][t].band = txPerf[r][t].band
        /\ txPerf'[r][t].offerCount =
             IF t = attempt[r].next THEN txPerf[r][t].offerCount + 1 ELSE txPerf[r][t].offerCount
  BY <1>2, <1>5 DEF Perf
<1> QED
  BY <1>3, <1>4, <1>6

(* The end of a run leaves nothing of it.                                  *)
LEMMA Forgotten ==
  ASSUME TypeOK, NEW r \in Runners, Forget(r)
  PROVE  /\ \A t \in TSPPs : txPerf'[r][t].band = 0 /\ txPerf'[r][t].offerCount = 0
         /\ txOffers'[r] = <<>> /\ listed'[r] = NoListed /\ pc'[r] = "idle"
         /\ \A q \in Runners \ {r} : /\ txPerf'[q] = txPerf[q] /\ txOffers'[q] = txOffers[q]
                                     /\ listed'[q] = listed[q] /\ attempt'[q] = attempt[q]
                                     /\ pc'[q] = pc[q]
BY DEF Forget, TypeOK

LEMMA ArrangementStep ==
  ASSUME Volatile = {}, Inv, Arrangement, [Next]_vars
  PROVE  Arrangement'
<1>1. TypeOK /\ Attempting
  BY DEF Inv
<1>2. enrolled' = enrolled
  BY DEF Next, RunStep, SubmitMove, PatchShipment, StartRun, AcquireLock, AssignBands,
     ListShipments, BeginAttempt, GiveUp, OfferAdministrative, OfferForReal, Commit, Rollback,
     tables, vars
<1>3. ASSUME UNCHANGED <<perf, txPerf>>
      PROVE  Arrangement'
  BY <1>2, <1>3 DEF Arrangement
<1>4. ASSUME NEW s \in Shipments, SubmitMove(s) \/ PatchShipment(s)
      PROVE  Arrangement'
  BY <1>3, <1>4 DEF SubmitMove, PatchShipment, progress
<1>5. ASSUME NEW r \in Runners,
             StartRun(r) \/ ListShipments(r) \/ GiveUp(r) \/ \E s \in Shipments : BeginAttempt(r, s)
      PROVE  Arrangement'
  BY <1>3, <1>5 DEF StartRun, ListShipments, GiveUp, BeginAttempt, progress, tables
<1>6. ASSUME NEW r \in Runners, AcquireLock(r)
      PROVE  Arrangement'
  <2>1. perf' = perf /\ txPerf'[r] = perf /\ \A q \in Runners \ {r} : txPerf'[q] = txPerf[q]
    BY <1>1, <1>6 DEF AcquireLock, tables, TypeOK
  <2>2. \A q \in Runners : txPerf'[q] = perf \/ txPerf'[q] = txPerf[q]
    BY <2>1
  <2> QED
    BY <1>2, <2>1, <2>2 DEF Arrangement
<1>7. ASSUME NEW r \in Runners, NEW g \in Groups, AssignBands(r, g)
      PROVE  Arrangement'
  <2>1. perf' = perf /\ \A q \in Runners \ {r} : txPerf'[q] = txPerf[q]
    BY <1>1, <1>7 DEF AssignBands, tables, TypeOK
  <2>2. Arranged(txPerf'[r])
    BY <1>1, <1>7, AssignedBands DEF Arrangement
  <2>3. \A q \in Runners : Arranged(txPerf'[q])
    BY <2>1, <2>2 DEF Arrangement
  <2> QED
    BY <1>2, <2>1, <2>3 DEF Arrangement
<1>8. ASSUME NEW r \in Runners, NEW administrative, RecordOffer(r, administrative),
             pc[r] = "offering", perf' = perf
      PROVE  Arrangement'
  <2>1. attempt[r].next \in TSPPs
    BY <1>1, <1>8 DEF Attempting
  <2>2. /\ \A t \in TSPPs : txPerf'[r][t].band = txPerf[r][t].band
        /\ \A q \in Runners \ {r} : txPerf'[q] = txPerf[q]
    BY <1>1, <1>8, <2>1, RecordedOffer
  <2>3. Arranged(txPerf'[r])
    BY <2>2, SameBands DEF Arrangement
  <2>4. \A q \in Runners : Arranged(txPerf'[q])
    BY <2>2, <2>3 DEF Arrangement
  <2> QED
    BY <1>2, <1>8, <2>4 DEF Arrangement
<1>9. ASSUME NEW r \in Runners, OfferAdministrative(r) \/ OfferForReal(r)
      PROVE  Arrangement'
  <2>1. pc[r] = "offering" /\ perf' = perf /\ \E administrative \in BOOLEAN : RecordOffer(r, administrative)
    BY <1>9 DEF OfferAdministrative, OfferForReal, tables
  <2> QED
    BY <1>8, <2>1
<1>10. ASSUME NEW r \in Runners, Forget(r), perf' = perf \/ perf' = txPerf[r]
       PROVE  Arrangement'
  <2>1. Arranged(txPerf'[r])
    BY <1>1, <1>10, Forgotten, NoBands
  <2>2. \A q \in Runners : Arranged(txPerf'[q])
    BY <1>1, <1>10, <2>1, Forgotten DEF Arrangement
  <2>3. Arranged(perf')
    BY <1>10 DEF Arrangement
  <2> QED
    BY <1>2, <2>2, <2>3 DEF Arrangement
<1>11. ASSUME NEW r \in Runners, Commit(r) \/ Rollback(r)
       PROVE  Arrangement'
  BY <1>10, <1>11 DEF Commit, Rollback, tables
<1>12. CASE UNCHANGED vars
  BY <1>3, <1>12 DEF vars, tables, progress
<1> QED
  BY <1>4, <1>5, <1>6, <1>7, <1>9, <1>11, <1>12 DEF Next, RunStep

LEMMA ArrangementHolds ==
  ASSUME Volatile = {}
  PROVE  Spec => []Arrangement
<1>1. Init => Arrangement
  BY ArrangementInit
<1>2. Inv /\ Arrangement /\ [Next]_vars => Arrangement'
  BY ArrangementStep
<1> QED
  BY <1>1, <1>2, Invariance, PTL DEF Spec

(* The better the score of a TSPP, the better its band, however often a    *)
(* group is banded again and whatever the order of equal scores.           *)
THEOREM BetterScoresBetterBands ==
  ASSUME Volatile = {}
  PROVE  Spec => []BandsFollowScore
<1>1. Arrangement => BandsFollowScore
  BY DEF Arrangement, Arranged, BandsInOrder, BandsFollowScore, Peers, Market
<1> QED
  BY <1>1, ArrangementHolds, PTL

LEMMA NobodyPerBand ==
  ASSUME NEW b \in qualityBands, NEW count, count = 0
  PROVE  getTSPsPerBand(count)[b] = 0
<1>1. PICK q \in Nat : q = count \div 4
  BY DivModFour
<1>2. PICK m \in 0..3 : m = count % 4
  BY DivModFour
<1>3. q = 0 /\ m = 0
  BY <1>1, <1>2, DivModFour
<1>4. getTSPsPerBand(count)[b] = q + (IF b <= m THEN 1 ELSE 0)
  BY <1>1, <1>2 DEF getTSPsPerBand, numQualBands
<1>5. b \in 1..4
  BY DEF qualityBands, numQualBands
<1> QED
  BY <1>3, <1>4, <1>5

(* The four bands of a group have the sizes getTSPsPerBand gives them, or  *)
(* the group has no bands yet.                                             *)
THEOREM BandsHaveTheirSizes ==
  ASSUME Volatile = {}
  PROVE  Spec => []BandsAreFilled
<1>1. ASSUME Arrangement PROVE BandsAreFilled
  <2> SUFFICES ASSUME NEW g \in Groups, NEW b \in qualityBands
               PROVE  LET banded == {t \in TSPPs : GroupOf[t] = g /\ perf[t].band # 0}
                      IN  Cardinality({t \in banded : perf[t].band = b})
                            = getTSPsPerBand(Cardinality(banded))[b]
    BY DEF BandsAreFilled
  <2> DEFINE banded == {t \in TSPPs : GroupOf[t] = g /\ perf[t].band # 0}
  <2>1. BandsInOrder(perf) /\ BandsFilled(perf)
    BY <1>1 DEF Arrangement, Arranged
  <2>2. CASE banded = {}
    <3>1. Cardinality({t \in banded : perf[t].band = b}) = 0 /\ Cardinality(banded) = 0
      BY <2>2, FS_EmptySet
    <3> QED
      BY <3>1, NobodyPerBand
  <2>3. CASE banded # {}
    <3>1. banded = Market(g)
      BY <2>1, <2>3 DEF BandsInOrder, Market
    <3>2. \E t \in Market(g) : perf[t].band # 0
      BY <2>3, <3>1
    <3>3. Cardinality({t \in Market(g) : perf[t].band = b}) = getTSPsPerBand(Cardinality(Market(g)))[b]
      BY <2>1, <3>2 DEF BandsFilled
    <3> QED
      BY <3>1, <3>3
  <2> QED
    BY <2>2, <2>3
<1> QED
  BY <1>1, ArrangementHolds, PTL
-----------------------------------------------------------------------------
(* The next offer goes to the TSPP that has its turn.                      *)

(* ORDER BY offer_count ASC, best_value_score DESC has a first row.        *)
LEMMA FirstRow ==
  ASSUME NEW p \in [TSPPs -> Perf], NEW T \in SUBSET TSPPs, T # {}
  PROVE  \E t \in T : \A u \in T :
           \/ p[t].offerCount < p[u].offerCount
           \/ p[t].offerCount = p[u].offerCount /\ BVS[t] >= BVS[u]
<1> DEFINE Sooner(u, t) == \/ p[u].offerCount < p[t].offerCount
                           \/ p[u].offerCount = p[t].offerCount /\ BVS[u] > BVS[t]
           Ahead(t) == {u \in T : Sooner(u, t)}
<1>1. \A t \in T : p[t].offerCount \in Nat /\ BVS[t] \in Nat
  BY AwardQueueAssumption DEF AwardQueueAssumption, Perf
<1>2. \A t, u, v \in T : Sooner(u, t) /\ Sooner(v, u) => Sooner(v, t)
  BY <1>1
<1>3. \A t \in T : ~ Sooner(t, t)
  BY <1>1
<1>4. IsFiniteSet(T)
  BY AwardQueueAssumption, FS_Subset DEF AwardQueueAssumption
<1>5. PICK t \in T : \A u \in T : ~ (<<Ahead(u), Ahead(t)>> \in StrictSubsetOrdering(T))
  <2> DEFINE A == {Ahead(t) : t \in T}
  <2> HIDE DEF Sooner
  <2>1. A \subseteq FiniteSubsetsOf(T) /\ A # {}
    <3>1. FiniteSubsetsOf(T) = SUBSET T
      BY <1>4, FS_FiniteSubsetsOfFinite
    <3>2. \A t \in T : Ahead(t) \in SUBSET T
      OBVIOUS
    <3> HIDE DEF Ahead
    <3>3. A \subseteq SUBSET T
      BY <3>2
    <3>4. A # {}
      OBVIOUS
    <3> QED
      BY <3>1, <3>3, <3>4
  <2> HIDE DEF Ahead
  <2>2. IsWellFoundedOn(StrictSubsetOrdering(T), FiniteSubsetsOf(T))
    BY FS_StrictSubsetOrderingWellFounded
  <2> HIDE DEF A
  <2>3. PICK a \in A : \A b \in A : ~ (<<b, a>> \in StrictSubsetOrdering(T))
    BY <2>1, <2>2, WFMin
  <2> QED
    BY <2>3 DEF A
<1>6. ASSUME NEW u \in T, Sooner(u, t) PROVE FALSE
  <2>1. Ahead(u) \subseteq Ahead(t) /\ u \in Ahead(t) /\ u \notin Ahead(u)
    <3> HIDE DEF Sooner
    <3> QED
      BY <1>2, <1>3, <1>6
  <2>2. <<Ahead(u), Ahead(t)>> \in StrictSubsetOrdering(T)
    <3>1. Ahead(u) \in SUBSET T /\ Ahead(t) \in SUBSET T
      OBVIOUS
    <3> HIDE DEF Ahead
    <3> QED
      BY <2>1, <3>1 DEF StrictSubsetOrdering
  <2> QED
    BY <1>5, <2>2
<1>7. \A u \in T : ~ Sooner(u, t)
  BY <1>6
<1> QED
  BY <1>1, <1>7

(* The first of the bands.                                                 *)
LEMMA TopBandIsFirst ==
  ASSUME NEW B \in SUBSET qualityBands, B # {}
  PROVE  TopBand(B) \in B /\ \A c \in B : TopBand(B) <= c
<1>1. \E b \in B : \A c \in B : b <= c
  <2>1. CASE 1 \in B
    BY <2>1 DEF qualityBands, numQualBands
  <2>2. CASE 1 \notin B /\ 2 \in B
    BY <2>2 DEF qualityBands, numQualBands
  <2>3. CASE 1 \notin B /\ 2 \notin B /\ 3 \in B
    BY <2>3 DEF qualityBands, numQualBands
  <2>4. CASE 1 \notin B /\ 2 \notin B /\ 3 \notin B
    <3>1. \A c \in B : c = 4
      BY <2>4 DEF qualityBands, numQualBands
    <3>2. PICK c \in B : TRUE
      OBVIOUS
    <3> QED
      BY <3>1, <3>2
  <2> QED
    BY <2>1, <2>2, <2>3, <2>4
<1> QED
  BY <1>1 DEF TopBand

(* The band before one that is not the first.                              *)
LEMMA PreviousIsBefore ==
  ASSUME NEW B \in SUBSET qualityBands, NEW b \in B, NEW c \in B, c < b
  PROVE  /\ Previous(B, b) \in B /\ Previous(B, b) < b
         /\ \A d \in B : d < b => d <= Previous(B, b)
<1> DEFINE L == {d \in B : d < b}
<1>1. \E e \in L : \A d \in L : d <= e
  <2>1. \A d \in L : d \in 1..3
    BY DEF qualityBands, numQualBands
  <2>2. c \in L
    OBVIOUS
  <2> HIDE DEF L
  <2>3. CASE 3 \in L
    BY <2>1, <2>3
  <2>4. CASE 3 \notin L /\ 2 \in L
    BY <2>1, <2>4
  <2>5. CASE 3 \notin L /\ 2 \notin L
    BY <2>1, <2>2, <2>5
  <2> QED
    BY <2>3, <2>4, <2>5
<1>2. \E e \in B : e < b /\ \A d \in B : d < b => d <= e
  BY <1>1
<1> QED
  BY <1>2 DEF Previous

(* When every band gets one offer a round and no band is more than one     *)
(* offer ahead of the bands after it, SelectNextTSPPerformance picks the   *)
(* band with the fewest offers, the first one of those.                    *)
LEMMA SelectsTheFewest ==
  ASSUME \A b \in qualityBands : OffersPerQualityBand[b] = 1,
         NEW B \in SUBSET qualityBands, B # {}, NEW count \in [B -> Nat],
         \A c, d \in B : c < d => count[c] \in {count[d], count[d] + 1}
  PROVE  LET b == SelectNextTSPPerformance(count)
         IN  /\ b \in B
             /\ \A d \in B : count[b] < count[d] \/ (count[b] = count[d] /\ b <= d)
<1> DEFINE top == TopBand(B)
           behind == {b \in B : Behind(count, b)}
           b == SelectNextTSPPerformance(count)
<1>1. DOMAIN count = B
  OBVIOUS
<1>2. top \in B /\ \A c \in B : top <= c
  BY TopBandIsFirst
<1>3. \A c \in B : c \in Int /\ count[c] \in Nat
  BY DEF qualityBands, numQualBands
<1>4. ~ Behind(count, top)
  <2>1. OffersPerQualityBand[top] = 1
    BY <1>2
  <2>2. PICK k \in Nat : k = count[top]
    BY <1>2
  <2>3. k % 1 = 0
    OBVIOUS
  <2> QED
    BY <1>1, <2>1, <2>2, <2>3 DEF Behind
<1>5. ASSUME NEW c \in B, c # top
      PROVE  /\ Previous(B, c) \in B /\ Previous(B, c) < c
             /\ \A d \in B : d < c => d <= Previous(B, c)
             /\ Behind(count, c) <=> count[c] < count[Previous(B, c)]
  <2>1. top < c
    BY <1>2, <1>3, <1>5
  <2>2. /\ Previous(B, c) \in B /\ Previous(B, c) < c
        /\ \A d \in B : d < c => d <= Previous(B, c)
    BY <1>2, <2>1, PreviousIsBefore
  <2>3. OffersPerQualityBand[c] = 1 /\ OffersPerQualityBand[Previous(B, c)] = 1
    BY <2>2
  <2>4. count[c] \in Nat /\ count[Previous(B, c)] \in Nat
    BY <2>2
  <2>5. FewerRounds(count, c, Previous(B, c)) <=> count[c] < count[Previous(B, c)]
    BY <2>3, <2>4 DEF FewerRounds
  <2>6. Behind(count, c) <=> FewerRounds(count, c, Previous(B, c))
    BY <1>1, <1>5 DEF Behind
  <2> QED
    BY <2>2, <2>5, <2>6
<1> HIDE DEF top, behind
<1>6. b = TopBand(IF behind = {} THEN B ELSE behind)
  BY <1>1 DEF SelectNextTSPPerformance, behind
<1>7. CASE behind = {}
  <2>1. b = top
    BY <1>6, <1>7 DEF top
  <2> DEFINE Y == {d \in B : count[d] < count[top]}
  <2>2. ASSUME Y # {} PROVE FALSE
    <3> DEFINE e == TopBand(Y)
    <3>1. Y \in SUBSET qualityBands
      OBVIOUS
    <3> HIDE DEF Y
    <3>2. e \in Y /\ \A d \in Y : e <= d
      BY <2>2, <3>1, TopBandIsFirst
    <3> HIDE DEF e
    <3>3. e \in B /\ e # top /\ count[e] < count[top]
      BY <1>2, <1>3, <3>2 DEF Y
    <3>4. Previous(B, e) \in B /\ Previous(B, e) < e
      BY <1>5, <3>3
    <3>5. Previous(B, e) \notin Y
      BY <1>3, <3>2, <3>3, <3>4
    <3>6. ~ (count[Previous(B, e)] < count[top])
      BY <3>4, <3>5 DEF Y
    <3>7. count[e] < count[Previous(B, e)]
      BY <1>2, <1>3, <3>3, <3>4, <3>6
    <3>8. e \in behind
      BY <1>5, <3>3, <3>7 DEF behind
    <3> QED
      BY <1>7, <3>8
  <2>3. \A d \in B : ~ (count[d] < count[top])
    BY <2>2
  <2> QED
    BY <1>2, <1>3, <2>1, <2>3
<1>8. CASE behind # {}
  <2>1. behind \in SUBSET qualityBands /\ behind \subseteq B
    BY DEF behind
  <2>2. b \in behind
    BY <1>6, <1>8, <2>1, TopBandIsFirst
  <2> HIDE DEF b
  <2>3. b \in B /\ b # top
    BY <1>4, <2>2 DEF behind
  <2>4. PICK f \in B : f < b /\ (\A d \in B : d < b => d <= f) /\ count[b] < count[f]
    <3>1. Behind(count, b)
      BY <2>2 DEF behind
    <3> QED
      BY <1>5, <2>3, <3>1
  <2>5. count[f] = count[b] + 1
    BY <1>3, <2>3, <2>4
  <2>6. ASSUME NEW d \in B
        PROVE  count[b] < count[d] \/ (count[b] = count[d] /\ b <= d)
    <3>1. CASE d = b
      BY <1>3, <2>3, <3>1
    <3>2. CASE b < d
      <4>1. count[f] \in {count[d], count[d] + 1}
        <5>1. f < d
          BY <1>3, <2>3, <2>4, <3>2
        <5> QED
          BY <5>1
      <4>2. count[b] \in {count[d], count[d] + 1}
        BY <2>3, <3>2
      <4> QED
        BY <1>3, <2>3, <2>5, <3>2, <4>1, <4>2
    <3>3. CASE d < b
      <4>1. d = f \/ d < f
        BY <1>3, <2>4, <3>3
      <4>2. d < f => count[d] \in {count[f], count[f] + 1}
        OBVIOUS
      <4> QED
        BY <1>3, <2>3, <2>5, <4>1, <4>2
    <3> QED
      BY <1>3, <2>3, <3>1, <3>2, <3>3
  <2> QED
    BY <2>3, <2>6 DEF b
<1> QED
  BY <1>7, <1>8

(* Whoever is eligible is of one group, and the whole group is eligible.   *)
LEMMA EligibleIsMarket ==
  ASSUME SteadyMarket, enrolled = TSPs, NEW p, BandsInOrder(p), NEW s, NEW day,
         NEW t \in Eligible(p, s, day)
  PROVE  Eligible(p, s, day) = Market(GroupOf[t])
<1>1. t \in TSPPs /\ GroupOf[t].tdl = TdlOf[s] /\ day \in GroupOf[t].cycle /\ p[t].band # 0
  BY DEF Eligible
<1>2. ASSUME NEW u \in Eligible(p, s, day) PROVE u \in Market(GroupOf[t])
  <2>1. u \in TSPPs /\ GroupOf[u].tdl = TdlOf[s] /\ day \in GroupOf[u].cycle /\ p[u].band # 0
    BY DEF Eligible
  <2>2. GroupOf[u] = GroupOf[t]
    <3>1. GroupOf[u].cycle \cap GroupOf[t].cycle # {}
      BY <1>1, <2>1
    <3> QED
      BY <1>1, <2>1, <3>1 DEF SteadyMarket
  <2>3. BVS[u] > mps
    BY <2>1 DEF BandsInOrder
  <2> QED
    BY <2>1, <2>2, <2>3 DEF Market
<1>3. ASSUME NEW u \in Market(GroupOf[t]) PROVE u \in Eligible(p, s, day)
  <2>1. u \in TSPPs /\ GroupOf[u] = GroupOf[t] /\ p[u].band # 0
    BY <1>1 DEF Market, BandsInOrder
  <2>2. TspOf[u] \in enrolled
    BY <2>1, AwardQueueAssumption DEF AwardQueueAssumption
  <2> QED
    BY <1>1, <2>1, <2>2 DEF Eligible
<1> QED
  BY <1>2, <1>3

(* NextEligibleTSPPerformance returns a TSPP that has its turn.            *)
LEMMA NextHasItsTurn ==
  ASSUME SteadyMarket, enrolled = TSPs, NEW p \in [TSPPs -> Perf], BandsInOrder(p),
         OffersInOrder(p), NEW s, NEW day, NEW t \in NextEligible(p, s, day)
  PROVE  /\ GroupOf[t].tdl = TdlOf[s] /\ day \in GroupOf[t].cycle
         /\ HasTurn(p, t)
<1> DEFINE S == Eligible(p, s, day)
           B == {p[u].band : u \in S}
           C == NextOfferCounts(p, S)
           b == SelectNextTSPPerformance(C)
<1>1. t \in NextInBand(p, S, b) /\ t \in S
  BY DEF NextEligible, NextInBand
<1>2. S = Market(GroupOf[t]) /\ t \in TSPPs
  BY <1>1, EligibleIsMarket DEF Eligible
<1>3. \A u \in S : /\ u \in TSPPs /\ GroupOf[u] = GroupOf[t] /\ BVS[u] > mps
                   /\ p[u].band \in qualityBands /\ p[u].offerCount \in Nat /\ BVS[u] \in Nat
  <2> SUFFICES ASSUME NEW u \in S
               PROVE  /\ u \in TSPPs /\ GroupOf[u] = GroupOf[t] /\ BVS[u] > mps
                      /\ p[u].band \in qualityBands /\ p[u].offerCount \in Nat /\ BVS[u] \in Nat
    OBVIOUS
  <2>1. u \in TSPPs /\ GroupOf[u] = GroupOf[t] /\ BVS[u] > mps
    BY <1>2 DEF Market
  <2>2. p[u].band # 0
    BY DEF Eligible
  <2>3. p[u] \in Perf /\ BVS[u] \in Nat
    BY <2>1, AwardQueueAssumption DEF AwardQueueAssumption
  <2> QED
    BY <2>1, <2>2, <2>3 DEF Perf, qualityBands, numQualBands
<1>4. GroupOf[t].tdl = TdlOf[s] /\ day \in GroupOf[t].cycle /\ p[t].band # 0
  BY <1>1 DEF Eligible
<1>5. \A v, u \in S : p[v].band < p[u].band => BVS[v] > BVS[u]
  <2> SUFFICES ASSUME NEW v \in S, NEW u \in S, p[v].band < p[u].band, ~ (BVS[v] > BVS[u])
               PROVE  FALSE
    OBVIOUS
  <2>1. CASE BVS[v] = BVS[u]
    <3>1. v = u
      BY <1>3, <2>1 DEF SteadyMarket
    <3> QED
      BY <1>3, <3>1 DEF qualityBands, numQualBands
  <2>2. CASE BVS[u] > BVS[v]
    <3>1. p[u].band # 0
      BY DEF Eligible
    <3>2. p[u].band <= p[v].band
      <4>1. v \in Market(GroupOf[u])
        BY <1>3 DEF Market
      <4> QED
        BY <1>3, <2>2, <3>1, <4>1 DEF BandsInOrder
    <3> QED
      BY <1>3, <3>2 DEF qualityBands, numQualBands
  <2> QED
    BY <1>3, <2>1, <2>2
<1>6. \A v, u \in S : BVS[v] > BVS[u] => p[v].offerCount \in {p[u].offerCount, p[u].offerCount + 1}
  BY <1>3 DEF OffersInOrder
<1> HIDE DEF S
<1>7. ASSUME NEW c \in B
      PROVE  \E w \in S : /\ p[w].band = c /\ C[c] = p[w].offerCount
                          /\ \A u \in S : p[u].band = c => p[w].offerCount <= p[u].offerCount
  <2> DEFINE T == {u \in S : p[u].band = c}
  <2>1. T \in SUBSET TSPPs /\ T # {}
    BY <1>3
  <2>2. \E w \in T : \A u \in T :
           \/ p[w].offerCount < p[u].offerCount
           \/ p[w].offerCount = p[u].offerCount /\ BVS[w] >= BVS[u]
    BY <2>1, FirstRow
  <2>3. NextInBand(p, S, c) # {}
    BY <2>2 DEF NextInBand
  <2> DEFINE w == CHOOSE v \in NextInBand(p, S, c) : TRUE
  <2>4. w \in NextInBand(p, S, c)
    BY <2>3
  <2>5. C[c] = p[w].offerCount
    BY DEF NextOfferCounts
  <2> HIDE DEF w
  <2>6. /\ w \in S /\ p[w].band = c
        /\ \A u \in S : p[u].band = c =>
             \/ p[w].offerCount < p[u].offerCount
             \/ p[w].offerCount = p[u].offerCount /\ BVS[w] >= BVS[u]
    BY <2>4 DEF NextInBand
  <2>7. \A u \in S : p[u].band = c => p[w].offerCount <= p[u].offerCount
    BY <1>3, <2>6
  <2> HIDE DEF C
  <2> QED
    BY <2>5, <2>6, <2>7
<1>8. B \in SUBSET qualityBands /\ B # {}
  BY <1>1, <1>3
<1>9. C \in [B -> Nat]
  <2>1. DOMAIN C = B /\ C = [c \in DOMAIN C |-> C[c]]
    BY DEF NextOfferCounts
  <2> HIDE DEF B, C
  <2>2. \A c \in B : C[c] \in Nat
    BY <1>3, <1>7
  <2> QED
    BY <2>1, <2>2
<1> HIDE DEF C, B
<1>10. ASSUME NEW c \in B, NEW d \in B, c < d
       PROVE  C[c] \in {C[d], C[d] + 1}
  <2>1. PICK v \in S : p[v].band = c /\ C[c] = p[v].offerCount
    BY <1>7
  <2>2. PICK u \in S : p[u].band = d /\ C[d] = p[u].offerCount
    BY <1>7
  <2>3. BVS[v] > BVS[u]
    BY <1>5, <1>10, <2>1, <2>2
  <2> QED
    BY <1>6, <2>1, <2>2, <2>3
<1>11. b \in B /\ \A d \in B : C[b] < C[d] \/ (C[b] = C[d] /\ b <= d)
  BY <1>8, <1>9, <1>10, SelectsTheFewest DEF SteadyMarket
<1> HIDE DEF b
<1>12. /\ p[t].band = b
       /\ \A u \in S : p[u].band = b =>
            \/ p[t].offerCount < p[u].offerCount
            \/ p[t].offerCount = p[u].offerCount /\ BVS[t] >= BVS[u]
  BY <1>1 DEF NextInBand
<1>13. p[t].offerCount <= C[b]
  <2>1. PICK w \in S : p[w].band = b /\ C[b] = p[w].offerCount
    BY <1>7, <1>11
  <2> QED
    BY <1>1, <1>3, <1>12, <2>1
<1>14. ASSUME NEW u \in S
       PROVE  \/ p[t].offerCount < p[u].offerCount
              \/ p[t].offerCount = p[u].offerCount /\ BVS[t] >= BVS[u]
  <2>1. CASE p[u].band = b
    BY <1>12, <2>1
  <2>2. CASE p[u].band # b
    <3> DEFINE d == p[u].band
    <3>1. d \in B
      BY DEF B
    <3>2. C[d] <= p[u].offerCount
      <4>1. PICK w \in S : /\ p[w].band = d /\ C[d] = p[w].offerCount
                           /\ \A v \in S : p[v].band = d => p[w].offerCount <= p[v].offerCount
        BY <1>7, <3>1
      <4> QED
        BY <4>1
    <3>3. C[b] \in Nat /\ C[d] \in Nat /\ p[t].offerCount \in Nat /\ p[u].offerCount \in Nat
      BY <1>1, <1>3, <1>9, <1>11, <3>1
    <3>4. C[b] < C[d] \/ (C[b] = C[d] /\ b <= d)
      BY <1>11, <3>1
    <3>5. CASE C[b] < C[d]
      <4> HIDE DEF d
      <4> QED
        BY <1>13, <3>2, <3>3, <3>5
    <3>6. CASE C[b] = C[d] /\ b <= d
      <4>1. p[t].band < p[u].band
        BY <1>3, <1>8, <1>11, <1>12, <2>2, <3>6 DEF qualityBands, numQualBands
      <4>2. BVS[t] > BVS[u] /\ BVS[t] \in Nat /\ BVS[u] \in Nat
        BY <1>1, <1>3, <1>5, <4>1
      <4> HIDE DEF d
      <4>3. p[t].offerCount <= p[u].offerCount
        BY <1>13, <3>2, <3>3, <3>6
      <4> QED
        BY <3>3, <4>2, <4>3
    <3> QED
      BY <3>4, <3>5, <3>6
  <2> QED
    BY <2>1, <2>2
<1> QED
  BY <1>2, <1>4, <1>14 DEF HasTurn
-----------------------------------------------------------------------------
(* An offer to the TSPP that has its turn passes the turn on.              *)

(* q is p with one more offer for x.                                       *)
OneMoreOffer(p, q, x) ==
  \A t \in TSPPs :
    /\ q[t].band = p[t].band
    /\ q[t].offerCount = IF t = x THEN p[t].offerCount + 1 ELSE p[t].offerCount

(* From x to the next lower score of the group, or from the lowest to the  *)
(* best.                                                                   *)
MovesOn(x, y) ==
  \/ /\ BVS[y] < BVS[x]
     /\ \A v \in Market(GroupOf[x]) : ~ (BVS[y] < BVS[v] /\ BVS[v] < BVS[x])
  \/ \A v \in Market(GroupOf[x]) : BVS[x] <= BVS[v] /\ BVS[v] <= BVS[y]

(* What HasTurn says of the other TSPPs of the group.                      *)
LEMMA TurnOf ==
  ASSUME SteadyMarket, NEW p \in [TSPPs -> Perf], OffersInOrder(p), BandsInOrder(p),
         NEW x \in TSPPs, HasTurn(p, x), NEW t \in Market(GroupOf[x]), t # x
  PROVE  /\ BVS[x] > mps /\ BVS[x] \in Nat /\ BVS[t] \in Nat /\ BVS[x] # BVS[t]
         /\ BVS[t] < BVS[x] => p[t].offerCount = p[x].offerCount
         /\ BVS[t] > BVS[x] => p[t].offerCount = p[x].offerCount + 1
<1>1. t \in TSPPs /\ GroupOf[t] = GroupOf[x] /\ BVS[t] > mps /\ BVS[x] > mps
  BY DEF Market, HasTurn, BandsInOrder
<1>2. BVS[x] \in Nat /\ BVS[t] \in Nat
  BY <1>1, AwardQueueAssumption DEF AwardQueueAssumption
<1>3. BVS[x] # BVS[t]
  BY <1>1 DEF SteadyMarket
<1>4. p[t].offerCount \in Nat /\ p[x].offerCount \in Nat
  <2>1. p[t] \in Perf /\ p[x] \in Perf
    BY <1>1
  <2> QED
    BY <2>1 DEF Perf
<1>5. \/ p[x].offerCount < p[t].offerCount
      \/ p[x].offerCount = p[t].offerCount /\ BVS[x] >= BVS[t]
  BY DEF HasTurn
<1>6. BVS[x] > BVS[t] => p[x].offerCount \in {p[t].offerCount, p[t].offerCount + 1}
  BY <1>1 DEF OffersInOrder
<1>7. BVS[t] > BVS[x] => p[t].offerCount \in {p[x].offerCount, p[x].offerCount + 1}
  BY <1>1 DEF OffersInOrder
<1> QED
  BY <1>1, <1>2, <1>3, <1>4, <1>5, <1>6, <1>7

LEMMA OffersStayInOrder ==
  ASSUME SteadyMarket, NEW p \in [TSPPs -> Perf], OffersInOrder(p), BandsInOrder(p),
         NEW x \in TSPPs, HasTurn(p, x), NEW q, OneMoreOffer(p, q, x)
  PROVE  OffersInOrder(q)
<1> SUFFICES ASSUME NEW t \in TSPPs, NEW u \in TSPPs,
                    GroupOf[t] = GroupOf[u], BVS[t] > BVS[u], BVS[u] > mps
             PROVE  q[t].offerCount \in {q[u].offerCount, q[u].offerCount + 1}
  BY DEF OffersInOrder
<1>1. p[t].offerCount \in {p[u].offerCount, p[u].offerCount + 1}
  BY DEF OffersInOrder
<1>2. BVS[t] \in Nat /\ BVS[u] \in Nat /\ p[t] \in Perf /\ p[u] \in Perf
  BY AwardQueueAssumption DEF AwardQueueAssumption
<1>3. t # u /\ t \in Market(GroupOf[t]) /\ u \in Market(GroupOf[t])
  BY <1>2 DEF Market, mps
<1>4. CASE x = t
  <2>1. p[u].offerCount = p[t].offerCount
    BY <1>2, <1>3, <1>4, TurnOf
  <2>2. q[t].offerCount = p[t].offerCount + 1 /\ q[u].offerCount = p[u].offerCount
    BY <1>3, <1>4 DEF OneMoreOffer
  <2> QED
    BY <2>1, <2>2
<1>5. CASE x = u
  <2>1. p[t].offerCount = p[u].offerCount + 1
    BY <1>2, <1>3, <1>5, TurnOf
  <2>2. q[t].offerCount = p[t].offerCount /\ q[u].offerCount = p[u].offerCount + 1
    BY <1>3, <1>5 DEF OneMoreOffer
  <2> QED
    BY <2>1, <2>2
<1>6. CASE x # t /\ x # u
  BY <1>1, <1>6 DEF OneMoreOffer
<1> QED
  BY <1>4, <1>5, <1>6

(* The turn goes to the next lower score, and from the lowest to the best. *)
LEMMA TurnMovesOn ==
  ASSUME SteadyMarket, NEW p \in [TSPPs -> Perf], OffersInOrder(p), BandsInOrder(p),
         NEW x \in TSPPs, HasTurn(p, x), NEW q, OneMoreOffer(p, q, x),
         NEW y \in TSPPs, HasTurn(q, y), GroupOf[y] = GroupOf[x]
  PROVE  MovesOn(x, y)
<1> USE DEF MovesOn
<1> DEFINE M == Market(GroupOf[x])
           a == p[x].offerCount
<1>1. \A v \in M : v \in TSPPs /\ GroupOf[v] = GroupOf[x] /\ BVS[v] > mps /\ BVS[v] \in Nat
  BY AwardQueueAssumption DEF Market, AwardQueueAssumption
<1>2. BandsInOrder(q)
  BY DEF BandsInOrder, OneMoreOffer, Market
<1>3. x \in M /\ y \in M
  BY <1>2 DEF HasTurn, BandsInOrder, Market
<1>4. a \in Nat
  <2>1. p[x] \in Perf
    OBVIOUS
  <2> QED
    BY <2>1 DEF Perf
<1>5. \A v \in M : v # x =>
        /\ BVS[x] # BVS[v]
        /\ BVS[v] < BVS[x] => q[v].offerCount = a
        /\ BVS[v] > BVS[x] => q[v].offerCount = a + 1
  BY <1>1, TurnOf DEF OneMoreOffer
<1>6. q[x].offerCount = a + 1
  BY DEF OneMoreOffer
<1>7. \A v \in M : \/ q[y].offerCount < q[v].offerCount
                   \/ q[y].offerCount = q[v].offerCount /\ BVS[y] >= BVS[v]
  BY DEF HasTurn
<1> HIDE DEF M, a
<1>8. CASE \E v \in M : BVS[v] < BVS[x]
  <2>1. PICK v \in M : BVS[v] < BVS[x]
    BY <1>8
  <2>2. q[v].offerCount = a
    BY <1>1, <1>3, <1>5, <2>1
  <2>3. BVS[y] < BVS[x]
    <3>1. CASE y = x
      BY <1>4, <1>6, <1>7, <2>1, <2>2, <3>1
    <3>2. CASE y # x /\ BVS[y] > BVS[x]
      BY <1>3, <1>4, <1>5, <1>7, <2>1, <2>2, <3>2
    <3> QED
      BY <1>1, <1>3, <1>5, <3>1, <3>2
  <2>4. ASSUME NEW w \in M, BVS[y] < BVS[w], BVS[w] < BVS[x] PROVE FALSE
    <3>1. q[w].offerCount = a /\ q[y].offerCount = a
      BY <1>1, <1>3, <1>5, <2>3, <2>4
    <3> QED
      BY <1>1, <1>3, <1>4, <1>7, <2>4, <3>1
  <2> QED
    BY <2>3, <2>4 DEF M
<1>9. CASE ~ \E v \in M : BVS[v] < BVS[x]
  <2>1. \A v \in M : BVS[x] <= BVS[v]
    BY <1>1, <1>3, <1>9
  <2>2. \A v \in M : q[v].offerCount = a + 1
    BY <1>1, <1>3, <1>5, <1>6, <2>1
  <2>3. \A v \in M : BVS[v] <= BVS[y]
    BY <1>1, <1>3, <1>4, <1>7, <2>2
  <2> QED
    BY <2>1, <2>3 DEF M
<1> QED
  BY <1>8, <1>9

(* One more TSPP has been tried: the one the attempt was at.               *)
LEMMA RoundGrows ==
  ASSUME SteadyMarket, NEW a, NEW b, a.again \in BOOLEAN, a.again \/ a.next = a.first,
         ~ BackAtFirst(a), b.first = a.first, b.again,
         {a.first, a.next, b.next} \subseteq Market(GroupOf[a.next]),
         MovesOn(a.next, b.next)
  PROVE  Round(b) = Round(a) \union {a.next}
<1> DEFINE x == a.next
           y == b.next
           f == a.first
           M == Market(GroupOf[x])
<1>0. x \in M /\ y \in M /\ f \in M /\ GroupOf[y] = GroupOf[x]
  BY DEF Market
<1>1. \A v \in M : v \in TSPPs /\ GroupOf[v] = GroupOf[x] /\ BVS[v] \in Nat
  BY AwardQueueAssumption DEF Market, AwardQueueAssumption
<1>2. \A v, w \in M : BVS[v] = BVS[w] => v = w
  BY <1>1 DEF SteadyMarket
<1> DEFINE Up(t, z) == IF BVS[f] >= BVS[z] THEN BVS[f] >= BVS[t] /\ BVS[t] > BVS[z]
                       ELSE BVS[f] >= BVS[t] \/ BVS[t] > BVS[z]
<1>3. Round(a) = {t \in M : Up(t, x)}
  BY DEF Round, BackAtFirst
<1>4. Round(b) = IF y = f THEN M ELSE {t \in M : Up(t, y)}
  BY <1>0 DEF Round
<1>5. \/ /\ BVS[y] < BVS[x]
         /\ \A v \in M : ~ (BVS[y] < BVS[v] /\ BVS[v] < BVS[x])
      \/ \A v \in M : BVS[x] <= BVS[v] /\ BVS[v] <= BVS[y]
  BY DEF MovesOn
<1>8. a.again \/ x = f
  OBVIOUS
<1> HIDE DEF M, x, y, f
<1>6. ASSUME NEW t \in M
      PROVE  t \in Round(b) <=> t \in Round(a) \/ t = x
  <2>1. BVS[t] \in Nat /\ BVS[x] \in Nat /\ BVS[y] \in Nat /\ BVS[f] \in Nat
    BY <1>0, <1>1
  <2>2. /\ BVS[t] = BVS[x] => t = x
        /\ BVS[f] = BVS[y] => f = y
        /\ BVS[f] = BVS[x] => f = x
    BY <1>0, <1>2
  <2>3. \/ /\ BVS[y] < BVS[x]
           /\ ~ (BVS[y] < BVS[t] /\ BVS[t] < BVS[x])
           /\ ~ (BVS[y] < BVS[f] /\ BVS[f] < BVS[x])
        \/ /\ BVS[x] <= BVS[t] /\ BVS[t] <= BVS[y]
           /\ BVS[x] <= BVS[f] /\ BVS[f] <= BVS[y]
    BY <1>0, <1>5
  <2>4. CASE y = f
    <3>1. t \in Round(b)
      BY <1>4, <2>4
    <3>2. t \in Round(a) <=> Up(t, x)
      BY <1>3
    <3> QED
      BY <2>1, <2>2, <2>3, <2>4, <3>1, <3>2
  <2>5. CASE y # f
    <3>1. t \in Round(b) <=> Up(t, y)
      BY <1>4, <2>5
    <3>2. t \in Round(a) <=> Up(t, x)
      BY <1>3
    <3> QED
      BY <2>1, <2>2, <2>3, <2>5, <3>1, <3>2
  <2> QED
    BY <2>4, <2>5
<1>7. Round(a) \subseteq M /\ Round(b) \subseteq M
  BY <1>3, <1>4
<1> QED
  BY <1>0, <1>6, <1>7 DEF x

LEMMA TriedOneMore ==
  ASSUME NEW book \in Seq(Offer), NEW o \in Offer
  PROVE  /\ Tried(Append(book, o), o.shipment) = Tried(book, o.shipment) \union {o.tspp}
         /\ \A s : s # o.shipment => OffersOf(Append(book, o), s) = OffersOf(book, s)
         /\ NoRepeatIn(book) /\ o.tspp \notin Tried(book, o.shipment) => NoRepeatIn(Append(book, o))
<1> DEFINE n == Len(book)
           new == Append(book, o)
<1>1. /\ n \in Nat /\ DOMAIN book = 1..n /\ DOMAIN new = 1..(n + 1)
      /\ \A i \in 1..n : new[i] = book[i]
      /\ new[n + 1] = o
  BY AppendProperties, LenProperties
<1>2. ASSUME NEW s
      PROVE  OffersOf(new, s) = OffersOf(book, s) \union (IF o.shipment = s THEN {n + 1} ELSE {})
  BY OffersOfAppend
<1> HIDE DEF new, n
<1>3. \A i \in OffersOf(book, o.shipment) : new[i] = book[i]
  BY <1>1 DEF OffersOf
<1>4. Tried(new, o.shipment) = Tried(book, o.shipment) \union {o.tspp}
  <2>1. OffersOf(new, o.shipment) = OffersOf(book, o.shipment) \union {n + 1}
    BY <1>2
  <2> QED
    BY <1>1, <1>3, <2>1 DEF Tried
<1>5. \A s : s # o.shipment => OffersOf(new, s) = OffersOf(book, s)
  BY <1>2
<1>6. ASSUME NoRepeatIn(book), o.tspp \notin Tried(book, o.shipment)
      PROVE  NoRepeatIn(new)
  <2> SUFFICES ASSUME NEW i \in DOMAIN new, NEW j \in DOMAIN new,
                      new[i].shipment = new[j].shipment, new[i].tspp = new[j].tspp
               PROVE  i = j
    BY DEF NoRepeatIn
  <2>1. \A k \in 1..n : ~ (book[k].shipment = o.shipment /\ book[k].tspp = o.tspp)
    BY <1>1, <1>6 DEF Tried, OffersOf
  <2>2. (i \in 1..n \/ i = n + 1) /\ (j \in 1..n \/ j = n + 1)
    BY <1>1
  <2>3. CASE i \in 1..n /\ j \in 1..n
    <3>1. new[i] = book[i] /\ new[j] = book[j]
      BY <1>1, <2>3
    <3> QED
      BY <1>1, <1>6, <2>3, <3>1 DEF NoRepeatIn
  <2>4. CASE i = n + 1 /\ j \in 1..n
    BY <1>1, <2>1, <2>4
  <2>5. CASE i \in 1..n /\ j = n + 1
    BY <1>1, <2>1, <2>5
  <2> QED
    BY <2>2, <2>3, <2>4, <2>5
<1> QED
  BY <1>4, <1>5, <1>6 DEF new

(* The offers of a run are no repetition of committed ones.                *)
LEMMA NoRepeatTogether ==
  ASSUME NEW book \in Seq(Offer), NEW new \in Seq(Offer), NoRepeatIn(book), NoRepeatIn(new),
         \A i \in DOMAIN new : OffersOf(book, new[i].shipment) = {}
  PROVE  NoRepeatIn(book \o new)
<1> DEFINE n == Len(book)
           m == Len(new)
           all == book \o new
<1>1. /\ n \in Nat /\ m \in Nat /\ DOMAIN book = 1..n /\ DOMAIN new = 1..m
      /\ DOMAIN all = 1..(n + m)
      /\ \A i \in 1..(n + m) : all[i] = IF i <= n THEN book[i] ELSE new[i - n]
  BY ConcatProperties, LenProperties
<1> SUFFICES ASSUME NEW i \in DOMAIN all, NEW j \in DOMAIN all,
                    all[i].shipment = all[j].shipment, all[i].tspp = all[j].tspp
             PROVE  i = j
  BY DEF NoRepeatIn
<1> HIDE DEF all, n, m
<1>2. i \in 1..(n + m) /\ j \in 1..(n + m)
  BY <1>1
<1>3. ASSUME NEW k \in 1..n, NEW l \in 1..m, book[k].shipment = new[l].shipment
      PROVE  FALSE
  <2>1. k \in OffersOf(book, new[l].shipment)
    BY <1>1, <1>3 DEF OffersOf
  <2> QED
    BY <1>1, <2>1
<1>4. CASE i <= n /\ j <= n
  <2>1. i \in 1..n /\ j \in 1..n /\ all[i] = book[i] /\ all[j] = book[j]
    BY <1>1, <1>2, <1>4
  <2> QED
    BY <1>1, <2>1 DEF NoRepeatIn
<1>5. CASE i > n /\ j > n
  <2>1. i - n \in 1..m /\ j - n \in 1..m /\ all[i] = new[i - n] /\ all[j] = new[j - n]
    BY <1>1, <1>2, <1>5
  <2>2. i - n = j - n
    BY <1>1, <2>1 DEF NoRepeatIn
  <2> QED
    BY <1>1, <1>2, <2>2
<1>6. CASE i <= n /\ j > n
  <2>1. i \in 1..n /\ j - n \in 1..m /\ all[i] = book[i] /\ all[j] = new[j - n]
    BY <1>1, <1>2, <1>6
  <2> QED
    BY <1>3, <2>1
<1>7. CASE i > n /\ j <= n
  <2>1. j \in 1..n /\ i - n \in 1..m /\ all[j] = book[j] /\ all[i] = new[i - n]
    BY <1>1, <1>2, <1>7
  <2> QED
    BY <1>3, <2>1
<1> QED
  BY <1>1, <1>2, <1>4, <1>5, <1>6, <1>7
-----------------------------------------------------------------------------
(* The steps of the award queue keep the round.                            *)

LEMMA SameRound ==
  ASSUME NEW r \in Runners, RoundsOf(r), pc'[r] = pc[r], attempt'[r] = attempt[r],
         txPerf'[r] = txPerf[r], txOffers'[r] = txOffers[r], listed'[r] = listed[r]
  PROVE  RoundsOf(r)'
BY DEF RoundsOf

LEMMA RoundInit ==
  ASSUME SteadyMarket, Init
  PROVE  GoRound
<1>1. Arrangement
  BY ArrangementInit DEF SteadyMarket
<1>2. \A t \in TSPPs : perf[t].offerCount = 0
  BY DEF Init
<1>3. OffersInOrder(perf)
  BY <1>2 DEF OffersInOrder
<1>4. NoRepeatIn(<<>>) /\ offers = <<>>
  BY DEF NoRepeatIn, Init
<1>5. ASSUME NEW r \in Runners PROVE RoundsOf(r)
  <2>1. pc[r] = "idle" /\ txPerf[r] = perf /\ txOffers[r] = <<>> /\ listed[r] = NoListed
    BY DEF Init
  <2> QED
    BY <1>3, <1>4, <2>1, NoListedIsEmpty DEF RoundsOf
<1> QED
  BY <1>1, <1>3, <1>4, <1>5 DEF GoRound

(* A run that ends starts again with nothing.                              *)
LEMMA RoundForgotten ==
  ASSUME TypeOK, NEW r \in Runners, Forget(r), \A q \in Runners : RoundsOf(q)
  PROVE  \A q \in Runners : RoundsOf(q)'
<1>1. RoundsOf(r)'
  <2>1. OffersInOrder(txPerf'[r])
    BY Forgotten DEF OffersInOrder
  <2>2. NoRepeatIn(<<>>)
    BY DEF NoRepeatIn
  <2> QED
    BY <2>1, <2>2, Forgotten, NoListedIsEmpty DEF RoundsOf
<1>2. ASSUME NEW q \in Runners \ {r} PROVE RoundsOf(q)'
  BY Forgotten, SameRound
<1> QED
  BY <1>1, <1>2

LEMMA NotYetTried ==
  ASSUME NEW a, a.first \in TSPPs, a.next \in TSPPs, a.again \in BOOLEAN, ~ BackAtFirst(a)
  PROVE  a.next \notin Round(a)
<1>1. BVS[a.first] \in Nat /\ BVS[a.next] \in Nat
  BY AwardQueueAssumption DEF AwardQueueAssumption
<1> QED
  BY <1>1 DEF Round, BackAtFirst

(* The offer of an attempt is one more, to the TSPP that has its turn.     *)
LEMMA OfferInRound ==
  ASSUME SteadyMarket, Inv, GoRound, NEW r \in Runners, pc[r] = "offering",
         ~ BackAtFirst(attempt[r]), NEW administrative \in BOOLEAN, RecordOffer(r, administrative)
  PROVE  /\ OneMoreOffer(txPerf[r], txPerf'[r], attempt[r].next)
         /\ OffersInOrder(txPerf'[r])
         /\ NoRepeatIn(txOffers'[r])
         /\ Tried(txOffers'[r], attempt[r].shipment)
              = Tried(txOffers[r], attempt[r].shipment) \union {attempt[r].next}
         /\ \A s : s # attempt[r].shipment => OffersOf(txOffers'[r], s) = OffersOf(txOffers[r], s)
         /\ \A q \in Runners \ {r} : txPerf'[q] = txPerf[q] /\ txOffers'[q] = txOffers[q]
<1> DEFINE x == attempt[r].next
           o == [shipment |-> attempt[r].shipment, tspp |-> x, administrative |-> administrative]
<1>1. TypeOK /\ Attempting /\ RoundsOf(r)
  BY DEF Inv, GoRound
<1>2. x \in TSPPs /\ attempt[r].shipment \in Shipments /\ attempt[r].again \in BOOLEAN
  BY <1>1 DEF Attempting, TypeOK
<1>3. /\ OneMoreOffer(txPerf[r], txPerf'[r], x)
      /\ \A q \in Runners \ {r} : txPerf'[q] = txPerf[q] /\ txOffers'[q] = txOffers[q]
      /\ txOffers'[r] = Append(txOffers[r], o)
  BY <1>1, <1>2, RecordedOffer DEF OneMoreOffer
<1>4. InRound(attempt[r], txPerf[r], txOffers[r], listed[r][attempt[r].shipment].requestedPickup)
  BY <1>1 DEF RoundsOf
<1>5. OffersInOrder(txPerf'[r])
  <2>1. txPerf[r] \in [TSPPs -> Perf] /\ OffersInOrder(txPerf[r]) /\ BandsInOrder(txPerf[r])
    BY <1>1 DEF TypeOK, RoundsOf, GoRound, Arrangement, Arranged
  <2>2. HasTurn(txPerf[r], x)
    BY <1>4 DEF InRound
  <2> QED
    BY <1>2, <1>3, <2>1, <2>2, OffersStayInOrder
<1>6. o \in Offer /\ o.shipment = attempt[r].shipment /\ o.tspp = x /\ txOffers[r] \in Seq(Offer)
  BY <1>1, <1>2 DEF Offer, TypeOK
<1>7. x \notin Tried(txOffers[r], attempt[r].shipment)
  <2>1. attempt[r].first \in TSPPs
    BY <1>4 DEF InRound
  <2>2. x \notin Round(attempt[r])
    BY <1>2, <2>1, NotYetTried
  <2> QED
    BY <1>4, <2>2 DEF InRound
<1>8. NoRepeatIn(txOffers[r])
  BY <1>1 DEF RoundsOf
<1> HIDE DEF o, x
<1>9. /\ Tried(Append(txOffers[r], o), o.shipment) = Tried(txOffers[r], o.shipment) \union {o.tspp}
      /\ \A s : s # o.shipment => OffersOf(Append(txOffers[r], o), s) = OffersOf(txOffers[r], s)
      /\ NoRepeatIn(Append(txOffers[r], o))
  BY <1>6, <1>7, <1>8, TriedOneMore
<1> QED
  BY <1>3, <1>5, <1>6, <1>9 DEF x

(* A shipment that is done with leaves those the run has not come to.      *)
LEMMA DropInRound ==
  ASSUME TypeOK, NEW r \in Runners, RoundsOf(r), NEW s, Drop(r, s),
         pc[r] = "offering" => s = attempt[r].shipment,
         NoRepeatIn(txOffers'[r]), OffersInOrder(txPerf'[r]),
         \A u : u # s => OffersOf(txOffers'[r], u) = OffersOf(txOffers[r], u)
  PROVE  RoundsOf(r)'
<1>1. pc'[r] = "listing"
  BY DEF Drop, TypeOK
<1>2. DOMAIN listed'[r] = DOMAIN listed[r] \ {s}
  BY DEF Drop, TypeOK
<1>3. \A u \in DOMAIN listed'[r] : OffersOf(txOffers'[r], u) = {}
  BY <1>2 DEF RoundsOf
<1> QED
  BY <1>1, <1>3 DEF RoundsOf

LEMMA BeginAttemptInRound ==
  ASSUME SteadyMarket, Inv, GoRound, NEW r \in Runners, NEW s \in Shipments, BeginAttempt(r, s)
  PROVE  RoundsOf(r)'
<1> DEFINE day == listed[r][s].requestedPickup
<1>1. TypeOK /\ RoundsOf(r) /\ pc[r] = "listing" /\ s \in DOMAIN listed[r]
  BY DEF Inv, GoRound, BeginAttempt
<1>2. txPerf' = txPerf /\ txOffers' = txOffers
  BY DEF BeginAttempt
<1>3. OffersInOrder(txPerf[r]) /\ NoRepeatIn(txOffers[r])
      /\ \A u \in DOMAIN listed[r] : OffersOf(txOffers[r], u) = {}
  BY <1>1 DEF RoundsOf
<1>4. CASE Drop(r, s)
  BY <1>1, <1>2, <1>3, <1>4, DropInRound
<1>5. CASE \E t \in NextEligible(txPerf[r], s, day) :
              /\ attempt' = [attempt EXCEPT ![r] =
                   [shipment |-> s, first |-> t, next |-> t, again |-> FALSE]]
              /\ pc' = [pc EXCEPT ![r] = "offering"]
              /\ UNCHANGED listed
  <2>1. PICK t \in NextEligible(txPerf[r], s, day) :
              /\ attempt' = [attempt EXCEPT ![r] =
                   [shipment |-> s, first |-> t, next |-> t, again |-> FALSE]]
              /\ pc' = [pc EXCEPT ![r] = "offering"]
              /\ UNCHANGED listed
    BY <1>5
  <2> DEFINE a == [shipment |-> s, first |-> t, next |-> t, again |-> FALSE]
  <2>2. attempt'[r] = a /\ pc'[r] = "offering" /\ listed'[r] = listed[r]
    BY <1>1, <2>1 DEF TypeOK
  <2>3. t \in TSPPs
    BY NextEligibleIsTSPP
  <2>4. txPerf[r] \in [TSPPs -> Perf] /\ BandsInOrder(txPerf[r]) /\ enrolled = TSPs
    BY <1>1 DEF TypeOK, GoRound, Arrangement, Arranged
  <2>5. GroupOf[t].tdl = TdlOf[s] /\ day \in GroupOf[t].cycle /\ HasTurn(txPerf[r], t)
    BY <1>3, <2>4, NextHasItsTurn
  <2>6. BVS[t] > mps
    BY <2>3, <2>4, <2>5 DEF BandsInOrder, HasTurn
  <2>7. Tried(txOffers[r], s) = {}
    BY <1>1, <1>3 DEF Tried
  <2>8. Round(a) = {}
    <3>1. BVS[t] \in Nat /\ \A u \in TSPPs : BVS[u] \in Nat
      BY <2>3, AwardQueueAssumption DEF AwardQueueAssumption
    <3> QED
      BY <3>1 DEF Round, Market
  <2>9. InRound(a, txPerf[r], txOffers[r], day)
    BY <2>3, <2>5, <2>6, <2>7, <2>8 DEF InRound
  <2>10. a.shipment = s
    OBVIOUS
  <2> HIDE DEF a
  <2> QED
    BY <1>2, <1>3, <2>2, <2>9, <2>10 DEF RoundsOf
<1> QED
  BY <1>4, <1>5 DEF BeginAttempt

LEMMA AdministrativeInRound ==
  ASSUME SteadyMarket, Inv, GoRound, [Next]_vars, NEW r \in Runners, OfferAdministrative(r)
  PROVE  RoundsOf(r)'
<1> DEFINE a == attempt[r]
           s == a.shipment
           x == a.next
           p == txPerf[r]
           q == txPerf'[r]
           day == listed[r][s].requestedPickup
<1>1. /\ TypeOK /\ Attempting /\ RoundsOf(r) /\ pc[r] = "offering"
      /\ ~ BackAtFirst(a) /\ RecordOffer(r, TRUE)
  BY DEF Inv, GoRound, OfferAdministrative
<1>2. /\ OneMoreOffer(p, q, x)
      /\ OffersInOrder(q)
      /\ NoRepeatIn(txOffers'[r])
      /\ Tried(txOffers'[r], s) = Tried(txOffers[r], s) \union {x}
      /\ \A u : u # s => OffersOf(txOffers'[r], u) = OffersOf(txOffers[r], u)
  BY <1>1, OfferInRound
<1>3. TypeOK' /\ Arrangement'
  BY <1>1, TypeStep, ArrangementStep DEF Inv, GoRound, SteadyMarket
<1>4. CASE Drop(r, s)
  BY <1>1, <1>2, <1>4, DropInRound
<1>5. CASE \E u \in NextEligible(q, s, day) :
              /\ attempt' = [attempt EXCEPT ![r].next = u, ![r].again = TRUE]
              /\ UNCHANGED <<pc, listed>>
  <2>1. PICK u \in NextEligible(q, s, day) :
              /\ attempt' = [attempt EXCEPT ![r].next = u, ![r].again = TRUE]
              /\ UNCHANGED <<pc, listed>>
    BY <1>5
  <2> DEFINE b == attempt'[r]
  <2>2. a \in [shipment : Shipments \union {None}, first : TSPPs \union {None},
               next : TSPPs \union {None}, again : BOOLEAN]
    BY <1>1 DEF TypeOK
  <2>3. b.shipment = s /\ b.first = a.first /\ b.next = u /\ b.again
    <3>1. b = [a EXCEPT !.next = u, !.again = TRUE]
      BY <1>1, <2>1 DEF TypeOK
    <3> QED
      BY <2>2, <3>1
  <2>4. listed'[r] = listed[r] /\ pc'[r] = "offering"
    BY <1>1, <2>1
  <2>5. u \in TSPPs /\ x \in TSPPs
    BY <1>1, NextEligibleIsTSPP DEF Attempting
  <2>6. q \in [TSPPs -> Perf] /\ BandsInOrder(q) /\ enrolled = TSPs
    BY <1>3 DEF TypeOK, GoRound, Arrangement, Arranged
  <2>7. p \in [TSPPs -> Perf] /\ BandsInOrder(p) /\ OffersInOrder(p)
    BY <1>1 DEF TypeOK, GoRound, Arrangement, Arranged, RoundsOf
  <2>8. InRound(a, p, txOffers[r], day)
    BY <1>1 DEF RoundsOf
  <2> HIDE DEF a, b, p, q, day, x, s
  <2>9. GroupOf[u].tdl = TdlOf[s] /\ day \in GroupOf[u].cycle /\ HasTurn(q, u)
    BY <1>2, <2>1, <2>6, NextHasItsTurn
  <2>10. /\ a.first \in TSPPs /\ GroupOf[a.first] = GroupOf[x] /\ BVS[a.first] > mps
         /\ a.again \/ x = a.first
         /\ GroupOf[x].tdl = TdlOf[s] /\ day \in GroupOf[x].cycle
         /\ HasTurn(p, x)
         /\ Tried(txOffers[r], s) = Round(a)
    BY <2>8 DEF InRound, x, s
  <2>11. GroupOf[u] = GroupOf[x]
    <3>1. GroupOf[u].cycle \cap GroupOf[x].cycle # {}
      BY <2>9, <2>10
    <3> QED
      BY <2>5, <2>9, <2>10, <3>1 DEF SteadyMarket
  <2>12. MovesOn(x, u)
    BY <1>2, <2>5, <2>7, <2>9, <2>10, <2>11, TurnMovesOn
  <2>13. x \in Market(GroupOf[x]) /\ u \in Market(GroupOf[x]) /\ a.first \in Market(GroupOf[x])
    BY <2>5, <2>6, <2>7, <2>9, <2>10, <2>11 DEF HasTurn, BandsInOrder, Market
  <2>14. Round(b) = Round(a) \union {x}
    <3>1. a.again \in BOOLEAN /\ a.next = x /\ ~ BackAtFirst(a)
      BY <1>1, <2>2 DEF a, x
    <3>2. /\ a.again \/ a.next = a.first
          /\ {a.first, a.next, b.next} \subseteq Market(GroupOf[a.next])
          /\ MovesOn(a.next, b.next)
      BY <2>3, <2>10, <2>12, <2>13, <3>1
    <3>3. Round(b) = Round(a) \union {a.next}
      BY <2>3, <3>1, <3>2, RoundGrows
    <3> QED
      BY <3>1, <3>3
  <2>15. InRound(b, q, txOffers'[r], day)
    BY <1>2, <2>3, <2>9, <2>10, <2>11, <2>14 DEF InRound
  <2>16. pc'[r] = "offering" => InRound(b, q, txOffers'[r], listed'[r][b.shipment].requestedPickup)
    BY <2>3, <2>4, <2>15 DEF day
  <2>17. \A v \in DOMAIN listed'[r] :
           pc'[r] # "offering" \/ v # b.shipment => OffersOf(txOffers'[r], v) = {}
    BY <1>1, <1>2, <2>3, <2>4 DEF RoundsOf, s, a
  <2> QED
    BY <1>2, <2>16, <2>17 DEF RoundsOf, b, q
<1> QED
  BY <1>4, <1>5 DEF OfferAdministrative

LEMMA OfferForRealInRound ==
  ASSUME SteadyMarket, Inv, GoRound, NEW r \in Runners, OfferForReal(r)
  PROVE  RoundsOf(r)'
<1>1. /\ TypeOK /\ RoundsOf(r) /\ pc[r] = "offering"
      /\ ~ BackAtFirst(attempt[r]) /\ RecordOffer(r, FALSE) /\ Drop(r, attempt[r].shipment)
  BY DEF Inv, GoRound, OfferForReal
<1>2. /\ OffersInOrder(txPerf'[r])
      /\ NoRepeatIn(txOffers'[r])
      /\ \A u : u # attempt[r].shipment => OffersOf(txOffers'[r], u) = OffersOf(txOffers[r], u)
  BY <1>1, OfferInRound
<1> QED
  BY <1>1, <1>2, DropInRound

LEMMA ReadingInRound ==
  ASSUME SteadyMarket, Inv, GoRound, NEW r \in Runners,
         \/ StartRun(r)
         \/ AcquireLock(r)
         \/ \E g \in Groups : AssignBands(r, g)
         \/ ListShipments(r)
         \/ GiveUp(r)
  PROVE  RoundsOf(r)'
<1>1. TypeOK /\ RoundsOf(r) /\ txOffers' = txOffers
  BY DEF Inv, GoRound, StartRun, AcquireLock, AssignBands, ListShipments, GiveUp, progress
<1>2. pc[r] # "offering" => \A s \in DOMAIN listed[r] : OffersOf(txOffers[r], s) = {}
  BY <1>1 DEF RoundsOf
<1>3. NoRepeatIn(txOffers[r]) /\ OffersInOrder(txPerf[r])
  BY <1>1 DEF RoundsOf
<1>4. CASE StartRun(r)
  <2>1. pc[r] = "idle" /\ pc'[r] = "waiting" /\ listed'[r] = listed[r] /\ txPerf'[r] = txPerf[r]
    BY <1>1, <1>4 DEF StartRun, progress, TypeOK
  <2> QED
    BY <1>1, <1>2, <1>3, <2>1 DEF RoundsOf
<1>5. CASE AcquireLock(r)
  <2>1. pc[r] = "waiting" /\ pc'[r] = "banding" /\ listed'[r] = listed[r] /\ txPerf'[r] = perf
    BY <1>1, <1>5 DEF AcquireLock, TypeOK
  <2>2. OffersInOrder(perf)
    BY DEF GoRound
  <2> QED
    BY <1>1, <1>2, <1>3, <2>1, <2>2 DEF RoundsOf
<1>6. CASE \E g \in Groups : AssignBands(r, g)
  <2>1. pc[r] = "banding" /\ pc'[r] = "banding" /\ listed'[r] = listed[r]
    BY <1>1, <1>6 DEF AssignBands
  <2>2. \A t \in TSPPs : txPerf'[r][t].offerCount = txPerf[r][t].offerCount
    BY <1>1, <1>6, AssignedBands DEF GoRound, Arrangement
  <2>3. OffersInOrder(txPerf'[r])
    BY <1>3, <2>2 DEF OffersInOrder
  <2> QED
    BY <1>1, <1>2, <1>3, <2>1, <2>3 DEF RoundsOf
<1>7. CASE ListShipments(r)
  <2>1. pc[r] = "banding" /\ pc'[r] = "listing" /\ txPerf'[r] = txPerf[r]
    BY <1>1, <1>7 DEF ListShipments, TypeOK
  <2>2. txOffers[r] = <<>>
    BY <2>1 DEF Inv, RunInv, NothingBeforeListing
  <2>3. \A s : OffersOf(txOffers'[r], s) = {}
    BY <1>1, <2>2, OffersOfEmpty
  <2> QED
    BY <1>1, <1>3, <2>1, <2>3 DEF RoundsOf
<1>8. CASE GiveUp(r)
  <2>1. Drop(r, attempt[r].shipment) /\ txPerf' = txPerf
    BY <1>8 DEF GiveUp
  <2> QED
    BY <1>1, <1>3, <2>1, DropInRound
<1> QED
  BY <1>4, <1>5, <1>6, <1>7, <1>8

LEMMA CommitInRound ==
  ASSUME Inv, GoRound, NEW r \in Runners, Commit(r)
  PROVE  OffersInOrder(perf)' /\ NoRepeatIn(offers)' /\ \A q \in Runners : RoundsOf(q)'
<1>1. /\ TypeOK /\ Forget(r) /\ perf' = txPerf[r] /\ offers' = offers \o txOffers[r]
      /\ \A q \in Runners : RoundsOf(q)
  BY DEF Commit, Inv, GoRound
<1>2. OffersInOrder(txPerf[r]) /\ NoRepeatIn(txOffers[r]) /\ NoRepeatIn(offers)
  BY <1>1 DEF RoundsOf, GoRound
<1>3. offers \in Seq(Offer) /\ txOffers[r] \in Seq(Offer)
  BY <1>1 DEF TypeOK
<1>4. \A i \in DOMAIN txOffers[r] : OffersOf(offers, txOffers[r][i].shipment) = {}
  BY DEF Inv, RunInv, NewOffersAreFirst
<1>5. NoRepeatIn(offers \o txOffers[r])
  BY <1>2, <1>3, <1>4, NoRepeatTogether
<1>6. \A q \in Runners : RoundsOf(q)'
  BY <1>1, RoundForgotten
<1> QED
  BY <1>1, <1>2, <1>5, <1>6

LEMMA RoundStep ==
  ASSUME SteadyMarket, Inv, GoRound, [Next]_vars
  PROVE  GoRound'
<1>1. TypeOK /\ OffersInOrder(perf) /\ NoRepeatIn(offers) /\ \A r \in Runners : RoundsOf(r)
  BY DEF Inv, GoRound
<1>2. Arrangement'
  BY ArrangementStep DEF GoRound, SteadyMarket
<1> DEFINE Rest == OffersInOrder(perf) /\ NoRepeatIn(offers) /\ \A r \in Runners : RoundsOf(r)
<1>3. ASSUME UNCHANGED <<perf, offers, pc, progress>>
      PROVE  Rest'
  BY <1>1, <1>3, SameRound DEF progress
<1>4. ASSUME NEW r \in Runners, UNCHANGED <<perf, offers>>, RoundsOf(r)',
             \A q \in Runners \ {r} : /\ pc'[q] = pc[q] /\ attempt'[q] = attempt[q]
                                      /\ txPerf'[q] = txPerf[q] /\ txOffers'[q] = txOffers[q]
                                      /\ listed'[q] = listed[q]
      PROVE  Rest'
  <2>1. ASSUME NEW q \in Runners \ {r} PROVE RoundsOf(q)'
    BY <1>1, <1>4, SameRound
  <2> QED
    BY <1>1, <1>4, <2>1
<1>5. ASSUME NEW s \in Shipments, SubmitMove(s) \/ PatchShipment(s)
      PROVE  Rest'
  BY <1>3, <1>5 DEF SubmitMove, PatchShipment
<1>6. Volatile = {}
  BY DEF SteadyMarket
<1>7. ASSUME NEW r \in Runners, StartRun(r) PROVE Rest'
  <2>1. RoundsOf(r)'
    BY <1>7, ReadingInRound
  <2> QED
    BY <1>1, <1>4, <1>7, <2>1 DEF StartRun, progress, tables, TypeOK
<1>8. ASSUME NEW r \in Runners, AcquireLock(r) PROVE Rest'
  <2>1. RoundsOf(r)'
    BY <1>8, ReadingInRound
  <2> QED
    BY <1>1, <1>4, <1>8, <2>1 DEF AcquireLock, tables, TypeOK
<1>9. ASSUME NEW r \in Runners, NEW g \in Groups, AssignBands(r, g) PROVE Rest'
  <2>1. RoundsOf(r)'
    BY <1>9, ReadingInRound
  <2>2. \A q \in Runners \ {r} : txPerf'[q] = txPerf[q]
    BY <1>1, <1>9 DEF AssignBands, TypeOK
  <2>3. UNCHANGED <<perf, offers, pc, attempt, txOffers, listed>>
    BY <1>9 DEF AssignBands, tables
  <2> QED
    BY <1>4, <2>1, <2>2, <2>3
<1>10. ASSUME NEW r \in Runners, ListShipments(r) PROVE Rest'
  <2>1. RoundsOf(r)'
    BY <1>10, ReadingInRound
  <2> QED
    BY <1>1, <1>4, <1>10, <2>1 DEF ListShipments, tables, TypeOK
<1>11. ASSUME NEW r \in Runners, NEW s \in Shipments, BeginAttempt(r, s) PROVE Rest'
  <2>1. RoundsOf(r)'
    BY <1>11, BeginAttemptInRound
  <2>2. /\ UNCHANGED <<perf, offers, txPerf, txOffers>>
        /\ \A q \in Runners \ {r} : /\ pc'[q] = pc[q] /\ attempt'[q] = attempt[q]
                                    /\ listed'[q] = listed[q]
    BY <1>1, <1>11 DEF BeginAttempt, Drop, tables, TypeOK
  <2> QED
    BY <1>4, <2>1, <2>2
<1>12. ASSUME NEW r \in Runners, GiveUp(r) PROVE Rest'
  <2>1. RoundsOf(r)'
    BY <1>12, ReadingInRound
  <2> QED
    BY <1>1, <1>4, <1>12, <2>1 DEF GiveUp, Drop, tables, TypeOK
<1>13. ASSUME NEW r \in Runners, OfferAdministrative(r) \/ OfferForReal(r) PROVE Rest'
  <2>1. RoundsOf(r)'
    BY <1>13, AdministrativeInRound, OfferForRealInRound
  <2>2. PICK administrative \in BOOLEAN : RecordOffer(r, administrative)
    BY <1>13 DEF OfferAdministrative, OfferForReal
  <2>3. pc[r] = "offering" /\ ~ BackAtFirst(attempt[r]) /\ UNCHANGED <<perf, offers>>
    BY <1>13 DEF OfferAdministrative, OfferForReal, tables
  <2>4. \A q \in Runners \ {r} : txPerf'[q] = txPerf[q] /\ txOffers'[q] = txOffers[q]
    BY <2>2, <2>3, OfferInRound
  <2>5. \A q \in Runners \ {r} : /\ pc'[q] = pc[q] /\ attempt'[q] = attempt[q]
                                 /\ listed'[q] = listed[q]
    BY <1>1, <1>13 DEF OfferAdministrative, OfferForReal, Drop, TypeOK
  <2> QED
    BY <1>4, <2>1, <2>3, <2>4, <2>5
<1>14. ASSUME NEW r \in Runners, Commit(r) PROVE Rest'
  BY <1>14, CommitInRound
<1>15. ASSUME NEW r \in Runners, Rollback(r) PROVE Rest'
  <2>1. Forget(r) /\ UNCHANGED <<perf, offers>>
    BY <1>15 DEF Rollback, tables
  <2>2. \A q \in Runners : RoundsOf(q)'
    BY <1>1, <2>1, RoundForgotten
  <2> QED
    BY <1>1, <2>1, <2>2
<1>16. ASSUME UNCHANGED vars PROVE Rest'
  BY <1>3, <1>16 DEF vars, tables
<1> HIDE DEF Rest
<1>17. Rest'
  BY <1>5, <1>6, <1>7, <1>8, <1>9, <1>10, <1>11, <1>12, <1>13, <1>14, <1>15, <1>16
     DEF Next, RunStep
<1> QED
  BY <1>2, <1>17 DEF GoRound, Rest

LEMMA RoundHolds ==
  ASSUME SteadyMarket
  PROVE  Spec => []GoRound
<1>1. Init => GoRound
  BY RoundInit
<1>2. Inv /\ GoRound /\ [Next]_vars => GoRound'
  BY RoundStep
<1> QED
  BY <1>1, <1>2, Invariance, PTL DEF Spec

(* "we need to try again": an attempt ends for want of a TSP only when all *)
(* that are eligible have been tried, whatever the blackouts are and       *)
(* wherever in the round it began.                                         *)
THEOREM AllAreTriedBeforeGivingUp ==
  ASSUME SteadyMarket
  PROVE  Spec => []GivesUpOnlyWhenAllTried
<1>1. ASSUME Inv, GoRound PROVE GivesUpOnlyWhenAllTried
  <2> SUFFICES ASSUME NEW r \in Runners, pc[r] = "offering", BackAtFirst(attempt[r]),
                      NEW t \in Eligible(txPerf[r], attempt[r].shipment,
                                         listed[r][attempt[r].shipment].requestedPickup)
               PROVE  \E i \in OffersOf(txOffers[r], attempt[r].shipment) : txOffers[r][i].tspp = t
    BY DEF GivesUpOnlyWhenAllTried
  <2> DEFINE x == attempt[r].next
             day == listed[r][attempt[r].shipment].requestedPickup
  <2>1. InRound(attempt[r], txPerf[r], txOffers[r], day)
    BY <1>1 DEF GoRound, RoundsOf
  <2>2. /\ GroupOf[x].tdl = TdlOf[attempt[r].shipment] /\ day \in GroupOf[x].cycle
        /\ Tried(txOffers[r], attempt[r].shipment) = Round(attempt[r])
    BY <2>1 DEF InRound
  <2>3. Round(attempt[r]) = Market(GroupOf[x])
    BY DEF Round, BackAtFirst
  <2>4. x \in TSPPs
    BY <1>1 DEF Inv, Attempting
  <2>5. /\ t \in TSPPs /\ GroupOf[t].tdl = TdlOf[attempt[r].shipment] /\ day \in GroupOf[t].cycle
        /\ txPerf[r][t].band # 0
    BY DEF Eligible
  <2>6. GroupOf[t] = GroupOf[x]
    <3>1. GroupOf[t].cycle \cap GroupOf[x].cycle # {}
      BY <2>2, <2>5
    <3> QED
      BY <2>2, <2>4, <2>5, <3>1 DEF SteadyMarket
  <2>7. BVS[t] > mps
    BY <1>1, <2>5 DEF GoRound, Arrangement, Arranged, BandsInOrder
  <2>8. t \in Tried(txOffers[r], attempt[r].shipment)
    BY <2>2, <2>3, <2>5, <2>6, <2>7 DEF Market
  <2> QED
    BY <2>8 DEF Tried
<1> QED
  BY <1>1, RoundHolds, Invariance, PTL

(* No TSPP is offered the same shipment twice, in one run or in several.   *)
THEOREM OffersAreNotRepeated ==
  ASSUME SteadyMarket
  PROVE  Spec => []NoRepeatedOffer
<1>1. GoRound => NoRepeatedOffer
  BY DEF GoRound, NoRepeatIn, NoRepeatedOffer
<1> QED
  BY <1>1, RoundHolds, PTL

(* What the banded TSPPs of a group have been offered.                     *)
LEMMA PeersInOrder ==
  ASSUME Inv, GoRound, NEW t \in TSPPs, NEW u \in TSPPs, Peers(t, u)
  PROVE  /\ BVS[t] \in Nat /\ BVS[u] \in Nat
         /\ perf[t].offerCount \in Nat /\ perf[u].offerCount \in Nat
         /\ perf[t].band \in qualityBands /\ perf[u].band \in qualityBands
         /\ BVS[t] > BVS[u] => /\ perf[t].offerCount \in {perf[u].offerCount, perf[u].offerCount + 1}
                               /\ perf[t].band <= perf[u].band
<1>1. BVS[t] \in Nat /\ BVS[u] \in Nat
  BY AwardQueueAssumption DEF AwardQueueAssumption
<1>2. perf[t] \in Perf /\ perf[u] \in Perf /\ perf[t].band # 0 /\ perf[u].band # 0
  BY DEF Inv, TypeOK, Peers
<1>3. BVS[u] > mps /\ BVS[t] > mps /\ GroupOf[t] = GroupOf[u]
  BY <1>2 DEF GoRound, Arrangement, Arranged, BandsInOrder, Peers
<1>4. BVS[t] > BVS[u] => perf[t].offerCount \in {perf[u].offerCount, perf[u].offerCount + 1}
  BY <1>3 DEF GoRound, OffersInOrder
<1>5. BVS[t] > BVS[u] => perf[t].band <= perf[u].band
  BY <1>2, <1>3 DEF GoRound, Arrangement, Arranged, BandsInOrder, Market
<1> QED
  BY <1>1, <1>2, <1>4, <1>5 DEF Perf, qualityBands, numQualBands

(* The TSPPs of a group never differ by more than one offer, however many  *)
(* runs overlap or fail and whichever of the offers are administrative.    *)
THEOREM OffersAreBalanced ==
  ASSUME SteadyMarket
  PROVE  Spec => []BalancedOffers
<1>1. ASSUME Inv, GoRound PROVE BalancedOffers
  <2> SUFFICES ASSUME NEW t \in TSPPs, NEW u \in TSPPs, Peers(t, u)
               PROVE  perf[t].offerCount <= perf[u].offerCount + 1
    BY DEF BalancedOffers
  <2>1. Peers(u, t)
    BY DEF Peers
  <2>2. CASE BVS[t] > BVS[u]
    BY <1>1, <2>2, PeersInOrder
  <2>3. CASE BVS[u] > BVS[t]
    BY <1>1, <2>1, <2>3, PeersInOrder
  <2>4. CASE BVS[t] = BVS[u]
    <3>1. t = u
      BY <2>4 DEF SteadyMarket, Peers
    <3> QED
      BY <1>1, <3>1, PeersInOrder
  <2> QED
    BY <1>1, <2>2, <2>3, <2>4, PeersInOrder
<1> QED
  BY <1>1, RoundHolds, Invariance, PTL

(* The TSPPs of band 1 have been offered as many shipments as any other of *)
(* their group.                                                            *)
THEOREM BandOneIsAhead ==
  ASSUME SteadyMarket
  PROVE  Spec => []BandOneLeads
<1>1. ASSUME Inv, GoRound PROVE BandOneLeads
  <2> SUFFICES ASSUME NEW t \in TSPPs, NEW u \in TSPPs, Peers(t, u),
                      perf[t].band = 1, perf[u].band # 1
               PROVE  perf[t].offerCount >= perf[u].offerCount
    BY DEF BandOneLeads
  <2>1. Peers(u, t)
    BY DEF Peers
  <2>2. CASE BVS[t] > BVS[u]
    BY <1>1, <2>2, PeersInOrder
  <2>3. ASSUME BVS[u] > BVS[t] PROVE FALSE
    <3>1. perf[u].band <= 1 /\ perf[u].band \in qualityBands
      BY <1>1, <2>1, <2>3, PeersInOrder
    <3> QED
      BY <3>1 DEF qualityBands, numQualBands
  <2>4. ASSUME BVS[t] = BVS[u] PROVE FALSE
    BY <2>4 DEF SteadyMarket, Peers
  <2> QED
    BY <1>1, <2>2, <2>3, <2>4, PeersInOrder
<1> QED
  BY <1>1, RoundHolds, Invariance, PTL
=============================================================================
