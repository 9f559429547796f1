----------------------------- MODULE AwardQueue -----------------------------
(***************************************************************************)
(* The TSP award queue: AwardQueue.Run of pkg/awardqueue/awardqueue.go.    *)
(*                                                                         *)
(* A run is one READ COMMITTED database transaction.  It takes the         *)
(* advisory lock, bands the TSPPs of every group with an unbanded one,     *)
(* lists the unoffered shipments once, and offers each of them to one TSP  *)
(* after another until one has no blackout.  Runs are started by the       *)
(* submission of a move (a goroutine each) and by bin/tsp-award-queue, so  *)
(* several exist at once; nothing of a run is visible before its commit.   *)
(***************************************************************************)
EXTENDS QualityBands, Sequences

CONSTANTS
  Shipments,
  TSPPs,                \* rows of transportation_service_provider_performances
  TSPs,
  TspOf,                \* TSPPs -> TSPs
  BVS,                  \* TSPPs -> best value score
  TDLs,                 \* traffic distribution lists
  GroupOf,              \* TSPPs -> [tdl, cycle]: the list and rate cycle of the row
  TdlOf,                \* Shipments -> TDLs, as Shipment.BeforeSave determines it
  Days,                 \* pickup dates
  PickupDates,          \* actual pickup dates a shipment may be submitted with
  PatchDates,           \* pickup dates a shipment may be patched to afterwards
  Volatile,             \* the TSPs whose enrolment may change
  Blackouts,            \* subset of TSPs \X Days
  Runners,              \* the award queue runs that may be in progress together
  MaxOffers,            \* bound on the rows of shipment_offers
  MaxRollbacks,         \* bound on the runs that fail or are killed
  None

mps == 0                \* minimum performance score

Groups == {GroupOf[t] : t \in TSPPs}

ASSUME AwardQueueAssumption ==
  /\ TspOf \in [TSPPs -> TSPs]
  /\ BVS \in [TSPPs -> Nat]
  /\ GroupOf \in [TSPPs -> [tdl : TDLs, cycle : SUBSET Days]]
  /\ TdlOf \in [Shipments -> TDLs]
  /\ Volatile \subseteq TSPs
  /\ Blackouts \subseteq TSPs \X Days
  /\ PickupDates \subseteq Days
  /\ PatchDates \subseteq Days
  /\ None \notin Days \union Shipments \union TSPPs \union Runners
  /\ IsFiniteSet(TSPPs)
  /\ MaxOffers \in Nat
  /\ MaxRollbacks \in Nat

VARIABLES
  \* committed tables
  enrolled,       \* transportation_service_providers.enrolled, as a set
  shipment,       \* Shipments -> [status, requestedPickup, actualPickup]
  perf,           \* TSPPs -> [band, offerCount]; band 0 stands for NULL
  offers,         \* shipment_offers, in the order of creation
  lock,           \* holder of pg_advisory_xact_lock(awardQueueLockID)
  \* the runs
  pc,             \* Runners -> "idle", "waiting", "banding", "listing", "offering"
  txPerf,         \* Runners -> perf as the run's transaction sees it
  txOffers,       \* Runners -> the offers it has created
  txAwarded,      \* Runners -> the shipments it has set to AWARDED
  groups,         \* Runners -> the groups it still has to band
  listed,         \* Runners -> the listed shipments it still has to offer, as read
  attempt,        \* Runners -> the loop variables of attemptShipmentOffer
  rollbacks       \* number of runs rolled back, for MaxRollbacks

tables == <<enrolled, shipment, perf, offers>>
progress == <<txPerf, txOffers, txAwarded, groups, listed, attempt>>
vars == <<tables, lock, pc, progress, rollbacks>>

Offer == [shipment : Shipments, tspp : TSPPs, administrative : BOOLEAN]
Dates == [requestedPickup : Days \union {None}, actualPickup : Days \union {None}]
Perf == [band : 0..numQualBands, offerCount : Nat]
NoListed == [s \in {} |-> None]
NoAttempt == [shipment |-> None, first |-> None, next |-> None, again |-> FALSE]

Init ==
  /\ enrolled \in {TSPs, TSPs \ Volatile}
  /\ shipment = [s \in Shipments |->
                   [status |-> "DRAFT", requestedPickup |-> None, actualPickup |-> None]]
  /\ perf = [t \in TSPPs |-> [band |-> 0, offerCount |-> 0]]
  /\ offers = <<>>
  /\ lock = None
  /\ pc = [r \in Runners |-> "idle"]
  /\ txPerf = [r \in Runners |-> perf]
  /\ txOffers = [r \in Runners |-> <<>>]
  /\ txAwarded = [r \in Runners |-> {}]
  /\ groups = [r \in Runners |-> {}]
  /\ listed = [r \in Runners |-> NoListed]
  /\ attempt = [r \in Runners |-> NoAttempt]
  /\ rollbacks = 0
-----------------------------------------------------------------------------
(* What the queries of a run return.                                       *)

(* FetchUnbandedTSPPerformanceGroups: no condition on the best value score *)
UnbandedGroups(p) ==
  {GroupOf[t] : t \in {u \in TSPPs : p[u].band = 0 /\ TspOf[u] \in enrolled}}

(* FetchTSPPerformancesForQualityBandAssignment *)
Bandable(g) ==
  {t \in TSPPs : GroupOf[t] = g /\ BVS[t] > mps /\ TspOf[t] \in enrolled}

(* Faulty: worst score first. *)
RankingsAscending(S) ==
  {rank \in [S -> 1..Cardinality(S)] :
     \A t, u \in S : t # u => rank[t] # rank[u] /\ (BVS[t] < BVS[u] => rank[t] < rank[u])}

(* The orders "best_value_score DESC" allows: ties come in any order.      *)
Rankings(S) ==
  {rank \in [S -> 1..Cardinality(S)] :
     \A t, u \in S : t # u => rank[t] # rank[u] /\ (BVS[t] > BVS[u] => rank[t] < rank[u])}

OffersOf(book, s) == {i \in DOMAIN book : book[i].shipment = s}
RealOffersOf(book, s) == {i \in OffersOf(book, s) : ~ book[i].administrative}

(* Faulty: every submitted shipment counts as unoffered. *)
UnofferedByStatus(r) == {s \in Shipments : shipment[s].status = "SUBMITTED"}

(* FetchUnofferedShipments, as run r sees the tables *)
Unoffered(r) ==
  {s \in Shipments : shipment[s].status = "SUBMITTED" /\ OffersOf(offers \o txOffers[r], s) = {}}

DatesOf(s) ==
  [requestedPickup |-> shipment[s].requestedPickup, actualPickup |-> shipment[s].actualPickup]

(* The rows NextTSPPerformanceInQualityBand selects from.  The performance *)
(* period is left out: the book date is the day of submission.             *)
Eligible(p, s, day) ==
  {t \in TSPPs : /\ GroupOf[t].tdl = TdlOf[s]
                 /\ day \in GroupOf[t].cycle
                 /\ p[t].band # 0
                 /\ TspOf[t] \in enrolled}

(* ORDER BY offer_count ASC, best_value_score DESC: the possible first rows *)
NextInBand(p, S, b) ==
  LET inBand == {t \in S : p[t].band = b}
  IN  {t \in inBand : \A u \in inBand :
         \/ p[t].offerCount < p[u].offerCount
         \/ p[t].offerCount = p[u].offerCount /\ BVS[t] >= BVS[u]}

(* GatherNextEligibleTSPPerformances reduced to the offer counts, which is *)
(* all SelectNextTSPPerformance looks at.                                  *)
NextOfferCounts(p, S) ==
  [b \in {p[t].band : t \in S} |-> p[CHOOSE t \in NextInBand(p, S, b) : TRUE].offerCount]

(* NextEligibleTSPPerformance: the rows it may return; none stands for its *)
(* "Could not find any TSPs" error.                                        *)
NextEligible(p, s, day) ==
  LET S == Eligible(p, s, day)
  IN  IF S = {} THEN {}
      ELSE NextInBand(p, S, SelectNextTSPPerformance(NextOfferCounts(p, S)))

(* ShipmentWithinBlackoutDates: compares the actual pickup date, so a      *)
(* shipment without one is never within a blackout.                        *)
ShipmentWithinBlackoutDates(tsp, dates) == <<tsp, dates.actualPickup>> \in Blackouts
-----------------------------------------------------------------------------
(* The world outside the runs.                                             *)

(* SubmitMoveHandler: the shipment of a draft move becomes SUBMITTED.  A   *)
(* move can be submitted without a requested pickup date.                  *)
SubmitMove(s) ==
  /\ shipment[s].status = "DRAFT"
  /\ \E requested \in Days \union {None}, actual \in PickupDates \union {None} :
       shipment' = [shipment EXCEPT ![s] = [status |-> "SUBMITTED",
                                            requestedPickup |-> requested,
                                            actualPickup |-> actual]]
  /\ UNCHANGED <<enrolled, perf, offers, lock, pc, progress, rollbacks>>

(* PatchShipmentHandler replaces either pickup date.  The row stays locked *)
(* from a run's AwardShipment until that run has ended.  Its read and its  *)
(* write are one step here; ShipmentLifecycle takes them apart, where a    *)
(* write that is late brings an older status back.                         *)
PatchShipment(s) ==
  /\ \A r \in Runners : s \notin txAwarded[r]
  /\ shipment[s].status # "DRAFT"
  /\ \E day \in PatchDates :
       \/ shipment' = [shipment EXCEPT ![s].requestedPickup = day]
       \/ shipment' = [shipment EXCEPT ![s].actualPickup = day]
  /\ UNCHANGED <<enrolled, perf, offers, lock, pc, progress, rollbacks>>

(* The enrolment of TSPs is maintained directly in the database.           *)
ChangeEnrolment(p) ==
  /\ enrolled' = IF p \in enrolled THEN enrolled \ {p} ELSE enrolled \union {p}
  /\ UNCHANGED <<shipment, perf, offers, lock, pc, progress, rollbacks>>
-----------------------------------------------------------------------------
(* The steps of a run.                                                     *)

Forget(r) ==
  /\ pc' = [pc EXCEPT ![r] = "idle"]
  /\ lock' = IF lock = r THEN None ELSE lock
  /\ txPerf' = [txPerf EXCEPT ![r] = [t \in TSPPs |-> [band |-> 0, offerCount |-> 0]]]
  /\ txOffers' = [txOffers EXCEPT ![r] = <<>>]
  /\ txAwarded' = [txAwarded EXCEPT ![r] = {}]
  /\ groups' = [groups EXCEPT ![r] = {}]
  /\ listed' = [listed EXCEPT ![r] = NoListed]
  /\ attempt' = [attempt EXCEPT ![r] = NoAttempt]

(* "go awardqueue.NewAwardQueue(...).Run(ctx)", or bin/tsp-award-queue     *)
StartRun(r) ==
  /\ pc[r] = "idle"
  /\ pc' = [pc EXCEPT ![r] = "waiting"]
  /\ UNCHANGED <<tables, lock, progress, rollbacks>>

(* Faulty: the run does not wait for the advisory lock. *)
AcquireNoLock(r) ==
  /\ pc[r] = "waiting"
  /\ lock' = r
  /\ pc' = [pc EXCEPT ![r] = "banding"]
  /\ txPerf' = [txPerf EXCEPT ![r] = perf]
  /\ groups' = [groups EXCEPT ![r] = UnbandedGroups(perf)]
  /\ UNCHANGED <<tables, txOffers, txAwarded, listed, attempt, rollbacks>>

(* waitForLock, then FetchUnbandedTSPPerformanceGroups                     *)
AcquireLock(r) ==
  /\ pc[r] = "waiting"
  /\ lock = None
  /\ lock' = r
  /\ pc' = [pc EXCEPT ![r] = "banding"]
  /\ txPerf' = [txPerf EXCEPT ![r] = perf]
  /\ groups' = [groups EXCEPT ![r] = UnbandedGroups(perf)]
  /\ UNCHANGED <<tables, txOffers, txAwarded, listed, attempt, rollbacks>>

(* assignPerformanceBandsForTSPPerformanceGroup                            *)
AssignBands(r, g) ==
  /\ pc[r] = "banding"
  /\ g \in groups[r]
  /\ \E rank \in Rankings(Bandable(g)) :
       txPerf' = [txPerf EXCEPT ![r] =
         [t \in TSPPs |->
            IF t \in Bandable(g)
            THEN [@[t] EXCEPT !.band = BandOfRank(Cardinality(Bandable(g)), rank[t])]
            ELSE @[t]]]
  /\ groups' = [groups EXCEPT ![r] = @ \ {g}]
  /\ UNCHANGED <<tables, lock, pc, txOffers, txAwarded, listed, attempt, rollbacks>>

(* findAllUnassignedShipments: the rows are read here and used until the   *)
(* end of the run.                                                         *)
ListShipments(r) ==
  /\ pc[r] = "banding"
  /\ groups[r] = {}
  /\ pc' = [pc EXCEPT ![r] = "listing"]
  /\ listed' = [listed EXCEPT ![r] = [s \in Unoffered(r) |-> DatesOf(s)]]
  /\ UNCHANGED <<tables, lock, txPerf, txOffers, txAwarded, groups, attempt, rollbacks>>

(* The shipment is done with, whether it was offered or not; assignShipments *)
(* logs an error and goes on with the next one.                            *)
Drop(r, s) ==
  /\ pc' = [pc EXCEPT ![r] = "listing"]
  /\ listed' = [listed EXCEPT ![r] = [u \in DOMAIN @ \ {s} |-> @[u]]]
  /\ attempt' = [attempt EXCEPT ![r] = NoAttempt]

(* attemptShipmentOffer up to its loop: validateShipmentForAward and the   *)
(* first eligible TSPP.  The table has no order, so any shipment is next.  *)
BeginAttempt(r, s) ==
  /\ pc[r] = "listing"
  /\ s \in DOMAIN listed[r]
  /\ LET next == NextEligible(txPerf[r], s, listed[r][s].requestedPickup)
     IN  \/ /\ next = {}
            /\ Drop(r, s)
         \/ \E t \in next :
              /\ attempt' = [attempt EXCEPT ![r] =
                   [shipment |-> s, first |-> t, next |-> t, again |-> FALSE]]
              /\ pc' = [pc EXCEPT ![r] = "offering"]
              /\ UNCHANGED listed
  /\ UNCHANGED <<tables, lock, txPerf, txOffers, txAwarded, groups, rollbacks>>

(* Faulty: giving up after a single try. *)
AfterOneTry(a) == a.again

BackAtFirst(a) == a.again /\ a.next = a.first

(* "could not find a TSP without blackout dates"                           *)
GiveUp(r) ==
  /\ pc[r] = "offering"
  /\ BackAtFirst(attempt[r])
  /\ Drop(r, attempt[r].shipment)
  /\ UNCHANGED <<tables, lock, txPerf, txOffers, txAwarded, groups, rollbacks>>

(* Faulty: administrative offers are not counted; counting down. *)
RecordUncounted(r, administrative) ==
  /\ Len(offers) + Len(txOffers[r]) < MaxOffers
  /\ txOffers' = [txOffers EXCEPT ![r] =
       Append(@, [shipment |-> attempt[r].shipment,
                  tspp |-> attempt[r].next,
                  administrative |-> administrative])]
  /\ txPerf' = IF administrative THEN txPerf
               ELSE [txPerf EXCEPT ![r][attempt[r].next].offerCount = @ + 1]
RecordDownwards(r, administrative) ==
  /\ Len(offers) + Len(txOffers[r]) < MaxOffers
  /\ txOffers' = [txOffers EXCEPT ![r] =
       Append(@, [shipment |-> attempt[r].shipment,
                  tspp |-> attempt[r].next,
                  administrative |-> administrative])]
  /\ txPerf' = [txPerf EXCEPT ![r][attempt[r].next].offerCount = @ - 1]

(* CreateShipmentOffer and IncrementTSPPerformanceOfferCount for the TSPP  *)
(* whose turn it is.                                                       *)
RecordOffer(r, administrative) ==
  /\ Len(offers) + Len(txOffers[r]) < MaxOffers
  /\ txOffers' = [txOffers EXCEPT ![r] =
       Append(@, [shipment |-> attempt[r].shipment,
                  tspp |-> attempt[r].next,
                  administrative |-> administrative])]
  /\ txPerf' = [txPerf EXCEPT ![r][attempt[r].next].offerCount = @ + 1]

(* Faulty: a TSP within a blackout is passed over before its try is counted *)
(* or recorded, and is the next one again.                                 *)
PassOver(r) ==
  LET s == attempt[r].shipment
  IN  /\ pc[r] = "offering"
      /\ ~ BackAtFirst(attempt[r])
      /\ ShipmentWithinBlackoutDates(TspOf[attempt[r].next], listed[r][s])
      /\ \E u \in NextEligible(txPerf[r], s, listed[r][s].requestedPickup) :
           attempt' = [attempt EXCEPT ![r].next = u]
      /\ UNCHANGED <<tables, lock, pc, txPerf, txOffers, txAwarded, groups, listed, rollbacks>>

(* A TSP within a blackout gets an administrative shipment, and the loop   *)
(* asks for the next TSPP.                                                 *)
OfferAdministrative(r) ==
  LET s == attempt[r].shipment
      t == attempt[r].next
  IN  /\ pc[r] = "offering"
      /\ ~ BackAtFirst(attempt[r])
      /\ ShipmentWithinBlackoutDates(TspOf[t], listed[r][s])
      /\ RecordOffer(r, TRUE)
      /\ LET next == NextEligible(txPerf'[r], s, listed[r][s].requestedPickup)
         IN  \/ next = {} /\ Drop(r, s)
             \/ \E u \in next :
                  /\ attempt' = [attempt EXCEPT ![r].next = u, ![r].again = TRUE]
                  /\ UNCHANGED <<pc, listed>>
      /\ UNCHANGED <<tables, lock, txAwarded, groups, rollbacks>>

(* Any other TSP gets the shipment: AwardShipment.                         *)
OfferForReal(r) ==
  LET s == attempt[r].shipment
  IN  /\ pc[r] = "offering"
      /\ ~ BackAtFirst(attempt[r])
      /\ ~ ShipmentWithinBlackoutDates(TspOf[attempt[r].next], listed[r][s])
      /\ RecordOffer(r, FALSE)
      /\ txAwarded' = [txAwarded EXCEPT ![r] =
           @ \union (IF shipment[s].status = "SUBMITTED" THEN {s} ELSE {})]
      /\ Drop(r, s)
      /\ UNCHANGED <<tables, lock, groups, rollbacks>>

(* The transaction of Run commits and releases the lock.                   *)
Commit(r) ==
  /\ pc[r] = "listing"
  /\ listed[r] = NoListed
  /\ perf' = txPerf[r]
  /\ offers' = offers \o txOffers[r]
  /\ shipment' = [s \in Shipments |->
       IF s \in txAwarded[r] THEN [shipment[s] EXCEPT !.status = "AWARDED"] ELSE shipment[s]]
  /\ Forget(r)
  /\ UNCHANGED <<enrolled, rollbacks>>

(* Faulty: the award is not part of the transaction. *)
RollbackKeepingAwards(r) ==
  /\ pc[r] # "idle"
  /\ rollbacks < MaxRollbacks
  /\ rollbacks' = rollbacks + 1
  /\ shipment' = [s \in Shipments |->
       IF s \in txAwarded[r] THEN [shipment[s] EXCEPT !.status = "AWARDED"] ELSE shipment[s]]
  /\ Forget(r)
  /\ UNCHANGED <<enrolled, perf, offers>>

(* A database error, which also fails every later statement of the         *)
(* transaction, or the end of the process.                                 *)
Rollback(r) ==
  /\ pc[r] # "idle"
  /\ rollbacks < MaxRollbacks
  /\ rollbacks' = rollbacks + 1
  /\ Forget(r)
  /\ UNCHANGED tables

RunStep(r) ==
  \/ AcquireLock(r)
  \/ \E g \in Groups : AssignBands(r, g)
  \/ ListShipments(r)
  \/ \E s \in Shipments : BeginAttempt(r, s)
  \/ GiveUp(r)
  \/ OfferAdministrative(r)
  \/ OfferForReal(r)
  \/ Commit(r)

Next ==
  \/ \E s \in Shipments : SubmitMove(s) \/ PatchShipment(s)
  \/ \E p \in Volatile : ChangeEnrolment(p)
  \/ \E r \in Runners : StartRun(r) \/ RunStep(r) \/ Rollback(r)

Spec == Init /\ [][Next]_vars

(* A started run goes on; PostgreSQL queues the waiters of a lock, so each *)
(* is served; and the binary is run again and again.                       *)
Fairness ==
  /\ \A r \in Runners : WF_vars(RunStep(r)) /\ SF_vars(AcquireLock(r))
  /\ WF_vars(\E r \in Runners : StartRun(r))

FairSpec == Spec /\ Fairness
-----------------------------------------------------------------------------
(* Safety, whatever happens to enrolments and pickup dates.                *)

(* The tables and the variables of a run are well formed: bands are 1..4   *)
(* or NULL, and the offer counts never go below zero.                      *)
TypeOK ==
  /\ enrolled \subseteq TSPs
  /\ shipment \in [Shipments -> [status : {"DRAFT", "SUBMITTED", "AWARDED"},
                                 requestedPickup : Days \union {None},
                                 actualPickup : Days \union {None}]]
  /\ perf \in [TSPPs -> Perf]
  /\ offers \in Seq(Offer)
  /\ lock \in Runners \union {None}
  /\ pc \in [Runners -> {"idle", "waiting", "banding", "listing", "offering"}]
  /\ txPerf \in [Runners -> [TSPPs -> Perf]]
  /\ txOffers \in [Runners -> Seq(Offer)]
  /\ txAwarded \in [Runners -> SUBSET Shipments]
  /\ groups \in [Runners -> SUBSET Groups]
  /\ listed \in [Runners -> UNION {[S -> Dates] : S \in SUBSET Shipments}]
  /\ attempt \in [Runners -> [shipment : Shipments \union {None},
                              first : TSPPs \union {None},
                              next : TSPPs \union {None},
                              again : BOOLEAN]]
  /\ rollbacks \in 0..MaxRollbacks

(* A shipment is given to at most one TSP for real, although several runs  *)
(* overlap and each reads the unoffered shipments only once.               *)
OneRealOffer ==
  \A s \in Shipments : \A i, j \in RealOffersOf(offers, s) : i = j

(* shipments.status and shipment_offers agree: the two tables are written  *)
(* by different statements of attemptShipmentOffer.                        *)
AwardedIffOffered ==
  \A s \in Shipments :
    shipment[s].status = "AWARDED" <=> RealOffersOf(offers, s) # {}

OffersTo(book, t) == {i \in DOMAIN book : book[i].tspp = t}

(* The offer_count column, a read-modify-write, equals the number of rows  *)
(* of shipment_offers for the TSPP, administrative ones included.          *)
OfferCountIsLedger ==
  \A t \in TSPPs : perf[t].offerCount = Cardinality(OffersTo(offers, t))
-----------------------------------------------------------------------------
(* Fairness among TSPs.  These hold when enrolment does not change and no  *)
(* two TSPPs of a group have the same best value score.                    *)

(* "we need to try again": the loop of attemptShipmentOffer stops at the   *)
(* first TSPP only after every eligible TSPP has been tried.               *)
GivesUpOnlyWhenAllTried ==
  \A r \in Runners :
    pc[r] = "offering" /\ BackAtFirst(attempt[r]) =>
      LET s == attempt[r].shipment
      IN  \A t \in Eligible(txPerf[r], s, listed[r][s].requestedPickup) :
            \E i \in OffersOf(txOffers[r], s) : txOffers[r][i].tspp = t

(* No TSPP is offered the same shipment twice: FetchShipmentOfferByTSP and *)
(* FetchShipmentByTSP would not find it any more.                          *)
NoRepeatedOffer ==
  \A i, j \in DOMAIN offers :
    offers[i].shipment = offers[j].shipment /\ offers[i].tspp = offers[j].tspp => i = j

Peers(t, u) ==
  /\ GroupOf[t] = GroupOf[u]
  /\ {TspOf[t], TspOf[u]} \subseteq enrolled
  /\ perf[t].band # 0 /\ perf[u].band # 0

(* Offers go round: the TSPPs of a group never differ by more than one.    *)
BalancedOffers ==
  \A t, u \in TSPPs : Peers(t, u) => perf[t].offerCount <= perf[u].offerCount + 1

(* "the TSPs in quality band 1 will always have been offered the greatest  *)
(* number of shipments", the premise of SelectNextTSPPerformance.          *)
BandOneLeads ==
  \A t, u \in TSPPs :
    Peers(t, u) /\ perf[t].band = 1 /\ perf[u].band # 1 =>
      perf[t].offerCount >= perf[u].offerCount

(* The better the score of a TSPP, the better its band.                    *)
BandsFollowScore ==
  \A t, u \in TSPPs :
    Peers(t, u) /\ BVS[t] > BVS[u] => perf[t].band <= perf[u].band

(* The bands of a group have the sizes getTSPsPerBand gives them.          *)
BandsAreFilled ==
  \A g \in Groups, b \in qualityBands :
    LET banded == {t \in TSPPs : GroupOf[t] = g /\ perf[t].band # 0}
    IN  Cardinality({t \in banded : perf[t].band = b}) = getTSPsPerBand(Cardinality(banded))[b]
-----------------------------------------------------------------------------
(* Liveness.                                                               *)

(* While no enrolment changes every run ends and releases the lock, also   *)
(* when every TSP has a blackout: the loop of attemptShipmentOffer comes   *)
(* back to its first TSPP.  It need not end when the enrolment of the      *)
(* first TSP ends while the loop is under way and the others all have      *)
(* blackouts: nothing else than the first TSPP stops it.                   *)
EveryRunEnds ==
  Volatile = {} => \A r \in Runners : pc[r] # "idle" ~> pc[r] = "idle"

Awardable(s) ==
  /\ shipment[s].status = "SUBMITTED"
  /\ \E t \in TSPPs :
       /\ GroupOf[t].tdl = TdlOf[s]
       /\ shipment[s].requestedPickup \in GroupOf[t].cycle
       /\ BVS[t] > mps
       /\ TspOf[t] \in enrolled
       /\ ~ ShipmentWithinBlackoutDates(TspOf[t], DatesOf(s))

(* A submitted shipment that some TSP could take is awarded in the end.    *)
EventuallyAwarded ==
  \A s \in Shipments : Awardable(s) ~> shipment[s].status = "AWARDED"

Book == INSTANCE OfferBook WITH status <- [s \in Shipments |-> shipment[s].status]

(* The award queue keeps the promise of the offer book: nothing of a run   *)
(* is seen before its commit, and then all of it at once.                  *)
KeepsTheBook == Book!BookSpec
=============================================================================
