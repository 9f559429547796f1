-------------------------- MODULE ShipmentLifecycle --------------------------
(***************************************************************************)
(* The handlers that change one shipment, its offers, its base line items  *)
(* and its bill of lading, as requests that overlap.                       *)
(*                                                                         *)
(* Every handler reads the row of the shipment, checks and changes it in   *)
(* memory, and then writes all of its columns back.  No row is locked      *)
(* between the two and no version is compared, so what is written may be   *)
(* based on a row that has changed since.  Each handler is therefore two   *)
(* actions: one that reads, with the handler's checks, and one that is the *)
(* transaction of its writes.                                              *)
(***************************************************************************)
EXTENDS Integers, Sequences

CONSTANTS
  Requests,     \* requests and award queue runs that may be in progress together
  TSPs,
  NoTSP,
  None,
  MaxOffers,    \* bound on the offers of the shipment
  MaxGBLs       \* bound on its bills of lading and on the GBL numbers given out

ASSUME LifecycleAssumption ==
  /\ NoTSP \notin TSPs
  /\ None \notin Requests
  /\ MaxOffers \in Nat
  /\ MaxGBLs \in Nat

VARIABLES
  move,         \* moves.status: "DRAFT", or "SUBMITTED" for what comes after
  row,          \* the row of shipments
  offers,       \* its rows of shipment_offers, in the order of creation
  baseItems,    \* how often its base line items are there
  gbls,         \* number of its GOV_BILL_OF_LADING move documents
  gblSequence,  \* gbl_number_trackers.sequence_number
  rowLock,      \* the request whose transaction has updated the row and goes on
  abandoned,    \* history: a recalculation deleted the base line items and failed,
                \* and none were created since
  req           \* Requests -> what the request has read and is going to write

vars == <<move, row, offers, baseItems, gbls, gblSequence, rowLock, abandoned, req>>

Statuses == {"DRAFT", "SUBMITTED", "AWARDED", "ACCEPTED", "APPROVED", "IN_TRANSIT", "DELIVERED"}

(* gblNumber and approveDate are 0 and FALSE when NULL.                    *)
Row == [status : Statuses, submitDate : BOOLEAN, gblNumber : Nat, approveDate : BOOLEAN]

Offer == [tsp : TSPs, administrative : BOOLEAN, accepted : BOOLEAN]

Draft == [status |-> "DRAFT", submitDate |-> FALSE, gblNumber |-> 0, approveDate |-> FALSE]

(* A request that is in progress: what it is about to write, and from what *)
(* it read.                                                                *)
Running ==
  [todo : {"submit", "move", "shipment", "offer", "award", "give up", "accept",
           "deliver", "price", "charge", "gbl",
           "recalculate", "delete", "resave", "save again"},
   move : {"DRAFT", "SUBMITTED"},
   row : Row,
   offer : Nat,
   deleted : BOOLEAN]   \* a recalculation that has deleted the base line items

(* What is to be written back to shipments.                                *)
Saving(todo, newRow) ==
  [todo |-> todo, move |-> "DRAFT", row |-> newRow, offer |-> 0, deleted |-> FALSE]

Idle == Saving("nothing", Draft)

Init ==
  /\ move = "DRAFT"
  /\ row = Draft
  /\ offers = <<>>
  /\ baseItems = 0
  /\ gbls = 0
  /\ gblSequence = 0
  /\ rowLock = None
  /\ abandoned = FALSE
  /\ req = [r \in Requests |-> Idle]

tables == <<move, row, offers, baseItems, gbls, gblSequence, rowLock, abandoned>>
-----------------------------------------------------------------------------
(* Reading.                                                                *)

OffersTo(t) == {i \in DOMAIN offers : offers[i].tsp = t}
Accepted == {i \in DOMAIN offers : offers[i].accepted}
RealOffers == {i \in DOMAIN offers : ~ offers[i].administrative}

(* FetchShipmentByTSP joins with the offers and wants one row: the TSP has *)
(* been offered the shipment once, administratively or for real.           *)
Serves(t) == \E i \in OffersTo(t) : OffersTo(t) = {i}

(* Request r has read its rows, has passed its checks and will write.      *)
Begins(r, task) ==
  /\ req[r] = Idle
  /\ req' = [req EXCEPT ![r] = task]
  /\ UNCHANGED tables

(* SubmitMoveHandler: Move.Submit and Shipment.Submit                      *)
SubmitMove(r) ==
  /\ move = "DRAFT"
  /\ row.status = "DRAFT"
  /\ Begins(r, Saving("submit", [row EXCEPT !.status = "SUBMITTED", !.submitDate = TRUE]))

(* PatchMoveHandler                                                        *)
PatchMove(r) == Begins(r, [Idle EXCEPT !.todo = "move", !.move = move])

(* PatchShipmentHandler of the internal API: columns that are not modelled *)
PatchShipment(r) == Begins(r, Saving("shipment", row))

(* PatchShipmentHandler of the public API, for a TSP                       *)
PatchShipmentByTSP(r, t) == Serves(t) /\ PatchShipment(r)

CompletePmSurvey(r, t) == Serves(t) /\ PatchShipment(r)

(* Order.AfterSave, after the orders were changed: "touch" each shipment   *)
TouchAllShipments(r) == PatchShipment(r)

(* The award queue holds its advisory lock until it commits.               *)
Awarding(r) == req[r].todo \in {"offer", "award", "give up"}

(* Faulty: a submitted shipment counts as unoffered. *)
ListSubmitted(r) ==
  /\ \A q \in Requests : ~ Awarding(q)
  /\ row.status = "SUBMITTED"
  /\ Begins(r, Saving("offer", Draft))

(* FetchUnofferedShipments returns the shipment.                           *)
ListUnoffered(r) ==
  /\ \A q \in Requests : ~ Awarding(q)
  /\ row.status = "SUBMITTED"
  /\ offers = <<>>
  /\ Begins(r, Saving("offer", Draft))

(* AwardShipment reads the row again.                                      *)
AwardShipment(r) ==
  /\ req[r].todo = "offer"
  /\ row.status = "SUBMITTED"
  /\ req' = [req EXCEPT ![r].todo = "award",
                        ![r].row = [row EXCEPT !.status = "AWARDED"]]
  /\ UNCHANGED tables

(* Every TSP tried has a blackout.                                         *)
GiveUp(r) ==
  /\ req[r].todo = "offer"
  /\ req' = [req EXCEPT ![r].todo = "give up"]
  /\ UNCHANGED tables

(* Faulty: the status of the shipment is not checked. *)
AcceptAnyShipment(r, t) ==
  /\ Serves(t)
  /\ \E i \in OffersTo(t) :
       /\ ~ offers[i].accepted
       /\ Begins(r, [todo |-> "accept", move |-> "DRAFT", offer |-> i, deleted |-> FALSE,
                      row |-> [row EXCEPT !.status = "ACCEPTED"]])

(* AcceptShipmentForTSP: Shipment.Accept and ShipmentOffer.Accept          *)
AcceptShipment(r, t) ==
  /\ Serves(t)
  /\ row.status = "AWARDED"
  /\ \E i \in OffersTo(t) :
       /\ ~ offers[i].accepted
       /\ Begins(r, [todo |-> "accept", move |-> "DRAFT", offer |-> i, deleted |-> FALSE,
                      row |-> [row EXCEPT !.status = "ACCEPTED"]])

(* Faulty: the approve date is not set. *)
ApproveUndated(r) ==
  /\ row.status = "ACCEPTED"
  /\ ~ row.approveDate
  /\ Begins(r, Saving("shipment", [row EXCEPT !.status = "APPROVED"]))

ApproveHHG(r) ==
  /\ row.status = "ACCEPTED"
  /\ ~ row.approveDate
  /\ Begins(r, Saving("shipment", [row EXCEPT !.status = "APPROVED", !.approveDate = TRUE]))

(* TransportShipmentHandler: Shipment.Pack and Shipment.Transport          *)
TransportShipment(r, t) ==
  /\ Serves(t)
  /\ row.status = "APPROVED"
  /\ Begins(r, Saving("shipment", [row EXCEPT !.status = "IN_TRANSIT"]))

(* DeliverShipmentHandler: Shipment.Deliver                                *)
DeliverShipment(r, t) ==
  /\ Serves(t)
  /\ row.status = "IN_TRANSIT"
  /\ Begins(r, Saving("deliver", [row EXCEPT !.status = "DELIVERED"]))

(* RecalculateShipmentLineItems: a shipment that was read DELIVERED, and   *)
(* perhaps lacks base line items, is to be priced again.                   *)
Recalculate(r) ==
  /\ row.status = "DELIVERED"
  /\ Begins(r, Saving("recalculate", row))

(* CreateGovBillOfLadingHandler looks for "extant GBLs".                   *)
CreateGovBillOfLading(r, t) ==
  /\ Serves(t)
  /\ gbls = 0
  /\ Begins(r, Saving("gbl", Draft))
-----------------------------------------------------------------------------
(* Writing.                                                                *)

Done(r) == req' = [req EXCEPT ![r] = Idle]
GoesOn(r, todo) == req' = [req EXCEPT ![r].todo = todo]

(* An UPDATE of the row waits for the transaction that has updated it.     *)
UpdatesRow(newRow) ==
  /\ rowLock = None
  /\ row' = newRow

(* Faulty: the tracker counts down. *)
SaveCountingDown(r) ==
  /\ req[r].todo = "submit"
  /\ UpdatesRow([req[r].row EXCEPT !.gblNumber = gblSequence + 1])
  /\ gblSequence' = gblSequence - 1
  /\ move' = "SUBMITTED"
  /\ Done(r)
  /\ UNCHANGED <<offers, baseItems, gbls, rowLock, abandoned>>

(* SaveMoveDependencies, with AssignGBLNumber: the tracker is incremented  *)
(* in the database, the check that there is no number yet is on the row    *)
(* that was read.                                                          *)
SaveMoveDependencies(r) ==
  /\ req[r].todo = "submit"
  /\ req[r].row.gblNumber = 0
  /\ gblSequence < MaxGBLs
  /\ gblSequence' = gblSequence + 1
  /\ UpdatesRow([req[r].row EXCEPT !.gblNumber = gblSequence + 1])
  /\ move' = "SUBMITTED"
  /\ Done(r)
  /\ UNCHANGED <<offers, baseItems, gbls, rowLock, abandoned>>

SaveMove(r) ==
  /\ req[r].todo = "move"
  /\ move' = req[r].move
  /\ Done(r)
  /\ UNCHANGED <<row, offers, baseItems, gbls, gblSequence, rowLock, abandoned>>

(* ValidateAndSave of the shipment                                         *)
SaveShipment(r) ==
  /\ req[r].todo = "shipment"
  /\ UpdatesRow(req[r].row)
  /\ Done(r)
  /\ UNCHANGED <<move, offers, baseItems, gbls, gblSequence, rowLock, abandoned>>

(* The offers of a run to the TSPs of chosen, in this order; all but the   *)
(* last real-th are administrative.                                        *)
Batch(n, chosen, real) ==
  [i \in 1..n |-> [tsp |-> chosen[i], administrative |-> i # real, accepted |-> FALSE]]

(* The commit of a run that awarded the shipment.  The UPDATE of           *)
(* AwardShipment locks the row until then.                                 *)
CommitAward(r) ==
  /\ req[r].todo = "award"
  /\ UpdatesRow(req[r].row)
  /\ \E n \in 1..(MaxOffers - Len(offers)) : \E chosen \in [1..n -> TSPs] :
       offers' = offers \o Batch(n, chosen, n)
  /\ Done(r)
  /\ UNCHANGED <<move, baseItems, gbls, gblSequence, rowLock, abandoned>>

(* The commit of a run that gave up: it leaves administrative offers only. *)
CommitGivenUp(r) ==
  /\ req[r].todo = "give up"
  /\ \E n \in 1..(MaxOffers - Len(offers)) : \E chosen \in [1..n -> TSPs] :
       offers' = offers \o Batch(n, chosen, 0)
  /\ Done(r)
  /\ UNCHANGED <<move, row, baseItems, gbls, gblSequence, rowLock, abandoned>>

(* The commit of a run whose AwardShipment found the shipment in another   *)
(* status: the error is logged, the offer to the last TSP stays.           *)
CommitUnawarded(r) ==
  /\ req[r].todo = "offer"
  /\ row.status # "SUBMITTED"
  /\ \E n \in 1..(MaxOffers - Len(offers)) : \E chosen \in [1..n -> TSPs] :
       offers' = offers \o Batch(n, chosen, n)
  /\ Done(r)
  /\ UNCHANGED <<move, row, baseItems, gbls, gblSequence, rowLock, abandoned>>

(* Faulty: the shipment is saved, the offer is not. *)
SaveShipmentOnly(r) ==
  /\ req[r].todo = "accept"
  /\ UpdatesRow(req[r].row)
  /\ Done(r)
  /\ UNCHANGED <<move, offers, baseItems, gbls, gblSequence, rowLock, abandoned>>

(* saveShipmentAndOffer, one transaction                                   *)
SaveShipmentAndOffer(r) ==
  /\ req[r].todo = "accept"
  /\ UpdatesRow(req[r].row)
  /\ offers' = [offers EXCEPT ![req[r].offer].accepted = TRUE]
  /\ Done(r)
  /\ UNCHANGED <<move, baseItems, gbls, gblSequence, rowLock, abandoned>>

(* Faulty: the shipment is saved before the transaction; no row is locked. *)
UpdateAtOnce(r) ==
  /\ req[r].todo = "deliver"
  /\ UpdatesRow(req[r].row)
  /\ GoesOn(r, "price")
  /\ UNCHANGED <<move, offers, baseItems, gbls, gblSequence, rowLock, abandoned>>

(* DeliverAndPriceShipment, or the SaveShipmentAndPricingInfo a            *)
(* recalculation ends with; either is one transaction: its UPDATE of the   *)
(* shipment                                                                *)
UpdateDelivered(r) ==
  /\ req[r].todo = "deliver"
  /\ rowLock = None
  /\ rowLock' = r
  /\ GoesOn(r, "price")
  /\ UNCHANGED <<move, row, offers, baseItems, gbls, gblSequence, abandoned>>

(* createUniqueShipmentLineItem finds no line items of another transaction. *)
(* If it finds some it is an error, and the request fails.                 *)
FetchShipmentLineItemsByItemID(r) ==
  /\ req[r].todo = "price"
  /\ baseItems = 0
  /\ GoesOn(r, "charge")
  /\ UNCHANGED tables

(* The line items are created and the transaction commits.                 *)
CommitDelivery(r) ==
  /\ req[r].todo = "charge"
  /\ baseItems' = baseItems + 1
  /\ row' = req[r].row
  /\ rowLock' = IF rowLock = r THEN None ELSE rowLock
  /\ abandoned' = FALSE
  /\ Done(r)
  /\ UNCHANGED <<move, offers, gbls, gblSequence>>

CreateMoveDocument(r) ==
  /\ req[r].todo = "gbl"
  /\ gbls < MaxGBLs
  /\ gbls' = gbls + 1
  /\ Done(r)
  /\ UNCHANGED <<move, row, offers, baseItems, gblSequence, rowLock, abandoned>>

(* PriceShipment of a recalculation saves the shipment three times before  *)
(* it prices it: within DeleteBaseShipmentLineItems, but on a connection   *)
(* of its own, so that the save is there before the deletion; likewise     *)
(* within DeleteStorageInTransitLineItems; and once more after them.       *)
SaveRecalculated(r) ==
  /\ \/ req[r].todo = "recalculate" /\ GoesOn(r, "delete")
     \/ req[r].todo = "resave" /\ GoesOn(r, "save again")
     \/ req[r].todo = "save again" /\ GoesOn(r, "deliver")
  /\ UpdatesRow(req[r].row)
  /\ UNCHANGED <<move, offers, baseItems, gbls, gblSequence, rowLock, abandoned>>

(* The commit of DeleteBaseShipmentLineItems.  It deletes the line items   *)
(* that were read, which may be gone and others created since.             *)
DeleteBaseShipmentLineItems(r) ==
  /\ req[r].todo = "delete"
  /\ baseItems' \in {0, baseItems}
  /\ req' = [req EXCEPT ![r].todo = "resave",
                        ![r].deleted = baseItems' # baseItems]
  /\ UNCHANGED <<move, row, offers, gbls, gblSequence, rowLock, abandoned>>

(* A database or validation error, or the end of the process: the          *)
(* transaction of the request is rolled back, what a recalculation         *)
(* committed before stays.                                                 *)
Fail(r) ==
  /\ req[r] # Idle
  /\ rowLock' = IF rowLock = r THEN None ELSE rowLock
  /\ abandoned' = (abandoned \/ (req[r].deleted /\ baseItems = 0))
  /\ Done(r)
  /\ UNCHANGED <<move, row, offers, baseItems, gbls, gblSequence>>

Read(r) ==
  \/ SubmitMove(r) \/ PatchMove(r)
  \/ PatchShipment(r) \/ TouchAllShipments(r)
  \/ ListUnoffered(r) \/ AwardShipment(r) \/ GiveUp(r)
  \/ ApproveHHG(r) \/ Recalculate(r)
  \/ \E t \in TSPs :
       \/ PatchShipmentByTSP(r, t) \/ CompletePmSurvey(r, t)
       \/ AcceptShipment(r, t) \/ TransportShipment(r, t) \/ DeliverShipment(r, t)
       \/ CreateGovBillOfLading(r, t)

Write(r) ==
  \/ SaveMoveDependencies(r) \/ SaveMove(r) \/ SaveShipment(r)
  \/ CommitAward(r) \/ CommitGivenUp(r) \/ CommitUnawarded(r)
  \/ SaveShipmentAndOffer(r)
  \/ UpdateDelivered(r) \/ FetchShipmentLineItemsByItemID(r) \/ CommitDelivery(r)
  \/ SaveRecalculated(r) \/ DeleteBaseShipmentLineItems(r)
  \/ CreateMoveDocument(r)

Next == \E r \in Requests : Read(r) \/ Write(r) \/ Fail(r)

Spec == Init /\ [][Next]_vars
-----------------------------------------------------------------------------
(* What holds however the requests overlap.                                *)

(* The rows and the tasks in progress are well formed.                     *)
TypeOK ==
  /\ move \in {"DRAFT", "SUBMITTED"}
  /\ row \in Row
  /\ offers \in Seq(Offer)
  /\ baseItems \in Nat
  /\ gbls \in Nat
  /\ gblSequence \in Nat
  /\ rowLock \in Requests \union {None}
  /\ abandoned \in BOOLEAN
  /\ req \in [Requests -> Running \union {Idle}]

Agrees(x) ==
  /\ x.submitDate <=> x.status # "DRAFT"
  /\ x.gblNumber # 0 <=> x.status # "DRAFT"
  /\ x.approveDate <=> x.status \in {"APPROVED", "IN_TRANSIT", "DELIVERED"}

(* The columns of the row agree with each other, also when it is written   *)
(* back by a request that read it long ago: each state method sets all the *)
(* columns of its transition.                                              *)
RowAgrees == Agrees(row)

requireAnAcceptedTSP(status) == status \in {"ACCEPTED", "APPROVED", "IN_TRANSIT", "DELIVERED"}

(* AcceptedShipmentOffer never reports "No accepted shipment offer found": *)
(* a shipment that requires an accepted TSP has one.                       *)
AcceptedTSPFound == requireAnAcceptedTSP(row.status) => Accepted # {}

(* The award queue gives the shipment away once, even when its status was  *)
(* set back to SUBMITTED by a request that read it before.                 *)
OneRealOffer == \A i, j \in RealOffers : i = j

(* A recalculation that has deleted the base line items is under way, or   *)
(* one has failed after that and they were not created again.              *)
Repricing == abandoned \/ \E r \in Requests : req[r].deleted

(* A shipment gets its base line items in the transaction that makes it    *)
(* DELIVERED, and only a recalculation takes them away: it deletes them in *)
(* a transaction of its own before it creates them again.  So a delivered  *)
(* shipment without base line items is the work of a recalculation that    *)
(* goes on or has failed half-way, never of requests that write back an    *)
(* old row, deliver twice or fail in the midst of a delivery.              *)
DeliveredIsPriced == row.status = "DELIVERED" => baseItems # 0 \/ Repricing

(* createUniqueShipmentLineItem: the base line items are there once at     *)
(* most, though deliveries and recalculations overlap.  It checks before   *)
(* it creates, and the lock on the row of the shipment is what keeps two   *)
(* transactions from both finding none.                                    *)
PricedOnce == baseItems <= 1

Contract == INSTANCE ShipmentContract WITH
  status <- row.status,
  gblNumber <- row.gblNumber,
  priced <- baseItems # 0,
  carrier <- IF Accepted = {} THEN NoTSP ELSE offers[CHOOSE i \in Accepted : TRUE].tsp
=============================================================================
