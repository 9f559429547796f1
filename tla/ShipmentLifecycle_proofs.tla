---------------------- MODULE ShipmentLifecycle_proofs ----------------------
(***************************************************************************)
(* What the requests of ShipmentLifecycle keep, however many overlap and   *)
(* however many TSPs there are.  The idea of the proof: a request that     *)
(* writes an old row back can do no harm to a statement about one row if   *)
(* the row it holds satisfies the statement itself, and none to a          *)
(* statement about the row and another table if that table only grows, or  *)
(* only a recalculation shrinks it that the statement knows of.            *)
(***************************************************************************)
EXTENDS MCShipmentLifecycle, SequenceTheorems, TLAPS

Recalculating == {"recalculate", "delete", "resave", "save again"}

HoldsRow == {"shipment", "award", "accept", "deliver", "price", "charge"} \union Recalculating

(* The base line items are there, or a recalculation has taken them away.  *)
Accounted == baseItems # 0 \/ Repricing

(* What a task q of request r guarantees until it is written.              *)
Sound(r, q) ==
  /\ q.todo = "submit" =>
       q.row.status = "SUBMITTED" /\ q.row.submitDate /\ ~ q.row.approveDate
  /\ q.todo \in HoldsRow => Agrees(q.row)
  /\ q.todo = "award" => q.row.status = "AWARDED"
  /\ q.todo = "accept" => q.row.status = "ACCEPTED" /\ q.offer \in DOMAIN offers
  /\ q.todo \in {"shipment", "deliver", "price", "charge"} \union Recalculating
     /\ requireAnAcceptedTSP(q.row.status) => Accepted # {}
  /\ q.todo \in {"shipment"} \union Recalculating /\ q.row.status = "DELIVERED" => Accounted
  /\ q.deleted => q.todo \in {"resave", "save again", "deliver", "price", "charge"}
  /\ q.todo \in {"price", "charge"} <=> rowLock = r
  /\ q.todo = "charge" => baseItems = 0
  /\ q.todo \in {"offer", "award", "give up"} => offers = <<>>

Tasks == \A r \in Requests : Sound(r, req[r])

OneRun == \A q, r \in Requests : Awarding(q) /\ Awarding(r) => q = r

(* The inductive invariant.                                                *)
Inv ==
  /\ TypeOK
  /\ Tasks
  /\ OneRun
  /\ RowAgrees
  /\ AcceptedTSPFound
  /\ OneRealOffer
  /\ DeliveredIsPriced
  /\ PricedOnce
-----------------------------------------------------------------------------
(* Types.                                                                  *)

LEMMA IdleType == Idle \in Running \union {Idle} /\ Draft \in Row
BY DEF Idle, Saving, Draft, Row, Statuses

LEMMA SavingType ==
  ASSUME NEW todo \in {"submit", "shipment", "deliver", "offer", "gbl", "recalculate"}, NEW x \in Row
  PROVE  Saving(todo, x) \in Running
BY DEF Saving, Running

LEMMA Started ==
  ASSUME TypeOK, NEW r \in Requests, req[r].todo # "nothing"
  PROVE  req[r] \in Running
BY DEF TypeOK, Idle, Saving

LEMMA BatchType ==
  ASSUME NEW n \in Nat, NEW chosen \in [1..n -> TSPs], NEW real \in Nat
  PROVE  /\ Batch(n, chosen, real) \in Seq(Offer)
         /\ Len(Batch(n, chosen, real)) = n
         /\ \A i \in 1..n : Batch(n, chosen, real)[i].administrative <=> i # real
<1> DEFINE b == Batch(n, chosen, real)
<1>1. \A i \in 1..n : [tsp |-> chosen[i], administrative |-> i # real, accepted |-> FALSE] \in Offer
  BY DEF Offer
<1>2. b \in [1..n -> Offer]
  BY <1>1 DEF Batch
<1>3. b \in Seq(Offer) /\ Len(b) = n
  BY <1>2
<1> QED
  BY <1>3 DEF Batch

(* Beginning a task of the right type.                                     *)
LEMMA BeginType ==
  ASSUME TypeOK, NEW r \in Requests, NEW task \in Running, Begins(r, task)
  PROVE  TypeOK'
BY DEF TypeOK, Begins, tables

LEMMA ReadType ==
  ASSUME TypeOK, NEW r \in Requests, Read(r)
  PROVE  TypeOK'
<1> USE DEF TypeOK
<1>1. CASE SubmitMove(r)
  <2> DEFINE x == [row EXCEPT !.status = "SUBMITTED", !.submitDate = TRUE]
  <2>1. x \in Row
    BY DEF Row, Statuses
  <2>2. Saving("submit", x) \in Running
    BY <2>1, SavingType
  <2> QED
    BY <1>1, <2>2, BeginType DEF SubmitMove
<1>2. CASE PatchMove(r)
  <2>1. [Idle EXCEPT !.todo = "move", !.move = move] \in Running
    BY IdleType DEF Idle, Saving, Running
  <2> QED
    BY <1>2, <2>1, BeginType DEF PatchMove
<1>3. ASSUME PatchShipment(r)
      PROVE  TypeOK'
  BY <1>3, SavingType, BeginType DEF PatchShipment
<1>4. CASE ListUnoffered(r)
  <2>1. Saving("offer", Draft) \in Running
    BY IdleType, SavingType
  <2> QED
    BY <1>4, <2>1, BeginType DEF ListUnoffered
<1>5. CASE AwardShipment(r)
  <2>1. req[r] \in Running
    BY <1>5, Started DEF AwardShipment
  <2>2. [row EXCEPT !.status = "AWARDED"] \in Row
    BY DEF Row, Statuses
  <2>3. [req[r] EXCEPT !.todo = "award", !.row = [row EXCEPT !.status = "AWARDED"]] \in Running
    BY <2>1, <2>2 DEF Running
  <2>4. req' = [req EXCEPT ![r] =
                 [req[r] EXCEPT !.todo = "award", !.row = [row EXCEPT !.status = "AWARDED"]]]
    BY <1>5, <2>1 DEF AwardShipment, Running
  <2>5. req' \in [Requests -> Running \union {Idle}]
    BY <2>3, <2>4
  <2> QED
    BY <1>5, <2>5 DEF AwardShipment, tables
<1>6. CASE GiveUp(r)
  <2>1. req[r] \in Running
    BY <1>6, Started DEF GiveUp
  <2>2. [req[r] EXCEPT !.todo = "give up"] \in Running
    BY <2>1 DEF Running
  <2>3. req' \in [Requests -> Running \union {Idle}]
    BY <1>6, <2>2 DEF GiveUp
  <2> QED
    BY <1>6, <2>3 DEF GiveUp, tables
<1>7. CASE ApproveHHG(r)
  <2>1. [row EXCEPT !.status = "APPROVED", !.approveDate = TRUE] \in Row
    BY DEF Row, Statuses
  <2> QED
    BY <1>7, <2>1, SavingType, BeginType DEF ApproveHHG
<1>8. ASSUME NEW t \in TSPs, AcceptShipment(r, t)
      PROVE  TypeOK'
  <2> DEFINE x == [row EXCEPT !.status = "ACCEPTED"]
  <2>1. x \in Row
    BY DEF Row, Statuses
  <2>2. PICK i \in OffersTo(t) : Begins(r, [todo |-> "accept", move |-> "DRAFT", offer |-> i, deleted |-> FALSE, row |-> x])
    BY <1>8 DEF AcceptShipment
  <2>3. i \in Nat
    BY <2>2 DEF OffersTo
  <2>4. [todo |-> "accept", move |-> "DRAFT", offer |-> i, deleted |-> FALSE, row |-> x] \in Running
    BY <2>1, <2>3 DEF Running
  <2> QED
    BY <2>2, <2>4, BeginType
<1>9. ASSUME NEW t \in TSPs, TransportShipment(r, t)
      PROVE  TypeOK'
  <2>1. [row EXCEPT !.status = "IN_TRANSIT"] \in Row
    BY DEF Row, Statuses
  <2> QED
    BY <1>9, <2>1, SavingType, BeginType DEF TransportShipment
<1>10. ASSUME NEW t \in TSPs, DeliverShipment(r, t)
       PROVE  TypeOK'
  <2>1. [row EXCEPT !.status = "DELIVERED"] \in Row
    BY DEF Row, Statuses
  <2> QED
    BY <1>10, <2>1, SavingType, BeginType DEF DeliverShipment
<1>11. ASSUME NEW t \in TSPs, CreateGovBillOfLading(r, t)
       PROVE  TypeOK'
  <2>1. Saving("gbl", Draft) \in Running
    BY IdleType, SavingType
  <2> QED
    BY <1>11, <2>1, BeginType DEF CreateGovBillOfLading
<1>12. CASE Recalculate(r)
  BY <1>12, SavingType, BeginType DEF Recalculate
<1> QED
  BY <1>1, <1>2, <1>3, <1>4, <1>5, <1>6, <1>7, <1>8, <1>9, <1>10, <1>11, <1>12
  DEF Read, PatchShipmentByTSP, CompletePmSurvey, TouchAllShipments

LEMMA DoneType ==
  ASSUME TypeOK, NEW r \in Requests, Done(r)
  PROVE  req' \in [Requests -> Running \union {Idle}]
BY DEF TypeOK, Done

(* What a run of the award queue adds to the offers.                       *)
LEMMA AddsOffers ==
  ASSUME TypeOK, NEW real \in Nat, NEW n \in 1..(MaxOffers - Len(offers)),
         NEW chosen \in [1..n -> TSPs], offers' = offers \o Batch(n, chosen, real)
  PROVE  /\ offers' \in Seq(Offer)
         /\ Len(offers') = Len(offers) + n
         /\ \A i \in DOMAIN offers : i \in DOMAIN offers' /\ offers'[i] = offers[i]
         /\ \A i \in DOMAIN offers' : i > Len(offers) =>
              (offers'[i].administrative <=> i - Len(offers) # real)
<1>1. n \in Nat /\ Len(offers) \in Nat
  BY LifecycleAssumption DEF TypeOK
<1> DEFINE b == Batch(n, chosen, real)
<1>2. b \in Seq(Offer) /\ Len(b) = n
  BY <1>1, BatchType
<1>3. offers' \in Seq(Offer) /\ Len(offers') = Len(offers) + n
  BY <1>1, <1>2, ConcatProperties DEF TypeOK
<1>4. \A i \in DOMAIN offers : i \in DOMAIN offers' /\ offers'[i] = offers[i]
  BY <1>1, <1>2, <1>3, ConcatProperties, LenProperties DEF TypeOK
<1>5. ASSUME NEW i \in DOMAIN offers', i > Len(offers)
      PROVE  offers'[i].administrative <=> i - Len(offers) # real
  <2>1. i - Len(offers) \in 1..n
    BY <1>1, <1>3, <1>5, LenProperties
  <2>2. offers'[i] = b[i - Len(offers)]
    BY <1>1, <1>2, <1>3, <1>5, <2>1, ConcatProperties, LenProperties DEF TypeOK
  <2>3. b[i - Len(offers)].administrative <=> i - Len(offers) # real
    BY <1>1, <2>1, BatchType
  <2> QED
    BY <2>2, <2>3
<1> QED
  BY <1>3, <1>4, <1>5

LEMMA WriteType ==
  ASSUME TypeOK, NEW r \in Requests, Write(r)
  PROVE  TypeOK'
<1> USE DEF TypeOK
<1>0. ASSUME req[r].todo # "nothing"
      PROVE  req[r].row \in Row
  BY <1>0, Started DEF Running
<1>1. CASE SaveMoveDependencies(r)
  <2>2. [req[r].row EXCEPT !.gblNumber = gblSequence + 1] \in Row
    <3>1. req[r].row \in Row /\ gblSequence + 1 \in Nat
      BY <1>0, <1>1 DEF SaveMoveDependencies
    <3> QED
      BY <3>1 DEF Row
  <2> QED
    BY <1>1, <2>2, DoneType DEF SaveMoveDependencies, UpdatesRow
<1>2. CASE SaveMove(r)
  <2>1. req[r].move \in {"DRAFT", "SUBMITTED"}
    BY <1>2, Started DEF SaveMove, Running
  <2> QED
    BY <1>2, <2>1, DoneType DEF SaveMove
<1>4. CASE SaveShipment(r)
  BY <1>0, <1>4, DoneType DEF SaveShipment, UpdatesRow
<1>5. CASE CommitAward(r)
  <2>1. offers' \in Seq(Offer)
    <3>1. PICK n \in 1..(MaxOffers - Len(offers)) : \E chosen \in [1..n -> TSPs] :
            offers' = offers \o Batch(n, chosen, n)
      BY <1>5 DEF CommitAward
    <3>2. PICK chosen \in [1..n -> TSPs] : offers' = offers \o Batch(n, chosen, n)
      BY <3>1
    <3>3. n \in Nat
      BY LifecycleAssumption
    <3> QED
      BY <3>2, <3>3, AddsOffers
  <2> QED
    BY <1>0, <1>5, <2>1, DoneType DEF CommitAward, UpdatesRow
<1>6. CASE CommitGivenUp(r)
  <2>1. offers' \in Seq(Offer)
    <3>1. PICK n \in 1..(MaxOffers - Len(offers)) : \E chosen \in [1..n -> TSPs] :
            offers' = offers \o Batch(n, chosen, 0)
      BY <1>6 DEF CommitGivenUp
    <3>2. PICK chosen \in [1..n -> TSPs] : offers' = offers \o Batch(n, chosen, 0)
      BY <3>1
    <3>3. n \in Nat
      BY LifecycleAssumption
    <3> QED
      BY <3>2, <3>3, AddsOffers
  <2> QED
    BY <1>6, <2>1, DoneType DEF CommitGivenUp
<1>7. CASE CommitUnawarded(r)
  <2>1. offers' \in Seq(Offer)
    <3>1. PICK n \in 1..(MaxOffers - Len(offers)) : \E chosen \in [1..n -> TSPs] :
            offers' = offers \o Batch(n, chosen, n)
      BY <1>7 DEF CommitUnawarded
    <3>2. PICK chosen \in [1..n -> TSPs] : offers' = offers \o Batch(n, chosen, n)
      BY <3>1
    <3>3. n \in Nat
      BY LifecycleAssumption
    <3> QED
      BY <3>2, <3>3, AddsOffers
  <2> QED
    BY <1>7, <2>1, DoneType DEF CommitUnawarded
<1>8. CASE SaveShipmentAndOffer(r)
  <2>1. \A i \in DOMAIN offers : [offers[i] EXCEPT !.accepted = TRUE] \in Offer
    <3>1. \A o \in Offer : [o EXCEPT !.accepted = TRUE] \in Offer
      BY DEF Offer
    <3>2. \A i \in DOMAIN offers : offers[i] \in Offer
      BY ElementOfSeq, LenProperties
    <3> QED
      BY <3>1, <3>2
  <2>2. offers' = [offers EXCEPT ![req[r].offer] = [offers[req[r].offer] EXCEPT !.accepted = TRUE]]
    BY <1>8 DEF SaveShipmentAndOffer
  <2>3. CASE req[r].offer \in DOMAIN offers
    <3>1. offers' \in Seq(Offer)
      BY <2>1, <2>2, <2>3, ExceptSeq, LenProperties
    <3> QED
      BY <1>0, <1>8, <3>1, DoneType DEF SaveShipmentAndOffer, UpdatesRow
  <2>4. CASE req[r].offer \notin DOMAIN offers
    <3>1. offers' = offers
      BY <2>2, <2>4, ExceptSeq, LenProperties
    <3> QED
      BY <1>0, <1>8, <3>1, DoneType DEF SaveShipmentAndOffer, UpdatesRow
  <2> QED
    BY <2>3, <2>4
<1>9. CASE UpdateDelivered(r)
  <2>1. req[r] \in Running
    BY <1>9, Started DEF UpdateDelivered
  <2>2. [req[r] EXCEPT !.todo = "price"] \in Running
    BY <2>1 DEF Running
  <2> QED
    BY <1>9, <2>2 DEF UpdateDelivered, GoesOn
<1>10. CASE FetchShipmentLineItemsByItemID(r)
  <2>1. req[r] \in Running
    BY <1>10, Started DEF FetchShipmentLineItemsByItemID
  <2>2. [req[r] EXCEPT !.todo = "charge"] \in Running
    BY <2>1 DEF Running
  <2> QED
    BY <1>10, <2>2 DEF FetchShipmentLineItemsByItemID, GoesOn, tables
<1>11. CASE CommitDelivery(r)
  <2>1. abandoned' \in BOOLEAN
    BY <1>11 DEF CommitDelivery
  <2> QED
    BY <1>0, <1>11, <2>1, DoneType DEF CommitDelivery
<1>12. CASE CreateMoveDocument(r)
  BY <1>12, DoneType DEF CreateMoveDocument
<1>13. CASE SaveRecalculated(r)
  <2>1. PICK next \in {"delete", "save again", "deliver"} :
          req[r].todo # "nothing" /\ req' = [req EXCEPT ![r].todo = next]
    BY <1>13 DEF SaveRecalculated, GoesOn
  <2>2. req[r] \in Running
    BY <2>1, Started
  <2>3. [req[r] EXCEPT !.todo = next] \in Running
    BY <2>2 DEF Running
  <2>4. req' \in [Requests -> Running \union {Idle}]
    BY <2>1, <2>3
  <2>5. row' \in Row
    BY <1>0, <1>13, <2>1 DEF SaveRecalculated, UpdatesRow
  <2> QED
    BY <1>13, <2>4, <2>5 DEF SaveRecalculated
<1>14. CASE DeleteBaseShipmentLineItems(r)
  <2> DEFINE task == [req[r] EXCEPT !.todo = "resave", !.deleted = (baseItems' # baseItems)]
  <2>1. req[r] \in Running
    BY <1>14, Started DEF DeleteBaseShipmentLineItems
  <2>2. task \in Running
    BY <2>1 DEF Running
  <2>3. req' = [req EXCEPT ![r] = task]
    BY <1>14, <2>1 DEF DeleteBaseShipmentLineItems, Running
  <2>4. req' \in [Requests -> Running \union {Idle}]
    BY <2>2, <2>3
  <2> QED
    BY <1>14, <2>4 DEF DeleteBaseShipmentLineItems
<1> QED
  BY <1>1, <1>2, <1>4, <1>5, <1>6, <1>7, <1>8, <1>9, <1>10, <1>11, <1>12, <1>13, <1>14 DEF Write

LEMMA FailType ==
  ASSUME TypeOK, NEW r \in Requests, Fail(r)
  PROVE  TypeOK'
BY DoneType DEF TypeOK, Fail
-----------------------------------------------------------------------------
(* The inductive invariant.                                                *)

(* A draft of which nothing was read yet.                                  *)
THEOREM InitInv == Init => Inv
<1> SUFFICES ASSUME Init PROVE Inv
  OBVIOUS
<1> USE DEF Init
<1>1. row = [status |-> "DRAFT", submitDate |-> FALSE, gblNumber |-> 0, approveDate |-> FALSE]
  BY DEF Draft
<1>2. TypeOK
  <2>1. <<>> \in Seq(Offer)
    BY EmptySeq
  <2> QED
    BY <2>1, IdleType DEF TypeOK
<1>3. \A r \in Requests : req[r].todo = "nothing" /\ ~ req[r].deleted /\ rowLock # r
  BY LifecycleAssumption DEF Idle, Saving
<1>4. Tasks /\ OneRun
  BY <1>3 DEF Tasks, Sound, HoldsRow, Recalculating, OneRun, Awarding
<1>5. RowAgrees /\ AcceptedTSPFound /\ DeliveredIsPriced /\ PricedOnce
  BY <1>1 DEF RowAgrees, Agrees, AcceptedTSPFound, requireAnAcceptedTSP, DeliveredIsPriced, PricedOnce
<1>6. OneRealOffer
  BY EmptySeq DEF OneRealOffer, RealOffers
<1> QED
  BY <1>2, <1>4, <1>5, <1>6 DEF Inv

(* The task that replaces the one of r knows that r has deleted items.     *)
Remembered(r, task) == req[r].deleted => task.deleted

(* A step that only changes the task of one request.                       *)
LEMMA TaskChange ==
  ASSUME Inv, TypeOK', NEW r \in Requests, NEW task,
         req' = [req EXCEPT ![r] = task], UNCHANGED tables, Sound(r, task),
         Remembered(r, task),
         task.todo \in {"offer", "award", "give up"} =>
           \A q \in Requests \ {r} : ~ Awarding(q)
  PROVE  Inv'
<1>1. req \in [Requests -> Running \union {Idle}]
  BY DEF Inv, TypeOK
<1>2. /\ req'[r] = task
      /\ \A q \in Requests \ {r} : req'[q] = req[q]
  BY <1>1
<1>3. Accepted' = Accepted /\ (Accounted => Accounted')
  <2>1. Repricing => Repricing'
    BY <1>2 DEF Repricing, Remembered, tables
  <2> QED
    BY <2>1 DEF tables, Accepted, Accounted
<1>4. ASSUME NEW q \in Requests
      PROVE  Sound(q, req[q])'
  <2>1. Sound(q, req'[q])
    BY <1>2 DEF Inv, Tasks
  <2> QED
    BY <1>3, <2>1 DEF Sound, tables
<1>5. OneRun'
  BY <1>2 DEF Inv, OneRun, Awarding
<1>6. RowAgrees' /\ AcceptedTSPFound' /\ OneRealOffer' /\ PricedOnce'
  BY DEF Inv, tables, RowAgrees, AcceptedTSPFound, Accepted, OneRealOffer, RealOffers, PricedOnce
<1>7. DeliveredIsPriced'
  BY <1>3 DEF Inv, tables, DeliveredIsPriced, Accounted
<1> QED
  BY <1>4, <1>5, <1>6, <1>7 DEF Inv, Tasks

(* A request that ends and leaves the line items alone takes nothing from  *)
(* the account: a recalculation that fails is remembered as abandoned.     *)
LEMMA StillAccounted ==
  ASSUME Inv, NEW r \in Requests, Done(r), baseItems' = baseItems,
         abandoned => abandoned',
         req[r].deleted => baseItems # 0 \/ abandoned'
  PROVE  Accounted => Accounted'
<1>1. \A q \in Requests \ {r} : req'[q] = req[q]
  BY DEF Inv, TypeOK, Done
<1>2. ASSUME NEW q \in Requests, req[q].deleted
      PROVE  Accounted'
  <2>1. CASE q = r
    BY <1>2, <2>1 DEF Accounted, Repricing
  <2>2. CASE q # r
    BY <1>1, <1>2, <2>2 DEF Accounted, Repricing
  <2> QED
    BY <2>1, <2>2
<1> QED
  BY <1>2 DEF Accounted, Repricing

(* A step that ends request r and writes its tables: what the other        *)
(* requests hold stays sound, because offers stay accepted, line items     *)
(* stay, and the lock of the row is not taken from its holder.             *)
LEMMA Written ==
  ASSUME Inv, NEW r \in Requests, Done(r),
         rowLock' = IF rowLock = r THEN None ELSE rowLock,
         \A i \in DOMAIN offers :
           i \in DOMAIN offers' /\ (offers[i].accepted => offers'[i].accepted),
         offers' = <<>> \/ offers # <<>> \/ Awarding(r),
         baseItems' = baseItems \/ (rowLock = r /\ baseItems' # 0),
         Accounted => Accounted'
  PROVE  Tasks' /\ OneRun'
<1>1. /\ req'[r].todo = "nothing" /\ ~ req'[r].deleted
      /\ \A q \in Requests \ {r} : req'[q] = req[q]
  BY DEF Inv, TypeOK, Done, Idle, Saving
<1>2. Accepted # {} => Accepted' # {}
  BY DEF Accepted
<1>3. OneRun'
  BY <1>1 DEF Inv, OneRun, Awarding
<1>4. ASSUME NEW q \in Requests
      PROVE  Sound(q, req[q])'
  <2>1. CASE q = r
    BY <1>1, <2>1, LifecycleAssumption DEF Sound, HoldsRow, Recalculating
  <2>2. CASE q # r
    <3>1. req'[q] = req[q] /\ Sound(q, req[q])
      BY <1>1, <2>2 DEF Inv, Tasks
    <3>2. rowLock' = q <=> rowLock = q
      BY <2>2, LifecycleAssumption
    <3>3. req[q].todo \in {"offer", "award", "give up"} => offers' = <<>>
      BY <2>2, <3>1 DEF Inv, OneRun, Awarding, Sound
    <3>4. req[q].todo = "charge" => baseItems' = 0
      BY <2>2, <3>1 DEF Sound
    <3>5. req[q].todo = "accept" => req[q].offer \in DOMAIN offers'
      BY <3>1 DEF Sound
    <3>6. req[q].todo \in {"shipment"} \union Recalculating /\ req[q].row.status = "DELIVERED"
            => Accounted'
      BY <3>1 DEF Sound
    <3> QED
      BY <1>2, <3>1, <3>2, <3>3, <3>4, <3>5, <3>6 DEF Sound
  <2> QED
    BY <2>1, <2>2
<1> QED
  BY <1>3, <1>4 DEF Tasks

(* A step of a recalculation that goes on: what the others hold stays      *)
(* sound.                                                                  *)
LEMMA GoneOn ==
  ASSUME Inv, NEW r \in Requests, \A q \in Requests \ {r} : req'[q] = req[q],
         Sound(r, req[r])', ~ Awarding(r)', UNCHANGED <<offers, rowLock>>,
         baseItems' = baseItems \/ baseItems' = 0,
         Accounted => Accounted'
  PROVE  Tasks' /\ OneRun'
<1>1. OneRun'
  BY DEF Inv, OneRun, Awarding
<1>2. Accepted' = Accepted
  BY DEF Accepted
<1>3. ASSUME NEW q \in Requests, q # r
      PROVE  Sound(q, req[q])'
  <2>1. req'[q] = req[q] /\ Sound(q, req[q])
    BY <1>3 DEF Inv, Tasks
  <2> QED
    BY <1>2, <2>1 DEF Sound
<1> QED
  BY <1>1, <1>3 DEF Tasks

LEMMA ReadInv ==
  ASSUME Inv, NEW r \in Requests, Read(r)
  PROVE  Inv'
<1>1. TypeOK'
  BY ReadType DEF Inv
<1>2. /\ row \in Row
      /\ Agrees(row)
      /\ requireAnAcceptedTSP(row.status) => Accepted # {}
      /\ row.status = "DELIVERED" => Accounted
  BY DEF Inv, TypeOK, RowAgrees, AcceptedTSPFound, DeliveredIsPriced, Accounted
<1>3. req[r] = Idle => rowLock # r /\ ~ req[r].deleted
  <2>1. (req[r].todo \in {"price", "charge"}) <=> rowLock = r
    BY DEF Inv, Tasks, Sound
  <2>2. Idle.todo = "nothing" /\ ~ Idle.deleted
    BY DEF Idle, Saving
  <2> QED
    BY <2>1, <2>2
(* A task that is begun and is not one of the award queue.                 *)
<1>4. ASSUME NEW task, Begins(r, task), Sound(r, task),
             task.todo \notin {"offer", "award", "give up"}
      PROVE  Inv'
  BY <1>1, <1>3, <1>4, TaskChange DEF Remembered, Begins
<1>5. ASSUME NEW x \in Row, Begins(r, Saving("shipment", x)), Agrees(x),
             requireAnAcceptedTSP(x.status) => Accepted # {},
             x.status = "DELIVERED" => Accounted
      PROVE  Inv'
  <2>1. req[r] = Idle
    BY <1>5 DEF Begins
  <2>2. Sound(r, Saving("shipment", x))
    BY <1>3, <1>5, <2>1 DEF Sound, Saving, HoldsRow, Recalculating
  <2> QED
    BY <1>4, <1>5, <2>2 DEF Saving
<1>6. CASE SubmitMove(r)
  <2> DEFINE x == [row EXCEPT !.status = "SUBMITTED", !.submitDate = TRUE]
  <2>1. x.status = "SUBMITTED" /\ x.submitDate /\ ~ x.approveDate
    BY <1>2, <1>6 DEF SubmitMove, Row, Agrees
  <2>2. Sound(r, Saving("submit", x))
    BY <1>3, <1>6, <2>1 DEF SubmitMove, Begins, Sound, Saving, HoldsRow, Recalculating
  <2> QED
    BY <1>4, <1>6, <2>2 DEF SubmitMove, Saving
<1>7. CASE PatchMove(r)
  <2> DEFINE task == [Idle EXCEPT !.todo = "move", !.move = move]
  <2>1. task.todo = "move" /\ ~ task.deleted
    BY DEF Idle, Saving
  <2>2. Sound(r, task)
    BY <1>3, <1>7, <2>1 DEF PatchMove, Begins, Sound, HoldsRow, Recalculating
  <2> QED
    BY <1>4, <1>7, <2>1, <2>2 DEF PatchMove
<1>8. ASSUME PatchShipment(r)
      PROVE  Inv'
  BY <1>2, <1>5, <1>8 DEF PatchShipment
<1>9. CASE ListUnoffered(r)
  <2> DEFINE task == Saving("offer", Draft)
  <2>1. task.todo = "offer" /\ ~ task.deleted
    BY DEF Saving
  <2>2. Sound(r, task)
    BY <1>3, <1>9, <2>1 DEF ListUnoffered, Begins, Sound, HoldsRow, Recalculating
  <2> QED
    BY <1>1, <1>3, <1>9, <2>2, TaskChange DEF Remembered, ListUnoffered, Begins
<1>10. CASE AwardShipment(r)
  <2> DEFINE x == [row EXCEPT !.status = "AWARDED"]
             task == [req[r] EXCEPT !.todo = "award", !.row = x]
  <2>1. req[r] \in Running
    BY <1>10, Started DEF AwardShipment, Inv
  <2>2. task.todo = "award" /\ task.row = x /\ task.deleted = req[r].deleted
    BY <2>1 DEF Running
  <2>3. Agrees(x) /\ x.status = "AWARDED"
    BY <1>2, <1>10 DEF AwardShipment, Agrees, Row
  <2>4. Sound(r, req[r])
    BY DEF Inv, Tasks
  <2>5. Sound(r, task)
    BY <1>10, <2>2, <2>3, <2>4 DEF AwardShipment, Sound, HoldsRow, Recalculating
  <2>6. req' = [req EXCEPT ![r] = task]
    BY <1>10, <2>1 DEF AwardShipment, Running
  <2>7. \A q \in Requests \ {r} : ~ Awarding(q)
    BY <1>10 DEF AwardShipment, Inv, OneRun, Awarding
  <2> QED
    BY <1>1, <1>10, <2>2, <2>5, <2>6, <2>7, TaskChange DEF Remembered, AwardShipment
<1>11. CASE GiveUp(r)
  <2> DEFINE task == [req[r] EXCEPT !.todo = "give up"]
  <2>1. req[r] \in Running
    BY <1>11, Started DEF GiveUp, Inv
  <2>2. task.todo = "give up" /\ task.deleted = req[r].deleted
    BY <2>1 DEF Running
  <2>3. Sound(r, task)
    BY <1>11, <2>2 DEF GiveUp, Inv, Tasks, Sound, HoldsRow, Recalculating
  <2>4. req' = [req EXCEPT ![r] = task]
    BY <1>11 DEF GiveUp
  <2>5. \A q \in Requests \ {r} : ~ Awarding(q)
    BY <1>11 DEF GiveUp, Inv, OneRun, Awarding
  <2> QED
    BY <1>1, <1>11, <2>2, <2>3, <2>4, <2>5, TaskChange DEF Remembered, GiveUp
<1>12. CASE ApproveHHG(r)
  <2> DEFINE x == [row EXCEPT !.status = "APPROVED", !.approveDate = TRUE]
  <2>1. x \in Row /\ x.status = "APPROVED" /\ Agrees(x) /\ Accepted # {}
    BY <1>2, <1>12 DEF ApproveHHG, Row, Statuses, Agrees, requireAnAcceptedTSP
  <2> QED
    BY <1>5, <1>12, <2>1 DEF ApproveHHG
<1>13. ASSUME NEW t \in TSPs, AcceptShipment(r, t)
       PROVE  Inv'
  <2> DEFINE x == [row EXCEPT !.status = "ACCEPTED"]
  <2>1. PICK i \in OffersTo(t) :
          Begins(r, [todo |-> "accept", move |-> "DRAFT", offer |-> i, deleted |-> FALSE, row |-> x])
    BY <1>13 DEF AcceptShipment
  <2> DEFINE task == [todo |-> "accept", move |-> "DRAFT", offer |-> i, deleted |-> FALSE, row |-> x]
  <2>2. Agrees(x) /\ x.status = "ACCEPTED" /\ i \in DOMAIN offers
    BY <1>2, <1>13 DEF AcceptShipment, Agrees, Row, OffersTo
  <2>3. Sound(r, task)
    BY <1>3, <2>1, <2>2 DEF Begins, Sound, HoldsRow, Recalculating
  <2> QED
    BY <1>4, <2>1, <2>3
<1>14. ASSUME NEW t \in TSPs, TransportShipment(r, t)
       PROVE  Inv'
  <2> DEFINE x == [row EXCEPT !.status = "IN_TRANSIT"]
  <2>1. x \in Row /\ x.status = "IN_TRANSIT" /\ Agrees(x) /\ Accepted # {}
    BY <1>2, <1>14 DEF TransportShipment, Row, Statuses, Agrees, requireAnAcceptedTSP
  <2> QED
    BY <1>5, <1>14, <2>1 DEF TransportShipment
<1>15. ASSUME NEW t \in TSPs, DeliverShipment(r, t)
       PROVE  Inv'
  <2> DEFINE x == [row EXCEPT !.status = "DELIVERED"]
  <2>1. x \in Row /\ x.status = "DELIVERED" /\ Agrees(x) /\ Accepted # {}
    BY <1>2, <1>15 DEF DeliverShipment, Row, Statuses, Agrees, requireAnAcceptedTSP
  <2>2. Sound(r, Saving("deliver", x))
    BY <1>3, <1>15, <2>1 DEF DeliverShipment, Begins, Sound, Saving, HoldsRow, Recalculating
  <2> QED
    BY <1>4, <1>15, <2>2 DEF DeliverShipment, Saving
<1>16. ASSUME NEW t \in TSPs, CreateGovBillOfLading(r, t)
       PROVE  Inv'
  <2>1. Sound(r, Saving("gbl", Draft))
    BY <1>3, <1>16 DEF CreateGovBillOfLading, Begins, Sound, Saving, HoldsRow, Recalculating
  <2> QED
    BY <1>4, <1>16, <2>1 DEF CreateGovBillOfLading, Saving
<1>17. CASE Recalculate(r)
  <2>1. Sound(r, Saving("recalculate", row))
    BY <1>2, <1>3, <1>17 DEF Recalculate, Begins, Sound, Saving, HoldsRow, Recalculating
  <2> QED
    BY <1>4, <1>17, <2>1 DEF Recalculate, Saving
<1> QED
  BY <1>6, <1>7, <1>8, <1>9, <1>10, <1>11, <1>12, <1>13, <1>14, <1>15, <1>16, <1>17
  DEF Read, PatchShipmentByTSP, CompletePmSurvey, TouchAllShipments
(* A write of a row that agrees, beside which nothing is taken back.       *)
LEMMA WriteInv ==
  ASSUME Inv, NEW r \in Requests, Write(r)
  PROVE  Inv'
<1>1. TypeOK'
  BY WriteType DEF Inv
<1>2. Sound(r, req[r])
  BY DEF Inv, Tasks
<1>3. rowLock = r => req[r].todo \in {"price", "charge"}
  BY <1>2 DEF Sound
<1>4. /\ OneRealOffer /\ RowAgrees /\ AcceptedTSPFound /\ PricedOnce
      /\ row.status = "DELIVERED" => Accounted
      /\ TypeOK
  BY DEF Inv, DeliveredIsPriced, Accounted
(* Steps that leave the offers and line items as they are.                 *)
<1>5. ASSUME Done(r), UNCHANGED <<offers, baseItems, rowLock, abandoned>>,
             req[r].todo \notin {"price", "charge"}, ~ req[r].deleted, Agrees(row'),
             requireAnAcceptedTSP(row'.status) => Accepted # {},
             row'.status = "DELIVERED" => Accounted
      PROVE  Inv'
  <2>0. Accounted => Accounted'
    BY <1>5, StillAccounted
  <2>1. rowLock' = IF rowLock = r THEN None ELSE rowLock
    BY <1>3, <1>5
  <2>2. Tasks' /\ OneRun'
    BY <1>5, <2>0, <2>1, Written
  <2>3. Accepted' = Accepted /\ RealOffers' = RealOffers
    BY <1>5 DEF Accepted, RealOffers
  <2>4. RowAgrees' /\ AcceptedTSPFound' /\ OneRealOffer' /\ DeliveredIsPriced' /\ PricedOnce'
    BY <1>4, <1>5, <2>0, <2>3
    DEF RowAgrees, AcceptedTSPFound, OneRealOffer, RealOffers, DeliveredIsPriced, PricedOnce,
        Accounted
  <2> QED
    BY <1>1, <2>2, <2>4 DEF Inv
(* Commits of the award queue.                                             *)
<1>6. ASSUME NEW real \in Nat, NEW n \in 1..(MaxOffers - Len(offers)), NEW chosen \in [1..n -> TSPs],
             offers' = offers \o Batch(n, chosen, real),
             Awarding(r), Done(r), UNCHANGED <<baseItems, rowLock, abandoned>>,
             row' = row \/ (Agrees(row') /\ row'.status = "AWARDED")
      PROVE  Inv'
  <2>1. offers = <<>>
    BY <1>2, <1>6 DEF Sound, Awarding
  <2>2. /\ Len(offers) = 0 /\ DOMAIN offers = {}
        /\ offers' \in Seq(Offer)
        /\ \A i \in DOMAIN offers' : i > Len(offers) =>
              (offers'[i].administrative <=> i - Len(offers) # real)
    <3>1. Len(offers) = 0 /\ DOMAIN offers = {}
      BY <2>1
    <3>2. TypeOK /\ offers' = offers \o Batch(n, chosen, real)
      BY <1>4, <1>6
    <3>3. /\ offers' \in Seq(Offer)
          /\ \A i \in DOMAIN offers' : i > Len(offers) =>
                (offers'[i].administrative <=> i - Len(offers) # real)
      BY <3>2, AddsOffers
    <3> QED
      BY <3>1, <3>3
  <2>3. rowLock' = IF rowLock = r THEN None ELSE rowLock
    BY <1>3, <1>6 DEF Awarding
  <2>0. ~ req[r].deleted
    BY <1>2, <1>6 DEF Sound, Awarding
  <2>9. Accounted => Accounted'
    BY <1>6, <2>0, StillAccounted
  <2>4. Tasks' /\ OneRun'
    BY <1>6, <2>2, <2>3, <2>9, Written
  <2>5. \A i \in DOMAIN offers' : offers'[i].administrative <=> i # real
    <3>1. \A i \in DOMAIN offers' : i \in Nat \ {0}
      BY <2>2
    <3>2. ASSUME NEW i \in DOMAIN offers'
          PROVE  offers'[i].administrative <=> i # real
      <4>1. i > Len(offers) /\ i - Len(offers) = i
        BY <2>2, <3>1
      <4> QED
        BY <2>2, <4>1
    <3> QED
      BY <3>2
  <2>6. OneRealOffer'
    BY <2>5 DEF OneRealOffer, RealOffers
  <2>7. ~ requireAnAcceptedTSP(row.status)
    BY <1>4, <2>2 DEF AcceptedTSPFound, Accepted
  <2>8. RowAgrees' /\ AcceptedTSPFound' /\ DeliveredIsPriced' /\ PricedOnce'
    BY <1>4, <1>6, <2>7
    DEF RowAgrees, AcceptedTSPFound, requireAnAcceptedTSP, DeliveredIsPriced, PricedOnce
  <2> QED
    BY <1>1, <2>4, <2>6, <2>8 DEF Inv
<1>7. CASE SaveMoveDependencies(r)
  <2> DEFINE x == [req[r].row EXCEPT !.gblNumber = gblSequence + 1]
  <2>1. req[r].row \in Row /\ gblSequence \in Nat
    BY <1>4, <1>7, Started DEF SaveMoveDependencies, Running, TypeOK
  <2>2. /\ req[r].row.status = "SUBMITTED"
        /\ req[r].row.submitDate
        /\ ~ req[r].row.approveDate
    BY <1>2, <1>7 DEF SaveMoveDependencies, Sound
  <2>3. /\ x.status = "SUBMITTED" /\ x.submitDate /\ ~ x.approveDate
        /\ x.gblNumber = gblSequence + 1
    BY <2>1, <2>2 DEF Row
  <2>4. Agrees(x)
    BY <2>1, <2>3 DEF Agrees
  <2>5. row' = x /\ ~ req[r].deleted
    BY <1>2, <1>7 DEF SaveMoveDependencies, UpdatesRow, Sound
  <2> QED
    BY <1>5, <1>7, <2>3, <2>4, <2>5 DEF SaveMoveDependencies, requireAnAcceptedTSP
<1>8. CASE SaveMove(r)
  <2>1. ~ req[r].deleted
    BY <1>2, <1>8 DEF SaveMove, Sound
  <2> QED
    BY <1>4, <1>5, <1>8, <2>1 DEF SaveMove, RowAgrees, AcceptedTSPFound
<1>9. CASE SaveShipment(r)
  BY <1>2, <1>5, <1>9 DEF SaveShipment, UpdatesRow, Sound, HoldsRow, Recalculating
<1>10. CASE CommitAward(r)
  <2>1. PICK n \in 1..(MaxOffers - Len(offers)) : \E chosen \in [1..n -> TSPs] :
          offers' = offers \o Batch(n, chosen, n)
    BY <1>10 DEF CommitAward
  <2>2. PICK chosen \in [1..n -> TSPs] : offers' = offers \o Batch(n, chosen, n)
    BY <2>1
  <2>3. n \in Nat
    BY LifecycleAssumption
  <2>4. Agrees(row') /\ row'.status = "AWARDED"
    BY <1>2, <1>10 DEF CommitAward, UpdatesRow, Sound, HoldsRow, Recalculating
  <2> QED
    BY <1>6, <1>10, <2>2, <2>3, <2>4 DEF CommitAward, Awarding
<1>11. CASE CommitGivenUp(r)
  <2>1. PICK n \in 1..(MaxOffers - Len(offers)) : \E chosen \in [1..n -> TSPs] :
          offers' = offers \o Batch(n, chosen, 0)
    BY <1>11 DEF CommitGivenUp
  <2>2. PICK chosen \in [1..n -> TSPs] : offers' = offers \o Batch(n, chosen, 0)
    BY <2>1
  <2> QED
    BY <1>6, <1>11, <2>2 DEF CommitGivenUp, Awarding
<1>12. CASE CommitUnawarded(r)
  <2>1. PICK n \in 1..(MaxOffers - Len(offers)) : \E chosen \in [1..n -> TSPs] :
          offers' = offers \o Batch(n, chosen, n)
    BY <1>12 DEF CommitUnawarded
  <2>2. PICK chosen \in [1..n -> TSPs] : offers' = offers \o Batch(n, chosen, n)
    BY <2>1
  <2>3. n \in Nat
    BY LifecycleAssumption
  <2> QED
    BY <1>6, <1>12, <2>2, <2>3 DEF CommitUnawarded, Awarding
<1>13. CASE SaveShipmentAndOffer(r)
  <2> DEFINE k == req[r].offer
  <2>1. /\ Agrees(req[r].row) /\ req[r].row.status = "ACCEPTED" /\ k \in DOMAIN offers
        /\ row' = req[r].row
    BY <1>2, <1>13 DEF SaveShipmentAndOffer, UpdatesRow, Sound, HoldsRow, Recalculating
  <2>2. offers' = [offers EXCEPT ![k] = [offers[k] EXCEPT !.accepted = TRUE]]
    BY <1>13 DEF SaveShipmentAndOffer
  <2>3. \A i \in DOMAIN offers : offers[i] \in Offer
    BY <1>4, ElementOfSeq, LenProperties DEF TypeOK
  <2>4. /\ DOMAIN offers' = DOMAIN offers
        /\ \A i \in DOMAIN offers \ {k} : offers'[i] = offers[i]
        /\ offers'[k] = [offers[k] EXCEPT !.accepted = TRUE]
    BY <2>1, <2>2
  <2>5. /\ offers'[k].accepted
        /\ offers'[k].administrative = offers[k].administrative
    BY <2>1, <2>3, <2>4 DEF Offer
  <2>6. Accepted' # {} /\ RealOffers' = RealOffers
    BY <2>1, <2>4, <2>5 DEF Accepted, RealOffers
  <2>7. offers # <<>>
    BY <2>1, EmptySeq
  <2>8. rowLock' = IF rowLock = r THEN None ELSE rowLock
    BY <1>3, <1>13 DEF SaveShipmentAndOffer
  <2>11. Accounted => Accounted'
    <3>1. ~ req[r].deleted
      BY <1>2, <1>13 DEF SaveShipmentAndOffer, Sound
    <3> QED
      BY <1>13, <3>1, StillAccounted DEF SaveShipmentAndOffer
  <2>9. Tasks' /\ OneRun'
    BY <1>13, <2>4, <2>5, <2>7, <2>8, <2>11, Written DEF SaveShipmentAndOffer
  <2>10. RowAgrees' /\ AcceptedTSPFound' /\ OneRealOffer' /\ DeliveredIsPriced' /\ PricedOnce'
    BY <1>4, <1>13, <2>1, <2>6
    DEF SaveShipmentAndOffer, RowAgrees, AcceptedTSPFound, OneRealOffer, DeliveredIsPriced, PricedOnce
  <2> QED
    BY <1>1, <2>9, <2>10 DEF Inv
(* The transaction of a delivery.                                          *)
<1>14. CASE UpdateDelivered(r)
  <2>1. req[r] \in Running
    BY <1>4, <1>14, Started DEF UpdateDelivered
  <2> DEFINE task == [req[r] EXCEPT !.todo = "price"]
  <2>2. /\ task.todo = "price" /\ task.row = req[r].row /\ task.deleted = req[r].deleted
        /\ req'[r] = task
    BY <1>4, <1>14, <2>1 DEF UpdateDelivered, GoesOn, Running, TypeOK
  <2>3. \A q \in Requests \ {r} : req'[q] = req[q] /\ rowLock' # q
    BY <1>4, <1>14 DEF UpdateDelivered, GoesOn, TypeOK
  <2>4. Accepted' = Accepted /\ (Accounted => Accounted')
    <3>1. Repricing => Repricing'
      BY <1>14, <2>2, <2>3 DEF UpdateDelivered, GoesOn, Repricing
    <3> QED
      BY <1>14, <3>1 DEF UpdateDelivered, Accepted, Accounted
  <2>5. ASSUME NEW q \in Requests
        PROVE  Sound(q, req[q])'
    <3>1. CASE q = r
      BY <1>2, <1>14, <2>2, <2>4, <3>1 DEF UpdateDelivered, Sound, HoldsRow, Recalculating
    <3>2. CASE q # r
      <4>1. Sound(q, req[q]) /\ rowLock # q
        BY <1>14, LifecycleAssumption DEF UpdateDelivered, Inv, Tasks
      <4> QED
        BY <1>14, <2>3, <2>4, <3>2, <4>1 DEF UpdateDelivered, Sound
    <3> QED
      BY <3>1, <3>2
  <2>6. OneRun'
    BY <2>2, <2>3 DEF Inv, OneRun, Awarding
  <2>7. RowAgrees' /\ AcceptedTSPFound' /\ OneRealOffer' /\ DeliveredIsPriced' /\ PricedOnce'
    BY <1>4, <1>14, <2>4
    DEF UpdateDelivered, RowAgrees, AcceptedTSPFound, OneRealOffer, RealOffers,
        DeliveredIsPriced, PricedOnce, Accounted
  <2> QED
    BY <1>1, <2>5, <2>6, <2>7 DEF Inv, Tasks
<1>15. CASE FetchShipmentLineItemsByItemID(r)
  <2> DEFINE task == [req[r] EXCEPT !.todo = "charge"]
  <2>1. req[r] \in Running
    BY <1>4, <1>15, Started DEF FetchShipmentLineItemsByItemID
  <2>2. task.todo = "charge" /\ task.row = req[r].row /\ task.deleted = req[r].deleted
    BY <2>1 DEF Running
  <2>3. Sound(r, task)
    BY <1>2, <1>15, <2>2 DEF FetchShipmentLineItemsByItemID, Sound, HoldsRow, Recalculating
  <2>4. req' = [req EXCEPT ![r] = task]
    BY <1>15 DEF FetchShipmentLineItemsByItemID, GoesOn
  <2> QED
    BY <1>1, <1>15, <2>2, <2>3, <2>4, TaskChange DEF Remembered, FetchShipmentLineItemsByItemID, GoesOn
<1>16. CASE CommitDelivery(r)
  <2>1. /\ Agrees(req[r].row) /\ baseItems = 0 /\ rowLock = r
        /\ requireAnAcceptedTSP(req[r].row.status) => Accepted # {}
        /\ row' = req[r].row /\ baseItems' = 1
    BY <1>2, <1>16 DEF CommitDelivery, Sound, HoldsRow, Recalculating
  <2>2. Accounted' /\ Tasks' /\ OneRun'
    <3>1. Accounted'
      BY <2>1 DEF Accounted
    <3> QED
      BY <1>16, <2>1, <3>1, Written DEF CommitDelivery
  <2>3. Accepted' = Accepted
    BY <1>16 DEF CommitDelivery, Accepted
  <2>4. RowAgrees' /\ AcceptedTSPFound' /\ OneRealOffer' /\ DeliveredIsPriced' /\ PricedOnce'
    BY <1>4, <1>16, <2>1, <2>3
    DEF CommitDelivery, RowAgrees, AcceptedTSPFound, OneRealOffer, RealOffers,
        DeliveredIsPriced, PricedOnce
  <2> QED
    BY <1>1, <2>2, <2>4 DEF Inv
<1>17. CASE CreateMoveDocument(r)
  <2>1. ~ req[r].deleted
    BY <1>2, <1>17 DEF CreateMoveDocument, Sound
  <2> QED
    BY <1>4, <1>5, <1>17, <2>1 DEF CreateMoveDocument, RowAgrees, AcceptedTSPFound
(* A recalculation, until its last transaction.                            *)
<1>18. CASE SaveRecalculated(r)
  <2>1. PICK next \in {"delete", "save again", "deliver"} :
          /\ req' = [req EXCEPT ![r].todo = next]
          /\ req[r].todo \in Recalculating
          /\ next = "delete" => req[r].todo = "recalculate"
    BY <1>18 DEF SaveRecalculated, GoesOn, Recalculating
  <2> DEFINE task == [req[r] EXCEPT !.todo = next]
  <2>2. req[r] \in Running
    BY <1>4, <2>1, Started DEF Recalculating
  <2>3. /\ task.todo = next /\ task.row = req[r].row /\ task.deleted = req[r].deleted
        /\ req'[r] = task
        /\ \A q \in Requests \ {r} : req'[q] = req[q]
    BY <1>4, <2>1, <2>2 DEF Running, TypeOK
  <2>4. /\ row' = req[r].row
        /\ UNCHANGED <<offers, baseItems, rowLock, abandoned>>
    BY <1>18 DEF SaveRecalculated, UpdatesRow
  <2>5. /\ Agrees(req[r].row)
        /\ requireAnAcceptedTSP(req[r].row.status) => Accepted # {}
        /\ req[r].row.status = "DELIVERED" => Accounted
    BY <1>2, <2>1 DEF Sound, HoldsRow, Recalculating
  <2>6. Accepted' = Accepted /\ RealOffers' = RealOffers /\ (Accounted => Accounted')
    <3>1. Repricing => Repricing'
      BY <2>3, <2>4 DEF Repricing
    <3> QED
      BY <2>4, <3>1 DEF Accepted, RealOffers, Accounted
  <2>7. Sound(r, req[r])'
    BY <1>2, <2>1, <2>3, <2>4, <2>5, <2>6 DEF Sound, HoldsRow, Recalculating
  <2>8. Tasks' /\ OneRun'
    BY <2>3, <2>4, <2>6, <2>7, GoneOn DEF Awarding
  <2>9. RowAgrees' /\ AcceptedTSPFound' /\ OneRealOffer' /\ DeliveredIsPriced' /\ PricedOnce'
    BY <1>4, <2>4, <2>5, <2>6
    DEF RowAgrees, AcceptedTSPFound, OneRealOffer, RealOffers, DeliveredIsPriced, PricedOnce,
        Accounted
  <2> QED
    BY <1>1, <2>8, <2>9 DEF Inv
<1>19. CASE DeleteBaseShipmentLineItems(r)
  <2> DEFINE task == [req[r] EXCEPT !.todo = "resave", !.deleted = (baseItems' # baseItems)]
  <2>1. req[r] \in Running
    BY <1>4, <1>19, Started DEF DeleteBaseShipmentLineItems
  <2>2. req' = [req EXCEPT ![r] = task]
    BY <1>19, <2>1 DEF DeleteBaseShipmentLineItems, Running
  <2>3. /\ task.todo = "resave" /\ task.row = req[r].row
        /\ task.deleted = (baseItems' # baseItems)
        /\ req'[r] = task
        /\ \A q \in Requests \ {r} : req'[q] = req[q]
    BY <1>4, <2>1, <2>2 DEF Running, TypeOK
  <2>4. /\ UNCHANGED <<row, offers, rowLock, abandoned>>
        /\ baseItems' = baseItems \/ baseItems' = 0
        /\ req[r].todo = "delete"
    BY <1>19 DEF DeleteBaseShipmentLineItems
  <2>5. Accepted' = Accepted /\ RealOffers' = RealOffers
    BY <2>4 DEF Accepted, RealOffers
  <2>6. ~ req[r].deleted
    BY <1>2, <2>4 DEF Sound
  <2>7. Accounted => Accounted'
    <3>1. CASE baseItems' = baseItems
      <4>1. Repricing => Repricing'
        BY <2>3, <2>4, <2>6 DEF Repricing
      <4> QED
        BY <3>1, <4>1 DEF Accounted
    <3>2. CASE baseItems' # baseItems
      BY <2>3, <3>2 DEF Accounted, Repricing
    <3> QED
      BY <3>1, <3>2
  <2>8. Sound(r, req[r])'
    BY <1>2, <2>3, <2>4, <2>5, <2>7 DEF Sound, HoldsRow, Recalculating
  <2>9. Tasks' /\ OneRun'
    BY <2>3, <2>4, <2>7, <2>8, GoneOn DEF Awarding
  <2>10. RowAgrees' /\ AcceptedTSPFound' /\ OneRealOffer' /\ DeliveredIsPriced' /\ PricedOnce'
    BY <1>4, <2>4, <2>5, <2>7
    DEF RowAgrees, AcceptedTSPFound, OneRealOffer, RealOffers, DeliveredIsPriced, PricedOnce,
        Accounted
  <2> QED
    BY <1>1, <2>9, <2>10 DEF Inv
<1> QED
  BY <1>7, <1>8, <1>9, <1>10, <1>11, <1>12, <1>13, <1>14, <1>15, <1>16, <1>17, <1>18, <1>19 DEF Write

LEMMA FailInv ==
  ASSUME Inv, NEW r \in Requests, Fail(r)
  PROVE  Inv'
<1>1. TypeOK'
  BY FailType DEF Inv
<1>2. Accounted => Accounted'
  BY StillAccounted DEF Fail
<1>3. Tasks' /\ OneRun'
  BY <1>2, Written DEF Fail
<1>4. RowAgrees' /\ AcceptedTSPFound' /\ OneRealOffer' /\ PricedOnce'
  BY DEF Fail, Inv, RowAgrees, AcceptedTSPFound, Accepted, OneRealOffer, RealOffers, PricedOnce
<1>5. DeliveredIsPriced'
  BY <1>2 DEF Fail, Inv, DeliveredIsPriced, Accounted
<1> QED
  BY <1>1, <1>3, <1>4, <1>5 DEF Inv

LEMMA StepInv ==
  ASSUME Inv, [Next]_vars
  PROVE  Inv'
<1>1. CASE UNCHANGED vars
  BY <1>1
  DEF vars, Inv, TypeOK, Tasks, Sound, OneRun, Awarding, RowAgrees, AcceptedTSPFound, Accepted,
      OneRealOffer, RealOffers, DeliveredIsPriced, Repricing, Accounted, PricedOnce
<1>2. ASSUME NEW r \in Requests, Read(r) \/ Write(r) \/ Fail(r)
      PROVE  Inv'
  BY <1>2, ReadInv, WriteInv, FailInv
<1> QED
  BY <1>1, <1>2 DEF Next

(* However the requests overlap, Inv holds: it is inductive.               *)
THEOREM Invariance == Spec => []Inv
<1>1. Inv /\ [Next]_vars => Inv'
  BY StepInv
<1> QED
  BY <1>1, InitInv, PTL DEF Spec

(* Every row keeps its type, and a request in progress has one of the      *)
(* tasks of the handlers.                                                  *)
THEOREM TypeCorrect == Spec => []TypeOK
BY Invariance, PTL DEF Inv

(* A row that a request read long ago and writes back whole is a row some  *)
(* handler wrote whole: its status and its dates agree.                    *)
THEOREM RowsAgree == Spec => []RowAgrees
BY Invariance, PTL DEF Inv

(* AcceptedShipmentOffer finds the offer of an accepted shipment.          *)
THEOREM AcceptedOfferIsFound == Spec => []AcceptedTSPFound
BY Invariance, PTL DEF Inv

(* No shipment is given to two TSPs for real, even if a request sets its   *)
(* status back: the award queue looks at the offers as well.               *)
THEOREM AwardedOnce == Spec => []OneRealOffer
BY Invariance, PTL DEF Inv

(* The base line items of a delivery are in the same transaction as the    *)
(* status.  A delivered shipment is without them only while a              *)
(* recalculation that deleted them goes on, or after one failed half-way.  *)
THEOREM DeliveryIsPriced == Spec => []DeliveredIsPriced
BY Invariance, PTL DEF Inv

(* However deliveries and recalculations overlap, the base line items are  *)
(* there once at most.                                                     *)
THEOREM DeliveryIsPricedOnce == Spec => []PricedOnce
BY Invariance, PTL DEF Inv
-----------------------------------------------------------------------------
(* One request at a time.  The row a request holds is then the row in the  *)
(* table but for the transition the request is about to make, so the       *)
(* handlers, reading and writing in two steps, keep the contract.          *)

(* The transition task q makes when it is written.                         *)
Transition(q) ==
  \/ q.todo = "submit" /\ row.status = "DRAFT" /\ q.row.status = "SUBMITTED"
  \/ q.todo = "shipment" /\ q.row.status = row.status
  \/ q.todo = "shipment" /\ <<row.status, q.row.status>> \in
       {<<"ACCEPTED", "APPROVED">>, <<"APPROVED", "IN_TRANSIT">>}
  \/ q.todo = "award" /\ row.status = "SUBMITTED" /\ q.row.status = "AWARDED"
  \/ q.todo = "accept" /\ row.status = "AWARDED" /\ q.row.status = "ACCEPTED"
  \/ q.todo \in {"deliver", "price", "charge"}
     /\ row.status = "IN_TRANSIT" /\ q.row.status = "DELIVERED"
  \/ q.todo \in Recalculating \union {"deliver", "price", "charge"}
     /\ row.status = "DELIVERED" /\ q.row.status = "DELIVERED"

Fresh(q) ==
  q.todo \in HoldsRow \union {"submit"} =>
    Transition(q) /\ q.row.gblNumber = row.gblNumber

(* What Inv lacks when requests do not overlap.                            *)
SerialInv ==
  /\ OneAtATime
  /\ \A r \in Requests : Fresh(req[r])
  /\ Accepted # {} => requireAnAcceptedTSP(row.status)

LEMMA IdleIsFresh == Fresh(Idle)
BY DEF Fresh, Idle, Saving, HoldsRow, Recalculating

LEMMA SerialInit == Init => SerialInv /\ Contract!ContractInit
<1> SUFFICES ASSUME Init PROVE SerialInv /\ Contract!ContractInit
  OBVIOUS
<1> USE DEF Init
<1>1. Accepted = {}
  BY EmptySeq DEF Accepted
<1>2. OneAtATime /\ \A r \in Requests : Fresh(req[r])
  BY IdleIsFresh DEF OneAtATime
<1>3. row.status = "DRAFT" /\ row.gblNumber = 0
  BY DEF Draft
<1> QED
  BY <1>1, <1>2, <1>3 DEF SerialInv, Contract!ContractInit

(* The contract sees the row, the accepted offer and the line items.       *)
LEMMA Unseen ==
  ASSUME UNCHANGED <<row, offers, baseItems>>
  PROVE  UNCHANGED Contract!contractVars
BY DEF Contract!contractVars, Accepted

(* Nor of the row does it see more than these two columns.                 *)
LEMMA UnseenRow ==
  ASSUME offers' = offers, baseItems' = baseItems,
         row'.status = row.status, row'.gblNumber = row.gblNumber
  PROVE  UNCHANGED Contract!contractVars
<1>1. Accepted' = Accepted
  BY DEF Accepted
<1> QED
  BY <1>1 DEF Contract!contractVars

(* Nothing accepted, nothing seen of the offers.                           *)
LEMMA UnseenOffers ==
  ASSUME Accepted = {}, Accepted' = {}, UNCHANGED <<row, baseItems>>
  PROVE  UNCHANGED Contract!contractVars
BY DEF Contract!contractVars

(* A request begins or continues a task and writes nothing.                *)
LEMMA SerialTask ==
  ASSUME Inv, SerialInv, OneAtATime', NEW r \in Requests, NEW task,
         req' = [req EXCEPT ![r] = task], UNCHANGED <<row, offers, baseItems>>,
         Fresh(task)
  PROVE  SerialInv' /\ UNCHANGED Contract!contractVars
<1>1. \A q \in Requests : req'[q] = IF q = r THEN task ELSE req[q]
  BY DEF Inv, TypeOK
<1>2. \A q \in Requests : Fresh(req'[q])
  BY <1>1 DEF SerialInv
<1>3. \A q \in Requests : Fresh(req[q])'
  BY <1>2 DEF Fresh, Transition
<1>4. Accepted' = Accepted
  BY DEF Accepted
<1> QED
  BY <1>3, <1>4, Unseen DEF SerialInv

(* A request ends: no other is in progress, so none holds a row.           *)
LEMMA SerialDone ==
  ASSUME Inv, SerialInv, NEW r \in Requests, req[r] # Idle, Done(r)
  PROVE  OneAtATime' /\ \A q \in Requests : Fresh(req[q])'
<1>1. \A q \in Requests : req'[q] = Idle
  BY DEF SerialInv, OneAtATime, Inv, TypeOK, Done
<1>2. \A q \in Requests : req'[q].todo = "nothing"
  BY <1>1 DEF Idle, Saving
<1> QED
  BY <1>1, <1>2 DEF OneAtATime, Fresh, HoldsRow, Recalculating, Idle, Saving

(* A request goes on with the row it holds: no other is in progress.       *)
LEMMA SerialGoneOn ==
  ASSUME Inv, SerialInv, OneAtATime', NEW r \in Requests, req[r].todo # "nothing",
         \A q \in Requests \ {r} : req'[q] = req[q], Fresh(req[r])',
         (Accepted # {} => requireAnAcceptedTSP(row.status))'
  PROVE  SerialInv'
<1>1. req[r] # Idle
  BY DEF Idle, Saving
<1>2. \A q \in Requests \ {r} : req'[q] = Idle
  BY <1>1 DEF SerialInv, OneAtATime
<1>3. \A q \in Requests \ {r} : req'[q].todo = "nothing"
  BY <1>2 DEF Idle, Saving
<1>4. \A q \in Requests \ {r} : Fresh(req[q])'
  BY <1>3 DEF Fresh, HoldsRow, Recalculating
<1> QED
  BY <1>4 DEF SerialInv

LEMMA SerialRead ==
  ASSUME Inv, SerialInv, OneAtATime', NEW r \in Requests, Read(r)
  PROVE  SerialInv' /\ UNCHANGED Contract!contractVars
<1> USE DEF HoldsRow, Recalculating
<1>1. row \in Row
  BY DEF Inv, TypeOK
<1>2. ASSUME NEW task, Begins(r, task), Fresh(task)
      PROVE  SerialInv' /\ UNCHANGED Contract!contractVars
  BY <1>2, SerialTask DEF Begins, tables
<1>3. CASE SubmitMove(r)
  <2> DEFINE x == [row EXCEPT !.status = "SUBMITTED", !.submitDate = TRUE]
  <2>1. x.status = "SUBMITTED" /\ x.gblNumber = row.gblNumber
    BY <1>1 DEF Row
  <2>2. Fresh(Saving("submit", x))
    BY <1>3, <2>1 DEF SubmitMove, Fresh, Transition, Saving
  <2> QED
    BY <1>2, <1>3, <2>2 DEF SubmitMove
<1>4. CASE PatchMove(r)
  <2>1. Fresh([Idle EXCEPT !.todo = "move", !.move = move])
    BY DEF Fresh, Idle, Saving
  <2> QED
    BY <1>2, <1>4, <2>1 DEF PatchMove
<1>5. ASSUME PatchShipment(r)
      PROVE  SerialInv' /\ UNCHANGED Contract!contractVars
  <2>1. Fresh(Saving("shipment", row))
    BY DEF Fresh, Transition, Saving
  <2> QED
    BY <1>2, <1>5, <2>1 DEF PatchShipment
<1>6. CASE ListUnoffered(r)
  <2>1. Fresh(Saving("offer", Draft))
    BY DEF Fresh, Saving
  <2> QED
    BY <1>2, <1>6, <2>1 DEF ListUnoffered
<1>7. CASE AwardShipment(r)
  <2> DEFINE x == [row EXCEPT !.status = "AWARDED"]
             task == [req[r] EXCEPT !.todo = "award", !.row = x]
  <2>1. req[r] \in Running
    BY <1>7, Started DEF AwardShipment, Inv
  <2>2. task.todo = "award" /\ task.row = x /\ x.status = "AWARDED" /\ x.gblNumber = row.gblNumber
    BY <1>1, <2>1 DEF Running, Row
  <2>3. Fresh(task)
    BY <1>7, <2>2 DEF AwardShipment, Fresh, Transition
  <2>4. req' = [req EXCEPT ![r] = task]
    BY <1>7, <2>1 DEF AwardShipment, Running
  <2> QED
    BY <1>7, <2>3, <2>4, SerialTask DEF AwardShipment, tables
<1>8. CASE GiveUp(r)
  <2> DEFINE task == [req[r] EXCEPT !.todo = "give up"]
  <2>1. req[r] \in Running
    BY <1>8, Started DEF GiveUp, Inv
  <2>2. Fresh(task)
    BY <2>1 DEF Running, Fresh
  <2> QED
    BY <1>8, <2>2, SerialTask DEF GiveUp, tables
<1>9. CASE ApproveHHG(r)
  <2> DEFINE x == [row EXCEPT !.status = "APPROVED", !.approveDate = TRUE]
  <2>1. x.status = "APPROVED" /\ x.gblNumber = row.gblNumber
    BY <1>1 DEF Row
  <2>2. Fresh(Saving("shipment", x))
    BY <1>9, <2>1 DEF ApproveHHG, Fresh, Transition, Saving
  <2> QED
    BY <1>2, <1>9, <2>2 DEF ApproveHHG
<1>10. ASSUME NEW t \in TSPs, AcceptShipment(r, t)
       PROVE  SerialInv' /\ UNCHANGED Contract!contractVars
  <2> DEFINE x == [row EXCEPT !.status = "ACCEPTED"]
  <2>1. PICK i \in OffersTo(t) :
          Begins(r, [todo |-> "accept", move |-> "DRAFT", offer |-> i, deleted |-> FALSE, row |-> x])
    BY <1>10 DEF AcceptShipment
  <2>2. x.status = "ACCEPTED" /\ x.gblNumber = row.gblNumber /\ row.status = "AWARDED"
    BY <1>1, <1>10 DEF AcceptShipment, Row
  <2>3. Fresh([todo |-> "accept", move |-> "DRAFT", offer |-> i, deleted |-> FALSE, row |-> x])
    BY <2>2 DEF Fresh, Transition
  <2> QED
    BY <1>2, <2>1, <2>3
<1>11. ASSUME NEW t \in TSPs, TransportShipment(r, t)
       PROVE  SerialInv' /\ UNCHANGED Contract!contractVars
  <2> DEFINE x == [row EXCEPT !.status = "IN_TRANSIT"]
  <2>1. x.status = "IN_TRANSIT" /\ x.gblNumber = row.gblNumber
    BY <1>1 DEF Row
  <2>2. Fresh(Saving("shipment", x))
    BY <1>11, <2>1 DEF TransportShipment, Fresh, Transition, Saving
  <2> QED
    BY <1>2, <1>11, <2>2 DEF TransportShipment
<1>12. ASSUME NEW t \in TSPs, DeliverShipment(r, t)
       PROVE  SerialInv' /\ UNCHANGED Contract!contractVars
  <2> DEFINE x == [row EXCEPT !.status = "DELIVERED"]
  <2>1. x.status = "DELIVERED" /\ x.gblNumber = row.gblNumber
    BY <1>1 DEF Row
  <2>2. Fresh(Saving("deliver", x))
    BY <1>12, <2>1 DEF DeliverShipment, Fresh, Transition, Saving
  <2> QED
    BY <1>2, <1>12, <2>2 DEF DeliverShipment
<1>13. ASSUME NEW t \in TSPs, CreateGovBillOfLading(r, t)
       PROVE  SerialInv' /\ UNCHANGED Contract!contractVars
  <2>1. Fresh(Saving("gbl", Draft))
    BY DEF Fresh, Saving
  <2> QED
    BY <1>2, <1>13, <2>1 DEF CreateGovBillOfLading
<1>14. CASE Recalculate(r)
  <2>1. Fresh(Saving("recalculate", row))
    BY <1>14 DEF Recalculate, Fresh, Transition, Saving, HoldsRow, Recalculating
  <2> QED
    BY <1>2, <1>14, <2>1 DEF Recalculate
<1> QED
  BY <1>3, <1>4, <1>5, <1>6, <1>7, <1>8, <1>9, <1>10, <1>11, <1>12, <1>13, <1>14
  DEF Read, PatchShipmentByTSP, CompletePmSurvey, TouchAllShipments

(* The offers of a run of the award queue are not accepted.                *)
LEMMA BatchIsOpen ==
  ASSUME Inv, NEW real \in Nat, NEW n \in 1..(MaxOffers - Len(offers)),
         NEW chosen \in [1..n -> TSPs], offers = <<>>, offers' = offers \o Batch(n, chosen, real)
  PROVE  Accepted = {} /\ Accepted' = {}
<1>1. n \in Nat
  BY LifecycleAssumption DEF Inv, TypeOK
<1> DEFINE b == Batch(n, chosen, real)
<1>2. b \in Seq(Offer) /\ Len(b) = n
  BY <1>1, BatchType
<1>3. offers' = b
  BY <1>2
<1>4. DOMAIN b = 1..n /\ \A i \in 1..n : ~ b[i].accepted
  BY <1>2 DEF Batch
<1> QED
  BY <1>3, <1>4, EmptySeq DEF Accepted

LEMMA SerialWrite ==
  ASSUME Inv, SerialInv, OneAtATime', NEW r \in Requests, Write(r)
  PROVE  SerialInv' /\ [Contract!ContractNext]_(Contract!contractVars)
<1> DEFINE q == req[r]
           Goal == SerialInv' /\ [Contract!ContractNext]_(Contract!contractVars)
<1>1. /\ row \in Row /\ gblSequence \in Nat /\ baseItems \in Nat /\ Agrees(row)
      /\ requireAnAcceptedTSP(row.status) => Accepted # {}
  BY DEF Inv, TypeOK, RowAgrees, AcceptedTSPFound
<1>2. Sound(r, q) /\ Fresh(q)
  BY DEF Inv, Tasks, SerialInv
<1>3. Accepted # {} => requireAnAcceptedTSP(row.status)
  BY DEF SerialInv
<1>4. q.todo # "nothing" => q # Idle
  BY DEF Idle, Saving
<1>5. ASSUME q.todo # "nothing", Done(r),
             Accepted' # {} => requireAnAcceptedTSP(row'.status)
      PROVE  SerialInv'
  BY <1>4, <1>5, SerialDone DEF SerialInv
(* Writes that leave the accepted offer and the line items alone.          *)
<1>6. ASSUME UNCHANGED <<offers, baseItems>>, q.todo # "nothing", Done(r),
             \/ row' = row
             \/ Contract!Submit /\ row'.status = "SUBMITTED"
             \/ Contract!Advance
      PROVE  Goal
  <2>1. Accepted' = Accepted
    BY <1>6 DEF Accepted
  <2>2. CASE row' = row
    BY <1>3, <1>5, <1>6, <2>1, <2>2, Unseen
  <2>3. CASE Contract!Submit /\ row'.status = "SUBMITTED"
    BY <1>3, <1>5, <1>6, <2>1, <2>3 DEF Contract!Submit, Contract!ContractNext, requireAnAcceptedTSP
  <2>4. CASE Contract!Advance
    <3>1. /\ row.status # "DELIVERED"
          /\ requireAnAcceptedTSP(row.status) => requireAnAcceptedTSP(row'.status)
      BY <2>4 DEF Contract!Advance, requireAnAcceptedTSP
    <3> QED
      BY <1>3, <1>5, <1>6, <2>1, <2>4, <3>1 DEF Contract!ContractNext
  <2> QED
    BY <1>6, <2>2, <2>3, <2>4
<1>7. CASE SaveMoveDependencies(r)
  <2> DEFINE x == [q.row EXCEPT !.gblNumber = gblSequence + 1]
  <2>1. q.row \in Row
    BY <1>7, Started DEF SaveMoveDependencies, Running, Inv
  <2>2. q.row.status = "SUBMITTED" /\ row.status = "DRAFT"
    BY <1>2, <1>7 DEF SaveMoveDependencies, Fresh, Transition, Recalculating
  <2>3. row' = x /\ x.status = "SUBMITTED" /\ x.gblNumber = gblSequence + 1
    BY <1>7, <2>1, <2>2 DEF SaveMoveDependencies, UpdatesRow, Row
  <2>4. UNCHANGED <<offers, baseItems>> /\ Accepted' = Accepted
    BY <1>7 DEF SaveMoveDependencies, Accepted
  <2>5. row.gblNumber = 0 /\ row'.gblNumber \in Nat \ {0}
    BY <1>1, <2>2, <2>3 DEF Agrees
  <2>6. Contract!Submit
    BY <2>2, <2>3, <2>4, <2>5 DEF Contract!Submit
  <2> QED
    BY <1>6, <1>7, <2>3, <2>4, <2>6 DEF SaveMoveDependencies
<1>8. CASE SaveMove(r)
  BY <1>6, <1>8 DEF SaveMove
<1>9. CASE SaveShipment(r)
  <2>1. row' = q.row /\ q.row.gblNumber = row.gblNumber /\ Transition(q) /\ q.todo = "shipment"
    BY <1>2, <1>9 DEF SaveShipment, UpdatesRow, Fresh, HoldsRow, Recalculating
  <2>2. UNCHANGED <<offers, baseItems>> /\ Accepted' = Accepted
    BY <1>9 DEF SaveShipment, Accepted
  <2>3. CASE row'.status = row.status
    <3>1. UNCHANGED Contract!contractVars
      BY <2>1, <2>2, <2>3 DEF Contract!contractVars
    <3> QED
      BY <1>3, <1>5, <1>9, <2>2, <2>3, <3>1 DEF SaveShipment
  <2>4. CASE row'.status # row.status
    <3>1. Contract!Advance
      BY <2>1, <2>2, <2>4 DEF Transition, Contract!Advance
    <3> QED
      BY <1>6, <1>9, <3>1 DEF SaveShipment
  <2> QED
    BY <2>3, <2>4
<1>10. CASE CommitAward(r)
  <2>1. /\ row' = q.row /\ q.row.gblNumber = row.gblNumber
        /\ row.status = "SUBMITTED" /\ row'.status = "AWARDED"
    BY <1>2, <1>10 DEF CommitAward, UpdatesRow, Fresh, Transition, HoldsRow, Recalculating
  <2>2. offers = <<>>
    BY <1>2, <1>10 DEF CommitAward, Sound
  <2>3. PICK n \in 1..(MaxOffers - Len(offers)) : \E chosen \in [1..n -> TSPs] :
          offers' = offers \o Batch(n, chosen, n)
    BY <1>10 DEF CommitAward
  <2>4. PICK chosen \in [1..n -> TSPs] : offers' = offers \o Batch(n, chosen, n)
    BY <2>3
  <2>5. n \in Nat
    BY LifecycleAssumption
  <2>6. Accepted = {} /\ Accepted' = {}
    BY <2>2, <2>4, <2>5, BatchIsOpen
  <2>7. Contract!Advance
    BY <1>10, <2>1, <2>6 DEF CommitAward, Contract!Advance
  <2> QED
    BY <1>3, <1>5, <1>10, <2>1, <2>6, <2>7 DEF CommitAward, Contract!ContractNext
(* A run that leaves administrative offers.                                *)
<1>11. ASSUME NEW real \in Nat, NEW n \in 1..(MaxOffers - Len(offers)),
              NEW chosen \in [1..n -> TSPs], offers' = offers \o Batch(n, chosen, real),
              q.todo \in {"offer", "give up"}, Done(r), UNCHANGED <<row, baseItems>>
       PROVE  Goal
  <2>1. offers = <<>>
    BY <1>2, <1>11 DEF Sound
  <2>2. Accepted = {} /\ Accepted' = {}
    BY <1>11, <2>1, BatchIsOpen
  <2> QED
    BY <1>3, <1>5, <1>11, <2>2, UnseenOffers
<1>12. CASE CommitGivenUp(r)
  <2>1. PICK n \in 1..(MaxOffers - Len(offers)) : \E chosen \in [1..n -> TSPs] :
          offers' = offers \o Batch(n, chosen, 0)
    BY <1>12 DEF CommitGivenUp
  <2>2. PICK chosen \in [1..n -> TSPs] : offers' = offers \o Batch(n, chosen, 0)
    BY <2>1
  <2> QED
    BY <1>11, <1>12, <2>2 DEF CommitGivenUp
<1>13. CASE CommitUnawarded(r)
  <2>1. PICK n \in 1..(MaxOffers - Len(offers)) : \E chosen \in [1..n -> TSPs] :
          offers' = offers \o Batch(n, chosen, n)
    BY <1>13 DEF CommitUnawarded
  <2>2. PICK chosen \in [1..n -> TSPs] : offers' = offers \o Batch(n, chosen, n)
    BY <2>1
  <2>3. n \in Nat
    BY LifecycleAssumption
  <2> QED
    BY <1>11, <1>13, <2>2, <2>3 DEF CommitUnawarded
<1>14. CASE SaveShipmentAndOffer(r)
  <2> DEFINE k == q.offer
             carrier == IF Accepted = {} THEN NoTSP ELSE offers[CHOOSE i \in Accepted : TRUE].tsp
  <2>1. /\ row' = q.row /\ q.row.gblNumber = row.gblNumber /\ k \in DOMAIN offers
        /\ row.status = "AWARDED" /\ row'.status = "ACCEPTED"
    BY <1>2, <1>14 DEF SaveShipmentAndOffer, UpdatesRow, Sound, Fresh, Transition, HoldsRow, Recalculating
  <2>2. Accepted = {}
    BY <1>3, <2>1 DEF requireAnAcceptedTSP
  <2>3. offers' = [offers EXCEPT ![k] = [offers[k] EXCEPT !.accepted = TRUE]]
    BY <1>14 DEF SaveShipmentAndOffer
  <2>4. offers' \in Seq(Offer)
    BY <1>14, WriteType DEF Inv, TypeOK, Write
  <2>5. DOMAIN offers' = DOMAIN offers /\ offers'[k] = [offers[k] EXCEPT !.accepted = TRUE]
    BY <2>1, <2>3
  <2>6. offers[k] \in Offer
    BY <2>1, ElementOfSeq, LenProperties DEF Inv, TypeOK
  <2>7. k \in Accepted'
    BY <2>1, <2>5, <2>6 DEF Accepted, Offer
  <2>8. PICK i \in DOMAIN offers' : i = CHOOSE j \in Accepted' : TRUE
    BY <2>7 DEF Accepted
  <2>9. offers'[i].tsp \in TSPs
    <3>1. \A o \in Seq(Offer) : \A j \in DOMAIN o : o[j] \in Offer
      BY ElementOfSeq, LenProperties
    <3> QED
      BY <2>4, <2>8, <3>1 DEF Offer
  <2>10. carrier = NoTSP /\ carrier' \in TSPs
    BY <2>2, <2>7, <2>8, <2>9
  <2>11. Contract!Accept
    BY <1>14, <2>1, <2>10 DEF SaveShipmentAndOffer, Contract!Accept
  <2> QED
    BY <1>3, <1>5, <1>14, <2>1, <2>11
    DEF SaveShipmentAndOffer, Contract!ContractNext, requireAnAcceptedTSP
(* The delivery goes on: the status it is going to write is still to come. *)
<1>15. ASSUME NEW todo \in {"price", "charge"}, req' = [req EXCEPT ![r].todo = todo],
              q.todo \in {"deliver", "price"}, UNCHANGED <<row, offers, baseItems>>
       PROVE  Goal
  <2> DEFINE task == [q EXCEPT !.todo = todo]
  <2>1. q \in Running
    BY <1>15, Started DEF Inv
  <2>2. task.todo = todo /\ task.row = q.row /\ req' = [req EXCEPT ![r] = task]
    BY <1>15, <2>1 DEF Running
  <2>3. Fresh(task)
    BY <1>2, <1>15, <2>2 DEF Fresh, Transition, HoldsRow, Recalculating
  <2> QED
    BY <1>15, <2>2, <2>3, SerialTask
<1>16. CASE UpdateDelivered(r)
  BY <1>15, <1>16 DEF UpdateDelivered, GoesOn
<1>17. CASE FetchShipmentLineItemsByItemID(r)
  BY <1>15, <1>17 DEF FetchShipmentLineItemsByItemID, GoesOn, tables
<1>18. CASE CommitDelivery(r)
  <2>1. /\ row' = q.row /\ q.row.gblNumber = row.gblNumber
        /\ row.status \in {"IN_TRANSIT", "DELIVERED"} /\ row'.status = "DELIVERED"
        /\ baseItems = 0 /\ baseItems' = 1
    BY <1>2, <1>18 DEF CommitDelivery, Sound, Fresh, Transition, HoldsRow, Recalculating
  <2>2. UNCHANGED offers /\ Accepted' = Accepted
    BY <1>18 DEF CommitDelivery, Accepted
  <2>3. Contract!Deliver \/ Contract!Reprice
    BY <2>1, <2>2 DEF Contract!Deliver, Contract!Reprice
  <2> QED
    BY <1>5, <1>18, <2>1, <2>3
    DEF CommitDelivery, Contract!ContractNext, requireAnAcceptedTSP
<1>19. CASE CreateMoveDocument(r)
  BY <1>6, <1>19 DEF CreateMoveDocument
(* A recalculation writes the row that it read and no other has changed.   *)
<1>20. CASE SaveRecalculated(r)
  <2>1. PICK next \in {"delete", "save again", "deliver"} :
          /\ req' = [req EXCEPT ![r].todo = next]
          /\ q.todo \in Recalculating
    BY <1>20 DEF SaveRecalculated, GoesOn, Recalculating
  <2> DEFINE task == [q EXCEPT !.todo = next]
  <2>2. q \in Running
    BY <2>1, Started DEF Inv, Recalculating
  <2>3. task.todo = next /\ task.row = q.row /\ req' = [req EXCEPT ![r] = task]
    BY <2>1, <2>2 DEF Running
  <2>4. /\ row' = q.row /\ UNCHANGED <<offers, baseItems>>
        /\ q.row.status = "DELIVERED" /\ row.status = "DELIVERED"
        /\ q.row.gblNumber = row.gblNumber
    <3>1. row' = q.row /\ UNCHANGED <<offers, baseItems>>
      BY <1>20 DEF SaveRecalculated, UpdatesRow
    <3>2. Transition(q) /\ q.row.gblNumber = row.gblNumber
      BY <1>2, <2>1 DEF Fresh, HoldsRow
    <3>3. q.row.status = "DELIVERED" /\ row.status = "DELIVERED"
      BY <2>1, <3>2 DEF Transition, Recalculating
    <3> QED
      BY <3>1, <3>2, <3>3
  <2>5. UNCHANGED Contract!contractVars
    <3>1. /\ offers' = offers /\ baseItems' = baseItems
          /\ row'.status = row.status /\ row'.gblNumber = row.gblNumber
      BY <2>4
    <3> QED
      BY <3>1, UnseenRow
  <2>6. Fresh(req[r])'
    <3>1. req'[r] = task
      BY <2>3 DEF Inv, TypeOK
    <3> QED
      BY <2>3, <2>4, <3>1 DEF Fresh, Transition, HoldsRow, Recalculating
  <2>7. SerialInv'
    <3>1. q.todo # "nothing" /\ \A x \in Requests \ {r} : req'[x] = req[x]
      BY <2>1 DEF Inv, TypeOK, Recalculating
    <3>2. (Accepted # {} => requireAnAcceptedTSP(row.status))'
      BY <2>4 DEF requireAnAcceptedTSP
    <3> QED
      BY <2>6, <3>1, <3>2, SerialGoneOn
  <2> QED
    BY <2>5, <2>7
<1>21. CASE DeleteBaseShipmentLineItems(r)
  <2> DEFINE task == [q EXCEPT !.todo = "resave", !.deleted = (baseItems' # baseItems)]
  <2>1. q \in Running
    BY <1>21, Started DEF DeleteBaseShipmentLineItems, Inv
  <2>2. task.todo = "resave" /\ task.row = q.row /\ req' = [req EXCEPT ![r] = task]
    BY <1>21, <2>1 DEF DeleteBaseShipmentLineItems, Running
  <2>3. /\ UNCHANGED <<row, offers>>
        /\ baseItems' = 0 \/ baseItems' = baseItems
        /\ q.row.status = "DELIVERED" /\ row.status = "DELIVERED"
        /\ q.row.gblNumber = row.gblNumber
    BY <1>2, <1>21 DEF DeleteBaseShipmentLineItems, Fresh, Transition, HoldsRow, Recalculating
  <2>4. [Contract!ContractNext]_(Contract!contractVars)
    <3>1. CASE (baseItems' # 0) = (baseItems # 0)
      BY <2>3, <3>1 DEF Contract!contractVars, Accepted
    <3>2. CASE (baseItems' # 0) # (baseItems # 0)
      <4>1. Contract!Reprice
        BY <2>3, <3>2 DEF Contract!Reprice, Accepted
      <4> QED
        BY <4>1 DEF Contract!ContractNext
    <3> QED
      BY <3>1, <3>2
  <2>5. Fresh(req[r])'
    <3>1. req'[r] = task
      BY <2>2 DEF Inv, TypeOK
    <3> QED
      BY <2>2, <2>3, <3>1 DEF Fresh, Transition, HoldsRow, Recalculating
  <2>6. SerialInv'
    <3>1. q.todo # "nothing" /\ \A x \in Requests \ {r} : req'[x] = req[x]
      BY <1>21, <2>2 DEF DeleteBaseShipmentLineItems, Inv, TypeOK
    <3>2. (Accepted # {} => requireAnAcceptedTSP(row.status))'
      BY <2>3 DEF requireAnAcceptedTSP
    <3> QED
      BY <2>5, <3>1, <3>2, SerialGoneOn
  <2> QED
    BY <2>4, <2>6
<1> QED
  BY <1>7, <1>8, <1>9, <1>10, <1>12, <1>13, <1>14, <1>16, <1>17, <1>18, <1>19, <1>20, <1>21
  DEF Write

LEMMA SerialFail ==
  ASSUME Inv, SerialInv, NEW r \in Requests, Fail(r)
  PROVE  SerialInv' /\ UNCHANGED Contract!contractVars
<1>1. Accepted' = Accepted
  BY DEF Fail, Accepted
<1>2. SerialInv'
  BY <1>1, SerialDone DEF Fail, SerialInv
<1> QED
  BY <1>2, Unseen DEF Fail

(* A step of a behaviour whose requests do not overlap.                    *)
LEMMA SerialStep ==
  ASSUME Inv, serial => SerialInv, [MCNext]_<<vars, serial>>
  PROVE  /\ serial' => SerialInv'
         /\ serial => [Contract!ContractNext]_(Contract!contractVars)
<1>1. CASE UNCHANGED <<vars, serial>>
  BY <1>1, Unseen
  DEF vars, SerialInv, OneAtATime, Fresh, Transition, Accepted
<1>2. CASE MCNext
  <2>1. serial' = serial /\ (serial => OneAtATime')
    BY <1>2 DEF MCNext
  <2>2. PICK r \in Requests : Read(r) \/ Write(r) \/ Fail(r)
    BY <1>2 DEF MCNext, Next
  <2> QED
    BY <2>1, <2>2, SerialRead, SerialWrite, SerialFail
<1> QED
  BY <1>1, <1>2

(* Requests that come one after the other keep the contract: the status    *)
(* moves along the "State Machinery", each step of it once, and the GBL    *)
(* number, the TSP and the line items come with their transition.  It is   *)
(* only because requests overlap that a status goes back.                  *)
THEOREM SerialRequestsKeepTheContract == MCSpec => KeepsTheContract
<1>1. MCInit => Init /\ (serial => SerialInv) /\ (serial => Contract!ContractInit)
  BY SerialInit DEF MCInit
<1>2. Inv /\ [MCNext]_<<vars, serial>> => Inv'
  BY StepInv DEF MCNext, vars
<1>3. Inv /\ (serial => SerialInv) /\ [MCNext]_<<vars, serial>> =>
        (serial => SerialInv)' /\ (serial => [Contract!ContractNext]_(Contract!contractVars))
  BY SerialStep
<1> QED
  BY <1>1, <1>2, <1>3, InitInv, PTL DEF MCSpec, KeepsTheContract
=============================================================================
