----------------------------- MODULE OfferBook -----------------------------
(***************************************************************************)
(* What the award queue promises the rest of the system, seen from         *)
(* outside its transaction: shipments are submitted, and from time to time *)
(* a whole batch of offers appears at once.  A batch only offers shipments *)
(* that nobody was offered before, gives each of them to at most one TSP   *)
(* for real, and marks exactly those as awarded.  Administrative offers    *)
(* record the TSPs that were passed over because of a blackout.            *)
(***************************************************************************)
EXTENDS Integers, Sequences

CONSTANTS Shipments, TSPPs

VARIABLES status,   \* Shipments -> status column of the shipments table
          offers    \* rows of shipment_offers, in the order of creation

bookVars == <<status, offers>>

Offer == [shipment : Shipments, tspp : TSPPs, administrative : BOOLEAN]

OffersOf(book, s) == {i \in DOMAIN book : book[i].shipment = s}

RealOffersOf(book, s) == {i \in OffersOf(book, s) : ~ book[i].administrative}

Unoffered(s) == status[s] = "SUBMITTED" /\ OffersOf(offers, s) = {}

BookInit ==
  /\ status = [s \in Shipments |-> "DRAFT"]
  /\ offers = <<>>

Submit(s) ==
  /\ status[s] = "DRAFT"
  /\ status' = [status EXCEPT ![s] = "SUBMITTED"]
  /\ UNCHANGED offers

(* The offers that the batch adds at the end of the book.                  *)
InBatch == {i \in DOMAIN offers' : i > Len(offers)}

AwardBatch ==
  /\ offers' \in Seq(Offer)
  /\ Len(offers') >= Len(offers)
  /\ \A i \in DOMAIN offers : offers'[i] = offers[i]
  /\ \A i \in InBatch : Unoffered(offers'[i].shipment)
  /\ \A i, j \in InBatch :
       /\ ~ offers'[i].administrative
       /\ ~ offers'[j].administrative
       /\ offers'[i].shipment = offers'[j].shipment
       => i = j
  /\ status' = [s \in Shipments |->
                  IF \E i \in InBatch : offers'[i].shipment = s /\ ~ offers'[i].administrative
                  THEN "AWARDED" ELSE status[s]]

BookNext == AwardBatch \/ \E s \in Shipments : Submit(s)

BookSpec == BookInit /\ [][BookNext]_bookVars
=============================================================================
