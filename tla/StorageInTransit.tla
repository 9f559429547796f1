--------------------------- MODULE StorageInTransit ---------------------------
(***************************************************************************)
(* The storages in transit (SITs) of one shipment: the TSP asks for them,  *)
(* the office decides, the TSP places the shipment into them and takes it  *)
(* out, the delivery of the shipment ends and prices them, and a           *)
(* recalculation prices them again.                                        *)
(*                                                                         *)
(* Every service reads a row, checks and changes the copy in memory and    *)
(* writes back all its columns; nothing is locked in between.  The number  *)
(* of a SIT is drawn from a counter before the row is saved.               *)
(***************************************************************************)
EXTENDS Integers, FiniteSets, Functions

CONSTANTS
  Sits,         \* ids of SITs; an id is used once
  Requests,     \* requests that may be in progress together
  Days,         \* the days a SIT may start on, in the order of time
  None,
  MaxSequence   \* bound on the numbers given out per day

ASSUME StorageAssumption ==
  /\ Days \subseteq Nat
  /\ None \notin Nat
  /\ None \notin Days \X Nat
  /\ MaxSequence \in Nat

VARIABLES
  shipment,  \* shipments.status, IN_TRANSIT or DELIVERED
  priced,    \* whether the shipment has its base line items
  row,       \* the rows of storage_in_transits, by id
  gone,      \* ids of rows that were deleted
  sequence,  \* storage_in_transit_number_trackers: Days -> sequence_number
  charged,   \* SITs with line items of their own: 210A to 210C
  uncharged, \* history: SITs whose line items a recalculation has deleted
             \* and that have got none since
  req        \* Requests -> what the request has read and is going to write

sits == <<row, gone>>
tables == <<shipment, priced, sits, sequence, charged, uncharged>>
vars == <<tables, req>>

Statuses == {"REQUESTED", "APPROVED", "DENIED", "IN_SIT", "RELEASED", "DELIVERED"}

ASSUME NoneAssumption == None \notin Statuses

(* YYDDDNNNN: the day and, in at least four digits, the sequence number    *)
Number == Days \X Nat

Row ==
  [location : {"ORIGIN", "DESTINATION"},
   status : Statuses,
   authorized : Days \union {None},   \* AuthorizedStartDate
   start : Days \union {None},        \* ActualStartDate
   number : Number \union {None}]     \* SITNumber

NoRows == [s \in {} |-> None]
Idle == [at |-> "idle", rows |-> NoRows, shipment |-> None]

Init ==
  /\ shipment = "IN_TRANSIT"
  /\ priced = FALSE
  /\ row = NoRows
  /\ gone = {}
  /\ sequence = [d \in Days |-> 0]
  /\ charged = {}
  /\ uncharged = {}
  /\ req = [r \in Requests |-> Idle]
-----------------------------------------------------------------------------
(* Rows and requests.                                                      *)

(* Faulty: a row that was deleted comes back.                              *)
Upserted(table, rows) ==
  [s \in DOMAIN table \union DOMAIN rows |-> IF s \in DOMAIN rows THEN rows[s] ELSE table[s]]

(* UPDATE ... WHERE id = ...: every column; a deleted row stays deleted.   *)
Updated(table, rows) ==
  [s \in DOMAIN table |-> IF s \in DOMAIN rows THEN rows[s] ELSE table[s]]

(* What Validate asks of the dates: a SIT starts on the authorized day or  *)
(* later.                                                                  *)
Validate(sit) ==
  sit.start # None => sit.authorized # None /\ sit.authorized <= sit.start

Begins(r, at, rows) ==
  /\ req[r] = Idle
  /\ req' = [req EXCEPT ![r] = [Idle EXCEPT !.at = at, !.rows = rows]]
  /\ UNCHANGED tables

(* The change of one row is read, checked and made in memory.              *)
Changes(r, s, at, sit) == Begins(r, at, [t \in {s} |-> sit])

Continues(r, at) == req' = [req EXCEPT ![r].at = at]
Ends(r) == req' = [req EXCEPT ![r] = Idle]

(* An error, a panic or the end of the process: what was committed stays.  *)
Fail(r) ==
  /\ req[r] # Idle
  /\ Ends(r)
  /\ UNCHANGED tables
-----------------------------------------------------------------------------
(* The services.                                                           *)

CreateStorageInTransit(s) ==
  /\ s \notin DOMAIN row \union gone
  /\ \E location \in {"ORIGIN", "DESTINATION"} :
       LET new == [location |-> location, status |-> "REQUESTED", authorized |-> None,
                   start |-> None, number |-> None]
       IN  row' = [t \in DOMAIN row \union {s} |-> IF t = s THEN new ELSE row[t]]
  /\ UNCHANGED <<shipment, priced, gone, sequence, charged, uncharged, req>>

ApproveStorageInTransit(r, s) ==
  /\ row[s].status # "DELIVERED"
  /\ \E d \in Days :
       Changes(r, s, "saving", [row[s] EXCEPT !.status = "APPROVED", !.authorized = d])

DenyStorageInTransit(r, s) ==
  /\ row[s].status # "DELIVERED"
  /\ Changes(r, s, "saving", [row[s] EXCEPT !.status = "DENIED"])

(* Faulty: the row is saved with the number it has.                        *)
PlaceWithoutNumber(r, s) ==
  /\ row[s].status = "APPROVED"
  /\ \E d \in Days :
       Changes(r, s, "saving", [row[s] EXCEPT !.status = "IN_SIT", !.start = d])

PlaceIntoSITStorageInTransit(r, s) ==
  /\ row[s].status = "APPROVED"
  /\ \E d \in Days :
       Changes(r, s, "numbering", [row[s] EXCEPT !.status = "IN_SIT", !.start = d])

(* Faulty: the number is read, and counted up after it was used.           *)
NumberReadOnly(r) ==
  /\ req[r].at = "numbering"
  /\ \E s \in DOMAIN req[r].rows :
       LET d == req[r].rows[s].start
       IN  req' = [req EXCEPT ![r].at = "saving",
                              ![r].rows[s].number = <<d, sequence[d] + 1>>]
  /\ UNCHANGED tables

(* One statement, committed by itself, counts and returns the number.      *)
GenerateStorageInTransitNumber(r) ==
  /\ req[r].at = "numbering"
  /\ \E s \in DOMAIN req[r].rows :
       LET d == req[r].rows[s].start
           n == sequence[d] + 1
       IN  /\ n <= MaxSequence
           /\ sequence' = [sequence EXCEPT ![d] = n]
           /\ req' = [req EXCEPT ![r].at = "saving", ![r].rows[s].number = <<d, n>>]
  /\ UNCHANGED <<shipment, priced, sits, charged, uncharged>>

(* "The latter is there so that we can 'undo' a mistaken deliver action."  *)
ReleaseStorageInTransit(r, s) ==
  /\ row[s].location = "ORIGIN"
  /\ row[s].status \in {"IN_SIT", "DELIVERED"}
  /\ Changes(r, s, "saving", [row[s] EXCEPT !.status = "RELEASED"])

(* The dates of the payload replace those of the row, absent ones too.     *)
PatchStorageInTransit(r, s) ==
  \E location \in {"ORIGIN", "DESTINATION"}, start \in Days \union {None},
     at \in {"saving", "saving for TSP"} :
    Changes(r, s, at, [row[s] EXCEPT !.location = location, !.start = start])

DeleteStorageInTransit(s) ==
  /\ row' = Restrict(row, DOMAIN row \ {s})
  /\ gone' = gone \union {s}
  /\ UNCHANGED <<shipment, priced, sequence, charged, uncharged, req>>

(* ValidateAndSave; what is not valid is not saved.                        *)
SaveStorageInTransit(r) ==
  /\ req[r].at \in {"saving", "saving for TSP"}
  /\ \A s \in DOMAIN req[r].rows : Validate(req[r].rows[s])
  /\ row' = Updated(row, req[r].rows)
  /\ IF req[r].at = "saving" THEN Ends(r) ELSE Continues(r, "fetching shipment")
  /\ UNCHANGED <<shipment, priced, gone, sequence, charged, uncharged>>

(* SaveActualDeliveryDateAsOutDate reads the shipment anew and saves all   *)
(* of its row.  Without an out date the handler panics before, a Fail.     *)
FetchShipment(r) ==
  /\ req[r].at = "fetching shipment"
  /\ req' = [req EXCEPT ![r] = [Idle EXCEPT !.at = "saving shipment", !.shipment = shipment]]
  /\ UNCHANGED tables

SaveShipment(r) ==
  /\ req[r].at = "saving shipment"
  /\ shipment' = req[r].shipment
  /\ Ends(r)
  /\ UNCHANGED <<priced, sits, sequence, charged, uncharged>>
-----------------------------------------------------------------------------
(* The delivery of the shipment.                                           *)

(* Faulty: the location is not looked at.                                  *)
DeliveredAnywhere(sit) ==
  IF sit.status = "IN_SIT" THEN [sit EXCEPT !.status = "DELIVERED"] ELSE sit

(* StorageInTransit.Deliver for those "that are IN_SIT" at the destination *)
Delivered(sit) ==
  IF sit.status = "IN_SIT" /\ sit.location = "DESTINATION"
  THEN [sit EXCEPT !.status = "DELIVERED"] ELSE sit

(* The shipment and its SITs are read together, and delivered in memory.   *)
DeliverShipment(r) ==
  /\ shipment = "IN_TRANSIT"
  /\ Begins(r, "delivering", [s \in DOMAIN row |-> Delivered(row[s])])

(* Of the SITs, read again, those released or delivered have line items.   *)
CreateStorageInTransitLineItems(table) ==
  {s \in DOMAIN table : table[s].status \in {"DELIVERED", "RELEASED"}}

Charge(S) ==
  /\ charged' = charged \union S
  /\ uncharged' = uncharged \ S

(* Faulty: prices the SITs as they were before.                            *)
CommitPricedAsRead(r) ==
  /\ req[r].at = "delivering"
  /\ ~ priced
  /\ shipment' = "DELIVERED"
  /\ priced' = TRUE
  /\ row' = Updated(row, req[r].rows)
  /\ Charge(CreateStorageInTransitLineItems(row))
  /\ Ends(r)
  /\ UNCHANGED <<gone, sequence>>

(* The transaction saves the shipment, writes back every SIT that was read *)
(* and prices.  It is rolled back when the shipment has base line items.   *)
CommitDelivery(r) ==
  /\ req[r].at = "delivering"
  /\ ~ priced
  /\ shipment' = "DELIVERED"
  /\ priced' = TRUE
  /\ row' = Updated(row, req[r].rows)
  /\ Charge(CreateStorageInTransitLineItems(row'))
  /\ Ends(r)
  /\ UNCHANGED <<gone, sequence>>
-----------------------------------------------------------------------------
(* The recalculation: PriceShipment once more, in many transactions.       *)

(* RecalculateShipmentLineItems, when the shipment was read DELIVERED      *)
Recalculate(r) ==
  /\ shipment = "DELIVERED"
  /\ req[r] = Idle
  /\ req' = [req EXCEPT ![r] = [Idle EXCEPT !.at = "recalculating", !.shipment = shipment]]
  /\ UNCHANGED tables

(* The shipment is saved within either deletion, but on a connection of    *)
(* its own, so that the save is there before the deletion; and after them. *)
SaveRecalculated(r) ==
  /\ \/ req[r].at = "recalculating" /\ Continues(r, "deleting base items")
     \/ req[r].at = "resaving" /\ Continues(r, "deleting SIT items")
     \/ req[r].at = "saving again" /\ Continues(r, "listing")
  /\ shipment' = req[r].shipment
  /\ UNCHANGED <<priced, sits, sequence, charged, uncharged>>

(* The commits of the deletions.  They delete the line items that were     *)
(* read at the beginning: some may be gone since, and others created.      *)
DeleteBaseShipmentLineItems(r) ==
  /\ req[r].at = "deleting base items"
  /\ priced' \in {FALSE, priced}
  /\ Continues(r, "resaving")
  /\ UNCHANGED <<shipment, sits, sequence, charged, uncharged>>

DeleteStorageInTransitLineItems(r) ==
  /\ req[r].at = "deleting SIT items"
  /\ \E S \in SUBSET charged :
       /\ charged' = charged \ S
       /\ uncharged' = uncharged \union S
  /\ Continues(r, "saving again")
  /\ UNCHANGED <<shipment, priced, sits, sequence>>

(* CreateStorageInTransitLineItems reads the SITs and creates the line     *)
(* items of one after the other, outside of any transaction.               *)
FetchStorageInTransitsOnShipment(r) ==
  /\ req[r].at = "listing"
  /\ req' = [req EXCEPT ![r].at = "charging",
                        ![r].rows = Restrict(row, CreateStorageInTransitLineItems(row))]
  /\ UNCHANGED tables

ChargeStorageInTransit(r) ==
  /\ req[r].at = "charging"
  /\ \E s \in DOMAIN req[r].rows :
       /\ Charge({s})
       /\ req' = [req EXCEPT ![r].rows = Restrict(req[r].rows, DOMAIN req[r].rows \ {s})]
  /\ UNCHANGED <<shipment, priced, sits, sequence>>

(* The last transaction.  It is rolled back when there are base line items *)
(* again.                                                                  *)
SaveShipmentAndPricingInfo(r) ==
  /\ req[r].at = "charging"
  /\ DOMAIN req[r].rows = {}
  /\ ~ priced
  /\ shipment' = req[r].shipment
  /\ priced' = TRUE
  /\ Ends(r)
  /\ UNCHANGED <<sits, sequence, charged, uncharged>>
-----------------------------------------------------------------------------
Office(r, s) == ApproveStorageInTransit(r, s) \/ DenyStorageInTransit(r, s)

TSP(r, s) == PlaceIntoSITStorageInTransit(r, s) \/ ReleaseStorageInTransit(r, s)

Recalculation(r) ==
  \/ Recalculate(r) \/ SaveRecalculated(r)
  \/ DeleteBaseShipmentLineItems(r) \/ DeleteStorageInTransitLineItems(r)
  \/ FetchStorageInTransitsOnShipment(r) \/ ChargeStorageInTransit(r)
  \/ SaveShipmentAndPricingInfo(r)

Next ==
  \/ \E s \in Sits : CreateStorageInTransit(s)
  \/ \E s \in DOMAIN row : DeleteStorageInTransit(s)
  \/ \E r \in Requests, s \in DOMAIN row :
       Office(r, s) \/ TSP(r, s) \/ PatchStorageInTransit(r, s)
  \/ \E r \in Requests :
       \/ GenerateStorageInTransitNumber(r)
       \/ SaveStorageInTransit(r)
       \/ FetchShipment(r)
       \/ SaveShipment(r)
       \/ DeliverShipment(r)
       \/ CommitDelivery(r)
       \/ Recalculation(r)
       \/ Fail(r)

Spec == Init /\ [][Next]_vars
-----------------------------------------------------------------------------
(* Properties.                                                             *)

Copies(r) == req[r].rows
Recalculating ==
  {"recalculating", "deleting base items", "resaving", "deleting SIT items", "saving again",
   "listing", "charging"}
Steps ==
  {"idle", "saving", "saving for TSP", "numbering", "fetching shipment", "saving shipment",
   "delivering"} \union Recalculating

(* The tables and the requests in progress are well formed.                *)
TypeOK ==
  /\ shipment \in {"IN_TRANSIT", "DELIVERED"}
  /\ priced \in BOOLEAN
  /\ DOMAIN row \subseteq Sits \ gone
  /\ \A s \in DOMAIN row : row[s] \in Row
  /\ gone \subseteq Sits
  /\ sequence \in [Days -> Nat]
  /\ charged \subseteq Sits
  /\ uncharged \subseteq Sits
  /\ \A r \in Requests :
       /\ req[r].at \in Steps
       /\ req[r].shipment \in {"IN_TRANSIT", "DELIVERED", None}
       /\ DOMAIN Copies(r) \subseteq Sits
       /\ \A s \in DOMAIN Copies(r) : Copies(r)[s] \in Row

Taken(sit) == sit.status \in {"IN_SIT", "RELEASED", "DELIVERED"}

(* A SIT the shipment was placed into is authorized and has its number,    *)
(* and it starts on no day before the authorized one, whatever old copies  *)
(* of its row are written back after the placement.                        *)
TakenIsNumbered ==
  \A s \in DOMAIN row :
    /\ Taken(row[s]) => row[s].authorized # None /\ row[s].number # None
    /\ Validate(row[s])

(* A number belongs to one SIT, and comes from the counter of its day,     *)
(* however placements overlap and fail.                                    *)
NumbersDiffer ==
  \A s \in DOMAIN row :
    row[s].number # None =>
      /\ row[s].number[2] \in 1..sequence[row[s].number[1]]
      /\ \A t \in DOMAIN row \ {s} : row[s].number # row[t].number

(* A SIT that counts as delivered has been given its line items: the       *)
(* delivery prices what it has just written, and no old copy delivers a    *)
(* SIT by itself.  Only a recalculation takes them away, which deletes     *)
(* them before it creates them again, and may fail in between or price the *)
(* SITs by a table in which an old copy has undone the delivery.           *)
DeliveredIsCharged ==
  \A s \in DOMAIN row : row[s].status = "DELIVERED" => s \in charged \union uncharged
=============================================================================
