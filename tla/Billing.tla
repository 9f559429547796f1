------------------------------- MODULE Billing -------------------------------
(***************************************************************************)
(* The line items of one shipment and the invoices that bill them: pricing *)
(* at delivery, recalculation, the handlers of single line items, and the  *)
(* invoice that is sent to GEX, as requests that overlap, fail and end at  *)
(* any point.                                                              *)
(*                                                                         *)
(* A handler writes back whole rows it read earlier.  Reads of one handler *)
(* that follow each other are one step where only guards lie between them. *)
(* GEX is external: it may take a bill and the answer may be lost.         *)
(***************************************************************************)
EXTENDS Integers, Sequences, Functions

CONSTANTS
  Requests,               \* requests that may be in progress together
  BaseCodes,              \* BaseShipmentLineItemCodes
  StorageInTransitCodes,  \* the line items the shipment's SITs give rise to
  PreapprovalCodes,       \* accessorials: tariff items that require pre-approval
  ThirdPartyCodes,        \* those with an estimated and an actual amount: 35A
  None,
  MaxItems,               \* bound on the line items there are or that somebody knows of
  MaxInvoices             \* bound on the invoices and on the base numbers given out

ASSUME BillingAssumption ==
  /\ BaseCodes \cap StorageInTransitCodes = {}
  /\ PreapprovalCodes \cap (BaseCodes \union StorageInTransitCodes) = {}
  /\ ThirdPartyCodes \subseteq PreapprovalCodes
  /\ None \notin Nat
  /\ MaxItems \in Nat
  /\ MaxInvoices \in Nat

VARIABLES
  shipment,         \* shipments.status, from IN_TRANSIT on
  item,             \* the rows of shipment_line_items, by id
  invoice,          \* the rows of invoices, in the order of creation
  invoiceSequence,  \* invoice_number_trackers.sequence_number
  received,         \* the bills GEX has
  req               \* Requests -> what the request has read and is going to write

tables == <<shipment, item, invoice, invoiceSequence>>
vars == <<tables, received, req>>

Codes == BaseCodes \union StorageInTransitCodes \union PreapprovalCodes
Items == 1..MaxItems

(* actual: ActualAmountCents is set; priced: AmountCents is set.           *)
Row ==
  [code : Codes,
   status : {"SUBMITTED", "APPROVED", "CONDITIONALLY_APPROVED"},
   actual : BOOLEAN,
   priced : BOOLEAN,
   invoice : Nat \union {None}]

(* <SCAC><YY><dddd>-<nn>; suffix 0 for none.                               *)
Number == [base : Nat, suffix : Nat]
InvoiceStatuses == {"IN_PROCESS", "SUBMITTED", "SUBMISSION_FAILURE", "UPDATE_FAILURE"}

NoRows == [x \in {} |-> None]

(* at: the next step; rows: line items as read, with the changes made in   *)
(* memory.                                                                 *)
Idle == [at |-> "idle", rows |-> NoRows, invoice |-> 0,
         number |-> [base |-> 0, suffix |-> 0]]

Init ==
  /\ shipment = "IN_TRANSIT"
  /\ item = NoRows
  /\ invoice = <<>>
  /\ invoiceSequence = 0
  /\ received = {}
  /\ req = [r \in Requests |-> Idle]
-----------------------------------------------------------------------------
(* Queries and writes on shipment_line_items.                              *)

WithCode(rows, codes) == {x \in DOMAIN rows : rows[x].code \in codes}
Read(S) == Restrict(item, S)

(* FetchShipmentForInvoice: approved, or without need of approval, and not *)
(* on an invoice yet.                                                      *)
Billable ==
  {x \in DOMAIN item :
     /\ item[x].status = "APPROVED" \/ item[x].code \notin PreapprovalCodes
     /\ item[x].invoice = None}

(* FetchApprovedPreapprovalRequestsByShipment, invoiced ones included      *)
ApprovedPreapprovals ==
  {x \in WithCode(item, PreapprovalCodes) : item[x].status = "APPROVED"}

(* PriceAdditionalRequest on each of the rows                              *)
Priced(rows) == [x \in DOMAIN rows |-> [rows[x] EXCEPT !.priced = TRUE]]

(* UPDATE ... WHERE id = ...: every column; a deleted row stays deleted.   *)
Updated(table, rows) ==
  [x \in DOMAIN table |-> IF x \in DOMAIN rows THEN rows[x] ELSE table[x]]

Destroyed(S) == Read(DOMAIN item \ S)

Extended(table, new) ==
  [x \in DOMAIN table \union DOMAIN new |-> IF x \in DOMAIN new THEN new[x] ELSE table[x]]

(* An id is new when no row, no request and no bill has it.  Ids are UUIDs *)
(* and never given twice, but one that nobody knows any more is as good.   *)
NewIds ==
  Items \ (DOMAIN item \union UNION {DOMAIN req[r].rows : r \in Requests}
                        \union UNION {b.items : b \in received})

(* The ways to give one row for each of the codes an id, the lowest first  *)
Numberings(codes) ==
  UNION {Bijection(S, codes) : S \in {T \in SUBSET NewIds : \A x \in T, y \in NewIds \ T : x < y}}

(* The items of SITs are APPROVED from the start, others SUBMITTED.        *)
NewRows(code, actual, priced) ==
  [x \in DOMAIN code |->
     [code |-> code[x],
      status |-> IF code[x] \in StorageInTransitCodes THEN "APPROVED" ELSE "SUBMITTED",
      actual |-> actual,
      priced |-> priced,
      invoice |-> None]]
-----------------------------------------------------------------------------
(* Requests.                                                               *)

Becomes(r, progress) == req' = [req EXCEPT ![r] = progress]
Begins(r, at, rows) == req[r] = Idle /\ Becomes(r, [Idle EXCEPT !.at = at, !.rows = rows])
Continues(r, at, rows) == Becomes(r, [req[r] EXCEPT !.at = at, !.rows = rows])
Ends(r) == Becomes(r, Idle)

(* An error, a panic or the end of the process: what was committed stays.  *)
Fail(r) ==
  /\ req[r] # Idle
  /\ Ends(r)
  /\ UNCHANGED <<tables, received>>
-----------------------------------------------------------------------------
(* Accessorials: the handlers of a single line item.                       *)

CreateShipmentLineItem ==
  /\ \E c \in PreapprovalCodes, actual \in BOOLEAN :
       /\ actual => c \in ThirdPartyCodes
       /\ \E code \in Numberings({c}) : item' = Extended(item, NewRows(code, actual, FALSE))
  /\ UNCHANGED <<shipment, invoice, invoiceSequence, received, req>>

Accessorials == WithCode(item, PreapprovalCodes)
OnlyRow(x, row) == [y \in {x} |-> row]

(* Approve and ConditionallyApprove; a third party service changes between *)
(* the two.                                                                *)
MayBecome(row, status) ==
  \/ row.status = "SUBMITTED"
  \/ /\ row.code \in ThirdPartyCodes
     /\ {row.status, status} = {"APPROVED", "CONDITIONALLY_APPROVED"}

ApproveShipmentLineItem(r, x) ==
  LET row == item[x]
      status == IF row.code \in ThirdPartyCodes /\ ~ row.actual
                THEN "CONDITIONALLY_APPROVED" ELSE "APPROVED"
      priced == row.priced \/ (shipment = "DELIVERED" /\ status = "APPROVED")
  IN  /\ MayBecome(row, status)
      /\ Begins(r, "saving item",
                OnlyRow(x, [row EXCEPT !.status = status, !.priced = priced]))
      /\ UNCHANGED <<tables, received>>

UpdateShipmentLineItem(r, x) ==
  /\ item[x].status = "APPROVED" => item[x].code \in ThirdPartyCodes /\ item[x].invoice = None
  /\ \E actual \in BOOLEAN :
       /\ actual => item[x].code \in ThirdPartyCodes
       /\ Begins(r, "updating item", OnlyRow(x, [item[x] EXCEPT !.actual = actual]))
  /\ UNCHANGED <<tables, received>>

(* What UpdateShipmentLineItemHandler makes of a row after its first save: *)
(* priced and approved with an actual amount, unpriced and approved only   *)
(* conditionally without.                                                  *)
Repriced(row) ==
  CASE row.status = "SUBMITTED" -> row
    [] row.status # "SUBMITTED" /\ row.actual ->
         [row EXCEPT !.status = "APPROVED", !.priced = @ \/ shipment = "DELIVERED"]
    [] OTHER ->
         [row EXCEPT !.status = "CONDITIONALLY_APPROVED", !.priced = @ /\ shipment # "DELIVERED"]

(* The transaction of Shipment.UpdateShipmentLineItem, which loads the     *)
(* shipment of the row anew; the handler goes by what it loaded and saves  *)
(* the row again.                                                          *)
SaveUpdate(r) ==
  /\ req[r].at = "updating item"
  /\ item' = Updated(item, req[r].rows)
  /\ Continues(r, "saving item", [x \in DOMAIN req[r].rows |-> Repriced(req[r].rows[x])])
  /\ UNCHANGED <<shipment, invoice, invoiceSequence, received>>

SaveLineItem(r) ==
  /\ req[r].at = "saving item"
  /\ item' = Updated(item, req[r].rows)
  /\ Ends(r)
  /\ UNCHANGED <<shipment, invoice, invoiceSequence, received>>

(* BeforeDestroy looks at the row that was read.                           *)
DeleteShipmentLineItem(r, x) ==
  /\ item[x].invoice = None
  /\ Begins(r, "deleting item", Read({x}))
  /\ UNCHANGED <<tables, received>>

DestroyLineItem(r) ==
  /\ req[r].at = "deleting item"
  /\ item' = Destroyed(DOMAIN req[r].rows)
  /\ Ends(r)
  /\ UNCHANGED <<shipment, invoice, invoiceSequence, received>>
-----------------------------------------------------------------------------
(* Delivery and recalculation.                                             *)

(* Faulty: the items are created without a look.                           *)
BaseItemsNotLookedFor == TRUE

(* createUniqueShipmentLineItem finds no base item.  The save of the       *)
(* shipment just before locks its row, so only one transaction is at this  *)
(* point.                                                                  *)
BaseItemsAbsent == WithCode(item, BaseCodes) = {}

(* SaveShipmentAndPricingInfo: creates items for the codes, and writes the *)
(* rows that were priced.  When a base item exists it is rolled back.      *)
SavePricingInfo(codes, rows) ==
  IF BaseItemsAbsent
  THEN \E code \in Numberings(codes) :
         item' = Extended(Updated(item, rows), NewRows(code, FALSE, TRUE))
  ELSE UNCHANGED item

(* DeliverAndPriceShipment: Shipment.Deliver, then the pricing of what is  *)
(* approved.                                                               *)
DeliverShipment(r) ==
  /\ shipment = "IN_TRANSIT"
  /\ Begins(r, "delivering", Priced(Read(ApprovedPreapprovals)))
  /\ UNCHANGED <<tables, received>>

(* The transaction of the delivery.                                        *)
CommitDelivery(r) ==
  /\ req[r].at = "delivering"
  /\ SavePricingInfo(BaseCodes \union StorageInTransitCodes, req[r].rows)
  /\ shipment' = IF BaseItemsAbsent THEN "DELIVERED" ELSE shipment
  /\ Ends(r)
  /\ UNCHANGED <<invoice, invoiceSequence, received>>

(* RecalculateShipmentLineItems: nothing is done when an item is invoiced. *)
FetchLineItemsByShipmentID(r) ==
  /\ \A x \in DOMAIN item : item[x].invoice = None
  /\ Begins(r, "recalculating", NoRows)
  /\ UNCHANGED <<tables, received>>

(* FetchShipmentForInvoice and ProcessRecalculateShipment.  Whether the    *)
(* shipment and its items are in the range of dates to recalculate is data *)
(* of the environment.                                                     *)
ProcessRecalculateShipment(r) ==
  /\ req[r].at = "recalculating"
  /\ shipment = "DELIVERED"
  /\ Continues(r, "deleting base items",
               Read(WithCode(item, BaseCodes \union StorageInTransitCodes) \cap Billable))
  /\ UNCHANGED <<tables, received>>

(* Both deletions look at the rows that were read, where no item has an    *)
(* invoice.                                                                *)
DeleteBaseShipmentLineItems(r) ==
  /\ req[r].at = "deleting base items"
  /\ item' = Destroyed(WithCode(req[r].rows, BaseCodes))
  /\ Continues(r, "deleting SIT items", req[r].rows)
  /\ UNCHANGED <<shipment, invoice, invoiceSequence, received>>

DeleteStorageInTransitLineItems(r) ==
  /\ req[r].at = "deleting SIT items"
  /\ item' = Destroyed(WithCode(req[r].rows, StorageInTransitCodes))
  /\ Continues(r, "creating SIT items", NoRows)
  /\ UNCHANGED <<shipment, invoice, invoiceSequence, received>>

(* Each item is created for itself, approved and without a price.          *)
CreateStorageInTransitLineItems(r) ==
  /\ req[r].at = "creating SIT items"
  /\ \E c \in StorageInTransitCodes :
       /\ WithCode(req[r].rows, {c}) = {}
       /\ \E code \in Numberings({c}) :
            LET new == NewRows(code, FALSE, FALSE)
            IN  /\ item' = Extended(item, new)
                /\ Continues(r, "creating SIT items", Extended(req[r].rows, new))
  /\ UNCHANGED <<shipment, invoice, invoiceSequence, received>>

(* PriceAdditionalRequestsForShipment, once all of them are there          *)
PriceAdditionalRequests(r) ==
  /\ req[r].at = "creating SIT items"
  /\ \A c \in StorageInTransitCodes : WithCode(req[r].rows, {c}) # {}
  /\ Continues(r, "repricing",
               Priced(Extended(req[r].rows, Read(ApprovedPreapprovals))))
  /\ UNCHANGED <<tables, received>>

SaveShipmentAndPricingInfo(r) ==
  /\ req[r].at = "repricing"
  /\ SavePricingInfo(BaseCodes, req[r].rows)
  /\ Ends(r)
  /\ UNCHANGED <<shipment, invoice, invoiceSequence, received>>
-----------------------------------------------------------------------------
(* Invoices: ShipmentInvoiceHandler.                                       *)

Failed(i) == invoice[i].status = "SUBMISSION_FAILURE"

(* "for now we limit a shipment to 1 invoice": no invoice may be in        *)
(* process or have succeeded.  The line items are read first.              *)
FetchShipmentForInvoice(r) ==
  /\ shipment = "DELIVERED"
  /\ Len(invoice) < MaxInvoices
  /\ \A i \in DOMAIN invoice : Failed(i)
  /\ Begins(r, "numbering", Read(Billable))
  /\ UNCHANGED <<tables, received>>

(* A new base number for the first invoice; else a base number in use, the *)
(* one of the invoice read last in no given order, and the count.          *)
NextNumbers ==
  IF invoice = <<>>
  THEN {[base |-> invoiceSequence + 1, suffix |-> 0]}
  ELSE {[base |-> invoice[i].number.base, suffix |-> Len(invoice)] : i \in DOMAIN invoice}

(* createInvoiceNumber, which reads the invoices again                     *)
CreateInvoiceNumber(r) ==
  /\ req[r].at = "numbering"
  /\ invoiceSequence' = IF invoice = <<>> THEN invoiceSequence + 1 ELSE invoiceSequence
  /\ invoiceSequence' <= MaxInvoices
  /\ \E number \in NextNumbers :
       Becomes(r, [req[r] EXCEPT !.at = "creating invoice", !.number = number])
  /\ UNCHANGED <<shipment, item, invoice, received>>

(* Faulty: the invoice is processed before it is saved.                    *)
CreateInvoiceLater(r) ==
  /\ req[r].at = "creating invoice"
  /\ Len(invoice) < MaxInvoices
  /\ Becomes(r, [req[r] EXCEPT !.at = "sending", !.invoice = Len(invoice) + 1])
  /\ UNCHANGED <<tables, received>>

(* The column invoice_number is UNIQUE.                                    *)
CreateInvoice(r) ==
  /\ req[r].at = "creating invoice"
  /\ Len(invoice) < MaxInvoices
  /\ \A i \in DOMAIN invoice : invoice[i].number # req[r].number
  /\ invoice' = Append(invoice, [status |-> "IN_PROCESS", number |-> req[r].number])
  /\ Becomes(r, [req[r] EXCEPT !.at = "sending", !.invoice = Len(invoice'),
                               !.number = Idle.number])
  /\ UNCHANGED <<shipment, item, invoiceSequence, received>>

Bill(r) == [invoice |-> req[r].invoice, items |-> DOMAIN req[r].rows]

(* Generate858C dereferences the amount of every item; without one it      *)
(* panics, which is a Fail.                                                *)
Sends(r) == req[r].at = "sending" /\ \A x \in DOMAIN req[r].rows : req[r].rows[x].priced

(* GEX answers 200.                                                        *)
GexAccepts(r) ==
  /\ Sends(r)
  /\ received' = received \union {Bill(r)}
  /\ Continues(r, "accepted", req[r].rows)
  /\ UNCHANGED tables

(* GEX has the bill, and the request times out or its answer is an error   *)
(* of a proxy.                                                             *)
AnswerLost(r) ==
  /\ Sends(r)
  /\ received' = received \union {Bill(r)}
  /\ Continues(r, "refused", NoRows)
  /\ UNCHANGED tables

(* Faulty: the status code of the answer is not looked at.                 *)
RefusalUnnoticed(r) ==
  /\ req[r].at = "sending"
  /\ Continues(r, "accepted", req[r].rows)
  /\ UNCHANGED <<tables, received>>

(* The bill does not reach GEX, or is not even made, or is refused.        *)
NotSent(r) ==
  /\ req[r].at = "sending"
  /\ Continues(r, "refused", NoRows)
  /\ UNCHANGED <<tables, received>>

WithStatus(i, status) == [invoice EXCEPT ![i].status = status]
Bound(rows, i) == [x \in DOMAIN rows |-> [rows[x] EXCEPT !.invoice = i]]

(* Faulty: binds what is billable by now.                                  *)
UpdateSubmittedAfresh(r) ==
  /\ req[r].at = "accepted"
  /\ invoice' = WithStatus(req[r].invoice, "SUBMITTED")
  /\ item' = Updated(item, Bound(Read(Billable), req[r].invoice))
  /\ Continues(r, "storing", NoRows)
  /\ UNCHANGED <<shipment, invoiceSequence, received>>

(* The transaction binds the rows that were read to the invoice.           *)
UpdateInvoiceSubmitted(r) ==
  /\ req[r].at = "accepted"
  /\ invoice' = WithStatus(req[r].invoice, "SUBMITTED")
  /\ item' = Updated(item, Bound(req[r].rows, req[r].invoice))
  /\ Continues(r, "storing", NoRows)
  /\ UNCHANGED <<shipment, invoiceSequence, received>>

(* An error in the transaction makes the invoice an UPDATE_FAILURE, but an *)
(* error of the COMMIT is not returned.                                    *)
UpdateRolledBack(r) ==
  /\ req[r].at = "accepted"
  /\ \/ Continues(r, "not updated", NoRows)
     \/ Continues(r, "storing", NoRows)
  /\ UNCHANGED <<tables, received>>

FailureOf == [at \in {"refused", "not updated"} |->
                IF at = "refused" THEN "SUBMISSION_FAILURE" ELSE "UPDATE_FAILURE"]

(* updateInvoiceFailed                                                     *)
UpdateInvoiceFailed(r) ==
  /\ req[r].at \in DOMAIN FailureOf
  /\ invoice' = WithStatus(req[r].invoice, FailureOf[req[r].at])
  /\ Ends(r)
  /\ UNCHANGED <<shipment, item, invoiceSequence, received>>

(* StoreInvoice858C saves the invoice again, SUBMITTED in memory.          *)
StoreInvoice(r) ==
  /\ req[r].at = "storing"
  /\ invoice' = WithStatus(req[r].invoice, "SUBMITTED")
  /\ Ends(r)
  /\ UNCHANGED <<shipment, item, invoiceSequence, received>>
-----------------------------------------------------------------------------
LineItemStep(r) ==
  \/ \E x \in Accessorials :
       \/ ApproveShipmentLineItem(r, x)
       \/ UpdateShipmentLineItem(r, x)
       \/ DeleteShipmentLineItem(r, x)
  \/ SaveUpdate(r)
  \/ SaveLineItem(r)
  \/ DestroyLineItem(r)

PricingStep(r) ==
  \/ DeliverShipment(r)
  \/ CommitDelivery(r)
  \/ FetchLineItemsByShipmentID(r)
  \/ ProcessRecalculateShipment(r)
  \/ DeleteBaseShipmentLineItems(r)
  \/ DeleteStorageInTransitLineItems(r)
  \/ CreateStorageInTransitLineItems(r)
  \/ PriceAdditionalRequests(r)
  \/ SaveShipmentAndPricingInfo(r)

InvoiceStep(r) ==
  \/ FetchShipmentForInvoice(r)
  \/ CreateInvoiceNumber(r)
  \/ CreateInvoice(r)
  \/ GexAccepts(r)
  \/ AnswerLost(r)
  \/ NotSent(r)
  \/ UpdateInvoiceSubmitted(r)
  \/ UpdateRolledBack(r)
  \/ UpdateInvoiceFailed(r)
  \/ StoreInvoice(r)

Next ==
  \/ CreateShipmentLineItem
  \/ \E r \in Requests : LineItemStep(r) \/ PricingStep(r) \/ InvoiceStep(r) \/ Fail(r)

Spec == Init /\ [][Next]_vars
-----------------------------------------------------------------------------
(* Properties.                                                             *)

Steps ==
  {"idle", "saving item", "updating item", "deleting item", "delivering", "recalculating",
   "deleting base items", "deleting SIT items", "creating SIT items", "repricing",
   "numbering", "creating invoice", "sending", "accepted", "refused",
   "not updated", "storing"}

(* The tables and the requests in progress are well formed.                *)
TypeOK ==
  /\ shipment \in {"IN_TRANSIT", "DELIVERED"}
  /\ DOMAIN item \subseteq Items
  /\ \A x \in DOMAIN item : item[x] \in Row
  /\ invoice \in Seq([status : InvoiceStatuses, number : Number])
  /\ invoiceSequence \in Nat
  /\ \A b \in received : b.invoice \in DOMAIN invoice /\ b.items \subseteq Items
  /\ \A r \in Requests :
       /\ req[r].at \in Steps
       /\ DOMAIN req[r].rows \subseteq Items
       /\ \A x \in DOMAIN req[r].rows : req[r].rows[x] \in Row
       /\ req[r].invoice \in 0..Len(invoice)
       /\ req[r].number \in Number

(* A shipment has every base line item once or, before its delivery and    *)
(* between the steps of a recalculation, none at all: what                 *)
(* VerifyBaseShipmentLineItems asks for, however many deliveries and       *)
(* recalculations overlap and wherever they fail.                          *)
BaseItemsComplete ==
  WithCode(item, BaseCodes) # {} =>
    \A c \in BaseCodes : \E x \in DOMAIN item : WithCode(item, {c}) = {x}

(* A line item is bound to an invoice only if that invoice is SUBMITTED    *)
(* and GEX has a bill for it that lists the item, although rows are        *)
(* written back from old copies and the update may fail halfway.           *)
BoundIsBilled ==
  \A x \in DOMAIN item :
    item[x].invoice # None =>
      /\ item[x].invoice \in DOMAIN invoice
      /\ invoice[item[x].invoice].status = "SUBMITTED"
      /\ \E b \in received : b.invoice = item[x].invoice /\ x \in b.items

(* "for now we limit a shipment to 1 invoice": at most one is in process   *)
(* or has succeeded.                                                       *)
LimitedToOneInvoice ==
  \A i, j \in DOMAIN invoice : ~ Failed(i) /\ ~ Failed(j) => i = j

Contract == INSTANCE InvoiceContract WITH
  status <- [i \in DOMAIN invoice |-> invoice[i].status],
  bound <- {<<x, item[x].invoice>> : x \in {y \in DOMAIN item : item[y].invoice # None}}

(* The invoices keep the contract: each is settled once, after GEX has the *)
(* bill where it says so, and binds only what was billed.                  *)
KeepsTheInvoices == Contract!ContractSpec
=============================================================================
