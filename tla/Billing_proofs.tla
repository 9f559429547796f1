---------------------------- MODULE Billing_proofs ----------------------------
(***************************************************************************)
(* What billing keeps, however many requests overlap and however many line *)
(* items, codes and invoices there are.  The ideas: a request works on an  *)
(* invoice of its own; an old copy of a row is bound only to an invoice    *)
(* that stays submitted; an id is never given to a row with another code;  *)
(* and the base line items are made, read, bound and deleted together.     *)
(***************************************************************************)
EXTENDS Billing, TLAPS

Tables == UNION {[S -> Row] : S \in SUBSET Items}
Invoice == [status : InvoiceStatuses, number : Number]
Bills == [invoice : Nat, items : SUBSET Items]
Progress == [at : Steps, rows : Tables, invoice : Nat, number : Number]

Typed ==
  /\ shipment \in {"IN_TRANSIT", "DELIVERED"}
  /\ item \in Tables
  /\ invoice \in Seq(Invoice)
  /\ invoiceSequence \in Nat
  /\ received \subseteq Bills
  /\ \A b \in received : b.invoice \in DOMAIN invoice
  /\ req \in [Requests -> Progress]
  /\ \A r \in Requests : req[r].invoice = 0 \/ req[r].invoice \in DOMAIN invoice

(* x may be bound to the invoice i.                                        *)
Covers(invoices, bills, x, i) ==
  /\ i \in DOMAIN invoices
  /\ invoices[i].status = "SUBMITTED"
  /\ \E b \in bills : b.invoice = i /\ x \in b.items

CoveredRows(rows, invoices, bills) ==
  \A x \in DOMAIN rows : rows[x].invoice # None => Covers(invoices, bills, x, rows[x].invoice)

BaseOf(rows) == WithCode(rows, BaseCodes)

(* All base line items are there once, or none.                            *)
Whole(table) ==
  BaseOf(table) # {} =>
    \A c \in BaseCodes : \E x \in DOMAIN table : WithCode(table, {c}) = {x}

(* The base line items are bound together.                                 *)
Alike(table) == \A x, y \in BaseOf(table) : table[x].invoice = table[y].invoice

(* What rows that were read some time ago still say of the table.          *)
Recalls(rows, table) ==
  /\ \A x \in DOMAIN rows \cap DOMAIN table : rows[x].code = table[x].code
  /\ BaseOf(rows) \cap DOMAIN table # {} => BaseOf(rows) = BaseOf(table)

(* The steps with rows that are written back or deleted as they are.       *)
Writing ==
  {"saving item", "updating item", "deleting item", "delivering", "creating SIT items",
   "repricing"}

InHand == {"sending", "accepted", "refused", "not updated", "storing"}

(* The invoice of a request is as the request left it.                     *)
KeepsInvoice(q, invoices, bills) ==
  /\ q.at \in InHand => q.invoice \in DOMAIN invoices
  /\ q.at \in InHand \ {"storing"} => invoices[q.invoice].status = "IN_PROCESS"
  /\ q.at = "storing" => invoices[q.invoice].status \in {"IN_PROCESS", "SUBMITTED"}
  /\ q.at = "sending" => \A b \in bills : b.invoice # q.invoice
  /\ q.at = "accepted" => [invoice |-> q.invoice, items |-> DOMAIN q.rows] \in bills
  /\ q.at \in {"not updated", "storing"} => \E b \in bills : b.invoice = q.invoice

SoundRequest(q, table, invoices, bills) ==
  /\ CoveredRows(q.rows, invoices, bills)
  /\ Recalls(q.rows, table)
  /\ q.at \in Writing => BaseOf(q.rows) = {}
  /\ KeepsInvoice(q, invoices, bills)

(* No two requests work on one invoice.                                    *)
OwnInvoices(requests) ==
  \A r, s \in Requests :
    /\ requests[r].at \in InHand
    /\ requests[s].at \in InHand
    /\ requests[r].invoice = requests[s].invoice
    => r = s

(* The inductive invariant.                                                *)
Inv ==
  /\ Typed
  /\ CoveredRows(item, invoice, received)
  /\ Whole(item)
  /\ Alike(item)
  /\ \A r \in Requests : SoundRequest(req[r], item, invoice, received)
  /\ OwnInvoices(req)
-----------------------------------------------------------------------------
(* Tables.                                                                 *)

LEMMA RowsOfTable ==
  ASSUME NEW f \in Tables
  PROVE  DOMAIN f \subseteq Items /\ \A x \in DOMAIN f : f[x] \in Row
BY DEF Tables

LEMMA TableOfRows ==
  ASSUME NEW S, S \subseteq Items, NEW f \in [S -> Row]
  PROVE  f \in Tables
BY DEF Tables

LEMMA NoRowsType == NoRows \in Tables /\ DOMAIN NoRows = {}
<1>1. NoRows \in [{} -> Row] /\ {} \subseteq Items  BY DEF NoRows
<1> QED  BY <1>1, TableOfRows DEF NoRows

LEMMA UpdatedType ==
  ASSUME NEW f \in Tables, NEW g \in Tables
  PROVE  /\ Updated(f, g) \in Tables
         /\ DOMAIN Updated(f, g) = DOMAIN f
         /\ \A x \in DOMAIN f : Updated(f, g)[x] = IF x \in DOMAIN g THEN g[x] ELSE f[x]
<1>1. Updated(f, g) \in [DOMAIN f -> Row]  BY RowsOfTable DEF Updated
<1>2. DOMAIN f \subseteq Items  BY RowsOfTable
<1> QED  BY <1>1, <1>2, TableOfRows DEF Updated

LEMMA ExtendedType ==
  ASSUME NEW f \in Tables, NEW g \in Tables
  PROVE  /\ Extended(f, g) \in Tables
         /\ DOMAIN Extended(f, g) = DOMAIN f \union DOMAIN g
         /\ \A x \in DOMAIN g : Extended(f, g)[x] = g[x]
         /\ \A x \in DOMAIN f \ DOMAIN g : Extended(f, g)[x] = f[x]
<1>1. Extended(f, g) \in [DOMAIN f \union DOMAIN g -> Row]  BY RowsOfTable DEF Extended
<1>2. DOMAIN f \union DOMAIN g \subseteq Items  BY RowsOfTable
<1> QED  BY <1>1, <1>2, TableOfRows DEF Extended

LEMMA ReadType ==
  ASSUME item \in Tables, NEW S, S \subseteq DOMAIN item
  PROVE  Read(S) \in Tables /\ DOMAIN Read(S) = S /\ \A x \in S : Read(S)[x] = item[x]
<1>1. Read(S) \in [S -> Row]  BY RowsOfTable DEF Read, Restrict
<1>2. S \subseteq Items  BY RowsOfTable
<1> QED  BY <1>1, <1>2, TableOfRows DEF Read, Restrict

LEMMA OnlyRowType ==
  ASSUME NEW x \in Items, NEW row \in Row
  PROVE  OnlyRow(x, row) \in Tables /\ DOMAIN OnlyRow(x, row) = {x} /\ OnlyRow(x, row)[x] = row
<1>1. OnlyRow(x, row) \in [{x} -> Row]  BY DEF OnlyRow
<1>2. {x} \subseteq Items  OBVIOUS
<1> QED  BY <1>1, <1>2, TableOfRows DEF OnlyRow

LEMMA PricedType ==
  ASSUME NEW f \in Tables
  PROVE  /\ Priced(f) \in Tables /\ DOMAIN Priced(f) = DOMAIN f
         /\ \A x \in DOMAIN f : Priced(f)[x].code = f[x].code /\ Priced(f)[x].invoice = f[x].invoice
<1>1. DOMAIN f \subseteq Items /\ \A x \in DOMAIN f : f[x] \in Row  BY RowsOfTable
<1>2. \A x \in DOMAIN f :
        LET row == [f[x] EXCEPT !.priced = TRUE]
        IN  row \in Row /\ row.code = f[x].code /\ row.invoice = f[x].invoice
  BY <1>1 DEF Row
<1>3. Priced(f) \in [DOMAIN f -> Row]  BY <1>2 DEF Priced
<1> QED  BY <1>1, <1>2, <1>3, TableOfRows DEF Priced

LEMMA BoundType ==
  ASSUME NEW f \in Tables, NEW i \in Nat
  PROVE  /\ Bound(f, i) \in Tables /\ DOMAIN Bound(f, i) = DOMAIN f
         /\ \A x \in DOMAIN f : Bound(f, i)[x].code = f[x].code /\ Bound(f, i)[x].invoice = i
<1>1. DOMAIN f \subseteq Items /\ \A x \in DOMAIN f : f[x] \in Row  BY RowsOfTable
<1>2. \A x \in DOMAIN f :
        LET row == [f[x] EXCEPT !.invoice = i]
        IN  row \in Row /\ row.code = f[x].code /\ row.invoice = i
  BY <1>1 DEF Row
<1>3. Bound(f, i) \in [DOMAIN f -> Row]  BY <1>2 DEF Bound
<1> QED  BY <1>1, <1>2, <1>3, TableOfRows DEF Bound

(* Each of the codes has one id, and nobody has it.                        *)
LEMMA NumberingsType ==
  ASSUME NEW codes, NEW code \in Numberings(codes)
  PROVE  /\ code \in [DOMAIN code -> codes] /\ DOMAIN code \subseteq NewIds
         /\ \A c \in codes : \E x \in DOMAIN code : code[x] = c
         /\ \A x, y \in DOMAIN code : code[x] = code[y] => x = y
<1>1. PICK S \in SUBSET NewIds : code \in Bijection(S, codes)  BY DEF Numberings
<1> QED  BY <1>1 DEF Bijection, Injection, Surjection, IsInjective

(* The new rows for codes have no invoice.                                 *)
LEMMA NewRowsType ==
  ASSUME NEW codes, codes \subseteq Codes, NEW code \in Numberings(codes),
         NEW actual \in BOOLEAN, NEW priced \in BOOLEAN
  PROVE  LET new == NewRows(code, actual, priced)
         IN  /\ new \in Tables /\ DOMAIN new = DOMAIN code
             /\ \A x \in DOMAIN new : new[x].code = code[x] /\ new[x].invoice = None
<1>1. code \in [DOMAIN code -> codes] /\ DOMAIN code \subseteq Items
  BY NumberingsType DEF NewIds
<1>2. NewRows(code, actual, priced) \in [DOMAIN code -> Row]
  BY <1>1 DEF NewRows, Row
<1>3. NewRows(code, actual, priced) \in Tables  BY <1>1, <1>2, TableOfRows
<1> QED  BY <1>3 DEF NewRows

LEMMA IdleType ==
  /\ Idle \in Progress
  /\ Idle.at = "idle" /\ Idle.rows = NoRows /\ Idle.invoice = 0 /\ Idle.number \in Number
BY NoRowsType DEF Idle, Progress, Steps, Number

LEMMA CodesDiffer ==
  \A c : /\ c \in BaseCodes => c \notin StorageInTransitCodes \union PreapprovalCodes
         /\ c \in Codes => c \in BaseCodes \/ c \in StorageInTransitCodes \/ c \in PreapprovalCodes
BY BillingAssumption DEF Codes
-----------------------------------------------------------------------------
(* What stays as it was.                                                   *)

LEMMA CoveredStill ==
  ASSUME NEW rows, NEW old, NEW bills, CoveredRows(rows, old, bills),
         NEW new, NEW more, bills \subseteq more,
         \A i \in DOMAIN old : /\ i \in DOMAIN new
                               /\ old[i].status = "SUBMITTED" => new[i].status = "SUBMITTED"
  PROVE  CoveredRows(rows, new, more)
<1> SUFFICES ASSUME NEW x \in DOMAIN rows, rows[x].invoice # None
             PROVE  Covers(new, more, x, rows[x].invoice)
  BY DEF CoveredRows
<1>1. Covers(old, bills, x, rows[x].invoice)  BY DEF CoveredRows
<1> QED  BY <1>1 DEF Covers

LEMMA RecallsStill ==
  ASSUME NEW rows, NEW old, Recalls(rows, old), NEW new,
         \A x \in DOMAIN new : x \in DOMAIN rows => x \in DOMAIN old /\ new[x].code = old[x].code,
         BaseOf(new) = BaseOf(old) \/ BaseOf(new) = {} \/ BaseOf(old) = {}
  PROVE  Recalls(rows, new)
<1>1. \A x \in DOMAIN rows \cap DOMAIN new : rows[x].code = new[x].code  BY DEF Recalls
<1>2. ASSUME NEW x \in BaseOf(rows) \cap DOMAIN new
      PROVE  BaseOf(rows) = BaseOf(new)
  <2>1. x \in DOMAIN rows \cap DOMAIN old /\ new[x].code = old[x].code
    BY DEF BaseOf, WithCode
  <2>2. BaseOf(rows) = BaseOf(old)  BY <2>1 DEF Recalls
  <2>3. x \in BaseOf(old) /\ x \in BaseOf(new)  BY <2>1, <2>2 DEF BaseOf, WithCode
  <2> QED  BY <2>2, <2>3
<1> QED  BY <1>1, <1>2 DEF Recalls

LEMMA InvoiceStill ==
  ASSUME NEW q, NEW old, NEW bills, KeepsInvoice(q, old, bills),
         NEW new, NEW more, bills \subseteq more,
         q.at \in InHand => /\ q.invoice \in DOMAIN new
                            /\ new[q.invoice] = old[q.invoice]
                            /\ \A b \in more : b.invoice = q.invoice => b \in bills
  PROVE  KeepsInvoice(q, new, more)
BY DEF KeepsInvoice, InHand

(* A request without rows and without an invoice.                          *)
LEMMA NothingHeld ==
  ASSUME NEW q, DOMAIN q.rows = {}, q.at \notin InHand
  PROVE  \A table, invoices, bills : SoundRequest(q, table, invoices, bills)
<1>1. BaseOf(q.rows) = {}  BY DEF BaseOf, WithCode
<1> QED  BY <1>1 DEF SoundRequest, CoveredRows, Recalls, KeepsInvoice, InHand

LEMMA SameBase ==
  ASSUME NEW old, Whole(old), Alike(old), NEW new, BaseOf(new) = BaseOf(old),
         \A x \in BaseOf(old) : new[x].code = old[x].code /\ new[x].invoice = old[x].invoice
  PROVE  Whole(new) /\ Alike(new)
<1>1. ASSUME NEW c \in BaseCodes, BaseOf(new) # {}
      PROVE  \E x \in DOMAIN new : WithCode(new, {c}) = {x}
  <2>1. PICK x \in DOMAIN old : WithCode(old, {c}) = {x}  BY <1>1 DEF Whole
  <2>2. WithCode(new, {c}) = WithCode(old, {c})  BY <1>1 DEF BaseOf, WithCode
  <2>3. x \in DOMAIN new  BY <2>1, <2>2 DEF WithCode
  <2> QED  BY <2>1, <2>2, <2>3
<1>2. Whole(new)  BY <1>1 DEF Whole
<1>3. Alike(new)  BY DEF Alike
<1> QED  BY <1>2, <1>3

LEMMA NewIdsAreNew ==
  ASSUME NEW x \in NewIds
  PROVE  x \notin DOMAIN item /\ \A s \in Requests : x \notin DOMAIN req[s].rows
BY DEF NewIds

(* The base line items of a new table: the old ones, none, or the first.   *)
BaseFollows(old, new) ==
  \/ /\ BaseOf(new) = BaseOf(old)
     /\ \A x \in BaseOf(old) : new[x].code = old[x].code /\ new[x].invoice = old[x].invoice
  \/ BaseOf(new) = {}
  \/ BaseOf(old) = {} /\ Whole(new) /\ Alike(new)

(* The rows of a new table: new ones, or old ones with the code they had.  *)
RowsFollow(new) ==
  \A x \in DOMAIN new : x \in NewIds \/ (x \in DOMAIN item /\ new[x].code = item[x].code)

LEMMA ItemsStand ==
  ASSUME Inv, NEW new, RowsFollow(new), BaseFollows(item, new)
  PROVE  /\ Whole(new) /\ Alike(new)
         /\ \A s \in Requests : SoundRequest(req[s], new, invoice, received)
<1>1. Whole(new) /\ Alike(new)
  <2>1. CASE BaseOf(new) = {}  BY <2>1 DEF Whole, Alike
  <2>2. CASE /\ BaseOf(new) = BaseOf(item)
             /\ \A x \in BaseOf(item) :
                  new[x].code = item[x].code /\ new[x].invoice = item[x].invoice
    BY <2>2, SameBase DEF Inv
  <2> QED  BY <2>1, <2>2 DEF BaseFollows
<1>2. ASSUME NEW s \in Requests PROVE SoundRequest(req[s], new, invoice, received)
  <2>1. SoundRequest(req[s], item, invoice, received)  BY DEF Inv
  <2>2. \A x \in DOMAIN new : x \in DOMAIN req[s].rows =>
          x \in DOMAIN item /\ new[x].code = item[x].code
    BY NewIdsAreNew DEF RowsFollow
  <2>3. BaseOf(new) = BaseOf(item) \/ BaseOf(new) = {} \/ BaseOf(item) = {}
    BY DEF BaseFollows
  <2>4. Recalls(req[s].rows, item)  BY <2>1 DEF SoundRequest
  <2>5. Recalls(req[s].rows, new)  BY <2>2, <2>3, <2>4, RecallsStill
  <2> QED  BY <2>1, <2>5 DEF SoundRequest
<1> QED  BY <1>1, <1>2
-----------------------------------------------------------------------------
(* Steps that leave the invoices alone.                                    *)

(* The table of line items changes, and r goes on with q.                  *)
LEMMA ItemStep ==
  ASSUME Inv, item' \in Tables, shipment' \in {"IN_TRANSIT", "DELIVERED"},
         UNCHANGED <<invoice, invoiceSequence, received>>,
         CoveredRows(item', invoice, received), RowsFollow(item'), BaseFollows(item, item'),
         NEW r \in Requests, NEW q \in Progress, req' = [req EXCEPT ![r] = q],
         q.at \notin InHand, q.invoice = 0 \/ q.invoice \in DOMAIN invoice,
         SoundRequest(q, item', invoice, received)
  PROVE  Inv'
<1>1. req \in [Requests -> Progress] /\ req'[r] = q /\ \A s \in Requests \ {r} : req'[s] = req[s]
  BY DEF Inv, Typed
<1>2. Typed'
  <2>1. req' \in [Requests -> Progress]  BY <1>1
  <2>2. \A s \in Requests : req'[s].invoice = 0 \/ req'[s].invoice \in DOMAIN invoice
    BY <1>1 DEF Inv, Typed
  <2> QED  BY <2>1, <2>2 DEF Inv, Typed
<1>3. /\ Whole(item') /\ Alike(item')
      /\ \A s \in Requests : SoundRequest(req[s], item', invoice, received)
  BY ItemsStand
<1>4. \A s \in Requests : SoundRequest(req'[s], item', invoice, received)  BY <1>1, <1>3
<1>5. OwnInvoices(req')
  <2>1. OwnInvoices(req)  BY DEF Inv
  <2> QED  BY <1>1, <2>1 DEF OwnInvoices
<1> QED  BY <1>2, <1>3, <1>4, <1>5 DEF Inv

(* The tables stay but for the sequence of numbers, and r goes on with q,  *)
(* on no other invoice.                                                    *)
LEMMA RequestStep ==
  ASSUME Inv, UNCHANGED <<shipment, item, invoice, received>>, invoiceSequence' \in Nat,
         NEW r \in Requests, NEW q \in Progress, req' = [req EXCEPT ![r] = q],
         q.invoice = 0 \/ q.invoice = req[r].invoice,
         q.at \in InHand => req[r].at \in InHand /\ q.invoice = req[r].invoice,
         SoundRequest(q, item, invoice, received)
  PROVE  Inv'
<1>1. req \in [Requests -> Progress] /\ req'[r] = q /\ \A s \in Requests \ {r} : req'[s] = req[s]
  BY DEF Inv, Typed
<1>2. Typed'
  <2>1. req' \in [Requests -> Progress]  BY <1>1
  <2>2. \A s \in Requests : req'[s].invoice = 0 \/ req'[s].invoice \in DOMAIN invoice
    BY <1>1 DEF Inv, Typed
  <2> QED  BY <2>1, <2>2 DEF Inv, Typed
<1>3. \A s \in Requests : SoundRequest(req'[s], item, invoice, received)  BY <1>1 DEF Inv
<1>4. OwnInvoices(req')
  <2>1. OwnInvoices(req)  BY DEF Inv
  <2> QED  BY <1>1, <2>1 DEF OwnInvoices
<1> QED  BY <1>2, <1>3, <1>4 DEF Inv

LEMMA TablesStay ==
  ASSUME Inv, UNCHANGED <<tables, received>>
  PROVE  UNCHANGED <<shipment, item, invoice, received>> /\ invoiceSequence' \in Nat
BY DEF tables, Inv, Typed

LEMMA BeginSound ==
  ASSUME Inv, NEW r \in Requests, NEW at \in Steps \ InHand, NEW rows \in Tables,
         CoveredRows(rows, invoice, received), Recalls(rows, item),
         at \in Writing => BaseOf(rows) = {},
         Begins(r, at, rows), UNCHANGED <<tables, received>>
  PROVE  Inv'
<1> DEFINE q == [Idle EXCEPT !.at = at, !.rows = rows]
<1>1. req' = [req EXCEPT ![r] = q]  BY DEF Begins, Becomes
<1>2. q \in Progress /\ q.at = at /\ q.rows = rows /\ q.invoice = 0
  BY IdleType DEF Progress
<1> HIDE DEF q
<1>3. SoundRequest(q, item, invoice, received)
  BY <1>2 DEF SoundRequest, KeepsInvoice, InHand
<1> QED  BY <1>1, <1>2, <1>3, TablesStay, RequestStep

LEMMA ContinueSound ==
  ASSUME Inv, NEW r \in Requests, NEW at \in Steps \ InHand, NEW rows \in Tables,
         CoveredRows(rows, invoice, received), Recalls(rows, item),
         at \in Writing => BaseOf(rows) = {},
         Continues(r, at, rows), UNCHANGED <<tables, received>>
  PROVE  Inv'
<1> DEFINE q == [req[r] EXCEPT !.at = at, !.rows = rows]
<1>1. req' = [req EXCEPT ![r] = q]  BY DEF Continues, Becomes
<1>2. req[r] \in Progress  BY DEF Inv, Typed
<1>3. q \in Progress /\ q.at = at /\ q.rows = rows /\ q.invoice = req[r].invoice
  BY <1>2 DEF Progress
<1> HIDE DEF q
<1>4. SoundRequest(q, item, invoice, received)
  BY <1>3 DEF SoundRequest, KeepsInvoice, InHand
<1> QED  BY <1>1, <1>3, <1>4, TablesStay, RequestStep

LEMMA FailSound ==
  ASSUME Inv, NEW r \in Requests, Fail(r)
  PROVE  Inv'
<1>1. req' = [req EXCEPT ![r] = Idle] /\ UNCHANGED <<tables, received>>
  BY DEF Fail, Ends, Becomes
<1>2. Idle.at \notin InHand /\ DOMAIN Idle.rows = {}  BY IdleType, NoRowsType DEF InHand
<1>3. SoundRequest(Idle, item, invoice, received)  BY <1>2, NothingHeld
<1> QED  BY <1>1, <1>2, <1>3, IdleType, TablesStay, RequestStep
-----------------------------------------------------------------------------
(* Rows that are read.                                                     *)

LEMMA RowOfItem ==
  ASSUME Inv, NEW x \in DOMAIN item
  PROVE  /\ x \in Items /\ item[x] \in Row
         /\ item[x].invoice # None => Covers(invoice, received, x, item[x].invoice)
BY RowsOfTable DEF Inv, Typed, CoveredRows

(* Rows that are the same as in the table in what counts.                  *)
LEMMA ReadRows ==
  ASSUME Inv, NEW rows, DOMAIN rows \subseteq DOMAIN item,
         \A x \in DOMAIN rows :
           rows[x].code = item[x].code /\ rows[x].invoice = item[x].invoice,
         BaseOf(rows) = {} \/ BaseOf(item) \subseteq DOMAIN rows
  PROVE  CoveredRows(rows, invoice, received) /\ Recalls(rows, item)
<1>1. CoveredRows(rows, invoice, received)  BY DEF CoveredRows, Inv
<1>2. Recalls(rows, item)
  BY DEF Recalls, BaseOf, WithCode
<1> QED  BY <1>1, <1>2

LEMMA AccessorialRead ==
  ASSUME Inv, NEW x \in Accessorials, NEW row, row.code = item[x].code,
         row.invoice = item[x].invoice, row \in Row
  PROVE  /\ OnlyRow(x, row) \in Tables
         /\ CoveredRows(OnlyRow(x, row), invoice, received)
         /\ Recalls(OnlyRow(x, row), item)
         /\ BaseOf(OnlyRow(x, row)) = {}
<1>1. x \in DOMAIN item /\ item[x].code \in PreapprovalCodes  BY DEF Accessorials, WithCode
<1>2. x \in Items  BY <1>1, RowOfItem
<1>3. OnlyRow(x, row) \in Tables /\ DOMAIN OnlyRow(x, row) = {x} /\ OnlyRow(x, row)[x] = row
  BY <1>2, OnlyRowType
<1>4. BaseOf(OnlyRow(x, row)) = {}  BY <1>1, <1>3, CodesDiffer DEF BaseOf, WithCode
<1> QED  BY <1>1, <1>3, <1>4, ReadRows

LEMMA ApproveSound ==
  ASSUME Inv, NEW r \in Requests, NEW x \in Accessorials, ApproveShipmentLineItem(r, x)
  PROVE  Inv'
<1>1. x \in DOMAIN item /\ item[x] \in Row  BY RowOfItem DEF Accessorials, WithCode
<1>2. PICK status \in {"APPROVED", "CONDITIONALLY_APPROVED"}, priced \in BOOLEAN :
        Begins(r, "saving item",
               OnlyRow(x, [item[x] EXCEPT !.status = status, !.priced = priced]))
  <2> DEFINE row == item[x]
             status == IF row.code \in ThirdPartyCodes /\ ~ row.actual
                       THEN "CONDITIONALLY_APPROVED" ELSE "APPROVED"
             priced == row.priced \/ (shipment = "DELIVERED" /\ status = "APPROVED")
  <2>1. Begins(r, "saving item",
               OnlyRow(x, [item[x] EXCEPT !.status = status, !.priced = priced]))
    BY DEF ApproveShipmentLineItem
  <2>2. status \in {"APPROVED", "CONDITIONALLY_APPROVED"}  OBVIOUS
  <2>3. priced \in BOOLEAN  BY <1>1 DEF Row
  <2> HIDE DEF status, priced
  <2> QED  BY <2>1, <2>2, <2>3
<1> DEFINE row == [item[x] EXCEPT !.status = status, !.priced = priced]
<1>3. row \in Row /\ row.code = item[x].code /\ row.invoice = item[x].invoice
  BY <1>1 DEF Row
<1>4. Begins(r, "saving item", OnlyRow(x, row)) /\ UNCHANGED <<tables, received>>
  BY <1>2 DEF ApproveShipmentLineItem
<1> HIDE DEF row
<1>5. "saving item" \in Steps \ InHand  BY DEF Steps, InHand
<1> QED  BY <1>3, <1>4, <1>5, AccessorialRead, BeginSound

LEMMA UpdateSound ==
  ASSUME Inv, NEW r \in Requests, NEW x \in Accessorials, UpdateShipmentLineItem(r, x)
  PROVE  Inv'
<1>1. x \in DOMAIN item /\ item[x] \in Row  BY RowOfItem DEF Accessorials, WithCode
<1>2. PICK actual \in BOOLEAN :
        Begins(r, "updating item", OnlyRow(x, [item[x] EXCEPT !.actual = actual]))
  BY DEF UpdateShipmentLineItem
<1> DEFINE row == [item[x] EXCEPT !.actual = actual]
<1>3. row \in Row /\ row.code = item[x].code /\ row.invoice = item[x].invoice
  BY <1>1 DEF Row
<1>4. Begins(r, "updating item", OnlyRow(x, row)) /\ UNCHANGED <<tables, received>>
  BY <1>2 DEF UpdateShipmentLineItem
<1> HIDE DEF row
<1>5. "updating item" \in Steps \ InHand  BY DEF Steps, InHand
<1> QED  BY <1>3, <1>4, <1>5, AccessorialRead, BeginSound

LEMMA DeleteSound ==
  ASSUME Inv, NEW r \in Requests, NEW x \in Accessorials, DeleteShipmentLineItem(r, x)
  PROVE  Inv'
<1>1. x \in DOMAIN item /\ item[x] \in Row  BY RowOfItem DEF Accessorials, WithCode
<1>2. Read({x}) = OnlyRow(x, item[x])  BY DEF Read, Restrict, OnlyRow
<1>3. Begins(r, "deleting item", OnlyRow(x, item[x])) /\ UNCHANGED <<tables, received>>
  BY <1>2 DEF DeleteShipmentLineItem
<1>4. "deleting item" \in Steps \ InHand  BY DEF Steps, InHand
<1> QED  BY <1>1, <1>3, <1>4, AccessorialRead, BeginSound

(* Rows that were priced in memory.                                        *)
LEMMA PricedSound ==
  ASSUME NEW f \in Tables, CoveredRows(f, invoice, received), Recalls(f, item)
  PROVE  /\ CoveredRows(Priced(f), invoice, received)
         /\ Recalls(Priced(f), item)
         /\ BaseOf(Priced(f)) = BaseOf(f)
<1>1. /\ DOMAIN Priced(f) = DOMAIN f
      /\ \A x \in DOMAIN f : Priced(f)[x].code = f[x].code /\ Priced(f)[x].invoice = f[x].invoice
  BY PricedType
<1>2. BaseOf(Priced(f)) = BaseOf(f)  BY <1>1 DEF BaseOf, WithCode
<1> QED  BY <1>1, <1>2 DEF CoveredRows, Recalls

LEMMA PreapprovalsRead ==
  ASSUME Inv
  PROVE  LET f == Read(ApprovedPreapprovals)
         IN  /\ f \in Tables /\ CoveredRows(f, invoice, received) /\ Recalls(f, item)
             /\ BaseOf(f) = {} /\ DOMAIN f \subseteq DOMAIN item
             /\ \A x \in DOMAIN f : f[x] = item[x]
<1> DEFINE f == Read(ApprovedPreapprovals)
<1>1. ApprovedPreapprovals \subseteq DOMAIN item /\ item \in Tables
  BY DEF ApprovedPreapprovals, WithCode, Inv, Typed
<1>2. f \in Tables /\ DOMAIN f = ApprovedPreapprovals /\ \A x \in DOMAIN f : f[x] = item[x]
  BY <1>1, ReadType
<1> HIDE DEF f
<1>3. BaseOf(f) = {}
  BY <1>1, <1>2, CodesDiffer DEF BaseOf, WithCode, ApprovedPreapprovals
<1>4. CoveredRows(f, invoice, received) /\ Recalls(f, item)
  BY <1>1, <1>2, <1>3, ReadRows
<1>5. f \in Tables /\ CoveredRows(f, invoice, received) /\ Recalls(f, item)
      /\ BaseOf(f) = {} /\ DOMAIN f \subseteq DOMAIN item
      /\ \A x \in DOMAIN f : f[x] = item[x]
  BY <1>1, <1>2, <1>3, <1>4
<1> QED  BY <1>5 DEF f

LEMMA DeliverSound ==
  ASSUME Inv, NEW r \in Requests, DeliverShipment(r)
  PROVE  Inv'
<1> DEFINE f == Read(ApprovedPreapprovals)
<1>1. /\ f \in Tables /\ CoveredRows(f, invoice, received) /\ Recalls(f, item)
      /\ BaseOf(f) = {}
  BY PreapprovalsRead
<1>2. Begins(r, "delivering", Priced(f)) /\ UNCHANGED <<tables, received>>
  BY DEF DeliverShipment
<1> HIDE DEF f
<1>3. Priced(f) \in Tables  BY <1>1, PricedType
<1>4. /\ CoveredRows(Priced(f), invoice, received) /\ Recalls(Priced(f), item)
      /\ BaseOf(Priced(f)) = {}
  BY <1>1, PricedSound
<1>5. "delivering" \in Steps \ InHand  BY DEF Steps, InHand
<1> QED  BY <1>2, <1>3, <1>4, <1>5, BeginSound

LEMMA FetchLineItemsSound ==
  ASSUME Inv, NEW r \in Requests, FetchLineItemsByShipmentID(r)
  PROVE  Inv'
<1>1. /\ Begins(r, "recalculating", NoRows) /\ UNCHANGED <<tables, received>>
      /\ "recalculating" \in (Steps \ InHand) \ Writing
  BY DEF FetchLineItemsByShipmentID, Steps, InHand, Writing
<1>2. CoveredRows(NoRows, invoice, received) /\ Recalls(NoRows, item) /\ NoRows \in Tables
  BY NoRowsType DEF CoveredRows, Recalls, BaseOf, WithCode
<1> QED  BY <1>1, <1>2, BeginSound

(* All base line items are billable, or none.                              *)
LEMMA BillableBase ==
  ASSUME Inv
  PROVE  BaseOf(item) \cap Billable = {} \/ BaseOf(item) \subseteq Billable
<1>1. ASSUME NEW x \in BaseOf(item) \cap Billable, NEW y \in BaseOf(item)
      PROVE  y \in Billable
  <2>1. item[y].invoice = None  BY DEF Inv, Alike, Billable
  <2>2. item[y].code \in BaseCodes /\ y \in DOMAIN item  BY DEF BaseOf, WithCode
  <2> QED  BY <2>1, <2>2, CodesDiffer DEF Billable
<1> QED  BY <1>1

(* Rows that were read at once, all the billable base line items with them *)
LEMMA BillableRead ==
  ASSUME Inv, NEW S, S \subseteq Billable, BaseOf(item) \cap Billable \subseteq S
  PROVE  /\ Read(S) \in Tables /\ CoveredRows(Read(S), invoice, received)
         /\ Recalls(Read(S), item) /\ DOMAIN Read(S) = S
<1>1. S \subseteq DOMAIN item /\ item \in Tables  BY DEF Billable, Inv, Typed
<1>2. Read(S) \in Tables /\ DOMAIN Read(S) = S /\ \A x \in S : Read(S)[x] = item[x]
  BY <1>1, ReadType
<1>3. BaseOf(Read(S)) = {} \/ BaseOf(item) \subseteq S
  <2>1. BaseOf(Read(S)) \subseteq BaseOf(item) \cap Billable
    BY <1>1, <1>2 DEF BaseOf, WithCode
  <2> QED  BY <2>1, BillableBase
<1> QED  BY <1>1, <1>2, <1>3, ReadRows

LEMMA ProcessSound ==
  ASSUME Inv, NEW r \in Requests, ProcessRecalculateShipment(r)
  PROVE  Inv'
<1> DEFINE S == WithCode(item, BaseCodes \union StorageInTransitCodes) \cap Billable
<1>1. Continues(r, "deleting base items", Read(S)) /\ UNCHANGED <<tables, received>>
  BY DEF ProcessRecalculateShipment
<1>2. S \subseteq Billable /\ BaseOf(item) \cap Billable \subseteq S
  BY DEF BaseOf, WithCode
<1> HIDE DEF S
<1>3. "deleting base items" \in (Steps \ InHand) \ Writing  BY DEF Steps, InHand, Writing
<1> QED  BY <1>1, <1>2, <1>3, BillableRead, ContinueSound
-----------------------------------------------------------------------------
(* Rows that are written, made and deleted.                                *)

(* A table that may follow that of the line items.                         *)
Follows(new) ==
  /\ new \in Tables
  /\ CoveredRows(new, invoice, received)
  /\ RowsFollow(new)
  /\ BaseFollows(item, new)

LEMMA UpdatedFollows ==
  ASSUME Inv, NEW rows \in Tables, CoveredRows(rows, invoice, received), Recalls(rows, item),
         BaseOf(rows) = {}
  PROVE  /\ Follows(Updated(item, rows))
         /\ DOMAIN Updated(item, rows) = DOMAIN item
         /\ \A x \in DOMAIN item : Updated(item, rows)[x].code = item[x].code
<1> DEFINE new == Updated(item, rows)
<1>1. /\ new \in Tables /\ DOMAIN new = DOMAIN item
      /\ \A x \in DOMAIN item : new[x] = IF x \in DOMAIN rows THEN rows[x] ELSE item[x]
  BY UpdatedType DEF Inv, Typed
<1> HIDE DEF new
<1>2. \A x \in DOMAIN item : new[x].code = item[x].code  BY <1>1 DEF Recalls
<1>3. CoveredRows(new, invoice, received)  BY <1>1 DEF CoveredRows, Inv
<1>4. BaseOf(new) = BaseOf(item)  BY <1>1, <1>2 DEF BaseOf, WithCode
<1>5. ASSUME NEW x \in BaseOf(item) PROVE new[x] = item[x]
  <2>1. x \in DOMAIN item /\ item[x].code \in BaseCodes  BY DEF BaseOf, WithCode
  <2>2. x \notin DOMAIN rows  BY <2>1 DEF Recalls, BaseOf, WithCode
  <2> QED  BY <1>1, <2>1, <2>2
<1>6. Follows(new)  BY <1>1, <1>2, <1>3, <1>4, <1>5 DEF Follows, RowsFollow, BaseFollows
<1> QED  BY <1>1, <1>2, <1>6 DEF new

LEMMA DestroyedFollows ==
  ASSUME Inv, NEW S, BaseOf(item) \cap S = {} \/ BaseOf(item) \subseteq S
  PROVE  Follows(Destroyed(S))
<1> DEFINE new == Destroyed(S)
<1>1. new \in Tables /\ DOMAIN new = DOMAIN item \ S /\ \A x \in DOMAIN new : new[x] = item[x]
  BY ReadType DEF Destroyed, Inv, Typed
<1> HIDE DEF new
<1>2. CoveredRows(new, invoice, received)  BY <1>1 DEF CoveredRows, Inv
<1>3. BaseOf(new) = BaseOf(item) \ S  BY <1>1 DEF BaseOf, WithCode
<1>4. BaseFollows(item, new)
  <2>1. CASE BaseOf(item) \cap S = {}
    <3>1. BaseOf(new) = BaseOf(item)  BY <1>3, <2>1
    <3>2. \A x \in BaseOf(item) : new[x] = item[x]  BY <1>1, <3>1 DEF BaseOf, WithCode
    <3> QED  BY <3>1, <3>2 DEF BaseFollows
  <2>2. CASE BaseOf(item) \subseteq S  BY <1>3, <2>2 DEF BaseFollows
  <2> QED  BY <2>1, <2>2
<1>5. Follows(new)  BY <1>1, <1>2, <1>4 DEF Follows, RowsFollow
<1> QED  BY <1>5 DEF new

(* New rows that are no base line items.                                   *)
LEMMA ExtendedFollows ==
  ASSUME Inv, NEW new \in Tables, DOMAIN new \subseteq NewIds, BaseOf(new) = {},
         \A x \in DOMAIN new : new[x].invoice = None
  PROVE  Follows(Extended(item, new))
<1> DEFINE table == Extended(item, new)
<1>1. /\ table \in Tables /\ DOMAIN table = DOMAIN item \union DOMAIN new
      /\ \A x \in DOMAIN new : table[x] = new[x]
      /\ \A x \in DOMAIN item : table[x] = item[x]
  <2>1. DOMAIN item \cap DOMAIN new = {}  BY NewIdsAreNew
  <2>2. item \in Tables  BY DEF Inv, Typed
  <2>3. /\ table \in Tables /\ DOMAIN table = DOMAIN item \union DOMAIN new
        /\ \A x \in DOMAIN new : table[x] = new[x]
        /\ \A x \in DOMAIN item \ DOMAIN new : table[x] = item[x]
    BY <2>2, ExtendedType
  <2> HIDE DEF table
  <2> QED  BY <2>1, <2>3
<1> HIDE DEF table
<1>2. CoveredRows(table, invoice, received)  BY <1>1 DEF CoveredRows, Inv
<1>3. BaseOf(table) = BaseOf(item)  BY <1>1 DEF BaseOf, WithCode
<1>4. \A x \in BaseOf(item) : table[x] = item[x]  BY <1>1 DEF BaseOf, WithCode
<1>5. BaseFollows(item, table)  BY <1>3, <1>4 DEF BaseFollows
<1>6. RowsFollow(table)  BY <1>1 DEF RowsFollow
<1>7. Follows(table)  BY <1>1, <1>2, <1>5, <1>6 DEF Follows
<1> QED  BY <1>7 DEF table

(* The table changes and r is done.                                        *)
LEMMA EndStep ==
  ASSUME Inv, NEW r \in Requests, Follows(item'), shipment' \in {"IN_TRANSIT", "DELIVERED"},
         UNCHANGED <<invoice, invoiceSequence, received>>, Ends(r)
  PROVE  Inv'
<1>1. req' = [req EXCEPT ![r] = Idle]  BY DEF Ends, Becomes
<1>2. Idle.at \notin InHand /\ DOMAIN Idle.rows = {}  BY IdleType, NoRowsType DEF InHand
<1>3. SoundRequest(Idle, item', invoice, received)  BY <1>2, NothingHeld
<1> QED  BY <1>1, <1>2, <1>3, IdleType, ItemStep DEF Follows

(* The table changes and r goes on with other rows.                        *)
LEMMA GoOnStep ==
  ASSUME Inv, NEW r \in Requests, Follows(item'),
         UNCHANGED <<shipment, invoice, invoiceSequence, received>>,
         NEW at \in Steps \ InHand, NEW rows \in Tables,
         CoveredRows(rows, invoice, received), Recalls(rows, item'),
         at \in Writing => BaseOf(rows) = {}, Continues(r, at, rows)
  PROVE  Inv'
<1> DEFINE q == [req[r] EXCEPT !.at = at, !.rows = rows]
<1>1. req' = [req EXCEPT ![r] = q]  BY DEF Continues, Becomes
<1>2. req[r] \in Progress /\ (req[r].invoice = 0 \/ req[r].invoice \in DOMAIN invoice)
  BY DEF Inv, Typed
<1>3. q \in Progress /\ q.at = at /\ q.rows = rows /\ q.invoice = req[r].invoice
  BY <1>2 DEF Progress
<1> HIDE DEF q
<1>4. SoundRequest(q, item', invoice, received)
  BY <1>3 DEF SoundRequest, KeepsInvoice, InHand
<1>5. shipment' \in {"IN_TRANSIT", "DELIVERED"}  BY DEF Inv, Typed
<1> QED  BY <1>1, <1>2, <1>3, <1>4, <1>5, ItemStep DEF Follows

LEMMA RequestRows ==
  ASSUME Inv, NEW r \in Requests
  PROVE  /\ req[r] \in Progress /\ req[r].rows \in Tables
         /\ CoveredRows(req[r].rows, invoice, received)
         /\ Recalls(req[r].rows, item)
         /\ req[r].at \in Writing => BaseOf(req[r].rows) = {}
         /\ \A new : Follows(new) => Recalls(req[r].rows, new)
<1>1. req[r] \in Progress /\ SoundRequest(req[r], item, invoice, received)
  BY DEF Inv, Typed
<1>2. req[r].rows \in Tables  BY <1>1 DEF Progress
<1>3. ASSUME NEW new, Follows(new) PROVE Recalls(req[r].rows, new)
  BY <1>3, ItemsStand DEF Follows, SoundRequest
<1> QED  BY <1>1, <1>2, <1>3 DEF SoundRequest

LEMMA SaveUpdateSound ==
  ASSUME Inv, NEW r \in Requests, SaveUpdate(r)
  PROVE  Inv'
<1> DEFINE rows == req[r].rows
           next == [x \in DOMAIN rows |-> Repriced(rows[x])]
<1>1. /\ req[r].at = "updating item" /\ item' = Updated(item, rows)
      /\ Continues(r, "saving item", next)
      /\ UNCHANGED <<shipment, invoice, invoiceSequence, received>>
  BY DEF SaveUpdate
<1>2. /\ rows \in Tables /\ CoveredRows(rows, invoice, received) /\ Recalls(rows, item)
      /\ BaseOf(rows) = {}
  BY <1>1, RequestRows DEF Writing
<1>3. Follows(item') /\ Recalls(rows, item')
  BY <1>1, <1>2, UpdatedFollows, RequestRows
<1>4. ASSUME NEW x \in DOMAIN rows
      PROVE  /\ Repriced(rows[x]) \in Row /\ Repriced(rows[x]).code = rows[x].code
             /\ Repriced(rows[x]).invoice = rows[x].invoice
  <2> DEFINE row == rows[x]
  <2>1. row \in Row  BY <1>2, RowsOfTable
  <2> HIDE DEF row
  <2>2. Repriced(row) \in Row /\ Repriced(row).code = row.code
        /\ Repriced(row).invoice = row.invoice
    BY <2>1 DEF Repriced, Row
  <2> QED  BY <2>2 DEF row
<1>5. /\ next \in Tables /\ DOMAIN next = DOMAIN rows
      /\ \A x \in DOMAIN rows : next[x].code = rows[x].code /\ next[x].invoice = rows[x].invoice
  <2>1. next \in [DOMAIN rows -> Row]  BY <1>4
  <2>2. DOMAIN rows \subseteq Items  BY <1>2, RowsOfTable
  <2> QED  BY <1>4, <2>1, <2>2, TableOfRows
<1> HIDE DEF rows, next
<1>6. BaseOf(next) = {}  BY <1>2, <1>5 DEF BaseOf, WithCode
<1>7. CoveredRows(next, invoice, received) /\ Recalls(next, item')
  BY <1>2, <1>3, <1>5, <1>6 DEF CoveredRows, Recalls
<1>8. "saving item" \in Steps \ InHand  BY DEF Steps, InHand
<1> QED  BY <1>1, <1>3, <1>5, <1>6, <1>7, <1>8, GoOnStep

LEMMA SaveLineItemSound ==
  ASSUME Inv, NEW r \in Requests, SaveLineItem(r)
  PROVE  Inv'
<1>1. /\ req[r].at = "saving item" /\ item' = Updated(item, req[r].rows) /\ Ends(r)
      /\ UNCHANGED <<shipment, invoice, invoiceSequence, received>>
  BY DEF SaveLineItem
<1>2. Follows(item')  BY <1>1, RequestRows, UpdatedFollows DEF Writing
<1>3. shipment' \in {"IN_TRANSIT", "DELIVERED"}  BY <1>1 DEF Inv, Typed
<1> QED  BY <1>1, <1>2, <1>3, EndStep

LEMMA DestroySound ==
  ASSUME Inv, NEW r \in Requests, DestroyLineItem(r)
  PROVE  Inv'
<1>1. /\ req[r].at = "deleting item" /\ item' = Destroyed(DOMAIN req[r].rows) /\ Ends(r)
      /\ UNCHANGED <<shipment, invoice, invoiceSequence, received>>
  BY DEF DestroyLineItem
<1>2. BaseOf(req[r].rows) = {} /\ Recalls(req[r].rows, item)
  BY <1>1, RequestRows DEF Writing
<1>3. BaseOf(item) \cap DOMAIN req[r].rows = {}  BY <1>2 DEF Recalls, BaseOf, WithCode
<1>4. Follows(item')  BY <1>1, <1>3, DestroyedFollows
<1>5. shipment' \in {"IN_TRANSIT", "DELIVERED"}  BY <1>1 DEF Inv, Typed
<1> QED  BY <1>1, <1>4, <1>5, EndStep

(* New rows for codes none of which is that of a base line item.           *)
LEMMA NewRowsFollow ==
  ASSUME Inv, NEW codes, codes \subseteq Codes, codes \cap BaseCodes = {},
         NEW code \in Numberings(codes), NEW actual \in BOOLEAN, NEW priced \in BOOLEAN
  PROVE  LET new == NewRows(code, actual, priced)
         IN  /\ Follows(Extended(item, new)) /\ new \in Tables /\ BaseOf(new) = {}
             /\ \A x \in DOMAIN new : new[x].invoice = None
             /\ DOMAIN new \subseteq NewIds
<1> DEFINE new == NewRows(code, actual, priced)
<1>1. /\ new \in Tables /\ DOMAIN new \subseteq NewIds /\ DOMAIN new = DOMAIN code
      /\ \A x \in DOMAIN new : new[x].code = code[x] /\ new[x].invoice = None
      /\ \A x \in DOMAIN code : code[x] \in codes
  BY NewRowsType, NumberingsType
<1> HIDE DEF new
<1>2. BaseOf(new) = {}  BY <1>1 DEF BaseOf, WithCode
<1>3. Follows(Extended(item, new))  BY <1>1, <1>2, ExtendedFollows
<1>4. /\ Follows(Extended(item, new)) /\ new \in Tables /\ BaseOf(new) = {}
      /\ \A x \in DOMAIN new : new[x].invoice = None
      /\ DOMAIN new \subseteq NewIds
  BY <1>1, <1>2, <1>3
<1> QED  BY <1>4 DEF new

LEMMA CreateLineItemSound ==
  ASSUME Inv, CreateShipmentLineItem
  PROVE  Inv'
<1>1. PICK c \in PreapprovalCodes, actual \in BOOLEAN :
        \E code \in Numberings({c}) : item' = Extended(item, NewRows(code, actual, FALSE))
  BY DEF CreateShipmentLineItem
<1>2. UNCHANGED <<shipment, invoice, invoiceSequence, received, req>>
  BY DEF CreateShipmentLineItem
<1>3. {c} \subseteq Codes /\ {c} \cap BaseCodes = {}  BY CodesDiffer DEF Codes
<1>4. Follows(item')
  <2>1. PICK code \in Numberings({c}) : item' = Extended(item, NewRows(code, actual, FALSE))
    BY <1>1
  <2>2. Follows(Extended(item, NewRows(code, actual, FALSE)))  BY <1>3, NewRowsFollow
  <2> QED  BY <2>1, <2>2
<1>5. /\ Whole(item') /\ Alike(item')
      /\ \A s \in Requests : SoundRequest(req[s], item', invoice, received)
  BY <1>4, ItemsStand DEF Follows
<1>6. Typed'  BY <1>2, <1>4 DEF Follows, Inv, Typed
<1> QED  BY <1>2, <1>4, <1>5, <1>6 DEF Inv, Follows

(* What SaveShipmentAndPricingInfo does to the table.                      *)
LEMMA PricingSaved ==
  ASSUME Inv, NEW rows \in Tables, CoveredRows(rows, invoice, received), Recalls(rows, item),
         BaseOf(rows) = {}, NEW codes, codes \subseteq Codes, BaseCodes \subseteq codes,
         SavePricingInfo(codes, rows)
  PROVE  Follows(item')
<1>1. CASE ~ BaseItemsAbsent
  <2>1. item' = item  BY <1>1 DEF SavePricingInfo
  <2> QED  BY <2>1 DEF Follows, RowsFollow, BaseFollows, Inv, Typed
<1>2. CASE BaseItemsAbsent
  <2>1. PICK code \in Numberings(codes) :
          item' = Extended(Updated(item, rows), NewRows(code, FALSE, TRUE))
    BY <1>2 DEF SavePricingInfo
  <2> DEFINE priced == Updated(item, rows)
             new == NewRows(code, FALSE, TRUE)
  <2>2. /\ Follows(priced) /\ DOMAIN priced = DOMAIN item
        /\ \A x \in DOMAIN item : priced[x].code = item[x].code
    BY UpdatedFollows
  <2>3. /\ new \in Tables /\ DOMAIN new = DOMAIN code /\ DOMAIN new \subseteq NewIds
        /\ \A x \in DOMAIN new : new[x].code = code[x] /\ new[x].invoice = None
        /\ \A c \in codes : \E x \in DOMAIN code : code[x] = c
        /\ \A x, y \in DOMAIN code : code[x] = code[y] => x = y
    <3> DEFINE Fits(f) == /\ f \in Tables /\ DOMAIN f = DOMAIN code
                          /\ \A x \in DOMAIN f : f[x].code = code[x] /\ f[x].invoice = None
    <3>1. \A actual, saved \in BOOLEAN : Fits(NewRows(code, actual, saved))
      BY NewRowsType
    <3> HIDE DEF Fits
    <3>2. Fits(new)  BY <3>1
    <3> QED  BY <3>2, NumberingsType DEF Fits
  <2>4. item' = Extended(priced, new)  BY <2>1
  <2> HIDE DEF priced, new
  <2>5. /\ item' \in Tables /\ DOMAIN item' = DOMAIN item \union DOMAIN new
        /\ \A x \in DOMAIN new : item'[x] = new[x]
        /\ \A x \in DOMAIN item : item'[x] = priced[x]
    <3>1. DOMAIN item \cap DOMAIN new = {}  BY <2>3, NewIdsAreNew
    <3>2. priced \in Tables  BY <2>2 DEF Follows
    <3>3. /\ item' \in Tables /\ DOMAIN item' = DOMAIN priced \union DOMAIN new
          /\ \A x \in DOMAIN new : item'[x] = new[x]
          /\ \A x \in DOMAIN priced \ DOMAIN new : item'[x] = priced[x]
      <4>1. /\ Extended(priced, new) \in Tables
            /\ DOMAIN Extended(priced, new) = DOMAIN priced \union DOMAIN new
            /\ \A x \in DOMAIN new : Extended(priced, new)[x] = new[x]
            /\ \A x \in DOMAIN priced \ DOMAIN new : Extended(priced, new)[x] = priced[x]
        BY <2>3, <3>2, ExtendedType
      <4> QED  BY <2>4, <4>1
    <3> QED  BY <2>2, <3>1, <3>3
  <2>6. CoveredRows(item', invoice, received)
    BY <2>2, <2>3, <2>5 DEF CoveredRows, Follows
  <2>7. RowsFollow(item')  BY <2>2, <2>3, <2>5 DEF RowsFollow
  <2>8. BaseOf(item) = {}  BY <1>2 DEF BaseItemsAbsent, BaseOf
  <2>9. \A x \in BaseOf(item') : x \in DOMAIN new /\ item'[x] = new[x]
    BY <2>2, <2>5, <2>8 DEF BaseOf, WithCode
  <2>10. Alike(item')  BY <2>3, <2>9 DEF Alike
  <2>11. Whole(item')
    <3> SUFFICES ASSUME NEW c \in BaseCodes
                 PROVE  \E x \in DOMAIN item' : WithCode(item', {c}) = {x}
      BY DEF Whole
    <3>1. PICK x \in DOMAIN code : code[x] = c  BY <2>3
    <3>2. x \in DOMAIN item' /\ item'[x].code = c  BY <2>3, <2>5, <3>1
    <3>3. ASSUME NEW y \in WithCode(item', {c}) PROVE y = x
      <4>1. y \in BaseOf(item') /\ item'[y].code = c  BY <3>3 DEF BaseOf, WithCode
      <4>2. y \in DOMAIN code /\ code[y] = c  BY <2>3, <2>9, <4>1
      <4> QED  BY <2>3, <3>1, <4>2
    <3>4. x \in WithCode(item', {c})  BY <3>2 DEF WithCode
    <3> QED  BY <3>2, <3>3, <3>4
  <2>12. BaseFollows(item, item')  BY <2>8, <2>10, <2>11 DEF BaseFollows
  <2> QED  BY <2>5, <2>6, <2>7, <2>12 DEF Follows
<1> QED  BY <1>1, <1>2

LEMMA CommitSound ==
  ASSUME Inv, NEW r \in Requests, CommitDelivery(r)
  PROVE  Inv'
<1> DEFINE codes == BaseCodes \union StorageInTransitCodes
<1>1. /\ req[r].at = "delivering" /\ SavePricingInfo(codes, req[r].rows) /\ Ends(r)
      /\ UNCHANGED <<invoice, invoiceSequence, received>>
  BY DEF CommitDelivery
<1>2. codes \subseteq Codes /\ BaseCodes \subseteq codes  BY DEF Codes
<1> HIDE DEF codes
<1>3. Follows(item')  BY <1>1, <1>2, RequestRows, PricingSaved DEF Writing
<1>4. shipment' \in {"IN_TRANSIT", "DELIVERED"}  BY DEF CommitDelivery, Inv, Typed
<1> QED  BY <1>1, <1>3, <1>4, EndStep

LEMMA SavePricingSound ==
  ASSUME Inv, NEW r \in Requests, SaveShipmentAndPricingInfo(r)
  PROVE  Inv'
<1>1. /\ req[r].at = "repricing" /\ SavePricingInfo(BaseCodes, req[r].rows) /\ Ends(r)
      /\ UNCHANGED <<shipment, invoice, invoiceSequence, received>>
  BY DEF SaveShipmentAndPricingInfo
<1>2. BaseCodes \subseteq Codes /\ BaseCodes \subseteq BaseCodes  BY DEF Codes
<1>3. Follows(item')  BY <1>1, <1>2, RequestRows, PricingSaved DEF Writing
<1>4. shipment' \in {"IN_TRANSIT", "DELIVERED"}  BY <1>1 DEF Inv, Typed
<1> QED  BY <1>1, <1>3, <1>4, EndStep

LEMMA DeleteBaseSound ==
  ASSUME Inv, NEW r \in Requests, DeleteBaseShipmentLineItems(r)
  PROVE  Inv'
<1>1. /\ item' = Destroyed(BaseOf(req[r].rows))
      /\ Continues(r, "deleting SIT items", req[r].rows)
      /\ UNCHANGED <<shipment, invoice, invoiceSequence, received>>
  BY DEF DeleteBaseShipmentLineItems, BaseOf
<1>2. BaseOf(item) \cap BaseOf(req[r].rows) = {} \/ BaseOf(item) \subseteq BaseOf(req[r].rows)
  <2>1. Recalls(req[r].rows, item)  BY RequestRows
  <2> QED  BY <2>1 DEF Recalls, BaseOf, WithCode
<1>3. Follows(item')  BY <1>1, <1>2, DestroyedFollows
<1>4. "deleting SIT items" \in (Steps \ InHand) \ Writing  BY DEF Steps, InHand, Writing
<1> QED  BY <1>1, <1>3, <1>4, RequestRows, GoOnStep

LEMMA NoRowsRead ==
  ASSUME NEW table
  PROVE  /\ CoveredRows(NoRows, invoice, received) /\ Recalls(NoRows, table)
         /\ BaseOf(NoRows) = {} /\ NoRows \in Tables
BY NoRowsType DEF CoveredRows, Recalls, BaseOf, WithCode

LEMMA DeleteStorageSound ==
  ASSUME Inv, NEW r \in Requests, DeleteStorageInTransitLineItems(r)
  PROVE  Inv'
<1> DEFINE S == WithCode(req[r].rows, StorageInTransitCodes)
<1>1. /\ item' = Destroyed(S) /\ Continues(r, "creating SIT items", NoRows)
      /\ UNCHANGED <<shipment, invoice, invoiceSequence, received>>
  BY DEF DeleteStorageInTransitLineItems
<1>2. BaseOf(item) \cap S = {}
  <2>1. Recalls(req[r].rows, item)  BY RequestRows
  <2> QED  BY <2>1, CodesDiffer DEF Recalls, BaseOf, WithCode
<1> HIDE DEF S
<1>3. Follows(item')  BY <1>1, <1>2, DestroyedFollows
<1>4. "creating SIT items" \in Steps \ InHand  BY DEF Steps, InHand
<1> QED  BY <1>1, <1>3, <1>4, NoRowsRead, GoOnStep

LEMMA ExtendedSound ==
  ASSUME NEW f \in Tables, CoveredRows(f, invoice, received), BaseOf(f) = {},
         NEW g \in Tables, CoveredRows(g, invoice, received), BaseOf(g) = {},
         NEW table, Recalls(f, table), Recalls(g, table)
  PROVE  /\ CoveredRows(Extended(f, g), invoice, received)
         /\ Recalls(Extended(f, g), table) /\ BaseOf(Extended(f, g)) = {}
         /\ Extended(f, g) \in Tables
<1> DEFINE h == Extended(f, g)
<1>1. /\ h \in Tables /\ DOMAIN h = DOMAIN f \union DOMAIN g
      /\ \A x \in DOMAIN g : h[x] = g[x]
      /\ \A x \in DOMAIN f \ DOMAIN g : h[x] = f[x]
  BY ExtendedType
<1> HIDE DEF h
<1>2. CoveredRows(h, invoice, received)  BY <1>1 DEF CoveredRows
<1>3. BaseOf(h) = {}  BY <1>1 DEF BaseOf, WithCode
<1>4. Recalls(h, table)  BY <1>1, <1>3 DEF Recalls
<1> QED  BY <1>1, <1>2, <1>3, <1>4 DEF h

LEMMA CreateStorageSound ==
  ASSUME Inv, NEW r \in Requests, CreateStorageInTransitLineItems(r)
  PROVE  Inv'
<1>0. PICK c \in StorageInTransitCodes :
        \E code \in Numberings({c}) :
          LET new == NewRows(code, FALSE, FALSE)
          IN  /\ item' = Extended(item, new)
              /\ Continues(r, "creating SIT items", Extended(req[r].rows, new))
  BY DEF CreateStorageInTransitLineItems
<1>1. PICK code \in Numberings({c}) :
        LET new == NewRows(code, FALSE, FALSE)
        IN  /\ item' = Extended(item, new)
            /\ Continues(r, "creating SIT items", Extended(req[r].rows, new))
  BY <1>0
<1>2. /\ req[r].at = "creating SIT items"
      /\ UNCHANGED <<shipment, invoice, invoiceSequence, received>>
  BY DEF CreateStorageInTransitLineItems
<1>3. {c} \subseteq Codes /\ {c} \cap BaseCodes = {}  BY CodesDiffer DEF Codes
<1> DEFINE rows == req[r].rows
           new == NewRows(code, FALSE, FALSE)
<1>4. /\ Follows(Extended(item, new)) /\ new \in Tables /\ BaseOf(new) = {}
      /\ \A x \in DOMAIN new : new[x].invoice = None
      /\ DOMAIN new \subseteq NewIds
  BY <1>3, NewRowsFollow
<1>5. item' = Extended(item, new) /\ Continues(r, "creating SIT items", Extended(rows, new))
  BY <1>1
<1> HIDE DEF new
<1>6. Follows(item')  BY <1>4, <1>5
<1>7. /\ rows \in Tables /\ CoveredRows(rows, invoice, received) /\ BaseOf(rows) = {}
      /\ Recalls(rows, item')
  BY <1>2, <1>6, RequestRows DEF Writing
<1>8. CoveredRows(new, invoice, received) /\ Recalls(new, item')
  <2>1. \A x \in DOMAIN new : item'[x] = new[x]
    <3>1. item \in Tables  BY DEF Inv, Typed
    <3> QED  BY <1>4, <1>5, <3>1, ExtendedType
  <2> QED  BY <1>4, <2>1 DEF CoveredRows, Recalls
<1> HIDE DEF rows
<1>9. "creating SIT items" \in Steps \ InHand  BY DEF Steps, InHand
<1>10. /\ CoveredRows(Extended(rows, new), invoice, received)
       /\ Recalls(Extended(rows, new), item') /\ BaseOf(Extended(rows, new)) = {}
       /\ Extended(rows, new) \in Tables
  BY <1>4, <1>7, <1>8, ExtendedSound
<1> QED  BY <1>2, <1>5, <1>6, <1>9, <1>10, GoOnStep

LEMMA PriceAdditionalSound ==
  ASSUME Inv, NEW r \in Requests, PriceAdditionalRequests(r)
  PROVE  Inv'
<1> DEFINE rows == req[r].rows
           f == Read(ApprovedPreapprovals)
<1>1. /\ req[r].at = "creating SIT items" /\ Continues(r, "repricing", Priced(Extended(rows, f)))
      /\ UNCHANGED <<tables, received>>
  BY DEF PriceAdditionalRequests
<1>2. /\ f \in Tables /\ CoveredRows(f, invoice, received) /\ Recalls(f, item)
      /\ BaseOf(f) = {}
  BY PreapprovalsRead
<1>3. /\ rows \in Tables /\ CoveredRows(rows, invoice, received) /\ Recalls(rows, item)
      /\ BaseOf(rows) = {}
  BY <1>1, RequestRows DEF Writing
<1> HIDE DEF rows, f
<1> DEFINE g == Extended(rows, f)
<1>4. /\ CoveredRows(g, invoice, received) /\ Recalls(g, item) /\ BaseOf(g) = {}
      /\ g \in Tables
  BY <1>2, <1>3, ExtendedSound
<1>5. Continues(r, "repricing", Priced(g))  BY <1>1
<1> HIDE DEF g
<1>6. /\ CoveredRows(Priced(g), invoice, received) /\ Recalls(Priced(g), item)
      /\ BaseOf(Priced(g)) = {} /\ Priced(g) \in Tables
  BY <1>4, PricedSound, PricedType
<1>7. "repricing" \in Steps \ InHand  BY DEF Steps, InHand
<1> QED  BY <1>1, <1>5, <1>6, <1>7, ContinueSound
-----------------------------------------------------------------------------
(* Invoices.                                                               *)

LEMMA FetchForInvoiceSound ==
  ASSUME Inv, NEW r \in Requests, FetchShipmentForInvoice(r)
  PROVE  Inv'
<1>1. Begins(r, "numbering", Read(Billable)) /\ UNCHANGED <<tables, received>>
  BY DEF FetchShipmentForInvoice
<1>2. "numbering" \in (Steps \ InHand) \ Writing  BY DEF Steps, InHand, Writing
<1>3. /\ Read(Billable) \in Tables /\ CoveredRows(Read(Billable), invoice, received)
      /\ Recalls(Read(Billable), item)
  BY BillableRead
<1> QED  BY <1>1, <1>2, <1>3, BeginSound

LEMMA NumberSound ==
  ASSUME Inv, NEW r \in Requests, CreateInvoiceNumber(r)
  PROVE  Inv'
<1>1. PICK number \in NextNumbers :
        req' = [req EXCEPT ![r] = [req[r] EXCEPT !.at = "creating invoice", !.number = number]]
  BY DEF CreateInvoiceNumber, Becomes
<1>2. number \in Number
  <2>1. invoiceSequence + 1 \in Nat /\ Len(invoice) \in Nat  BY DEF Inv, Typed
  <2>2. \A i \in DOMAIN invoice : invoice[i].number.base \in Nat
    <3>1. \A i \in DOMAIN invoice : invoice[i] \in Invoice  BY DEF Inv, Typed
    <3> QED  BY <3>1 DEF Invoice, Number
  <2>3. number \in {[base |-> invoiceSequence + 1, suffix |-> 0]}
          \/ \E i \in DOMAIN invoice :
               number = [base |-> invoice[i].number.base, suffix |-> Len(invoice)]
    BY DEF NextNumbers
  <2> QED  BY <2>1, <2>2, <2>3 DEF Number
<1> DEFINE q == [req[r] EXCEPT !.at = "creating invoice", !.number = number]
<1>3. /\ q \in Progress /\ q.at = "creating invoice" /\ q.rows = req[r].rows
      /\ q.invoice = req[r].invoice
  BY <1>2 DEF Inv, Typed, Progress, Steps
<1>4. req' = [req EXCEPT ![r] = q]  BY <1>1
<1> HIDE DEF q
<1>5. UNCHANGED <<shipment, item, invoice, received>> /\ invoiceSequence' \in Nat
  BY DEF CreateInvoiceNumber, Inv, Typed
<1>6. SoundRequest(q, item, invoice, received)
  BY <1>3, RequestRows DEF SoundRequest, KeepsInvoice, InHand, Writing
<1>7. q.at \notin InHand  BY <1>3 DEF InHand
<1> QED  BY <1>3, <1>4, <1>5, <1>6, <1>7, RequestStep

(* A step on the invoice i, which is of no other request than r.           *)
LEMMA InvoiceSound ==
  ASSUME Inv, UNCHANGED <<shipment, invoiceSequence>>,
         item' \in Tables, Whole(item'), Alike(item'),
         CoveredRows(item', invoice', received'),
         NEW r \in Requests, \A s \in Requests : Recalls(req[s].rows, item'),
         NEW i \in DOMAIN invoice', invoice' \in Seq(Invoice),
         \A j \in DOMAIN invoice :
           /\ j \in DOMAIN invoice'
           /\ j # i => invoice'[j] = invoice[j]
           /\ invoice[j].status = "SUBMITTED" => invoice'[j].status = "SUBMITTED",
         received \subseteq received', received' \subseteq Bills,
         \A b \in received' : b \in received \/ b.invoice = i,
         \A s \in Requests \ {r} : req[s].at \in InHand => req[s].invoice # i,
         NEW q \in Progress, req' = [req EXCEPT ![r] = q],
         q.invoice = 0 \/ q.invoice = i, q.at \in InHand => q.invoice = i,
         SoundRequest(q, item', invoice', received')
  PROVE  Inv'
<1>1. req \in [Requests -> Progress] /\ req'[r] = q /\ \A s \in Requests \ {r} : req'[s] = req[s]
  BY DEF Inv, Typed
<1>2. Typed'
  <2>1. req' \in [Requests -> Progress]  BY <1>1
  <2>2. \A s \in Requests : req'[s].invoice = 0 \/ req'[s].invoice \in DOMAIN invoice'
    BY <1>1 DEF Inv, Typed
  <2>3. \A b \in received' : b.invoice \in DOMAIN invoice'  BY DEF Inv, Typed
  <2> QED  BY <2>1, <2>2, <2>3 DEF Inv, Typed
<1>3. ASSUME NEW s \in Requests \ {r} PROVE SoundRequest(req[s], item', invoice', received')
  <2>1. SoundRequest(req[s], item, invoice, received)  BY DEF Inv
  <2>2. CoveredRows(req[s].rows, invoice', received')
    BY <2>1, CoveredStill DEF SoundRequest
  <2>3. KeepsInvoice(req[s], invoice', received')
    <3>1. KeepsInvoice(req[s], invoice, received)  BY <2>1 DEF SoundRequest
    <3>2. ASSUME req[s].at \in InHand
          PROVE  /\ req[s].invoice \in DOMAIN invoice'
                 /\ invoice'[req[s].invoice] = invoice[req[s].invoice]
                 /\ \A b \in received' : b.invoice = req[s].invoice => b \in received
      <4>1. req[s].invoice \in DOMAIN invoice /\ req[s].invoice # i
        BY <3>1, <3>2 DEF KeepsInvoice
      <4> QED  BY <4>1
    <3> QED  BY <3>1, <3>2, InvoiceStill
  <2> QED  BY <2>1, <2>2, <2>3 DEF SoundRequest
<1>4. \A s \in Requests : SoundRequest(req'[s], item', invoice', received')  BY <1>1, <1>3
<1>5. OwnInvoices(req')
  <2>1. OwnInvoices(req)  BY DEF Inv
  <2> QED  BY <1>1, <2>1 DEF OwnInvoices
<1> QED  BY <1>2, <1>4, <1>5 DEF Inv

LEMMA AppendType ==
  ASSUME NEW s \in Seq(Invoice), NEW e \in Invoice
  PROVE  /\ Append(s, e) \in Seq(Invoice) /\ Len(Append(s, e)) = Len(s) + 1
         /\ DOMAIN s = 1..Len(s) /\ Len(s) \in Nat
         /\ DOMAIN Append(s, e) = 1..(Len(s) + 1)
         /\ Append(s, e)[Len(s) + 1] = e
         /\ \A j \in DOMAIN s : Append(s, e)[j] = s[j]
OBVIOUS

LEMMA StatusType ==
  ASSUME Inv, NEW i \in DOMAIN invoice, NEW status \in InvoiceStatuses
  PROVE  /\ WithStatus(i, status) \in Seq(Invoice)
         /\ DOMAIN WithStatus(i, status) = DOMAIN invoice
         /\ WithStatus(i, status)[i].status = status
         /\ \A j \in DOMAIN invoice \ {i} : WithStatus(i, status)[j] = invoice[j]
<1> DEFINE e == [invoice[i] EXCEPT !.status = status]
<1>1. invoice \in Seq(Invoice) /\ invoice[i] \in Invoice  BY DEF Inv, Typed
<1>2. e \in Invoice /\ e.status = status  BY <1>1 DEF Invoice
<1>3. WithStatus(i, status) = [invoice EXCEPT ![i] = e]  BY DEF WithStatus
<1> HIDE DEF e
<1>4. [invoice EXCEPT ![i] = e] \in Seq(Invoice)  BY <1>1, <1>2
<1> QED  BY <1>1, <1>2, <1>3, <1>4

(* What is known of the invoice of a request.                              *)
LEMMA InvoiceInHand ==
  ASSUME Inv, NEW r \in Requests, req[r].at \in InHand
  PROVE  /\ req[r].invoice \in DOMAIN invoice /\ req[r].invoice \in Nat
         /\ KeepsInvoice(req[r], invoice, received)
         /\ \A s \in Requests \ {r} : req[s].at \in InHand => req[s].invoice # req[r].invoice
<1>1. KeepsInvoice(req[r], invoice, received)  BY DEF Inv, SoundRequest
<1>2. req[r].invoice \in Nat  BY DEF Inv, Typed, Progress
<1>3. OwnInvoices(req)  BY DEF Inv
<1> QED  BY <1>1, <1>2, <1>3 DEF KeepsInvoice, OwnInvoices

LEMMA CreateInvoiceSound ==
  ASSUME Inv, NEW r \in Requests, CreateInvoice(r)
  PROVE  Inv'
<1> DEFINE e == [status |-> "IN_PROCESS", number |-> req[r].number]
           i == Len(invoice) + 1
           q == [req[r] EXCEPT !.at = "sending", !.invoice = i, !.number = Idle.number]
<1>1. /\ invoice' = Append(invoice, e) /\ UNCHANGED <<shipment, item, invoiceSequence, received>>
      /\ req[r].at = "creating invoice"
  BY DEF CreateInvoice
<1>2. req[r] \in Progress /\ invoice \in Seq(Invoice)  BY DEF Inv, Typed
<1>3. e \in Invoice /\ e.status = "IN_PROCESS"
  BY <1>2 DEF Progress, Invoice, InvoiceStatuses
<1> HIDE DEF e
<1>4. /\ invoice' \in Seq(Invoice) /\ Len(invoice') = i /\ i \in Nat
      /\ DOMAIN invoice = 1..Len(invoice) /\ DOMAIN invoice' = 1..i /\ Len(invoice) \in Nat
      /\ invoice'[i] = e
      /\ \A j \in DOMAIN invoice : invoice'[j] = invoice[j]
  <2> DEFINE new == Append(invoice, e)
  <2>1. /\ new \in Seq(Invoice) /\ Len(new) = Len(invoice) + 1
        /\ DOMAIN invoice = 1..Len(invoice) /\ Len(invoice) \in Nat
        /\ DOMAIN new = 1..(Len(invoice) + 1)
        /\ new[Len(invoice) + 1] = e
        /\ \A j \in DOMAIN invoice : new[j] = invoice[j]
    BY <1>2, <1>3, AppendType
  <2>2. invoice' = new  BY <1>1
  <2> HIDE DEF new
  <2> QED  BY <2>1, <2>2
<1>5. i \in DOMAIN invoice' /\ i \notin DOMAIN invoice /\ DOMAIN invoice \subseteq DOMAIN invoice'
  BY <1>4
<1>6. req' = [req EXCEPT ![r] = q]
  <2>1. req' = [req EXCEPT ![r] = [req[r] EXCEPT !.at = "sending", !.invoice = Len(invoice'),
                                                 !.number = Idle.number]]
    BY DEF CreateInvoice, Becomes
  <2> QED  BY <2>1, <1>4
<1>7. /\ q \in Progress /\ q.at = "sending" /\ q.rows = req[r].rows /\ q.invoice = i
  BY <1>2, <1>4, IdleType DEF Progress, Steps
<1> HIDE DEF q, i
<1>8. \A s \in Requests \ {r} : req[s].at \in InHand => req[s].invoice # i
  BY <1>5, InvoiceInHand
<1>9. CoveredRows(item, invoice', received)
  BY <1>4, <1>5, CoveredStill DEF Inv
<1>10. SoundRequest(q, item, invoice', received)
  <2>1. CoveredRows(q.rows, invoice', received)
    <3>1. CoveredRows(req[r].rows, invoice, received)  BY RequestRows
    <3>2. CoveredRows(req[r].rows, invoice', received)  BY <1>4, <1>5, <3>1, CoveredStill
    <3> QED  BY <1>7, <3>2
  <2>2. Recalls(q.rows, item)  BY <1>7, RequestRows
  <2>3. \A b \in received : b.invoice # i  BY <1>5 DEF Inv, Typed
  <2>4. KeepsInvoice(q, invoice', received)
    BY <1>3, <1>4, <1>5, <1>7, <2>3 DEF KeepsInvoice, InHand
  <2> QED  BY <1>7, <2>1, <2>2, <2>4 DEF SoundRequest, Writing
<1>11. /\ item \in Tables /\ Whole(item) /\ Alike(item) /\ received \subseteq Bills
       /\ \A s \in Requests : Recalls(req[s].rows, item)
  BY RequestRows DEF Inv, Typed
<1>12. /\ item' \in Tables /\ Whole(item') /\ Alike(item') /\ received' \subseteq Bills
       /\ \A s \in Requests : Recalls(req[s].rows, item')
       /\ CoveredRows(item', invoice', received')
       /\ SoundRequest(q, item', invoice', received')
       /\ received \subseteq received' /\ \A b \in received' : b \in received \/ b.invoice = i
  BY <1>1, <1>9, <1>10, <1>11
<1>13. \A j \in DOMAIN invoice :
         /\ j \in DOMAIN invoice'
         /\ j # i => invoice'[j] = invoice[j]
         /\ invoice[j].status = "SUBMITTED" => invoice'[j].status = "SUBMITTED"
  BY <1>4, <1>5
<1>14. q.at \in InHand => q.invoice = i  BY <1>7
<1> QED  BY <1>1, <1>4, <1>5, <1>6, <1>7, <1>8, <1>12, <1>13, <1>14, InvoiceSound

(* r hears from GEX, which may have its bill by now.                       *)
LEMMA BillSound ==
  ASSUME Inv, NEW r \in Requests, req[r].at = "sending",
         received' = received \union {Bill(r)}, UNCHANGED tables,
         NEW at \in {"accepted", "refused"}, NEW rows \in Tables,
         CoveredRows(rows, invoice, received), Recalls(rows, item),
         at = "accepted" => DOMAIN rows = DOMAIN req[r].rows,
         Continues(r, at, rows)
  PROVE  Inv'
<1> DEFINE q == [req[r] EXCEPT !.at = at, !.rows = rows]
           i == req[r].invoice
<1>1. UNCHANGED <<shipment, item, invoice, invoiceSequence>>  BY DEF tables
<1>2. req[r] \in Progress /\ req' = [req EXCEPT ![r] = q]
  BY DEF Inv, Typed, Continues, Becomes
<1>3. q \in Progress /\ q.at = at /\ q.rows = rows /\ q.invoice = i
  BY <1>2 DEF Progress, Steps
<1>4. /\ i \in DOMAIN invoice /\ i \in Nat
      /\ KeepsInvoice(req[r], invoice, received)
      /\ \A s \in Requests \ {r} : req[s].at \in InHand => req[s].invoice # i
  <2>1. req[r].at \in InHand  BY DEF InHand
  <2> QED  BY <2>1, InvoiceInHand
<1>5. Bill(r) \in Bills /\ Bill(r).invoice = i /\ Bill(r).items = DOMAIN req[r].rows
  BY <1>2, <1>4, RowsOfTable DEF Bill, Bills, Progress
<1>6. received' \subseteq Bills /\ \A b \in received' : b \in received \/ b.invoice = i
  BY <1>5 DEF Inv, Typed
<1>7. CoveredRows(item, invoice, received') /\ CoveredRows(rows, invoice, received')
  <2>1. CoveredRows(item, invoice, received)  BY DEF Inv
  <2>2. received \subseteq received'  OBVIOUS
  <2> QED  BY <2>1, <2>2, CoveredStill
<1>8. SoundRequest(q, item, invoice, received')
  <2>1. invoice[i].status = "IN_PROCESS"  BY <1>4 DEF KeepsInvoice, InHand
  <2>2. at = "accepted" => [invoice |-> i, items |-> DOMAIN rows] \in received'
    BY DEF Bill
  <2> HIDE DEF q, i
  <2>3. KeepsInvoice(q, invoice, received')
    BY <1>3, <1>4, <2>1, <2>2 DEF KeepsInvoice, InHand
  <2> QED  BY <1>3, <1>7, <2>3 DEF SoundRequest, Writing
<1>9. /\ item \in Tables /\ Whole(item) /\ Alike(item) /\ invoice \in Seq(Invoice)
      /\ \A s \in Requests : Recalls(req[s].rows, item)
  BY RequestRows DEF Inv, Typed
<1> HIDE DEF q, i
<1> QED  BY <1>1, <1>2, <1>3, <1>4, <1>6, <1>7, <1>8, <1>9, InvoiceSound

LEMMA AcceptSound ==
  ASSUME Inv, NEW r \in Requests, GexAccepts(r)
  PROVE  Inv'
<1>1. /\ req[r].at = "sending" /\ received' = received \union {Bill(r)} /\ UNCHANGED tables
      /\ Continues(r, "accepted", req[r].rows)
  BY DEF GexAccepts, Sends
<1>2. /\ req[r].rows \in Tables /\ CoveredRows(req[r].rows, invoice, received)
      /\ Recalls(req[r].rows, item)
  BY RequestRows
<1> QED  BY <1>1, <1>2, BillSound

LEMMA LostSound ==
  ASSUME Inv, NEW r \in Requests, AnswerLost(r)
  PROVE  Inv'
<1>1. /\ req[r].at = "sending" /\ received' = received \union {Bill(r)} /\ UNCHANGED tables
      /\ Continues(r, "refused", NoRows)
  BY DEF AnswerLost, Sends
<1>2. /\ NoRows \in Tables /\ CoveredRows(NoRows, invoice, received) /\ Recalls(NoRows, item)
  BY NoRowsRead
<1> QED  BY <1>1, <1>2, BillSound

(* r goes on with its invoice and without rows.                            *)
LEMMA NoRowsStep ==
  ASSUME Inv, NEW r \in Requests, req[r].at \in InHand, UNCHANGED <<tables, received>>,
         NEW at \in {"refused", "not updated", "storing"}, Continues(r, at, NoRows),
         invoice[req[r].invoice].status = "IN_PROCESS",
         at # "refused" => \E b \in received : b.invoice = req[r].invoice
  PROVE  Inv'
<1> DEFINE q == [req[r] EXCEPT !.at = at, !.rows = NoRows]
<1>1. req[r] \in Progress /\ req' = [req EXCEPT ![r] = q]
  BY DEF Inv, Typed, Continues, Becomes
<1>2. q \in Progress /\ q.at = at /\ q.rows = NoRows /\ q.invoice = req[r].invoice
  BY <1>1, NoRowsType DEF Progress, Steps
<1> HIDE DEF q
<1>3. KeepsInvoice(q, invoice, received)
  BY <1>2, InvoiceInHand DEF KeepsInvoice, InHand
<1>4. SoundRequest(q, item, invoice, received)
  BY <1>2, <1>3, NoRowsRead DEF SoundRequest
<1> QED  BY <1>1, <1>2, <1>4, TablesStay, RequestStep

LEMMA NotSentSound ==
  ASSUME Inv, NEW r \in Requests, NotSent(r)
  PROVE  Inv'
<1>1. /\ req[r].at = "sending" /\ Continues(r, "refused", NoRows)
      /\ UNCHANGED <<tables, received>>
  BY DEF NotSent
<1>2. req[r].at \in InHand  BY <1>1 DEF InHand
<1>3. invoice[req[r].invoice].status = "IN_PROCESS"
  BY <1>1, <1>2, InvoiceInHand DEF KeepsInvoice, InHand
<1> QED  BY <1>1, <1>2, <1>3, NoRowsStep

LEMMA RolledBackSound ==
  ASSUME Inv, NEW r \in Requests, UpdateRolledBack(r)
  PROVE  Inv'
<1>1. /\ req[r].at = "accepted" /\ UNCHANGED <<tables, received>>
      /\ Continues(r, "not updated", NoRows) \/ Continues(r, "storing", NoRows)
  BY DEF UpdateRolledBack
<1>2. req[r].at \in InHand  BY <1>1 DEF InHand
<1>3. /\ invoice[req[r].invoice].status = "IN_PROCESS"
      /\ [invoice |-> req[r].invoice, items |-> DOMAIN req[r].rows] \in received
  BY <1>1, <1>2, InvoiceInHand DEF KeepsInvoice, InHand
<1>4. \E b \in received : b.invoice = req[r].invoice
  <2> DEFINE b == [invoice |-> req[r].invoice, items |-> DOMAIN req[r].rows]
  <2>1. b \in received /\ b.invoice = req[r].invoice  BY <1>3
  <2> QED  BY <2>1
<1> QED  BY <1>1, <1>2, <1>3, <1>4, NoRowsStep

LEMMA UpdateSubmittedSound ==
  ASSUME Inv, NEW r \in Requests, UpdateInvoiceSubmitted(r)
  PROVE  Inv'
<1> DEFINE rows == req[r].rows
           i == req[r].invoice
           bound == Bound(rows, i)
           q == [req[r] EXCEPT !.at = "storing", !.rows = NoRows]
<1>1. /\ req[r].at = "accepted" /\ invoice' = WithStatus(i, "SUBMITTED")
      /\ item' = Updated(item, bound) /\ Continues(r, "storing", NoRows)
      /\ UNCHANGED <<shipment, invoiceSequence, received>>
  BY DEF UpdateInvoiceSubmitted
<1>2. /\ i \in DOMAIN invoice /\ i \in Nat /\ KeepsInvoice(req[r], invoice, received)
      /\ \A s \in Requests \ {r} : req[s].at \in InHand => req[s].invoice # i
  <2>1. req[r].at \in InHand  BY <1>1 DEF InHand
  <2> QED  BY <2>1, InvoiceInHand
<1>3. req[r] \in Progress /\ req' = [req EXCEPT ![r] = q]
  BY <1>1 DEF Inv, Typed, Continues, Becomes
<1>4. q \in Progress /\ q.at = "storing" /\ q.rows = NoRows /\ q.invoice = i
  BY <1>3, NoRowsType DEF Progress, Steps
<1>5. rows \in Tables /\ Recalls(rows, item)  BY RequestRows
<1>6. /\ bound \in Tables /\ DOMAIN bound = DOMAIN rows
      /\ \A x \in DOMAIN rows : bound[x].code = rows[x].code /\ bound[x].invoice = i
  BY <1>2, <1>5, BoundType
<1>7. [invoice |-> i, items |-> DOMAIN rows] \in received
  BY <1>1, <1>2 DEF KeepsInvoice
<1>8. \E b \in received : b.invoice = i /\ b.items = DOMAIN rows
  <2> DEFINE b == [invoice |-> i, items |-> DOMAIN rows]
  <2>1. b \in received /\ b.invoice = i /\ b.items = DOMAIN rows  BY <1>7
  <2> QED  BY <2>1
<1>9. /\ invoice' \in Seq(Invoice) /\ DOMAIN invoice' = DOMAIN invoice
      /\ invoice'[i].status = "SUBMITTED"
      /\ \A j \in DOMAIN invoice \ {i} : invoice'[j] = invoice[j]
  <2> DEFINE new == WithStatus(i, "SUBMITTED")
  <2>1. "SUBMITTED" \in InvoiceStatuses  BY DEF InvoiceStatuses
  <2> HIDE DEF i
  <2>2. /\ new \in Seq(Invoice) /\ DOMAIN new = DOMAIN invoice
        /\ new[i].status = "SUBMITTED"
        /\ \A j \in DOMAIN invoice \ {i} : new[j] = invoice[j]
    BY <1>2, <2>1, StatusType
  <2>3. invoice' = new  BY <1>1
  <2> HIDE DEF new
  <2> QED  BY <2>2, <2>3
<1>10. /\ item' \in Tables /\ DOMAIN item' = DOMAIN item
       /\ \A x \in DOMAIN item : item'[x] = IF x \in DOMAIN bound THEN bound[x] ELSE item[x]
  <2> DEFINE new == Updated(item, bound)
  <2>1. item \in Tables  BY DEF Inv, Typed
  <2> HIDE DEF bound
  <2>2. /\ new \in Tables /\ DOMAIN new = DOMAIN item
        /\ \A x \in DOMAIN item : new[x] = IF x \in DOMAIN bound THEN bound[x] ELSE item[x]
    BY <1>6, <2>1, UpdatedType
  <2>3. item' = new  BY <1>1
  <2> HIDE DEF new
  <2> QED  BY <2>2, <2>3
<1> HIDE DEF q, bound
<1>11. \A x \in DOMAIN item : item'[x].code = item[x].code
  BY <1>5, <1>6, <1>10 DEF Recalls
<1>12. BaseOf(item') = BaseOf(item)  BY <1>10, <1>11 DEF BaseOf, WithCode
<1>13. Whole(item')
  <2> SUFFICES ASSUME NEW c \in BaseCodes, BaseOf(item') # {}
               PROVE  \E x \in DOMAIN item' : WithCode(item', {c}) = {x}
    BY DEF Whole
  <2>1. PICK x \in DOMAIN item : WithCode(item, {c}) = {x}  BY <1>12 DEF Inv, Whole
  <2>2. WithCode(item', {c}) = WithCode(item, {c})  BY <1>10, <1>11 DEF WithCode
  <2> QED  BY <1>10, <2>1, <2>2
<1>14. Alike(item')
  <2>1. CASE BaseOf(rows) \cap DOMAIN item = {}
    <3>1. \A x \in BaseOf(item) : item'[x] = item[x]
      BY <1>5, <1>6, <1>10, <2>1 DEF BaseOf, WithCode, Recalls
    <3>2. Alike(item)  BY DEF Inv
    <3> QED  BY <1>12, <3>1, <3>2 DEF Alike
  <2>2. CASE BaseOf(rows) \cap DOMAIN item # {}
    <3>1. BaseOf(rows) = BaseOf(item)  BY <1>5, <2>2 DEF Recalls
    <3>2. \A x \in BaseOf(item) : x \in DOMAIN item /\ x \in DOMAIN rows
      BY <3>1 DEF BaseOf, WithCode
    <3>3. \A x \in BaseOf(item) : item'[x].invoice = i  BY <1>6, <1>10, <3>2
    <3> QED  BY <1>12, <3>3 DEF Alike
  <2> QED  BY <2>1, <2>2
<1>15. \A s \in Requests : Recalls(req[s].rows, item')
  <2> SUFFICES ASSUME NEW s \in Requests PROVE Recalls(req[s].rows, item')  OBVIOUS
  <2>1. Recalls(req[s].rows, item)  BY RequestRows
  <2> QED  BY <1>10, <1>11, <1>12, <2>1, RecallsStill
<1>16. CoveredRows(item', invoice', received')
  <2>1. CoveredRows(item, invoice', received')
    <3>1. CoveredRows(item, invoice, received)  BY DEF Inv
    <3>2. \A j \in DOMAIN invoice :
            /\ j \in DOMAIN invoice'
            /\ invoice[j].status = "SUBMITTED" => invoice'[j].status = "SUBMITTED"
      BY <1>9
    <3>3. received \subseteq received'  BY <1>1
    <3> QED  BY <3>1, <3>2, <3>3, CoveredStill
  <2>2. \A x \in DOMAIN rows : Covers(invoice', received', x, i)
    BY <1>1, <1>2, <1>8, <1>9 DEF Covers
  <2> HIDE DEF rows, i
  <2>3. ASSUME NEW x \in DOMAIN item', item'[x].invoice # None
        PROVE  Covers(invoice', received', x, item'[x].invoice)
    BY <1>6, <1>10, <2>1, <2>2, <2>3 DEF CoveredRows
  <2> QED  BY <2>3 DEF CoveredRows
<1>17. SoundRequest(q, item', invoice', received')
  <2>1. CoveredRows(NoRows, invoice', received') /\ Recalls(NoRows, item')
    BY NoRowsType DEF CoveredRows, Recalls, BaseOf, WithCode
  <2>2. KeepsInvoice(q, invoice', received')
    BY <1>1, <1>2, <1>4, <1>8, <1>9 DEF KeepsInvoice, InHand
  <2> QED  BY <1>4, <2>1, <2>2 DEF SoundRequest, Writing
<1> HIDE DEF rows, i
<1>18. \A j \in DOMAIN invoice :
         /\ j \in DOMAIN invoice'
         /\ j # i => invoice'[j] = invoice[j]
         /\ invoice[j].status = "SUBMITTED" => invoice'[j].status = "SUBMITTED"
  BY <1>9
<1>19. /\ received \subseteq received' /\ received' \subseteq Bills
       /\ \A b \in received' : b \in received \/ b.invoice = i
  BY <1>1 DEF Inv, Typed
<1> QED
  BY <1>1, <1>2, <1>3, <1>4, <1>9, <1>10, <1>13, <1>14, <1>15, <1>16, <1>17, <1>18, <1>19,
     InvoiceSound

(* r gives its invoice the last status and is done.                        *)
LEMMA SettleSound ==
  ASSUME Inv, NEW r \in Requests, req[r].at \in InHand,
         NEW status \in InvoiceStatuses,
         invoice[req[r].invoice].status = "SUBMITTED" => status = "SUBMITTED",
         invoice' = WithStatus(req[r].invoice, status), Ends(r),
         UNCHANGED <<shipment, item, invoiceSequence, received>>
  PROVE  Inv'
<1> DEFINE i == req[r].invoice
<1>1. /\ i \in DOMAIN invoice
      /\ \A s \in Requests \ {r} : req[s].at \in InHand => req[s].invoice # i
  BY InvoiceInHand
<1>2. req' = [req EXCEPT ![r] = Idle]  BY DEF Ends, Becomes
<1>3. /\ invoice' \in Seq(Invoice) /\ DOMAIN invoice' = DOMAIN invoice
      /\ invoice'[i].status = status
      /\ \A j \in DOMAIN invoice \ {i} : invoice'[j] = invoice[j]
  <2> DEFINE new == WithStatus(i, status)
  <2>1. invoice' = new  OBVIOUS
  <2> HIDE DEF i
  <2>2. /\ new \in Seq(Invoice) /\ DOMAIN new = DOMAIN invoice
        /\ new[i].status = status
        /\ \A j \in DOMAIN invoice \ {i} : new[j] = invoice[j]
    BY <1>1, StatusType
  <2> HIDE DEF new
  <2> QED  BY <2>1, <2>2
<1>4. \A j \in DOMAIN invoice :
        /\ j \in DOMAIN invoice'
        /\ j # i => invoice'[j] = invoice[j]
        /\ invoice[j].status = "SUBMITTED" => invoice'[j].status = "SUBMITTED"
  BY <1>3
<1>5. /\ item' \in Tables /\ Whole(item') /\ Alike(item')
      /\ \A s \in Requests : Recalls(req[s].rows, item')
      /\ received \subseteq received' /\ received' \subseteq Bills
      /\ \A b \in received' : b \in received \/ b.invoice = i
  BY RequestRows DEF Inv, Typed
<1>6. CoveredRows(item', invoice', received')
  <2>1. CoveredRows(item, invoice, received)  BY DEF Inv
  <2>2. CoveredRows(item, invoice', received')  BY <1>4, <1>5, <2>1, CoveredStill
  <2> QED  BY <2>2
<1>7. SoundRequest(Idle, item', invoice', received')
  <2>1. Idle.at \notin InHand /\ DOMAIN Idle.rows = {}  BY IdleType, NoRowsType DEF InHand
  <2> QED  BY <2>1, NothingHeld
<1>8. /\ Idle \in Progress /\ Idle.invoice = 0 /\ Idle.at \notin InHand
      /\ i \in DOMAIN invoice'
  BY <1>1, <1>3, IdleType DEF InHand
<1> HIDE DEF i
<1> QED  BY <1>1, <1>2, <1>3, <1>4, <1>5, <1>6, <1>7, <1>8, InvoiceSound

LEMMA UpdateFailedSound ==
  ASSUME Inv, NEW r \in Requests, UpdateInvoiceFailed(r)
  PROVE  Inv'
<1>1. /\ req[r].at \in {"refused", "not updated"} /\ Ends(r)
      /\ UNCHANGED <<shipment, item, invoiceSequence, received>>
  BY DEF UpdateInvoiceFailed, FailureOf
<1>2. PICK status \in InvoiceStatuses : invoice' = WithStatus(req[r].invoice, status)
  BY DEF UpdateInvoiceFailed, FailureOf, InvoiceStatuses
<1>3. req[r].at \in InHand  BY <1>1 DEF InHand
<1>4. invoice[req[r].invoice].status = "IN_PROCESS"
  BY <1>1, <1>3, InvoiceInHand DEF KeepsInvoice, InHand
<1> QED  BY <1>1, <1>2, <1>3, <1>4, SettleSound

LEMMA StoreSound ==
  ASSUME Inv, NEW r \in Requests, StoreInvoice(r)
  PROVE  Inv'
<1>1. /\ req[r].at = "storing" /\ Ends(r)
      /\ UNCHANGED <<shipment, item, invoiceSequence, received>>
      /\ invoice' = WithStatus(req[r].invoice, "SUBMITTED")
  BY DEF StoreInvoice
<1>2. req[r].at \in InHand /\ "SUBMITTED" \in InvoiceStatuses  BY <1>1 DEF InHand, InvoiceStatuses
<1> QED  BY <1>1, <1>2, SettleSound
-----------------------------------------------------------------------------
(* The invariant holds.                                                    *)

LEMMA InitSound == Init => Inv
<1> SUFFICES ASSUME Init PROVE Inv  OBVIOUS
<1>1. /\ shipment = "IN_TRANSIT" /\ item = NoRows /\ invoice = <<>> /\ invoiceSequence = 0
      /\ received = {} /\ req = [r \in Requests |-> Idle]
  BY DEF Init
<1>2. NoRows \in Tables /\ DOMAIN NoRows = {} /\ BaseOf(NoRows) = {}
  BY NoRowsType DEF BaseOf, WithCode
<1>3. Typed
  <2>1. \A r \in Requests : req[r] = Idle  BY <1>1
  <2>2. req \in [Requests -> Progress]  BY <1>1, IdleType
  <2>3. <<>> \in Seq(Invoice)  OBVIOUS
  <2> QED  BY <1>1, <1>2, <2>1, <2>2, <2>3, IdleType DEF Typed
<1>4. CoveredRows(item, invoice, received) /\ Whole(item) /\ Alike(item)
  BY <1>1, <1>2 DEF CoveredRows, Whole, Alike
<1>5. \A r \in Requests : req[r] = Idle /\ Idle.at \notin InHand /\ DOMAIN Idle.rows = {}
  BY <1>1, <1>2, IdleType DEF InHand
<1>6. \A r \in Requests : SoundRequest(req[r], item, invoice, received)
  BY <1>5, NothingHeld
<1>7. OwnInvoices(req)  BY <1>5 DEF OwnInvoices
<1> QED  BY <1>3, <1>4, <1>6, <1>7 DEF Inv

LEMMA LineItemSound ==
  ASSUME Inv, NEW r \in Requests, LineItemStep(r)
  PROVE  Inv'
<1>1. CASE \E x \in Accessorials : ApproveShipmentLineItem(r, x)  BY <1>1, ApproveSound
<1>2. CASE \E x \in Accessorials : UpdateShipmentLineItem(r, x)  BY <1>2, UpdateSound
<1>3. CASE \E x \in Accessorials : DeleteShipmentLineItem(r, x)  BY <1>3, DeleteSound
<1>4. CASE SaveUpdate(r)  BY <1>4, SaveUpdateSound
<1>5. CASE SaveLineItem(r)  BY <1>5, SaveLineItemSound
<1>6. CASE DestroyLineItem(r)  BY <1>6, DestroySound
<1> QED  BY <1>1, <1>2, <1>3, <1>4, <1>5, <1>6 DEF LineItemStep

LEMMA PricingSound ==
  ASSUME Inv, NEW r \in Requests, PricingStep(r)
  PROVE  Inv'
<1>1. CASE DeliverShipment(r)  BY <1>1, DeliverSound
<1>2. CASE CommitDelivery(r)  BY <1>2, CommitSound
<1>3. CASE FetchLineItemsByShipmentID(r)  BY <1>3, FetchLineItemsSound
<1>4. CASE ProcessRecalculateShipment(r)  BY <1>4, ProcessSound
<1>5. CASE DeleteBaseShipmentLineItems(r)  BY <1>5, DeleteBaseSound
<1>6. CASE DeleteStorageInTransitLineItems(r)  BY <1>6, DeleteStorageSound
<1>7. CASE CreateStorageInTransitLineItems(r)  BY <1>7, CreateStorageSound
<1>8. CASE PriceAdditionalRequests(r)  BY <1>8, PriceAdditionalSound
<1>9. CASE SaveShipmentAndPricingInfo(r)  BY <1>9, SavePricingSound
<1> QED
  BY <1>1, <1>2, <1>3, <1>4, <1>5, <1>6, <1>7, <1>8, <1>9 DEF PricingStep

LEMMA InvoicingSound ==
  ASSUME Inv, NEW r \in Requests, InvoiceStep(r)
  PROVE  Inv'
<1>1. CASE FetchShipmentForInvoice(r)  BY <1>1, FetchForInvoiceSound
<1>2. CASE CreateInvoiceNumber(r)  BY <1>2, NumberSound
<1>3. CASE CreateInvoice(r)  BY <1>3, CreateInvoiceSound
<1>4. CASE GexAccepts(r)  BY <1>4, AcceptSound
<1>5. CASE AnswerLost(r)  BY <1>5, LostSound
<1>6. CASE NotSent(r)  BY <1>6, NotSentSound
<1>7. CASE UpdateInvoiceSubmitted(r)  BY <1>7, UpdateSubmittedSound
<1>8. CASE UpdateRolledBack(r)  BY <1>8, RolledBackSound
<1>9. CASE UpdateInvoiceFailed(r)  BY <1>9, UpdateFailedSound
<1>10. CASE StoreInvoice(r)  BY <1>10, StoreSound
<1> QED
  BY <1>1, <1>2, <1>3, <1>4, <1>5, <1>6, <1>7, <1>8, <1>9, <1>10 DEF InvoiceStep

LEMMA NextSound == Inv /\ [Next]_vars => Inv'
<1> SUFFICES ASSUME Inv, [Next]_vars PROVE Inv'  OBVIOUS
<1>1. CASE UNCHANGED vars  BY <1>1 DEF vars, tables, Inv, Typed
<1>2. CASE CreateShipmentLineItem  BY <1>2, CreateLineItemSound
<1>3. ASSUME NEW r \in Requests, LineItemStep(r) \/ PricingStep(r) \/ InvoiceStep(r) \/ Fail(r)
      PROVE  Inv'
  BY <1>3, LineItemSound, PricingSound, InvoicingSound, FailSound
<1> QED  BY <1>1, <1>2, <1>3 DEF Next

LEMMA Invariance == Spec => []Inv
<1> QED  BY InitSound, NextSound, PTL DEF Spec

(* The tables and every request in progress stay well formed, whatever     *)
(* overlaps: the ids of line items are never exhausted by a wrong write,   *)
(* and every bill and every request in hand is for an invoice there is.    *)
THEOREM BillingTypeCorrect == Spec => []TypeOK
<1>1. Inv => TypeOK
  <2> SUFFICES ASSUME Inv PROVE TypeOK  OBVIOUS
  <2>1. Typed  BY DEF Inv
  <2>2. DOMAIN item \subseteq Items /\ \A x \in DOMAIN item : item[x] \in Row
    BY <2>1, RowsOfTable DEF Typed
  <2>3. invoice \in Seq([status : InvoiceStatuses, number : Number])
    BY <2>1 DEF Typed, Invoice
  <2>4. \A b \in received : b.invoice \in DOMAIN invoice /\ b.items \subseteq Items
    BY <2>1 DEF Typed, Bills
  <2>5. ASSUME NEW r \in Requests
        PROVE  /\ req[r].at \in Steps /\ req[r].number \in Number /\ req[r].rows \in Tables
               /\ req[r].invoice \in 0..Len(invoice)
    <3>1. /\ req[r] \in Progress
          /\ req[r].invoice = 0 \/ req[r].invoice \in DOMAIN invoice
      BY <2>1 DEF Typed
    <3>2. DOMAIN invoice = 1..Len(invoice) /\ Len(invoice) \in Nat  BY <2>3
    <3>3. req[r].invoice \in 0..Len(invoice)  BY <3>1, <3>2
    <3> QED  BY <3>1, <3>3 DEF Progress
  <2>6. \A r \in Requests :
          DOMAIN req[r].rows \subseteq Items /\ \A x \in DOMAIN req[r].rows : req[r].rows[x] \in Row
    BY <2>5, RowsOfTable
  <2> QED  BY <2>1, <2>2, <2>3, <2>4, <2>5, <2>6 DEF TypeOK, Typed
<1> QED  BY <1>1, Invariance, PTL

(* createUniqueShipmentLineItem looks for base line items only as the      *)
(* transaction saves them, and a recalculation deletes all it read: of the *)
(* base line items there is one for each code or none, however many        *)
(* deliveries and recalculations overlap and wherever they fail.           *)
THEOREM BaseItemsStayComplete == Spec => []BaseItemsComplete
<1>1. Inv => BaseItemsComplete  BY DEF Inv, Whole, BaseOf, BaseItemsComplete
<1> QED  BY <1>1, Invariance, PTL

(* UpdateInvoiceSubmitted binds the rows that were billed, and every other *)
(* handler writes back whole rows it read before: a line item is bound     *)
(* only to a SUBMITTED invoice whose bill, which GEX has, lists it.        *)
THEOREM BoundItemsAreBilled == Spec => []BoundIsBilled
<1>1. Inv => BoundIsBilled
  <2> SUFFICES ASSUME Inv, NEW x \in DOMAIN item, item[x].invoice # None
               PROVE  Covers(invoice, received, x, item[x].invoice)
    BY DEF BoundIsBilled, Covers
  <2> QED  BY DEF Inv, CoveredRows
<1> QED  BY <1>1, Invariance, PTL
-----------------------------------------------------------------------------
(* The contract of the invoices.                                           *)

StatusOf(invoices) == [i \in DOMAIN invoices |-> invoices[i].status]
BoundOf(table) == {<<x, table[x].invoice>> : x \in {y \in DOMAIN table : table[y].invoice # None}}

LEMMA StatusOfAppend ==
  ASSUME NEW s \in Seq(Invoice), NEW e \in Invoice
  PROVE  StatusOf(Append(s, e)) = Append(StatusOf(s), e.status)
<1> DEFINE new == Append(s, e)
           t == StatusOf(s)
           n == Len(s)
<1>1. /\ new \in Seq(Invoice) /\ n \in Nat /\ DOMAIN s = 1..n /\ DOMAIN new = 1..(n + 1)
      /\ new[n + 1] = e
      /\ \A j \in 1..n : new[j] = s[j]
  BY AppendType
<1>2. \A j \in 1..n : s[j].status \in InvoiceStatuses
  <2>1. \A j \in 1..n : s[j] \in Invoice  BY <1>1
  <2> QED  BY <2>1 DEF Invoice
<1>3. /\ t \in Seq(InvoiceStatuses) /\ Len(t) = n
      /\ \A j \in 1..n : t[j] = s[j].status
  BY <1>1, <1>2 DEF StatusOf
<1>4. e.status \in InvoiceStatuses  BY DEF Invoice
<1> HIDE DEF t
<1>5. /\ Append(t, e.status) = [j \in 1..(n + 1) |-> IF j = n + 1 THEN e.status ELSE t[j]]
  BY <1>1, <1>3, <1>4
<1> HIDE DEF new, n
<1>6. StatusOf(new) = [j \in 1..(n + 1) |-> IF j = n + 1 THEN e.status ELSE t[j]]
  <2>1. \A j \in 1..(n + 1) : j = n + 1 \/ j \in 1..n  BY <1>1
  <2> QED  BY <1>1, <1>3, <2>1 DEF StatusOf
<1>7. StatusOf(new) = Append(t, e.status)  BY <1>5, <1>6
<1> QED  BY <1>7 DEF new, t

LEMMA StatusOfWithStatus ==
  ASSUME Inv, NEW i \in DOMAIN invoice, NEW status \in InvoiceStatuses
  PROVE  /\ StatusOf(WithStatus(i, status)) = [StatusOf(invoice) EXCEPT ![i] = status]
         /\ DOMAIN WithStatus(i, status) = DOMAIN invoice
<1> DEFINE new == WithStatus(i, status)
<1>1. /\ DOMAIN new = DOMAIN invoice /\ new[i].status = status
      /\ \A j \in DOMAIN invoice \ {i} : new[j] = invoice[j]
  BY StatusType
<1> HIDE DEF new
<1>2. StatusOf(new) = [StatusOf(invoice) EXCEPT ![i] = status]  BY <1>1 DEF StatusOf
<1> QED  BY <1>1, <1>2 DEF new

LEMMA CoveredBound ==
  ASSUME Inv', DOMAIN invoice' = DOMAIN invoice, UNCHANGED received
  PROVE  Contract!Covered(BoundOf(item'))
<1> SUFFICES ASSUME NEW pair \in BoundOf(item')
             PROVE  /\ pair[2] \in DOMAIN invoice
                    /\ StatusOf(invoice')[pair[2]] = "SUBMITTED"
                    /\ \E b \in {b \in received : b.invoice = pair[2]} : pair[1] \in b.items
  BY DEF Contract!Covered, Contract!BillsOf, StatusOf
<1>1. PICK x \in DOMAIN item' : item'[x].invoice # None /\ pair = <<x, item'[x].invoice>>
  BY DEF BoundOf
<1>2. Covers(invoice', received', x, item'[x].invoice)  BY <1>1 DEF Inv, CoveredRows
<1> QED  BY <1>1, <1>2 DEF Covers, StatusOf

(* Nothing of the contract changes but the line items.                     *)
LEMMA RewriteStep ==
  ASSUME Inv', UNCHANGED <<invoice, received>>
  PROVE  Contract!Rewrite
<1>1. Contract!Covered(BoundOf(item'))  BY CoveredBound
<1> QED  BY <1>1 DEF Contract!Rewrite, BoundOf

LEMMA ContractStart == Init => Contract!ContractInit
BY DEF Init, NoRows, Contract!ContractInit

LEMMA OpenStep ==
  ASSUME Inv, NEW r \in Requests, CreateInvoice(r)
  PROVE  Contract!Open
<1> DEFINE e == [status |-> "IN_PROCESS", number |-> req[r].number]
<1>1. invoice' = Append(invoice, e) /\ UNCHANGED <<item, received>>  BY DEF CreateInvoice
<1>2. req[r] \in Progress /\ invoice \in Seq(Invoice)  BY DEF Inv, Typed
<1>3. e \in Invoice /\ e.status = "IN_PROCESS"
  BY <1>2 DEF Progress, Invoice, InvoiceStatuses
<1> HIDE DEF e
<1>4. StatusOf(Append(invoice, e)) = Append(StatusOf(invoice), e.status)
  BY <1>2, <1>3, StatusOfAppend
<1>5. StatusOf(invoice') = Append(StatusOf(invoice), "IN_PROCESS")  BY <1>1, <1>3, <1>4
<1> QED  BY <1>1, <1>5 DEF Contract!Open, StatusOf

LEMMA ReceiveStep ==
  ASSUME Inv, NEW r \in Requests, req[r].at = "sending",
         received' = received \union {Bill(r)}, UNCHANGED <<item, invoice>>
  PROVE  \E i \in DOMAIN invoice : Contract!Receive(i)
<1>0. req[r].at \in InHand  BY DEF InHand
<1>1. PICK i \in DOMAIN invoice : i = req[r].invoice  BY <1>0, InvoiceInHand
<1>2. /\ i \in DOMAIN invoice /\ invoice[i].status = "IN_PROCESS"
      /\ \A b \in received : b.invoice # i
  BY <1>0, <1>1, InvoiceInHand DEF KeepsInvoice, InHand
<1>3. Bill(r).invoice = i /\ Bill(r) \in received'  BY <1>1 DEF Bill
<1>4. StatusOf(invoice)[i] = "IN_PROCESS"  BY <1>2 DEF StatusOf
<1>5. {b \in received : b.invoice = i} = {}  BY <1>2
<1>6. Contract!Receive(i)
  BY <1>2, <1>3, <1>4, <1>5 DEF Contract!Receive, Contract!BillsOf, StatusOf
<1> QED  BY <1>2, <1>6

LEMMA SubmitStep ==
  ASSUME Inv, Inv', NEW i \in DOMAIN invoice, invoice[i].status = "IN_PROCESS",
         invoice' = WithStatus(i, "SUBMITTED"), UNCHANGED received,
         \E b \in received : b.invoice = i
  PROVE  Contract!Submit(i)
<1>1. /\ StatusOf(invoice') = [StatusOf(invoice) EXCEPT ![i] = "SUBMITTED"]
      /\ DOMAIN invoice' = DOMAIN invoice
  <2> DEFINE new == WithStatus(i, "SUBMITTED")
  <2>1. "SUBMITTED" \in InvoiceStatuses  BY DEF InvoiceStatuses
  <2>2. /\ StatusOf(new) = [StatusOf(invoice) EXCEPT ![i] = "SUBMITTED"]
        /\ DOMAIN new = DOMAIN invoice
    BY <2>1, StatusOfWithStatus
  <2>3. invoice' = new  OBVIOUS
  <2> HIDE DEF new
  <2> QED  BY <2>2, <2>3
<1>2. Contract!Covered(BoundOf(item'))  BY <1>1, CoveredBound
<1>3. StatusOf(invoice)[i] = "IN_PROCESS"  BY DEF StatusOf
<1>4. {b \in received : b.invoice = i} # {}  OBVIOUS
<1> QED
  BY <1>1, <1>2, <1>3, <1>4 DEF Contract!Submit, Contract!BillsOf, StatusOf, BoundOf

(* The status of the invoice of r is not final, and the line items stay.   *)
LEMMA SettleStep ==
  ASSUME Inv, NEW i \in DOMAIN invoice, NEW status \in InvoiceStatuses,
         invoice' = WithStatus(i, status), UNCHANGED <<item, received>>
  PROVE  /\ StatusOf(invoice') = [StatusOf(invoice) EXCEPT ![i] = status]
         /\ StatusOf(invoice)[i] = invoice[i].status
         /\ DOMAIN invoice' = DOMAIN invoice
<1> DEFINE new == WithStatus(i, status)
<1>1. /\ StatusOf(new) = [StatusOf(invoice) EXCEPT ![i] = status]
      /\ DOMAIN new = DOMAIN invoice
  BY StatusOfWithStatus
<1>2. invoice' = new  OBVIOUS
<1> HIDE DEF new
<1> QED  BY <1>1, <1>2 DEF StatusOf

LEMMA FailStep ==
  ASSUME Inv, NEW r \in Requests, UpdateInvoiceFailed(r)
  PROVE  \E i \in DOMAIN invoice : Contract!FailSubmission(i) \/ Contract!FailUpdate(i)
<1>1. req[r].at \in {"refused", "not updated"} /\ UNCHANGED <<item, received>>
  BY DEF UpdateInvoiceFailed, FailureOf
<1>2. req[r].at \in InHand  BY <1>1 DEF InHand
<1>0. PICK i \in DOMAIN invoice : i = req[r].invoice  BY <1>2, InvoiceInHand
<1>3. /\ i \in DOMAIN invoice /\ invoice[i].status = "IN_PROCESS"
      /\ req[r].at = "not updated" => \E b \in received : b.invoice = i
  BY <1>1, <1>2, <1>0, InvoiceInHand DEF KeepsInvoice, InHand
<1>4. CASE req[r].at = "refused"
  <2>1. invoice' = WithStatus(i, "SUBMISSION_FAILURE")
    BY <1>4, <1>0 DEF UpdateInvoiceFailed, FailureOf
  <2>2. "SUBMISSION_FAILURE" \in InvoiceStatuses  BY DEF InvoiceStatuses
  <2>3. /\ StatusOf(invoice') = [StatusOf(invoice) EXCEPT ![i] = "SUBMISSION_FAILURE"]
        /\ StatusOf(invoice)[i] = "IN_PROCESS"
    BY <1>1, <1>3, <2>1, <2>2, SettleStep
  <2>4. Contract!FailSubmission(i)
    BY <1>1, <2>3 DEF Contract!FailSubmission, StatusOf
  <2> QED  BY <1>3, <2>4
<1>5. CASE req[r].at = "not updated"
  <2>1. invoice' = WithStatus(i, "UPDATE_FAILURE")
    BY <1>5, <1>0 DEF UpdateInvoiceFailed, FailureOf
  <2>2. "UPDATE_FAILURE" \in InvoiceStatuses  BY DEF InvoiceStatuses
  <2>3. /\ StatusOf(invoice') = [StatusOf(invoice) EXCEPT ![i] = "UPDATE_FAILURE"]
        /\ StatusOf(invoice)[i] = "IN_PROCESS"
    BY <1>1, <1>3, <2>1, <2>2, SettleStep
  <2>4. {b \in received : b.invoice = i} # {}  BY <1>3, <1>5
  <2>5. Contract!FailUpdate(i)
    BY <1>1, <2>3, <2>4 DEF Contract!FailUpdate, Contract!BillsOf, StatusOf
  <2> QED  BY <1>3, <2>5
<1> QED  BY <1>1, <1>4, <1>5

(* StoreInvoice858C finds its invoice SUBMITTED, or submits it when the    *)
(* COMMIT of the update had failed.                                        *)
LEMMA StoreStep ==
  ASSUME Inv, Inv', NEW r \in Requests, StoreInvoice(r)
  PROVE  (\E i \in DOMAIN invoice : Contract!Submit(i)) \/ Contract!Rewrite
<1>1. /\ req[r].at = "storing" /\ UNCHANGED <<item, received>>
      /\ invoice' = WithStatus(req[r].invoice, "SUBMITTED")
  BY DEF StoreInvoice
<1>2. req[r].at \in InHand  BY <1>1 DEF InHand
<1>0. PICK i \in DOMAIN invoice : i = req[r].invoice  BY <1>2, InvoiceInHand
<1>3. /\ i \in DOMAIN invoice /\ invoice[i].status \in {"IN_PROCESS", "SUBMITTED"}
      /\ invoice' = WithStatus(i, "SUBMITTED")
      /\ \E b \in received : b.invoice = i
  BY <1>1, <1>2, <1>0, InvoiceInHand DEF KeepsInvoice, InHand
<1>4. CASE invoice[i].status = "IN_PROCESS"  BY <1>1, <1>3, <1>4, SubmitStep
<1>5. CASE invoice[i].status = "SUBMITTED"
  <2>1. "SUBMITTED" \in InvoiceStatuses  BY DEF InvoiceStatuses
  <2>2. /\ StatusOf(invoice') = [StatusOf(invoice) EXCEPT ![i] = "SUBMITTED"]
        /\ StatusOf(invoice)[i] = "SUBMITTED" /\ DOMAIN invoice' = DOMAIN invoice
    BY <1>1, <1>3, <1>5, <2>1, SettleStep
  <2>3. StatusOf(invoice') = StatusOf(invoice)  BY <1>3, <2>2 DEF StatusOf
  <2>4. Contract!Covered(BoundOf(item'))  BY <1>1, <2>2, CoveredBound
  <2> QED  BY <1>1, <2>3, <2>4 DEF Contract!Rewrite, StatusOf, BoundOf
<1> QED  BY <1>3, <1>4, <1>5

LEMMA ContractStep ==
  ASSUME Inv, Inv', [Next]_vars
  PROVE  [Contract!ContractNext]_(Contract!contractVars)
<1> DEFINE Settled == \E i \in DOMAIN invoice :
                        \/ Contract!Receive(i) \/ Contract!Submit(i)
                        \/ Contract!FailSubmission(i) \/ Contract!FailUpdate(i)
           Apart == UNCHANGED <<invoice, received>>
<1>1. Apart => Contract!Rewrite  BY RewriteStep
<1>2. CASE UNCHANGED vars \/ CreateShipmentLineItem
  <2>1. Apart  BY <1>2 DEF vars, tables, CreateShipmentLineItem
  <2> QED  BY <1>1, <2>1 DEF Contract!ContractNext
<1>3. ASSUME NEW r \in Requests, LineItemStep(r) \/ PricingStep(r) \/ Fail(r)
      PROVE  Apart
  <2>1. CASE Fail(r)  BY <2>1 DEF Fail, tables
  <2>2. CASE LineItemStep(r)
    BY <2>2 DEF LineItemStep, ApproveShipmentLineItem, UpdateShipmentLineItem,
       DeleteShipmentLineItem, SaveUpdate, SaveLineItem, DestroyLineItem, tables
  <2>3. CASE PricingStep(r)
    BY <2>3 DEF PricingStep, DeliverShipment, CommitDelivery, FetchLineItemsByShipmentID,
       ProcessRecalculateShipment, DeleteBaseShipmentLineItems,
       DeleteStorageInTransitLineItems, CreateStorageInTransitLineItems,
       PriceAdditionalRequests, SaveShipmentAndPricingInfo, tables
  <2> QED  BY <1>3, <2>1, <2>2, <2>3
<1>4. ASSUME NEW r \in Requests, InvoiceStep(r)
      PROVE  Apart \/ Contract!Open \/ Settled \/ Contract!Rewrite
  <2>1. CASE FetchShipmentForInvoice(r) \/ CreateInvoiceNumber(r)
    BY <2>1 DEF FetchShipmentForInvoice, CreateInvoiceNumber, tables
  <2>2. CASE NotSent(r) \/ UpdateRolledBack(r)
    BY <2>2 DEF NotSent, UpdateRolledBack, tables
  <2>3. CASE CreateInvoice(r)  BY <2>3, OpenStep
  <2>4. CASE GexAccepts(r)
    BY <2>4, ReceiveStep DEF GexAccepts, Sends, tables
  <2>5. CASE AnswerLost(r)
    BY <2>5, ReceiveStep DEF AnswerLost, Sends, tables
  <2>6. CASE UpdateInvoiceSubmitted(r)
    <3>1. /\ req[r].at = "accepted" /\ invoice' = WithStatus(req[r].invoice, "SUBMITTED")
          /\ UNCHANGED received
      BY <2>6 DEF UpdateInvoiceSubmitted
    <3>2. req[r].at \in InHand  BY <3>1 DEF InHand
    <3>0. PICK i \in DOMAIN invoice : i = req[r].invoice  BY <3>2, InvoiceInHand
    <3>3. /\ i \in DOMAIN invoice /\ invoice[i].status = "IN_PROCESS"
          /\ [invoice |-> i, items |-> DOMAIN req[r].rows] \in received
          /\ invoice' = WithStatus(i, "SUBMITTED")
      BY <3>1, <3>2, <3>0, InvoiceInHand DEF KeepsInvoice, InHand
    <3>4. \E b \in received : b.invoice = i
      <4> DEFINE b == [invoice |-> i, items |-> DOMAIN req[r].rows]
      <4>1. b \in received /\ b.invoice = i  BY <3>3
      <4> QED  BY <4>1
    <3>5. Contract!Submit(i)  BY <3>1, <3>3, <3>4, SubmitStep
    <3> QED  BY <3>3, <3>5
  <2>7. CASE UpdateInvoiceFailed(r)  BY <2>7, FailStep
  <2>8. CASE StoreInvoice(r)  BY <2>8, StoreStep
  <2> QED
    BY <1>4, <2>1, <2>2, <2>3, <2>4, <2>5, <2>6, <2>7, <2>8 DEF InvoiceStep
<1>5. Settled => \E i \in DOMAIN StatusOf(invoice) :
                   \/ Contract!Receive(i) \/ Contract!Submit(i)
                   \/ Contract!FailSubmission(i) \/ Contract!FailUpdate(i)
  BY DEF StatusOf
<1>6. (Contract!Rewrite \/ Contract!Open \/ Settled) => Contract!ContractNext
  BY <1>5 DEF Contract!ContractNext, StatusOf
<1> HIDE DEF Settled, Apart
<1> QED  BY <1>1, <1>2, <1>3, <1>4, <1>6 DEF Next

(* ShipmentInvoiceHandler, the handlers of line items and recalculation,   *)
(* however they overlap and fail, keep the contract of the invoices: each  *)
(* is settled once, SUBMITTED only after GEX has its bill, and a line item *)
(* is bound only to what was billed for it.                                *)
THEOREM BillingKeepsTheInvoices == Spec => KeepsTheInvoices
<1>1. Init => Contract!ContractInit  BY ContractStart
<1>2. Inv /\ Inv' /\ [Next]_vars => [Contract!ContractNext]_(Contract!contractVars)
  BY ContractStep
<1> QED
  BY <1>1, <1>2, Invariance, PTL DEF Spec, KeepsTheInvoices, Contract!ContractSpec
=============================================================================
