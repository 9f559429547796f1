--------------------------- MODULE InvoiceContract ---------------------------
(***************************************************************************)
(* What the billing of a shipment promises about its invoices.  An invoice *)
(* is settled once, as SUBMITTED only when GEX has its bill, and a line    *)
(* item is bound to an invoice only if that invoice is SUBMITTED and its   *)
(* bill lists the item.  Nothing is promised about how many invoices there *)
(* are, nor that an item stays bound.                                      *)
(***************************************************************************)
EXTENDS Integers, Sequences

VARIABLES
  status,     \* the statuses of the invoices, in the order of their creation
  received,   \* the bills GEX has: an invoice and the line items listed
  bound       \* pairs of a line item and the invoice it is bound to

contractVars == <<status, received, bound>>

BillsOf(i) == {b \in received : b.invoice = i}

(* Every pair is covered by a bill that was submitted.                     *)
Covered(pairs) ==
  \A pair \in pairs :
    /\ pair[2] \in DOMAIN status
    /\ status'[pair[2]] = "SUBMITTED"
    /\ \E b \in BillsOf(pair[2]) : pair[1] \in b.items

ContractInit == status = <<>> /\ received = {} /\ bound = {}

Open ==
  /\ status' = Append(status, "IN_PROCESS")
  /\ UNCHANGED <<received, bound>>

Receive(i) ==
  /\ status[i] = "IN_PROCESS"
  /\ BillsOf(i) = {}
  /\ \E b \in received' : b.invoice = i /\ received' = received \union {b}
  /\ UNCHANGED <<status, bound>>

Submit(i) ==
  /\ status[i] = "IN_PROCESS"
  /\ BillsOf(i) # {}
  /\ status' = [status EXCEPT ![i] = "SUBMITTED"]
  /\ Covered(bound')
  /\ UNCHANGED received

(* GEX may have the bill all the same, when its answer was lost.           *)
FailSubmission(i) ==
  /\ status[i] = "IN_PROCESS"
  /\ status' = [status EXCEPT ![i] = "SUBMISSION_FAILURE"]
  /\ UNCHANGED <<received, bound>>

FailUpdate(i) ==
  /\ status[i] = "IN_PROCESS"
  /\ BillsOf(i) # {}
  /\ status' = [status EXCEPT ![i] = "UPDATE_FAILURE"]
  /\ UNCHANGED <<received, bound>>

(* Line items are deleted, or written back as they were read.              *)
Rewrite ==
  /\ Covered(bound')
  /\ UNCHANGED <<status, received>>

ContractNext ==
  \/ Open
  \/ Rewrite
  \/ \E i \in DOMAIN status : Receive(i) \/ Submit(i) \/ FailSubmission(i) \/ FailUpdate(i)

ContractSpec == ContractInit /\ [][ContractNext]_contractVars
=============================================================================
