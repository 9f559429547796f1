----------------------------- MODULE MoveContract -----------------------------
(***************************************************************************)
(* What a move promises about itself, its orders, its personally procured  *)
(* moves (PPMs) and their advances when requests do not overlap.  The      *)
(* submission of the move submits all of its PPMs and requests their       *)
(* advances; its cancellation cancels all of its PPMs and its orders, or   *)
(* nothing when one of them is completed or canceled.                      *)
(***************************************************************************)
CONSTANTS Ppms, Absent

VARIABLES
  move,     \* the status of the move
  orders,   \* the status of its orders
  ppm,      \* Ppms -> the status, Absent for no row
  advance   \* Ppms -> the status of the advance of the PPM

contractVars == <<move, orders, ppm, advance>>

ContractInit ==
  /\ move = "DRAFT"
  /\ orders = "DRAFT"
  /\ ppm = [p \in Ppms |-> Absent]
  /\ advance = [p \in Ppms |-> Absent]

Existing == {p \in Ppms : ppm[p] # Absent}
Becomes(p, status) == ppm' = [ppm EXCEPT ![p] = status]

(* Every PPM there is gets the status, every advance in one status the     *)
(* other.                                                                  *)
AllBecome(status, from, to) ==
  /\ ppm' = [p \in Ppms |-> IF p \in Existing THEN status ELSE Absent]
  /\ advance' = [p \in Ppms |-> IF advance[p] = from THEN to ELSE advance[p]]

SubmitMove ==
  /\ move = "DRAFT"
  /\ \A p \in Existing : ppm[p] = "DRAFT" /\ advance[p] \in {"DRAFT", Absent}
  /\ move' = "SUBMITTED"
  /\ AllBecome("SUBMITTED", "DRAFT", "REQUESTED")
  /\ UNCHANGED orders

ApproveMove == move = "SUBMITTED" /\ move' = "APPROVED" /\ UNCHANGED <<orders, ppm, advance>>

CancelMove ==
  /\ move # "CANCELED"
  /\ orders # "CANCELED"
  /\ \A p \in Existing : ppm[p] \notin {"COMPLETED", "CANCELED"}
  /\ move' = "CANCELED"
  /\ orders' = "CANCELED"
  /\ AllBecome("CANCELED", Absent, Absent)

(* An advance is at first as far as its PPM is.                            *)
Create(p) ==
  /\ ppm[p] = Absent
  /\ Becomes(p, "DRAFT")
  /\ \E status \in {"DRAFT", Absent} : advance' = [advance EXCEPT ![p] = status]
  /\ UNCHANGED <<move, orders>>

After ==
  [status \in {"DRAFT", "SUBMITTED", "APPROVED", "PAYMENT_REQUESTED"} |->
     CASE status = "DRAFT" -> {"SUBMITTED", "APPROVED"}
       [] status = "SUBMITTED" -> {"APPROVED"}
       [] status = "APPROVED" -> {"PAYMENT_REQUESTED"}
       [] status = "PAYMENT_REQUESTED" -> {"COMPLETED"}]

Proceed(p) ==
  /\ ppm[p] \in DOMAIN After
  /\ \E status \in After[ppm[p]] : Becomes(p, status)
  /\ UNCHANGED <<move, orders, advance>>

ChangeAdvance(p) ==
  /\ p \in Existing
  /\ \E status \in {"DRAFT", "REQUESTED", "APPROVED", Absent} :
       /\ status = "DRAFT" => advance[p] = Absent /\ ppm[p] = "DRAFT"
       /\ status = "REQUESTED" => advance[p] = Absent /\ ppm[p] # "DRAFT"
       /\ status = "APPROVED" => advance[p] = "REQUESTED"
       /\ advance' = [advance EXCEPT ![p] = status]
  /\ UNCHANGED <<move, orders, ppm>>

ContractNext ==
  \/ SubmitMove \/ ApproveMove \/ CancelMove
  \/ \E p \in Ppms : Create(p) \/ Proceed(p) \/ ChangeAdvance(p)

ContractSpec == ContractInit /\ [][ContractNext]_contractVars
=============================================================================
