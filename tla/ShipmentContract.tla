-------------------------- MODULE ShipmentContract --------------------------
(***************************************************************************)
(* What the handlers promise about one shipment when each of them is seen  *)
(* as a single step: the "State Machinery" of pkg/models/shipment.go, with *)
(* the two things that come with a transition, the TSP that accepted the   *)
(* shipment and its base line items.                                       *)
(***************************************************************************)
EXTENDS Naturals

CONSTANTS TSPs, NoTSP

VARIABLES
  status,     \* shipments.status
  gblNumber,  \* shipments.gbl_number, 0 for NULL
  carrier,    \* the TSP whose offer is accepted, NoTSP before
  priced      \* whether the base line items exist

contractVars == <<status, gblNumber, carrier, priced>>

ContractInit ==
  /\ status = "DRAFT"
  /\ gblNumber = 0
  /\ carrier = NoTSP
  /\ priced = FALSE

Submit ==
  /\ status = "DRAFT" /\ status' = "SUBMITTED"
  /\ gblNumber = 0 /\ gblNumber' \in Nat \ {0}
  /\ UNCHANGED <<carrier, priced>>

Accept ==
  /\ status = "AWARDED" /\ status' = "ACCEPTED"
  /\ carrier = NoTSP /\ carrier' \in TSPs
  /\ UNCHANGED <<gblNumber, priced>>

Deliver ==
  /\ status = "IN_TRANSIT" /\ status' = "DELIVERED"
  /\ ~ priced /\ priced'
  /\ UNCHANGED <<gblNumber, carrier>>

(* The transitions that change nothing but the status.                     *)
Advance ==
  /\ <<status, status'>> \in {<<"SUBMITTED", "AWARDED">>,
                              <<"ACCEPTED", "APPROVED">>,
                              <<"APPROVED", "IN_TRANSIT">>}
  /\ UNCHANGED <<gblNumber, carrier, priced>>

(* A recalculation deletes the base line items of a delivered shipment, or *)
(* creates them again.                                                     *)
Reprice ==
  /\ status = "DELIVERED"
  /\ priced' = ~ priced
  /\ UNCHANGED <<status, gblNumber, carrier>>

ContractNext == Submit \/ Advance \/ Accept \/ Deliver \/ Reprice

ContractSpec == ContractInit /\ [][ContractNext]_contractVars
=============================================================================
