------------------------- MODULE MCShipmentLifecycle -------------------------
(***************************************************************************)
(* Two TSPs, one of them possibly with an administrative offer, and up to  *)
(* three requests in progress.  Requests and TSPs are interchangeable.     *)
(* Half of the behaviours, those with "serial", have the requests come one *)
(* after the other.                                                        *)
(***************************************************************************)
EXTENDS ShipmentLifecycle, TLC

VARIABLE serial     \* whether a request begins only when no other is in progress

MCInit == Init /\ serial \in BOOLEAN

OneAtATime == \A q, r \in Requests : q = r \/ req[q] = Idle \/ req[r] = Idle

MCNext == Next /\ UNCHANGED serial /\ (serial => OneAtATime')

MCSpec == MCInit /\ [][MCNext]_<<vars, serial>>

(* With one request at a time the handlers keep the contract: the status   *)
(* moves along the "State Machinery" of pkg/models/shipment.go, and each   *)
(* transition brings its GBL number, TSP and line items with it.           *)
KeepsTheContract ==
  /\ serial => Contract!ContractInit
  /\ [][serial => [Contract!ContractNext]_(Contract!contractVars)]_<<vars, serial>>

Symmetry == Permutations(Requests) \union Permutations(TSPs)
=============================================================================
