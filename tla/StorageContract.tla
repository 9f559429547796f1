--------------------------- MODULE StorageContract ---------------------------
(***************************************************************************)
(* What the storages in transit of one shipment promise when requests do   *)
(* not overlap.  The office authorizes or denies a storage for as long as  *)
(* it is not delivered, even one the shipment is stored in already.  An    *)
(* authorized storage is entered once under a number never given before.   *)
(* The delivery of the shipment ends every storage at the destination the  *)
(* shipment is in, and nothing but an undoing release follows.             *)
(***************************************************************************)
EXTENDS Naturals

CONSTANTS Sits, Absent

VARIABLES
  status,     \* Sits -> the status, Absent for no row
  location,   \* Sits -> ORIGIN or DESTINATION
  number,     \* Sits -> the SIT number
  delivered   \* whether the shipment is delivered

contractVars == <<status, location, number, delivered>>

ContractInit ==
  /\ status = [s \in Sits |-> Absent]
  /\ location \in [Sits -> {"ORIGIN", "DESTINATION"}]
  /\ number \in [Sits -> {Absent}]
  /\ ~ delivered

Becomes(s, new) == status' = [status EXCEPT ![s] = new]

Request(s) ==
  /\ status[s] = Absent
  /\ Becomes(s, "REQUESTED")
  /\ \A t \in Sits \ {s} : location'[t] = location[t]
  /\ UNCHANGED <<number, delivered>>

Decide(s) ==
  /\ status[s] \notin {Absent, "DELIVERED"}
  /\ Becomes(s, "APPROVED") \/ Becomes(s, "DENIED")
  /\ UNCHANGED <<location, number, delivered>>

Place(s) ==
  /\ status[s] = "APPROVED"
  /\ Becomes(s, "IN_SIT")
  /\ \A t \in Sits : number[t] # number'[s]
  /\ \A t \in Sits \ {s} : number'[t] = number[t]
  /\ UNCHANGED <<location, delivered>>

Release(s) ==
  /\ status[s] \in {"IN_SIT", "DELIVERED"}
  /\ location[s] = "ORIGIN"
  /\ Becomes(s, "RELEASED")
  /\ UNCHANGED <<location, number, delivered>>

Move(s) ==
  /\ status[s] # Absent
  /\ \A t \in Sits \ {s} : location'[t] = location[t]
  /\ UNCHANGED <<status, number, delivered>>

Remove(s) ==
  /\ status[s] # Absent
  /\ Becomes(s, Absent)
  /\ \A t \in Sits \ {s} : location'[t] = location[t] /\ number'[t] = number[t]
  /\ UNCHANGED delivered

Deliver ==
  /\ ~ delivered
  /\ delivered'
  /\ status' = [s \in Sits |-> IF status[s] = "IN_SIT" /\ location[s] = "DESTINATION"
                               THEN "DELIVERED" ELSE status[s]]
  /\ UNCHANGED <<location, number>>

ContractNext ==
  \/ Deliver
  \/ \E s \in Sits : Request(s) \/ Decide(s) \/ Place(s) \/ Release(s) \/ Move(s) \/ Remove(s)

ContractSpec == ContractInit /\ [][ContractNext]_contractVars
=============================================================================
