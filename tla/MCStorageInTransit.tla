-------------------------- MODULE MCStorageInTransit --------------------------
(* Behaviours in which requests overlap and, when serial, those in which   *)
(* each request ends before another begins; for TLC, with two SITs on one  *)
(* day or with one SIT on any day.                                         *)
EXTENDS StorageInTransit, TLC

CONSTANT MaxBegun   \* bound on the requests of a behaviour

VARIABLES serial, oneDay, begun

Busy == {r \in Requests : req[r] # Idle}
OneAtATime == \A q, r \in Busy : q = r
FirstDay == CHOOSE d \in Days : \A e \in Days : d <= e

UnboundedInit == Init /\ serial \in BOOLEAN
UnboundedNext == Next /\ UNCHANGED serial /\ (serial => OneAtATime')
UnboundedSpec == UnboundedInit /\ [][UnboundedNext]_<<vars, serial>>

Bounded ==
  /\ begun <= MaxBegun
  /\ oneDay =>
       \A r \in Requests : \A s \in DOMAIN Copies(r) :
         {Copies(r)[s].authorized, Copies(r)[s].start} \subseteq {FirstDay, None}
  /\ oneDay \/ Cardinality(DOMAIN row \union gone) <= 1

MCInit == UnboundedInit /\ oneDay \in BOOLEAN /\ begun = 0

MCNext ==
  /\ UnboundedNext
  /\ begun' = begun + Cardinality(Busy' \ Busy)
  /\ UNCHANGED oneDay
  /\ Bounded'

MCSpec == MCInit /\ [][MCNext]_<<vars, serial, oneDay, begun>>

Symmetry == Permutations(Requests) \union Permutations(Sits)

(* The contract sees the rows, and none unless the behaviour is serial.    *)
Seen(s) == serial /\ s \in DOMAIN row

Contract == INSTANCE StorageContract WITH
  Absent <- None,
  status <- [s \in Sits |-> IF Seen(s) THEN row[s].status ELSE None],
  location <- [s \in Sits |-> IF Seen(s) THEN row[s].location ELSE "ORIGIN"],
  number <- [s \in Sits |-> IF Seen(s) THEN row[s].number ELSE None],
  delivered <- serial /\ shipment = "DELIVERED"

(* Requests that do not overlap keep the contract of the storages.         *)
KeepsTheStorages == Contract!ContractSpec
=============================================================================
