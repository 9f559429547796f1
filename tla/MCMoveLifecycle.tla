--------------------------- MODULE MCMoveLifecycle ---------------------------
(* Behaviours in which requests overlap and, when serial, those in which   *)
(* each request ends before another begins.                                *)
EXTENDS MoveLifecycle, TLC

CONSTANTS
  MaxBegun,     \* bound on the requests of a behaviour
  MaxAdvanced   \* bound on the PPMs with an advance, where requests overlap

VARIABLES serial, begun

Busy == {r \in Requests : req[r] # Idle}
OneAtATime == \A q, r \in Busy : q = r

UnboundedInit == Init /\ serial \in BOOLEAN

UnboundedNext ==
  /\ Next
  /\ UNCHANGED serial
  /\ serial => OneAtATime' /\ (Busy = {} \/ req' # req)

UnboundedSpec == UnboundedInit /\ [][UnboundedNext]_<<vars, serial>>

MCInit == UnboundedInit /\ begun = 0

MCNext ==
  /\ UnboundedNext
  /\ begun' = begun + Cardinality(Busy' \ Busy)
  /\ begun' <= MaxBegun
  /\ serial \/ Cardinality({p \in DOMAIN ppm' : ppm'[p].advance # None}) <= MaxAdvanced

MCSpec == MCInit /\ [][MCNext]_<<vars, serial, begun>>

Symmetry ==
  Permutations(Requests) \union Permutations(Advances) \union Permutations(Ppms)

(* The state the contract sees; the first one unless the behaviour is      *)
(* serial.  An advance that is referred to and not there is lost.          *)
AdvanceOf(row) ==
  IF row.advance = None THEN None
  ELSE IF HasAdvance(row) THEN advance[row.advance] ELSE "lost"

Contract == INSTANCE MoveContract WITH
  Absent <- None,
  move <- IF serial THEN move ELSE "DRAFT",
  orders <- IF serial THEN orders ELSE "DRAFT",
  ppm <- [p \in Ppms |-> IF serial /\ p \in DOMAIN ppm THEN ppm[p].status ELSE None],
  advance <- [p \in Ppms |-> IF serial /\ p \in DOMAIN ppm THEN AdvanceOf(ppm[p]) ELSE None]

(* Requests that do not overlap keep the contract of the move.             *)
KeepsTheMove == Contract!ContractSpec
=============================================================================
