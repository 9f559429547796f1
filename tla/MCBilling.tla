------------------------------ MODULE MCBilling ------------------------------
(* Small instances of billing for TLC.  No rule tells one base line item   *)
(* from another, nor one storage in transit from another.                  *)
EXTENDS Billing, TLC

Symmetry == {f @@ g : f \in Permutations(Requests), g \in Permutations(BaseCodes)}
=============================================================================
