----------------------------- MODULE MCAccounts -----------------------------
(* Two people after one code; one of them is of an office too, the other   *)
(* is an administrator.                                                    *)
EXTENDS Accounts, TLC

CONSTANTS ann, bob

MCPeople == {ann, bob}
MCVisits == {<<ann, "mil">>, <<bob, "mil">>, <<bob, "admin">>}

Symmetry == Permutations(Tabs)
=============================================================================
