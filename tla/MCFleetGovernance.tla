------------------------- MODULE MCFleetGovernance -------------------------
(* Instances of FleetGovernance for TLC: every promotion is of one key, so *)
(* that any two conflict, and has a value of its own.                      *)
EXTENDS FleetGovernance, TLC

CONSTANTS f1, f2, f3, k1, v1, v2, v3

Value(v, keystone) == [key |-> k1, value |-> v, keystone |-> keystone]
MCClaim == {Value(v, keystone) : v \in {v1, v2, v3}, keystone \in BOOLEAN}

(* Three promotions of one key; the second may be proposed as a keystone. *)
MCClaims ==
  f1 :> {Value(v1, FALSE)}
    @@ f2 :> {Value(v2, FALSE), Value(v2, TRUE)}
    @@ f3 :> {Value(v3, FALSE)}
=============================================================================
