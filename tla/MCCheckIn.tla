----------------------------- MODULE MCCheckIn -----------------------------
(* Instances of CheckIn for TLC.                                           *)
EXTENDS CheckIn, TLC

CONSTANTS m1, m2, n1, n2, b1, b2

Symmetry == Permutations({m1, m2}) \union Permutations({n1, n2})
              \union Permutations({b1, b2})
=============================================================================
