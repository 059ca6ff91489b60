----------------------------- MODULE MCLinkSession -----------------------------
(***************************************************************************)
(* Constants for model checking LinkSession: a device and an edge with one *)
(* route, two generations of its credential, and a device whose clock is   *)
(* ahead.                                                                  *)
(***************************************************************************)
EXTENDS LinkSession, TLC

CONSTANTS device, edge, r1, k1, k2, s1, s2, l1, l2, x1, x2, f1, f2, n1, n2, n3

MCAhead == device :> 1 @@ edge :> 0

Symmetry ==
  Permutations({k1, k2}) \cup Permutations({s1, s2}) \cup Permutations({l1, l2})
    \cup Permutations({x1, x2}) \cup Permutations({f1, f2})

NonceSymmetry ==
  Permutations({k1, k2}) \cup Permutations({s1, s2}) \cup Permutations({l1, l2})
    \cup Permutations({n1, n2, n3})
=============================================================================
