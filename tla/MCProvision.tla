---------------------------- MODULE MCProvision ----------------------------
(* Small instances of Provision. *)
EXTENDS Provision, TLC

CONSTANTS k1, k2, k3, d1, d2

(* Keys and devices are interchangeable. *)
Symmetric == Permutations({k1, k2, k3}) \cup Permutations({d1, d2})
=============================================================================
