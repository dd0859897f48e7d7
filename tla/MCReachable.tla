---------------------------- MODULE MCReachable ----------------------------
(* Every set of live hosts among four candidates, two of them wanted. *)
EXTENDS Reachable
=============================================================================
