---------------------------- MODULE MCThrottling ----------------------------
(***************************************************************************)
(* A small instance of Throttling for TLC: one client and one link.        *)
(***************************************************************************)
EXTENDS Throttling, TLC

CONSTANTS request, confirm

MCKeys == {request, confirm}
MCLimit == (request :> 1) @@ (confirm :> 2)
MCSymmetry == Permutations(Replicas) \cup Permutations(Codes)
=============================================================================
