---------------------------- MODULE MCAuditTrail ----------------------------
(***************************************************************************)
(* Small instances of AuditTrail for TLC.                                  *)
(***************************************************************************)
EXTENDS AuditTrail, TLC

MCSymmetry == Permutations(Replicas) \cup Permutations(Docs)
=============================================================================
