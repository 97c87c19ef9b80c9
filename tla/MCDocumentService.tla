------------------------- MODULE MCDocumentService -------------------------
(***************************************************************************)
(* Small instances of DocumentService for TLC: one document between a      *)
(* customer and a contractor.                                              *)
(***************************************************************************)
EXTENDS DocumentService, TLC

CONSTANTS customer, contractor

MCUsers == {customer, contractor}
MCCustomer == [d \in Docs |-> customer]
MCContractor == [d \in Docs |-> contractor]
MCLinkDoc == [t \in Tokens |-> CHOOSE d \in Docs : TRUE]
MCNoLinks == {}
MCContentSymmetry == Permutations(Contents)
MCSymmetry == Permutations(Replicas) \cup Permutations(Contents)

============================================================================
