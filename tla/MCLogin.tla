------------------------------ MODULE MCLogin -------------------------------
(***************************************************************************)
(* Small instances of Login for TLC: the first user may have two sessions, *)
(* the third one none.                                                     *)
(***************************************************************************)
EXTENDS Login, TLC

CONSTANTS alice, bob, carol, s1, s2, s3

MCUsers == {alice, bob, carol}
MCForeign == {carol}
MCTokens == {s1, s2, s3}
MCOwner == (s1 :> alice) @@ (s2 :> alice) @@ (s3 :> bob)
MCSymmetry == Permutations(Replicas) \cup Permutations(Browsers) \cup Permutations(States)
=============================================================================
