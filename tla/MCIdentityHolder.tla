-------------------------- MODULE MCIdentityHolder --------------------------
(* The keys are interchangeable.                                           *)
EXTENDS IdentityHolder, TLC

Symmetry == Permutations(Key)
=============================================================================
