------------------------------ MODULE MCAutoClaim ------------------------------
(* Instances of AutoClaim for TLC.                                          *)
EXTENDS AutoClaimProperties, TLC

Symmetry == Permutations(Channel)
=============================================================================
