------------------------------ MODULE MCSignIn ------------------------------
(* Values for model-checking SignIn.                                       *)
EXTENDS SignIn, TLC

CONSTANTS p1, l1, l2, l3

MCSymmetry == Permutations(Logins)
=============================================================================
