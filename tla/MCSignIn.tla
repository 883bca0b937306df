------------------------------ MODULE MCSignIn ------------------------------
(***************************************************************************)
(* Instances of SignIn: one address, two requests at a time.               *)
(***************************************************************************)
EXTENDS SignIn, TLC

CONSTANTS w1, w2, l1

TwoWorkers == {w1, w2}
OneLink == {l1}
Symmetry == Permutations(TwoWorkers)
=============================================================================
