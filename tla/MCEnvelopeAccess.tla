-------------------------- MODULE MCEnvelopeAccess --------------------------
(***************************************************************************)
(* An instance of EnvelopeAccess: two envelopes, two requests at a time.   *)
(***************************************************************************)
EXTENDS EnvelopeAccess, TLC

CONSTANTS e1, e2, w1, w2

TwoEnvelopes == {e1, e2}
TwoWorkers == {w1, w2}
Symmetry == Permutations(TwoEnvelopes) \cup Permutations(TwoWorkers)
=============================================================================
