----------------------------- MODULE MCEnvelope -----------------------------
(***************************************************************************)
(* Instances of Envelope: two signers and one or two workers.              *)
(***************************************************************************)
EXTENDS Envelope, TLC

CONSTANTS s1, s2, w1, w2

TwoSigners == {s1, s2}
OneWorker == {w1}
TwoWorkers == {w1, w2}

FirstThenSecond == s1 :> 1 @@ s2 :> 2

Symmetry == Permutations(TwoWorkers)
=============================================================================
