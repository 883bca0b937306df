---------------------------- MODULE MCAccessLock ----------------------------
(***************************************************************************)
(* An instance of AccessLock: two clients, two requests at a time.         *)
(***************************************************************************)
EXTENDS AccessLock, TLC

CONSTANTS a1, a2, w1, w2

TwoAddresses == {a1, a2}
TwoWorkers == {w1, w2}
=============================================================================
