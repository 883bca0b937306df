----------------------------- MODULE MCWebhooks -----------------------------
(***************************************************************************)
(* An instance of Webhooks: one subscription to one of two events.         *)
(***************************************************************************)
EXTENDS Webhooks, TLC

CONSTANTS h1, sent, completed

OneHook == {h1}
TwoEvents == {sent, completed}

One == h1 :> {completed}
=============================================================================
