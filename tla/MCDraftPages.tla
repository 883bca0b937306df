---------------------------- MODULE MCDraftPages ----------------------------
(***************************************************************************)
(* An instance of DraftPages: one author, whose requests come one after    *)
(* the other.                                                              *)
(***************************************************************************)
EXTENDS DraftPages

CONSTANT w1

OneWorker == {w1}
=============================================================================
