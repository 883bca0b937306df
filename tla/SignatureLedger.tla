--------------------------- MODULE SignatureLedger ---------------------------
(***************************************************************************)
(* What the signing lifecycle promises about one envelope however its      *)
(* handlers interleave: signatures are only ever added, each in its turn;  *)
(* the envelope is claimed for sealing and completed only with all of      *)
(* them, and the executed copy bears all of them.  The ways out of the     *)
(* lifecycle are the ones the handlers of sign/esign.py leave open.        *)
(***************************************************************************)
EXTENDS Naturals

CONSTANTS Signers, Order, Sequential

VARIABLES
  status,   \* agreements.status
  signed,   \* signers with a recorded signature
  copy      \* signers whose signature the executed copy bears

ledger == <<status, signed, copy>>

Init ==
  /\ status = "draft"
  /\ signed = {}
  /\ copy = {}

\* send().  A void() that slips in before its commit is overwritten.
Dispatch ==
  /\ status \in {"draft", "voided"}
  /\ status' = "out_for_signature"
  /\ UNCHANGED <<signed, copy>>

\* submit_signature().
Sign(s) ==
  /\ Sequential => \A o \in Signers : Order[o] < Order[s] => o \in signed
  /\ signed' = signed \cup {s}
  /\ UNCHANGED <<status, copy>>

\* finalize() claims the envelope, and gives it back if the seal fails.
Claim ==
  /\ status \in {"draft", "out_for_signature"}
  /\ signed = Signers
  /\ status' = "sealing"
  /\ UNCHANGED <<signed, copy>>

Release ==
  /\ status = "sealing"
  /\ status' = "out_for_signature"
  /\ UNCHANGED <<signed, copy>>

\* _seal_and_complete().  A void() or a decline during the seal is lost.
Complete ==
  /\ status \in {"sealing", "voided", "declined"}
  /\ signed = Signers
  /\ copy = {}
  /\ status' = "completed"
  /\ copy' = Signers
  /\ UNCHANGED signed

\* decline() and withdraw_consent().
Decline ==
  /\ status \notin {"completed", "voided"}
  /\ status' = "declined"
  /\ UNCHANGED <<signed, copy>>

\* sweep_expired().
Expire ==
  /\ status = "out_for_signature"
  /\ status' = "expired"
  /\ UNCHANGED <<signed, copy>>

\* void().
Void ==
  /\ status' = "voided"
  /\ UNCHANGED <<signed, copy>>

Next ==
  \/ Dispatch \/ Claim \/ Release \/ Complete \/ Decline \/ Expire \/ Void
  \/ \E s \in Signers : Sign(s)

Spec == Init /\ [][Next]_ledger
=============================================================================
