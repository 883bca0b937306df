------------------------------ MODULE Envelope ------------------------------
(***************************************************************************)
(* The signing lifecycle of ONE envelope (the code also says agreement):   *)
(* sign/esign.py from send() to the sealed, completed document.            *)
(*                                                                         *)
(* Every handler runs in a thread of its own and has the same shape: it    *)
(* reads rows outside any transaction, decides from what it read, and then *)
(* writes in ONE transaction whose UPDATEs mostly do not repeat the        *)
(* decision.  So a handler is two or more actions here: one that reads and *)
(* decides, one per commit, and other handlers may run between them.  A    *)
(* worker may die between any two of them.                                 *)
(*                                                                         *)
(* An operator named Op_Variant is Op with a plausible bug in it: the      *)
(* properties are tested against it, and no specification uses it.         *)
(***************************************************************************)
EXTENDS Naturals, FiniteSets

CONSTANTS
  Signers,        \* rows of agreement_signers for this envelope
  Order,          \* sign_order of each signer
  Sequential,     \* agreements.order_mode = 'sequential'
  Consumers,      \* signers with is_consumer = 1
  Locked,         \* signers with a challenge_type other than 'none'
  NoSigner,       \* "no signer": a job that is not about one
  Workers,        \* request threads, and the hourly expiry poller
  Ops,            \* the endpoints that receive requests in this instance
  SealMayStall,   \* may a live seal outlast _SEAL_STALE_S?
  MaxDispatches,  \* bound: how many send() calls pass the draft gate
  MaxSignatures,  \* bound: signatures of one signer before it stops posting
  MaxFaults       \* bound: crashes and seal exceptions

ASSUME SignersAssumption ==
  /\ Signers # {}
  /\ IsFiniteSet(Signers)
  /\ NoSigner \notin Signers
  /\ Order \in [Signers -> Nat]

ASSUME FlagsAssumption ==
  /\ Sequential \in BOOLEAN
  /\ SealMayStall \in BOOLEAN
  /\ Consumers \subseteq Signers
  /\ Locked \subseteq Signers

ASSUME BoundsAssumption ==
  /\ MaxDispatches \in Nat
  /\ MaxSignatures \in Nat
  /\ MaxFaults \in Nat

VARIABLES
  agr,         \* the agreements row
  signer,      \* the agreement_signers rows
  job,         \* what each worker is doing, with the values it has read
  invited,     \* signers that have been emailed their link
  announced,   \* webhook events emitted
  dispatches,  \* send() calls that passed the draft gate
  faults       \* crashes and seal exceptions so far

vars == <<agr, signer, job, invited, announced, dispatches, faults>>

Statuses == {"draft", "out_for_signature", "sealing", "completed",
             "declined", "voided", "expired"}
SignerStatuses == {"pending", "sent", "viewed", "signed", "declined"}

Phases == {"idle", "send", "invite", "view", "consent", "submit", "count",
           "cascade", "withdraw", "decline", "finalize", "claim", "seal",
           "notify"}

Events == {"envelope.sent", "signer.signed", "envelope.completed",
           "envelope.declined", "envelope.voided", "envelope.expired"}

-----------------------------------------------------------------------------
(* Rows and jobs                                                           *)

NoSignatures == [s \in Signers |-> 0]

\* elapsed: 60 days have passed since sent_at.  It stands both for the link
\* TTL (SIGN_TOKEN_TTL_DAYS) and for expires_at (ESIGN_EXPIRY_DAYS).
\* stale: sealing_at is older than _SEAL_STALE_S.
\* executed: the signatures stamped on the executed copy; seals counts the
\* DOC_SEALED commits.
AgreementRow ==
  [status   : Statuses,
   elapsed  : BOOLEAN,
   stale    : BOOLEAN,
   executed : [Signers -> Nat],
   seals    : Nat]

\* token: 0 for none, else how often it has been minted.  signature: 0 while
\* signed_at is NULL, else how often signature_id has been minted.
SignerRow ==
  [status    : SignerStatuses,
   token     : Nat,
   viewed    : BOOLEAN,
   consent   : BOOLEAN,
   withdrawn : BOOLEAN,
   passed    : BOOLEAN,
   signature : Nat]

\* seen: the agreement status the handler has read and will still use.
\* copy: the signatures read by finalize(), which the seal stamps.
Job ==
  [phase : Phases,
   who   : Signers \cup {NoSigner},
   seen  : Statuses,
   event : Events,
   copy  : [Signers -> Nat]]

Idle == [phase |-> "idle", who |-> NoSigner, seen |-> "draft",
         event |-> "envelope.sent", copy |-> NoSignatures]

TypeOK ==
  /\ agr \in AgreementRow
  /\ signer \in [Signers -> SignerRow]
  /\ job \in [Workers -> Job]
  /\ invited \subseteq Signers
  /\ announced \subseteq Events
  /\ dispatches \in Nat
  /\ faults \in Nat

Init ==
  /\ agr = [status |-> "draft", elapsed |-> FALSE, stale |-> FALSE,
            executed |-> NoSignatures, seals |-> 0]
  /\ signer = [s \in Signers |->
                [status |-> "pending", token |-> 0, viewed |-> FALSE,
                 consent |-> FALSE, withdrawn |-> FALSE, passed |-> FALSE,
                 signature |-> 0]]
  /\ job = [w \in Workers |-> Idle]
  /\ invited = {}
  /\ announced = {}
  /\ dispatches = 0
  /\ faults = 0

-----------------------------------------------------------------------------
(* What the handlers ask of the rows                                       *)

Has(s) == signer[s].token > 0

ChallengeUnmet_Ignored(s) == FALSE

ChallengeUnmet(s) == s \in Locked /\ ~signer[s].passed

Signed(s) == signer[s].status = "signed"

AllSigned == \A s \in Signers : Signed(s)

Unavailable == {"voided", "declined"}

AheadUnsigned_Reversed(s) ==
  Sequential /\ \E o \in Signers : Order[o] > Order[s] /\ ~Signed(o)

\* Sequential mode: somebody whose turn comes earlier has not signed.
AheadUnsigned(s) ==
  Sequential /\ \E o \in Signers : Order[o] < Order[s] /\ ~Signed(o)

\* The lowest order group among S.
LowestGroup(S) == {s \in S : \A o \in S : Order[s] <= Order[o]}

Unsigned == {s \in Signers : ~Signed(s)}

\* A worker takes a request and reads; goes on to its next step; is done.
Start(w, phase, s, seen) ==
  /\ job[w].phase = "idle"
  /\ job' = [job EXCEPT ![w] = [Idle EXCEPT !.phase = phase, !.who = s,
                                            !.seen = seen]]
At(w, phase) == job[w].phase = phase
Goto(w, phase) == job' = [job EXCEPT ![w].phase = phase]
Done(w) == job' = [job EXCEPT ![w] = Idle]
Notify(w, event) ==
  job' = [job EXCEPT ![w] = [Idle EXCEPT !.phase = "notify",
                                         !.event = event]]

-----------------------------------------------------------------------------
(* Sender: send, remind, void                                              *)

\* send(): the gate.  Signers exist and the snapshot froze.
SendCheck(w) ==
  /\ "send" \in Ops
  /\ dispatches < MaxDispatches
  /\ agr.status = "draft"
  /\ Start(w, "send", NoSigner, "draft")
  /\ dispatches' = dispatches + 1
  /\ UNCHANGED <<agr, signer, invited, announced, faults>>

\* send(): a new token for every signer, and the envelope is out.
SendCommit(w) ==
  /\ At(w, "send")
  /\ signer' = [s \in Signers |->
                  [signer[s] EXCEPT !.token = @ + 1, !.status = "sent"]]
  /\ agr' = [agr EXCEPT !.status = "out_for_signature", !.elapsed = FALSE]
  /\ Goto(w, "invite")
  /\ UNCHANGED <<invited, announced, dispatches, faults>>

SendInvite_Everyone(w) ==
  /\ At(w, "invite")
  /\ announced' = announced \cup {"envelope.sent"}
  /\ invited' = Signers
  /\ Done(w)
  /\ UNCHANGED <<agr, signer, dispatches, faults>>

\* send(): webhook, then the invitations; in sequential mode only those of
\* the first group, computed from the rows as read in the draft.
SendInvite(w) ==
  /\ At(w, "invite")
  /\ announced' = announced \cup {"envelope.sent"}
  /\ invited' = invited \cup
                (IF Sequential THEN LowestGroup(Signers) ELSE Signers)
  /\ Done(w)
  /\ UNCHANGED <<agr, signer, dispatches, faults>>

\* remind() emails every signer with a link that has not signed.
Remind ==
  /\ "remind" \in Ops
  /\ agr.status \notin {"voided", "completed", "draft", "expired"}
  /\ invited' = invited \cup {s \in Unsigned : Has(s)}
  /\ UNCHANGED <<agr, signer, job, announced, dispatches, faults>>

Void_Cancels(w) ==
  /\ "void" \in Ops
  /\ At(w, "idle")
  /\ agr' = [agr EXCEPT !.status = "cancelled"]
  /\ Notify(w, "envelope.voided")
  /\ UNCHANGED <<signer, invited, announced, dispatches, faults>>

\* void() asks nothing of the status.
Void(w) ==
  /\ "void" \in Ops
  /\ At(w, "idle")
  /\ agr' = [agr EXCEPT !.status = "voided"]
  /\ Notify(w, "envelope.voided")
  /\ UNCHANGED <<signer, invited, announced, dispatches, faults>>

-----------------------------------------------------------------------------
(* Signer: view, challenge, consent                                        *)

\* signing_payload(): the gates of the signing page, and whether this is the
\* first view.  The challenge is not one of them.
ViewCheck(w, s) ==
  /\ "view" \in Ops
  /\ Has(s)
  /\ agr.status \notin Unavailable \cup {"expired"}
  /\ agr.status = "completed" \/ ~agr.elapsed
  /\ signer[s].status \in {"sent", "viewed"}
  /\ ~signer[s].viewed
  /\ Start(w, "view", s, agr.status)
  /\ UNCHANGED <<agr, signer, invited, announced, dispatches, faults>>

ViewCommit(w) ==
  /\ At(w, "view")
  /\ signer' = [signer EXCEPT ![job[w].who].status = "viewed",
                              ![job[w].who].viewed = TRUE]
  /\ Done(w)
  /\ UNCHANGED <<agr, invited, announced, dispatches, faults>>

\* verify_challenge() on a correct answer.
PassChallenge(s) ==
  /\ Has(s)
  /\ ChallengeUnmet(s)
  /\ signer' = [signer EXCEPT ![s].passed = TRUE]
  /\ UNCHANGED <<agr, job, invited, announced, dispatches, faults>>

\* record_consent(): neither expiry nor completion refuses it.
ConsentCheck(w, s) ==
  /\ "consent" \in Ops
  /\ Has(s)
  /\ ~ChallengeUnmet(s)
  /\ agr.status \notin Unavailable
  /\ ~signer[s].consent
  /\ Start(w, "consent", s, agr.status)
  /\ UNCHANGED <<agr, signer, invited, announced, dispatches, faults>>

ConsentCommit(w) ==
  /\ At(w, "consent")
  /\ signer' = [signer EXCEPT ![job[w].who].consent = TRUE]
  /\ Done(w)
  /\ UNCHANGED <<agr, invited, announced, dispatches, faults>>

-----------------------------------------------------------------------------
(* Signer: submit                                                          *)

\* The gates submit_signature() puts before every submission.  The link TTL
\* comes before the question whether this signer has signed already.
MaySubmit(s) ==
  /\ Has(s)
  /\ ~ChallengeUnmet(s)
  /\ agr.status \notin Unavailable \cup {"expired"}
  /\ agr.status = "completed" \/ ~agr.elapsed
  /\ ~signer[s].withdrawn
  /\ signer[s].status # "declined"

SubmitCheck_Again(w, s) ==
  /\ "submit" \in Ops
  /\ MaySubmit(s)
  /\ ~AheadUnsigned(s)
  /\ s \in Consumers => signer[s].consent
  /\ signer[s].signature < MaxSignatures
  /\ Start(w, "submit", s, agr.status)
  /\ UNCHANGED <<agr, signer, invited, announced, dispatches, faults>>

\* First submission: in turn, with consent, every required field filled in.
SubmitCheck(w, s) ==
  /\ "submit" \in Ops
  /\ MaySubmit(s)
  /\ ~Signed(s)
  /\ ~AheadUnsigned(s)
  /\ s \in Consumers => signer[s].consent
  /\ signer[s].signature < MaxSignatures
  /\ Start(w, "submit", s, agr.status)
  /\ UNCHANGED <<agr, signer, invited, announced, dispatches, faults>>

\* The field values and a fresh signature_id are written, whatever the row
\* and the envelope have become since.
SubmitCommit(w) ==
  /\ At(w, "submit")
  /\ signer' = [signer EXCEPT ![job[w].who].status = "signed",
                              ![job[w].who].signature = @ + 1]
  /\ Goto(w, "count")
  /\ UNCHANGED <<agr, invited, announced, dispatches, faults>>

Count_OffByOne(w) ==
  /\ At(w, "count")
  /\ announced' = announced \cup {"signer.signed"}
  /\ Goto(w, IF Cardinality(Unsigned) <= 1 THEN "finalize" ELSE "cascade")
  /\ UNCHANGED <<agr, signer, invited, dispatches, faults>>

\* How many have yet to sign?  Nobody: seal.  Else tell the next group.
Count(w) ==
  /\ At(w, "count")
  /\ announced' = announced \cup {"signer.signed"}
  /\ Goto(w, IF AllSigned THEN "finalize" ELSE "cascade")
  /\ UNCHANGED <<agr, signer, invited, dispatches, faults>>

\* _notify_next_sequential()
Cascade(w) ==
  /\ At(w, "cascade")
  /\ invited' = IF Sequential /\ agr.status \notin {"voided", "completed"}
                THEN invited \cup LowestGroup(Unsigned)
                ELSE invited
  /\ Done(w)
  /\ UNCHANGED <<agr, signer, announced, dispatches, faults>>

Resubmit_NoRetry(w, s) ==
  /\ "resubmit" \in Ops
  /\ MaySubmit(s)
  /\ Signed(s)
  /\ Start(w, "cascade", s, agr.status)
  /\ UNCHANGED <<agr, signer, invited, announced, dispatches, faults>>

\* A signer that has signed posts again: finalize() is tried once more.
Resubmit(w, s) ==
  /\ "resubmit" \in Ops
  /\ MaySubmit(s)
  /\ Signed(s)
  /\ agr.status # "completed"
  /\ AllSigned
  /\ Start(w, "finalize", s, agr.status)
  /\ UNCHANGED <<agr, signer, invited, announced, dispatches, faults>>

-----------------------------------------------------------------------------
(* Signer: withdraw consent, decline                                       *)

DeclinedUnlessClosed ==
  IF agr.status \in {"completed", "voided"}
  THEN agr ELSE [agr EXCEPT !.status = "declined"]

WithdrawCheck(w, s) ==
  /\ "withdraw" \in Ops
  /\ Has(s)
  /\ ~ChallengeUnmet(s)
  /\ ~signer[s].withdrawn
  /\ Start(w, "withdraw", s, agr.status)
  /\ UNCHANGED <<agr, signer, invited, announced, dispatches, faults>>

\* Record-only if the envelope was completed when it was read.
WithdrawCommit(w) ==
  LET s == job[w].who IN
  /\ At(w, "withdraw")
  /\ \/ /\ job[w].seen = "completed"
        /\ signer' = [signer EXCEPT ![s].withdrawn = TRUE]
        /\ UNCHANGED agr
     \/ /\ job[w].seen # "completed"
        /\ signer' = [signer EXCEPT ![s].withdrawn = TRUE,
                                    ![s].status = "declined"]
        /\ agr' = DeclinedUnlessClosed
  /\ Done(w)
  /\ UNCHANGED <<invited, announced, dispatches, faults>>

DeclineCheck(w, s) ==
  /\ "decline" \in Ops
  /\ Has(s)
  /\ ~ChallengeUnmet(s)
  /\ ~Signed(s)
  /\ agr.status \notin {"completed", "voided"}
  /\ Start(w, "decline", s, agr.status)
  /\ UNCHANGED <<agr, signer, invited, announced, dispatches, faults>>

DeclineCommit(w) ==
  /\ At(w, "decline")
  /\ signer' = [signer EXCEPT ![job[w].who].status = "declined"]
  /\ agr' = DeclinedUnlessClosed
  /\ Notify(w, "envelope.declined")
  /\ UNCHANGED <<invited, announced, dispatches, faults>>

-----------------------------------------------------------------------------
(* finalize() and _seal_and_complete()                                     *)

\* finalize() takes its snapshot; prior_status is never 'sealing'.
FinalizeRead(w) ==
  /\ At(w, "finalize")
  /\ IF agr.status = "completed" \/ \E s \in Signers : ChallengeUnmet(s)
     THEN Done(w)
     ELSE job' = [job EXCEPT ![w] =
            [@ EXCEPT !.phase = "claim",
                      !.seen = IF agr.status = "sealing"
                               THEN "out_for_signature" ELSE agr.status,
                      !.copy = [s \in Signers |-> signer[s].signature]]]
  /\ UNCHANGED <<agr, signer, invited, announced, dispatches, faults>>

Claimable_AnySealing ==
  agr.status \in {"draft", "out_for_signature", "sealing"}

Claimable_Completed ==
  \/ agr.status \in {"draft", "out_for_signature", "completed"}
  \/ agr.status = "sealing" /\ agr.stale

Claimable_NoReclaim == agr.status \in {"draft", "out_for_signature"}

Claimable ==
  \/ agr.status \in {"draft", "out_for_signature"}
  \/ agr.status = "sealing" /\ agr.stale

\* The atomic claim: one UPDATE that also takes over a stale one.
Claim(w) ==
  /\ At(w, "claim")
  /\ IF Claimable
     THEN /\ agr' = [agr EXCEPT !.status = "sealing", !.stale = FALSE]
          /\ Goto(w, "seal")
     ELSE /\ Done(w)
          /\ UNCHANGED agr
  /\ UNCHANGED <<signer, invited, announced, dispatches, faults>>

\* _seal_and_complete(): the final commit does not ask for the status.
SealCommit(w) ==
  /\ At(w, "seal")
  /\ agr' = [agr EXCEPT !.status = "completed", !.executed = job[w].copy,
                        !.seals = @ + 1]
  /\ Notify(w, "envelope.completed")
  /\ UNCHANGED <<signer, invited, announced, dispatches, faults>>

\* An exception in the seal gives the claim back.
SealFails(w) ==
  /\ At(w, "seal")
  /\ faults < MaxFaults
  /\ faults' = faults + 1
  /\ agr' = IF agr.status = "sealing"
            THEN [agr EXCEPT !.status = job[w].seen] ELSE agr
  /\ Done(w)
  /\ UNCHANGED <<signer, invited, announced, dispatches>>

-----------------------------------------------------------------------------
(* Background: webhooks, the expiry sweep, time, crashes                   *)

EmitAndMail(w) ==
  /\ At(w, "notify")
  /\ announced' = announced \cup {job[w].event}
  /\ Done(w)
  /\ UNCHANGED <<agr, signer, invited, dispatches, faults>>

Sweep_OldStatus(w) ==
  /\ "sweep" \in Ops
  /\ At(w, "idle")
  /\ agr.status \in {"out_for_signature", "sealing"}
  /\ agr.elapsed
  /\ agr' = [agr EXCEPT !.status = "expired"]
  /\ Notify(w, "envelope.expired")
  /\ UNCHANGED <<signer, invited, announced, dispatches, faults>>

\* sweep_expired(): the UPDATE repeats the status it looks for.
Sweep(w) ==
  /\ "sweep" \in Ops
  /\ At(w, "idle")
  /\ agr.status = "out_for_signature"
  /\ agr.elapsed
  /\ agr' = [agr EXCEPT !.status = "expired"]
  /\ Notify(w, "envelope.expired")
  /\ UNCHANGED <<signer, invited, announced, dispatches, faults>>

\* 60 days after sent_at.
WindowElapses ==
  /\ "sweep" \in Ops
  /\ \E s \in Signers : Has(s)
  /\ ~agr.elapsed
  /\ agr' = [agr EXCEPT !.elapsed = TRUE]
  /\ UNCHANGED <<signer, job, invited, announced, dispatches, faults>>

\* 120 seconds after sealing_at.  Unless SealMayStall, a seal that is still
\* running is quicker than that.
ClaimGoesStale ==
  /\ agr.status = "sealing"
  /\ ~agr.stale
  /\ SealMayStall \/ \A w \in Workers : ~At(w, "seal")
  /\ agr' = [agr EXCEPT !.stale = TRUE]
  /\ UNCHANGED <<signer, job, invited, announced, dispatches, faults>>

\* The thread or its process dies; what is committed stays.
Crash(w) ==
  /\ ~At(w, "idle")
  /\ faults < MaxFaults
  /\ faults' = faults + 1
  /\ Done(w)
  /\ UNCHANGED <<agr, signer, invited, announced, dispatches>>

-----------------------------------------------------------------------------
Continue(w) ==
  \/ SendCommit(w)     \/ SendInvite(w)
  \/ ViewCommit(w)     \/ ConsentCommit(w)
  \/ SubmitCommit(w)   \/ Count(w)         \/ Cascade(w)
  \/ WithdrawCommit(w) \/ DeclineCommit(w)
  \/ FinalizeRead(w)   \/ Claim(w)         \/ SealCommit(w)
  \/ EmitAndMail(w)

Request(w) ==
  \/ SendCheck(w)
  \/ Void(w)
  \/ Sweep(w)
  \/ \E s \in Signers :
       \/ ViewCheck(w, s)   \/ ConsentCheck(w, s)
       \/ SubmitCheck(w, s) \/ Resubmit(w, s)
       \/ DeclineCheck(w, s) \/ WithdrawCheck(w, s)

Next ==
  \/ \E w \in Workers : Request(w) \/ Continue(w) \/ SealFails(w) \/ Crash(w)
  \/ \E s \in Signers : PassChallenge(s)
  \/ Remind
  \/ WindowElapses
  \/ ClaimGoesStale

Spec == Init /\ [][Next]_vars

-----------------------------------------------------------------------------
(* Fairness: a request that was accepted keeps running, and time passes.   *)
(* Nothing obliges anybody to make a request; RetrySpec adds that a signer *)
(* whose submission did not complete the envelope keeps posting it.        *)

Fairness ==
  /\ \A w \in Workers : WF_vars(Continue(w))
  /\ WF_vars(ClaimGoesStale)

RetryFairness ==
  SF_vars(\E w \in Workers, s \in Signers : Resubmit(w, s))

FairSpec == Spec /\ Fairness
RetrySpec == FairSpec /\ RetryFairness

-----------------------------------------------------------------------------
(* Properties that hold whatever handlers run side by side                 *)

HasSigned(s) == signer[s].signature > 0

\* Nothing is claimed for sealing, and nothing is complete, before every
\* signer has signed; the executed copy bears the signature of each
\* (submit_signature() counts, finalize() claims, _seal_and_complete()).
SealedByAll ==
  /\ agr.status \in {"sealing", "completed"} => \A s \in Signers : HasSigned(s)
  /\ agr.seals > 0 => \A s \in Signers : agr.executed[s] > 0

\* In sequential mode nobody has signed whose turn had not come (L-19).
SignedInOrder ==
  Sequential =>
    \A s, o \in Signers : HasSigned(s) /\ Order[o] < Order[s] => HasSigned(o)

\* Who has signed has passed the access lock, and a consumer has accepted
\* the disclosure first (CHAL-4, CONSENT-1).
SignedWithEvidence ==
  \A s \in Signers : HasSigned(s) =>
    /\ s \in Consumers => signer[s].consent
    /\ s \in Locked => signer[s].passed

\* In sequential mode no invitation reaches a signer before everybody with
\* an earlier turn has signed (send() and _notify_next_sequential()).
InvitedInTurn ==
  Sequential =>
    \A s \in invited, o \in Signers : Order[o] < Order[s] => HasSigned(o)

Sealers == {w \in Workers : At(w, "seal")}

\* The atomic claim of finalize(): never two seals at the same time.
OneSealer == \A v, w \in Sealers : v = w

\* ... and the executed copy is written once.
SealedOnce == agr.seals <= 1

-----------------------------------------------------------------------------
(* Properties of handlers that run one after the other                     *)

\* A completed envelope has no signer that did not sign.
CompletedAllSigned == agr.status = "completed" => AllSigned

\* The signatures on the executed copy are the ones the rows hold, so the
\* certificate that is rendered again agrees with the one inside the copy.
ExecutedIsRecorded ==
  agr.seals > 0 => \A s \in Signers : agr.executed[s] = signer[s].signature

-----------------------------------------------------------------------------
(* The abstract specification                                              *)

Ledger == INSTANCE SignatureLedger WITH
            status <- agr.status,
            signed <- {s \in Signers : HasSigned(s)},
            copy   <- {s \in Signers : agr.executed[s] > 0}

\* With one dispatch and no stalled seal, every interleaving of the handlers
\* keeps the promises of the ledger.
ImplementsLedger == Ledger!Spec

-----------------------------------------------------------------------------
(* Liveness                                                                *)

\* A claimed envelope does not stay in 'sealing'.
SealingEnds == agr.status = "sealing" ~> agr.status # "sealing"

\* Once everybody has signed, the envelope is completed, unless the sender
\* or a signer ends it otherwise.
AllSignedCompletes ==
  agr.status = "out_for_signature" /\ AllSigned
    ~> agr.status \in {"completed", "voided", "declined"}
=============================================================================
