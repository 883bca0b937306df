------------------------- MODULE EnvelopeSealProofs -------------------------
(***************************************************************************)
(* Theorems about Envelope that hold when send() passes its gate once and  *)
(* a live seal never outlasts _SEAL_STALE_S: seals exclude each other, and *)
(* the detailed Envelope implements SignatureLedger.                       *)
(***************************************************************************)
EXTENDS EnvelopeProofs

-----------------------------------------------------------------------------
(* One dispatch: links exist only after send() has committed, and whoever  *)
(* acts as a signer has one.                                               *)

NoLinks == \A s \in Signers : ~Has(s)

WithLink == {"view", "consent", "submit", "count", "cascade", "withdraw",
             "decline", "finalize", "claim", "seal"}

DispatchJobInv(w) ==
  /\ At(w, "send") => dispatches > 0 /\ NoLinks
  /\ job[w].phase \in WithLink => job[w].who \in Signers /\ Has(job[w].who)

DispatchInv ==
  /\ dispatches <= MaxDispatches
  /\ \A w \in Workers : DispatchJobInv(w)
  /\ \A v, w \in Workers : At(v, "send") /\ At(w, "send") => v = w
  /\ \A s \in Signers : Has(s) => dispatches > 0
  /\ \A s \in Signers : HasSigned(s) => Has(s)

LEMMA InitDispatch == Init => DispatchInv
  BY SignersAssumption, BoundsAssumption
  DEF Init, DispatchInv, DispatchJobInv, WithLink, Has, HasSigned, At, Idle

\* A step of one worker that is not about to send, and mints no link.
LEMMA WorkerDispatch ==
  ASSUME TypeOK, DispatchInv, NEW w \in Workers, Others(w),
         dispatches' = dispatches,
         \A s \in Signers : signer'[s].token = signer[s].token,
         \A s \in Signers : HasSigned(s)' => Has(s),
         job'[w].phase # "send",
         job'[w].phase \in WithLink =>
           job'[w].who \in Signers /\ Has(job'[w].who)
  PROVE  DispatchInv'
<1>a. \A s \in Signers : Has(s)' <=> Has(s)
  BY DEF Has
<1>1. ASSUME NEW v \in Workers
      PROVE  DispatchJobInv(v)'
  <2>1. CASE v = w
    BY <1>a, <2>1 DEF DispatchJobInv, At, Has
  <2>2. CASE v # w
    BY <1>a, <2>2 DEF DispatchInv, DispatchJobInv, At, Others, NoLinks, Has
  <2> QED
    BY <2>1, <2>2
<1> QED
  BY <1>a, <1>1 DEF DispatchInv, At, Others

LEMMA RequestDispatch ==
  ASSUME MaxDispatches <= 1,
         TypeOK, DispatchInv, NEW w \in Workers, Request(w)
  PROVE  DispatchInv'
<1>a. job \in [Workers -> Job] /\ \A s \in Signers : HasSigned(s) => Has(s)
  BY DEF TypeOK, DispatchInv
<1>b. ASSUME UNCHANGED <<signer, dispatches>>, Others(w),
             job'[w].phase # "send",
             job'[w].phase \in WithLink =>
               job'[w].who \in Signers /\ Has(job'[w].who)
      PROVE  DispatchInv'
  BY <1>a, <1>b, WorkerDispatch DEF HasSigned
<1>1. CASE SendCheck(w)
  <2>1. dispatches = 0 /\ dispatches' = 1
    BY <1>1, BoundsAssumption DEF SendCheck, DispatchInv, TypeOK
  <2>2. NoLinks /\ \A v \in Workers : ~At(v, "send")
    BY <2>1 DEF DispatchInv, DispatchJobInv, NoLinks
  <2>3. Others(w) /\ job'[w].phase = "send"
    BY <1>1, <1>a, JobStep DEF SendCheck
  <2>4. UNCHANGED signer
    BY <1>1 DEF SendCheck
  <2> QED
    BY <1>1, <1>a, <2>1, <2>2, <2>3, <2>4, BoundsAssumption
    DEF SendCheck, DispatchInv, DispatchJobInv, WithLink, At, Others, NoLinks,
        Has, HasSigned
<1>2. CASE Void(w)
  BY <1>2, <1>a, <1>b, JobStep DEF Void, WithLink
<1>3. CASE Sweep(w)
  BY <1>3, <1>a, <1>b, JobStep DEF Sweep, WithLink
<1>4. ASSUME NEW s \in Signers, ViewCheck(w, s)
      PROVE  DispatchInv'
  BY <1>4, <1>a, <1>b, JobStep DEF ViewCheck
<1>5. ASSUME NEW s \in Signers, ConsentCheck(w, s)
      PROVE  DispatchInv'
  BY <1>5, <1>a, <1>b, JobStep DEF ConsentCheck
<1>6. ASSUME NEW s \in Signers, SubmitCheck(w, s)
      PROVE  DispatchInv'
  BY <1>6, <1>a, <1>b, JobStep DEF SubmitCheck, MaySubmit
<1>7. ASSUME NEW s \in Signers, Resubmit(w, s)
      PROVE  DispatchInv'
  BY <1>7, <1>a, <1>b, JobStep DEF Resubmit, MaySubmit
<1>8. ASSUME NEW s \in Signers, DeclineCheck(w, s)
      PROVE  DispatchInv'
  BY <1>8, <1>a, <1>b, JobStep DEF DeclineCheck
<1>9. ASSUME NEW s \in Signers, WithdrawCheck(w, s)
      PROVE  DispatchInv'
  BY <1>9, <1>a, <1>b, JobStep DEF WithdrawCheck
<1> QED
  BY <1>1, <1>2, <1>3, <1>4, <1>5, <1>6, <1>7, <1>8, <1>9 DEF Request

LEMMA ContinueDispatch ==
  ASSUME TypeOK, DispatchInv, NEW w \in Workers, Continue(w)
  PROVE  DispatchInv'
<1>a. /\ job \in [Workers -> Job] /\ job[w] \in Job
      /\ signer \in [Signers -> SignerRow]
      /\ \A s \in Signers : HasSigned(s) => Has(s)
      /\ job[w].phase \in WithLink => job[w].who \in Signers /\ Has(job[w].who)
  BY DEF TypeOK, DispatchInv, DispatchJobInv
<1>b. ASSUME UNCHANGED <<signer, dispatches>>, Others(w),
             job'[w].phase # "send",
             job'[w].phase \in WithLink =>
               job'[w].who \in Signers /\ Has(job'[w].who)
      PROVE  DispatchInv'
  BY <1>a, <1>b, WorkerDispatch DEF HasSigned
<1>1. CASE SendCommit(w)
  <2>1. /\ \A v \in Workers \ {w} : ~At(v, "send")
        /\ dispatches > 0 /\ dispatches' = dispatches
    BY <1>1 DEF SendCommit, DispatchInv, DispatchJobInv
  <2>2. Others(w) /\ job'[w].phase = "invite"
    <3>1. Goto(w, "invite")
      BY <1>1 DEF SendCommit
    <3> QED
      BY <1>a, <3>1, JobStep
  <2>3. \A s \in Signers : Has(s)'
    <3> SUFFICES ASSUME NEW s \in Signers
                 PROVE  Has(s)'
      OBVIOUS
    <3>1. signer[s].token \in Nat /\ signer'[s].token = signer[s].token + 1
      BY <1>1, <1>a DEF SendCommit, SignerRow
    <3> QED
      BY <3>1 DEF Has
  <2>4. \A v \in Workers : DispatchJobInv(v)'
    BY <1>a, <2>1, <2>2, <2>3
    DEF DispatchInv, DispatchJobInv, WithLink, At, Others, Has
  <2> QED
    BY <2>1, <2>2, <2>3, <2>4 DEF DispatchInv, At, Others
<1>2. CASE SendInvite(w)
  BY <1>2, <1>a, <1>b, JobStep DEF SendInvite, WithLink
<1>3. CASE ViewCommit(w)
  <2>1. Others(w) /\ job'[w].phase = "idle"
    BY <1>3, <1>a, JobStep DEF ViewCommit
  <2> QED
    BY <1>3, <1>a, <2>1, WorkerDispatch
    DEF ViewCommit, WithLink, HasSigned, SignerRow
<1>4. CASE ConsentCommit(w)
  <2>1. Others(w) /\ job'[w].phase = "idle"
    BY <1>4, <1>a, JobStep DEF ConsentCommit
  <2> QED
    BY <1>4, <1>a, <2>1, WorkerDispatch
    DEF ConsentCommit, WithLink, HasSigned, SignerRow
<1>5. CASE SubmitCommit(w)
  <2>1. /\ Others(w) /\ job'[w].phase = "count" /\ job'[w].who = job[w].who
        /\ job[w].who \in Signers /\ Has(job[w].who)
    BY <1>5, <1>a, JobStep DEF SubmitCommit, At, WithLink
  <2>2. ASSUME NEW s \in Signers
        PROVE  /\ signer'[s].token = signer[s].token
               /\ s # job[w].who => signer'[s] = signer[s]
    BY <1>5, <1>a DEF SubmitCommit, SignerRow
  <2> QED
    BY <1>5, <1>a, <2>1, <2>2, WorkerDispatch DEF SubmitCommit, HasSigned
<1>6. CASE Count(w)
  BY <1>6, <1>a, <1>b, JobStep DEF Count, At, WithLink
<1>7. CASE Cascade(w)
  BY <1>7, <1>a, <1>b, JobStep DEF Cascade, WithLink
<1>8. CASE WithdrawCommit(w)
  <2>1. Others(w) /\ job'[w].phase = "idle"
    BY <1>8, <1>a, JobStep DEF WithdrawCommit
  <2>2. ASSUME NEW s \in Signers
        PROVE  /\ signer'[s].token = signer[s].token
               /\ signer'[s].signature = signer[s].signature
    BY <1>8, <1>a DEF WithdrawCommit, SignerRow
  <2> QED
    BY <1>8, <1>a, <2>1, <2>2, WorkerDispatch
    DEF WithdrawCommit, WithLink, HasSigned
<1>9. CASE DeclineCommit(w)
  <2>1. Others(w) /\ job'[w].phase = "notify"
    BY <1>9, <1>a, JobStep DEF DeclineCommit
  <2> QED
    BY <1>9, <1>a, <2>1, WorkerDispatch
    DEF DeclineCommit, WithLink, HasSigned, SignerRow
<1>10. CASE FinalizeRead(w)
  BY <1>10, <1>a, <1>b, FinalizeReadJob DEF FinalizeRead, At, WithLink
<1>11. CASE Claim(w)
  <2>1. CASE Claimable
    BY <1>11, <1>a, <1>b, <2>1, JobStep DEF Claim, At, WithLink
  <2>2. CASE ~Claimable
    BY <1>11, <1>a, <1>b, <2>2, JobStep DEF Claim, WithLink
  <2> QED
    BY <2>1, <2>2
<1>12. CASE SealCommit(w)
  BY <1>12, <1>a, <1>b, JobStep DEF SealCommit, WithLink
<1>13. CASE EmitAndMail(w)
  BY <1>13, <1>a, <1>b, JobStep DEF EmitAndMail, WithLink
<1> QED
  BY <1>1, <1>2, <1>3, <1>4, <1>5, <1>6, <1>7, <1>8, <1>9, <1>10, <1>11,
     <1>12, <1>13 DEF Continue

LEMMA NextDispatch ==
  ASSUME MaxDispatches <= 1
  PROVE  TypeOK /\ DispatchInv /\ [Next]_vars => DispatchInv'
<1> SUFFICES ASSUME TypeOK, DispatchInv, [Next]_vars
             PROVE  DispatchInv'
  OBVIOUS
<1>a. job \in [Workers -> Job] /\ signer \in [Signers -> SignerRow]
  BY DEF TypeOK
<1>b. \A s \in Signers : HasSigned(s) => Has(s)
  BY DEF DispatchInv
<1>c. ASSUME UNCHANGED <<signer, dispatches, job>>
      PROVE  DispatchInv'
  BY <1>c DEF DispatchInv, DispatchJobInv, At, NoLinks, Has, HasSigned
<1>1. ASSUME NEW w \in Workers, SealFails(w)
      PROVE  DispatchInv'
  BY <1>1, <1>a, <1>b, JobStep, WorkerDispatch
     DEF SealFails, WithLink, HasSigned
<1>2. ASSUME NEW w \in Workers, Crash(w)
      PROVE  DispatchInv'
  BY <1>2, <1>a, <1>b, JobStep, WorkerDispatch DEF Crash, WithLink, HasSigned
<1>3. ASSUME NEW x \in Signers, PassChallenge(x)
      PROVE  DispatchInv'
  <2>1. \A s \in Signers : /\ signer'[s].token = signer[s].token
                           /\ signer'[s].signature = signer[s].signature
    BY <1>3, <1>a DEF PassChallenge, SignerRow
  <2> QED
    BY <1>3, <2>1 DEF PassChallenge, DispatchInv, DispatchJobInv, At, NoLinks,
                      Has, HasSigned
<1>4. CASE Remind
  BY <1>4, <1>c DEF Remind
<1>5. CASE WindowElapses
  BY <1>5, <1>c DEF WindowElapses
<1>6. CASE ClaimGoesStale
  BY <1>6, <1>c DEF ClaimGoesStale
<1>7. CASE UNCHANGED vars
  BY <1>7, <1>c DEF vars
<1> QED
  BY <1>1, <1>2, <1>3, <1>4, <1>5, <1>6, <1>7, RequestDispatch,
     ContinueDispatch DEF Next

LEMMA DispatchAlways ==
  ASSUME MaxDispatches <= 1
  PROVE  Spec => []DispatchInv
  BY InitDispatch, NextDispatch, TypeCorrect, PTL DEF Spec

\* Whoever seals has all signatures, so nobody is still sending.
LEMMA NotSending ==
  ASSUME EvidenceInv, DispatchInv,
         Everybody \/ Sealers # {} \/ agr.seals > 0
         \/ agr.status \in {"sealing", "completed"}
  PROVE  \A w \in Workers : ~At(w, "send")
<1>1. Everybody
  BY DEF EvidenceInv, AgreementInv, JobInv, Sealers, At
<1>2. \E s \in Signers : Has(s)
  BY <1>1, SignersAssumption DEF Everybody, DispatchInv
<1> QED
  BY <1>2 DEF DispatchInv, DispatchJobInv, NoLinks

-----------------------------------------------------------------------------
(* One seal: the claim excludes a second sealer, and no state a claim can  *)
(* be made from is reached after a seal.                                   *)

ClaimInv ==
  /\ Sealers # {} =>
       /\ agr.seals = 0
       /\ \/ agr.status = "sealing" /\ ~agr.stale
          \/ agr.status \in Unavailable
  /\ OneSealer
  /\ agr.seals > 0 => agr.status \in {"completed", "voided"}
  /\ SealedOnce

LEMMA InitClaim == Init => ClaimInv
  BY DEF Init, ClaimInv, Sealers, OneSealer, SealedOnce, At, Idle

LEMMA SealersStep ==
  ASSUME NEW w \in Workers, Others(w), OneSealer
  PROVE  /\ job'[w].phase # "seal" => Sealers' \subseteq Sealers
         /\ job'[w].phase # "seal" /\ At(w, "seal") => Sealers' = {}
         /\ Sealers' \subseteq Sealers \cup {w}
  BY DEF Others, OneSealer, Sealers, At

\* Fewer sealers of the same claim.
LEMMA ClaimKept ==
  ASSUME ClaimInv, Sealers' \subseteq Sealers, agr'.status = agr.status,
         agr'.stale = agr.stale, agr'.seals = agr.seals
  PROVE  ClaimInv'
  BY DEF ClaimInv, OneSealer, SealedOnce

LEMMA RequestClaim ==
  ASSUME TypeOK, ClaimInv, NEW w \in Workers, Request(w)
  PROVE  ClaimInv'
<1>a. /\ job \in [Workers -> Job] /\ agr \in AgreementRow /\ OneSealer
      /\ agr.seals \in Nat
  BY DEF TypeOK, ClaimInv, AgreementRow
<1>b. ASSUME Others(w), job'[w].phase # "seal", agr' = agr
      PROVE  ClaimInv'
  BY <1>a, <1>b, SealersStep, ClaimKept
<1>1. CASE SendCheck(w)
  BY <1>1, <1>a, <1>b, JobStep DEF SendCheck
<1>2. CASE Void(w)
  <2>1. Sealers' \subseteq Sealers
    BY <1>2, <1>a, JobStep, SealersStep DEF Void
  <2>2. agr'.status = "voided" /\ agr'.seals = agr.seals
    BY <1>2, <1>a DEF Void, AgreementRow
  <2> QED
    BY <2>1, <2>2 DEF ClaimInv, OneSealer, SealedOnce, Unavailable
<1>3. CASE Sweep(w)
  <2>1. Sealers = {} /\ ~(agr.seals > 0)
    BY <1>3 DEF Sweep, ClaimInv, Unavailable
  <2>2. Sealers' = {}
    BY <1>3, <1>a, <2>1, JobStep, SealersStep DEF Sweep
  <2>3. agr'.seals = agr.seals
    BY <1>3, <1>a DEF Sweep, AgreementRow
  <2> QED
    BY <2>1, <2>2, <2>3 DEF ClaimInv, OneSealer, SealedOnce
<1>4. ASSUME NEW s \in Signers, ViewCheck(w, s)
      PROVE  ClaimInv'
  BY <1>4, <1>a, <1>b, JobStep DEF ViewCheck
<1>5. ASSUME NEW s \in Signers, ConsentCheck(w, s)
      PROVE  ClaimInv'
  BY <1>5, <1>a, <1>b, JobStep DEF ConsentCheck
<1>6. ASSUME NEW s \in Signers, SubmitCheck(w, s)
      PROVE  ClaimInv'
  BY <1>6, <1>a, <1>b, JobStep DEF SubmitCheck
<1>7. ASSUME NEW s \in Signers, Resubmit(w, s)
      PROVE  ClaimInv'
  BY <1>7, <1>a, <1>b, JobStep DEF Resubmit
<1>8. ASSUME NEW s \in Signers, DeclineCheck(w, s)
      PROVE  ClaimInv'
  BY <1>8, <1>a, <1>b, JobStep DEF DeclineCheck
<1>9. ASSUME NEW s \in Signers, WithdrawCheck(w, s)
      PROVE  ClaimInv'
  BY <1>9, <1>a, <1>b, JobStep DEF WithdrawCheck
<1> QED
  BY <1>1, <1>2, <1>3, <1>4, <1>5, <1>6, <1>7, <1>8, <1>9 DEF Request

LEMMA ContinueClaim ==
  ASSUME TypeOK, EvidenceInv, DispatchInv, ClaimInv,
         NEW w \in Workers, Continue(w)
  PROVE  ClaimInv'
<1>a. /\ job \in [Workers -> Job] /\ agr \in AgreementRow /\ OneSealer
      /\ agr.seals \in Nat
  BY DEF TypeOK, ClaimInv, AgreementRow
<1>b. ASSUME Others(w), job'[w].phase # "seal", agr' = agr
      PROVE  ClaimInv'
  BY <1>a, <1>b, SealersStep, ClaimKept
\* decline() and withdraw_consent() leave a closed envelope alone.
<1>c. ASSUME Others(w), job'[w].phase # "seal", agr' = DeclinedUnlessClosed
      PROVE  ClaimInv'
  <2>1. Sealers' \subseteq Sealers /\ agr'.seals = agr.seals
    BY <1>a, <1>c, SealersStep DEF DeclinedUnlessClosed, AgreementRow
  <2>2. CASE agr.status \in {"completed", "voided"}
    BY <1>b, <1>c, <2>2 DEF DeclinedUnlessClosed
  <2>3. CASE agr.status \notin {"completed", "voided"}
    <3>1. agr'.status = "declined"
      BY <1>a, <1>c, <2>3 DEF DeclinedUnlessClosed, AgreementRow
    <3> QED
      BY <2>1, <2>3, <3>1 DEF ClaimInv, OneSealer, SealedOnce, Unavailable
  <2> QED
    BY <2>2, <2>3
<1>1. CASE SendCommit(w)
  <2>1. Sealers = {} /\ ~(agr.seals > 0)
    BY <1>1, NotSending DEF SendCommit
  <2>2. Others(w) /\ job'[w].phase = "invite"
    <3>1. Goto(w, "invite")
      BY <1>1 DEF SendCommit
    <3> QED
      BY <1>a, <3>1, JobStep
  <2>3. agr'.seals = agr.seals
    BY <1>1, <1>a DEF SendCommit, AgreementRow
  <2>4. Sealers' = {}
    BY <1>a, <2>1, <2>2, SealersStep
  <2> QED
    BY <2>1, <2>3, <2>4 DEF ClaimInv, OneSealer, SealedOnce
<1>2. CASE SendInvite(w)
  BY <1>2, <1>a, <1>b, JobStep DEF SendInvite
<1>3. CASE ViewCommit(w)
  BY <1>3, <1>a, <1>b, JobStep DEF ViewCommit
<1>4. CASE ConsentCommit(w)
  BY <1>4, <1>a, <1>b, JobStep DEF ConsentCommit
<1>5. CASE SubmitCommit(w)
  BY <1>5, <1>a, <1>b, JobStep DEF SubmitCommit
<1>6. CASE Count(w)
  BY <1>6, <1>a, <1>b, JobStep DEF Count
<1>7. CASE Cascade(w)
  BY <1>7, <1>a, <1>b, JobStep DEF Cascade
<1>8. CASE WithdrawCommit(w)
  BY <1>8, <1>a, <1>b, <1>c, JobStep DEF WithdrawCommit
<1>9. CASE DeclineCommit(w)
  BY <1>9, <1>a, <1>c, JobStep DEF DeclineCommit
<1>10. CASE FinalizeRead(w)
  <2>1. Others(w) /\ job'[w].phase # "seal"
    BY <1>10, <1>a, FinalizeReadJob
  <2> QED
    BY <1>10, <1>b, <2>1 DEF FinalizeRead
<1>11. CASE Claim(w)
  <2>1. CASE Claimable
    <3>1. Sealers = {} /\ ~(agr.seals > 0)
      BY <2>1 DEF Claimable, ClaimInv, Unavailable
    <3>2. /\ agr'.status = "sealing" /\ agr'.stale = FALSE
          /\ agr'.seals = agr.seals
      BY <1>11, <1>a, <2>1 DEF Claim, AgreementRow
    <3>3. Sealers' \subseteq {w}
      BY <1>11, <1>a, <2>1, <3>1, JobStep, SealersStep DEF Claim
    <3> QED
      BY <1>a, <3>1, <3>2, <3>3 DEF ClaimInv, OneSealer, SealedOnce
  <2>2. CASE ~Claimable
    BY <1>11, <1>a, <1>b, <2>2, JobStep DEF Claim
  <2> QED
    BY <2>1, <2>2
<1>12. CASE SealCommit(w)
  <2>1. At(w, "seal") /\ agr.seals = 0
    BY <1>12 DEF SealCommit, ClaimInv, Sealers
  <2>2. Sealers' = {}
    BY <1>12, <1>a, <2>1, JobStep, SealersStep DEF SealCommit
  <2>3. agr'.status = "completed" /\ agr'.seals = 1
    BY <1>12, <1>a, <2>1 DEF SealCommit, AgreementRow
  <2> QED
    BY <2>2, <2>3 DEF ClaimInv, OneSealer, SealedOnce
<1>13. CASE EmitAndMail(w)
  BY <1>13, <1>a, <1>b, JobStep DEF EmitAndMail
<1> QED
  BY <1>1, <1>2, <1>3, <1>4, <1>5, <1>6, <1>7, <1>8, <1>9, <1>10, <1>11,
     <1>12, <1>13 DEF Continue

LEMMA NextClaim ==
  ASSUME ~SealMayStall
  PROVE  TypeOK /\ EvidenceInv /\ DispatchInv /\ ClaimInv /\ [Next]_vars
           => ClaimInv'
<1> SUFFICES ASSUME TypeOK, EvidenceInv, DispatchInv, ClaimInv, [Next]_vars
             PROVE  ClaimInv'
  OBVIOUS
<1>a. job \in [Workers -> Job] /\ agr \in AgreementRow /\ OneSealer
  BY DEF TypeOK, ClaimInv
<1>1. ASSUME NEW w \in Workers, SealFails(w)
      PROVE  ClaimInv'
  <2>1. At(w, "seal") /\ agr.seals = 0
    BY <1>1 DEF SealFails, ClaimInv, Sealers
  <2>2. Sealers' = {}
    BY <1>1, <1>a, <2>1, JobStep, SealersStep DEF SealFails
  <2>3. agr'.seals = 0
    BY <1>1, <1>a, <2>1 DEF SealFails, AgreementRow
  <2> QED
    BY <2>2, <2>3 DEF ClaimInv, OneSealer, SealedOnce
<1>2. ASSUME NEW w \in Workers, Crash(w)
      PROVE  ClaimInv'
  BY <1>2, <1>a, JobStep, SealersStep, ClaimKept DEF Crash
<1>3. ASSUME UNCHANGED <<agr, job>>
      PROVE  ClaimInv'
  BY <1>3, ClaimKept DEF Sealers, At
<1>4. CASE WindowElapses
  <2>1. /\ agr'.status = agr.status /\ agr'.stale = agr.stale
        /\ agr'.seals = agr.seals /\ UNCHANGED job
    BY <1>4, <1>a DEF WindowElapses, AgreementRow
  <2> QED
    BY <2>1, ClaimKept DEF Sealers, At
<1>5. CASE ClaimGoesStale
  <2>1. Sealers = {} /\ Sealers' = {}
    BY <1>5 DEF ClaimGoesStale, Sealers, At
  <2>2. agr'.status = agr.status /\ agr'.seals = agr.seals
    BY <1>5, <1>a DEF ClaimGoesStale, AgreementRow
  <2> QED
    BY <2>1, <2>2 DEF ClaimInv, OneSealer, SealedOnce
<1> QED
  BY <1>1, <1>2, <1>3, <1>4, <1>5, RequestClaim, ContinueClaim
     DEF Next, PassChallenge, Remind, vars

LEMMA ClaimAlways ==
  ASSUME MaxDispatches <= 1, ~SealMayStall
  PROVE  Spec => []ClaimInv
  BY InitClaim, NextClaim, TypeCorrect, EvidenceAlways, DispatchAlways, PTL
     DEF Spec

\* Two workers never seal at the same time ...
THEOREM SealsExclude ==
  ASSUME MaxDispatches <= 1, ~SealMayStall
  PROVE  Spec => []OneSealer
<1>1. ClaimInv => OneSealer
  BY DEF ClaimInv
<1> QED
  BY <1>1, ClaimAlways, PTL

\* ... and the executed copy is written at most once.
THEOREM SealsOnce ==
  ASSUME MaxDispatches <= 1, ~SealMayStall
  PROVE  Spec => []SealedOnce
<1>1. ClaimInv => SealedOnce
  BY DEF ClaimInv
<1> QED
  BY <1>1, ClaimAlways, PTL

-----------------------------------------------------------------------------
(* Which status the envelope can have by the time a handler writes it      *)

Over == {"voided", "declined", "expired", "completed"}

\* A failed seal gives back 'out_for_signature' and nothing else.
LedgerJobInv(w) ==
  /\ At(w, "claim") =>
       job[w].seen = "out_for_signature" \/ agr.status \in Over
  /\ At(w, "seal") => job[w].seen = "out_for_signature"

LedgerInv ==
  /\ NoLinks => agr.status \in {"draft", "voided"}
  /\ agr.status = "draft" => NoLinks
  /\ agr.seals = 0 => agr.executed = NoSignatures
  /\ \A w \in Workers : LedgerJobInv(w)

LEMMA InitLedger == Init => LedgerInv
  BY DEF Init, LedgerInv, LedgerJobInv, NoLinks, Has, At, Idle

\* Only send() mints links, and only submit_signature() signs.
LEMMA CommitRows ==
  ASSUME TypeOK, NEW w \in Workers, NEW s \in Signers
  PROVE  /\ (\/ ViewCommit(w) \/ ConsentCommit(w)
             \/ WithdrawCommit(w) \/ DeclineCommit(w)) =>
              /\ signer'[s].token = signer[s].token
              /\ signer'[s].signature = signer[s].signature
         /\ SubmitCommit(w) =>
              /\ signer'[s].token = signer[s].token
              /\ job[w].who # s => signer'[s] = signer[s]
         /\ SendCommit(w) => signer'[s].signature = signer[s].signature
<1>a. signer \in [Signers -> SignerRow] /\ signer[s] \in SignerRow
  BY DEF TypeOK
<1> DEFINE Same == /\ signer'[s].token = signer[s].token
                   /\ signer'[s].signature = signer[s].signature
<1>1. ASSUME ViewCommit(w)
      PROVE  Same
  BY <1>1, <1>a DEF ViewCommit, SignerRow
<1>2. ASSUME ConsentCommit(w)
      PROVE  Same
  BY <1>2, <1>a DEF ConsentCommit, SignerRow
<1>3. ASSUME WithdrawCommit(w)
      PROVE  Same
  BY <1>3, <1>a DEF WithdrawCommit, SignerRow
<1>4. ASSUME DeclineCommit(w)
      PROVE  Same
  BY <1>4, <1>a DEF DeclineCommit, SignerRow
<1>5. ASSUME SubmitCommit(w)
      PROVE  /\ signer'[s].token = signer[s].token
             /\ job[w].who # s => signer'[s] = signer[s]
  BY <1>5, <1>a DEF SubmitCommit, SignerRow
<1>6. ASSUME SendCommit(w)
      PROVE  signer'[s].signature = signer[s].signature
  BY <1>6, <1>a DEF SendCommit, SignerRow
<1> QED
  BY <1>1, <1>2, <1>3, <1>4, <1>5, <1>6

\* What a step of one worker must respect for LedgerInv to survive it.
LEMMA LedgerKept ==
  ASSUME LedgerInv, NEW w \in Workers, Others(w),
         \A s \in Signers : signer'[s].token = signer[s].token,
         agr'.seals = 0 => agr.seals = 0 /\ agr'.executed = agr.executed,
         agr'.status = "draft" => agr.status = "draft",
         NoLinks => agr'.status \in {"draft", "voided"},
         agr.status \in Over => agr'.status \in Over,
         LedgerJobInv(w)'
  PROVE  LedgerInv'
<1>1. NoLinks' <=> NoLinks
  BY DEF NoLinks, Has
<1>2. ASSUME NEW v \in Workers
      PROVE  LedgerJobInv(v)'
  BY <1>2 DEF LedgerInv, LedgerJobInv, At, Others
<1> QED
  BY <1>1, <1>2 DEF LedgerInv

LEMMA RequestLedger ==
  ASSUME TypeOK, DispatchInv, LedgerInv, NEW w \in Workers, Request(w)
  PROVE  LedgerInv'
<1>a. job \in [Workers -> Job] /\ agr \in AgreementRow
  BY DEF TypeOK
<1>b. ASSUME UNCHANGED <<agr, signer>>, Others(w),
             job'[w].phase \notin {"claim", "seal"}
      PROVE  LedgerInv'
  BY <1>b, LedgerKept DEF LedgerInv, LedgerJobInv, At
<1>1. CASE SendCheck(w)
  BY <1>1, <1>a, <1>b, JobStep DEF SendCheck
<1>2. CASE Void(w)
  <2>1. Others(w) /\ job'[w].phase = "notify"
    BY <1>2, <1>a, JobStep DEF Void
  <2>2. /\ agr'.status = "voided" /\ agr'.seals = agr.seals
        /\ agr'.executed = agr.executed
    BY <1>2, <1>a DEF Void, AgreementRow
  <2> QED
    BY <1>2, <2>1, <2>2, LedgerKept DEF Void, LedgerJobInv, At, Over
<1>3. CASE Sweep(w)
  <2>1. Others(w) /\ job'[w].phase = "notify"
    BY <1>3, <1>a, JobStep DEF Sweep
  <2>2. /\ agr'.status = "expired" /\ agr'.seals = agr.seals
        /\ agr'.executed = agr.executed
    BY <1>3, <1>a DEF Sweep, AgreementRow
  <2> QED
    BY <1>3, <2>1, <2>2, LedgerKept
       DEF Sweep, LedgerInv, LedgerJobInv, At, Over
<1>4. ASSUME NEW s \in Signers, ViewCheck(w, s)
      PROVE  LedgerInv'
  BY <1>4, <1>a, <1>b, JobStep DEF ViewCheck
<1>5. ASSUME NEW s \in Signers, ConsentCheck(w, s)
      PROVE  LedgerInv'
  BY <1>5, <1>a, <1>b, JobStep DEF ConsentCheck
<1>6. ASSUME NEW s \in Signers, SubmitCheck(w, s)
      PROVE  LedgerInv'
  BY <1>6, <1>a, <1>b, JobStep DEF SubmitCheck
<1>7. ASSUME NEW s \in Signers, Resubmit(w, s)
      PROVE  LedgerInv'
  BY <1>7, <1>a, <1>b, JobStep DEF Resubmit
<1>8. ASSUME NEW s \in Signers, DeclineCheck(w, s)
      PROVE  LedgerInv'
  BY <1>8, <1>a, <1>b, JobStep DEF DeclineCheck
<1>9. ASSUME NEW s \in Signers, WithdrawCheck(w, s)
      PROVE  LedgerInv'
  BY <1>9, <1>a, <1>b, JobStep DEF WithdrawCheck
<1> QED
  BY <1>1, <1>2, <1>3, <1>4, <1>5, <1>6, <1>7, <1>8, <1>9 DEF Request

LEMMA ContinueLedger ==
  ASSUME TypeOK, EvidenceInv, DispatchInv, ClaimInv, LedgerInv,
         NEW w \in Workers, Continue(w)
  PROVE  LedgerInv'
<1>a. /\ job \in [Workers -> Job] /\ job[w] \in Job /\ agr \in AgreementRow
      /\ agr.status \in Statuses
      /\ job[w].phase \in WithLink => ~NoLinks
  BY DEF TypeOK, AgreementRow, DispatchInv, DispatchJobInv, NoLinks
<1>b. ASSUME \A s \in Signers : signer'[s].token = signer[s].token,
             agr' = agr, Others(w), job'[w].phase \notin {"claim", "seal"}
      PROVE  LedgerInv'
  BY <1>b, LedgerKept DEF LedgerInv, LedgerJobInv, At
\* decline() and withdraw_consent() are for signers with a link.
<1>c. ASSUME \A s \in Signers : signer'[s].token = signer[s].token,
             agr' = DeclinedUnlessClosed, ~NoLinks,
             Others(w), job'[w].phase \notin {"claim", "seal"}
      PROVE  LedgerInv'
  <2>1. /\ agr'.status \in {agr.status, "declined"}
        /\ agr'.seals = agr.seals /\ agr'.executed = agr.executed
    BY <1>a, <1>c DEF DeclinedUnlessClosed, AgreementRow
  <2> QED
    BY <1>c, <2>1, LedgerKept DEF LedgerJobInv, At, Over
<1>1. CASE SendCommit(w)
  <2>1. At(w, "send") /\ Goto(w, "invite")
    BY <1>1 DEF SendCommit
  <2>2. NoLinks /\ Others(w) /\ job'[w].phase = "invite"
    BY <1>a, <2>1, JobStep DEF DispatchInv, DispatchJobInv
  <2>3. \A v \in Workers : ~At(v, "claim") /\ ~At(v, "seal")
    BY <2>2 DEF DispatchInv, DispatchJobInv, NoLinks, WithLink, At
  <2>4. \A v \in Workers : LedgerJobInv(v)'
    BY <2>2, <2>3 DEF LedgerJobInv, At, Others
  <2>5. /\ agr'.status = "out_for_signature" /\ agr'.seals = agr.seals
        /\ agr'.executed = agr.executed
    BY <1>1, <1>a DEF SendCommit, AgreementRow
  <2>6. \A s \in Signers : Has(s)'
    <3> SUFFICES ASSUME NEW s \in Signers
                 PROVE  Has(s)'
      OBVIOUS
    <3>1. signer[s].token \in Nat /\ signer'[s].token = signer[s].token + 1
      BY <1>1 DEF SendCommit, TypeOK, SignerRow
    <3> QED
      BY <3>1 DEF Has
  <2> QED
    BY <2>4, <2>5, <2>6, SignersAssumption DEF LedgerInv, NoLinks
<1>2. CASE SendInvite(w)
  BY <1>2, <1>a, <1>b, JobStep DEF SendInvite
<1>3. CASE ViewCommit(w)
  <2>1. \A s \in Signers : signer'[s].token = signer[s].token
    BY <1>3, CommitRows
  <2> QED
    BY <1>3, <1>a, <1>b, <2>1, JobStep DEF ViewCommit
<1>4. CASE ConsentCommit(w)
  <2>1. \A s \in Signers : signer'[s].token = signer[s].token
    BY <1>4, CommitRows
  <2> QED
    BY <1>4, <1>a, <1>b, <2>1, JobStep DEF ConsentCommit
<1>5. CASE SubmitCommit(w)
  <2>1. \A s \in Signers : signer'[s].token = signer[s].token
    BY <1>5, CommitRows
  <2> QED
    <3>1. Goto(w, "count") /\ agr' = agr
      BY <1>5 DEF SubmitCommit
    <3>2. Others(w) /\ job'[w].phase = "count"
      BY <1>a, <3>1, JobStep
    <3> QED
      BY <1>b, <2>1, <3>1, <3>2
<1>6. CASE Count(w)
  BY <1>6, <1>a, <1>b, JobStep DEF Count
<1>7. CASE Cascade(w)
  BY <1>7, <1>a, <1>b, JobStep DEF Cascade
<1>8. CASE WithdrawCommit(w)
  <2>1. \A s \in Signers : signer'[s].token = signer[s].token
    BY <1>8, CommitRows
  <2> QED
    BY <1>8, <1>a, <1>b, <1>c, <2>1, JobStep DEF WithdrawCommit, WithLink, At
<1>9. CASE DeclineCommit(w)
  <2>1. \A s \in Signers : signer'[s].token = signer[s].token
    BY <1>9, CommitRows
  <2> QED
    BY <1>9, <1>a, <1>c, <2>1, JobStep DEF DeclineCommit, WithLink, At
<1>10. CASE FinalizeRead(w)
  <2>1. ~NoLinks
    BY <1>10, <1>a DEF FinalizeRead, WithLink, At
  <2>2. agr' = agr /\ UNCHANGED signer
    BY <1>10 DEF FinalizeRead
  <2>3. Others(w) /\ LedgerJobInv(w)'
    BY <1>10, <1>a, <2>1, <2>2, FinalizeReadJob
       DEF LedgerInv, LedgerJobInv, At, Over, Statuses
  <2> QED
    BY <2>1, <2>2, <2>3, LedgerKept
<1>11. CASE Claim(w)
  <2>1. CASE Claimable
    <3>1. At(w, "claim") /\ ~NoLinks /\ Goto(w, "seal")
      BY <1>11, <1>a, <2>1 DEF Claim, At, WithLink
    <3>2. job[w].seen = "out_for_signature" /\ agr.status \notin Over
      BY <2>1, <3>1 DEF LedgerInv, LedgerJobInv, Claimable, Over
    <3>3. /\ agr'.status = "sealing" /\ agr'.seals = agr.seals
          /\ agr'.executed = agr.executed
      BY <1>11, <1>a, <2>1 DEF Claim, AgreementRow
    <3>4. Others(w) /\ LedgerJobInv(w)'
      BY <1>a, <3>1, <3>2, JobStep DEF LedgerJobInv, At
    <3> QED
      BY <1>11, <3>1, <3>2, <3>3, <3>4, LedgerKept DEF Claim
  <2>2. CASE ~Claimable
    BY <1>11, <1>a, <1>b, <2>2, JobStep DEF Claim
  <2> QED
    BY <2>1, <2>2
<1>12. CASE SealCommit(w)
  <2>1. At(w, "seal") /\ ~NoLinks /\ agr.seals = 0
    BY <1>12, <1>a DEF SealCommit, ClaimInv, Sealers, At, WithLink
  <2>2. agr'.status = "completed" /\ agr'.seals = 1
    BY <1>12, <1>a, <2>1 DEF SealCommit, AgreementRow
  <2>3. Others(w) /\ job'[w].phase = "notify"
    BY <1>12, <1>a, JobStep DEF SealCommit
  <2> QED
    BY <1>12, <2>1, <2>2, <2>3, LedgerKept
       DEF SealCommit, LedgerJobInv, At, Over
<1>13. CASE EmitAndMail(w)
  BY <1>13, <1>a, <1>b, JobStep DEF EmitAndMail
<1> QED
  BY <1>1, <1>2, <1>3, <1>4, <1>5, <1>6, <1>7, <1>8, <1>9, <1>10, <1>11,
     <1>12, <1>13 DEF Continue

LEMMA NextLedger ==
  TypeOK /\ EvidenceInv /\ DispatchInv /\ ClaimInv /\ LedgerInv /\ [Next]_vars
    => LedgerInv'
<1> SUFFICES ASSUME TypeOK, EvidenceInv, DispatchInv, ClaimInv, LedgerInv,
                    [Next]_vars
             PROVE  LedgerInv'
  OBVIOUS
<1>a. /\ job \in [Workers -> Job] /\ agr \in AgreementRow
      /\ signer \in [Signers -> SignerRow]
  BY DEF TypeOK
<1>b. ASSUME \A s \in Signers : signer'[s].token = signer[s].token,
             UNCHANGED job, agr'.status = agr.status, agr'.seals = agr.seals,
             agr'.executed = agr.executed
      PROVE  LedgerInv'
  BY <1>b DEF LedgerInv, LedgerJobInv, NoLinks, Has, At
<1>1. ASSUME NEW w \in Workers, SealFails(w)
      PROVE  LedgerInv'
  <2>1. At(w, "seal") /\ job[w].seen = "out_for_signature" /\ ~NoLinks
    BY <1>1 DEF SealFails, LedgerInv, LedgerJobInv, DispatchInv,
                DispatchJobInv, NoLinks, WithLink, At
  <2>2. /\ agr'.seals = agr.seals /\ agr'.executed = agr.executed
        /\ \/ agr'.status = agr.status
           \/ agr.status = "sealing" /\ agr'.status = "out_for_signature"
    BY <1>1, <1>a, <2>1 DEF SealFails, AgreementRow
  <2>3. Others(w) /\ job'[w].phase = "idle"
    BY <1>1, <1>a, JobStep DEF SealFails
  <2> QED
    BY <1>1, <2>1, <2>2, <2>3, LedgerKept
       DEF SealFails, LedgerJobInv, At, Over
<1>2. ASSUME NEW w \in Workers, Crash(w)
      PROVE  LedgerInv'
  <2>1. Others(w) /\ job'[w].phase = "idle"
    BY <1>2, <1>a, JobStep DEF Crash
  <2> QED
    BY <1>2, <2>1, LedgerKept DEF Crash, LedgerInv, LedgerJobInv, At
<1>3. ASSUME NEW x \in Signers, PassChallenge(x)
      PROVE  LedgerInv'
  <2>1. \A s \in Signers : signer'[s].token = signer[s].token
    BY <1>3, <1>a DEF PassChallenge, SignerRow
  <2> QED
    BY <1>3, <1>b, <2>1 DEF PassChallenge
<1>4. CASE Remind
  BY <1>4, <1>b DEF Remind
<1>5. CASE WindowElapses
  BY <1>5, <1>a, <1>b DEF WindowElapses, AgreementRow
<1>6. CASE ClaimGoesStale
  BY <1>6, <1>a, <1>b DEF ClaimGoesStale, AgreementRow
<1>7. CASE UNCHANGED vars
  BY <1>7, <1>b DEF vars
<1> QED
  BY <1>1, <1>2, <1>3, <1>4, <1>5, <1>6, <1>7, RequestLedger, ContinueLedger
     DEF Next

LEMMA LedgerAlways ==
  ASSUME MaxDispatches <= 1, ~SealMayStall
  PROVE  Spec => []LedgerInv
  BY InitLedger, NextLedger, TypeCorrect, EvidenceAlways, DispatchAlways,
     ClaimAlways, PTL DEF Spec

-----------------------------------------------------------------------------
(* The simulation                                                          *)

Recorded == {s \in Signers : HasSigned(s)}
Stamped == {s \in Signers : agr.executed[s] > 0}

\* A step that moves neither the status nor a signature is a stutter.
LEMMA Stutters ==
  ASSUME agr'.status = agr.status, agr'.executed = agr.executed,
         \A s \in Signers : signer'[s].signature = signer[s].signature
  PROVE  UNCHANGED Ledger!ledger
  BY DEF Ledger!ledger, HasSigned

LEMMA RequestSimulates ==
  ASSUME TypeOK, NEW w \in Workers, Request(w)
  PROVE  [Ledger!Next]_(Ledger!ledger)
<1>a. agr \in AgreementRow
  BY DEF TypeOK
<1>1. CASE Void(w)
  <2>1. Ledger!Void
    BY <1>1, <1>a DEF Void, AgreementRow, Ledger!Void, HasSigned
  <2> QED
    BY <2>1 DEF Ledger!Next
<1>2. CASE Sweep(w)
  <2>1. Ledger!Expire
    BY <1>2, <1>a DEF Sweep, AgreementRow, Ledger!Expire, HasSigned
  <2> QED
    BY <2>1 DEF Ledger!Next
<1>3. CASE UNCHANGED <<agr, signer>>
  BY <1>3, Stutters
<1> QED
  BY <1>1, <1>2, <1>3
     DEF Request, SendCheck, ViewCheck, ConsentCheck, SubmitCheck, Resubmit,
         DeclineCheck, WithdrawCheck

LEMMA ContinueSimulates ==
  ASSUME TypeOK, EvidenceInv, DispatchInv, ClaimInv, LedgerInv,
         NEW w \in Workers, Continue(w)
  PROVE  [Ledger!Next]_(Ledger!ledger)
<1>a. agr \in AgreementRow /\ agr.seals \in Nat
  BY DEF TypeOK, AgreementRow
<1>b. ASSUME \A s \in Signers : signer'[s].signature = signer[s].signature,
             agr' = DeclinedUnlessClosed
      PROVE  [Ledger!Next]_(Ledger!ledger)
  <2>1. CASE agr.status \in {"completed", "voided"}
    BY <1>b, <2>1, Stutters DEF DeclinedUnlessClosed
  <2>2. CASE agr.status \notin {"completed", "voided"}
    <3>1. Ledger!Decline
      BY <1>a, <1>b, <2>2
         DEF DeclinedUnlessClosed, AgreementRow, Ledger!Decline, HasSigned
    <3> QED
      BY <3>1 DEF Ledger!Next
  <2> QED
    BY <2>1, <2>2
<1>1. CASE SendCommit(w)
  <2>1. NoLinks
    BY <1>1 DEF SendCommit, DispatchInv, DispatchJobInv
  <2>2. agr.status \in {"draft", "voided"}
    BY <2>1 DEF LedgerInv
  <2>3. agr'.status = "out_for_signature" /\ agr'.executed = agr.executed
    BY <1>1, <1>a DEF SendCommit, AgreementRow
  <2>4. \A s \in Signers : signer'[s].signature = signer[s].signature
    BY <1>1, CommitRows
  <2>5. Ledger!Dispatch
    BY <2>2, <2>3, <2>4 DEF Ledger!Dispatch, HasSigned
  <2> QED
    BY <2>5 DEF Ledger!Next
<1>2. CASE ViewCommit(w) \/ ConsentCommit(w)
  <2>1. \A s \in Signers : signer'[s].signature = signer[s].signature
    BY <1>2, CommitRows
  <2> QED
    BY <1>2, <2>1, Stutters DEF ViewCommit, ConsentCommit
<1>3. CASE SubmitCommit(w)
  <2>1. PICK s \in Signers : s = job[w].who /\ MayHaveSigned(s)
    BY <1>3 DEF SubmitCommit, EvidenceInv, JobInv
  <2>2. HasSigned(s)'
    <3>1. signer[s].signature \in Nat
      BY DEF TypeOK, SignerRow
    <3>2. signer'[s].signature = signer[s].signature + 1
      BY <1>3, <2>1 DEF SubmitCommit, TypeOK, SignerRow
    <3> QED
      BY <3>1, <3>2 DEF HasSigned
  <2>3. \A o \in Signers : o # s => (HasSigned(o)' <=> HasSigned(o))
    BY <1>3, <2>1, CommitRows DEF HasSigned
  <2>4. Recorded' = Recorded \cup {s}
    BY <2>2, <2>3 DEF Recorded
  <2>5. Ledger!Sign(s)
    BY <1>3, <2>1, <2>4
       DEF SubmitCommit, MayHaveSigned, Recorded, Ledger!Sign
  <2> QED
    BY <2>5 DEF Ledger!Next
<1>4. CASE WithdrawCommit(w)
  <2>1. \A s \in Signers : signer'[s].signature = signer[s].signature
    BY <1>4, CommitRows
  <2> QED
    BY <1>4, <1>b, <2>1, Stutters DEF WithdrawCommit
<1>5. CASE DeclineCommit(w)
  <2>1. \A s \in Signers : signer'[s].signature = signer[s].signature
    BY <1>5, CommitRows
  <2> QED
    BY <1>5, <1>b, <2>1 DEF DeclineCommit
<1>6. CASE Claim(w)
  <2>1. CASE agr.status \in {"draft", "out_for_signature"}
    <3>1. Recorded = Signers
      BY <1>6 DEF Claim, At, EvidenceInv, JobInv, Everybody, Recorded
    <3>2. agr'.status = "sealing" /\ agr'.executed = agr.executed
      BY <1>6, <1>a, <2>1 DEF Claim, Claimable, AgreementRow
    <3>3. Ledger!Claim
      BY <1>6, <2>1, <3>1, <3>2 DEF Claim, Ledger!Claim, Recorded, HasSigned
    <3> QED
      BY <3>3 DEF Ledger!Next
  <2>2. CASE agr.status \notin {"draft", "out_for_signature"}
    <3>1. agr'.status = agr.status /\ agr'.executed = agr.executed
      BY <1>6, <1>a, <2>2 DEF Claim, Claimable, AgreementRow
    <3> QED
      BY <1>6, <3>1, Stutters DEF Claim
  <2> QED
    BY <2>1, <2>2
<1>7. CASE SealCommit(w)
  <2>1. /\ At(w, "seal") /\ agr.seals = 0
        /\ agr.status \in {"sealing", "voided", "declined"}
    BY <1>7 DEF SealCommit, ClaimInv, Sealers, Unavailable
  <2>2. Recorded = Signers
    BY <2>1 DEF At, EvidenceInv, JobInv, Everybody, Recorded
  <2>3. Stamped = {}
    BY <2>1 DEF LedgerInv, NoSignatures, Stamped
  <2>4. agr'.status = "completed" /\ agr'.executed = job[w].copy
    BY <1>7, <1>a DEF SealCommit, AgreementRow
  <2>5. Stamped' = Signers
    BY <2>1, <2>4 DEF At, EvidenceInv, JobInv, Stamped
  <2>6. UNCHANGED Recorded
    BY <1>7 DEF SealCommit, Recorded, HasSigned
  <2>7. Ledger!Complete
    BY <2>1, <2>2, <2>3, <2>4, <2>5, <2>6
       DEF Ledger!Complete, Recorded, Stamped
  <2> QED
    BY <2>7 DEF Ledger!Next
<1>8. CASE UNCHANGED <<agr, signer>>
  BY <1>8, Stutters
<1> QED
  BY <1>1, <1>2, <1>3, <1>4, <1>5, <1>6, <1>7, <1>8
     DEF Continue, SendInvite, Count, Cascade, FinalizeRead, EmitAndMail

LEMMA NextSimulates ==
  TypeOK /\ EvidenceInv /\ DispatchInv /\ ClaimInv /\ LedgerInv /\ [Next]_vars
    => [Ledger!Next]_(Ledger!ledger)
<1> SUFFICES ASSUME TypeOK, EvidenceInv, DispatchInv, ClaimInv, LedgerInv,
                    [Next]_vars
             PROVE  [Ledger!Next]_(Ledger!ledger)
  OBVIOUS
<1>a. agr \in AgreementRow /\ signer \in [Signers -> SignerRow]
  BY DEF TypeOK
<1>1. ASSUME NEW w \in Workers, SealFails(w)
      PROVE  [Ledger!Next]_(Ledger!ledger)
  <2>1. job[w].seen = "out_for_signature"
    BY <1>1 DEF SealFails, LedgerInv, LedgerJobInv
  <2>2. CASE agr.status = "sealing"
    <3>1. Ledger!Release
      BY <1>1, <1>a, <2>1, <2>2
         DEF SealFails, AgreementRow, Ledger!Release, HasSigned
    <3> QED
      BY <3>1 DEF Ledger!Next
  <2>3. CASE agr.status # "sealing"
    BY <1>1, <2>3, Stutters DEF SealFails
  <2> QED
    BY <2>2, <2>3
<1>2. ASSUME NEW x \in Signers, PassChallenge(x)
      PROVE  [Ledger!Next]_(Ledger!ledger)
  <2>1. \A s \in Signers : signer'[s].signature = signer[s].signature
    BY <1>2, <1>a DEF PassChallenge, SignerRow
  <2> QED
    BY <1>2, <2>1, Stutters DEF PassChallenge
<1>3. CASE WindowElapses \/ ClaimGoesStale
  <2>1. agr'.status = agr.status /\ agr'.executed = agr.executed
    BY <1>3, <1>a DEF WindowElapses, ClaimGoesStale, AgreementRow
  <2> QED
    BY <1>3, <2>1, Stutters DEF WindowElapses, ClaimGoesStale
<1>4. CASE UNCHANGED <<agr, signer>>
  BY <1>4, Stutters
<1> QED
  BY <1>1, <1>2, <1>3, <1>4, RequestSimulates, ContinueSimulates
     DEF Next, vars, Crash, Remind

LEMMA InitSimulates == Init => Ledger!Init
  BY DEF Init, NoSignatures, HasSigned, Ledger!Init

\* However the handlers interleave, and wherever a worker dies, the rows of
\* the envelope behave as SignatureLedger says.
THEOREM EnvelopeImplementsLedger ==
  ASSUME MaxDispatches <= 1, ~SealMayStall
  PROVE  Spec => ImplementsLedger
<1>1. Spec => [][Ledger!Next]_(Ledger!ledger)
  BY NextSimulates, TypeCorrect, EvidenceAlways, DispatchAlways, ClaimAlways,
     LedgerAlways, PTL DEF Spec
<1> QED
  BY <1>1, InitSimulates, PTL DEF Spec, ImplementsLedger, Ledger!Spec
=============================================================================
