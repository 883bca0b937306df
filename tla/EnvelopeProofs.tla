--------------------------- MODULE EnvelopeProofs ---------------------------
(***************************************************************************)
(* Theorems about Envelope, for every set of signers, every signing order  *)
(* and any number of workers; the last section, for one worker.            *)
(***************************************************************************)
EXTENDS Envelope, TLAPS

-----------------------------------------------------------------------------
(* Type correctness                                                        *)

LEMMA InitTypeOK == Init => TypeOK
  BY SignersAssumption
  DEF Init, TypeOK, AgreementRow, SignerRow, Job, Idle, NoSignatures,
      Statuses, SignerStatuses, Phases, Events

LEMMA IdleType == Idle \in Job
  BY DEF Idle, Job, NoSignatures, Statuses, Phases, Events

\* The ways a handler goes on keep the jobs well typed.
LEMMA JobType ==
  ASSUME job \in [Workers -> Job], NEW w \in Workers
  PROVE  /\ \A p \in Phases, s \in Signers \cup {NoSigner}, t \in Statuses :
              Start(w, p, s, t) => job' \in [Workers -> Job]
         /\ \A p \in Phases : Goto(w, p) => job' \in [Workers -> Job]
         /\ \A e \in Events : Notify(w, e) => job' \in [Workers -> Job]
         /\ Done(w) => job' \in [Workers -> Job]
<1>1. Idle \in Job /\ job[w] \in Job
  BY IdleType
<1>2. \A p \in Phases, s \in Signers \cup {NoSigner}, t \in Statuses :
        [Idle EXCEPT !.phase = p, !.who = s, !.seen = t] \in Job
  BY <1>1 DEF Job
<1>3. \A p \in Phases : [job[w] EXCEPT !.phase = p] \in Job
  BY <1>1 DEF Job
<1>4. \A e \in Events : [Idle EXCEPT !.phase = "notify", !.event = e] \in Job
  BY <1>1 DEF Job, Phases
<1>5. \A j \in Job : [job EXCEPT ![w] = j] \in [Workers -> Job]
  OBVIOUS
<1>6. ASSUME NEW p \in Phases, NEW s \in Signers \cup {NoSigner},
             NEW t \in Statuses, Start(w, p, s, t)
      PROVE  job' \in [Workers -> Job]
  BY <1>2, <1>5, <1>6 DEF Start
<1>7. ASSUME NEW p \in Phases, Goto(w, p)
      PROVE  job' \in [Workers -> Job]
  BY <1>3, <1>5, <1>7 DEF Goto
<1>8. ASSUME NEW e \in Events, Notify(w, e)
      PROVE  job' \in [Workers -> Job]
  BY <1>4, <1>5, <1>8 DEF Notify
<1>9. ASSUME Done(w)
      PROVE  job' \in [Workers -> Job]
  BY <1>1, <1>5, <1>9 DEF Done
<1> QED
  BY <1>6, <1>7, <1>8, <1>9

\* ... and touch the job of nobody else.
Others(w) == \A v \in Workers \ {w} : job'[v] = job[v]

LEMMA JobStep ==
  ASSUME job \in [Workers -> Job], NEW w \in Workers
  PROVE  /\ \A p, s, t : Start(w, p, s, t) =>
              /\ Others(w)
              /\ job'[w].phase = p /\ job'[w].who = s /\ job'[w].seen = t
         /\ \A p : Goto(w, p) =>
              /\ Others(w)
              /\ job'[w].phase = p /\ job'[w].who = job[w].who
              /\ job'[w].seen = job[w].seen /\ job'[w].copy = job[w].copy
         /\ \A e : Notify(w, e) => Others(w) /\ job'[w].phase = "notify"
         /\ Done(w) => Others(w) /\ job'[w].phase = "idle"
<1>a. job[w] \in Job
  OBVIOUS
<1>1. ASSUME NEW p, NEW s, NEW t, Start(w, p, s, t)
      PROVE  /\ Others(w)
             /\ job'[w].phase = p /\ job'[w].who = s /\ job'[w].seen = t
  BY <1>1 DEF Start, Others, Idle
<1>2. ASSUME NEW p, Goto(w, p)
      PROVE  /\ Others(w)
             /\ job'[w].phase = p /\ job'[w].who = job[w].who
             /\ job'[w].seen = job[w].seen /\ job'[w].copy = job[w].copy
  BY <1>a, <1>2 DEF Goto, Others, Job
<1>3. ASSUME NEW e, Notify(w, e)
      PROVE  Others(w) /\ job'[w].phase = "notify"
  BY <1>3 DEF Notify, Others, Idle
<1>4. ASSUME Done(w)
      PROVE  Others(w) /\ job'[w].phase = "idle"
  BY <1>4 DEF Done, Others, Idle
<1> QED
  BY <1>1, <1>2, <1>3, <1>4

LEMMA FinalizeReadJob ==
  ASSUME job \in [Workers -> Job], NEW w \in Workers, FinalizeRead(w)
  PROVE  /\ Others(w)
         /\ \/ job'[w].phase = "idle"
            \/ /\ job'[w].phase = "claim" /\ job'[w].who = job[w].who
               /\ job'[w].copy = [s \in Signers |-> signer[s].signature]
               /\ agr.status # "completed"
               /\ job'[w].seen = IF agr.status = "sealing"
                                 THEN "out_for_signature" ELSE agr.status
<1>1. CASE Done(w)
  BY <1>1, JobStep
<1>2. CASE ~Done(w)
  <2> DEFINE seen == IF agr.status = "sealing"
                     THEN "out_for_signature" ELSE agr.status
             copy == [s \in Signers |-> signer[s].signature]
             claim == [job[w] EXCEPT !.phase = "claim", !.seen = seen,
                                     !.copy = copy]
  <2>1. job' = [job EXCEPT ![w] = claim] /\ agr.status # "completed"
    BY <1>2 DEF FinalizeRead
  <2>2. /\ claim.phase = "claim" /\ claim.who = job[w].who
        /\ claim.seen = seen /\ claim.copy = copy
    BY DEF Job
  <2>3. Others(w) /\ job'[w] = claim
    <3> HIDE DEF claim
    <3> QED
      BY <2>1 DEF Others
  <2> QED
    <3> HIDE DEF claim
    <3> QED
      BY <2>1, <2>2, <2>3
<1> QED
  BY <1>1, <1>2

LEMMA RequestTypeOK ==
  ASSUME TypeOK, NEW w \in Workers, Request(w)
  PROVE  TypeOK'
<1> USE JobType DEF TypeOK, At
<1>a. agr.status \in Statuses /\ agr \in AgreementRow
  BY DEF AgreementRow
<1>b. \A t \in Statuses : [agr EXCEPT !.status = t] \in AgreementRow
  BY DEF AgreementRow
<1>1. CASE SendCheck(w)
  BY <1>1 DEF SendCheck, Phases, Statuses
<1>2. CASE Void(w)
  BY <1>2, <1>b DEF Void, Events, Statuses
<1>3. CASE Sweep(w)
  BY <1>3, <1>b DEF Sweep, Events, Statuses
<1>4. ASSUME NEW s \in Signers, ViewCheck(w, s)
      PROVE  TypeOK'
  BY <1>4, <1>a DEF ViewCheck, Phases
<1>5. ASSUME NEW s \in Signers, ConsentCheck(w, s)
      PROVE  TypeOK'
  BY <1>5, <1>a DEF ConsentCheck, Phases
<1>6. ASSUME NEW s \in Signers, SubmitCheck(w, s)
      PROVE  TypeOK'
  BY <1>6, <1>a DEF SubmitCheck, Phases
<1>7. ASSUME NEW s \in Signers, Resubmit(w, s)
      PROVE  TypeOK'
  BY <1>7, <1>a DEF Resubmit, Phases
<1>8. ASSUME NEW s \in Signers, DeclineCheck(w, s)
      PROVE  TypeOK'
  BY <1>8, <1>a DEF DeclineCheck, Phases
<1>9. ASSUME NEW s \in Signers, WithdrawCheck(w, s)
      PROVE  TypeOK'
  BY <1>9, <1>a DEF WithdrawCheck, Phases
<1> QED
  BY <1>1, <1>2, <1>3, <1>4, <1>5, <1>6, <1>7, <1>8, <1>9 DEF Request

\* What a commit may write into a row.
LEMMA SignerRowType ==
  ASSUME NEW r \in SignerRow
  PROVE  /\ [r EXCEPT !.token = @ + 1, !.status = "sent"] \in SignerRow
         /\ [r EXCEPT !.status = "viewed", !.viewed = TRUE] \in SignerRow
         /\ [r EXCEPT !.consent = TRUE] \in SignerRow
         /\ [r EXCEPT !.passed = TRUE] \in SignerRow
         /\ [r EXCEPT !.status = "signed", !.signature = @ + 1] \in SignerRow
         /\ [r EXCEPT !.withdrawn = TRUE] \in SignerRow
         /\ [r EXCEPT !.withdrawn = TRUE, !.status = "declined"] \in SignerRow
         /\ [r EXCEPT !.status = "declined"] \in SignerRow
<1>1. r.token + 1 \in Nat
  BY DEF SignerRow
<1>2. r.signature + 1 \in Nat
  BY DEF SignerRow
<1>3. {"sent", "viewed", "signed", "declined"} \subseteq SignerStatuses
  BY DEF SignerStatuses
<1> QED
  BY <1>1, <1>2, <1>3 DEF SignerRow

LEMMA AgreementRowType ==
  ASSUME NEW r \in AgreementRow, NEW t \in Statuses, NEW b \in BOOLEAN,
         NEW c \in [Signers -> Nat]
  PROVE  /\ [r EXCEPT !.status = t] \in AgreementRow
         /\ [r EXCEPT !.status = t, !.elapsed = b] \in AgreementRow
         /\ [r EXCEPT !.status = t, !.stale = b] \in AgreementRow
         /\ [r EXCEPT !.elapsed = b] \in AgreementRow
         /\ [r EXCEPT !.stale = b] \in AgreementRow
         /\ [r EXCEPT !.status = t, !.executed = c, !.seals = @ + 1]
              \in AgreementRow
<1>1. r.seals + 1 \in Nat
  BY DEF AgreementRow
<1> QED
  BY <1>1 DEF AgreementRow

LEMMA ContinueTypeOK ==
  ASSUME TypeOK, NEW w \in Workers, Continue(w)
  PROVE  TypeOK'
<1>a. /\ agr \in AgreementRow /\ agr.status \in Statuses
      /\ signer \in [Signers -> SignerRow]
      /\ \A s \in Signers : signer[s] \in SignerRow
      /\ job \in [Workers -> Job] /\ job[w] \in Job
      /\ job[w].event \in Events /\ job[w].copy \in [Signers -> Nat]
  BY DEF TypeOK, AgreementRow, Job
<1>b. DeclinedUnlessClosed \in AgreementRow
  BY <1>a, AgreementRowType DEF DeclinedUnlessClosed, Statuses
<1>1. CASE SendCommit(w)
  <2>1. agr' \in AgreementRow
    BY <1>1, <1>a, AgreementRowType DEF SendCommit, Statuses
  <2>2. signer' \in [Signers -> SignerRow]
    BY <1>1, <1>a, SignerRowType DEF SendCommit
  <2> QED
    BY <1>1, <2>1, <2>2, JobType DEF TypeOK, SendCommit, Phases
<1>2. CASE SendInvite(w)
  BY <1>2, JobType DEF TypeOK, SendInvite, LowestGroup, Events
<1>3. CASE ViewCommit(w)
  <2>1. signer' \in [Signers -> SignerRow]
    BY <1>3, <1>a, SignerRowType DEF ViewCommit
  <2> QED
    BY <1>3, <2>1, JobType DEF TypeOK, ViewCommit
<1>4. CASE ConsentCommit(w)
  <2>1. signer' \in [Signers -> SignerRow]
    BY <1>4, <1>a, SignerRowType DEF ConsentCommit
  <2> QED
    BY <1>4, <2>1, JobType DEF TypeOK, ConsentCommit
<1>5. CASE SubmitCommit(w)
  <2>1. signer' \in [Signers -> SignerRow]
    BY <1>5, <1>a, SignerRowType DEF SubmitCommit
  <2> QED
    BY <1>5, <2>1, JobType DEF TypeOK, SubmitCommit, Phases
<1>6. CASE Count(w)
  BY <1>6, JobType DEF TypeOK, Count, Phases, Events
<1>7. CASE Cascade(w)
  BY <1>7, JobType DEF TypeOK, Cascade, LowestGroup, Unsigned
<1>8. CASE WithdrawCommit(w)
  <2>1. signer' \in [Signers -> SignerRow]
    <3>1. CASE signer' = [signer EXCEPT ![job[w].who].withdrawn = TRUE]
      BY <1>a, <3>1, SignerRowType
    <3>2. CASE signer' = [signer EXCEPT ![job[w].who].withdrawn = TRUE,
                                        ![job[w].who].status = "declined"]
      BY <1>a, <3>2, SignerRowType
    <3> QED
      BY <1>8, <3>1, <3>2 DEF WithdrawCommit
  <2> QED
    BY <1>8, <1>b, <2>1, JobType DEF TypeOK, WithdrawCommit
<1>9. CASE DeclineCommit(w)
  <2>1. signer' \in [Signers -> SignerRow]
    BY <1>9, <1>a, SignerRowType DEF DeclineCommit
  <2> QED
    BY <1>9, <1>b, <2>1, JobType DEF TypeOK, DeclineCommit, Events
<1>10. CASE FinalizeRead(w)
  <2>1. [s \in Signers |-> signer[s].signature] \in [Signers -> Nat]
    BY <1>a DEF SignerRow
  <2>2. \A t \in Statuses, c \in [Signers -> Nat] :
          [job[w] EXCEPT !.phase = "claim", !.seen = t, !.copy = c] \in Job
    BY <1>a DEF Job, Phases
  <2> DEFINE seen == IF agr.status = "sealing"
                     THEN "out_for_signature" ELSE agr.status
             copy == [s \in Signers |-> signer[s].signature]
             claim == [job[w] EXCEPT !.phase = "claim", !.seen = seen,
                                     !.copy = copy]
  <2>3. seen \in Statuses
    BY <1>a DEF Statuses
  <2>4. claim \in Job
    BY <2>1, <2>2, <2>3
  <2>5. Done(w) \/ job' = [job EXCEPT ![w] = claim]
    BY <1>10 DEF FinalizeRead
  <2>6. job' \in [Workers -> Job]
    <3> HIDE DEF claim
    <3>1. CASE Done(w)
      BY <3>1, JobType DEF TypeOK
    <3>2. CASE job' = [job EXCEPT ![w] = claim]
      BY <3>2, <2>4, <1>a DEF TypeOK
    <3> QED
      BY <2>5, <3>1, <3>2
  <2> QED
    BY <1>10, <2>6 DEF TypeOK, FinalizeRead
<1>11. CASE Claim(w)
  <2>1. agr' \in AgreementRow
    BY <1>11, <1>a, AgreementRowType DEF Claim, Statuses
  <2> QED
    BY <1>11, <2>1, JobType DEF TypeOK, Claim, Phases
<1>12. CASE SealCommit(w)
  <2>1. agr' \in AgreementRow
    BY <1>12, <1>a, AgreementRowType DEF SealCommit, Statuses
  <2> QED
    BY <1>12, <2>1, JobType DEF TypeOK, SealCommit, Events
<1>13. CASE EmitAndMail(w)
  BY <1>13, <1>a, JobType DEF TypeOK, EmitAndMail
<1> QED
  BY <1>1, <1>2, <1>3, <1>4, <1>5, <1>6, <1>7, <1>8, <1>9, <1>10, <1>11,
     <1>12, <1>13 DEF Continue

LEMMA NextTypeOK == TypeOK /\ [Next]_vars => TypeOK'
<1> SUFFICES ASSUME TypeOK, [Next]_vars
             PROVE  TypeOK'
  OBVIOUS
<1>1. ASSUME NEW w \in Workers, SealFails(w)
      PROVE  TypeOK'
  <2>1. job[w].seen \in Statuses
    BY DEF TypeOK, Job
  <2>2. agr' \in AgreementRow
    BY <1>1, <2>1 DEF SealFails, TypeOK, AgreementRow
  <2> QED
    BY <1>1, <2>2, JobType DEF SealFails, TypeOK
<1>2. ASSUME NEW w \in Workers, Crash(w)
      PROVE  TypeOK'
  BY <1>2, JobType DEF Crash, TypeOK
<1>3. ASSUME NEW s \in Signers, PassChallenge(s)
      PROVE  TypeOK'
  BY <1>3 DEF PassChallenge, TypeOK, SignerRow
<1>4. CASE Remind
  BY <1>4 DEF Remind, Unsigned, TypeOK
<1>5. CASE WindowElapses
  BY <1>5 DEF WindowElapses, TypeOK, AgreementRow
<1>6. CASE ClaimGoesStale
  BY <1>6 DEF ClaimGoesStale, TypeOK, AgreementRow
<1>7. CASE UNCHANGED vars
  BY <1>7 DEF vars, TypeOK
<1> QED
  BY <1>1, <1>2, <1>3, <1>4, <1>5, <1>6, <1>7, RequestTypeOK, ContinueTypeOK
     DEF Next

\* The rows and the jobs keep their types.
THEOREM TypeCorrect == Spec => []TypeOK
  BY InitTypeOK, NextTypeOK, PTL DEF Spec

-----------------------------------------------------------------------------
(* What no step takes back                                                 *)

\* A link stays a link, a signature stays recorded, and so do the consent
\* and the passed lock it rests on.
Kept(s) ==
  /\ Has(s) => Has(s)'
  /\ HasSigned(s) => HasSigned(s)'
  /\ signer[s].consent => signer'[s].consent
  /\ signer[s].passed => signer'[s].passed

LEMMA NextKeeps ==
  ASSUME TypeOK, [Next]_vars, NEW s \in Signers
  PROVE  Kept(s)
<1> USE DEF Kept, Has, HasSigned
<1>a. /\ signer \in [Signers -> SignerRow] /\ signer[s] \in SignerRow
      /\ signer[s].token \in Nat /\ signer[s].signature \in Nat
  BY DEF TypeOK, SignerRow
<1>1. CASE UNCHANGED signer
  BY <1>1
<1>2. ASSUME NEW w \in Workers, SendCommit(w)
      PROVE  Kept(s)
  <2>1. /\ signer'[s].token = signer[s].token + 1
        /\ signer'[s].signature = signer[s].signature
        /\ signer'[s].consent = signer[s].consent
        /\ signer'[s].passed = signer[s].passed
    BY <1>2, <1>a DEF SendCommit, SignerRow
  <2> QED
    BY <2>1, <1>a
<1>3. ASSUME NEW w \in Workers, ViewCommit(w)
      PROVE  Kept(s)
  BY <1>3, <1>a DEF ViewCommit, SignerRow
<1>4. ASSUME NEW w \in Workers, ConsentCommit(w)
      PROVE  Kept(s)
  BY <1>4, <1>a DEF ConsentCommit, SignerRow
<1>5. ASSUME NEW w \in Workers, SubmitCommit(w)
      PROVE  Kept(s)
  BY <1>5, <1>a DEF SubmitCommit, SignerRow
<1>6. ASSUME NEW w \in Workers, WithdrawCommit(w)
      PROVE  Kept(s)
  BY <1>6, <1>a DEF WithdrawCommit, SignerRow
<1>7. ASSUME NEW w \in Workers, DeclineCommit(w)
      PROVE  Kept(s)
  BY <1>7, <1>a DEF DeclineCommit, SignerRow
<1>8. ASSUME NEW x \in Signers, PassChallenge(x)
      PROVE  Kept(s)
  BY <1>8, <1>a DEF PassChallenge, SignerRow
<1>9. ASSUME NEW w \in Workers, Request(w)
      PROVE  UNCHANGED signer
  BY <1>9 DEF Request, SendCheck, Void, Sweep, ViewCheck, ConsentCheck,
              SubmitCheck, Resubmit, DeclineCheck, WithdrawCheck
<1>10. ASSUME NEW w \in Workers, Continue(w)
       PROVE  \/ SendCommit(w) \/ ViewCommit(w) \/ ConsentCommit(w)
              \/ SubmitCommit(w) \/ WithdrawCommit(w) \/ DeclineCommit(w)
              \/ UNCHANGED signer
  BY <1>10 DEF Continue, SendInvite, Count, Cascade, FinalizeRead, Claim,
               SealCommit, EmitAndMail
<1>11. ASSUME NEW w \in Workers, SealFails(w) \/ Crash(w)
       PROVE  UNCHANGED signer
  BY <1>11 DEF SealFails, Crash
<1>12. Remind \/ WindowElapses \/ ClaimGoesStale \/ UNCHANGED vars
         => UNCHANGED signer
  BY DEF Remind, WindowElapses, ClaimGoesStale, vars
<1> QED
  <2> HIDE DEF Kept, Has, HasSigned
  <2>1. CASE UNCHANGED vars
    BY <2>1, <1>1, <1>12
  <2>2. ASSUME NEW w \in Workers, Request(w) \/ SealFails(w) \/ Crash(w)
        PROVE  Kept(s)
    BY <2>2, <1>1, <1>9, <1>11
  <2>3. ASSUME NEW w \in Workers, Continue(w)
        PROVE  Kept(s)
    BY <2>3, <1>1, <1>2, <1>3, <1>4, <1>5, <1>6, <1>7, <1>10
  <2> QED
    BY <2>1, <2>2, <2>3, <1>1, <1>8, <1>12 DEF Next

-----------------------------------------------------------------------------
(* Who signs, when, and on what evidence                                   *)

\* What submit_signature() asks before it writes.  A step cannot undo it.
MayHaveSigned(s) ==
  /\ Sequential => \A o \in Signers : Order[o] < Order[s] => HasSigned(o)
  /\ s \in Consumers => signer[s].consent
  /\ s \in Locked => signer[s].passed

Everybody == \A s \in Signers : HasSigned(s)

RowInv(s) ==
  /\ Signed(s) => HasSigned(s)
  /\ HasSigned(s) => MayHaveSigned(s)

\* What a handler has read and no longer asks.
JobInv(w) ==
  /\ At(w, "submit") => job[w].who \in Signers /\ MayHaveSigned(job[w].who)
  /\ job[w].phase \in {"finalize", "claim", "seal"} => Everybody
  /\ job[w].phase \in {"claim", "seal"} =>
       \A s \in Signers : job[w].copy[s] > 0

AgreementInv ==
  /\ agr.status \in {"sealing", "completed"} => Everybody
  /\ agr.seals > 0 => Everybody /\ \A s \in Signers : agr.executed[s] > 0

InvitedInv == "remind" \notin Ops => InvitedInTurn

EvidenceInv ==
  /\ \A s \in Signers : RowInv(s)
  /\ \A w \in Workers : JobInv(w)
  /\ AgreementInv
  /\ InvitedInv

LEMMA InitEvidence == Init => EvidenceInv
  BY SignersAssumption
  DEF Init, EvidenceInv, RowInv, JobInv, AgreementInv, InvitedInv,
      InvitedInTurn, Signed, HasSigned, At, Idle

\* What EvidenceInv says of rows a step leaves alone still holds after it.
LEMMA EvidenceKept ==
  ASSUME TypeOK, EvidenceInv, [Next]_vars
  PROVE  /\ \A s \in Signers : MayHaveSigned(s) => MayHaveSigned(s)'
         /\ Everybody => Everybody'
         /\ \A s \in Signers : signer'[s] = signer[s] => RowInv(s)'
         /\ \A w \in Workers : job'[w] = job[w] => JobInv(w)'
         /\ agr' = agr => AgreementInv'
         /\ invited' = invited => InvitedInv'
<1>a. \A s \in Signers : Kept(s)
  BY NextKeeps
<1>1. \A s \in Signers : MayHaveSigned(s) => MayHaveSigned(s)'
  BY <1>a DEF Kept, MayHaveSigned
<1>2. Everybody => Everybody'
  BY <1>a DEF Kept, Everybody
<1>3. ASSUME NEW s \in Signers, signer'[s] = signer[s]
      PROVE  RowInv(s)'
  BY <1>1, <1>3 DEF EvidenceInv, RowInv, Signed, HasSigned
<1>4. ASSUME NEW w \in Workers, job'[w] = job[w]
      PROVE  JobInv(w)'
  BY <1>1, <1>2, <1>4 DEF EvidenceInv, JobInv, At
<1>5. ASSUME agr' = agr
      PROVE  AgreementInv'
  BY <1>2, <1>5 DEF EvidenceInv, AgreementInv
<1>6. ASSUME invited' = invited
      PROVE  InvitedInv'
  BY <1>a, <1>6 DEF EvidenceInv, InvitedInv, InvitedInTurn, Kept, TypeOK
<1> QED
  BY <1>1, <1>2, <1>3, <1>4, <1>5, <1>6

LEMMA RequestEvidence ==
  ASSUME TypeOK, EvidenceInv, NEW w \in Workers, Request(w)
  PROVE  EvidenceInv'
<1>a. [Next]_vars
  BY DEF Next
<1>b. job \in [Workers -> Job] /\ \A s \in Signers : RowInv(s)
  BY DEF TypeOK, EvidenceInv
<1>c. ASSUME \A v \in Workers \ {w} : job'[v] = job[v], JobInv(w)',
             agr' = agr, UNCHANGED <<signer, invited>>
      PROVE  EvidenceInv'
  BY <1>a, <1>c, EvidenceKept DEF EvidenceInv
<1>1. CASE SendCheck(w)
  BY <1>1, <1>b, <1>c, JobStep DEF SendCheck, JobInv, At, Others
<1>2. CASE Void(w)
  <2>1. AgreementInv'
    BY <1>2, <1>a, EvidenceKept
    DEF Void, EvidenceInv, AgreementInv, TypeOK, AgreementRow
  <2>2. \A v \in Workers : JobInv(v)'
    BY <1>2, <1>a, <1>b, EvidenceKept, JobStep DEF Void, JobInv, At, Others
  <2> QED
    BY <1>2, <1>a, <2>1, <2>2, EvidenceKept DEF Void, EvidenceInv
<1>3. CASE Sweep(w)
  <2>1. AgreementInv'
    BY <1>3, <1>a, EvidenceKept
    DEF Sweep, EvidenceInv, AgreementInv, TypeOK, AgreementRow
  <2>2. \A v \in Workers : JobInv(v)'
    BY <1>3, <1>a, <1>b, EvidenceKept, JobStep DEF Sweep, JobInv, At, Others
  <2> QED
    BY <1>3, <1>a, <2>1, <2>2, EvidenceKept DEF Sweep, EvidenceInv
<1>4. ASSUME NEW s \in Signers, ViewCheck(w, s)
      PROVE  EvidenceInv'
  BY <1>4, <1>b, <1>c, JobStep DEF ViewCheck, JobInv, At, Others
<1>5. ASSUME NEW s \in Signers, ConsentCheck(w, s)
      PROVE  EvidenceInv'
  BY <1>5, <1>b, <1>c, JobStep DEF ConsentCheck, JobInv, At, Others
<1>6. ASSUME NEW s \in Signers, SubmitCheck(w, s)
      PROVE  EvidenceInv'
  <2>1. MayHaveSigned(s)
    BY <1>6, <1>b DEF SubmitCheck, MaySubmit, ChallengeUnmet, AheadUnsigned,
                      RowInv, MayHaveSigned
  <2>2. MayHaveSigned(s)'
    BY <1>a, <2>1, EvidenceKept
  <2>3. JobInv(w)'
    BY <1>6, <1>b, <2>2, JobStep DEF SubmitCheck, JobInv, At
  <2> QED
    BY <1>6, <1>b, <1>c, <2>3, JobStep DEF SubmitCheck, Others
<1>7. ASSUME NEW s \in Signers, Resubmit(w, s)
      PROVE  EvidenceInv'
  <2>1. Everybody
    BY <1>7, <1>b DEF Resubmit, AllSigned, RowInv, Everybody
  <2>2. Everybody'
    BY <1>a, <2>1, EvidenceKept
  <2>3. JobInv(w)'
    BY <1>7, <1>b, <2>2, JobStep DEF Resubmit, JobInv, At
  <2> QED
    BY <1>7, <1>b, <1>c, <2>3, JobStep DEF Resubmit, Others
<1>8. ASSUME NEW s \in Signers, DeclineCheck(w, s)
      PROVE  EvidenceInv'
  BY <1>8, <1>b, <1>c, JobStep DEF DeclineCheck, JobInv, At, Others
<1>9. ASSUME NEW s \in Signers, WithdrawCheck(w, s)
      PROVE  EvidenceInv'
  BY <1>9, <1>b, <1>c, JobStep DEF WithdrawCheck, JobInv, At, Others
<1> QED
  BY <1>1, <1>2, <1>3, <1>4, <1>5, <1>6, <1>7, <1>8, <1>9 DEF Request

LEMMA ContinueEvidence ==
  ASSUME TypeOK, EvidenceInv, NEW w \in Workers, Continue(w)
  PROVE  EvidenceInv'
<1>a. [Next]_vars
  BY DEF Next
<1>b. /\ job \in [Workers -> Job] /\ signer \in [Signers -> SignerRow]
      /\ agr \in AgreementRow
      /\ \A s \in Signers : RowInv(s)
      /\ \A v \in Workers : JobInv(v)
      /\ AgreementInv
  BY DEF TypeOK, EvidenceInv
<1>c. ASSUME \A s \in Signers : RowInv(s)', Others(w), JobInv(w)',
             AgreementInv', InvitedInv'
      PROVE  EvidenceInv'
  BY <1>a, <1>c, EvidenceKept DEF EvidenceInv, Others
<1>d. job'[w].phase \notin {"submit", "finalize", "claim", "seal"} => JobInv(w)'
  BY DEF JobInv, At
<1>1. CASE SendCommit(w)
  <2>1. ASSUME NEW s \in Signers
        PROVE  RowInv(s)'
    BY <1>1, <1>a, <1>b, EvidenceKept, NextKeeps
       DEF SendCommit, RowInv, Signed, HasSigned, SignerRow
  <2>2. AgreementInv'
    BY <1>1, <1>a, <1>b, EvidenceKept DEF SendCommit, AgreementInv, AgreementRow
  <2>3. Others(w) /\ JobInv(w)'
    <3>1. Goto(w, "invite")
      BY <1>1 DEF SendCommit
    <3> QED
      BY <1>b, <1>d, <3>1, JobStep
  <2> QED
    BY <1>1, <1>a, <1>c, <2>1, <2>2, <2>3, EvidenceKept DEF SendCommit
<1>2. CASE SendInvite(w)
  <2>1. InvitedInv'
    BY <1>2, <1>a, NextKeeps, SignersAssumption
       DEF SendInvite, EvidenceInv, InvitedInv, InvitedInTurn, LowestGroup,
           Kept, TypeOK
  <2> QED
    BY <1>2, <1>a, <1>b, <1>c, <1>d, <2>1, EvidenceKept, JobStep DEF SendInvite
<1>3. CASE ViewCommit(w)
  <2>1. ASSUME NEW s \in Signers
        PROVE  RowInv(s)'
    BY <1>3, <1>a, <1>b, EvidenceKept
       DEF ViewCommit, RowInv, Signed, HasSigned, SignerRow
  <2> QED
    BY <1>3, <1>a, <1>b, <1>c, <1>d, <2>1, EvidenceKept, JobStep DEF ViewCommit
<1>4. CASE ConsentCommit(w)
  <2>1. ASSUME NEW s \in Signers
        PROVE  RowInv(s)'
    BY <1>4, <1>a, <1>b, EvidenceKept
       DEF ConsentCommit, RowInv, Signed, HasSigned, SignerRow
  <2> QED
    BY <1>4, <1>a, <1>b, <1>c, <1>d, <2>1, EvidenceKept, JobStep
       DEF ConsentCommit
<1>5. CASE SubmitCommit(w)
  <2>1. ASSUME NEW s \in Signers, s = job[w].who
        PROVE  MayHaveSigned(s)'
    BY <1>5, <1>a, <1>b, <2>1, EvidenceKept DEF SubmitCommit, JobInv
  <2>2. ASSUME NEW s \in Signers
        PROVE  RowInv(s)'
    <3>1. CASE s = job[w].who
      <4>1. signer[s].signature \in Nat
        BY <1>b DEF SignerRow
      <4>2. signer'[s].signature = signer[s].signature + 1
        BY <1>5, <1>b, <3>1 DEF SubmitCommit, SignerRow
      <4> QED
        BY <2>1, <3>1, <4>1, <4>2 DEF RowInv, HasSigned
    <3>2. CASE s # job[w].who
      BY <1>5, <1>a, <1>b, <3>2, EvidenceKept DEF SubmitCommit
    <3> QED
      BY <3>1, <3>2
  <2> QED
    BY <1>5, <1>a, <1>b, <1>c, <1>d, <2>2, EvidenceKept, JobStep
       DEF SubmitCommit
<1>6. CASE Count(w)
  <2>1. JobInv(w)'
    BY <1>6, <1>b, <1>d, JobStep
       DEF Count, AllSigned, JobInv, RowInv, Everybody, At, HasSigned
  <2> QED
    BY <1>6, <1>a, <1>b, <1>c, <2>1, EvidenceKept, JobStep DEF Count
<1>7. CASE Cascade(w)
  <2>1. InvitedInv'
    BY <1>7, <1>a, <1>b, NextKeeps, SignersAssumption
       DEF Cascade, EvidenceInv, InvitedInv, InvitedInTurn, LowestGroup,
           Unsigned, RowInv, Kept, TypeOK
  <2> QED
    BY <1>7, <1>a, <1>b, <1>c, <1>d, <2>1, EvidenceKept, JobStep DEF Cascade
<1>8. CASE WithdrawCommit(w)
  <2>1. ASSUME NEW s \in Signers
        PROVE  RowInv(s)'
    BY <1>8, <1>a, <1>b, EvidenceKept
       DEF WithdrawCommit, RowInv, Signed, HasSigned, SignerRow
  <2>2. AgreementInv'
    BY <1>8, <1>a, <1>b, EvidenceKept
       DEF WithdrawCommit, DeclinedUnlessClosed, AgreementInv, AgreementRow
  <2> QED
    BY <1>8, <1>a, <1>b, <1>c, <1>d, <2>1, <2>2, EvidenceKept, JobStep
       DEF WithdrawCommit
<1>9. CASE DeclineCommit(w)
  <2>1. ASSUME NEW s \in Signers
        PROVE  RowInv(s)'
    BY <1>9, <1>a, <1>b, EvidenceKept
       DEF DeclineCommit, RowInv, Signed, HasSigned, SignerRow
  <2>2. AgreementInv'
    BY <1>9, <1>a, <1>b, EvidenceKept
       DEF DeclineCommit, DeclinedUnlessClosed, AgreementInv, AgreementRow
  <2> QED
    BY <1>9, <1>a, <1>b, <1>c, <1>d, <2>1, <2>2, EvidenceKept, JobStep
       DEF DeclineCommit
<1>10. CASE FinalizeRead(w)
  <2>1. Everybody /\ Everybody'
    BY <1>10, <1>a, <1>b, EvidenceKept DEF FinalizeRead, JobInv, At
  <2>2. Others(w) /\ JobInv(w)'
    BY <1>10, <1>b, <2>1, FinalizeReadJob
    DEF JobInv, At, Everybody, HasSigned
  <2> QED
    BY <1>10, <1>a, <1>b, <1>c, <2>2, EvidenceKept DEF FinalizeRead
<1>11. CASE Claim(w)
  <2>1. JobInv(w)'
    BY <1>11, <1>b, <1>d, JobStep DEF Claim, JobInv, Everybody, HasSigned, At
  <2>2. AgreementInv'
    BY <1>11, <1>a, <1>b, EvidenceKept
       DEF Claim, JobInv, At, AgreementInv, AgreementRow
  <2> QED
    BY <1>11, <1>a, <1>b, <1>c, <2>1, <2>2, EvidenceKept, JobStep DEF Claim
<1>12. CASE SealCommit(w)
  <2>1. AgreementInv'
    BY <1>12, <1>a, <1>b, EvidenceKept
       DEF SealCommit, JobInv, At, AgreementInv, AgreementRow
  <2> QED
    BY <1>12, <1>a, <1>b, <1>c, <1>d, <2>1, EvidenceKept, JobStep
       DEF SealCommit
<1>13. CASE EmitAndMail(w)
  BY <1>13, <1>a, <1>b, <1>c, <1>d, EvidenceKept, JobStep DEF EmitAndMail
<1> QED
  BY <1>1, <1>2, <1>3, <1>4, <1>5, <1>6, <1>7, <1>8, <1>9, <1>10, <1>11,
     <1>12, <1>13 DEF Continue

LEMMA NextEvidence == TypeOK /\ EvidenceInv /\ [Next]_vars => EvidenceInv'
<1> SUFFICES ASSUME TypeOK, EvidenceInv, [Next]_vars
             PROVE  EvidenceInv'
  OBVIOUS
<1>a. job \in [Workers -> Job] /\ agr \in AgreementRow /\ AgreementInv
  BY DEF TypeOK, EvidenceInv
<1>1. ASSUME NEW w \in Workers, SealFails(w)
      PROVE  EvidenceInv'
  <2>1. At(w, "seal") /\ Everybody'
    BY <1>1, EvidenceKept DEF SealFails, EvidenceInv, JobInv, At
  <2>2. AgreementInv'
    BY <1>1, <1>a, <2>1, EvidenceKept
       DEF SealFails, AgreementInv, AgreementRow
  <2>3. Others(w) /\ JobInv(w)'
    BY <1>1, <1>a, JobStep DEF SealFails, JobInv, At
  <2> QED
    BY <1>1, <2>2, <2>3, EvidenceKept DEF SealFails, EvidenceInv, Others
<1>2. ASSUME NEW w \in Workers, Crash(w)
      PROVE  EvidenceInv'
  <2>1. Others(w) /\ JobInv(w)'
    BY <1>2, <1>a, JobStep DEF Crash, JobInv, At
  <2> QED
    BY <1>2, <2>1, EvidenceKept DEF Crash, EvidenceInv, Others
<1>3. ASSUME NEW x \in Signers, PassChallenge(x)
      PROVE  EvidenceInv'
  <2>1. ASSUME NEW s \in Signers
        PROVE  RowInv(s)'
    BY <1>3, EvidenceKept
       DEF PassChallenge, EvidenceInv, RowInv, Signed, HasSigned, SignerRow,
           TypeOK
  <2> QED
    BY <1>3, <2>1, EvidenceKept DEF PassChallenge, EvidenceInv
<1>4. CASE Remind
  <2>1. InvitedInv'
    BY <1>4 DEF Remind, InvitedInv
  <2> QED
    BY <1>4, <2>1, EvidenceKept DEF Remind, EvidenceInv
<1>5. CASE WindowElapses
  <2>1. AgreementInv'
    BY <1>5, <1>a, EvidenceKept DEF WindowElapses, AgreementInv, AgreementRow
  <2> QED
    BY <1>5, <2>1, EvidenceKept DEF WindowElapses, EvidenceInv
<1>6. CASE ClaimGoesStale
  <2>1. AgreementInv'
    BY <1>6, <1>a, EvidenceKept DEF ClaimGoesStale, AgreementInv, AgreementRow
  <2> QED
    BY <1>6, <2>1, EvidenceKept DEF ClaimGoesStale, EvidenceInv
<1>7. CASE UNCHANGED vars
  BY <1>7, EvidenceKept DEF vars, EvidenceInv
<1> QED
  BY <1>1, <1>2, <1>3, <1>4, <1>5, <1>6, <1>7, RequestEvidence,
     ContinueEvidence DEF Next

LEMMA EvidenceAlways == Spec => []EvidenceInv
  BY InitEvidence, NextEvidence, TypeCorrect, PTL DEF Spec

\* No envelope is claimed for sealing or completed, and no executed copy is
\* made, without the signature of every signer.
THEOREM EverySealHasEverySignature == Spec => []SealedByAll
<1>1. EvidenceInv => SealedByAll
  BY DEF EvidenceInv, AgreementInv, Everybody, SealedByAll
<1> QED
  BY <1>1, EvidenceAlways, PTL

\* Signers of a sequential envelope sign in the order of their turns.
THEOREM SignaturesComeInOrder == Spec => []SignedInOrder
<1>1. EvidenceInv => SignedInOrder
  BY DEF EvidenceInv, RowInv, MayHaveSigned, SignedInOrder
<1> QED
  BY <1>1, EvidenceAlways, PTL

\* Nobody signs past an access lock, no consumer without the disclosure.
THEOREM SignaturesHaveEvidence == Spec => []SignedWithEvidence
<1>1. EvidenceInv => SignedWithEvidence
  BY DEF EvidenceInv, RowInv, MayHaveSigned, SignedWithEvidence
<1> QED
  BY <1>1, EvidenceAlways, PTL

\* Where remind() is not called, invitations go out in turn.
THEOREM InvitationsComeInTurn ==
  ASSUME "remind" \notin Ops
  PROVE  Spec => []InvitedInTurn
<1>1. EvidenceInv => InvitedInTurn
  BY DEF EvidenceInv, InvitedInv
<1> QED
  BY <1>1, EvidenceAlways, PTL

-----------------------------------------------------------------------------
(* One worker: a handler writes before anything it has read can change,    *)
(* but for what time and the access lock do to it.                         *)

Reading == {"view", "consent", "submit", "withdraw", "decline"}

SerialJob(j) ==
  /\ j.phase = "send" => agr.status = "draft"
  /\ j.phase \in Reading =>
       j.who \in Signers /\ j.seen = agr.status /\ agr.status # "draft"
  /\ j.phase \in {"view", "submit", "decline"} => ~Signed(j.who)
  /\ j.phase \in {"submit", "decline"} =>
       agr.status \notin {"completed", "voided"}
  /\ j.phase \in {"finalize", "claim", "seal"} => AllSigned
  /\ j.phase \in {"claim", "seal"} =>
       j.seen # "draft" /\ \A s \in Signers : j.copy[s] = signer[s].signature
  /\ j.phase = "seal" => agr.status = "sealing"

\* Only an envelope that was completed is sealed, and it stays completed until
\* it is voided.
RowsAgree ==
  /\ agr.status = "draft" => \A s \in Signers : ~Has(s) /\ ~Signed(s)
  /\ agr.status \in {"sealing", "completed"} => AllSigned
  /\ agr.seals > 0 => /\ agr.status \in {"completed", "voided"}
                      /\ ExecutedIsRecorded

SerialInv == RowsAgree /\ \A w \in Workers : SerialJob(job[w])

LEMMA InitSerial == Init => SerialInv
  BY SignersAssumption
  DEF Init, SerialInv, RowsAgree, SerialJob, Reading, Idle, Has, Signed

\* The rows stay as they are.
LEMMA RowsKept ==
  ASSUME RowsAgree, UNCHANGED <<agr, signer>>
  PROVE  RowsAgree'
  BY DEF RowsAgree, ExecutedIsRecorded, AllSigned, Signed, Has

\* The envelope ends without being completed, or is voided.
LEMMA RowsEnd ==
  ASSUME TypeOK, RowsAgree, UNCHANGED signer,
         NEW t \in {"voided", "expired", "declined", "out_for_signature"},
         agr' = [agr EXCEPT !.status = t],
         agr.status \in {"completed", "voided"} => t = "voided"
  PROVE  RowsAgree'
<1>1. /\ agr'.status = t
      /\ agr'.seals = agr.seals /\ agr'.executed = agr.executed
  BY DEF TypeOK, AgreementRow
<1> QED
  BY <1>1 DEF RowsAgree, ExecutedIsRecorded, AllSigned, Signed, Has

LEMMA RequestSerial ==
  ASSUME TypeOK, SerialInv, NEW w \in Workers, Request(w)
  PROVE  RowsAgree' /\ SerialJob(job[w])'
<1>a. job \in [Workers -> Job] /\ RowsAgree /\ agr \in AgreementRow
  BY DEF TypeOK, SerialInv
<1>b. ASSUME UNCHANGED <<agr, signer>>,
             job'[w].phase \in {"cascade", "finalize"} \cup Reading,
             job'[w].phase \in Reading =>
               /\ job'[w].who \in Signers /\ job'[w].seen = agr.status
               /\ Has(job'[w].who),
             job'[w].phase \in {"view", "submit", "decline"} =>
               ~Signed(job'[w].who),
             job'[w].phase \in {"submit", "decline"} =>
               agr.status \notin {"completed", "voided"},
             job'[w].phase = "finalize" => AllSigned
      PROVE  RowsAgree' /\ SerialJob(job[w])'
  <2>1. RowsAgree'
    BY <1>a, <1>b, RowsKept
  <2> QED
    BY <1>a, <1>b, <2>1 DEF SerialJob, RowsAgree, Reading, Signed, AllSigned
<1>1. CASE SendCheck(w)
  <2>1. job'[w].phase = "send" /\ UNCHANGED <<agr, signer>>
    BY <1>1, <1>a, JobStep DEF SendCheck
  <2> QED
    BY <1>1, <1>a, <2>1, RowsKept DEF SendCheck, SerialJob, Reading
<1>2. CASE Void(w)
  <2>1. job'[w].phase = "notify"
    BY <1>2, <1>a, JobStep DEF Void
  <2>2. RowsAgree'
    BY <1>2, <1>a, RowsEnd DEF Void
  <2> QED
    BY <2>1, <2>2 DEF SerialJob, Reading
<1>3. CASE Sweep(w)
  <2>1. job'[w].phase = "notify"
    BY <1>3, <1>a, JobStep DEF Sweep
  <2>2. RowsAgree'
    BY <1>3, <1>a, RowsEnd DEF Sweep
  <2> QED
    BY <2>1, <2>2 DEF SerialJob, Reading
<1>4. ASSUME NEW s \in Signers, ViewCheck(w, s)
      PROVE  RowsAgree' /\ SerialJob(job[w])'
  <2>1. /\ job'[w].phase = "view" /\ job'[w].who = s
        /\ job'[w].seen = agr.status
    BY <1>4, <1>a, JobStep DEF ViewCheck
  <2> QED
    BY <1>4, <1>b, <2>1 DEF ViewCheck, Reading, Signed
<1>5. ASSUME NEW s \in Signers, ConsentCheck(w, s)
      PROVE  RowsAgree' /\ SerialJob(job[w])'
  <2>1. /\ job'[w].phase = "consent" /\ job'[w].who = s
        /\ job'[w].seen = agr.status
    BY <1>5, <1>a, JobStep DEF ConsentCheck
  <2> QED
    BY <1>5, <1>b, <2>1 DEF ConsentCheck, Reading
<1>6. ASSUME NEW s \in Signers, SubmitCheck(w, s)
      PROVE  RowsAgree' /\ SerialJob(job[w])'
  <2>1. /\ job'[w].phase = "submit" /\ job'[w].who = s
        /\ job'[w].seen = agr.status
    BY <1>6, <1>a, JobStep DEF SubmitCheck
  <2>2. agr.status \notin {"completed", "voided"} /\ ~Signed(s) /\ Has(s)
    BY <1>6, <1>a DEF SubmitCheck, MaySubmit, Unavailable, RowsAgree, AllSigned
  <2> QED
    BY <1>6, <1>b, <2>1, <2>2 DEF SubmitCheck, Reading
<1>7. ASSUME NEW s \in Signers, Resubmit(w, s)
      PROVE  RowsAgree' /\ SerialJob(job[w])'
  <2>1. job'[w].phase = "finalize"
    BY <1>7, <1>a, JobStep DEF Resubmit
  <2> QED
    BY <1>7, <1>b, <2>1 DEF Resubmit, Reading
<1>8. ASSUME NEW s \in Signers, DeclineCheck(w, s)
      PROVE  RowsAgree' /\ SerialJob(job[w])'
  <2>1. /\ job'[w].phase = "decline" /\ job'[w].who = s
        /\ job'[w].seen = agr.status
    BY <1>8, <1>a, JobStep DEF DeclineCheck
  <2> QED
    BY <1>8, <1>b, <2>1 DEF DeclineCheck, Reading
<1>9. ASSUME NEW s \in Signers, WithdrawCheck(w, s)
      PROVE  RowsAgree' /\ SerialJob(job[w])'
  <2>1. /\ job'[w].phase = "withdraw" /\ job'[w].who = s
        /\ job'[w].seen = agr.status
    BY <1>9, <1>a, JobStep DEF WithdrawCheck
  <2> QED
    BY <1>9, <1>b, <2>1 DEF WithdrawCheck, Reading
<1> QED
  BY <1>1, <1>2, <1>3, <1>4, <1>5, <1>6, <1>7, <1>8, <1>9 DEF Request

\* One signer's row is written, while nothing is being sealed or complete.
LEMMA RowsSigner ==
  ASSUME TypeOK, RowsAgree, NEW s \in Signers,
         agr' = agr \/ agr' = [agr EXCEPT !.status = "declined"],
         agr.status \notin {"draft", "completed"},
         agr.status = "voided" => agr' = agr,
         \/ agr'.status # "sealing"
         \/ signer'[s].status = signer[s].status,
         signer'[s].signature = signer[s].signature
           \/ agr.status \notin {"completed", "voided"},
         \A o \in Signers \ {s} : signer'[o] = signer[o]
  PROVE  RowsAgree'
<1>1. /\ agr'.seals = agr.seals /\ agr'.executed = agr.executed
      /\ agr'.status \in {agr.status, "declined"}
  BY DEF TypeOK, AgreementRow
<1>2. agr'.status \notin {"draft", "completed"}
  BY <1>1
<1>3. agr'.status = "sealing" => AllSigned'
  BY <1>1 DEF RowsAgree, AllSigned, Signed
<1>4. agr'.seals > 0 => agr'.status = "voided" /\ ExecutedIsRecorded'
  BY <1>1 DEF RowsAgree, ExecutedIsRecorded
<1> QED
  BY <1>2, <1>3, <1>4 DEF RowsAgree

LEMMA ContinueSerial ==
  ASSUME TypeOK, SerialInv, NEW w \in Workers, Continue(w)
  PROVE  RowsAgree' /\ SerialJob(job[w])'
<1>a. /\ job \in [Workers -> Job] /\ job[w] \in Job /\ agr \in AgreementRow
      /\ signer \in [Signers -> SignerRow]
      /\ \A s \in Signers : signer[s] \in SignerRow
  BY DEF TypeOK
<1>b. RowsAgree /\ SerialJob(job[w])
  BY DEF SerialInv
<1>c. ASSUME job'[w].phase \in {"idle", "notify", "invite", "count", "cascade"}
      PROVE  SerialJob(job[w])'
  BY <1>c DEF SerialJob, Reading
<1>d. UNCHANGED <<agr, signer>> => RowsAgree'
  BY <1>b, RowsKept
<1>1. CASE SendCommit(w)
  <2>1. job'[w].phase = "invite" /\ agr.status = "draft"
    BY <1>1, <1>a, <1>b, JobStep DEF SendCommit, SerialJob, At
  <2>2. agr.seals \in Nat /\ ~(agr.seals > 0)
    BY <1>a, <1>b, <2>1 DEF RowsAgree, AgreementRow
  <2>3. agr'.status = "out_for_signature" /\ agr'.seals = agr.seals
    BY <1>1, <1>a DEF SendCommit, AgreementRow
  <2> QED
    BY <1>c, <2>1, <2>2, <2>3 DEF RowsAgree
<1>2. CASE SendInvite(w)
  BY <1>2, <1>a, <1>c, <1>d, JobStep DEF SendInvite
<1>3. CASE ViewCommit(w)
  <2> DEFINE s == job[w].who
  <2>1. /\ s \in Signers /\ ~Signed(s) /\ agr.status # "draft"
        /\ job'[w].phase = "idle" /\ agr' = agr
    BY <1>3, <1>a, <1>b, JobStep DEF ViewCommit, SerialJob, Reading, At
  <2>2. agr.status \notin {"sealing", "completed"}
    BY <1>b, <2>1 DEF RowsAgree, AllSigned
  <2>3. /\ \A o \in Signers \ {s} : signer'[o] = signer[o]
        /\ signer'[s].signature = signer[s].signature
    BY <1>3, <1>a, <2>1 DEF ViewCommit, SignerRow
  <2> HIDE DEF s
  <2> QED
    BY <1>b, <1>c, <2>1, <2>2, <2>3, RowsSigner
<1>4. CASE ConsentCommit(w)
  <2> DEFINE s == job[w].who
  <2>1. s \in Signers /\ job'[w].phase = "idle" /\ agr' = agr
    BY <1>4, <1>a, <1>b, JobStep DEF ConsentCommit, SerialJob, Reading, At
  <2>2. \A o \in Signers : /\ signer'[o].status = signer[o].status
                           /\ signer'[o].signature = signer[o].signature
                           /\ signer'[o].token = signer[o].token
    BY <1>4, <1>a DEF ConsentCommit, SignerRow
  <2>3. RowsAgree'
    BY <1>b, <2>1, <2>2
    DEF RowsAgree, ExecutedIsRecorded, AllSigned, Signed, Has
  <2> QED
    BY <1>c, <2>1, <2>3
<1>5. CASE SubmitCommit(w)
  <2> DEFINE s == job[w].who
  <2>1. /\ s \in Signers /\ ~Signed(s)
        /\ agr.status \notin {"draft", "completed", "voided"}
        /\ job'[w].phase = "count" /\ agr' = agr
    BY <1>5, <1>a, <1>b, JobStep DEF SubmitCommit, SerialJob, Reading, At
  <2>2. agr.status # "sealing"
    BY <1>b, <2>1 DEF RowsAgree, AllSigned
  <2>3. \A o \in Signers \ {s} : signer'[o] = signer[o]
    BY <1>5, <1>a, <2>1 DEF SubmitCommit
  <2> HIDE DEF s
  <2> QED
    BY <1>b, <1>c, <2>1, <2>2, <2>3, RowsSigner
<1>6. CASE Count(w)
  <2>1. /\ UNCHANGED <<agr, signer>>
        /\ \/ job'[w].phase = "finalize" /\ AllSigned
           \/ job'[w].phase = "cascade"
    BY <1>6, <1>a, JobStep DEF Count
  <2>2. job'[w].phase = "finalize" => SerialJob(job[w])'
    BY <2>1 DEF SerialJob, Reading, AllSigned, Signed
  <2> QED
    BY <1>c, <1>d, <2>1, <2>2
<1>7. CASE Cascade(w)
  BY <1>7, <1>a, <1>c, <1>d, JobStep DEF Cascade
<1>8. CASE WithdrawCommit(w)
  <2> DEFINE s == job[w].who
  <2>1. /\ s \in Signers /\ job[w].seen = agr.status /\ agr.status # "draft"
        /\ job'[w].phase = "idle"
    BY <1>8, <1>a, <1>b, JobStep DEF WithdrawCommit, SerialJob, Reading, At
  <2>2. CASE agr.status = "completed"
    <3>1. /\ signer' = [signer EXCEPT ![s].withdrawn = TRUE]
          /\ agr' = agr
      BY <1>8, <2>1, <2>2 DEF WithdrawCommit
    <3>2. \A o \in Signers : /\ signer'[o].status = signer[o].status
                             /\ signer'[o].signature = signer[o].signature
                             /\ signer'[o].token = signer[o].token
      BY <3>1, <1>a DEF SignerRow
    <3>3. RowsAgree'
      BY <1>b, <3>1, <3>2
      DEF RowsAgree, ExecutedIsRecorded, AllSigned, Signed, Has
    <3> QED
      BY <1>c, <2>1, <3>3
  <2>3. CASE agr.status # "completed"
    <3>1. /\ signer' = [signer EXCEPT ![s].withdrawn = TRUE,
                                      ![s].status = "declined"]
          /\ agr' = DeclinedUnlessClosed
      BY <1>8, <2>1, <2>3 DEF WithdrawCommit
    <3>2. /\ \A o \in Signers \ {s} : signer'[o] = signer[o]
          /\ signer'[s].signature = signer[s].signature
      BY <3>1, <1>a, <2>1 DEF SignerRow
    <3>3. /\ agr' = agr \/ agr' = [agr EXCEPT !.status = "declined"]
          /\ agr.status = "voided" => agr' = agr
          /\ agr'.status # "sealing"
      BY <3>1, <1>a DEF DeclinedUnlessClosed, AgreementRow
    <3> HIDE DEF s
    <3> QED
      BY <1>b, <1>c, <2>1, <2>3, <3>2, <3>3, RowsSigner
  <2> QED
    BY <2>2, <2>3
<1>9. CASE DeclineCommit(w)
  <2> DEFINE s == job[w].who
  <2>1. /\ s \in Signers
        /\ agr.status \notin {"draft", "completed", "voided"}
        /\ job'[w].phase = "notify"
    BY <1>9, <1>a, <1>b, JobStep DEF DeclineCommit, SerialJob, Reading, At
  <2>2. /\ \A o \in Signers \ {s} : signer'[o] = signer[o]
        /\ signer'[s].signature = signer[s].signature
    BY <1>9, <1>a, <2>1 DEF DeclineCommit, SignerRow
  <2>3. /\ agr' = [agr EXCEPT !.status = "declined"]
        /\ agr'.status # "sealing"
    BY <1>9, <1>a, <2>1 DEF DeclineCommit, DeclinedUnlessClosed, AgreementRow
  <2> HIDE DEF s
  <2> QED
    BY <1>b, <1>c, <2>1, <2>2, <2>3, RowsSigner
<1>10. CASE FinalizeRead(w)
  <2>1. UNCHANGED <<agr, signer>> /\ AllSigned
    BY <1>10, <1>b DEF FinalizeRead, SerialJob, At
  <2>2. agr.status # "draft"
    BY <1>b, <2>1, SignersAssumption DEF RowsAgree, AllSigned
  <2>3. CASE job'[w].phase = "idle"
    BY <1>c, <1>d, <2>1, <2>3
  <2>4. CASE job'[w].phase = "claim"
    <3>1. /\ job'[w].copy = [s \in Signers |-> signer[s].signature]
          /\ job'[w].seen = IF agr.status = "sealing"
                            THEN "out_for_signature" ELSE agr.status
      BY <1>10, <1>a, <2>4, FinalizeReadJob
    <3>2. job'[w].seen # "draft"
      BY <2>2, <3>1
    <3>3. \A s \in Signers : job'[w].copy[s] = signer[s].signature
      BY <3>1
    <3> QED
      BY <1>d, <2>1, <2>4, <3>2, <3>3
      DEF SerialJob, Reading, AllSigned, Signed
  <2> QED
    BY <1>10, <1>a, <2>3, <2>4, FinalizeReadJob
<1>11. CASE Claim(w)
  <2>1. /\ UNCHANGED signer /\ AllSigned /\ job[w].seen # "draft"
        /\ \A s \in Signers : job[w].copy[s] = signer[s].signature
    BY <1>11, <1>b DEF Claim, SerialJob, At
  <2>2. CASE Claimable
    <3>1. /\ job'[w].phase = "seal"
          /\ job'[w].seen = job[w].seen /\ job'[w].copy = job[w].copy
      BY <1>11, <1>a, <2>2, JobStep DEF Claim
    <3>2. agr'.status = "sealing" /\ agr'.seals = agr.seals
      BY <1>11, <1>a, <2>2 DEF Claim, AgreementRow
    <3>3. agr.seals \in Nat /\ ~(agr.seals > 0)
      BY <1>a, <1>b, <2>2 DEF RowsAgree, AgreementRow, Claimable
    <3>4. AllSigned'
      BY <2>1 DEF AllSigned, Signed
    <3>5. RowsAgree'
      BY <3>2, <3>3, <3>4 DEF RowsAgree
    <3> QED
      BY <2>1, <3>1, <3>2, <3>4, <3>5 DEF SerialJob, Reading
  <2>3. CASE ~Claimable
    BY <1>11, <1>a, <1>c, <1>d, <2>3, JobStep DEF Claim
  <2> QED
    BY <2>2, <2>3
<1>12. CASE SealCommit(w)
  <2>1. /\ UNCHANGED signer /\ AllSigned
        /\ \A s \in Signers : job[w].copy[s] = signer[s].signature
        /\ job'[w].phase = "notify"
    BY <1>12, <1>a, <1>b, JobStep DEF SealCommit, SerialJob, At
  <2>2. agr'.status = "completed" /\ agr'.executed = job[w].copy
    BY <1>12, <1>a DEF SealCommit, AgreementRow
  <2>3. AllSigned' /\ ExecutedIsRecorded'
    BY <2>1, <2>2 DEF AllSigned, Signed, ExecutedIsRecorded
  <2> QED
    BY <1>c, <2>1, <2>2, <2>3 DEF RowsAgree
<1>13. CASE EmitAndMail(w)
  BY <1>13, <1>a, <1>c, <1>d, JobStep DEF EmitAndMail
<1> QED
  BY <1>1, <1>2, <1>3, <1>4, <1>5, <1>6, <1>7, <1>8, <1>9, <1>10, <1>11,
     <1>12, <1>13 DEF Continue

LEMMA NextSerial ==
  ASSUME \A v, w \in Workers : v = w
  PROVE  TypeOK /\ SerialInv /\ [Next]_vars => SerialInv'
<1> SUFFICES ASSUME TypeOK, SerialInv, [Next]_vars
             PROVE  SerialInv'
  OBVIOUS
<1>a. ASSUME NEW w \in Workers, RowsAgree', SerialJob(job[w])'
      PROVE  SerialInv'
  BY <1>a DEF SerialInv
<1>b. /\ job \in [Workers -> Job] /\ agr \in AgreementRow
      /\ signer \in [Signers -> SignerRow] /\ RowsAgree
  BY DEF TypeOK, SerialInv
<1>1. ASSUME NEW w \in Workers, SealFails(w)
      PROVE  SerialInv'
  <2>1. /\ UNCHANGED signer /\ AllSigned /\ agr.status = "sealing"
        /\ job[w].seen # "draft" /\ job'[w].phase = "idle"
    BY <1>1, <1>b, JobStep DEF SealFails, SerialInv, SerialJob, At
  <2>2. agr'.status = job[w].seen /\ agr'.seals = agr.seals
    BY <1>1, <1>b, <2>1 DEF SealFails, AgreementRow
  <2>3. agr.seals \in Nat /\ ~(agr.seals > 0)
    BY <1>b, <2>1 DEF RowsAgree, AgreementRow
  <2>4. RowsAgree'
    BY <2>1, <2>2, <2>3 DEF RowsAgree, AllSigned, Signed
  <2> QED
    BY <1>a, <2>1, <2>4 DEF SerialJob, Reading
<1>2. ASSUME NEW w \in Workers, Crash(w)
      PROVE  SerialInv'
  <2>1. job'[w].phase = "idle" /\ UNCHANGED <<agr, signer>>
    BY <1>2, <1>b, JobStep DEF Crash
  <2> QED
    BY <1>a, <1>b, <2>1, RowsKept DEF SerialJob, Reading
<1>3. ASSUME UNCHANGED job,
             /\ agr'.status = agr.status /\ agr'.seals = agr.seals
             /\ agr'.executed = agr.executed,
             \A s \in Signers : /\ signer'[s].status = signer[s].status
                                /\ signer'[s].signature = signer[s].signature
                                /\ signer'[s].token = signer[s].token
      PROVE  SerialInv'
  <2>1. RowsAgree'
    BY <1>b, <1>3 DEF RowsAgree, ExecutedIsRecorded, AllSigned, Signed, Has
  <2>2. ASSUME NEW w \in Workers PROVE SerialJob(job[w])'
    <3>1. SerialJob(job[w]) /\ job'[w] = job[w]
      BY <1>3 DEF SerialInv
    <3> QED
      BY <1>3, <3>1 DEF SerialJob, Reading, AllSigned, Signed
  <2> QED
    BY <2>1, <2>2 DEF SerialInv
<1>4. ASSUME NEW s \in Signers, PassChallenge(s)
      PROVE  SerialInv'
  BY <1>3, <1>4, <1>b DEF PassChallenge, SignerRow
<1>5. CASE Remind \/ UNCHANGED vars
  BY <1>3, <1>5 DEF Remind, vars
<1>6. CASE WindowElapses
  BY <1>3, <1>6, <1>b DEF WindowElapses, AgreementRow
<1>7. CASE ClaimGoesStale
  BY <1>3, <1>7, <1>b DEF ClaimGoesStale, AgreementRow
<1> QED
  BY <1>a, <1>1, <1>2, <1>4, <1>5, <1>6, <1>7, RequestSerial, ContinueSerial
     DEF Next

LEMMA SerialAlways ==
  ASSUME \A v, w \in Workers : v = w
  PROVE  Spec => []SerialInv
  BY InitSerial, NextSerial, TypeCorrect, PTL DEF Spec

\* One handler at a time: nobody's signature is lost after the envelope is
\* completed, however often send() and the seal are tried, and wherever a
\* handler dies.
THEOREM CompletedStaysSigned ==
  ASSUME \A v, w \in Workers : v = w
  PROVE  Spec => []CompletedAllSigned
<1>1. SerialInv => CompletedAllSigned
  BY DEF SerialInv, RowsAgree, CompletedAllSigned
<1> QED
  BY <1>1, SerialAlways, PTL

\* One handler at a time: the executed copy bears the signatures that the
\* rows go on holding.
THEOREM ExecutedStaysRecorded ==
  ASSUME \A v, w \in Workers : v = w
  PROVE  Spec => []ExecutedIsRecorded
<1>1. SerialInv => ExecutedIsRecorded
  BY DEF SerialInv, RowsAgree, ExecutedIsRecorded
<1> QED
  BY <1>1, SerialAlways, PTL

=============================================================================
