--------------------------- MODULE EnvelopeAccess ---------------------------
(***************************************************************************)
(* How ONE signer, by email address, comes back to the envelopes addressed *)
(* to it: the handlers of sign/routers/envelope.py and the signing page's  *)
(* access lock and download of sign/routers/signer.py, over                *)
(* sign/esign_access.py.                                                   *)
(*                                                                         *)
(* A session is a signed token.  It carries the epoch of the agreement and *)
(* whether the sender's access lock stood in the way, as its request read  *)
(* them, and it is measured against the agreement's epoch at every use.    *)
(* The throttles of the access lock are AccessLock; here they only refuse. *)
(*                                                                         *)
(* An operator named Op_Variant is Op with a plausible bug in it: the      *)
(* properties are tested against it, and no specification uses it.         *)
(***************************************************************************)
EXTENDS AuthLimits, FiniteSets

CONSTANTS
  Envelopes,    \* envelopes addressed to the signer
  Workers,      \* request threads
  FailLimit,    \* wrong codes before the email code is locked
  MaxRequests,  \* bound: requests
  MaxFaults     \* bound: crashes, mails that fail, and waits until a code or
                \* its lock runs out

ASSUME EnvelopeAccessAssumption ==
  /\ IsFiniteSet(Workers)
  /\ FailLimit \in Nat \ {0}
  /\ {MaxRequests, MaxFaults} \subseteq Nat

VARIABLES
  env,       \* for each envelope: its agreement, signer and events
  otp,       \* for each envelope: the signer's email code
  sessions,  \* session cookies handed out
  job,       \* what each worker is doing
  requests, faults

vars == <<env, otp, sessions, job, requests, faults>>

\* The sender has set or cleared the access lock conf times.  pass is
\* challenge_passed_at: 0 for NULL, or the conf whose answer wrote it.  torn
\* and crossed are history: a change of the lock died before it moved the
\* epoch; one was made while the mark of a right answer was to be written.
Agreement ==
  [status : {"out", "completed", "voided"}, epoch : Nat, conf : Nat,
   locked : BOOLEAN, pass : Nat, torn : BOOLEAN, crossed : BOOLEAN,
   viewed : Nat, delivered : Nat]

\* Codes are numbered as they are issued; code 0 is no record.  spent, twice
\* and raced are history: codes accepted, one of them again, two requests
\* between comparing and clearing.
EmailCode ==
  [code : Nat, fresh : BOOLEAN, issued : Nat, mailed : SUBSET Nat,
   limit : LimitRow, spent : SUBSET Nat, twice : BOOLEAN, raced : BOOLEAN]

Ways == {"google", "otp", "switch", "answer"}

\* ok is chal_ok.  saw and at are history: conf when the request read the
\* lock, and when it read the epoch.
Session == [env : Envelopes, by : Ways, epoch : Nat, ok : BOOLEAN,
            saw : Nat, at : Nat]

Kinds == Ways \cup {"send", "token", "view", "copy", "configure"}
Phases == {"idle", "ask", "write", "mail", "mark", "unwrite", "fresh",
           "compare", "spend", "miss", "hit", "unmark", "epoch", "lock",
           "verify", "pass", "mint", "seen", "insert", "bump"}

\* code is the code of the request: what is sent, or what was entered, where
\* 0 stands for six other digits and Junk for anything else.
Job == [kind : Kinds, phase : Phases, env : Envelopes \cup {"none"}, code : Int,
        epoch : Nat, ok : BOOLEAN, saw : Nat, at : Nat]

TypeOK ==
  /\ env \in [Envelopes -> Agreement]
  /\ otp \in [Envelopes -> EmailCode]
  /\ sessions \subseteq Session
  /\ job \in [Workers -> Job]
  /\ requests \in Nat
  /\ faults \in Nat

Junk == -1

NoJob == [kind |-> "view", phase |-> "idle", env |-> "none",
          code |-> 0, epoch |-> 0, ok |-> FALSE, saw |-> 0, at |-> 0]

Init ==
  /\ env = [e \in Envelopes |->
       [status |-> "out", epoch |-> 0, conf |-> 0, locked |-> FALSE,
        pass |-> 0, torn |-> FALSE, crossed |-> FALSE,
        viewed |-> 0, delivered |-> 0]]
  /\ otp = [e \in Envelopes |->
       [code |-> 0, fresh |-> FALSE, issued |-> 0, mailed |-> {},
        limit |-> NoLimit, spent |-> {}, twice |-> FALSE, raced |-> FALSE]]
  /\ sessions = {}
  /\ job = [w \in Workers |-> NoJob]
  /\ requests = 0
  /\ faults = 0

-----------------------------------------------------------------------------
At(w, phase) == job[w].phase = phase
Goto(w, phase) == job' = [job EXCEPT ![w].phase = phase]
Done(w) == job' = [job EXCEPT ![w] = NoJob]

\* The job of a request for e that has just read the signer's access lock.
NewJob(kind, phase, e) ==
  [NoJob EXCEPT !.kind = kind, !.phase = phase, !.env = e,
                !.ok = ~env[e].locked, !.saw = env[e].conf]

Begin(w, j) ==
  /\ At(w, "idle")
  /\ requests < MaxRequests
  /\ requests' = requests + 1
  /\ job' = [job EXCEPT ![w] = j]

Live_AnyEpoch(s) == TRUE

\* require_env_session(): the token's epoch is the agreement's.
Live(s) == s.epoch = env[s.env].epoch

\* Its answer has no fourth part "voided".
Open(s) == Live(s) /\ env[s.env].status # "voided"

\* The access lock, if there is one, is no obstacle to the session.
Admitted(s) == Open(s) /\ (env[s.env].locked => s.ok)

-----------------------------------------------------------------------------
(* The sender                                                              *)

Complete(e) ==
  /\ env[e].status = "out"
  /\ env' = [env EXCEPT ![e].status = "completed"]
  /\ UNCHANGED <<otp, sessions, job, requests, faults>>

\* void(): the status and the epoch in one UPDATE.  Its race with the seal is
\* Envelope's.
Void(e) ==
  /\ env[e].status # "voided"
  /\ env' = [env EXCEPT ![e].status = "voided", ![e].epoch = @ + 1]
  /\ UNCHANGED <<otp, sessions, job, requests, faults>>

PassAfterChange_Kept(e) == env[e].pass

\* The mark of the answer to the lock before goes with it.
PassAfterChange(e) == 0

Answering(e) == \E w \in Workers : At(w, "pass") /\ job[w].env = e

\* set_signer_challenge() commits the lock, or its absence; bumping the epoch
\* is a transaction of its own.
Configure(w, e, locked) ==
  /\ Begin(w, NewJob("configure", "bump", e))
  /\ env' = [env EXCEPT ![e].conf = @ + 1, ![e].locked = locked,
                        ![e].pass = PassAfterChange(e),
                        ![e].crossed = @ \/ Answering(e)]
  /\ UNCHANGED <<otp, sessions, faults>>

Bumped_Same(e) == env[e].epoch

\* bump_env_session_epoch(): one UPDATE.
Bumped(e) == env[e].epoch + 1

Bump(w) ==
  /\ At(w, "bump")
  /\ env' = [env EXCEPT ![job[w].env].epoch = Bumped(job[w].env)]
  /\ Done(w)
  /\ UNCHANGED <<otp, sessions, requests, faults>>

-----------------------------------------------------------------------------
(* The email code                                                          *)

\* auth/start, for the address of a signer.
StartOtp(w, e) ==
  /\ Begin(w, NewJob("send", "ask", e))
  /\ UNCHANGED <<env, otp, sessions, faults>>

\* otp-verify, which finds the signer first.
PostCode(w, e, c) ==
  /\ c \in otp[e].mailed \cup {0, Junk}
  /\ Begin(w, [NewJob("otp", "ask", e) EXCEPT !.code = c])
  /\ UNCHANGED <<env, otp, sessions, faults>>

\* send_env_otp() and check_env_otp() ask the lock of the code; to enter a
\* code under it, or no code at all, counts as a miss.
AskLimit(w) ==
  LET refused == otp[job[w].env].limit.locked IN
  /\ At(w, "ask")
  /\ IF job[w].kind = "send"
     THEN IF refused THEN Done(w) ELSE Goto(w, "write")
     ELSE Goto(w, IF refused \/ job[w].code = Junk THEN "miss" ELSE "fresh")
  /\ UNCHANGED <<env, otp, sessions, requests, faults>>

\* _send_email_otp(): the record is written before the mail is sent.
WriteCode(w) ==
  LET e == job[w].env IN
  /\ At(w, "write")
  /\ otp' = [otp EXCEPT ![e].code = otp[e].issued + 1, ![e].issued = @ + 1]
  /\ job' = [job EXCEPT ![w].phase = "mail", ![w].code = otp[e].issued + 1]
  /\ UNCHANGED <<env, sessions, requests, faults>>

MailCode(w) ==
  /\ At(w, "mail")
  /\ otp' = [otp EXCEPT ![job[w].env].mailed = @ \cup {job[w].code}]
  /\ Goto(w, "mark")
  /\ UNCHANGED <<env, sessions, requests, faults>>

MailFails(w) ==
  /\ At(w, "mail")
  /\ faults < MaxFaults
  /\ faults' = faults + 1
  /\ Goto(w, "unwrite")
  /\ UNCHANGED <<env, otp, sessions, requests>>

\* Clears whichever code is on record now.
Unwrite(w) ==
  /\ At(w, "unwrite")
  /\ otp' = [otp EXCEPT ![job[w].env].code = 0]
  /\ Done(w)
  /\ UNCHANGED <<env, sessions, requests, faults>>

MarkSent(w) ==
  /\ At(w, "mark")
  /\ otp' = [otp EXCEPT ![job[w].env].fresh = TRUE]
  /\ Done(w)
  /\ UNCHANGED <<env, sessions, requests, faults>>

\* No code was sent lately: refused, and not counted.
AskFresh(w) ==
  /\ At(w, "fresh")
  /\ IF otp[job[w].env].fresh THEN Goto(w, "compare") ELSE Done(w)
  /\ UNCHANGED <<env, otp, sessions, requests, faults>>

\* _verify_email_otp() reads the record, compares, and only then clears it.
Compare(w) ==
  LET e == job[w].env
      right == job[w].code # 0 /\ job[w].code = otp[e].code IN
  /\ At(w, "compare")
  /\ Goto(w, IF right THEN "spend" ELSE "miss")
  /\ otp' = [otp EXCEPT ![e].raced = @ \/ (right /\
       \E v \in Workers \ {w} :
         At(v, "spend") /\ job[v].env = e /\ job[v].code = job[w].code)]
  /\ UNCHANGED <<env, sessions, requests, faults>>

AfterSpend_Kept(e) == otp[e].code

\* Single use: whichever code is on record goes.
AfterSpend(e) == 0

Spend(w) ==
  LET e == job[w].env IN
  /\ At(w, "spend")
  /\ otp' = [otp EXCEPT ![e].code = AfterSpend(e),
                        ![e].spent = @ \cup {job[w].code},
                        ![e].twice = @ \/ job[w].code \in otp[e].spent]
  /\ Goto(w, "hit")
  /\ UNCHANGED <<env, sessions, requests, faults>>

RecordCode(w) ==
  /\ At(w, "miss") \/ At(w, "hit")
  /\ otp' = [otp EXCEPT ![job[w].env].limit =
                Recorded(@, At(w, "hit"), FailLimit)]
  /\ IF At(w, "miss") THEN Done(w) ELSE Goto(w, "unmark")
  /\ UNCHANGED <<env, sessions, requests, faults>>

Unmark(w) ==
  /\ At(w, "unmark")
  /\ otp' = [otp EXCEPT ![job[w].env].fresh = FALSE]
  /\ Goto(w, "epoch")
  /\ UNCHANGED <<env, sessions, requests, faults>>

\* Ten minutes pass: the record runs out, and then the marker.
CodeLapses(e) ==
  /\ faults < MaxFaults
  /\ faults' = faults + 1
  /\ \/ otp[e].code # 0 /\ otp' = [otp EXCEPT ![e].code = 0]
     \/ /\ otp[e].code = 0 /\ otp[e].fresh
        /\ otp' = [otp EXCEPT ![e].fresh = FALSE]
  /\ UNCHANGED <<env, sessions, job, requests>>

LimitLapses(e) ==
  /\ faults < MaxFaults
  /\ faults' = faults + 1
  /\ otp[e].limit.locked
  /\ otp' = [otp EXCEPT ![e].limit = Lapsed(@)]
  /\ UNCHANGED <<env, sessions, job, requests>>

-----------------------------------------------------------------------------
(* Sessions                                                                *)

\* auth/callback: Google has proved the address, and the signer is found.
GoogleReturns(w, e) ==
  /\ Begin(w, NewJob("google", "epoch", e))
  /\ UNCHANGED <<env, otp, sessions, faults>>

\* switch: a session of another envelope stands for the address.
Switch(w, s, e) ==
  /\ Open(s)
  /\ Begin(w, NewJob("switch", "epoch", e))
  /\ UNCHANGED <<env, otp, sessions, faults>>

\* agreement_by_envelope().  A switch looks at the signer again after it.
ReadEpoch(w) ==
  LET a == env[job[w].env] IN
  /\ At(w, "epoch")
  /\ job' = [job EXCEPT ![w].phase = IF job[w].kind = "switch"
                                     THEN "lock" ELSE "mint",
                        ![w].epoch = a.epoch, ![w].at = a.conf]
  /\ UNCHANGED <<env, otp, sessions, requests, faults>>

ReadLock_Before(w) ==
  /\ At(w, "lock")
  /\ Goto(w, "mint")
  /\ UNCHANGED <<env, otp, sessions, requests, faults>>

ReadLock(w) ==
  LET a == env[job[w].env] IN
  /\ At(w, "lock")
  /\ job' = [job EXCEPT ![w].phase = "mint", ![w].ok = ~a.locked,
                        ![w].saw = a.conf]
  /\ UNCHANGED <<env, otp, sessions, requests, faults>>

\* mint_env_session(), as each way in fills it.
NewSession(w) ==
  [env |-> job[w].env, by |-> job[w].kind, epoch |-> job[w].epoch,
   ok |-> job[w].ok, saw |-> job[w].saw, at |-> job[w].at]

\* The event of the access is committed, and the cookie handed out.
Mint(w) ==
  /\ At(w, "mint")
  /\ sessions' = sessions \cup {NewSession(w)}
  /\ Done(w)
  /\ UNCHANGED <<env, otp, requests, faults>>

\* challenge: the guard reads the agreement, whose epoch is the session's.
PostAnswer(w, s) ==
  /\ Open(s)
  /\ Begin(w, [NewJob("answer", "verify", s.env) EXCEPT
                 !.epoch = s.epoch, !.at = env[s.env].conf])
  /\ UNCHANGED <<env, otp, sessions, faults>>

\* The same question on the signing page.
PostTokenAnswer(w, e) ==
  /\ Begin(w, NewJob("token", "verify", e))
  /\ UNCHANGED <<env, otp, sessions, faults>>

\* verify_challenge() lets the answer pass: it is the answer to the lock that
\* is set now.
AnswerRight(w) ==
  LET a == env[job[w].env] IN
  /\ At(w, "verify")
  /\ a.locked
  /\ job' = [job EXCEPT ![w].phase = "pass", ![w].ok = TRUE, ![w].saw = a.conf]
  /\ UNCHANGED <<env, otp, sessions, requests, faults>>

\* Or the answer is wrong, there is no lock, or a throttle refuses it.
AnswerRefused(w) ==
  /\ At(w, "verify")
  /\ Done(w)
  /\ UNCHANGED <<env, otp, sessions, requests, faults>>

\* challenge_passed_at, written by the signer's id alone.
MarkPassed(w) ==
  /\ At(w, "pass")
  /\ env' = [env EXCEPT ![job[w].env].pass = job[w].saw]
  /\ IF job[w].kind = "token" THEN Done(w) ELSE Goto(w, "mint")
  /\ UNCHANGED <<otp, sessions, requests, faults>>

-----------------------------------------------------------------------------
(* What the signing link shows                                             *)

\* There is a lock, and challenge_passed_at is not set: the page asks the
\* question instead of showing the document.
Unmet(e) == env[e].locked /\ env[e].pass = 0

RenderBlocked(e) == env[e].status = "voided"

\* An image of a page.
PageShown(e) == ~Unmet(e) /\ ~RenderBlocked(e)

-----------------------------------------------------------------------------
(* What a session opens                                                    *)

\* The envelope page.
View(w, s) ==
  /\ Admitted(s)
  /\ Begin(w, NewJob("view", "seen", s.env))
  /\ UNCHANGED <<env, otp, sessions, faults>>

\* The executed copy and its certificate, for a session.
MayDownload(s) == Admitted(s) /\ env[s.env].status = "completed"

Download(w, s) ==
  /\ MayDownload(s)
  /\ Begin(w, NewJob("copy", "seen", s.env))
  /\ UNCHANGED <<env, otp, sessions, faults>>

\* The executed copy, by the signing link.
DownloadByLink(w, e) ==
  /\ env[e].status = "completed"
  /\ Begin(w, NewJob("copy", "seen", e))
  /\ UNCHANGED <<env, otp, sessions, faults>>

Event(w) == IF job[w].kind = "view" THEN env[job[w].env].viewed
                                    ELSE env[job[w].env].delivered

AskEvent_Always(w) ==
  /\ At(w, "seen")
  /\ Goto(w, "insert")
  /\ UNCHANGED <<env, otp, sessions, requests, faults>>

\* SELECT before the INSERT, so that the event is in the log once.
AskEvent(w) ==
  /\ At(w, "seen")
  /\ IF Event(w) > 0 THEN Done(w) ELSE Goto(w, "insert")
  /\ UNCHANGED <<env, otp, sessions, requests, faults>>

LogEvent(w) ==
  LET e == job[w].env IN
  /\ At(w, "insert")
  /\ env' = IF job[w].kind = "view" THEN [env EXCEPT ![e].viewed = @ + 1]
                                    ELSE [env EXCEPT ![e].delivered = @ + 1]
  /\ Done(w)
  /\ UNCHANGED <<otp, sessions, requests, faults>>

-----------------------------------------------------------------------------
\* The process ends in the middle of a request.
Crash(w) ==
  /\ ~At(w, "idle")
  /\ faults < MaxFaults
  /\ faults' = faults + 1
  /\ env' = [env EXCEPT ![job[w].env].torn = @ \/ At(w, "bump")]
  /\ Done(w)
  /\ UNCHANGED <<otp, sessions, requests>>

Request(w) ==
  \/ \E e \in Envelopes :
       \/ StartOtp(w, e) \/ GoogleReturns(w, e) \/ PostTokenAnswer(w, e)
       \/ \E c \in otp[e].mailed \cup {0, Junk} : PostCode(w, e, c)
       \/ \E locked \in BOOLEAN : Configure(w, e, locked)
       \/ DownloadByLink(w, e)
  \/ \E s \in sessions :
       \/ PostAnswer(w, s) \/ View(w, s) \/ Download(w, s)
       \/ \E e \in Envelopes : Switch(w, s, e)

Step(w) ==
  \/ Bump(w)
  \/ AskLimit(w) \/ WriteCode(w) \/ MailCode(w) \/ MailFails(w) \/ Unwrite(w)
  \/ MarkSent(w) \/ AskFresh(w) \/ Compare(w) \/ Spend(w) \/ RecordCode(w)
  \/ Unmark(w)
  \/ ReadEpoch(w) \/ ReadLock(w) \/ Mint(w)
  \/ AnswerRight(w) \/ AnswerRefused(w) \/ MarkPassed(w)
  \/ AskEvent(w) \/ LogEvent(w)

Next ==
  \/ \E w \in Workers : Request(w) \/ Step(w) \/ Crash(w)
  \/ \E e \in Envelopes :
       Complete(e) \/ Void(e) \/ CodeLapses(e) \/ LimitLapses(e)

Spec == Init /\ [][Next]_vars

-----------------------------------------------------------------------------
(* Properties                                                              *)

\* A change of the lock whose epoch is still to be moved, or never will be.
Unfinished(e) ==
  \/ env[e].torn
  \/ \E w \in Workers : At(w, "bump") /\ job[w].env = e

\* The request read the lock before a change and the epoch after it.
Straddled(s) == s.by \in {"google", "otp"} /\ s.saw < s.at

\* A session that gets past the access lock the sender has set was given for
\* an answer to that very lock, however requests and changes of the lock
\* overlap, except while the change is unfinished and for a sign-in that
\* straddled it (TRAN-2; L-26: "a mid-session challenge change must not leave
\* an existing envelope session ... with open access").
LockHolds ==
  \A s \in sessions :
    Admitted(s) /\ env[s.env].locked =>
      \/ s.by = "answer" /\ s.saw = env[s.env].conf
      \/ Straddled(s)
      \/ Unfinished(s.env)

\* The pages behind a lock are shown by the signing link only after a right
\* answer to the lock that is set now, unless the sender changed it while the
\* answer to the one before was being recorded (L-26; "must not render the
\* document image until the sender access-lock is passed").
PassIsCurrent ==
  \A e \in Envelopes :
    env[e].locked /\ PageShown(e) =>
      env[e].pass = env[e].conf \/ env[e].crossed

\* One code opens one session, as long as no two requests have been between
\* comparing it and clearing it together ("single-use: consume immediately").
CodeSpentOnce == \A e \in Envelopes : otp[e].twice => otp[e].raced

\* The events that are to be in the log once per signer are there at most
\* once per request that can be in flight together (esign.py: "Emit the
\* delivery event once per signer").
EventsBounded ==
  \A e \in Envelopes :
    /\ env[e].viewed <= Cardinality(Workers)
    /\ env[e].delivered <= Cardinality(Workers)
=============================================================================
