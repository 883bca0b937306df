------------------------------- MODULE SignIn -------------------------------
(***************************************************************************)
(* How the sender of ONE email address gets in and is put out again: the   *)
(* handlers of sign/routers/portal.py over the account row of              *)
(* sign/sign_accounts.py, run by several requests at once.                 *)
(*                                                                         *)
(* The ways in (a magic link, Google, a code on the phone) each read the   *)
(* account and act on what they read.  An account with an authenticator    *)
(* gets a half-session for the second step, whose code is checked against  *)
(* a per-account marker by a read and a later write.  Logging out and      *)
(* being suspended move the session version of the account.                *)
(*                                                                         *)
(* An operator named Op_Variant is Op with a plausible bug in it: the      *)
(* properties are tested against it, and no specification uses it.         *)
(***************************************************************************)
EXTENDS AuthLimits

CONSTANTS
  Workers,      \* request threads
  Links,        \* magic links mailed to the address
  SignupsOpen,  \* config.SIGNUPS_OPEN
  FailLimit,    \* wrong codes before the second factor is locked
  MaxSteps,     \* bound: 30-second steps of the authenticator's clock
  MaxRequests,  \* bound: requests
  MaxFaults     \* bound: crashes

ASSUME SignInAssumption ==
  /\ "none" \notin Links
  /\ SignupsOpen \in BOOLEAN
  /\ FailLimit \in Nat \ {0}
  /\ {MaxSteps, MaxRequests, MaxFaults} \subseteq Nat

VARIABLES
  acct,      \* the sign_accounts row
  begun,     \* ways in and enrolments that have been begun
  claimed,   \* links whose settings row magic_used:<jti> exists
  mailed,    \* a verification link has been mailed
  half,      \* a pending-2FA cookie has been handed out
  sessions,  \* session cookies handed out
  marker,    \* the setting sign_totp_last_step:<aid>
  limit,     \* the auth_limits row signacct:totp:<aid>
  now,       \* the authenticator's clock
  job,       \* what each worker is doing
  opened,    \* cookies handed out for each link
  code,      \* history of the codes accepted
  requests, faults

vars == <<acct, begun, claimed, mailed, half, sessions, marker, limit, now,
          job, opened, code, requests, faults>>

Account ==
  [status : {"none", "active", "suspended"}, verified : BOOLEAN,
   phone : BOOLEAN, armed : BOOLEAN, version : Nat, by : {"", "magic",
   "google", "phone"}]

NoAccount == [status |-> "none", verified |-> FALSE, phone |-> FALSE,
              armed |-> FALSE, version |-> 0, by |-> ""]

FirstFactors == {"magic", "google", "phone"}
CodeUses == {"code", "confirm", "disable"}
Kinds == FirstFactors \cup CodeUses \cup {"logout", "suspend"}

Phases == {"idle", "claim", "lookup", "create", "attach", "drop", "verify",
           "verifynew", "reload", "grant", "lock", "match", "spend", "miss",
           "record", "apply", "status", "bump"}

\* What a worker carries.  armed is totp_secret in the account it has read;
\* held says the account has been armed ever since the request began.
Job == [kind : Kinds, phase : Phases, link : Links \cup {"none"},
        armed : BOOLEAN, held : BOOLEAN, step : Nat]

\* A session cookie, and what became of it: minted by a request that met an
\* armed account throughout and no code; open when a suspension was written.
Session == [version : Nat, bypass : BOOLEAN, cut : BOOLEAN]

TypeOK ==
  /\ acct \in Account
  /\ begun \subseteq Links \cup {"google", "phone", "enrol"}
  /\ claimed \subseteq Links
  /\ {mailed, half} \subseteq BOOLEAN
  /\ sessions \subseteq Session
  /\ marker \in Nat
  /\ limit \in LimitRow
  /\ now \in Nat
  /\ job \in [Workers -> Job]
  /\ opened \in [Links -> Nat]
  /\ code \in [spent : SUBSET Nat, twice : BOOLEAN, raced : BOOLEAN]
  /\ requests \in Nat
  /\ faults \in Nat

NoJob == [kind |-> "logout", phase |-> "idle", link |-> "none",
          armed |-> FALSE, held |-> FALSE, step |-> 0]

Init ==
  /\ acct = NoAccount
  /\ begun = {}
  /\ claimed = {}
  /\ mailed = FALSE
  /\ half = FALSE
  /\ sessions = {}
  /\ marker = 0
  /\ limit = NoLimit
  /\ now = 1
  /\ job = [w \in Workers |-> NoJob]
  /\ opened = [l \in Links |-> 0]
  /\ code = [spent |-> {}, twice |-> FALSE, raced |-> FALSE]
  /\ requests = 0
  /\ faults = 0

-----------------------------------------------------------------------------
At(w, phase) == job[w].phase = phase
Goto(w, phase) == job' = [job EXCEPT ![w].phase = phase]
Done(w) == job' = [job EXCEPT ![w] = NoJob]
Exists == acct.status # "none"

\* session_account(): the cookie is accepted.
Live(s) == acct.status = "active" /\ s.version = acct.version

SignedIn == \E s \in sessions : Live(s)

Begin(w, kind, phase, link, step) ==
  /\ At(w, "idle")
  /\ requests < MaxRequests
  /\ requests' = requests + 1
  /\ job' = [job EXCEPT ![w] =
       [kind |-> kind, phase |-> phase, link |-> link, armed |-> FALSE,
        held |-> acct.armed, step |-> step]]

-----------------------------------------------------------------------------
(* The ways in                                                             *)

Start(way) ==
  /\ way \notin begun
  /\ begun' = begun \cup {way}
  /\ UNCHANGED <<acct, claimed, mailed, half, sessions, marker, limit, now,
                 job, opened, code, requests, faults>>

\* send_magic_link(): a stranger is mailed no link on a closed install.
MayMail == Exists \/ SignupsOpen

\* magic/start, within its throttles.
MailLink(l) == MayMail /\ Start(l)

\* The redirect to Google, whose state and nonce come back in cookies.
StartGoogle == Start("google")

\* phone/start: Twilio has sent a code; the number stays in a cookie.
StartPhone == Start("phone")

\* totp/enroll: the new secret stays in a cookie.
Enroll == SignedIn /\ Start("enrol")

\* A link mailed to the address is followed: now, again, or by a scanner.
FollowLink(w, l) ==
  /\ l \in begun
  /\ Begin(w, "magic", "claim", l, 0)
  /\ UNCHANGED <<acct, begun, claimed, mailed, half, sessions, marker, limit,
                 now, opened, code, faults>>

Claim_Look(w) ==
  /\ At(w, "claim")
  /\ IF job[w].link \in claimed THEN Done(w) ELSE Goto(w, "lookup")
  /\ UNCHANGED <<acct, begun, claimed, mailed, half, sessions, marker, limit,
                 now, opened, code, requests, faults>>

\* claim_once(): one INSERT, of which one caller can win.
Claim(w) ==
  /\ At(w, "claim")
  /\ IF job[w].link \in claimed THEN Done(w) ELSE Goto(w, "lookup")
  /\ claimed' = claimed \cup {job[w].link}
  /\ UNCHANGED <<acct, begun, mailed, half, sessions, marker, limit, now,
                 opened, code, requests, faults>>

\* Google sends the browser back with the state it was given, and the code
\* is exchanged for this address.
GoogleReturns(w) ==
  /\ "google" \in begun
  /\ Begin(w, "google", "lookup", "none", 0)
  /\ UNCHANGED <<acct, begun, claimed, mailed, half, sessions, marker, limit,
                 now, opened, code, faults>>

\* Twilio approves the code for the number in the cookie.
PhoneApproved(w) ==
  /\ "phone" \in begun
  /\ Begin(w, "phone", "lookup", "none", 0)
  /\ UNCHANGED <<acct, begun, claimed, mailed, half, sessions, marker, limit,
                 now, opened, code, faults>>

\* account_by_phone() finds the account only once the phone is attached.
Found(kind) == Exists /\ (kind = "phone" => acct.phone)

\* A link's handler verifies an address it finds unproven.
MagicFound == IF acct.verified THEN "grant" ELSE "verify"

\* Google's also takes the phone from it.
GoogleFound ==
  IF acct.verified THEN "grant" ELSE IF acct.phone THEN "drop" ELSE "verify"

\* Where a handler goes with an account it has found.
AfterLookup(kind) ==
  CASE kind = "magic" -> MagicFound [] kind = "google" -> GoogleFound
    [] kind = "phone" -> "grant"

Lookup(w) ==
  /\ At(w, "lookup")
  /\ IF Found(job[w].kind)
     THEN job' = [job EXCEPT ![w].phase = AfterLookup(job[w].kind),
                             ![w].armed = acct.armed]
     ELSE IF SignupsOpen THEN Goto(w, "create") ELSE Done(w)
  /\ UNCHANGED <<acct, begun, claimed, mailed, half, sessions, marker, limit,
                 now, opened, code, requests, faults>>

AfterCreate(kind) ==
  CASE kind = "magic" -> "verifynew" [] kind = "google" -> "grant"
    [] kind = "phone" -> "attach"

\* create_account(): an address that is taken, at the question or at the
\* unique index, is refused.
Create(w) ==
  /\ At(w, "create")
  /\ IF Exists
     THEN Done(w) /\ UNCHANGED acct
     ELSE /\ acct' = [NoAccount EXCEPT !.status = "active", !.by = job[w].kind]
          /\ Goto(w, AfterCreate(job[w].kind))
  /\ UNCHANGED <<begun, claimed, mailed, half, sessions, marker, limit, now,
                 opened, code, requests, faults>>

AttachPhone(w) ==
  /\ At(w, "attach")
  /\ acct' = [acct EXCEPT !.phone = TRUE]
  /\ Goto(w, "reload")
  /\ UNCHANGED <<begun, claimed, mailed, half, sessions, marker, limit, now,
                 opened, code, requests, faults>>

\* Google proves the address: a phone of an unproven one goes.
DropPhone(w) ==
  /\ At(w, "drop")
  /\ acct' = [acct EXCEPT !.phone = FALSE]
  /\ Goto(w, "verify")
  /\ UNCHANGED <<begun, claimed, mailed, half, sessions, marker, limit, now,
                 opened, code, requests, faults>>

\* set_email_verified().  A handler that has created the account reads it
\* again; for one that found it, what it read stands.
VerifyEmail(w) ==
  /\ At(w, "verify") \/ At(w, "verifynew")
  /\ acct' = [acct EXCEPT !.verified = TRUE]
  /\ Goto(w, IF At(w, "verify") THEN "grant" ELSE "reload")
  /\ UNCHANGED <<begun, claimed, mailed, half, sessions, marker, limit, now,
                 opened, code, requests, faults>>

\* account_by_id() of a new account; a phone's sign-up mails the link.
Reload(w) ==
  /\ At(w, "reload")
  /\ job' = [job EXCEPT ![w].phase = "grant", ![w].armed = acct.armed]
  /\ mailed' = (mailed \/ job[w].kind = "phone")
  /\ UNCHANGED <<acct, begun, claimed, half, sessions, marker, limit, now,
                 opened, code, requests, faults>>

\* resend-verify.
MailAgain ==
  /\ SignedIn
  /\ ~acct.verified
  /\ ~mailed
  /\ mailed' = TRUE
  /\ UNCHANGED <<acct, begun, claimed, half, sessions, marker, limit, now,
                 job, opened, code, requests, faults>>

\* verify-email: the link that was mailed is clicked.
ClickVerify ==
  /\ mailed
  /\ ~acct.verified
  /\ acct' = [acct EXCEPT !.verified = TRUE]
  /\ UNCHANGED <<begun, claimed, mailed, half, sessions, marker, limit, now,
                 job, opened, code, requests, faults>>

\* make_session(), at the session version of this moment.
NewSession(w) ==
  [version |-> acct.version, cut |-> FALSE,
   bypass |-> job[w].held /\ job[w].kind # "code"]

Counting(w) ==
  IF job[w].link = "none" THEN opened
                          ELSE [opened EXCEPT ![job[w].link] = @ + 1]

\* Every way in hands an account that was armed when it was read a
\* half-session, for the second step.
AskCode(w) ==
  /\ At(w, "grant")
  /\ job[w].armed
  /\ half' = TRUE
  /\ opened' = Counting(w)
  /\ Done(w)
  /\ UNCHANGED <<acct, begun, claimed, mailed, sessions, marker, limit, now,
                 code, requests, faults>>

Grant_PhoneOnly(w) ==
  /\ At(w, "grant")
  /\ job[w].kind = "phone" => ~job[w].armed
  /\ sessions' = sessions \cup {NewSession(w)}
  /\ opened' = Counting(w)
  /\ Done(w)
  /\ UNCHANGED <<acct, begun, claimed, mailed, half, marker, limit, now, code,
                 requests, faults>>

\* And any other account a session.
Grant(w) ==
  /\ At(w, "grant")
  /\ ~job[w].armed
  /\ sessions' = sessions \cup {NewSession(w)}
  /\ opened' = Counting(w)
  /\ Done(w)
  /\ UNCHANGED <<acct, begun, claimed, mailed, half, marker, limit, now, code,
                 requests, faults>>

-----------------------------------------------------------------------------
(* The authenticator                                                       *)

\* The steps whose code matches now; 0 stands for any other code.
Window == {t \in {now - 1, now, now + 1} : t > 0}

\* auth/2fa: a half-session, and an account that is active and armed.
CodeToEnter == half /\ acct.status = "active" /\ acct.armed

\* totp/confirm: a session, and the cookie of the secret that was shown.
CodeToArm == SignedIn /\ "enrol" \in begun

\* totp/disable: a session; an account that is not armed has nothing to do.
CodeToDisarm == SignedIn /\ acct.armed

\* A code is posted to one of the three.
PostCode(w, use, step) ==
  /\ step \in Window \cup {0}
  /\ \/ use = "code" /\ CodeToEnter
     \/ use = "confirm" /\ CodeToArm
     \/ use = "disable" /\ CodeToDisarm
  /\ Begin(w, use, "lock", "none", step)
  /\ UNCHANGED <<acct, begun, claimed, mailed, half, sessions, marker, limit,
                 now, opened, code, faults>>

AskLock(w) ==
  /\ At(w, "lock")
  /\ IF limit.locked THEN Done(w) ELSE Goto(w, "match")
  /\ UNCHANGED <<acct, begun, claimed, mailed, half, sessions, marker, limit,
                 now, opened, code, requests, faults>>

\* There is a secret to compare with: the one in the enrolment cookie, or the
\* account's.
HasSecret(w) == job[w].kind = "confirm" \/ acct.armed

MatchFresh_Repeats(w) ==
  job[w].step \in Window /\ HasSecret(w) /\ job[w].step >= marker

\* The code matches a step within the window, and the marker that is read
\* next is below it.
MatchFresh(w) ==
  job[w].step \in Window /\ HasSecret(w) /\ job[w].step > marker

Match(w) ==
  /\ At(w, "match")
  /\ Goto(w, IF MatchFresh(w) THEN "spend" ELSE "miss")
  /\ code' = [code EXCEPT !.raced = @ \/ (MatchFresh(w)
                            /\ \E v \in Workers \ {w} : At(v, "spend"))]
  /\ UNCHANGED <<acct, begun, claimed, mailed, half, sessions, marker, limit,
                 now, opened, requests, faults>>

\* set_setting() of the marker: the code is accepted.
Spend(w) ==
  /\ At(w, "spend")
  /\ marker' = job[w].step
  /\ code' = [code EXCEPT !.spent = @ \cup {job[w].step},
                          !.twice = @ \/ job[w].step \in code.spent]
  /\ Goto(w, "record")
  /\ UNCHANGED <<acct, begun, claimed, mailed, half, sessions, limit, now,
                 opened, requests, faults>>

\* totp_record() of a miss and of a hit.
Record(w) ==
  /\ At(w, "miss") \/ At(w, "record")
  /\ limit' = Recorded(limit, At(w, "record"), FailLimit)
  /\ IF At(w, "miss") THEN Done(w) ELSE Goto(w, "apply")
  /\ UNCHANGED <<acct, begun, claimed, mailed, half, sessions, marker, now,
                 opened, code, requests, faults>>

LetIn(w) ==
  /\ At(w, "apply") /\ job[w].kind = "code"
  /\ sessions' = sessions \cup {NewSession(w)}
  /\ Done(w)
  /\ UNCHANGED <<acct, begun, claimed, mailed, half, marker, limit, now,
                 opened, code, requests, faults>>

\* set_totp().
Arm(w) ==
  /\ At(w, "apply") /\ job[w].kind = "confirm"
  /\ acct' = [acct EXCEPT !.armed = TRUE]
  /\ Done(w)
  /\ UNCHANGED <<begun, claimed, mailed, half, sessions, marker, limit, now,
                 opened, code, requests, faults>>

\* clear_totp().  No other request has met an armed account throughout.
Disarm(w) ==
  /\ At(w, "apply") /\ job[w].kind = "disable"
  /\ acct' = [acct EXCEPT !.armed = FALSE]
  /\ job' = [v \in Workers |->
       IF v = w THEN NoJob ELSE [job[v] EXCEPT !.held = FALSE]]
  /\ UNCHANGED <<begun, claimed, mailed, half, sessions, marker, limit, now,
                 opened, code, requests, faults>>

-----------------------------------------------------------------------------
(* The ways out                                                            *)

AskLogout(w) ==
  /\ SignedIn
  /\ Begin(w, "logout", "bump", "none", 0)
  /\ UNCHANGED <<acct, begun, claimed, mailed, half, sessions, marker, limit,
                 now, opened, code, faults>>

\* An operator suspends the account: set_status() writes, then bumps.
AskSuspend(w) ==
  /\ Exists
  /\ Begin(w, "suspend", "status", "none", 0)
  /\ UNCHANGED <<acct, begun, claimed, mailed, half, sessions, marker, limit,
                 now, opened, code, faults>>

Suspend(w) ==
  /\ At(w, "status")
  /\ acct' = [acct EXCEPT !.status = "suspended"]
  /\ sessions' = {[s EXCEPT !.cut = TRUE] : s \in sessions}
  /\ Goto(w, "bump")
  /\ UNCHANGED <<begun, claimed, mailed, half, marker, limit, now, opened,
                 code, requests, faults>>

Bumped_Logout(w) == acct.version + (IF job[w].kind = "logout" THEN 1 ELSE 0)

\* bump_session_version(): one UPDATE.
Bumped(w) == acct.version + 1

Bump(w) ==
  /\ At(w, "bump")
  /\ acct' = [acct EXCEPT !.version = Bumped(w)]
  /\ Done(w)
  /\ UNCHANGED <<begun, claimed, mailed, half, sessions, marker, limit, now,
                 opened, code, requests, faults>>

Reinstate ==
  /\ acct.status = "suspended"
  /\ acct' = [acct EXCEPT !.status = "active"]
  /\ UNCHANGED <<begun, claimed, mailed, half, sessions, marker, limit, now,
                 job, opened, code, requests, faults>>

-----------------------------------------------------------------------------
Tick ==
  /\ now < MaxSteps
  /\ now' = now + 1
  /\ UNCHANGED <<acct, begun, claimed, mailed, half, sessions, marker, limit,
                 job, opened, code, requests, faults>>

LockLapses ==
  /\ limit.locked
  /\ limit' = Lapsed(limit)
  /\ UNCHANGED <<acct, begun, claimed, mailed, half, sessions, marker, now,
                 job, opened, code, requests, faults>>

\* The process ends in the middle of a request.
Crash(w) ==
  /\ ~At(w, "idle")
  /\ faults < MaxFaults
  /\ faults' = faults + 1
  /\ Done(w)
  /\ UNCHANGED <<acct, begun, claimed, mailed, half, sessions, marker, limit,
                 now, opened, code, requests>>

-----------------------------------------------------------------------------
Step(w) ==
  \/ Claim(w) \/ Lookup(w) \/ Create(w) \/ AttachPhone(w) \/ DropPhone(w)
  \/ VerifyEmail(w) \/ Reload(w) \/ AskCode(w) \/ Grant(w)
  \/ AskLock(w) \/ Match(w) \/ Spend(w) \/ Record(w)
  \/ LetIn(w) \/ Arm(w) \/ Disarm(w)
  \/ Suspend(w) \/ Bump(w)

Request(w) ==
  \/ \E l \in Links : FollowLink(w, l)
  \/ GoogleReturns(w) \/ PhoneApproved(w)
  \/ \E use \in CodeUses, step \in 0 .. now + 1 : PostCode(w, use, step)
  \/ AskLogout(w)
  \/ AskSuspend(w)

Next ==
  \/ \E w \in Workers : Request(w) \/ Step(w) \/ Crash(w)
  \/ \E l \in Links : MailLink(l)
  \/ StartGoogle \/ StartPhone \/ Enroll
  \/ MailAgain
  \/ ClickVerify
  \/ Reinstate
  \/ Tick
  \/ LockLapses

Spec == Init /\ [][Next]_vars

-----------------------------------------------------------------------------
(* Properties                                                              *)

\* A magic link opens one session or half-session at most, however many
\* requests follow it at once (portal.py: "Single-use: atomically consume").
LinkOpensOnce == \A l \in Links : opened[l] <= 1

\* No way in goes round the authenticator: a session without a code was
\* granted to a request during which the account was, at some moment, not
\* armed.
NoWayRound == \A s \in sessions : ~s.bypass

\* Nor is one that was open when a suspension was written, even after the
\* account is reinstated, unless the suspension is still to be completed or
\* its process died before the session version was moved.
SuspensionEndsSessions ==
  \A s \in sessions : s.cut /\ Live(s) =>
    \/ faults > 0
    \/ \E w \in Workers : At(w, "bump") /\ job[w].kind = "suspend"

\* The code of one step is accepted once, as long as no two codes have been
\* between the reading and the writing of the marker together.
CodeAcceptedOnce == code.twice => code.raced

\* An account that Google sign-in created is verified ("Google accounts are 1
\* at creation", sign_accounts.py:70).
GoogleIsVerified == acct.by = "google" => acct.verified
=============================================================================
