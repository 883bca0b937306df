---------------------------- MODULE SignInProofs ----------------------------
(***************************************************************************)
(* Theorems about SignIn, for any number of requests at once: type         *)
(* correctness, that a magic link opens one session, that no way in goes   *)
(* round the authenticator, that a suspension ends the sessions there are, *)
(* and that a code is accepted once.                                       *)
(***************************************************************************)
EXTENDS SignIn, TLAPS

-----------------------------------------------------------------------------
(* What a step does to its worker                                          *)

LEMMA GotoJob ==
  ASSUME TypeOK, NEW w \in Workers, NEW x \in Phases, Goto(w, x)
  PROVE  /\ job' \in [Workers -> Job]
         /\ job'[w] = [job[w] EXCEPT !.phase = x]
         /\ job'[w].phase = x
         /\ job'[w].kind = job[w].kind /\ job'[w].link = job[w].link
         /\ job'[w].armed = job[w].armed /\ job'[w].held = job[w].held
         /\ job'[w].step = job[w].step
         /\ \A v \in Workers : v # w => job'[v] = job[v]
<1>1. job \in [Workers -> Job] /\ job[w] \in Job
  BY DEF TypeOK
<1>2. [job[w] EXCEPT !.phase = x] \in Job
  BY <1>1 DEF Job
<1>3. job' = [job EXCEPT ![w] = [job[w] EXCEPT !.phase = x]]
  BY <1>1 DEF Goto
<1>4. job'[w] = [job[w] EXCEPT !.phase = x]
  BY <1>1, <1>3
<1> QED
  BY <1>1, <1>2, <1>3, <1>4 DEF Job

LEMMA NoJobType == NoJob \in Job
  BY DEF NoJob, Job, Kinds, FirstFactors, CodeUses, Phases

LEMMA DoneJob ==
  ASSUME TypeOK, NEW w \in Workers, Done(w)
  PROVE  /\ job' \in [Workers -> Job]
         /\ job'[w] = NoJob
         /\ \A v \in Workers : v # w => job'[v] = job[v]
  BY NoJobType DEF Done, TypeOK

LEMMA BeginJob ==
  ASSUME TypeOK, NEW w \in Workers, NEW kind \in Kinds, NEW phase \in Phases,
         NEW link \in Links \cup {"none"}, NEW step \in Nat,
         Begin(w, kind, phase, link, step)
  PROVE  /\ job' \in [Workers -> Job]
         /\ job[w].phase = "idle"
         /\ job'[w].phase = phase /\ job'[w].kind = kind
         /\ job'[w].link = link /\ job'[w].step = step
         /\ job'[w].held = acct.armed
         /\ \A v \in Workers : v # w => job'[v] = job[v]
         /\ requests' \in Nat
<1> DEFINE new == [kind |-> kind, phase |-> phase, link |-> link,
                   armed |-> FALSE, held |-> acct.armed, step |-> step]
<1>1. acct.armed \in BOOLEAN
  BY DEF TypeOK, Account
<1>2. new \in Job
  BY <1>1 DEF Job
<1>3. job' = [job EXCEPT ![w] = new]
  BY DEF Begin
<1>4. job \in [Workers -> Job]
  BY DEF TypeOK
<1>5. /\ new.phase = phase /\ new.kind = kind /\ new.link = link
      /\ new.step = step /\ new.held = acct.armed
  OBVIOUS
<1> HIDE DEF new
<1>6. job'[w] = new /\ \A v \in Workers : v # w => job'[v] = job[v]
  BY <1>3, <1>4
<1>7. job' \in [Workers -> Job]
  BY <1>2, <1>3, <1>4
<1>8. job[w].phase = "idle" /\ requests' \in Nat
  BY DEF Begin, At, TypeOK
<1> QED
  BY <1>5, <1>6, <1>7, <1>8

LEMMA RecordedType ==
  ASSUME NEW row \in LimitRow, NEW ok \in BOOLEAN
  PROVE  Recorded(row, ok, FailLimit) \in LimitRow
<1>1. /\ FailLimit \in Nat /\ row.fails \in Nat /\ row.locked \in BOOLEAN
      /\ row.fails + 1 \in Nat
  BY SignInAssumption DEF SignInAssumption, LimitRow
<1>2. CASE ok
  BY <1>2 DEF Recorded, NoLimit, LimitRow
<1>3. CASE ~ok /\ row.locked
  BY <1>3 DEF Recorded
<1>4. CASE ~ok /\ ~row.locked /\ row.fails + 1 >= FailLimit
  BY <1>4 DEF Recorded, LimitRow
<1>5. CASE ~ok /\ ~row.locked /\ row.fails + 1 < FailLimit
  <2>1. [row EXCEPT !.fails = row.fails + 1] \in LimitRow
    BY <1>1 DEF LimitRow
  <2> QED
    BY <1>1, <1>5, <2>1 DEF Recorded
<1> QED
  BY <1>1, <1>2, <1>3, <1>4, <1>5

-----------------------------------------------------------------------------
(* Type correctness                                                        *)

LEMMA InitTypeOK == Init => TypeOK
<1> SUFFICES ASSUME Init
             PROVE  TypeOK
  OBVIOUS
<1>1. acct \in Account
  BY DEF Init, NoAccount, Account
<1>2. limit \in LimitRow
  BY DEF Init, NoLimit, LimitRow
<1>3. job \in [Workers -> Job]
  BY NoJobType DEF Init
<1>4. code \in [spent : SUBSET Nat, twice : BOOLEAN, raced : BOOLEAN]
  BY DEF Init
<1>5. /\ begun \subseteq Links \cup {"google", "phone", "enrol"}
      /\ claimed \subseteq Links
      /\ {mailed, half} \subseteq BOOLEAN
      /\ sessions \subseteq Session
  BY DEF Init
<1>6. /\ marker \in Nat /\ now \in Nat /\ opened \in [Links -> Nat]
      /\ requests \in Nat /\ faults \in Nat
  BY DEF Init
<1> QED
  BY <1>1, <1>2, <1>3, <1>4, <1>5, <1>6 DEF TypeOK

\* The rows that an action may write.
LEMMA AccountType ==
  ASSUME acct \in Account
  PROVE  /\ \A kind \in FirstFactors :
              [NoAccount EXCEPT !.status = "active", !.by = kind] \in Account
         /\ \A b \in BOOLEAN :
              /\ [acct EXCEPT !.phone = b] \in Account
              /\ [acct EXCEPT !.verified = b] \in Account
              /\ [acct EXCEPT !.armed = b] \in Account
         /\ \A s \in {"active", "suspended"} :
              [acct EXCEPT !.status = s] \in Account
         /\ [acct EXCEPT !.version = acct.version + 1] \in Account
<1>1. \A kind \in FirstFactors :
        [NoAccount EXCEPT !.status = "active", !.by = kind] \in Account
  BY DEF Account, NoAccount, FirstFactors
<1>2. ASSUME NEW b \in BOOLEAN
      PROVE  /\ [acct EXCEPT !.phone = b] \in Account
             /\ [acct EXCEPT !.verified = b] \in Account
             /\ [acct EXCEPT !.armed = b] \in Account
  BY <1>2 DEF Account
<1>3. ASSUME NEW s \in {"active", "suspended"}
      PROVE  [acct EXCEPT !.status = s] \in Account
  BY <1>3 DEF Account
<1>4. [acct EXCEPT !.version = acct.version + 1] \in Account
  <2>1. acct.version \in Nat
    BY DEF Account
  <2>2. acct.version + 1 \in Nat
    BY <2>1
  <2> DEFINE n == acct.version + 1
  <2>3. n \in Nat
    BY <2>2
  <2> HIDE DEF n
  <2>4. [acct EXCEPT !.version = n] \in Account
    BY <2>3 DEF Account
  <2> QED
    BY <2>4 DEF n
<1> QED
  BY <1>1, <1>2, <1>3, <1>4

\* Where a handler goes is a phase.
LEMMA PhasesType ==
  \A kind \in FirstFactors :
    /\ AfterCreate(kind) \in {"attach", "verifynew", "grant"}
    /\ AfterLookup(kind) \in {"grant", "verify", "drop"}
<1>1. \A kind \in FirstFactors :
        AfterCreate(kind) \in {"attach", "verifynew", "grant"}
  BY DEF AfterCreate, FirstFactors
<1>2. \A kind \in FirstFactors :
        AfterLookup(kind) \in {"grant", "verify", "drop"}
  BY DEF AfterLookup, MagicFound, GoogleFound, FirstFactors
<1> QED
  BY <1>1, <1>2

\* What Lookup and Reload do to their worker.
LEMMA ReadJob ==
  ASSUME TypeOK, NEW w \in Workers, NEW x \in Phases, NEW b \in BOOLEAN,
         job' = [job EXCEPT ![w].phase = x, ![w].armed = b]
  PROVE  /\ job' \in [Workers -> Job]
         /\ job'[w].phase = x /\ job'[w].armed = b
         /\ job'[w].kind = job[w].kind /\ job'[w].link = job[w].link
         /\ job'[w].held = job[w].held /\ job'[w].step = job[w].step
         /\ \A v \in Workers : v # w => job'[v] = job[v]
<1> DEFINE new == [job[w] EXCEPT !.phase = x, !.armed = b]
<1>1. job \in [Workers -> Job] /\ job[w] \in Job
  BY DEF TypeOK
<1>2. new \in Job
  BY <1>1 DEF Job
<1>3. /\ new.phase = x /\ new.armed = b /\ new.kind = job[w].kind
      /\ new.link = job[w].link /\ new.held = job[w].held
      /\ new.step = job[w].step
  BY <1>1 DEF Job
<1>4. job' = [job EXCEPT ![w] = new]
  BY <1>1
<1> HIDE DEF new
<1>5. job'[w] = new /\ \A v \in Workers : v # w => job'[v] = job[v]
  BY <1>1, <1>4
<1>6. job' \in [Workers -> Job]
  BY <1>1, <1>2, <1>4
<1> QED
  BY <1>3, <1>5, <1>6

\* What Disarm does to the workers.
LEMMA DisarmJob ==
  ASSUME TypeOK, NEW w \in Workers, Disarm(w)
  PROVE  /\ job' \in [Workers -> Job]
         /\ job'[w] = NoJob
         /\ \A v \in Workers :
              /\ ~job'[v].held
              /\ v # w => /\ job'[v].phase = job[v].phase
                          /\ job'[v].kind = job[v].kind
                          /\ job'[v].link = job[v].link
                          /\ job'[v].armed = job[v].armed
                          /\ job'[v].step = job[v].step
<1>1. ASSUME NEW v \in Workers
      PROVE  [job[v] EXCEPT !.held = FALSE] \in Job
  <2>1. job[v] \in Job
    BY DEF TypeOK
  <2> QED
    BY <2>1 DEF Job
<1>2. job' \in [Workers -> Job]
  BY <1>1, NoJobType DEF Disarm
<1>3. job'[w] = NoJob /\ ~NoJob.held
  BY DEF Disarm, NoJob
<1>4. \A v \in Workers : v # w => job'[v] = [job[v] EXCEPT !.held = FALSE]
  BY DEF Disarm
<1>5. ASSUME NEW v \in Workers, v # w
      PROVE  /\ ~job'[v].held
             /\ job'[v].phase = job[v].phase /\ job'[v].kind = job[v].kind
             /\ job'[v].link = job[v].link /\ job'[v].armed = job[v].armed
             /\ job'[v].step = job[v].step
  <2>1. job[v] \in Job
    BY DEF TypeOK
  <2> QED
    BY <1>4, <1>5, <2>1 DEF Job
<1> QED
  BY <1>2, <1>3, <1>5

LEMMA NewSessionType ==
  ASSUME TypeOK, NEW w \in Workers
  PROVE  /\ NewSession(w) \in Session
         /\ NewSession(w).version = acct.version
         /\ ~NewSession(w).cut
         /\ ~job[w].held \/ job[w].kind = "code" => ~NewSession(w).bypass
<1>1. acct.version \in Nat /\ job[w].held \in BOOLEAN
  BY DEF TypeOK, Account, Job
<1>2. (job[w].held /\ job[w].kind # "code") \in BOOLEAN
  OBVIOUS
<1> QED
  BY <1>1, <1>2 DEF NewSession, Session

LEMMA CountingType ==
  ASSUME TypeOK, NEW w \in Workers
  PROVE  /\ Counting(w) \in [Links -> Nat]
         /\ \A l \in Links : Counting(w)[l] = IF job[w].link = l
                                              THEN opened[l] + 1
                                              ELSE opened[l]
<1>1. job[w].link \in Links \cup {"none"} /\ opened \in [Links -> Nat]
  BY DEF TypeOK, Job
<1>2. "none" \notin Links
  BY SignInAssumption DEF SignInAssumption
<1>3. CASE job[w].link = "none"
  BY <1>1, <1>2, <1>3 DEF Counting
<1>4. CASE job[w].link \in Links
  BY <1>1, <1>2, <1>4 DEF Counting
<1> QED
  BY <1>1, <1>3, <1>4

\* The handlers of the ways in run for a way in: with TypeOK it is inductive.
WaysIn ==
  \A w \in Workers :
    /\ job[w].phase \in {"claim", "lookup", "create"} =>
         job[w].kind \in FirstFactors
    /\ job[w].phase = "claim" => job[w].link \in Links

\* Type correctness of a request's first step.
LEMMA RequestType ==
  ASSUME TypeOK, NEW w \in Workers, Request(w)
  PROVE  TypeOK'
<1>1. ASSUME NEW l \in Links, FollowLink(w, l) PROVE TypeOK'
  <2>1. job' \in [Workers -> Job] /\ requests' \in Nat
    BY <1>1, BeginJob DEF FollowLink, Kinds, FirstFactors, Phases
  <2> QED
    BY <1>1, <2>1 DEF FollowLink, TypeOK
<1>2. ASSUME GoogleReturns(w) PROVE TypeOK'
  <2>1. job' \in [Workers -> Job] /\ requests' \in Nat
    BY <1>2, BeginJob DEF GoogleReturns, Kinds, FirstFactors, Phases
  <2> QED
    BY <1>2, <2>1 DEF GoogleReturns, TypeOK
<1>3. ASSUME PhoneApproved(w) PROVE TypeOK'
  <2>1. job' \in [Workers -> Job] /\ requests' \in Nat
    BY <1>3, BeginJob DEF PhoneApproved, Kinds, FirstFactors, Phases
  <2> QED
    BY <1>3, <2>1 DEF PhoneApproved, TypeOK
<1>4. ASSUME NEW use \in CodeUses, NEW step \in 0 .. now + 1,
             PostCode(w, use, step)
      PROVE  TypeOK'
  <2>1. step \in Nat /\ use \in Kinds /\ "lock" \in Phases
    BY DEF TypeOK, Kinds, Phases
  <2>2. job' \in [Workers -> Job] /\ requests' \in Nat
    BY <1>4, <2>1, BeginJob DEF PostCode
  <2> QED
    BY <1>4, <2>2 DEF PostCode, TypeOK
<1>5. ASSUME AskLogout(w) PROVE TypeOK'
  <2>1. job' \in [Workers -> Job] /\ requests' \in Nat
    BY <1>5, BeginJob DEF AskLogout, Kinds, Phases
  <2> QED
    BY <1>5, <2>1 DEF AskLogout, TypeOK
<1>6. ASSUME AskSuspend(w) PROVE TypeOK'
  <2>1. job' \in [Workers -> Job] /\ requests' \in Nat
    BY <1>6, BeginJob DEF AskSuspend, Kinds, Phases
  <2> QED
    BY <1>6, <2>1 DEF AskSuspend, TypeOK
<1> QED
  BY <1>1, <1>2, <1>3, <1>4, <1>5, <1>6 DEF Request

\* Type correctness of a handler's step.
LEMMA StepType ==
  ASSUME TypeOK, WaysIn, NEW w \in Workers, Step(w)
  PROVE  TypeOK'
<1>a. /\ job[w] \in Job /\ acct \in Account
      /\ acct.armed \in BOOLEAN
  BY DEF TypeOK, Account
<1>1. ASSUME Claim(w) PROVE TypeOK'
  <2>1. job' \in [Workers -> Job]
    BY <1>1, GotoJob, DoneJob DEF Claim, Phases
  <2>2. job[w].link \in Links
    BY <1>1 DEF Claim, At, WaysIn
  <2> QED
    BY <1>1, <2>1, <2>2 DEF Claim, TypeOK
<1>2. ASSUME Lookup(w) PROVE TypeOK'
  <2>1. AfterLookup(job[w].kind) \in Phases
    BY <1>2, PhasesType DEF Lookup, At, WaysIn, Phases
  <2>2. job' \in [Workers -> Job]
    BY <1>2, <1>a, <2>1, ReadJob, GotoJob, DoneJob DEF Lookup, Phases
  <2> QED
    BY <1>2, <2>2 DEF Lookup, TypeOK
<1>3. ASSUME Create(w) PROVE TypeOK'
  <2>1. job[w].kind \in FirstFactors
    BY <1>3 DEF Create, At, WaysIn
  <2>2. AfterCreate(job[w].kind) \in Phases
    BY <2>1, PhasesType DEF Phases
  <2>3. job' \in [Workers -> Job]
    BY <1>3, <2>2, GotoJob, DoneJob DEF Create
  <2>4. acct' \in Account
    BY <1>3, <1>a, <2>1, AccountType DEF Create
  <2> QED
    BY <1>3, <2>3, <2>4 DEF Create, TypeOK
<1>4. ASSUME AttachPhone(w) PROVE TypeOK'
  <2>1. job' \in [Workers -> Job] /\ acct' \in Account
    BY <1>4, <1>a, GotoJob, AccountType DEF AttachPhone, Phases
  <2> QED
    BY <1>4, <2>1 DEF AttachPhone, TypeOK
<1>5. ASSUME DropPhone(w) PROVE TypeOK'
  <2>1. job' \in [Workers -> Job] /\ acct' \in Account
    BY <1>5, <1>a, GotoJob, AccountType DEF DropPhone, Phases
  <2> QED
    BY <1>5, <2>1 DEF DropPhone, TypeOK
<1>6. ASSUME VerifyEmail(w) PROVE TypeOK'
  <2>1. job' \in [Workers -> Job] /\ acct' \in Account
    BY <1>6, <1>a, GotoJob, AccountType DEF VerifyEmail, Phases
  <2> QED
    BY <1>6, <2>1 DEF VerifyEmail, TypeOK
<1>7. ASSUME Reload(w) PROVE TypeOK'
  <2>1. job' \in [Workers -> Job]
    BY <1>7, <1>a, ReadJob DEF Reload, Phases
  <2>2. {mailed', half'} \subseteq BOOLEAN
    BY <1>7 DEF Reload, TypeOK
  <2> QED
    BY <1>7, <2>1, <2>2 DEF Reload, TypeOK
<1>8. ASSUME AskCode(w) PROVE TypeOK'
  <2>1. job' \in [Workers -> Job] /\ opened' \in [Links -> Nat]
    BY <1>8, DoneJob, CountingType DEF AskCode
  <2> QED
    BY <1>8, <2>1 DEF AskCode, TypeOK
<1>9. ASSUME Grant(w) PROVE TypeOK'
  <2>1. job' \in [Workers -> Job] /\ opened' \in [Links -> Nat]
    BY <1>9, DoneJob, CountingType DEF Grant
  <2>2. sessions' \subseteq Session
    BY <1>9, NewSessionType DEF Grant, TypeOK
  <2> QED
    BY <1>9, <2>1, <2>2 DEF Grant, TypeOK
<1>10. ASSUME AskLock(w) PROVE TypeOK'
  <2>1. job' \in [Workers -> Job]
    BY <1>10, GotoJob, DoneJob DEF AskLock, Phases
  <2> QED
    BY <1>10, <2>1 DEF AskLock, TypeOK
<1>11. ASSUME Match(w) PROVE TypeOK'
  <2>1. job' \in [Workers -> Job]
    BY <1>11, GotoJob DEF Match, Phases
  <2>2. code' \in [spent : SUBSET Nat, twice : BOOLEAN, raced : BOOLEAN]
    BY <1>11 DEF Match, TypeOK
  <2> QED
    BY <1>11, <2>1, <2>2 DEF Match, TypeOK
<1>12. ASSUME Spend(w) PROVE TypeOK'
  <2>1. job' \in [Workers -> Job]
    BY <1>12, GotoJob DEF Spend, Phases
  <2>2. job[w].step \in Nat
    BY <1>a DEF Job
  <2>3. code' \in [spent : SUBSET Nat, twice : BOOLEAN, raced : BOOLEAN]
    BY <1>12, <2>2 DEF Spend, TypeOK
  <2> QED
    BY <1>12, <2>1, <2>2, <2>3 DEF Spend, TypeOK
<1>13. ASSUME Record(w) PROVE TypeOK'
  <2>1. job' \in [Workers -> Job]
    BY <1>13, GotoJob, DoneJob DEF Record, Phases
  <2>2. limit \in LimitRow /\ At(w, "record") \in BOOLEAN
    BY DEF TypeOK, At
  <2>3. limit' \in LimitRow
    BY <1>13, <2>2, RecordedType DEF Record
  <2> QED
    BY <1>13, <2>1, <2>3 DEF Record, TypeOK
<1>14. ASSUME LetIn(w) PROVE TypeOK'
  <2>1. job' \in [Workers -> Job]
    BY <1>14, DoneJob DEF LetIn
  <2>2. sessions' \subseteq Session
    BY <1>14, NewSessionType DEF LetIn, TypeOK
  <2> QED
    BY <1>14, <2>1, <2>2 DEF LetIn, TypeOK
<1>15. ASSUME Arm(w) PROVE TypeOK'
  <2>1. job' \in [Workers -> Job] /\ acct' \in Account
    BY <1>15, <1>a, DoneJob, AccountType DEF Arm
  <2> QED
    BY <1>15, <2>1 DEF Arm, TypeOK
<1>16. ASSUME Disarm(w) PROVE TypeOK'
  <2>1. job' \in [Workers -> Job]
    BY <1>16, DisarmJob
  <2>2. acct' \in Account
    BY <1>16, <1>a, AccountType DEF Disarm
  <2> QED
    BY <1>16, <2>1, <2>2 DEF Disarm, TypeOK
<1>17. ASSUME Suspend(w) PROVE TypeOK'
  <2>1. job' \in [Workers -> Job] /\ acct' \in Account
    BY <1>17, <1>a, GotoJob, AccountType DEF Suspend, Phases
  <2>2. \A s \in sessions : [s EXCEPT !.cut = TRUE] \in Session
    BY DEF TypeOK, Session
  <2>3. sessions' \subseteq Session
    BY <1>17, <2>2 DEF Suspend
  <2> QED
    BY <1>17, <2>1, <2>3 DEF Suspend, TypeOK
<1>18. ASSUME Bump(w) PROVE TypeOK'
  <2>1. job' \in [Workers -> Job] /\ acct' \in Account
    BY <1>18, <1>a, DoneJob, AccountType DEF Bump, Bumped
  <2> QED
    BY <1>18, <2>1 DEF Bump, TypeOK
<1> QED
  BY <1>1, <1>2, <1>3, <1>4, <1>5, <1>6, <1>7, <1>8, <1>9, <1>10, <1>11,
     <1>12, <1>13, <1>14, <1>15, <1>16, <1>17, <1>18 DEF Step

\* The steps of no handler.
Outside ==
  \/ \E l \in Links : MailLink(l)
  \/ StartGoogle \/ StartPhone \/ Enroll
  \/ MailAgain
  \/ ClickVerify
  \/ Reinstate
  \/ Tick
  \/ LockLapses

\* Type correctness of the steps of no handler.
LEMMA OutsideType ==
  ASSUME TypeOK, Outside
  PROVE  TypeOK'
<1>a. acct \in Account
  BY DEF TypeOK
<1>1. ASSUME NEW l \in Links, MailLink(l) PROVE TypeOK'
  BY <1>1 DEF MailLink, Start, TypeOK
<1>2. CASE StartGoogle
  BY <1>2 DEF StartGoogle, Start, TypeOK
<1>3. CASE StartPhone
  BY <1>3 DEF StartPhone, Start, TypeOK
<1>4. CASE Enroll
  BY <1>4 DEF Enroll, Start, TypeOK
<1>5. CASE MailAgain
  BY <1>5 DEF MailAgain, TypeOK
<1>6. CASE ClickVerify
  <2>1. acct' \in Account
    BY <1>6, <1>a, AccountType DEF ClickVerify
  <2> QED
    BY <1>6, <2>1 DEF ClickVerify, TypeOK
<1>7. CASE Reinstate
  <2>1. acct' \in Account
    BY <1>7, <1>a, AccountType DEF Reinstate
  <2> QED
    BY <1>7, <2>1 DEF Reinstate, TypeOK
<1>8. CASE Tick
  BY <1>8 DEF Tick, TypeOK
<1>9. CASE LockLapses
  <2>1. limit' \in LimitRow
    BY <1>9 DEF LockLapses, Lapsed, TypeOK, LimitRow
  <2> QED
    BY <1>9, <2>1 DEF LockLapses, TypeOK
<1> QED
  BY <1>1, <1>2, <1>3, <1>4, <1>5, <1>6, <1>7, <1>8, <1>9 DEF Outside

LEMMA CrashType ==
  ASSUME TypeOK, NEW w \in Workers, Crash(w)
  PROVE  TypeOK'
<1>1. job' \in [Workers -> Job]
  BY DoneJob DEF Crash
<1> QED
  BY <1>1 DEF Crash, TypeOK

LEMMA NextTypeOK == TypeOK /\ WaysIn /\ [Next]_vars => TypeOK'
<1> SUFFICES ASSUME TypeOK, WaysIn, [Next]_vars
             PROVE  TypeOK'
  OBVIOUS
<1>1. CASE UNCHANGED vars
  BY <1>1 DEF vars, TypeOK
<1>2. ASSUME NEW w \in Workers, Request(w) \/ Step(w) \/ Crash(w)
      PROVE  TypeOK'
  BY <1>2, RequestType, StepType, CrashType
<1>3. CASE Outside
  BY <1>3, OutsideType
<1> QED
  BY <1>1, <1>2, <1>3 DEF Next, Outside

-----------------------------------------------------------------------------
(* The flow of a handler                                                   *)

\* Where a handler may go on from a phase.
Flow(x, y) ==
  \/ x = "claim" /\ y = "lookup"
  \/ x = "lookup" /\ y \in {"create", "grant", "verify", "drop"}
  \/ x = "create" /\ y \in {"attach", "verifynew", "grant"}
  \/ x \in {"attach", "verifynew"} /\ y = "reload"
  \/ x = "drop" /\ y = "verify"
  \/ x \in {"verify", "reload"} /\ y = "grant"
  \/ x = "lock" /\ y = "match"
  \/ x = "match" /\ y \in {"spend", "miss"}
  \/ x = "spend" /\ y = "record"
  \/ x = "record" /\ y = "apply"
  \/ x = "status" /\ y = "bump"

\* A request takes an idle worker, leaves the others alone, and meets an
\* account wherever it does not look one up.
LEMMA RequestJob ==
  ASSUME TypeOK, NEW w \in Workers, Request(w)
  PROVE  /\ job[w].phase = "idle"
         /\ \A v \in Workers : v # w => job'[v] = job[v]
         /\ job'[w].held = acct.armed
         /\ \/ /\ job'[w].phase = "claim" /\ job'[w].kind \in FirstFactors
               /\ job'[w].link \in Links
            \/ /\ job'[w].phase = "lookup" /\ job'[w].kind \in FirstFactors
               /\ job'[w].link = "none"
            \/ /\ job'[w].phase \in {"lock", "bump", "status"}
               /\ job'[w].link = "none"
               /\ Exists
               /\ job'[w].phase = "status" <=> job'[w].kind = "suspend"
         /\ UNCHANGED <<acct, claimed, sessions, marker, opened, code, faults>>
<1> DEFINE Starts ==
      /\ job[w].phase = "idle"
      /\ \A v \in Workers : v # w => job'[v] = job[v]
      /\ job'[w].held = acct.armed
      /\ \/ /\ job'[w].phase = "claim" /\ job'[w].kind \in FirstFactors
            /\ job'[w].link \in Links
         \/ /\ job'[w].phase = "lookup" /\ job'[w].kind \in FirstFactors
            /\ job'[w].link = "none"
         \/ /\ job'[w].phase \in {"lock", "bump", "status"}
            /\ job'[w].link = "none"
            /\ Exists
            /\ job'[w].phase = "status" <=> job'[w].kind = "suspend"
      /\ UNCHANGED <<acct, claimed, sessions, marker, opened, code, faults>>
<1>k. /\ FirstFactors \subseteq Kinds /\ CodeUses \subseteq Kinds
      /\ {"logout", "suspend"} \subseteq Kinds
      /\ {"claim", "lookup", "lock", "bump", "status"} \subseteq Phases
      /\ "magic" \in FirstFactors /\ "google" \in FirstFactors
      /\ "phone" \in FirstFactors /\ "suspend" \notin CodeUses
  BY DEF Kinds, Phases, FirstFactors, CodeUses
<1>1. ASSUME NEW l \in Links, FollowLink(w, l) PROVE Starts
  BY <1>1, <1>k, BeginJob DEF FollowLink
<1>2. CASE GoogleReturns(w)
  BY <1>2, <1>k, BeginJob DEF GoogleReturns
<1>3. CASE PhoneApproved(w)
  BY <1>3, <1>k, BeginJob DEF PhoneApproved
<1>4. ASSUME NEW use \in CodeUses, NEW step \in 0 .. now + 1,
             PostCode(w, use, step)
      PROVE  Starts
  <2>1. step \in Nat
    BY DEF TypeOK
  <2>2. Exists
    BY <1>4 DEF PostCode, CodeToEnter, CodeToArm, CodeToDisarm, SignedIn,
                Live, Exists
  <2> QED
    BY <1>4, <1>k, <2>1, <2>2, BeginJob DEF PostCode
<1>5. CASE AskLogout(w)
  <2>1. Exists
    BY <1>5 DEF AskLogout, SignedIn, Live, Exists
  <2>2. /\ Begin(w, "logout", "bump", "none", 0)
        /\ UNCHANGED <<acct, claimed, sessions, marker, opened, code, faults>>
    BY <1>5 DEF AskLogout
  <2> QED
    BY <1>k, <2>1, <2>2, BeginJob
<1>6. CASE AskSuspend(w)
  <2>1. /\ Begin(w, "suspend", "status", "none", 0) /\ Exists
        /\ UNCHANGED <<acct, claimed, sessions, marker, opened, code, faults>>
    BY <1>6 DEF AskSuspend
  <2> QED
    BY <1>k, <2>1, BeginJob
<1> QED
  BY <1>1, <1>2, <1>3, <1>4, <1>5, <1>6 DEF Request

\* A step takes its worker one phase on, or ends its request; of the others
\* it can at most forget that they have met an armed account throughout.
LEMMA StepJob ==
  ASSUME TypeOK, WaysIn, NEW w \in Workers, Step(w)
  PROVE  /\ job' \in [Workers -> Job]
         /\ \A v \in Workers : v # w =>
              /\ job'[v].phase = job[v].phase /\ job'[v].kind = job[v].kind
              /\ job'[v].link = job[v].link /\ job'[v].step = job[v].step
              /\ job'[v].armed = job[v].armed
              /\ job'[v].held => job[v].held
         /\ \/ job'[w] = NoJob
            \/ /\ Flow(job[w].phase, job'[w].phase)
               /\ job'[w].kind = job[w].kind /\ job'[w].link = job[w].link
               /\ job'[w].step = job[w].step /\ job'[w].held = job[w].held
               /\ IF \/ job[w].phase = "reload"
                     \/ job[w].phase = "lookup" /\ job'[w].phase # "create"
                  THEN job'[w].armed = acct.armed
                  ELSE job'[w].armed = job[w].armed
<1> DEFINE Steps ==
      /\ job' \in [Workers -> Job]
      /\ \A v \in Workers : v # w =>
           /\ job'[v].phase = job[v].phase /\ job'[v].kind = job[v].kind
           /\ job'[v].link = job[v].link /\ job'[v].step = job[v].step
           /\ job'[v].armed = job[v].armed
           /\ job'[v].held => job[v].held
      /\ \/ job'[w] = NoJob
         \/ /\ Flow(job[w].phase, job'[w].phase)
            /\ job'[w].kind = job[w].kind /\ job'[w].link = job[w].link
            /\ job'[w].step = job[w].step /\ job'[w].held = job[w].held
            /\ IF \/ job[w].phase = "reload"
                  \/ job[w].phase = "lookup" /\ job'[w].phase # "create"
               THEN job'[w].armed = acct.armed
               ELSE job'[w].armed = job[w].armed
<1>a. ASSUME NEW x \in Phases, Goto(w, x), Flow(job[w].phase, x),
             ~(job[w].phase = "reload"),
             ~(job[w].phase = "lookup" /\ x # "create")
      PROVE  Steps
  BY <1>a, GotoJob
<1>b. ASSUME Done(w) PROVE Steps
  BY <1>b, DoneJob
<1>1. CASE Claim(w)
  BY <1>1, <1>a, <1>b DEF Claim, At, Flow, Phases
<1>2. CASE Lookup(w)
  <2>1. CASE Found(job[w].kind)
    <3>1. AfterLookup(job[w].kind) \in {"grant", "verify", "drop"}
      BY <1>2, PhasesType DEF Lookup, At, WaysIn
    <3>2. AfterLookup(job[w].kind) \in Phases /\ acct.armed \in BOOLEAN
      BY <3>1 DEF Phases, TypeOK, Account
    <3>3. job' = [job EXCEPT ![w].phase = AfterLookup(job[w].kind),
                             ![w].armed = acct.armed]
      BY <1>2, <2>1 DEF Lookup
    <3> QED
      BY <1>2, <3>1, <3>2, <3>3, ReadJob DEF Lookup, At, Flow
  <2>2. CASE ~Found(job[w].kind)
    BY <1>2, <2>2, <1>a, <1>b DEF Lookup, At, Flow, Phases
  <2> QED
    BY <2>1, <2>2
<1>3. CASE Create(w)
  <2>1. AfterCreate(job[w].kind) \in {"attach", "verifynew", "grant"}
    BY <1>3, PhasesType DEF Create, At, WaysIn
  <2>2. AfterCreate(job[w].kind) \in Phases
    BY <2>1 DEF Phases
  <2> QED
    BY <1>3, <2>1, <2>2, <1>a, <1>b DEF Create, At, Flow
<1>4. CASE AttachPhone(w)
  BY <1>4, <1>a DEF AttachPhone, At, Flow, Phases
<1>5. CASE DropPhone(w)
  BY <1>5, <1>a DEF DropPhone, At, Flow, Phases
<1>6. CASE VerifyEmail(w)
  BY <1>6, <1>a DEF VerifyEmail, At, Flow, Phases
<1>7. CASE Reload(w)
  <2>1. "grant" \in Phases /\ acct.armed \in BOOLEAN
    BY DEF Phases, TypeOK, Account
  <2>2. /\ job[w].phase = "reload"
        /\ job' = [job EXCEPT ![w].phase = "grant", ![w].armed = acct.armed]
    BY <1>7 DEF Reload, At
  <2>3. /\ job' \in [Workers -> Job]
        /\ job'[w].phase = "grant" /\ job'[w].armed = acct.armed
        /\ job'[w].kind = job[w].kind /\ job'[w].link = job[w].link
        /\ job'[w].held = job[w].held /\ job'[w].step = job[w].step
        /\ \A v \in Workers : v # w => job'[v] = job[v]
    BY <2>1, <2>2, ReadJob
  <2> QED
    BY <2>2, <2>3 DEF Flow
<1>8. CASE AskCode(w)
  BY <1>8, <1>b DEF AskCode
<1>9. CASE Grant(w)
  BY <1>9, <1>b DEF Grant
<1>10. CASE AskLock(w)
  BY <1>10, <1>a, <1>b DEF AskLock, At, Flow, Phases
<1>11. CASE Match(w)
  BY <1>11, <1>a, <1>b DEF Match, At, Flow, Phases
<1>12. CASE Spend(w)
  BY <1>12, <1>a, <1>b DEF Spend, At, Flow, Phases
<1>13. CASE Record(w)
  BY <1>13, <1>a, <1>b DEF Record, At, Flow, Phases
<1>14. CASE LetIn(w)
  BY <1>14, <1>b DEF LetIn
<1>15. CASE Arm(w)
  BY <1>15, <1>b DEF Arm
<1>16. CASE Disarm(w)
  BY <1>16, DisarmJob
<1>17. CASE Suspend(w)
  BY <1>17, <1>a DEF Suspend, At, Flow, Phases
<1>18. CASE Bump(w)
  BY <1>18, <1>b DEF Bump
<1> QED
  BY <1>1, <1>2, <1>3, <1>4, <1>5, <1>6, <1>7, <1>8, <1>9, <1>10, <1>11,
     <1>12, <1>13, <1>14, <1>15, <1>16, <1>17, <1>18 DEF Step

\* A crash ends a request.
LEMMA CrashJob ==
  ASSUME TypeOK, NEW w \in Workers, Crash(w)
  PROVE  /\ job' \in [Workers -> Job]
         /\ job'[w] = NoJob
         /\ \A v \in Workers : v # w => job'[v] = job[v]
         /\ faults' > 0
         /\ UNCHANGED <<acct, claimed, sessions, marker, opened, code>>
<1>1. faults' > 0
  BY DEF Crash, TypeOK
<1> QED
  BY <1>1, DoneJob DEF Crash

\* Outside the handlers only the account changes: it is verified, or is
\* active again.
LEMMA OutsideEffect ==
  ASSUME TypeOK, Outside
  PROVE  /\ UNCHANGED <<job, claimed, sessions, marker, opened, code, faults>>
         /\ acct'.armed = acct.armed
         /\ acct'.version = acct.version
         /\ Exists' = Exists
<1>1. acct \in Account
  BY DEF TypeOK
<1>2. UNCHANGED <<job, claimed, sessions, marker, opened, code, faults>>
  BY DEF Outside, MailLink, StartGoogle, StartPhone, Enroll, Start, MailAgain,
         ClickVerify, Reinstate, Tick, LockLapses
<1>3. \/ acct' = acct
      \/ acct' = [acct EXCEPT !.verified = TRUE]
      \/ Exists /\ acct' = [acct EXCEPT !.status = "active"]
  BY DEF Outside, MailLink, StartGoogle, StartPhone, Enroll, Start, MailAgain,
         ClickVerify, Reinstate, Tick, LockLapses, Exists
<1>4. acct'.armed = acct.armed /\ acct'.version = acct.version
  BY <1>1, <1>3 DEF Account
<1>5. Exists' = Exists
  BY <1>1, <1>3 DEF Account, Exists
<1> QED
  BY <1>2, <1>4, <1>5

LEMMA InitWaysIn == Init => WaysIn
  BY DEF Init, NoJob, WaysIn

LEMMA NextWaysIn == TypeOK /\ WaysIn /\ [Next]_vars => WaysIn'
<1> SUFFICES ASSUME TypeOK, WaysIn, [Next]_vars
             PROVE  WaysIn'
  OBVIOUS
<1>a. NoJob.phase = "idle"
  BY DEF NoJob
<1>1. CASE UNCHANGED vars
  BY <1>1 DEF vars, WaysIn
<1>2. ASSUME NEW w \in Workers, Request(w) PROVE WaysIn'
  <2>1. \A v \in Workers : v # w => job'[v] = job[v]
    BY <1>2, RequestJob
  <2>2. /\ job'[w].phase \in {"claim", "lookup", "create"} =>
             job'[w].kind \in FirstFactors
        /\ job'[w].phase = "claim" => job'[w].link \in Links
    BY <1>2, RequestJob
  <2> QED
    BY <2>1, <2>2 DEF WaysIn
<1>3. ASSUME NEW w \in Workers, Step(w) PROVE WaysIn'
  <2>1. \A v \in Workers : v # w =>
          /\ job'[v].phase = job[v].phase /\ job'[v].kind = job[v].kind
          /\ job'[v].link = job[v].link
    BY <1>3, StepJob
  <2>2. \/ job'[w] = NoJob
        \/ Flow(job[w].phase, job'[w].phase) /\ job'[w].kind = job[w].kind
    BY <1>3, StepJob
  <2>3. /\ job'[w].phase \in {"claim", "lookup", "create"} =>
             job'[w].kind \in FirstFactors
        /\ job'[w].phase # "claim"
    BY <1>a, <2>2 DEF Flow, WaysIn
  <2> QED
    BY <2>1, <2>3 DEF WaysIn
<1>4. ASSUME NEW w \in Workers, Crash(w) PROVE WaysIn'
  BY <1>4, <1>a, CrashJob DEF WaysIn
<1>5. CASE Outside
  BY <1>5, OutsideEffect DEF WaysIn
<1> QED
  BY <1>1, <1>2, <1>3, <1>4, <1>5 DEF Next, Outside

\* SignIn keeps its types: a claim is of a link, an account is created by a
\* way in, and every limit row, marker and cookie is one the code can write.
THEOREM SignInTypeCorrect == Spec => []TypeOK
<1>1. Init => TypeOK /\ WaysIn
  BY InitTypeOK, InitWaysIn
<1>2. TypeOK /\ WaysIn /\ [Next]_vars => (TypeOK /\ WaysIn)'
  BY NextTypeOK, NextWaysIn
<1> QED
  BY <1>1, <1>2, PTL DEF Spec

-----------------------------------------------------------------------------
(* A magic link opens one session                                          *)

\* Somebody holds the claim of a link.
Uses(w, l) ==
  job[w].link = l /\ job[w].phase \notin {"idle", "claim"}

\* A claim is won once, and its winner hands out one cookie.
LinkInv ==
  /\ \A l \in Links : opened[l] \in {0, 1} /\ (opened[l] = 1 => l \in claimed)
  /\ \A l \in Links, w \in Workers :
       Uses(w, l) => /\ opened[l] = 0
                     /\ l \in claimed
                     /\ \A v \in Workers : Uses(v, l) => v = w

\* A step at which nobody wins a claim and no cookie is counted.
LEMMA LinkQuiet ==
  ASSUME LinkInv, UNCHANGED opened, claimed \subseteq claimed',
         \A l \in Links, v \in Workers : Uses(v, l)' => Uses(v, l)
  PROVE  LinkInv'
  BY DEF LinkInv

LEMMA NextLink == TypeOK /\ WaysIn /\ LinkInv /\ [Next]_vars => LinkInv'
<1> SUFFICES ASSUME TypeOK, WaysIn, LinkInv, [Next]_vars
             PROVE  LinkInv'
  OBVIOUS
<1>a. NoJob.phase = "idle" /\ "none" \notin Links
  BY SignInAssumption DEF NoJob, SignInAssumption
<1>1. CASE UNCHANGED vars
  BY <1>1 DEF vars, LinkInv, Uses
<1>2. ASSUME NEW w \in Workers, Request(w) PROVE LinkInv'
  <2>1. \A l \in Links, v \in Workers : Uses(v, l)' => Uses(v, l)
    BY <1>2, <1>a, RequestJob DEF Uses
  <2> QED
    BY <1>2, <2>1, LinkQuiet, RequestJob
<1>3. ASSUME NEW w \in Workers, Claim(w) PROVE LinkInv'
  <2>1. At(w, "claim") /\ job[w].link \in Links
    BY <1>3 DEF Claim, At, WaysIn
  <2>2. CASE job[w].link \in claimed
    <3>1. \A l \in Links, v \in Workers : Uses(v, l)' => Uses(v, l)
      BY <1>3, <1>a, <2>2, DoneJob DEF Claim, Uses
    <3> QED
      BY <1>3, <3>1, LinkQuiet DEF Claim
  <2>3. CASE job[w].link \notin claimed
    <3>1. \A v \in Workers : v # w => job'[v] = job[v]
      BY <1>3, <2>3, GotoJob DEF Claim, Phases
    <3>2. job'[w].link = job[w].link
      BY <1>3, <2>3, GotoJob DEF Claim, Phases
    <3>3. \A v \in Workers : ~Uses(v, job[w].link)
      BY <2>1, <2>3 DEF LinkInv
    <3>4. opened[job[w].link] = 0
      BY <2>1, <2>3 DEF LinkInv
    <3>5. opened' = opened /\ claimed' = claimed \cup {job[w].link}
      BY <1>3 DEF Claim
    <3>6. \A l \in Links, v \in Workers :
            Uses(v, l)' => \/ v = w /\ l = job[w].link
                           \/ v # w /\ Uses(v, l)
      BY <3>1, <3>2 DEF Uses
    <3> QED
      BY <2>1, <3>3, <3>4, <3>5, <3>6 DEF LinkInv
  <2> QED
    BY <2>2, <2>3
<1>4. ASSUME NEW w \in Workers, AskCode(w) \/ Grant(w) PROVE LinkInv'
  <2>1. job'[w] = NoJob /\ \A v \in Workers : v # w => job'[v] = job[v]
    BY <1>4, DoneJob DEF AskCode, Grant
  <2>2. /\ opened' = Counting(w) /\ UNCHANGED claimed
        /\ job[w].phase = "grant"
    BY <1>4 DEF AskCode, Grant, At
  <2>3. \A l \in Links : job[w].link = l => Uses(w, l)
    BY <2>2 DEF Uses
  <2>4. \A l \in Links : opened'[l] = IF job[w].link = l THEN opened[l] + 1
                                                         ELSE opened[l]
    BY <2>2, CountingType
  <2>5. \A l \in Links, v \in Workers : Uses(v, l)' => v # w /\ Uses(v, l)
    BY <1>a, <2>1 DEF Uses
  <2>6. \A l \in Links :
          opened'[l] \in {0, 1} /\ (opened'[l] = 1 => l \in claimed)
    BY <2>3, <2>4 DEF LinkInv
  <2>7. ASSUME NEW l \in Links, NEW v \in Workers, Uses(v, l)'
        PROVE  /\ opened'[l] = 0
               /\ l \in claimed
               /\ \A u \in Workers : Uses(u, l)' => u = v
    BY <2>3, <2>4, <2>5, <2>7 DEF LinkInv
  <2> QED
    BY <2>2, <2>6, <2>7 DEF LinkInv
<1>5. ASSUME NEW w \in Workers, Step(w), ~Claim(w), ~AskCode(w), ~Grant(w)
      PROVE  LinkInv'
  <2>1. opened' = opened /\ claimed' = claimed
    BY <1>5 DEF Step, Lookup, Create, AttachPhone, DropPhone, VerifyEmail,
                Reload, AskLock, Match, Spend, Record, LetIn, Arm, Disarm,
                Suspend, Bump
  <2>2. job[w].phase \notin {"idle", "claim"}
    BY <1>5 DEF Step, Lookup, Create, AttachPhone, DropPhone, VerifyEmail,
                Reload, AskLock, Match, Spend, Record, LetIn, Arm, Disarm,
                Suspend, Bump, At
  <2>3. \A l \in Links, v \in Workers : Uses(v, l)' => Uses(v, l)
    BY <1>5, <1>a, <2>2, StepJob DEF Uses
  <2> QED
    BY <2>1, <2>3, LinkQuiet
<1>6. ASSUME NEW w \in Workers, Crash(w) PROVE LinkInv'
  <2>1. \A l \in Links, v \in Workers : Uses(v, l)' => Uses(v, l)
    BY <1>6, <1>a, CrashJob DEF Uses
  <2> QED
    BY <1>6, <2>1, LinkQuiet, CrashJob
<1>7. CASE Outside
  <2>1. \A l \in Links, v \in Workers : Uses(v, l)' => Uses(v, l)
    BY <1>7, OutsideEffect DEF Uses
  <2> QED
    BY <1>7, <2>1, LinkQuiet, OutsideEffect
<1> QED
  BY <1>1, <1>2, <1>3, <1>4, <1>5, <1>6, <1>7 DEF Next, Outside

\* However many requests follow a magic link, at whatever moments, and
\* whichever of them die, it opens one session or half-session at most.
THEOREM LinkOpensOneSession == Spec => []LinkOpensOnce
<1>1. Init => TypeOK /\ WaysIn /\ LinkInv
  <2>1. Init => LinkInv
    BY DEF Init, NoJob, LinkInv, Uses
  <2> QED
    BY <2>1, InitTypeOK, InitWaysIn
<1>2. TypeOK /\ WaysIn /\ LinkInv /\ [Next]_vars
        => (TypeOK /\ WaysIn /\ LinkInv)'
  BY NextTypeOK, NextWaysIn, NextLink
<1>3. LinkInv => LinkOpensOnce
  BY DEF LinkInv, LinkOpensOnce
<1> QED
  BY <1>1, <1>2, <1>3, PTL DEF Spec

-----------------------------------------------------------------------------
(* No way in goes round the authenticator                                  *)

\* What a step does to the account.
LEMMA StepAccount ==
  ASSUME TypeOK, WaysIn, NEW w \in Workers, Step(w)
  PROVE  /\ Exists => Exists' /\ acct'.version \in Nat
                              /\ acct'.version >= acct.version
         /\ \/ acct'.armed = acct.armed
            \/ ~Exists /\ ~acct'.armed
            \/ job[w].phase = "apply" /\ acct'.armed
            \/ ~acct'.armed /\ \A v \in Workers : ~job'[v].held
         /\ job[w].phase = "lookup" /\ job'[w].phase \notin {"idle", "create"}
              => Exists
         /\ job[w].phase = "create" /\ job'[w].phase # "idle"
              => ~Exists /\ Exists'
         /\ job[w].phase = "bump" => acct'.version = acct.version + 1
<1> DEFINE Kept == /\ Exists' = Exists
                   /\ acct'.version = acct.version
                   /\ acct'.armed = acct.armed
<1>a. acct \in Account /\ acct.version \in Nat /\ NoJob.phase = "idle"
  BY DEF TypeOK, Account, NoJob
<1>1. ASSUME Claim(w) \/ Reload(w) \/ AskCode(w) \/ Grant(w) \/ AskLock(w)
             \/ Match(w) \/ Spend(w) \/ Record(w) \/ LetIn(w)
      PROVE  Kept /\ job[w].phase \notin {"lookup", "create", "bump"}
  BY <1>1 DEF Claim, Reload, AskCode, Grant, AskLock, Match, Spend, Record,
              LetIn, At, Exists
<1>2. ASSUME AttachPhone(w) \/ DropPhone(w) \/ VerifyEmail(w)
      PROVE  Kept /\ job[w].phase \notin {"lookup", "create", "bump"}
  <2>1. \/ acct' = [acct EXCEPT !.phone = TRUE]
        \/ acct' = [acct EXCEPT !.phone = FALSE]
        \/ acct' = [acct EXCEPT !.verified = TRUE]
    BY <1>2 DEF AttachPhone, DropPhone, VerifyEmail
  <2>2. Kept
    BY <1>a, <2>1 DEF Account, Exists
  <2> QED
    BY <1>2, <2>2 DEF AttachPhone, DropPhone, VerifyEmail, At
<1>3. ASSUME Lookup(w)
      PROVE  /\ Kept /\ job[w].phase = "lookup"
             /\ job'[w].phase \notin {"idle", "create"} => Exists
  <2>1. Kept /\ job[w].phase = "lookup"
    BY <1>3 DEF Lookup, At, Exists
  <2>2. CASE Found(job[w].kind)
    BY <2>1, <2>2 DEF Found
  <2>3. CASE ~Found(job[w].kind)
    BY <1>3, <1>a, <2>1, <2>3, GotoJob, DoneJob DEF Lookup, Phases
  <2> QED
    BY <2>1, <2>2, <2>3
<1>4. ASSUME Create(w)
      PROVE  /\ job[w].phase = "create"
             /\ \/ Kept /\ job'[w].phase = "idle"
                \/ ~Exists /\ Exists' /\ ~acct'.armed
  <2>1. job[w].phase = "create"
    BY <1>4 DEF Create, At
  <2>2. CASE Exists
    <3>1. Done(w) /\ acct' = acct
      BY <1>4, <2>2 DEF Create
    <3> QED
      BY <1>a, <2>1, <3>1, DoneJob DEF Exists
  <2>3. CASE ~Exists
    <3>1. acct' = [NoAccount EXCEPT !.status = "active", !.by = job[w].kind]
      BY <1>4, <2>3 DEF Create
    <3> QED
      BY <2>1, <2>3, <3>1 DEF NoAccount, Exists
  <2> QED
    BY <2>2, <2>3
<1>5. ASSUME Arm(w)
      PROVE  /\ job[w].phase = "apply" /\ acct'.armed
             /\ Exists' = Exists /\ acct'.version = acct.version
  BY <1>5, <1>a DEF Arm, At, Account, Exists
<1>6. ASSUME Disarm(w)
      PROVE  /\ job[w].phase = "apply" /\ ~acct'.armed
             /\ \A v \in Workers : ~job'[v].held
             /\ Exists' = Exists /\ acct'.version = acct.version
  <2>1. /\ job[w].phase = "apply" /\ Exists' = Exists
        /\ acct'.version = acct.version /\ ~acct'.armed
    BY <1>6, <1>a DEF Disarm, At, Account, Exists
  <2> QED
    BY <1>6, <2>1, DisarmJob
<1>7. ASSUME Suspend(w)
      PROVE  /\ job[w].phase = "status" /\ Exists'
             /\ acct'.version = acct.version /\ acct'.armed = acct.armed
  BY <1>7, <1>a DEF Suspend, At, Account, Exists
<1>8. ASSUME Bump(w)
      PROVE  /\ job[w].phase = "bump" /\ Exists' = Exists
             /\ acct'.version = acct.version + 1 /\ acct'.armed = acct.armed
  BY <1>8, <1>a DEF Bump, Bumped, At, Account, Exists
<1>9. acct.version + 1 >= acct.version /\ acct.version + 1 \in Nat
  BY <1>a
<1> QED
  BY <1>a, <1>1, <1>2, <1>3, <1>4, <1>5, <1>6, <1>7, <1>8, <1>9 DEF Step

\* What a step does to the cookies.
LEMMA StepSessions ==
  ASSUME TypeOK, NEW w \in Workers, Step(w)
  PROVE  \/ sessions' = sessions
         \/ /\ sessions' = sessions \cup {NewSession(w)}
            /\ acct' = acct
            /\ \/ job[w].phase = "grant" /\ ~job[w].armed
               \/ job[w].phase = "apply" /\ job[w].kind = "code"
         \/ /\ sessions' = {[s EXCEPT !.cut = TRUE] : s \in sessions}
            /\ job[w].phase = "status"
            /\ job'[w] = [job[w] EXCEPT !.phase = "bump"]
            /\ acct'.version = acct.version
<1>1. CASE Grant(w) \/ LetIn(w)
  BY <1>1 DEF Grant, LetIn, At
<1>2. CASE Suspend(w)
  <2>1. Goto(w, "bump") /\ "bump" \in Phases /\ acct \in Account
    BY <1>2 DEF Suspend, Phases, TypeOK
  <2>2. job'[w] = [job[w] EXCEPT !.phase = "bump"]
    BY <2>1, GotoJob
  <2>3. acct'.version = acct.version
    BY <1>2, <2>1 DEF Suspend, Account
  <2> QED
    BY <1>2, <2>2, <2>3 DEF Suspend, At
<1>3. CASE ~Grant(w) /\ ~LetIn(w) /\ ~Suspend(w)
  BY <1>3 DEF Step, Claim, Lookup, Create, AttachPhone, DropPhone, VerifyEmail,
              Reload, AskCode, AskLock, Match, Spend, Record, Arm, Disarm, Bump
<1> QED
  BY <1>1, <1>2, <1>3

\* A request that has met an armed account throughout has read that it is
\* armed, or has yet to read it, or runs on an account it did not create.
MetArmed(w) ==
  /\ job[w].phase \notin {"idle", "claim", "lookup", "create"} => Exists
  /\ job[w].held => acct.armed
  /\ job[w].phase \in {"attach", "verifynew", "reload"} => ~job[w].held
  /\ job[w].phase \in {"verify", "drop", "grant"} /\ job[w].held
       => job[w].armed

RoundInv ==
  /\ acct.armed => Exists
  /\ sessions # {} => Exists
  /\ \A w \in Workers : MetArmed(w)
  /\ NoWayRound

LEMMA InitRound == Init => RoundInv
<1>1. NoJob.phase = "idle" /\ ~NoJob.held /\ ~NoAccount.armed
  BY DEF NoJob, NoAccount
<1>2. Init => \A w \in Workers : MetArmed(w)
  BY <1>1 DEF Init, MetArmed
<1> QED
  BY <1>1, <1>2 DEF Init, RoundInv, NoWayRound

LEMMA NextRound == TypeOK /\ WaysIn /\ RoundInv /\ [Next]_vars => RoundInv'
<1> SUFFICES ASSUME TypeOK, WaysIn, RoundInv, [Next]_vars
             PROVE  RoundInv'
  OBVIOUS
<1>a. NoJob.phase = "idle" /\ ~NoJob.held
  BY DEF NoJob
<1>1. CASE UNCHANGED vars
  BY <1>1 DEF vars, RoundInv, MetArmed, NoWayRound, Exists
<1>2. ASSUME NEW w \in Workers, Request(w) PROVE RoundInv'
  <2>1. UNCHANGED <<acct, sessions>> /\ Exists' = Exists
    BY <1>2, RequestJob DEF Exists
  <2>2. MetArmed(w)'
    BY <1>2, <2>1, RequestJob DEF MetArmed
  <2>3. ASSUME NEW v \in Workers, v # w PROVE MetArmed(v)'
    BY <1>2, <2>1, <2>3, RequestJob DEF RoundInv, MetArmed
  <2> QED
    BY <2>1, <2>2, <2>3 DEF RoundInv, NoWayRound
<1>3. ASSUME NEW w \in Workers, Step(w) PROVE RoundInv'
  <2>a. Exists => Exists'
    BY <1>3, StepAccount
  <2>b. \/ acct'.armed = acct.armed
        \/ ~Exists /\ ~acct'.armed
        \/ job[w].phase = "apply" /\ acct'.armed
        \/ ~acct'.armed /\ \A v \in Workers : ~job'[v].held
    BY <1>3, StepAccount
  <2>c. /\ job[w].phase = "lookup" /\ job'[w].phase \notin {"idle", "create"}
             => Exists
        /\ job[w].phase = "create" /\ job'[w].phase # "idle"
             => ~Exists /\ Exists'
    BY <1>3, StepAccount
  <2>d. /\ \A v \in Workers : v # w =>
             /\ job'[v].phase = job[v].phase /\ job'[v].armed = job[v].armed
             /\ job'[v].held => job[v].held
        /\ \/ job'[w] = NoJob
           \/ /\ Flow(job[w].phase, job'[w].phase)
              /\ job'[w].held = job[w].held
              /\ IF \/ job[w].phase = "reload"
                    \/ job[w].phase = "lookup" /\ job'[w].phase # "create"
                 THEN job'[w].armed = acct.armed
                 ELSE job'[w].armed = job[w].armed
    BY <1>3, StepJob
  <2>1. acct'.armed => Exists'
    BY <2>a, <2>b DEF RoundInv, MetArmed
  <2>2. \A v \in Workers : job'[v].held => acct'.armed
    BY <1>a, <2>b, <2>d DEF RoundInv, MetArmed
  <2>3. MetArmed(w)'
    BY <1>a, <2>a, <2>c, <2>d, <2>2 DEF RoundInv, MetArmed, Flow
  <2>4. ASSUME NEW v \in Workers, v # w PROVE MetArmed(v)'
    BY <2>a, <2>d, <2>2, <2>4 DEF RoundInv, MetArmed
  <2>5. NoWayRound' /\ (sessions' # {} => Exists')
    <3>1. CASE sessions' = sessions
      BY <2>a, <3>1 DEF RoundInv, NoWayRound
    <3>2. CASE /\ sessions' = sessions \cup {NewSession(w)}
               /\ \/ job[w].phase = "grant" /\ ~job[w].armed
                  \/ job[w].phase = "apply" /\ job[w].kind = "code"
      <4>1. Exists
        BY <3>2 DEF RoundInv, MetArmed
      <4>2. ~job[w].held \/ job[w].kind = "code"
        BY <3>2 DEF RoundInv, MetArmed
      <4>3. ~NewSession(w).bypass
        BY <4>2, NewSessionType
      <4> QED
        BY <2>a, <3>2, <4>1, <4>3 DEF RoundInv, NoWayRound
    <3>3. CASE sessions' = {[s EXCEPT !.cut = TRUE] : s \in sessions}
      <4>1. \A s \in sessions : ~[s EXCEPT !.cut = TRUE].bypass
        BY DEF RoundInv, NoWayRound, TypeOK, Session
      <4> QED
        BY <2>a, <3>3, <4>1 DEF RoundInv, NoWayRound
    <3> QED
      BY <1>3, <3>1, <3>2, <3>3, StepSessions
  <2> QED
    BY <2>1, <2>3, <2>4, <2>5 DEF RoundInv
<1>4. ASSUME NEW w \in Workers, Crash(w) PROVE RoundInv'
  <2>1. /\ UNCHANGED <<acct, sessions>> /\ Exists' = Exists
        /\ job'[w] = NoJob /\ \A v \in Workers : v # w => job'[v] = job[v]
    BY <1>4, CrashJob DEF Exists
  <2> QED
    BY <1>a, <2>1 DEF RoundInv, MetArmed, NoWayRound
<1>5. CASE Outside
  <2>1. /\ UNCHANGED <<job, sessions>> /\ Exists' = Exists
        /\ acct'.armed = acct.armed
    BY <1>5, OutsideEffect
  <2> QED
    BY <2>1 DEF RoundInv, MetArmed, NoWayRound
<1> QED
  BY <1>1, <1>2, <1>3, <1>4, <1>5 DEF Next, Outside

\* No way in, in any interleaving with enrolling and disarming, gives a session
\* without a code to a request that met an armed account from its first step
\* to its last.
THEOREM AuthenticatorIsAsked == Spec => []NoWayRound
<1>1. Init => TypeOK /\ WaysIn /\ RoundInv
  BY InitTypeOK, InitWaysIn, InitRound
<1>2. TypeOK /\ WaysIn /\ RoundInv /\ [Next]_vars
        => (TypeOK /\ WaysIn /\ RoundInv)'
  BY NextTypeOK, NextWaysIn, NextRound
<1>3. RoundInv => NoWayRound
  BY DEF RoundInv
<1> QED
  BY <1>1, <1>2, <1>3, PTL DEF Spec

-----------------------------------------------------------------------------
(* A suspension ends the sessions there are                                *)

Completing == \E w \in Workers : At(w, "bump") /\ job[w].kind = "suspend"

\* No cookie is of a version to come, and one that a suspension cut is of a
\* version gone by once the suspension is complete.
CutInv ==
  /\ \A w \in Workers : At(w, "status") => job[w].kind = "suspend"
  /\ \A s \in sessions :
       /\ s.version <= acct.version
       /\ s.cut => s.version < acct.version \/ faults > 0 \/ Completing

\* While nobody completes a suspension, its cookies stay cut or gone by.
LEMMA CutQuiet ==
  ASSUME TypeOK, TypeOK', CutInv, UNCHANGED <<sessions, faults>>,
         acct'.version >= acct.version,
         Completing => Completing' \/ acct'.version > acct.version,
         \A w \in Workers : At(w, "status")' => job'[w].kind = "suspend"
  PROVE  CutInv'
<1>1. acct.version \in Nat /\ acct'.version \in Nat
  BY DEF TypeOK, Account
<1>2. \A s \in sessions : s.version \in Nat
  BY DEF TypeOK, Session
<1>3. ASSUME NEW s \in sessions
      PROVE  /\ s.version <= acct'.version
             /\ s.cut => s.version < acct'.version \/ faults' > 0 \/ Completing'
  <2>1. /\ s.version <= acct.version
        /\ s.cut => s.version < acct.version \/ faults > 0 \/ Completing
    BY DEF CutInv
  <2>2. s.version <= acct'.version
    BY <1>1, <1>2, <2>1
  <2>3. CASE Completing
    BY <1>1, <1>2, <2>1, <2>3
  <2>4. CASE ~Completing
    BY <1>1, <1>2, <2>1, <2>4
  <2> QED
    BY <2>2, <2>3, <2>4
<1> QED
  BY <1>3 DEF CutInv

LEMMA NextCut ==
  TypeOK /\ WaysIn /\ RoundInv /\ CutInv /\ [Next]_vars => CutInv'
<1> SUFFICES ASSUME TypeOK, WaysIn, RoundInv, CutInv, [Next]_vars
             PROVE  CutInv'
  OBVIOUS
<1>a. TypeOK' /\ NoJob.phase = "idle"
  BY NextTypeOK DEF NoJob
<1>n. acct.version \in Nat
  BY DEF TypeOK, Account
<1>b. acct.version \in Nat /\ acct.version >= acct.version
  BY <1>n
<1>1. CASE UNCHANGED vars
  BY <1>1 DEF vars, CutInv, Completing, At
<1>2. ASSUME NEW w \in Workers, Request(w) PROVE CutInv'
  <2>1. /\ UNCHANGED <<acct, sessions, faults>>
        /\ job[w].phase = "idle"
        /\ \A v \in Workers : v # w => job'[v] = job[v]
        /\ job'[w].phase = "status" => job'[w].kind = "suspend"
    BY <1>2, RequestJob
  <2>2. Completing => Completing'
    BY <2>1 DEF Completing, At
  <2>3. \A v \in Workers : At(v, "status")' => job'[v].kind = "suspend"
    BY <2>1 DEF CutInv, At
  <2> QED
    BY <1>a, <1>b, <2>1, <2>2, <2>3, CutQuiet
<1>3. ASSUME NEW w \in Workers, Step(w) PROVE CutInv'
  <2>a. /\ \A v \in Workers : v # w =>
             job'[v].phase = job[v].phase /\ job'[v].kind = job[v].kind
        /\ \/ job'[w] = NoJob
           \/ Flow(job[w].phase, job'[w].phase) /\ job'[w].kind = job[w].kind
    BY <1>3, StepJob
  <2>b. /\ Exists => /\ acct'.version \in Nat
                     /\ acct'.version >= acct.version
        /\ job[w].phase = "bump" => acct'.version = acct.version + 1
    BY <1>3, StepAccount
  <2>c. \A v \in Workers : At(v, "status")' => job'[v].kind = "suspend"
    BY <1>a, <2>a DEF CutInv, At, Flow
  <2>d. faults' = faults
    BY <1>3 DEF Step, Claim, Lookup, Create, AttachPhone, DropPhone,
                VerifyEmail, Reload, AskCode, Grant, AskLock, Match, Spend,
                Record, LetIn, Arm, Disarm, Suspend, Bump
  <2>e. Completing => Completing' \/ job[w].phase = "bump"
    BY <2>a DEF Completing, At
  <2>1. CASE sessions' = sessions
    <3>1. CASE Exists
      <4>1. Completing => Completing' \/ acct'.version > acct.version
        BY <1>b, <2>b, <2>e
      <4> QED
        BY <1>a, <2>1, <2>b, <2>c, <2>d, <3>1, <4>1, CutQuiet
    <3>2. CASE ~Exists
      BY <2>1, <2>c, <3>2 DEF RoundInv, CutInv
    <3> QED
      BY <3>1, <3>2
  <2>2. CASE /\ sessions' = sessions \cup {NewSession(w)}
             /\ acct' = acct
             /\ job[w].phase \in {"grant", "apply"}
    <3>1. Completing => Completing'
      BY <2>2, <2>e
    <3>2. NewSession(w).version = acct.version /\ ~NewSession(w).cut
      BY NewSessionType
    <3>3. \A s \in sessions :
            /\ s.version <= acct'.version
            /\ s.cut => s.version < acct'.version \/ faults' > 0 \/ Completing'
      BY <2>2, <2>d, <3>1 DEF CutInv
    <3> QED
      BY <1>b, <2>2, <2>c, <3>2, <3>3 DEF CutInv
  <2>3. CASE /\ sessions' = {[s EXCEPT !.cut = TRUE] : s \in sessions}
             /\ job[w].phase = "status"
             /\ job'[w] = [job[w] EXCEPT !.phase = "bump"]
             /\ acct'.version = acct.version
    <3>1. job[w] \in Job /\ job[w].kind = "suspend"
      BY <2>3 DEF TypeOK, CutInv, At
    <3>2. Completing'
      BY <2>3, <3>1 DEF Completing, At, Job
    <3>3. \A s \in sessions : [s EXCEPT !.cut = TRUE].version = s.version
      BY DEF TypeOK, Session
    <3>4. ASSUME NEW s \in sessions'
          PROVE  s.version <= acct'.version
      <4>1. PICK t \in sessions : s = [t EXCEPT !.cut = TRUE]
        BY <2>3
      <4>2. s.version = t.version
        BY <3>3, <4>1
      <4>3. t.version <= acct.version
        BY DEF CutInv
      <4> QED
        BY <2>3, <4>2, <4>3
    <3>5. \A v \in Workers : At(v, "status")' => job'[v].kind = "suspend"
      BY <2>c
    <3> QED
      BY <3>2, <3>4, <3>5, Zenon DEF CutInv
  <2> QED
    BY <1>3, <2>1, <2>2, <2>3, StepSessions
<1>4. ASSUME NEW w \in Workers, Crash(w) PROVE CutInv'
  <2>1. /\ UNCHANGED <<acct, sessions>> /\ faults' > 0
        /\ job'[w] = NoJob /\ \A v \in Workers : v # w => job'[v] = job[v]
    BY <1>4, CrashJob
  <2> QED
    BY <1>a, <2>1 DEF CutInv, At
<1>5. CASE Outside
  <2>1. /\ UNCHANGED <<job, sessions, faults>>
        /\ acct'.version = acct.version
    BY <1>5, OutsideEffect
  <2> QED
    BY <2>1 DEF CutInv, Completing, At
<1> QED
  BY <1>1, <1>2, <1>3, <1>4, <1>5 DEF Next, Outside

\* Once a suspension is complete, none of the sessions it met is accepted
\* again, reinstated or not; only a crash between its two writes leaves one.
THEOREM SuspensionIsFinal == Spec => []SuspensionEndsSessions
<1> DEFINE Inv == TypeOK /\ WaysIn /\ RoundInv /\ CutInv
<1>1. Init => Inv
  <2>1. Init => CutInv
    BY DEF Init, NoJob, CutInv, At
  <2> QED
    BY <2>1, InitTypeOK, InitWaysIn, InitRound
<1>2. Inv /\ [Next]_vars => Inv'
  BY NextTypeOK, NextWaysIn, NextRound, NextCut
<1>3. Inv => SuspensionEndsSessions
  <2> SUFFICES ASSUME TypeOK, CutInv, NEW s \in sessions, s.cut, Live(s)
               PROVE  faults > 0 \/ Completing
    BY DEF SuspensionEndsSessions, Completing
  <2>1. s.version = acct.version /\ acct.version \in Nat
    BY DEF Live, TypeOK, Account
  <2>2. s.version < acct.version \/ faults > 0 \/ Completing
    BY DEF CutInv
  <2> QED
    BY <2>1, <2>2
<1> HIDE DEF Inv
<1> QED
  BY <1>1, <1>2, <1>3, PTL DEF Spec

-----------------------------------------------------------------------------
(* A code is accepted once                                                 *)

Code == [spent : SUBSET Nat, twice : BOOLEAN, raced : BOOLEAN]

\* Unless two codes have been between the reading and the writing of the
\* marker together, one is there at most, it is above the marker, and the
\* codes spent are not.
CodeInv ==
  ~code.raced =>
    /\ ~code.twice
    /\ \A t \in code.spent : t <= marker
    /\ \A w \in Workers : At(w, "spend") => job[w].step > marker
    /\ \A v, w \in Workers : At(v, "spend") /\ At(w, "spend") => v = w

\* A step that no code takes part in.
LEMMA CodeQuiet ==
  ASSUME CodeInv, UNCHANGED <<code, marker>>,
         \A v \in Workers : At(v, "spend")' => /\ At(v, "spend")
                                               /\ job'[v].step = job[v].step
  PROVE  CodeInv'
  BY DEF CodeInv

LEMMA NextCode == TypeOK /\ WaysIn /\ CodeInv /\ [Next]_vars => CodeInv'
<1> SUFFICES ASSUME TypeOK, WaysIn, CodeInv, [Next]_vars
             PROVE  CodeInv'
  OBVIOUS
<1>a. NoJob.phase = "idle" /\ code \in Code
  BY DEF NoJob, TypeOK, Code
<1>1. CASE UNCHANGED vars
  BY <1>1 DEF vars, CodeInv, At
<1>2. ASSUME NEW w \in Workers, Request(w) PROVE CodeInv'
  <2>1. \A v \in Workers : At(v, "spend")' => /\ At(v, "spend")
                                              /\ job'[v].step = job[v].step
    BY <1>2, RequestJob DEF At
  <2> QED
    BY <1>2, <2>1, CodeQuiet, RequestJob
<1>3. ASSUME NEW w \in Workers, Match(w) PROVE CodeInv'
  <2>1. marker' = marker /\ job' \in [Workers -> Job]
    BY <1>3, GotoJob DEF Match, Phases
  <2>2. \A v \in Workers : v # w => job'[v] = job[v]
    BY <1>3, GotoJob DEF Match, Phases
  <2>3. job'[w].step = job[w].step
    BY <1>3, GotoJob DEF Match, Phases
  <2>4. CASE MatchFresh(w)
    <3>1. job[w].step > marker
      BY <2>4 DEF MatchFresh
    <3>2. /\ code'.twice = code.twice /\ code'.spent = code.spent
          /\ ~code'.raced => /\ ~code.raced
                             /\ \A v \in Workers \ {w} : ~At(v, "spend")
      BY <1>3, <1>a, <2>4 DEF Match, Code
    <3> QED
      BY <2>1, <2>2, <2>3, <3>1, <3>2 DEF CodeInv, At
  <2>5. CASE ~MatchFresh(w)
    <3>1. job'[w].phase = "miss"
      BY <1>3, <2>5, GotoJob DEF Match, Phases
    <3>2. /\ code'.twice = code.twice /\ code'.spent = code.spent
          /\ code'.raced = code.raced
      BY <1>3, <1>a, <2>5 DEF Match, Code
    <3> QED
      BY <2>1, <2>2, <3>1, <3>2 DEF CodeInv, At
  <2> QED
    BY <2>4, <2>5
<1>4. ASSUME NEW w \in Workers, Spend(w) PROVE CodeInv'
  <2>1. At(w, "spend") /\ marker' = job[w].step
    BY <1>4 DEF Spend
  <2>2. job'[w].phase = "record" /\ \A v \in Workers : v # w => job'[v] = job[v]
    BY <1>4, GotoJob DEF Spend, Phases
  <2>3. /\ code'.raced = code.raced
        /\ code'.spent = code.spent \cup {job[w].step}
        /\ code'.twice <=> code.twice \/ job[w].step \in code.spent
    BY <1>4, <1>a DEF Spend, Code
  <2>4. /\ marker \in Nat /\ job[w].step \in Nat
        /\ \A t \in code.spent : t \in Nat
    BY DEF TypeOK, Job
  <2>5. SUFFICES ASSUME ~code.raced
                 PROVE  CodeInv'
    BY <2>3 DEF CodeInv
  <2>6. job[w].step > marker /\ \A t \in code.spent : t <= marker
    BY <2>1, <2>5 DEF CodeInv
  <2>7. job[w].step \notin code.spent
    BY <2>4, <2>6
  <2>8. \A t \in code'.spent : t <= marker'
    BY <2>1, <2>3, <2>4, <2>6
  <2>9. \A v \in Workers : ~At(v, "spend")'
    BY <2>1, <2>2, <2>5 DEF CodeInv, At
  <2> QED
    BY <2>3, <2>5, <2>7, <2>8, <2>9 DEF CodeInv
<1>5. ASSUME NEW w \in Workers, Step(w), ~Match(w), ~Spend(w) PROVE CodeInv'
  <2>1. UNCHANGED <<code, marker>> /\ ~At(w, "match")
    BY <1>5 DEF Step, Claim, Lookup, Create, AttachPhone, DropPhone,
                VerifyEmail, Reload, AskCode, Grant, AskLock, Record, LetIn,
                Arm, Disarm, Suspend, Bump, At
  <2>2. \A v \in Workers : At(v, "spend")' => /\ At(v, "spend")
                                              /\ job'[v].step = job[v].step
    BY <1>5, <1>a, <2>1, StepJob DEF At, Flow
  <2> QED
    BY <2>1, <2>2, CodeQuiet
<1>6. ASSUME NEW w \in Workers, Crash(w) PROVE CodeInv'
  <2>1. \A v \in Workers : At(v, "spend")' => /\ At(v, "spend")
                                              /\ job'[v].step = job[v].step
    BY <1>6, <1>a, CrashJob DEF At
  <2> QED
    BY <1>6, <2>1, CodeQuiet, CrashJob
<1>7. CASE Outside
  <2>1. UNCHANGED <<job, code, marker>>
    BY <1>7, OutsideEffect
  <2> QED
    BY <2>1 DEF CodeInv, At
<1> QED
  BY <1>1, <1>2, <1>3, <1>4, <1>5, <1>6, <1>7 DEF Next, Outside

\* However many codes are posted, a step of the authenticator is accepted
\* once, as long as no two of them are between the read and the write of the
\* marker together: the window of that race is exactly the unguarded one.
THEOREM CodeIsSpentOnce == Spec => []CodeAcceptedOnce
<1> DEFINE Inv == TypeOK /\ WaysIn /\ CodeInv
<1>1. Init => Inv
  <2>1. Init => CodeInv
    BY DEF Init, NoJob, CodeInv, At
  <2> QED
    BY <2>1, InitTypeOK, InitWaysIn
<1>2. Inv /\ [Next]_vars => Inv'
  BY NextTypeOK, NextWaysIn, NextCode
<1>3. Inv => CodeAcceptedOnce
  BY DEF CodeInv, CodeAcceptedOnce, TypeOK
<1> HIDE DEF Inv
<1> QED
  BY <1>1, <1>2, <1>3, PTL DEF Spec

=============================================================================
