------------------------ MODULE EnvelopeAccessProofs ------------------------
(***************************************************************************)
(* Theorems about EnvelopeAccess, for any number of envelopes, of requests *)
(* at once and of faults: type correctness, that a session gets past the   *)
(* access lock only with the answer to it, that pages are shown only after *)
(* that answer, that an email code opens one session, and that an event is *)
(* in the log a bounded number of times.                                   *)
(***************************************************************************)
EXTENDS EnvelopeAccess, FiniteSetTheorems, TLAPS

-----------------------------------------------------------------------------
(* What a step does to its worker                                          *)

LEMMA NoJobType ==
  /\ NoJob \in Job
  /\ NoJob.phase = "idle"
  BY DEF NoJob, Job, Kinds, Ways, Phases

LEMMA NewJobType ==
  ASSUME TypeOK, NEW kind \in Kinds, NEW phase \in Phases, NEW e \in Envelopes
  PROVE  /\ NewJob(kind, phase, e) \in Job
         /\ NewJob(kind, phase, e).kind = kind
         /\ NewJob(kind, phase, e).phase = phase
         /\ NewJob(kind, phase, e).env = e
         /\ NewJob(kind, phase, e).code = 0
         /\ NewJob(kind, phase, e).epoch = 0
         /\ NewJob(kind, phase, e).at = 0
         /\ NewJob(kind, phase, e).saw = env[e].conf
         /\ NewJob(kind, phase, e).ok = ~env[e].locked
<1> DEFINE ok == ~env[e].locked
           saw == env[e].conf
<1>0. env[e] \in Agreement
  BY DEF TypeOK
<1>1. ok \in BOOLEAN /\ saw \in Nat
  BY <1>0 DEF Agreement
<1>n. NewJob(kind, phase, e) =
        [NoJob EXCEPT !.kind = kind, !.phase = phase, !.env = e, !.ok = ok,
                      !.saw = saw]
  BY DEF NewJob
<1> HIDE DEF ok, saw
<1>2. NewJob(kind, phase, e) =
        [kind |-> kind, phase |-> phase, env |-> e, code |-> 0, epoch |-> 0,
         ok |-> ok, saw |-> saw, at |-> 0]
  BY <1>n DEF NoJob
<1>3. NewJob(kind, phase, e) \in Job
  BY <1>1, <1>2 DEF Job
<1>4. saw = env[e].conf /\ ok = ~env[e].locked
  BY DEF ok, saw
<1> QED
  BY <1>2, <1>3, <1>4

LEMMA SetJob ==
  ASSUME TypeOK, NEW w \in Workers, NEW j \in Job, job' = [job EXCEPT ![w] = j]
  PROVE  /\ job' \in [Workers -> Job]
         /\ job'[w] = j
         /\ \A v \in Workers : v # w => job'[v] = job[v]
  BY DEF TypeOK

LEMMA DoneJob ==
  ASSUME TypeOK, NEW w \in Workers, Done(w)
  PROVE  /\ job' \in [Workers -> Job]
         /\ job'[w] = NoJob
         /\ \A v \in Workers : v # w => job'[v] = job[v]
  BY NoJobType DEF Done, TypeOK

LEMMA GotoJob ==
  ASSUME TypeOK, NEW w \in Workers, NEW x \in Phases, Goto(w, x)
  PROVE  /\ job' \in [Workers -> Job]
         /\ job'[w].phase = x
         /\ job'[w].kind = job[w].kind /\ job'[w].env = job[w].env
         /\ job'[w].code = job[w].code /\ job'[w].epoch = job[w].epoch
         /\ job'[w].ok = job[w].ok /\ job'[w].saw = job[w].saw
         /\ job'[w].at = job[w].at
         /\ \A v \in Workers : v # w => job'[v] = job[v]
<1> DEFINE new == [job[w] EXCEPT !.phase = x]
<1>1. job \in [Workers -> Job] /\ job[w] \in Job
  BY DEF TypeOK
<1>2. new \in Job
  BY <1>1 DEF Job
<1>3. /\ new.phase = x /\ new.kind = job[w].kind /\ new.env = job[w].env
      /\ new.code = job[w].code /\ new.epoch = job[w].epoch
      /\ new.ok = job[w].ok /\ new.saw = job[w].saw /\ new.at = job[w].at
  BY <1>1 DEF Job
<1>4. job' = [job EXCEPT ![w] = new]
  BY <1>1 DEF Goto
<1> HIDE DEF new
<1> QED
  BY <1>1, <1>2, <1>3, <1>4

LEMMA BeginJob ==
  ASSUME TypeOK, NEW w \in Workers, NEW j \in Job, Begin(w, j)
  PROVE  /\ job' \in [Workers -> Job]
         /\ job[w].phase = "idle"
         /\ job'[w] = j
         /\ \A v \in Workers : v # w => job'[v] = job[v]
         /\ requests' \in Nat
<1>1. job' = [job EXCEPT ![w] = j]
  BY DEF Begin
<1>2. job[w].phase = "idle" /\ requests' \in Nat
  BY DEF Begin, At, TypeOK
<1> QED
  BY <1>1, <1>2, SetJob

-----------------------------------------------------------------------------
(* Where a request may be                                                  *)

\* A request is about an envelope, runs the handler it was posted to, and
\* compares a code only if it is one: with TypeOK it is inductive.
Placed ==
  \A w \in Workers :
    /\ job[w].phase # "idle" => job[w].env \in Envelopes
    /\ job[w].phase = "ask" => /\ job[w].kind \in {"send", "otp"}
                               /\ job[w].code \in Nat \cup {Junk}
    /\ job[w].phase \in {"fresh", "compare", "spend", "miss", "hit", "unmark"}
         => job[w].kind = "otp"
    /\ job[w].phase = "epoch" => job[w].kind \in {"otp", "google", "switch"}
    /\ job[w].phase = "lock" => job[w].kind = "switch"
    /\ job[w].phase \in {"verify", "pass"} =>
         job[w].kind \in {"answer", "token"}
    /\ job[w].phase = "mint" => job[w].kind \in Ways
    /\ job[w].phase \in {"mail", "fresh", "compare", "spend"} =>
         job[w].code \in Nat

\* Where a handler of a kind may go on from a phase.
Flow(kind, x, y) ==
  \/ x = "ask" /\ kind = "send" /\ y = "write"
  \/ x = "ask" /\ kind # "send" /\ y \in {"miss", "fresh"}
  \/ x = "write" /\ y = "mail"
  \/ x = "mail" /\ y \in {"mark", "unwrite"}
  \/ x = "fresh" /\ y = "compare"
  \/ x = "compare" /\ y \in {"spend", "miss"}
  \/ x = "spend" /\ y = "hit"
  \/ x = "hit" /\ y = "unmark"
  \/ x = "unmark" /\ y = "epoch"
  \/ x = "epoch" /\ kind = "switch" /\ y = "lock"
  \/ x = "epoch" /\ kind # "switch" /\ y = "mint"
  \/ x = "lock" /\ y = "mint"
  \/ x = "verify" /\ y = "pass"
  \/ x = "pass" /\ kind # "token" /\ y = "mint"
  \/ x = "seen" /\ y = "insert"

\* What a step reads into the request it goes on with.
Reads(w) ==
  LET e == job[w].env IN
  /\ job'[w].kind = job[w].kind
  /\ job'[w].env = e
  /\ IF job[w].phase = "write" THEN job'[w].code = otp[e].issued + 1
                               ELSE job'[w].code = job[w].code
  /\ IF job[w].phase = "epoch"
     THEN job'[w].epoch = env[e].epoch /\ job'[w].at = env[e].conf
     ELSE job'[w].epoch = job[w].epoch /\ job'[w].at = job[w].at
  /\ CASE job[w].phase = "lock"   -> /\ job'[w].ok = ~env[e].locked
                                     /\ job'[w].saw = env[e].conf
       [] job[w].phase = "verify" -> job'[w].ok /\ job'[w].saw = env[e].conf
       [] OTHER                   -> /\ job'[w].ok = job[w].ok
                                     /\ job'[w].saw = job[w].saw

\* A step ends its request or takes it one phase on, and leaves the others.
LEMMA StepJob ==
  ASSUME TypeOK, Placed, NEW w \in Workers, Step(w)
  PROVE  /\ job' \in [Workers -> Job]
         /\ \A v \in Workers : v # w => job'[v] = job[v]
         /\ job[w].phase # "idle"
         /\ \/ job'[w] = NoJob
            \/ /\ Flow(job[w].kind, job[w].phase, job'[w].phase)
               /\ job'[w].phase = "fresh" => job[w].code # Junk
               /\ Reads(w)
<1> DEFINE Steps ==
      /\ job' \in [Workers -> Job]
      /\ \A v \in Workers : v # w => job'[v] = job[v]
      /\ job[w].phase # "idle"
      /\ \/ job'[w] = NoJob
         \/ /\ Flow(job[w].kind, job[w].phase, job'[w].phase)
            /\ job'[w].phase = "fresh" => job[w].code # Junk
            /\ Reads(w)
<1>a. ASSUME NEW x \in Phases, Goto(w, x),
             Flow(job[w].kind, job[w].phase, x),
             x = "fresh" => job[w].code # Junk,
             job[w].phase \notin {"idle", "write", "epoch", "lock", "verify"}
      PROVE  Steps
  BY <1>a, GotoJob DEF Reads
<1>b. ASSUME Done(w), job[w].phase # "idle" PROVE Steps
  BY <1>b, DoneJob
<1>r. job \in [Workers -> Job] /\ job[w] \in Job
  BY DEF TypeOK
<1>e. job[w].phase # "idle" =>
        /\ env[job[w].env] \in Agreement
        /\ env[job[w].env].conf \in Nat /\ env[job[w].env].epoch \in Nat
        /\ env[job[w].env].locked \in BOOLEAN
        /\ otp[job[w].env].issued \in Nat
  BY DEF TypeOK, Placed, Agreement, EmailCode
<1>1. CASE Bump(w)
  BY <1>1, <1>b DEF Bump, At
<1>2. CASE AskLimit(w)
  BY <1>2, <1>a, <1>b DEF AskLimit, At, Flow, Phases
<1>3. CASE WriteCode(w)
  <2> DEFINE n == otp[job[w].env].issued + 1
             new == [job[w] EXCEPT !.phase = "mail", !.code = n]
  <2>1. job[w].phase = "write"
    BY <1>3 DEF WriteCode, At
  <2>n. n \in Int
    BY <1>e, <2>1
  <2>2. new \in Job
    <3> HIDE DEF n
    <3> QED
      BY <1>r, <2>n DEF Job, Phases
  <2>3. /\ new.phase = "mail" /\ new.code = n
        /\ new.kind = job[w].kind /\ new.env = job[w].env
        /\ new.epoch = job[w].epoch /\ new.at = job[w].at
        /\ new.ok = job[w].ok /\ new.saw = job[w].saw
    BY <1>r, <2>1 DEF Job
  <2>4. job' = [job EXCEPT ![w] = new]
    BY <1>r, <1>3 DEF WriteCode
  <2> HIDE DEF new
  <2>5. job'[w] = new /\ Reads(w)
    BY <2>1, <2>2, <2>3, <2>4, SetJob DEF Reads
  <2>6. Flow(job[w].kind, job[w].phase, new.phase) /\ new.phase # "fresh"
    BY <2>1, <2>3 DEF Flow
  <2> QED
    BY <2>1, <2>2, <2>4, <2>5, <2>6, SetJob
<1>4. CASE MailCode(w)
  BY <1>4, <1>a DEF MailCode, At, Flow, Phases
<1>5. CASE MailFails(w)
  BY <1>5, <1>a DEF MailFails, At, Flow, Phases
<1>6. CASE Unwrite(w)
  BY <1>6, <1>b DEF Unwrite, At
<1>7. CASE MarkSent(w)
  BY <1>7, <1>b DEF MarkSent, At
<1>8. CASE AskFresh(w)
  BY <1>8, <1>a, <1>b DEF AskFresh, At, Flow, Phases
<1>9. CASE Compare(w)
  BY <1>9, <1>a DEF Compare, At, Flow, Phases
<1>10. CASE Spend(w)
  BY <1>10, <1>a DEF Spend, At, Flow, Phases
<1>11. CASE RecordCode(w)
  <2>1. CASE At(w, "miss")
    BY <1>11, <1>b, <2>1 DEF RecordCode, At
  <2>2. CASE At(w, "hit")
    BY <1>11, <1>a, <2>2 DEF RecordCode, At, Flow, Phases
  <2> QED
    BY <1>11, <2>1, <2>2 DEF RecordCode
<1>12. CASE Unmark(w)
  BY <1>12, <1>a DEF Unmark, At, Flow, Phases
<1>13. CASE ReadEpoch(w)
  <2> DEFINE new == [job[w] EXCEPT
              !.phase = IF job[w].kind = "switch" THEN "lock" ELSE "mint",
              !.epoch = env[job[w].env].epoch, !.at = env[job[w].env].conf]
  <2>1. job[w].phase = "epoch"
    BY <1>13 DEF ReadEpoch, At
  <2>2. new \in Job
    BY <1>r, <1>e, <2>1 DEF Job, Phases
  <2>3. /\ new.phase = IF job[w].kind = "switch" THEN "lock" ELSE "mint"
        /\ new.epoch = env[job[w].env].epoch
        /\ new.at = env[job[w].env].conf
        /\ new.kind = job[w].kind /\ new.env = job[w].env
        /\ new.code = job[w].code
        /\ new.ok = job[w].ok /\ new.saw = job[w].saw
    BY <1>r, <2>1 DEF Job
  <2>4. job' = [job EXCEPT ![w] = new]
    BY <1>r, <1>13 DEF ReadEpoch
  <2> HIDE DEF new
  <2>5. job'[w] = new /\ Reads(w)
    BY <2>1, <2>2, <2>3, <2>4, SetJob DEF Reads
  <2>6. Flow(job[w].kind, job[w].phase, new.phase) /\ new.phase # "fresh"
    BY <2>1, <2>3 DEF Flow
  <2> QED
    BY <2>1, <2>2, <2>4, <2>5, <2>6, SetJob
<1>14. CASE ReadLock(w)
  <2> DEFINE new == [job[w] EXCEPT !.phase = "mint",
              !.ok = ~env[job[w].env].locked, !.saw = env[job[w].env].conf]
  <2>1. job[w].phase = "lock"
    BY <1>14 DEF ReadLock, At
  <2>2. new \in Job
    BY <1>r, <1>e, <2>1 DEF Job, Phases
  <2>3. /\ new.phase = "mint" /\ new.ok = ~env[job[w].env].locked
        /\ new.saw = env[job[w].env].conf
        /\ new.kind = job[w].kind /\ new.env = job[w].env
        /\ new.code = job[w].code
        /\ new.epoch = job[w].epoch /\ new.at = job[w].at
    BY <1>r, <2>1 DEF Job
  <2>4. job' = [job EXCEPT ![w] = new]
    BY <1>r, <1>14 DEF ReadLock
  <2> HIDE DEF new
  <2>5. job'[w] = new /\ Reads(w)
    BY <2>1, <2>2, <2>3, <2>4, SetJob DEF Reads
  <2>6. Flow(job[w].kind, job[w].phase, new.phase) /\ new.phase # "fresh"
    BY <2>1, <2>3 DEF Flow
  <2> QED
    BY <2>1, <2>2, <2>4, <2>5, <2>6, SetJob
<1>15. CASE Mint(w)
  BY <1>15, <1>b DEF Mint, At
<1>16. CASE AnswerRight(w)
  <2> DEFINE new == [job[w] EXCEPT !.phase = "pass", !.ok = TRUE,
                             !.saw = env[job[w].env].conf]
  <2>1. job[w].phase = "verify"
    BY <1>16 DEF AnswerRight, At
  <2>2. new \in Job
    BY <1>r, <1>e, <2>1 DEF Job, Phases
  <2>3. /\ new.phase = "pass" /\ new.ok = TRUE
        /\ new.saw = env[job[w].env].conf
        /\ new.kind = job[w].kind /\ new.env = job[w].env
        /\ new.code = job[w].code
        /\ new.epoch = job[w].epoch /\ new.at = job[w].at
    BY <1>r, <2>1 DEF Job
  <2>4. job' = [job EXCEPT ![w] = new]
    BY <1>r, <1>16 DEF AnswerRight
  <2> HIDE DEF new
  <2>5. job'[w] = new /\ Reads(w)
    BY <2>1, <2>2, <2>3, <2>4, SetJob DEF Reads
  <2>6. Flow(job[w].kind, job[w].phase, new.phase) /\ new.phase # "fresh"
    BY <2>1, <2>3 DEF Flow
  <2> QED
    BY <2>1, <2>2, <2>4, <2>5, <2>6, SetJob
<1>17. CASE AnswerRefused(w)
  BY <1>17, <1>b DEF AnswerRefused, At
<1>18. CASE MarkPassed(w)
  BY <1>18, <1>a, <1>b DEF MarkPassed, At, Flow, Phases
<1>19. CASE AskEvent(w)
  BY <1>19, <1>a, <1>b DEF AskEvent, At, Flow, Phases
<1>20. CASE LogEvent(w)
  BY <1>20, <1>b DEF LogEvent, At
<1> QED
  BY <1>1, <1>2, <1>3, <1>4, <1>5, <1>6, <1>7, <1>8, <1>9, <1>10, <1>11,
     <1>12, <1>13, <1>14, <1>15, <1>16, <1>17, <1>18, <1>19, <1>20 DEF Step

\* What a request of worker w, about envelope e, has read when it begins.
Arrives(w, e) ==
  /\ job'[w].env = e
  /\ job'[w].ok = ~env[e].locked
  /\ job'[w].saw = env[e].conf
  /\ IF job'[w].kind = "answer"
     THEN job'[w].epoch = env[e].epoch /\ job'[w].at = env[e].conf
     ELSE job'[w].epoch = 0 /\ job'[w].at = 0
  /\ \/ /\ job'[w].phase = "ask" /\ job'[w].kind \in {"send", "otp"}
        /\ job'[w].code \in Nat \cup {Junk}
     \/ job'[w].phase = "epoch" /\ job'[w].kind \in {"google", "switch"}
     \/ job'[w].phase = "verify" /\ job'[w].kind \in {"answer", "token"}
     \/ job'[w].phase = "seen" /\ job'[w].kind \in {"view", "copy"}
     \/ job'[w].phase = "bump" /\ job'[w].kind = "configure"

LEMMA ArrivesNew ==
  ASSUME TypeOK, NEW w \in Workers, NEW e \in Envelopes,
         NEW kind \in Kinds, NEW phase \in Phases, kind # "answer",
         \/ phase = "ask" /\ kind \in {"send", "otp"}
         \/ phase = "epoch" /\ kind \in {"google", "switch"}
         \/ phase = "verify" /\ kind = "token"
         \/ phase = "seen" /\ kind \in {"view", "copy"}
         \/ phase = "bump" /\ kind = "configure",
         Begin(w, NewJob(kind, phase, e))
  PROVE  /\ job' \in [Workers -> Job]
         /\ job[w].phase = "idle"
         /\ \A v \in Workers : v # w => job'[v] = job[v]
         /\ requests' \in Nat
         /\ Arrives(w, e)
         /\ job'[w].phase = phase /\ job'[w].kind = kind
<1> DEFINE new == NewJob(kind, phase, e)
<1>1. /\ new \in Job
      /\ new.kind = kind /\ new.phase = phase /\ new.env = e /\ new.code = 0
      /\ new.epoch = 0 /\ new.at = 0 /\ new.saw = env[e].conf
      /\ new.ok = ~env[e].locked
  BY NewJobType
<1>2. Begin(w, new)
  OBVIOUS
<1> HIDE DEF new
<1>3. /\ job' \in [Workers -> Job]
      /\ job[w].phase = "idle"
      /\ job'[w] = new
      /\ \A v \in Workers : v # w => job'[v] = job[v]
      /\ requests' \in Nat
  BY <1>1, <1>2, BeginJob
<1> QED
  BY <1>1, <1>3 DEF Arrives

\* A request takes an idle worker and leaves the others alone; only one that
\* changes the lock writes at once.
LEMMA RequestJob ==
  ASSUME TypeOK, NEW w \in Workers, Request(w)
  PROVE  /\ job' \in [Workers -> Job]
         /\ job[w].phase = "idle"
         /\ \A v \in Workers : v # w => job'[v] = job[v]
         /\ requests' \in Nat
         /\ UNCHANGED <<otp, sessions, faults>>
         /\ \E e \in Envelopes :
              /\ Arrives(w, e)
              /\ \/ env' = env
                 \/ /\ \E locked \in BOOLEAN : Configure(w, e, locked)
                    /\ job'[w].phase = "bump"
<1> DEFINE Begins(e) ==
      /\ job' \in [Workers -> Job]
      /\ job[w].phase = "idle"
      /\ \A v \in Workers : v # w => job'[v] = job[v]
      /\ requests' \in Nat
      /\ UNCHANGED <<otp, sessions, faults>>
      /\ Arrives(w, e)
      /\ \/ env' = env
         \/ /\ \E locked \in BOOLEAN : Configure(w, e, locked)
            /\ job'[w].phase = "bump"
<1>k. /\ {"send", "google", "token", "configure", "copy", "switch", "view",
          "otp", "answer"} \subseteq Kinds
      /\ {"ask", "epoch", "verify", "bump", "seen"} \subseteq Phases
  BY DEF Kinds, Ways, Phases
<1>s. \A s \in sessions : s.env \in Envelopes
  BY DEF TypeOK, Session
<1>1. ASSUME NEW e \in Envelopes, StartOtp(w, e) PROVE Begins(e)
  BY <1>1, <1>k, ArrivesNew DEF StartOtp
<1>2. ASSUME NEW e \in Envelopes, GoogleReturns(w, e) PROVE Begins(e)
  BY <1>2, <1>k, ArrivesNew DEF GoogleReturns
<1>3. ASSUME NEW e \in Envelopes, PostTokenAnswer(w, e) PROVE Begins(e)
  BY <1>3, <1>k, ArrivesNew DEF PostTokenAnswer
<1>4. ASSUME NEW e \in Envelopes, DownloadByLink(w, e) PROVE Begins(e)
  BY <1>4, <1>k, ArrivesNew DEF DownloadByLink
<1>5. ASSUME NEW e \in Envelopes, NEW locked \in BOOLEAN,
             Configure(w, e, locked)
      PROVE  Begins(e)
  <2>1. /\ Begin(w, NewJob("configure", "bump", e))
        /\ UNCHANGED <<otp, sessions, faults>>
    BY <1>5 DEF Configure
  <2>2. /\ job' \in [Workers -> Job]
        /\ job[w].phase = "idle"
        /\ \A v \in Workers : v # w => job'[v] = job[v]
        /\ requests' \in Nat
        /\ Arrives(w, e)
        /\ job'[w].phase = "bump"
    BY <1>k, <2>1, ArrivesNew
  <2> QED
    BY <1>5, <2>1, <2>2
<1>6. ASSUME NEW e \in Envelopes, NEW c \in otp[e].mailed \cup {0, Junk},
             PostCode(w, e, c)
      PROVE  Begins(e)
  <2> DEFINE old == NewJob("otp", "ask", e)
             new == [old EXCEPT !.code = c]
  <2>1. /\ old \in Job
        /\ old.kind = "otp" /\ old.phase = "ask" /\ old.env = e
        /\ old.epoch = 0 /\ old.at = 0 /\ old.saw = env[e].conf
        /\ old.ok = ~env[e].locked
    BY <1>k, NewJobType
  <2>2. c \in Nat \cup {Junk} /\ c \in Int
    BY DEF TypeOK, EmailCode, Junk
  <2>3. Begin(w, new) /\ UNCHANGED <<env, otp, sessions, faults>>
    BY <1>6 DEF PostCode
  <2> HIDE DEF old
  <2>4. /\ new \in Job
        /\ new.kind = "otp" /\ new.phase = "ask" /\ new.env = e
        /\ new.epoch = 0 /\ new.at = 0 /\ new.saw = env[e].conf
        /\ new.ok = old.ok /\ new.code = c
    BY <2>1, <2>2 DEF Job
  <2> HIDE DEF new
  <2> QED
    BY <2>1, <2>2, <2>3, <2>4, BeginJob DEF Arrives
<1>7. ASSUME NEW s \in sessions, View(w, s) PROVE Begins(s.env)
  BY <1>7, <1>k, <1>s, ArrivesNew DEF View
<1>8. ASSUME NEW s \in sessions, Download(w, s) PROVE Begins(s.env)
  BY <1>8, <1>k, <1>s, ArrivesNew DEF Download
<1>9. ASSUME NEW s \in sessions, NEW e \in Envelopes, Switch(w, s, e)
      PROVE  Begins(e)
  BY <1>9, <1>k, ArrivesNew DEF Switch
<1>10. ASSUME NEW s \in sessions, PostAnswer(w, s) PROVE Begins(s.env)
  <2> DEFINE old == NewJob("answer", "verify", s.env)
             new == [old EXCEPT !.epoch = s.epoch, !.at = env[s.env].conf]
  <2>1. /\ old \in Job
        /\ old.kind = "answer" /\ old.phase = "verify" /\ old.env = s.env
        /\ old.saw = env[s.env].conf
        /\ old.ok = ~env[s.env].locked
    BY <1>k, <1>s, NewJobType
  <2>2. env[s.env] \in Agreement /\ s \in Session
    BY <1>s DEF TypeOK
  <2>3. s.epoch \in Nat /\ env[s.env].conf \in Nat /\ s.epoch = env[s.env].epoch
    BY <1>10, <2>2 DEF PostAnswer, Open, Live, Session, Agreement
  <2>4. Begin(w, new) /\ UNCHANGED <<env, otp, sessions, faults>>
    BY <1>10 DEF PostAnswer
  <2> HIDE DEF old
  <2>5. /\ new \in Job
        /\ new.kind = "answer" /\ new.phase = "verify" /\ new.env = s.env
        /\ new.saw = env[s.env].conf /\ new.ok = old.ok
        /\ new.epoch = s.epoch /\ new.at = env[s.env].conf
    BY <2>1, <2>3 DEF Job
  <2> HIDE DEF new
  <2> QED
    BY <2>1, <2>3, <2>4, <2>5, BeginJob DEF Arrives
<1> QED
  BY <1>s, <1>1, <1>2, <1>3, <1>4, <1>5, <1>6, <1>7, <1>8, <1>9, <1>10
  DEF Request

LEMMA CrashJob ==
  ASSUME TypeOK, NEW w \in Workers, Crash(w)
  PROVE  /\ job' \in [Workers -> Job]
         /\ job'[w] = NoJob
         /\ \A v \in Workers : v # w => job'[v] = job[v]
         /\ job[w].phase # "idle"
         /\ UNCHANGED <<otp, sessions, requests>>
  BY DoneJob DEF Crash, At

LEMMA InitPlaced == Init => Placed
  BY NoJobType DEF Init, Placed

LEMMA NextPlaced == TypeOK /\ Placed /\ [Next]_vars => Placed'
<1> SUFFICES ASSUME TypeOK, Placed, [Next]_vars
             PROVE  Placed'
  OBVIOUS
<1>1. CASE UNCHANGED vars
  BY <1>1 DEF vars, Placed
<1>2. ASSUME NEW w \in Workers, Request(w) PROVE Placed'
  BY <1>2, RequestJob DEF Placed, Arrives
<1>3. ASSUME NEW w \in Workers, Step(w) PROVE Placed'
  <2>1. /\ \A v \in Workers : v # w => job'[v] = job[v]
        /\ job[w].phase # "idle"
        /\ \/ job'[w] = NoJob
           \/ /\ Flow(job[w].kind, job[w].phase, job'[w].phase)
              /\ job'[w].phase = "fresh" => job[w].code # Junk
              /\ Reads(w)
    BY <1>3, StepJob
  <2>2. CASE job'[w] = NoJob
    BY <2>1, <2>2, NoJobType DEF Placed
  <2>3. CASE job'[w] # NoJob
    <3>1. job'[w].kind = job[w].kind /\ job'[w].env = job[w].env
      BY <2>1, <2>3 DEF Reads
    <3>2. job[w].env \in Envelopes
      BY <2>1 DEF Placed
    <3>3. otp[job[w].env].issued + 1 \in Nat
      <4>1. otp[job[w].env].issued \in Nat
        BY <3>2 DEF TypeOK, EmailCode
      <4> QED
        BY <4>1
    <3>4. job'[w].phase \in {"mail", "fresh", "compare", "spend"} =>
            job'[w].code \in Nat
      <4>1. job[w].phase = "write" => job'[w].code \in Nat
        BY <2>1, <2>3, <3>3 DEF Reads
      <4>2. job[w].phase # "write" => job'[w].code = job[w].code
        BY <2>1, <2>3 DEF Reads
      <4>3. job'[w].phase \in {"mail", "fresh", "compare", "spend"} =>
              \/ job[w].phase = "write"
              \/ job[w].phase = "ask" /\ job[w].code # Junk
              \/ job[w].phase \in {"fresh", "compare"}
        BY <2>1, <2>3 DEF Flow
      <4> QED
        BY <4>1, <4>2, <4>3 DEF Placed
    <3>5. job'[w].phase # "ask" /\ job'[w].phase # "verify"
      BY <2>1, <2>3, <3>1 DEF Flow, Placed
    <3>6. /\ job'[w].phase \in {"fresh", "compare", "spend", "miss", "hit",
                                "unmark"} => job'[w].kind = "otp"
          /\ job'[w].phase = "epoch" =>
               job'[w].kind \in {"otp", "google", "switch"}
          /\ job'[w].phase = "lock" => job'[w].kind = "switch"
          /\ job'[w].phase = "pass" => job'[w].kind \in {"answer", "token"}
          /\ job'[w].phase = "mint" => job'[w].kind \in Ways
      BY <2>1, <2>3, <3>1 DEF Flow, Placed, Ways
    <3> QED
      BY <2>1, <3>1, <3>2, <3>4, <3>5, <3>6 DEF Placed
  <2> QED
    BY <2>2, <2>3
<1>4. ASSUME NEW w \in Workers, Crash(w) PROVE Placed'
  BY <1>4, CrashJob, NoJobType DEF Placed
<1>5. ASSUME NEW e \in Envelopes,
             Complete(e) \/ Void(e) \/ CodeLapses(e) \/ LimitLapses(e)
      PROVE  Placed'
  BY <1>5 DEF Complete, Void, CodeLapses, LimitLapses, Placed
<1> QED
  BY <1>1, <1>2, <1>3, <1>4, <1>5 DEF Next

-----------------------------------------------------------------------------
(* What the steps write                                                    *)

LEMMA SetAgreement ==
  ASSUME TypeOK, NEW e \in Envelopes, NEW r \in Agreement,
         env' = [env EXCEPT ![e] = r]
  PROVE  /\ env' \in [Envelopes -> Agreement]
         /\ env'[e] = r
         /\ \A d \in Envelopes : d # e => env'[d] = env[d]
  BY DEF TypeOK

\* The locks, marks and epochs stay as they are.
LocksKept ==
  \A e \in Envelopes :
    /\ env'[e].epoch = env[e].epoch /\ env'[e].conf = env[e].conf
    /\ env'[e].locked = env[e].locked /\ env'[e].pass = env[e].pass
    /\ env'[e].torn = env[e].torn /\ env'[e].crossed = env[e].crossed

\* The events stay as they are.
EventsKept ==
  \A e \in Envelopes : /\ env'[e].viewed = env[e].viewed
                       /\ env'[e].delivered = env[e].delivered

LEMMA CompleteRow ==
  ASSUME TypeOK, NEW e \in Envelopes, Complete(e)
  PROVE  env' \in [Envelopes -> Agreement] /\ LocksKept /\ EventsKept
<1> DEFINE r == [env[e] EXCEPT !.status = "completed"]
<1>1. env[e] \in Agreement
  BY DEF TypeOK
<1>2. r \in Agreement
  BY <1>1 DEF Agreement
<1>3. env' = [env EXCEPT ![e] = r]
  BY DEF Complete, TypeOK
<1>4. /\ r.epoch = env[e].epoch /\ r.conf = env[e].conf
      /\ r.locked = env[e].locked /\ r.pass = env[e].pass
      /\ r.torn = env[e].torn /\ r.crossed = env[e].crossed
      /\ r.viewed = env[e].viewed /\ r.delivered = env[e].delivered
  BY <1>1 DEF Agreement
<1> HIDE DEF r
<1> QED
  BY <1>2, <1>3, <1>4, SetAgreement DEF LocksKept, EventsKept

\* A void moves the epoch, as the second half of a change of the lock does.
EpochMoved(e) ==
  /\ env' \in [Envelopes -> Agreement]
  /\ env'[e].epoch = env[e].epoch + 1
  /\ env'[e].conf = env[e].conf /\ env'[e].locked = env[e].locked
  /\ env'[e].pass = env[e].pass /\ env'[e].torn = env[e].torn
  /\ env'[e].crossed = env[e].crossed
  /\ \A d \in Envelopes : d # e => env'[d] = env[d]
  /\ EventsKept

LEMMA MovedRow ==
  ASSUME TypeOK, NEW e \in Envelopes,
         \/ Void(e)
         \/ \E w \in Workers : Bump(w) /\ job[w].env = e
  PROVE  EpochMoved(e)
<1>1. env[e] \in Agreement
  BY DEF TypeOK
<1> DEFINE n == env[e].epoch + 1
<1>2. env[e].epoch \in Nat
  BY <1>1 DEF Agreement
<1>3. n \in Nat
  BY <1>2
<1>4. \/ env' = [env EXCEPT ![e] = [env[e] EXCEPT !.status = "voided",
                                                  !.epoch = n]]
      \/ env' = [env EXCEPT ![e] = [env[e] EXCEPT !.epoch = n]]
  BY DEF Void, Bump, Bumped, TypeOK
<1>5. n = env[e].epoch + 1
  OBVIOUS
<1> HIDE DEF n
<1>6. ASSUME NEW r,
             \/ r = [env[e] EXCEPT !.status = "voided", !.epoch = n]
             \/ r = [env[e] EXCEPT !.epoch = n]
      PROVE  /\ r \in Agreement
             /\ r.epoch = n /\ r.conf = env[e].conf
             /\ r.locked = env[e].locked /\ r.pass = env[e].pass
             /\ r.torn = env[e].torn /\ r.crossed = env[e].crossed
             /\ r.viewed = env[e].viewed /\ r.delivered = env[e].delivered
  BY <1>1, <1>3, <1>6 DEF Agreement
<1>7. PICK r : /\ \/ r = [env[e] EXCEPT !.status = "voided", !.epoch = n]
                  \/ r = [env[e] EXCEPT !.epoch = n]
               /\ env' = [env EXCEPT ![e] = r]
  BY <1>4
<1>8. /\ r \in Agreement
      /\ r.epoch = n /\ r.conf = env[e].conf
      /\ r.locked = env[e].locked /\ r.pass = env[e].pass
      /\ r.torn = env[e].torn /\ r.crossed = env[e].crossed
      /\ r.viewed = env[e].viewed /\ r.delivered = env[e].delivered
  BY <1>6, <1>7
<1> QED
  BY <1>5, <1>7, <1>8, SetAgreement DEF EpochMoved, EventsKept

LEMMA ConfigureRow ==
  ASSUME TypeOK, NEW w \in Workers, NEW e \in Envelopes,
         NEW locked \in BOOLEAN, Configure(w, e, locked)
  PROVE  /\ env' \in [Envelopes -> Agreement]
         /\ env'[e].epoch = env[e].epoch /\ env'[e].conf = env[e].conf + 1
         /\ env'[e].pass = 0 /\ env'[e].torn = env[e].torn
         /\ env'[e].crossed <=> env[e].crossed \/ Answering(e)
         /\ \A d \in Envelopes : d # e => env'[d] = env[d]
         /\ EventsKept
<1>1. env[e] \in Agreement
  BY DEF TypeOK
<1> DEFINE n == env[e].conf + 1
           c == env[e].crossed \/ Answering(e)
           r == [env[e] EXCEPT !.conf = n, !.locked = locked, !.pass = 0,
                               !.crossed = c]
<1>2. env[e].conf \in Nat
  BY <1>1 DEF Agreement
<1>3. n \in Nat /\ c \in BOOLEAN
  BY <1>2
<1>4. env' = [env EXCEPT ![e] = r]
  BY DEF Configure, PassAfterChange, TypeOK
<1>5. n = env[e].conf + 1 /\ (c <=> env[e].crossed \/ Answering(e))
  OBVIOUS
<1> HIDE DEF n, c
<1>6. r \in Agreement
  BY <1>1, <1>3 DEF Agreement
<1>7. /\ r.epoch = env[e].epoch /\ r.conf = n /\ r.pass = 0
      /\ r.torn = env[e].torn /\ r.crossed = c
      /\ r.viewed = env[e].viewed /\ r.delivered = env[e].delivered
  BY <1>1 DEF Agreement
<1> HIDE DEF r
<1> QED
  BY <1>4, <1>5, <1>6, <1>7, SetAgreement DEF EventsKept

LEMMA MarkPassedRow ==
  ASSUME TypeOK, NEW w \in Workers, job[w].env \in Envelopes, MarkPassed(w)
  PROVE  LET e == job[w].env IN
         /\ env' \in [Envelopes -> Agreement]
         /\ env'[e].epoch = env[e].epoch /\ env'[e].conf = env[e].conf
         /\ env'[e].locked = env[e].locked /\ env'[e].pass = job[w].saw
         /\ env'[e].torn = env[e].torn /\ env'[e].crossed = env[e].crossed
         /\ \A d \in Envelopes : d # e => env'[d] = env[d]
         /\ EventsKept
<1> DEFINE e == job[w].env
           r == [env[e] EXCEPT !.pass = job[w].saw]
<1>1. env[e] \in Agreement /\ job[w] \in Job
  BY DEF TypeOK
<1>2. r \in Agreement
  BY <1>1 DEF Agreement, Job
<1>3. env' = [env EXCEPT ![e] = r]
  BY DEF MarkPassed, TypeOK
<1>4. /\ r.epoch = env[e].epoch /\ r.conf = env[e].conf
      /\ r.locked = env[e].locked /\ r.pass = job[w].saw
      /\ r.torn = env[e].torn /\ r.crossed = env[e].crossed
      /\ r.viewed = env[e].viewed /\ r.delivered = env[e].delivered
  BY <1>1 DEF Agreement
<1> HIDE DEF r
<1> QED
  BY <1>2, <1>3, <1>4, SetAgreement DEF EventsKept

LEMMA LogEventRow ==
  ASSUME TypeOK, NEW w \in Workers, job[w].env \in Envelopes, LogEvent(w)
  PROVE  LET e == job[w].env IN
         /\ env' \in [Envelopes -> Agreement]
         /\ LocksKept
         /\ job[w].kind = "view" => /\ env'[e].viewed = env[e].viewed + 1
                                    /\ env'[e].delivered = env[e].delivered
         /\ job[w].kind # "view" =>
              /\ env'[e].viewed = env[e].viewed
              /\ env'[e].delivered = env[e].delivered + 1
         /\ \A d \in Envelopes : d # e => env'[d] = env[d]
<1> DEFINE e == job[w].env
           v == env[e].viewed + 1
           n == env[e].delivered + 1
           r == IF job[w].kind = "view" THEN [env[e] EXCEPT !.viewed = v]
                                        ELSE [env[e] EXCEPT !.delivered = n]
<1>1. env[e] \in Agreement
  BY DEF TypeOK
<1>2. env[e].viewed \in Nat /\ env[e].delivered \in Nat
  BY <1>1 DEF Agreement
<1>3. v \in Nat /\ n \in Nat
  BY <1>2
<1>4. env' = [env EXCEPT ![e] = r]
  BY DEF LogEvent, TypeOK
<1>5. v = env[e].viewed + 1 /\ n = env[e].delivered + 1
  OBVIOUS
<1> HIDE DEF v, n
<1>6. r \in Agreement
  BY <1>1, <1>3 DEF Agreement
<1>7. /\ r.epoch = env[e].epoch /\ r.conf = env[e].conf
      /\ r.locked = env[e].locked /\ r.pass = env[e].pass
      /\ r.torn = env[e].torn /\ r.crossed = env[e].crossed
      /\ job[w].kind = "view" =>
           r.viewed = v /\ r.delivered = env[e].delivered
      /\ job[w].kind # "view" =>
           r.viewed = env[e].viewed /\ r.delivered = n
  BY <1>1 DEF Agreement
<1> HIDE DEF r
<1> QED
  BY <1>4, <1>5, <1>6, <1>7, SetAgreement DEF LocksKept

LEMMA CrashRow ==
  ASSUME TypeOK, NEW w \in Workers, job[w].env \in Envelopes, Crash(w)
  PROVE  LET e == job[w].env IN
         /\ env' \in [Envelopes -> Agreement]
         /\ env'[e].epoch = env[e].epoch /\ env'[e].conf = env[e].conf
         /\ env'[e].locked = env[e].locked /\ env'[e].pass = env[e].pass
         /\ env'[e].torn <=> env[e].torn \/ job[w].phase = "bump"
         /\ env'[e].crossed = env[e].crossed
         /\ \A d \in Envelopes : d # e => env'[d] = env[d]
         /\ EventsKept
<1> DEFINE e == job[w].env
           t == env[e].torn \/ job[w].phase = "bump"
           r == [env[e] EXCEPT !.torn = t]
<1>1. env[e] \in Agreement /\ t \in BOOLEAN
  BY DEF TypeOK
<1>2. env' = [env EXCEPT ![e] = r]
  BY DEF Crash, At, TypeOK
<1>3. t <=> env[e].torn \/ job[w].phase = "bump"
  OBVIOUS
<1> HIDE DEF t
<1>4. r \in Agreement
  BY <1>1 DEF Agreement
<1>5. /\ r.epoch = env[e].epoch /\ r.conf = env[e].conf
      /\ r.locked = env[e].locked /\ r.pass = env[e].pass
      /\ r.torn = t /\ r.crossed = env[e].crossed
      /\ r.viewed = env[e].viewed /\ r.delivered = env[e].delivered
  BY <1>1 DEF Agreement
<1> HIDE DEF r
<1> QED
  BY <1>2, <1>3, <1>4, <1>5, SetAgreement DEF EventsKept

LEMMA SetCode ==
  ASSUME TypeOK, NEW e \in Envelopes, NEW r \in EmailCode,
         otp' = [otp EXCEPT ![e] = r]
  PROVE  /\ otp' \in [Envelopes -> EmailCode]
         /\ otp'[e] = r
         /\ \A d \in Envelopes : d # e => otp'[d] = otp[d]
  BY DEF TypeOK

\* A code may be withdrawn; which were issued, and which accepted, stays.
CodesKept ==
  \A e \in Envelopes :
    /\ otp'[e].code \in {0, otp[e].code}
    /\ otp'[e].issued = otp[e].issued /\ otp'[e].spent = otp[e].spent
    /\ otp'[e].twice = otp[e].twice /\ otp'[e].raced = otp[e].raced

LEMMA KeptCode ==
  ASSUME TypeOK, NEW e \in Envelopes, NEW r \in EmailCode,
         otp' = [otp EXCEPT ![e] = r],
         r.code \in {0, otp[e].code}, r.issued = otp[e].issued,
         r.spent = otp[e].spent, r.twice = otp[e].twice, r.raced = otp[e].raced
  PROVE  otp' \in [Envelopes -> EmailCode] /\ CodesKept
  BY SetCode DEF CodesKept

\* auth_limit_record() returns a row.
LEMMA RecordedType ==
  ASSUME NEW row \in LimitRow, NEW ok \in BOOLEAN
  PROVE  Recorded(row, ok, FailLimit) \in LimitRow
<1>1. /\ FailLimit \in Nat /\ row.fails \in Nat /\ row.locked \in BOOLEAN
      /\ row.fails + 1 \in Nat
  BY EnvelopeAccessAssumption DEF EnvelopeAccessAssumption, LimitRow
<1>2. CASE ok
  BY <1>2 DEF Recorded, NoLimit, LimitRow
<1>3. CASE ~ok /\ row.locked
  BY <1>3 DEF Recorded
<1>4. CASE ~ok /\ ~row.locked /\ row.fails + 1 >= FailLimit
  BY <1>4 DEF Recorded, LimitRow
<1>5. CASE ~ok /\ ~row.locked /\ row.fails + 1 < FailLimit
  <2>1. [row EXCEPT !.fails = row.fails + 1] \in LimitRow
    BY <1>1 DEF LimitRow
  <2> QED
    BY <1>1, <1>5, <2>1 DEF Recorded
<1> QED
  BY <1>1, <1>2, <1>3, <1>4, <1>5

LEMMA MarkCodeRow ==
  ASSUME TypeOK, NEW w \in Workers, Placed,
         \/ MailCode(w) \/ Unwrite(w) \/ MarkSent(w)
         \/ RecordCode(w) \/ Unmark(w)
  PROVE  otp' \in [Envelopes -> EmailCode] /\ CodesKept
<1> DEFINE e == job[w].env
           o == otp[e]
           Same(r) == /\ r \in EmailCode
                      /\ r.code \in {0, o.code} /\ r.issued = o.issued
                      /\ r.spent = o.spent /\ r.twice = o.twice
                      /\ r.raced = o.raced
<1>0. job[w].phase # "idle"
  BY DEF MailCode, Unwrite, MarkSent, RecordCode, Unmark, At
<1>1. e \in Envelopes /\ o \in EmailCode
  BY <1>0 DEF Placed, TypeOK
<1>a. ASSUME NEW r, Same(r), otp' = [otp EXCEPT ![e] = r]
      PROVE  otp' \in [Envelopes -> EmailCode] /\ CodesKept
  BY <1>1, <1>a, KeptCode
<1>2. CASE MailCode(w)
  <2> DEFINE m == o.mailed \cup {job[w].code}
             r == [o EXCEPT !.mailed = m]
  <2>1. job[w].code \in Nat
    BY <1>2 DEF MailCode, At, Placed
  <2>2. m \in SUBSET Nat
    BY <1>1, <2>1 DEF EmailCode
  <2>3. otp' = [otp EXCEPT ![e] = r]
    BY <1>2 DEF MailCode, TypeOK
  <2> HIDE DEF m
  <2>4. Same(r)
    BY <1>1, <2>2 DEF EmailCode
  <2> QED
    BY <1>a, <2>3, <2>4
<1>3. CASE Unwrite(w)
  <2>1. otp' = [otp EXCEPT ![e] = [o EXCEPT !.code = 0]]
    BY <1>3 DEF Unwrite, TypeOK
  <2>2. Same([o EXCEPT !.code = 0])
    BY <1>1 DEF EmailCode
  <2> QED
    BY <1>a, <2>1, <2>2
<1>4. CASE MarkSent(w)
  <2>1. otp' = [otp EXCEPT ![e] = [o EXCEPT !.fresh = TRUE]]
    BY <1>4 DEF MarkSent, TypeOK
  <2>2. Same([o EXCEPT !.fresh = TRUE])
    BY <1>1 DEF EmailCode
  <2> QED
    BY <1>a, <2>1, <2>2
<1>5. CASE RecordCode(w)
  <2> DEFINE row == Recorded(o.limit, At(w, "hit"), FailLimit)
             r == [o EXCEPT !.limit = row]
  <2>1. o.limit \in LimitRow /\ At(w, "hit") \in BOOLEAN
    BY <1>1 DEF EmailCode, At
  <2>2. row \in LimitRow
    BY <2>1, RecordedType
  <2>3. otp' = [otp EXCEPT ![e] = r]
    BY <1>5 DEF RecordCode, TypeOK
  <2> HIDE DEF row
  <2>4. Same(r)
    BY <1>1, <2>2 DEF EmailCode
  <2> QED
    BY <1>a, <2>3, <2>4
<1>6. CASE Unmark(w)
  <2>1. otp' = [otp EXCEPT ![e] = [o EXCEPT !.fresh = FALSE]]
    BY <1>6 DEF Unmark, TypeOK
  <2>2. Same([o EXCEPT !.fresh = FALSE])
    BY <1>1 DEF EmailCode
  <2> QED
    BY <1>a, <2>1, <2>2
<1> QED
  BY <1>2, <1>3, <1>4, <1>5, <1>6

LEMMA LapseRow ==
  ASSUME TypeOK, NEW e \in Envelopes, CodeLapses(e) \/ LimitLapses(e)
  PROVE  otp' \in [Envelopes -> EmailCode] /\ CodesKept
<1> DEFINE o == otp[e]
           Same(r) == /\ r \in EmailCode
                      /\ r.code \in {0, o.code} /\ r.issued = o.issued
                      /\ r.spent = o.spent /\ r.twice = o.twice
                      /\ r.raced = o.raced
<1>1. o \in EmailCode
  BY DEF TypeOK
<1>a. ASSUME NEW r, Same(r), otp' = [otp EXCEPT ![e] = r]
      PROVE  otp' \in [Envelopes -> EmailCode] /\ CodesKept
  BY <1>a, KeptCode
<1>2. Same([o EXCEPT !.code = 0]) /\ Same([o EXCEPT !.fresh = FALSE])
  BY <1>1 DEF EmailCode
<1>3. CASE CodeLapses(e)
  <2>1. \/ otp' = [otp EXCEPT ![e] = [o EXCEPT !.code = 0]]
        \/ otp' = [otp EXCEPT ![e] = [o EXCEPT !.fresh = FALSE]]
    BY <1>3 DEF CodeLapses, TypeOK
  <2> QED
    BY <1>a, <1>2, <2>1
<1>4. CASE LimitLapses(e)
  <2> DEFINE row == Lapsed(o.limit)
             r == [o EXCEPT !.limit = row]
  <2>1. row \in LimitRow
    BY <1>1 DEF EmailCode, LimitRow, Lapsed
  <2>2. otp' = [otp EXCEPT ![e] = r]
    BY <1>4 DEF LimitLapses, TypeOK
  <2> HIDE DEF row
  <2>3. Same(r)
    BY <1>1, <2>1 DEF EmailCode
  <2> QED
    BY <1>a, <2>2, <2>3
<1> QED
  BY <1>3, <1>4

LEMMA WriteCodeRow ==
  ASSUME TypeOK, NEW w \in Workers, Placed, WriteCode(w)
  PROVE  LET e == job[w].env IN
         /\ otp' \in [Envelopes -> EmailCode]
         /\ otp'[e].code = otp[e].issued + 1
         /\ otp'[e].issued = otp[e].issued + 1
         /\ otp'[e].spent = otp[e].spent /\ otp'[e].twice = otp[e].twice
         /\ otp'[e].raced = otp[e].raced
         /\ \A d \in Envelopes : d # e => otp'[d] = otp[d]
<1> DEFINE e == job[w].env
           o == otp[e]
           n == o.issued + 1
           r == [o EXCEPT !.code = n, !.issued = n]
<1>1. e \in Envelopes
  BY DEF WriteCode, At, Placed
<1>2. o \in EmailCode
  BY <1>1 DEF TypeOK
<1>3. o.issued \in Nat
  BY <1>2 DEF EmailCode
<1>4. n \in Nat
  BY <1>3
<1>5. otp' = [otp EXCEPT ![e] = r]
  BY <1>1 DEF WriteCode, TypeOK
<1> HIDE DEF n
<1>6. /\ r \in EmailCode
      /\ r.code = n /\ r.issued = n /\ r.spent = o.spent
      /\ r.twice = o.twice /\ r.raced = o.raced
  BY <1>2, <1>4 DEF EmailCode
<1> HIDE DEF r
<1> QED
  BY <1>1, <1>5, <1>6, SetCode DEF n

\* Another request has compared this code and not cleared it yet.
Rival(w) ==
  \E v \in Workers \ {w} : /\ At(v, "spend") /\ job[v].env = job[w].env
                           /\ job[v].code = job[w].code

\* The code entered is the one on record.
Right(w) == job[w].code # 0 /\ job[w].code = otp[job[w].env].code

LEMMA CompareRow ==
  ASSUME TypeOK, NEW w \in Workers, Placed, Compare(w)
  PROVE  LET e == job[w].env IN
         /\ otp' \in [Envelopes -> EmailCode]
         /\ otp'[e].code = otp[e].code /\ otp'[e].issued = otp[e].issued
         /\ otp'[e].spent = otp[e].spent /\ otp'[e].twice = otp[e].twice
         /\ otp'[e].raced <=> otp[e].raced \/ (Right(w) /\ Rival(w))
         /\ \A d \in Envelopes : d # e => otp'[d] = otp[d]
<1> DEFINE e == job[w].env
           o == otp[e]
           b == o.raced \/ (Right(w) /\ Rival(w))
           r == [o EXCEPT !.raced = b]
<1>1. e \in Envelopes
  BY DEF Compare, At, Placed
<1>2. o \in EmailCode /\ b \in BOOLEAN
  BY <1>1 DEF TypeOK
<1>3. otp' = [otp EXCEPT ![e] = r]
  BY <1>1 DEF Compare, TypeOK, Right, Rival
<1>4. b <=> o.raced \/ (Right(w) /\ Rival(w))
  OBVIOUS
<1> HIDE DEF b
<1>5. /\ r \in EmailCode
      /\ r.code = o.code /\ r.issued = o.issued /\ r.spent = o.spent
      /\ r.twice = o.twice /\ r.raced = b
  BY <1>2 DEF EmailCode
<1> HIDE DEF r
<1> QED
  BY <1>1, <1>3, <1>4, <1>5, SetCode

LEMMA SpendRow ==
  ASSUME TypeOK, NEW w \in Workers, Placed, Spend(w)
  PROVE  LET e == job[w].env IN
         /\ otp' \in [Envelopes -> EmailCode]
         /\ otp'[e].code = 0 /\ otp'[e].issued = otp[e].issued
         /\ otp'[e].spent = otp[e].spent \cup {job[w].code}
         /\ otp'[e].twice <=> otp[e].twice \/ job[w].code \in otp[e].spent
         /\ otp'[e].raced = otp[e].raced
         /\ \A d \in Envelopes : d # e => otp'[d] = otp[d]
<1> DEFINE e == job[w].env
           o == otp[e]
           s == o.spent \cup {job[w].code}
           t == o.twice \/ job[w].code \in o.spent
           r == [o EXCEPT !.code = 0, !.spent = s, !.twice = t]
<1>1. e \in Envelopes /\ job[w].code \in Nat
  BY DEF Spend, At, Placed
<1>2. o \in EmailCode /\ t \in BOOLEAN
  BY <1>1 DEF TypeOK
<1>3. s \in SUBSET Nat
  BY <1>1, <1>2 DEF EmailCode
<1>4. otp' = [otp EXCEPT ![e] = r]
  BY <1>1 DEF Spend, AfterSpend, TypeOK
<1>5. /\ s = o.spent \cup {job[w].code}
      /\ t <=> o.twice \/ job[w].code \in o.spent
  OBVIOUS
<1> HIDE DEF s, t
<1>6. /\ r \in EmailCode
      /\ r.code = 0 /\ r.issued = o.issued /\ r.spent = s
      /\ r.twice = t /\ r.raced = o.raced
  BY <1>2, <1>3 DEF EmailCode
<1> HIDE DEF r
<1> QED
  BY <1>1, <1>4, <1>5, <1>6, SetCode

LEMMA MintSession ==
  ASSUME TypeOK, NEW w \in Workers, Placed, Mint(w)
  PROVE  /\ job[w].phase = "mint"
         /\ NewSession(w) \in Session
         /\ NewSession(w).env = job[w].env /\ NewSession(w).by = job[w].kind
         /\ NewSession(w).epoch = job[w].epoch /\ NewSession(w).ok = job[w].ok
         /\ NewSession(w).saw = job[w].saw /\ NewSession(w).at = job[w].at
         /\ sessions' = sessions \cup {NewSession(w)}
         /\ sessions' \subseteq Session
         /\ env' = env
<1>1. /\ job[w].phase = "mint" /\ env' = env
      /\ sessions' = sessions \cup {NewSession(w)}
  BY DEF Mint, At
<1>2. /\ job[w].env \in Envelopes /\ job[w].kind \in Ways
      /\ job[w] \in Job /\ sessions \subseteq Session
  BY <1>1 DEF Placed, TypeOK
<1>3. NewSession(w) \in Session
  BY <1>2 DEF NewSession, Session, Job
<1> QED
  BY <1>1, <1>2, <1>3 DEF NewSession

\* Which steps write the agreements, the codes and the sessions.
LEMMA StepWrites ==
  ASSUME TypeOK, NEW w \in Workers, Placed, Step(w)
  PROVE  /\ \/ env' = env /\ job[w].phase # "bump"
            \/ Bump(w) \/ MarkPassed(w) \/ LogEvent(w)
         /\ \/ otp' \in [Envelopes -> EmailCode] /\ CodesKept
            \/ WriteCode(w) \/ Compare(w) \/ Spend(w)
         /\ sessions' = sessions \/ Mint(w)
         /\ requests' \in Nat /\ faults' \in Nat
<1> DEFINE Kept == otp' \in [Envelopes -> EmailCode] /\ CodesKept
           Some == env' = env /\ job[w].phase # "bump"
           Rest == requests' \in Nat /\ faults' \in Nat
<1>k. ASSUME otp' = otp PROVE Kept
  BY <1>k DEF TypeOK, CodesKept
<1>r. /\ requests' = requests => requests' \in Nat
      /\ faults' = faults => faults' \in Nat
      /\ faults' = faults + 1 => faults' \in Nat
  BY DEF TypeOK
<1>1. CASE Bump(w) \/ MarkPassed(w) \/ LogEvent(w)
  BY <1>1, <1>k, <1>r DEF Bump, MarkPassed, LogEvent
<1>2. CASE AskLimit(w) \/ MailFails(w) \/ AskFresh(w)
  BY <1>2, <1>k, <1>r DEF AskLimit, MailFails, AskFresh, At
<1>3. CASE MailCode(w) \/ Unwrite(w) \/ MarkSent(w) \/ RecordCode(w)
             \/ Unmark(w)
  BY <1>3, <1>r, MarkCodeRow
  DEF MailCode, Unwrite, MarkSent, RecordCode, Unmark, At
<1>4. CASE WriteCode(w) \/ Compare(w) \/ Spend(w)
  BY <1>4, <1>r DEF WriteCode, Compare, Spend, At
<1>5. CASE ReadEpoch(w) \/ ReadLock(w) \/ AnswerRight(w) \/ AnswerRefused(w)
             \/ AskEvent(w)
  BY <1>5, <1>k, <1>r
  DEF ReadEpoch, ReadLock, AnswerRight, AnswerRefused, AskEvent, At
<1>6. CASE Mint(w)
  BY <1>6, <1>k, <1>r DEF Mint, At
<1> QED
  BY <1>1, <1>2, <1>3, <1>4, <1>5, <1>6 DEF Step

-----------------------------------------------------------------------------
(* Type correctness                                                        *)

LEMMA InitTypeOK == Init => TypeOK
<1> SUFFICES ASSUME Init
             PROVE  TypeOK
  OBVIOUS
<1>1. env \in [Envelopes -> Agreement]
  BY DEF Init, Agreement
<1>2. otp \in [Envelopes -> EmailCode]
  BY DEF Init, EmailCode, NoLimit, LimitRow
<1>3. job \in [Workers -> Job]
  BY NoJobType DEF Init
<1> QED
  BY <1>1, <1>2, <1>3 DEF Init, TypeOK

LEMMA NextTypeOK == TypeOK /\ Placed /\ [Next]_vars => TypeOK'
<1> SUFFICES ASSUME TypeOK, Placed, [Next]_vars
             PROVE  TypeOK'
  OBVIOUS
<1>f. faults \in Nat /\ faults + 1 \in Nat
  BY DEF TypeOK
<1>e. \A w \in Workers : job[w].phase # "idle" => job[w].env \in Envelopes
  BY DEF Placed
<1>1. CASE UNCHANGED vars
  BY <1>1 DEF vars, TypeOK
<1>2. ASSUME NEW w \in Workers, Request(w) PROVE TypeOK'
  <2>1. PICK e \in Envelopes :
          \/ env' = env
          \/ \E locked \in BOOLEAN : Configure(w, e, locked)
    BY <1>2, RequestJob
  <2>2. env' \in [Envelopes -> Agreement]
    BY <2>1, ConfigureRow DEF TypeOK
  <2> QED
    BY <1>2, <2>2, RequestJob DEF TypeOK
<1>3. ASSUME NEW w \in Workers, Step(w) PROVE TypeOK'
  <2>1. job' \in [Workers -> Job] /\ job[w].env \in Envelopes
    BY <1>e, <1>3, StepJob
  <2>2. env' \in [Envelopes -> Agreement]
    <3>1. CASE Bump(w)
      BY <2>1, <3>1, MovedRow DEF EpochMoved
    <3>2. CASE MarkPassed(w)
      BY <2>1, <3>2, MarkPassedRow
    <3>3. CASE LogEvent(w)
      BY <2>1, <3>3, LogEventRow
    <3> QED
      BY <1>3, <3>1, <3>2, <3>3, StepWrites DEF TypeOK
  <2>3. otp' \in [Envelopes -> EmailCode]
    BY <1>3, StepWrites, WriteCodeRow, CompareRow, SpendRow
  <2>4. sessions' \subseteq Session
    BY <1>3, StepWrites, MintSession DEF TypeOK
  <2> QED
    BY <1>3, <2>1, <2>2, <2>3, <2>4, StepWrites DEF TypeOK
<1>4. ASSUME NEW w \in Workers, Crash(w) PROVE TypeOK'
  <2>1. job' \in [Workers -> Job] /\ UNCHANGED <<otp, sessions, requests>>
    BY <1>4, CrashJob
  <2>2. env' \in [Envelopes -> Agreement]
    BY <1>e, <1>4, CrashJob, CrashRow
  <2>3. faults' \in Nat
    BY <1>f, <1>4 DEF Crash
  <2> QED
    BY <2>1, <2>2, <2>3 DEF TypeOK
<1>5. ASSUME NEW e \in Envelopes, Complete(e) PROVE TypeOK'
  BY <1>5, CompleteRow DEF Complete, TypeOK
<1>6. ASSUME NEW e \in Envelopes, Void(e) PROVE TypeOK'
  BY <1>6, MovedRow DEF Void, EpochMoved, TypeOK
<1>7. ASSUME NEW e \in Envelopes, CodeLapses(e) \/ LimitLapses(e)
      PROVE  TypeOK'
  BY <1>f, <1>7, LapseRow DEF CodeLapses, LimitLapses, TypeOK
<1> QED
  BY <1>1, <1>2, <1>3, <1>4, <1>5, <1>6, <1>7 DEF Next

\* Every record has the shape its table or token gives it, whatever the
\* requests, the sender and the faults do.
THEOREM TypeCorrect == Spec => [](TypeOK /\ Placed)
<1>1. Init => TypeOK /\ Placed
  BY InitTypeOK, InitPlaced
<1>2. TypeOK /\ Placed /\ [Next]_vars => (TypeOK /\ Placed)'
  BY NextTypeOK, NextPlaced
<1> QED
  BY <1>1, <1>2, PTL DEF Spec

-----------------------------------------------------------------------------
(* The lock                                                                *)

\* r.epoch and r.at were read from the agreement together: since then neither
\* has gone back, and a lock changed since has moved the epoch or is about to.
EpochRead(r) ==
  /\ r.at <= env[r.env].conf
  /\ r.epoch <= env[r.env].epoch
  /\ r.at < env[r.env].conf =>
       r.epoch < env[r.env].epoch \/ Unfinished(r.env)

\* r.ok says of the lock that r saw whether it stood in the way.
LockRead(r) ==
  /\ r.saw <= env[r.env].conf
  /\ r.saw = env[r.env].conf => r.ok = ~env[r.env].locked

\* What a request knows of the lock: a way in reads it before the epoch,
\* but for a switch, which reads it again, and an answer, which is to the lock
\* that is set when it is found right.
JobRead(j) ==
  j.phase # "idle" =>
    /\ j.saw <= env[j.env].conf
    /\ j.kind \in {"google", "otp", "switch"} => LockRead(j)
    /\ j.phase \in {"lock", "mint"} \/ j.kind = "answer" => EpochRead(j)
    /\ j.phase = "mint" => IF j.kind \in {"google", "otp"} THEN j.saw <= j.at
                                                           ELSE j.at <= j.saw
    /\ j.phase = "pass" /\ j.kind = "answer" => j.at <= j.saw

\* What a session knows of the lock.
SessionRead(s) ==
  /\ s.saw <= env[s.env].conf
  /\ EpochRead(s)
  /\ s.by # "answer" => LockRead(s)
  /\ IF s.by \in {"google", "otp"} THEN s.saw <= s.at ELSE s.at <= s.saw

\* With TypeOK and Placed it is inductive.
LockInv ==
  /\ \A w \in Workers : JobRead(job[w])
  /\ \A s \in sessions : SessionRead(s)

\* A change of the lock of e is unfinished after the step.
LeftUnfinished(e) ==
  \/ env'[e].torn
  \/ \E w \in Workers : job'[w].phase = "bump" /\ job'[w].env = e

LEMMA UnfinishedKept ==
  ASSUME NEW e \in Envelopes, NEW w \in Workers,
         env[e].torn => env'[e].torn,
         \A v \in Workers : v # w => job'[v] = job[v],
         job[w].phase = "bump" => job[w].env # e,
         Unfinished(e)
  PROVE  Unfinished(e)'
  BY DEF Unfinished, At

\* Changes of the lock and moves of the epoch are never undone, and a change
\* is unfinished until the epoch has moved.
LEMMA LockStep ==
  ASSUME TypeOK, Placed, [Next]_vars, NEW e \in Envelopes
  PROVE  /\ env[e].epoch \in Nat /\ env[e].conf \in Nat
         /\ env'[e].epoch \in Nat /\ env'[e].conf \in Nat
         /\ env[e].epoch <= env'[e].epoch /\ env[e].conf <= env'[e].conf
         /\ env'[e].conf = env[e].conf => env'[e].locked = env[e].locked
         /\ env'[e].conf # env[e].conf => Unfinished(e)'
         /\ Unfinished(e) =>
              Unfinished(e)' \/ env[e].epoch < env'[e].epoch
<1>0. /\ env[e].epoch \in Nat /\ env[e].conf \in Nat
      /\ env[e].epoch < env[e].epoch + 1 /\ env[e].conf < env[e].conf + 1
      /\ env[e].epoch + 1 \in Nat /\ env[e].conf + 1 \in Nat
  <2>1. env[e].epoch \in Nat /\ env[e].conf \in Nat
    BY DEF TypeOK, Agreement
  <2> QED
    BY <2>1
<1> DEFINE Fine ==
      /\ env[e].epoch <= env'[e].epoch /\ env[e].conf <= env'[e].conf
      /\ env'[e].conf = env[e].conf => env'[e].locked = env[e].locked
      /\ env'[e].conf # env[e].conf => Unfinished(e)'
      /\ Unfinished(e) => Unfinished(e)' \/ env[e].epoch < env'[e].epoch
<1>n. env'[e].epoch \in Nat /\ env'[e].conf \in Nat
  <2>1. env' \in [Envelopes -> Agreement]
    BY NextTypeOK DEF TypeOK
  <2> QED
    BY <2>1 DEF Agreement
<1>a. ASSUME env'[e].epoch = env[e].epoch, env'[e].conf = env[e].conf,
             env'[e].locked = env[e].locked, Unfinished(e) => Unfinished(e)'
      PROVE  Fine
  BY <1>0, <1>a
<1>b. ASSUME env'[e].epoch = env[e].epoch + 1, env'[e].conf = env[e].conf,
             env'[e].locked = env[e].locked
      PROVE  Fine
  BY <1>0, <1>b
<1>c. ASSUME job' = job, env[e].torn => env'[e].torn, Unfinished(e)
      PROVE  Unfinished(e)'
  BY <1>c DEF Unfinished, At
<1>1. ASSUME UNCHANGED vars PROVE Fine
  BY <1>1, <1>a, <1>c DEF vars
<1>2. ASSUME NEW w \in Workers, Request(w) PROVE Fine
  <2>1. /\ job[w].phase = "idle"
        /\ \A v \in Workers : v # w => job'[v] = job[v]
    BY <1>2, RequestJob
  <2>2. PICK d \in Envelopes :
          /\ job'[w].env = d
          /\ \/ env' = env
             \/ /\ \E locked \in BOOLEAN : Configure(w, d, locked)
                /\ job'[w].phase = "bump"
    BY <1>2, RequestJob DEF Arrives
  <2>3. CASE env'[e] = env[e]
    BY <1>a, <2>1, <2>3, UnfinishedKept
  <2>4. CASE env'[e] # env[e]
    <3>1. PICK locked \in BOOLEAN : Configure(w, d, locked)
      BY <2>2, <2>4
    <3>2. d = e
      BY <2>4, <3>1, ConfigureRow
    <3>3. env'[e].epoch = env[e].epoch /\ env'[e].conf = env[e].conf + 1
      BY <3>1, <3>2, ConfigureRow
    <3>4. Unfinished(e)'
      BY <2>2, <2>4, <3>2 DEF Unfinished, At
    <3> QED
      BY <1>0, <3>3, <3>4
  <2> QED
    BY <2>3, <2>4
<1>3. ASSUME NEW w \in Workers, Step(w) PROVE Fine
  <2>1. /\ \A v \in Workers : v # w => job'[v] = job[v]
        /\ job[w].env \in Envelopes
    BY <1>3, StepJob DEF Placed
  <2>2. CASE env' = env /\ job[w].phase # "bump"
    BY <1>a, <2>1, <2>2, UnfinishedKept
  <2>3. CASE Bump(w)
    <3>1. EpochMoved(job[w].env)
      BY <2>1, <2>3, MovedRow
    <3>2. CASE job[w].env = e
      BY <1>b, <3>1, <3>2 DEF EpochMoved
    <3>3. CASE job[w].env # e
      <4>1. env'[e] = env[e]
        BY <3>1, <3>3 DEF EpochMoved
      <4> QED
        BY <1>a, <2>1, <3>3, <4>1, UnfinishedKept
    <3> QED
      BY <3>2, <3>3
  <2>4. CASE MarkPassed(w)
    <3>1. job[w].phase # "bump"
      BY <2>4 DEF MarkPassed, At
    <3>2. /\ env'[e].epoch = env[e].epoch /\ env'[e].conf = env[e].conf
          /\ env'[e].locked = env[e].locked /\ env'[e].torn = env[e].torn
      BY <2>1, <2>4, MarkPassedRow
    <3> QED
      BY <1>a, <2>1, <3>1, <3>2, UnfinishedKept
  <2>5. CASE LogEvent(w)
    <3>1. job[w].phase # "bump"
      BY <2>5 DEF LogEvent, At
    <3>2. /\ env'[e].epoch = env[e].epoch /\ env'[e].conf = env[e].conf
          /\ env'[e].locked = env[e].locked /\ env'[e].torn = env[e].torn
      BY <2>1, <2>5, LogEventRow DEF LocksKept
    <3> QED
      BY <1>a, <2>1, <3>1, <3>2, UnfinishedKept
  <2> QED
    BY <1>3, <2>2, <2>3, <2>4, <2>5, StepWrites
<1>4. ASSUME NEW w \in Workers, Crash(w) PROVE Fine
  <2>1. /\ \A v \in Workers : v # w => job'[v] = job[v]
        /\ job[w].env \in Envelopes
    BY <1>4, CrashJob DEF Placed
  <2>2. /\ env'[e].epoch = env[e].epoch /\ env'[e].conf = env[e].conf
        /\ env'[e].locked = env[e].locked
        /\ env[e].torn => env'[e].torn
        /\ job[w].env = e /\ job[w].phase = "bump" => env'[e].torn
    BY <1>4, <2>1, CrashRow
  <2>3. Unfinished(e) => Unfinished(e)'
    BY <2>1, <2>2, UnfinishedKept DEF Unfinished
  <2> QED
    BY <1>a, <2>2, <2>3
<1>5. ASSUME NEW d \in Envelopes, Complete(d) PROVE Fine
  <2>1. LocksKept /\ job' = job
    BY <1>5, CompleteRow DEF Complete
  <2> QED
    BY <1>a, <1>c, <2>1 DEF LocksKept
<1>6. ASSUME NEW d \in Envelopes, Void(d) PROVE Fine
  <2>1. EpochMoved(d) /\ job' = job
    BY <1>6, MovedRow DEF Void
  <2>2. CASE d = e
    BY <1>b, <2>1, <2>2 DEF EpochMoved
  <2>3. CASE d # e
    <3>1. env'[e] = env[e]
      BY <2>1, <2>3 DEF EpochMoved
    <3> QED
      BY <1>a, <1>c, <2>1, <3>1
  <2> QED
    BY <2>2, <2>3
<1>7. ASSUME NEW d \in Envelopes, CodeLapses(d) \/ LimitLapses(d) PROVE Fine
  BY <1>7, <1>a, <1>c DEF CodeLapses, LimitLapses
<1>8. Fine
  BY <1>1, <1>2, <1>3, <1>4, <1>5, <1>6, <1>7 DEF Next
<1> QED
  BY <1>0, <1>n, <1>8

\* What was read of the lock and the epoch stays true of them.
LEMMA ReadsKept ==
  ASSUME TypeOK, Placed, [Next]_vars, NEW r, r.env \in Envelopes,
         r.at \in Nat, r.epoch \in Nat, r.saw \in Nat
  PROVE  /\ EpochRead(r) =>
              /\ r.at <= env'[r.env].conf
              /\ r.epoch <= env'[r.env].epoch
              /\ r.at < env'[r.env].conf =>
                   r.epoch < env'[r.env].epoch \/ LeftUnfinished(r.env)
         /\ LockRead(r) =>
              /\ r.saw <= env'[r.env].conf
              /\ r.saw = env'[r.env].conf => r.ok = ~env'[r.env].locked
         /\ r.saw <= env[r.env].conf => r.saw <= env'[r.env].conf
<1> DEFINE e == r.env
<1>1. /\ env[e].epoch \in Nat /\ env[e].conf \in Nat
      /\ env'[e].epoch \in Nat /\ env'[e].conf \in Nat
      /\ env[e].epoch <= env'[e].epoch /\ env[e].conf <= env'[e].conf
      /\ env'[e].conf = env[e].conf => env'[e].locked = env[e].locked
      /\ env'[e].conf # env[e].conf => LeftUnfinished(e)
      /\ Unfinished(e) =>
           LeftUnfinished(e) \/ env[e].epoch < env'[e].epoch
  BY LockStep DEF Unfinished, LeftUnfinished, At
<1>2. ASSUME EpochRead(r)
      PROVE  /\ r.at <= env'[r.env].conf
             /\ r.epoch <= env'[r.env].epoch
             /\ r.at < env'[r.env].conf =>
                  r.epoch < env'[r.env].epoch \/ LeftUnfinished(r.env)
  BY <1>1, <1>2 DEF EpochRead
<1>3. ASSUME LockRead(r)
      PROVE  /\ r.saw <= env'[r.env].conf
             /\ r.saw = env'[r.env].conf => r.ok = ~env'[r.env].locked
  BY <1>1, <1>3 DEF LockRead
<1> QED
  BY <1>1, <1>2, <1>3

LEMMA InitLockInv == Init => LockInv
  BY NoJobType DEF Init, LockInv, JobRead

\* A worker that its step leaves alone goes on knowing what it knew.
LEMMA JobReadKept ==
  ASSUME TypeOK, Placed, [Next]_vars, NEW v \in Workers,
         JobRead(job[v]), job'[v] = job[v]
  PROVE  JobRead(job[v])'
<1>1. CASE job[v].phase = "idle"
  BY <1>1 DEF JobRead
<1>2. CASE job[v].phase # "idle"
  <2> DEFINE j == job[v]
  <2>1. j \in Job /\ j.env \in Envelopes
    BY <1>2 DEF TypeOK, Placed
  <2>2. j.at \in Nat /\ j.epoch \in Nat /\ j.saw \in Nat
    BY <2>1 DEF Job
  <2>3. /\ EpochRead(j) =>
             /\ j.at <= env'[j.env].conf
             /\ j.epoch <= env'[j.env].epoch
             /\ j.at < env'[j.env].conf =>
                  j.epoch < env'[j.env].epoch \/ LeftUnfinished(j.env)
        /\ LockRead(j) =>
             /\ j.saw <= env'[j.env].conf
             /\ j.saw = env'[j.env].conf => j.ok = ~env'[j.env].locked
        /\ j.saw <= env[j.env].conf => j.saw <= env'[j.env].conf
    BY <2>1, <2>2, ReadsKept
  <2>4. job'[v] = j
    OBVIOUS
  <2>5. JobRead(j)
    OBVIOUS
  <2> HIDE DEF j
  <2>6. EpochRead(j) => EpochRead(job[v])'
    BY <2>3, <2>4 DEF EpochRead, Unfinished, LeftUnfinished, At
  <2>7. LockRead(j) => LockRead(job[v])'
    BY <2>3, <2>4 DEF LockRead
  <2>8. j.phase # "idle"
    BY <1>2 DEF j
  <2> QED
    BY <2>3, <2>4, <2>5, <2>6, <2>7, <2>8 DEF JobRead
<1> QED
  BY <1>1, <1>2

LEMMA RequestRead ==
  ASSUME TypeOK, Placed, NEW w \in Workers, Request(w)
  PROVE  JobRead(job[w])'
<1> DEFINE j == job'[w]
<1>1. PICK e \in Envelopes :
        /\ Arrives(w, e)
        /\ \/ env' = env
           \/ /\ \E locked \in BOOLEAN : Configure(w, e, locked)
              /\ job'[w].phase = "bump"
  BY RequestJob
<1>2. env[e].conf \in Nat /\ env[e].epoch \in Nat
  BY DEF TypeOK, Agreement
<1>3. CASE env' = env
  <2>1. j.env = e /\ j.saw = env[e].conf /\ j.ok = ~env[e].locked
    BY <1>1 DEF Arrives
  <2>2. LockRead(job[w])'
    BY <1>2, <1>3, <2>1 DEF LockRead
  <2>3. j.kind = "answer" => EpochRead(job[w])'
    BY <1>1, <1>2, <1>3, <2>1 DEF Arrives, EpochRead
  <2>4. j.phase \notin {"lock", "mint", "pass"}
    BY <1>1 DEF Arrives
  <2> QED
    BY <1>2, <1>3, <2>1, <2>2, <2>3, <2>4 DEF JobRead
<1>4. CASE env' # env
  <2>1. /\ \E locked \in BOOLEAN : Configure(w, e, locked)
        /\ j.phase = "bump" /\ j.kind = "configure"
        /\ j.env = e /\ j.saw = env[e].conf
    BY <1>1, <1>4 DEF Arrives
  <2>2. env'[e].conf = env[e].conf + 1
    BY <2>1, ConfigureRow
  <2>3. j.saw <= env'[e].conf
    BY <1>2, <2>1, <2>2
  <2> QED
    BY <2>1, <2>3 DEF JobRead
<1> QED
  BY <1>3, <1>4

LEMMA StepRead ==
  ASSUME TypeOK, Placed, LockInv, NEW w \in Workers, Step(w)
  PROVE  JobRead(job[w])'
<1> DEFINE j == job[w]
           k == job'[w]
           e == job[w].env
<1>1. /\ j.phase # "idle"
      /\ \/ k = NoJob
         \/ Flow(j.kind, j.phase, k.phase) /\ Reads(w)
  BY StepJob
<1>2. CASE k = NoJob
  BY <1>2, NoJobType DEF JobRead
<1>3. CASE k # NoJob
  <2>1. Flow(j.kind, j.phase, k.phase) /\ Reads(w)
    BY <1>1, <1>3
  <2>2. e \in Envelopes /\ j \in Job
    BY <1>1 DEF Placed, TypeOK
  <2>3. /\ env[e].conf \in Nat /\ env[e].epoch \in Nat
        /\ j.at \in Nat /\ j.epoch \in Nat /\ j.saw \in Nat
    BY <2>2 DEF TypeOK, Agreement, Job
  <2>4. [Next]_vars
    BY DEF Next
  <2>5. /\ EpochRead(j) =>
             /\ j.at <= env'[e].conf
             /\ j.epoch <= env'[e].epoch
             /\ j.at < env'[e].conf =>
                  j.epoch < env'[e].epoch \/ LeftUnfinished(e)
        /\ LockRead(j) =>
             /\ j.saw <= env'[e].conf
             /\ j.saw = env'[e].conf => j.ok = ~env'[e].locked
        /\ j.saw <= env[e].conf => j.saw <= env'[e].conf
    BY <2>2, <2>3, <2>4, ReadsKept
  <2>6. JobRead(j)
    BY DEF LockInv
  <2>7. j.phase \in {"epoch", "lock", "verify"} => env' = env
    BY StepWrites DEF Bump, MarkPassed, LogEvent, At
  <2>8. k.kind = j.kind /\ k.env = e
    BY <2>1 DEF Reads
  <2> HIDE DEF j, k, e
  <2>a. k = job'[w] /\ e = j.env
    BY DEF j, k, e
  <2>9. CASE j.phase = "epoch"
    <3>1. /\ env' = env /\ k.phase \in {"lock", "mint"}
          /\ k.phase = "lock" <=> j.kind = "switch"
          /\ k.epoch = env[e].epoch /\ k.at = env[e].conf
          /\ k.saw = j.saw /\ k.ok = j.ok
      BY <2>1, <2>7, <2>9 DEF Flow, Reads, e, j, k
    <3>2. j.kind \in {"google", "otp", "switch"}
      BY <2>9 DEF Placed, j
    <3>3. LockRead(job[w])'
      BY <1>1, <2>5, <2>6, <2>8, <2>a, <3>1, <3>2 DEF JobRead, LockRead
    <3>4. EpochRead(job[w])'
      BY <2>3, <2>8, <2>a, <3>1 DEF EpochRead
    <3>5. k.phase = "mint" => j.kind \in {"google", "otp"} /\ k.saw <= k.at
      BY <1>1, <2>6, <2>a, <3>1, <3>2 DEF JobRead
    <3>6. k.saw <= env'[e].conf
      BY <1>1, <2>6, <2>a, <3>1 DEF JobRead
    <3> QED
      BY <2>8, <2>a, <3>1, <3>2, <3>3, <3>4, <3>5, <3>6 DEF JobRead
  <2>10. CASE j.phase = "lock"
    <3>1. /\ env' = env /\ k.phase = "mint"
          /\ k.epoch = j.epoch /\ k.at = j.at
          /\ k.ok = ~env[e].locked /\ k.saw = env[e].conf
      BY <2>1, <2>7, <2>10 DEF Flow, Reads, e, j, k
    <3>2. j.kind = "switch"
      BY <2>10 DEF Placed, j
    <3>3. EpochRead(j)
      BY <2>6, <2>10 DEF JobRead
    <3>4. EpochRead(job[w])'
      BY <2>5, <2>8, <2>a, <3>1, <3>3
      DEF EpochRead, Unfinished, LeftUnfinished, At
    <3>5. LockRead(job[w])'
      BY <2>3, <2>8, <2>a, <3>1 DEF LockRead
    <3>6. k.at <= k.saw /\ k.saw <= env'[e].conf
      BY <2>3, <2>a, <3>1, <3>3 DEF EpochRead
    <3> QED
      BY <2>8, <2>a, <3>1, <3>2, <3>4, <3>5, <3>6 DEF JobRead
  <2>11. CASE j.phase = "verify"
    <3>1. /\ env' = env /\ k.phase = "pass"
          /\ k.epoch = j.epoch /\ k.at = j.at /\ k.saw = env[e].conf
      BY <2>1, <2>7, <2>11 DEF Flow, Reads, e, j, k
    <3>2. j.kind \in {"answer", "token"}
      BY <2>11 DEF Placed, j
    <3>3. j.kind = "answer" => EpochRead(j)
      BY <1>1, <2>6 DEF JobRead
    <3>4. j.kind = "answer" => EpochRead(job[w])' /\ k.at <= k.saw
      BY <2>3, <2>5, <2>8, <2>a, <3>1, <3>3
      DEF EpochRead, Unfinished, LeftUnfinished, At
    <3>5. k.saw <= env'[e].conf
      BY <2>3, <3>1
    <3> QED
      BY <2>8, <2>a, <3>1, <3>2, <3>4, <3>5 DEF JobRead
  <2>12. CASE j.phase \notin {"epoch", "lock", "verify"}
    <3>1. /\ k.epoch = j.epoch /\ k.at = j.at
          /\ k.ok = j.ok /\ k.saw = j.saw
      BY <2>1, <2>12 DEF Reads, e, j, k
    <3>2. /\ k.phase \notin {"lock", "pass"}
          /\ k.phase = "mint" => j.phase = "pass" /\ j.kind # "token"
      BY <2>1, <2>12 DEF Flow
    <3>3. k.phase = "mint" => j.kind = "answer"
      BY <3>2 DEF Placed, j
    <3>4. EpochRead(j) => EpochRead(job[w])'
      BY <2>5, <2>8, <2>a, <3>1
      DEF EpochRead, Unfinished, LeftUnfinished, At
    <3>5. LockRead(j) => LockRead(job[w])'
      BY <2>5, <2>8, <2>a, <3>1 DEF LockRead
    <3>6. k.saw <= env'[e].conf
      BY <1>1, <2>5, <2>6, <2>a, <3>1 DEF JobRead
    <3>7. k.phase = "mint" => k.at <= k.saw
      BY <2>6, <3>1, <3>2, <3>3 DEF JobRead
    <3>8. /\ j.kind \in {"google", "otp", "switch"} => LockRead(job[w])'
          /\ j.kind = "answer" => EpochRead(job[w])'
      BY <1>1, <2>6, <3>4, <3>5 DEF JobRead
    <3> QED
      BY <2>8, <2>a, <3>2, <3>3, <3>6, <3>7, <3>8 DEF JobRead
  <2> QED
    BY <2>9, <2>10, <2>11, <2>12
<1> QED
  BY <1>2, <1>3

LEMMA NextLockInv == TypeOK /\ Placed /\ LockInv /\ [Next]_vars => LockInv'
<1> SUFFICES ASSUME TypeOK, Placed, LockInv, [Next]_vars
             PROVE  LockInv'
  OBVIOUS
<1>k. ASSUME NEW v \in Workers, job'[v] = job[v]
      PROVE  JobRead(job[v])'
  BY <1>k, JobReadKept DEF LockInv
<1>i. ASSUME NEW w \in Workers, job'[w] = NoJob PROVE JobRead(job[w])'
  BY <1>i, NoJobType DEF JobRead
<1>1. ASSUME NEW v \in Workers PROVE JobRead(job[v])'
  <2>1. CASE UNCHANGED vars
    BY <1>k, <2>1 DEF vars
  <2>2. ASSUME NEW w \in Workers, Request(w) PROVE JobRead(job[v])'
    BY <1>k, <2>2, RequestJob, RequestRead
  <2>3. ASSUME NEW w \in Workers, Step(w) PROVE JobRead(job[v])'
    BY <1>k, <2>3, StepJob, StepRead
  <2>4. ASSUME NEW w \in Workers, Crash(w) PROVE JobRead(job[v])'
    BY <1>k, <1>i, <2>4, CrashJob
  <2>5. ASSUME NEW e \in Envelopes,
               Complete(e) \/ Void(e) \/ CodeLapses(e) \/ LimitLapses(e)
        PROVE  JobRead(job[v])'
    BY <1>k, <2>5 DEF Complete, Void, CodeLapses, LimitLapses
  <2> QED
    BY <2>1, <2>2, <2>3, <2>4, <2>5 DEF Next
<1>2. ASSUME NEW s \in sessions' PROVE SessionRead(s)'
  <2>1. CASE s \in sessions
    <3>1. s \in Session /\ SessionRead(s)
      BY <2>1 DEF TypeOK, LockInv
    <3>2. /\ s.env \in Envelopes
          /\ s.at \in Nat /\ s.epoch \in Nat /\ s.saw \in Nat
      BY <3>1 DEF Session
    <3>3. /\ EpochRead(s) =>
               /\ s.at <= env'[s.env].conf
               /\ s.epoch <= env'[s.env].epoch
               /\ s.at < env'[s.env].conf =>
                    s.epoch < env'[s.env].epoch \/ LeftUnfinished(s.env)
          /\ LockRead(s) =>
               /\ s.saw <= env'[s.env].conf
               /\ s.saw = env'[s.env].conf => s.ok = ~env'[s.env].locked
          /\ s.saw <= env[s.env].conf => s.saw <= env'[s.env].conf
      BY <3>2, ReadsKept
    <3>4. EpochRead(s) => EpochRead(s)'
      BY <3>3 DEF EpochRead, Unfinished, LeftUnfinished, At
    <3>5. LockRead(s) => LockRead(s)'
      BY <3>3 DEF LockRead
    <3> QED
      BY <3>1, <3>3, <3>4, <3>5 DEF SessionRead
  <2>2. CASE s \notin sessions
    <3>1. PICK w \in Workers : Mint(w)
      <4>1. ASSUME NEW w \in Workers, Request(w) PROVE FALSE
        BY <2>2, <4>1, RequestJob
      <4>2. ASSUME NEW w \in Workers, Step(w) PROVE Mint(w)
        BY <2>2, <4>2, StepWrites
      <4>3. ASSUME NEW w \in Workers, Crash(w) PROVE FALSE
        BY <2>2, <4>3, CrashJob
      <4>4. ASSUME NEW e \in Envelopes,
                   Complete(e) \/ Void(e) \/ CodeLapses(e) \/ LimitLapses(e)
            PROVE  FALSE
        BY <2>2, <4>4 DEF Complete, Void, CodeLapses, LimitLapses
      <4> QED
        BY <2>2, <4>1, <4>2, <4>3, <4>4 DEF Next, vars
    <3> DEFINE j == job[w]
    <3>2. /\ j.phase = "mint" /\ s = NewSession(w)
          /\ s.env = j.env /\ s.by = j.kind /\ s.epoch = j.epoch
          /\ s.ok = j.ok /\ s.saw = j.saw /\ s.at = j.at
          /\ env' = env
      BY <2>2, <3>1, MintSession
    <3>3. JobRead(j) /\ j.kind \in Ways
      BY <3>2 DEF LockInv, Placed
    <3>4. /\ s.saw <= env[s.env].conf /\ EpochRead(j)
          /\ j.kind # "answer" => LockRead(j)
          /\ IF s.by \in {"google", "otp"} THEN s.saw <= s.at
                                           ELSE s.at <= s.saw
      BY <3>2, <3>3 DEF JobRead, Ways
    <3>5. j.env \in Envelopes /\ j \in Job
      BY <3>2 DEF Placed, TypeOK
    <3>6. j.at \in Nat /\ j.epoch \in Nat /\ j.saw \in Nat
      BY <3>5 DEF Job
    <3>7. /\ EpochRead(j) =>
               /\ j.at <= env'[j.env].conf
               /\ j.epoch <= env'[j.env].epoch
               /\ j.at < env'[j.env].conf =>
                    j.epoch < env'[j.env].epoch \/ LeftUnfinished(j.env)
          /\ LockRead(j) =>
               /\ j.saw <= env'[j.env].conf
               /\ j.saw = env'[j.env].conf => j.ok = ~env'[j.env].locked
          /\ j.saw <= env[j.env].conf => j.saw <= env'[j.env].conf
      BY <3>5, <3>6, ReadsKept
    <3> HIDE DEF j
    <3>8. EpochRead(s)'
      BY <3>2, <3>4, <3>7 DEF EpochRead, Unfinished, LeftUnfinished, At
    <3>9. s.by # "answer" => LockRead(s)'
      BY <3>2, <3>4, <3>7 DEF LockRead
    <3> QED
      BY <3>2, <3>4, <3>8, <3>9 DEF SessionRead
  <2> QED
    BY <2>1, <2>2
<1> QED
  BY <1>1, <1>2 DEF LockInv

\* A session that gets past the lock was given for an answer to it, unless
\* the change of the lock is unfinished or the sign-in straddled it.
THEOREM LockAlwaysHolds == Spec => []LockHolds
<1>1. Init => TypeOK /\ Placed /\ LockInv
  BY InitTypeOK, InitPlaced, InitLockInv
<1>2. TypeOK /\ Placed /\ LockInv /\ [Next]_vars =>
        (TypeOK /\ Placed /\ LockInv)'
  BY NextTypeOK, NextPlaced, NextLockInv
<1>3. TypeOK /\ LockInv => LockHolds
  <2> SUFFICES ASSUME TypeOK, LockInv, NEW s \in sessions,
                      Admitted(s), env[s.env].locked
               PROVE  \/ s.by = "answer" /\ s.saw = env[s.env].conf
                      \/ Straddled(s)
                      \/ Unfinished(s.env)
    BY DEF LockHolds
  <2>1. s \in Session /\ SessionRead(s)
    BY DEF TypeOK, LockInv
  <2>2. /\ s.env \in Envelopes /\ s.by \in Ways
        /\ s.at \in Nat /\ s.saw \in Nat /\ s.epoch \in Nat
        /\ s.ok \in BOOLEAN
    BY <2>1 DEF Session
  <2>3. env[s.env].conf \in Nat /\ env[s.env].epoch \in Nat
    BY <2>2 DEF TypeOK, Agreement
  <2>4. s.epoch = env[s.env].epoch /\ s.ok
    BY DEF Admitted, Open, Live
  <2>5. s.at = env[s.env].conf \/ Unfinished(s.env)
    BY <2>1, <2>2, <2>3, <2>4 DEF SessionRead, EpochRead
  <2>6. s.by # "answer" => s.saw # env[s.env].conf
    BY <2>1, <2>4 DEF SessionRead, LockRead
  <2>7. /\ s.saw <= env[s.env].conf
        /\ IF s.by \in {"google", "otp"} THEN s.saw <= s.at ELSE s.at <= s.saw
    BY <2>1 DEF SessionRead
  <2> QED
    BY <2>2, <2>3, <2>5, <2>6, <2>7 DEF Straddled, Ways
<1> QED
  BY <1>1, <1>2, <1>3, PTL DEF Spec

-----------------------------------------------------------------------------
(* The mark of a right answer                                              *)

\* Unless the lock was changed while the mark of a right answer was to be
\* written, the mark, and every one still to be written, is for the lock that
\* is set now.
MarkRead(e) ==
  ~env[e].crossed =>
    /\ env[e].pass \in {0, env[e].conf}
    /\ \A w \in Workers :
         At(w, "pass") /\ job[w].env = e => job[w].saw = env[e].conf

\* With TypeOK and Placed it is inductive.
MarkInv == \A e \in Envelopes : MarkRead(e)

LEMMA NextMarkInv == TypeOK /\ Placed /\ MarkInv /\ [Next]_vars => MarkInv'
<1> SUFFICES ASSUME TypeOK, Placed, MarkInv, [Next]_vars, NEW e \in Envelopes
             PROVE  MarkRead(e)'
  BY DEF MarkInv
<1> DEFINE Kept == /\ env'[e].pass = env[e].pass /\ env'[e].conf = env[e].conf
                   /\ env'[e].crossed = env[e].crossed
           Known(v) == job'[v].phase = "pass" /\ job'[v].env = e =>
                         \/ job'[v] = job[v]
                         \/ job'[v].saw = env[e].conf
<1>0. MarkRead(e)
  BY DEF MarkInv
<1>a. ASSUME Kept, \A v \in Workers : Known(v) PROVE MarkRead(e)'
  BY <1>0, <1>a DEF MarkRead, At
<1>1. CASE UNCHANGED vars
  BY <1>1, <1>a DEF vars
<1>2. ASSUME NEW w \in Workers, Request(w) PROVE MarkRead(e)'
  <2>1. /\ job[w].phase = "idle"
        /\ \A v \in Workers : v # w => job'[v] = job[v]
    BY <1>2, RequestJob
  <2>2. PICK d \in Envelopes :
          /\ job'[w].phase # "pass"
          /\ \/ env' = env
             \/ \E locked \in BOOLEAN : Configure(w, d, locked)
    BY <1>2, RequestJob DEF Arrives
  <2>3. CASE env'[e] = env[e]
    BY <1>a, <2>1, <2>2, <2>3
  <2>4. CASE env'[e] # env[e]
    <3>1. /\ env'[e].pass = 0
          /\ env'[e].crossed <=> env[e].crossed \/ Answering(e)
      BY <2>2, <2>4, ConfigureRow
    <3>2. ~Answering(e) =>
            \A v \in Workers : ~(job'[v].phase = "pass" /\ job'[v].env = e)
      BY <2>1, <2>2 DEF Answering, At
    <3> QED
      BY <3>1, <3>2 DEF MarkRead, At
  <2> QED
    BY <2>3, <2>4
<1>3. ASSUME NEW w \in Workers, Step(w) PROVE MarkRead(e)'
  <2>1. /\ \A v \in Workers : v # w => job'[v] = job[v]
        /\ job[w].phase # "idle"
        /\ \/ job'[w] = NoJob
           \/ Flow(job[w].kind, job[w].phase, job'[w].phase) /\ Reads(w)
    BY <1>3, StepJob
  <2>2. job[w].env \in Envelopes
    BY <2>1 DEF Placed
  <2>3. Known(w)
    BY <2>1, NoJobType DEF Flow, Reads
  <2>4. \A v \in Workers : Known(v)
    BY <2>1, <2>3
  <2>5. CASE env' = env
    BY <1>a, <2>4, <2>5
  <2>6. CASE Bump(w)
    <3>1. EpochMoved(job[w].env)
      BY <2>2, <2>6, MovedRow
    <3>2. Kept
      BY <3>1 DEF EpochMoved
    <3> QED
      BY <1>a, <2>4, <3>2
  <2>7. CASE LogEvent(w)
    <3>1. LocksKept
      BY <2>2, <2>7, LogEventRow
    <3> QED
      BY <1>a, <2>4, <3>1 DEF LocksKept
  <2>8. CASE MarkPassed(w)
    <3>1. CASE job[w].env # e
      <4>1. env'[e] = env[e]
        BY <2>2, <2>8, <3>1, MarkPassedRow
      <4> QED
        BY <1>a, <2>4, <4>1
    <3>2. CASE job[w].env = e
      <4>1. /\ env'[e].pass = job[w].saw /\ env'[e].conf = env[e].conf
            /\ env'[e].crossed = env[e].crossed
        BY <2>8, <3>2, MarkPassedRow
      <4>2. ~env[e].crossed => job[w].saw = env[e].conf
        BY <1>0, <2>8, <3>2 DEF MarkRead, MarkPassed
      <4> QED
        BY <1>0, <2>4, <4>1, <4>2 DEF MarkRead, At
    <3> QED
      BY <3>1, <3>2
  <2> QED
    BY <1>3, <2>5, <2>6, <2>7, <2>8, StepWrites
<1>4. ASSUME NEW w \in Workers, Crash(w) PROVE MarkRead(e)'
  <2>1. /\ \A v \in Workers : v # w => job'[v] = job[v]
        /\ job'[w] = NoJob /\ job[w].env \in Envelopes
    BY <1>4, CrashJob DEF Placed
  <2>2. Kept
    BY <1>4, <2>1, CrashRow
  <2> QED
    BY <1>a, <2>1, <2>2, NoJobType
<1>5. ASSUME NEW d \in Envelopes, Complete(d) PROVE MarkRead(e)'
  BY <1>5, <1>a, CompleteRow DEF Complete, LocksKept
<1>6. ASSUME NEW d \in Envelopes, Void(d) PROVE MarkRead(e)'
  <2>1. EpochMoved(d) /\ job' = job
    BY <1>6, MovedRow DEF Void
  <2>2. Kept
    BY <2>1 DEF EpochMoved
  <2> QED
    BY <1>a, <2>1, <2>2
<1>7. ASSUME NEW d \in Envelopes, CodeLapses(d) \/ LimitLapses(d)
      PROVE  MarkRead(e)'
  BY <1>7, <1>a DEF CodeLapses, LimitLapses
<1> QED
  BY <1>1, <1>2, <1>3, <1>4, <1>5, <1>6, <1>7 DEF Next

\* The signing link shows pages behind a lock only after the answer to it,
\* unless the lock was changed while an answer was being recorded.
THEOREM PassAlwaysCurrent == Spec => []PassIsCurrent
<1>1. Init => TypeOK /\ Placed /\ MarkInv
  BY InitTypeOK, InitPlaced DEF Init, MarkInv, MarkRead, NoJob, At
<1>2. TypeOK /\ Placed /\ MarkInv /\ [Next]_vars =>
        (TypeOK /\ Placed /\ MarkInv)'
  BY NextTypeOK, NextPlaced, NextMarkInv
<1>3. MarkInv => PassIsCurrent
  BY DEF MarkInv, MarkRead, PassIsCurrent, PageShown, Unmet
<1> QED
  BY <1>1, <1>2, <1>3, PTL DEF Spec

-----------------------------------------------------------------------------
(* The events of the log                                                   *)

\* The requests about to insert one kind of event of e, and how often it is
\* in the log.
Inserting(e, event) ==
  {w \in Workers : /\ job[w].phase = "insert" /\ job[w].env = e
                   /\ (job[w].kind = "view" <=> event = "view")}

Logged(e, event) ==
  IF event = "view" THEN env[e].viewed ELSE env[e].delivered

\* With TypeOK and Placed it is inductive: a request is about to insert an
\* event only if it found none.
EventInv ==
  \A e \in Envelopes, event \in {"view", "copy"} :
    Logged(e, event) + Cardinality(Inserting(e, event))
      <= Cardinality(Workers)

LEMMA InsertingFinite ==
  ASSUME NEW e, NEW event
  PROVE  /\ IsFiniteSet(Inserting(e, event))
         /\ Cardinality(Inserting(e, event)) \in Nat
         /\ Cardinality(Inserting(e, event)) <= Cardinality(Workers)
         /\ Cardinality(Workers) \in Nat
<1>1. IsFiniteSet(Workers)
  BY EnvelopeAccessAssumption DEF EnvelopeAccessAssumption
<1>2. Inserting(e, event) \subseteq Workers
  BY DEF Inserting
<1> QED
  BY <1>1, <1>2, FS_Subset, FS_CardinalityType

\* An event is inserted only after the log was read without it.
LEMMA InsertAfterAsk ==
  ASSUME TypeOK, Placed, NEW w \in Workers, Step(w),
         job'[w].phase = "insert"
  PROVE  Event(w) = 0 /\ env' = env
<1>1. /\ job[w].phase = "seen" /\ job[w].env \in Envelopes
      /\ job'[w] # NoJob
  BY StepJob, NoJobType DEF Flow, Placed
<1>2. AskEvent(w)
  BY <1>1
  DEF Step, At, Bump, AskLimit, WriteCode, MailCode, MailFails, Unwrite,
      MarkSent, AskFresh, Compare, Spend, RecordCode, Unmark, ReadEpoch,
      ReadLock, Mint, AnswerRight, AnswerRefused, MarkPassed, LogEvent
<1>3. Event(w) \in Nat
  BY <1>1 DEF Event, TypeOK, Agreement
<1>4. ~(Event(w) > 0)
  BY <1>1, <1>2, DoneJob DEF AskEvent
<1> QED
  BY <1>2, <1>3, <1>4 DEF AskEvent

LEMMA NextEventInv == TypeOK /\ Placed /\ EventInv /\ [Next]_vars => EventInv'
<1> SUFFICES ASSUME TypeOK, Placed, EventInv, [Next]_vars,
                    NEW e \in Envelopes, NEW event \in {"view", "copy"}
             PROVE  (Logged(e, event) + Cardinality(Inserting(e, event))
                       <= Cardinality(Workers))'
  BY DEF EventInv
<1> DEFINE S == Inserting(e, event)
           T == Inserting(e, event)'
           n == Logged(e, event)
           m == Logged(e, event)'
           all == Cardinality(Workers)
           Fine == m + Cardinality(T) <= all
           Same(v) == job'[v].phase = "insert" => job'[v] = job[v]
<1>0. n \in Nat /\ n + Cardinality(S) <= all
  BY DEF EventInv, Logged, TypeOK, Agreement
<1>s. /\ IsFiniteSet(S) /\ Cardinality(S) \in Nat
      /\ IsFiniteSet(T) /\ Cardinality(T) \in Nat
      /\ Cardinality(T) <= all /\ all \in Nat
  <2>1. IsFiniteSet(Workers) /\ T \subseteq Workers
    BY EnvelopeAccessAssumption DEF EnvelopeAccessAssumption, Inserting
  <2>2. IsFiniteSet(T) /\ Cardinality(T) <= all
    BY <2>1, FS_Subset
  <2> HIDE DEF T
  <2> QED
    BY <2>2, InsertingFinite, FS_CardinalityType
<1>a. ASSUME m = n, \A v \in Workers : Same(v) PROVE Fine
  <2>1. T \subseteq S
    BY <1>a DEF Inserting
  <2> HIDE DEF S, T, n, m, all
  <2>2. Cardinality(T) <= Cardinality(S)
    BY <1>s, <2>1, FS_Subset
  <2> QED
    BY <1>0, <1>a, <1>s, <2>2
<1>k. env'[e] = env[e] => m = n
  BY DEF Logged
<1>h. EventsKept => m = n
  BY DEF Logged, EventsKept
<1>1. ASSUME UNCHANGED vars PROVE Fine
  BY <1>1, <1>a, <1>k DEF vars
<1>2. ASSUME NEW w \in Workers, Request(w) PROVE Fine
  <2>1. \A v \in Workers : v # w => job'[v] = job[v]
    BY <1>2, RequestJob
  <2>2. PICK d \in Envelopes :
          /\ job'[w].phase # "insert"
          /\ \/ env' = env
             \/ \E locked \in BOOLEAN : Configure(w, d, locked)
    BY <1>2, RequestJob DEF Arrives
  <2>3. env' = env \/ EventsKept
    BY <2>2, ConfigureRow
  <2> QED
    BY <1>a, <1>k, <1>h, <2>1, <2>2, <2>3
<1>3. ASSUME NEW w \in Workers, Step(w) PROVE Fine
  <2>1. /\ \A v \in Workers : v # w => job'[v] = job[v]
        /\ job[w].phase # "idle"
        /\ \/ job'[w] = NoJob
           \/ Flow(job[w].kind, job[w].phase, job'[w].phase) /\ Reads(w)
    BY <1>3, StepJob
  <2>2. job[w].env \in Envelopes
    BY <2>1 DEF Placed
  <2>3. CASE job'[w].phase = "insert"
    <3>1. Event(w) = 0 /\ env' = env
      BY <1>3, <2>3, InsertAfterAsk
    <3>2. job'[w].kind = job[w].kind /\ job'[w].env = job[w].env
      BY <2>1, <2>3, NoJobType DEF Reads
    <3>3. CASE w \in T
      <4>1. /\ job[w].env = e
            /\ job[w].kind = "view" <=> event = "view"
        BY <3>2, <3>3 DEF Inserting
      <4>2. m = 0
        BY <3>1, <4>1 DEF Event, Logged
      <4> HIDE DEF T, m, all
      <4> QED
        BY <1>s, <4>2
    <3>4. CASE w \notin T
      <4>1. T \subseteq S
        BY <2>1, <3>4 DEF Inserting
      <4>2. m = n
        BY <1>k, <3>1
      <4> HIDE DEF S, T, n, m, all
      <4>3. Cardinality(T) <= Cardinality(S)
        BY <1>s, <4>1, FS_Subset
      <4> QED
        BY <1>0, <1>s, <4>2, <4>3
    <3> QED
      BY <3>3, <3>4
  <2>4. CASE job'[w].phase # "insert"
    <3>1. \A v \in Workers : Same(v)
      BY <2>1, <2>4
    <3>2. CASE LogEvent(w)
      <4>1. /\ job[w].phase = "insert" /\ job'[w] = NoJob
        BY <3>2, DoneJob DEF LogEvent, At
      <4>2. CASE w \in S
        <5>1. /\ job[w].env = e
              /\ job[w].kind = "view" <=> event = "view"
          BY <4>2 DEF Inserting
        <5>2. m = n + 1
          BY <3>2, <5>1, LogEventRow DEF Logged
        <5>3. T \subseteq S \ {w}
          BY <2>4, <3>1 DEF Inserting
        <5> HIDE DEF S, T, n, m, all
        <5>4. /\ IsFiniteSet(S \ {w})
              /\ Cardinality(S \ {w}) = Cardinality(S) - 1
          BY <1>s, <4>2, FS_RemoveElement
        <5>5. Cardinality(T) <= Cardinality(S \ {w})
          BY <5>3, <5>4, FS_Subset
        <5> QED
          BY <1>0, <1>s, <5>2, <5>4, <5>5
      <4>3. CASE w \notin S
        <5>1. \/ job[w].env # e
              \/ ~(job[w].kind = "view" <=> event = "view")
          BY <4>1, <4>3 DEF Inserting
        <5>2. m = n
          BY <2>2, <3>2, <5>1, LogEventRow DEF Logged
        <5> QED
          BY <1>a, <3>1, <5>2
      <4> QED
        BY <4>2, <4>3
    <3>3. CASE env' = env
      BY <1>a, <1>k, <3>1, <3>3
    <3>4. CASE Bump(w)
      <4>1. EventsKept
        BY <2>2, <3>4, MovedRow DEF EpochMoved
      <4> QED
        BY <1>a, <1>h, <3>1, <4>1
    <3>5. CASE MarkPassed(w)
      <4>1. EventsKept
        BY <2>2, <3>5, MarkPassedRow
      <4> QED
        BY <1>a, <1>h, <3>1, <4>1
    <3> QED
      BY <1>3, <3>2, <3>3, <3>4, <3>5, StepWrites
  <2> QED
    BY <2>3, <2>4
<1>4. ASSUME NEW w \in Workers, Crash(w) PROVE Fine
  <2>1. /\ \A v \in Workers : v # w => job'[v] = job[v]
        /\ job'[w] = NoJob /\ job[w].env \in Envelopes
    BY <1>4, CrashJob DEF Placed
  <2>2. EventsKept
    BY <1>4, <2>1, CrashRow
  <2> QED
    BY <1>a, <1>h, <2>1, <2>2, NoJobType
<1>5. ASSUME NEW d \in Envelopes, Complete(d) PROVE Fine
  BY <1>5, <1>a, <1>h, CompleteRow DEF Complete
<1>6. ASSUME NEW d \in Envelopes, Void(d) PROVE Fine
  <2>1. EventsKept /\ job' = job
    BY <1>6, MovedRow DEF Void, EpochMoved
  <2> QED
    BY <1>a, <1>h, <2>1
<1>7. ASSUME NEW d \in Envelopes, CodeLapses(d) \/ LimitLapses(d)
      PROVE  Fine
  BY <1>7, <1>a, <1>k DEF CodeLapses, LimitLapses
<1>8. Fine
  BY <1>1, <1>2, <1>3, <1>4, <1>5, <1>6, <1>7 DEF Next
<1> QED
  BY <1>8

\* An event that is to be in the log once is there at most once for each
\* request that can be in flight.
THEOREM EventsAlwaysBounded == Spec => []EventsBounded
<1>1. Init => TypeOK /\ Placed /\ EventInv
  <2> SUFFICES ASSUME Init, NEW e \in Envelopes, NEW event \in {"view", "copy"}
               PROVE  Logged(e, event) + Cardinality(Inserting(e, event))
                        <= Cardinality(Workers)
    BY InitTypeOK, InitPlaced DEF EventInv
  <2>1. Logged(e, event) = 0
    BY DEF Init, Logged
  <2> QED
    BY <2>1, InsertingFinite
<1>2. TypeOK /\ Placed /\ EventInv /\ [Next]_vars =>
        (TypeOK /\ Placed /\ EventInv)'
  BY NextTypeOK, NextPlaced, NextEventInv
<1>3. TypeOK /\ EventInv => EventsBounded
  <2> SUFFICES ASSUME TypeOK, EventInv, NEW e \in Envelopes
               PROVE  /\ env[e].viewed <= Cardinality(Workers)
                      /\ env[e].delivered <= Cardinality(Workers)
    BY DEF EventsBounded
  <2>1. /\ env[e].viewed + Cardinality(Inserting(e, "view"))
             <= Cardinality(Workers)
        /\ env[e].delivered + Cardinality(Inserting(e, "copy"))
             <= Cardinality(Workers)
    BY DEF EventInv, Logged
  <2>2. env[e].viewed \in Nat /\ env[e].delivered \in Nat
    BY DEF TypeOK, Agreement
  <2> QED
    BY <2>1, <2>2, InsertingFinite
<1> QED
  BY <1>1, <1>2, <1>3, PTL DEF Spec

-----------------------------------------------------------------------------
(* The email code                                                          *)

\* The requests that have compared their code and not cleared it yet.
Spending(w, e) == job[w].phase = "spend" /\ job[w].env = e

\* Codes are accepted of those issued; and until two requests have been
\* between comparing a code and clearing it together, the code on record, and
\* every code about to be accepted, has not been accepted before.
CodeRead(e) ==
  /\ otp[e].code <= otp[e].issued
  /\ \A c \in otp[e].spent : c <= otp[e].issued
  /\ \A w \in Workers : Spending(w, e) =>
       job[w].code # 0 /\ job[w].code <= otp[e].issued
  /\ ~otp[e].raced =>
       /\ ~otp[e].twice
       /\ 0 \notin otp[e].spent
       /\ otp[e].code \notin otp[e].spent
       /\ \A w \in Workers : Spending(w, e) => job[w].code \notin otp[e].spent
       /\ \A v, w \in Workers :
            Spending(v, e) /\ Spending(w, e) /\ job[v].code = job[w].code =>
              v = w

\* With TypeOK and Placed it is inductive.
CodeInv == \A e \in Envelopes : CodeRead(e)

LEMMA NextCodeInv == TypeOK /\ Placed /\ CodeInv /\ [Next]_vars => CodeInv'
<1> SUFFICES ASSUME TypeOK, Placed, CodeInv, [Next]_vars, NEW e \in Envelopes
             PROVE  CodeRead(e)'
  BY DEF CodeInv
<1> DEFINE o == otp[e]
           p == otp'[e]
           Same(v) == job'[v].phase = "spend" => job'[v] = job[v]
           Kept == /\ p.code \in {0, o.code} /\ p.issued = o.issued
                   /\ p.spent = o.spent /\ p.twice = o.twice
                   /\ p.raced = o.raced
<1>0. CodeRead(e)
  BY DEF CodeInv
<1>t. /\ o.code \in Nat /\ o.issued \in Nat /\ o.spent \subseteq Nat
      /\ o.issued + 1 \in Nat /\ o.issued < o.issued + 1
      /\ \A w \in Workers : job[w].code \in Int
  <2>1. o \in EmailCode
    BY DEF TypeOK
  <2>2. o.code \in Nat /\ o.issued \in Nat /\ o.spent \subseteq Nat
    BY <2>1 DEF EmailCode
  <2>3. \A w \in Workers : job[w].code \in Int
    BY DEF TypeOK, Job
  <2> QED
    BY <2>2, <2>3
<1>a. ASSUME Kept, \A v \in Workers : Same(v) PROVE CodeRead(e)'
  <2>1. \A v \in Workers :
          Spending(v, e)' => Spending(v, e) /\ job'[v].code = job[v].code
    BY <1>a DEF Spending
  <2>2. p.code <= p.issued
    BY <1>0, <1>a, <1>t DEF CodeRead
  <2> QED
    BY <1>0, <1>a, <2>1, <2>2 DEF CodeRead
<1>k. otp' = otp \/ CodesKept => Kept
  BY DEF CodesKept
<1>1. CASE UNCHANGED vars
  BY <1>1, <1>a, <1>k DEF vars
<1>2. ASSUME NEW w \in Workers, Request(w) PROVE CodeRead(e)'
  <2>1. /\ \A v \in Workers : v # w => job'[v] = job[v]
        /\ job'[w].phase # "spend" /\ otp' = otp
    BY <1>2, RequestJob DEF Arrives
  <2> QED
    BY <1>a, <1>k, <2>1
<1>3. ASSUME NEW w \in Workers, Step(w) PROVE CodeRead(e)'
  <2>1. /\ \A v \in Workers : v # w => job'[v] = job[v]
        /\ job[w].phase # "idle"
        /\ \/ job'[w] = NoJob
           \/ Flow(job[w].kind, job[w].phase, job'[w].phase) /\ Reads(w)
    BY <1>3, StepJob
  <2>2. job[w].env \in Envelopes
    BY <2>1 DEF Placed
  <2>3. job'[w].phase = "spend" => job[w].phase = "compare"
    BY <2>1, NoJobType DEF Flow
  <2>4. CASE CodesKept /\ job[w].phase # "compare"
    BY <1>a, <1>k, <2>1, <2>3, <2>4
  <2>5. CASE WriteCode(w)
    <3>1. job[w].phase = "write"
      BY <2>5 DEF WriteCode, At
    <3>2. \A v \in Workers : Same(v)
      BY <2>1, <2>3, <3>1
    <3>3. CASE job[w].env # e
      <4>1. p = o
        BY <2>5, <3>3, WriteCodeRow
      <4> QED
        BY <1>a, <3>2, <4>1
    <3>4. CASE job[w].env = e
      <4>1. /\ p.code = o.issued + 1 /\ p.issued = o.issued + 1
            /\ p.spent = o.spent /\ p.twice = o.twice /\ p.raced = o.raced
        BY <2>5, <3>4, WriteCodeRow
      <4>2. \A v \in Workers :
              Spending(v, e)' => Spending(v, e) /\ job'[v].code = job[v].code
        BY <3>2 DEF Spending
      <4>3. p.code <= p.issued /\ p.code \notin o.spent
        BY <1>0, <1>t, <4>1 DEF CodeRead
      <4>4. \A c \in p.spent : c <= p.issued
        BY <1>0, <1>t, <4>1 DEF CodeRead
      <4>5. \A v \in Workers : Spending(v, e)' =>
              job'[v].code # 0 /\ job'[v].code <= p.issued
        BY <1>0, <1>t, <4>1, <4>2 DEF CodeRead
      <4> QED
        BY <1>0, <4>1, <4>2, <4>3, <4>4, <4>5 DEF CodeRead
    <3> QED
      BY <3>3, <3>4
  <2>6. CASE Compare(w)
    <3>1. CASE job[w].env # e
      <4>1. p = o
        BY <2>6, <3>1, CompareRow
      <4>2. \A v \in Workers :
              Spending(v, e)' => Spending(v, e) /\ job'[v].code = job[v].code
        BY <2>1, <3>1, NoJobType DEF Spending, Reads
      <4> QED
        BY <1>0, <4>1, <4>2 DEF CodeRead
    <3>2. CASE job[w].env = e
      <4>1. /\ p.code = o.code /\ p.issued = o.issued /\ p.spent = o.spent
            /\ p.twice = o.twice
            /\ p.raced <=> o.raced \/ (Right(w) /\ Rival(w))
        BY <2>6, <3>2, CompareRow
      <4>2. Spending(w, e)' => Right(w) /\ job'[w].code = job[w].code
        <5>1. job'[w].phase = "spend" => Right(w)
          BY <2>6, GotoJob DEF Compare, Right, Phases
        <5>2. job[w].phase = "compare"
          BY <2>6 DEF Compare, At
        <5>3. job'[w].phase = "spend" => job'[w].code = job[w].code
          BY <2>1, <5>2, NoJobType DEF Reads
        <5> QED
          BY <5>1, <5>3 DEF Spending
      <4>3. \A v \in Workers \ {w} :
              /\ Spending(v, e)' <=> Spending(v, e)
              /\ job'[v].code = job[v].code
        BY <2>1 DEF Spending
      <4>4. Spending(w, e)' => job'[w].code # 0 /\ job'[w].code = o.code
        BY <3>2, <4>2 DEF Right
      <4>5. ~p.raced /\ Spending(w, e)' =>
              \A v \in Workers \ {w} :
                ~(Spending(v, e) /\ job[v].code = job[w].code)
        BY <3>2, <4>1, <4>2 DEF Rival, Spending, At
      <4>6. \A v \in Workers : Spending(v, e)' =>
              job'[v].code # 0 /\ job'[v].code <= p.issued
        BY <1>0, <4>1, <4>3, <4>4 DEF CodeRead
      <4>7. ~p.raced => \A v \in Workers :
              Spending(v, e)' => job'[v].code \notin p.spent
        BY <1>0, <4>1, <4>3, <4>4 DEF CodeRead
      <4>8. ~p.raced => \A u, v \in Workers :
              Spending(u, e)' /\ Spending(v, e)' /\ job'[u].code = job'[v].code
                => u = v
        BY <1>0, <4>1, <4>2, <4>3, <4>5 DEF CodeRead
      <4> QED
        BY <1>0, <4>1, <4>6, <4>7, <4>8 DEF CodeRead
    <3> QED
      BY <3>1, <3>2
  <2>7. CASE Spend(w)
    <3>0. job[w].phase = "spend"
      BY <2>7 DEF Spend, At
    <3>1. \A v \in Workers : Same(v)
      BY <2>1, <2>3, <3>0
    <3>2. CASE job[w].env # e
      <4>1. p = o
        BY <2>7, <3>2, SpendRow
      <4> QED
        BY <1>a, <3>1, <4>1
    <3>3. CASE job[w].env = e
      <4>1. /\ p.code = 0 /\ p.issued = o.issued
            /\ p.spent = o.spent \cup {job[w].code}
            /\ p.twice <=> o.twice \/ job[w].code \in o.spent
            /\ p.raced = o.raced
        BY <2>7, <3>3, SpendRow
      <4>2. Spending(w, e)
        BY <3>0, <3>3 DEF Spending
      <4>3. \A v \in Workers : Spending(v, e)' =>
              v # w /\ Spending(v, e) /\ job'[v].code = job[v].code
        BY <2>1, <2>3, <3>0 DEF Spending
      <4>4. job[w].code # 0 /\ job[w].code <= o.issued
        BY <1>0, <4>2 DEF CodeRead
      <4>5. \A c \in p.spent : c <= p.issued
        BY <1>0, <4>1, <4>4 DEF CodeRead
      <4>6. p.code <= p.issued
        BY <1>t, <4>1
      <4>7. ~p.raced => ~p.twice /\ 0 \notin p.spent
        BY <1>0, <4>1, <4>2, <4>4 DEF CodeRead
      <4>8. ~p.raced => \A v \in Workers :
              Spending(v, e)' => job'[v].code \notin p.spent
        BY <1>0, <4>1, <4>2, <4>3 DEF CodeRead
      <4> QED
        BY <1>0, <4>1, <4>3, <4>5, <4>6, <4>7, <4>8 DEF CodeRead
    <3> QED
      BY <3>2, <3>3
  <2>8. CodesKept => job[w].phase # "compare" \/ Compare(w)
    BY <1>3
    DEF Step, At, Bump, AskLimit, WriteCode, MailCode, MailFails, Unwrite,
        MarkSent, AskFresh, Spend, RecordCode, Unmark, ReadEpoch, ReadLock,
        Mint, AnswerRight, AnswerRefused, MarkPassed, AskEvent, LogEvent
  <2> QED
    BY <1>3, <2>4, <2>5, <2>6, <2>7, <2>8, StepWrites
<1>4. ASSUME NEW w \in Workers, Crash(w) PROVE CodeRead(e)'
  BY <1>4, <1>a, <1>k, CrashJob, NoJobType
<1>5. ASSUME NEW d \in Envelopes, Complete(d) \/ Void(d)
      PROVE  CodeRead(e)'
  BY <1>5, <1>a, <1>k DEF Complete, Void
<1>6. ASSUME NEW d \in Envelopes, CodeLapses(d) \/ LimitLapses(d)
      PROVE  CodeRead(e)'
  <2>1. CodesKept /\ job' = job
    BY <1>6, LapseRow DEF CodeLapses, LimitLapses
  <2> QED
    BY <1>a, <1>k, <2>1
<1> QED
  BY <1>1, <1>2, <1>3, <1>4, <1>5, <1>6 DEF Next

\* A code opens one session, unless two requests were between comparing it
\* and clearing it together.
THEOREM CodeAlwaysSpentOnce == Spec => []CodeSpentOnce
<1>1. Init => TypeOK /\ Placed /\ CodeInv
  BY InitTypeOK, InitPlaced
  DEF Init, CodeInv, CodeRead, Spending, NoJob
<1>2. TypeOK /\ Placed /\ CodeInv /\ [Next]_vars =>
        (TypeOK /\ Placed /\ CodeInv)'
  BY NextTypeOK, NextPlaced, NextCodeInv
<1>3. CodeInv => CodeSpentOnce
  BY DEF CodeInv, CodeRead, CodeSpentOnce
<1> QED
  BY <1>1, <1>2, <1>3, PTL DEF Spec

=============================================================================
