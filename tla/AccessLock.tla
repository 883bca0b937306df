----------------------------- MODULE AccessLock -----------------------------
(***************************************************************************)
(* The sender's access lock of ONE signer: verify_challenge() of           *)
(* sign/esign_access.py, reached from the signing page and from the        *)
(* envelope page, by several clients at once.                              *)
(*                                                                         *)
(* The lock is asked before a slow key derivation and written after it, so *)
(* requests that are past the question are not stopped by a lock that is   *)
(* set meanwhile.                                                          *)
(*                                                                         *)
(* An operator named Op_Variant is Op with a plausible bug in it: the      *)
(* properties are tested against it, and no specification uses it.         *)
(***************************************************************************)
EXTENDS AuthLimits, FiniteSets

CONSTANTS
  Addresses,   \* client addresses
  Workers,     \* request threads
  FailLimit,   \* wrong answers of one address before it is locked out
  RateLimit,   \* answers to this signer's challenge in one window
  MaxAnswers,  \* bound: requests
  MaxLapses,   \* bound: locks that run out, and windows that end
  MaxFaults    \* bound: crashes

ASSUME AccessLockAssumption ==
  /\ Addresses # {}
  /\ IsFiniteSet(Workers)
  /\ FailLimit \in Nat \ {0}
  /\ RateLimit \in Nat
  /\ MaxAnswers \in Nat
  /\ MaxLapses \in Nat
  /\ MaxFaults \in Nat

VARIABLES
  limit,    \* auth_limits, one row for each address
  rate,     \* the auth_rate_limits row of the signer
  passed,   \* challenge_passed_at IS NOT NULL
  job,      \* what each worker is doing
  wrong,    \* wrong answers compared for each address since its count last
            \* started afresh; those still to be recorded then carry over
  answers, lapses, faults

vars ==
  <<limit, rate, passed, job, wrong, answers, lapses, faults>>

Phases == {"idle", "rate", "compare", "record", "audit"}

Job == [phase : Phases, from : Addresses, right : BOOLEAN]

TypeOK ==
  /\ limit \in [Addresses -> LimitRow]
  /\ rate \in RateRow
  /\ passed \in BOOLEAN
  /\ job \in [Workers -> Job]
  /\ wrong \in [Addresses -> Nat]
  /\ answers \in Nat
  /\ lapses \in Nat
  /\ faults \in Nat

Init ==
  /\ limit = [a \in Addresses |-> NoLimit]
  /\ rate = NoRate
  /\ passed = FALSE
  /\ job = [w \in Workers |-> [phase |-> "idle", right |-> FALSE,
                               from |-> CHOOSE a \in Addresses : TRUE]]
  /\ wrong = [a \in Addresses |-> 0]
  /\ answers = 0
  /\ lapses = 0
  /\ faults = 0

-----------------------------------------------------------------------------
At(w, phase) == job[w].phase = phase
Goto(w, phase) == job' = [job EXCEPT ![w].phase = phase]

\* Wrong answers of a that have been compared and not been recorded.
Unrecorded(a) ==
  {w \in Workers : At(w, "record") /\ job[w].from = a /\ ~job[w].right}

AskLock_Never(w, a, right) ==
  /\ At(w, "idle")
  /\ answers < MaxAnswers
  /\ answers' = answers + 1
  /\ job' = [job EXCEPT ![w] = [phase |-> "rate", from |-> a, right |-> right]]
  /\ UNCHANGED <<limit, rate, passed, wrong, lapses, faults>>

\* A request from a.  If a is locked out it is answered at once.
AskLock(w, a, right) ==
  /\ At(w, "idle")
  /\ answers < MaxAnswers
  /\ answers' = answers + 1
  /\ ~limit[a].locked
  /\ job' = [job EXCEPT ![w] = [phase |-> "rate", from |-> a, right |-> right]]
  /\ UNCHANGED <<limit, rate, passed, wrong, lapses, faults>>

\* The window of this signer, over all addresses.
AskRate(w) ==
  /\ At(w, "rate")
  /\ rate' = Counted(rate)
  /\ Goto(w, IF Allowed(rate, RateLimit) THEN "compare" ELSE "idle")
  /\ UNCHANGED <<limit, passed, wrong, answers, lapses, faults>>

\* The key derivation and the comparison.
Compare(w) ==
  /\ At(w, "compare")
  /\ wrong' = [wrong EXCEPT ![job[w].from] = IF job[w].right THEN @ ELSE @ + 1]
  /\ Goto(w, "record")
  /\ UNCHANGED <<limit, rate, passed, answers, lapses, faults>>

RecordedRow_SameRow(w, a) == Recorded(limit[a], job[w].right, FailLimit)

\* The row of address a once worker w has recorded its outcome.
RecordedRow(w, a) ==
  IF a = job[w].from THEN Recorded(limit[a], job[w].right, FailLimit)
                     ELSE limit[a]

Record(w) ==
  LET a == job[w].from IN
  /\ At(w, "record")
  /\ limit' = [b \in Addresses |-> RecordedRow(w, b)]
  /\ wrong' = IF job[w].right
              THEN [wrong EXCEPT ![a] = Cardinality(Unrecorded(a))]
              ELSE wrong
  /\ Goto(w, "audit")
  /\ UNCHANGED <<rate, passed, answers, lapses, faults>>

\* The mark of a pass.  The audit event of the outcome is in the same
\* transaction and is left out.
Audit(w) ==
  /\ At(w, "audit")
  /\ passed' = (passed \/ job[w].right)
  /\ Goto(w, "idle")
  /\ UNCHANGED <<limit, rate, wrong, answers, lapses, faults>>

-----------------------------------------------------------------------------
\* lock_seconds after the lock was set.
LockLapses(a) ==
  /\ limit[a].locked
  /\ lapses < MaxLapses
  /\ lapses' = lapses + 1
  /\ limit' = [limit EXCEPT ![a] = Lapsed(@)]
  /\ wrong' = [wrong EXCEPT ![a] = Cardinality(Unrecorded(a))]
  /\ UNCHANGED <<rate, passed, job, answers, faults>>

WindowEnds ==
  /\ rate.count > 0
  /\ ~rate.over
  /\ lapses < MaxLapses
  /\ lapses' = lapses + 1
  /\ rate' = [rate EXCEPT !.over = TRUE]
  /\ UNCHANGED <<limit, passed, job, wrong, answers, faults>>

Crash(w) ==
  /\ ~At(w, "idle")
  /\ faults < MaxFaults
  /\ faults' = faults + 1
  /\ Goto(w, "idle")
  /\ wrong' = IF w \in Unrecorded(job[w].from)
              THEN [wrong EXCEPT ![job[w].from] = @ - 1] ELSE wrong
  /\ UNCHANGED <<limit, rate, passed, answers, lapses>>

-----------------------------------------------------------------------------
Step(w) == AskRate(w) \/ Compare(w) \/ Record(w) \/ Audit(w)

Next ==
  \/ \E w \in Workers, a \in Addresses, right \in BOOLEAN :
       AskLock(w, a, right)
  \/ \E w \in Workers : Step(w) \/ Crash(w)
  \/ \E a \in Addresses : LockLapses(a)
  \/ WindowEnds

Spec == Init /\ [][Next]_vars

-----------------------------------------------------------------------------
(* Properties                                                              *)

\* The number of wrong answers that are compared for one address before its
\* lock runs out is at most FailLimit plus the other requests that can be
\* in flight when the lock is set (L-27: "approximately 5 + (in-flight
\* concurrency)").
GuessesBounded ==
  \A a \in Addresses :
    wrong[a] <= FailLimit + (Cardinality(Workers) - 1)

\* An address is locked out by its own wrong answers and by no others, so
\* one client cannot lock out the signer (CHAL-3, sec-review M3).
LockedByOwnAnswers ==
  \A a \in Addresses : limit[a].locked => wrong[a] >= FailLimit

\* Wrong answers do lead to the lock: while an address may answer, fewer
\* than FailLimit of its wrong answers have been recorded.
LockedInTime ==
  \A a \in Addresses :
    ~limit[a].locked =>
      /\ limit[a].fails < FailLimit
      /\ wrong[a] = limit[a].fails + Cardinality(Unrecorded(a))

=============================================================================
