-------------------------- MODULE AccessLockProofs --------------------------
(***************************************************************************)
(* Theorems about AccessLock: how many guesses get past the lock, and whom *)
(* it locks out, for any number of addresses and requests in flight.       *)
(*                                                                         *)
(* Both are counting arguments over the requests in flight from an         *)
(* address: the ones that may still compare an answer, and the ones that   *)
(* have compared a wrong one and not recorded it.                          *)
(***************************************************************************)
EXTENDS AccessLock, FiniteSetTheorems, TLAPS

\* Requests from a that have got past the lock and compared nothing yet.
Pending(a) ==
  {w \in Workers : (At(w, "rate") \/ At(w, "compare")) /\ job[w].from = a}

\* While a is not locked, every wrong answer is recorded or about to be.
\* The lock starts with FailLimit recorded, and from then on no request gets
\* past it: what is compared later was pending before.
CountInv(a) ==
  /\ ~limit[a].locked =>
       /\ limit[a].fails < FailLimit
       /\ wrong[a] = limit[a].fails + Cardinality(Unrecorded(a))
  /\ limit[a].locked =>
       /\ limit[a].fails = 0
       /\ wrong[a] >= FailLimit + Cardinality(Unrecorded(a))
       /\ wrong[a] + Cardinality(Pending(a))
            <= FailLimit + (Cardinality(Workers) - 1)

LockInv == TypeOK /\ \A a \in Addresses : CountInv(a)

-----------------------------------------------------------------------------
(* Counting                                                                *)

\* A set that only w enters or leaves.
LEMMA OneMoves ==
  ASSUME NEW S, IsFiniteSet(S), NEW T, NEW w,
         \A v : v # w => (v \in T <=> v \in S)
  PROVE  /\ Cardinality(S) \in Nat
         /\ Cardinality(T) \in Nat
         /\ (w \in S <=> w \in T) => Cardinality(T) = Cardinality(S)
         /\ w \in S /\ w \notin T => Cardinality(T) = Cardinality(S) - 1
         /\ w \notin S /\ w \in T => Cardinality(T) = Cardinality(S) + 1
<1>1. CASE w \in S <=> w \in T
  <2>1. T = S
    BY <1>1
  <2> QED
    BY <1>1, <2>1, FS_CardinalityType
<1>2. CASE w \in S /\ w \notin T
  <2>1. T = S \ {w}
    BY <1>2
  <2>2. IsFiniteSet(T) /\ Cardinality(T) = Cardinality(S) - 1
    BY <1>2, <2>1, FS_RemoveElement
  <2> QED
    BY <1>2, <2>2, FS_CardinalityType
<1>3. CASE w \notin S /\ w \in T
  <2>1. T = S \cup {w}
    BY <1>3
  <2>2. IsFiniteSet(T) /\ Cardinality(T) = Cardinality(S) + 1
    BY <1>3, <2>1, FS_AddElement
  <2> QED
    BY <1>3, <2>2, FS_CardinalityType
<1> QED
  BY <1>1, <1>2, <1>3

LEMMA InFlight ==
  ASSUME NEW a
  PROVE  /\ IsFiniteSet(Unrecorded(a))
         /\ IsFiniteSet(Pending(a))
         /\ Cardinality(Workers) \in Nat
         /\ Cardinality(Unrecorded(a)) \in Nat
         /\ Cardinality(Pending(a)) \in Nat
         /\ Cardinality(Unrecorded(a)) + Cardinality(Pending(a))
              <= Cardinality(Workers)
<1>1. IsFiniteSet(Workers)
  BY AccessLockAssumption
<1>2. IsFiniteSet(Unrecorded(a)) /\ IsFiniteSet(Pending(a))
  BY <1>1, FS_Subset DEF Unrecorded, Pending
<1>3. Unrecorded(a) \cap Pending(a) = {}
  BY DEF Unrecorded, Pending, At
<1>4. Unrecorded(a) \cup Pending(a) \in SUBSET Workers
  BY DEF Unrecorded, Pending
<1>5. Cardinality(Unrecorded(a) \cup Pending(a)) <= Cardinality(Workers)
  BY <1>1, <1>4, FS_Subset
<1>6. Cardinality(Unrecorded(a) \cup Pending(a))
        = Cardinality(Unrecorded(a)) + Cardinality(Pending(a))
  <2>1. /\ Cardinality(Unrecorded(a)) \in Nat
        /\ Cardinality(Pending(a)) \in Nat
    BY <1>2, FS_CardinalityType
  <2>2. Cardinality(Unrecorded(a) \cap Pending(a)) = 0
    BY <1>3, FS_EmptySet
  <2>3. Cardinality(Unrecorded(a) \cup Pending(a))
          = Cardinality(Unrecorded(a)) + Cardinality(Pending(a))
              - Cardinality(Unrecorded(a) \cap Pending(a))
    BY <1>2, FS_Union
  <2> QED
    BY <2>1, <2>2, <2>3
<1> QED
  BY <1>1, <1>2, <1>5, <1>6, FS_CardinalityType

\* What worker w is to the counts of address a.
Guess(w, a)  == At(w, "record") /\ job[w].from = a /\ ~job[w].right
Asking(w, a) == (At(w, "rate") \/ At(w, "compare")) /\ job[w].from = a

\* The counts of a when only w moves.
LEMMA Counts ==
  ASSUME NEW w \in Workers, NEW a,
         \A v \in Workers : v # w => job'[v] = job[v]
  PROVE  /\ Cardinality(Unrecorded(a))' \in Nat
         /\ (Guess(w, a) <=> Guess(w, a)') =>
              Cardinality(Unrecorded(a))' = Cardinality(Unrecorded(a))
         /\ Guess(w, a) /\ ~Guess(w, a)' =>
              Cardinality(Unrecorded(a))' = Cardinality(Unrecorded(a)) - 1
         /\ ~Guess(w, a) /\ Guess(w, a)' =>
              Cardinality(Unrecorded(a))' = Cardinality(Unrecorded(a)) + 1
         /\ Cardinality(Pending(a))' \in Nat
         /\ (Asking(w, a) <=> Asking(w, a)') =>
              Cardinality(Pending(a))' = Cardinality(Pending(a))
         /\ Asking(w, a) /\ ~Asking(w, a)' =>
              Cardinality(Pending(a))' = Cardinality(Pending(a)) - 1
         /\ ~Asking(w, a) /\ Asking(w, a)' =>
              Cardinality(Pending(a))' = Cardinality(Pending(a)) + 1
<1>1. IsFiniteSet(Unrecorded(a)) /\ IsFiniteSet(Pending(a))
  BY InFlight
<1>2. /\ \A v : v # w => (v \in Unrecorded(a)' <=> v \in Unrecorded(a))
      /\ \A v : v # w => (v \in Pending(a)' <=> v \in Pending(a))
  BY DEF Unrecorded, Pending, At
<1>3. /\ w \in Unrecorded(a) <=> Guess(w, a)
      /\ w \in Unrecorded(a)' <=> Guess(w, a)'
      /\ w \in Pending(a) <=> Asking(w, a)
      /\ w \in Pending(a)' <=> Asking(w, a)'
  BY DEF Unrecorded, Pending, Guess, Asking, At
<1>4. /\ Cardinality(Unrecorded(a)') \in Nat
      /\ (Guess(w, a) <=> Guess(w, a)') =>
           Cardinality(Unrecorded(a)') = Cardinality(Unrecorded(a))
      /\ Guess(w, a) /\ ~Guess(w, a)' =>
           Cardinality(Unrecorded(a)') = Cardinality(Unrecorded(a)) - 1
      /\ ~Guess(w, a) /\ Guess(w, a)' =>
           Cardinality(Unrecorded(a)') = Cardinality(Unrecorded(a)) + 1
  BY <1>1, <1>2, <1>3, OneMoves
<1>5. /\ Cardinality(Pending(a)') \in Nat
      /\ (Asking(w, a) <=> Asking(w, a)') =>
           Cardinality(Pending(a)') = Cardinality(Pending(a))
      /\ Asking(w, a) /\ ~Asking(w, a)' =>
           Cardinality(Pending(a)') = Cardinality(Pending(a)) - 1
      /\ ~Asking(w, a) /\ Asking(w, a)' =>
           Cardinality(Pending(a)') = Cardinality(Pending(a)) + 1
  BY <1>1, <1>2, <1>3, OneMoves
<1> QED
  BY <1>4, <1>5

-----------------------------------------------------------------------------
(* The invariant                                                           *)

LEMMA LimitRows ==
  /\ NoLimit \in LimitRow
  /\ [fails |-> 0, locked |-> TRUE] \in LimitRow
  /\ NoRate \in RateRow
  /\ \A row \in LimitRow : Lapsed(row) \in LimitRow
  /\ \A row \in RateRow : Counted(row) \in RateRow
<1>1. NoLimit \in LimitRow /\ [fails |-> 0, locked |-> TRUE] \in LimitRow
  BY DEF NoLimit, LimitRow
<1>2. NoRate \in RateRow
  BY DEF NoRate, RateRow
<1>3. ASSUME NEW row \in LimitRow
      PROVE  Lapsed(row) \in LimitRow
  BY DEF Lapsed, LimitRow
<1>4. ASSUME NEW row \in RateRow
      PROVE  Counted(row) \in RateRow
  BY DEF Counted, RateRow
<1> QED
  BY <1>1, <1>2, <1>3, <1>4

\* auth_limit_record() on one row, case by case.
LEMMA RecordedCases ==
  ASSUME NEW row \in LimitRow
  PROVE  /\ Recorded(row, TRUE, FailLimit) = NoLimit
         /\ row.locked => Recorded(row, FALSE, FailLimit) = row
         /\ ~row.locked /\ row.fails + 1 >= FailLimit =>
              Recorded(row, FALSE, FailLimit) = [fails |-> 0, locked |-> TRUE]
         /\ ~row.locked /\ row.fails + 1 < FailLimit =>
              Recorded(row, FALSE, FailLimit) =
                [row EXCEPT !.fails = row.fails + 1]
         /\ \A ok \in BOOLEAN : Recorded(row, ok, FailLimit) \in LimitRow
<1>0. row.fails \in Nat /\ row.locked \in BOOLEAN /\ FailLimit \in Nat
  BY AccessLockAssumption DEF LimitRow
<1>1. Recorded(row, TRUE, FailLimit) = NoLimit
  BY DEF Recorded
<1>2. row.locked => Recorded(row, FALSE, FailLimit) = row
  BY DEF Recorded
<1>3. ~row.locked /\ row.fails + 1 >= FailLimit =>
        Recorded(row, FALSE, FailLimit) = [fails |-> 0, locked |-> TRUE]
  BY <1>0 DEF Recorded
<1>4. ~row.locked /\ row.fails + 1 < FailLimit =>
        Recorded(row, FALSE, FailLimit) = [row EXCEPT !.fails = row.fails + 1]
  BY <1>0 DEF Recorded
<1>5. row.fails + 1 >= FailLimit \/ row.fails + 1 < FailLimit
  BY <1>0
<1>6. [row EXCEPT !.fails = row.fails + 1] \in LimitRow
  BY <1>0 DEF LimitRow
<1>7. Recorded(row, TRUE, FailLimit) \in LimitRow
  BY <1>1, LimitRows, Zenon
<1>8. Recorded(row, FALSE, FailLimit) \in LimitRow
  BY <1>2, <1>3, <1>4, <1>5, <1>6, LimitRows, Zenon
<1> QED
  BY <1>1, <1>2, <1>3, <1>4, <1>7, <1>8, Zenon

LEMMA InitLock == Init => LockInv
<1> SUFFICES ASSUME Init PROVE LockInv
  OBVIOUS
<1>1. TypeOK
  BY AccessLockAssumption, LimitRows DEF Init, TypeOK, Job, Phases
<1>2. ASSUME NEW a \in Addresses
      PROVE  CountInv(a)
  <2>1. Unrecorded(a) = {}
    BY DEF Init, Unrecorded, At
  <2>2. Cardinality(Unrecorded(a)) = 0
    BY <2>1, FS_EmptySet
  <2> QED
    BY <2>2, AccessLockAssumption DEF Init, CountInv, NoLimit
<1> QED
  BY <1>1, <1>2 DEF LockInv

\* A worker moves to a phase, and no other worker does anything.
LEMMA GotoJob ==
  ASSUME TypeOK, NEW w \in Workers, NEW p \in Phases, Goto(w, p)
  PROVE  /\ job' \in [Workers -> Job]
         /\ job'[w].phase = p
         /\ job'[w].from = job[w].from
         /\ job'[w].right = job[w].right
         /\ \A v \in Workers : v # w => job'[v] = job[v]
  BY DEF TypeOK, Goto, Job

\* An address about which nothing is decided.
LEMMA CountKept ==
  ASSUME LockInv, NEW a \in Addresses,
         limit'[a] = limit[a], wrong'[a] = wrong[a],
         Cardinality(Unrecorded(a))' = Cardinality(Unrecorded(a)),
         Cardinality(Pending(a))' \in Nat,
         limit[a].locked =>
           Cardinality(Pending(a))' <= Cardinality(Pending(a))
  PROVE  CountInv(a)'
<1>1. /\ Cardinality(Workers) \in Nat
      /\ Cardinality(Pending(a)) \in Nat
  BY InFlight
<1>2. wrong[a] \in Nat /\ FailLimit \in Nat
  BY AccessLockAssumption DEF LockInv, TypeOK
<1> QED
  BY <1>1, <1>2 DEF LockInv, CountInv

LEMMA AskLockKeeps ==
  ASSUME LockInv, NEW w \in Workers, NEW a \in Addresses,
         NEW right \in BOOLEAN, AskLock(w, a, right)
  PROVE  LockInv'
<1>1. /\ job' \in [Workers -> Job]
      /\ job'[w] = [phase |-> "rate", from |-> a, right |-> right]
      /\ \A v \in Workers : v # w => job'[v] = job[v]
  BY DEF AskLock, LockInv, TypeOK, Job, Phases
<1>2. TypeOK'
  BY <1>1 DEF AskLock, LockInv, TypeOK
<1>3. ASSUME NEW b \in Addresses
      PROVE  CountInv(b)'
  <2>1. ~Guess(w, b) /\ ~Guess(w, b)' /\ ~Asking(w, b)
    BY <1>1 DEF AskLock, Guess, Asking, At
  <2>2. Cardinality(Unrecorded(b))' = Cardinality(Unrecorded(b))
    BY <1>1, <2>1, Counts
  <2>3. Cardinality(Pending(b))' \in Nat
    BY <1>1, Counts
  <2>4. limit[b].locked => ~Asking(w, b)'
    BY <1>1 DEF AskLock, Asking, At
  <2>5. limit[b].locked =>
          Cardinality(Pending(b))' = Cardinality(Pending(b))
    BY <1>1, <2>1, <2>4, Counts
  <2>6. Cardinality(Pending(b)) \in Nat
    BY InFlight
  <2>7. limit'[b] = limit[b] /\ wrong'[b] = wrong[b]
    BY DEF AskLock
  <2> QED
    BY <2>2, <2>3, <2>5, <2>6, <2>7, CountKept
<1> QED
  BY <1>2, <1>3 DEF LockInv

\* Steps that compare and record nothing: AskRate and Audit.
LEMMA QuietKeeps ==
  ASSUME LockInv, NEW w \in Workers, NEW p \in {"compare", "idle"},
         Goto(w, p), ~At(w, "record"), p = "compare" => At(w, "rate"),
         rate' \in RateRow, passed' \in BOOLEAN,
         UNCHANGED <<limit, wrong, answers, lapses, faults>>
  PROVE  LockInv'
<1>1. /\ job' \in [Workers -> Job]
      /\ job'[w].phase = p
      /\ job'[w].from = job[w].from
      /\ \A v \in Workers : v # w => job'[v] = job[v]
  BY GotoJob DEF LockInv, Phases
<1>2. TypeOK'
  BY <1>1 DEF LockInv, TypeOK
<1>3. ASSUME NEW b \in Addresses
      PROVE  CountInv(b)'
  <2>1. ~Guess(w, b) /\ ~Guess(w, b)'
    BY <1>1 DEF Guess, At
  <2>2. Asking(w, b)' => Asking(w, b)
    BY <1>1 DEF Asking, At
  <2>3. Cardinality(Unrecorded(b))' = Cardinality(Unrecorded(b))
    BY <1>1, <2>1, Counts
  <2>4. /\ Cardinality(Pending(b)) \in Nat
        /\ Cardinality(Pending(b))' \in Nat
    BY <1>1, InFlight, Counts
  <2>5. Cardinality(Pending(b))' <= Cardinality(Pending(b))
    <3>1. \/ Cardinality(Pending(b))' = Cardinality(Pending(b))
          \/ Cardinality(Pending(b))' = Cardinality(Pending(b)) - 1
      BY <1>1, <2>2, Counts
    <3> QED
      BY <2>4, <3>1
  <2> QED
    BY <2>3, <2>4, <2>5, CountKept
<1> QED
  BY <1>2, <1>3 DEF LockInv


LEMMA CompareKeeps ==
  ASSUME LockInv, NEW w \in Workers, Compare(w)
  PROVE  LockInv'
<1>0. /\ job[w].from \in Addresses
      /\ job[w].right \in BOOLEAN
      /\ wrong \in [Addresses -> Nat]
  BY DEF LockInv, TypeOK, Job
<1>1. /\ job' \in [Workers -> Job]
      /\ job'[w].phase = "record"
      /\ job'[w].from = job[w].from
      /\ job'[w].right = job[w].right
      /\ \A v \in Workers : v # w => job'[v] = job[v]
  BY GotoJob DEF Compare, LockInv, Phases
<1>2. /\ wrong' \in [Addresses -> Nat]
      /\ \A b \in Addresses : wrong'[b] =
           IF b = job[w].from /\ ~job[w].right THEN wrong[b] + 1 ELSE wrong[b]
  BY <1>0 DEF Compare
<1>3. TypeOK'
  BY <1>1, <1>2 DEF Compare, LockInv, TypeOK
<1>4. ASSUME NEW b \in Addresses
      PROVE  CountInv(b)'
  <2>0. /\ limit'[b] = limit[b]
        /\ limit[b] \in LimitRow
        /\ wrong[b] \in Nat /\ FailLimit \in Nat
        /\ CountInv(b)
    BY AccessLockAssumption DEF Compare, LockInv, TypeOK
  <2>1. ~Guess(w, b) /\ ~Asking(w, b)'
    BY <1>1 DEF Compare, Guess, Asking, At
  <2>2. /\ Cardinality(Unrecorded(b)) \in Nat
        /\ Cardinality(Pending(b)) \in Nat
        /\ Cardinality(Workers) \in Nat
    BY InFlight
  <2>3. CASE b = job[w].from /\ ~job[w].right
    <3>1. Guess(w, b)' /\ Asking(w, b)
      BY <1>1, <2>3 DEF Compare, Guess, Asking, At
    <3>2. /\ Cardinality(Unrecorded(b))' = Cardinality(Unrecorded(b)) + 1
          /\ Cardinality(Pending(b))' = Cardinality(Pending(b)) - 1
      BY <1>1, <2>1, <3>1, Counts
    <3>3. wrong'[b] = wrong[b] + 1
      BY <1>2, <2>3
    <3>4. limit[b].fails \in Nat
      BY <2>0 DEF LimitRow
    <3> QED
      BY <2>0, <2>2, <3>2, <3>3, <3>4 DEF CountInv
  <2>4. CASE ~(b = job[w].from /\ ~job[w].right)
    <3>1. ~Guess(w, b)'
      BY <1>1, <2>4 DEF Guess
    <3>2. Cardinality(Unrecorded(b))' = Cardinality(Unrecorded(b))
      BY <1>1, <2>1, <3>1, Counts
    <3>3. \/ Cardinality(Pending(b))' = Cardinality(Pending(b))
          \/ Cardinality(Pending(b))' = Cardinality(Pending(b)) - 1
      BY <1>1, <2>1, Counts
    <3>4. Cardinality(Pending(b))' \in Nat
      BY <1>1, Counts
    <3>5. wrong'[b] = wrong[b]
      BY <1>2, <2>4
    <3> QED
      BY <2>0, <2>2, <3>2, <3>3, <3>4, <3>5, CountKept
  <2> QED
    BY <2>3, <2>4
<1> QED
  BY <1>3, <1>4 DEF LockInv

\* The one step that sets the lock: FailLimit - 1 wrong answers have been
\* recorded, and this one, the other unrecorded and the pending requests are
\* at most as many as there are workers.
LEMMA RecordKeeps ==
  ASSUME LockInv, NEW w \in Workers, Record(w)
  PROVE  LockInv'
<1>0. /\ job[w].from \in Addresses
      /\ job[w].right \in BOOLEAN
      /\ wrong \in [Addresses -> Nat]
      /\ \A b \in Addresses : limit[b] \in LimitRow
  BY DEF LockInv, TypeOK, Job
<1>1. /\ job' \in [Workers -> Job]
      /\ job'[w].phase = "audit"
      /\ job'[w].from = job[w].from
      /\ job'[w].right = job[w].right
      /\ \A v \in Workers : v # w => job'[v] = job[v]
  BY GotoJob DEF Record, LockInv, Phases
<1>2. /\ wrong' \in [Addresses -> Nat]
      /\ \A b \in Addresses : wrong'[b] =
           IF b = job[w].from /\ job[w].right
           THEN Cardinality(Unrecorded(b)) ELSE wrong[b]
  BY <1>0, InFlight DEF Record
<1>3. /\ limit' \in [Addresses -> LimitRow]
      /\ \A b \in Addresses : limit'[b] =
           IF b = job[w].from THEN Recorded(limit[b], job[w].right, FailLimit)
                              ELSE limit[b]
  <2>1. \A b \in Addresses : RecordedRow(w, b) \in LimitRow
    BY <1>0, RecordedCases DEF RecordedRow
  <2> QED
    BY <2>1 DEF Record, RecordedRow
<1>4. TypeOK'
  BY <1>1, <1>2, <1>3 DEF Record, LockInv, TypeOK
<1>5. ASSUME NEW b \in Addresses
      PROVE  CountInv(b)'
  <2>0. /\ limit[b].fails \in Nat
        /\ limit[b].locked \in BOOLEAN
        /\ wrong[b] \in Nat
        /\ FailLimit \in Nat \ {0}
        /\ CountInv(b)
    BY <1>0, AccessLockAssumption DEF LockInv, LimitRow
  <2>1. ~Asking(w, b) /\ ~Asking(w, b)' /\ ~Guess(w, b)'
    BY <1>1 DEF Record, Asking, Guess, At
  <2>2. /\ Cardinality(Unrecorded(b)) \in Nat
        /\ Cardinality(Unrecorded(b))' \in Nat
        /\ Cardinality(Pending(b)) \in Nat
        /\ Cardinality(Workers) \in Nat
        /\ Cardinality(Unrecorded(b)) + Cardinality(Pending(b))
             <= Cardinality(Workers)
    BY <1>1, InFlight, Counts
  <2>3. Cardinality(Pending(b))' = Cardinality(Pending(b))
    BY <1>1, <2>1, Counts
  <2>4. CASE b # job[w].from
    <3>1. ~Guess(w, b)
      BY <2>4 DEF Guess
    <3>2. Cardinality(Unrecorded(b))' = Cardinality(Unrecorded(b))
      BY <1>1, <2>1, <3>1, Counts
    <3>3. limit'[b] = limit[b] /\ wrong'[b] = wrong[b]
      BY <1>2, <1>3, <2>4
    <3> QED
      BY <2>2, <2>3, <3>2, <3>3, CountKept
  <2>5. CASE b = job[w].from /\ job[w].right
    <3>1. ~Guess(w, b)
      BY <2>5 DEF Guess
    <3>2. Cardinality(Unrecorded(b))' = Cardinality(Unrecorded(b))
      BY <1>1, <2>1, <3>1, Counts
    <3>3. limit'[b] = Recorded(limit[b], TRUE, FailLimit)
      BY <1>0, <1>3, <2>5, Zenon
    <3>4. limit'[b] = NoLimit
      BY <1>0, <3>3, RecordedCases, Zenon
    <3>5. wrong'[b] = Cardinality(Unrecorded(b))
      BY <1>2, <2>5
    <3> QED
      BY <2>0, <2>2, <3>2, <3>4, <3>5 DEF CountInv, NoLimit
  <2>6. CASE b = job[w].from /\ ~job[w].right
    <3>1. Guess(w, b)
      BY <2>6 DEF Record, Guess
    <3>2. Cardinality(Unrecorded(b))' = Cardinality(Unrecorded(b)) - 1
      BY <1>1, <2>1, <3>1, Counts
    <3>3. limit'[b] = Recorded(limit[b], FALSE, FailLimit)
      BY <1>0, <1>3, <2>6, Zenon
    <3>4. wrong'[b] = wrong[b]
      BY <1>2, <2>6
    <3>5. CASE limit[b].locked
      <4>1. limit'[b] = limit[b]
        BY <1>0, <3>3, <3>5, RecordedCases, Zenon
      <4> QED
        BY <2>0, <2>2, <2>3, <3>2, <3>4, <3>5, <4>1 DEF CountInv
    <3>6. CASE ~limit[b].locked /\ limit[b].fails + 1 >= FailLimit
      <4>1. limit'[b] = [fails |-> 0, locked |-> TRUE]
        BY <1>0, <3>3, <3>6, RecordedCases, Zenon
      <4>2. limit'[b].fails = 0 /\ limit'[b].locked
        BY <4>1
      <4>3. wrong[b] = (FailLimit - 1) + Cardinality(Unrecorded(b))
        BY <2>0, <2>2, <3>6 DEF CountInv
      <4> QED
        BY <2>0, <2>2, <2>3, <3>2, <3>4, <4>2, <4>3 DEF CountInv
    <3>7. CASE ~limit[b].locked /\ limit[b].fails + 1 < FailLimit
      <4>1. limit'[b] = [limit[b] EXCEPT !.fails = limit[b].fails + 1]
        BY <1>0, <3>3, <3>7, RecordedCases, Zenon
      <4>2. limit'[b].fails = limit[b].fails + 1 /\ ~limit'[b].locked
        BY <1>0, <3>7, <4>1 DEF LimitRow
      <4> QED
        BY <2>0, <2>2, <3>2, <3>4, <3>7, <4>2 DEF CountInv
    <3> QED
      BY <2>0, <3>5, <3>6, <3>7
  <2> QED
    BY <1>0, <2>4, <2>5, <2>6
<1> QED
  BY <1>4, <1>5 DEF LockInv


LEMMA LapseKeeps ==
  ASSUME LockInv, NEW a \in Addresses, LockLapses(a)
  PROVE  LockInv'
<1>0. /\ limit \in [Addresses -> LimitRow]
      /\ wrong \in [Addresses -> Nat]
  BY DEF LockInv, TypeOK
<1>1. limit' = [limit EXCEPT ![a] = Lapsed(limit[a])]
  BY DEF LockLapses
<1>2. wrong' = [wrong EXCEPT ![a] = Cardinality(Unrecorded(a))]
  BY DEF LockLapses
<1>3. lapses' \in Nat
  BY DEF LockLapses, LockInv, TypeOK
<1>4. TypeOK'
  BY <1>0, <1>1, <1>2, <1>3, LimitRows, InFlight
  DEF LockLapses, LockInv, TypeOK
<1>5. ASSUME NEW b \in Addresses
      PROVE  CountInv(b)'
  <2>1. /\ Unrecorded(b)' = Unrecorded(b)
        /\ Pending(b)' = Pending(b)
    BY DEF LockLapses, Unrecorded, Pending, At
  <2>2. /\ Cardinality(Unrecorded(b)) \in Nat
        /\ Cardinality(Pending(b)) \in Nat
    BY InFlight
  <2>3. CASE b # a
    <3>1. limit'[b] = limit[b] /\ wrong'[b] = wrong[b]
      BY <1>0, <1>1, <1>2, <2>3
    <3> QED
      BY <2>1, <2>2, <3>1, CountKept
  <2>4. CASE b = a
    <3>1. limit'[b] = Lapsed(limit[b])
      BY <1>0, <1>1, <2>4
    <3>2. limit[b].locked /\ limit[b].fails = 0
      BY <2>4 DEF LockLapses, LockInv, CountInv
    <3>3. ~limit'[b].locked /\ limit'[b].fails = 0
      BY <1>0, <3>1, <3>2 DEF Lapsed, LimitRow
    <3>4. wrong'[b] = Cardinality(Unrecorded(b))
      BY <1>0, <1>2, <2>4
    <3> QED
      BY <2>1, <2>2, <3>3, <3>4, AccessLockAssumption DEF CountInv
  <2> QED
    BY <2>3, <2>4
<1> QED
  BY <1>4, <1>5 DEF LockInv

\* Nothing of an address changes: WindowEnds, and stuttering.
LEMMA OthersKeep ==
  ASSUME LockInv, UNCHANGED <<limit, passed, job, wrong, answers, faults>>,
         rate' \in RateRow, lapses' \in Nat
  PROVE  LockInv'
<1>1. TypeOK'
  BY DEF LockInv, TypeOK
<1>2. ASSUME NEW b \in Addresses
      PROVE  CountInv(b)'
  <2>1. /\ Unrecorded(b)' = Unrecorded(b)
        /\ Pending(b)' = Pending(b)
    BY DEF Unrecorded, Pending, At
  <2>2. Cardinality(Pending(b)) \in Nat
    BY InFlight
  <2> QED
    BY <2>1, <2>2, CountKept
<1> QED
  BY <1>1, <1>2 DEF LockInv

\* A wrong answer whose handler dies is forgotten.
LEMMA CrashKeeps ==
  ASSUME LockInv, NEW w \in Workers, Crash(w)
  PROVE  LockInv'
<1>0. /\ job[w].from \in Addresses
      /\ wrong \in [Addresses -> Nat]
  BY DEF LockInv, TypeOK, Job
<1>1. /\ job' \in [Workers -> Job]
      /\ job'[w].phase = "idle"
      /\ job'[w].from = job[w].from
      /\ \A v \in Workers : v # w => job'[v] = job[v]
  BY GotoJob DEF Crash, LockInv, Phases
<1>2. ASSUME NEW b \in Addresses
      PROVE  wrong'[b] = IF Guess(w, b) THEN wrong[b] - 1 ELSE wrong[b]
  BY <1>0, <1>2 DEF Crash, Unrecorded, Guess
<1>3. ASSUME NEW b \in Addresses, Guess(w, b)
      PROVE  wrong[b] - 1 \in Nat
  <2>1. Cardinality(Unrecorded(b)) - 1 \in Nat
    BY <1>1, <1>3, InFlight, Counts DEF Guess, At
  <2>2. limit[b].fails \in Nat /\ wrong[b] \in Nat /\ FailLimit \in Nat
    BY AccessLockAssumption DEF LockInv, TypeOK, LimitRow
  <2> QED
    BY <2>1, <2>2, InFlight DEF LockInv, CountInv
<1>4. wrong' \in [Addresses -> Nat]
  <2>1. DOMAIN wrong' = Addresses /\ wrong' = [b \in Addresses |-> wrong'[b]]
    BY <1>0 DEF Crash
  <2> QED
    BY <1>0, <1>2, <1>3, <2>1
<1>5. TypeOK'
  BY <1>1, <1>4 DEF Crash, LockInv, TypeOK
<1>6. ASSUME NEW b \in Addresses
      PROVE  CountInv(b)'
  <2>0. /\ limit'[b] = limit[b]
        /\ limit[b].fails \in Nat
        /\ wrong[b] \in Nat /\ FailLimit \in Nat
        /\ CountInv(b)
    BY AccessLockAssumption DEF Crash, LockInv, TypeOK, LimitRow
  <2>1. ~Guess(w, b)' /\ ~Asking(w, b)'
    BY <1>1 DEF Guess, Asking, At
  <2>2. /\ Cardinality(Unrecorded(b)) \in Nat
        /\ Cardinality(Pending(b)) \in Nat
        /\ Cardinality(Pending(b))' \in Nat
        /\ Cardinality(Workers) \in Nat
    BY <1>1, InFlight, Counts
  <2>3. \/ Cardinality(Pending(b))' = Cardinality(Pending(b))
        \/ Cardinality(Pending(b))' = Cardinality(Pending(b)) - 1
    BY <1>1, <2>1, Counts
  <2>4. CASE Guess(w, b)
    <3>1. Cardinality(Unrecorded(b))' = Cardinality(Unrecorded(b)) - 1
      BY <1>1, <2>1, <2>4, Counts
    <3>2. wrong'[b] = wrong[b] - 1
      BY <1>2, <2>4
    <3> QED
      BY <2>0, <2>2, <2>3, <3>1, <3>2 DEF CountInv
  <2>5. CASE ~Guess(w, b)
    <3>1. Cardinality(Unrecorded(b))' = Cardinality(Unrecorded(b))
      BY <1>1, <2>1, <2>5, Counts
    <3>2. wrong'[b] = wrong[b]
      BY <1>2, <2>5
    <3> QED
      BY <2>0, <2>2, <2>3, <3>1, <3>2, CountKept
  <2> QED
    BY <2>4, <2>5
<1> QED
  BY <1>5, <1>6 DEF LockInv

LEMMA NextLock == LockInv /\ [Next]_vars => LockInv'
<1> SUFFICES ASSUME LockInv, [Next]_vars
             PROVE  LockInv'
  OBVIOUS
<1>1. ASSUME NEW w \in Workers, NEW a \in Addresses, NEW right \in BOOLEAN,
             AskLock(w, a, right)
      PROVE  LockInv'
  BY <1>1, AskLockKeeps
<1>2. ASSUME NEW w \in Workers, AskRate(w)
      PROVE  LockInv'
  <2>1. rate' \in RateRow
    BY <1>2, LimitRows DEF AskRate, LockInv, TypeOK
  <2>2. Goto(w, "compare") \/ Goto(w, "idle")
    BY <1>2 DEF AskRate
  <2> QED
    BY <1>2, <2>1, <2>2, QuietKeeps DEF AskRate, At, LockInv, TypeOK
<1>3. ASSUME NEW w \in Workers, Audit(w)
      PROVE  LockInv'
  <2>1. rate' \in RateRow /\ passed' \in BOOLEAN
    BY <1>3 DEF Audit, LockInv, TypeOK, Job
  <2> QED
    BY <1>3, <2>1, QuietKeeps DEF Audit, At
<1>4. CASE WindowEnds
  <2>1. rate' = [rate EXCEPT !.over = TRUE] /\ rate \in RateRow
    BY <1>4 DEF WindowEnds, LockInv, TypeOK
  <2>2. rate' \in RateRow
    BY <2>1 DEF RateRow
  <2>3. lapses' \in Nat
    BY <1>4 DEF WindowEnds, LockInv, TypeOK
  <2> QED
    BY <1>4, <2>2, <2>3, OthersKeep DEF WindowEnds
<1>5. CASE UNCHANGED vars
  BY <1>5, OthersKeep DEF vars, LockInv, TypeOK
<1> QED
  BY <1>1, <1>2, <1>3, <1>4, <1>5, CompareKeeps, RecordKeeps, LapseKeeps,
     CrashKeeps
  DEF Next, Step

LEMMA LockAlways == Spec => []LockInv
  BY InitLock, NextLock, PTL DEF Spec

-----------------------------------------------------------------------------
(* The theorems                                                            *)

\* Every reachable state is well-typed; that the count of wrong answers never
\* goes below zero needs the counting invariant.
THEOREM LockTypeCorrect == Spec => []TypeOK
<1>1. LockInv => TypeOK
  BY DEF LockInv
<1> QED
  BY <1>1, LockAlways, PTL

\* verify_challenge() compares at most FailLimit wrong answers of an address
\* plus one for each other request in flight before the address is locked out
\* and its lock has run its time (L-27).
THEOREM GuessesAreBounded == Spec => []GuessesBounded
<1>1. ASSUME LockInv, NEW a \in Addresses
      PROVE  wrong[a] <= FailLimit + (Cardinality(Workers) - 1)
  <2>1. /\ limit[a].fails \in Nat /\ limit[a].locked \in BOOLEAN
        /\ wrong[a] \in Nat /\ FailLimit \in Nat
        /\ CountInv(a)
    BY <1>1, AccessLockAssumption DEF LockInv, TypeOK, LimitRow
  <2>2. CASE limit[a].locked
    BY <2>1, <2>2, InFlight DEF CountInv
  <2>3. CASE ~limit[a].locked
    BY <2>1, <2>3, InFlight DEF CountInv
  <2> QED
    BY <2>2, <2>3
<1>2. LockInv => GuessesBounded
  BY <1>1 DEF GuessesBounded
<1> QED
  BY <1>2, LockAlways, PTL

\* Nobody is locked out by the wrong answers of another address (CHAL-3).
THEOREM LocksAreEarned == Spec => []LockedByOwnAnswers
<1>1. ASSUME LockInv, NEW a \in Addresses, limit[a].locked
      PROVE  wrong[a] >= FailLimit
  <2>1. wrong[a] \in Nat /\ FailLimit \in Nat
    BY <1>1, AccessLockAssumption DEF LockInv, TypeOK
  <2> QED
    BY <1>1, <2>1, InFlight DEF LockInv, CountInv
<1>2. LockInv => LockedByOwnAnswers
  BY <1>1 DEF LockedByOwnAnswers
<1> QED
  BY <1>2, LockAlways, PTL

\* An address that may answer has fewer than FailLimit recorded wrong
\* answers, and the others are about to be recorded.
THEOREM LocksComeInTime == Spec => []LockedInTime
<1>1. LockInv => LockedInTime
  BY DEF LockInv, CountInv, LockedInTime
<1> QED
  BY <1>1, LockAlways, PTL
=============================================================================
