--------------------------- MODULE WebhooksProofs ---------------------------
(***************************************************************************)
(* Theorems about Webhooks: type correctness, that a subscription is       *)
(* disabled only by enough failed deliveries of its own, and that the log  *)
(* tells how each delivery went.                                           *)
(***************************************************************************)
EXTENDS Webhooks, FiniteSetTheorems, TLAPS

-----------------------------------------------------------------------------
(* Type correctness                                                        *)

LEMMA InitTypeOK == Init => TypeOK
  BY WebhooksAssumption
  DEF WebhooksAssumption, Init, TypeOK, HookRow, Delivery, NoDelivery, Row,
      Attempts

\* A thread's record stays a record when one field of it changes.
LEMMA DeliveryType ==
  ASSUME TypeOK, NEW n \in Emissions, NEW h \in Hooks, NEW d \in Delivery,
         delivery' = [delivery EXCEPT ![n][h] = d]
  PROVE  delivery' \in [Emissions -> [Hooks -> Delivery]]
  BY DEF TypeOK

\* The other threads, and the record of the one that moves to a phase.
LEMMA GotoDelivery ==
  ASSUME TypeOK, NEW n \in Emissions, NEW h \in Hooks, NEW x,
         Goto(n, h, x)
  PROVE  /\ delivery' = [delivery EXCEPT
                           ![n][h] = [delivery[n][h] EXCEPT !.phase = x]]
         /\ delivery'[n][h] = [delivery[n][h] EXCEPT !.phase = x]
         /\ \A m \in Emissions, g \in Hooks :
              g # h \/ m # n => delivery'[m][g] = delivery[m][g]
  BY DEF Goto, TypeOK

\* What a thread turns into after an attempt.
LEMMA AfterAttemptType ==
  ASSUME NEW d \in Delivery
  PROVE  /\ AfterAttempt(d) \in Delivery
         /\ AfterAttempt(d).phase \in {"post", "mark"}
<1>1. CASE d.ok \/ d.attempt = MaxAttempts
  BY <1>1 DEF AfterAttempt, Delivery
<1>2. CASE ~(d.ok \/ d.attempt = MaxAttempts)
  <2>1. d.attempt \in Nat /\ 1 <= d.attempt /\ d.attempt < MaxAttempts
    BY <1>2, WebhooksAssumption DEF WebhooksAssumption, Delivery, Attempts
  <2>2. d.attempt + 1 \in Attempts
    BY <2>1, WebhooksAssumption DEF WebhooksAssumption, Attempts
  <2>3. AfterAttempt(d) = [d EXCEPT !.phase = "post", !.attempt = d.attempt + 1]
    BY <1>2 DEF AfterAttempt
  <2> QED
    BY <2>2, <2>3 DEF Delivery
<1> QED
  BY <1>1, <1>2

LEMMA FoldType ==
  ASSUME NEW r \in HookRow, NEW ok \in BOOLEAN
  PROVE  Fold(r, ok) \in HookRow
<1>1. r.failures + 1 \in Nat
  BY DEF HookRow
<1>2. (r.active /\ r.failures + 1 < DisableAfter) \in BOOLEAN
  OBVIOUS
<1> QED
  BY <1>1, <1>2 DEF Fold, HookRow

LEMMA NextTypeOK == TypeOK /\ [Next]_vars => TypeOK'
<1> SUFFICES ASSUME TypeOK, [Next]_vars PROVE TypeOK'
  OBVIOUS
<1> USE WebhooksAssumption DEF WebhooksAssumption
<1>1. CASE UNCHANGED vars
  BY <1>1 DEF TypeOK, vars
<1>2. ASSUME NEW h \in Hooks, Create(h) PROVE TypeOK'
  BY <1>2 DEF Create, TypeOK, HookRow
<1>3. ASSUME NEW h \in Hooks, Delete(h) PROVE TypeOK'
  BY <1>3 DEF Delete, TypeOK, HookRow
<1>4. ASSUME NEW h \in Hooks, Rotate(h) PROVE TypeOK'
  <2>1. hook[h].secret + 1 \in Nat
    BY DEF TypeOK, HookRow
  <2> QED
    BY <1>4, <2>1 DEF Rotate, TypeOK, HookRow
<1>5. ASSUME NEW e \in Events, Emit(e) PROVE TypeOK'
  <2>a. 1 \in Attempts /\ \A h \in Hooks : hook[h].secret \in Nat
    BY DEF TypeOK, HookRow, Attempts
  <2>b. NoDelivery \in Delivery
    BY <2>a DEF NoDelivery, Delivery
  <2>c. \A h \in Hooks :
          [NoDelivery EXCEPT !.phase = "post", !.secret = hook[h].secret]
            \in Delivery
    BY <2>a, <2>b DEF Delivery
  <2>1. \A h \in Hooks :
          /\ NoDelivery \in Delivery
          /\ [NoDelivery EXCEPT !.phase = "post", !.secret = hook[h].secret]
               \in Delivery
    BY <2>b, <2>c
  <2>2. [h \in Hooks |->
           IF h \in Matching(e)
           THEN [NoDelivery EXCEPT !.phase = "post", !.secret = hook[h].secret]
           ELSE NoDelivery] \in [Hooks -> Delivery]
    BY <2>1
  <2>3. delivery' \in [Emissions -> [Hooks -> Delivery]]
    BY <1>5, <2>2 DEF Emit, TypeOK
  <2>d. emits \in 0 .. MaxEmits /\ emits < MaxEmits /\ emits' = emits + 1
    BY <1>5 DEF Emit, TypeOK
  <2>4. emits' \in 0 .. MaxEmits
    BY <2>d
  <2> QED
    BY <1>5, <2>3, <2>4 DEF Emit, TypeOK
<1>6. ASSUME NEW n \in Emissions, NEW h \in Hooks, Step(n, h) PROVE TypeOK'
  <2>a. delivery[n][h] \in Delivery
    BY DEF TypeOK
  <2>1. CASE Refuse(n, h)
    <3>1. [delivery[n][h] EXCEPT !.phase = "mark"] \in Delivery
      BY <2>a DEF Delivery
    <3>2. delivery' \in [Emissions -> [Hooks -> Delivery]]
      BY <2>1, <3>1, GotoDelivery, DeliveryType DEF Refuse
    <3> QED
      BY <2>1, <3>2 DEF Refuse, TypeOK
  <2>2. CASE Post(n, h)
    <3>1. \A ok \in BOOLEAN :
            [delivery[n][h] EXCEPT !.phase = "log", !.ok = ok] \in Delivery
      BY <2>a DEF Delivery
    <3>2. delivery' \in [Emissions -> [Hooks -> Delivery]]
      <4>a. PICK ok \in BOOLEAN :
              delivery' = [delivery EXCEPT ![n][h].phase = "log",
                                           ![n][h].ok = ok]
        BY <2>2 DEF Post
      <4>1. delivery' = [delivery EXCEPT
              ![n][h] = [delivery[n][h] EXCEPT !.phase = "log", !.ok = ok]]
        BY <4>a DEF TypeOK
      <4>2. [delivery[n][h] EXCEPT !.phase = "log", !.ok = ok] \in Delivery
        BY <3>1
      <4>3. ASSUME NEW d \in Delivery, delivery' = [delivery EXCEPT ![n][h] = d]
            PROVE  delivery' \in [Emissions -> [Hooks -> Delivery]]
        BY <4>3, DeliveryType
      <4> QED
        BY <4>1, <4>2, <4>3, Zenon
    <3> QED
      BY <2>2, <3>2 DEF Post, TypeOK
  <2>3. CASE Log(n, h)
    <3>1. delivery' \in [Emissions -> [Hooks -> Delivery]]
      BY <2>3, <2>a, AfterAttemptType, DeliveryType DEF Log
    <3>2. rows' \in [Hooks -> SUBSET Row]
      <4>1. [emission |-> n, attempt |-> delivery[n][h].attempt,
             ok |-> delivery[n][h].ok] \in Row
        BY <2>a DEF Row, Delivery
      <4> QED
        BY <2>3, <4>1 DEF Log, TypeOK
    <3>3. faults' \in Nat
      BY <2>3 DEF Log, TypeOK
    <3> QED
      BY <2>3, <3>1, <3>2, <3>3 DEF Log, TypeOK
  <2>4. CASE Mark(n, h)
    <3>1. delivery' \in [Emissions -> [Hooks -> Delivery]]
      <4>1. \A x \in {"done", "lost"} :
              [delivery[n][h] EXCEPT !.phase = x] \in Delivery
        BY <2>a DEF Delivery
      <4> QED
        BY <2>4, <4>1, GotoDelivery, DeliveryType DEF Mark
    <3>2. Fold(hook[h], delivery[n][h].ok) \in HookRow
      BY <2>a, FoldType DEF TypeOK, Delivery
    <3>3. hook' \in [Hooks -> HookRow]
      BY <2>4, <3>2 DEF Mark, TypeOK
    <3>4. faults' \in Nat
      BY <2>4 DEF Mark, TypeOK
    <3> QED
      BY <2>4, <3>1, <3>3, <3>4 DEF Mark, TypeOK
  <2> QED
    BY <1>6, <2>1, <2>2, <2>3, <2>4 DEF Step
<1>7. CASE Crash
  <2>1. \A n \in Emissions, h \in Hooks :
          [delivery[n][h] EXCEPT !.phase = "lost"] \in Delivery
    <3> SUFFICES ASSUME NEW n \in Emissions, NEW h \in Hooks
                 PROVE  [delivery[n][h] EXCEPT !.phase = "lost"] \in Delivery
      OBVIOUS
    <3>1. delivery[n][h] \in Delivery
      BY DEF TypeOK
    <3> QED
      BY <3>1 DEF Delivery
  <2>2. delivery' \in [Emissions -> [Hooks -> Delivery]]
    BY <1>7, <2>1 DEF Crash, TypeOK
  <2> QED
    BY <1>7, <2>2 DEF Crash, TypeOK
<1>8. ASSUME NEW h \in Hooks, Ping(h) PROVE TypeOK'
  BY <1>5, <1>8 DEF Ping
<1> QED
  BY <1>1, <1>2, <1>3, <1>4, <1>5, <1>6, <1>7, <1>8 DEF Next

\* Every state of every instance of Webhooks is well-typed.
THEOREM WebhooksTypeCorrect == Spec => []TypeOK
  BY InitTypeOK, NextTypeOK, PTL DEF Spec

-----------------------------------------------------------------------------
(* The failure counter never exceeds the failed deliveries, because each   *)
(* adds one and is counted once; so nothing is disabled by fewer than      *)
(* DisableAfter of them.  An emission that has not happened has no         *)
(* deliveries that could be overwritten.                                   *)

CounterInv(h) ==
  /\ hook[h].failures <= Cardinality(Failed(h))
  /\ hook[h].spent /\ ~hook[h].active => Cardinality(Failed(h)) >= DisableAfter
  /\ hook[h].exists => hook[h].spent

NotYet == \A n \in Emissions, h \in Hooks : n > emits => At(n, h, "none")

HealthInv == NotYet /\ \A h \in Hooks : CounterInv(h)

LEMMA FailedFinite ==
  ASSUME NEW h \in Hooks
  PROVE  /\ IsFiniteSet(Failed(h))
         /\ Cardinality(Failed(h)) \in Nat
<1>1. IsFiniteSet(Emissions)
  BY WebhooksAssumption, FS_Interval DEF WebhooksAssumption, Emissions
<1>2. Failed(h) \subseteq Emissions
  BY DEF Failed
<1> QED
  BY <1>1, <1>2, FS_Subset, FS_CardinalityType

LEMMA InitHealth == Init => HealthInv
<1> SUFFICES ASSUME Init PROVE HealthInv
  OBVIOUS
<1>1. \A h \in Hooks : Failed(h) = {}
  BY DEF Init, Failed, At, NoDelivery
<1>2. Cardinality({}) = 0
  BY FS_EmptySet
<1>3. \A h \in Hooks : CounterInv(h)
  <2> SUFFICES ASSUME NEW h \in Hooks PROVE CounterInv(h)
    OBVIOUS
  <2>1. hook[h].failures = 0 /\ ~hook[h].spent /\ ~hook[h].exists
    BY DEF Init
  <2>2. Cardinality(Failed(h)) = 0
    BY <1>1, <1>2
  <2> QED
    BY <2>1, <2>2 DEF CounterInv
<1> QED
  BY <1>3 DEF Init, HealthInv, NotYet, At, NoDelivery

\* A step that counts no delivery and leaves the health of the rows alone.
LEMMA HealthKept ==
  ASSUME HealthInv,
         NotYet',
         \A h \in Hooks : Failed(h)' = Failed(h),
         \A h \in Hooks : /\ hook'[h].failures = hook[h].failures
                          /\ hook'[h].active = hook[h].active
                          /\ hook'[h].spent = hook[h].spent
                          /\ hook'[h].exists => hook[h].exists
  PROVE  HealthInv'
  BY DEF HealthInv, CounterInv

\* The transaction that counts a delivery.
LEMMA MarkHealth ==
  ASSUME TypeOK, HealthInv, NEW n \in Emissions, NEW h \in Hooks, Mark(n, h)
  PROVE  HealthInv'
<1> DEFINE d == delivery[n][h]
<1>a. d \in Delivery /\ hook[h] \in HookRow
  BY DEF TypeOK
<1>1. \A m \in Emissions, g \in Hooks : g # h \/ m # n =>
        delivery'[m][g] = delivery[m][g]
  BY DEF Mark, Goto, TypeOK
<1>2. /\ delivery'[n][h].ok = d.ok
      /\ delivery'[n][h].phase \in {"done", "lost"}
      /\ n \notin Failed(h)
  BY <1>a DEF Mark, Goto, TypeOK, Delivery, At, Failed
<1>3. \A g \in Hooks : g # h => Failed(g)' = Failed(g) /\ hook'[g] = hook[g]
  BY <1>1 DEF Failed, At, Mark, TypeOK
<1>4. NotYet'
  <2>1. n <= emits
    BY DEF HealthInv, NotYet, At, Mark, TypeOK, Emissions
  <2> QED
    BY <1>1, <2>1 DEF HealthInv, NotYet, At, Mark, TypeOK, Emissions
<1>5. CounterInv(h)'
  <2>a. /\ IsFiniteSet(Failed(h))
        /\ Cardinality(Failed(h)) \in Nat
        /\ CounterInv(h)
    BY FailedFinite DEF HealthInv
  <2>1. CASE delivery'[n][h].phase = "done" /\ ~d.ok
    <3>1. Failed(h)' = Failed(h) \cup {n}
      BY <1>1, <1>2, <2>1 DEF Failed, At
    <3>2. Cardinality(Failed(h)') = Cardinality(Failed(h)) + 1
      BY <1>2, <2>a, <3>1, FS_AddElement
    <3>3. CASE hook' = [hook EXCEPT ![h] = Fold(hook[h], FALSE)]
                /\ hook[h].exists
      <4>1. /\ hook'[h].failures = hook[h].failures + 1
            /\ hook'[h].active =
                 (hook[h].active /\ hook[h].failures + 1 < DisableAfter)
            /\ hook'[h].spent = hook[h].spent
            /\ hook'[h].exists = hook[h].exists
        BY <1>a, <3>3 DEF Fold, HookRow, TypeOK
      <4>2. hook'[h].failures <= Cardinality(Failed(h)')
        BY <1>a, <2>a, <3>2, <4>1 DEF CounterInv, HookRow
      <4>3. ASSUME hook'[h].spent, ~hook'[h].active
            PROVE  Cardinality(Failed(h)') >= DisableAfter
        <5>1. ~hook[h].active \/ ~(hook[h].failures + 1 < DisableAfter)
          BY <4>1, <4>3
        <5> QED
          BY <1>a, <2>a, <3>2, <4>1, <4>3, <5>1, WebhooksAssumption
          DEF WebhooksAssumption, CounterInv, HookRow
      <4> QED
        BY <2>a, <4>1, <4>2, <4>3 DEF CounterInv
    <3>4. CASE hook' = hook
      <4>1. hook[h].failures \in Nat
        BY <1>a DEF HookRow
      <4> QED
        BY <2>a, <3>2, <3>4, <4>1, WebhooksAssumption
        DEF WebhooksAssumption, CounterInv
    <3> QED
      BY <2>1, <3>3, <3>4, <1>a DEF Mark, Delivery
  <2>2. CASE ~(delivery'[n][h].phase = "done" /\ ~d.ok)
    <3>1. Failed(h)' = Failed(h)
      BY <1>1, <1>2, <2>2 DEF Failed, At
    <3>2. CASE hook' = hook
      BY <2>a, <3>1, <3>2 DEF CounterInv
    <3>3. CASE hook # hook' /\ d.ok
      <4>1. /\ hook'[h] = Fold(hook[h], TRUE)
            /\ hook[h].exists
        BY <1>a, <3>3 DEF Mark, TypeOK, Delivery
      <4>2. /\ hook'[h].failures = 0
            /\ hook'[h].active = hook[h].active
            /\ hook'[h].spent = hook[h].spent
            /\ hook'[h].exists = hook[h].exists
        BY <1>a, <4>1 DEF Fold, HookRow
      <4> QED
        BY <2>a, <3>1, <4>2 DEF CounterInv
    <3>4. hook' # hook => delivery'[n][h].phase = "done"
      BY <1>a DEF Mark, Goto, TypeOK, Delivery
    <3> QED
      BY <2>2, <3>2, <3>3, <3>4
  <2> QED
    BY <2>1, <2>2
<1> QED
  BY <1>3, <1>4, <1>5 DEF HealthInv, CounterInv

LEMMA NextHealth == TypeOK /\ HealthInv /\ [Next]_vars => HealthInv'
<1> SUFFICES ASSUME TypeOK, HealthInv, [Next]_vars PROVE HealthInv'
  OBVIOUS
<1>1. CASE UNCHANGED vars
  BY <1>1, HealthKept DEF vars, Failed, NotYet, At, HealthInv
<1>2. ASSUME NEW h \in Hooks, Create(h) PROVE HealthInv'
  <2>1. \A g \in Hooks : Failed(g)' = Failed(g)
    BY <1>2 DEF Create, Failed, At
  <2>2. Cardinality(Failed(h)) \in Nat
    BY FailedFinite
  <2>3. CounterInv(h)'
    BY <1>2, <2>1, <2>2 DEF Create, CounterInv, TypeOK
  <2>4. \A g \in Hooks : g # h => CounterInv(g)'
    BY <1>2, <2>1 DEF Create, CounterInv, TypeOK, HealthInv
  <2> QED
    BY <1>2, <2>3, <2>4 DEF Create, HealthInv, NotYet, At
<1>3. ASSUME NEW h \in Hooks, Delete(h) \/ Rotate(h) PROVE HealthInv'
  <2>1. \A g \in Hooks : /\ hook'[g].failures = hook[g].failures
                         /\ hook'[g].active = hook[g].active
                         /\ hook'[g].spent = hook[g].spent
                         /\ hook'[g].exists => hook[g].exists
    <3>1. \A g \in Hooks : hook[g] \in HookRow
      BY DEF TypeOK
    <3>2. CASE Delete(h)
      BY <3>1, <3>2 DEF Delete, TypeOK, HookRow
    <3>3. CASE Rotate(h)
      <4>1. hook' = [hook EXCEPT ![h] =
                       [hook[h] EXCEPT !.secret = hook[h].secret + 1]]
        BY <3>3 DEF Rotate, TypeOK
      <4>2. \A g \in Hooks :
              hook'[g] = IF g = h
                         THEN [hook[h] EXCEPT !.secret = hook[h].secret + 1]
                         ELSE hook[g]
        BY <4>1 DEF TypeOK
      <4> QED
        BY <3>1, <4>2 DEF HookRow
    <3> QED
      BY <1>3, <3>2, <3>3
  <2> QED
    BY <1>3, <2>1, HealthKept DEF Delete, Rotate, Failed, NotYet, At, HealthInv
<1>4. ASSUME NEW e \in Events, Emit(e) PROVE HealthInv'
  <2>a. emits \in 0 .. MaxEmits /\ MaxEmits \in Nat
    BY WebhooksAssumption DEF WebhooksAssumption, TypeOK
  <2>1. \A m \in Emissions, g \in Hooks : m # emits + 1 =>
          delivery'[m][g] = delivery[m][g]
    BY <1>4 DEF Emit, TypeOK
  <2>2. emits + 1 \in Emissions /\ emits + 1 > emits
    <3>1. emits < MaxEmits
      BY <1>4 DEF Emit
    <3> QED
      BY <2>a, <3>1 DEF Emissions
  <2>3. \A g \in Hooks :
          /\ delivery[emits + 1][g].phase # "done"
          /\ delivery'[emits + 1][g].phase # "done"
    BY <1>4, <2>2 DEF Emit, TypeOK, HealthInv, NotYet, At, NoDelivery
  <2>4. \A g \in Hooks : Failed(g)' = Failed(g)
    BY <2>1, <2>3 DEF Failed, At
  <2>5. NotYet'
    <3>1. emits' = emits + 1
      BY <1>4 DEF Emit
    <3>2. \A m \in Emissions : m > emits' => m # emits + 1 /\ m > emits
      BY <2>a, <3>1 DEF Emissions
    <3>3. NotYet
      BY DEF HealthInv
    <3> QED
      BY <2>1, <3>2, <3>3 DEF NotYet, At
  <2> QED
    BY <1>4, <2>4, <2>5, HealthKept DEF Emit
<1>5. ASSUME NEW n \in Emissions, NEW h \in Hooks, Step(n, h) PROVE HealthInv'
  <2>1. CASE Mark(n, h)
    BY <2>1, MarkHealth
  <2>2. CASE Refuse(n, h) \/ Post(n, h) \/ Log(n, h)
    <3>a. delivery[n][h] \in Delivery
      BY DEF TypeOK
    <3>1. \A m \in Emissions, g \in Hooks : g # h \/ m # n =>
            delivery'[m][g] = delivery[m][g]
      BY <2>2 DEF Refuse, Post, Log, Goto, TypeOK
    <3>2. /\ delivery[n][h].phase \in {"post", "log"}
          /\ delivery'[n][h].phase \in {"mark", "log", "post"}
      BY <2>2, <3>a, AfterAttemptType
      DEF Refuse, Post, Log, Goto, TypeOK, Delivery, At
    <3>3. \A g \in Hooks : Failed(g)' = Failed(g)
      BY <3>1, <3>2 DEF Failed, At
    <3>4. UNCHANGED <<hook, emits>>
      BY <2>2 DEF Refuse, Post, Log
    <3>5. NotYet'
      BY <3>1, <3>2, <3>4 DEF NotYet, At, HealthInv
    <3> QED
      BY <3>3, <3>4, <3>5, HealthKept
  <2> QED
    BY <1>5, <2>1, <2>2 DEF Step
<1>6. CASE Crash
  <2>1. \A n \in Emissions, h \in Hooks :
          delivery'[n][h] = IF Running(n, h)
                            THEN [delivery[n][h] EXCEPT !.phase = "lost"]
                            ELSE delivery[n][h]
    BY <1>6 DEF Crash
  <2>2. \A n \in Emissions, h \in Hooks :
          Running(n, h) => /\ delivery'[n][h].phase = "lost"
                           /\ delivery[n][h].phase \notin {"none", "done"}
    <3> SUFFICES ASSUME NEW n \in Emissions, NEW h \in Hooks, Running(n, h)
                 PROVE  /\ delivery'[n][h].phase = "lost"
                        /\ delivery[n][h].phase \notin {"none", "done"}
      OBVIOUS
    <3>1. delivery[n][h] \in Delivery
      BY DEF TypeOK
    <3>2. delivery'[n][h] = [delivery[n][h] EXCEPT !.phase = "lost"]
      BY <2>1
    <3> QED
      BY <3>1, <3>2 DEF Delivery, Running
  <2>3. \A h \in Hooks : Failed(h)' = Failed(h)
    BY <2>1, <2>2 DEF Failed, At
  <2>4. NotYet'
    BY <1>6, <2>1, <2>2 DEF Crash, NotYet, At, HealthInv
  <2> QED
    BY <1>6, <2>3, <2>4, HealthKept DEF Crash
<1>7. ASSUME NEW h \in Hooks, Ping(h) PROVE HealthInv'
  BY <1>4, <1>7, WebhooksAssumption DEF WebhooksAssumption, Ping
<1> QED
  BY <1>1, <1>2, <1>3, <1>4, <1>5, <1>6, <1>7 DEF Next

\* Whatever endpoints answer, however deliveries overlap and whenever the
\* process dies: only failed deliveries of its own, DisableAfter at least,
\* disable a subscription.
THEOREM OnlyFailuresDisable == Spec => []DisabledByDeliveries
<1>1. Init => TypeOK /\ HealthInv
  BY InitTypeOK, InitHealth
<1>2. TypeOK /\ HealthInv /\ [Next]_vars => (TypeOK /\ HealthInv)'
  BY NextTypeOK, NextHealth
<1>3. HealthInv => DisabledByDeliveries
  BY DEF HealthInv, CounterInv, DisabledByDeliveries
<1> QED
  BY <1>1, <1>2, <1>3, PTL DEF Spec

-----------------------------------------------------------------------------
(* The delivery log.  As long as no write has failed, a thread at its n-th *)
(* attempt has logged n - 1 failed ones; what it logs last is how it went, *)
(* and a delivery that was refused has logged nothing.                     *)

\* The rows of the first k attempts, when all of them failed.
FailedRows(n, k) ==
  {[emission |-> n, attempt |-> a, ok |-> FALSE] : a \in 1 .. k}

LastRow(n, d) == [emission |-> n, attempt |-> d.attempt, ok |-> d.ok]

\* The rows of a delivery that is at d.
Logged(n, d, log) ==
  /\ d.phase = "none" => log = {}
  /\ d.phase \in {"post", "log"} => log = FailedRows(n, d.attempt - 1)
  /\ d.phase = "post" => ~d.ok
  /\ d.phase \in {"mark", "done"} =>
       \/ log = {} /\ ~d.ok
       \/ /\ log = FailedRows(n, d.attempt - 1) \cup {LastRow(n, d)}
          /\ ~d.ok => d.attempt = MaxAttempts

LogInv ==
  faults = 0 =>
    \A n \in Emissions, h \in Hooks : Logged(n, delivery[n][h], RowsOf(n, h))

\* One more failed attempt.
LEMMA OneMore ==
  ASSUME NEW n, NEW k \in Nat
  PROVE  FailedRows(n, k + 1) =
           FailedRows(n, k)
             \cup {[emission |-> n, attempt |-> k + 1, ok |-> FALSE]}
<1>1. 1 .. (k + 1) = (1 .. k) \cup {k + 1}
  OBVIOUS
<1> QED
  BY <1>1 DEF FailedRows

\* The rows of the others stay when a thread logs, and its own are added to.
LEMMA LogRows ==
  ASSUME TypeOK, NEW n \in Emissions, NEW h \in Hooks, Log(n, h),
         faults' = faults
  PROVE  /\ RowsOf(n, h)' = RowsOf(n, h) \cup {LastRow(n, delivery[n][h])}
         /\ \A m \in Emissions, g \in Hooks : g # h \/ m # n =>
              RowsOf(m, g)' = RowsOf(m, g)
<1> DEFINE r == LastRow(n, delivery[n][h])
<1>1. rows' = [rows EXCEPT ![h] = rows[h] \cup {r}] /\ faults \in Nat
  BY DEF Log, TypeOK, LastRow
<1>2. r.emission = n
  BY DEF LastRow
<1> HIDE DEF r
<1>3. /\ rows'[h] = rows[h] \cup {r}
      /\ \A g \in Hooks : g # h => rows'[g] = rows[g]
  BY <1>1 DEF TypeOK
<1> QED
  BY <1>2, <1>3 DEF RowsOf, r

LEMMA InitLog == Init => LogInv
<1> SUFFICES ASSUME Init, NEW n \in Emissions, NEW h \in Hooks
             PROVE  Logged(n, delivery[n][h], RowsOf(n, h))
  BY DEF LogInv
<1>1. delivery[n][h] = NoDelivery /\ RowsOf(n, h) = {}
  BY DEF Init, RowsOf
<1> QED
  BY <1>1 DEF Logged, NoDelivery

\* A step that logs nothing, of one thread or of none.
LEMMA LogKept ==
  ASSUME LogInv, faults' = faults, rows' = rows,
         NEW n, NEW h,
         n \in Emissions /\ h \in Hooks =>
           \A log : Logged(n, delivery[n][h], log) =>
                      Logged(n, delivery'[n][h], log),
         \A m \in Emissions, g \in Hooks :
           g # h \/ m # n => delivery'[m][g] = delivery[m][g]
  PROVE  LogInv'
<1> SUFFICES ASSUME faults = 0, NEW m \in Emissions, NEW g \in Hooks
             PROVE  Logged(m, delivery[m][g], RowsOf(m, g))'
  BY DEF LogInv
<1>1. Logged(m, delivery[m][g], RowsOf(m, g)) /\ RowsOf(m, g)' = RowsOf(m, g)
  BY DEF LogInv, RowsOf
<1>2. Logged(m, delivery'[m][g], RowsOf(m, g))
  BY <1>1
<1> QED
  BY <1>1, <1>2 DEF Logged

\* The attempt goes on to the next, or ends the delivery, with its row.
LEMMA LogOnward ==
  ASSUME NEW n, NEW d \in Delivery, NEW log, d.phase = "log", Logged(n, d, log)
  PROVE  Logged(n, AfterAttempt(d), log \cup {LastRow(n, d)})
<1>1. d.attempt \in Nat /\ d.attempt >= 1 /\ d.attempt <= MaxAttempts
  BY WebhooksAssumption DEF WebhooksAssumption, Delivery, Attempts
<1>2. log = FailedRows(n, d.attempt - 1)
  BY DEF Logged
<1>3. CASE d.ok \/ d.attempt = MaxAttempts
  <2>1. AfterAttempt(d) = [d EXCEPT !.phase = "mark"]
    BY <1>3 DEF AfterAttempt
  <2>2. /\ AfterAttempt(d).phase = "mark" /\ AfterAttempt(d).ok = d.ok
        /\ AfterAttempt(d).attempt = d.attempt
    BY <2>1 DEF Delivery
  <2>3. LastRow(n, AfterAttempt(d)) = LastRow(n, d)
    BY <2>2 DEF LastRow
  <2> QED
    BY <1>2, <1>3, <2>2, <2>3 DEF Logged
<1>4. CASE ~(d.ok \/ d.attempt = MaxAttempts)
  <2> DEFINE k == d.attempt + 1
  <2>1. AfterAttempt(d) = [d EXCEPT !.phase = "post", !.attempt = k]
    BY <1>4 DEF AfterAttempt
  <2>2. k - 1 = d.attempt /\ d.attempt - 1 \in Nat
    BY <1>1
  <2>3. FailedRows(n, k - 1) =
          FailedRows(n, d.attempt - 1)
            \cup {[emission |-> n, attempt |-> d.attempt, ok |-> FALSE]}
    BY <1>1, <2>2, OneMore
  <2> HIDE DEF k
  <2>4. /\ AfterAttempt(d).phase = "post" /\ AfterAttempt(d).ok = d.ok
        /\ AfterAttempt(d).attempt = k
    BY <2>1 DEF Delivery
  <2>5. d.ok = FALSE
    BY <1>4 DEF Delivery
  <2>6. LastRow(n, d) = [emission |-> n, attempt |-> d.attempt, ok |-> FALSE]
    BY <2>5 DEF LastRow
  <2> QED
    BY <1>2, <2>3, <2>4, <2>5, <2>6 DEF Logged
<1> QED
  BY <1>3, <1>4

LEMMA NextLog == TypeOK /\ HealthInv /\ LogInv /\ [Next]_vars => LogInv'
<1> SUFFICES ASSUME TypeOK, HealthInv, LogInv, [Next]_vars PROVE LogInv'
  OBVIOUS
<1>f. faults \in Nat
  BY DEF TypeOK
<1>g. faults' = faults + 1 => LogInv'
  BY <1>f DEF LogInv
<1>k. UNCHANGED <<delivery, rows, faults>> => LogInv'
  BY LogKept
<1>1. CASE UNCHANGED vars
  BY <1>1, <1>k DEF vars
<1>2. ASSUME NEW h \in Hooks, Create(h) \/ Delete(h) \/ Rotate(h) PROVE LogInv'
  BY <1>2, <1>k DEF Create, Delete, Rotate
<1>3. ASSUME NEW e \in Events, Emit(e) PROVE LogInv'
  <2>a. emits \in 0 .. MaxEmits /\ emits \in Nat
    BY WebhooksAssumption DEF WebhooksAssumption, TypeOK
  <2>b. emits < MaxEmits /\ MaxEmits \in Nat
    BY <1>3, WebhooksAssumption DEF WebhooksAssumption, Emit
  <2>c. emits + 1 \in Emissions /\ emits + 1 > emits
    BY <2>a, <2>b DEF Emissions
  <2>1. ASSUME faults = 0, NEW m \in Emissions, NEW g \in Hooks
        PROVE  Logged(m, delivery'[m][g], RowsOf(m, g))
    <3>1. Logged(m, delivery[m][g], RowsOf(m, g))
      BY <2>1 DEF LogInv
    <3>2. CASE m = emits + 1
      <4>1. delivery[m][g].phase = "none"
        BY <2>c, <3>2 DEF HealthInv, NotYet, At
      <4>2. RowsOf(m, g) = {}
        BY <3>1, <4>1 DEF Logged
      <4>3. delivery'[m] =
              [h \in Hooks |->
                 IF h \in Matching(e)
                 THEN [NoDelivery EXCEPT !.phase = "post",
                                         !.secret = hook[h].secret]
                 ELSE NoDelivery]
        BY <1>3, <2>c, <3>2 DEF Emit, TypeOK
      <4>4. delivery'[m][g] =
              IF g \in Matching(e)
              THEN [NoDelivery EXCEPT !.phase = "post",
                                      !.secret = hook[g].secret]
              ELSE NoDelivery
        BY <4>3
      <4>5. /\ delivery'[m][g].phase \in {"none", "post"}
            /\ delivery'[m][g].attempt = 1 /\ delivery'[m][g].ok = FALSE
        BY <4>4 DEF NoDelivery
      <4>6. FailedRows(m, 0) = {} /\ 1 - 1 = 0
        BY DEF FailedRows
      <4> QED
        BY <4>2, <4>5, <4>6 DEF Logged
    <3>3. CASE m # emits + 1
      <4>1. delivery'[m][g] = delivery[m][g]
        BY <1>3, <3>3 DEF Emit, TypeOK
      <4> QED
        BY <3>1, <4>1
    <3> QED
      BY <3>2, <3>3
  <2>2. rows' = rows /\ faults' = faults
    BY <1>3 DEF Emit
  <2>3. \A m \in Emissions, g \in Hooks : RowsOf(m, g)' = RowsOf(m, g)
    BY <2>2 DEF RowsOf
  <2> QED
    BY <2>1, <2>2, <2>3 DEF LogInv, Logged
<1>4. ASSUME NEW n \in Emissions, NEW h \in Hooks, Step(n, h) PROVE LogInv'
  <2>a. delivery[n][h] \in Delivery
    BY DEF TypeOK
  <2>1. CASE Refuse(n, h) \/ (Mark(n, h) /\ faults' = faults)
    <3>1. /\ rows' = rows /\ faults' = faults
          /\ Refuse(n, h) => Goto(n, h, "mark")
          /\ ~Refuse(n, h) => Goto(n, h, "done") \/ faults' = faults + 1
      BY <2>1 DEF Refuse, Mark
    <3>2. PICK x \in {"mark", "done"} :
            /\ Goto(n, h, x)
            /\ IF x = "mark" THEN Refuse(n, h) ELSE At(n, h, "mark")
      BY <1>f, <2>1, <3>1 DEF Mark
    <3>3. /\ delivery'[n][h] = [delivery[n][h] EXCEPT !.phase = x]
          /\ \A m \in Emissions, g \in Hooks :
               g # h \/ m # n => delivery'[m][g] = delivery[m][g]
      BY <3>2, GotoDelivery
    <3>4. /\ delivery'[n][h].phase = x
          /\ delivery'[n][h].attempt = delivery[n][h].attempt
          /\ delivery'[n][h].ok = delivery[n][h].ok
      BY <2>a, <3>3 DEF Delivery
    <3>5. ASSUME NEW log, Logged(n, delivery[n][h], log)
          PROVE  Logged(n, delivery'[n][h], log)
      <4>1. CASE x = "done"
        <5>1. LastRow(n, delivery'[n][h]) = LastRow(n, delivery[n][h])
          BY <3>4 DEF LastRow
        <5> QED
          BY <3>2, <3>4, <3>5, <4>1, <5>1 DEF Logged, At
      <4>2. CASE x = "mark"
        <5>1. delivery[n][h].phase = "post" /\ delivery[n][h].attempt = 1
          BY <3>2, <4>2 DEF Refuse, At
        <5>2. FailedRows(n, 0) = {} /\ 1 - 1 = 0
          BY DEF FailedRows
        <5>3. log = {} /\ ~delivery[n][h].ok
          BY <3>5, <5>1, <5>2 DEF Logged
        <5> QED
          BY <3>4, <4>2, <5>3 DEF Logged
      <4> QED
        BY <4>1, <4>2
    <3> QED
      BY <3>1, <3>3, <3>5, LogKept
  <2>2. CASE Post(n, h)
    <3>1. PICK ok \in BOOLEAN :
            delivery' = [delivery EXCEPT ![n][h].phase = "log",
                                         ![n][h].ok = ok]
      BY <2>2 DEF Post
    <3>2. /\ delivery'[n][h] =
               [delivery[n][h] EXCEPT !.phase = "log", !.ok = ok]
          /\ \A m \in Emissions, g \in Hooks :
               g # h \/ m # n => delivery'[m][g] = delivery[m][g]
      BY <3>1 DEF TypeOK
    <3>3. /\ delivery'[n][h].phase = "log"
          /\ delivery'[n][h].attempt = delivery[n][h].attempt
      BY <2>a, <3>2 DEF Delivery
    <3>4. \A log : Logged(n, delivery[n][h], log) =>
                     Logged(n, delivery'[n][h], log)
      BY <2>2, <3>3 DEF Logged, Post, At
    <3>5. rows' = rows /\ faults' = faults
      BY <2>2 DEF Post
    <3> QED
      BY <3>2, <3>4, <3>5, LogKept
  <2>3. CASE Log(n, h)
    <3>1. faults' = faults \/ faults' = faults + 1
      BY <2>3 DEF Log
    <3>2. CASE faults' = faults
      <4>1. /\ RowsOf(n, h)' = RowsOf(n, h) \cup {LastRow(n, delivery[n][h])}
            /\ \A m \in Emissions, g \in Hooks : g # h \/ m # n =>
                 RowsOf(m, g)' = RowsOf(m, g)
        BY <2>3, <3>2, LogRows
      <4>2. /\ delivery'[n][h] = AfterAttempt(delivery[n][h])
            /\ \A m \in Emissions, g \in Hooks : g # h \/ m # n =>
                 delivery'[m][g] = delivery[m][g]
            /\ delivery[n][h].phase = "log"
        BY <2>3 DEF Log, TypeOK, At
      <4>3. ASSUME faults = 0
            PROVE  Logged(n, delivery'[n][h], RowsOf(n, h)')
        <5>1. Logged(n, delivery[n][h], RowsOf(n, h))
          BY <4>3 DEF LogInv
        <5> QED
          BY <2>a, <4>1, <4>2, <5>1, LogOnward
      <4>4. ASSUME faults = 0, NEW m \in Emissions, NEW g \in Hooks,
                   g # h \/ m # n
            PROVE  Logged(m, delivery'[m][g], RowsOf(m, g)')
        BY <4>1, <4>2, <4>4 DEF LogInv
      <4>5. faults = 0 => \A m \in Emissions, g \in Hooks :
              Logged(m, delivery'[m][g], RowsOf(m, g)')
        BY <4>3, <4>4
      <4> QED
        BY <3>2, <4>5 DEF LogInv, Logged
    <3> QED
      BY <1>g, <3>1, <3>2
  <2>4. CASE Mark(n, h) /\ faults' # faults
    BY <1>g, <2>4 DEF Mark
  <2> QED
    BY <1>4, <2>1, <2>2, <2>3, <2>4 DEF Step
<1>5. CASE Crash
  BY <1>5, <1>g DEF Crash
<1>6. ASSUME NEW h \in Hooks, Ping(h) PROVE LogInv'
  BY <1>3, <1>6, WebhooksAssumption DEF WebhooksAssumption, Ping
<1> QED
  BY <1>1, <1>2, <1>3, <1>4, <1>5, <1>6 DEF Next

\* The first k failed attempts make k rows.
LEMMA FailedCount ==
  ASSUME NEW n, NEW k \in Nat
  PROVE  Cardinality(FailedRows(n, k)) = k
<1> DEFINE f == [a \in 1 .. k |->
                   [emission |-> n, attempt |-> a, ok |-> FALSE]]
<1>1. f \in Bijection(1 .. k, FailedRows(n, k))
  <2>1. f \in Surjection(1 .. k, FailedRows(n, k))
    BY DEF FailedRows, Surjection
  <2>2. \A a, b \in 1 .. k : f[a] = f[b] => a = b
    OBVIOUS
  <2> HIDE DEF f
  <2>3. f \in Injection(1 .. k, FailedRows(n, k))
    BY <2>1, <2>2 DEF Injection, IsInjective, Surjection
  <2> QED
    BY <2>1, <2>3 DEF Bijection
<1>2. ExistsBijection(1 .. k, FailedRows(n, k))
  BY <1>1 DEF ExistsBijection
<1>3. IsFiniteSet(1 .. k) /\ Cardinality(1 .. k) = k
  BY FS_Interval
<1> QED
  BY <1>2, <1>3, FS_Bijection

\* What the rows of a delivery that is done say of it.
LEMMA LogTells ==
  ASSUME NEW n, NEW d \in Delivery, NEW log, d.phase = "done",
         Logged(n, d, log)
  PROVE  /\ {r.attempt : r \in log} \in {{}, 1 .. d.attempt}
         /\ d.ok => /\ {r \in log : r.ok} = {r \in log : r.attempt = d.attempt}
                    /\ {r \in log : r.ok} # {}
         /\ ~d.ok => /\ {r \in log : r.ok} = {}
                     /\ Cardinality(log) \in {0, MaxAttempts}
<1>a. d.attempt \in Nat /\ d.attempt >= 1 /\ d.attempt - 1 \in Nat
  BY WebhooksAssumption DEF WebhooksAssumption, Delivery, Attempts
<1>b. (d.attempt - 1) + 1 = d.attempt
  BY <1>a
<1>1. CASE log = {} /\ ~d.ok
  BY <1>1, FS_EmptySet
<1>2. CASE /\ log = FailedRows(n, d.attempt - 1) \cup {LastRow(n, d)}
           /\ ~d.ok => d.attempt = MaxAttempts
  <2>1. \A r \in FailedRows(n, d.attempt - 1) :
          r.ok = FALSE /\ r.attempt \in 1 .. (d.attempt - 1)
    BY DEF FailedRows
  <2>2. LastRow(n, d).ok = d.ok /\ LastRow(n, d).attempt = d.attempt
    BY DEF LastRow
  <2>3. LastRow(n, d) \in log
    BY <1>2
  <2>4. {r.attempt : r \in log} = 1 .. d.attempt
    <3>1. ASSUME NEW r \in log PROVE r.attempt \in 1 .. d.attempt
      BY <1>2, <1>a, <2>1, <2>2
    <3>2. ASSUME NEW a \in 1 .. d.attempt PROVE \E r \in log : r.attempt = a
      <4>1. CASE a = d.attempt
        BY <2>2, <2>3, <4>1
      <4>2. CASE a # d.attempt
        <5>1. a \in 1 .. (d.attempt - 1)
          BY <1>a, <4>2
        <5>2. [emission |-> n, attempt |-> a, ok |-> FALSE] \in log
          BY <1>2, <5>1 DEF FailedRows
        <5> QED
          BY <5>2
      <4> QED
        BY <4>1, <4>2
    <3> QED
      BY <3>1, <3>2
  <2>5. CASE d.ok
    <3>1. \A r \in log : r.ok <=> r.attempt = d.attempt
      <4>1. ASSUME NEW r \in FailedRows(n, d.attempt - 1)
            PROVE  ~r.ok /\ r.attempt # d.attempt
        <5>1. r.ok = FALSE /\ r.attempt \in 1 .. (d.attempt - 1)
          BY <2>1
        <5>2. d.attempt \notin 1 .. (d.attempt - 1)
          BY <1>a
        <5> QED
          BY <5>1, <5>2
      <4> QED
        BY <1>2, <2>2, <2>5, <4>1
    <3>2. LastRow(n, d) \in {r \in log : r.ok}
      BY <2>2, <2>3, <2>5
    <3> QED
      BY <2>4, <2>5, <3>1, <3>2
  <2>6. CASE ~d.ok
    <3>0. d.ok = FALSE
      BY <2>6 DEF Delivery
    <3>1. {r \in log : r.ok} = {}
      BY <1>2, <2>1, <2>2, <3>0
    <3>2. LastRow(n, d) = [emission |-> n, attempt |-> d.attempt, ok |-> FALSE]
      BY <3>0 DEF LastRow
    <3>3. log = FailedRows(n, d.attempt)
      BY <1>a, <1>b, <1>2, <3>2, OneMore
    <3>4. Cardinality(log) = MaxAttempts
      BY <1>a, <1>2, <2>6, <3>3, FailedCount
    <3> QED
      BY <2>4, <2>6, <3>1, <3>4
  <2> QED
    BY <2>5, <2>6
<1> QED
  BY <1>1, <1>2 DEF Logged

\* The delivery log tells how every delivery went, as long as no write failed
\* and no process died: with retries that overlap, other emissions of the same
\* subscription and rows of others between its own.
THEOREM LogAlwaysTells == Spec => []LogTellsOutcome
<1>1. Init => TypeOK /\ HealthInv /\ LogInv
  BY InitTypeOK, InitHealth, InitLog
<1>2. TypeOK /\ HealthInv /\ LogInv /\ [Next]_vars
        => (TypeOK /\ HealthInv /\ LogInv)'
  BY NextTypeOK, NextHealth, NextLog
<1>3. TypeOK /\ LogInv => LogTellsOutcome
  <2> DEFINE rs(n, h) == RowsOf(n, h)
  <2> SUFFICES ASSUME TypeOK, LogInv, faults = 0,
                      NEW n \in Emissions, NEW h \in Hooks, At(n, h, "done")
               PROVE
                 LET d == delivery[n][h]
                     successes == {r \in rs(n, h) : r.ok}
                 IN /\ {r.attempt : r \in rs(n, h)} \in {{}, 1 .. d.attempt}
                    /\ d.ok =>
                         /\ successes = {r \in rs(n, h) : r.attempt = d.attempt}
                         /\ successes # {}
                    /\ ~d.ok => /\ successes = {}
                                /\ Cardinality(rs(n, h)) \in {0, MaxAttempts}
    BY DEF LogTellsOutcome
  <2>1. delivery[n][h] \in Delivery /\ delivery[n][h].phase = "done"
    BY DEF TypeOK, At
  <2>2. Logged(n, delivery[n][h], RowsOf(n, h))
    BY DEF LogInv
  <2> QED
    BY <2>1, <2>2, LogTells
<1> QED
  BY <1>1, <1>2, <1>3, PTL DEF Spec

=============================================================================
