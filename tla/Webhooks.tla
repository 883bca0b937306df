------------------------------ MODULE Webhooks ------------------------------
(***************************************************************************)
(* Outbound webhooks of ONE owner (sign/webhooks.py): subscriptions, and   *)
(* the deliveries that emit() starts for them.                             *)
(*                                                                         *)
(* emit() reads the active subscriptions that want the event and starts    *)
(* one daemon thread for each, handing it the row AS READ.  The thread     *)
(* posts, logs the attempt, posts again, and finally folds the outcome     *)
(* into the health counters of whatever row is there by then.  Nothing of  *)
(* a delivery is stored, so a process that dies takes all of them along.   *)
(*                                                                         *)
(* An operator named Op_Variant is Op with a plausible bug in it: the      *)
(* properties are tested against it, and no specification uses it.         *)
(***************************************************************************)
EXTENDS Naturals, FiniteSets

CONSTANTS
  Hooks,         \* ids of subscriptions; AUTOINCREMENT never reuses one
  Events,        \* event names
  Sent,          \* EVENT_ENVELOPE_SENT
  Wants,         \* the events each subscription selects; none: all of them
  MaxAttempts,   \* _MAX_ATTEMPTS
  DisableAfter,  \* _DISABLE_AFTER
  MaxEmits,      \* bound: events emitted
  MaxRotations,  \* bound: secrets of one subscription
  MaxFaults      \* bound: process crashes and failed database writes

ASSUME WebhooksAssumption ==
  /\ Sent \in Events
  /\ Wants \in [Hooks -> SUBSET Events]
  /\ MaxAttempts \in Nat \ {0}
  /\ DisableAfter \in Nat \ {0}
  /\ MaxEmits \in Nat
  /\ MaxRotations \in Nat
  /\ MaxFaults \in Nat

VARIABLES
  hook,      \* the sign_webhooks rows
  delivery,  \* the thread that delivers an emission to a subscription
  rows,      \* the sign_webhook_deliveries rows of each subscription
  emits,     \* emit() calls so far
  faults

vars == <<hook, delivery, rows, emits, faults>>

Emissions == 1 .. MaxEmits
Attempts == 1 .. MaxAttempts

\* exists: the row has been inserted and not been deleted; spent: it has
\* been inserted once.  secret counts the secrets minted.
HookRow ==
  [exists : BOOLEAN, spent : BOOLEAN, active : BOOLEAN, secret : Nat,
   failures : Nat]

\* ok: the last answer was 2xx.  A delivery that is "lost" died or could not
\* be counted.
Delivery ==
  [phase : {"none", "post", "log", "mark", "done", "lost"},
   attempt : Attempts, secret : Nat, ok : BOOLEAN]

NoDelivery == [phase |-> "none", attempt |-> 1, secret |-> 0, ok |-> FALSE]

Row == [emission : Emissions, attempt : Attempts, ok : BOOLEAN]

TypeOK ==
  /\ hook \in [Hooks -> HookRow]
  /\ delivery \in [Emissions -> [Hooks -> Delivery]]
  /\ rows \in [Hooks -> SUBSET Row]
  /\ emits \in 0 .. MaxEmits
  /\ faults \in Nat

Init ==
  /\ hook = [h \in Hooks |-> [exists |-> FALSE, spent |-> FALSE,
                              active |-> FALSE, secret |-> 0, failures |-> 0]]
  /\ delivery = [n \in Emissions |-> [h \in Hooks |-> NoDelivery]]
  /\ rows = [h \in Hooks |-> {}]
  /\ emits = 0
  /\ faults = 0

-----------------------------------------------------------------------------
(* The owner                                                               *)

Create(h) ==
  /\ ~hook[h].spent
  /\ hook' = [hook EXCEPT ![h] = [exists |-> TRUE, spent |-> TRUE,
                                  active |-> TRUE, secret |-> 1,
                                  failures |-> 0]]
  /\ UNCHANGED <<delivery, rows, emits, faults>>

Delete(h) ==
  /\ hook[h].exists
  /\ hook' = [hook EXCEPT ![h].exists = FALSE]
  /\ UNCHANGED <<delivery, rows, emits, faults>>

\* A new secret and nothing else: a disabled subscription stays disabled.
Rotate(h) ==
  /\ hook[h].exists
  /\ hook[h].secret < MaxRotations
  /\ hook' = [hook EXCEPT ![h].secret = @ + 1]
  /\ UNCHANGED <<delivery, rows, emits, faults>>

-----------------------------------------------------------------------------
(* emit(): a thread for every active subscription that wants the event     *)

\* A selector that names no event, or the wildcard, selects every one.
Matches(h, e) == Wants[h] = {} \/ e \in Wants[h]

Matching(e) ==
  {h \in Hooks : hook[h].exists /\ hook[h].active /\ Matches(h, e)}

Emit(e) ==
  /\ emits < MaxEmits
  /\ emits' = emits + 1
  /\ delivery' = [delivery EXCEPT ![emits + 1] =
       [h \in Hooks |->
          IF h \in Matching(e)
          THEN [NoDelivery EXCEPT !.phase = "post", !.secret = hook[h].secret]
          ELSE NoDelivery]]
  /\ UNCHANGED <<hook, rows, faults>>

\* A test ping of one subscription goes to every one that wants envelope.sent.
Ping(h) == hook[h].exists /\ Emit(Sent)

-----------------------------------------------------------------------------
(* _deliver_sync(): one thread                                             *)

At(n, h, phase) == delivery[n][h].phase = phase
Goto(n, h, phase) == delivery' = [delivery EXCEPT ![n][h].phase = phase]

\* The address check before the first POST: a host that no longer resolves
\* to a public address fails the delivery without an attempt.
Refuse(n, h) ==
  /\ At(n, h, "post")
  /\ delivery[n][h].attempt = 1
  /\ Goto(n, h, "mark")
  /\ UNCHANGED <<hook, rows, emits, faults>>

\* One POST, signed with the secret of the row as emit() read it, which the
\* endpoint acknowledges with 2xx or does not.
Post(n, h) ==
  /\ At(n, h, "post")
  /\ \E ok \in BOOLEAN :
       delivery' = [delivery EXCEPT ![n][h].phase = "log", ![n][h].ok = ok]
  /\ UNCHANGED <<hook, rows, emits, faults>>

AfterAttempt_NoLimit(d) ==
  IF d.ok
  THEN [d EXCEPT !.phase = "mark"]
  ELSE [d EXCEPT !.phase = "post", !.attempt = @ + 1]

\* 2xx ends the delivery, and so does the last attempt.
AfterAttempt(d) ==
  IF d.ok \/ d.attempt = MaxAttempts
  THEN [d EXCEPT !.phase = "mark"]
  ELSE [d EXCEPT !.phase = "post", !.attempt = @ + 1]

Log_OnlyLast(n, h) ==
  LET d == delivery[n][h]
      r == [emission |-> n, attempt |-> d.attempt, ok |-> d.ok]
  IN
  /\ At(n, h, "log")
  /\ delivery' = [delivery EXCEPT ![n][h] = AfterAttempt(d)]
  /\ rows' = IF AfterAttempt(d).phase = "mark"
             THEN [rows EXCEPT ![h] = @ \cup {r}] ELSE rows
  /\ UNCHANGED <<hook, emits, faults>>

\* The row of one attempt (_record_delivery); then the backoff.  The insert
\* may fail, which the thread ignores.
Log(n, h) ==
  LET d == delivery[n][h]
      r == [emission |-> n, attempt |-> d.attempt, ok |-> d.ok]
  IN
  /\ At(n, h, "log")
  /\ delivery' = [delivery EXCEPT ![n][h] = AfterAttempt(d)]
  /\ \/ /\ rows' = [rows EXCEPT ![h] = @ \cup {r}]
        /\ UNCHANGED faults
     \/ /\ faults < MaxFaults
        /\ faults' = faults + 1
        /\ UNCHANGED rows
  /\ UNCHANGED <<hook, emits>>

Fold_OneEarly(row, ok) ==
  IF ok
  THEN [row EXCEPT !.failures = 0]
  ELSE [row EXCEPT !.failures = @ + 1,
                   !.active = @ /\ row.failures + 2 < DisableAfter]

\* The health counters after a delivery; enough failures in a row disable.
Fold(row, ok) ==
  IF ok
  THEN [row EXCEPT !.failures = 0]
  ELSE [row EXCEPT !.failures = @ + 1,
                   !.active = @ /\ row.failures + 1 < DisableAfter]

Mark_Stuck(n, h) ==
  /\ At(n, h, "mark")
  /\ hook[h].exists
  /\ hook' = [hook EXCEPT ![h] = Fold(@, delivery[n][h].ok)]
  /\ Goto(n, h, "done")
  /\ UNCHANGED <<rows, emits, faults>>

\* _mark_result(): one transaction on the row as it is now, which may be
\* gone.  The update may fail, which the thread ignores too.
Mark(n, h) ==
  /\ At(n, h, "mark")
  /\ \/ /\ hook' = IF hook[h].exists
                   THEN [hook EXCEPT ![h] = Fold(@, delivery[n][h].ok)]
                   ELSE hook
        /\ Goto(n, h, "done")
        /\ UNCHANGED faults
     \/ /\ faults < MaxFaults
        /\ faults' = faults + 1
        /\ Goto(n, h, "lost")
        /\ UNCHANGED hook
  /\ UNCHANGED <<rows, emits>>

Running(n, h) == delivery[n][h].phase \notin {"none", "done", "lost"}

\* The process dies with all its threads.
Crash ==
  /\ \E n \in Emissions, h \in Hooks : Running(n, h)
  /\ faults < MaxFaults
  /\ faults' = faults + 1
  /\ delivery' = [n \in Emissions |-> [h \in Hooks |->
       IF Running(n, h) THEN [delivery[n][h] EXCEPT !.phase = "lost"]
                        ELSE delivery[n][h]]]
  /\ UNCHANGED <<hook, rows, emits>>

-----------------------------------------------------------------------------
Step(n, h) == Refuse(n, h) \/ Post(n, h) \/ Log(n, h) \/ Mark(n, h)

Next ==
  \/ \E h \in Hooks : Create(h) \/ Delete(h) \/ Rotate(h) \/ Ping(h)
  \/ \E e \in Events : Emit(e)
  \/ \E n \in Emissions, h \in Hooks : Step(n, h)
  \/ Crash

Spec == Init /\ [][Next]_vars

\* A thread that runs goes on; nothing else is obliged to happen.
FairSpec ==
  Spec /\ \A n \in Emissions, h \in Hooks : WF_vars(Step(n, h))

-----------------------------------------------------------------------------
(* Properties                                                              *)

Failed(h) == {n \in Emissions : At(n, h, "done") /\ ~delivery[n][h].ok}

\* A subscription is disabled only by failed DELIVERIES of its own, at least
\* _DISABLE_AFTER of them: neither by attempts that a retry made good, nor by
\* the endpoint of another subscription (_mark_result()).
DisabledByDeliveries ==
  \A h \in Hooks :
    hook[h].spent /\ ~hook[h].active => Cardinality(Failed(h)) >= DisableAfter

RowsOf(n, h) == {r \in rows[h] : r.emission = n}

\* The delivery log tells how each delivery went, unless a write failed: a
\* delivery that counts as failed has MaxAttempts failed rows, or none if
\* its address was refused, and one that succeeded ends with its only
\* successful row (_record_delivery() against _mark_result()).
LogTellsOutcome ==
  faults = 0 =>
    \A n \in Emissions, h \in Hooks : At(n, h, "done") =>
      LET d == delivery[n][h]
          successes == {r \in RowsOf(n, h) : r.ok}
      IN /\ {r.attempt : r \in RowsOf(n, h)} \in {{}, 1 .. d.attempt}
         /\ d.ok => successes = {r \in RowsOf(n, h) : r.attempt = d.attempt}
                    /\ successes # {}
         /\ ~d.ok => /\ successes = {}
                     /\ Cardinality(RowsOf(n, h)) \in {0, MaxAttempts}

\* Every delivery that is started is counted as a success or a failure, or
\* dies with its process.
DeliveriesEnd ==
  \A n \in Emissions, h \in Hooks : Running(n, h) ~> ~Running(n, h)

=============================================================================
