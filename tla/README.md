# Lifted Sign in TLA+

Lifted Sign is an electronic-signature service: a FastAPI application
(`src/sign/`, 16k lines of Python) over SQLite or Postgres and a directory of
PDF files. This directory holds TLA+ modules of its control logic, the TLC
configurations that check them, and proofs checked by TLAPS.

Why a model is worth having here: every handler runs in threads
(`asyncio.to_thread`), reads its rows outside any transaction, decides in
Python, and writes in one or several transactions whose `UPDATE`s mostly do not
repeat the decision. Files are written before rows. Background threads deliver
webhooks and an hourly poller expires envelopes. The process may stop anywhere.
The test suite runs handlers one after the other.

## 1. The system

| part | state it keeps | operations | talks to |
|---|---|---|---|
| **Signing lifecycle** `esign.py` 2273-3700 | `agreements` (status, sent_at, sealing_at, executed_path), `agreement_signers` (status, token, consent, challenge, signature) | `send`, `remind`, `void`, `signing_payload`, `record_consent`, `withdraw_consent`, `submit_signature`, `decline`, `finalize`/`_seal_and_complete`, `sweep_expired` | webhooks (`emit`), mailer, PDF stamping |
| **Draft editing** `esign.py` 373-1500 | the source PDF, `doc_hash`, `edited_pages`, `agreement_fields` | delete, reorder, rotate, add pages; add texts, redact, edit text; `place_fields`, `autodetect_prefill_owned`; the freeze in `send` | `pdf_ops`, `pdf_editext`, `pdf_redact` |
| **Sender API** `routers/mysign.py`, `http_helpers.py`, `sign_api_keys.py` | API keys | create, signers, fields, order, send, void, delete, templates, keys; the gates before them | lifecycle, editing, accounts |
| **Templates** `esign.py` 1503-1892 | `esign_templates` | save from an agreement or a layout, instantiate | editing |
| **Accounts and sign-in** `sign_accounts.py`, `sign_portal_auth.py`, `webauth.py`, `routers/portal.py` | `sign_accounts` (totp_secret, session_ver, status), single-use markers in `settings` | magic link, phone code, Google, second factor, logout | throttles, mailer |
| **Operator console** `sign_ops.py`, `routers/ops.py` | - | suspend, reinstate, purge of test accounts | accounts, lifecycle |
| **Access lock** `esign_access.py` 57-228 | `auth_limits`, `auth_rate_limits` (`db.py`), `challenge_passed_at` | `verify_challenge` | asked by every signer handler |
| **Envelope sessions and codes** `esign_access.py` 231-470, `routers/envelope.py` | a cookie with the agreement's epoch, one-time codes in `settings` | code sent and entered, Google's return, switch, challenge, page, downloads | access lock, mailer |
| **Webhooks** `webhooks.py`, `routers/webhooks.py` | `sign_webhooks` (secret, active, failure_count), `sign_webhook_deliveries`; threads | create, rotate, delete, `emit`, ping, `_deliver_sync`, `_record_delivery`, `_mark_result` | called by the lifecycle after its commits |
| Shell and the rest | - | start-up, middleware, rendering, mail, configuration | - |

What is hard in it, with the line where it bites, is the list `hazards` of
`PROJECT.json`. In short:

* **Interleaving.** Gates are read long before the write they guard. Only the
  claim of `finalize`, the `UPDATE` of `sweep_expired` and `claim_once` repeat
  their condition.
* **Crashes.** The last signature is durable before the seal starts; a seal that
  dies leaves `sealing`; a page operation that dies leaves a new file with old
  rows; webhook deliveries exist only in memory; a purge may die half-way.
* **Timeouts and retries.** A claim is stale after 120 s; a link and an envelope
  die after 60 days; a signer who posts again retries the seal; a delivery is
  posted up to `_MAX_ATTEMPTS` times; throttles lock and lapse.
* **Stale values.** `finalize` seals what it read before it claimed; a session
  is minted from a row read before; sign-in decides about the second factor from
  the account it found; `get_agreement` reads three tables one by one.
* **Arithmetic.** Each page operation renumbers fields and flatten marks by a
  map of its own; templates turn signer ids into positions and back.

What makes each part correct:

* lifecycle: nothing is sealed without every signature, nobody signs out of turn
  or without evidence, one seal, closed envelopes stay closed, a fully signed
  envelope completes;
* editing: a field stays on the page it was put on, what is sent has no
  recoverable old text, and it never changes again;
* sender API: a field stays its party's, whoever is asked to sign has a link,
  what is out is kept, nothing is done for an account or with a credential that
  no longer stands when it was last looked at, no document outlives its owner;
* sign-in: a link opens one session, nothing goes round the second factor, a
  suspension ends every session, a code is accepted once;
* access lock: a bounded number of guesses, nobody locked out by somebody else;
  a session or page opens for the answer to the lock that is set now;
* webhooks: health counters and log agree with what was delivered, and every
  delivery ends.

## 2. The modules

| module | models | stands on |
|---|---|---|
| `Envelope` | the signing lifecycle of one envelope | - |
| `SignatureLedger` | what the lifecycle promises, with no handlers in it | - |
| `DraftPages` | pages, field placement and freezing of one draft | - |
| `DraftApi` | the sender's requests over an account's drafts and template | - |
| `SignIn` | how one sender gets in and is put out | `AuthLimits` |
| `AccessLock` | `verify_challenge` of one signer | `AuthLimits` |
| `EnvelopeAccess` | how one signer comes back to its envelopes | `AuthLimits` |
| `AuthLimits` | the two throttles of `db.py`, as operators on their rows | - |
| `Webhooks` | one owner's subscriptions and their deliveries | - |
| `EnvelopeProofs`, `EnvelopeSealProofs` | theorems about `Envelope`; the second holds those on seals and the refinement of `SignatureLedger` | each the one before |
| `DraftPagesProofs`, `DraftApiProofs`, `SignInProofs`, `AccessLockProofs`, `EnvelopeAccessProofs`, `WebhooksProofs` | theorems about the modules they are named for | their module |
| `MC...` | the instances that TLC checks | |

An operator named `Op_Variant` is `Op` with a plausible bug in it. No
specification uses one; each property is known to fail when some `Op` is
replaced by its variant. Comments call a variable or field *history* when the
code has no such value and only a property reads it.

In every module a handler is split where another thread can come between: each
read that is used later, and each commit, is an action. `job[w]` is what thread
`w` is doing, with the values it has read and will still use. `Crash(w)` ends a
handler anywhere; what it has committed stays.

### Envelope

State: `agr` is the agreements row, `signer` the signer rows. `invited`,
`announced` record mails and webhook events. `dispatches` and `faults` are
bounds.

`submit_signature` is `SubmitCheck` (all its gates, in the order of the code, on
rows read now), `SubmitCommit` (field values and signature), `Count` (how many
are left, read again, and the `signer.signed` event), then `Cascade` or
`FinalizeRead`, `Claim`, `SealCommit`, `EmitAndMail`. `SealFails` is the
exception path that gives the claim back. A signer that posts again takes
`Resubmit`.

Time is two flags: `elapsed` (60 days since `sent_at`; the link's window and the
envelope's, which the code keeps equal) and `stale` (120 s since `sealing_at`).
A signature is a number: how often `signature_id` has been minted, so that "the
executed copy bears the signature the row holds" can be said.

Abstracted: values of fields (a submission has its required fields), the audit
log, mail contents, the stamping and certification of the PDF (one step that
commits or raises), `SELECT`s that only format an answer.

### SignatureLedger

The abstract specification: signatures are only added, in turn; the envelope is
claimed and completed only with all of them; the executed copy, written once,
bears all of them. It also says which races it does NOT exclude: `Dispatch` may
overwrite a void that slipped in before `send` commits, and `Complete` may
overwrite a void or a decline during the seal. Both are in the code.

### DraftPages

A page is its identity, its rotation, whether it has a text layer, and whether
old text lies recoverable under a cover; a field is the page number it is stored
with, the page it was put on, how far it is turned and whether it is a prefill
field. A page operation is `OpGate` (the draft gate), `OpRead` (read the file,
compute the new bytes), `OpWrite` (the file), `OpCommit` (fields,
`edited_pages`, `doc_hash`). `place_fields` and the detection of prefill fields
read the document and then store the layout. `send` is `SendGate`, `SendRead`
(flatten the marked pages), `SendFreeze` (file) and `SendCommit`.
`delete_draft_owned` unlinks files and then removes rows. A `Crash` in a write
may leave the file cut short.

Which maps an operation applies is translated per operation: `delete_page` drops
the fields of the page and shifts the others, `reorder_pages` applies the
inverse permutation, `rotate_page` turns fields of its page, `edit_texts` adds
its pages to `edited_pages`.

Abstracted: text is a property of a whole page, and the anchor and the merge
token of a document are found on every page that has text; directions of text
runs, glyphs and coordinates are not there.

### DraftApi

`acct` is the account with its session cookie and API keys, `doc` the
agreements with their signer and field rows, `template` the one template,
`purge` the operator's purge. A request starts as `Post...`, passes
`Authenticate` (and, for a key, `Resolve`, after the slow hash), `Own` or
`ReadRow`, and goes through the reads of `get_agreement` (`ReadRow`, `ReadRows`,
`ReadLayout`) to its commits (`PutSigners`, `PutFields`, `SendCommit`,
`VoidRow`, `RemoveRows`, `Insert`, ...). Signer rows have ids from one counter,
as `AUTOINCREMENT` gives them; the party of an id is remembered, so that "whose
field is this" can be asked after signers were replaced, a template was saved
and another draft was made from it with other people.

### SignIn

`acct` is the `sign_accounts` row; `begun`, `claimed`, `mailed`, `half`,
`sessions` are links, markers and cookies that exist. The three ways in share
`Lookup`, `Create` and the end (`AskCode` for an account with an authenticator,
`Grant` for others), and differ between them as the code does: only the link is
`Claim`ed, only Google drops the phone of an unproven address, only the phone's
sign-up mails a verification link. The second factor is `AskLock`, `Match`
(window and marker), `Spend` (the marker is written), `Record`, and then what
the code was for. `Suspend` and `Bump` are two steps, as are the two writes of
`sign_ops.set_status`.

### AccessLock and AuthLimits

One signer, several addresses, several threads. `AskLock`, `AskRate`, `Compare`,
`Record` and `Audit` are the database accesses of `verify_challenge` in order.
`wrong[a]` is a history variable: the wrong answers compared for address `a`
since its count last started afresh. `AuthLimits` gives the upserts as functions
of a row, since each is one atomic statement.

### EnvelopeAccess

`env[e]` is an agreement with the signer's lock (`locked`, and `conf`, which
counts how often it was set), the mark of a right answer (`pass`) and the
once-only events; `otp[e]` the email code. A session keeps the epoch and whether
the lock was open as its request read them. `Configure` and `Bump` are the two
transactions of `set_signer_challenge`. The code of an email is `AskLimit`,
`WriteCode`, `MailCode`, `MarkSent` and, when it is entered, `AskFresh`,
`Compare`, `Spend`, `RecordCode`, `Unmark`. `ReadEpoch`, `ReadLock` and `Mint`
are the reads behind a new session. The throttles of the answer are
`AccessLock`'s; here they are one refusal.

### Webhooks

`hook` is the subscription row, `delivery[n][h]` the thread that delivers the
n-th emission to subscription `h`, `rows` the delivery log. `Emit` starts a
thread for each active subscription that wants the event, with the secret as
read; `Ping` is the test route, which goes to all of them. A thread is `Refuse`
(the address check) or `Post`, `Log`, again `Post`, and `Mark`. `Log` and `Mark`
may fail, as the code swallows their exceptions. `Crash` kills all threads.

### How they fit

The modules meet in rows that each abstracts to what it needs. `DraftPages` and
`DraftApi` end where `Envelope` starts: at the commit of `send`. `AccessLock`
decides what `PassChallenge` of `Envelope` and `AnswerRight` of `EnvelopeAccess`
leave open. `SignIn` says when a session stands, of which `DraftApi` keeps one
flag. `Emit` of `Webhooks` is what `announced` of `Envelope` collects.

## 3. What is checked

All runs use small instances. Every cfg sets `CHECK_DEADLOCK FALSE`, since
requests are bounded and a system nobody asks anything of really rests.

| run | question | bounds |
|---|---|---|
| `serial` | handlers one after the other, every endpoint, stalled seals, two faults: does the lifecycle keep its records consistent? | 2 signers, 1 thread, 2 dispatches, 2 signatures each, 2 faults |
| `sequential` | two handlers interleaved with a fault: order, exclusion and uniqueness of seals, refinement of `SignatureLedger` | 2 signers, 2 threads, 1 dispatch, 1 fault |
| `live` | does a claimed, and a fully signed, envelope get on? | 2 signers, 2 threads, 2 faults |
| `draft` | every sequence of four requests of one author, with a handler that dies | upload of 2 pages, 3 at most, 4 requests, 1 fault |
| `draft_api` | requests over two drafts and a template, under suspension, key revocation, void and purge | 2 documents, 2 people, 3 requests (the operator's among them), 2 at a time, 1 crash |
| `sign_in` | every way in and out, and the authenticator | 1 link, 4 requests, 2 at a time, 2 clock steps, lock after 2, 1 crash |
| `access_lock` | answers from two addresses in flight together | 2 addresses, 2 threads, lock after 2, window of 4, 6 answers, 2 lapses, 1 fault |
| `return_view` | the ways back to two envelopes, while the sender changes locks and voids | 2 envelopes, 4 requests, 2 at a time, lock after 2, 1 fault |
| `deliveries` | overlapping deliveries to a subscription that is created, rotated, disabled and deleted meanwhile | 1 subscription, 3 emissions, 2 attempts, limit 2, 1 fault |

Why the bounds are enough. Two threads are the least that race, and the races of
this code are between a read and a write of one request and the write of one
other. Two signers are the least that have an order and a "last" one, and that
can tie. Limits (attempts, disable threshold, locks) are set to 2 or a little
more so that each is reached and passed; three emissions let two overlap while a
third settles the counter; six answers exceed the rate window of four. Three
pages are the least on which a reorder differs from its inverse, and four
requests the least that edit, reorder, delete and send. Four requests of
`return_view` are: a code or Google for a session, a lock, an answer, a change
of the lock; of `sign_in`: in, arm, in again, out. Three of `draft_api` are:
save, replace, use. A fault budget of one or two puts a crash at every point and,
where there are two, a second one into its recovery.

Properties of `serial` are those that hold for handlers that run one after the
other and not always otherwise; the properties of the other runs hold under
interleaving, and name in their text the one situation they except, if the code
has one. For `FieldsStayWithTheirParty` that is a field marked `loose`: its
signer was replaced while a template was saved or used, and it has fallen to
nobody or to the first role. For `SentIsKept` it is a request that had found a
draft before the send (`late`); for `SentWithLinks` signers replaced during the
send (`crossed`); for `LockHolds` a change of the lock between its two
transactions (or torn there by a crash) and a sign-in that straddles it; for
`CodeSpentOnce` and `CodeAcceptedOnce` two requests inside the same
compare-and-clear.

### Disagreements between the code and what it says of itself

Three runs each check one statement of the repository and are expected to fail.
`findings` in `PROJECT.json` quotes the statement and the line.

| run | property | what happens |
|---|---|---|
| `withdraw_race` | `CompletedAllSigned` | a withdrawal commits during the seal, whose final `UPDATE` completes the envelope all the same |
| `stranded` | `SealingEnds` | a seal dies at the end of the window: retries are refused as expired, the sweep does not look at `sealing` |
| `google_signup` | `GoogleIsVerified` | an account created by Google sign-in is not marked verified |

Seen by changing a configuration: with `SealMayStall = TRUE` in
`Envelope_sequential.cfg` a seal slower than 120 s is repeated (`SealedOnce`,
`OneSealer`); with `"remind"` among its `Ops`, `remind` mails signers whose turn
has not come (`InvitedInTurn`); with two workers in `Envelope_serial.cfg` a
second submission of one signer overwrites the row after the seal
(`ExecutedIsRecorded`; esign.py 2846, against the docstring at 3625); with two
workers in `Draft_pages.cfg` the later of two page operations undoes the earlier
one (`FlatUnlessTorn`).

Met while modelling, and modelled as the code is:

* two `send` calls that have both read `draft` both commit; the second replaces
  the links that the first has mailed (esign.py 2329 and 2407);
* a send that is late overwrites a void, and `void` voids a draft as well;
* `send` does not ask whether fields point at signers that exist;
* `mysign_send` replaces the message of a document that is already out before
  `send` refuses it (mysign.py 587);
* a text edit that dies between file and rows leaves a cover that `send` does
  not flatten (esign.py 493, against 491 and 2347);
* `place_fields` answers ok also when `set_fields` has refused a locked
  document;
* a template field whose signer is missing becomes the first role's (esign.py
  1576), and an archived template can still be used;
* `withdraw_consent` emits no webhook; `EVENT_ENVELOPE_VIEWED` is never emitted;
* `rotate_secret` leaves `active` alone, while webhooks.py 24-26 says that
  rotating re-enables; a delivery in flight goes on with the old secret
  (webhooks.py 567, against guide 12);
* the test ping of one subscription goes to every matching one of the owner;
* the executed copy by signing link asks for completion only, not for the lock.

### Fairness

`Envelope!Fairness`: a thread that has accepted a request goes on (weak fairness
of `Continue`; the code has no lock or queue on which it could wait for ever), and
clocks advance (`ClaimGoesStale`). Nobody is obliged to make a request:
`RetrySpec` alone adds that a signer whose submission did not complete the
envelope posts it again, strongly fair because the thread pool may be busy in
between. Faults are never fair. `Webhooks!FairSpec` says that a delivery thread
that runs goes on. The other modules state no liveness: their requests end after
a fixed number of steps.

## 4. What is proved

Every safety property of the passing runs, invariants and action properties, is
a theorem, for all values of the constants:

| theorem | says | assuming |
|---|---|---|
| **`Envelope`** | | |
| `TypeCorrect` | `Spec => []TypeOK` | |
| `EverySealHasEverySignature` | `[]SealedByAll` | |
| `SignaturesComeInOrder` | `[]SignedInOrder` | |
| `SignaturesHaveEvidence` | `[]SignedWithEvidence` | |
| `InvitationsComeInTurn` | `[]InvitedInTurn` | no `remind` among `Ops` |
| `SealsExclude`, `SealsOnce` | `[]OneSealer`, `[]SealedOnce` | `MaxDispatches <= 1`, `SealMayStall = FALSE` |
| `EnvelopeImplementsLedger` | every behaviour is one of `SignatureLedger` | the same |
| `CompletedStaysSigned` | `[]CompletedAllSigned` | at most one worker |
| `ExecutedStaysRecorded` | `[]ExecutedIsRecorded` | at most one worker |
| **`DraftPages`** | | |
| `PagesTypeCorrect` | `[]TypeOK` | |
| `FieldsAlwaysStayPut` | `[]FieldsStayPut` | one worker |
| `SentAlwaysFlat` | `[]FlatUnlessTorn` | one worker |
| `SentNeverChanges` | `SentIsImmutable` | one worker |
| **`DraftApi`** | | |
| `TypeCorrect` | `[]TypeOK` | |
| `FieldsAlwaysStay` | `[]FieldsStayWithTheirParty` | |
| `NoneOutlivesOwner` | `[]NoOrphans` | |
| `EffectsAlwaysAuthorised` | `EffectsAuthorised` | |
| `SentAlwaysHasLinks` | `[]SentWithLinks` | |
| `SentAlwaysKept` | `SentIsKept` | |
| **`SignIn`** | | |
| `SignInTypeCorrect`, `LinkOpensOneSession`, `AuthenticatorIsAsked`, `SuspensionIsFinal`, `CodeIsSpentOnce` | `[]` of `TypeOK`, `LinkOpensOnce`, `NoWayRound`, `SuspensionEndsSessions`, `CodeAcceptedOnce` | |
| **`AccessLock`** | | |
| `LockTypeCorrect`, `GuessesAreBounded`, `LocksAreEarned`, `LocksComeInTime` | `[]` of `TypeOK`, `GuessesBounded`, `LockedByOwnAnswers`, `LockedInTime` | |
| **`EnvelopeAccess`** | | |
| `TypeCorrect`, `LockAlwaysHolds`, `PassAlwaysCurrent`, `CodeAlwaysSpentOnce`, `EventsAlwaysBounded` | `[]` of `TypeOK`, `LockHolds`, `PassIsCurrent`, `CodeSpentOnce`, `EventsBounded` | |
| **`Webhooks`** | | |
| `WebhooksTypeCorrect` | `[]TypeOK` | |
| `OnlyFailuresDisable` | `[]DisabledByDeliveries` | |
| `LogAlwaysTells` | `[]LogTellsOutcome` | |

The arguments:

* **Evidence.** `SealedByAll` is not inductive: a worker decides in `Count` or
  `Resubmit` and acts later. `EvidenceInv` carries the decision along: a worker
  from `finalize` on knows that everybody has signed, one at `claim` or `seal`
  holds a copy with all signatures, one at `submit` knows its signer's evidence
  and turn. It survives interleaving because `signature`, `consent` and
  `passed` never go back. That is also why it needs no assumption on sends,
  stalls or faults.
* **Seals.** `DispatchInv` (one dispatch: a worker about to send means no link
  exists, so nobody acts as a signer) keeps a late `SendCommit` from reopening a
  sealing envelope. `ClaimInv` then says: while somebody seals, the status is
  not claimable and the claim is not stale. Without the assumptions both
  theorems are false, as section 3 tells.
* **Ledger.** `LedgerInv` adds what the abstract guards ask of each phase
  (no seal yet while sealing, status when claimed); each action is then shown to
  be one ledger step or a stutter.
* **One thread.** `CompletedAllSigned` and `ExecutedIsRecorded` are false with
  two (section 3). `SerialInv` is why they hold with one: a worker about to
  write knows that the rows still are what it read, since nobody else writes
  (`SerialJob`), and no row of a sealing, completed or executed envelope is
  behind the copy (`RowsAgree`). Sends, stalls and faults are not restricted.
* **Pages.** Each operation moves the bytes by one map and the rows by another.
  `Moves(op, old, new)` says that the second follows the first: a page that the
  rows' map keeps is there, with its identity and turned as its fields will be,
  and every cover is on a page that some mark is mapped to. One lemma per
  operation proves it (`OpMoves`); the deletion is arithmetic, the reorder needs
  that `CHOOSE` inverts a permutation. `MovesFollow` draws the consequence for
  rows that pointed rightly. `PagesInv` carries it through the phases: between
  the file and the rows it is the rows *to be written* that point into the file;
  what `send` is about to freeze is flat. `StatusInv` says that no request runs
  once the draft is sent or gone, which is also all of `SentNeverChanges`.
* **Sender's requests.** `Whole` is the shape of the rows (every signer row has
  an id that was issued, ids are not issued twice) with `FieldInv`: a field is
  good where it is stored, and where a request carries it: against the ids of
  its agreement, or against the roles of its template, as the request's phase
  has it. A lemma per action says what it does to the request and to the rows,
  and the other invariants rest on those: `OrphanInv` (while an owner is purged,
  each document is one that was looked up or was made since), `AuthInv` (what a
  request has looked at still stands, or is noted as withdrawn), `LinkInv` (a
  send that has read the signers has a link for each, or the document is noted
  as crossed). `SentIsKept` and `EffectsAuthorised` are about steps; they
  follow from these invariants, action by action.
* **Access lock.** `GuessesBounded` is not inductive: nothing in it stops the
  requests that are past the question when the lock is set. `LockInv` counts
  them. Before the lock, the wrong answers compared are those recorded plus those
  about to be. Setting the lock finds `FailLimit - 1` recorded; this request,
  the other unrecorded ones and the pending ones are together at most all
  workers, and from then on no request of the address gets past the question.
* **Return to an envelope.** `TypeOK` needs `Placed`: a request is in a phase of
  its own handler. `LockInv` compares what a request or a session read of the
  lock with how often the lock was set, and says for each way in whether the
  lock or the epoch was read first; an epoch that was read before the lock was
  changed is behind the one that stands now, or the change is unfinished.
  `MarkInv`: the mark of a right answer, and each mark still to be written, is
  for the lock that is set now. `CodeInv`: unless two requests were between
  comparing and clearing, at most one is about to spend a code, and the code
  that stands is not a spent one. `EventInv` counts: the events logged and those
  about to be are together at most the workers, since a request inserts only if
  it found none.
* **Webhooks.** `HealthInv` bounds `failure_count` by the number of
  failed deliveries that reached `done`; `Mark` adds one to both. `LogInv` gives
  the rows of a delivery exactly: at its n-th attempt `n - 1` failed ones, then
  those and the last one.
* **Sign-in.** `TypeOK` needs `WaysIn`: only a way in reaches the claim, the
  lookup and the creation. `StepJob` says once, for every action, how a handler
  moves on, and four invariants rest on it. `LinkInv`: the winner of a claim is
  the only one to carry the link, and its cookie is not counted yet. `RoundInv`:
  a request that met an armed account throughout has read that it is armed, or
  is still to read it, or is on its way as a handler that did not create the
  account. `CutInv`: a cookie that a suspension cut is of a version gone by, or
  the suspension is still to move the version. `CodeInv`: with one code at a
  time between read and write, that code is above the marker and the codes spent
  are not.

The proofs assume only the `ASSUME`s in the modules, which TLC evaluates in the
runs, and what the table states. "One worker" is what the runs `serial` and
`draft` check: handlers one after the other, which the code does not enforce,
and section 3 tells what happens without. `DraftApiAssumption` asks that the
draft that is there in the beginning has a signer, whom its field is for, and
that `"nobody"`, the mark of a field without a party, is not the name of one.

Only model-checked: liveness (`SealingEnds`, `AllSignedCompletes`,
`DeliveriesEnd`), which is out of the prover's reach, as is `ENABLED`. The
reader should also know what the theorems do not say: the situations that a
property excepts (a field marked `loose`, a `torn` draft, a `crossed` send, and
so on) are excepted in the theorem as well.

## 5. What is not modelled

* Rendering, stamping, fonts, PAdES and certificates, mail, configuration,
  start-up, middleware: byte formats and I/O. The signing key written at
  start-up is one step with one crash point.
* The audit log, but for the two events that are to be in it once.
* Of `DraftApi`: archiving templates, the SMS routes, read-only routes,
  reminders (in `Envelope`), billing and subscription status, other tenants,
  page operations (in `DraftPages`), signing in again after a suspension (in
  `SignIn`), rows of an agreement that is no longer there. Transactions are one
  step, as SQLite's single writer makes them; two replacements of one document's
  rows that overlap under Postgres are not there.
* Of `SignIn` and `EnvelopeAccess`: the functions of the SMS second factor and
  the SMS code, which nothing calls; throttles of starting (mails and codes
  sent); Google's redirect of the return page; the inbox, which only reads.
* `mark_challenge_passed`, `apply_edits` and `self_sign_link`: no router calls
  them. The status `cancelled` is never set.
* Two page operations at once: nothing in the code keeps the later from writing
  over the earlier, so there is no property to check.

## 6. Plan

Modelling is complete along the plan: the lifecycle and its ledger, webhooks,
the access lock, pages, sign-in, the return to an envelope, the sender API with
templates; and so are the theorems about what the runs check. What would say
more:

1. The seals and the ledger without `MaxDispatches <= 1`: with several sends in
   flight, which of the two properties survive, and what a ledger that allows
   the second send promises.
2. `DraftPages` with several workers: what stays true of fields and covers when
   only the operations that write the file exclude each other.
3. `GuessesBounded` composed with `EnvelopeAccess`: the answers to a lock, over
   all ways to it.
