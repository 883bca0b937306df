----------------------------- MODULE DraftPages -----------------------------
(***************************************************************************)
(* The pages and the field layout of ONE draft, and the snapshot that      *)
(* send() freezes: the page operations, place_fields(), the detection of   *)
(* prefill fields, delete_draft_owned() and the first half of send(), all  *)
(* of sign/esign.py.                                                       *)
(*                                                                         *)
(* Every page operation rewrites the PDF first and the rows that point     *)
(* into it second.  An in-place text edit hides the old text under a cover *)
(* and writes the page into edited_pages; send() rasterizes those pages,   *)
(* so edited_pages has to follow its pages through every later operation.  *)
(*                                                                         *)
(* A page is what the layout can be wrong about: which page it is, how far *)
(* it is turned, whether it has a text layer (in which the anchors and the *)
(* merge token of this document are found) and whether old text is         *)
(* recoverable under a cover.  Pages are counted from 1.                   *)
(*                                                                         *)
(* An operator named Op_Variant is Op with a plausible bug in it: the      *)
(* properties are tested against it, and no specification uses it.         *)
(***************************************************************************)
EXTENDS Naturals, Sequences, FiniteSets

CONSTANTS
  Workers,    \* request threads
  FirstPages, \* pages of the upload
  MaxPages,   \* bound: pages of the draft
  MaxOps,     \* bound: requests
  MaxFaults   \* bound: handlers that die

ASSUME DraftPagesAssumption ==
  /\ FirstPages \in Nat \ {0}
  /\ MaxPages \in Nat
  /\ MaxOps \in Nat
  /\ MaxFaults \in Nat

VARIABLES
  status,     \* of the agreement; "deleted": its row is gone
  source,     \* the file at source_path; <<>> if missing or cut short
  docHash,    \* doc_hash, as the bytes it is the hash of
  edited,     \* edited_pages
  fields,     \* agreement_fields: the page number each is stored with, the
              \* page it was put on, how far its rectangle is turned, and
              \* whether it is a prefill field
  frozen,     \* the file at frozen_path
  frozenHash, \* frozen_hash, as the bytes it is the hash of
  job,        \* what each worker is doing
  made,       \* pages made so far, which names the next
  torn,       \* a handler died between its file and its rows
  ops, faults

vars == <<status, source, docHash, edited, fields, frozen, frozenHash, job,
          made, torn, ops, faults>>

Positions == Nat \ {0}
Turns == 0 .. 3

Page == [id : Nat, turn : Turns, text : BOOLEAN, covered : BOOLEAN]

Field == [page : Positions, on : Nat, turn : Turns, prefill : BOOLEAN]

Pdf == Seq(Page)

NoOp == [kind |-> "none"]

NewPage(id) == [id |-> id, turn |-> 0, text |-> TRUE, covered |-> FALSE]

\* The operations an author can ask for on a document.
Orders(n) ==
  {o \in [1..n -> 1..n] : \A i, j \in 1..n : o[i] = o[j] => i = j}

Some(pages) == (SUBSET pages) \ {{}}

\* A run of text can be edited on a page that has any.
Editable(pdf) == {i \in DOMAIN pdf : pdf[i].text}

Deletions(pdf)  == {op \in [kind : {"delete"}, at : DOMAIN pdf] : Len(pdf) > 1}
Reorders(pdf)   == [kind : {"reorder"}, order : Orders(Len(pdf))]
Rotations(pdf)  == [kind : {"rotate"}, at : DOMAIN pdf, by : 1..3]
Additions(pdf)  == {op \in [kind : {"add"}] : Len(pdf) < MaxPages}
Texts(pdf)      == [kind : {"text"}, at : DOMAIN pdf]
Redactions(pdf) == [kind : {"redact"}, pages : Some(DOMAIN pdf)]
TextEdits(pdf)  ==
  [kind : {"edit"}, pages : Some(Editable(pdf)), raster : BOOLEAN]

PageOps(pdf) == UNION {Deletions(pdf), Reorders(pdf), Rotations(pdf),
                       Additions(pdf), Texts(pdf), Redactions(pdf),
                       TextEdits(pdf)}

\* Where an author wants fields: on pages, or at the at-th match of an anchor.
Placements(pdf) == [by : {"page"}, pages : Some(DOMAIN pdf)]
                     \cup [by : {"anchor"}, at : DOMAIN pdf]

Phases == {"idle", "read", "write", "commit", "layout",
           "freeze read", "freeze", "sent", "unlink", "drop"}

\* A worker: the operation and the bytes it will write, the marks that send()
\* has read, or the layout to store.
Idle == [phase |-> "idle", op |-> NoOp, bytes |-> <<>>, marks |-> {},
         layout |-> {}]

TypeOK ==
  /\ status \in {"draft", "out_for_signature", "deleted"}
  /\ {source, docHash, frozen, frozenHash} \subseteq Pdf
  /\ edited \subseteq Positions
  /\ fields \subseteq Field
  /\ \A w \in Workers :
       /\ DOMAIN job[w] = DOMAIN Idle
       /\ job[w].phase \in Phases
       /\ job[w].bytes \in Pdf
       /\ job[w].marks \subseteq Positions
       /\ job[w].layout \subseteq Field
  /\ {made, ops, faults} \subseteq Nat
  /\ torn \in BOOLEAN

Init ==
  /\ status = "draft"
  /\ source = [i \in 1..FirstPages |-> NewPage(i)]
  /\ docHash = source
  /\ edited = {}
  /\ fields = {}
  /\ frozen = <<>>
  /\ frozenHash = <<>>
  /\ job = [w \in Workers |-> Idle]
  /\ made = FirstPages
  /\ torn = FALSE
  /\ ops = 0
  /\ faults = 0

-----------------------------------------------------------------------------
(* What an operation does to the bytes and to the rows                     *)

Without(pdf, at) ==
  [i \in 1..(Len(pdf) - 1) |-> pdf[IF i < at THEN i ELSE i + 1]]

Reordered(pdf, order) == [i \in DOMAIN pdf |-> pdf[order[i]]]

Rotated(pdf, at, by) == [pdf EXCEPT ![at].turn = (@ + by) % 4]

\* One page stands for the pages of the PDF that is appended.
Merged(pdf, id) == Append(pdf, NewPage(id))

On(pdf, pages, Change(_)) ==
  [i \in DOMAIN pdf |-> IF i \in pages THEN Change(pdf[i]) ELSE pdf[i]]

\* The picture of a page, which takes its place: neither text nor cover.
Raster(page) == [page EXCEPT !.text = FALSE, !.covered = FALSE]

Redacted(pdf, pages) == On(pdf, pages, Raster)

Flattened(pdf, pages) == On(pdf, pages, Raster)

\* A cover is drawn over the old text and the new text on top of it; raster:
\* the background is not uniform, and the page is flattened then.
Replaced(pdf, pages, raster) ==
  LET Cover(page) == [page EXCEPT !.covered = TRUE]
      covered == On(pdf, pages, Cover)
  IN IF raster THEN Flattened(covered, pages) ELSE covered

\* Text that is added is text an anchor may be found in.
Written(pdf, at) == [pdf EXCEPT ![at].text = TRUE]

Rewritten(pdf, op) ==
  CASE op.kind = "delete"  -> Without(pdf, op.at)
    [] op.kind = "reorder" -> Reordered(pdf, op.order)
    [] op.kind = "rotate"  -> Rotated(pdf, op.at, op.by)
    [] op.kind = "add"     -> Merged(pdf, made + 1)
    [] op.kind = "text"    -> Written(pdf, op.at)
    [] op.kind = "redact"  -> Redacted(pdf, op.pages)
    [] op.kind = "edit"    -> Replaced(pdf, op.pages, op.raster)

AfterDelete_NoShift(at, i) == IF i = at THEN 0 ELSE i

\* Where page i is after page at is deleted; 0 is nowhere.
AfterDelete(at, i) == IF i = at THEN 0 ELSE IF i > at THEN i - 1 ELSE i

AfterReorder_Inverse(order, i) == order[i]

\* Where page i is after a reorder: order[new] = old.
AfterReorder(order, i) == CHOOSE j \in DOMAIN order : order[j] = i

\* The page of a field after op; 0 deletes the field.  Pages the operation
\* does not know of are left alone.
FieldPage(op, i) ==
  CASE op.kind = "delete" -> AfterDelete(op.at, i)
    [] op.kind = "reorder" /\ i \in DOMAIN op.order
                          -> AfterReorder(op.order, i)
    [] OTHER              -> i

FieldTurn(op, f) ==
  IF op.kind = "rotate" /\ f.page = op.at THEN (f.turn + op.by) % 4 ELSE f.turn

Remapped(op) ==
  {[f EXCEPT !.page = FieldPage(op, f.page), !.turn = FieldTurn(op, f)] :
     f \in {g \in fields : FieldPage(op, g.page) # 0}}

MarkPages_KeepDropped(op, i) ==
  {IF op.kind = "delete" THEN AfterDelete(op.at, i) ELSE i}

\* Where an entry of edited_pages goes: the mapper of the operation drops
\* what it does not know of.
MarkPages(op, i) ==
  CASE op.kind = "delete"  -> {AfterDelete(op.at, i)} \ {0}
    [] op.kind = "reorder" -> {AfterReorder(op.order, j) :
                                 j \in {i} \cap DOMAIN op.order}
    [] OTHER               -> {i}

Marked(op) ==
  (UNION {MarkPages(op, i) : i \in edited})
    \cup (IF op.kind = "edit" THEN op.pages ELSE {})

-----------------------------------------------------------------------------
At(w, phase) == job[w].phase = phase
Goto(w, phase) == job' = [job EXCEPT ![w].phase = phase]
Done(w) == job' = [job EXCEPT ![w] = Idle]

Gate_AnyStatus(w) ==
  /\ At(w, "idle")
  /\ ops < MaxOps
  /\ ops' = ops + 1

\* Every operation is for drafts only, by the row it has read first.
Gate(w) ==
  /\ At(w, "idle")
  /\ ops < MaxOps
  /\ ops' = ops + 1
  /\ status = "draft"

OpGate(w) ==
  /\ Gate(w)
  /\ Goto(w, "read")
  /\ UNCHANGED <<status, source, docHash, edited, fields, frozen, frozenHash,
                 made, torn, faults>>

\* The operation is checked against the pages of the file and computed.
OpRead(w, op) ==
  /\ At(w, "read")
  /\ source # <<>>
  /\ op \in PageOps(source)
  /\ job' = [job EXCEPT ![w].phase = "write", ![w].op = op,
                        ![w].bytes = Rewritten(source, op)]
  /\ made' = IF op.kind = "add" THEN made + 1 ELSE made
  /\ UNCHANGED <<status, source, docHash, edited, fields, frozen, frozenHash,
                 torn, ops, faults>>

OpWrite(w) ==
  /\ At(w, "write")
  /\ source' = job[w].bytes
  /\ Goto(w, "commit")
  /\ UNCHANGED <<status, docHash, edited, fields, frozen, frozenHash, made,
                 torn, ops, faults>>

OpCommit(w) ==
  /\ At(w, "commit")
  /\ docHash' = job[w].bytes
  /\ fields' = Remapped(job[w].op)
  /\ edited' = Marked(job[w].op)
  /\ Done(w)
  /\ UNCHANGED <<status, source, frozen, frozenHash, made, torn, ops, faults>>

\* The pages on which a text is found, which every page with text has: its
\* matches are counted through the pages in order.
Hits(pdf) == {i \in DOMAIN pdf : pdf[i].text}

Before(pdf, i) == {j \in Hits(pdf) : j < i}

\* The page of the at-th match: none or one.
Anchored(pdf, at) ==
  {i \in Hits(pdf) : Cardinality(Before(pdf, i)) = at - 1}

\* The pages fields are placed on.
Placed(pdf, placement) ==
  IF placement.by = "page" THEN placement.pages
                           ELSE Anchored(pdf, placement.at)

Fields(pdf, pages, prefill) ==
  {[page |-> i, on |-> pdf[i].id, turn |-> pdf[i].turn, prefill |-> prefill] :
     i \in pages}

\* The author puts fields on the document as it is shown; an anchor that is
\* not found refuses them all.
FieldsGate(w, placement) ==
  /\ Gate(w)
  /\ placement \in Placements(source)
  /\ IF Placed(source, placement) = {}
     THEN Done(w)
     ELSE job' = [job EXCEPT ![w].phase = "layout",
                             ![w].layout =
                    Fields(source, Placed(source, placement), FALSE)]
  /\ UNCHANGED <<status, source, docHash, edited, fields, frozen, frozenHash,
                 made, torn, faults>>

\* The merge token counts where it is found first.
Tokens(pdf) == {i \in Hits(pdf) : Before(pdf, i) = {}}

\* A prefill field is added for the token, unless the layout has it already.
Detect(w) ==
  /\ Gate(w)
  /\ IF Tokens(source) = {} \/ (\E f \in fields : f.prefill)
     THEN Done(w)
     ELSE job' = [job EXCEPT ![w].phase = "layout",
                             ![w].layout =
                    fields \cup Fields(source, Tokens(source), TRUE)]
  /\ UNCHANGED <<status, source, docHash, edited, fields, frozen, frozenHash,
                 made, torn, faults>>

FieldsCommit(w) ==
  /\ At(w, "layout")
  /\ fields' = job[w].layout
  /\ Done(w)
  /\ UNCHANGED <<status, source, docHash, edited, frozen, frozenHash, made,
                 torn, ops, faults>>

-----------------------------------------------------------------------------
SendGate(w) ==
  /\ Gate(w)
  /\ job' = [job EXCEPT ![w].phase = "freeze read", ![w].marks = edited]
  /\ UNCHANGED <<status, source, docHash, edited, fields, frozen, frozenHash,
                 made, torn, faults>>

\* A file that cannot be read, and a marked page out of range, abort the send.
SendRead(w) ==
  /\ At(w, "freeze read")
  /\ IF source # <<>> /\ job[w].marks \subseteq DOMAIN source
     THEN job' = [job EXCEPT ![w].phase = "freeze",
                             ![w].bytes = Flattened(source, job[w].marks)]
     ELSE Done(w)
  /\ UNCHANGED <<status, source, docHash, edited, fields, frozen, frozenHash,
                 made, torn, ops, faults>>

SendFreeze(w) ==
  /\ At(w, "freeze")
  /\ frozen' = job[w].bytes
  /\ Goto(w, "sent")
  /\ UNCHANGED <<status, source, docHash, edited, fields, frozenHash, made,
                 torn, ops, faults>>

SendCommit(w) ==
  /\ At(w, "sent")
  /\ frozenHash' = job[w].bytes
  /\ status' = "out_for_signature"
  /\ Done(w)
  /\ UNCHANGED <<source, docHash, edited, fields, frozen, made, torn, ops,
                 faults>>

\* What signers and author are shown: the snapshot if it is recorded and on
\* disk, and the source otherwise.
Presented == IF frozenHash # <<>> /\ frozen # <<>> THEN frozen ELSE source

-----------------------------------------------------------------------------
DeleteGate(w) ==
  /\ Gate(w)
  /\ Goto(w, "unlink")
  /\ UNCHANGED <<status, source, docHash, edited, fields, frozen, frozenHash,
                 made, torn, faults>>

\* frozen_path is set by the commit of send() only.
DeleteFiles(w) ==
  /\ At(w, "unlink")
  /\ source' = <<>>
  /\ frozen' = IF frozenHash = <<>> THEN frozen ELSE <<>>
  /\ Goto(w, "drop")
  /\ UNCHANGED <<status, docHash, edited, fields, frozenHash, made, torn, ops,
                 faults>>

DeleteRows(w) ==
  /\ At(w, "drop")
  /\ status' = "deleted"
  /\ edited' = {}
  /\ fields' = {}
  /\ Done(w)
  /\ UNCHANGED <<source, docHash, frozen, frozenHash, made, torn, ops, faults>>

-----------------------------------------------------------------------------
\* A handler dies, and what it has written stays.  write_bytes() truncates
\* the file first, so death in a write may leave it cut short.
Crash(w) ==
  /\ ~At(w, "idle")
  /\ faults < MaxFaults
  /\ faults' = faults + 1
  /\ source' \in {source} \cup (IF At(w, "write") THEN {<<>>} ELSE {})
  /\ frozen' \in {frozen} \cup (IF At(w, "freeze") THEN {<<>>} ELSE {})
  /\ torn' = (torn \/ At(w, "commit") \/ At(w, "drop") \/ source' # source)
  /\ Done(w)
  /\ UNCHANGED <<status, docHash, edited, fields, frozenHash, made, ops>>

Next ==
  \E w \in Workers :
    \/ OpGate(w)
    \/ \E op \in PageOps(source) : OpRead(w, op)
    \/ OpWrite(w)
    \/ OpCommit(w)
    \/ \E placement \in Placements(source) : FieldsGate(w, placement)
    \/ Detect(w)
    \/ FieldsCommit(w)
    \/ SendGate(w)
    \/ SendRead(w)
    \/ SendFreeze(w)
    \/ SendCommit(w)
    \/ DeleteGate(w)
    \/ DeleteFiles(w)
    \/ DeleteRows(w)
    \/ Crash(w)

Spec == Init /\ [][Next]_vars

-----------------------------------------------------------------------------
(* Properties                                                              *)

Sent == status = "out_for_signature"

\* Nobody is, or died, between the file and the rows that point into it.
Settled ==
  ~torn /\ \A w \in Workers : job[w].phase \notin {"commit", "drop"}

\* Whatever pages are deleted, moved, turned and added, every field is still
\* on the page, and as far turned, as its author saw, and so it is in what
\* the signers see ("a field layout can never desync from the PDF a signer
\* will see").
FieldsStayPut ==
  Settled =>
    \A f \in fields :
      /\ f.page \in DOMAIN Presented
      /\ Presented[f.page].id = f.on
      /\ Presented[f.page].turn = f.turn

\* A document that has gone out has no old text under a cover ("closing the
\* vector cover+redraw remanence"), whatever pages were edited, moved and
\* deleted in between; unless a handler died between its file and its rows.
FlatUnlessTorn ==
  ~torn /\ Sent => \A i \in DOMAIN Presented : ~Presented[i].covered

\* Once sent, neither the bytes nor the layout ever change, nor is the draft
\* deleted ("post-send immutability").
SentIsImmutable ==
  [][Sent => UNCHANGED <<status, frozen, frozenHash, fields>>]_vars
=============================================================================
