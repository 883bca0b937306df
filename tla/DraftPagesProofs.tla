-------------------------- MODULE DraftPagesProofs --------------------------
(***************************************************************************)
(* Theorems about DraftPages, for every upload and any sequence of         *)
(* operations: type correctness, and, for requests that come one after the *)
(* other, that fields stay on their pages, that no old text goes out under *)
(* a cover and that what was sent does not change.                         *)
(***************************************************************************)
EXTENDS DraftPages, FiniteSetTheorems, TLAPS

-----------------------------------------------------------------------------
(* TypeOK, as sets of functions and records                                *)

AnyOp == {NoOp} \cup UNION {PageOps(pdf) : pdf \in Pdf}

Job == [phase : Phases, op : AnyOp, bytes : Pdf, marks : SUBSET Positions,
        layout : SUBSET Field]

TypeInv ==
  /\ status \in {"draft", "out_for_signature", "deleted"}
  /\ source \in Pdf /\ docHash \in Pdf
  /\ frozen \in Pdf /\ frozenHash \in Pdf
  /\ edited \subseteq Positions
  /\ fields \subseteq Field
  /\ job \in [Workers -> Job]
  /\ made \in Nat /\ ops \in Nat /\ faults \in Nat
  /\ torn \in BOOLEAN

-----------------------------------------------------------------------------
(* Rows that point into a file                                             *)

\* Fields that are on the page, and as far turned, as their author saw.
Right(fs, pdf) ==
  \A f \in fs : /\ f.page \in DOMAIN pdf
                /\ pdf[f.page].id = f.on
                /\ pdf[f.page].turn = f.turn

\* Old text under a cover is on marked pages only.
Covering(pdf, marks) == \A i \in DOMAIN pdf : pdf[i].covered => i \in marks

\* Pages that the rows point into rightly, once op has been applied to them.
Follows(op, pdf) ==
  pdf # <<>> /\ Right(Remapped(op), pdf) /\ Covering(pdf, Marked(op))

-----------------------------------------------------------------------------
(* What an operation does to the pages, and where its maps send the rows   *)

Turned(op, i, t) ==
  IF op.kind = "rotate" /\ i = op.at THEN (t + op.by) % 4 ELSE t

\* The maps of op follow the pages of old into new.
Moves(op, old, new) ==
  /\ new \in Pdf /\ new # <<>>
  /\ \A i \in DOMAIN old : FieldPage(op, i) # 0 =>
       /\ FieldPage(op, i) \in DOMAIN new
       /\ new[FieldPage(op, i)].id = old[i].id
       /\ new[FieldPage(op, i)].turn = Turned(op, i, old[i].turn)
  /\ \A j \in DOMAIN new : new[j].covered =>
       \/ \E i \in DOMAIN old : old[i].covered /\ j \in MarkPages(op, i)
       \/ op.kind = "edit" /\ j \in op.pages

\* A sequence of pages, by its length and its pages.
LEMMA MakePdf ==
  ASSUME NEW n \in Nat, NEW g, DOMAIN g = 1 .. n,
         g = [i \in 1 .. n |-> g[i]], \A i \in 1 .. n : g[i] \in Page
  PROVE  g \in Pdf /\ (n > 0 => g # <<>>)
<1>1. g \in [1 .. n -> Page]
  OBVIOUS
<1>2. g \in Pdf
  BY <1>1 DEF Pdf
<1>3. n > 0 => g # <<>>
  <2> SUFFICES ASSUME n > 0, g = <<>>
               PROVE  FALSE
    OBVIOUS
  <2>1. 1 \in 1 .. n /\ DOMAIN g = {}
    OBVIOUS
  <2> QED
    BY <2>1
<1> QED
  BY <1>2, <1>3

LEMMA PdfPages ==
  ASSUME NEW pdf \in Pdf
  PROVE  /\ Len(pdf) \in Nat /\ DOMAIN pdf = 1 .. Len(pdf)
         /\ \A i \in DOMAIN pdf : pdf[i] \in Page
         /\ pdf # <<>> => Len(pdf) > 0
  BY DEF Pdf

\* A page in whose place there is another of the same identity and turn.
LEMMA OnPages ==
  ASSUME NEW pdf \in Pdf, NEW new, DOMAIN new = DOMAIN pdf,
         new = [i \in DOMAIN pdf |-> new[i]],
         \A i \in DOMAIN pdf :
           /\ new[i] \in Page
           /\ new[i].id = pdf[i].id /\ new[i].turn = pdf[i].turn
  PROVE  /\ new \in Pdf /\ (pdf # <<>> => new # <<>>)
         /\ \A fs : Right(fs, pdf) => Right(fs, new)
<1>1. Len(pdf) \in Nat /\ DOMAIN pdf = 1 .. Len(pdf)
      /\ (pdf # <<>> => Len(pdf) > 0)
  BY PdfPages
<1>2. new \in Pdf /\ (pdf # <<>> => new # <<>>)
  BY <1>1, MakePdf
<1>3. \A fs : Right(fs, pdf) => Right(fs, new)
  BY DEF Right
<1> QED
  BY <1>2, <1>3

LEMMA FlattenedPages ==
  ASSUME NEW pdf \in Pdf, NEW pages
  PROVE  /\ Flattened(pdf, pages) \in Pdf
         /\ pdf # <<>> => Flattened(pdf, pages) # <<>>
         /\ \A fs : Right(fs, pdf) => Right(fs, Flattened(pdf, pages))
         /\ DOMAIN Flattened(pdf, pages) = DOMAIN pdf
         /\ \A i \in DOMAIN pdf :
              /\ Flattened(pdf, pages)[i].id = pdf[i].id
              /\ Flattened(pdf, pages)[i].turn = pdf[i].turn
              /\ Flattened(pdf, pages)[i].covered =>
                   pdf[i].covered /\ i \notin pages
<1> DEFINE new == Flattened(pdf, pages)
<1>1. new = [i \in DOMAIN pdf |->
               IF i \in pages THEN Raster(pdf[i]) ELSE pdf[i]]
  BY DEF Flattened, On
<1>2. \A i \in DOMAIN pdf : pdf[i] \in Page
  BY PdfPages
<1>3. ASSUME NEW page \in Page
      PROVE  /\ Raster(page) \in Page
             /\ Raster(page).id = page.id /\ Raster(page).turn = page.turn
             /\ ~Raster(page).covered
  BY DEF Raster, Page
<1> HIDE DEF new
<1>4. DOMAIN new = DOMAIN pdf /\ new = [i \in DOMAIN pdf |-> new[i]]
  BY <1>1
<1>5. ASSUME NEW i \in DOMAIN pdf
      PROVE  /\ new[i] \in Page
             /\ new[i].id = pdf[i].id /\ new[i].turn = pdf[i].turn
             /\ new[i].covered => pdf[i].covered /\ i \notin pages
  <2>1. CASE i \in pages
    BY <1>1, <1>2, <1>3, <2>1
  <2>2. CASE i \notin pages
    BY <1>1, <1>2, <2>2
  <2> QED
    BY <2>1, <2>2
<1>6. /\ new \in Pdf /\ (pdf # <<>> => new # <<>>)
      /\ \A fs : Right(fs, pdf) => Right(fs, new)
  BY <1>4, <1>5, OnPages
<1> QED
  BY <1>4, <1>5, <1>6 DEF new

\* The pages after an in-place edit: the edited ones, or none, are covered.
LEMMA ReplacedPages ==
  ASSUME NEW pdf \in Pdf, NEW pages, NEW raster \in BOOLEAN
  PROVE  /\ Replaced(pdf, pages, raster) \in Pdf
         /\ pdf # <<>> => Replaced(pdf, pages, raster) # <<>>
         /\ DOMAIN Replaced(pdf, pages, raster) = DOMAIN pdf
         /\ \A i \in DOMAIN pdf :
              /\ Replaced(pdf, pages, raster)[i].id = pdf[i].id
              /\ Replaced(pdf, pages, raster)[i].turn = pdf[i].turn
              /\ Replaced(pdf, pages, raster)[i].covered =>
                   pdf[i].covered \/ i \in pages
<1> DEFINE new == [i \in DOMAIN pdf |->
                     IF i \in pages THEN [pdf[i] EXCEPT !.covered = TRUE]
                                    ELSE pdf[i]]
<1>1. Replaced(pdf, pages, raster) =
        IF raster THEN Flattened(new, pages) ELSE new
  BY DEF Replaced, On
<1>2. DOMAIN new = DOMAIN pdf /\ new = [i \in DOMAIN pdf |-> new[i]]
  OBVIOUS
<1>3. ASSUME NEW i \in DOMAIN pdf
      PROVE  /\ new[i] \in Page
             /\ new[i].id = pdf[i].id /\ new[i].turn = pdf[i].turn
             /\ new[i].covered => pdf[i].covered \/ i \in pages
  <2>1. pdf[i] \in Page
    BY PdfPages
  <2> QED
    BY <2>1 DEF Page
<1> HIDE DEF new
<1>4. new \in Pdf /\ (pdf # <<>> => new # <<>>)
  BY <1>2, <1>3, OnPages
<1>5. CASE raster
  BY <1>1, <1>2, <1>3, <1>4, <1>5, FlattenedPages
<1>6. CASE ~raster
  BY <1>1, <1>2, <1>3, <1>4, <1>6
<1> QED
  BY <1>5, <1>6

LEMMA DeleteMoves ==
  ASSUME NEW pdf \in Pdf, NEW op \in Deletions(pdf)
  PROVE  Moves(op, pdf, Rewritten(pdf, op))
<1> DEFINE at == op.at
           new == Without(pdf, at)
           n == Len(pdf) - 1
<1>1. op.kind = "delete" /\ at \in DOMAIN pdf /\ Len(pdf) > 1
  BY DEF Deletions
<1>2. Rewritten(pdf, op) = new
  BY <1>1 DEF Rewritten
<1>3. Len(pdf) \in Nat /\ DOMAIN pdf = 1 .. Len(pdf)
      /\ \A i \in DOMAIN pdf : pdf[i] \in Page
  BY PdfPages
<1>4. n \in Nat /\ n > 0 /\ n = Len(pdf) - 1 /\ at \in 1 .. Len(pdf)
  BY <1>1, <1>3
<1>5. /\ DOMAIN new = 1 .. n
      /\ \A i \in 1 .. n : new[i] = pdf[IF i < at THEN i ELSE i + 1]
      /\ new = [i \in 1 .. n |-> new[i]]
  BY DEF Without
<1>a. \A i \in 1 .. Len(pdf) : FieldPage(op, i) = AfterDelete(at, i)
  BY <1>1 DEF FieldPage
<1>b. \A i \in 1 .. Len(pdf) : MarkPages(op, i) = {AfterDelete(at, i)} \ {0}
  BY <1>1 DEF MarkPages
<1>c. \A i \in DOMAIN pdf : Turned(op, i, pdf[i].turn) = pdf[i].turn
  BY <1>1 DEF Turned
<1> HIDE DEF at, new, n
<1>6. ASSUME NEW j \in 1 .. n
      PROVE  \E i \in 1 .. Len(pdf) :
               new[j] = pdf[i] /\ j \in {AfterDelete(at, i)} \ {0}
  <2>1. CASE j < at
    <3>1. j \in 1 .. Len(pdf) /\ new[j] = pdf[j] /\ j # 0
      BY <1>4, <1>5, <2>1
    <3>2. AfterDelete(at, j) = j
      BY <1>4, <2>1 DEF AfterDelete
    <3> QED
      BY <3>1, <3>2
  <2>2. CASE ~(j < at)
    <3>1. j + 1 \in 1 .. Len(pdf) /\ new[j] = pdf[j + 1] /\ j # 0
      BY <1>4, <1>5, <2>2
    <3>2. AfterDelete(at, j + 1) = j
      BY <1>4, <2>2 DEF AfterDelete
    <3> QED
      BY <3>1, <3>2
  <2> QED
    BY <2>1, <2>2
<1>7. ASSUME NEW i \in 1 .. Len(pdf), AfterDelete(at, i) # 0
      PROVE  AfterDelete(at, i) \in 1 .. n /\ new[AfterDelete(at, i)] = pdf[i]
  <2>1. CASE i > at
    <3>1. AfterDelete(at, i) = i - 1 /\ i - 1 \in 1 .. n
      BY <1>4, <2>1 DEF AfterDelete
    <3>2. ~(i - 1 < at) /\ (i - 1) + 1 = i
      BY <1>4, <2>1
    <3> QED
      BY <1>5, <3>1, <3>2
  <2>2. CASE i < at
    <3>1. AfterDelete(at, i) = i /\ i \in 1 .. n
      BY <1>4, <2>2 DEF AfterDelete
    <3> QED
      BY <1>5, <2>2, <3>1
  <2> QED
    BY <1>4, <1>7, <2>1, <2>2 DEF AfterDelete
<1>8. \A j \in 1 .. n : new[j] \in Page
  BY <1>3, <1>6
<1>9. new \in Pdf /\ new # <<>>
  BY <1>4, <1>5, <1>8, MakePdf
<1> QED
  BY <1>2, <1>3, <1>5, <1>6, <1>7, <1>9, <1>a, <1>b, <1>c DEF Moves

\* A reorder is onto: every page is somewhere.
LEMMA OrderOnto ==
  ASSUME NEW n \in Nat, NEW order \in Orders(n), NEW i \in 1 .. n
  PROVE  /\ AfterReorder(order, i) \in 1 .. n
         /\ order[AfterReorder(order, i)] = i
<1>1. order \in Injection(1 .. n, 1 .. n)
  BY DEF Orders, Injection, IsInjective
<1>2. IsFiniteSet(1 .. n)
  BY FS_Interval
<1>3. order \in Surjection(1 .. n, 1 .. n)
  BY <1>1, <1>2, FS_Injection
<1>4. \E j \in DOMAIN order : order[j] = i
  BY <1>3 DEF Surjection
<1>5. DOMAIN order = 1 .. n
  BY DEF Orders
<1> QED
  BY <1>4, <1>5 DEF AfterReorder

LEMMA ReorderMoves ==
  ASSUME NEW pdf \in Pdf, pdf # <<>>, NEW op \in Reorders(pdf)
  PROVE  Moves(op, pdf, Rewritten(pdf, op))
<1> DEFINE order == op.order
           new == Reordered(pdf, order)
           n == Len(pdf)
<1>1. op.kind = "reorder" /\ order \in Orders(n)
  BY DEF Reorders
<1>2. Rewritten(pdf, op) = new
  BY <1>1 DEF Rewritten
<1>3. /\ n \in Nat /\ DOMAIN pdf = 1 .. n /\ n > 0
      /\ \A i \in DOMAIN pdf : pdf[i] \in Page
  BY PdfPages
<1>4. /\ DOMAIN order = 1 .. n
      /\ \A i \in 1 .. n : order[i] \in 1 .. n
      /\ \A i, j \in 1 .. n : order[i] = order[j] => i = j
  BY <1>1 DEF Orders
<1>5. /\ DOMAIN new = 1 .. n
      /\ \A i \in 1 .. n : new[i] = pdf[order[i]]
      /\ new = [i \in 1 .. n |-> new[i]]
  BY <1>3 DEF Reordered
<1>a. \A i \in 1 .. n : FieldPage(op, i) = AfterReorder(order, i)
  BY <1>1, <1>4 DEF FieldPage
<1>b. \A i \in 1 .. n : AfterReorder(order, i) \in MarkPages(op, i)
  <2> SUFFICES ASSUME NEW i \in 1 .. n
               PROVE  AfterReorder(order, i) \in MarkPages(op, i)
    OBVIOUS
  <2>1. MarkPages(op, i) =
          {AfterReorder(order, j) : j \in {i} \cap DOMAIN order}
    BY <1>1 DEF MarkPages
  <2> QED
    BY <1>4, <2>1
<1>c. \A i \in DOMAIN pdf : Turned(op, i, pdf[i].turn) = pdf[i].turn
  BY <1>1 DEF Turned
<1> HIDE DEF order, new, n
<1>6. \A i \in 1 .. n : /\ AfterReorder(order, i) \in 1 .. n
                        /\ order[AfterReorder(order, i)] = i
  BY <1>1, <1>3, OrderOnto
<1>7. ASSUME NEW j \in 1 .. n, new[j].covered
      PROVE  \E i \in 1 .. n : pdf[i].covered /\ j \in MarkPages(op, i)
  <2>1. order[j] \in 1 .. n /\ AfterReorder(order, order[j]) = j
    BY <1>4, <1>6
  <2> QED
    BY <1>5, <1>7, <1>b, <2>1
<1>8. ASSUME NEW i \in 1 .. n
      PROVE  AfterReorder(order, i) \in 1 .. n
             /\ new[AfterReorder(order, i)] = pdf[i]
  BY <1>5, <1>6
<1>9. new \in Pdf /\ new # <<>>
  BY <1>3, <1>4, <1>5, MakePdf
<1>10. ASSUME NEW i \in DOMAIN pdf
       PROVE  /\ FieldPage(op, i) \in DOMAIN new
              /\ new[FieldPage(op, i)].id = pdf[i].id
              /\ new[FieldPage(op, i)].turn = Turned(op, i, pdf[i].turn)
  <2>1. /\ AfterReorder(order, i) \in DOMAIN new
        /\ new[AfterReorder(order, i)] = pdf[i]
    BY <1>3, <1>5, <1>8
  <2> QED
    BY <1>3, <1>a, <1>c, <2>1
<1>11. \A j \in DOMAIN new : new[j].covered =>
         \E i \in DOMAIN pdf : pdf[i].covered /\ j \in MarkPages(op, i)
  BY <1>3, <1>5, <1>7
<1> QED
  BY <1>2, <1>9, <1>10, <1>11 DEF Moves

\* An operation that leaves every page where it is.
LEMMA StayMoves ==
  ASSUME NEW pdf \in Pdf, pdf # <<>>, NEW op, NEW new \in Pdf, new # <<>>,
         op.kind \notin {"delete", "reorder"},
         DOMAIN pdf \subseteq DOMAIN new,
         \A i \in DOMAIN pdf :
           /\ new[i].id = pdf[i].id
           /\ new[i].turn = Turned(op, i, pdf[i].turn)
           /\ new[i].covered =>
                pdf[i].covered \/ (op.kind = "edit" /\ i \in op.pages),
         \A j \in DOMAIN new \ DOMAIN pdf : ~new[j].covered
  PROVE  Moves(op, pdf, new)
<1>1. \A i : FieldPage(op, i) = i /\ MarkPages(op, i) = {i}
  BY DEF FieldPage, MarkPages
<1> QED
  BY <1>1 DEF Moves

LEMMA RotateMoves ==
  ASSUME NEW pdf \in Pdf, pdf # <<>>, NEW op \in Rotations(pdf)
  PROVE  Moves(op, pdf, Rewritten(pdf, op))
<1> DEFINE at == op.at
           turn == (pdf[at].turn + op.by) % 4
           page == [pdf[at] EXCEPT !.turn = turn]
           new == [pdf EXCEPT ![at] = page]
<1>1. op.kind = "rotate" /\ at \in DOMAIN pdf /\ op.by \in 1 .. 3
  BY DEF Rotations
<1>2. Rewritten(pdf, op) = new
  BY <1>1 DEF Rewritten, Rotated
<1>3. pdf[at] \in Page /\ \A i \in DOMAIN pdf : pdf[i] \in Page
  BY <1>1, PdfPages
<1>4. turn \in Turns
  BY <1>1, <1>3 DEF Page, Turns
<1> HIDE DEF turn
<1>5. /\ page \in Page /\ page.id = pdf[at].id /\ page.turn = turn
      /\ page.covered = pdf[at].covered
  BY <1>3, <1>4 DEF Page
<1> HIDE DEF page
<1>6. /\ new \in Pdf /\ DOMAIN new = DOMAIN pdf
      /\ \A i \in DOMAIN pdf : new[i] = IF i = at THEN page ELSE pdf[i]
  BY <1>1, <1>5 DEF Pdf
<1>7. new # <<>>
  BY <1>1, <1>6
<1>8. \A i \in DOMAIN pdf : /\ new[i].id = pdf[i].id
                            /\ new[i].turn = Turned(op, i, pdf[i].turn)
                            /\ new[i].covered = pdf[i].covered
  <2> SUFFICES ASSUME NEW i \in DOMAIN pdf
               PROVE  /\ new[i].id = pdf[i].id
                      /\ new[i].turn = Turned(op, i, pdf[i].turn)
                      /\ new[i].covered = pdf[i].covered
    OBVIOUS
  <2>1. CASE i = at
    <3>1. Turned(op, i, pdf[i].turn) = turn
      BY <1>1, <2>1 DEF Turned, turn
    <3> QED
      BY <1>5, <1>6, <2>1, <3>1
  <2>2. CASE i # at
    BY <1>6, <2>2 DEF Turned
  <2> QED
    BY <2>1, <2>2
<1> HIDE DEF new
<1> QED
  BY <1>1, <1>2, <1>6, <1>7, <1>8, StayMoves

LEMMA AddMoves ==
  ASSUME TypeInv, NEW pdf \in Pdf, pdf # <<>>, NEW op \in Additions(pdf)
  PROVE  Moves(op, pdf, Rewritten(pdf, op))
<1> DEFINE page == NewPage(made + 1)
           new == Append(pdf, page)
<1>1. op.kind = "add"
  BY DEF Additions
<1>2. Rewritten(pdf, op) = new
  BY <1>1 DEF Rewritten, Merged
<1>3. page \in Page /\ ~page.covered
  BY DEF TypeInv, NewPage, Page, Turns
<1> HIDE DEF page
<1>4. /\ new \in Pdf /\ DOMAIN new = 1 .. (Len(pdf) + 1)
      /\ \A i \in 1 .. Len(pdf) : new[i] = pdf[i]
      /\ new[Len(pdf) + 1] = page
  BY <1>3 DEF Pdf
<1>5. Len(pdf) \in Nat /\ DOMAIN pdf = 1 .. Len(pdf)
  BY PdfPages
<1>6. new # <<>>
  BY <1>4, <1>5
<1>7. DOMAIN pdf \subseteq DOMAIN new
      /\ \A j \in DOMAIN new \ DOMAIN pdf : j = Len(pdf) + 1
  BY <1>4, <1>5
<1>8. \A i \in DOMAIN pdf : new[i] = pdf[i]
                            /\ Turned(op, i, pdf[i].turn) = pdf[i].turn
  BY <1>1, <1>4, <1>5 DEF Turned
<1> HIDE DEF new
<1> QED
  BY <1>1, <1>2, <1>3, <1>4, <1>6, <1>7, <1>8, StayMoves

LEMMA TextMoves ==
  ASSUME NEW pdf \in Pdf, pdf # <<>>, NEW op \in Texts(pdf)
  PROVE  Moves(op, pdf, Rewritten(pdf, op))
<1> DEFINE at == op.at
           page == [pdf[at] EXCEPT !.text = TRUE]
           new == [pdf EXCEPT ![at] = page]
<1>1. op.kind = "text" /\ at \in DOMAIN pdf
  BY DEF Texts
<1>2. Rewritten(pdf, op) = new
  BY <1>1 DEF Rewritten, Written
<1>3. pdf[at] \in Page
  BY <1>1, PdfPages
<1>5. /\ page \in Page /\ page.id = pdf[at].id /\ page.turn = pdf[at].turn
      /\ page.covered = pdf[at].covered
  BY <1>3 DEF Page
<1> HIDE DEF page
<1>6. /\ new \in Pdf /\ DOMAIN new = DOMAIN pdf
      /\ \A i \in DOMAIN pdf : new[i] = IF i = at THEN page ELSE pdf[i]
  BY <1>1, <1>5 DEF Pdf
<1>7. new # <<>>
  BY <1>1, <1>6
<1>8. \A i \in DOMAIN pdf : /\ new[i].id = pdf[i].id
                            /\ new[i].turn = Turned(op, i, pdf[i].turn)
                            /\ new[i].covered = pdf[i].covered
  BY <1>1, <1>5, <1>6 DEF Turned
<1> HIDE DEF new
<1> QED
  BY <1>1, <1>2, <1>6, <1>7, <1>8, StayMoves

LEMMA RedactMoves ==
  ASSUME NEW pdf \in Pdf, pdf # <<>>, NEW op \in Redactions(pdf)
  PROVE  Moves(op, pdf, Rewritten(pdf, op))
<1>1. op.kind = "redact"
  BY DEF Redactions
<1>2. Rewritten(pdf, op) = Flattened(pdf, op.pages)
  BY <1>1 DEF Rewritten, Redacted, Flattened
<1>3. \A i, t : Turned(op, i, t) = t
  BY <1>1 DEF Turned
<1> QED
  BY <1>1, <1>2, <1>3, FlattenedPages, StayMoves

LEMMA EditMoves ==
  ASSUME NEW pdf \in Pdf, pdf # <<>>, NEW op \in TextEdits(pdf)
  PROVE  Moves(op, pdf, Rewritten(pdf, op))
<1>1. op.kind = "edit" /\ op.raster \in BOOLEAN
  BY DEF TextEdits
<1>2. Rewritten(pdf, op) = Replaced(pdf, op.pages, op.raster)
  BY <1>1 DEF Rewritten
<1>3. \A i, t : Turned(op, i, t) = t
  BY <1>1 DEF Turned
<1> QED
  BY <1>1, <1>2, <1>3, ReplacedPages, StayMoves

LEMMA OpMoves ==
  ASSUME TypeInv, NEW pdf \in Pdf, pdf # <<>>, NEW op \in PageOps(pdf)
  PROVE  Moves(op, pdf, Rewritten(pdf, op))
  BY DeleteMoves, ReorderMoves, RotateMoves, AddMoves, TextMoves, RedactMoves,
     EditMoves DEF PageOps

\* An entry of edited_pages comes from an old one or from an edit.
LEMMA MarkedPages ==
  ASSUME NEW op, NEW k
  PROVE  k \in Marked(op) <=>
           \/ \E i \in edited : k \in MarkPages(op, i)
           \/ op.kind = "edit" /\ k \in op.pages
<1> DEFINE Old == UNION {MarkPages(op, i) : i \in edited}
           New == IF op.kind = "edit" THEN op.pages ELSE {}
<1>1. Marked(op) = Old \cup New
  BY DEF Marked
<1>2. k \in Old <=> \E i \in edited : k \in MarkPages(op, i)
  OBVIOUS
<1>3. k \in New <=> op.kind = "edit" /\ k \in op.pages
  OBVIOUS
<1> HIDE DEF Old, New
<1> QED
  BY <1>1, <1>2, <1>3

\* What the maps make of rows that point into the file before the operation.
LEMMA MovesFollow ==
  ASSUME TypeInv, NEW op, NEW pdf \in Pdf, Moves(op, source, pdf),
         Right(fields, source), Covering(source, edited)
  PROVE  Follows(op, pdf)
<1>1. ASSUME NEW f \in Remapped(op)
      PROVE  /\ f.page \in DOMAIN pdf
             /\ pdf[f.page].id = f.on /\ pdf[f.page].turn = f.turn
  <2>1. PICK g \in fields :
          /\ FieldPage(op, g.page) # 0
          /\ f = [g EXCEPT !.page = FieldPage(op, g.page),
                           !.turn = FieldTurn(op, g)]
    BY <1>1 DEF Remapped
  <2>2. g \in Field
    BY DEF TypeInv
  <2>3. /\ f.page = FieldPage(op, g.page) /\ f.turn = FieldTurn(op, g)
        /\ f.on = g.on
    BY <2>1, <2>2 DEF Field
  <2>4. /\ g.page \in DOMAIN source /\ source[g.page].id = g.on
        /\ source[g.page].turn = g.turn
    BY DEF Right
  <2>5. FieldTurn(op, g) = Turned(op, g.page, g.turn)
    BY DEF FieldTurn, Turned
  <2> QED
    BY <2>1, <2>3, <2>4, <2>5 DEF Moves
<1>2. ASSUME NEW j \in DOMAIN pdf, pdf[j].covered
      PROVE  j \in Marked(op)
  <2>1. CASE \E i \in DOMAIN source :
               source[i].covered /\ j \in MarkPages(op, i)
    BY <2>1, MarkedPages DEF Covering
  <2>2. CASE op.kind = "edit" /\ j \in op.pages
    BY <2>2, MarkedPages
  <2>3. \/ \E i \in DOMAIN source :
              source[i].covered /\ j \in MarkPages(op, i)
        \/ op.kind = "edit" /\ j \in op.pages
    BY <1>2, Zenon DEF Moves
  <2> QED
    BY <2>1, <2>2, <2>3
<1> QED
  BY <1>1, <1>2 DEF Follows, Right, Covering, Moves

-----------------------------------------------------------------------------
(* Type correctness                                                        *)

LEMMA IdleType == Idle \in Job
  BY DEF Idle, Job, Phases, AnyOp, Pdf

LEMMA InitTypeInv == Init => TypeInv
<1> SUFFICES ASSUME Init
             PROVE  TypeInv
  OBVIOUS
<1>1. FirstPages \in Nat
  BY DraftPagesAssumption DEF DraftPagesAssumption
<1>2. \A i \in Nat : NewPage(i) \in Page
  BY DEF NewPage, Page, Turns
<1>3. source \in Pdf
  BY <1>1, <1>2 DEF Init, Pdf
<1>4. job \in [Workers -> Job]
  BY IdleType DEF Init
<1>5. <<>> \in Pdf
  BY DEF Pdf
<1> QED
  BY <1>1, <1>3, <1>4, <1>5 DEF Init, TypeInv

\* Where the maps send a field.
LEMMA FieldPageType ==
  ASSUME NEW op \in AnyOp, NEW i \in Positions
  PROVE  FieldPage(op, i) # 0 => FieldPage(op, i) \in Positions
<1>1. CASE op = NoOp
  BY <1>1 DEF NoOp, FieldPage
<1>2. ASSUME NEW pdf \in Pdf, op \in Deletions(pdf)
      PROVE  FieldPage(op, i) # 0 => FieldPage(op, i) \in Positions
  <2>1. FieldPage(op, i) = AfterDelete(op.at, i) /\ op.at \in DOMAIN pdf
    BY <1>2 DEF FieldPage, Deletions
  <2>2. op.at \in Nat /\ op.at >= 1 /\ i \in Nat
    BY <2>1, PdfPages DEF Positions
  <2> QED
    BY <2>1, <2>2 DEF AfterDelete, Positions
<1>3. ASSUME NEW pdf \in Pdf, op \in Reorders(pdf)
      PROVE  FieldPage(op, i) # 0 => FieldPage(op, i) \in Positions
  <2>1. op.kind = "reorder" /\ op.order \in Orders(Len(pdf))
    BY <1>3 DEF Reorders
  <2>2. Len(pdf) \in Nat /\ DOMAIN op.order = 1 .. Len(pdf)
    BY <2>1, PdfPages DEF Orders
  <2>3. CASE i \in DOMAIN op.order
    <3>1. FieldPage(op, i) = AfterReorder(op.order, i)
      BY <2>1, <2>3 DEF FieldPage
    <3>2. AfterReorder(op.order, i) \in 1 .. Len(pdf)
      BY <2>1, <2>2, <2>3, OrderOnto
    <3> QED
      BY <2>2, <3>1, <3>2 DEF Positions
  <2>4. CASE i \notin DOMAIN op.order
    BY <2>1, <2>4 DEF FieldPage
  <2> QED
    BY <2>3, <2>4
<1>4. ASSUME op.kind \notin {"delete", "reorder"}
      PROVE  FieldPage(op, i) # 0 => FieldPage(op, i) \in Positions
  BY <1>4 DEF FieldPage
<1>5. ASSUME NEW pdf \in Pdf, op \in PageOps(pdf)
      PROVE  \/ op \in Deletions(pdf) \/ op \in Reorders(pdf)
             \/ op.kind \notin {"delete", "reorder"}
  BY <1>5 DEF PageOps, Rotations, Additions, Texts, Redactions, TextEdits
<1> QED
  BY <1>1, <1>2, <1>3, <1>4, <1>5 DEF AnyOp

LEMMA TurnType ==
  ASSUME NEW op \in AnyOp, NEW f \in Field
  PROVE  FieldTurn(op, f) \in Turns
<1>1. CASE op.kind = "rotate"
  <2>1. op.by \in 1 .. 3
    <3>1. op # NoOp
      BY <1>1 DEF NoOp
    <3>2. PICK pdf \in Pdf : op \in PageOps(pdf)
      BY <3>1 DEF AnyOp
    <3>3. op \in Rotations(pdf)
      BY <1>1, <3>2 DEF PageOps, Deletions, Reorders, Additions, Texts,
                        Redactions, TextEdits
    <3> QED
      BY <3>3 DEF Rotations
  <2>2. f.turn \in 0 .. 3
    BY DEF Field, Turns
  <2>3. (f.turn + op.by) % 4 \in 0 .. 3
    BY <2>1, <2>2
  <2> QED
    BY <2>2, <2>3 DEF FieldTurn, Turns
<1>2. CASE op.kind # "rotate"
  BY <1>2 DEF FieldTurn, Field
<1> QED
  BY <1>1, <1>2

LEMMA RemappedType ==
  ASSUME TypeInv, NEW op \in AnyOp
  PROVE  Remapped(op) \subseteq Field
<1> SUFFICES ASSUME NEW f \in Remapped(op)
             PROVE  f \in Field
  OBVIOUS
<1>1. PICK g \in fields :
        /\ FieldPage(op, g.page) # 0
        /\ f = [g EXCEPT !.page = FieldPage(op, g.page),
                         !.turn = FieldTurn(op, g)]
  BY DEF Remapped
<1>2. g \in Field /\ g.page \in Positions
  BY DEF TypeInv, Field
<1>3. FieldPage(op, g.page) \in Positions /\ FieldTurn(op, g) \in Turns
  BY <1>1, <1>2, FieldPageType, TurnType
<1> QED
  BY <1>1, <1>2, <1>3 DEF Field

LEMMA PagesType ==
  ASSUME NEW pdf \in Pdf
  PROVE  DOMAIN pdf \subseteq Positions
  BY PdfPages DEF Positions

LEMMA MarkedType ==
  ASSUME TypeInv, NEW op \in AnyOp
  PROVE  Marked(op) \subseteq Positions
<1>1. ASSUME NEW i \in Positions, NEW k \in MarkPages(op, i)
      PROVE  k \in Positions
  <2>1. CASE op = NoOp
    BY <1>1, <2>1 DEF NoOp, MarkPages
  <2>2. ASSUME NEW pdf \in Pdf, op \in Deletions(pdf)
        PROVE  k \in Positions
    <3>1. op.kind = "delete"
      BY <2>2 DEF Deletions
    <3>2. k = FieldPage(op, i) /\ k # 0
      BY <1>1, <3>1 DEF MarkPages, FieldPage
    <3> QED
      BY <3>2, FieldPageType
  <2>3. ASSUME NEW pdf \in Pdf, op \in Reorders(pdf)
        PROVE  k \in Positions
    <3>1. op.kind = "reorder" /\ op.order \in Orders(Len(pdf))
      BY <2>3 DEF Reorders
    <3>2. Len(pdf) \in Nat /\ DOMAIN op.order = 1 .. Len(pdf)
      BY <3>1, PdfPages DEF Orders
    <3>3. i \in DOMAIN op.order /\ k = AfterReorder(op.order, i)
      BY <1>1, <3>1 DEF MarkPages
    <3>4. k \in 1 .. Len(pdf)
      BY <3>1, <3>2, <3>3, OrderOnto
    <3> QED
      BY <3>2, <3>4 DEF Positions
  <2>4. ASSUME op.kind \notin {"delete", "reorder"}
        PROVE  k \in Positions
    BY <1>1, <2>4 DEF MarkPages
  <2>5. ASSUME NEW pdf \in Pdf, op \in PageOps(pdf)
        PROVE  \/ op \in Deletions(pdf) \/ op \in Reorders(pdf)
               \/ op.kind \notin {"delete", "reorder"}
    BY <2>5 DEF PageOps, Rotations, Additions, Texts, Redactions, TextEdits
  <2> QED
    BY <2>1, <2>2, <2>3, <2>4, <2>5 DEF AnyOp
<1>2. ASSUME op.kind = "edit"
      PROVE  op.pages \subseteq Positions
  <2>1. op # NoOp
    BY <1>2 DEF NoOp
  <2>2. PICK pdf \in Pdf : op \in PageOps(pdf)
    BY <2>1 DEF AnyOp
  <2>3. op \in TextEdits(pdf)
    BY <1>2, <2>2 DEF PageOps, Deletions, Reorders, Rotations, Additions,
                      Texts, Redactions
  <2>4. op.pages \subseteq DOMAIN pdf
    BY <2>3 DEF TextEdits, Some, Editable
  <2> QED
    BY <2>4, PagesType
<1>3. edited \subseteq Positions
  BY DEF TypeInv
<1> SUFFICES ASSUME NEW k \in Marked(op)
             PROVE  k \in Positions
  OBVIOUS
<1>4. CASE \E i \in edited : k \in MarkPages(op, i)
  BY <1>1, <1>3, <1>4
<1>5. CASE op.kind = "edit" /\ k \in op.pages
  BY <1>2, <1>5
<1> QED
  BY <1>4, <1>5, MarkedPages

LEMMA AnchoredPages ==
  ASSUME NEW pdf, NEW placement \in Placements(pdf)
  PROVE  Placed(pdf, placement) \subseteq DOMAIN pdf
<1>1. placement.by = "page" => placement.pages \subseteq DOMAIN pdf
  BY DEF Placements, Some
<1> QED
  BY <1>1 DEF Placed, Anchored, Hits

\* Fields that are put on pages are right there.
LEMMA NewFields ==
  ASSUME NEW pdf \in Pdf, NEW pages \in SUBSET DOMAIN pdf,
         NEW prefill \in BOOLEAN
  PROVE  /\ Fields(pdf, pages, prefill) \subseteq Field
         /\ Right(Fields(pdf, pages, prefill), pdf)
<1> SUFFICES ASSUME NEW f \in Fields(pdf, pages, prefill)
             PROVE  /\ f \in Field
                    /\ f.page \in DOMAIN pdf
                    /\ pdf[f.page].id = f.on
                    /\ pdf[f.page].turn = f.turn
  BY DEF Right
<1>1. PICK i \in pages :
        f = [page |-> i, on |-> pdf[i].id, turn |-> pdf[i].turn,
             prefill |-> prefill]
  BY DEF Fields
<1>2. i \in DOMAIN pdf /\ i \in Positions /\ pdf[i] \in Page
  BY PagesType, PdfPages
<1> QED
  BY <1>1, <1>2 DEF Field, Page

\* A worker that goes on.
LEMMA SetJob ==
  ASSUME TypeInv, NEW w \in Workers, NEW j \in Job,
         job' = [job EXCEPT ![w] = j]
  PROVE  job' \in [Workers -> Job] /\ job'[w] = j
  BY DEF TypeInv

LEMMA GotoJob ==
  ASSUME TypeInv, NEW w \in Workers, NEW phase \in Phases, Goto(w, phase)
  PROVE  /\ job' \in [Workers -> Job]
         /\ job'[w] = [job[w] EXCEPT !.phase = phase]
         /\ job'[w].phase = phase
         /\ job'[w].op = job[w].op /\ job'[w].bytes = job[w].bytes
         /\ job'[w].marks = job[w].marks /\ job'[w].layout = job[w].layout
<1> DEFINE j == [job[w] EXCEPT !.phase = phase]
<1>1. job' = [job EXCEPT ![w] = j]
  BY DEF Goto
<1>2. job[w] \in Job
  BY DEF TypeInv
<1>3. /\ j \in Job /\ j.phase = phase
      /\ j.op = job[w].op /\ j.bytes = job[w].bytes
      /\ j.marks = job[w].marks /\ j.layout = job[w].layout
  BY <1>2 DEF Job
<1>4. j = [job[w] EXCEPT !.phase = phase]
  OBVIOUS
<1> HIDE DEF j
<1> QED
  BY <1>1, <1>3, <1>4, SetJob

LEMMA DoneJob ==
  ASSUME TypeInv, NEW w \in Workers, Done(w)
  PROVE  job' \in [Workers -> Job] /\ job'[w] = Idle
  BY IdleType, SetJob DEF Done

\* Detection of prefill fields, and of the first match of the token.
LEMMA TokenPages ==
  ASSUME NEW pdf
  PROVE  Tokens(pdf) \subseteq DOMAIN pdf
  BY DEF Tokens, Hits

\* Placing fields and detecting prefill fields compute a layout.
LEMMA LayoutJob ==
  ASSUME TypeInv, NEW w \in Workers, NEW layout \in SUBSET Field,
         job' = [job EXCEPT ![w].phase = "layout", ![w].layout = layout]
  PROVE  /\ job' \in [Workers -> Job]
         /\ job'[w].phase = "layout" /\ job'[w].layout = layout
<1> DEFINE j == [job[w] EXCEPT !.phase = "layout", !.layout = layout]
<1>1. job[w] \in Job /\ job' = [job EXCEPT ![w] = j]
  BY DEF TypeInv
<1>2. j \in Job /\ j.phase = "layout" /\ j.layout = layout
  BY <1>1 DEF Job, Phases
<1> HIDE DEF j
<1> QED
  BY <1>1, <1>2, SetJob

\* An operation is computed from the file.
LEMMA ReadJob ==
  ASSUME TypeInv, NEW w \in Workers, NEW op \in PageOps(source), OpRead(w, op)
  PROVE  /\ job' \in [Workers -> Job]
         /\ job'[w].phase = "write" /\ job'[w].op = op
         /\ job'[w].bytes = Rewritten(source, op)
         /\ Moves(op, source, Rewritten(source, op))
<1> DEFINE bytes == Rewritten(source, op)
           j == [job[w] EXCEPT !.phase = "write", !.op = op, !.bytes = bytes]
<1>1. job[w] \in Job /\ job' = [job EXCEPT ![w] = j]
  BY DEF TypeInv, OpRead
<1>2. op \in AnyOp /\ Moves(op, source, bytes)
  BY OpMoves DEF AnyOp, TypeInv, OpRead
<1>3. bytes \in Pdf
  BY <1>2 DEF Moves
<1> HIDE DEF bytes
<1>4. j \in Job /\ j.phase = "write" /\ j.op = op /\ j.bytes = bytes
  BY <1>1, <1>2, <1>3 DEF Job, Phases
<1> HIDE DEF j
<1> QED
  BY <1>1, <1>2, <1>4, SetJob DEF bytes

LEMMA MarksJob ==
  ASSUME TypeInv, NEW w \in Workers, SendGate(w)
  PROVE  /\ job' \in [Workers -> Job]
         /\ job'[w].phase = "freeze read" /\ job'[w].marks = edited
<1> DEFINE j == [job[w] EXCEPT !.phase = "freeze read", !.marks = edited]
<1>1. job[w] \in Job /\ job' = [job EXCEPT ![w] = j]
  BY DEF TypeInv, SendGate
<1>2. j \in Job /\ j.phase = "freeze read" /\ j.marks = edited
  BY <1>1 DEF Job, Phases, TypeInv
<1> HIDE DEF j
<1> QED
  BY <1>1, <1>2, SetJob

\* The snapshot that send() will freeze, unless it gives up.
LEMMA FreezeJob ==
  ASSUME TypeInv, NEW w \in Workers, SendRead(w)
  PROVE  \/ Done(w)
         \/ /\ job' \in [Workers -> Job]
            /\ job'[w].phase = "freeze"
            /\ job'[w].bytes = Flattened(source, job[w].marks)
            /\ source # <<>>
<1>1. CASE source # <<>> /\ job[w].marks \subseteq DOMAIN source
  <2> DEFINE bytes == Flattened(source, job[w].marks)
             j == [job[w] EXCEPT !.phase = "freeze", !.bytes = bytes]
  <2>1. job[w] \in Job /\ job' = [job EXCEPT ![w] = j]
    BY <1>1 DEF TypeInv, SendRead
  <2>2. bytes \in Pdf
    BY FlattenedPages DEF TypeInv
  <2> HIDE DEF bytes
  <2>3. j \in Job /\ j.phase = "freeze" /\ j.bytes = bytes
    BY <2>1, <2>2 DEF Job, Phases
  <2> HIDE DEF j
  <2> QED
    BY <1>1, <2>1, <2>3, SetJob DEF bytes
<1>2. CASE ~(source # <<>> /\ job[w].marks \subseteq DOMAIN source)
  BY <1>2 DEF SendRead
<1> QED
  BY <1>1, <1>2

LEMMA NextTypeInv == TypeInv /\ [Next]_vars => TypeInv'
<1> SUFFICES ASSUME TypeInv, [Next]_vars
             PROVE  TypeInv'
  OBVIOUS
<1>a. <<>> \in Pdf /\ ops + 1 \in Nat /\ faults + 1 \in Nat /\ made + 1 \in Nat
  BY DEF TypeInv, Pdf
<1>b. \A w \in Workers : job[w] \in Job
  BY DEF TypeInv
<1>0. CASE UNCHANGED vars
  BY <1>0 DEF vars, TypeInv
<1>1. ASSUME NEW w \in Workers, OpGate(w)
      PROVE  TypeInv'
  <2>1. job' \in [Workers -> Job]
    BY <1>1, GotoJob DEF OpGate, Phases
  <2> QED
    BY <1>1, <1>a, <2>1 DEF OpGate, Gate, TypeInv
<1>2. ASSUME NEW w \in Workers, NEW op \in PageOps(source), OpRead(w, op)
      PROVE  TypeInv'
  <2>1. job' \in [Workers -> Job]
    BY <1>2, ReadJob
  <2> QED
    BY <1>2, <1>a, <2>1 DEF OpRead, TypeInv
<1>3. ASSUME NEW w \in Workers, OpWrite(w)
      PROVE  TypeInv'
  <2>1. job' \in [Workers -> Job]
    BY <1>3, GotoJob DEF OpWrite, Phases
  <2>2. job[w].bytes \in Pdf
    BY <1>b DEF Job
  <2> QED
    BY <1>3, <2>1, <2>2 DEF OpWrite, TypeInv
<1>4. ASSUME NEW w \in Workers, OpCommit(w)
      PROVE  TypeInv'
  <2>1. job' \in [Workers -> Job]
    BY <1>4, DoneJob DEF OpCommit
  <2>2. job[w].bytes \in Pdf /\ job[w].op \in AnyOp
    BY <1>b DEF Job
  <2>3. /\ Remapped(job[w].op) \subseteq Field
        /\ Marked(job[w].op) \subseteq Positions
    BY <2>2, RemappedType, MarkedType
  <2> QED
    BY <1>4, <2>1, <2>2, <2>3 DEF OpCommit, TypeInv
<1>5. ASSUME NEW w \in Workers, NEW placement \in Placements(source),
             FieldsGate(w, placement)
      PROVE  TypeInv'
  <2> DEFINE layout == Fields(source, Placed(source, placement), FALSE)
  <2>1. layout \in SUBSET Field
    BY AnchoredPages, NewFields DEF TypeInv
  <2>2. Done(w) \/ job' = [job EXCEPT ![w].phase = "layout",
                                      ![w].layout = layout]
    BY <1>5 DEF FieldsGate
  <2> HIDE DEF layout
  <2>3. job' \in [Workers -> Job]
    BY <2>1, <2>2, DoneJob, LayoutJob
  <2> QED
    BY <1>5, <1>a, <2>3 DEF FieldsGate, Gate, TypeInv
<1>6. ASSUME NEW w \in Workers, Detect(w)
      PROVE  TypeInv'
  <2> DEFINE layout == fields \cup Fields(source, Tokens(source), TRUE)
  <2>1. layout \in SUBSET Field
    BY TokenPages, NewFields DEF TypeInv
  <2>2. Done(w) \/ job' = [job EXCEPT ![w].phase = "layout",
                                      ![w].layout = layout]
    BY <1>6 DEF Detect
  <2> HIDE DEF layout
  <2>3. job' \in [Workers -> Job]
    BY <2>1, <2>2, DoneJob, LayoutJob
  <2> QED
    BY <1>6, <1>a, <2>3 DEF Detect, Gate, TypeInv
<1>7. ASSUME NEW w \in Workers, FieldsCommit(w)
      PROVE  TypeInv'
  <2>1. job' \in [Workers -> Job]
    BY <1>7, DoneJob DEF FieldsCommit
  <2>2. job[w].layout \subseteq Field
    BY <1>b DEF Job
  <2> QED
    BY <1>7, <2>1, <2>2 DEF FieldsCommit, TypeInv
<1>8. ASSUME NEW w \in Workers, SendGate(w)
      PROVE  TypeInv'
  <2>1. job' \in [Workers -> Job]
    BY <1>8, MarksJob
  <2> QED
    BY <1>8, <1>a, <2>1 DEF SendGate, Gate, TypeInv
<1>9. ASSUME NEW w \in Workers, SendRead(w)
      PROVE  TypeInv'
  <2>1. job' \in [Workers -> Job]
    BY <1>9, FreezeJob, DoneJob
  <2> QED
    BY <1>9, <2>1 DEF SendRead, TypeInv
<1>10. ASSUME NEW w \in Workers, SendFreeze(w)
       PROVE  TypeInv'
  <2>1. job' \in [Workers -> Job]
    BY <1>10, GotoJob DEF SendFreeze, Phases
  <2>2. job[w].bytes \in Pdf
    BY <1>b DEF Job
  <2> QED
    BY <1>10, <2>1, <2>2 DEF SendFreeze, TypeInv
<1>11. ASSUME NEW w \in Workers, SendCommit(w)
       PROVE  TypeInv'
  <2>1. job' \in [Workers -> Job]
    BY <1>11, DoneJob DEF SendCommit
  <2>2. job[w].bytes \in Pdf
    BY <1>b DEF Job
  <2> QED
    BY <1>11, <2>1, <2>2 DEF SendCommit, TypeInv
<1>12. ASSUME NEW w \in Workers, DeleteGate(w)
       PROVE  TypeInv'
  <2>1. job' \in [Workers -> Job]
    BY <1>12, GotoJob DEF DeleteGate, Phases
  <2> QED
    BY <1>12, <1>a, <2>1 DEF DeleteGate, Gate, TypeInv
<1>13. ASSUME NEW w \in Workers, DeleteFiles(w)
       PROVE  TypeInv'
  <2>1. job' \in [Workers -> Job]
    BY <1>13, GotoJob DEF DeleteFiles, Phases
  <2> QED
    BY <1>13, <1>a, <2>1 DEF DeleteFiles, TypeInv
<1>14. ASSUME NEW w \in Workers, DeleteRows(w)
       PROVE  TypeInv'
  <2>1. job' \in [Workers -> Job]
    BY <1>14, DoneJob DEF DeleteRows
  <2> QED
    BY <1>14, <2>1 DEF DeleteRows, TypeInv
<1>15. ASSUME NEW w \in Workers, Crash(w)
       PROVE  TypeInv'
  <2>1. job' \in [Workers -> Job]
    BY <1>15, DoneJob DEF Crash
  <2>2. source' \in Pdf /\ frozen' \in Pdf
    BY <1>15, <1>a DEF Crash, TypeInv
  <2>3. torn' \in BOOLEAN
    BY <1>15 DEF Crash
  <2> QED
    BY <1>15, <1>a, <2>1, <2>2, <2>3 DEF Crash, TypeInv
<1> QED
  BY <1>0, <1>1, <1>2, <1>3, <1>4, <1>5, <1>6, <1>7, <1>8, <1>9, <1>10, <1>11,
     <1>12, <1>13, <1>14, <1>15 DEF Next

\* Every file, row and handler of the model keeps its shape, whatever handlers
\* run side by side and wherever they die: no operation leaves a page or a
\* field with numbers that mean nothing.
THEOREM PagesTypeCorrect == Spec => []TypeOK
<1>1. TypeInv => TypeOK
  <2> SUFFICES ASSUME TypeInv
               PROVE  TypeOK
    OBVIOUS
  <2>1. ASSUME NEW w \in Workers
        PROVE  /\ DOMAIN job[w] = DOMAIN Idle
               /\ job[w].phase \in Phases
               /\ job[w].bytes \in Pdf
               /\ job[w].marks \subseteq Positions
               /\ job[w].layout \subseteq Field
    <3>1. job[w] \in Job
      BY DEF TypeInv
    <3> QED
      BY <3>1 DEF Job, Idle
  <2> QED
    BY <2>1 DEF TypeInv, TypeOK
<1> QED
  BY <1>1, InitTypeInv, NextTypeInv, PTL DEF Spec

-----------------------------------------------------------------------------
(* One worker: the rows point into the file between any two requests,      *)
(* unless somebody died between the two.                                   *)

\* A snapshot fit to be sent.
Fit(pdf) == pdf # <<>> /\ Right(fields, pdf) /\ Covering(pdf, {})

DraftJob(j) ==
  /\ j.phase \notin {"commit", "drop"} =>
       source # <<>> /\ Right(fields, source) /\ Covering(source, edited)
  /\ j.phase = "write" => Follows(j.op, j.bytes)
  /\ j.phase = "commit" => Follows(j.op, source)
  /\ j.phase = "layout" => Right(j.layout, source)
  /\ j.phase = "freeze read" => j.marks = edited
  /\ j.phase \in {"freeze", "sent"} => Fit(j.bytes)
  /\ j.phase = "sent" => frozen = j.bytes

\* Nothing runs any more once the draft has been sent or deleted.
StatusInv ==
  /\ status # "draft" => \A w \in Workers : At(w, "idle")
  /\ status = "draft" => frozenHash = <<>>

PagesInv ==
  ~torn =>
    /\ status = "draft" => \A w \in Workers : DraftJob(job[w])
    /\ status = "out_for_signature" => frozenHash # <<>> /\ Fit(frozen)
    /\ status = "deleted" => fields = {}

LEMMA InitPages == Init => StatusInv /\ PagesInv
<1> SUFFICES ASSUME Init
             PROVE  StatusInv /\ PagesInv
  OBVIOUS
<1>1. FirstPages \in Nat /\ FirstPages > 0
  BY DraftPagesAssumption DEF DraftPagesAssumption
<1>2. source = [i \in 1 .. FirstPages |-> NewPage(i)]
  BY DEF Init
<1>3. /\ DOMAIN source = 1 .. FirstPages
      /\ \A i \in 1 .. FirstPages : source[i] = NewPage(i)
  BY <1>2
<1>4. 1 \in DOMAIN source /\ DOMAIN <<>> = {}
  BY <1>1, <1>3
<1>5. source # <<>>
  BY <1>4
<1>6. Covering(source, edited)
  BY <1>3 DEF Covering, NewPage
<1>7. Right(fields, source)
  BY DEF Init, Right
<1> QED
  BY <1>5, <1>6, <1>7 DEF Init, StatusInv, PagesInv, DraftJob, Idle

\* Nothing happens to a draft that is gone or has gone out.
LEMMA Over ==
  ASSUME StatusInv, status # "draft", [Next]_vars
  PROVE  UNCHANGED vars
<1> SUFFICES ASSUME NEW w \in Workers,
                    \/ OpGate(w)
                    \/ \E op \in PageOps(source) : OpRead(w, op)
                    \/ OpWrite(w)
                    \/ OpCommit(w)
                    \/ \E placement \in Placements(source) :
                         FieldsGate(w, placement)
                    \/ Detect(w)
                    \/ FieldsCommit(w)
                    \/ SendGate(w)
                    \/ SendRead(w)
                    \/ SendFreeze(w)
                    \/ SendCommit(w)
                    \/ DeleteGate(w)
                    \/ DeleteFiles(w)
                    \/ DeleteRows(w)
                    \/ Crash(w)
             PROVE  FALSE
  BY DEF Next
<1>1. job[w].phase = "idle"
  BY DEF StatusInv, At
<1>2. ~Gate(w)
  BY DEF Gate
<1>3. ~OpGate(w) /\ ~Detect(w) /\ ~SendGate(w) /\ ~DeleteGate(w)
      /\ \A placement : ~FieldsGate(w, placement)
  BY <1>2 DEF OpGate, Detect, SendGate, DeleteGate, FieldsGate
<1>4. ~OpWrite(w) /\ ~OpCommit(w) /\ ~FieldsCommit(w)
      /\ \A op : ~OpRead(w, op)
  BY <1>1 DEF OpWrite, OpCommit, FieldsCommit, OpRead, At
<1>5. ~SendRead(w) /\ ~SendFreeze(w) /\ ~SendCommit(w)
  BY <1>1 DEF SendRead, SendFreeze, SendCommit, At
<1>6. ~DeleteFiles(w) /\ ~DeleteRows(w) /\ ~Crash(w)
  BY <1>1 DEF DeleteFiles, DeleteRows, Crash, At
<1> QED
  BY <1>3, <1>4, <1>5, <1>6

LEMMA NextStatus ==
  ASSUME \A v, w \in Workers : v = w
  PROVE  TypeInv /\ StatusInv /\ [Next]_vars => StatusInv'
<1> SUFFICES ASSUME TypeInv, StatusInv, [Next]_vars
             PROVE  StatusInv'
  OBVIOUS
<1>1. CASE UNCHANGED vars
  BY <1>1 DEF vars, StatusInv, At
<1>2. ASSUME status = "draft", UNCHANGED <<status, frozenHash>>
      PROVE  StatusInv'
  BY <1>2 DEF StatusInv
<1>3. ASSUME NEW w \in Workers, Done(w), status' # "draft"
      PROVE  StatusInv'
  <2>1. job'[w] = Idle
    BY <1>3, DoneJob
  <2> QED
    BY <1>3, <2>1 DEF StatusInv, At, Idle
<1>4. CASE status # "draft"
  BY <1>1, <1>4, Over
<1>5. ASSUME NEW w \in Workers, SendCommit(w)
      PROVE  StatusInv'
  BY <1>3, <1>5 DEF SendCommit
<1>6. ASSUME NEW w \in Workers, DeleteRows(w)
      PROVE  StatusInv'
  BY <1>3, <1>6 DEF DeleteRows
<1>7. ASSUME NEW w \in Workers,
             \/ OpGate(w) \/ OpWrite(w) \/ OpCommit(w) \/ Detect(w)
             \/ FieldsCommit(w) \/ SendGate(w) \/ SendRead(w) \/ SendFreeze(w)
             \/ DeleteGate(w) \/ DeleteFiles(w) \/ Crash(w)
      PROVE  UNCHANGED <<status, frozenHash>>
  BY <1>7 DEF OpGate, OpWrite, OpCommit, Detect, FieldsCommit, SendGate,
              SendRead, SendFreeze, DeleteGate, DeleteFiles, Crash
<1>8. ASSUME NEW w \in Workers, NEW op, OpRead(w, op)
      PROVE  UNCHANGED <<status, frozenHash>>
  BY <1>8 DEF OpRead
<1>9. ASSUME NEW w \in Workers, NEW placement, FieldsGate(w, placement)
      PROVE  UNCHANGED <<status, frozenHash>>
  BY <1>9 DEF FieldsGate
<1> QED
  BY <1>1, <1>2, <1>4, <1>5, <1>6, <1>7, <1>8, <1>9 DEF Next

\* The worker's step leaves a whole draft, or ends it.
LEMMA DraftEnds ==
  ASSUME \A v, w \in Workers : v = w,
         NEW w \in Workers, job'[w] = Idle, status' = "draft",
         ~torn' => source' # <<>> /\ Right(fields', source')
                   /\ Covering(source', edited')
  PROVE  PagesInv'
<1>1. job'[w].phase = "idle"
  BY DEF Idle
<1>2. ~torn' => DraftJob(job[w])'
  BY <1>1 DEF DraftJob, Right, Covering
<1> QED
  BY <1>2 DEF PagesInv

\* ... or goes on with it, and leaves the rows alone.
LEMMA DraftGoes ==
  ASSUME \A v, w \in Workers : v = w,
         NEW w \in Workers, NEW j, job'[w] = j, status' = "draft",
         UNCHANGED <<fields, edited>>,
         ~torn' =>
           /\ j.phase \notin {"commit", "drop"} =>
                source' # <<>> /\ Right(fields, source')
                /\ Covering(source', edited)
           /\ j.phase = "write" => Follows(j.op, j.bytes)
           /\ j.phase = "commit" => Follows(j.op, source')
           /\ j.phase = "layout" => Right(j.layout, source')
           /\ j.phase = "freeze read" => j.marks = edited
           /\ j.phase \in {"freeze", "sent"} => Fit(j.bytes)
           /\ j.phase = "sent" => frozen' = j.bytes
  PROVE  PagesInv'
<1>1. \A op : Remapped(op)' = Remapped(op) /\ Marked(op)' = Marked(op)
  BY DEF Remapped, Marked
<1>2. j.phase = "write" /\ Follows(j.op, j.bytes) =>
        Follows(job[w].op, job[w].bytes)'
  BY <1>1 DEF Follows, Right, Covering
<1>3. j.phase = "commit" /\ Follows(j.op, source') =>
        Follows(job[w].op, source)'
  BY <1>1 DEF Follows, Right, Covering
<1>4. Fit(j.bytes) => Fit(job[w].bytes)'
  BY DEF Fit, Right, Covering
<1>5. ~torn' => DraftJob(job[w])'
  BY <1>2, <1>3, <1>4 DEF DraftJob, Right, Covering
<1> QED
  BY <1>5 DEF PagesInv

LEMMA NextPages ==
  ASSUME \A v, w \in Workers : v = w
  PROVE  TypeInv /\ StatusInv /\ PagesInv /\ [Next]_vars => PagesInv'
<1> SUFFICES ASSUME TypeInv, StatusInv, PagesInv, [Next]_vars
             PROVE  PagesInv'
  OBVIOUS
<1>u. CASE UNCHANGED vars
  <2>1. \A op : Remapped(op)' = Remapped(op) /\ Marked(op)' = Marked(op)
    BY <1>u DEF vars, Remapped, Marked
  <2>2. ASSUME NEW w \in Workers, DraftJob(job[w])
        PROVE  DraftJob(job[w])'
    BY <1>u, <2>1, <2>2
    DEF vars, DraftJob, Follows, Fit, Right, Covering
  <2>3. Fit(frozen) => Fit(frozen)'
    BY <1>u DEF vars, Fit, Right, Covering
  <2> QED
    BY <1>u, <2>2, <2>3 DEF vars, PagesInv
<1>o. CASE status # "draft"
  BY <1>o, <1>u, Over
<1> SUFFICES ASSUME status = "draft"
             PROVE  PagesInv'
  BY <1>o
<1>d. ASSUME NEW w \in Workers, ~torn
      PROVE  DraftJob(job[w])
  BY <1>d DEF PagesInv
<1>p. source \in Pdf /\ frozenHash = <<>> /\ \A w \in Workers : job[w] \in Job
  BY DEF TypeInv, StatusInv
<1>b. ASSUME NEW w \in Workers, ~torn, job[w].phase \notin {"commit", "drop"}
      PROVE  /\ source # <<>> /\ Right(fields, source)
             /\ Covering(source, edited)
  BY <1>b, <1>d DEF DraftJob
\* A handler gives up.
<1>g. ASSUME NEW w \in Workers, Done(w),
             UNCHANGED <<status, source, edited, fields, torn>>,
             job[w].phase \notin {"commit", "drop"}
      PROVE  PagesInv'
  <2>1. job'[w] = Idle
    BY <1>g, DoneJob
  <2>2. ~torn' => source' # <<>> /\ Right(fields', source')
                  /\ Covering(source', edited')
    BY <1>b, <1>g
  <2> QED
    BY <1>g, <2>1, <2>2, DraftEnds
\* A handler goes to a phase that asks for nothing more.
<1>n. ASSUME NEW w \in Workers, NEW phase \in {"read", "unlink", "layout",
                                               "freeze read", "freeze"},
             job[w].phase \notin {"commit", "drop"},
             job'[w].phase = phase,
             UNCHANGED <<status, source, edited, fields, torn>>,
             ~torn /\ phase = "layout" => Right(job'[w].layout, source),
             ~torn /\ phase = "freeze read" => job'[w].marks = edited,
             ~torn /\ phase = "freeze" => Fit(job'[w].bytes)
      PROVE  PagesInv'
  <2> DEFINE j == job'[w]
  <2>1. ~torn' =>
           /\ j.phase \notin {"commit", "drop"} =>
                source' # <<>> /\ Right(fields, source')
                /\ Covering(source', edited)
           /\ j.phase = "write" => Follows(j.op, j.bytes)
           /\ j.phase = "commit" => Follows(j.op, source')
           /\ j.phase = "layout" => Right(j.layout, source')
           /\ j.phase = "freeze read" => j.marks = edited
           /\ j.phase \in {"freeze", "sent"} => Fit(j.bytes)
           /\ j.phase = "sent" => frozen' = j.bytes
    BY <1>b, <1>n
  <2> HIDE DEF j
  <2>2. job'[w] = j
    BY DEF j
  <2> QED
    BY <1>n, <2>1, <2>2, DraftGoes
<1>1. ASSUME NEW w \in Workers, OpGate(w)
      PROVE  PagesInv'
  <2>1. job'[w].phase = "read" /\ job[w].phase = "idle"
    BY <1>1, GotoJob DEF OpGate, Gate, At, Phases
  <2>2. UNCHANGED <<status, source, edited, fields, torn>>
    BY <1>1 DEF OpGate
  <2> QED
    BY <1>n, <2>1, <2>2
<1>2. ASSUME NEW w \in Workers, NEW op \in PageOps(source), OpRead(w, op)
      PROVE  PagesInv'
  <2> DEFINE j == job'[w]
  <2>1. /\ j.phase = "write" /\ j.op = op /\ j.bytes = Rewritten(source, op)
        /\ Moves(op, source, Rewritten(source, op))
    BY <1>2, ReadJob
  <2>2. Rewritten(source, op) \in Pdf
    BY <2>1 DEF Moves
  <2>3. UNCHANGED <<status, source, edited, fields, torn>>
        /\ job[w].phase = "read"
    BY <1>2 DEF OpRead, At
  <2>4. ~torn => Follows(op, Rewritten(source, op))
    BY <1>b, <2>1, <2>2, <2>3, MovesFollow
  <2> HIDE DEF j
  <2>5. ~torn' =>
           /\ j.phase \notin {"commit", "drop"} =>
                source' # <<>> /\ Right(fields, source')
                /\ Covering(source', edited)
           /\ j.phase = "write" => Follows(j.op, j.bytes)
    BY <1>b, <2>1, <2>3, <2>4
  <2>6. job'[w] = j
    BY DEF j
  <2> QED
    BY <2>1, <2>3, <2>5, <2>6, DraftGoes
<1>3. ASSUME NEW w \in Workers, OpWrite(w)
      PROVE  PagesInv'
  <2> DEFINE j == job'[w]
  <2>1. /\ j.phase = "commit" /\ j.op = job[w].op
        /\ job[w].phase = "write"
    BY <1>3, GotoJob DEF OpWrite, At, Phases
  <2>2. /\ UNCHANGED <<status, edited, fields, torn>>
        /\ source' = job[w].bytes
    BY <1>3 DEF OpWrite
  <2> HIDE DEF j
  <2>3. ~torn' => Follows(j.op, source')
    BY <1>d, <2>1, <2>2 DEF DraftJob
  <2>4. job'[w] = j
    BY DEF j
  <2> QED
    BY <2>1, <2>2, <2>3, <2>4, DraftGoes
<1>4. ASSUME NEW w \in Workers, OpCommit(w)
      PROVE  PagesInv'
  <2>1. /\ job[w].phase = "commit" /\ UNCHANGED <<status, source, torn>>
        /\ fields' = Remapped(job[w].op) /\ edited' = Marked(job[w].op)
        /\ job'[w] = Idle
    BY <1>4, DoneJob DEF OpCommit, At
  <2>2. ~torn => Follows(job[w].op, source)
    BY <1>d, <2>1 DEF DraftJob
  <2> QED
    BY <2>1, <2>2, DraftEnds DEF Follows
<1>5. ASSUME NEW w \in Workers, NEW placement \in Placements(source),
             FieldsGate(w, placement)
      PROVE  PagesInv'
  <2> DEFINE layout == Fields(source, Placed(source, placement), FALSE)
  <2>1. layout \in SUBSET Field /\ Right(layout, source)
    BY <1>p, AnchoredPages, NewFields
  <2>2. Done(w) \/ job' = [job EXCEPT ![w].phase = "layout",
                                      ![w].layout = layout]
    BY <1>5 DEF FieldsGate
  <2>3. UNCHANGED <<status, source, edited, fields, torn>>
        /\ job[w].phase = "idle"
    BY <1>5 DEF FieldsGate, Gate, At
  <2> HIDE DEF layout
  <2>4. CASE Done(w)
    BY <1>g, <2>3, <2>4
  <2>5. CASE job' = [job EXCEPT ![w].phase = "layout", ![w].layout = layout]
    <3>1. job'[w].phase = "layout" /\ job'[w].layout = layout
      BY <2>1, <2>5, LayoutJob
    <3> QED
      BY <1>n, <2>1, <2>3, <3>1
  <2> QED
    BY <2>2, <2>4, <2>5
<1>6. ASSUME NEW w \in Workers, Detect(w)
      PROVE  PagesInv'
  <2> DEFINE token == Fields(source, Tokens(source), TRUE)
             layout == fields \cup token
  <2>1. token \subseteq Field /\ Right(token, source)
    BY <1>p, TokenPages, NewFields
  <2>2. Done(w) \/ job' = [job EXCEPT ![w].phase = "layout",
                                      ![w].layout = layout]
    BY <1>6 DEF Detect
  <2>3. UNCHANGED <<status, source, edited, fields, torn>>
        /\ job[w].phase = "idle"
    BY <1>6 DEF Detect, Gate, At
  <2>4. ~torn => Right(fields, source)
    BY <1>b, <2>3
  <2> HIDE DEF token
  <2>5. layout \in SUBSET Field /\ (~torn => Right(layout, source))
    BY <2>1, <2>4 DEF Right, TypeInv
  <2> HIDE DEF layout
  <2>6. CASE Done(w)
    BY <1>g, <2>3, <2>6
  <2>7. CASE job' = [job EXCEPT ![w].phase = "layout", ![w].layout = layout]
    <3>1. job'[w].phase = "layout" /\ job'[w].layout = layout
      BY <2>5, <2>7, LayoutJob
    <3> QED
      BY <1>n, <2>3, <2>5, <3>1
  <2> QED
    BY <2>2, <2>6, <2>7
<1>7. ASSUME NEW w \in Workers, FieldsCommit(w)
      PROVE  PagesInv'
  <2>1. /\ job[w].phase = "layout" /\ UNCHANGED <<status, source, edited, torn>>
        /\ fields' = job[w].layout /\ job'[w] = Idle
    BY <1>7, DoneJob DEF FieldsCommit, At
  <2>2. ~torn => Right(job[w].layout, source)
    BY <1>d, <2>1 DEF DraftJob
  <2>3. ~torn => source # <<>> /\ Covering(source, edited)
    BY <1>b, <2>1
  <2> QED
    BY <2>1, <2>2, <2>3, DraftEnds
<1>8. ASSUME NEW w \in Workers, SendGate(w)
      PROVE  PagesInv'
  <2>1. job'[w].phase = "freeze read" /\ job'[w].marks = edited
    BY <1>8, MarksJob
  <2>2. UNCHANGED <<status, source, edited, fields, torn>>
        /\ job[w].phase = "idle"
    BY <1>8 DEF SendGate, Gate, At
  <2> QED
    BY <1>n, <2>1, <2>2
<1>9. ASSUME NEW w \in Workers, SendRead(w)
      PROVE  PagesInv'
  <2>1. UNCHANGED <<status, source, edited, fields, torn>>
        /\ job[w].phase = "freeze read"
    BY <1>9 DEF SendRead, At
  <2>2. CASE Done(w)
    BY <1>g, <2>1, <2>2
  <2>3. CASE /\ job'[w].phase = "freeze"
             /\ job'[w].bytes = Flattened(source, job[w].marks)
             /\ source # <<>>
    <3>1. ASSUME ~torn
          PROVE  Fit(Flattened(source, job[w].marks))
      <4>1. job[w].marks = edited /\ Right(fields, source)
            /\ Covering(source, edited)
        BY <1>b, <1>d, <2>1, <3>1 DEF DraftJob
      <4>2. Covering(Flattened(source, job[w].marks), {})
        BY <1>p, <4>1, FlattenedPages DEF Covering
      <4> QED
        BY <1>p, <2>3, <4>1, <4>2, FlattenedPages DEF Fit
    <3> QED
      BY <1>n, <2>1, <2>3, <3>1
  <2> QED
    BY <1>9, <2>2, <2>3, FreezeJob
<1>10. ASSUME NEW w \in Workers, SendFreeze(w)
       PROVE  PagesInv'
  <2> DEFINE j == job'[w]
  <2>1. j.phase = "sent" /\ j.bytes = job[w].bytes /\ job[w].phase = "freeze"
    BY <1>10, GotoJob DEF SendFreeze, At, Phases
  <2>2. /\ UNCHANGED <<status, source, edited, fields, torn>>
        /\ frozen' = job[w].bytes
    BY <1>10 DEF SendFreeze
  <2>3. ~torn => Fit(job[w].bytes)
    BY <1>d, <2>1 DEF DraftJob
  <2> HIDE DEF j
  <2>4. ~torn' =>
           /\ source' # <<>> /\ Right(fields, source')
           /\ Covering(source', edited) /\ Fit(j.bytes) /\ frozen' = j.bytes
    BY <1>b, <2>1, <2>2, <2>3
  <2>5. job'[w] = j
    BY DEF j
  <2> QED
    BY <2>1, <2>2, <2>4, <2>5, DraftGoes
<1>11. ASSUME NEW w \in Workers, SendCommit(w)
       PROVE  PagesInv'
  <2>1. /\ status' = "out_for_signature" /\ UNCHANGED <<fields, frozen, torn>>
        /\ frozenHash' = job[w].bytes /\ job[w].phase = "sent"
    BY <1>11 DEF SendCommit, At
  <2>2. ~torn => Fit(frozen) /\ frozen = job[w].bytes
    BY <1>d, <2>1 DEF DraftJob
  <2> QED
    BY <2>1, <2>2 DEF PagesInv, Fit, Right, Covering
<1>12. ASSUME NEW w \in Workers, DeleteGate(w)
       PROVE  PagesInv'
  <2>1. job'[w].phase = "unlink" /\ job[w].phase = "idle"
    BY <1>12, GotoJob DEF DeleteGate, Gate, At, Phases
  <2>2. UNCHANGED <<status, source, edited, fields, torn>>
    BY <1>12 DEF DeleteGate
  <2> QED
    BY <1>n, <2>1, <2>2
<1>13. ASSUME NEW w \in Workers, DeleteFiles(w)
       PROVE  PagesInv'
  <2> DEFINE j == job'[w]
  <2>1. j.phase = "drop"
    BY <1>13, GotoJob DEF DeleteFiles, Phases
  <2>2. UNCHANGED <<status, edited, fields>>
    BY <1>13 DEF DeleteFiles
  <2> HIDE DEF j
  <2>3. job'[w] = j
    BY DEF j
  <2> QED
    BY <2>1, <2>2, <2>3, DraftGoes
<1>14. ASSUME NEW w \in Workers, DeleteRows(w)
       PROVE  PagesInv'
  BY <1>14 DEF DeleteRows, PagesInv
<1>15. ASSUME NEW w \in Workers, Crash(w)
       PROVE  PagesInv'
  <2>1. UNCHANGED <<status, edited, fields>> /\ Done(w)
    BY <1>15 DEF Crash
  <2>2. ~torn' => /\ ~torn /\ job[w].phase \notin {"commit", "drop"}
                  /\ source' = source
    BY <1>15 DEF Crash, At
  <2>3. job'[w] = Idle
    BY <2>1, DoneJob
  <2>4. ~torn' => source' # <<>> /\ Right(fields', source')
                  /\ Covering(source', edited')
    BY <1>b, <2>1, <2>2
  <2> QED
    BY <2>1, <2>3, <2>4, DraftEnds
<1> QED
  BY <1>u, <1>1, <1>2, <1>3, <1>4, <1>5, <1>6, <1>7, <1>8, <1>9, <1>10, <1>11,
     <1>12, <1>13, <1>14, <1>15 DEF Next

LEMMA PagesAlways ==
  ASSUME \A v, w \in Workers : v = w
  PROVE  Spec => [](TypeInv /\ StatusInv /\ PagesInv)
<1>1. Init => TypeInv /\ StatusInv /\ PagesInv
  BY InitTypeInv, InitPages
<1>2. TypeInv /\ StatusInv /\ PagesInv /\ [Next]_vars
        => (TypeInv /\ StatusInv /\ PagesInv)'
  BY NextTypeInv, NextStatus, NextPages
<1> QED
  BY <1>1, <1>2, PTL DEF Spec

\* One request at a time, and however many pages are deleted, moved, turned,
\* added and edited: every field is where its author put it, in the draft and
\* in what the signers see.
THEOREM FieldsAlwaysStayPut ==
  ASSUME NEW author, Workers = {author}
  PROVE  Spec => []FieldsStayPut
<1>1. TypeInv /\ StatusInv /\ PagesInv => FieldsStayPut
  <2> SUFFICES ASSUME TypeInv, StatusInv, PagesInv, Settled
               PROVE  Right(fields, Presented)
    BY DEF FieldsStayPut, Right
  <2>1. ~torn /\ job[author].phase \notin {"commit", "drop"}
    BY DEF Settled
  <2>2. CASE status = "draft"
    <3>1. Presented = source
      BY <2>2 DEF Presented, StatusInv
    <3>2. DraftJob(job[author])
      BY <2>1, <2>2 DEF PagesInv
    <3>3. Right(fields, source)
      BY <2>1, <3>2 DEF DraftJob
    <3> QED
      BY <3>1, <3>3
  <2>3. CASE status = "out_for_signature"
    <3>1. frozenHash # <<>> /\ Fit(frozen)
      BY <2>1, <2>3 DEF PagesInv
    <3>2. Presented = frozen
      BY <3>1 DEF Presented, Fit
    <3> QED
      BY <3>1, <3>2 DEF Fit
  <2>4. CASE status = "deleted"
    BY <2>1, <2>4 DEF PagesInv, Right
  <2> QED
    BY <2>2, <2>3, <2>4 DEF TypeInv
<1>2. \A v, w \in Workers : v = w
  OBVIOUS
<1>3. Spec => [](TypeInv /\ StatusInv /\ PagesInv)
  BY <1>2, PagesAlways
<1> QED
  BY <1>1, <1>3, PTL

\* What goes out hides no old text, whatever pages were edited and wherever
\* they were moved since: every page under a cover is still marked when send()
\* rasterizes the marked ones.
THEOREM SentAlwaysFlat ==
  ASSUME NEW author, Workers = {author}
  PROVE  Spec => []FlatUnlessTorn
<1>1. PagesInv => FlatUnlessTorn
  <2> SUFFICES ASSUME PagesInv, ~torn, Sent
               PROVE  \A i \in DOMAIN Presented : ~Presented[i].covered
    BY DEF FlatUnlessTorn
  <2>1. frozenHash # <<>> /\ Fit(frozen)
    BY DEF PagesInv, Sent
  <2>2. Presented = frozen /\ Covering(frozen, {})
    BY <2>1 DEF Presented, Fit
  <2> QED
    BY <2>2 DEF Covering
<1>2. \A v, w \in Workers : v = w
  OBVIOUS
<1>3. Spec => [](TypeInv /\ StatusInv /\ PagesInv)
  BY <1>2, PagesAlways
<1> QED
  BY <1>1, <1>3, PTL

\* After send() has committed, no request of the draft still runs and none
\* passes the gate: neither the snapshot nor the layout changes again.
THEOREM SentNeverChanges ==
  ASSUME NEW author, Workers = {author}
  PROVE  Spec => SentIsImmutable
<1>1. StatusInv /\ [Next]_vars =>
        [Sent => UNCHANGED <<status, frozen, frozenHash, fields>>]_vars
  BY Over DEF Sent, vars
<1>2. \A v, w \in Workers : v = w
  OBVIOUS
<1>3. Spec => [](TypeInv /\ StatusInv /\ PagesInv)
  BY <1>2, PagesAlways
<1> QED
  BY <1>1, <1>3, PTL DEF Spec, SentIsImmutable
=============================================================================
