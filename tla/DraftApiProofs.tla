--------------------------- MODULE DraftApiProofs ---------------------------
(***************************************************************************)
(* Theorems about DraftApi, for any number of documents, parties, requests *)
(* at once and faults, and whatever lists the clients post: type           *)
(* correctness, that a field stays with its party, that everyone who is    *)
(* asked to sign has a link, that a sent document is kept, that what is    *)
(* done is authorised, and that no document outlives its owner.            *)
(***************************************************************************)
EXTENDS DraftApi, FiniteSetTheorems, TLAPS

\* TypeOK, as sets of functions and records.
TypeInv ==
  /\ acct \in Account
  /\ doc \in [Docs -> Agreement]
  /\ template \in Template
  /\ job \in [Workers -> Job]
  /\ purge \in Purge
  /\ requests \in Nat
  /\ faults \in Nat

-----------------------------------------------------------------------------
(* What a step does to its worker                                          *)

\* The request j goes on as k, but for its phase and what is only history.
Keeps(j, k) ==
  /\ k.kind = j.kind /\ k.via = j.via /\ k.doc = j.doc /\ k.ask = j.ask
  /\ k.list = j.list /\ k.seen = j.seen /\ k.fields = j.fields

\* The request goes on where it is.
Alike(j, k) == Keeps(j, k) /\ k.phase = j.phase

\* The request goes on in another phase.
Moved(j, k) == Keeps(j, k) /\ k.late = j.late /\ k.withdrawn = j.withdrawn

LEMMA NoJobType ==
  /\ NoJob \in Job
  /\ NoJob.phase = "idle" /\ NoJob.seen = {} /\ NoJob.fields = {}
  /\ NoJob.ask.signer = 0 /\ NoJob.via = 0 /\ NoJob.withdrawn = {}
  /\ NoJob.late = FALSE
<1>1. /\ NoAsk \in Ask
      /\ NoAsk.signer = 0
  BY DEF NoAsk, Ask
<1>2. <<>> \in Seq(Role)
  OBVIOUS
<1>3. NoJob \in Job
  BY <1>1, <1>2 DEF NoJob, Job, Kinds, Phases
<1> QED
  BY <1>1, <1>3 DEF NoJob

LEMMA SetJob ==
  ASSUME TypeInv, NEW w \in Workers, NEW j \in Job, job' = [job EXCEPT ![w] = j]
  PROVE  /\ job' \in [Workers -> Job]
         /\ job'[w] = j
         /\ \A v \in Workers : v # w => job'[v] = job[v]
  BY DEF TypeInv

LEMMA DoneJob ==
  ASSUME TypeInv, NEW w \in Workers, Done(w)
  PROVE  /\ job' \in [Workers -> Job]
         /\ job'[w] = NoJob
         /\ \A v \in Workers : v # w => job'[v] = job[v]
  BY NoJobType DEF Done, TypeInv

LEMMA GotoJob ==
  ASSUME TypeInv, NEW w \in Workers, NEW x \in Phases, Goto(w, x)
  PROVE  /\ job' \in [Workers -> Job]
         /\ job'[w].phase = x
         /\ Moved(job[w], job'[w])
         /\ \A v \in Workers : v # w => job'[v] = job[v]
<1> DEFINE new == [job[w] EXCEPT !.phase = x]
<1>1. job \in [Workers -> Job] /\ job[w] \in Job
  BY DEF TypeInv
<1>2. new \in Job
  BY <1>1 DEF Job
<1>3. new.phase = x /\ Moved(job[w], new)
  BY <1>1 DEF Job, Moved, Keeps
<1>4. job' = [job EXCEPT ![w] = new]
  BY <1>1 DEF Goto
<1> HIDE DEF new
<1> QED
  BY <1>1, <1>2, <1>3, <1>4

\* Every other request goes on where it is, with what is written into its
\* history.
Settles(w, d) ==
  /\ job' \in [Workers -> Job]
  /\ job'[w] = NoJob
  /\ \A v \in Workers : v # w =>
       /\ Alike(job[v], job'[v])
       /\ job'[v].late <=> job[v].late \/ HasAsked(v, d)
       /\ job'[v].withdrawn = job[v].withdrawn

LEMMA SettledJob ==
  ASSUME TypeInv, NEW w \in Workers, NEW d, job' = Settled(w, d)
  PROVE  Settles(w, d)
<1> DEFINE b(v) == job[v].late \/ HasAsked(v, d)
           new(v) == [job[v] EXCEPT !.late = b(v)]
<1>1. \A v \in Workers : job[v] \in Job /\ b(v) \in BOOLEAN
  BY DEF TypeInv, Job
<1>2. \A v \in Workers : job'[v] = IF v = w THEN NoJob ELSE new(v)
  BY DEF Settled
<1>3. job' = [v \in Workers |-> IF v = w THEN NoJob ELSE new(v)]
  BY DEF Settled
<1>4. \A v \in Workers : b(v) <=> job[v].late \/ HasAsked(v, d)
  OBVIOUS
<1> HIDE DEF b
<1>5. ASSUME NEW v \in Workers
      PROVE  /\ new(v) \in Job
             /\ Alike(job[v], new(v))
             /\ new(v).late = b(v) /\ new(v).withdrawn = job[v].withdrawn
  BY <1>1 DEF Job, Alike, Keeps
<1> HIDE DEF new
<1>6. job' \in [Workers -> Job]
  BY <1>3, <1>5, NoJobType
<1> QED
  BY <1>2, <1>4, <1>5, <1>6 DEF Settles

\* What was taken away after a request looked at it.
Taken(v, what, from) ==
  {x \in what : HasLooked(v, x) /\ (x = "credential" => job[v].via = from)}

LEMMA WithdrawnJob ==
  ASSUME TypeInv, NEW what \in SUBSET {"account", "credential"}, NEW from
  PROVE  /\ Withdrawn(what, from) \in [Workers -> Job]
         /\ \A v \in Workers :
              /\ Alike(job[v], Withdrawn(what, from)[v])
              /\ Withdrawn(what, from)[v].late = job[v].late
              /\ Withdrawn(what, from)[v].withdrawn =
                   job[v].withdrawn \cup Taken(v, what, from)
<1> DEFINE s(v) == job[v].withdrawn \cup Taken(v, what, from)
           new(v) == [job[v] EXCEPT !.withdrawn = s(v)]
<1>1. \A v \in Workers :
        job[v] \in Job /\ s(v) \in SUBSET {"account", "credential"}
  BY DEF TypeInv, Job, Taken
<1>2. Withdrawn(what, from) = [v \in Workers |-> new(v)]
  BY DEF Withdrawn, Taken
<1>3. \A v \in Workers : s(v) = job[v].withdrawn \cup Taken(v, what, from)
  OBVIOUS
<1> HIDE DEF s
<1>4. ASSUME NEW v \in Workers
      PROVE  /\ new(v) \in Job
             /\ Alike(job[v], new(v))
             /\ new(v).late = job[v].late /\ new(v).withdrawn = s(v)
  BY <1>1 DEF Job, Alike, Keeps
<1> HIDE DEF new
<1> QED
  BY <1>2, <1>3, <1>4

-----------------------------------------------------------------------------
(* Whose field it is                                                       *)

\* The field is for party p, or known to have come loose, or for nobody.
Meant(f, p) == p = f.who \/ f.loose \/ f.who = "nobody"

\* A field of a document, which names a signer id that was given out, or none.
Good(issued, f) ==
  /\ f.signer \in 0 .. Len(issued)
  /\ f.signer > 0 => Meant(f, issued[f.signer])

\* A field of a template, which names a role by its index, or one past them.
InRoles(list, f) ==
  /\ f.signer >= 1
  /\ IF f.signer <= Len(list) THEN Meant(f, list[f.signer].party)
                              ELSE f.loose \/ f.who = "nobody"

-----------------------------------------------------------------------------
(* Requests                                                                *)

\* The kinds of request that name a document.
Laid == {"signers", "fields", "detect", "order", "send", "void", "delete",
         "template", "explicit"}

\* What is known of the request that worker w has begun.
Arrives(w) ==
  /\ job'[w].phase = "auth" /\ job'[w].via \in 0 .. acct.issued
  /\ job'[w].seen = {} /\ job'[w].late = FALSE /\ job'[w].withdrawn = {}
  /\ job'[w].kind \in Laid =>
       job'[w].doc \in Docs /\ doc[job'[w].doc].status # "none"
  /\ job'[w].ask.signer # 0 =>
       /\ job'[w].doc \in Docs
       /\ job'[w].ask.signer \in 1 .. Len(doc[job'[w].doc].issued)
  /\ IF job'[w].kind = "explicit"
     THEN \A f \in job'[w].fields : InRoles(job'[w].list, f)
     ELSE job'[w].fields = {}

LEMMA BeginJob ==
  ASSUME TypeInv, NEW w \in Workers, NEW j \in Job,
         NEW vias \in SUBSET (0 .. acct.issued), BeginVia(w, j, vias)
  PROVE  /\ job' \in [Workers -> Job]
         /\ job[w].phase = "idle"
         /\ \A v \in Workers : v # w => job'[v] = job[v]
         /\ requests' \in Nat
         /\ UNCHANGED <<acct, doc, template, purge, faults>>
         /\ job'[w].phase = "auth" /\ job'[w].via \in 0 .. acct.issued
         /\ job'[w].kind = j.kind /\ job'[w].doc = j.doc /\ job'[w].ask = j.ask
         /\ job'[w].list = j.list /\ job'[w].seen = j.seen
         /\ job'[w].fields = j.fields
         /\ job'[w].late = j.late /\ job'[w].withdrawn = j.withdrawn
<1>1. PICK via \in vias :
        job' = [job EXCEPT ![w] = [j EXCEPT !.phase = "auth", !.via = via]]
  BY DEF BeginVia
<1> DEFINE new == [j EXCEPT !.phase = "auth", !.via = via]
<1>2. acct.issued \in Nat
  BY DEF TypeInv, Account
<1>3. via \in 0 .. acct.issued /\ via \in Nat
  BY <1>2
<1>4. /\ new \in Job
      /\ new.phase = "auth" /\ new.via = via
      /\ new.kind = j.kind /\ new.doc = j.doc /\ new.ask = j.ask
      /\ new.list = j.list /\ new.seen = j.seen /\ new.fields = j.fields
      /\ new.late = j.late /\ new.withdrawn = j.withdrawn
  BY <1>3 DEF Job, Phases
<1>5. job' = [job EXCEPT ![w] = new]
  BY <1>1
<1> HIDE DEF new
<1>6. /\ job' \in [Workers -> Job]
      /\ job'[w] = new
      /\ \A v \in Workers : v # w => job'[v] = job[v]
  BY <1>4, <1>5, SetJob
<1>7. requests' \in Nat
  <2>1. requests' = requests + 1 /\ requests \in Nat
    BY DEF BeginVia, Act, TypeInv
  <2> QED
    BY <2>1
<1> QED
  BY <1>3, <1>4, <1>6, <1>7 DEF BeginVia, At

\* A request of this kind that has read nothing.
Fresh(new, kind, d) ==
  /\ new.kind = kind /\ new.doc = d /\ new.ask.signer = 0
  /\ new.seen = {} /\ new.fields = {} /\ new.late = FALSE
  /\ new.withdrawn = {}

LEMMA NewJobType ==
  ASSUME NEW kind \in Kinds, NEW d \in Docs \cup {"none"}
  PROVE  \E new \in Job : new = NewJob(kind, d) /\ Fresh(new, kind, d)
<1> DEFINE new == [NoJob EXCEPT !.kind = kind, !.doc = d]
<1>1. /\ NoJob \in Job
      /\ NoJob.ask.signer = 0 /\ NoJob.seen = {} /\ NoJob.fields = {}
      /\ NoJob.late = FALSE /\ NoJob.withdrawn = {}
  BY NoJobType
<1>2. /\ new \in Job
      /\ new.kind = kind /\ new.doc = d /\ new.ask.signer = 0
      /\ new.seen = {} /\ new.fields = {} /\ new.late = FALSE
      /\ new.withdrawn = {}
  BY <1>1 DEF Job
<1>3. new = NewJob(kind, d)
  BY DEF NewJob
<1>4. Fresh(new, kind, d)
  BY <1>2 DEF Fresh
<1> HIDE DEF new
<1> QED
  BY <1>2, <1>3, <1>4

\* A request takes an idle worker, leaves the others alone and writes nothing.
LEMMA RequestJob ==
  ASSUME TypeInv, NEW w \in Workers, Request(w)
  PROVE  /\ job' \in [Workers -> Job]
         /\ job[w].phase = "idle"
         /\ \A v \in Workers : v # w => job'[v] = job[v]
         /\ requests' \in Nat
         /\ UNCHANGED <<acct, doc, template, purge, faults>>
         /\ Arrives(w)
<1> DEFINE Begins ==
      /\ job' \in [Workers -> Job]
      /\ job[w].phase = "idle"
      /\ \A v \in Workers : v # w => job'[v] = job[v]
      /\ requests' \in Nat
      /\ UNCHANGED <<acct, doc, template, purge, faults>>
      /\ Arrives(w)
<1>v. 0 .. acct.issued \in SUBSET (0 .. acct.issued)
      /\ {0} \in SUBSET (0 .. acct.issued)
  <2>1. acct.issued \in Nat
    BY DEF TypeInv, Account
  <2> QED
    BY <2>1
<1>b. ASSUME NEW j \in Job, BeginVia(w, j, 0 .. acct.issued)
      PROVE  /\ job' \in [Workers -> Job]
             /\ job[w].phase = "idle"
             /\ \A v \in Workers : v # w => job'[v] = job[v]
             /\ requests' \in Nat
             /\ UNCHANGED <<acct, doc, template, purge, faults>>
             /\ job'[w].phase = "auth" /\ job'[w].via \in 0 .. acct.issued
             /\ job'[w].kind = j.kind /\ job'[w].doc = j.doc
             /\ job'[w].ask = j.ask /\ job'[w].list = j.list
             /\ job'[w].seen = j.seen /\ job'[w].fields = j.fields
             /\ job'[w].late = j.late /\ job'[w].withdrawn = j.withdrawn
  <2>1. PICK vias \in SUBSET (0 .. acct.issued) : vias = 0 .. acct.issued
    BY <1>v
  <2>2. BeginVia(w, j, vias)
    BY <1>b, <2>1
  <2> QED
    BY <2>2, BeginJob
<1>a. ASSUME NEW kind \in Kinds, NEW d \in Docs \cup {"none"},
             kind \in Laid => d \in Docs /\ doc[d].status # "none",
             kind # "explicit",
             NEW vias \in SUBSET (0 .. acct.issued),
             BeginVia(w, NewJob(kind, d), vias)
      PROVE  Begins
  <2>1. PICK new \in Job : new = NewJob(kind, d) /\ Fresh(new, kind, d)
    BY NewJobType
  <2>2. /\ job' \in [Workers -> Job]
        /\ job[w].phase = "idle"
        /\ \A v \in Workers : v # w => job'[v] = job[v]
        /\ requests' \in Nat
        /\ UNCHANGED <<acct, doc, template, purge, faults>>
        /\ job'[w].phase = "auth" /\ job'[w].via \in 0 .. acct.issued
        /\ job'[w].kind = kind /\ job'[w].doc = d /\ job'[w].ask.signer = 0
        /\ job'[w].seen = {} /\ job'[w].fields = {}
        /\ job'[w].late = FALSE /\ job'[w].withdrawn = {}
    BY <1>a, <2>1, BeginJob DEF Fresh
  <2>3. Arrives(w)
    BY <1>a, <2>2 DEF Arrives
  <2> QED
    BY <2>2, <2>3
<1>1. CASE PostCreate(w)
  BY <1>1, <1>a, <1>v DEF PostCreate, Begin, Kinds, Laid
<1>2. CASE PostKey(w)
  BY <1>2, <1>a, <1>v DEF PostKey, Kinds, Laid
<1>3. CASE PostUse(w)
  <2>1. PICK recipients \in RecipientLists :
          Begin(w, [NewJob("use", "none") EXCEPT
                      !.list = [i \in DOMAIN recipients |->
                                  [party |-> recipients[i], order |-> i]]])
    BY <1>3 DEF PostUse
  <2>k. PICK kind \in Kinds : kind = "use"
    BY DEF Kinds
  <2>p. PICK old \in Job :
          old = NewJob(kind, "none") /\ Fresh(old, kind, "none")
    BY NewJobType
  <2> DEFINE list == [i \in DOMAIN recipients |->
                        [party |-> recipients[i], order |-> i]]
             new == [old EXCEPT !.list = list]
  <2>2. recipients \in Seq(Parties)
    BY DraftApiAssumption DEF DraftApiAssumption
  <2>3. list \in Seq(Role)
    <3>1. \A i \in DOMAIN recipients :
            [party |-> recipients[i], order |-> i] \in Role
      BY <2>2 DEF Role
    <3> QED
      BY <2>2, <3>1
  <2>5. BeginVia(w, new, 0 .. acct.issued)
    BY <2>k, <2>p, <2>1 DEF Begin
  <2> HIDE DEF list
  <2>6. /\ new \in Job /\ new.kind = "use"
        /\ new.ask.signer = 0 /\ new.seen = {}
        /\ new.fields = {} /\ new.late = FALSE /\ new.withdrawn = {}
    BY <2>k, <2>3, <2>p DEF Job, Fresh
  <2> HIDE DEF new
  <2>7. Arrives(w)
    BY <1>b, <2>5, <2>6 DEF Arrives, Laid
  <2> QED
    BY <1>b, <2>5, <2>6, <2>7
<1>4. ASSUME NEW d \in Docs, doc[d].status # "none",
             \/ PostDetect(w, d) \/ PostOrder(w, d) \/ PostSend(w, d)
             \/ PostDelete(w, d) \/ PostVoid(w, d) \/ PostTemplate(w, d)
      PROVE  Begins
  <2>1. PICK kind \in {"detect", "order", "send", "delete", "void",
                       "template"} :
          BeginVia(w, NewJob(kind, d), 0 .. acct.issued)
    BY <1>4
    DEF PostDetect, PostOrder, PostSend, PostDelete, PostVoid, PostTemplate,
        Begin
  <2> QED
    BY <1>4, <1>a, <1>v, <2>1 DEF Kinds
<1>5. ASSUME NEW d \in Docs, doc[d].status # "none", PostSigners(w, d)
      PROVE  Begins
  <2>1. PICK list \in SignerLists :
          Begin(w, [NewJob("signers", d) EXCEPT !.list = list])
    BY <1>5 DEF PostSigners
  <2>k. PICK kind \in Kinds : kind = "signers"
    BY DEF Kinds
  <2>p. PICK old \in Job : old = NewJob(kind, d) /\ Fresh(old, kind, d)
    BY NewJobType
  <2> DEFINE new == [old EXCEPT !.list = list]
  <2>2. list \in Seq(Role)
    BY DraftApiAssumption DEF DraftApiAssumption
  <2>4. BeginVia(w, new, 0 .. acct.issued)
    BY <2>k, <2>p, <2>1 DEF Begin
  <2>5. /\ new \in Job /\ new.kind = "signers" /\ new.doc = d
        /\ new.ask.signer = 0 /\ new.seen = {} /\ new.fields = {}
        /\ new.late = FALSE /\ new.withdrawn = {}
    BY <2>k, <2>2, <2>p DEF Job, Fresh
  <2> HIDE DEF new
  <2>6. Arrives(w)
    BY <1>5, <1>b, <2>4, <2>5 DEF Arrives, Laid
  <2> QED
    BY <1>b, <2>4, <2>5, <2>6
<1>6. ASSUME NEW d \in Docs, doc[d].status # "none", PostFields(w, d)
      PROVE  Begins
  <2>1. PICK ask \in {NoAsk} \cup {[signer |-> 0, who |-> p] : p \in Parties}
               \cup {[signer |-> i, who |-> doc[d].issued[i]] :
                       i \in DOMAIN doc[d].issued} :
          Begin(w, [NewJob("fields", d) EXCEPT !.ask = ask])
    BY <1>6 DEF PostFields
  <2>k. PICK kind \in Kinds : kind = "fields"
    BY DEF Kinds
  <2>p. PICK old \in Job : old = NewJob(kind, d) /\ Fresh(old, kind, d)
    BY NewJobType
  <2> DEFINE new == [old EXCEPT !.ask = ask]
  <2>2. doc[d].issued \in Seq(Parties)
    BY DEF TypeInv, Agreement
  <2>3. /\ ask \in Ask
        /\ ask.signer # 0 => ask.signer \in 1 .. Len(doc[d].issued)
    BY <2>2 DEF Ask, NoAsk
  <2>5. BeginVia(w, new, 0 .. acct.issued)
    BY <2>k, <2>p, <2>1 DEF Begin
  <2>6. /\ new \in Job /\ new.kind = "fields" /\ new.doc = d
        /\ new.ask = ask /\ new.seen = {} /\ new.fields = {}
        /\ new.late = FALSE /\ new.withdrawn = {}
    BY <2>k, <2>3, <2>p DEF Job, Fresh
  <2> HIDE DEF new
  <2>7. Arrives(w)
    BY <1>6, <1>b, <2>3, <2>5, <2>6 DEF Arrives, Laid
  <2> QED
    BY <1>b, <2>5, <2>6, <2>7
<1>7. ASSUME NEW d \in Docs, doc[d].status # "none", PostExplicit(w, d)
      PROVE  Begins
  <2>1. PICK list \in SignerLists \ {<<>>} :
          \E f \in {[signer |-> Len(list), who |-> list[Len(list)].party],
                    [signer |-> Len(list) + 1, who |-> "nobody"]} :
            Begin(w, [NewJob("explicit", d) EXCEPT !.list = list, !.fields =
                        {[signer |-> f.signer, who |-> f.who,
                          loose |-> FALSE]}])
    BY <1>7 DEF PostExplicit
  <2>2. PICK f \in {[signer |-> Len(list), who |-> list[Len(list)].party],
                    [signer |-> Len(list) + 1, who |-> "nobody"]} :
            Begin(w, [NewJob("explicit", d) EXCEPT !.list = list, !.fields =
                        {[signer |-> f.signer, who |-> f.who,
                          loose |-> FALSE]}])
    BY <2>1
  <2>k. PICK kind \in Kinds : kind = "explicit"
    BY DEF Kinds
  <2>p. PICK old \in Job : old = NewJob(kind, d) /\ Fresh(old, kind, d)
    BY NewJobType
  <2> DEFINE g == [signer |-> f.signer, who |-> f.who, loose |-> FALSE]
             fields == {g}
             new == [old EXCEPT !.list = list, !.fields = fields]
  <2>3. /\ list \in Seq(Role) /\ Len(list) \in Nat /\ Len(list) >= 1
        /\ Len(list) + 1 \in Nat
    BY DraftApiAssumption DEF DraftApiAssumption
  <2>4. list[Len(list)] \in Role
    BY <2>3
  <2>5. list[Len(list)].party \in Parties
    BY <2>4 DEF Role
  <2>6. g \in FieldRow /\ InRoles(list, g)
    BY <2>3, <2>5 DEF FieldRow, InRoles, Meant
  <2>8. BeginVia(w, new, 0 .. acct.issued)
    BY <2>k, <2>p, <2>2 DEF Begin
  <2>9. fields \subseteq FieldRow /\ \A x \in fields : InRoles(list, x)
    BY <2>6
  <2> HIDE DEF fields
  <2>10. /\ new \in Job /\ new.kind = "explicit" /\ new.doc = d
         /\ new.list = list /\ new.fields = fields
         /\ new.ask.signer = 0 /\ new.seen = {}
         /\ new.late = FALSE /\ new.withdrawn = {}
    BY <2>k, <2>3, <2>p, <2>9 DEF Job, Fresh
  <2> HIDE DEF new
  <2> QED
    <3>1. /\ job' \in [Workers -> Job]
          /\ job[w].phase = "idle"
          /\ \A v \in Workers : v # w => job'[v] = job[v]
          /\ requests' \in Nat
          /\ UNCHANGED <<acct, doc, template, purge, faults>>
          /\ job'[w].phase = "auth" /\ job'[w].via \in 0 .. acct.issued
          /\ job'[w].kind = "explicit" /\ job'[w].doc = d
          /\ job'[w].ask.signer = 0 /\ job'[w].list = list
          /\ job'[w].seen = {} /\ job'[w].fields = fields
          /\ job'[w].late = FALSE /\ job'[w].withdrawn = {}
      BY <1>b, <2>8, <2>10
    <3>2. Arrives(w)
      BY <1>7, <2>9, <3>1 DEF Arrives, Laid
    <3> QED
      BY <3>1, <3>2
<1> QED
  BY <1>1, <1>2, <1>3, <1>4, <1>5, <1>6, <1>7 DEF Request

-----------------------------------------------------------------------------
(* Where a request is                                                      *)

\* The kinds of request that come to each phase.
InPlace(j) ==
  /\ j.phase = "own" => j.kind \in {"signers", "fields", "order", "send",
                                    "void", "delete"}
  /\ j.phase \in {"paid", "message", "freeze", "commit"} => j.kind = "send"
  /\ j.phase = "row" => j.kind \in {"fields", "order", "send", "delete",
                                    "detect", "template", "explicit"}
  /\ j.phase = "rows" => j.kind \in {"fields", "send", "template"}
  /\ j.phase = "layout" => j.kind \in {"template", "detect"}
  /\ j.phase = "insert" => j.kind \in {"template", "explicit"}
  /\ j.phase \in {"unlink", "remove"} => j.kind = "delete"
  /\ j.phase = "mode" => j.kind = "order"
  /\ j.phase = "void" => j.kind = "void"
  /\ j.phase = "create" => j.kind \in {"create", "use"}
  /\ j.phase \in {"askSigners", "putSigners"} => j.kind \in {"signers", "use"}
  /\ j.phase \in {"read", "ids"} => j.kind = "use"
  /\ j.phase \in {"askFields", "putFields"} =>
       j.kind \in {"fields", "detect", "use"}
  /\ j.phase = "key" => j.kind \in {"issue", "revoke"}

\* A request that is about a document.
AtDoc(j) ==
  \/ j.kind \in Laid
  \/ j.phase \in {"askSigners", "putSigners", "ids", "askFields", "putFields"}

\* A request, by what the documents are: it names one that is there, or was;
\* what it has read of the signers are rows of that document.
Shaped(j) ==
  /\ InPlace(j)
  /\ j.via <= acct.issued
  /\ AtDoc(j) => j.doc \in Docs /\ doc[j.doc].status # "none"
  /\ j.kind = "fields" => j.ask.signer <= Len(doc[j.doc].issued)
  /\ j.kind = "template" =>
       /\ IsFiniteSet(j.seen)
       /\ \A s \in j.seen : s.id \in 1 .. Len(doc[j.doc].issued)
  /\ j.kind = "use" /\ j.phase \notin {"ids", "askFields", "putFields"} =>
       j.seen = {}

\* The rows of a document's signers have ids that it gave out.
RowsAreIssued(a) ==
  /\ IsFiniteSet(a.signers)
  /\ \A s \in a.signers : s.id \in 1 .. Len(a.issued)

Shape ==
  /\ TypeInv
  /\ \A d \in Docs : RowsAreIssued(doc[d])
  /\ \A w \in Workers : Shaped(job[w])

-----------------------------------------------------------------------------
(* What a step does to its document                                        *)

\* No document but d is written.
Only(d) ==
  /\ doc' \in [Docs -> Agreement]
  /\ \A e \in Docs : e # d => doc'[e] = doc[e]

LEMMA SetDoc ==
  ASSUME TypeInv, NEW d \in Docs, NEW a \in Agreement,
         doc' = [doc EXCEPT ![d] = a]
  PROVE  Only(d) /\ doc'[d] = a
  BY DEF TypeInv, Only

\* What is known of a step of worker w at its document: the row that was
\* there, and one worker that reads or writes it.
LEMMA TheDoc ==
  ASSUME Shape, NEW w \in Workers, AtDoc(job[w])
  PROVE  /\ job[w] \in Job /\ job[w].doc \in Docs
         /\ doc[job[w].doc] \in Agreement /\ doc[job[w].doc].status # "none"
         /\ doc[job[w].doc].issued \in Seq(Parties)
         /\ Len(doc[job[w].doc].issued) \in Nat
<1>1. job[w] \in Job /\ Shaped(job[w])
  BY DEF Shape, TypeInv
<1>2. job[w].doc \in Docs /\ doc[job[w].doc].status # "none"
  BY <1>1 DEF Shaped
<1>3. doc[job[w].doc] \in Agreement
  BY <1>2 DEF Shape, TypeInv
<1>4. doc[job[w].doc].issued \in Seq(Parties)
  BY <1>3 DEF Agreement
<1> QED
  BY <1>1, <1>2, <1>3, <1>4

\* The row is as it was, but for its file and its message.
Alone(a, b) ==
  /\ b.status = a.status /\ b.mode = a.mode /\ b.signers = a.signers
  /\ b.fields = a.fields /\ b.issued = a.issued /\ b.crossed = a.crossed
  /\ b.stray = a.stray

LEMMA MessageRow ==
  ASSUME Shape, NEW w \in Workers, PutMessage(w)
  PROVE  /\ doc' \in [Docs -> Agreement]
         /\ \A e \in Docs : Alone(doc[e], doc'[e])
<1> DEFINE d == job[w].doc
           new == [doc[d] EXCEPT !.message = "other"]
<1>1. job[w].phase = "message"
  BY DEF PutMessage, At
<1>2. AtDoc(job[w])
  BY <1>1 DEF Shape, Shaped, InPlace, AtDoc, Laid
<1>3. d \in Docs /\ doc[d] \in Agreement
  BY <1>2, TheDoc
<1>4. new \in Agreement /\ Alone(doc[d], new)
  BY <1>3 DEF Agreement, Alone
<1>5. doc' = doc \/ doc' = [doc EXCEPT ![d] = new]
  BY DEF PutMessage
<1> HIDE DEF new, d
<1>6. doc \in [Docs -> Agreement] /\ \A e \in Docs : Alone(doc[e], doc[e])
  BY DEF Shape, TypeInv, Alone
<1>7. CASE doc' = doc
  BY <1>6, <1>7
<1>8. CASE doc' = [doc EXCEPT ![d] = new]
  BY <1>3, <1>4, <1>6, <1>8, SetDoc DEF Shape, Only
<1> QED
  BY <1>5, <1>7, <1>8

LEMMA UnlinkRow ==
  ASSUME Shape, NEW w \in Workers, Unlink(w)
  PROVE  /\ doc' \in [Docs -> Agreement]
         /\ \A e \in Docs : Alone(doc[e], doc'[e])
<1> DEFINE d == job[w].doc
           new == [doc[d] EXCEPT !.file = FALSE]
<1>1. job[w].phase = "unlink"
  BY DEF Unlink, At
<1>2. AtDoc(job[w])
  BY <1>1 DEF Shape, Shaped, InPlace, AtDoc, Laid
<1>3. d \in Docs /\ doc[d] \in Agreement
  BY <1>2, TheDoc
<1>4. new \in Agreement /\ Alone(doc[d], new)
  BY <1>3 DEF Agreement, Alone
<1>5. doc' = [doc EXCEPT ![d] = new]
  BY DEF Unlink
<1> HIDE DEF new, d
<1>6. \A e \in Docs : Alone(doc[e], doc[e])
  BY DEF Alone
<1> QED
  BY <1>3, <1>4, <1>5, <1>6, SetDoc DEF Shape, Only

\* The signers are the ones that were there.
Rows(a, b) ==
  b.signers = a.signers /\ b.issued = a.issued /\ b.crossed = a.crossed

LEMMA CreateRow ==
  ASSUME Shape, NEW w \in Workers, NEW d \in Docs, doc[d].status = "none",
         doc' = [doc EXCEPT ![d].status = "draft", ![d].file = TRUE,
                   ![d].stray = acct.status = "gone" \/ purge # NoPurge]
  PROVE  /\ Only(d)
         /\ doc'[d].status = "draft" /\ Rows(doc[d], doc'[d])
         /\ doc'[d].fields = doc[d].fields
         /\ doc'[d].stray <=> acct.status = "gone" \/ purge # NoPurge
<1> DEFINE b == acct.status = "gone" \/ purge # NoPurge
           new == [doc[d] EXCEPT !.status = "draft", !.file = TRUE, !.stray = b]
<1>1. b \in BOOLEAN /\ (b <=> acct.status = "gone" \/ purge # NoPurge)
  OBVIOUS
<1>2. doc \in [Docs -> Agreement] /\ doc[d] \in Agreement
  BY DEF Shape, TypeInv
<1>3. doc' = [doc EXCEPT ![d] = new]
  BY <1>2
<1> HIDE DEF b
<1>4. /\ new \in Agreement /\ Rows(doc[d], new)
      /\ new.status = "draft" /\ new.fields = doc[d].fields /\ new.stray = b
  BY <1>1, <1>2 DEF Agreement, Rows
<1> HIDE DEF new
<1> QED
  BY <1>1, <1>3, <1>4, SetDoc DEF Shape

LEMMA FieldsRow ==
  ASSUME Shape, NEW w \in Workers, PutFields(w)
  PROVE  /\ job[w].doc \in Docs /\ Only(job[w].doc)
         /\ \A e \in Docs : Rows(doc[e], doc'[e])
         /\ \A e \in Docs : doc'[e].status = doc[e].status
         /\ \A e \in Docs : doc'[e].stray = doc[e].stray
         /\ \/ doc'[job[w].doc].fields = doc[job[w].doc].fields
            \/ doc'[job[w].doc].fields = job[w].fields
<1> DEFINE d == job[w].doc
           new == [doc[d] EXCEPT !.fields = job[w].fields]
<1>1. job[w].phase = "putFields"
  BY DEF PutFields, At
<1>2. AtDoc(job[w])
  BY <1>1 DEF AtDoc
<1>3. d \in Docs /\ doc[d] \in Agreement /\ job[w] \in Job
  BY <1>2, TheDoc
<1>4. /\ new \in Agreement /\ Rows(doc[d], new)
      /\ new.status = doc[d].status /\ new.fields = job[w].fields
      /\ new.stray = doc[d].stray
  BY <1>3 DEF Agreement, Rows, Job
<1>5. doc' = doc \/ doc' = [doc EXCEPT ![d] = new]
  BY <1>3 DEF PutFields, Shape, TypeInv
<1> HIDE DEF new, d
<1>6. doc \in [Docs -> Agreement] /\ \A e \in Docs : Rows(doc[e], doc[e])
  BY DEF Shape, TypeInv, Rows
<1>7. CASE doc' = doc
  BY <1>3, <1>6, <1>7 DEF Only, d
<1>8. CASE doc' = [doc EXCEPT ![d] = new]
  <2>1. Only(d) /\ doc'[d] = new
    BY <1>3, <1>4, <1>8, SetDoc DEF Shape
  <2> QED
    BY <1>3, <1>4, <1>6, <2>1 DEF Only, d
<1> QED
  BY <1>5, <1>7, <1>8

LEMMA ModeRow ==
  ASSUME Shape, NEW w \in Workers, PutMode(w)
  PROVE  /\ job[w].doc \in Docs /\ Only(job[w].doc)
         /\ \A e \in Docs :
              /\ Rows(doc[e], doc'[e])
              /\ doc'[e].status = doc[e].status
              /\ doc'[e].fields = doc[e].fields
              /\ doc'[e].stray = doc[e].stray
<1>0. PICK mode \in {"parallel", "sequential"} :
        \/ doc' = doc
        \/ doc' = [doc EXCEPT ![job[w].doc].mode = mode]
  BY DEF PutMode
<1> DEFINE d == job[w].doc
           new == [doc[d] EXCEPT !.mode = mode]
<1>1. job[w].phase = "mode"
  BY DEF PutMode, At
<1>2. AtDoc(job[w])
  BY <1>1 DEF Shape, Shaped, InPlace, AtDoc, Laid
<1>3. d \in Docs /\ doc[d] \in Agreement
  BY <1>2, TheDoc
<1>4. /\ new \in Agreement /\ Rows(doc[d], new)
      /\ new.status = doc[d].status /\ new.fields = doc[d].fields
      /\ new.stray = doc[d].stray
  BY <1>3 DEF Agreement, Rows
<1>5. doc' = doc \/ doc' = [doc EXCEPT ![d] = new]
  BY <1>0, <1>3 DEF Shape, TypeInv
<1> HIDE DEF new, d
<1>6. doc \in [Docs -> Agreement] /\ \A e \in Docs : Rows(doc[e], doc[e])
  BY DEF Shape, TypeInv, Rows
<1>7. CASE doc' = doc
  BY <1>3, <1>6, <1>7 DEF Only, d
<1>8. CASE doc' = [doc EXCEPT ![d] = new]
  <2>1. Only(d) /\ doc'[d] = new
    BY <1>3, <1>4, <1>8, SetDoc DEF Shape
  <2> QED
    BY <1>3, <1>4, <1>6, <2>1 DEF Only, d
<1> QED
  BY <1>5, <1>7, <1>8

LEMMA VoidedRow ==
  ASSUME Shape, NEW w \in Workers, VoidRow(w)
  PROVE  /\ job[w].doc \in Docs /\ Only(job[w].doc)
         /\ \A e \in Docs :
              /\ Rows(doc[e], doc'[e])
              /\ doc'[e].fields = doc[e].fields
              /\ doc'[e].stray = doc[e].stray
              /\ doc'[e].mode = doc[e].mode
         /\ \/ doc' = doc
            \/ /\ doc[job[w].doc].status \in Known
               /\ doc'[job[w].doc].status = "void"
<1> DEFINE d == job[w].doc
           new == [doc[d] EXCEPT !.status = "void"]
<1>1. job[w].phase = "void"
  BY DEF VoidRow, At
<1>2. AtDoc(job[w])
  BY <1>1 DEF Shape, Shaped, InPlace, AtDoc, Laid
<1>3. d \in Docs /\ doc[d] \in Agreement
  BY <1>2, TheDoc
<1>4. /\ new \in Agreement /\ Rows(doc[d], new)
      /\ new.status = "void" /\ new.fields = doc[d].fields
      /\ new.stray = doc[d].stray /\ new.mode = doc[d].mode
  BY <1>3 DEF Agreement, Rows
<1>5. \/ doc' = doc
      \/ doc[d].status \in Known /\ doc' = [doc EXCEPT ![d] = new]
  BY <1>3 DEF VoidRow, Exists, The, Shape, TypeInv
<1> HIDE DEF new, d
<1>6. doc \in [Docs -> Agreement] /\ \A e \in Docs : Rows(doc[e], doc[e])
  BY DEF Shape, TypeInv, Rows
<1>7. CASE doc' = doc
  BY <1>3, <1>6, <1>7 DEF Only, d
<1>8. CASE doc[d].status \in Known /\ doc' = [doc EXCEPT ![d] = new]
  <2>1. Only(d) /\ doc'[d] = new
    BY <1>3, <1>4, <1>8, SetDoc DEF Shape
  <2> QED
    BY <1>3, <1>4, <1>6, <1>8, <2>1 DEF Only, d
<1> QED
  BY <1>5, <1>7, <1>8

LEMMA RemovedRow ==
  ASSUME Shape, NEW w \in Workers, RemoveRows(w)
  PROVE  /\ job[w].doc \in Docs /\ Only(job[w].doc)
         /\ doc'[job[w].doc].status = "gone"
         /\ doc'[job[w].doc].signers = {} /\ doc'[job[w].doc].fields = {}
         /\ doc'[job[w].doc].issued = doc[job[w].doc].issued
         /\ doc'[job[w].doc].crossed = doc[job[w].doc].crossed
<1> DEFINE d == job[w].doc
           new == Removed(doc[d])
<1>1. job[w].phase = "remove"
  BY DEF RemoveRows, At
<1>2. AtDoc(job[w])
  BY <1>1 DEF Shape, Shaped, InPlace, AtDoc, Laid
<1>3. d \in Docs /\ doc[d] \in Agreement
  BY <1>2, TheDoc
<1>4. /\ new \in Agreement /\ new.status = "gone"
      /\ new.signers = {} /\ new.fields = {}
      /\ new.issued = doc[d].issued /\ new.crossed = doc[d].crossed
  BY <1>3 DEF Agreement, Removed
<1>5. doc' = [doc EXCEPT ![d] = new]
  BY <1>3 DEF RemoveRows, Shape, TypeInv
<1> HIDE DEF new
<1> QED
  BY <1>3, <1>4, <1>5, SetDoc DEF Shape

LEMMA PurgedRows ==
  ASSUME Shape, PurgeDocs
  PROVE  /\ doc' \in [Docs -> Agreement]
         /\ \A e \in Docs :
              IF e \in purge.ids
              THEN /\ doc'[e].status = "gone" /\ doc'[e].signers = {}
                   /\ doc'[e].fields = {} /\ doc'[e].issued = doc[e].issued
                   /\ doc'[e].crossed = doc[e].crossed
              ELSE doc'[e] = doc[e]
<1> DEFINE new(e) == [Removed(doc[e]) EXCEPT !.file = doc[e].file]
<1>1. doc' = [e \in Docs |-> IF e \in purge.ids THEN new(e) ELSE doc[e]]
  BY DEF PurgeDocs
<1>2. doc \in [Docs -> Agreement]
  BY DEF Shape, TypeInv
<1>3. ASSUME NEW e \in Docs
      PROVE  /\ new(e) \in Agreement /\ new(e).status = "gone"
             /\ new(e).signers = {} /\ new(e).fields = {}
             /\ new(e).issued = doc[e].issued /\ new(e).crossed = doc[e].crossed
  <2>1. doc[e] \in Agreement
    BY <1>2
  <2>2. new(e) = [doc[e] EXCEPT !.status = "gone", !.signers = {},
                                !.fields = {}]
    BY <2>1 DEF Agreement, Removed
  <2> QED
    BY <2>1, <2>2 DEF Agreement
<1> HIDE DEF new
<1> QED
  BY <1>1, <1>2, <1>3

-----------------------------------------------------------------------------
(* The rows of a document's signers                                        *)

LEMMA FiniteImage ==
  ASSUME NEW S, IsFiniteSet(S), NEW T, NEW f \in [S -> T],
         \A t \in T : \E x \in S : f[x] = t
  PROVE  IsFiniteSet(T)
<1>1. f \in Surjection(S, T)
  BY DEF Surjection
<1> QED
  BY <1>1, FS_Surjection

\* The rows that a send writes.
Linked(rows, read) == {[r EXCEPT !.link = @ \/ r.id \in read] : r \in rows}

\* They are the rows that were there, each with a link if it was read.
LEMMA LinkedRows ==
  ASSUME NEW rows \in SUBSET SignerRow, IsFiniteSet(rows), NEW read
  PROVE  /\ Linked(rows, read) \in SUBSET SignerRow
         /\ IsFiniteSet(Linked(rows, read))
         /\ \A s \in Linked(rows, read) : \E r \in rows :
              /\ s.id = r.id /\ s.order = r.order
              /\ s.link <=> r.link \/ r.id \in read
         /\ \A r \in rows : \E s \in Linked(rows, read) :
              s.id = r.id /\ s.order = r.order
<1> DEFINE b(r) == r.link \/ r.id \in read
           new(r) == [r EXCEPT !.link = b(r)]
           T == {new(r) : r \in rows}
           f == [r \in rows |-> new(r)]
<1>1. \A r \in rows : b(r) \in BOOLEAN /\ (b(r) <=> r.link \/ r.id \in read)
  BY DEF SignerRow
<1>2. Linked(rows, read) = T
  BY DEF Linked
<1> HIDE DEF b
<1>3. \A r \in rows : /\ new(r) \in SignerRow
                      /\ new(r).id = r.id /\ new(r).order = r.order
                      /\ new(r).link = b(r)
  BY <1>1 DEF SignerRow
<1> HIDE DEF new
<1>4. f \in [rows -> T] /\ \A t \in T : \E r \in rows : f[r] = t
  OBVIOUS
<1>5. IsFiniteSet(T)
  <2> HIDE DEF f, T
  <2> QED
    BY <1>4, FiniteImage
<1>6. T \in SUBSET SignerRow
  BY <1>3
<1>7. \A s \in T : \E r \in rows : s = new(r)
  OBVIOUS
<1>8. \A r \in rows : new(r) \in T
  OBVIOUS
<1> HIDE DEF T
<1> QED
  BY <1>1, <1>2, <1>3, <1>5, <1>6, <1>7, <1>8

\* Without their links the rows are what they were.
LEMMA LinkedLayout ==
  ASSUME NEW rows \in SUBSET SignerRow, IsFiniteSet(rows), NEW read
  PROVE  {[s EXCEPT !.link = FALSE] : s \in Linked(rows, read)}
           = {[r EXCEPT !.link = FALSE] : r \in rows}
<1> DEFINE bare(r) == [r EXCEPT !.link = FALSE]
<1>1. \A s, r \in SignerRow :
        s.id = r.id /\ s.order = r.order => bare(s) = bare(r)
  BY DEF SignerRow
<1>2. /\ Linked(rows, read) \in SUBSET SignerRow
      /\ \A s \in Linked(rows, read) : \E r \in rows :
           s.id = r.id /\ s.order = r.order
      /\ \A r \in rows : \E s \in Linked(rows, read) :
           s.id = r.id /\ s.order = r.order
  BY LinkedRows
<1>3. /\ \A s \in Linked(rows, read) : \E r \in rows : bare(s) = bare(r)
      /\ \A r \in rows : \E s \in Linked(rows, read) : bare(r) = bare(s)
  <2> HIDE DEF bare
  <2> QED
    BY <1>1, <1>2
<1> HIDE DEF bare
<1>4. {bare(s) : s \in Linked(rows, read)} = {bare(r) : r \in rows}
  BY <1>3
<1> QED
  BY <1>4 DEF bare

\* A list of signers is given ids that follow on the ones there were.
LEMMA InsertedRows ==
  ASSUME NEW issued \in Seq(Parties), NEW list \in Seq(Role)
  PROVE  LET given == issued \o [i \in DOMAIN list |-> list[i].party]
             rows == Inserted(issued, list) IN
         /\ given \in Seq(Parties)
         /\ Len(given) = Len(issued) + Len(list)
         /\ \A i \in 1 .. Len(issued) : given[i] = issued[i]
         /\ \A i \in DOMAIN list : given[Len(issued) + i] = list[i].party
         /\ rows \in SUBSET SignerRow
         /\ IsFiniteSet(rows)
         /\ \A s \in rows : s.id \in 1 .. Len(given)
<1> DEFINE new == [i \in DOMAIN list |-> list[i].party]
           given == issued \o new
           row(i) == [id |-> Len(issued) + i, order |-> list[i].order,
                      link |-> FALSE]
           rows == {row(i) : i \in DOMAIN list}
           f == [i \in DOMAIN list |-> row(i)]
<1>1. /\ Len(list) \in Nat /\ DOMAIN list = 1 .. Len(list)
      /\ Len(issued) \in Nat
      /\ \A i \in DOMAIN list : list[i] \in Role
  OBVIOUS
<1>2. \A i \in DOMAIN list : list[i].party \in Parties /\ list[i].order \in Nat
  BY <1>1 DEF Role
<1>3. new \in Seq(Parties) /\ Len(new) = Len(list)
  BY <1>1, <1>2
<1>4. /\ given \in Seq(Parties)
      /\ Len(given) = Len(issued) + Len(list)
      /\ \A i \in 1 .. Len(issued) : given[i] = issued[i]
      /\ \A i \in DOMAIN list : given[Len(issued) + i] = new[i]
  <2> HIDE DEF new
  <2> QED
    BY <1>1, <1>3
<1>5. \A i \in DOMAIN list : new[i] = list[i].party
  OBVIOUS
<1>6. \A i \in DOMAIN list :
        row(i) \in SignerRow /\ row(i).id \in 1 .. Len(issued) + Len(list)
  BY <1>1, <1>2 DEF SignerRow
<1> HIDE DEF row
<1>7. f \in [DOMAIN list -> rows]
      /\ \A t \in rows : \E i \in DOMAIN list : f[i] = t
  OBVIOUS
<1>8. IsFiniteSet(DOMAIN list)
  BY <1>1, FS_Interval
<1>9. IsFiniteSet(rows)
  <2> HIDE DEF f, rows
  <2> QED
    BY <1>7, <1>8, FiniteImage
<1>10. rows \in SUBSET SignerRow
       /\ \A s \in rows : s.id \in 1 .. Len(issued) + Len(list)
  BY <1>6
<1>11. rows = Inserted(issued, list)
  BY DEF Inserted, row
<1> HIDE DEF rows, given, new
<1>12. given = issued \o [i \in DOMAIN list |-> list[i].party]
  BY DEF given, new
<1> QED
  BY <1>4, <1>5, <1>9, <1>10, <1>11, <1>12

LEMMA SentRow ==
  ASSUME Shape, NEW w \in Workers, SendCommit(w)
  PROVE  /\ job[w].doc \in Docs /\ Only(job[w].doc)
         /\ job[w].kind = "send" /\ job[w].phase = "commit"
         /\ \/ doc' = doc
            \/ /\ doc[job[w].doc].status \in Known
               /\ doc'[job[w].doc].status = "out"
               /\ doc'[job[w].doc].signers =
                    Linked(doc[job[w].doc].signers, {r.id : r \in job[w].seen})
               /\ doc'[job[w].doc].fields = doc[job[w].doc].fields
               /\ doc'[job[w].doc].mode = doc[job[w].doc].mode
               /\ doc'[job[w].doc].issued = doc[job[w].doc].issued
               /\ doc'[job[w].doc].crossed = doc[job[w].doc].crossed
               /\ doc'[job[w].doc].stray = doc[job[w].doc].stray
<1> DEFINE d == job[w].doc
           read == {r.id : r \in job[w].seen}
           rows == Linked(doc[d].signers, read)
           new == [doc[d] EXCEPT !.status = "out", !.signers = rows]
<1>1. job[w].phase = "commit"
  BY DEF SendCommit, At
<1>2. AtDoc(job[w]) /\ job[w].kind = "send"
  BY <1>1 DEF Shape, Shaped, InPlace, AtDoc, Laid
<1>3. d \in Docs /\ doc[d] \in Agreement
  BY <1>2, TheDoc
<1>4. rows \in SUBSET SignerRow
  <2>1. doc[d].signers \in SUBSET SignerRow /\ IsFiniteSet(doc[d].signers)
    BY <1>3 DEF Shape, RowsAreIssued, Agreement
  <2> HIDE DEF d, read
  <2> QED
    BY <2>1, LinkedRows
<1>5. \/ doc' = doc
      \/ doc[d].status \in Known /\ doc' = [doc EXCEPT ![d] = new]
  BY <1>3 DEF SendCommit, Exists, The, Shape, TypeInv, Linked
<1> HIDE DEF rows
<1>6. /\ new \in Agreement /\ new.status = "out" /\ new.signers = rows
      /\ new.fields = doc[d].fields /\ new.mode = doc[d].mode
      /\ new.issued = doc[d].issued /\ new.crossed = doc[d].crossed
      /\ new.stray = doc[d].stray
  BY <1>3, <1>4 DEF Agreement
<1> HIDE DEF new, d
<1>7. doc \in [Docs -> Agreement]
  BY DEF Shape, TypeInv
<1>8. CASE doc' = doc
  BY <1>1, <1>2, <1>3, <1>7, <1>8 DEF Only, d
<1>9. CASE doc[d].status \in Known /\ doc' = [doc EXCEPT ![d] = new]
  <2>1. Only(d) /\ doc'[d] = new
    BY <1>3, <1>6, <1>9, SetDoc DEF Shape
  <2> QED
    BY <1>1, <1>2, <1>3, <1>6, <1>9, <2>1 DEF d, rows
<1> QED
  BY <1>5, <1>8, <1>9

\* The signers are replaced.
Replaced(a, b, list) ==
  /\ b.status = a.status /\ b.mode = a.mode /\ b.fields = a.fields
  /\ b.stray = a.stray
  /\ b.issued = a.issued \o [i \in DOMAIN list |-> list[i].party]
  /\ b.signers = Inserted(a.issued, list)

LEMMA SignersRow ==
  ASSUME Shape, NEW w \in Workers, PutSigners(w)
  PROVE  /\ job[w].doc \in Docs /\ Only(job[w].doc)
         /\ \/ doc' = doc /\ ~Exists(w)
            \/ /\ Exists(w)
               /\ Replaced(doc[job[w].doc], doc'[job[w].doc], job[w].list)
               /\ doc'[job[w].doc].crossed <=>
                    \/ doc[job[w].doc].crossed
                    \/ BeingSent(job[w].doc) \/ job[w].late
         /\ Exists(w) => doc'[job[w].doc] =
              [WithSigners(doc[job[w].doc], job[w].list) EXCEPT
                 !.crossed = @ \/ BeingSent(job[w].doc) \/ job[w].late]
<1> DEFINE d == job[w].doc
           list == job[w].list
           put == [WithSigners(doc[d], list) EXCEPT
                     !.crossed = @ \/ BeingSent(d) \/ job[w].late]
           with == WithSigners(doc[d], list)
           given == doc[d].issued \o [i \in DOMAIN list |-> list[i].party]
           rows == Inserted(doc[d].issued, list)
           b == doc[d].crossed \/ BeingSent(d) \/ job[w].late
           new == [with EXCEPT !.crossed = b]
<1>1. job[w].phase = "putSigners"
  BY DEF PutSigners, At
<1>2. AtDoc(job[w])
  BY <1>1 DEF AtDoc
<1>3. d \in Docs /\ doc[d] \in Agreement /\ job[w] \in Job
      /\ doc[d].issued \in Seq(Parties)
  BY <1>2, TheDoc
<1>4. list \in Seq(Role)
  BY <1>3 DEF Job
<1>5. given \in Seq(Parties) /\ rows \in SUBSET SignerRow
  BY <1>3, <1>4, InsertedRows
<1>6. b \in BOOLEAN /\ (b <=> doc[d].crossed \/ BeingSent(d) \/ job[w].late)
  OBVIOUS
<1>7. with = [doc[d] EXCEPT !.signers = rows, !.issued = given]
  BY <1>3 DEF WithSigners, Agreement
<1> HIDE DEF given, rows, with
<1>8. put = new
  <2> DEFINE c == with.crossed \/ BeingSent(d) \/ job[w].late
  <2>1. with.crossed = doc[d].crossed
    BY <1>3, <1>7 DEF Agreement
  <2>2. c = b
    BY <2>1
  <2>3. put = [with EXCEPT !.crossed = c]
    BY DEF with
  <2> HIDE DEF c, b
  <2> QED
    BY <2>2, <2>3
<1> HIDE DEF b
<1>9. /\ new \in Agreement /\ new.status = doc[d].status
      /\ new.mode = doc[d].mode /\ new.fields = doc[d].fields
      /\ new.stray = doc[d].stray /\ new.issued = given /\ new.signers = rows
      /\ new.crossed = b
  BY <1>3, <1>5, <1>6, <1>7 DEF Agreement
<1>10. \/ doc' = doc /\ ~Exists(w)
       \/ doc' = [doc EXCEPT ![d] = put] /\ Exists(w)
  BY DEF PutSigners
<1>11. doc \in [Docs -> Agreement]
  BY DEF Shape, TypeInv
<1>12. CASE doc' = doc /\ ~Exists(w)
  BY <1>3, <1>11, <1>12 DEF Only
<1>13. CASE doc' = [doc EXCEPT ![d] = put] /\ Exists(w)
  <2>1. doc' = [doc EXCEPT ![d] = new]
    BY <1>8, <1>13
  <2>2. Replaced(doc[d], new, list)
    BY <1>9 DEF Replaced, given, rows
  <2> HIDE DEF new, put
  <2>3. Only(d) /\ doc'[d] = new
    <3> HIDE DEF d
    <3> QED
      BY <1>3, <1>9, <2>1, SetDoc DEF Shape
  <2>4. doc'[d].crossed <=> doc[d].crossed \/ BeingSent(d) \/ job[w].late
    BY <1>6, <1>9, <2>3
  <2>5. doc'[d] = put
    BY <1>8, <2>3
  <2> QED
    BY <1>3, <1>13, <2>2, <2>3, <2>4, <2>5 DEF put
<1> QED
  BY <1>10, <1>12, <1>13

-----------------------------------------------------------------------------
(* Steps that write nothing                                                *)

\* The phases of a request that fills the roles of a template.
Filling == {"create", "askSigners", "putSigners", "ids"}

\* The phases after the last look at the document's status.
Asked == {"putSigners", "putFields", "mode", "unlink", "remove"}

\* Worker w goes on to another phase, with what it was asked and has read.
Passes(w) ==
  /\ Moved(job[w], job'[w])
  /\ InPlace(job'[w])
  /\ AtDoc(job'[w]) => AtDoc(job[w])
  /\ job'[w].phase # "auth"
  /\ job'[w].phase \in {"freeze", "commit"} => job[w].phase = "freeze"
  /\ job'[w].phase \in Asked => ~Closed(doc[job[w].doc])
  /\ job'[w].phase = "ids" => job[w].phase = "askSigners"
  /\ job[w].phase \in {"ids", "askFields", "putFields"} =>
       job'[w].phase = "putFields"
  /\ job[w].kind = "use" =>
       (job'[w].phase \in Filling <=> job[w].phase \in Filling)
  /\ job[w].phase = "auth" =>
       IF job[w].via = 0 THEN ByCookie
       ELSE job[w].via \in acct.keys /\ job'[w].phase = "hash"
  /\ job[w].phase \in {"hash", "paid"} => acct.status = "active"
  /\ job[w].phase = "own" /\ job[w].kind = "send" => job'[w].phase = "paid"

\* It ends, or it goes on; the others stay where they are.
Quiet(w) ==
  /\ job' \in [Workers -> Job]
  /\ \A v \in Workers : v # w => job'[v] = job[v]
  /\ job'[w] = NoJob \/ Passes(w)

LEMMA DoneIsQuiet ==
  ASSUME Shape, NEW w \in Workers, Done(w)
  PROVE  Quiet(w)
BY DoneJob DEF Shape, Quiet

LEMMA FirstPlace ==
  ASSUME Shape, NEW w \in Workers
  PROVE  /\ First(w) \in {"create", "read", "row", "key", "own"}
         /\ First(w) = "create" => job[w].kind = "create"
         /\ First(w) = "read" => job[w].kind = "use"
         /\ job[w].kind = "use" => First(w) = "read"
         /\ First(w) = "row" =>
              job[w].kind \in {"detect", "template", "explicit"}
         /\ First(w) = "key" => job[w].kind \in {"issue", "revoke"}
         /\ First(w) = "own" => job[w].kind \in
              {"signers", "fields", "order", "send", "void", "delete"}
<1>1. job[w].kind \in Kinds
  BY DEF Shape, TypeInv, Job
<1> QED
  BY <1>1 DEF First, Kind, Kinds

LEMMA AuthenticateJob ==
  ASSUME Shape, NEW w \in Workers, Authenticate(w)
  PROVE  Quiet(w)
<1>1. job[w].phase = "auth"
  BY DEF Authenticate, At
<1>2. \/ Done(w)
      \/ Goto(w, First(w)) /\ job[w].via = 0 /\ ByCookie
      \/ Goto(w, "hash") /\ job[w].via # 0 /\ job[w].via \in acct.keys
  BY DEF Authenticate
<1>3. CASE Done(w)
  BY <1>3, DoneIsQuiet
<1>4. CASE Goto(w, First(w)) /\ job[w].via = 0 /\ ByCookie
  <2>1. PICK x \in Phases : x = First(w)
    BY FirstPlace DEF Phases
  <2>2. /\ job' \in [Workers -> Job] /\ job'[w].phase = x
        /\ Moved(job[w], job'[w])
        /\ \A v \in Workers : v # w => job'[v] = job[v]
    BY <1>4, <2>1, GotoJob DEF Shape
  <2>3. Passes(w)
    BY <1>1, <1>4, <2>1, <2>2, FirstPlace
    DEF Passes, Moved, Keeps, InPlace, AtDoc, Laid, Asked, Filling
  <2> QED
    BY <2>2, <2>3 DEF Quiet
<1>5. CASE Goto(w, "hash") /\ job[w].via # 0 /\ job[w].via \in acct.keys
  <2>1. PICK x \in Phases : x = "hash"
    BY DEF Phases
  <2>2. /\ job' \in [Workers -> Job] /\ job'[w].phase = x
        /\ Moved(job[w], job'[w])
        /\ \A v \in Workers : v # w => job'[v] = job[v]
    BY <1>5, <2>1, GotoJob DEF Shape
  <2>3. Passes(w)
    BY <1>1, <1>5, <2>1, <2>2
    DEF Passes, Moved, Keeps, InPlace, AtDoc, Laid, Asked, Filling
  <2> QED
    BY <2>2, <2>3 DEF Quiet
<1> QED
  BY <1>2, <1>3, <1>4, <1>5

LEMMA ResolveJob ==
  ASSUME Shape, NEW w \in Workers, Resolve(w)
  PROVE  Quiet(w)
<1>1. job[w].phase = "hash"
  BY DEF Resolve, At
<1>2. Done(w) \/ (Goto(w, First(w)) /\ acct.status = "active")
  BY DEF Resolve
<1>3. CASE Done(w)
  BY <1>3, DoneIsQuiet
<1>4. CASE Goto(w, First(w)) /\ acct.status = "active"
  <2>1. PICK x \in Phases : x = First(w)
    BY FirstPlace DEF Phases
  <2>2. /\ job' \in [Workers -> Job] /\ job'[w].phase = x
        /\ Moved(job[w], job'[w])
        /\ \A v \in Workers : v # w => job'[v] = job[v]
    BY <1>4, <2>1, GotoJob DEF Shape
  <2>3. Passes(w)
    BY <1>1, <1>4, <2>1, <2>2, FirstPlace
    DEF Passes, Moved, Keeps, InPlace, AtDoc, Laid, Asked, Filling
  <2> QED
    BY <2>2, <2>3 DEF Quiet
<1> QED
  BY <1>2, <1>3, <1>4

\* The step that every one of the following takes.
LEMMA PassJob ==
  ASSUME Shape, NEW w \in Workers, NEW x \in Phases, Goto(w, x),
         Moved(job[w], job'[w]) /\ job'[w].phase = x => Passes(w)
  PROVE  Quiet(w)
BY GotoJob DEF Shape, Quiet

LEMMA OwnJob ==
  ASSUME Shape, NEW w \in Workers, Own(w)
  PROVE  Quiet(w)
<1>1. job[w].phase = "own" /\ job[w] \in Job /\ InPlace(job[w])
  BY DEF Own, At, Shape, TypeInv, Shaped
<1>2. \/ Done(w)
      \/ \E x \in {"paid", "askSigners", "void", "row"} :
           /\ Goto(w, x)
           /\ x = "paid" <=> job[w].kind = "send"
           /\ x = "askSigners" <=> job[w].kind = "signers"
           /\ x = "void" <=> job[w].kind = "void"
  BY DEF Own, Kind
<1>3. CASE Done(w)
  BY <1>3, DoneIsQuiet
<1>4. ASSUME NEW x \in {"paid", "askSigners", "void", "row"}, Goto(w, x),
             x = "paid" <=> job[w].kind = "send",
             x = "askSigners" <=> job[w].kind = "signers",
             x = "void" <=> job[w].kind = "void",
             Moved(job[w], job'[w]) /\ job'[w].phase = x
      PROVE  Passes(w)
  BY <1>1, <1>4
  DEF Passes, Moved, Keeps, InPlace, AtDoc, Laid, Asked, Filling
<1>5. {"paid", "askSigners", "void", "row"} \subseteq Phases
  BY DEF Phases
<1> QED
  BY <1>2, <1>3, <1>4, <1>5, PassJob

LEMMA PaidJob ==
  ASSUME Shape, NEW w \in Workers, Paid(w)
  PROVE  Quiet(w)
<1>1. job[w].phase = "paid" /\ InPlace(job[w])
  BY DEF Paid, At, Shape, Shaped
<1>2. PICK x \in Phases : x = "message"
  BY DEF Phases
<1>3. Done(w) \/ (Goto(w, x) /\ acct.status = "active")
  BY <1>2 DEF Paid
<1>4. ASSUME acct.status = "active", Moved(job[w], job'[w]),
             job'[w].phase = x
      PROVE  Passes(w)
  BY <1>1, <1>2, <1>4
  DEF Passes, Moved, Keeps, InPlace, AtDoc, Laid, Asked, Filling
<1> QED
  BY <1>3, <1>4, DoneIsQuiet, PassJob

LEMMA KeepMessageJob ==
  ASSUME Shape, NEW w \in Workers, At(w, "message"), Goto(w, "row")
  PROVE  Quiet(w)
<1>1. job[w].phase = "message" /\ InPlace(job[w])
  BY DEF At, Shape, Shaped
<1>2. PICK x \in Phases : x = "row"
  BY DEF Phases
<1>3. Goto(w, x)
  BY <1>2
<1>4. ASSUME Moved(job[w], job'[w]), job'[w].phase = x
      PROVE  Passes(w)
  BY <1>1, <1>2, <1>4
  DEF Passes, Moved, Keeps, InPlace, AtDoc, Laid, Asked, Filling
<1> QED
  BY <1>3, <1>4, PassJob

LEMMA ReadRowJob ==
  ASSUME Shape, NEW w \in Workers, ReadRow(w)
  PROVE  Quiet(w)
<1>1. job[w].phase = "row" /\ InPlace(job[w])
  BY DEF ReadRow, At, Shape, Shaped
<1>2. job[w].kind \in {"fields", "order", "send", "delete", "detect",
                       "template", "explicit"}
  BY <1>1 DEF InPlace
<1>3. \/ Done(w)
      \/ \E x \in {"rows", "insert", "layout", "mode", "unlink"} :
           /\ Goto(w, x)
           /\ The(w).status = "draft" \/ ForTemplate(w)
           /\ x = "rows" <=> job[w].kind \in {"fields", "send", "template"}
           /\ x = "insert" <=> job[w].kind = "explicit"
           /\ x = "layout" <=> job[w].kind = "detect"
           /\ x = "mode" <=> job[w].kind = "order"
           /\ x = "unlink" <=> job[w].kind = "delete"
  <2>1. CASE Done(w)
    BY <2>1
  <2>2. CASE (The(w).status = "draft" \/ (Exists(w) /\ ForTemplate(w)))
             /\ Goto(w,
                     CASE Kind(w) \in {"fields", "send", "template"} -> "rows"
                       [] Kind(w) = "explicit" -> "insert"
                       [] Kind(w) = "detect" -> "layout"
                       [] Kind(w) = "order" -> "mode"
                       [] Kind(w) = "delete" -> "unlink")
    BY <1>2, <2>2 DEF Kind
  <2> QED
    BY <2>1, <2>2 DEF ReadRow
<1>4. ASSUME NEW x \in {"rows", "insert", "layout", "mode", "unlink"},
             The(w).status = "draft" \/ ForTemplate(w),
             x = "rows" <=> job[w].kind \in {"fields", "send", "template"},
             x = "insert" <=> job[w].kind = "explicit",
             x = "layout" <=> job[w].kind = "detect",
             x = "mode" <=> job[w].kind = "order",
             x = "unlink" <=> job[w].kind = "delete",
             Moved(job[w], job'[w]) /\ job'[w].phase = x
      PROVE  Passes(w)
  <2>1. x \in {"mode", "unlink"} => ~Closed(doc[job[w].doc])
    BY <1>4 DEF ForTemplate, Kind, The, Closed
  <2> QED
    BY <1>1, <1>2, <1>4, <2>1
    DEF Passes, Moved, Keeps, InPlace, AtDoc, Laid, Asked, Filling
<1>5. {"rows", "insert", "layout", "mode", "unlink"} \subseteq Phases
  BY DEF Phases
<1> QED
  BY <1>3, <1>4, <1>5, DoneIsQuiet, PassJob

LEMMA AskSignersJob ==
  ASSUME Shape, NEW w \in Workers, AskSigners(w)
  PROVE  Quiet(w)
<1>1. job[w].phase = "askSigners" /\ InPlace(job[w])
  BY DEF AskSigners, At, Shape, Shaped
<1>2. \/ Done(w)
      \/ \E x \in {"putSigners", "ids"} :
           /\ Goto(w, x)
           /\ x = "putSigners" => ~Closed(doc[job[w].doc])
           /\ x = "ids" => job[w].kind = "use"
  BY DEF AskSigners, Kind, The
<1>3. ASSUME NEW x \in {"putSigners", "ids"},
             x = "putSigners" => ~Closed(doc[job[w].doc]),
             x = "ids" => job[w].kind = "use",
             Moved(job[w], job'[w]) /\ job'[w].phase = x
      PROVE  Passes(w)
  BY <1>1, <1>3
  DEF Passes, Moved, Keeps, InPlace, AtDoc, Laid, Asked, Filling
<1>4. {"putSigners", "ids"} \subseteq Phases
  BY DEF Phases
<1> QED
  BY <1>2, <1>3, <1>4, DoneIsQuiet, PassJob

LEMMA AskFieldsJob ==
  ASSUME Shape, NEW w \in Workers, AskFields(w)
  PROVE  Quiet(w)
<1>1. job[w].phase = "askFields" /\ InPlace(job[w])
  BY DEF AskFields, At, Shape, Shaped
<1>2. PICK x \in Phases : x = "putFields"
  BY DEF Phases
<1>3. Done(w) \/ (Goto(w, x) /\ ~Closed(doc[job[w].doc]))
  BY <1>2 DEF AskFields, The
<1>4. ASSUME ~Closed(doc[job[w].doc]), Moved(job[w], job'[w]),
             job'[w].phase = x
      PROVE  Passes(w)
  BY <1>1, <1>2, <1>4
  DEF Passes, Moved, Keeps, InPlace, AtDoc, Laid, Asked, Filling
<1> QED
  BY <1>3, <1>4, DoneIsQuiet, PassJob

LEMMA FreezeJob ==
  ASSUME Shape, NEW w \in Workers, Freeze(w)
  PROVE  Quiet(w)
<1>1. job[w].phase = "freeze" /\ InPlace(job[w])
  BY DEF Freeze, At, Shape, Shaped
<1>2. PICK x \in Phases : x = "commit"
  BY DEF Phases
<1>3. Done(w) \/ Goto(w, x)
  BY <1>2 DEF Freeze
<1>4. ASSUME Moved(job[w], job'[w]), job'[w].phase = x
      PROVE  Passes(w)
  BY <1>1, <1>2, <1>4
  DEF Passes, Moved, Keeps, InPlace, AtDoc, Laid, Asked, Filling
<1> QED
  BY <1>3, <1>4, DoneIsQuiet, PassJob

-----------------------------------------------------------------------------
(* What a field names on its way                                           *)

\* Ids are only added to, and a field keeps the party of its id.
Grows(a, b) ==
  /\ Len(a.issued) <= Len(b.issued)
  /\ \A i \in 1 .. Len(a.issued) : b.issued[i] = a.issued[i]

LEMMA GoodGrows ==
  ASSUME NEW a \in Agreement, NEW b \in Agreement, Grows(a, b), NEW f,
         Good(a.issued, f)
  PROVE  Good(b.issued, f)
<1>1. Len(a.issued) \in Nat /\ Len(b.issued) \in Nat
  BY DEF Agreement
<1> QED
  BY <1>1 DEF Good, Grows, Meant

LEMMA PlacedGood ==
  ASSUME NEW a \in Agreement, RowsAreIssued(a), NEW ask \in Ask,
         ask.signer <= Len(a.issued),
         NEW f \in Placed(ask, a.signers, a.issued)
  PROVE  f \in FieldRow /\ Good(a.issued, f)
<1>1. a.issued \in Seq(Parties) /\ Len(a.issued) \in Nat /\ ask.signer \in Nat
  BY DEF Agreement, Ask
<1>2. /\ f \in [signer : {ask.signer} \cup {r.id : r \in a.signers},
                who : Parties, loose : {FALSE}]
      /\ f.signer # 0 /\ f.who = a.issued[f.signer]
  BY DEF Placed
<1>3. f.signer \in 1 .. Len(a.issued)
  <2>1. f.signer = ask.signer \/ \E r \in a.signers : f.signer = r.id
    BY <1>2
  <2> QED
    BY <1>1, <1>2, <2>1 DEF RowsAreIssued
<1>4. f \in FieldRow
  <2> DEFINE ids == {ask.signer} \cup {r.id : r \in a.signers}
  <2>1. f \in [signer : ids, who : Parties, loose : {FALSE}]
    BY <1>2
  <2>2. f.signer \in Nat
    BY <1>1, <1>3
  <2> HIDE DEF ids
  <2> QED
    BY <2>1, <2>2 DEF FieldRow
<1> QED
  BY <1>1, <1>2, <1>3, <1>4 DEF Good, Meant

LEMMA FilledRoles ==
  ASSUME NEW roles \in Seq(Role), NEW list \in Seq(Role)
  PROVE  /\ Filled(roles, list) \in Seq(Role)
         /\ Len(Filled(roles, list)) >= Len(roles)
<1> DEFINE n == IF Len(roles) > Len(list) THEN Len(roles) ELSE Len(list)
           p(i) == IF i <= Len(list) THEN list[i].party ELSE roles[i].party
           o(i) == IF i <= Len(roles) THEN roles[i].order ELSE i
           role(i) == [party |-> p(i), order |-> o(i)]
<1>1. n \in Nat /\ n >= Len(roles) /\ n >= Len(list)
      /\ (n = Len(roles) \/ n = Len(list))
      /\ Len(roles) \in Nat /\ Len(list) \in Nat
  OBVIOUS
<1>2. Filled(roles, list) = [i \in 1 .. n |-> role(i)]
  BY DEF Filled
<1> HIDE DEF n
<1>3. ASSUME NEW i \in 1 .. n
      PROVE  role(i) \in Role
  <2>1. i \in Nat /\ i >= 1 /\ (i <= Len(list) \/ i <= Len(roles))
    BY <1>1
  <2>2. /\ i <= Len(list) => list[i] \in Role
        /\ i <= Len(roles) => roles[i] \in Role
    BY <1>1, <2>1
  <2>3. \A r \in Role : r.party \in Parties /\ r.order \in Nat
    BY DEF Role
  <2>4. p(i) \in Parties
    BY <2>1, <2>2, <2>3
  <2>5. o(i) \in Nat
    BY <2>1, <2>2, <2>3
  <2> HIDE DEF p, o
  <2> QED
    BY <2>4, <2>5 DEF Role
<1> HIDE DEF role
<1> QED
  BY <1>1, <1>2, <1>3

\* Whoever takes the place of a field's party takes the field.
LEMMA HeirInRoles ==
  ASSUME NEW roles \in Seq(Role), NEW list \in Seq(Role),
         Len(list) >= Len(roles), NEW f \in FieldRow, InRoles(roles, f)
  PROVE  Heir(roles, list, f) \in FieldRow
         /\ InRoles(list, Heir(roles, list, f))
<1> DEFINE places == {i \in DOMAIN roles : roles[i].party = f.who}
           place == IF f.signer \in places THEN f.signer
                                           ELSE CHOOSE i \in places : TRUE
           who == list[place].party
           new == [f EXCEPT !.who = who]
<1>1. /\ Len(roles) \in Nat /\ Len(list) \in Nat
      /\ f.signer \in Nat /\ f.signer >= 1
      /\ DOMAIN roles = 1 .. Len(roles)
  BY DEF FieldRow, InRoles
<1>2. CASE places = {}
  <2>1. Heir(roles, list, f) = f
    BY <1>2 DEF Heir
  <2>2. f.loose \/ f.who = "nobody"
    BY <1>1, <1>2 DEF InRoles, Meant
  <2> QED
    BY <1>1, <2>1, <2>2 DEF InRoles, Meant
<1>3. CASE places # {}
  <2>1. place \in places
    BY <1>3
  <2>2. place \in 1 .. Len(roles) /\ f.who # "nobody"
    <3>0. \A i \in DOMAIN roles : roles[i] \in Role
      OBVIOUS
    <3>1. \A i \in DOMAIN roles : roles[i].party \in Parties
      BY <3>0 DEF Role
    <3>2. \A i \in places : i \in 1 .. Len(roles) /\ f.who # "nobody"
      BY <1>1, <3>1, DraftApiAssumption DEF DraftApiAssumption
    <3> HIDE DEF places, place
    <3> QED
      BY <2>1, <3>2
  <2>3. who \in Parties
    <3>1. place \in 1 .. Len(list)
      BY <1>1, <2>2
    <3> HIDE DEF place
    <3>2. list[place] \in Role
      BY <3>1
    <3> QED
      BY <3>2 DEF Role
  <2>4. Heir(roles, list, f) = new
    BY <1>3 DEF Heir
  <2>5. f.signer \in places => place = f.signer
    OBVIOUS
  <2>6. f.signer \notin places => f.loose
    BY <1>1, <2>2 DEF InRoles, Meant
  <2>7. f.signer \in places => f.signer <= Len(list)
    BY <1>1
  <2>8. f.signer \in places => who = list[f.signer].party
    BY <2>5
  <2> HIDE DEF who, places
  <2>9. /\ new \in FieldRow /\ new.signer = f.signer /\ new.loose = f.loose
        /\ new.who = who
    BY <2>3 DEF FieldRow
  <2> HIDE DEF new
  <2>10. InRoles(list, new)
    BY <1>1, <2>6, <2>7, <2>8, <2>9 DEF InRoles, Meant
  <2> QED
    BY <2>4, <2>9, <2>10
<1> QED
  BY <1>2, <1>3

\* The rows of a listing, and the roles made of them.
LEMMA ListedRows ==
  ASSUME NEW rows \in SUBSET SignerRow, IsFiniteSet(rows),
         NEW seq \in Listings(rows)
  PROVE  /\ Cardinality(rows) \in Nat
         /\ seq \in [1 .. Cardinality(rows) -> rows]
         /\ Len(seq) = Cardinality(rows)
         /\ DOMAIN seq = 1 .. Len(seq)
         /\ \A i \in DOMAIN seq : seq[i] \in rows
<1>1. Cardinality(rows) \in Nat
  BY FS_CardinalityType
<1>2. seq \in [1 .. Cardinality(rows) -> rows]
  BY DEF Listings
<1>3. seq \in Seq(rows) /\ Len(seq) = Cardinality(rows)
  BY <1>1, <1>2
<1> QED
  BY <1>1, <1>2, <1>3

\* A field of a document becomes the field of a role, the one of its party or,
\* known to have come loose, the first.
LEMMA IndexedInRoles ==
  ASSUME NEW a \in Agreement, NEW rows \in SUBSET SignerRow, IsFiniteSet(rows),
         \A s \in rows : s.id \in 1 .. Len(a.issued),
         NEW seq \in Listings(rows),
         NEW f \in FieldRow, Good(a.issued, f),
         NEW roles \in Seq(Role), Len(roles) = Len(seq),
         \A i \in DOMAIN seq : roles[i].party = a.issued[seq[i].id]
  PROVE  Indexed(seq, f) \in FieldRow /\ InRoles(roles, Indexed(seq, f))
<1> DEFINE at == Position(seq, f.signer)
           signer == IF at = 0 THEN 1 ELSE at
           loose == f.loose \/ at = 0
           new == [f EXCEPT !.signer = signer, !.loose = loose]
<1>1. /\ DOMAIN seq = 1 .. Len(seq) /\ Len(seq) \in Nat
      /\ \A i \in DOMAIN seq : seq[i] \in rows
  BY ListedRows
<1>2. /\ f.signer \in Nat /\ f.loose \in BOOLEAN
      /\ f.signer > 0 => Meant(f, a.issued[f.signer])
  BY DEF FieldRow, Good
<1>3. at = 0 \/ (at \in DOMAIN seq /\ seq[at].id = f.signer)
  BY DEF Position
<1>4. at \in Nat
  BY <1>1, <1>3
<1>5. at # 0 => at <= Len(roles) /\ Meant(f, roles[at].party)
  <2>1. at # 0 => at \in DOMAIN seq /\ seq[at].id = f.signer
    BY <1>3
  <2>2. at # 0 => f.signer > 0
    <3> HIDE DEF at
    <3>1. a.issued \in Seq(Parties)
      BY DEF Agreement
    <3> QED
      BY <1>1, <2>1, <3>1
  <2> HIDE DEF at
  <2> QED
    BY <1>1, <1>2, <2>1, <2>2
<1>6. Indexed(seq, f) = new
  BY DEF Indexed
<1> HIDE DEF at
<1>7. /\ signer \in Nat /\ signer >= 1 /\ loose \in BOOLEAN
      /\ at = 0 => signer = 1 /\ loose
      /\ at # 0 => signer = at
      /\ f.loose => loose
  BY <1>2, <1>4
<1> HIDE DEF signer, loose
<1>8. /\ new \in FieldRow /\ new.signer = signer /\ new.loose = loose
      /\ new.who = f.who
  BY <1>7 DEF FieldRow
<1> HIDE DEF new
<1>9. InRoles(roles, new)
  <2>1. CASE at = 0
    BY <1>7, <1>8, <2>1 DEF InRoles, Meant
  <2>2. CASE at # 0
    BY <1>5, <1>7, <1>8, <2>2 DEF InRoles, Meant
  <2> QED
    BY <2>1, <2>2
<1> QED
  BY <1>6, <1>8, <1>9

\* A rising sequence of all of 1 .. len counts.
LEMMA Rising ==
  ASSUME NEW len \in Nat, NEW g \in [1 .. len -> 1 .. len],
         \A i, j \in 1 .. len : i < j => g[i] < g[j]
  PROVE  \A i \in 1 .. len : g[i] = i
<1>1. ASSUME NEW i \in 1 .. len
      PROVE  g[i] = i
  <2>0. g[i] \in Int /\ i \in Int /\ 1 <= g[i] /\ g[i] <= len
    OBVIOUS
  <2>1. g[i] >= i
    <3> DEFINE T == 1 .. g[i]
               h == [x \in 1 .. i |-> g[x]]
    <3>a. ASSUME NEW x \in 1 .. i
          PROVE  g[x] \in T
      <4>1. x \in 1 .. len /\ (x < i \/ x = i)
        BY <2>0
      <4>2. g[x] \in Int /\ 1 <= g[x] /\ (g[x] < g[i] \/ g[x] = g[i])
        BY <4>1
      <4>3. g[x] <= g[i]
        BY <2>0, <4>2
      <4> QED
        BY <2>0, <4>2, <4>3
    <3>1. h \in [1 .. i -> T]
      BY <3>a
    <3>2. \A x, y \in 1 .. i : h[x] = h[y] => x = y
      OBVIOUS
    <3>3. IsFiniteSet(T) /\ Cardinality(T) = g[i] /\ Cardinality(1 .. i) = i
      BY <2>0, FS_Interval
    <3> HIDE DEF h, T
    <3>4. h \in Injection(1 .. i, T)
      BY <3>1, <3>2 DEF Injection, IsInjective
    <3>5. Cardinality(1 .. i) <= Cardinality(T)
      BY <3>3, <3>4, FS_Injection
    <3> QED
      BY <2>0, <3>3, <3>5
  <2>2. g[i] <= i
    <3> DEFINE T == g[i] .. len
               h == [x \in i .. len |-> g[x]]
    <3>a. ASSUME NEW x \in i .. len
          PROVE  g[x] \in T
      <4>1. x \in 1 .. len /\ (i < x \/ x = i)
        BY <2>0
      <4>2. g[x] \in Int /\ g[x] <= len /\ (g[i] < g[x] \/ g[x] = g[i])
        BY <4>1
      <4> QED
        BY <2>0, <4>2
    <3>1. h \in [i .. len -> T]
      BY <3>a
    <3>2. \A x, y \in i .. len : h[x] = h[y] => x = y
      OBVIOUS
    <3>3. /\ IsFiniteSet(T) /\ Cardinality(T) = len - g[i] + 1
          /\ Cardinality(i .. len) = len - i + 1
      BY <2>0, FS_Interval
    <3> HIDE DEF h, T
    <3>4. h \in Injection(i .. len, T)
      BY <3>1, <3>2 DEF Injection, IsInjective
    <3>5. Cardinality(i .. len) <= Cardinality(T)
      BY <3>3, <3>4, FS_Injection
    <3> QED
      BY <2>0, <3>3, <3>5
  <2> QED
    BY <2>0, <2>1, <2>2
<1> QED
  BY <1>1

LEMMA Less ==
  ASSUME NEW n \in Nat, NEW a \in Int, NEW b \in Int, n + a < n + b
  PROVE  a < b
OBVIOUS

\* Rows with the ids n + 1, n + 2, ... come in that order.
LEMMA SortedIds ==
  ASSUME NEW rows \in SUBSET SignerRow, NEW n \in Nat, NEW len \in Nat,
         NEW row \in [1 .. len -> rows],
         \A s \in rows : \E i \in 1 .. len : s = row[i],
         \A i \in 1 .. len : row[i].id = n + i,
         NEW seq \in ById(rows)
  PROVE  Len(seq) = len /\ \A i \in 1 .. len : seq[i].id = n + i
<1>1. IsFiniteSet(1 .. len) /\ Cardinality(1 .. len) = len
  BY FS_Interval
<1>2. row \in Bijection(1 .. len, rows)
  <2>1. \A i, j \in 1 .. len : i # j => row[i].id # row[j].id
    OBVIOUS
  <2>2. \A i, j \in 1 .. len : i # j => row[i] # row[j]
    BY <2>1
  <2> QED
    BY <2>2 DEF Bijection, Injection, Surjection, IsInjective
<1>3. IsFiniteSet(rows) /\ Cardinality(rows) = len
  BY <1>1, <1>2, FS_Bijection DEF ExistsBijection
<1>4. /\ seq \in [1 .. len -> rows]
      /\ \A i, j \in 1 .. len : i < j => seq[i].id < seq[j].id
  BY <1>3 DEF ById, Listings
<1>5. Len(seq) = len
  BY <1>3, ListedRows DEF ById
<1> DEFINE g == [i \in 1 .. len |-> seq[i].id - n]
<1>6. ASSUME NEW i \in 1 .. len
      PROVE  g[i] \in 1 .. len /\ seq[i].id = n + g[i]
  <2>1. PICK k \in 1 .. len : seq[i] = row[k]
    BY <1>4
  <2>2. seq[i].id = n + k /\ k \in Int
    BY <2>1
  <2>3. g[i] = k
    BY <2>2
  <2> HIDE DEF g
  <2> QED
    BY <2>2, <2>3
<1>7. g \in [1 .. len -> 1 .. len]
  BY <1>6
<1>8. ASSUME NEW i \in 1 .. len, NEW j \in 1 .. len, i < j
      PROVE  g[i] < g[j]
  <2> HIDE DEF g
  <2>1. seq[i].id < seq[j].id
    BY <1>4, <1>8
  <2>2. /\ g[i] \in Int /\ seq[i].id = n + g[i]
        /\ g[j] \in Int /\ seq[j].id = n + g[j]
    BY <1>6
  <2> QED
    BY <2>1, <2>2, Less
<1> HIDE DEF g
<1>9. \A i \in 1 .. len : g[i] = i
  BY <1>7, <1>8, Rising
<1> QED
  BY <1>5, <1>6, <1>9

\* The rows are the ones that this list was given.
Numbered(rows, list, issued) ==
  \E n \in Nat :
    /\ rows = {[id |-> n + i, order |-> list[i].order, link |-> FALSE] :
                 i \in DOMAIN list}
    /\ n + Len(list) <= Len(issued)
    /\ \A i \in DOMAIN list : issued[n + i] = list[i].party

LEMMA NumberedIds ==
  ASSUME NEW rows \in SUBSET SignerRow, NEW list \in Seq(Role), NEW issued,
         Numbered(rows, list, issued), NEW seq \in ById(rows)
  PROVE  /\ Len(seq) = Len(list)
         /\ \A i \in DOMAIN list : issued[seq[i].id] = list[i].party
<1>1. PICK n \in Nat :
        /\ rows = {[id |-> n + i, order |-> list[i].order, link |-> FALSE] :
                     i \in DOMAIN list}
        /\ \A i \in DOMAIN list : issued[n + i] = list[i].party
  BY DEF Numbered
<1> DEFINE len == Len(list)
           row == [i \in 1 .. len |-> [id |-> n + i, order |-> list[i].order,
                                       link |-> FALSE]]
<1>2. len \in Nat /\ DOMAIN list = 1 .. len
  OBVIOUS
<1>3. row \in [1 .. len -> rows]
  BY <1>1, <1>2
<1>4. \A s \in rows : \E i \in 1 .. len : s = row[i]
  BY <1>1, <1>2
<1>5. \A i \in 1 .. len : row[i].id = n + i
  OBVIOUS
<1> HIDE DEF row, len
<1>6. Len(seq) = len /\ \A i \in 1 .. len : seq[i].id = n + i
  BY <1>2, <1>3, <1>4, <1>5, SortedIds
<1> QED
  BY <1>1, <1>2, <1>6 DEF len

\* A field of a role becomes the field of the row at its index, which is its
\* party's, or is known to have come loose.
LEMMA MappedGood ==
  ASSUME NEW a \in Agreement, RowsAreIssued(a), NEW list \in Seq(Role),
         NEW rows \in {{}, a.signers}, NEW own \in BOOLEAN,
         own /\ rows # {} => Numbered(rows, list, a.issued),
         NEW seq \in ById(rows),
         NEW f \in FieldRow, InRoles(list, f)
  PROVE  Mapped(f, seq, own) \in FieldRow /\ Good(a.issued, Mapped(f, seq, own))
<1> DEFINE signer == IF f.signer <= Len(seq) THEN seq[f.signer].id ELSE 0
           loose == f.loose \/ ~own
           new == [f EXCEPT !.signer = signer, !.loose = loose]
<1>1. rows \in SUBSET SignerRow /\ IsFiniteSet(rows)
      /\ \A s \in rows : s.id \in 1 .. Len(a.issued)
  BY FS_EmptySet DEF RowsAreIssued, Agreement
<1>2. /\ Len(seq) \in Nat /\ DOMAIN seq = 1 .. Len(seq)
      /\ \A i \in DOMAIN seq : seq[i] \in rows
  BY <1>1, ListedRows DEF ById
<1>3. a.issued \in Seq(Parties) /\ Len(a.issued) \in Nat
      /\ Len(list) \in Nat /\ DOMAIN list = 1 .. Len(list)
  BY DEF Agreement
<1>4. f.signer \in Nat /\ f.signer >= 1 /\ f.loose \in BOOLEAN
  BY DEF FieldRow, InRoles
<1>5. signer \in 0 .. Len(a.issued)
  <2>1. CASE f.signer <= Len(seq)
    <3>1. seq[f.signer] \in rows
      BY <1>2, <1>4, <2>1
    <3>2. signer \in 1 .. Len(a.issued)
      BY <1>1, <2>1, <3>1
    <3> QED
      BY <1>3, <3>2
  <2>2. CASE ~(f.signer <= Len(seq))
    BY <1>3, <2>2
  <2> QED
    BY <2>1, <2>2
<1>6. own /\ signer > 0 => Meant(f, a.issued[signer])
  <2>1. SUFFICES ASSUME own, signer > 0
                 PROVE  Meant(f, a.issued[signer])
    OBVIOUS
  <2>2. f.signer <= Len(seq) /\ signer = seq[f.signer].id
    BY <2>1
  <2>3. seq[f.signer] \in rows
    BY <1>2, <1>4, <2>2
  <2>4. Numbered(rows, list, a.issued)
    BY <2>1, <2>3
  <2>5. /\ Len(seq) = Len(list)
        /\ \A i \in DOMAIN list : a.issued[seq[i].id] = list[i].party
    BY <1>1, <2>4, NumberedIds
  <2>6. f.signer <= Len(list) /\ a.issued[signer] = list[f.signer].party
    <3> HIDE DEF signer
    <3> QED
      BY <1>3, <1>4, <2>2, <2>5
  <2> HIDE DEF signer
  <2> QED
    BY <2>6 DEF InRoles
<1>7. loose \in BOOLEAN /\ (~own => loose) /\ (f.loose => loose)
  BY <1>4
<1>8. Mapped(f, seq, own) = new
  BY DEF Mapped
<1>9. signer \in Nat
  <2> HIDE DEF signer
  <2> QED
    BY <1>3, <1>5
<1> HIDE DEF signer, loose
<1>10. /\ new \in FieldRow /\ new.signer = signer /\ new.loose = loose
       /\ new.who = f.who
  BY <1>7, <1>9 DEF FieldRow
<1> HIDE DEF new
<1>11. Good(a.issued, new)
  BY <1>5, <1>6, <1>7, <1>10 DEF Good, Meant
<1> QED
  BY <1>8, <1>10, <1>11

\* The list that a request has just written is the one it reads back.
LEMMA InsertedNumbered ==
  ASSUME NEW issued \in Seq(Parties), NEW list \in Seq(Role)
  PROVE  Numbered(Inserted(issued, list), list,
                  issued \o [i \in DOMAIN list |-> list[i].party])
<1> DEFINE given == issued \o [i \in DOMAIN list |-> list[i].party]
<1>1. /\ Len(given) = Len(issued) + Len(list)
      /\ \A i \in DOMAIN list : given[Len(issued) + i] = list[i].party
  BY InsertedRows
<1>2. Len(issued) \in Nat /\ Len(list) \in Nat
  OBVIOUS
<1> HIDE DEF given
<1>3. Numbered(Inserted(issued, list), list, given)
  BY <1>1, <1>2 DEF Numbered, Inserted
<1> QED
  BY <1>3 DEF given

-----------------------------------------------------------------------------
(* Steps that read                                                         *)

\* The request goes on in another phase, and has read something.
Reads(j, k) ==
  /\ k.kind = j.kind /\ k.via = j.via /\ k.doc = j.doc /\ k.ask = j.ask
  /\ k.late = j.late /\ k.withdrawn = j.withdrawn

\* No request but that of w is disturbed.
LeavesOthers(w) ==
  /\ job' \in [Workers -> Job]
  /\ \A v \in Workers : v # w => job'[v] = job[v]

LEMMA ReadRowsJob ==
  ASSUME Shape, NEW w \in Workers, ReadRows(w)
  PROVE  /\ LeavesOthers(w) /\ job[w].phase = "rows" /\ AtDoc(job[w])
         /\ \/ job'[w] = NoJob
            \/ /\ job[w].kind \in {"send", "template"}
               /\ Reads(job[w], job'[w])
               /\ job'[w].list = job[w].list
               /\ job'[w].fields = job[w].fields
               /\ job'[w].seen = doc[job[w].doc].signers
               /\ job'[w].phase = IF job[w].kind = "send" THEN "freeze"
                                                          ELSE "layout"
               /\ job[w].kind = "send" => doc[job[w].doc].signers # {}
            \/ /\ job[w].kind = "fields"
               /\ Reads(job[w], job'[w])
               /\ job'[w].list = job[w].list /\ job'[w].seen = job[w].seen
               /\ job'[w].phase = "askFields"
               /\ \E f \in FieldRow : /\ Good(doc[job[w].doc].issued, f)
                                      /\ job'[w].fields = {f}
<1> DEFINE a == doc[job[w].doc]
           rows == a.signers
           phase == IF job[w].kind = "send" THEN "freeze" ELSE "layout"
<1>1. job[w].phase = "rows"
  BY DEF ReadRows, At
<1>2. AtDoc(job[w])
  BY <1>1 DEF Shape, Shaped, InPlace, AtDoc, Laid
<1>3. job[w] \in Job /\ a \in Agreement /\ job[w].doc \in Docs
  BY <1>2, TheDoc
<1>4. \/ Done(w)
      \/ /\ job[w].kind \in {"send", "template"}
         /\ job[w].kind = "send" => rows # {}
         /\ job' = [job EXCEPT ![w].seen = rows, ![w].phase = phase]
      \/ /\ job[w].kind = "fields"
         /\ \E f \in Placed(job[w].ask, rows, a.issued) :
              job' = [job EXCEPT ![w].phase = "askFields", ![w].fields = {f}]
  BY DEF ReadRows, Kind, The
<1>5. CASE Done(w)
  BY <1>1, <1>2, <1>5, DoneJob DEF LeavesOthers, Shape
<1>6. CASE /\ job[w].kind \in {"send", "template"}
           /\ job[w].kind = "send" => rows # {}
           /\ job' = [job EXCEPT ![w].seen = rows, ![w].phase = phase]
  <2> DEFINE new == [job[w] EXCEPT !.seen = rows, !.phase = phase]
  <2>1. job' = [job EXCEPT ![w] = new]
    BY <1>6 DEF Shape, TypeInv
  <2>2. rows \in SUBSET SignerRow /\ phase \in Phases
    BY <1>3 DEF Agreement, Phases
  <2>3. phase = IF job[w].kind = "send" THEN "freeze" ELSE "layout"
    OBVIOUS
  <2> HIDE DEF phase, a
  <2>4. /\ new \in Job /\ Reads(job[w], new) /\ new.list = job[w].list
        /\ new.fields = job[w].fields /\ new.seen = rows /\ new.phase = phase
    BY <1>3, <2>2 DEF Job, Reads
  <2> HIDE DEF new
  <2>5. LeavesOthers(w) /\ job'[w] = new
    BY <2>1, <2>4, SetJob DEF Shape, LeavesOthers
  <2> QED
    BY <1>1, <1>2, <1>6, <2>3, <2>4, <2>5 DEF a
<1>7. CASE /\ job[w].kind = "fields"
           /\ \E f \in Placed(job[w].ask, rows, a.issued) :
                job' = [job EXCEPT ![w].phase = "askFields", ![w].fields = {f}]
  <2>1. PICK f \in Placed(job[w].ask, rows, a.issued) :
          job' = [job EXCEPT ![w].phase = "askFields", ![w].fields = {f}]
    BY <1>7
  <2>2. job[w].ask \in Ask /\ job[w].ask.signer <= Len(a.issued)
        /\ RowsAreIssued(a)
    BY <1>3, <1>7 DEF Shape, Shaped, Job
  <2>3. f \in FieldRow /\ Good(a.issued, f)
    <3> HIDE DEF a
    <3> QED
      BY <1>3, <2>2, PlacedGood
  <2> DEFINE new == [job[w] EXCEPT !.phase = "askFields", !.fields = {f}]
  <2>4. job' = [job EXCEPT ![w] = new]
    BY <2>1 DEF Shape, TypeInv
  <2> HIDE DEF a
  <2>5. /\ new \in Job /\ Reads(job[w], new) /\ new.list = job[w].list
        /\ new.fields = {f} /\ new.seen = job[w].seen
        /\ new.phase = "askFields"
    BY <1>3, <2>3 DEF Job, Reads, Phases
  <2> HIDE DEF new
  <2>6. LeavesOthers(w) /\ job'[w] = new
    BY <2>4, <2>5, SetJob DEF Shape, LeavesOthers
  <2> QED
    BY <1>1, <1>2, <1>7, <2>3, <2>5, <2>6 DEF a
<1> QED
  BY <1>4, <1>5, <1>6, <1>7

LEMMA ReadLayoutJob ==
  ASSUME Shape, NEW w \in Workers, ReadLayout(w)
  PROVE  /\ LeavesOthers(w) /\ job[w].phase = "layout" /\ AtDoc(job[w])
         /\ \/ job'[w] = NoJob
            \/ /\ Reads(job[w], job'[w])
               /\ job'[w].list = job[w].list /\ job'[w].seen = job[w].seen
               /\ \/ /\ job[w].kind = "template" /\ job'[w].phase = "insert"
                     /\ job'[w].fields = doc[job[w].doc].fields
                  \/ /\ job[w].kind = "detect" /\ job'[w].phase = "askFields"
                     /\ job'[w].fields = doc[job[w].doc].fields \cup {Detected}
<1> DEFINE fields == doc[job[w].doc].fields
<1>1. job[w].phase = "layout"
  BY DEF ReadLayout, At
<1>2. AtDoc(job[w]) /\ job[w].kind \in {"template", "detect"}
  BY <1>1 DEF Shape, Shaped, InPlace, AtDoc, Laid
<1>3. job[w] \in Job /\ doc[job[w].doc] \in Agreement
  BY <1>2, TheDoc
<1>4. fields \in SUBSET FieldRow /\ fields \cup {Detected} \in SUBSET FieldRow
  <2>1. Detected \in FieldRow
    BY DEF FieldRow, Detected
  <2>2. fields \in SUBSET FieldRow
    BY <1>3 DEF Agreement
  <2> QED
    BY <2>1, <2>2
<1>5. \/ Done(w)
      \/ \E x \in {"insert", "askFields"}, g \in SUBSET FieldRow :
           /\ job' = [job EXCEPT ![w].phase = x, ![w].fields = g]
           /\ \/ x = "insert" /\ job[w].kind = "template" /\ g = fields
              \/ /\ x = "askFields" /\ job[w].kind = "detect"
                 /\ g = fields \cup {Detected}
  <2>1. CASE job[w].kind = "template"
    <3>1. job' = [job EXCEPT ![w].phase = "insert", ![w].fields = fields]
      BY <2>1 DEF ReadLayout, Kind, The
    <3> HIDE DEF fields
    <3> QED
      BY <1>4, <2>1, <3>1
  <2>2. CASE job[w].kind = "detect"
    <3>1. \/ Done(w)
          \/ job' = [job EXCEPT ![w].phase = "askFields",
                                ![w].fields = fields \cup {Detected}]
      BY <2>2 DEF ReadLayout, Kind, The
    <3> HIDE DEF fields
    <3> QED
      BY <1>4, <2>2, <3>1
  <2> QED
    BY <1>2, <2>1, <2>2
<1>6. CASE Done(w)
  BY <1>1, <1>2, <1>6, DoneJob DEF LeavesOthers, Shape
<1>7. ASSUME NEW x \in {"insert", "askFields"}, NEW g \in SUBSET FieldRow,
             job' = [job EXCEPT ![w].phase = x, ![w].fields = g]
      PROVE  /\ LeavesOthers(w)
             /\ Reads(job[w], job'[w])
             /\ job'[w].list = job[w].list /\ job'[w].seen = job[w].seen
             /\ job'[w].phase = x /\ job'[w].fields = g
  <2> DEFINE new == [job[w] EXCEPT !.phase = x, !.fields = g]
  <2>1. job' = [job EXCEPT ![w] = new]
    BY <1>7 DEF Shape, TypeInv
  <2>2. /\ new \in Job /\ Reads(job[w], new) /\ new.list = job[w].list
        /\ new.fields = g /\ new.seen = job[w].seen /\ new.phase = x
    BY <1>3 DEF Job, Reads, Phases
  <2> HIDE DEF new
  <2>3. LeavesOthers(w) /\ job'[w] = new
    BY <2>1, <2>2, SetJob DEF Shape, LeavesOthers
  <2> QED
    BY <2>2, <2>3
<1> QED
  BY <1>1, <1>2, <1>5, <1>6, <1>7

\* The roles are filled, and whoever takes a place takes its fields.
LEMMA ReadTemplateJob ==
  ASSUME Shape, NEW w \in Workers, ReadTemplate(w),
         \A f \in template.fields : InRoles(template.roles, f)
  PROVE  /\ LeavesOthers(w) /\ job[w].phase = "read" /\ job[w].kind = "use"
         /\ \/ job'[w] = NoJob
            \/ /\ Reads(job[w], job'[w]) /\ job'[w].seen = job[w].seen
               /\ job'[w].phase = "create"
               /\ \A f \in job'[w].fields : InRoles(job'[w].list, f)
<1> DEFINE list == Filled(template.roles, job[w].list)
           heir(f) == Heir(template.roles, list, f)
           fields == {heir(f) : f \in template.fields}
           new == [job[w] EXCEPT !.phase = "create", !.list = list,
                                 !.fields = fields]
<1>1. job[w].phase = "read"
  BY DEF ReadTemplate, At
<1>2. job[w].kind = "use"
  BY <1>1 DEF Shape, Shaped, InPlace
<1>3. job[w] \in Job /\ template \in Template
  BY DEF Shape, TypeInv
<1>4. /\ job[w].list \in Seq(Role) /\ template.roles \in Seq(Role)
      /\ template.fields \in SUBSET FieldRow
  BY <1>3 DEF Job, Template
<1>5. list \in Seq(Role) /\ Len(list) >= Len(template.roles)
  BY <1>4, FilledRoles
<1>6. Done(w) \/ job' = [job EXCEPT ![w].phase = "create", ![w].list = list,
                           ![w].fields = fields]
  BY DEF ReadTemplate
<1> HIDE DEF list
<1>7. \A f \in template.fields : heir(f) \in FieldRow /\ InRoles(list, heir(f))
  BY <1>4, <1>5, HeirInRoles
<1> HIDE DEF heir
<1>8. fields \in SUBSET FieldRow /\ \A f \in fields : InRoles(list, f)
  BY <1>7
<1> HIDE DEF fields
<1>9. CASE Done(w)
  BY <1>1, <1>2, <1>9, DoneJob DEF LeavesOthers, Shape
<1>10. CASE job' = [job EXCEPT ![w].phase = "create", ![w].list = list,
                      ![w].fields = fields]
  <2>1. job' = [job EXCEPT ![w] = new]
    BY <1>10 DEF Shape, TypeInv
  <2>2. /\ new \in Job /\ Reads(job[w], new) /\ new.seen = job[w].seen
        /\ new.phase = "create" /\ new.list = list /\ new.fields = fields
    BY <1>3, <1>5, <1>8 DEF Job, Phases, Reads
  <2> HIDE DEF new
  <2>3. LeavesOthers(w) /\ job'[w] = new
    BY <2>1, <2>2, SetJob DEF Shape, LeavesOthers
  <2> QED
    BY <1>1, <1>2, <1>8, <2>2, <2>3
<1> QED
  BY <1>6, <1>9, <1>10

\* The fields are mapped to the rows that are read back.
LEMMA ReadIdsJob ==
  ASSUME Shape, NEW w \in Workers, ReadIds(w),
         \A f \in job[w].fields : InRoles(job[w].list, f),
         job[w].list # <<>> /\ job[w].seen # {} =>
           Numbered(job[w].seen, job[w].list, doc[job[w].doc].issued)
  PROVE  /\ LeavesOthers(w) /\ job[w].phase = "ids" /\ AtDoc(job[w])
         /\ job[w].kind = "use"
         /\ \/ job'[w] = NoJob
            \/ /\ Reads(job[w], job'[w]) /\ job'[w].seen = job[w].seen
               /\ job'[w].list = job[w].list /\ job'[w].phase = "askFields"
               /\ \A f \in job'[w].fields : Good(doc[job[w].doc].issued, f)
<1> DEFINE a == doc[job[w].doc]
           mine == IF job[w].list = <<>> THEN {} ELSE a.signers
           own == mine = job[w].seen
<1>1. job[w].phase = "ids"
  BY DEF ReadIds, At
<1>2. AtDoc(job[w]) /\ job[w].kind = "use"
  BY <1>1 DEF Shape, Shaped, InPlace, AtDoc
<1>3. job[w] \in Job /\ a \in Agreement /\ job[w].doc \in Docs
  BY <1>2, TheDoc
<1>4. job[w].list \in Seq(Role) /\ job[w].fields \in SUBSET FieldRow
  BY <1>3 DEF Job
<1>5. RowsAreIssued(a)
  BY <1>3 DEF Shape
<1>6. PICK rows \in ById(mine) :
        \/ Done(w)
        \/ job' = [job EXCEPT ![w].phase = "askFields", ![w].fields =
                     {Mapped(f, rows, own) : f \in job[w].fields}]
  BY DEF ReadIds, NewIds, The
<1> DEFINE to(f) == Mapped(f, rows, own)
           fields == {to(f) : f \in job[w].fields}
           new == [job[w] EXCEPT !.phase = "askFields", !.fields = fields]
<1>7. /\ mine \in {{}, a.signers} /\ own \in BOOLEAN
      /\ own /\ mine # {} => Numbered(mine, job[w].list, a.issued)
  OBVIOUS
<1> HIDE DEF mine, own, a
<1>8. \A f \in job[w].fields : to(f) \in FieldRow /\ Good(a.issued, to(f))
  BY <1>3, <1>4, <1>5, <1>7, MappedGood
<1> HIDE DEF to
<1>9. fields \in SUBSET FieldRow /\ \A f \in fields : Good(a.issued, f)
  BY <1>8
<1>10. CASE Done(w)
  BY <1>1, <1>2, <1>10, DoneJob DEF LeavesOthers, Shape
<1>11. CASE job' = [job EXCEPT ![w].phase = "askFields", ![w].fields =
                      {Mapped(f, rows, own) : f \in job[w].fields}]
  <2>1. job' = [job EXCEPT ![w] = new]
    BY <1>11 DEF Shape, TypeInv, to
  <2> HIDE DEF fields
  <2>2. /\ new \in Job /\ Reads(job[w], new) /\ new.seen = job[w].seen
        /\ new.phase = "askFields" /\ new.list = job[w].list
        /\ new.fields = fields
    BY <1>3, <1>9 DEF Job, Phases, Reads
  <2> HIDE DEF new
  <2>3. LeavesOthers(w) /\ job'[w] = new
    BY <2>1, <2>2, SetJob DEF Shape, LeavesOthers
  <2> QED
    BY <1>1, <1>2, <1>9, <2>2, <2>3 DEF a
<1> QED
  BY <1>6, <1>10, <1>11

\* What a new agreement's request goes on with.
LEMMA CreateJob ==
  ASSUME Shape, NEW w \in Workers, Create(w)
  PROVE  /\ LeavesOthers(w) /\ job[w].phase = "create"
         /\ \E d \in Docs :
              /\ doc[d].status = "none"
              /\ doc' = [doc EXCEPT ![d].status = "draft", ![d].file = TRUE,
                           ![d].stray = acct.status = "gone" \/ purge # NoPurge]
              /\ \/ job'[w] = NoJob
                 \/ /\ job[w].kind = "use" /\ job[w].seen = {}
                    /\ job'[w].kind = job[w].kind /\ job'[w].via = job[w].via
                    /\ job'[w].doc = d /\ job'[w].ask = job[w].ask
                    /\ job'[w].list = job[w].list
                    /\ job'[w].seen = job[w].seen
                    /\ job'[w].fields = job[w].fields
                    /\ job'[w].late = job[w].late
                    /\ job'[w].withdrawn = job[w].withdrawn
                    /\ job'[w].phase = IF job[w].list = <<>>
                                       THEN "ids" ELSE "askSigners"
<1>1. job[w].phase = "create" /\ job[w] \in Job /\ Shaped(job[w])
  BY DEF Create, At, Shape, TypeInv
<1>2. job[w].kind \in {"create", "use"}
  BY <1>1 DEF Shaped, InPlace
<1>3. job[w].kind = "use" => job[w].seen = {}
  BY <1>1 DEF Shaped
<1> DEFINE x == IF job[w].list = <<>> THEN "ids" ELSE "askSigners"
<1>4. PICK d \in Docs :
        /\ doc[d].status = "none"
        /\ doc' = [doc EXCEPT ![d].status = "draft", ![d].file = TRUE,
                     ![d].stray = acct.status = "gone" \/ purge # NoPurge]
        /\ IF Kind(w) = "create" THEN Done(w)
           ELSE job' = [job EXCEPT ![w].doc = d, ![w].phase = x]
  BY DEF Create
<1>5. CASE Done(w)
  BY <1>1, <1>4, <1>5, DoneJob DEF LeavesOthers, Shape
<1>6. CASE job[w].kind = "use"
           /\ job' = [job EXCEPT ![w].doc = d, ![w].phase = x]
  <2> DEFINE new == [job[w] EXCEPT !.doc = d, !.phase = x]
  <2>1. job' = [job EXCEPT ![w] = new]
    BY <1>6 DEF Shape, TypeInv
  <2>2. x \in Phases
    BY DEF Phases
  <2>3. x = IF job[w].list = <<>> THEN "ids" ELSE "askSigners"
    OBVIOUS
  <2> HIDE DEF x
  <2>4. /\ new \in Job
        /\ new.kind = job[w].kind /\ new.via = job[w].via /\ new.doc = d
        /\ new.ask = job[w].ask /\ new.list = job[w].list
        /\ new.seen = job[w].seen /\ new.fields = job[w].fields
        /\ new.late = job[w].late /\ new.withdrawn = job[w].withdrawn
        /\ new.phase = x
    BY <1>1, <2>2 DEF Job
  <2> HIDE DEF new
  <2>5. LeavesOthers(w) /\ job'[w] = new
    BY <2>1, <2>4, SetJob DEF Shape, LeavesOthers
  <2>6. \/ job'[w] = NoJob
        \/ /\ job[w].kind = "use" /\ job[w].seen = {}
           /\ job'[w].kind = job[w].kind /\ job'[w].via = job[w].via
           /\ job'[w].doc = d /\ job'[w].ask = job[w].ask
           /\ job'[w].list = job[w].list /\ job'[w].seen = job[w].seen
           /\ job'[w].fields = job[w].fields /\ job'[w].late = job[w].late
           /\ job'[w].withdrawn = job[w].withdrawn
           /\ job'[w].phase = IF job[w].list = <<>>
                              THEN "ids" ELSE "askSigners"
    BY <1>3, <1>6, <2>3, <2>4, <2>5
  <2> QED
    BY <1>1, <1>4, <2>5, <2>6
<1> QED
  BY <1>2, <1>4, <1>5, <1>6 DEF Kind

\* Once the signers are written, a draft made from a template goes on with
\* their rows.
LEMMA PutSignersJob ==
  ASSUME Shape, NEW w \in Workers, PutSigners(w)
  PROVE  /\ LeavesOthers(w) /\ job[w].phase = "putSigners"
         /\ job[w].list \in Seq(Role)
         /\ \/ job'[w] = NoJob
            \/ /\ job[w].kind = "use"
               /\ job'[w].kind = job[w].kind /\ job'[w].via = job[w].via
               /\ job'[w].doc = job[w].doc /\ job'[w].ask = job[w].ask
               /\ job'[w].list = job[w].list /\ job'[w].fields = job[w].fields
               /\ job'[w].withdrawn = job[w].withdrawn
               /\ job'[w].phase = "ids"
               /\ IF Exists(w)
                  THEN job'[w].seen = Inserted(doc[job[w].doc].issued,
                                               job[w].list)
                  ELSE job'[w].seen = {}
<1> DEFINE d == job[w].doc
           put == [WithSigners(doc[d], job[w].list) EXCEPT
                     !.crossed = @ \/ BeingSent(d) \/ job[w].late]
           rows == IF Exists(w) THEN put.signers ELSE {}
           new == [job[w] EXCEPT !.phase = "ids", !.late = FALSE, !.seen = rows]
<1>1. job[w].phase = "putSigners"
  BY DEF PutSigners, At
<1>2. AtDoc(job[w])
  BY <1>1 DEF AtDoc
<1>3. job[w] \in Job /\ d \in Docs
  BY <1>2, TheDoc
<1>4. job[w].list \in Seq(Role)
  BY <1>3 DEF Job
<1>5. Exists(w) => put = doc'[d] /\ doc'[d].signers
                                     = Inserted(doc[d].issued, job[w].list)
  BY SignersRow DEF Replaced
<1>6. doc' \in [Docs -> Agreement]
  BY SignersRow DEF Only
<1>7. \/ Done(w)
      \/ /\ job[w].kind = "use"
         /\ job' = [job EXCEPT ![w].phase = "ids", ![w].late = FALSE,
                               ![w].seen = rows]
  BY DEF PutSigners, Kind
<1> HIDE DEF put
<1>8. IF Exists(w) THEN rows = Inserted(doc[d].issued, job[w].list)
                   ELSE rows = {}
  BY <1>5
<1>9. rows \in SUBSET SignerRow
  <2>1. Exists(w) => doc'[d].signers \in SUBSET SignerRow
    BY <1>3, <1>6 DEF Agreement
  <2> QED
    BY <1>5, <1>8, <2>1
<1> HIDE DEF rows, d
<1>10. CASE Done(w)
  BY <1>1, <1>4, <1>10, DoneJob DEF LeavesOthers, Shape
<1>11. CASE /\ job[w].kind = "use"
            /\ job' = [job EXCEPT ![w].phase = "ids", ![w].late = FALSE,
                                  ![w].seen = rows]
  <2>1. job' = [job EXCEPT ![w] = new]
    BY <1>11 DEF Shape, TypeInv
  <2>2. /\ new \in Job
        /\ new.kind = job[w].kind /\ new.via = job[w].via
        /\ new.doc = job[w].doc /\ new.ask = job[w].ask
        /\ new.list = job[w].list /\ new.fields = job[w].fields
        /\ new.withdrawn = job[w].withdrawn
        /\ new.phase = "ids" /\ new.seen = rows
    BY <1>3, <1>9 DEF Job, Phases
  <2> HIDE DEF new
  <2>3. LeavesOthers(w) /\ job'[w] = new
    BY <2>1, <2>2, SetJob DEF Shape, LeavesOthers
  <2> QED
    BY <1>1, <1>4, <1>8, <1>11, <2>2, <2>3 DEF d
<1> QED
  BY <1>7, <1>10, <1>11

\* The roles and fields of a template are those that were read.
LEMMA InsertTemplate ==
  ASSUME Shape, NEW w \in Workers, Insert(w),
         IF job[w].kind = "explicit"
         THEN \A f \in job[w].fields : InRoles(job[w].list, f)
         ELSE \A f \in job[w].fields : Good(doc[job[w].doc].issued, f)
  PROVE  /\ template' \in Template
         /\ \A f \in template'.fields : InRoles(template'.roles, f)
<1> DEFINE a == doc[job[w].doc]
<1>1. job[w].phase = "insert"
  BY DEF Insert, At
<1>2. AtDoc(job[w]) /\ job[w].kind \in {"template", "explicit"}
      /\ Shaped(job[w])
  BY <1>1 DEF Shape, Shaped, InPlace, AtDoc, Laid
<1>3. job[w] \in Job /\ a \in Agreement
  BY <1>2, TheDoc
<1>4. /\ job[w].list \in Seq(Role) /\ job[w].fields \in SUBSET FieldRow
      /\ job[w].seen \in SUBSET SignerRow
      /\ a.file \in BOOLEAN /\ a.issued \in Seq(Parties)
  BY <1>3 DEF Job, Agreement
<1>5. PICK rows \in ByOrder(job[w].seen) :
        template' =
          [made |-> TRUE, source |-> a.file,
           roles |-> IF job[w].kind = "explicit" THEN job[w].list
                     ELSE [i \in DOMAIN rows |->
                             [party |-> a.issued[rows[i].id],
                              order |-> rows[i].order]],
           fields |-> IF job[w].kind = "explicit" THEN job[w].fields
                      ELSE {Indexed(rows, f) : f \in job[w].fields}]
  BY DEF Insert, Kind, The
<1>6. ASSUME NEW roles \in Seq(Role), NEW fields \in SUBSET FieldRow,
             template' = [made |-> TRUE, source |-> a.file, roles |-> roles,
                          fields |-> fields],
             \A f \in fields : InRoles(roles, f)
      PROVE  /\ template' \in Template
             /\ \A f \in template'.fields : InRoles(template'.roles, f)
  BY <1>4, <1>6 DEF Template
<1>7. CASE job[w].kind = "explicit"
  BY <1>4, <1>5, <1>6, <1>7
<1>8. CASE job[w].kind = "template"
  <2> DEFINE role(i) == [party |-> a.issued[rows[i].id],
                         order |-> rows[i].order]
             roles == [i \in DOMAIN rows |-> role(i)]
             to(f) == Indexed(rows, f)
             fields == {to(f) : f \in job[w].fields}
  <2>1. /\ IsFiniteSet(job[w].seen)
        /\ \A s \in job[w].seen : s.id \in 1 .. Len(a.issued)
    BY <1>2, <1>8 DEF Shaped
  <2>2. rows \in Listings(job[w].seen)
    BY DEF ByOrder
  <2>3. /\ DOMAIN rows = 1 .. Len(rows) /\ Len(rows) \in Nat
        /\ \A i \in DOMAIN rows : rows[i] \in job[w].seen
    BY <1>4, <2>1, <2>2, ListedRows
  <2>4. ASSUME NEW i \in DOMAIN rows
        PROVE  role(i) \in Role /\ role(i).party = a.issued[rows[i].id]
    <3>1. rows[i].id \in 1 .. Len(a.issued) /\ rows[i].order \in Nat
      BY <1>4, <2>1, <2>3 DEF SignerRow
    <3>2. a.issued[rows[i].id] \in Parties
      BY <1>4, <3>1
    <3> QED
      BY <3>1, <3>2 DEF Role
  <2>5. template' = [made |-> TRUE, source |-> a.file, roles |-> roles,
                     fields |-> fields]
    BY <1>5, <1>8
  <2> HIDE DEF role, a
  <2>6. roles \in Seq(Role) /\ Len(roles) = Len(rows)
    BY <2>3, <2>4
  <2>7. \A i \in DOMAIN rows : roles[i].party = a.issued[rows[i].id]
    BY <2>4
  <2>8. \A f \in job[w].fields : Good(a.issued, f) /\ f \in FieldRow
    BY <1>4, <1>8 DEF a
  <2> HIDE DEF roles
  <2>9. \A f \in job[w].fields : to(f) \in FieldRow /\ InRoles(roles, to(f))
    BY <1>3, <1>4, <2>1, <2>2, <2>6, <2>7, <2>8, IndexedInRoles DEF a
  <2> HIDE DEF to
  <2>10. fields \in SUBSET FieldRow /\ \A f \in fields : InRoles(roles, f)
    BY <2>9
  <2> HIDE DEF fields
  <2> QED
    BY <1>6, <2>5, <2>6, <2>10 DEF a
<1> QED
  BY <1>2, <1>7, <1>8

-----------------------------------------------------------------------------
(* The documents, after a step                                             *)

\* A request's fields: those of a template, or of a layout that a client has
\* made, name its roles; the others name ids of the document.  A list that
\* was written is the one whose rows are to be read back.
FieldsOf(j) ==
  /\ IF j.kind = "explicit" \/ (j.kind = "use" /\ j.phase \in Filling)
     THEN \A f \in j.fields : InRoles(j.list, f)
     ELSE \A f \in j.fields : j.doc \in Docs /\ Good(doc[j.doc].issued, f)
  /\ j.phase = "ids" /\ j.list # <<>> /\ j.seen # {} =>
       Numbered(j.seen, j.list, doc[j.doc].issued)

FieldInv ==
  /\ \A d \in Docs : \A f \in doc[d].fields : Good(doc[d].issued, f)
  /\ \A f \in template.fields : InRoles(template.roles, f)
  /\ \A w \in Workers : FieldsOf(job[w])

Whole == Shape /\ FieldInv

\* Every document is sound, and gives out no id a second time.
DocsFine ==
  /\ doc' \in [Docs -> Agreement]
  /\ \A d \in Docs :
       /\ RowsAreIssued(doc'[d])
       /\ \A f \in doc'[d].fields : Good(doc'[d].issued, f)
       /\ Grows(doc[d], doc'[d])
       /\ doc[d].status # "none" => doc'[d].status # "none"

LEMMA SameIsFine ==
  ASSUME Whole, NEW d \in Docs
  PROVE  /\ RowsAreIssued(doc[d]) /\ Grows(doc[d], doc[d])
         /\ \A f \in doc[d].fields : Good(doc[d].issued, f)
         /\ doc[d] \in Agreement
         /\ doc[d].issued \in Seq(Parties) /\ Len(doc[d].issued) \in Nat
<1>1. doc[d] \in Agreement /\ RowsAreIssued(doc[d])
  BY DEF Whole, Shape, TypeInv
<1>2. doc[d].issued \in Seq(Parties) /\ Len(doc[d].issued) \in Nat
  BY <1>1 DEF Agreement
<1>3. Grows(doc[d], doc[d])
  BY <1>2 DEF Grows
<1> QED
  BY <1>1, <1>2, <1>3 DEF Whole, FieldInv

\* A document whose signers stay, or go, is as sound as it was.
LEMMA KeptIsFine ==
  ASSUME Whole, NEW d \in Docs, doc'[d].issued = doc[d].issued,
         doc'[d].signers \in {doc[d].signers, {}},
         doc'[d].fields \in {doc[d].fields, {}}
  PROVE  /\ RowsAreIssued(doc'[d])
         /\ \A f \in doc'[d].fields : Good(doc'[d].issued, f)
         /\ Grows(doc[d], doc'[d])
<1>1. /\ RowsAreIssued(doc[d]) /\ Grows(doc[d], doc[d])
      /\ \A f \in doc[d].fields : Good(doc[d].issued, f)
  BY SameIsFine
<1>2. RowsAreIssued(doc'[d])
  BY <1>1, FS_EmptySet DEF RowsAreIssued
<1>3. Grows(doc[d], doc'[d])
  BY <1>1 DEF Grows
<1> QED
  BY <1>1, <1>2, <1>3

LEMMA DocsUnchanged ==
  ASSUME Whole, doc' = doc
  PROVE  DocsFine
BY SameIsFine DEF DocsFine, Whole, Shape, TypeInv

LEMMA DocsAlone ==
  ASSUME Whole, doc' \in [Docs -> Agreement],
         \A e \in Docs : Alone(doc[e], doc'[e])
  PROVE  DocsFine
BY KeptIsFine DEF DocsFine, Alone

LEMMA DocsCreated ==
  ASSUME Whole, NEW w \in Workers, NEW d \in Docs, doc[d].status = "none",
         doc' = [doc EXCEPT ![d].status = "draft", ![d].file = TRUE,
                   ![d].stray = acct.status = "gone" \/ purge # NoPurge]
  PROVE  DocsFine /\ doc'[d].status = "draft"
<1>1. /\ Only(d) /\ doc'[d].status = "draft" /\ Rows(doc[d], doc'[d])
      /\ doc'[d].fields = doc[d].fields
  BY CreateRow DEF Whole
<1>2. ASSUME NEW e \in Docs
      PROVE  /\ doc'[e].issued = doc[e].issued
             /\ doc'[e].signers = doc[e].signers
             /\ doc'[e].fields = doc[e].fields
             /\ doc[e].status # "none" => doc'[e].status # "none"
  BY <1>1 DEF Only, Rows
<1> QED
  BY <1>1, <1>2, KeptIsFine DEF DocsFine, Only

LEMMA DocsMode ==
  ASSUME Whole, NEW w \in Workers, PutMode(w)
  PROVE  DocsFine
BY ModeRow, KeptIsFine DEF DocsFine, Whole, Only, Rows

LEMMA DocsVoided ==
  ASSUME Whole, NEW w \in Workers, VoidRow(w)
  PROVE  DocsFine
<1>1. \A e \in Docs : doc[e].status # "none" => doc'[e].status # "none"
  BY VoidedRow DEF Whole, Only
<1> QED
  BY <1>1, VoidedRow, KeptIsFine DEF DocsFine, Whole, Only, Rows

LEMMA DocsRemoved ==
  ASSUME Whole, NEW w \in Workers, RemoveRows(w)
  PROVE  DocsFine
<1>1. ASSUME NEW e \in Docs
      PROVE  /\ doc'[e].issued = doc[e].issued
             /\ doc'[e].signers \in {doc[e].signers, {}}
             /\ doc'[e].fields \in {doc[e].fields, {}}
             /\ doc[e].status # "none" => doc'[e].status # "none"
  BY RemovedRow DEF Whole, Only
<1>2. doc' \in [Docs -> Agreement]
  BY RemovedRow DEF Whole, Only
<1> QED
  BY <1>1, <1>2, KeptIsFine DEF DocsFine

LEMMA DocsPurged ==
  ASSUME Whole, PurgeDocs
  PROVE  DocsFine
<1>1. ASSUME NEW e \in Docs
      PROVE  /\ doc'[e].issued = doc[e].issued
             /\ doc'[e].signers \in {doc[e].signers, {}}
             /\ doc'[e].fields \in {doc[e].fields, {}}
             /\ doc[e].status # "none" => doc'[e].status # "none"
  BY PurgedRows DEF Whole
<1>2. doc' \in [Docs -> Agreement]
  BY PurgedRows DEF Whole
<1> QED
  BY <1>1, <1>2, KeptIsFine DEF DocsFine

LEMMA DocsFields ==
  ASSUME Whole, NEW w \in Workers, PutFields(w)
  PROVE  DocsFine
<1> DEFINE d == job[w].doc
<1>1. /\ d \in Docs /\ Only(d)
      /\ \A e \in Docs : Rows(doc[e], doc'[e])
      /\ \A e \in Docs : doc'[e].status = doc[e].status
      /\ doc'[d].fields \in {doc[d].fields, job[w].fields}
  BY FieldsRow DEF Whole
<1>2. \A f \in job[w].fields : Good(doc[d].issued, f)
  <2>1. job[w].phase = "putFields" /\ Shaped(job[w]) /\ FieldsOf(job[w])
    BY DEF PutFields, At, Whole, Shape, FieldInv
  <2>2. job[w].kind # "explicit"
    BY <2>1 DEF Shaped, InPlace
  <2> QED
    BY <2>1, <2>2 DEF FieldsOf, Filling
<1> HIDE DEF d
<1>3. ASSUME NEW e \in Docs
      PROVE  /\ RowsAreIssued(doc'[e]) /\ Grows(doc[e], doc'[e])
             /\ \A f \in doc'[e].fields : Good(doc'[e].issued, f)
  <2>1. /\ RowsAreIssued(doc[e]) /\ Grows(doc[e], doc[e])
        /\ \A f \in doc[e].fields : Good(doc[e].issued, f)
    BY SameIsFine
  <2>2. doc'[e].issued = doc[e].issued /\ doc'[e].signers = doc[e].signers
    BY <1>1 DEF Rows
  <2>3. RowsAreIssued(doc'[e]) /\ Grows(doc[e], doc'[e])
    BY <2>1, <2>2 DEF RowsAreIssued, Grows
  <2>4. \A f \in doc'[e].fields : Good(doc[e].issued, f)
    BY <1>1, <1>2, <2>1 DEF Only
  <2> QED
    BY <2>2, <2>3, <2>4
<1> QED
  BY <1>1, <1>3 DEF DocsFine, Only

LEMMA DocsSent ==
  ASSUME Whole, NEW w \in Workers, SendCommit(w)
  PROVE  DocsFine
<1> DEFINE d == job[w].doc
           rows == Linked(doc[d].signers, {r.id : r \in job[w].seen})
<1>1. /\ d \in Docs /\ Only(d)
      /\ \/ doc' = doc
         \/ /\ doc'[d].status = "out" /\ doc'[d].signers = rows
            /\ doc'[d].fields = doc[d].fields
            /\ doc'[d].issued = doc[d].issued
  BY SentRow DEF Whole
<1>2. CASE doc' = doc
  BY <1>2, DocsUnchanged
<1>3. CASE /\ doc'[d].status = "out" /\ doc'[d].signers = rows
           /\ doc'[d].fields = doc[d].fields
           /\ doc'[d].issued = doc[d].issued
  <2>1. /\ RowsAreIssued(doc[d]) /\ Grows(doc[d], doc[d])
        /\ \A f \in doc[d].fields : Good(doc[d].issued, f)
        /\ doc[d].signers \in SUBSET SignerRow
    BY <1>1, SameIsFine DEF Agreement
  <2>2. /\ IsFiniteSet(rows)
        /\ \A s \in rows : \E r \in doc[d].signers : s.id = r.id
    BY <2>1, LinkedRows DEF RowsAreIssued
  <2> HIDE DEF rows
  <2>3. RowsAreIssued(doc'[d])
    BY <1>3, <2>1, <2>2 DEF RowsAreIssued
  <2>4. Grows(doc[d], doc'[d])
    BY <1>3, <2>1 DEF Grows
  <2> HIDE DEF d
  <2> QED
    BY <1>1, <1>3, <2>1, <2>3, <2>4, SameIsFine DEF DocsFine, Only
<1> QED
  BY <1>1, <1>2, <1>3

LEMMA DocsSigners ==
  ASSUME Whole, NEW w \in Workers, PutSigners(w)
  PROVE  /\ DocsFine
         /\ Exists(w) =>
              Numbered(Inserted(doc[job[w].doc].issued, job[w].list),
                       job[w].list, doc'[job[w].doc].issued)
<1> DEFINE d == job[w].doc
           list == job[w].list
           given == doc[d].issued \o [i \in DOMAIN list |-> list[i].party]
           rows == Inserted(doc[d].issued, list)
<1>1. /\ d \in Docs /\ Only(d)
      /\ \/ doc' = doc /\ ~Exists(w)
         \/ Exists(w) /\ Replaced(doc[d], doc'[d], list)
  BY SignersRow DEF Whole
<1>2. list \in Seq(Role)
  BY PutSignersJob DEF Whole
<1>3. CASE doc' = doc /\ ~Exists(w)
  BY <1>3, DocsUnchanged
<1>4. CASE Exists(w) /\ Replaced(doc[d], doc'[d], list)
  <2>1. /\ doc[d].issued \in Seq(Parties) /\ Len(doc[d].issued) \in Nat
        /\ \A f \in doc[d].fields : Good(doc[d].issued, f)
        /\ doc[d] \in Agreement
    BY <1>1, SameIsFine
  <2>2. /\ Len(given) = Len(doc[d].issued) + Len(list)
        /\ \A i \in 1 .. Len(doc[d].issued) : given[i] = doc[d].issued[i]
        /\ IsFiniteSet(rows)
        /\ \A s \in rows : s.id \in 1 .. Len(given)
    BY <1>2, <2>1, InsertedRows
  <2>3. Numbered(rows, list, given)
    BY <1>2, <2>1, InsertedNumbered
  <2>4. /\ doc'[d].issued = given /\ doc'[d].signers = rows
        /\ doc'[d].fields = doc[d].fields
        /\ doc'[d].status = doc[d].status
    BY <1>4 DEF Replaced
  <2> HIDE DEF given, rows
  <2>5. Grows(doc[d], doc'[d])
    <3>1. Len(list) \in Nat
      BY <1>2
    <3>2. Len(doc[d].issued) <= Len(given)
      <4> HIDE DEF d, list
      <4> QED
        BY <2>1, <2>2, <3>1
    <3> QED
      BY <2>2, <2>4, <3>2 DEF Grows
  <2>6. RowsAreIssued(doc'[d])
    BY <2>2, <2>4 DEF RowsAreIssued
  <2>7. doc'[d] \in Agreement
    BY <1>1 DEF Only
  <2>8. \A f \in doc'[d].fields : Good(doc'[d].issued, f)
    BY <2>1, <2>4, <2>5, <2>7, GoodGrows
  <2>9. DocsFine
    <3> HIDE DEF d, list
    <3> QED
      BY <1>1, <2>4, <2>5, <2>6, <2>8, SameIsFine DEF DocsFine, Only
  <2> QED
    BY <2>3, <2>4, <2>9 DEF rows
<1> QED
  BY <1>1, <1>3, <1>4

-----------------------------------------------------------------------------
(* The requests, after a step                                              *)

\* Shaped and FieldsOf, by what the step leaves behind.
ShapedNext(j) ==
  /\ InPlace(j)
  /\ j.via <= acct'.issued
  /\ AtDoc(j) => j.doc \in Docs /\ doc'[j.doc].status # "none"
  /\ j.kind = "fields" => j.ask.signer <= Len(doc'[j.doc].issued)
  /\ j.kind = "template" =>
       /\ IsFiniteSet(j.seen)
       /\ \A s \in j.seen : s.id \in 1 .. Len(doc'[j.doc].issued)
  /\ j.kind = "use" /\ j.phase \notin {"ids", "askFields", "putFields"} =>
       j.seen = {}

FieldsNext(j) ==
  /\ IF j.kind = "explicit" \/ (j.kind = "use" /\ j.phase \in Filling)
     THEN \A f \in j.fields : InRoles(j.list, f)
     ELSE \A f \in j.fields : j.doc \in Docs /\ Good(doc'[j.doc].issued, f)
  /\ j.phase = "ids" /\ j.list # <<>> /\ j.seen # {} =>
       Numbered(j.seen, j.list, doc'[j.doc].issued)

JobFine(j) == ShapedNext(j) /\ FieldsNext(j)

\* No key is forgotten.
KeysFine == acct' \in Account /\ acct.issued <= acct'.issued

LEMMA NumberedGrows ==
  ASSUME NEW a \in Agreement, NEW b \in Agreement, Grows(a, b),
         NEW rows, NEW list \in Seq(Role), Numbered(rows, list, a.issued)
  PROVE  Numbered(rows, list, b.issued)
<1>1. PICK n \in Nat :
        /\ rows = {[id |-> n + i, order |-> list[i].order, link |-> FALSE] :
                     i \in DOMAIN list}
        /\ n + Len(list) <= Len(a.issued)
        /\ \A i \in DOMAIN list : a.issued[n + i] = list[i].party
  BY DEF Numbered
<1>2. /\ Len(a.issued) \in Nat /\ Len(b.issued) \in Nat
      /\ Len(list) \in Nat /\ DOMAIN list = 1 .. Len(list)
      /\ Len(a.issued) <= Len(b.issued)
  BY DEF Agreement, Grows
<1>3. n + Len(list) <= Len(b.issued)
  BY <1>1, <1>2
<1>4. ASSUME NEW i \in DOMAIN list
      PROVE  b.issued[n + i] = list[i].party
  <2>1. n + i \in 1 .. Len(a.issued)
    BY <1>1, <1>2
  <2> QED
    BY <1>1, <2>1 DEF Grows
<1> QED
  BY <1>1, <1>3, <1>4 DEF Numbered

LEMMA NoJobFine ==
  ASSUME KeysFine
  PROVE  JobFine(NoJob)
<1>1. acct'.issued \in Nat
  BY DEF KeysFine, Account
<1>2. ShapedNext(NoJob)
  BY <1>1 DEF ShapedNext, NoJob, InPlace, AtDoc, Laid
<1>3. FieldsNext(NoJob)
  BY DEF FieldsNext, NoJob
<1> QED
  BY <1>2, <1>3 DEF JobFine

\* What is known of the document of a request that is about one, and of the
\* document after the step.
LEMMA DocOnward ==
  ASSUME Whole, DocsFine, NEW d \in Docs
  PROVE  /\ doc[d] \in Agreement /\ doc'[d] \in Agreement
         /\ Grows(doc[d], doc'[d])
         /\ Len(doc[d].issued) \in Nat /\ Len(doc'[d].issued) \in Nat
         /\ Len(doc[d].issued) <= Len(doc'[d].issued)
         /\ doc[d].status # "none" => doc'[d].status # "none"
<1>1. doc[d] \in Agreement /\ doc'[d] \in Agreement
  BY DEF Whole, Shape, TypeInv, DocsFine
<1>2. Grows(doc[d], doc'[d])
  BY DEF DocsFine
<1> QED
  BY <1>1, <1>2 DEF Agreement, Grows, DocsFine

\* A request that has what it had, and is at a phase that does not ask for
\* more, is as sound as it was.
LEMMA KeptJobFine ==
  ASSUME Whole, DocsFine, KeysFine, NEW v \in Workers, NEW j,
         Keeps(job[v], j), InPlace(j), AtDoc(j) => AtDoc(job[v]),
         j.kind = "use" =>
           /\ j.phase \in Filling <=> job[v].phase \in Filling
           /\ job[v].phase \in {"ids", "askFields", "putFields"} =>
                j.phase \in {"ids", "askFields", "putFields"},
         j.phase = "ids" => job[v].phase = "ids" \/ job[v].seen = {}
  PROVE  JobFine(j)
<1> DEFINE k == job[v]
           d == job[v].doc
<1>1. k \in Job /\ Shaped(k) /\ FieldsOf(k)
  BY DEF Whole, Shape, TypeInv, FieldInv
<1>2. /\ j.kind = k.kind /\ j.via = k.via /\ j.doc = d /\ j.ask = k.ask
      /\ j.list = k.list /\ j.seen = k.seen /\ j.fields = k.fields
  BY DEF Keeps
<1>3. AtDoc(k) => d \in Docs /\ doc[d].status # "none"
  BY <1>1 DEF Shaped
<1>4. j.kind \in {"fields", "template"} => AtDoc(k)
  BY <1>2 DEF AtDoc, Laid
<1>5. ShapedNext(j)
  <2>1. j.via <= acct'.issued
    <3>1. k.via \in Nat /\ acct.issued \in Nat /\ acct'.issued \in Nat
          /\ k.via <= acct.issued /\ acct.issued <= acct'.issued
      BY <1>1 DEF KeysFine, Account, Whole, Shape, TypeInv, Job, Shaped
    <3> QED
      BY <1>2, <3>1
  <2>2. AtDoc(j) => j.doc \in Docs /\ doc'[j.doc].status # "none"
    BY <1>2, <1>3, DocOnward
  <2>3. j.kind = "fields" => j.ask.signer <= Len(doc'[j.doc].issued)
    <3>1. SUFFICES ASSUME k.kind = "fields"
                   PROVE  k.ask.signer <= Len(doc'[d].issued)
      BY <1>2
    <3>2. d \in Docs /\ k.ask.signer \in Nat
      BY <1>1, <1>2, <1>3, <1>4, <3>1 DEF Job, Ask
    <3>3. k.ask.signer <= Len(doc[d].issued)
      BY <1>1, <3>1 DEF Shaped
    <3> HIDE DEF k, d
    <3>4. /\ Len(doc[d].issued) \in Nat /\ Len(doc'[d].issued) \in Nat
          /\ Len(doc[d].issued) <= Len(doc'[d].issued)
      BY <3>2, DocOnward
    <3> QED
      BY <3>2, <3>3, <3>4
  <2>4. j.kind = "template" =>
          /\ IsFiniteSet(j.seen)
          /\ \A s \in j.seen : s.id \in 1 .. Len(doc'[j.doc].issued)
    <3>1. SUFFICES ASSUME k.kind = "template"
                   PROVE  /\ IsFiniteSet(k.seen)
                          /\ \A s \in k.seen : s.id \in 1 .. Len(doc'[d].issued)
      BY <1>2
    <3>2. d \in Docs
      BY <1>2, <1>3, <1>4, <3>1
    <3>3. /\ IsFiniteSet(k.seen)
          /\ \A s \in k.seen : s.id \in 1 .. Len(doc[d].issued)
      BY <1>1, <3>1 DEF Shaped
    <3> HIDE DEF k, d
    <3>4. /\ Len(doc[d].issued) \in Nat /\ Len(doc'[d].issued) \in Nat
          /\ Len(doc[d].issued) <= Len(doc'[d].issued)
      BY <3>2, DocOnward
    <3> QED
      BY <3>3, <3>4
  <2>5. j.kind = "use" /\ j.phase \notin {"ids", "askFields", "putFields"} =>
          j.seen = {}
    BY <1>1, <1>2 DEF Shaped
  <2> QED
    BY <2>1, <2>2, <2>3, <2>4, <2>5 DEF ShapedNext
<1>6. FieldsNext(j)
  <2>1. IF j.kind = "explicit" \/ (j.kind = "use" /\ j.phase \in Filling)
        THEN \A f \in j.fields : InRoles(j.list, f)
        ELSE \A f \in j.fields :
               j.doc \in Docs /\ Good(doc'[j.doc].issued, f)
    <3>1. CASE j.kind = "explicit" \/ (j.kind = "use" /\ j.phase \in Filling)
      BY <1>1, <1>2, <3>1 DEF FieldsOf
    <3>2. CASE ~(j.kind = "explicit" \/ (j.kind = "use" /\ j.phase \in Filling))
      <4>1. \A f \in k.fields : d \in Docs /\ Good(doc[d].issued, f)
        BY <1>1, <1>2, <3>2 DEF FieldsOf
      <4>2. \A f \in k.fields : d \in Docs /\ Good(doc'[d].issued, f)
        BY <4>1, DocOnward, GoodGrows
      <4> QED
        BY <1>2, <3>2, <4>2
    <3> QED
      BY <3>1, <3>2
  <2>2. j.phase = "ids" /\ j.list # <<>> /\ j.seen # {} =>
          Numbered(j.seen, j.list, doc'[j.doc].issued)
    <3>1. SUFFICES ASSUME j.phase = "ids", k.list # <<>>, k.seen # {}
                   PROVE  Numbered(k.seen, k.list, doc'[d].issued)
      BY <1>2
    <3>2. k.phase = "ids"
      BY <3>1
    <3>3. Numbered(k.seen, k.list, doc[d].issued)
      BY <1>1, <3>1, <3>2 DEF FieldsOf
    <3>4. d \in Docs /\ k.list \in Seq(Role)
      BY <1>1, <1>3, <3>2 DEF AtDoc, Job
    <3> HIDE DEF k, d
    <3>5. /\ doc[d] \in Agreement /\ doc'[d] \in Agreement
          /\ Grows(doc[d], doc'[d])
      BY <3>4, DocOnward
    <3> QED
      BY <3>3, <3>4, <3>5, NumberedGrows
  <2> QED
    BY <2>1, <2>2 DEF FieldsNext
<1> QED
  BY <1>5, <1>6 DEF JobFine

LEMMA AlikeFine ==
  ASSUME Whole, DocsFine, KeysFine, NEW v \in Workers, NEW j, Alike(job[v], j)
  PROVE  JobFine(j)
<1>1. Shaped(job[v])
  BY DEF Whole, Shape
<1>2. InPlace(j)
  BY <1>1 DEF Shaped, InPlace, Alike, Keeps
<1>3. AtDoc(j) => AtDoc(job[v])
  BY DEF AtDoc, Alike, Keeps
<1> QED
  BY <1>2, <1>3, KeptJobFine DEF Alike

LEMMA QuietFine ==
  ASSUME Whole, DocsFine, KeysFine, NEW w \in Workers, Quiet(w)
  PROVE  JobFine(job'[w])
<1>1. CASE job'[w] = NoJob
  BY <1>1, NoJobFine
<1>2. CASE Passes(w)
  <2>1. /\ Keeps(job[w], job'[w]) /\ InPlace(job'[w])
        /\ AtDoc(job'[w]) => AtDoc(job[w])
        /\ job'[w].phase = "ids" => job[w].phase = "askSigners"
        /\ job[w].phase \in {"ids", "askFields", "putFields"} =>
             job'[w].phase = "putFields"
        /\ job[w].kind = "use" =>
             (job'[w].phase \in Filling <=> job[w].phase \in Filling)
        /\ job'[w].kind = job[w].kind
    BY <1>2 DEF Passes, Moved, Keeps
  <2>2. job'[w].phase = "ids" => job[w].seen = {}
    <3>1. Shaped(job[w])
      BY DEF Whole, Shape
    <3>2. job'[w].phase = "ids" => job[w].kind = "use"
      BY <2>1 DEF InPlace
    <3> QED
      BY <2>1, <3>1, <3>2 DEF Shaped
  <2> QED
    BY <2>1, <2>2, KeptJobFine
<1> QED
  BY <1>1, <1>2 DEF Quiet

\* A step from one phase to the next, of a request that is not for a template.
LEMMA GotoFine ==
  ASSUME Whole, DocsFine, KeysFine, NEW w \in Workers, NEW x \in Phases,
         Goto(w, x), job[w].kind \in {"send", "delete"},
         job[w].kind = "send" <=> x = "row",
         job[w].kind = "delete" <=> x = "remove"
  PROVE  LeavesOthers(w) /\ JobFine(job'[w])
<1>1. /\ job' \in [Workers -> Job]
      /\ job'[w].phase = x /\ Moved(job[w], job'[w])
      /\ \A v \in Workers : v # w => job'[v] = job[v]
  BY GotoJob DEF Whole, Shape
<1>2. job'[w].kind = job[w].kind /\ Keeps(job[w], job'[w])
  BY <1>1 DEF Moved, Keeps
<1>3. InPlace(job'[w]) /\ AtDoc(job[w]) /\ job'[w].phase # "ids"
  BY <1>1, <1>2 DEF InPlace, AtDoc, Laid
<1>4. JobFine(job'[w])
  BY <1>2, <1>3, KeptJobFine
<1> QED
  BY <1>1, <1>4 DEF LeavesOthers

LEMMA RequestFine ==
  ASSUME Whole, DocsFine, KeysFine, NEW w \in Workers, Request(w)
  PROVE  LeavesOthers(w) /\ JobFine(job'[w])
<1> DEFINE j == job'[w]
<1>1. /\ job' \in [Workers -> Job] /\ Arrives(w) /\ doc' = doc /\ acct' = acct
      /\ \A v \in Workers : v # w => job'[v] = job[v]
  BY RequestJob DEF Whole, Shape
<1>2. j \in Job
  BY <1>1
<1>3. /\ j.phase = "auth" /\ j.via \in 0 .. acct.issued /\ j.seen = {}
      /\ j.kind \in Laid => j.doc \in Docs /\ doc[j.doc].status # "none"
      /\ j.ask.signer # 0 =>
           j.doc \in Docs /\ j.ask.signer \in 1 .. Len(doc[j.doc].issued)
      /\ IF j.kind = "explicit" THEN \A f \in j.fields : InRoles(j.list, f)
                                ELSE j.fields = {}
  BY <1>1 DEF Arrives
<1> HIDE DEF j
<1>4. ShapedNext(j)
  <2>1. InPlace(j)
    BY <1>3 DEF InPlace
  <2>2. j.via <= acct'.issued
    <3>1. acct.issued \in Nat
      BY DEF Whole, Shape, TypeInv, Account
    <3> QED
      BY <1>1, <1>3, <3>1
  <2>3. AtDoc(j) => j.doc \in Docs /\ doc'[j.doc].status # "none"
    BY <1>1, <1>3 DEF AtDoc
  <2>4. j.kind = "fields" => j.ask.signer <= Len(doc'[j.doc].issued)
    <3>1. SUFFICES ASSUME j.kind = "fields"
                   PROVE  j.ask.signer <= Len(doc[j.doc].issued)
      BY <1>1
    <3>2. j.doc \in Docs
      BY <1>3, <3>1 DEF Laid
    <3>3. Len(doc[j.doc].issued) \in Nat
      BY <3>2, DocOnward
    <3>4. j.ask.signer \in Nat
      BY <1>2 DEF Job, Ask
    <3> QED
      BY <1>3, <3>3, <3>4
  <2>5. IsFiniteSet(j.seen)
    BY <1>3, FS_EmptySet
  <2> QED
    BY <1>3, <2>1, <2>2, <2>3, <2>4, <2>5 DEF ShapedNext
<1>5. FieldsNext(j)
  BY <1>3 DEF FieldsNext, Filling
<1> QED
  BY <1>1, <1>4, <1>5 DEF JobFine, LeavesOthers, j

\* What goes on to be placed, or detected, is a field of the document.
LEMMA AskedFine ==
  ASSUME Whole, DocsFine, KeysFine, NEW w \in Workers, NEW j,
         AtDoc(job[w]), Reads(job[w], j), j.seen = job[w].seen,
         j.phase = "askFields", j.kind \in {"fields", "detect", "use"},
         \A f \in j.fields : Good(doc[job[w].doc].issued, f)
  PROVE  JobFine(j)
<1> DEFINE d == job[w].doc
<1>1. Shaped(job[w]) /\ job[w] \in Job
  BY DEF Whole, Shape, TypeInv
<1>2. d \in Docs /\ doc[d].status # "none"
  BY <1>1 DEF Shaped
<1>3. /\ j.kind = job[w].kind /\ j.via = job[w].via /\ j.doc = d
      /\ j.ask = job[w].ask
  BY DEF Reads
<1>4. ShapedNext(j)
  <2>1. InPlace(j)
    BY DEF InPlace
  <2>2. j.via <= acct'.issued
    <3>1. /\ job[w].via \in Nat /\ acct.issued \in Nat /\ acct'.issued \in Nat
          /\ job[w].via <= acct.issued /\ acct.issued <= acct'.issued
      BY <1>1 DEF KeysFine, Account, Whole, Shape, TypeInv, Job, Shaped
    <3> QED
      BY <1>3, <3>1
  <2>3. doc'[d].status # "none"
    BY <1>2, DocOnward
  <2>4. j.kind = "fields" => j.ask.signer <= Len(doc'[d].issued)
    <3>1. SUFFICES ASSUME job[w].kind = "fields"
                   PROVE  job[w].ask.signer <= Len(doc'[d].issued)
      BY <1>3
    <3>2. job[w].ask.signer \in Nat /\ job[w].ask.signer <= Len(doc[d].issued)
      BY <1>1, <3>1 DEF Job, Ask, Shaped
    <3> HIDE DEF d
    <3>3. /\ Len(doc[d].issued) \in Nat /\ Len(doc'[d].issued) \in Nat
          /\ Len(doc[d].issued) <= Len(doc'[d].issued)
      BY <1>2, DocOnward
    <3> QED
      BY <3>2, <3>3
  <2> QED
    BY <1>2, <1>3, <2>1, <2>2, <2>3, <2>4 DEF ShapedNext
<1>5. FieldsNext(j)
  <2>1. \A f \in j.fields : Good(doc'[d].issued, f)
    BY <1>2, DocOnward, GoodGrows
  <2> QED
    BY <1>2, <1>3, <2>1 DEF FieldsNext, Filling
<1> QED
  BY <1>4, <1>5 DEF JobFine

LEMMA MadeFine ==
  ASSUME Whole, KeysFine, NEW w \in Workers, NEW j, j.via = job[w].via,
         InPlace(j), j.kind # "fields",
         AtDoc(j) => j.doc \in Docs /\ doc'[j.doc].status # "none",
         j.kind = "template" =>
           /\ IsFiniteSet(j.seen)
           /\ \A s \in j.seen : s.id \in 1 .. Len(doc'[j.doc].issued),
         j.kind = "use" /\ j.phase \notin {"ids", "askFields", "putFields"} =>
           j.seen = {},
         FieldsNext(j)
  PROVE  JobFine(j)
<1>1. /\ job[w].via \in Nat /\ acct.issued \in Nat /\ acct'.issued \in Nat
      /\ job[w].via <= acct.issued /\ acct.issued <= acct'.issued
  BY DEF KeysFine, Account, Whole, Shape, TypeInv, Job, Shaped
<1>2. j.via <= acct'.issued
  BY <1>1
<1> QED
  BY <1>2 DEF JobFine, ShapedNext

LEMMA ReadRowsFine ==
  ASSUME Whole, DocsFine, KeysFine, NEW w \in Workers, ReadRows(w), doc' = doc
  PROVE  LeavesOthers(w) /\ JobFine(job'[w])
<1> DEFINE j == job'[w]
           k == job[w]
           a == doc[job[w].doc]
<1>1. /\ LeavesOthers(w) /\ k.phase = "rows" /\ AtDoc(k)
      /\ \/ j = NoJob
         \/ /\ k.kind \in {"send", "template"} /\ Reads(k, j)
            /\ j.fields = k.fields /\ j.seen = a.signers
            /\ j.phase = IF k.kind = "send" THEN "freeze" ELSE "layout"
         \/ /\ k.kind = "fields" /\ Reads(k, j) /\ j.seen = k.seen
            /\ j.phase = "askFields"
            /\ \E f \in FieldRow : Good(a.issued, f) /\ j.fields = {f}
  BY ReadRowsJob DEF Whole
<1>2. Shaped(k) /\ FieldsOf(k)
  BY DEF Whole, Shape, FieldInv
<1>3. CASE j = NoJob
  BY <1>1, <1>3, NoJobFine
<1>4. CASE /\ k.kind \in {"send", "template"} /\ Reads(k, j)
           /\ j.fields = k.fields /\ j.seen = a.signers
           /\ j.phase = IF k.kind = "send" THEN "freeze" ELSE "layout"
  <2>1. k.doc \in Docs /\ doc[k.doc].status # "none"
    BY <1>1, <1>2 DEF Shaped
  <2>2. j.doc = k.doc /\ j.kind = k.kind /\ j.via = k.via
    BY <1>4 DEF Reads
  <2>3. RowsAreIssued(a)
    BY <2>1, SameIsFine
  <2> HIDE DEF j
  <2>4. InPlace(j)
    BY <1>4, <2>2 DEF InPlace
  <2>5. FieldsNext(j)
    BY <1>2, <1>4, <2>1, <2>2 DEF FieldsNext, FieldsOf
  <2>6. JobFine(j)
    BY <1>4, <2>1, <2>2, <2>3, <2>4, <2>5, MadeFine DEF RowsAreIssued
  <2> QED
    BY <1>1, <2>6 DEF j
<1>5. CASE /\ k.kind = "fields" /\ Reads(k, j) /\ j.seen = k.seen
           /\ j.phase = "askFields"
           /\ \E f \in FieldRow : Good(a.issued, f) /\ j.fields = {f}
  <2>1. \A f \in j.fields : Good(a.issued, f)
    BY <1>5
  <2>2. j.kind = "fields"
    BY <1>5 DEF Reads
  <2> HIDE DEF j
  <2>3. JobFine(j)
    BY <1>1, <1>5, <2>1, <2>2, AskedFine
  <2> QED
    BY <1>1, <2>3 DEF j
<1> QED
  BY <1>1, <1>3, <1>4, <1>5

LEMMA ReadLayoutFine ==
  ASSUME Whole, DocsFine, KeysFine, NEW w \in Workers, ReadLayout(w), doc' = doc
  PROVE  LeavesOthers(w) /\ JobFine(job'[w])
<1> DEFINE j == job'[w]
           k == job[w]
           a == doc[job[w].doc]
<1>1. /\ LeavesOthers(w) /\ k.phase = "layout" /\ AtDoc(k)
      /\ \/ j = NoJob
         \/ /\ Reads(k, j) /\ j.seen = k.seen
            /\ \/ /\ k.kind = "template" /\ j.phase = "insert"
                  /\ j.fields = a.fields
               \/ /\ k.kind = "detect" /\ j.phase = "askFields"
                  /\ j.fields = a.fields \cup {Detected}
  BY ReadLayoutJob DEF Whole
<1>2. Shaped(k)
  BY DEF Whole, Shape
<1>3. k.doc \in Docs /\ doc[k.doc].status # "none"
  BY <1>1, <1>2 DEF Shaped
<1>4. \A f \in a.fields : Good(a.issued, f)
  BY <1>3, SameIsFine
<1>5. CASE j = NoJob
  BY <1>1, <1>5, NoJobFine
<1>6. CASE /\ Reads(k, j) /\ j.seen = k.seen
           /\ k.kind = "template" /\ j.phase = "insert"
           /\ j.fields = a.fields
  <2>1. j.doc = k.doc /\ j.kind = k.kind /\ j.via = k.via
    BY <1>6 DEF Reads
  <2> HIDE DEF j
  <2>2. InPlace(j)
    BY <1>6, <2>1 DEF InPlace
  <2>3. FieldsNext(j)
    BY <1>3, <1>4, <1>6, <2>1 DEF FieldsNext
  <2>4. /\ IsFiniteSet(j.seen)
        /\ \A s \in j.seen : s.id \in 1 .. Len(doc'[j.doc].issued)
    BY <1>2, <1>6, <2>1 DEF Shaped
  <2>5. JobFine(j)
    BY <1>3, <1>6, <2>1, <2>2, <2>3, <2>4, MadeFine
  <2> QED
    BY <1>1, <2>5 DEF j
<1>7. CASE /\ Reads(k, j) /\ j.seen = k.seen
           /\ k.kind = "detect" /\ j.phase = "askFields"
           /\ j.fields = a.fields \cup {Detected}
  <2>1. Good(a.issued, Detected)
    <3>1. Len(a.issued) \in Nat
      BY <1>3, SameIsFine
    <3> QED
      BY <3>1 DEF Good, Detected
  <2>2. \A f \in j.fields : Good(a.issued, f)
    BY <1>4, <1>7, <2>1
  <2>3. j.kind = "detect"
    BY <1>7 DEF Reads
  <2> HIDE DEF j
  <2>4. JobFine(j)
    BY <1>1, <1>7, <2>2, <2>3, AskedFine
  <2> QED
    BY <1>1, <2>4 DEF j
<1> QED
  BY <1>1, <1>5, <1>6, <1>7

LEMMA ReadTemplateFine ==
  ASSUME Whole, DocsFine, KeysFine, NEW w \in Workers, ReadTemplate(w)
  PROVE  LeavesOthers(w) /\ JobFine(job'[w])
<1> DEFINE j == job'[w]
           k == job[w]
<1>1. /\ LeavesOthers(w) /\ k.phase = "read" /\ k.kind = "use"
      /\ \/ j = NoJob
         \/ /\ Reads(k, j) /\ j.seen = k.seen /\ j.phase = "create"
            /\ \A f \in j.fields : InRoles(j.list, f)
  BY ReadTemplateJob DEF Whole, FieldInv
<1>2. CASE j = NoJob
  BY <1>1, <1>2, NoJobFine
<1>3. CASE /\ Reads(k, j) /\ j.seen = k.seen /\ j.phase = "create"
           /\ \A f \in j.fields : InRoles(j.list, f)
  <2>1. k.seen = {}
    BY <1>1 DEF Whole, Shape, Shaped
  <2>2. j.kind = "use" /\ j.via = k.via
    BY <1>1, <1>3 DEF Reads
  <2> HIDE DEF j
  <2>3. InPlace(j) /\ ~AtDoc(j)
    BY <1>3, <2>2 DEF InPlace, AtDoc, Laid
  <2>4. FieldsNext(j)
    BY <1>3, <2>2 DEF FieldsNext, Filling
  <2>5. JobFine(j)
    BY <1>3, <2>1, <2>2, <2>3, <2>4, MadeFine
  <2> QED
    BY <1>1, <2>5 DEF j
<1> QED
  BY <1>1, <1>2, <1>3

LEMMA ReadIdsFine ==
  ASSUME Whole, DocsFine, KeysFine, NEW w \in Workers, ReadIds(w)
  PROVE  LeavesOthers(w) /\ JobFine(job'[w])
<1> DEFINE j == job'[w]
           k == job[w]
<1>1. k.phase = "ids" /\ k.kind = "use" /\ FieldsOf(k)
  BY DEF ReadIds, At, Whole, Shape, Shaped, InPlace, FieldInv
<1>2. /\ \A f \in k.fields : InRoles(k.list, f)
      /\ k.list # <<>> /\ k.seen # {} =>
           Numbered(k.seen, k.list, doc[k.doc].issued)
  BY <1>1 DEF FieldsOf, Filling
<1>3. /\ LeavesOthers(w) /\ AtDoc(k)
      /\ \/ j = NoJob
         \/ /\ Reads(k, j) /\ j.seen = k.seen /\ j.phase = "askFields"
            /\ \A f \in j.fields : Good(doc[k.doc].issued, f)
  BY <1>2, ReadIdsJob DEF Whole
<1>4. CASE j = NoJob
  BY <1>3, <1>4, NoJobFine
<1>5. CASE /\ Reads(k, j) /\ j.seen = k.seen /\ j.phase = "askFields"
           /\ \A f \in j.fields : Good(doc[k.doc].issued, f)
  <2>1. j.kind = "use"
    BY <1>1, <1>5 DEF Reads
  <2> HIDE DEF j
  <2>2. JobFine(j)
    BY <1>3, <1>5, <2>1, AskedFine
  <2> QED
    BY <1>3, <2>2 DEF j
<1> QED
  BY <1>3, <1>4, <1>5

LEMMA CreateFine ==
  ASSUME Whole, KeysFine, NEW w \in Workers, Create(w)
  PROVE  DocsFine /\ LeavesOthers(w) /\ JobFine(job'[w])
<1> DEFINE j == job'[w]
           k == job[w]
<1>1. LeavesOthers(w) /\ k.phase = "create"
  BY CreateJob DEF Whole
<1>2. PICK d \in Docs :
        /\ doc[d].status = "none"
        /\ doc' = [doc EXCEPT ![d].status = "draft", ![d].file = TRUE,
                     ![d].stray = acct.status = "gone" \/ purge # NoPurge]
        /\ \/ j = NoJob
           \/ /\ k.kind = "use" /\ k.seen = {}
              /\ j.kind = k.kind /\ j.via = k.via /\ j.doc = d
              /\ j.list = k.list /\ j.seen = k.seen /\ j.fields = k.fields
              /\ j.phase = IF k.list = <<>> THEN "ids" ELSE "askSigners"
  BY CreateJob DEF Whole
<1>3. DocsFine /\ doc'[d].status = "draft"
  BY <1>2, DocsCreated
<1>4. CASE j = NoJob
  BY <1>1, <1>3, <1>4, NoJobFine
<1>5. CASE /\ k.kind = "use" /\ k.seen = {}
           /\ j.kind = k.kind /\ j.via = k.via /\ j.doc = d
           /\ j.list = k.list /\ j.seen = k.seen /\ j.fields = k.fields
           /\ j.phase = IF k.list = <<>> THEN "ids" ELSE "askSigners"
  <2>1. FieldsOf(k)
    BY DEF Whole, FieldInv
  <2> HIDE DEF j
  <2>2. \A f \in j.fields : InRoles(j.list, f)
    BY <1>1, <1>5, <2>1 DEF FieldsOf, Filling
  <2>3. InPlace(j)
    BY <1>5 DEF InPlace
  <2>4. FieldsNext(j)
    BY <1>5, <2>2 DEF FieldsNext, Filling
  <2>5. JobFine(j)
    BY <1>3, <1>5, <2>3, <2>4, MadeFine
  <2> QED
    BY <1>1, <1>3, <2>5 DEF j
<1> QED
  BY <1>2, <1>4, <1>5

LEMMA PutSignersFine ==
  ASSUME Whole, KeysFine, NEW w \in Workers, PutSigners(w)
  PROVE  DocsFine /\ LeavesOthers(w) /\ JobFine(job'[w])
<1> DEFINE j == job'[w]
           k == job[w]
           d == job[w].doc
<1>1. /\ LeavesOthers(w) /\ k.phase = "putSigners"
      /\ \/ j = NoJob
         \/ /\ k.kind = "use" /\ j.kind = k.kind /\ j.via = k.via /\ j.doc = d
            /\ j.list = k.list /\ j.fields = k.fields /\ j.phase = "ids"
            /\ IF Exists(w) THEN j.seen = Inserted(doc[d].issued, k.list)
                            ELSE j.seen = {}
  BY PutSignersJob DEF Whole
<1>2. /\ DocsFine
      /\ Exists(w) => Numbered(Inserted(doc[d].issued, k.list), k.list,
                               doc'[d].issued)
  BY DocsSigners
<1>3. FieldsOf(k) /\ Shaped(k)
  BY DEF Whole, Shape, FieldInv
<1>4. d \in Docs /\ doc[d].status # "none"
  BY <1>1, <1>3 DEF Shaped, AtDoc
<1>5. doc'[d].status # "none"
  BY <1>2, <1>4 DEF DocsFine
<1>6. CASE j = NoJob
  BY <1>1, <1>2, <1>6, NoJobFine
<1>7. CASE /\ k.kind = "use" /\ j.kind = k.kind /\ j.via = k.via /\ j.doc = d
           /\ j.list = k.list /\ j.fields = k.fields /\ j.phase = "ids"
           /\ IF Exists(w) THEN j.seen = Inserted(doc[d].issued, k.list)
                           ELSE j.seen = {}
  <2> HIDE DEF j
  <2>1. \A f \in j.fields : InRoles(j.list, f)
    BY <1>1, <1>3, <1>7 DEF FieldsOf, Filling
  <2>2. InPlace(j)
    BY <1>7 DEF InPlace
  <2>3. j.seen # {} => Numbered(j.seen, j.list, doc'[j.doc].issued)
    BY <1>2, <1>7
  <2>4. FieldsNext(j)
    BY <1>7, <2>1, <2>3 DEF FieldsNext, Filling
  <2>5. JobFine(j)
    BY <1>4, <1>5, <1>7, <2>2, <2>4, MadeFine
  <2> QED
    BY <1>1, <1>2, <2>5 DEF j
<1> QED
  BY <1>1, <1>6, <1>7

-----------------------------------------------------------------------------
(* The whole state                                                         *)

\* What a step leaves behind, but for the bounds.
NextFine ==
  /\ DocsFine /\ KeysFine
  /\ job' \in [Workers -> Job]
  /\ \A v \in Workers : JobFine(job'[v])
  /\ template' \in Template
  /\ \A f \in template'.fields : InRoles(template'.roles, f)

LEMMA WholeAfter ==
  ASSUME Whole, NextFine, purge' \in Purge, requests' \in Nat, faults' \in Nat
  PROVE  Whole'
<1>1. TypeInv'
  BY DEF NextFine, DocsFine, KeysFine, TypeInv
<1>2. \A d \in Docs : RowsAreIssued(doc[d])'
  BY DEF NextFine, DocsFine, RowsAreIssued
<1>3. \A v \in Workers : Shaped(job[v])'
  BY DEF NextFine, JobFine, ShapedNext, Shaped, InPlace, AtDoc
<1>4. \A d \in Docs : \A f \in doc'[d].fields : Good(doc[d].issued, f)'
  BY DEF NextFine, DocsFine, Good, Meant
<1>5. \A f \in template'.fields : InRoles(template.roles, f)'
  BY DEF NextFine, InRoles, Meant
<1>6. \A v \in Workers : FieldsOf(job[v])'
  BY DEF NextFine, JobFine, FieldsNext, FieldsOf, InRoles, Good, Meant, Numbered
<1> QED
  BY <1>1, <1>2, <1>3, <1>4, <1>5, <1>6 DEF Whole, Shape, FieldInv

LEMMA OthersFine ==
  ASSUME Whole, DocsFine, KeysFine, NEW w \in Workers, LeavesOthers(w),
         JobFine(job'[w]), template' = template
  PROVE  NextFine
<1>1. \A v \in Workers : Alike(job[v], job[v])
  BY DEF Alike, Keeps
<1>2. \A v \in Workers : JobFine(job[v])
  BY <1>1, AlikeFine
<1>3. \A v \in Workers : JobFine(job'[v])
  BY <1>2 DEF LeavesOthers
<1> QED
  BY <1>3 DEF NextFine, LeavesOthers, Whole, Shape, TypeInv, FieldInv

LEMMA SettlesFine ==
  ASSUME Whole, DocsFine, KeysFine, NEW w \in Workers, NEW d, Settles(w, d),
         template' = template
  PROVE  NextFine
<1>1. JobFine(job'[w])
  BY NoJobFine DEF Settles
<1>2. \A v \in Workers : v # w => JobFine(job'[v])
  BY AlikeFine DEF Settles
<1>3. \A v \in Workers : JobFine(job'[v])
  BY <1>1, <1>2
<1> QED
  BY <1>3 DEF NextFine, Settles, Whole, Shape, TypeInv, FieldInv

LEMMA DoneFine ==
  ASSUME Whole, DocsFine, KeysFine, NEW w \in Workers, Done(w)
  PROVE  LeavesOthers(w) /\ JobFine(job'[w])
<1>1. LeavesOthers(w) /\ job'[w] = NoJob
  BY DoneJob DEF Whole, Shape, LeavesOthers
<1> QED
  BY <1>1, NoJobFine

LEMMA SameKeys ==
  ASSUME Whole, acct' = acct
  PROVE  KeysFine
<1>1. acct \in Account /\ acct.issued \in Nat
  BY DEF Whole, Shape, TypeInv, Account
<1> QED
  BY <1>1 DEF KeysFine

\* The steps that write neither a document nor the template.
ReadsOnly(w) ==
  \/ Authenticate(w) \/ Resolve(w) \/ Own(w) \/ Paid(w) \/ KeepMessage(w)
  \/ ReadRow(w) \/ AskSigners(w) \/ AskFields(w) \/ Freeze(w)

LEMMA ReadsOnlyJob ==
  ASSUME Shape, NEW w \in Workers, ReadsOnly(w)
  PROVE  Quiet(w) /\ UNCHANGED <<acct, doc, template, purge, requests, faults>>
<1>1. CASE Authenticate(w)
  BY <1>1, AuthenticateJob DEF Authenticate
<1>2. CASE Resolve(w)
  BY <1>2, ResolveJob DEF Resolve
<1>3. CASE Own(w)
  BY <1>3, OwnJob DEF Own
<1>4. CASE Paid(w)
  BY <1>4, PaidJob DEF Paid
<1>5. CASE KeepMessage(w)
  BY <1>5, KeepMessageJob DEF KeepMessage
<1>6. CASE ReadRow(w)
  BY <1>6, ReadRowJob DEF ReadRow
<1>7. CASE AskSigners(w)
  BY <1>7, AskSignersJob DEF AskSigners
<1>8. CASE AskFields(w)
  BY <1>8, AskFieldsJob DEF AskFields
<1>9. CASE Freeze(w)
  BY <1>9, FreezeJob DEF Freeze
<1> QED
  BY <1>1, <1>2, <1>3, <1>4, <1>5, <1>6, <1>7, <1>8, <1>9 DEF ReadsOnly

LEMMA ReadsOnlyFine ==
  ASSUME Whole, NEW w \in Workers, ReadsOnly(w)
  PROVE  NextFine
<1>1. Quiet(w) /\ UNCHANGED <<acct, doc, template, purge, requests, faults>>
  BY ReadsOnlyJob DEF Whole
<1>2. DocsFine /\ KeysFine
  BY <1>1, DocsUnchanged, SameKeys
<1>3. LeavesOthers(w) /\ JobFine(job'[w])
  BY <1>1, <1>2, QuietFine DEF Quiet, LeavesOthers
<1> QED
  BY <1>1, <1>2, <1>3, OthersFine

LEMMA GoesOnFine ==
  ASSUME Whole, NEW w \in Workers, PutMessage(w) \/ Unlink(w)
  PROVE  NextFine
<1>s. Shape /\ InPlace(job[w])
  BY DEF Whole, Shape, Shaped
<1>k. template' = template /\ KeysFine
  BY SameKeys DEF PutMessage, Unlink
<1>1. CASE PutMessage(w)
  <2>1. DocsFine
    BY <1>s, <1>1, MessageRow, DocsAlone
  <2>2. job[w].kind = "send" /\ Goto(w, "row")
    BY <1>s, <1>1 DEF PutMessage, At, InPlace
  <2>3. PICK x \in Phases : x = "row"
    BY DEF Phases
  <2>4. Goto(w, x)
    BY <2>2, <2>3
  <2>5. LeavesOthers(w) /\ JobFine(job'[w])
    BY <1>k, <2>1, <2>2, <2>3, <2>4, GotoFine
  <2> QED
    BY <1>k, <2>1, <2>5, OthersFine
<1>2. CASE Unlink(w)
  <2>1. DocsFine
    BY <1>s, <1>2, UnlinkRow, DocsAlone
  <2>2. job[w].kind = "delete" /\ Goto(w, "remove")
    BY <1>s, <1>2 DEF Unlink, At, InPlace
  <2>3. PICK x \in Phases : x = "remove"
    BY DEF Phases
  <2>4. Goto(w, x)
    BY <2>2, <2>3
  <2>5. LeavesOthers(w) /\ JobFine(job'[w])
    BY <1>k, <2>1, <2>2, <2>3, <2>4, GotoFine
  <2> QED
    BY <1>k, <2>1, <2>5, OthersFine
<1> QED
  BY <1>1, <1>2

LEMMA ReadingFine ==
  ASSUME Whole, NEW w \in Workers,
         ReadRows(w) \/ ReadLayout(w) \/ ReadTemplate(w) \/ ReadIds(w)
  PROVE  NextFine
<1>1. UNCHANGED <<acct, doc, template>>
  BY DEF ReadRows, ReadLayout, ReadTemplate, ReadIds
<1>2. DocsFine /\ KeysFine
  BY <1>1, DocsUnchanged, SameKeys
<1>3. LeavesOthers(w) /\ JobFine(job'[w])
  BY <1>1, <1>2, ReadRowsFine, ReadLayoutFine, ReadTemplateFine, ReadIdsFine
<1> QED
  BY <1>1, <1>2, <1>3, OthersFine

LEMMA WritingFine ==
  ASSUME Whole, NEW w \in Workers,
         \/ Create(w) \/ PutSigners(w) \/ PutFields(w) \/ PutMode(w)
         \/ RemoveRows(w)
  PROVE  NextFine
<1>1. template' = template /\ acct' = acct
  BY DEF Create, PutSigners, PutFields, PutMode, RemoveRows
<1>2. KeysFine
  BY <1>1, SameKeys
<1>3. CASE Create(w)
  BY <1>1, <1>2, <1>3, CreateFine, OthersFine
<1>4. CASE PutSigners(w)
  BY <1>1, <1>2, <1>4, PutSignersFine, OthersFine
<1>5. ASSUME PutFields(w) \/ PutMode(w) \/ RemoveRows(w)
      PROVE  NextFine
  <2>1. DocsFine
    BY <1>5, DocsFields, DocsMode, DocsRemoved
  <2>2. Done(w)
    BY <1>5 DEF PutFields, PutMode, RemoveRows
  <2>3. LeavesOthers(w) /\ JobFine(job'[w])
    BY <1>2, <2>1, <2>2, DoneFine
  <2> QED
    BY <1>1, <1>2, <2>1, <2>3, OthersFine
<1> QED
  BY <1>3, <1>4, <1>5

LEMMA SettlingFine ==
  ASSUME Whole, NEW w \in Workers, SendCommit(w) \/ VoidRow(w)
  PROVE  NextFine
<1>1. template' = template /\ acct' = acct
  BY DEF SendCommit, VoidRow
<1>2. DocsFine /\ KeysFine
  BY <1>1, SameKeys, DocsSent, DocsVoided
<1>3. job' = Settled(w, job[w].doc)
  BY DEF SendCommit, VoidRow
<1>4. Settles(w, job[w].doc)
  BY <1>3, SettledJob DEF Whole, Shape
<1> QED
  BY <1>1, <1>2, <1>4, SettlesFine

LEMMA InsertFine ==
  ASSUME Whole, NEW w \in Workers, Insert(w)
  PROVE  NextFine
<1>1. doc' = doc /\ acct' = acct /\ Done(w)
  BY DEF Insert
<1>2. DocsFine /\ KeysFine
  BY <1>1, DocsUnchanged, SameKeys
<1>3. job[w].phase = "insert" /\ job[w].kind \in {"template", "explicit"}
  BY DEF Insert, At, Whole, Shape, Shaped, InPlace
<1>4. FieldsOf(job[w])
  BY DEF Whole, FieldInv
<1>5. IF job[w].kind = "explicit"
      THEN \A f \in job[w].fields : InRoles(job[w].list, f)
      ELSE \A f \in job[w].fields : Good(doc[job[w].doc].issued, f)
  BY <1>3, <1>4 DEF FieldsOf
<1>6. /\ template' \in Template
      /\ \A f \in template'.fields : InRoles(template'.roles, f)
  BY <1>5, InsertTemplate DEF Whole
<1>7. LeavesOthers(w) /\ JobFine(job'[w])
  BY <1>1, <1>2, DoneFine
<1>8. \A v \in Workers : JobFine(job'[v])
  <2>1. \A v \in Workers : JobFine(job[v])
    BY <1>2, AlikeFine DEF Alike, Keeps
  <2> QED
    BY <1>7, <2>1 DEF LeavesOthers
<1> QED
  BY <1>2, <1>6, <1>7, <1>8 DEF NextFine, LeavesOthers

LEMMA IssueFine ==
  ASSUME Whole, NEW w \in Workers, IssueKey(w)
  PROVE  NextFine
<1>1. UNCHANGED <<doc, template>> /\ Done(w)
  BY DEF IssueKey
<1>2. acct \in Account /\ acct.issued \in Nat /\ acct.keys \in SUBSET Nat
  BY DEF Whole, Shape, TypeInv, Account
<1> DEFINE n == acct.issued + 1
           keys == acct.keys \cup {n}
<1>3. n \in Nat /\ acct.issued <= n
  BY <1>2
<1>4. keys \in SUBSET Nat
  BY <1>2, <1>3
<1>5. acct' = [acct EXCEPT !.issued = n, !.keys = keys]
  BY DEF IssueKey
<1> HIDE DEF n, keys
<1>6. acct' \in Account /\ acct'.issued = n
  BY <1>2, <1>3, <1>4, <1>5 DEF Account
<1>7. DocsFine /\ KeysFine
  BY <1>1, <1>3, <1>6, DocsUnchanged DEF KeysFine
<1>8. LeavesOthers(w) /\ JobFine(job'[w])
  BY <1>1, <1>7, DoneFine
<1> QED
  BY <1>1, <1>7, <1>8, OthersFine

\* Whatever is withdrawn, and whoever ends by it, the requests are as sound as
\* they were.
LEMMA WithdrawnFine ==
  ASSUME Whole, DocsFine, KeysFine, template' = template,
         job' \in [Workers -> Job],
         \A v \in Workers : Alike(job[v], job'[v]) \/ job'[v] = NoJob
  PROVE  NextFine
<1>1. \A v \in Workers : JobFine(job'[v])
  BY AlikeFine, NoJobFine
<1> QED
  BY <1>1 DEF NextFine, Whole, Shape, TypeInv, FieldInv

LEMMA RevokedJob ==
  ASSUME TypeInv, NEW w \in Workers, RevokeKey(w)
  PROVE  /\ job[w].phase = "key" /\ job[w].kind = "revoke"
         /\ UNCHANGED <<doc, template, purge, requests, faults>>
         /\ job' \in [Workers -> Job]
         /\ acct' \in Account
         /\ \E k \in Nat :
              /\ k >= 1
              /\ acct'.status = acct.status /\ acct'.cookie = acct.cookie
              /\ acct'.issued = acct.issued /\ acct'.keys = acct.keys \ {k}
              /\ job'[w] = NoJob
              /\ \A v \in Workers : v # w =>
                   /\ Alike(job[v], job'[v]) /\ job'[v].late = job[v].late
                   /\ job'[v].withdrawn =
                        job[v].withdrawn \cup Taken(v, {"credential"}, k)
<1>1. PICK k \in 1 .. acct.issued :
        /\ acct' = [acct EXCEPT !.keys = @ \ {k}]
        /\ job' = [Withdrawn({"credential"}, k) EXCEPT ![w] = NoJob]
  BY DEF RevokeKey
<1>2. acct \in Account /\ acct.issued \in Nat /\ acct.keys \in SUBSET Nat
  BY DEF TypeInv, Account
<1>3. k \in Nat /\ k >= 1
  BY <1>2
<1> DEFINE keys == acct.keys \ {k}
<1>4. keys \in SUBSET Nat /\ acct' = [acct EXCEPT !.keys = keys]
  BY <1>1, <1>2
<1>5. keys = acct.keys \ {k}
  OBVIOUS
<1> HIDE DEF keys
<1>6. /\ acct' \in Account
      /\ acct'.status = acct.status /\ acct'.cookie = acct.cookie
      /\ acct'.issued = acct.issued /\ acct'.keys = keys
  BY <1>2, <1>4 DEF Account
<1> DEFINE taken == Withdrawn({"credential"}, k)
<1>7. /\ taken \in [Workers -> Job]
      /\ \A v \in Workers :
           /\ Alike(job[v], taken[v]) /\ taken[v].late = job[v].late
           /\ taken[v].withdrawn =
                job[v].withdrawn \cup Taken(v, {"credential"}, k)
  BY WithdrawnJob
<1>8. job' = [taken EXCEPT ![w] = NoJob]
  BY <1>1
<1> HIDE DEF taken
<1>9. /\ job' \in [Workers -> Job] /\ job'[w] = NoJob
      /\ \A v \in Workers : v # w => job'[v] = taken[v]
  BY <1>7, <1>8, NoJobType
<1> QED
  BY <1>3, <1>5, <1>6, <1>7, <1>9 DEF RevokeKey, At, Kind

\* The operator suspends the account, or removes it.
LEMMA EndedJob ==
  ASSUME TypeInv, Suspend \/ PurgeAccount
  PROVE  /\ UNCHANGED <<doc, template, faults>>
         /\ requests' \in Nat
         /\ acct' \in Account
         /\ acct'.status = IF Suspend THEN "suspended" ELSE "gone"
         /\ acct'.cookie = FALSE
         /\ acct'.issued = acct.issued /\ acct'.keys = acct.keys
         /\ job' \in [Workers -> Job]
         /\ \A v \in Workers :
              /\ Alike(job[v], job'[v]) /\ job'[v].late = job[v].late
              /\ job'[v].withdrawn =
                   job[v].withdrawn \cup
                     Taken(v, {"account", "credential"}, 0)
<1>1. acct \in Account /\ requests \in Nat
  BY DEF TypeInv
<1>2. requests' \in {requests, requests + 1}
  BY DEF Suspend, PurgeAccount, Act
<1>3. requests' \in Nat
  BY <1>1, <1>2
<1>4. job' = Withdrawn({"account", "credential"}, 0)
  BY DEF Suspend, PurgeAccount
<1>5. /\ job' \in [Workers -> Job]
      /\ \A v \in Workers :
           /\ Alike(job[v], job'[v]) /\ job'[v].late = job[v].late
           /\ job'[v].withdrawn =
                job[v].withdrawn \cup Taken(v, {"account", "credential"}, 0)
  <2>1. PICK what \in SUBSET {"account", "credential"} :
          what = {"account", "credential"}
    OBVIOUS
  <2>2. job' = Withdrawn(what, 0)
    BY <1>4, <2>1
  <2>3. /\ job' \in [Workers -> Job]
        /\ \A v \in Workers :
             /\ Alike(job[v], job'[v]) /\ job'[v].late = job[v].late
             /\ job'[v].withdrawn = job[v].withdrawn \cup Taken(v, what, 0)
    BY <2>2, WithdrawnJob
  <2> QED
    BY <2>1, <2>3
<1>6. Suspend => acct' = [acct EXCEPT !.status = "suspended", !.cookie = FALSE]
  BY DEF Suspend
<1>7. ~Suspend => acct' = [acct EXCEPT !.status = "gone", !.cookie = FALSE]
  BY DEF PurgeAccount
<1>8. /\ acct' \in Account
      /\ acct'.status = IF Suspend THEN "suspended" ELSE "gone"
      /\ acct'.cookie = FALSE
      /\ acct'.issued = acct.issued /\ acct'.keys = acct.keys
  <2>1. CASE Suspend
    BY <1>1, <1>6, <2>1 DEF Account
  <2>2. CASE ~Suspend
    BY <1>1, <1>7, <2>2 DEF Account
  <2> QED
    BY <2>1, <2>2
<1> QED
  BY <1>3, <1>5, <1>8 DEF Suspend, PurgeAccount

LEMMA CrashedJob ==
  ASSUME TypeInv, NEW w \in Workers, Crash(w)
  PROVE  /\ UNCHANGED <<acct, doc, template, requests>> /\ faults' \in Nat
         /\ purge' \in {purge, NoPurge}
         /\ LeavesOthers(w)
         /\ job'[w] \in {job[w], NoJob}
<1>1. faults' = faults + 1 /\ faults \in Nat
  BY DEF Crash, TypeInv
<1>2. faults' \in Nat
  BY <1>1
<1>3. CASE Done(w) /\ UNCHANGED purge
  BY <1>2, <1>3, DoneJob DEF Crash, LeavesOthers
<1>4. CASE purge' = NoPurge /\ UNCHANGED job
  BY <1>2, <1>4 DEF Crash, LeavesOthers, TypeInv
<1> QED
  BY <1>3, <1>4 DEF Crash

LEMMA PurgeTypes ==
  ASSUME TypeInv
  PROVE  /\ NoPurge \in Purge
         /\ PurgeRead => purge' \in Purge
         /\ PurgeDocs => purge' \in Purge
<1>1. NoPurge \in Purge
  BY DEF NoPurge, Purge
<1>2. PurgeRead => purge' \in Purge
  <2> DEFINE ids == {d \in Docs : doc[d].status \in Known}
  <2>1. ids \in SUBSET Docs
    OBVIOUS
  <2>2. PurgeRead => purge' = [at |-> "docs", ids |-> ids]
    BY DEF PurgeRead
  <2> HIDE DEF ids
  <2> QED
    BY <2>1, <2>2 DEF Purge
<1>3. PurgeDocs => purge' \in Purge
  BY DEF PurgeDocs, Purge, TypeInv
<1> QED
  BY <1>1, <1>2, <1>3

LEMMA StepFine ==
  ASSUME Whole, NEW w \in Workers, Step(w)
  PROVE  NextFine
<1>1. CASE \/ Authenticate(w) \/ Resolve(w) \/ Own(w) \/ Paid(w)
           \/ KeepMessage(w) \/ ReadRow(w) \/ AskSigners(w) \/ AskFields(w)
           \/ Freeze(w)
  BY <1>1, ReadsOnlyFine DEF ReadsOnly
<1>2. CASE PutMessage(w) \/ Unlink(w)
  BY <1>2, GoesOnFine
<1>3. CASE ReadRows(w) \/ ReadLayout(w) \/ ReadTemplate(w) \/ ReadIds(w)
  BY <1>3, ReadingFine
<1>4. CASE \/ Create(w) \/ PutSigners(w) \/ PutFields(w) \/ PutMode(w)
           \/ RemoveRows(w)
  BY <1>4, WritingFine
<1>5. CASE SendCommit(w) \/ VoidRow(w)
  BY <1>5, SettlingFine
<1>6. CASE Insert(w)
  BY <1>6, InsertFine
<1>7. CASE IssueKey(w)
  BY <1>7, IssueFine
<1>8. CASE RevokeKey(w)
  <2>1. /\ UNCHANGED <<doc, template>>
        /\ job' \in [Workers -> Job]
        /\ acct' \in Account /\ acct'.issued = acct.issued
        /\ \A v \in Workers : Alike(job[v], job'[v]) \/ job'[v] = NoJob
    BY <1>8, RevokedJob DEF Whole, Shape
  <2>2. acct.issued \in Nat
    BY DEF Whole, Shape, TypeInv, Account
  <2>3. DocsFine /\ KeysFine
    BY <2>1, <2>2, DocsUnchanged DEF KeysFine
  <2> QED
    BY <2>1, <2>3, WithdrawnFine
<1> QED
  BY <1>1, <1>2, <1>3, <1>4, <1>5, <1>6, <1>7, <1>8 DEF Step

LEMMA StepBounds ==
  ASSUME TypeInv, NEW w \in Workers, Step(w)
  PROVE  UNCHANGED <<purge, requests, faults>>
BY DEF Step, Authenticate, Resolve, Own, Paid, PutMessage, KeepMessage, ReadRow,
       ReadRows, ReadLayout, Create, AskSigners, PutSigners, AskFields,
       PutFields, PutMode, Unlink, RemoveRows, Freeze, SendCommit, VoidRow,
       Insert, ReadTemplate, ReadIds, IssueKey, RevokeKey

\* What the operator does.
LEMMA OperatorFine ==
  ASSUME Whole,
         Suspend \/ Reinstate \/ PurgeRead \/ PurgeDocs \/ PurgeAccount
  PROVE  /\ NextFine
         /\ purge' \in Purge /\ requests' \in Nat /\ faults' \in Nat
<1>t. /\ TypeInv /\ acct \in Account /\ acct.issued \in Nat
      /\ purge \in Purge /\ requests \in Nat /\ faults \in Nat
      /\ job \in [Workers -> Job]
  BY DEF Whole, Shape, TypeInv, Account
<1>r. requests + 1 \in Nat
  BY <1>t
<1>a. \A v \in Workers : Alike(job[v], job[v])
  BY DEF Alike, Keeps
<1>1. CASE Suspend \/ PurgeAccount
  <2>1. /\ UNCHANGED <<doc, template, faults>>
        /\ requests' \in Nat
        /\ acct' \in Account /\ acct'.issued = acct.issued
        /\ job' \in [Workers -> Job]
        /\ \A v \in Workers : Alike(job[v], job'[v])
    BY <1>1, <1>t, EndedJob
  <2>2. DocsFine /\ KeysFine
    BY <1>t, <2>1, DocsUnchanged DEF KeysFine
  <2>3. purge' \in Purge
    BY <1>1, <1>t, PurgeTypes DEF Suspend, PurgeAccount
  <2> QED
    BY <1>t, <2>1, <2>2, <2>3, WithdrawnFine
<1>2. CASE Reinstate
  <2>1. acct' = [acct EXCEPT !.status = "active"]
    BY <1>2 DEF Reinstate
  <2>2. acct' \in Account /\ acct'.issued = acct.issued
    BY <1>t, <2>1 DEF Account
  <2>3. /\ UNCHANGED <<doc, template, job, purge, faults>>
        /\ requests' = requests + 1
    BY <1>2 DEF Reinstate, Act
  <2>4. DocsFine /\ KeysFine
    BY <1>t, <2>2, <2>3, DocsUnchanged DEF KeysFine
  <2> QED
    BY <1>t, <1>r, <1>a, <2>3, <2>4, WithdrawnFine
<1>3. CASE PurgeRead
  <2>1. /\ UNCHANGED <<acct, doc, template, job, faults>>
        /\ requests' = requests + 1
    BY <1>3 DEF PurgeRead, Act
  <2>2. DocsFine /\ KeysFine
    BY <2>1, DocsUnchanged, SameKeys
  <2>3. purge' \in Purge
    BY <1>3, <1>t, PurgeTypes
  <2> QED
    BY <1>t, <1>r, <1>a, <2>1, <2>2, <2>3, WithdrawnFine
<1>4. CASE PurgeDocs
  <2>1. UNCHANGED <<acct, template, job, requests, faults>>
    BY <1>4 DEF PurgeDocs
  <2>2. DocsFine /\ KeysFine
    BY <1>4, <2>1, DocsPurged, SameKeys
  <2>3. purge' \in Purge
    BY <1>4, <1>t, PurgeTypes
  <2> QED
    BY <1>t, <1>a, <2>1, <2>2, <2>3, WithdrawnFine
<1> QED
  BY <1>1, <1>2, <1>3, <1>4

LEMMA FineNext ==
  ASSUME Whole, [Next]_vars
  PROVE  /\ NextFine
         /\ purge' \in Purge /\ requests' \in Nat /\ faults' \in Nat
<1>t. TypeInv /\ purge \in Purge /\ requests \in Nat /\ faults \in Nat
  BY DEF Whole, Shape, TypeInv
<1> DEFINE Fine ==
      /\ NextFine
      /\ purge' \in Purge /\ requests' \in Nat /\ faults' \in Nat
<1>1. ASSUME NEW w \in Workers, Request(w)
      PROVE  Fine
  <2>1. /\ UNCHANGED <<acct, doc, template, purge, faults>> /\ requests' \in Nat
    BY <1>1, <1>t, RequestJob
  <2>2. DocsFine /\ KeysFine
    BY <2>1, DocsUnchanged, SameKeys
  <2>3. NextFine
    BY <1>1, <2>1, <2>2, RequestFine, OthersFine
  <2> QED
    BY <1>t, <2>1, <2>3
<1>2. ASSUME NEW w \in Workers, Step(w)
      PROVE  Fine
  BY <1>2, <1>t, StepFine, StepBounds
<1>3. ASSUME NEW w \in Workers, Crash(w)
      PROVE  Fine
  <2>1. /\ UNCHANGED <<acct, doc, template, requests>> /\ faults' \in Nat
        /\ purge' \in {purge, NoPurge}
        /\ LeavesOthers(w)
        /\ job'[w] \in {job[w], NoJob}
    BY <1>3, <1>t, CrashedJob
  <2>2. DocsFine /\ KeysFine
    BY <2>1, DocsUnchanged, SameKeys
  <2>3. NextFine
    BY <2>1, <2>2, WithdrawnFine DEF LeavesOthers, Alike, Keeps
  <2>4. purge' \in Purge
    BY <1>t, <2>1, PurgeTypes
  <2> QED
    BY <1>t, <2>1, <2>3, <2>4
<1>4. ASSUME Suspend \/ Reinstate \/ PurgeRead \/ PurgeDocs \/ PurgeAccount
      PROVE  Fine
  BY <1>4, OperatorFine
<1>5. ASSUME UNCHANGED vars
      PROVE  Fine
  <2>1. UNCHANGED <<acct, doc, template, job, purge, requests, faults>>
    BY <1>5 DEF vars
  <2>2. DocsFine /\ KeysFine
    BY <2>1, DocsUnchanged, SameKeys
  <2>3. NextFine
    BY <2>1, <2>2, WithdrawnFine DEF Alike, Keeps, Whole, Shape, TypeInv
  <2> QED
    BY <1>t, <2>1, <2>3
<1> QED
  BY <1>1, <1>2, <1>3, <1>4, <1>5 DEF Next

LEMMA WholeNext ==
  ASSUME Whole, [Next]_vars
  PROVE  Whole'
BY FineNext, WholeAfter

LEMMA FirstDocFine ==
  /\ FirstDoc \in Agreement
  /\ FirstDoc.status = "draft" /\ RowsAreIssued(FirstDoc)
  /\ \A f \in FirstDoc.fields : Good(FirstDoc.issued, f)
<1> DEFINE list == FirstSigners
           old == [NoDoc EXCEPT !.status = "draft", !.file = TRUE]
           given == <<>> \o [i \in DOMAIN list |-> list[i].party]
           rows == Inserted(<<>>, list)
           n == Len(list)
           f == [signer |-> n, loose |-> FALSE, who |-> list[n].party]
<1>1. list \in Seq(Role) /\ list # <<>>
  BY DraftApiAssumption DEF DraftApiAssumption
<1>2. n \in Nat /\ n >= 1 /\ n \in DOMAIN list
  BY <1>1
<1>3. list[n].party \in Parties
  <2>1. list[n] \in Role
    BY <1>1, <1>2
  <2> QED
    BY <2>1 DEF Role
<1>4. <<>> \in Seq(Parties) /\ Len(<<>>) = 0
  OBVIOUS
<1>5. /\ given \in Seq(Parties)
      /\ Len(given) = Len(<<>>) + Len(list)
      /\ \A i \in DOMAIN list : given[Len(<<>>) + i] = list[i].party
      /\ rows \in SUBSET SignerRow
      /\ IsFiniteSet(rows)
      /\ \A s \in rows : s.id \in 1 .. Len(given)
  <2>1. PICK none \in Seq(Parties) : none = <<>>
    BY <1>4
  <2>2. /\ none \o [i \in DOMAIN list |-> list[i].party] \in Seq(Parties)
        /\ Len(none \o [i \in DOMAIN list |-> list[i].party])
             = Len(none) + Len(list)
        /\ \A i \in DOMAIN list :
             (none \o [j \in DOMAIN list |-> list[j].party])[Len(none) + i]
               = list[i].party
        /\ Inserted(none, list) \in SUBSET SignerRow
        /\ IsFiniteSet(Inserted(none, list))
        /\ \A s \in Inserted(none, list) :
             s.id \in 1 .. Len(none \o [i \in DOMAIN list |-> list[i].party])
    BY <1>1, InsertedRows
  <2> QED
    BY <2>1, <2>2
<1>6. given \in Seq(Parties) /\ Len(given) = n /\ given[n] = list[n].party
  BY <1>2, <1>4, <1>5
<1>7. NoDoc \in Agreement /\ NoDoc.issued = <<>>
  BY <1>4 DEF NoDoc, Agreement
<1>8. old \in Agreement /\ old.status = "draft" /\ old.issued = <<>>
  BY <1>7 DEF Agreement
<1>9. WithSigners(old, list) =
        [old EXCEPT !.signers = rows, !.issued = given]
  BY <1>8 DEF WithSigners
<1>10. FirstDoc = [WithSigners(old, list) EXCEPT !.fields = {f}]
  BY DEF FirstDoc
<1>11. f \in FieldRow
  BY <1>2, <1>3 DEF FieldRow
<1>12. Good(given, f)
  BY <1>2, <1>6 DEF Good, Meant
<1> DEFINE fields == {f}
<1>13. /\ fields \in SUBSET FieldRow
       /\ \A x \in fields : Good(given, x)
  BY <1>11, <1>12
<1> HIDE DEF given, rows, fields, old
<1>14. fields = {f}
  BY DEF fields
<1> HIDE DEF f, n
<1>15. /\ FirstDoc \in Agreement
       /\ FirstDoc.status = "draft" /\ FirstDoc.signers = rows
       /\ FirstDoc.fields = fields /\ FirstDoc.issued = given
  <2>1. FirstDoc = [[old EXCEPT !.signers = rows, !.issued = given]
                      EXCEPT !.fields = fields]
    BY <1>9, <1>10, <1>14
  <2> QED
    BY <1>5, <1>8, <1>13, <2>1 DEF Agreement
<1>16. RowsAreIssued(FirstDoc)
  BY <1>5, <1>15 DEF RowsAreIssued
<1> QED
  BY <1>13, <1>15, <1>16

LEMMA WholeInit ==
  ASSUME Init
  PROVE  Whole
<1>1. acct \in Account /\ acct.issued = 1
  <2>1. {1} \in SUBSET Nat /\ 1 \in Nat
    OBVIOUS
  <2> QED
    BY <2>1 DEF Init, Account
<1>2. NoDoc \in Agreement /\ RowsAreIssued(NoDoc) /\ NoDoc.fields = {}
  <2>1. <<>> \in Seq(Parties) /\ IsFiniteSet({})
    BY FS_EmptySet
  <2> QED
    BY <2>1 DEF NoDoc, Agreement, RowsAreIssued
<1>3. /\ doc \in [Docs -> Agreement]
      /\ \A d \in Docs : doc[d] \in {FirstDoc, NoDoc}
  BY <1>2, FirstDocFine DEF Init
<1>4. NoTemplate \in Template /\ NoTemplate.fields = {}
  <2>1. <<>> \in Seq(Role)
    OBVIOUS
  <2> QED
    BY <2>1 DEF NoTemplate, Template
<1>5. job \in [Workers -> Job] /\ \A w \in Workers : job[w] = NoJob
  BY NoJobType DEF Init
<1>6. purge \in Purge /\ requests \in Nat /\ faults \in Nat
  BY DEF Init, NoPurge, Purge
<1>7. template = NoTemplate
  BY DEF Init
<1>8. TypeInv
  BY <1>1, <1>3, <1>4, <1>5, <1>6, <1>7 DEF TypeInv
<1>9. Shaped(NoJob) /\ FieldsOf(NoJob)
  <2>1. /\ NoJob.kind = "create" /\ NoJob.phase = "idle" /\ NoJob.via = 0
        /\ NoJob.fields = {}
    BY DEF NoJob
  <2>2. Shaped(NoJob)
    BY <1>1, <2>1 DEF Shaped, InPlace, AtDoc, Laid
  <2> QED
    BY <2>1, <2>2 DEF FieldsOf
<1>10. Shape
  BY <1>2, <1>3, <1>5, <1>8, <1>9, FirstDocFine DEF Shape
<1>11. FieldInv
  BY <1>2, <1>3, <1>4, <1>5, <1>7, <1>9, FirstDocFine DEF FieldInv
<1> QED
  BY <1>10, <1>11 DEF Whole

LEMMA WholeAlways == Spec => []Whole
<1>1. Init => Whole
  BY WholeInit
<1>2. Whole /\ [Next]_vars => Whole'
  BY WholeNext
<1> QED
  BY <1>1, <1>2, PTL DEF Spec

LEMMA WholeIsTyped ==
  ASSUME Whole
  PROVE  TypeOK
<1>1. /\ TypeInv /\ acct \in Account /\ purge \in Purge
      /\ requests \in Nat /\ faults \in Nat
  BY DEF Whole, Shape, TypeInv
<1>2. ASSUME NEW d \in Docs
      PROVE  /\ DOMAIN doc[d] = {"status", "file", "mode", "message", "signers",
                                 "fields", "issued", "crossed", "stray"}
             /\ doc[d].status \in {"none", "draft", "out", "void", "gone"}
             /\ doc[d].mode \in {"parallel", "sequential"}
             /\ doc[d].message \in {"first", "other"}
             /\ \A s \in doc[d].signers :
                  s \in SignerRow /\ s.id \in 1 .. Len(doc[d].issued)
             /\ \A f \in doc[d].fields : f \in FieldRow
             /\ {doc[d].file, doc[d].crossed, doc[d].stray} \subseteq BOOLEAN
  <2>1. doc[d] \in Agreement /\ RowsAreIssued(doc[d])
    BY <1>1 DEF TypeInv, Whole, Shape
  <2> QED
    BY <2>1 DEF Agreement, RowsAreIssued
<1>3. template.roles \in Seq(Role) /\ \A f \in template.fields : f \in FieldRow
  BY <1>1 DEF TypeInv, Template
<1>4. ASSUME NEW w \in Workers
      PROVE  /\ job[w].kind \in Kinds /\ job[w].phase \in Phases
             /\ job[w].via \in 0 .. acct.issued
             /\ job[w].doc \in Docs \cup {"none"}
             /\ job[w].ask \in Ask /\ job[w].list \in Seq(Role)
             /\ \A s \in job[w].seen : s \in SignerRow
             /\ \A f \in job[w].fields : f \in FieldRow
             /\ job[w].withdrawn \subseteq {"account", "credential"}
  <2>1. job[w] \in Job /\ job[w].via <= acct.issued
    BY <1>1 DEF TypeInv, Whole, Shape, Shaped
  <2>2. acct.issued \in Nat
    BY <1>1 DEF Account
  <2> QED
    BY <2>1, <2>2 DEF Job
<1> QED
  BY <1>1, <1>2, <1>3, <1>4 DEF TypeOK

\* Every agreement, request and template stays of its type: in particular no
\* signer row has an id its agreement has not given out, and no request comes
\* with a key that was never issued.
THEOREM TypeCorrect == Spec => []TypeOK
<1>1. Whole => TypeOK
  BY WholeIsTyped
<1> QED
  BY <1>1, WholeAlways, PTL

\* A field that has a signer has the one it was meant for, or whoever took that
\* place, through any number of edits, templates made and templates used at the
\* same time; or it is known to have come loose.
THEOREM FieldsAlwaysStay == Spec => []FieldsStayWithTheirParty
<1>1. Whole => FieldsStayWithTheirParty
  <2> SUFFICES ASSUME Whole, NEW d \in Docs, NEW f \in doc[d].fields,
                      NEW s \in doc[d].signers, s.id = f.signer
               PROVE  \/ doc[d].issued[f.signer] = f.who
                      \/ f.loose
                      \/ f.who = "nobody"
    BY DEF FieldsStayWithTheirParty
  <2>1. Good(doc[d].issued, f) /\ RowsAreIssued(doc[d])
    BY DEF Whole, FieldInv, Shape
  <2>2. f.signer \in 1 .. Len(doc[d].issued)
    BY <2>1 DEF RowsAreIssued
  <2> QED
    BY <2>1, <2>2 DEF Good, Meant
<1> QED
  BY <1>1, WholeAlways, PTL

-----------------------------------------------------------------------------
(* No document outlives its owner                                          *)

\* While an owner is purged, each document is one that was looked up, until
\* those are removed, or else it was created since.
OrphanInv ==
  \A d \in Docs : doc[d].status \in Known =>
    /\ acct.status = "gone" => doc[d].stray
    /\ purge.at = "docs" => d \in purge.ids \/ doc[d].stray
    /\ purge.at = "account" => doc[d].stray

\* Nothing comes into being.
NoneAppear ==
  \A d \in Docs : doc'[d].status \in Known =>
    doc[d].status \in Known /\ doc'[d].stray = doc[d].stray

LEMMA AccountStands ==
  ASSUME TypeInv, NEW w \in Workers, Step(w)
  PROVE  /\ acct'.status = acct.status /\ acct'.cookie = acct.cookie
         /\ acct'.verified = acct.verified
         /\ IssueKey(w) \/ RevokeKey(w) \/ UNCHANGED acct
<1>1. acct \in Account
  BY DEF TypeInv
<1>2. CASE IssueKey(w)
  <2> DEFINE n == acct.issued + 1
             keys == acct.keys \cup {acct.issued + 1}
  <2>1. acct' = [acct EXCEPT !.issued = n, !.keys = keys]
    BY <1>2 DEF IssueKey
  <2> HIDE DEF n, keys
  <2> QED
    BY <1>1, <1>2, <2>1 DEF Account
<1>3. CASE RevokeKey(w)
  <2>1. PICK k \in 1 .. acct.issued : acct' = [acct EXCEPT !.keys = @ \ {k}]
    BY <1>3 DEF RevokeKey
  <2> DEFINE keys == acct.keys \ {k}
  <2>2. acct' = [acct EXCEPT !.keys = keys]
    BY <2>1
  <2> HIDE DEF keys
  <2> QED
    BY <1>1, <1>3, <2>2 DEF Account
<1>4. CASE ~IssueKey(w) /\ ~RevokeKey(w)
  BY <1>4
  DEF Step, Authenticate, Resolve, Own, Paid, PutMessage, KeepMessage, ReadRow,
      ReadRows, ReadLayout, Create, AskSigners, PutSigners, AskFields,
      PutFields, PutMode, Unlink, RemoveRows, Freeze, SendCommit, VoidRow,
      Insert, ReadTemplate, ReadIds
<1> QED
  BY <1>2, <1>3, <1>4

\* The steps that write a document.
Writes(w) ==
  \/ PutMessage(w) \/ Create(w) \/ PutSigners(w) \/ PutFields(w) \/ PutMode(w)
  \/ Unlink(w) \/ RemoveRows(w) \/ SendCommit(w) \/ VoidRow(w)

LEMMA OthersWriteNothing ==
  ASSUME NEW w \in Workers, Step(w)
  PROVE  Writes(w) \/ doc' = doc
BY DEF Writes, Step, Authenticate, Resolve, Own, Paid, KeepMessage, ReadRow,
       ReadRows, ReadLayout, AskSigners, AskFields, Freeze, Insert,
       ReadTemplate, ReadIds, IssueKey, RevokeKey

LEMMA StepsMakeNone ==
  ASSUME Shape, NEW w \in Workers, Step(w), ~Create(w)
  PROVE  NoneAppear
<1>1. CASE doc' = doc
  BY <1>1 DEF NoneAppear
<1>2. CASE PutMessage(w) \/ Unlink(w)
  <2>1. \A e \in Docs : Alone(doc[e], doc'[e])
    BY <1>2, MessageRow, UnlinkRow
  <2> QED
    BY <2>1 DEF NoneAppear, Alone
<1>3. CASE PutFields(w) \/ PutMode(w)
  <2>1. \A e \in Docs :
          doc'[e].status = doc[e].status /\ doc'[e].stray = doc[e].stray
    BY <1>3, FieldsRow, ModeRow
  <2> QED
    BY <2>1 DEF NoneAppear
<1>4. CASE RemoveRows(w)
  <2>1. /\ Only(job[w].doc) /\ doc'[job[w].doc].status = "gone"
    BY <1>4, RemovedRow
  <2> QED
    BY <2>1 DEF NoneAppear, Only, Known
<1>5. CASE VoidRow(w)
  <2>1. /\ job[w].doc \in Docs /\ Only(job[w].doc)
        /\ \A e \in Docs : doc'[e].stray = doc[e].stray
        /\ doc' = doc \/ doc[job[w].doc].status \in Known
    BY <1>5, VoidedRow
  <2> QED
    BY <1>1, <2>1 DEF NoneAppear, Only
<1>6. CASE SendCommit(w)
  <2>1. /\ job[w].doc \in Docs /\ Only(job[w].doc)
        /\ \/ doc' = doc
           \/ /\ doc[job[w].doc].status \in Known
              /\ doc'[job[w].doc].stray = doc[job[w].doc].stray
    BY <1>6, SentRow
  <2> QED
    BY <1>1, <2>1 DEF NoneAppear, Only
<1>7. CASE PutSigners(w)
  <2>1. /\ job[w].doc \in Docs /\ Only(job[w].doc)
        /\ \/ doc' = doc
           \/ Replaced(doc[job[w].doc], doc'[job[w].doc], job[w].list)
    BY <1>7, SignersRow
  <2> QED
    BY <1>1, <2>1 DEF NoneAppear, Only, Replaced
<1> QED
  BY <1>1, <1>2, <1>3, <1>4, <1>5, <1>6, <1>7, OthersWriteNothing DEF Writes

LEMMA OrphanNext ==
  ASSUME Whole, OrphanInv, [Next]_vars
  PROVE  OrphanInv'
<1>s. Shape /\ TypeInv
  BY DEF Whole, Shape
<1>a. ASSUME NoneAppear, acct'.status = acct.status,
             purge'.at = "idle" \/ UNCHANGED purge
      PROVE  OrphanInv'
  BY <1>a DEF OrphanInv, NoneAppear
<1>b. doc' = doc => NoneAppear
  BY DEF NoneAppear
<1>1. ASSUME NEW w \in Workers, Request(w)
      PROVE  OrphanInv'
  BY <1>1, <1>a, <1>b, <1>s, RequestJob
<1>2. ASSUME NEW w \in Workers, Step(w)
      PROVE  OrphanInv'
  <2>1. acct'.status = acct.status /\ purge' = purge
    BY <1>2, <1>s, AccountStands, StepBounds
  <2>2. CASE ~Create(w)
    BY <1>2, <1>a, <1>s, <2>1, <2>2, StepsMakeNone
  <2>3. CASE Create(w)
    <3>1. PICK d \in Docs :
            /\ doc[d].status = "none"
            /\ doc' = [doc EXCEPT ![d].status = "draft", ![d].file = TRUE,
                         ![d].stray = acct.status = "gone" \/ purge # NoPurge]
      BY <2>3 DEF Create
    <3>2. /\ Only(d)
          /\ doc'[d].stray <=> acct.status = "gone" \/ purge # NoPurge
      BY <1>s, <3>1, CreateRow
    <3>3. purge.at # "idle" => purge # NoPurge
      BY DEF NoPurge
    <3> QED
      BY <2>1, <3>2, <3>3 DEF OrphanInv, Only
  <2> QED
    BY <2>2, <2>3
<1>3. ASSUME NEW w \in Workers, Crash(w)
      PROVE  OrphanInv'
  <2>1. NoPurge.at = "idle"
    BY DEF NoPurge
  <2> QED
    BY <1>3, <1>a, <1>b, <1>s, <2>1, CrashedJob
<1>4. CASE Suspend
  <2>1. doc' = doc /\ purge' = purge /\ acct'.status = "suspended"
    BY <1>4, <1>s, EndedJob DEF Suspend
  <2> QED
    BY <2>1 DEF OrphanInv
<1>5. CASE Reinstate
  <2>1. acct' = [acct EXCEPT !.status = "active"] /\ acct \in Account
    BY <1>5, <1>s DEF Reinstate, TypeInv
  <2>2. acct'.status = "active" /\ doc' = doc /\ purge' = purge
    BY <1>5, <2>1 DEF Reinstate, Account
  <2> QED
    BY <2>2 DEF OrphanInv
<1>6. CASE PurgeRead
  <2>1. /\ purge'.at = "docs"
        /\ purge'.ids = {d \in Docs : doc[d].status \in Known}
        /\ doc' = doc /\ acct' = acct /\ acct.status # "gone"
    BY <1>6 DEF PurgeRead
  <2> QED
    BY <2>1 DEF OrphanInv
<1>7. CASE PurgeDocs
  <2>1. /\ \A e \in Docs : IF e \in purge.ids THEN doc'[e].status = "gone"
                                              ELSE doc'[e] = doc[e]
        /\ acct' = acct
    BY <1>7, <1>s, PurgedRows DEF PurgeDocs
  <2>2. purge' = [purge EXCEPT !.at = "account"] /\ purge.at = "docs"
    BY <1>7 DEF PurgeDocs
  <2>3. purge'.at = "account"
    BY <1>s, <2>2 DEF TypeInv, Purge
  <2> QED
    BY <2>1, <2>2, <2>3 DEF OrphanInv, Known
<1>8. CASE PurgeAccount
  <2>1. doc' = doc /\ purge.at = "account" /\ purge'.at = "idle"
    BY <1>8 DEF PurgeAccount, NoPurge
  <2> QED
    BY <2>1 DEF OrphanInv
<1>9. CASE UNCHANGED vars
  BY <1>9, <1>a, <1>b DEF vars
<1> QED
  BY <1>1, <1>2, <1>3, <1>4, <1>5, <1>6, <1>7, <1>8, <1>9 DEF Next

\* No agreement outlives its owner, whatever order the requests, the three
\* commits of the purge, and crashes between them come in, except one that was
\* created after the purge had looked for the owner's agreements.
THEOREM NoneOutlivesOwner == Spec => []NoOrphans
<1>1. Init => OrphanInv
  BY DEF Init, OrphanInv, NoPurge
<1>2. Whole /\ OrphanInv /\ [Next]_vars => OrphanInv'
  BY OrphanNext
<1>3. OrphanInv => NoOrphans
  BY DEF OrphanInv, NoOrphans
<1> QED
  BY <1>1, <1>2, <1>3, WholeAlways, PTL DEF Spec

-----------------------------------------------------------------------------
(* What is done is authorised                                              *)

\* HasLooked, of a request.
Looked(j, what) ==
  /\ j.phase \notin {"idle", "auth"}
  /\ what = "account" =>
       j.phase # "hash" /\ (j.kind = "send" => j.phase \notin {"own", "paid"})

\* The account is active, and the credential stands, or they were withdrawn
\* after the request had looked at them.
Allowed(j, a) ==
  /\ Looked(j, "account") => a.status = "active" \/ "account" \in j.withdrawn
  /\ Looked(j, "credential") =>
       \/ IF j.via = 0 THEN a.cookie ELSE j.via \in a.keys
       \/ "credential" \in j.withdrawn

AuthInv == \A w \in Workers : Allowed(job[w], acct)

LEMMA LookedJob ==
  ASSUME NEW w \in Workers, NEW what
  PROVE  HasLooked(w, what) <=> Looked(job[w], what)
BY DEF HasLooked, Looked, Kind

LEMMA NoJobAllowed ==
  ASSUME NEW a
  PROVE  Allowed(NoJob, a)
BY NoJobType DEF Allowed, Looked

\* A request that has looked keeps what it is allowed.
LEMMA StillAllowed ==
  ASSUME NEW j, NEW k, NEW a, Allowed(j, a),
         Looked(j, "account") /\ Looked(j, "credential"),
         k.via = j.via /\ k.withdrawn = j.withdrawn
  PROVE  Allowed(k, a)
BY DEF Allowed

\* The steps of a request that has looked at all it will look at.
LEMMA WorkingJob ==
  ASSUME Whole, NEW w \in Workers,
         \/ ReadRows(w) \/ ReadLayout(w) \/ ReadTemplate(w) \/ ReadIds(w)
         \/ PutMessage(w) \/ Create(w) \/ PutSigners(w) \/ PutFields(w)
         \/ PutMode(w) \/ Unlink(w) \/ RemoveRows(w) \/ Insert(w)
  PROVE  /\ LeavesOthers(w)
         /\ Looked(job[w], "account") /\ Looked(job[w], "credential")
         /\ \/ job'[w] = NoJob
            \/ job'[w].via = job[w].via /\ job'[w].withdrawn = job[w].withdrawn
<1>s. Shape /\ TypeInv
  BY DEF Whole, Shape
<1>l. job[w].phase \notin {"idle", "auth", "hash", "own", "paid"}
  BY DEF ReadRows, ReadLayout, ReadTemplate, ReadIds, PutMessage, Create,
         PutSigners, PutFields, PutMode, Unlink, RemoveRows, Insert, At
<1>k. Looked(job[w], "account") /\ Looked(job[w], "credential")
  BY <1>l DEF Looked
<1>1. CASE ReadRows(w)
  BY <1>1, <1>k, <1>s, ReadRowsJob DEF Reads
<1>2. CASE ReadLayout(w)
  BY <1>2, <1>k, <1>s, ReadLayoutJob DEF Reads
<1>3. CASE ReadTemplate(w)
  BY <1>3, <1>k, <1>s, ReadTemplateJob DEF Reads, Whole, FieldInv
<1>4. CASE ReadIds(w)
  <2>1. FieldsOf(job[w]) /\ job[w].phase = "ids" /\ job[w].kind = "use"
    BY <1>4 DEF Whole, FieldInv, ReadIds, At, Shape, Shaped, InPlace
  <2>2. /\ \A f \in job[w].fields : InRoles(job[w].list, f)
        /\ job[w].list # <<>> /\ job[w].seen # {} =>
             Numbered(job[w].seen, job[w].list, doc[job[w].doc].issued)
    BY <2>1 DEF FieldsOf, Filling
  <2> QED
    BY <1>4, <1>k, <1>s, <2>2, ReadIdsJob DEF Reads
<1>5. CASE Create(w)
  BY <1>5, <1>k, <1>s, CreateJob
<1>6. CASE PutSigners(w)
  BY <1>6, <1>k, <1>s, PutSignersJob
<1>7. CASE PutFields(w) \/ PutMode(w) \/ RemoveRows(w) \/ Insert(w)
  <2>1. Done(w)
    BY <1>7 DEF PutFields, PutMode, RemoveRows, Insert
  <2> QED
    BY <1>k, <1>s, <2>1, DoneJob DEF LeavesOthers
<1>8. CASE PutMessage(w) \/ Unlink(w)
  <2>1. PICK x \in Phases : Goto(w, x)
    BY <1>8 DEF PutMessage, Unlink, Phases
  <2> QED
    BY <1>k, <1>s, <2>1, GotoJob DEF LeavesOthers, Moved, Keeps
<1> QED
  BY <1>1, <1>2, <1>3, <1>4, <1>5, <1>6, <1>7, <1>8

LEMMA QuietAllowed ==
  ASSUME Whole, AuthInv, NEW w \in Workers, ReadsOnly(w)
  PROVE  Allowed(job'[w], acct)
<1>1. /\ Quiet(w) /\ Allowed(job[w], acct)
      /\ job[w].phase # "idle"
  BY ReadsOnlyJob
  DEF Whole, AuthInv, ReadsOnly, Authenticate, Resolve, Own, Paid, KeepMessage,
      ReadRow, AskSigners, AskFields, Freeze, At
<1>2. CASE job'[w] = NoJob
  BY <1>2, NoJobAllowed
<1>3. CASE Passes(w)
  <2>1. /\ job'[w].kind = job[w].kind /\ job'[w].via = job[w].via
        /\ job'[w].withdrawn = job[w].withdrawn
    BY <1>3 DEF Passes, Moved, Keeps
  <2>2. job[w].phase = "auth" =>
          IF job[w].via = 0 THEN ByCookie
          ELSE job[w].via \in acct.keys /\ job'[w].phase = "hash"
    BY <1>3 DEF Passes
  <2>3. /\ job[w].phase \in {"hash", "paid"} => acct.status = "active"
        /\ job[w].phase = "own" /\ job[w].kind = "send" =>
             job'[w].phase = "paid"
    BY <1>3 DEF Passes
  <2> QED
    BY <1>1, <2>1, <2>2, <2>3 DEF Allowed, Looked, ByCookie
<1> QED
  BY <1>1, <1>2, <1>3 DEF Quiet

LEMMA AuthNext ==
  ASSUME Whole, AuthInv, [Next]_vars
  PROVE  AuthInv'
<1>s. Shape /\ TypeInv
  BY DEF Whole, Shape
<1>z. (\A v \in Workers : Allowed(job'[v], acct')) => AuthInv'
  BY DEF AuthInv, Allowed, Looked
<1>i. \A v \in Workers : Allowed(job[v], acct)
  BY DEF AuthInv
<1>a. ASSUME NEW w \in Workers, LeavesOthers(w), UNCHANGED acct,
             Allowed(job'[w], acct)
      PROVE  AuthInv'
  BY <1>a, <1>i, <1>z DEF LeavesOthers
<1>1. ASSUME NEW w \in Workers, Request(w)
      PROVE  AuthInv'
  <2>1. LeavesOthers(w) /\ UNCHANGED acct /\ job'[w].phase = "auth"
    BY <1>1, <1>s, RequestJob DEF LeavesOthers, Arrives
  <2>2. Allowed(job'[w], acct)
    BY <2>1 DEF Allowed, Looked
  <2> QED
    BY <1>a, <2>1, <2>2
<1>2. ASSUME NEW w \in Workers, Step(w)
      PROVE  AuthInv'
  <2>1. IssueKey(w) \/ RevokeKey(w) \/ UNCHANGED acct
    BY <1>2, <1>s, AccountStands
  <2>2. CASE ReadsOnly(w)
    <3>1. LeavesOthers(w) /\ UNCHANGED acct
      BY <1>s, <2>2, ReadsOnlyJob DEF Quiet, LeavesOthers
    <3> QED
      BY <1>a, <2>2, <3>1, QuietAllowed
  <2>3. CASE \/ ReadRows(w) \/ ReadLayout(w) \/ ReadTemplate(w) \/ ReadIds(w)
             \/ PutMessage(w) \/ Create(w) \/ PutSigners(w) \/ PutFields(w)
             \/ PutMode(w) \/ Unlink(w) \/ RemoveRows(w) \/ Insert(w)
    <3>1. /\ LeavesOthers(w)
          /\ Looked(job[w], "account") /\ Looked(job[w], "credential")
          /\ \/ job'[w] = NoJob
             \/ /\ job'[w].via = job[w].via
                /\ job'[w].withdrawn = job[w].withdrawn
      BY <2>3, WorkingJob
    <3>2. Allowed(job'[w], acct)
      BY <1>i, <3>1, NoJobAllowed, StillAllowed
    <3>3. UNCHANGED acct
      BY <2>3
      DEF ReadRows, ReadLayout, ReadTemplate, ReadIds, PutMessage, Create,
          PutSigners, PutFields, PutMode, Unlink, RemoveRows, Insert
    <3> QED
      BY <1>a, <3>1, <3>2, <3>3
  <2>4. CASE SendCommit(w) \/ VoidRow(w)
    <3>1. UNCHANGED acct /\ job' = Settled(w, job[w].doc)
      BY <2>4 DEF SendCommit, VoidRow
    <3>2. /\ job'[w] = NoJob
          /\ \A v \in Workers : v # w =>
               Alike(job[v], job'[v]) /\ job'[v].withdrawn = job[v].withdrawn
      BY <1>s, <3>1, SettledJob DEF Settles
    <3>3. \A v \in Workers : Allowed(job'[v], acct)
      BY <1>i, <3>2, NoJobAllowed DEF Alike, Keeps, Allowed, Looked
    <3> QED
      BY <1>z, <3>1, <3>3
  <2>5. CASE IssueKey(w)
    <3>1. LeavesOthers(w) /\ job'[w] = NoJob
      BY <1>s, <2>5, DoneJob DEF IssueKey, LeavesOthers
    <3>2. acct'.status = acct.status /\ acct'.cookie = acct.cookie
      BY <1>2, <1>s, AccountStands
    <3>3. acct.keys \subseteq acct'.keys
      <4> DEFINE n == acct.issued + 1
                 keys == acct.keys \cup {n}
      <4>1. /\ acct' = [acct EXCEPT !.issued = n, !.keys = keys]
            /\ acct \in Account
        BY <1>s, <2>5 DEF IssueKey, TypeInv
      <4>2. acct.keys \subseteq keys
        OBVIOUS
      <4> HIDE DEF n, keys
      <4> QED
        BY <4>1, <4>2 DEF Account
    <3>4. \A v \in Workers : Allowed(job'[v], acct')
      BY <1>i, <3>1, <3>2, <3>3, NoJobAllowed DEF LeavesOthers, Allowed
    <3> QED
      BY <1>z, <3>4
  <2>6. CASE RevokeKey(w)
    <3>1. PICK k \in Nat :
            /\ k >= 1
            /\ acct'.status = acct.status /\ acct'.cookie = acct.cookie
            /\ acct'.keys = acct.keys \ {k}
            /\ job'[w] = NoJob
            /\ \A v \in Workers : v # w =>
                 /\ Alike(job[v], job'[v])
                 /\ job'[v].withdrawn =
                      job[v].withdrawn \cup Taken(v, {"credential"}, k)
      BY <1>s, <2>6, RevokedJob
    <3>2. ASSUME NEW v \in Workers, v # w
          PROVE  Allowed(job'[v], acct')
      <4>1. /\ job'[v].kind = job[v].kind /\ job'[v].phase = job[v].phase
            /\ job'[v].via = job[v].via
        BY <3>1, <3>2 DEF Alike, Keeps
      <4>2. job[v].withdrawn \subseteq job'[v].withdrawn
        BY <3>1, <3>2
      <4>3. Looked(job[v], "credential") /\ job[v].via = k =>
              "credential" \in job'[v].withdrawn
        BY <3>1, <3>2, LookedJob DEF Taken
      <4>4. k # 0
        BY <3>1
      <4>5. Allowed(job[v], acct)
        BY <1>i
      <4>6. Looked(job'[v], "account") => Looked(job[v], "account")
        BY <4>1 DEF Looked
      <4>7. Looked(job'[v], "credential") => Looked(job[v], "credential")
        BY <4>1 DEF Looked
      <4> QED
        BY <3>1, <4>1, <4>2, <4>3, <4>4, <4>5, <4>6, <4>7 DEF Allowed
    <3>3. Allowed(job'[w], acct')
      BY <3>1, NoJobAllowed
    <3> QED
      BY <1>z, <3>2, <3>3
  <2> QED
    BY <1>2, <2>2, <2>3, <2>4, <2>5, <2>6 DEF Step, ReadsOnly
<1>3. ASSUME NEW w \in Workers, Crash(w)
      PROVE  AuthInv'
  <2>1. LeavesOthers(w) /\ UNCHANGED acct /\ job'[w] \in {job[w], NoJob}
    BY <1>3, <1>s, CrashedJob
  <2> QED
    BY <1>a, <1>i, <2>1, NoJobAllowed
<1>4. CASE Suspend \/ PurgeAccount
  <2>1. /\ acct'.keys = acct.keys
        /\ \A v \in Workers :
             /\ Alike(job[v], job'[v])
             /\ job'[v].withdrawn =
                  job[v].withdrawn \cup Taken(v, {"account", "credential"}, 0)
    BY <1>4, <1>s, EndedJob
  <2>2. ASSUME NEW v \in Workers
        PROVE  Allowed(job'[v], acct')
    <3>1. /\ job'[v].kind = job[v].kind /\ job'[v].phase = job[v].phase
          /\ job'[v].via = job[v].via
      BY <2>1 DEF Alike, Keeps
    <3>2. job[v].withdrawn \subseteq job'[v].withdrawn
      BY <2>1
    <3>3. Looked(job[v], "account") => "account" \in job'[v].withdrawn
      BY <2>1, LookedJob DEF Taken
    <3>4. Looked(job[v], "credential") /\ job[v].via = 0 =>
            "credential" \in job'[v].withdrawn
      BY <2>1, LookedJob DEF Taken
    <3>5. Allowed(job[v], acct)
      BY <1>i
    <3>6. Looked(job'[v], "account") => Looked(job[v], "account")
      BY <3>1 DEF Looked
    <3>7. Looked(job'[v], "credential") => Looked(job[v], "credential")
      BY <3>1 DEF Looked
    <3> QED
      BY <2>1, <3>1, <3>2, <3>3, <3>4, <3>5, <3>6, <3>7 DEF Allowed
  <2> QED
    BY <1>z, <2>2
<1>5. CASE Reinstate
  <2>1. acct' = [acct EXCEPT !.status = "active"] /\ acct \in Account
    BY <1>5, <1>s DEF Reinstate, TypeInv
  <2>2. /\ acct'.status = "active" /\ acct'.cookie = acct.cookie
        /\ acct'.keys = acct.keys
    BY <2>1 DEF Account
  <2>3. \A v \in Workers : Allowed(job[v], acct')
    BY <1>i, <2>2 DEF Allowed
  <2> QED
    BY <1>5, <1>z, <2>3 DEF Reinstate
<1>6. CASE PurgeRead \/ PurgeDocs \/ UNCHANGED vars
  <2>1. UNCHANGED <<acct, job>>
    BY <1>6 DEF PurgeRead, PurgeDocs, vars
  <2> QED
    BY <1>i, <1>z, <2>1
<1> QED
  BY <1>1, <1>2, <1>3, <1>4, <1>5, <1>6 DEF Next

LEMMA AuthInit ==
  ASSUME Init
  PROVE  AuthInv
BY NoJobAllowed DEF Init, AuthInv

LEMMA AuthAlways == Spec => []AuthInv
<1>1. Init => AuthInv
  BY AuthInit
<1>2. Whole /\ AuthInv /\ [Next]_vars => AuthInv'
  BY AuthNext
<1> QED
  BY <1>1, <1>2, WholeAlways, PTL DEF Spec

\* A request that nothing was written to is the request it was.
LEMMA SameJob ==
  ASSUME NEW j \in Job, NEW k \in Job, Alike(j, k), j.late <=> k.late,
         j.withdrawn = k.withdrawn
  PROVE  j = k
<1>1. j.late \in BOOLEAN /\ k.late \in BOOLEAN
  BY DEF Job
<1>2. j.late = k.late
  BY <1>1
<1> QED
  BY <1>2 DEF Job, Alike, Keeps

\* Who writes to a document has looked, and so has whoever is told of it.
LEMMA WritersHaveLooked ==
  ASSUME Whole, [Next]_vars, doc' # doc, NEW v \in Workers, job'[v] # job[v]
  PROVE  Looked(job[v], "account") /\ Looked(job[v], "credential")
<1>s. Shape /\ TypeInv
  BY DEF Whole, Shape
<1>1. ASSUME NEW w \in Workers, Request(w)
      PROVE  FALSE
  BY <1>1, <1>s, RequestJob
<1>2. ASSUME NEW w \in Workers, Crash(w)
      PROVE  FALSE
  BY <1>2, <1>s, CrashedJob
<1>3. CASE Suspend \/ Reinstate \/ PurgeRead \/ PurgeAccount
  BY <1>3 DEF Suspend, Reinstate, PurgeRead, PurgeAccount
<1>4. CASE PurgeDocs \/ UNCHANGED vars
  BY <1>4 DEF PurgeDocs, vars
<1>5. ASSUME NEW w \in Workers, Step(w)
      PROVE  Looked(job[v], "account") /\ Looked(job[v], "credential")
  <2>1. Writes(w)
    BY <1>5, OthersWriteNothing
  <2>2. CASE \/ PutMessage(w) \/ Create(w) \/ PutSigners(w) \/ PutFields(w)
             \/ PutMode(w) \/ Unlink(w) \/ RemoveRows(w)
    <3>1. /\ LeavesOthers(w)
          /\ Looked(job[w], "account") /\ Looked(job[w], "credential")
      BY <2>2, WorkingJob
    <3> QED
      BY <3>1 DEF LeavesOthers
  <2>3. CASE SendCommit(w) \/ VoidRow(w)
    <3> DEFINE d == job[w].doc
    <3>1. Settles(w, d)
      <4>1. job' = Settled(w, d)
        BY <2>3 DEF SendCommit, VoidRow
      <4> QED
        BY <1>s, <4>1, SettledJob
    <3>2. CASE v = w
      BY <2>3, <3>2 DEF SendCommit, VoidRow, At, Looked
    <3>3. CASE v # w
      <4>1. /\ Alike(job[v], job'[v])
            /\ job'[v].late <=> job[v].late \/ HasAsked(v, d)
            /\ job'[v].withdrawn = job[v].withdrawn
            /\ job[v] \in Job /\ job'[v] \in Job
        BY <1>s, <3>1, <3>3 DEF Settles, TypeInv
      <4>2. HasAsked(v, d)
        BY <4>1, SameJob
      <4> QED
        BY <4>2 DEF HasAsked, Looked
    <3> QED
      BY <3>2, <3>3
  <2> QED
    BY <2>1, <2>2, <2>3 DEF Writes
<1> QED
  BY <1>1, <1>2, <1>3, <1>4, <1>5 DEF Next

\* Whatever happens to an agreement is done for an account that is active, with
\* a credential that stands, unless they were withdrawn after the request had
\* looked at them for the last time.
THEOREM EffectsAlwaysAuthorised == Spec => EffectsAuthorised
<1>1. Whole /\ AuthInv /\ [Next]_vars =>
        [\A w \in Workers :
           job'[w] # job[w] /\ doc' # doc =>
             /\ acct.status = "active" \/ "account" \in job[w].withdrawn
             /\ \/ IF job[w].via = 0 THEN acct.cookie
                   ELSE job[w].via \in acct.keys
                \/ "credential" \in job[w].withdrawn]_vars
  <2> SUFFICES ASSUME Whole, AuthInv, [Next]_vars, NEW w \in Workers,
                      job'[w] # job[w], doc' # doc
               PROVE  /\ acct.status = "active"
                           \/ "account" \in job[w].withdrawn
                      /\ \/ IF job[w].via = 0 THEN acct.cookie
                            ELSE job[w].via \in acct.keys
                         \/ "credential" \in job[w].withdrawn
    OBVIOUS
  <2>1. Looked(job[w], "account") /\ Looked(job[w], "credential")
    BY WritersHaveLooked
  <2> QED
    BY <2>1 DEF AuthInv, Allowed
<1> QED
  BY <1>1, WholeAlways, AuthAlways, PTL DEF Spec, EffectsAuthorised

-----------------------------------------------------------------------------
(* Who is asked to sign has a link                                         *)

\* A send can go out with the links of the rows it has read: they are all the
\* rows there are, or it is known that the signers were replaced.
Sendable(seen, a) ==
  \/ a.status \notin Known
  \/ a.crossed
  \/ a.signers # {} /\ \A s \in a.signers : \E r \in seen : r.id = s.id

\* Whoever is about to write has found a draft, or was told.
Told(j, a) == j.phase \in Asked /\ Closed(a) => j.late

\* A send that has read its rows.
Ready(j, a) ==
  j.kind = "send" /\ j.phase \in {"freeze", "commit"} => Sendable(j.seen, a)

\* What SentWithLinks asks of a document.
HasLinks(a) ==
  a.status = "out" =>
    (a.signers # {} /\ \A s \in a.signers : s.link) \/ a.crossed

LinkInv ==
  /\ \A d \in Docs : HasLinks(doc[d])
  /\ \A w \in Workers : Told(job[w], doc[job[w].doc])
  /\ \A w \in Workers : Ready(job[w], doc[job[w].doc])

\* The signers stay, and nothing goes out or is voided; or it is gone.
Calm(a, b) ==
  \/ b.status = "gone"
  \/ b.status = a.status /\ b.signers = a.signers /\ b.crossed = a.crossed

LEMMA CalmSteps ==
  ASSUME Shape, NEW w \in Workers, Step(w),
         ~Create(w), ~PutSigners(w), ~SendCommit(w), ~VoidRow(w)
  PROVE  \A e \in Docs : Calm(doc[e], doc'[e])
<1>1. CASE doc' = doc
  BY <1>1 DEF Calm
<1>2. CASE PutMessage(w) \/ Unlink(w)
  <2>1. \A e \in Docs : Alone(doc[e], doc'[e])
    BY <1>2, MessageRow, UnlinkRow
  <2> QED
    BY <2>1 DEF Calm, Alone
<1>3. CASE PutFields(w) \/ PutMode(w)
  <2>1. \A e \in Docs :
          doc'[e].status = doc[e].status /\ Rows(doc[e], doc'[e])
    BY <1>3, FieldsRow, ModeRow
  <2> QED
    BY <2>1 DEF Calm, Rows
<1>4. CASE RemoveRows(w)
  <2>1. /\ Only(job[w].doc) /\ doc'[job[w].doc].status = "gone"
    BY <1>4, RemovedRow
  <2> QED
    BY <2>1 DEF Calm, Only
<1> QED
  BY <1>1, <1>2, <1>3, <1>4, OthersWriteNothing DEF Writes

\* Links and readiness outlast such a step, and whoever was told was told.
LEMMA CalmKeeps ==
  ASSUME NEW a, NEW b, Calm(a, b)
  PROVE  /\ HasLinks(a) => HasLinks(b)
         /\ \A j : Told(j, a) => Told(j, b)
         /\ \A j : Ready(j, a) => Ready(j, b)
BY DEF Calm, HasLinks, Told, Ready, Sendable, Closed, Known

\* A request that comes to where it writes has found a draft; a send that
\* comes to where it freezes has read the rows there are.
Comes(j, k) ==
  /\ k.phase \in Asked =>
       \/ ~Closed(doc[k.doc])
       \/ j.phase \in Asked /\ k.doc = j.doc /\ k.late = j.late
  /\ k.kind = "send" /\ k.phase \in {"freeze", "commit"} =>
       \/ Sendable(k.seen, doc[k.doc])
       \/ /\ j.kind = "send" /\ j.phase \in {"freeze", "commit"}
          /\ k.doc = j.doc /\ k.seen = j.seen

LEMMA ComesNoJob ==
  ASSUME NEW j
  PROVE  Comes(j, NoJob)
BY NoJobType DEF Comes, Asked

LEMMA ComesOn ==
  ASSUME Whole, NEW w \in Workers, Step(w),
         ~Create(w), ~SendCommit(w), ~VoidRow(w), ~RevokeKey(w)
  PROVE  LeavesOthers(w) /\ Comes(job[w], job'[w])
<1>s. Shape /\ TypeInv
  BY DEF Whole, Shape
<1>1. CASE ReadsOnly(w)
  <2>1. Quiet(w)
    BY <1>1, <1>s, ReadsOnlyJob
  <2>2. LeavesOthers(w)
    BY <2>1 DEF Quiet, LeavesOthers
  <2>3. CASE Passes(w)
    <3>1. /\ Moved(job[w], job'[w])
          /\ job'[w].phase \in {"freeze", "commit"} => job[w].phase = "freeze"
          /\ job'[w].phase \in Asked => ~Closed(doc[job[w].doc])
      BY <2>3 DEF Passes
    <3> QED
      BY <2>2, <3>1 DEF Comes, Moved, Keeps
  <2> QED
    BY <2>1, <2>2, <2>3, ComesNoJob DEF Quiet
<1>2. CASE ReadRows(w)
  <2>1. /\ LeavesOthers(w)
        /\ \/ job'[w] = NoJob
           \/ /\ Reads(job[w], job'[w])
              /\ job'[w].seen = doc[job[w].doc].signers
              /\ job'[w].phase = IF job[w].kind = "send" THEN "freeze"
                                                         ELSE "layout"
              /\ job[w].kind = "send" => doc[job[w].doc].signers # {}
           \/ job'[w].phase = "askFields"
    BY <1>2, <1>s, ReadRowsJob
  <2>2. CASE job'[w] = NoJob
    BY <2>1, <2>2, ComesNoJob
  <2> QED
    BY <2>1, <2>2 DEF Comes, Reads, Asked, Sendable
<1>3. CASE ReadLayout(w)
  <2>1. /\ LeavesOthers(w)
        /\ job'[w] = NoJob \/ job'[w].phase \in {"insert", "askFields"}
    BY <1>3, <1>s, ReadLayoutJob
  <2> QED
    BY <2>1, ComesNoJob DEF Comes, Asked
<1>4. CASE ReadTemplate(w) \/ ReadIds(w)
  <2>1. /\ LeavesOthers(w)
        /\ job'[w] = NoJob \/ job'[w].phase \in {"create", "askFields"}
    <3>1. CASE ReadTemplate(w)
      BY <3>1, <1>s, ReadTemplateJob DEF Whole, FieldInv
    <3>2. CASE ReadIds(w)
      <4>1. FieldsOf(job[w]) /\ job[w].phase = "ids" /\ job[w].kind = "use"
        BY <3>2 DEF Whole, FieldInv, ReadIds, At, Shape, Shaped, InPlace
      <4>2. /\ \A f \in job[w].fields : InRoles(job[w].list, f)
            /\ job[w].list # <<>> /\ job[w].seen # {} =>
                 Numbered(job[w].seen, job[w].list, doc[job[w].doc].issued)
        BY <4>1 DEF FieldsOf, Filling
      <4> QED
        BY <3>2, <1>s, <4>2, ReadIdsJob
    <3> QED
      BY <1>4, <3>1, <3>2
  <2> QED
    BY <2>1, ComesNoJob DEF Comes, Asked
<1>5. CASE PutSigners(w)
  <2>1. LeavesOthers(w) /\ (job'[w] = NoJob \/ job'[w].phase = "ids")
    BY <1>5, <1>s, PutSignersJob
  <2> QED
    BY <2>1, ComesNoJob DEF Comes, Asked
<1>6. CASE \/ PutFields(w) \/ PutMode(w) \/ RemoveRows(w) \/ Insert(w)
           \/ IssueKey(w)
  <2>1. Done(w)
    BY <1>6 DEF PutFields, PutMode, RemoveRows, Insert, IssueKey
  <2> QED
    BY <1>s, <2>1, DoneJob, ComesNoJob DEF LeavesOthers
<1>7. CASE PutMessage(w)
  <2>1. Goto(w, "row")
    BY <1>7 DEF PutMessage
  <2>2. LeavesOthers(w) /\ job'[w].phase = "row"
    BY <1>s, <2>1, GotoJob DEF LeavesOthers, Phases
  <2> QED
    BY <2>2 DEF Comes, Asked
<1>8. CASE Unlink(w)
  <2>1. Goto(w, "remove") /\ job[w].phase = "unlink"
    BY <1>8 DEF Unlink, At
  <2>2. /\ LeavesOthers(w) /\ job'[w].phase = "remove"
        /\ Moved(job[w], job'[w])
    BY <1>s, <2>1, GotoJob DEF LeavesOthers, Phases
  <2> QED
    BY <2>1, <2>2 DEF Comes, Moved, Keeps, Asked
<1> QED
  BY <1>1, <1>2, <1>3, <1>4, <1>5, <1>6, <1>7, <1>8 DEF Step, ReadsOnly

\* LinkInv, after a step.
LinksNext ==
  /\ \A d \in Docs : HasLinks(doc'[d])
  /\ \A v \in Workers : Told(job'[v], doc'[job'[v].doc])
  /\ \A v \in Workers : Ready(job'[v], doc'[job'[v].doc])

LEMMA LinksAfter ==
  ASSUME LinksNext
  PROVE  LinkInv'
BY DEF LinksNext, LinkInv, HasLinks, Told, Ready, Sendable, Closed

\* A request that writes, or sends, has a document.
LEMMA WritesToDoc ==
  ASSUME NEW j, InPlace(j), j.phase \in Asked \/ j.kind = "send"
  PROVE  AtDoc(j)
BY DEF InPlace, AtDoc, Asked, Laid

LEMMA DocNow ==
  ASSUME Whole, NEW v \in Workers,
         job[v].phase \in Asked \/ job[v].kind = "send"
  PROVE  job[v].doc \in Docs /\ doc[job[v].doc].status # "none"
BY WritesToDoc DEF Whole, Shape, Shaped

LEMMA DocNext ==
  ASSUME NextFine, NEW v \in Workers,
         job'[v].phase \in Asked \/ job'[v].kind = "send"
  PROVE  job'[v].doc \in Docs
BY WritesToDoc DEF NextFine, JobFine, ShapedNext

LEMMA LinksCalm ==
  ASSUME Whole, LinkInv, NextFine,
         \A e \in Docs : Calm(doc[e], doc'[e]),
         \A v \in Workers : Comes(job[v], job'[v])
  PROVE  LinkInv'
<1>1. \A d \in Docs : HasLinks(doc'[d])
  BY CalmKeeps DEF LinkInv
<1>2. ASSUME NEW v \in Workers
      PROVE  Told(job'[v], doc'[job'[v].doc])
  <2> SUFFICES ASSUME job'[v].phase \in Asked, Closed(doc'[job'[v].doc])
               PROVE  job'[v].late
    BY DEF Told
  <2>1. job'[v].doc \in Docs
    BY <1>2, DocNext
  <2>2. Closed(doc[job'[v].doc])
    BY <2>1 DEF Calm, Closed
  <2>3. /\ job[v].phase \in Asked /\ job'[v].doc = job[v].doc
        /\ job'[v].late = job[v].late
    BY <2>2 DEF Comes
  <2> QED
    BY <2>2, <2>3 DEF LinkInv, Told
<1>3. ASSUME NEW v \in Workers
      PROVE  Ready(job'[v], doc'[job'[v].doc])
  <2> SUFFICES ASSUME job'[v].kind = "send",
                      job'[v].phase \in {"freeze", "commit"}
               PROVE  Sendable(job'[v].seen, doc'[job'[v].doc])
    BY DEF Ready
  <2>1. job'[v].doc \in Docs
    BY <1>3, DocNext
  <2>2. Sendable(job'[v].seen, doc[job'[v].doc])
    BY DEF Comes, LinkInv, Ready
  <2>3. Calm(doc[job'[v].doc], doc'[job'[v].doc])
    BY <2>1
  <2> QED
    BY <2>2, <2>3 DEF Calm, Sendable, Known
<1> QED
  BY <1>1, <1>2, <1>3, LinksAfter DEF LinksNext

LEMMA LinksSettled ==
  ASSUME Whole, LinkInv, NextFine, NEW w \in Workers, NEW d \in Docs,
         Settles(w, d), Only(d), HasLinks(doc'[d]),
         \A seen : Sendable(seen, doc[d]) => Sendable(seen, doc'[d])
  PROVE  LinkInv'
<1>1. \A e \in Docs : HasLinks(doc'[e])
  BY DEF LinkInv, Only
<1>2. ASSUME NEW v \in Workers
      PROVE  Told(job'[v], doc'[job'[v].doc])
  <2> SUFFICES ASSUME job'[v].phase \in Asked, Closed(doc'[job'[v].doc])
               PROVE  job'[v].late
    BY DEF Told
  <2>1. job'[v].doc \in Docs
    BY <1>2, DocNext
  <2>2. v # w
    BY NoJobType DEF Settles, Asked
  <2>3. /\ job[v].phase \in Asked /\ job'[v].doc = job[v].doc
        /\ job'[v].late <=> job[v].late \/ HasAsked(v, d)
    BY <2>2 DEF Settles, Alike, Keeps
  <2>4. CASE job[v].doc = d
    BY <2>3, <2>4 DEF HasAsked, Asked
  <2>5. CASE job[v].doc # d
    <3>1. doc'[job'[v].doc] = doc[job[v].doc]
      BY <2>1, <2>3, <2>5 DEF Only
    <3> QED
      BY <2>3, <3>1 DEF LinkInv, Told
  <2> QED
    BY <2>4, <2>5
<1>3. ASSUME NEW v \in Workers
      PROVE  Ready(job'[v], doc'[job'[v].doc])
  <2> SUFFICES ASSUME job'[v].kind = "send",
                      job'[v].phase \in {"freeze", "commit"}
               PROVE  Sendable(job'[v].seen, doc'[job'[v].doc])
    BY DEF Ready
  <2>1. job'[v].doc \in Docs
    BY <1>3, DocNext
  <2>2. v # w
    BY NoJobType DEF Settles
  <2>3. Alike(job[v], job'[v])
    BY <2>2 DEF Settles
  <2>4. Sendable(job'[v].seen, doc[job'[v].doc])
    BY <2>3 DEF Alike, Keeps, LinkInv, Ready
  <2> QED
    BY <2>1, <2>4 DEF Only
<1> QED
  BY <1>1, <1>2, <1>3, LinksAfter DEF LinksNext

LEMMA LinksSent ==
  ASSUME Whole, LinkInv, NEW w \in Workers, SendCommit(w)
  PROVE  LinkInv'
<1> DEFINE d == job[w].doc
           read == {r.id : r \in job[w].seen}
<1>s. Shape /\ TypeInv
  BY DEF Whole, Shape
<1>1. /\ d \in Docs /\ Only(d) /\ job[w].kind = "send"
      /\ job[w].phase = "commit"
      /\ \/ doc' = doc
         \/ /\ doc[d].status \in Known
            /\ doc'[d].signers = Linked(doc[d].signers, read)
            /\ doc'[d].crossed = doc[d].crossed
  BY <1>s, SentRow
<1>2. NextFine /\ Settles(w, d)
  <2>1. job' = Settled(w, d)
    BY DEF SendCommit
  <2> QED
    BY <1>s, <2>1, SettlingFine, SettledJob
<1>3. CASE doc' = doc
  <2>1. HasLinks(doc'[d])
    BY <1>1, <1>3 DEF LinkInv
  <2> QED
    BY <1>1, <1>2, <1>3, <2>1, LinksSettled
<1>4. CASE /\ doc[d].status \in Known
           /\ doc'[d].signers = Linked(doc[d].signers, read)
           /\ doc'[d].crossed = doc[d].crossed
  <2>1. doc[d].signers \in SUBSET SignerRow /\ IsFiniteSet(doc[d].signers)
    BY <1>s, <1>1 DEF TypeInv, Agreement, Shape, RowsAreIssued
  <2>2. /\ \A s \in doc'[d].signers : \E r \in doc[d].signers :
             s.id = r.id /\ (s.link <=> r.link \/ r.id \in read)
        /\ \A r \in doc[d].signers : \E s \in doc'[d].signers : s.id = r.id
    <3>1. PICK rows \in SUBSET SignerRow : rows = doc[d].signers
      BY <2>1
    <3>2. IsFiniteSet(rows) /\ doc'[d].signers = Linked(rows, read)
      BY <1>4, <2>1, <3>1
    <3> HIDE DEF read
    <3>3. /\ \A s \in Linked(rows, read) : \E r \in rows :
               s.id = r.id /\ (s.link <=> r.link \/ r.id \in read)
          /\ \A r \in rows : \E s \in Linked(rows, read) : s.id = r.id
      BY <3>2, LinkedRows
    <3> QED
      BY <3>1, <3>2, <3>3
  <2>3. ASSUME NEW seen, Sendable(seen, doc[d])
        PROVE  Sendable(seen, doc'[d])
    BY <1>4, <2>2, <2>3 DEF Sendable
  <2>4. Sendable(job[w].seen, doc[d])
    BY <1>1 DEF LinkInv, Ready
  <2>5. HasLinks(doc'[d])
    <3>1. CASE doc[d].crossed
      BY <1>4, <3>1 DEF HasLinks
    <3>2. CASE /\ doc[d].signers # {}
               /\ \A s \in doc[d].signers : \E r \in job[w].seen : r.id = s.id
      <4>1. \A s \in doc[d].signers : s.id \in read
        BY <3>2
      <4>2. \A s \in doc'[d].signers : s.link
        BY <2>2, <4>1
      <4>3. doc'[d].signers # {}
        BY <2>2, <3>2
      <4> QED
        BY <4>2, <4>3 DEF HasLinks
    <3> QED
      BY <1>4, <2>4, <3>1, <3>2 DEF Sendable
  <2> HIDE DEF d
  <2> QED
    BY <1>1, <1>2, <2>3, <2>5, LinksSettled
<1> QED
  BY <1>1, <1>3, <1>4

LEMMA LinksVoided ==
  ASSUME Whole, LinkInv, NEW w \in Workers, VoidRow(w)
  PROVE  LinkInv'
<1> DEFINE d == job[w].doc
<1>s. Shape /\ TypeInv
  BY DEF Whole, Shape
<1>1. /\ d \in Docs /\ Only(d)
      /\ \/ doc' = doc
         \/ doc[d].status \in Known /\ doc'[d].status = "void"
      /\ Rows(doc[d], doc'[d])
  BY <1>s, VoidedRow
<1>2. NextFine /\ Settles(w, d)
  <2>1. job' = Settled(w, d)
    BY DEF VoidRow
  <2> QED
    BY <1>s, <2>1, SettlingFine, SettledJob
<1>3. HasLinks(doc'[d])
  BY <1>1 DEF LinkInv, HasLinks
<1>4. \A seen : Sendable(seen, doc[d]) => Sendable(seen, doc'[d])
  BY <1>1 DEF Sendable, Rows
<1> HIDE DEF d
<1> QED
  BY <1>1, <1>2, <1>3, <1>4, LinksSettled

LEMMA LinksCreated ==
  ASSUME Whole, LinkInv, NEW w \in Workers, Create(w)
  PROVE  LinkInv'
<1>s. Shape /\ TypeInv
  BY DEF Whole, Shape
<1>1. NextFine
  BY WritingFine
<1>2. PICK d \in Docs :
        /\ doc[d].status = "none"
        /\ doc' = [doc EXCEPT ![d].status = "draft", ![d].file = TRUE,
                     ![d].stray = acct.status = "gone" \/ purge # NoPurge]
        /\ \/ job'[w] = NoJob
           \/ job'[w].kind = "use" /\ job'[w].phase \in {"ids", "askSigners"}
  <2>1. \E d \in Docs :
          /\ doc[d].status = "none"
          /\ doc' = [doc EXCEPT ![d].status = "draft", ![d].file = TRUE,
                       ![d].stray = acct.status = "gone" \/ purge # NoPurge]
          /\ \/ job'[w] = NoJob
             \/ /\ job[w].kind = "use" /\ job'[w].kind = job[w].kind
                /\ job'[w].phase = IF job[w].list = <<>>
                                   THEN "ids" ELSE "askSigners"
    BY <1>s, CreateJob
  <2> QED
    BY <2>1
<1>3. LeavesOthers(w)
  BY <1>s, CreateJob
<1>4. Only(d) /\ doc'[d].status = "draft"
  BY <1>s, <1>2, CreateRow
<1>5. \A e \in Docs : HasLinks(doc'[e])
  BY <1>4 DEF LinkInv, HasLinks, Only
<1>6. /\ job'[w].phase \notin Asked
      /\ ~(job'[w].kind = "send" /\ job'[w].phase \in {"freeze", "commit"})
  BY <1>2, NoJobType DEF Asked
<1>7. ASSUME NEW v \in Workers, v # w,
             job[v].phase \in Asked \/ job[v].kind = "send"
      PROVE  doc'[job'[v].doc] = doc[job[v].doc] /\ job'[v] = job[v]
  <2>1. job[v].doc \in Docs /\ doc[job[v].doc].status # "none"
    BY <1>7, DocNow
  <2> QED
    BY <1>2, <1>3, <1>4, <1>7, <2>1 DEF Only, LeavesOthers
<1>8. ASSUME NEW v \in Workers
      PROVE  /\ Told(job'[v], doc'[job'[v].doc])
             /\ Ready(job'[v], doc'[job'[v].doc])
  <2>1. CASE v = w
    BY <1>6, <2>1 DEF Told, Ready
  <2>2. CASE v # w
    <3>1. job'[v] = job[v]
      BY <1>3, <2>2 DEF LeavesOthers
    <3>2. CASE job[v].phase \in Asked \/ job[v].kind = "send"
      BY <1>7, <2>2, <3>2 DEF LinkInv
    <3>3. CASE ~(job[v].phase \in Asked \/ job[v].kind = "send")
      BY <3>1, <3>3 DEF Told, Ready
    <3> QED
      BY <3>2, <3>3
  <2> QED
    BY <2>1, <2>2
<1> QED
  BY <1>5, <1>8, LinksAfter DEF LinksNext

LEMMA LinksReplaced ==
  ASSUME Whole, LinkInv, NEW w \in Workers, PutSigners(w)
  PROVE  LinkInv'
<1> DEFINE d == job[w].doc
<1>s. Shape /\ TypeInv
  BY DEF Whole, Shape
<1>1. NextFine
  BY WritingFine
<1>2. LeavesOthers(w) /\ job[w].phase = "putSigners"
  BY <1>s, PutSignersJob
<1>3. job'[w] = NoJob \/ job'[w].phase = "ids"
  BY <1>s, PutSignersJob
<1>4. /\ job'[w].phase \notin Asked
      /\ ~(job'[w].kind = "send" /\ job'[w].phase \in {"freeze", "commit"})
  BY <1>3, NoJobType DEF Asked
<1>5. /\ d \in Docs /\ Only(d)
      /\ \/ doc' = doc
         \/ /\ doc'[d].status = doc[d].status
            /\ doc'[d].crossed <=>
                 doc[d].crossed \/ BeingSent(d) \/ job[w].late
  BY <1>s, SignersRow DEF Replaced
<1>6. Told(job[w], doc[d])
  BY DEF LinkInv
<1> HIDE DEF d
<1>7. \A e \in Docs : HasLinks(doc'[e])
  <2>1. HasLinks(doc'[d])
    BY <1>2, <1>5, <1>6 DEF LinkInv, HasLinks, Told, Asked, Closed
  <2> QED
    BY <1>5, <2>1 DEF LinkInv, Only
<1>8. ASSUME NEW v \in Workers
      PROVE  /\ Told(job'[v], doc'[job'[v].doc])
             /\ Ready(job'[v], doc'[job'[v].doc])
  <2>1. CASE v = w
    BY <1>4, <2>1 DEF Told, Ready
  <2>2. ASSUME v # w, job[v].phase \in Asked
        PROVE  Told(job[v], doc'[job[v].doc])
    <3>1. job[v].doc \in Docs
      BY <2>2, DocNow
    <3>2. doc'[job[v].doc].status = doc[job[v].doc].status
      BY <1>5, <3>1 DEF Only
    <3> QED
      BY <3>2 DEF LinkInv, Told, Closed
  <2>3. ASSUME v # w, job[v].kind = "send",
               job[v].phase \in {"freeze", "commit"}
        PROVE  Ready(job[v], doc'[job[v].doc])
    <3>1. job[v].doc \in Docs
      BY <2>3, DocNow
    <3>2. CASE job[v].doc = d
      <4>1. BeingSent(d)
        BY <2>3, <3>2 DEF BeingSent, Kind
      <4>2. doc'[d] = doc[d] \/ doc'[d].crossed
        BY <1>5, <4>1
      <4> QED
        BY <3>2, <4>2 DEF LinkInv, Ready, Sendable
    <3>3. CASE job[v].doc # d
      BY <1>5, <3>1, <3>3 DEF LinkInv, Only
    <3> QED
      BY <3>2, <3>3
  <2>4. ASSUME v # w
        PROVE  /\ Told(job[v], doc'[job[v].doc])
               /\ Ready(job[v], doc'[job[v].doc])
    <3>1. Told(job[v], doc'[job[v].doc])
      BY <2>2, <2>4 DEF Told
    <3>2. Ready(job[v], doc'[job[v].doc])
      BY <2>3, <2>4 DEF Ready
    <3> QED
      BY <3>1, <3>2
  <2> QED
    BY <1>2, <2>1, <2>4 DEF LeavesOthers
<1> QED
  BY <1>7, <1>8, LinksAfter DEF LinksNext

LEMMA LinkNext ==
  ASSUME Whole, LinkInv, [Next]_vars
  PROVE  LinkInv'
<1>s. Shape /\ TypeInv
  BY DEF Whole, Shape
<1>f. NextFine
  BY FineNext
<1>c. ASSUME NEW a
      PROVE  Calm(a, a)
  BY DEF Calm
<1>d. doc' = doc => \A e \in Docs : Calm(doc[e], doc'[e])
  BY <1>c
<1>m. ASSUME NEW v \in Workers,
             Alike(job[v], job'[v]), job'[v].late = job[v].late
      PROVE  Comes(job[v], job'[v])
  BY <1>m DEF Alike, Keeps, Comes
<1>k. ASSUME NEW v \in Workers, job'[v] = job[v]
      PROVE  Comes(job[v], job'[v])
  BY <1>k, <1>m DEF Alike, Keeps
<1>1. ASSUME NEW w \in Workers, Request(w)
      PROVE  LinkInv'
  <2>1. /\ doc' = doc /\ job'[w].phase = "auth"
        /\ \A v \in Workers : v # w => job'[v] = job[v]
    BY <1>1, <1>s, RequestJob DEF Arrives
  <2>2. Comes(job[w], job'[w])
    BY <2>1 DEF Comes, Asked
  <2>3. \A v \in Workers : Comes(job[v], job'[v])
    BY <1>k, <2>1, <2>2
  <2> QED
    BY <1>d, <1>f, <2>1, <2>3, LinksCalm
<1>2. ASSUME NEW w \in Workers, Step(w)
      PROVE  LinkInv'
  <2>1. CASE Create(w)
    BY <2>1, LinksCreated
  <2>2. CASE PutSigners(w)
    BY <2>2, LinksReplaced
  <2>3. CASE SendCommit(w)
    BY <2>3, LinksSent
  <2>4. CASE VoidRow(w)
    BY <2>4, LinksVoided
  <2>5. CASE RevokeKey(w)
    <3>1. /\ doc' = doc /\ job'[w] = NoJob
          /\ \A v \in Workers : v # w =>
               Alike(job[v], job'[v]) /\ job'[v].late = job[v].late
      BY <1>s, <2>5, RevokedJob
    <3>2. \A v \in Workers : Comes(job[v], job'[v])
      BY <1>m, <3>1, ComesNoJob
    <3> QED
      BY <1>d, <1>f, <3>1, <3>2, LinksCalm
  <2>6. CASE ~Create(w) /\ ~PutSigners(w) /\ ~SendCommit(w) /\ ~VoidRow(w)
             /\ ~RevokeKey(w)
    <3>1. LeavesOthers(w) /\ Comes(job[w], job'[w])
      BY <1>2, <2>6, ComesOn
    <3>2. \A v \in Workers : Comes(job[v], job'[v])
      BY <1>k, <3>1 DEF LeavesOthers
    <3>3. \A e \in Docs : Calm(doc[e], doc'[e])
      BY <1>2, <1>s, <2>6, CalmSteps
    <3> QED
      BY <1>f, <3>2, <3>3, LinksCalm
  <2> QED
    BY <2>1, <2>2, <2>3, <2>4, <2>5, <2>6
<1>3. ASSUME NEW w \in Workers, Crash(w)
      PROVE  LinkInv'
  <2>1. doc' = doc /\ LeavesOthers(w) /\ job'[w] \in {job[w], NoJob}
    BY <1>3, <1>s, CrashedJob
  <2>2. \A v \in Workers : Comes(job[v], job'[v])
    BY <1>k, <2>1, ComesNoJob DEF LeavesOthers
  <2> QED
    BY <1>d, <1>f, <2>1, <2>2, LinksCalm
<1>4. CASE Suspend \/ PurgeAccount
  <2>1. /\ doc' = doc
        /\ \A v \in Workers :
             Alike(job[v], job'[v]) /\ job'[v].late = job[v].late
    BY <1>4, <1>s, EndedJob
  <2> QED
    BY <1>d, <1>f, <1>m, <2>1, LinksCalm
<1>5. CASE Reinstate \/ PurgeRead \/ PurgeDocs \/ UNCHANGED vars
  <2>1. \A e \in Docs : Calm(doc[e], doc'[e])
    <3>1. CASE PurgeDocs
      <4>1. \A e \in Docs : IF e \in purge.ids THEN doc'[e].status = "gone"
                                               ELSE doc'[e] = doc[e]
        BY <1>s, <3>1, PurgedRows
      <4> QED
        BY <1>c, <4>1 DEF Calm
    <3> QED
      BY <1>5, <1>d, <3>1 DEF Reinstate, PurgeRead, vars
  <2>2. job' = job
    BY <1>5 DEF Reinstate, PurgeRead, PurgeDocs, vars
  <2> QED
    BY <1>f, <1>k, <2>1, <2>2, LinksCalm
<1> QED
  BY <1>1, <1>2, <1>3, <1>4, <1>5 DEF Next

LEMMA LinkInit ==
  ASSUME Init
  PROVE  LinkInv
<1>1. \A w \in Workers : job[w] = NoJob
  BY DEF Init
<1>2. \A d \in Docs : doc[d].status # "out"
  BY FirstDocFine DEF Init, NoDoc
<1> QED
  BY <1>1, <1>2, NoJobType DEF LinkInv, HasLinks, Told, Ready, Asked

LEMMA LinkAlways == Spec => []LinkInv
<1>1. Init => LinkInv
  BY LinkInit
<1>2. Whole /\ LinkInv /\ [Next]_vars => LinkInv'
  BY LinkNext
<1> QED
  BY <1>1, <1>2, WholeAlways, PTL DEF Spec

\* Once an agreement is out everyone who is asked to sign it has a link, unless
\* the signers were replaced between send()'s reading them and its commit, or by
\* a request that had found a draft before it.
THEOREM SentAlwaysHasLinks == Spec => []SentWithLinks
<1>1. LinkInv => SentWithLinks
  BY DEF LinkInv, HasLinks, SentWithLinks
<1> QED
  BY <1>1, LinkAlways, PTL

-----------------------------------------------------------------------------
(* What is out is kept                                                     *)

\* The agreement is still no draft, and laid out as it was.
Stays(d) == Closed(doc'[d]) /\ Layout(doc'[d]) = Layout(doc[d])

LEMMA SameStays ==
  ASSUME NEW d \in Docs, Closed(doc[d]), doc'[d] = doc[d]
  PROVE  Stays(d)
BY DEF Stays

\* Whoever writes to an agreement that is out, or voided, was told.
LEMMA WriterWasTold ==
  ASSUME Whole, LinkInv, NEW w \in Workers, NEW d \in Docs, Closed(doc[d]),
         PutSigners(w) \/ PutFields(w) \/ PutMode(w) \/ RemoveRows(w)
  PROVE  \/ Stays(d)
         \/ job[w].late /\ job[w].doc = d /\ job'[w] # job[w]
<1>s. Shape /\ TypeInv
  BY DEF Whole, Shape
<1>1. Only(job[w].doc)
  BY <1>s, SignersRow, FieldsRow, ModeRow, RemovedRow
<1>2. job[w].phase \in {"putSigners", "putFields", "mode", "remove"}
  BY DEF PutSigners, PutFields, PutMode, RemoveRows, At
<1>3. job'[w] = NoJob \/ job'[w].phase = "ids"
  <2>1. CASE PutSigners(w)
    BY <1>s, <2>1, PutSignersJob
  <2>2. CASE PutFields(w) \/ PutMode(w) \/ RemoveRows(w)
    BY <1>s, <2>2, DoneJob DEF PutFields, PutMode, RemoveRows
  <2> QED
    BY <2>1, <2>2
<1>4. job'[w] # job[w]
  BY <1>2, <1>3, NoJobType
<1>5. CASE job[w].doc = d
  BY <1>2, <1>4, <1>5 DEF LinkInv, Told, Asked
<1>6. CASE job[w].doc # d
  BY <1>1, <1>6, SameStays DEF Only
<1> QED
  BY <1>5, <1>6

\* A message, a file, another agreement, the links of a second send, a void:
\* none of them changes what was laid out.
LEMMA OthersKeep ==
  ASSUME Whole, NEW w \in Workers, NEW d \in Docs, Closed(doc[d]),
         \/ PutMessage(w) \/ Unlink(w) \/ Create(w) \/ SendCommit(w)
         \/ VoidRow(w)
  PROVE  Stays(d)
<1>s. Shape /\ TypeInv
  BY DEF Whole, Shape
<1>1. CASE PutMessage(w) \/ Unlink(w)
  <2>1. Alone(doc[d], doc'[d])
    BY <1>1, <1>s, MessageRow, UnlinkRow
  <2> QED
    BY <2>1 DEF Alone, Stays, Closed, Layout
<1>2. CASE Create(w)
  <2>1. PICK e \in Docs :
          /\ doc[e].status = "none"
          /\ doc' = [doc EXCEPT ![e].status = "draft", ![e].file = TRUE,
                       ![e].stray = acct.status = "gone" \/ purge # NoPurge]
    BY <1>2 DEF Create
  <2>2. Only(e)
    BY <1>s, <2>1, CreateRow
  <2> QED
    BY <2>1, <2>2, SameStays DEF Only, Closed
<1>3. CASE SendCommit(w)
  <2> DEFINE read == {r.id : r \in job[w].seen}
  <2>1. /\ Only(job[w].doc)
        /\ \/ doc' = doc
           \/ /\ doc'[job[w].doc].status = "out"
              /\ doc'[job[w].doc].signers =
                   Linked(doc[job[w].doc].signers, read)
              /\ doc'[job[w].doc].fields = doc[job[w].doc].fields
              /\ doc'[job[w].doc].mode = doc[job[w].doc].mode
    BY <1>3, <1>s, SentRow
  <2> HIDE DEF read
  <2>2. CASE doc' = doc \/ job[w].doc # d
    BY <2>1, <2>2, SameStays DEF Only
  <2>3. CASE doc' # doc /\ job[w].doc = d
    <3>1. /\ doc'[d].status = "out"
          /\ doc'[d].signers = Linked(doc[d].signers, read)
          /\ doc'[d].fields = doc[d].fields /\ doc'[d].mode = doc[d].mode
      BY <2>1, <2>3
    <3>2. PICK rows \in SUBSET SignerRow :
            rows = doc[d].signers /\ IsFiniteSet(rows)
      BY <1>s DEF TypeInv, Agreement, Shape, RowsAreIssued
    <3>3. {[s EXCEPT !.link = FALSE] : s \in Linked(rows, read)}
            = {[r EXCEPT !.link = FALSE] : r \in rows}
      BY <3>2, LinkedLayout
    <3> QED
      BY <3>1, <3>2, <3>3 DEF Stays, Closed, Layout
  <2> QED
    BY <2>2, <2>3
<1>4. CASE VoidRow(w)
  <2>1. /\ Only(job[w].doc)
        /\ Rows(doc[d], doc'[d])
        /\ doc'[d].fields = doc[d].fields /\ doc'[d].mode = doc[d].mode
        /\ doc' = doc \/ doc'[job[w].doc].status = "void"
    BY <1>4, <1>s, VoidedRow
  <2>2. CASE doc' = doc \/ job[w].doc # d
    BY <2>1, <2>2, SameStays DEF Only
  <2>3. CASE doc' # doc /\ job[w].doc = d
    BY <2>1, <2>3 DEF Stays, Closed, Layout, Rows
  <2> QED
    BY <2>2, <2>3
<1> QED
  BY <1>1, <1>2, <1>3, <1>4

LEMMA KeptOrTold ==
  ASSUME Whole, LinkInv, [Next]_vars, NEW d \in Docs, Closed(doc[d])
  PROVE  \/ Stays(d)
         \/ \E w \in Workers :
              job[w].late /\ job[w].doc = d /\ job'[w] # job[w]
         \/ PurgeDocs
<1>s. TypeInv
  BY DEF Whole, Shape
<1>0. doc' = doc => Stays(d)
  BY SameStays
<1>1. ASSUME NEW w \in Workers, Step(w)
      PROVE  \/ Stays(d)
             \/ job[w].late /\ job[w].doc = d /\ job'[w] # job[w]
  BY <1>0, <1>1, OthersWriteNothing, WriterWasTold, OthersKeep DEF Writes
<1>2. ASSUME NEW w \in Workers, Request(w) \/ Crash(w)
      PROVE  doc' = doc
  BY <1>2, <1>s, RequestJob, CrashedJob
<1>3. CASE Suspend \/ Reinstate \/ PurgeRead \/ PurgeAccount \/ UNCHANGED vars
  BY <1>0, <1>3 DEF Suspend, Reinstate, PurgeRead, PurgeAccount, vars
<1> QED
  BY <1>0, <1>1, <1>2, <1>3 DEF Next

\* Once an agreement is out, or voided, its signers, fields and order stay as
\* they are and it is not removed, but for requests that had found it a draft
\* when it went out or was voided, and for the operator's purge.
THEOREM SentAlwaysKept == Spec => SentIsKept
<1>1. Whole /\ LinkInv /\ [Next]_vars =>
        [\A d \in Docs :
           Closed(doc[d]) /\ ~(Closed(doc[d])' /\ UNCHANGED Layout(doc[d])) =>
             \/ \E w \in Workers :
                  job[w].late /\ job[w].doc = d /\ job'[w] # job[w]
             \/ PurgeDocs]_vars
  <2> SUFFICES ASSUME Whole, LinkInv, [Next]_vars, NEW d \in Docs,
                      Closed(doc[d]),
                      ~(Closed(doc[d])' /\ UNCHANGED Layout(doc[d]))
               PROVE  \/ \E w \in Workers :
                           job[w].late /\ job[w].doc = d /\ job'[w] # job[w]
                      \/ PurgeDocs
    OBVIOUS
  <2>1. Stays(d) => Closed(doc[d])' /\ UNCHANGED Layout(doc[d])
    BY DEF Stays, Closed, Layout
  <2> QED
    BY <2>1, KeptOrTold
<1> QED
  BY <1>1, WholeAlways, LinkAlways, PTL DEF Spec, SentIsKept

=============================================================================
