------------------------------ MODULE DraftApi ------------------------------
(***************************************************************************)
(* The sender API over the drafts and templates of ONE account: the        *)
(* handlers of sign/routers/mysign.py, the authorisation they pass         *)
(* (sign/http_helpers.py, sign/sign_api_keys.py, can_send() of             *)
(* sign/sign_accounts.py), the layout operations of sign/esign.py and the  *)
(* operator's sign/sign_ops.py.                                            *)
(*                                                                         *)
(* Every read and every commit of a request is a step of its own.  Page    *)
(* operations are DraftPages; what follows a send is Envelope; how the     *)
(* account signs in is SignIn.  A write transaction is one step: SQLite    *)
(* has one writer at a time.                                               *)
(*                                                                         *)
(* An operator named Op_Variant is Op with a plausible bug in it: the      *)
(* properties are tested against it, and no specification uses it.         *)
(***************************************************************************)
EXTENDS Integers, Sequences, FiniteSets

CONSTANTS
  Docs,            \* ids of agreements
  Parties,         \* people, by email address
  Workers,         \* request threads
  SignerLists,     \* what a client posts as signers
  RecipientLists,  \* what a client posts as recipients of a template
  FirstSigners,    \* the signers of the draft there is in the beginning
  MaxRequests,     \* bound: requests, the operator's among them
  MaxFaults        \* bound: crashes

\* A client's signer or a template's role.
Role == [party : Parties, order : Nat]

ASSUME DraftApiAssumption ==
  /\ SignerLists \cup {FirstSigners} \subseteq Seq(Role)
  /\ FirstSigners # <<>>
  /\ RecipientLists \subseteq Seq(Parties)
  /\ "nobody" \notin Parties
  /\ {MaxRequests, MaxFaults} \subseteq Nat

VARIABLES
  acct,      \* the account and its credentials
  doc,       \* the agreements, with their signers and fields
  template,  \* the template, if there is one
  job,       \* what each worker is doing
  purge,     \* the operator's purge of the account
  requests, faults

vars == <<acct, doc, template, job, purge, requests, faults>>

\* cookie: the session's version is the account's.  API keys are numbered as
\* they are issued; those in keys stand.
Account ==
  [status : {"active", "suspended", "gone"}, verified : BOOLEAN,
   cookie : BOOLEAN, issued : Nat, keys : SUBSET Nat]

\* A row of agreement_signers; its party is issued[id].
SignerRow == [id : Nat, order : Nat, link : BOOLEAN]

\* A row of agreement_fields; signer 0 is NULL.  who and loose are history:
\* whose field it is meant to be, and that it has lost its signer on the way
\* (through a template made, or used, while the signers were being replaced).
FieldRow == [signer : Nat, who : Parties \cup {"nobody"}, loose : BOOLEAN]

\* issued lists the parties of the signer ids ever given out (AUTOINCREMENT).
\* crossed and stray are history: its signers were replaced while it was
\* being sent; it was created while its owner was being purged.
Agreement ==
  [status : {"none", "draft", "out", "void", "gone"}, file : BOOLEAN,
   mode : {"parallel", "sequential"}, message : {"first", "other"},
   signers : SUBSET SignerRow,
   fields : SUBSET FieldRow, issued : Seq(Parties),
   crossed : BOOLEAN, stray : BOOLEAN]

\* In fields, signer is an index into roles.
Template ==
  [made : BOOLEAN, source : BOOLEAN, roles : Seq(Role),
   fields : SUBSET FieldRow]

Kinds == {"create", "signers", "fields", "detect", "order", "send", "void",
          "delete", "template", "explicit", "use", "issue", "revoke"}
Phases == {"idle", "auth", "hash", "own", "paid", "message", "row", "rows",
           "layout", "freeze", "unlink", "read", "askSigners", "putSigners",
           "ids", "askFields", "putFields", "mode", "commit", "void",
           "remove", "insert", "create", "key"}

\* What a client says of a field it places: the party, or the id it knows.
Ask == [signer : Nat, who : Parties \cup {"nobody"}]

\* via is the number of the key, or 0 for the cookie.  late and withdrawn are
\* history: the document went out, or was voided, after the last look at its
\* status; what was taken away after the last look at it.
Job ==
  [kind : Kinds, phase : Phases, via : Nat,
   doc : Docs \cup {"none"}, ask : Ask, list : Seq(Role),
   seen : SUBSET SignerRow, fields : SUBSET FieldRow, late : BOOLEAN,
   withdrawn : SUBSET {"account", "credential"}]

\* ids: the agreements that were looked up.
Purge == [at : {"idle", "docs", "account"}, ids : SUBSET Docs]

TypeOK ==
  /\ acct \in Account
  /\ \A d \in Docs :
       /\ DOMAIN doc[d] = {"status", "file", "mode", "message", "signers",
                           "fields", "issued", "crossed", "stray"}
       /\ doc[d].status \in {"none", "draft", "out", "void", "gone"}
       /\ doc[d].mode \in {"parallel", "sequential"}
       /\ doc[d].message \in {"first", "other"}
       /\ \A s \in doc[d].signers :
            s \in SignerRow /\ s.id \in 1 .. Len(doc[d].issued)
       /\ \A f \in doc[d].fields : f \in FieldRow
       /\ {doc[d].file, doc[d].crossed, doc[d].stray} \subseteq BOOLEAN
  /\ template.roles \in Seq(Role)
  /\ \A f \in template.fields : f \in FieldRow
  /\ \A w \in Workers :
       /\ job[w].kind \in Kinds /\ job[w].phase \in Phases
       /\ job[w].via \in 0 .. acct.issued
       /\ job[w].doc \in Docs \cup {"none"}
       /\ job[w].ask \in Ask /\ job[w].list \in Seq(Role)
       /\ \A s \in job[w].seen : s \in SignerRow
       /\ \A f \in job[w].fields : f \in FieldRow
       /\ job[w].withdrawn \subseteq {"account", "credential"}
  /\ purge \in Purge
  /\ requests \in Nat
  /\ faults \in Nat

NoAsk == [signer |-> 0, who |-> "nobody"]

NoJob == [kind |-> "create", phase |-> "idle", via |-> 0,
          doc |-> "none", ask |-> NoAsk, list |-> <<>>, seen |-> {},
          fields |-> {}, late |-> FALSE, withdrawn |-> {}]

NoTemplate == [made |-> FALSE, source |-> FALSE, roles |-> <<>>, fields |-> {}]

NoPurge == [at |-> "idle", ids |-> {}]

NoDoc == [status |-> "none", file |-> FALSE, mode |-> "parallel",
          message |-> "first", signers |-> {}, fields |-> {}, issued |-> <<>>,
          crossed |-> FALSE, stray |-> FALSE]

-----------------------------------------------------------------------------
(* Rows                                                                    *)

\* The rows that set_signers() inserts, in list order, with new ids.
Inserted(issued, list) ==
  {[id |-> Len(issued) + i, order |-> list[i].order, link |-> FALSE] :
     i \in DOMAIN list}

WithSigners(a, list) ==
  [a EXCEPT !.signers = Inserted(a.issued, list),
            !.issued = @ \o [i \in DOMAIN list |-> list[i].party]]

\* A draft whose last signer has a field.
FirstDoc ==
  [WithSigners([NoDoc EXCEPT !.status = "draft", !.file = TRUE], FirstSigners)
     EXCEPT !.fields = {[signer |-> Len(FirstSigners), loose |-> FALSE,
                         who |-> FirstSigners[Len(FirstSigners)].party]}]

\* The rows one after the other, in every order.
Listings(rows) ==
  {s \in [1 .. Cardinality(rows) -> rows] :
     \A i, j \in DOMAIN s : i < j => s[i] # s[j]}

\* ORDER BY id.
ById(rows) ==
  {s \in Listings(rows) : \A i, j \in DOMAIN s : i < j => s[i].id < s[j].id}

\* ORDER BY sign_order, which leaves open how equal ones come.
ByOrder(rows) ==
  {s \in Listings(rows) :
     \A i, j \in DOMAIN s : i < j => s[i].order <= s[j].order}

\* The position of the row with this id, or 0.
Position(rows, id) ==
  IF \E i \in DOMAIN rows : rows[i].id = id
  THEN CHOOSE i \in DOMAIN rows : rows[i].id = id
  ELSE 0

Init ==
  /\ acct \in [status : {"active"}, verified : BOOLEAN, cookie : {TRUE},
               issued : {1}, keys : {{1}}]
  /\ doc = [d \in Docs |-> IF d = CHOOSE x \in Docs : TRUE
                           THEN FirstDoc ELSE NoDoc]
  /\ template = NoTemplate
  /\ job = [w \in Workers |-> NoJob]
  /\ purge = NoPurge
  /\ requests = 0
  /\ faults = 0

-----------------------------------------------------------------------------
At(w, phase) == job[w].phase = phase
Goto(w, phase) == job' = [job EXCEPT ![w].phase = phase]
Done(w) == job' = [job EXCEPT ![w] = NoJob]
Kind(w) == job[w].kind
The(w) == doc[job[w].doc]
Known == {"draft", "out", "void"}
Exists(w) == The(w).status \in Known

\* An agreement that is there, and no draft.
Closed(a) == a.status \in {"out", "void"}

\* One more request, of the client or of the operator.
Act ==
  /\ requests < MaxRequests
  /\ requests' = requests + 1

BeginVia(w, j, vias) ==
  /\ At(w, "idle")
  /\ Act
  /\ \E via \in vias :
       job' = [job EXCEPT ![w] = [j EXCEPT !.phase = "auth", !.via = via]]
  /\ UNCHANGED <<acct, doc, template, purge, faults>>

Begin(w, j) == BeginVia(w, j, 0 .. acct.issued)

NewJob(kind, d) == [NoJob EXCEPT !.kind = kind, !.doc = d]

-----------------------------------------------------------------------------
(* Requests                                                                *)

PostCreate(w) == Begin(w, NewJob("create", "none"))

PostSigners(w, d) ==
  \E list \in SignerLists :
    Begin(w, [NewJob("signers", d) EXCEPT !.list = list])

\* One field: by the signer's email, by an id that was once this document's,
\* or by neither.
PostFields(w, d) ==
  \E ask \in {NoAsk} \cup {[signer |-> 0, who |-> p] : p \in Parties}
               \cup {[signer |-> i, who |-> doc[d].issued[i]] :
                       i \in DOMAIN doc[d].issued} :
    Begin(w, [NewJob("fields", d) EXCEPT !.ask = ask])

PostDetect(w, d) == Begin(w, NewJob("detect", d))

PostOrder(w, d) == Begin(w, NewJob("order", d))

PostSend(w, d) == Begin(w, NewJob("send", d))

PostVoid(w, d) == Begin(w, NewJob("void", d))

PostDelete(w, d) == Begin(w, NewJob("delete", d))

\* Keys are issued and revoked with the cookie only.
PostKey(w) ==
  \E kind \in {"issue", "revoke"} : BeginVia(w, NewJob(kind, "none"), {0})

\* The layout of an agreement is saved; the model has room for one template.
PostTemplate(w, d) == ~template.made /\ Begin(w, NewJob("template", d))

\* The client lays out the template itself, over the pages of an agreement: a
\* field of the last role, or one past it.
PostExplicit(w, d) ==
  \E list \in SignerLists \ {<<>>} :
    \E f \in {[signer |-> Len(list), who |-> list[Len(list)].party],
              [signer |-> Len(list) + 1, who |-> "nobody"]} :
      /\ ~template.made
      /\ Begin(w, [NewJob("explicit", d) EXCEPT !.list = list, !.fields =
                     {[signer |-> f.signer, who |-> f.who, loose |-> FALSE]}])

\* The recipients travel as roles until the template is read.
PostUse(w) ==
  \E recipients \in RecipientLists :
    Begin(w, [NewJob("use", "none") EXCEPT
                !.list = [i \in DOMAIN recipients |->
                            [party |-> recipients[i], order |-> i]]])

\* Where the handler goes once the caller is known.
First(w) ==
  CASE Kind(w) = "create" -> "create"
    [] Kind(w) = "use" -> "read"
    [] Kind(w) \in {"detect", "template", "explicit"} -> "row"
    [] Kind(w) \in {"issue", "revoke"} -> "key"
    [] OTHER -> "own"

\* _sign_acct(): the account of the cookie.
ByCookie == acct.cookie /\ acct.status = "active"

\* _require_sign_acct(): the cookie's account; or else the key's row, ...
Authenticate(w) ==
  /\ At(w, "auth")
  /\ IF job[w].via = 0
     THEN IF ByCookie THEN Goto(w, First(w)) ELSE Done(w)
     ELSE IF job[w].via \in acct.keys THEN Goto(w, "hash") ELSE Done(w)
  /\ UNCHANGED <<acct, doc, template, purge, requests, faults>>

\* ... whose slow hash is compared before the account is read.
Resolve(w) ==
  /\ At(w, "hash")
  /\ IF acct.status = "active" THEN Goto(w, First(w)) ELSE Done(w)
  /\ UNCHANGED <<acct, doc, template, purge, requests, faults>>

\* _require_owned().
Own(w) ==
  /\ At(w, "own")
  /\ IF ~Exists(w) THEN Done(w)
     ELSE Goto(w, CASE Kind(w) = "send" -> "paid"
                    [] Kind(w) = "signers" -> "askSigners"
                    [] Kind(w) = "void" -> "void"
                    [] OTHER -> "row")
  /\ UNCHANGED <<acct, doc, template, purge, requests, faults>>

Paid_Snapshot(w) ==
  /\ At(w, "paid")
  /\ IF acct.verified THEN Goto(w, "message") ELSE Done(w)
  /\ UNCHANGED <<acct, doc, template, purge, requests, faults>>

\* can_send() reads the account again; a verified address stays verified.
Paid(w) ==
  /\ At(w, "paid")
  /\ IF acct.status = "active" /\ acct.verified THEN Goto(w, "message")
                                                ELSE Done(w)
  /\ UNCHANGED <<acct, doc, template, purge, requests, faults>>

\* update_message() asks for no status: the message of a document that is out
\* is replaced too.  A send may leave the message alone.
PutMessage(w) ==
  /\ At(w, "message")
  /\ doc' = IF Exists(w) THEN [doc EXCEPT ![job[w].doc].message = "other"]
                         ELSE doc
  /\ Goto(w, "row")
  /\ UNCHANGED <<acct, template, purge, requests, faults>>

KeepMessage(w) ==
  /\ At(w, "message")
  /\ Goto(w, "row")
  /\ UNCHANGED <<acct, doc, template, purge, requests, faults>>

-----------------------------------------------------------------------------
(* Reading: get_agreement() reads the agreement, its signers and its       *)
(* fields one after the other                                              *)

\* A template is made from a document whatever its status.
ForTemplate(w) == Kind(w) \in {"template", "explicit"}

\* The row, and what the handler asks of its status.
ReadRow(w) ==
  /\ At(w, "row")
  /\ \/ /\ The(w).status = "draft" \/ (Exists(w) /\ ForTemplate(w))
        /\ Goto(w, CASE Kind(w) \in {"fields", "send", "template"} -> "rows"
                     [] Kind(w) = "explicit" -> "insert"
                     [] Kind(w) = "detect" -> "layout"
                     [] Kind(w) = "order" -> "mode"
                     [] Kind(w) = "delete" -> "unlink")
     \/ /\ The(w).status # "draft" /\ ~(Exists(w) /\ ForTemplate(w))
        /\ Done(w)
  /\ UNCHANGED <<acct, doc, template, purge, requests, faults>>

\* place_fields(): the signer that the email names, the id that is given, or
\* the only signer there is.
Placed(ask, rows, issued) ==
  {f \in [signer : {ask.signer} \cup {r.id : r \in rows}, who : Parties,
          loose : {FALSE}] :
     /\ f.signer # 0
     /\ f.who = issued[f.signer]
     /\ CASE ask.signer # 0 -> f.signer = ask.signer
          [] ask.signer = 0 /\ ask.who # "nobody" -> f.who = ask.who
          [] OTHER -> Cardinality(rows) = 1}

\* The signers.  send() asks that there is one; place_fields() resolves the
\* field, or refuses the request.
ReadRows(w) ==
  LET rows == The(w).signers
      placed == Placed(job[w].ask, rows, The(w).issued) IN
  /\ At(w, "rows")
  /\ \/ /\ Kind(w) \in {"send", "template"}
        /\ Kind(w) = "send" => rows # {}
        /\ job' = [job EXCEPT ![w].seen = rows, ![w].phase =
                     IF Kind(w) = "send" THEN "freeze" ELSE "layout"]
     \/ /\ Kind(w) = "fields"
        /\ \E f \in placed :
             job' = [job EXCEPT ![w].phase = "askFields", ![w].fields = {f}]
     \/ /\ \/ Kind(w) = "send" /\ rows = {}
           \/ Kind(w) = "fields" /\ placed = {}
        /\ Done(w)
  /\ UNCHANGED <<acct, doc, template, purge, requests, faults>>

\* What is found in the text is nobody's field.
Detected == [signer |-> 0, who |-> "nobody", loose |-> FALSE]

\* The fields.  autodetect_prefill_owned() adds to them what it finds.
ReadLayout(w) ==
  LET fields == The(w).fields IN
  /\ At(w, "layout")
  /\ CASE Kind(w) = "template" ->
            job' = [job EXCEPT ![w].phase = "insert", ![w].fields = fields]
       [] Kind(w) = "detect" /\ The(w).file /\ Detected \notin fields ->
            job' = [job EXCEPT ![w].phase = "askFields",
                               ![w].fields = fields \cup {Detected}]
       [] OTHER -> Done(w)
  /\ UNCHANGED <<acct, doc, template, purge, requests, faults>>

-----------------------------------------------------------------------------
(* Drafts                                                                  *)

\* create_agreement(): the file, and the row in one commit.  An agreement
\* that is made while its owner is purged may outlive the owner.
Create(w) ==
  /\ At(w, "create")
  /\ \E d \in Docs :
       /\ doc[d].status = "none"
       /\ doc' = [doc EXCEPT ![d].status = "draft", ![d].file = TRUE,
                    ![d].stray = acct.status = "gone" \/ purge # NoPurge]
       /\ IF Kind(w) = "create" THEN Done(w)
          ELSE job' = [job EXCEPT ![w].doc = d, ![w].phase =
                 IF job[w].list = <<>> THEN "ids" ELSE "askSigners"]
  /\ UNCHANGED <<acct, template, purge, requests, faults>>

AskSigners_Never(w) ==
  /\ At(w, "askSigners")
  /\ Goto(w, "putSigners")
  /\ UNCHANGED <<acct, doc, template, purge, requests, faults>>

\* set_signers() asks for itself, and takes a missing agreement for a draft.
AskSigners(w) ==
  /\ At(w, "askSigners")
  /\ IF ~Closed(The(w)) THEN Goto(w, "putSigners")
     ELSE IF Kind(w) = "use" THEN Goto(w, "ids") ELSE Done(w)
  /\ UNCHANGED <<acct, doc, template, purge, requests, faults>>

\* A send of this document has read the signers it will mail.
BeingSent(d) ==
  \E w \in Workers : /\ Kind(w) = "send" /\ job[w].doc = d
                     /\ job[w].phase \in {"freeze", "commit"}

\* The signers are replaced, in one commit; fields that point at the old ones
\* are left as they are.  The rows of a missing agreement are seen by nobody.
PutSigners(w) ==
  LET d == job[w].doc
      new == [WithSigners(doc[d], job[w].list) EXCEPT
                !.crossed = @ \/ BeingSent(d) \/ job[w].late] IN
  /\ At(w, "putSigners")
  /\ doc' = IF Exists(w) THEN [doc EXCEPT ![d] = new] ELSE doc
  /\ IF Kind(w) = "use"
     THEN job' = [job EXCEPT ![w].phase = "ids", ![w].late = FALSE,
                             ![w].seen = IF Exists(w) THEN new.signers ELSE {}]
     ELSE Done(w)
  /\ UNCHANGED <<acct, template, purge, requests, faults>>

AskFields_Never(w) ==
  /\ At(w, "askFields")
  /\ Goto(w, "putFields")
  /\ UNCHANGED <<acct, doc, template, purge, requests, faults>>

\* set_fields() asks again, whatever its caller has asked before.
AskFields(w) ==
  /\ At(w, "askFields")
  /\ IF ~Closed(The(w)) THEN Goto(w, "putFields") ELSE Done(w)
  /\ UNCHANGED <<acct, doc, template, purge, requests, faults>>

\* The fields are replaced, in one commit.
PutFields(w) ==
  /\ At(w, "putFields")
  /\ doc' = IF Exists(w) THEN [doc EXCEPT ![job[w].doc].fields = job[w].fields]
                         ELSE doc
  /\ Done(w)
  /\ UNCHANGED <<acct, template, purge, requests, faults>>

\* set_order_mode_owned().
PutMode(w) ==
  /\ At(w, "mode")
  /\ \E mode \in {"parallel", "sequential"} :
       doc' = IF Exists(w) THEN [doc EXCEPT ![job[w].doc].mode = mode] ELSE doc
  /\ Done(w)
  /\ UNCHANGED <<acct, template, purge, requests, faults>>

\* delete_draft_owned(): the file goes first, ...
Unlink(w) ==
  /\ At(w, "unlink")
  /\ doc' = [doc EXCEPT ![job[w].doc].file = FALSE]
  /\ Goto(w, "remove")
  /\ UNCHANGED <<acct, template, purge, requests, faults>>

Removed(a) ==
  [a EXCEPT !.status = "gone", !.file = FALSE, !.signers = {}, !.fields = {}]

\* ... then all rows in one commit.
RemoveRows(w) ==
  /\ At(w, "remove")
  /\ doc' = [doc EXCEPT ![job[w].doc] = Removed(@)]
  /\ Done(w)
  /\ UNCHANGED <<acct, template, purge, requests, faults>>

\* send() freezes a copy of the file, or gives up.
Freeze(w) ==
  /\ At(w, "freeze")
  /\ IF The(w).file THEN Goto(w, "commit") ELSE Done(w)
  /\ UNCHANGED <<acct, doc, template, purge, requests, faults>>

\* Whoever has asked for the status of d last, and is still to write.
HasAsked(v, d) ==
  /\ job[v].doc = d
  /\ job[v].phase \in {"putSigners", "putFields", "mode", "unlink", "remove"}

\* Worker w has ended the time in which d could be laid out.
Settled(w, d) ==
  [v \in Workers |->
     IF v = w THEN NoJob ELSE [job[v] EXCEPT !.late = @ \/ HasAsked(v, d)]]

\* The links go to the signers that were read, by id, and the document is
\* out, in one commit, whatever it has become since it was read.
SendCommit(w) ==
  LET d == job[w].doc
      read == {r.id : r \in job[w].seen} IN
  /\ At(w, "commit")
  /\ doc' = IF ~Exists(w) THEN doc
            ELSE [doc EXCEPT ![d].status = "out", ![d].signers =
                    {[r EXCEPT !.link = @ \/ r.id \in read] : r \in @}]
  /\ job' = Settled(w, d)
  /\ UNCHANGED <<acct, template, purge, requests, faults>>

\* void() asks for no status: a draft is voided too.
VoidRow(w) ==
  LET d == job[w].doc IN
  /\ At(w, "void")
  /\ doc' = IF Exists(w) THEN [doc EXCEPT ![d].status = "void"] ELSE doc
  /\ job' = Settled(w, d)
  /\ UNCHANGED <<acct, template, purge, requests, faults>>

-----------------------------------------------------------------------------
(* Templates                                                               *)

Indexed_NotFound(rows, f) ==
  LET at == Position(rows, f.signer) IN
  [f EXCEPT !.signer = IF at = 0 THEN -1 ELSE at, !.loose = @ \/ at = 0]

\* _tpl_snapshot_signers(): where in the roles the field's signer is.
Indexed(rows, f) ==
  LET at == Position(rows, f.signer) IN
  [f EXCEPT !.signer = IF at = 0 THEN 1 ELSE at, !.loose = @ \/ at = 0]

\* create_template(): roles and fields as they were read; a field whose
\* signer is not among the roles becomes the first role's.  An explicit
\* layout is taken as it is.
Insert(w) ==
  /\ At(w, "insert")
  /\ \E rows \in ByOrder(job[w].seen) :
       template' =
         [made |-> TRUE, source |-> The(w).file,
          roles |-> IF Kind(w) = "explicit" THEN job[w].list
                    ELSE [i \in DOMAIN rows |->
                            [party |-> The(w).issued[rows[i].id],
                             order |-> rows[i].order]],
          fields |-> IF Kind(w) = "explicit" THEN job[w].fields
                     ELSE {Indexed(rows, f) : f \in job[w].fields}]
  /\ Done(w)
  /\ UNCHANGED <<acct, doc, purge, requests, faults>>

\* The recipients take the place of the roles, one by one; more of them are
\* appended.
Filled(roles, recipients) ==
  [i \in 1 .. (IF Len(roles) > Len(recipients) THEN Len(roles)
                                               ELSE Len(recipients)) |->
     [party |-> IF i <= Len(recipients) THEN recipients[i].party
                                        ELSE roles[i].party,
      order |-> IF i <= Len(roles) THEN roles[i].order ELSE i]]

\* Whose field it is now: that of whoever took the place of its party, or, if
\* the party has several, the place that the field is on.
Heir(roles, list, f) ==
  LET places == {i \in DOMAIN roles : roles[i].party = f.who}
      place == IF f.signer \in places THEN f.signer
                                      ELSE CHOOSE i \in places : TRUE IN
  IF places = {} THEN f ELSE [f EXCEPT !.who = list[place].party]

\* instantiate_agreement_from_template() reads the template once.
ReadTemplate(w) ==
  LET list == Filled(template.roles, job[w].list) IN
  /\ At(w, "read")
  /\ IF template.made /\ template.source
     THEN job' = [job EXCEPT ![w].phase = "create", ![w].list = list,
                    ![w].fields = {Heir(template.roles, list, f) :
                                     f \in template.fields}]
     ELSE Done(w)
  /\ UNCHANGED <<acct, doc, template, purge, requests, faults>>

\* The field gets the id of the row at its index, or NULL.
Mapped(f, rows, own) ==
  [f EXCEPT !.signer = IF f.signer <= Len(rows) THEN rows[f.signer].id ELSE 0,
            !.loose = @ \/ ~own]

NewIds_ByOrder(rows) == ByOrder(rows)

\* "ORDER BY sign_order can tie on parallel signers": by id.
NewIds(rows) == ById(rows)

\* The rows are read back; another request may have replaced them by then.
ReadIds(w) ==
  LET mine == IF job[w].list = <<>> THEN {} ELSE The(w).signers IN
  /\ At(w, "ids")
  /\ \E rows \in NewIds(mine) :
       IF job[w].fields = {} THEN Done(w)
       ELSE job' = [job EXCEPT ![w].phase = "askFields", ![w].fields =
              {Mapped(f, rows, mine = job[w].seen) : f \in job[w].fields}]
  /\ UNCHANGED <<acct, doc, template, purge, requests, faults>>

-----------------------------------------------------------------------------
(* The account                                                             *)

\* The request has looked at the account, or the credential, for the last
\* time; can_send() looks at the account once more.
HasLooked(w, what) ==
  /\ job[w].phase \notin {"idle", "auth"}
  /\ what = "account" =>
       job[w].phase # "hash" /\ (Kind(w) = "send" =>
                                   job[w].phase \notin {"own", "paid"})

Withdrawn(what, from) ==
  [w \in Workers |->
     [job[w] EXCEPT !.withdrawn =
        @ \cup {x \in what : HasLooked(w, x) /\
                  (x = "credential" => job[w].via = from)}]]

\* issue(), for the account that was read before its slow hash.
IssueKey(w) ==
  /\ At(w, "key") /\ Kind(w) = "issue"
  /\ acct' = [acct EXCEPT !.issued = @ + 1, !.keys = @ \cup {acct.issued + 1}]
  /\ Done(w)
  /\ UNCHANGED <<doc, template, purge, requests, faults>>

\* revoke(), of one of the account's keys.
RevokeKey(w) ==
  /\ At(w, "key") /\ Kind(w) = "revoke"
  /\ \E k \in 1 .. acct.issued :
       /\ acct' = [acct EXCEPT !.keys = @ \ {k}]
       /\ job' = [Withdrawn({"credential"}, k) EXCEPT ![w] = NoJob]
  /\ UNCHANGED <<doc, template, purge, requests, faults>>

\* sign_ops.set_status(): suspending also ends the sessions.
Suspend ==
  /\ Act
  /\ acct.status = "active"
  /\ acct' = [acct EXCEPT !.status = "suspended", !.cookie = FALSE]
  /\ job' = Withdrawn({"account", "credential"}, 0)
  /\ UNCHANGED <<doc, template, purge, faults>>

Reinstate ==
  /\ Act
  /\ acct.status = "suspended"
  /\ acct' = [acct EXCEPT !.status = "active"]
  /\ UNCHANGED <<doc, template, job, purge, faults>>

PurgeDocs_AccountFirst ==
  /\ purge.at = "docs"
  /\ purge' = [purge EXCEPT !.at = "account"]
  /\ acct' = [acct EXCEPT !.status = "gone", !.cookie = FALSE]
  /\ UNCHANGED <<doc, template, job, requests, faults>>

\* purge_test_rows(): the owner's agreements are looked up, ...
PurgeRead ==
  /\ Act
  /\ purge.at = "idle" /\ acct.status # "gone"
  /\ purge' = [at |-> "docs",
               ids |-> {d \in Docs : doc[d].status \in Known}]
  /\ UNCHANGED <<acct, doc, template, job, faults>>

\* ... removed in one commit, their files left, ...
PurgeDocs ==
  /\ purge.at = "docs"
  /\ purge' = [purge EXCEPT !.at = "account"]
  /\ doc' = [d \in Docs |-> IF d \in purge.ids
                            THEN [Removed(doc[d]) EXCEPT !.file = doc[d].file]
                            ELSE doc[d]]
  /\ UNCHANGED <<acct, template, job, requests, faults>>

\* ... and then the account is.
PurgeAccount ==
  /\ purge.at = "account"
  /\ purge' = NoPurge
  /\ acct' = [acct EXCEPT !.status = "gone", !.cookie = FALSE]
  /\ job' = Withdrawn({"account", "credential"}, 0)
  /\ UNCHANGED <<doc, template, requests, faults>>

\* The process ends, and with it every request of one worker, or the purge.
Crash(w) ==
  /\ faults < MaxFaults
  /\ faults' = faults + 1
  /\ \/ ~At(w, "idle") /\ Done(w) /\ UNCHANGED purge
     \/ purge # NoPurge /\ purge' = NoPurge /\ UNCHANGED job
  /\ UNCHANGED <<acct, doc, template, requests>>

Step(w) ==
  \/ Authenticate(w) \/ Resolve(w) \/ Own(w) \/ Paid(w)
  \/ PutMessage(w) \/ KeepMessage(w)
  \/ ReadRow(w) \/ ReadRows(w) \/ ReadLayout(w)
  \/ Create(w) \/ AskSigners(w) \/ PutSigners(w) \/ AskFields(w)
  \/ PutFields(w) \/ PutMode(w) \/ Unlink(w) \/ RemoveRows(w)
  \/ Freeze(w) \/ SendCommit(w) \/ VoidRow(w)
  \/ Insert(w) \/ ReadTemplate(w) \/ ReadIds(w)
  \/ IssueKey(w) \/ RevokeKey(w)

Request(w) ==
  \/ PostCreate(w) \/ PostUse(w) \/ PostKey(w)
  \/ \E d \in Docs :
       /\ doc[d].status # "none"
       /\ \/ PostSigners(w, d) \/ PostFields(w, d) \/ PostDetect(w, d)
          \/ PostOrder(w, d) \/ PostSend(w, d) \/ PostDelete(w, d)
          \/ PostVoid(w, d) \/ PostTemplate(w, d) \/ PostExplicit(w, d)

Next ==
  \/ \E w \in Workers : Request(w) \/ Step(w) \/ Crash(w)
  \/ Suspend \/ Reinstate
  \/ PurgeRead \/ PurgeDocs \/ PurgeAccount

Spec == Init /\ [][Next]_vars

-----------------------------------------------------------------------------
(* Properties                                                              *)

\* A field is never another party's: with the signers replaced, a draft saved
\* as a template, and the template filled with other people, each field that
\* has a signer has the one it was meant for, or whoever took that place;
\* except where the signers were replaced while the template was saved or
\* used, when it is known to have come loose ("signer references can be
\* re-pointed at instantiation").
FieldsStayWithTheirParty ==
  \A d \in Docs : \A f \in doc[d].fields :
    (\E s \in doc[d].signers : s.id = f.signer) =>
      \/ doc[d].issued[f.signer] = f.who
      \/ f.loose
      \/ f.who = "nobody"

\* Everyone who is asked to sign has a link, unless the signers were replaced
\* between send()'s reading them and its commit, or by a request that had
\* found a draft before it.
SentWithLinks ==
  \A d \in Docs : doc[d].status = "out" =>
    \/ doc[d].signers # {} /\ \A s \in doc[d].signers : s.link
    \/ doc[d].crossed

\* What of a document the sender lays out.
Layout(a) ==
  [signers |-> {[r EXCEPT !.link = FALSE] : r \in a.signers},
   fields |-> a.fields, mode |-> a.mode]

\* Once a document is out, or voided, its signers, fields and order stay as
\* they are, and it is not removed, but for requests that had found it a draft
\* when it went out or was voided, and the operator ("Post-send immutability",
\* EDITOR-1; "a sent ... envelope is a legal record and can only be voided,
\* never deleted").
SentIsKept ==
  [][\A d \in Docs :
       Closed(doc[d]) /\ ~(Closed(doc[d])' /\ UNCHANGED Layout(doc[d])) =>
         \/ \E w \in Workers : job[w].late /\ job[w].doc = d /\ job'[w] # job[w]
         \/ PurgeDocs]_vars

\* Whatever happens to a document is done for an account that is active and
\* with a credential that stands; what was withdrawn in between was withdrawn
\* after the request had looked at it for the last time.  For a send that is
\* can_send(), which reads the account again.
EffectsAuthorised ==
  [][\A w \in Workers :
       job'[w] # job[w] /\ doc' # doc =>
         /\ acct.status = "active" \/ "account" \in job[w].withdrawn
         /\ \/ IF job[w].via = 0 THEN acct.cookie ELSE job[w].via \in acct.keys
            \/ "credential" \in job[w].withdrawn]_vars

\* No document outlives its owner, whatever order requests, the purge and a
\* crash in the middle of it come in; except one that was created after the
\* purge had looked for the owner's documents.
NoOrphans ==
  \A d \in Docs :
    acct.status = "gone" /\ doc[d].status \in Known => doc[d].stray
=============================================================================
