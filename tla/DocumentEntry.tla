---------------------------- MODULE DocumentEntry ----------------------------
(***************************************************************************)
(* A document from the browser that enters it to the stock it moves.       *)
(*                                                                         *)
(* A tab of the web client holds an entry form or a document's page, and   *)
(* has at most one request running; the buttons it offers follow the       *)
(* status it last loaded.  The server runs each request on a worker.  A    *)
(* worker reads the document, checks its status and writes later, without  *)
(* a lock and without a condition on what it read.  A request the browser  *)
(* gives up on goes on all the same.  Vouchers are documents of another    *)
(* product (Books), sent by createAndPost() with one Idempotency-Key and   *)
(* retried at will.                                                        *)
(*                                                                         *)
(* What Books answers to a post, and the steps of that handshake, are      *)
(* BooksHandoff; here a post is accepted or undone by a reversal.          *)
(***************************************************************************)
EXTENDS Naturals, FiniteSets

CONSTANTS
    Docs,       \* rows of inv_documents
    Tabs,       \* browser tabs
    Can,        \* the actions the user of a tab holds a permission for
    Vouchers,   \* source documents of another product, and their idempotency keys
    Workers,    \* requests the server can be running
    None,       \* no document, no worker
    MaxGen,     \* bound on the edits of a document
    MaxTries,   \* bound on the times a voucher is sent
    MaxFaults,  \* bound on requests given up by the browser and workers killed
    MaxLost     \* bound on writes that undo what happened since their read

ASSUME EntryAssumption ==
    /\ None \notin Docs \cup Tabs \cup Vouchers \cup Workers
    /\ Tabs \cap Vouchers = {}
    /\ Can \in [Tabs -> SUBSET {"create", "update", "submit", "approve", "reject", "cancel", "post", "reverse"}]
    /\ MaxGen \in Nat \ {0} /\ MaxTries \in Nat /\ MaxFaults \in Nat /\ MaxLost \in Nat

VARIABLES
    approvalRequired,   \* the company's setting
    doc,                \* inv_documents with its lines
    ledger,             \* inv_stock_movements
    approved,           \* ghost: the line rows the last approval was given to
    work,               \* what each server worker is running
    screen,             \* what each browser tab shows
    sent,               \* the request it waits for
    key,                \* inv_idempotency_keys: the document remembered for a voucher
    tries,              \* how often a voucher was sent
    lost,               \* ghost: writes that undid what happened since their read
    faults

tab == <<screen, sent>>
vars == <<approvalRequired, doc, ledger, approved, work, screen, sent, key, tries, lost, faults>>

Status == {"none", "DRAFT", "PENDING_APPROVAL", "APPROVED", "POSTED",
           "CANCELLED", "REVERSED", "FAILED"}
Editable == {"DRAFT", "PENDING_APPROVAL", "APPROVED", "FAILED"}

\* A row: every update writes new line rows, so gen stands for their ids.
Row == [status : Status, gen : 0..MaxGen, by : Tabs \cup Vouchers \cup {None}]
Movement == [doc : Docs, gen : 0..MaxGen, kind : {"physical", "reversal"}]

Actions == {"submit", "approve", "reject", "cancel", "post", "reverse"}
Ops == Actions \cup {"create", "update", "deliver", "undo"}
Stage == {"arrived", "insert", "commit", "failing", "books", "remember"}
Result == {"ok", "duplicate", "refused", "error", "undone", "unresolved"}

Request == [op : Ops, by : Tabs \cup Vouchers, doc : Docs \cup {None},
            stage : Stage, saw : Row]

ASSUME NoneAssumption == None \notin Request

NoRow == [status |-> "none", gen |-> 0, by |-> None]
NewRequest(o, b, d) ==
    [op |-> o, by |-> b, doc |-> d, stage |-> "arrived", saw |-> NoRow]

\* The same request further on.
Ahead(r, d, s, row) == [op |-> r.op, by |-> r.by, doc |-> d, stage |-> s, saw |-> row]

\* What a tab says, as far as the properties tell messages apart.
Told == {"none", "posted", "notPosted", "refused"}
Screen == [view : {"closed", "form", "page"}, doc : Docs \cup {None}, shown : Status, told : Told]
Sent == [busy : {"none", "save", "saveAndPost", "post", "act"}, call : Workers \cup {None}, clicked : Status]

Showing(v, d, s, m) == [view |-> v, doc |-> d, shown |-> s, told |-> m]
Waiting(b, w, s) == [busy |-> b, call |-> w, clicked |-> s]
Free == Waiting("none", None, "none")

(***************************************************************************)
(* Every variable has its type.                                            *)
(***************************************************************************)
TypeOK ==
    /\ approvalRequired \in BOOLEAN
    /\ doc \in [Docs -> Row]
    /\ ledger \subseteq Movement
    /\ approved \in [Docs -> 0..MaxGen]
    /\ work \in [Workers -> Request \cup {None}]
    /\ screen \in [Tabs -> Screen]
    /\ sent \in [Tabs -> Sent]
    /\ key \in [Vouchers -> Docs \cup {None}]
    /\ tries \in [Vouchers -> 0..MaxTries]
    /\ lost \in 0..MaxLost
    /\ faults \in 0..MaxFaults

Init ==
    /\ approvalRequired \in BOOLEAN
    /\ doc = [d \in Docs |-> NoRow]
    /\ ledger = {}
    /\ approved = [d \in Docs |-> 0]
    /\ work = [w \in Workers |-> None]
    /\ screen = [t \in Tabs |-> Showing("closed", None, "none", "none")]
    /\ sent = [t \in Tabs |-> Free]
    /\ key = [v \in Vouchers |-> None]
    /\ tries = [v \in Vouchers |-> 0]
    /\ lost = 0
    /\ faults = 0

server == <<approvalRequired, doc, ledger, approved, key, lost>>

Fault == faults < MaxFaults /\ faults' = faults + 1

-----------------------------------------------------------------------------
(* The status gates, once as the client has them and once as the server.   *)

\* actions.ts, STATUS_GATES
OffersCancelled(a, s) == a = "cancel" \/ s \in Editable
Offers(a, s) ==
    \/ a \in {"update", "cancel"} /\ s \in {"DRAFT", "PENDING_APPROVAL", "APPROVED", "FAILED"}
    \/ a = "submit" /\ s \in {"DRAFT", "FAILED"}
    \/ a = "approve" /\ s \in {"DRAFT", "PENDING_APPROVAL"}
    \/ a = "reject" /\ s \in {"PENDING_APPROVAL", "APPROVED"}
    \/ a = "post" /\ s \in {"DRAFT", "APPROVED", "PENDING_APPROVAL", "FAILED"}
    \/ a = "reverse" /\ s = "POSTED"

\* DocumentService, DocumentPostingService
AcceptsAny(o, s) == s \notin {"CANCELLED", "REVERSED"}
Accepts(o, s) ==
    \/ o \in {"update", "cancel"} /\ s \in Editable
    \/ o = "submit" /\ s \in {"DRAFT", "FAILED"}
    \/ o = "approve" /\ s \in {"DRAFT", "PENDING_APPROVAL"}
    \/ o = "reject" /\ s \in {"PENDING_APPROVAL", "APPROVED"}
    \/ o \in {"post", "deliver"} /\ s \in {"DRAFT", "APPROVED", "PENDING_APPROVAL", "FAILED"}
    \/ o \in {"reverse", "undo"} /\ s = "POSTED"

\* post() and reverse() answer "duplicate" for what is done already.
DoneUnlessOpen(o, s) ==
    \/ o \in {"post", "deliver"} /\ s \notin Editable
    \/ o \in {"reverse", "undo"} /\ s = "REVERSED"
AlreadyDone(o, s) ==
    \/ o \in {"post", "deliver"} /\ s = "POSTED"
    \/ o \in {"reverse", "undo"} /\ s = "REVERSED"

NeedsApproval(r, s) == approvalRequired /\ r.op = "post" /\ s # "APPROVED"

\* uq_inv_documents_source: one live document per source document.
NoIndex(b, d) == TRUE
Live(s) == s \notin {"none", "CANCELLED", "REVERSED", "FAILED"}
SourceFree(b, d) ==
    b \in Vouchers => \A e \in Docs \ {d} : ~(doc[e].by = b /\ Live(doc[e].status))

-----------------------------------------------------------------------------
(* The browser.                                                            *)

Show(t, v, d, s, m) == screen' = [screen EXCEPT ![t] = Showing(v, d, s, m)]

Send(t, w, r, busy) ==
    /\ work[w] = None
    /\ work' = [work EXCEPT ![w] = r]
    /\ sent' = [sent EXCEPT ![t] = Waiting(busy, w, screen[t].shown)]
    /\ Show(t, screen[t].view, screen[t].doc, screen[t].shown, "none")

OpenForm(t) ==
    /\ screen[t].view = "closed" /\ "create" \in Can[t]
    /\ Show(t, "form", None, "none", "none")
    /\ UNCHANGED <<server, work, sent, tries, faults>>

\* DocumentDetailPage loads, or loads again after an action.
LoadPage(t, d) ==
    /\ \/ screen[t].view = "closed"
       \/ screen[t].view = "page" /\ screen[t].doc = d
    /\ doc[d].status # "none"
    /\ Show(t, "page", d, doc[d].status, screen[t].told)
    /\ UNCHANGED <<server, work, sent, tries, faults>>

\* The Edit link: DocumentFormPage loads the document and refuses what is not editable.
OpenEdit(t) ==
    LET d == screen[t].doc IN
    /\ screen[t].view = "page" /\ sent[t].call = None
    /\ Offers("update", screen[t].shown) /\ "update" \in Can[t]
    /\ Offers("update", doc[d].status)
    /\ Show(t, "form", d, doc[d].status, "none")
    /\ UNCHANGED <<server, work, sent, tries, faults>>

SaveOp(d) == IF d = None THEN "create" ELSE "update"

\* submit(post) of a form: create the first time, update once the id is known.
Save(t, w, post) ==
    LET d == screen[t].doc IN
    /\ screen[t].view = "form" /\ sent[t].call = None
    /\ SaveOp(d) \in Can[t] /\ (post => "post" \in Can[t])
    /\ Send(t, w, NewRequest(SaveOp(d), t, d), IF post THEN "saveAndPost" ELSE "save")
    /\ UNCHANGED <<server, tries, faults>>

\* A button of the page, with its dialog.
Act(t, w, a) ==
    /\ screen[t].view = "page" /\ sent[t].call = None
    /\ Offers(a, screen[t].shown) /\ a \in Can[t]
    /\ Send(t, w, NewRequest(a, t, screen[t].doc), "act")
    /\ UNCHANGED <<server, tries, faults>>

Waits(t, w) == sent[t].call = w

\* The form's document once a save has answered: submit() keeps the id at once,
\* so that a post refused next does not make the next save create again.
KeepsAtEnd(t, d) == IF sent[t].busy = "save" THEN d ELSE screen[t].doc
SavedId(t, d) == d

\* A document just created is a draft.
Drafted(s) == IF s = "none" THEN "DRAFT" ELSE s

\* A saved form goes on to post, or leaves for the document's page.
FormSaved(t, w, d) ==
    IF sent[t].busy = "saveAndPost"
    THEN /\ work' = [work EXCEPT ![w] = NewRequest("post", t, d)]
         /\ Show(t, screen[t].view, SavedId(t, d), Drafted(screen[t].shown), "none")
         /\ sent' = [sent EXCEPT ![t] = Waiting("post", w, Drafted(sent[t].clicked))]
    ELSE /\ work' = [work EXCEPT ![w] = None]
         /\ Show(t, "page", d, "none", "none")
         /\ sent' = [sent EXCEPT ![t] = Free]

\* What the tab says: parseBooksHandoff() and its callers.  A form whose post
\* was not undone says "Draft #id is saved but was not posted."
Message(t, r, res) ==
    IF res \in {"ok", "duplicate"} /\ r.op = "post" THEN "posted"
    ELSE IF res = "unresolved" /\ screen[t].view = "form" THEN "notPosted"
    ELSE IF res = "refused" THEN "refused" ELSE "none"

TabHears(t, w, r, res) ==
    /\ work' = [work EXCEPT ![w] = None]
    /\ sent' = [sent EXCEPT ![t] = Free]
    /\ IF res \in {"ok", "duplicate"}
       THEN Show(t, "page", r.doc, IF screen[t].view = "form" THEN "none" ELSE screen[t].shown, Message(t, r, res))
       ELSE Show(t, screen[t].view, screen[t].doc, screen[t].shown, Message(t, r, res))

\* The server answers; an answer nobody waits for is dropped.
Answer(w, d, res) ==
    LET r == work[w] IN
    IF \E t \in Tabs : Waits(t, w)
    THEN \E t \in Tabs : /\ Waits(t, w)
                         /\ IF r.op \in {"create", "update"} /\ res = "ok"
                            THEN FormSaved(t, w, d)
                            ELSE TabHears(t, w, r, res)
    ELSE /\ work' = [work EXCEPT ![w] = None]
         /\ UNCHANGED tab

\* exchange() stops waiting after 30 s, or the connection breaks.  The request
\* may never have arrived; otherwise the server goes on with it.
GiveUp(t) ==
    LET w == sent[t].call IN
    /\ w # None
    /\ Fault
    /\ sent' = [sent EXCEPT ![t] = Free]
    /\ \/ work[w].stage = "arrived" /\ work' = [work EXCEPT ![w] = None]
       \/ UNCHANGED work
    /\ UNCHANGED <<server, screen, tries>>

\* Another product sends its voucher, again if it likes, with the same key.
SendVoucher(v, w) ==
    /\ tries[v] < MaxTries
    /\ work[w] = None
    /\ tries' = [tries EXCEPT ![v] = @ + 1]
    /\ work' = [work EXCEPT ![w] = NewRequest("deliver", v, None)]
    /\ UNCHANGED <<server, tab, faults>>

-----------------------------------------------------------------------------
(* The server.  Each step of a worker is one read, one transaction, one    *)
(* autocommitted statement or the exchange with Books.                     *)

At(w, s) == work[w] # None /\ work[w].stage = s

Proceed(w, r) == work' = [work EXCEPT ![w] = r] /\ UNCHANGED tab

\* DocumentService::create(), for a form or for a voucher.
Insert(r, d) ==
    /\ doc[d].status = "none"
    /\ doc' = [doc EXCEPT ![d] = [status |-> "DRAFT", gen |-> 1, by |-> r.by]]

Create(w) ==
    /\ At(w, "arrived") /\ work[w].op = "create"
    /\ \E d \in Docs : Insert(work[w], d) /\ Answer(w, d, "ok")
    /\ UNCHANGED <<approvalRequired, ledger, approved, key, lost, tries, faults>>

\* createInternal(): the remembered answer, then the guard on the source document.
LookUp(w) ==
    LET r == work[w]
        found == {d \in Docs : doc[d].by = r.by /\ Live(doc[d].status)}
    IN
    /\ At(w, "arrived") /\ r.op = "deliver" /\ r.doc = None
    /\ \/ key[r.by] # None /\ Answer(w, key[r.by], "duplicate")
       \/ key[r.by] = None /\ \E d \in found : Proceed(w, Ahead(r, d, "remember", r.saw))
       \/ key[r.by] = None /\ found = {} /\ Proceed(w, Ahead(r, None, "insert", r.saw))
    /\ UNCHANGED <<server, tries, faults>>

InsertVoucher(w) ==
    LET r == work[w] IN
    /\ At(w, "insert")
    /\ \/ \E d \in Docs : /\ SourceFree(r.by, d)
                          /\ Insert(r, d)
                          /\ Proceed(w, Ahead(r, d, "arrived", r.saw))
       \/ \E d \in Docs : ~SourceFree(r.by, d) /\ Answer(w, None, "error") /\ UNCHANGED doc
    /\ UNCHANGED <<approvalRequired, ledger, approved, key, lost, tries, faults>>

\* remember() keeps the first answer to a key.
Remember(w) ==
    LET r == work[w] IN
    /\ At(w, "remember")
    /\ key' = [key EXCEPT ![r.by] = IF @ = None THEN r.doc ELSE @]
    /\ Answer(w, r.doc, "ok")
    /\ UNCHANGED <<approvalRequired, doc, ledger, approved, lost, tries, faults>>

\* The end of a request that has a document.
Conclude(w, res) ==
    LET r == work[w] IN
    IF r.op = "deliver" /\ res \in {"ok", "duplicate"}
    THEN Proceed(w, Ahead(r, r.doc, "remember", r.saw))
    ELSE Answer(w, r.doc, res)

\* What the caller of undoPostBooksWouldNotTake() is told.
Undoing(r, done, otherwise) == IF r.op = "undo" THEN done ELSE otherwise

\* The unlocked read and the checks on it.
Read(w) ==
    LET r == work[w]
        row == doc[r.doc]
    IN
    /\ At(w, "arrived") /\ r.doc # None
    /\ IF AlreadyDone(r.op, row.status) THEN Conclude(w, Undoing(r, "undone", "duplicate"))
       ELSE IF ~Accepts(r.op, row.status) \/ NeedsApproval(r, row.status)
            THEN Conclude(w, Undoing(r, "unresolved", "refused"))
            ELSE Proceed(w, Ahead(r, r.doc, "commit", row))
    /\ UNCHANGED <<server, tries, faults>>

\* Nothing makes a write depend on what was read still being so.  These are
\* the writes that undo something: a status written over a document that has
\* moved its stock meanwhile, an edit that keeps an approval given meanwhile,
\* an approval or a post of lines that are no longer the document's.
Undoes(o, saw, row) ==
    \/ o \notin {"post", "deliver", "reverse", "undo"}
       /\ row.status \in {"POSTED", "REVERSED"} \ {saw.status}
    \/ o = "update" /\ row.status = "APPROVED" /\ saw.status \notin {"APPROVED", "PENDING_APPROVAL"}
    \/ o \in {"approve", "post", "deliver"} /\ row.gen # saw.gen

Overwrites(w, o) ==
    LET r == work[w] IN
    IF Undoes(o, r.saw, doc[r.doc]) THEN lost < MaxLost /\ lost' = lost + 1 ELSE UNCHANGED lost

SetStatus(d, s) == doc' = [doc EXCEPT ![d] = [status |-> s, gen |-> doc[d].gen, by |-> doc[d].by]]

\* transition() and cancelDraft(): an UPDATE with no condition on the status.
\* Nobody looks whether it succeeded: one that the index refuses, which DBDebug
\* off does not raise, is answered like any other.
RejectedStatus(o) == IF o = "approve" THEN "APPROVED" ELSE "REJECTED"
NextStatus(o) ==
    IF o = "submit" THEN "PENDING_APPROVAL"
    ELSE IF o = "approve" THEN "APPROVED"
    ELSE IF o = "reject" THEN "DRAFT" ELSE "CANCELLED"

Transition(w) ==
    LET r == work[w] IN
    /\ At(w, "commit") /\ r.op \in {"submit", "approve", "reject", "cancel"}
    /\ IF Live(NextStatus(r.op)) /\ ~SourceFree(doc[r.doc].by, r.doc)
       THEN UNCHANGED <<doc, approved, lost>> /\ Conclude(w, "ok")
       ELSE /\ Overwrites(w, r.op)
            /\ SetStatus(r.doc, NextStatus(r.op))
            /\ approved' = IF r.op = "approve" THEN [approved EXCEPT ![r.doc] = r.saw.gen] ELSE approved
            /\ Conclude(w, "ok")
    /\ UNCHANGED <<approvalRequired, ledger, key, tries, faults>>

\* update(): new lines; "an edit invalidates the approval" that it read.
KeepsApproval(saw, now) == now
StatusAfterEdit(saw, now) == IF saw \in {"APPROVED", "PENDING_APPROVAL"} THEN "DRAFT" ELSE now

Update(w) ==
    LET r == work[w]
        row == doc[r.doc]
        s == StatusAfterEdit(r.saw.status, row.status)
    IN
    /\ At(w, "commit") /\ r.op = "update"
    /\ row.gen < MaxGen
    /\ IF Live(s) /\ ~SourceFree(row.by, r.doc)
       THEN UNCHANGED <<doc, lost>> /\ Conclude(w, "error")
       ELSE /\ Overwrites(w, r.op)
            /\ doc' = [doc EXCEPT ![r.doc] = [status |-> s, gen |-> row.gen + 1, by |-> row.by]]
            /\ Conclude(w, "ok")
    /\ UNCHANGED <<approvalRequired, ledger, approved, key, tries, faults>>

\* uq_inv_stock_movements_line
Unmoved(d, g, k) == ~\E m \in ledger : m.doc = d /\ m.gen = g /\ m.kind = k

\* post(): the transaction, with the lines that were read.
Post(w) ==
    LET r == work[w]
        d == r.doc
    IN
    /\ At(w, "commit") /\ r.op \in {"post", "deliver"}
    /\ Unmoved(d, r.saw.gen, "physical") /\ SourceFree(doc[d].by, d)
    /\ Overwrites(w, r.op)
    /\ SetStatus(d, "POSTED")
    /\ ledger' = ledger \cup {[doc |-> d, gen |-> r.saw.gen, kind |-> "physical"]}
    /\ Proceed(w, Ahead(r, d, "books", r.saw))
    /\ UNCHANGED <<approvalRequired, approved, key, tries, faults>>

\* The transaction rolls back, on a business rule or on an index.  The index on
\* the source refuses the first UPDATE silently, and thereby every later one.
PostFails(w) ==
    LET r == work[w] IN
    /\ At(w, "commit") /\ r.op \in {"post", "deliver"}
    /\ Proceed(w, Ahead(r, r.doc, "failing", r.saw))
    /\ UNCHANGED <<server, tries, faults>>

\* The catch block.
MarkFailed(w) ==
    LET r == work[w] IN
    /\ At(w, "failing")
    /\ Overwrites(w, "fail")
    /\ SetStatus(r.doc, "FAILED")
    /\ Conclude(w, "error")
    /\ UNCHANGED <<approvalRequired, ledger, approved, key, tries, faults>>

\* Books takes the journal (or none is waited for), or the post is undone.
BooksAnswers(w) ==
    LET r == work[w] IN
    /\ At(w, "books")
    /\ \/ Conclude(w, "ok")
       \/ Proceed(w, NewRequest("undo", r.by, r.doc))
    /\ UNCHANGED <<server, tries, faults>>

\* reverse(): a compensating row for every movement of the document.
Reverse(w) ==
    LET r == work[w]
        moves == {m \in ledger : m.doc = r.doc /\ m.kind = "physical"}
    IN
    /\ At(w, "commit") /\ r.op \in {"reverse", "undo"}
    /\ \A m \in moves : Unmoved(r.doc, m.gen, "reversal")
    /\ Overwrites(w, r.op)
    /\ SetStatus(r.doc, "REVERSED")
    /\ ledger' = ledger \cup {[doc |-> r.doc, gen |-> m.gen, kind |-> "reversal"] : m \in moves}
    /\ Conclude(w, Undoing(r, "undone", "ok"))
    /\ UNCHANGED <<approvalRequired, approved, key, tries, faults>>

\* A closed period, a packing list that was issued, or the index.
ReverseFails(w) ==
    /\ At(w, "commit") /\ work[w].op \in {"reverse", "undo"}
    /\ Conclude(w, Undoing(work[w], "unresolved", "error"))
    /\ UNCHANGED <<server, tries, faults>>

\* The worker is killed; the browser gets a gateway error.
Crash(w) ==
    /\ work[w] # None
    /\ Fault
    /\ Answer(w, None, "error")
    /\ UNCHANGED <<server, tries>>

-----------------------------------------------------------------------------
ServerStep(w) ==
    \/ Create(w) \/ LookUp(w) \/ InsertVoucher(w) \/ Remember(w)
    \/ Read(w) \/ Transition(w) \/ Update(w)
    \/ Post(w) \/ PostFails(w) \/ MarkFailed(w) \/ BooksAnswers(w)
    \/ Reverse(w) \/ ReverseFails(w)

TabStep(t) ==
    \/ OpenForm(t) \/ OpenEdit(t)
    \/ \E d \in Docs : LoadPage(t, d)
    \/ \E w \in Workers, p \in BOOLEAN : Save(t, w, p)
    \/ \E w \in Workers, a \in Actions : Act(t, w, a)
    \/ GiveUp(t)

Next ==
    \/ \E t \in Tabs : TabStep(t)
    \/ \E v \in Vouchers, w \in Workers : SendVoucher(v, w)
    \/ \E w \in Workers : ServerStep(w) \/ Crash(w)

Spec == Init /\ [][Next]_vars

-----------------------------------------------------------------------------
Moves(d, k) == {m \in ledger : m.doc = d /\ m.kind = k}
Holds(d) == Cardinality(Moves(d, "physical")) > Cardinality(Moves(d, "reversal"))

(***************************************************************************)
(* One entry makes one document: a form whose post is refused, undone or   *)
(* answered with an error saves the same document again, and makes another *)
(* only after an answer to its create was lost.                            *)
(***************************************************************************)
OneDocumentPerEntry ==
    \A t \in Tabs : Cardinality({d \in Docs : doc[d].by = t}) <= 1 + faults

(***************************************************************************)
(* A tab that says "posted" speaks of a document whose stock has moved.    *)
(* post() also says so of a document somebody else posted.                 *)
(***************************************************************************)
ToldPostedMovedStock ==
    \A t \in Tabs : screen[t].told = "posted" => Moves(screen[t].doc, "physical") # {}

(***************************************************************************)
(* While no write was lost, a document's status says what its stock did,   *)
(* and the lines it shows are the lines that moved.                        *)
(***************************************************************************)
StatusMatchesStock ==
    lost = 0 => \A d \in Docs :
        /\ doc[d].status = "POSTED" <=> Holds(d)
        /\ doc[d].status \in {"POSTED", "REVERSED"} <=> Moves(d, "physical") # {}
        /\ \A m \in Moves(d, "physical") : m.gen = doc[d].gen

(***************************************************************************)
(* "An edit invalidates the approval": while no write was lost, an         *)
(* approved document holds the lines that were approved, and where         *)
(* approval is required no other lines of an entry move stock.             *)
(***************************************************************************)
ApprovalCoversLines ==
    lost = 0 => \A d \in Docs :
        /\ doc[d].status = "APPROVED" => approved[d] = doc[d].gen
        /\ approvalRequired /\ doc[d].by \in Tabs =>
             \A m \in Moves(d, "physical") : m.gen = approved[d]

(***************************************************************************)
(* However often a voucher is sent, and whatever users do to its document, *)
(* at most one document of it holds stock while no write was lost.         *)
(***************************************************************************)
VoucherMovesOnce ==
    lost = 0 => \A v \in Vouchers : Cardinality({d \in Docs : doc[d].by = v /\ Holds(d)}) <= 1

(***************************************************************************)
(* "Mirroring the server exactly": the server refuses an action a tab      *)
(* offered only when the document changed status after the tab loaded it,  *)
(* or when it must be approved first.                                      *)
(***************************************************************************)
OnlyStaleRefused ==
    [][\A t \in Tabs : screen'[t].told = "refused" /\ sent[t].call # None =>
          LET r == work[sent[t].call] IN
          sent[t].clicked # doc[r.doc].status \/ NeedsApproval(r, doc[r.doc].status)]_vars

-----------------------------------------------------------------------------
(***************************************************************************)
(* A form says "Draft #id is saved but was not posted." only of a document *)
(* that moved no stock.                                                    *)
(***************************************************************************)
NotPostedMovedNothing ==
    \A t \in Tabs : screen[t].told = "notPosted" => ~Holds(screen[t].doc)
=============================================================================
